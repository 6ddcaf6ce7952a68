------------------------------ MODULE MCEngine ------------------------------
(***************************************************************************)
(* A table of two Parquet files.  One has a row group with a page index    *)
(* and one without, pages the host inflates, a size that is not known in   *)
(* advance and a footer longer than the first read.  The other is one of   *)
(* the empty parts that writers leave behind: no row group at all.  A      *)
(* select that prunes, a full select and a COPY of everything, whose text  *)
(* may be no statement; the codec hook may refuse a page.                  *)
(***************************************************************************)
EXTENDS Engine

CONSTANTS narrow, full, copy, parquet, empty

MCParts == {parquet, empty}
MCEmpty == {empty}
MCParquet == {parquet}
MCQueries == {narrow, full, copy}
MCKind == [q \in Queries |-> IF q = copy THEN "copy" ELSE "select"]
MCSplitSeq == <<[part |-> parquet, pages |-> 2, index |-> TRUE],
                [part |-> parquet, pages |-> 1, index |-> FALSE]>>
MCRuledOut == [q \in Queries |-> IF q = narrow THEN {2} ELSE {}]
MCPrunes == [q \in Queries |-> q = narrow]
MCKeeps == [q \in Queries |-> {<<1, 2>>}]
=============================================================================
