SPECIFICATION RegistrySpec
CONSTANTS
    a = a
    A = A
    b = b
    Names <- MCNames
    Fold <- MCFold
    Objects = {o1, o2, o3, o4}
    MaxPending = 2
INVARIANTS
    ByIndexAgrees
    NoSilentLoss
    ReplacementTransparent
    OneOwnerPerName
    ReadsWhatIsWritten
PROPERTIES
    OthersUndisturbed
    PathsKeepTheirFile
    IndexesStable
SYMMETRY Symmetric
CHECK_DEADLOCK FALSE
