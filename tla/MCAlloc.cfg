SPECIFICATION Spec
CONSTANTS
    Holders = {p1, p2, p3}
    NumClasses = 3
    Page = 5
    GrowPages = 1
    Space = 30
    Base = 5
    Layouts <- MCLayouts
SYMMETRY Symmetry
INVARIANTS
    NoOverlap
    NothingLost
    AllocatedExact
PROPERTY GrowsOnlyWhenNothingFits
