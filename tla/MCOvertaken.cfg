SPECIFICATION RegistrySpec
CONSTANTS
    a = a
    A = A
    b = b
    Names <- PlainNames
    Fold <- PlainFold
    Objects = {o1, o2, o3, o4}
    MaxPending = 2
INVARIANT
    NewestServes
SYMMETRY Symmetric
CHECK_DEADLOCK FALSE
