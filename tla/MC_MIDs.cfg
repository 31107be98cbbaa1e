CONSTANTS
    c1 = c1
    c2 = c2
    c3 = c3
    Ctx <- MCCtx
    MaxID = 3
    NoCtx = NoCtx
SPECIFICATION Spec
SYMMETRY MCSymmetry
INVARIANTS
    IndexOwned
