CONSTANTS
    Tag = {t1, t2}
    Code = {c1, c2, c3}
    Worker = {w1}
    MaxTags = 2
SPECIFICATION Spec
SYMMETRY Symmetry
INVARIANTS OnlyCurrentCodesResolve
CHECK_DEADLOCK FALSE
