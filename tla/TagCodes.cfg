CONSTANTS
    Tag = {t1, t2, t3}
    Code = {c1, c2, c3, c4}
    Worker = {w1, w2}
    MaxTags = 1
SPECIFICATION Spec
SYMMETRY Symmetry
INVARIANTS TypeOK CodesLeadToTheirTag VersionCountsCodes TagLimit
PROPERTIES RotationStrandsOnlyByRace
CHECK_DEADLOCK FALSE
