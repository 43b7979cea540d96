CONSTANTS
    Call = {c1, c2}
    Request = {r1, r2}
    Salt = {s1, s2}
    Authority = authority
    OtherKey = {other}
    MaxChanges = 2
    MaxAnswers = 1
SPECIFICATION Spec
INVARIANTS TypeOK YesIsFresh
PROPERTY ImplementsStrictConsistency
SYMMETRY Symmetry
CHECK_DEADLOCK FALSE
