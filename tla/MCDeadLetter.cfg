\* One reminder, two operators, two seconds; a replay can fail, be copied and be
\* replayed again.
SPECIFICATION Spec
CONSTANTS
    o1 = o1
    o2 = o2
    Operators <- TwoOperators
    LastSecond = 1
    MaxMessages = 4
    MaxLetters = 3
SYMMETRY OperatorSymmetry
INVARIANTS
    TypeOK
    NothingLost
    CopiesAccounted
    ReplaysDistinct
CHECK_DEADLOCK FALSE
