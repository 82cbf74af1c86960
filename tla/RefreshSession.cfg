SPECIFICATION Spec
CONSTANTS
    Request = {r1, r2}
    Idle = 2
    Absolute = 3
    Grace = 1
    MaxTime = 3
    MaxToken = 2
    MaxVersion = 1
SYMMETRY Interchangeable
PROPERTIES
    RevokedIsFinal
    AnswersNeedALiveSession
    AnswersAreCurrent
CHECK_DEADLOCK FALSE
