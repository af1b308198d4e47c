SPECIFICATION ErasureSpec
CONSTANTS
    Persons = {y1}
    PrivacyCalls = {k1, k2}
    Grace = 1
    MaxDsr = 2
    MaxErasureDay = 2
INVARIANT DeletionCanBeUndone
CHECK_DEADLOCK FALSE
