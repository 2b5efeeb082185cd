SPECIFICATION Spec
CONSTANTS
    n1 = n1
    n2 = n2
    Names = {n1, n2}
    Accepts <- MCAccepts
INVARIANT KilledNotRestored
PROPERTY KeySessionsRetried
