SPECIFICATION Spec
CONSTANTS
    MaxTimers = 2
    MaxLines = 1
INVARIANTS
    TypeOK
    TimerMeansHeld
    NeverHalfOpen
PROPERTIES
    HoldOpens
\* The program ends when a D-Bus call fails in a callback.
CHECK_DEADLOCK FALSE
