SPECIFICATION Spec
CONSTANTS
    Conns = {c1, c2}
    None = none
    Amp = amp
    Requests = {r1, r2}
    Malformed = malformed
    Newline = newline
    MaxMessages = 2
INVARIANTS
    TypeOK
    NothingLost
    AnswersAsker
    ConnectedIsPublished
PROPERTIES
    NothingWaits
CHECK_DEADLOCK FALSE
