SPECIFICATION Spec
CONSTANTS
    Heartbeat = hb
    Cli = cli
    Bt = {b1}
    Board = board
    Unasked = {"btn"}
    MaxLines = 2
    MaxPending = 2
    MaxEvents = 1
    INVARIANT AnswersRouted
