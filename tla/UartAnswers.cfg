SPECIFICATION Spec
CONSTANTS
    Heartbeat = hb
    Cli = cli
    Bt = {b1}
    Board = board
    Unasked = {"noise"}
    MaxLines = 1
    MaxPending = 2
    MaxEvents = 1
INVARIANTS
    TypeOK
    QueueAccounts
    NoUnderflow
    LoneRequestMatched
    SequentialAnswersRouted
