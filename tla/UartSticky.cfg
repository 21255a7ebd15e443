SPECIFICATION FairLinkSpec
CONSTANTS
    Heartbeat = hb
    Cli = cli
    Bt = {}
    Board = board
    Unasked = {"btn", "off", "bad", "noise"}
    MaxLines = 2
    MaxPending = 1
PROPERTIES
    LinesConsumed
