SPECIFICATION Spec
CONSTANTS
    Plain = {"a", "b"}
    Words = {"-h", "-m", "--midiFile", "-p", "-c", "--disableUart", "-x", "a", "b"}
    MaxWords = 4
    Data = {"heartbeat", "change", "dump", "x"}
    MaxData = 2
    MaxFrames = 3
    Commands = {"dump", "lamp", "wideStereo", "preset"}
    MaxCommands = 3
    Characters = {"a", "two", "four", " ", "nul"}
    MaxSent = 5
INVARIANTS
    ArgsMatchScan
    ReadsFromNextMessage
    WritesAreHeard
    LinesArrive
\* Every conversion stops at its bounds.
CHECK_DEADLOCK FALSE
