SPECIFICATION Spec
CONSTANTS
    Ids = {m1, m2}
    None = none
    Uart = uart
    Bt = bt
INVARIANTS
    TypeOK
    OneDriver
    StreamsClosedOnce
    ReadIsPublished
PROPERTIES
    Reconnects
