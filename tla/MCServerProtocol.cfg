SPECIFICATION Spec
CONSTANTS
    BufSize = 261
    Imei <- MCImei
    Times <- MCTimes
    TagValues <- MCTagValues
    Parcels <- MCParcels
    Incoming <- MCIncoming
INVARIANTS
    TypeOK
    InsideBuf
    OutputIsEncoding
    AnswerIsFrame
PROPERTIES
    FramesAccepted
