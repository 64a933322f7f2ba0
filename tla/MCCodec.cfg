CONSTANTS
    Programs = {"helper", "direct", "unix"}
    WmfKinds = {"works", "silent", "absent"}
    MaxSize = 3
    Threshold = 3
    MaxStreams = 2
    MaxRequests = 3
SPECIFICATION Spec
INVARIANTS
    TypeOK
    EncoderFits
    OneEncoder
PROPERTIES
    AnnouncedCodec
CHECK_DEADLOCK FALSE
