CONSTANTS
    frames = frames
    audio = audio
    signal = signal
    Writer = {frames, audio, signal}
    MaxSent = 2
    HasBody <- Bodies
    Deadline = TRUE
SPECIFICATION PipeSpec
INVARIANTS
    PipeTypeOK
    ReceivedInOrder
CHECK_DEADLOCK FALSE
