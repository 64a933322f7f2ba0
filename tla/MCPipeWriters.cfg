CONSTANTS
    frames = frames
    audio = audio
    signal = signal
    Writer = {frames, audio}
    MaxSent = 1
    HasBody <- Bodies
    Deadline = FALSE
SPECIFICATION PipeSpec
INVARIANTS
    Framed
CHECK_DEADLOCK FALSE
