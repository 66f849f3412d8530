\* Two FEC groups of two data packets and one parity packet, three frames.
CONSTANTS
    Modes = {"Video", "Ctrl"}
    Printers = {"framed", "legacy"}
    FrameOf <- MCFrameOf
    Keys = {1, 3}
    K = 2
    M = 1
    KeepGroups = 0
    MaxQueued = 1
    Window = 2
    MaxTries = 2
    MaxRounds = 2
    MaxLogins = 1
    MaxFaults = 2
SPECIFICATION TutkSpec
INVARIANTS PicturesSound
PROPERTIES SessionSound
