\* Two jobs of any kind on one LAN or stub tunnel; the slicer cancels, shuts down
\* and releases at any time, bodies throw, the printer closes the connection.
CONSTANTS
    Jobs = {j1, j2}
    Threads = {t1, t2}
    Slicer = Slicer
    NoJob = NoJob
    Kinds = {"ability", "upload", "download", "other"}
    Urls = {"local", "cloud"}
    FSize = 2
    MaxSteps = 3
    MaxDials = 2
    MaxFaults = 1
    Events = {"cancel", "throw", "coalesce", "close", "shutdown"}
SPECIFICATION Spec
SYMMETRY Symmetry
INVARIANTS HandlesSound UploadIsWhole
