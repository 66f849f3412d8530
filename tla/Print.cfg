\* Two calls in a row under every mode; two faults: a late reply and a failure.
CONSTANTS
    Modes = {"cloud_only", "try_lan_first", "lan_only", "makerworld_only"}
    Folders = {"/", "/sdcard"}
    RootSets = {{}, {"/sdcard"}, {"/usb", "/"}}
    MaxCalls = 2
    MaxFaults = 2
    MaxPolls = 2
    Chunks = 2
SPECIFICATION Spec
INVARIANTS CallSound
PROPERTIES PrintSound
