SPECIFICATION Spec
CONSTANTS
  Video <- MCVideo
  ReadyCap = 2
  SeqMod = 8
  Reqs = 2
  Cmds = {"ability", "list", "zip", "download", "del", "cancel", "native"}
  FileUnits = 3
  ChunkUnits = 2
INVARIANTS StreamSound OkMeansWholeFile TransportSound
PROPERTIES TunnelLive
