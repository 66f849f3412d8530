SPECIFICATION Spec
CONSTANTS
  MaxSessions = 2
  MaxPending = 2
  MaxFrames = 4
  MaxLayerFails = 1
  Buffers = 2
  MaxLoads = 2
  MaxCycles = 2
  MaxFtJobs = 2
  MaxFetches = 3
  MaxRefs = 2
  MaxCameraCalls = 2
  MaxPrepareLost = 1
  Subtasks = {1, 2, 3}
  SubtaskCap = 2
  MaxGets = 2
  SsdpCallers = {slicer, binder}
  Stopper = slicer
  MaxSockets = 3
  MaxSocketErrors = 2
  Tickets = {t1, t2}
  NoTicket = NoTicket
  MaxTicks = 2
  Bytes = {165, 167}
  MaxPayload = 2
  MaxNoise = 2
  SplitMagic = FALSE
  MaxReports = 3
  NoMachine = NoMachine
  Devs = {x1, p1}
  MaxWriteFaults = 2
  MaxRestarts = 1
CHECK_DEADLOCK FALSE
INVARIANTS DshowSound PlayerSound CameraSound RunnerSound ListenersSound BindSound
PROPERTIES KeptOverRestarts EveryWaitEnds
