SPECIFICATION Spec
CONSTANTS
  Users = {alice, bob}
  None = None
  Unknown = Unknown
  NoFile = NoFile
  MaxCrashes = 1
  MaxCalls = 3
  Ips = {ip1, ip2}
  Serials = {s1, s2}
  Signed = {s1}
  MaxLeases = 1
  MaxBoots = 2
  MaxWriteFaults = 1
  MaxLines = 3
  MaxEdits = 1
  MaxJobs = 2
  MaxFirmware = 2
  PresetNames = {n1, n2}
  MaxWrites = 4
  MaxNetFaults = 2
  MaxAppData = 2
  Accounts = {ann, ben}
  Nobody = Nobody
  Printers = {d1}
  CallThreads = {ui, bg}
  MaxCloudCalls = 2
  MaxMeanwhile = 1
  Models = {m1, m2, m3}
  Names = {{}, {m1}}
  Inner = {m1}
  Finders = {f1}
  ReadBudget = 1
  MaxCandidates = 2
  MaxReplaced = 1
  MaxRefusals = 1
  Prints = {1, 2}
  Fetchers = {w1, w2}
  Torn = Torn
  MaxFetchFaults = 1
CHECK_DEADLOCK FALSE
INVARIANTS LogoutSticks ConfRepaired ReportsSound HandshakeSound CallsSound CoversSound
PROPERTIES DurableSession PeersKnown PresetsSound ModelSound
