\* One slicer thread, the grace timer on, no autostart, app-cert answers come in.
CONSTANTS
    Devs = {d1, d2}
    Creds = {c1}
    AutoDevs = {}
    Studio = Studio
    Timer = Timer
    Sessions = {s1, s2, s3}
    NoSession = NoSession
    Events = {"connect", "disconnect", "destroy", "ack"}
    Keep = TRUE
SPECIFICATION FairSpec
\* A deadlock is a violation of CallsReturn here.
CHECK_DEADLOCK FALSE
INVARIANTS TimerTakesOnlyDoomed ShutdownClosesLan
PROPERTIES CallsReturn
