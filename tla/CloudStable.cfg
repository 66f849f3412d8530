\* One printer, no unsubscribe and no transport drop: the interplay of the
\* slicer, the LAN loop, the watchdog and the cloud loop on one connection.
CONSTANTS
    Devs = {d1}
    Studio = Studio
    Lan = Lan
    Watchdog = Watchdog
    Loop = Loop
    NoDev = NoDev
    BlockCloud = FALSE
    Events = {"report", "lan", "select", "refuse"}
SPECIFICATION FairSpec
INVARIANTS AskedAndAnnounced
PROPERTIES SilenceFailsBack
