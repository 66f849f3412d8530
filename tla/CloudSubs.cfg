\* One printer, reconnects, add / del / failback.
CONSTANTS
    Devs = {d1}
    Studio = Studio
    Lan = Lan
    Watchdog = Watchdog
    Loop = Loop
    NoDev = NoDev
    BlockCloud = FALSE
    Events = {"del", "select", "lan", "refuse", "drop"}
SPECIFICATION Spec
INVARIANTS SubscriptionsApplied
