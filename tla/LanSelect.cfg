\* Two autostart workers race for the session while the slicer only changes its
\* selection.
CONSTANTS
    Devs = {d1, d2}
    Creds = {c1}
    AutoDevs = {d1, d2}
    Studio = Studio
    Timer = Timer
    Sessions = {s1, s2, s3}
    NoSession = NoSession
    Events = {}
    Keep = FALSE
SPECIFICATION HookedSpec
INVARIANTS SessionOwnership
PROPERTIES SelectionWins
