\* One sender, one worker and the slicer's own refresh; connections and requests
\* get lost, writes fail, and rejected cloud jobs are rescued.
CONSTANTS
    Devs = {d1}
    Senders = {s1}
    Workers = {w1}
    Direct = Direct
    Tasks = {k1}
    NoTask = NoTask
    Legs = {lan, cloud}
    MaxVersion = 1
    Events = {"loss", "refresh", "writefail", "rescue"}
SPECIFICATION FairSpec
INVARIANTS LatchMeansInstalled InflightHasWorker RescueOnce
PROPERTIES SendReturns
