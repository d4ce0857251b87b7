SPECIFICATION FairSpec
CONSTANTS
    MaxRate = 2
    Latency = 1
    KeyPackets = 3
    MaxQueue <- QueueOf
    MaxRecordings = 2
    MaxTicks = 2
INVARIANTS TypeOK RecordingComplete
PROPERTIES NextAcceptedIsKey KeyRequestServed
\* Either program ends.
CHECK_DEADLOCK FALSE
