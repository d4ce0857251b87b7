SPECIFICATION FairSpec
CONSTANTS
    key = key
    button = button
    rtp = rtp
    low = low
    bad = bad
    None = None
    Inputs <- KeyAndButton
    Configs <- AllConfigs
    Valid <- Accepted
    LowLatency <- LowLatencyConfigs
    Flagged <- LowLatencyConfigs
    Behaviours <- AnyBehaviour
INVARIANTS TypeOK InputsReleased NoDanglingCallback ConformingServed
PROPERTY StreamEnds
\* The host may be stopped.
CHECK_DEADLOCK FALSE
