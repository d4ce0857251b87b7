SPECIFICATION FairSpec
CONSTANTS
    key = key
    button = button
    rtp = rtp
    low = low
    bad = bad
    None = None
    Inputs <- OneKey
    Configs <- LowLatencyConfigs
    Valid <- LowLatencyConfigs
    LowLatency <- LowLatencyConfigs
    Flagged <- LowLatencyConfigs
    Behaviours <- Conforming
PROPERTY ListensAgain
\* The host may be stopped.
CHECK_DEADLOCK FALSE
