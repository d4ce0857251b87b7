SPECIFICATION FairSpec
CONSTANTS
    h = h
    c = c
    Host <- h
    Client <- c
    Deployments <- WebClient
    Timed <- ClientTimed
PROPERTY HostReleased
\* Both ends end their bootstrap, and then nothing is left to happen.
CHECK_DEADLOCK FALSE
