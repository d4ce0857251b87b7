SPECIFICATION TimedSpec
CONSTANTS
    h = h
    c = c
    Host <- h
    Client <- c
    Deployments <- EitherClient
    Timed <- ClientTimed
INVARIANTS TypeOK ReturnedOpen CandidatesApplied
PROPERTY TimedEnds
\* Both ends end their bootstrap, and then nothing is left to happen.
CHECK_DEADLOCK FALSE
