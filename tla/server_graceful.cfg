\* The 30 seconds of a shutdown.
SPECIFICATION FairSpec
CONSTANTS
    Requests = {r1, r2, s1}
    Streams = {s1}
CHECK_DEADLOCK FALSE
INVARIANTS CutOnlyWhenExpired
