\* Every launch, with one request and one event stream.
SPECIFICATION FairLaunchSpec
CONSTANTS
    Requests = {r1, s1}
    Streams = {s1}
    Remote <- MCRemote
    Launches <- MCLaunches
\* The process ends.
CHECK_DEADLOCK FALSE
INVARIANTS LaunchTypeOK StoppedIsClean  SourcesRespected DryRunServesNothing SuccessMeansDone
PROPERTIES SignalEnds CommandEnds
