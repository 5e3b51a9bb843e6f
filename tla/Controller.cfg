SPECIFICATION FairSpec
CONSTANTS
    Controllers = {c1}
    MaxProcs = 4
    MaxWaits = 2
    Udp = TRUE
    Deaths = TRUE
    Crashes = TRUE
    Hangs = FALSE
    Resets = FALSE
CHECK_DEADLOCK FALSE
INVARIANTS TypeOK LiveTrackersAreNamed OneTracker
PROPERTIES CommandsReturn TrackersAreProcesses
