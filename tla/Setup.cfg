\* One joiner with any clock, one stop anywhere; time may pass the deadline before,
\* while or after the final message travels.
SPECIFICATION FairSpec
CONSTANTS
    Creator = creator
    Joiners = {joiner1}
    Timeout = 2
    Margin = 1
    SkewAllowed = 1
    Skews <- ClockSkews
    MaxClock = 3
    MaxStops = 1
INVARIANTS
    ExpiredMeansLate
PROPERTIES
    SetupIsDecided
