\* Two players, four outputs (so that one of them may be conceded), one crash, and a clock
\* that passes the deadline they share.
SPECIFICATION FairSpec
CONSTANTS
    Last = 4
    Choices = {1}
    InitialDeadline = 1
    Interval = 0
    Margin = 1
    RetryDelay = 1
    Priority = 1
    Favoured = 1
    MaxClock = 1
    MaxCrashes = 1
INVARIANTS
    OneBundlePerSource
    NothingSentIsForgotten
    AbortLocksNothing
    ResultsAreFinal
PROPERTIES
    ResultIsLearned
    DepositIsPaidOut
    SavedActionIsDecided
