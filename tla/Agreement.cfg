\* Every reachable covenant state against every plausible live transaction and every
\* settlement of its value.
SPECIFICATION UntimedSpec
CONSTANTS
    Stake = 2
    Bond = 1
    MinBet = 1
    MaxWager = 4
    MaxMoney = 20
    InitialDeadline = 0
    Interval = 1
    MaxClock = 0
    Deals = {0, 1, 2}
INVARIANTS
    ScriptsMatchBuilders
    AdmissionMatchesBuilders
    TerminalReadingIsUnambiguous
