\* One hand with room for a bet, a raise and a re-raise to the cap (2, 4, 5), every
\* outcome of the deal, and a clock that outlives every deadline.
SPECIFICATION TimedAutomaticSpec
CONSTANTS
    Stake = 3
    Bond = 2
    MinBet = 2
    MaxWager = 5
    MaxMoney = 20
    InitialDeadline = 2
    Interval = 2
    MaxClock = 45
    Deals = {0, 1, 2}
INVARIANTS
    TypeOK
    LedgerBalances
    SettlementIsFair
    ObligedPlayerCanMove
    RevealsMatchPhase
    LifetimeBounded
    PromptPlayersNeverForfeit
PROPERTIES
    ImplementsRules
    AutomaticPhasesEnd
    EventuallySettled
