\* Two authors, two failures of any kind (a second body under one number among them), and
\* limits below the code's eight that suffice without such bodies and are met with them.
SPECIFICATION FairSpec
CONSTANTS
    Peers = {p, q}
    Rounds = 2
    QueueLimit = 5
    RetainLimit = 2
    MaxFaults = 2
INVARIANTS
    NothingDroppedSilently
    LimitsSuffice
PROPERTIES
    ImplementsChannel
    ExchangeCompletes
