\* Two programs and two wallets, two tabs; any crashes, failures and power losses.
SPECIFICATION Spec
CONSTANTS
    Processes = {p1, p2}
    Wallets = {w1, w2}
    Tabs = {t1, t2}
    Records = {a, b}
    None = none
    MaxRecords = 2
SYMMETRY Symmetry
INVARIANTS
    RecoveredLogIsIntact
PROPERTIES
    ImplementsLog
