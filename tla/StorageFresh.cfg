\* One program started repeatedly, one wallet whose directory is new.
SPECIFICATION Spec
CONSTANTS
    Processes = {p1}
    Wallets = {w1}
    Tabs = {t1}
    Records = {a}
    None = none
    MaxRecords = 1
INVARIANTS
    AcknowledgedStays
