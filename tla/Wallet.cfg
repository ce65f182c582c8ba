\* Two coins: 3 + 3 is exact for a deposit or bet of 6, 4 + 4 leaves admissible change,
\* 3 + 4 too little, 11 too much; a move of 0 needs none.  One spend from elsewhere and
\* two failures anywhere.  A decided spend is the end.
SPECIFICATION FairSpec
CONSTANTS
    Coins = {1, 2}
    Values = {3, 4, 11}
    Amounts = {0, 6}
    MinAmount = 2
    MaxAmount = 3
    MaxFailures = 2
CHECK_DEADLOCK FALSE
INVARIANTS
    SpendIsExact
PROPERTIES
    SavedSpendIsDecided
