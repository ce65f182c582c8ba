\* A user who does anything at any time; two games in the log, two sessions of a
\* process, one failure or death anywhere.
SPECIFICATION FairSpec
CONSTANTS
    MaxGames = 2
    MaxSessions = 2
    MaxFailures = 1
CHECK_DEADLOCK FALSE
INVARIANTS
    MoneyIsAccountedFor
    InterfaceIsConsistent
PROPERTIES
    InputsMeetTheirPosition
    InterfaceAnswers
