\* The same game; only the promise about a retained game.
SPECIFICATION FairSpec
CONSTANTS
    Last = 3
    Choices = {1}
    InitialDeadline = 1
    Interval = 1
    Margin = 1
    RetryDelay = 1
    Priority = 1
    Favoured = 1
    MaxClock = 2
    MaxCrashes = 1
PROPERTY
    RetainedGameResumes
