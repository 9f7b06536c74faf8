SPECIFICATION ContentsSpec
CONSTANTS
    NumberOfPages = 3
    Lengths = {0, 1, 2, 4, 5, 6, 7, 31, 32, 33, 34}
    Apps = {facebook, twitter}
    NoApp = NoApp
INVARIANT
    ContentsConsistent
PROPERTIES
    UnderstatesOnlyTooLong
    RestsUnderItsDot
    KeepsTurning
