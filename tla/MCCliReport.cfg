CONSTANTS
    Texts <- MCTexts
    MonthWords <- MCMonthWords
    KWords <- MCKWords
    Cf6Words <- MCCf6Words
    CliWords <- MCCliWords
    None = None
    MaxCliLines = 5
    MaxCf6Lines = 4
SPECIFICATION Spec
INVARIANTS
    CliFirstMentions
    MostRecentCompleteDay
