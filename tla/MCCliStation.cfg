CONSTANTS
    Texts <- MCTestProduct
    MonthWords <- MCMonthWords
    KWords <- MCKWords
    Cf6Words <- MCCf6Words
    CliWords <- MCCliWords
    None = None
    MaxCliLines = 5
    MaxCf6Lines = 4
SPECIFICATION Spec
INVARIANT StationIsSite
