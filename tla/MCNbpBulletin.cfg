CONSTANTS
    Stations = {"KNYC", "KBOS"}
    Rows <- MCRows
    Blank = Blank
    Stars = Stars
    Other = Other
    Markers <- MCMarkers
    None = None
    MaxLines = 6
SPECIFICATION BulletinSpec
INVARIANT BlocksAsRead
