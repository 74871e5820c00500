CONSTANTS
    Stations = {"KNYC", "KBOS"}
    Rows <- MCSparseRows
    Blank = Blank
    Stars = Stars
    Other = Other
    Markers <- MCMarkers
    None = None
    MaxLines = 3
SPECIFICATION BulletinSpec
INVARIANT RowsAligned
