CONSTANTS
    root = root
    guest = guest
    Bad = bad
    Users <- TwoUsers
    Texts <- SomeTexts
    Year = 4
    Tolerance = 1
    Shift = 2
    MaxTime = 6
    MaxWritten = 2
    MaxReads = 2
    MaxShifts = 1
SPECIFICATION ParserSpec
INVARIANTS StampsHonest RereadOnce KeysTellApart
CHECK_DEADLOCK FALSE
