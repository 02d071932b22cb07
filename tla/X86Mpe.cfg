SPECIFICATION FairSpec
CONSTANTS
    NCPU = 3
    MaxHalt = 3
INVARIANTS BootStackExclusive EntryAfterAll WorldStopped
PROPERTIES AllEnter HaltPowersOff
CHECK_DEADLOCK FALSE
