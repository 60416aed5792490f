SPECIFICATION LiveSpec
CONSTANTS
    Drivers <- DriversDef
    Granted = {1, 2, 3}
    MaxFrames = 3
    MaxFaults = 2
INVARIANTS NothingLeft SecondAttemptIsFresh BuffersComeBack OneFrame ReadsInside StartsAgain
PROPERTIES CallsReturn
CHECK_DEADLOCK FALSE
