SPECIFICATION FairSpec
CONSTANTS
    Conns = {c1, c2}
    NoConn = NoConn
    MaxStarts = 2
    MaxIo = 1
    Faults <- ClientFaults
PROPERTIES
    StopHonouredOnceRunning
    DrainEnds
    CallsReturn
