SPECIFICATION FairSpec
CONSTANTS
    Asked <- AskedDef
    Choices = {1, 2}
    Requests <- RequestsDef
    Screens <- ScreensDef
    NewScreens <- NewScreensDef
    ScreenBytes = 4
    ByteBase = 2
    TopLength = 3
    SocketRoom = 2
    BufferRoom = 1
    MaxRequests = 2
    MaxResizes = 1
INVARIANTS ThreadInStep ClientInStep AnnouncesScreen
PROPERTIES KeepsPromise HandshakeEnds StopEnds RequestsAnswered
CHECK_DEADLOCK FALSE
