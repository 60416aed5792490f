SPECIFICATION Spec
CONSTANTS
    Colours <- ColoursDef
    ClientFormats <- ClientFormatsDef
    PictureSizes <- PictureSizesDef
    Pictures <- PicturesDef
    Widths = {1, 2, 3}
    Rooms = {0, 3, 16, 36}
INVARIANTS TypeOK ClientSeesColour PixelsKeepPlace StaysInside LinesKeepColour
PROPERTIES ToldSizeIsEnough
CHECK_DEADLOCK FALSE
