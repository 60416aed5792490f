------------------------------ MODULE MCPixels ------------------------------
\* Three small machines that share nothing, side by side: in a behaviour one of
\* them moves and the others stay in one of their first states.
EXTENDS PixelFormat, Picture, ColorSpace

VARIABLE machine
mcVars == <<machine, pixelVars, pictureVars, imageVars>>

BitsOf(n) == {i \in 0..15 : (n \div 2^i) % 2 = 1}
Components(r, g, b) == Rgb(BitsOf(r), BitsOf(g), BitsOf(b))
At(b, r, g, bl, rs, gs, bs) == [bpp |-> b, max |-> Components(r, g, bl), shift |-> Rgb(rs, gs, bs)]
ColoursDef == {Components(0, 128, 255), Components(254, 37, 91), Components(7, 8, 3)}
\* rgb332, bgr233, rgb444, rgb555, rgb565, bgr888, rgb888, one bit each, and
\* three that the library cannot serve: maxima beyond a byte, maxima that are not
\* whole bits, shifts beyond the pixel
ClientFormatsDef ==
    {At(1, 7, 7, 3, 5, 2, 0), At(1, 7, 7, 3, 0, 3, 6), At(2, 15, 15, 15, 8, 4, 0),
     At(2, 31, 31, 31, 10, 5, 0), At(2, 31, 63, 31, 11, 5, 0), At(4, 255, 255, 255, 0, 8, 16),
     At(4, 255, 255, 255, 16, 8, 0), At(1, 1, 1, 1, 2, 1, 0),
     At(4, 511, 511, 511, 18, 9, 0), At(2, 5, 9, 0, 8, 4, 0),
     At(1, 7, 7, 7, 6, 3, 0)}
PictureSizesDef == [w : 1..3, h : 1..3]
PicturesDef == {<<Rgb(254, 37, 91), Rgb(200, 200, 200)>>, <<Rgb(7, 188, 243)>>,
                <<Rgb(1, 2, 3), Rgb(90, 90, 90), Rgb(255, 0, 64)>>}

One(S) == CHOOSE x \in S : TRUE
PixelRests ==
    /\ colour = One(Colours) /\ screen = Created(4) /\ format = Created(4)
    /\ hostBE = FALSE /\ bigEndian = FALSE /\ PixelInit
PictureRests == size = [w |-> 1, h |-> 1] /\ PictureInit
ImageRests ==
    /\ from = "gray" /\ to = "gray" /\ width = 1 /\ lines = One(Pictures)
    /\ fromSize = SizeOf(from) /\ toSize = 0 /\ ImageInit

Init ==
    \/ machine = "pixel" /\ PixelInit /\ PictureRests /\ ImageRests
    \/ machine = "picture" /\ PictureInit /\ PixelRests /\ ImageRests
    \/ machine = "image" /\ ImageInit /\ PixelRests /\ PictureRests
PixelMoves == machine = "pixel" /\ UNCHANGED <<machine, pictureVars, imageVars>>
PictureMoves == machine = "picture" /\ UNCHANGED <<machine, pixelVars, imageVars>>
ImageMoves == machine = "image" /\ UNCHANGED <<machine, pixelVars, pictureVars>>
Next ==
    \/ Draw /\ PixelMoves
    \/ Convert /\ PixelMoves
    \/ TurnOrder /\ PixelMoves
    \/ ClientReads /\ PixelMoves
    \/ Resize /\ PictureMoves
    \/ Ask /\ ImageMoves
    \/ Call /\ ImageMoves
    \/ ConvertLine /\ ImageMoves
    \/ Return /\ ImageMoves
\* Each machine's state has its type, see the three modules.
TypeOK == PixelTypeOK /\ PictureTypeOK /\ ImageTypeOK

Spec == Init /\ [][Next]_mcVars
=============================================================================
