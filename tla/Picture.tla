------------------------------- MODULE Picture -------------------------------
(***************************************************************************)
(* trfb_framebuffer_resize of src/src/fb.c, of a picture whose pixels know *)
(* where they were drawn: every pixel that both sizes have is copied to    *)
(* where it lies in the new rows, the others are cleared.                  *)
(***************************************************************************)
EXTENDS Integers

CONSTANT PictureSizes     \* sizes a framebuffer is resized to

ASSUME PictureAssumption == PictureSizes \subseteq [w : Nat \ {0}, h : Nat \ {0}]

VARIABLES
    size, picture,   \* the size of the framebuffer and its pixels
    least            \* the smallest width and height it has had (history)

pictureVars == <<size, picture, least>>

Cleared == <<>>
Places(s) == 0..(s.w * s.h - 1)
PictureInit ==
    /\ size \in PictureSizes /\ least = size
    /\ picture = [i \in Places(size) |-> <<i % size.w, i \div size.w>>]

Lesser(a, b) == IF a < b THEN a ELSE b
LeastOf(old, s) == [w |-> Lesser(old.w, s.w), h |-> Lesser(old.h, s.h)]
\* the row y of the old picture starts at y times the old width
RowOf_Common(y, s) == y * Lesser(size.w, s.w)
RowOf(y, s) == y * size.w
Resize ==
    /\ \E s \in PictureSizes :
          /\ size' = s
          /\ least' = LeastOf(least, s)
          /\ picture' = [i \in Places(s) |->
                LET x == i % s.w
                    y == i \div s.w
                IN IF x < LeastOf(size, s).w /\ y < LeastOf(size, s).h
                   THEN picture[RowOf(y, s) + x] ELSE Cleared]

PictureSpec == PictureInit /\ [][Resize]_pictureVars

-----------------------------------------------------------------------------
\* A picture has as many pixels as its size says, and has never been smaller
\* than the smallest size of its history.
PictureTypeOK ==
    /\ size \in PictureSizes /\ DOMAIN picture = Places(size)
    /\ least \in [w : 1..size.w, h : 1..size.h]

\* However often a framebuffer is resized, a pixel is where it was drawn, as
\* long as no size on the way cut it off, and blank afterwards.
PixelsKeepPlace ==
    \A x \in 0..(size.w - 1), y \in 0..(size.h - 1) :
        picture[(y * size.w) + x] = IF x < least.w /\ y < least.h THEN <<x, y>> ELSE Cleared

==============================================================================
