---------------------------- MODULE MCFrameUpdate ----------------------------
(***************************************************************************)
(* Instances of FrameUpdate for TLC.                                       *)
(***************************************************************************)
EXTENDS FrameUpdate

\* neither is the square that SetPixelFormat makes of it
TwoSizes == {[w |-> 2, h |-> 3], [w |-> 3, h |-> 2]}

\* the other byte order than the one of ServerInit, and a width that is not
\* supported
SomeFormats == {[bpp |-> 32, bigEndian |-> TRUE], [bpp |-> 24, bigEndian |-> TRUE]}

\* the whole screen, and a rectangle that is ignored
SomeRequests == {[x |-> 0, y |-> 0, w |-> 3, h |-> 3], [x |-> 3, y |-> 0, w |-> 1, h |-> 1]}

=============================================================================
