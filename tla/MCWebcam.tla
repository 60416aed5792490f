----------------------------- MODULE MCWebcam -----------------------------
EXTENDS Webcam

\* One pixel wide and two lines high.  In turn: a driver that does everything;
\* one without streaming that reports no sizes beside the line; one without
\* either size; one with longer and one with shorter buffers than a picture.
Driver(s, r, line, size, len) ==
    [streaming |-> s, readwrite |-> r, w |-> 1, h |-> 2, line |-> line, size |-> size, len |-> len]
DriversDef ==
    {Driver(TRUE, TRUE, 3, 6, 6), Driver(FALSE, TRUE, 3, 0, 6), Driver(TRUE, FALSE, 0, 0, 4),
     Driver(TRUE, TRUE, 3, 6, 8), Driver(TRUE, FALSE, 3, 6, 4)}
=============================================================================
