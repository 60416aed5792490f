----------------------------- MODULE PixelFormat -----------------------------
(***************************************************************************)
(* The way of one pixel from the framebuffer of the server to the client:  *)
(* the pixel functions of src/src/trfb.h and the formats, the conversion   *)
(* and the byte order of src/src/fb.c.  The application draws a colour     *)
(* into a framebuffer of one of the formats of trfb_framebuffer_create;    *)
(* the pixel is converted to the format the client has asked for, turned   *)
(* into the client's byte order and read by the client, which is external. *)
(*                                                                         *)
(* A number is the set of its bits: 5 is {0, 2}, 255 is 0..7; & is \cap,   *)
(* | is \cup.                                                              *)
(***************************************************************************)
EXTENDS Integers, Sequences

CONSTANTS
    Colours,         \* what the application draws: red, green and blue, bytes
    ClientFormats    \* what clients ask for: bytes per pixel, maxima, shifts

Channels == {"r", "g", "b"}
OneByte == 0..7
FourBytes == 0..31

ASSUME PixelAssumption ==
    /\ Colours \subseteq [Channels -> SUBSET OneByte]
    /\ ClientFormats \subseteq [bpp : {1, 2, 4}, max : [Channels -> SUBSET (0..15)],
                                shift : [Channels -> FourBytes]]

VARIABLES
    stage,           \* how far the pixel has come
    colour,          \* the colour that was drawn
    screen,          \* the format of the framebuffer of the server
    format,          \* the format of con->fb
    hostBE,          \* the host is big-endian: isBE
    bigEndian,       \* the byte order the client asked for
    pixel,           \* the pixel: a number, on the wire a sequence of bytes
    seen             \* what the client makes of it

pixelVars == <<stage, colour, screen, format, hostBE, bigEndian, pixel, seen>>

-----------------------------------------------------------------------------
Rgb(r, g, b) == [c \in Channels |-> CASE c = "r" -> r [] c = "g" -> g [] OTHER -> b]

\* v >> n and v << n
Down(v, n) == {i - n : i \in {j \in v : j >= n}}
Up(v, n) == {i + n : i \in v}

\* norm_from_mask: how far a component is shifted to fill a byte.  Its argument
\* is an unsigned char.
Highest(v) == CHOOSE i \in v : \A j \in v : j <= i
Norm_Off(mask) == IF mask \cap OneByte = {} THEN 0 ELSE 8 - Highest(mask \cap OneByte)
Norm(mask) == IF mask \cap OneByte = {} THEN 0 ELSE 7 - Highest(mask \cap OneByte)

\* trfb_framebuffer_create, and trfb_framebuffer_create_of_format behind it,
\* which is given the format in bits per pixel
Created(bpp) ==
    CASE bpp = 1 -> [bpp |-> 1, max |-> Rgb(0..2, 0..2, 0..1), shift |-> Rgb(0, 3, 6)]
      [] bpp = 2 -> [bpp |-> 2, max |-> Rgb(0..4, 0..5, 0..4), shift |-> Rgb(11, 5, 0)]
      [] bpp = 4 -> [bpp |-> 4, max |-> Rgb(0..7, 0..7, 0..7), shift |-> Rgb(16, 8, 0)]
CreatedOfFormat(f) == [f EXCEPT !.bpp = @ \div 8]
\* trfb_framebuffer_format, what the library tells of a framebuffer
FormatOf(f) == [f EXCEPT !.bpp = 8 * @]

\* TRFB_RGB, a trfb_color_t of three components, and TRFB_COLOR_R, _G and _B
InColour == Rgb(16, 8, 0)
Joined(v, at) == Up(v["r"], at["r"]) \cup Up(v["g"], at["g"]) \cup Up(v["b"], at["b"])
TrfbRgb(v) == Joined(v, InColour) \cap FourBytes
ColourPart(col, c) == Down(col, InColour[c]) \cap OneByte

\* trfb_fbN_set_pixel and trfb_fbN_get_pixel.  The assignment cuts the pixel to
\* its type.
Cut_Not(f, p) == p
Cut(f, p) == p \cap 0..(8 * f.bpp - 1)
Component(f, col, c) == Down(ColourPart(col, c), Norm(f.max[c])) \cap f.max[c]
SetPixel(f, col) == Cut(f, Joined([c \in Channels |-> Component(f, col, c)], f.shift))
TakenOut(f, p, c) == Down(p, f.shift[c]) \cap f.max[c]
GetPixel(f, p) == TrfbRgb([c \in Channels |-> Up(TakenOut(f, p, c), Norm(f.max[c]))])

\* The bytes of a pixel in memory, the one with the lowest address first.
Byte(p, i) == Down(p, 8 * i) \cap OneByte
InMemory(f, p) ==
    [i \in 1..f.bpp |-> IF hostBE THEN Byte(p, f.bpp - i) ELSE Byte(p, i - 1)]

-----------------------------------------------------------------------------
PixelInit ==
    /\ stage = "new" /\ colour \in Colours
    /\ \E b \in {1, 2, 4} : screen = Created(b)
    /\ format \in {CreatedOfFormat([f EXCEPT !.bpp = 8 * @]) : f \in ClientFormats}
                    \cup {CreatedOfFormat(FormatOf(screen))}
    /\ hostBE \in BOOLEAN /\ bigEndian \in BOOLEAN /\ pixel = {} /\ seen = Rgb({}, {}, {})

Draw ==
    /\ stage = "new" /\ stage' = "drawn"
    /\ pixel' = SetPixel(screen, TrfbRgb(colour))
    /\ UNCHANGED <<colour, screen, format, hostBE, bigEndian, seen>>

\* trfb_framebuffer_convert: copied when the formats are the same, otherwise
\* taken out and put in
Converted == IF format = screen THEN pixel ELSE SetPixel(format, GetPixel(screen, pixel))
Convert ==
    /\ stage = "drawn" /\ stage' = "converted"
    /\ pixel' = Converted
    /\ UNCHANGED <<colour, screen, format, hostBE, bigEndian, seen>>

\* trfb_framebuffer_endian: the swaps of two and of four bytes
Swapped(b) ==
    CASE Len(b) = 1 -> b
      [] Len(b) = 2 -> <<b[2], b[1]>>
      [] Len(b) = 4 -> <<b[4], b[3], b[2], b[1]>>
TurnOrder ==
    /\ stage = "converted" /\ stage' = "wire"
    /\ pixel' = IF hostBE = bigEndian THEN InMemory(format, pixel)
                ELSE Swapped(InMemory(format, pixel))
    /\ UNCHANGED <<colour, screen, format, hostBE, bigEndian, seen>>

\* The client puts the bytes together in its order and takes the components out.
FromWire(b) ==
    LET at(i) == IF bigEndian THEN b[Len(b) + 1 - i] ELSE b[i]
    IN UNION {Up(at(i), 8 * (i - 1)) : i \in 1..Len(b)}
ClientReads ==
    /\ stage = "wire" /\ stage' = "read"
    /\ seen' = [c \in Channels |-> TakenOut(format, FromWire(pixel), c)]
    /\ UNCHANGED <<colour, screen, format, hostBE, bigEndian, pixel>>

PixelSpec == PixelInit /\ [][Draw \/ Convert \/ TurnOrder \/ ClientReads]_pixelVars

-----------------------------------------------------------------------------
\* The state has its type; a pixel fits the format it is in, and its bytes are
\* as many as the format says.
PixelTypeOK ==
    /\ stage \in {"new", "drawn", "converted", "wire", "read"}
    /\ colour \in Colours /\ hostBE \in BOOLEAN /\ bigEndian \in BOOLEAN
    /\ seen \in [Channels -> SUBSET (0..15)]
    /\ stage \in {"new", "drawn"} => pixel \subseteq 0..(8 * screen.bpp - 1)
    /\ stage = "converted" => pixel \subseteq 0..(8 * format.bpp - 1)
    /\ stage \in {"wire", "read"} => pixel \in [1..format.bpp -> SUBSET OneByte]

\* A client's format that the library can serve: components of whole bits, no
\* more than eight, side by side in the pixel.
Bits(m) == CHOOSE k \in 1..8 : m = 0..(k - 1)
Sound(f) ==
    /\ \A c \in Channels : /\ f.max[c] \in {0..(k - 1) : k \in 1..8}
                           /\ f.shift[c] + Bits(f.max[c]) <= 8 * f.bpp
    /\ \A c, d \in Channels : c # d =>
          f.shift[c] + Bits(f.max[c]) <= f.shift[d] \/ f.shift[d] + Bits(f.max[d]) <= f.shift[c]

\* The client sees the colour that was drawn, but for the low bits that the
\* formats on the way have no room for, in either byte order.
Shade(v, f, c) == Down(v, 8 - Bits(f.max[c]))
Drawn(c) == Up(Shade(colour[c], screen, c), 8 - Bits(screen.max[c]))
ClientSeesColour ==
    stage = "read" /\ Sound(format) => \A c \in Channels : seen[c] = Shade(Drawn(c), format, c)

==============================================================================
