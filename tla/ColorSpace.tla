------------------------------ MODULE ColorSpace ------------------------------
(***************************************************************************)
(* webcam_convert_image of src/libwebcam/colorspace.c: an image is taken   *)
(* from one colour space to another, line by line, through a buffer of one *)
(* line of colours.  Every line of the image has one colour, so what is    *)
(* found at an offset says which line was read and where it was put.       *)
(* The caller, which asks for the size and calls again when its buffer was *)
(* too small, is external.  A colour is a number of 24 bits, 0xrrggbb.     *)
(***************************************************************************)
EXTENDS Integers, Sequences

CONSTANTS
    Pictures,     \* the colours of the lines of an image: sequences of [r, g, b]
    Widths,       \* widths of an image
    Rooms         \* sizes of the buffer of a caller who does not ask first

Packed == {"rgb32", "rgb555", "rgb565", "rgb332", "bgr233"}
Spaces == Packed \cup {"rgb24", "bgr24", "yuv", "yuv422", "gray"}

ASSUME ImageAssumption ==
    /\ Pictures \subseteq Seq([{"r", "g", "b"} -> 0..255])
    /\ Widths \subseteq Nat \ {0}
    /\ Rooms \subseteq Nat

VARIABLES
    phase,        \* "caller", "lines" while the loop runs, "over"
    from, to,     \* the colour spaces
    width,        \* of the image
    lines,        \* the colours of its lines
    fromSize,     \* the bytes of the image that the caller has
    room,         \* the bytes of the buffer the caller passes
    toSize,       \* *to_size
    told,         \* the library has set *to_size
    answer,       \* of the last call, NoAnswer before
    row,          \* i, the line
    fromAt, toAt, \* l_f and l_t
    reached,      \* how far the images and the line buffer were touched
    out           \* what was put at the offsets of the new image

imageVars == <<phase, from, to, width, lines, fromSize, room, toSize, told, answer, row,
               fromAt, toAt, reached, out>>
image == <<from, to, width, lines, fromSize>>
NoAnswer == 9

-----------------------------------------------------------------------------
(* The colour spaces *)

\* bytes of a pixel, as the functions get_size count them
Bytes(s) ==
    CASE s = "rgb32" -> 4
      [] s \in {"rgb24", "bgr24", "yuv"} -> 3
      [] s \in {"rgb555", "rgb565", "yuv422"} -> 2
      [] OTHER -> 1
Height == Len(lines)
SizeOf(s) == width * Height * Bytes(s)

\* Where a format has its components: the weight of the lowest bit, and how many
\* levels.  The bytes of rgb24 and bgr24 are counted with the first one on top.
Place(r, rn, g, gn, b, bn) == [r |-> <<r, rn>>, g |-> <<g, gn>>, b |-> <<b, bn>>]
Put(s) ==
    CASE s \in {"rgb32", "rgb24"} -> Place(65536, 256, 256, 256, 1, 256)
      [] s = "bgr24" -> Place(1, 256, 256, 256, 65536, 256)
      [] s = "rgb555" -> Place(1024, 32, 32, 32, 1, 32)
      [] s = "rgb565" -> Place(2048, 32, 32, 64, 1, 32)
      [] s = "rgb332" -> Place(32, 8, 4, 8, 1, 4)
      [] s = "bgr233" -> Place(1, 8, 8, 8, 64, 4)
\* reading rgb565 leaves the lowest bit of green behind
Taken_Aligned(s) == IF s = "rgb565" THEN Place(2048, 32, 32, 32, 1, 32) ELSE Put(s)
Taken(s) == IF s = "rgb565" THEN Place(2048, 32, 64, 32, 1, 32) ELSE Put(s)

R(c) == c \div 65536
G(c) == (c \div 256) % 256
B(c) == c % 256
\* webcam_color_rgb of unsigned numbers, its two | taken byte by byte: what is too
\* big for a byte, or was negative, runs into the components above
Bit(n, weight) == (n \div weight) % 2
OrByte(m, n) ==
    LET at(weight) == IF Bit(m, weight) + Bit(n, weight) = 0 THEN 0 ELSE weight
    IN at(1) + at(2) + at(4) + at(8) + at(16) + at(32) + at(64) + at(128)
Colour(r, g, b) ==
    (OrByte(OrByte(r % 256, (g \div 256) % 256), (b \div 65536) % 256) * 65536)
    + (OrByte(g % 256, (b \div 256) % 256) * 256) + (b % 256)

ColY(c) == ((76 * R(c) + 150 * G(c) + 30 * B(c)) \div 256) % 256
ColU(c) == ((16384 + 112 * B(c) - 38 * R(c) - 74 * G(c)) \div 256) % 256
ColV(c) == ((16384 + 157 * R(c) - 132 * G(c) - 25 * B(c)) \div 256) % 256
Yuv2Rgb(y, u, v) ==
    Colour((256 * y + 292 * v) \div 256, (256 * y - 101 * u - 149 * v) \div 256,
           (256 * y + 520 * u) \div 256)

\* the functions convert_from_rgb, of one pixel (yuv422: of two alike)
Top(v, levels) == v \div (256 \div levels)
Encode(s, c) ==
    LET p == Put(s) IN
    CASE s = "yuv" -> <<ColY(c), ColU(c), ColV(c)>>
      [] s = "gray" -> ColY(c)
      [] s = "yuv422" -> <<ColU(c), ColY(c), ColV(c)>>
      [] OTHER -> (Top(R(c), p.r[2]) * p.r[1]) + (Top(G(c), p.g[2]) * p.g[1])
                  + (Top(B(c), p.b[2]) * p.b[1])

\* the functions convert_to_rgb.  rgb24_t and bgr24_t join the bytes with ||.
Field(e, p) == ((e \div p[1]) % p[2]) * (256 \div p[2])
Decode(s, e) ==
    LET p == Taken(s) IN
    CASE s \in {"yuv", "yuv422"} -> Yuv2Rgb(e[1], e[2], e[3])
      [] s = "gray" -> Yuv2Rgb(e, 128, 128)
      [] s \in {"rgb24", "bgr24"} -> IF e = 0 THEN 0 ELSE 1
      [] OTHER -> Colour(Field(e, p.r), Field(e, p.g), Field(e, p.b))

\* What the functions touch of a line, and what they say they have touched: the
\* reader of yuv422 goes in pairs of pixels, its writer counts bytes twice.
Even(n) == n + (n % 2)
ReadBytes(s) == IF s = "yuv422" THEN 2 * Even(width) ELSE width * Bytes(s)
ReadColours(s) == IF s = "yuv422" THEN Even(width) ELSE width
ReadCount(s) == width * Bytes(s)
PutBytes(s) == IF s = "yuv422" THEN 4 * width - 1 ELSE width * Bytes(s)
PutColours(s) == IF s = "yuv422" THEN 2 * width ELSE width
PutCount(s) == IF s = "yuv422" THEN 4 * width ELSE width * Bytes(s)

-----------------------------------------------------------------------------
(* The caller: an image of the source, as its format has it, at the offsets
   where its lines start; a camera that sees no colours puts 128 at U and V *)

Word(c) == (c.r * 65536) + (c.g * 256) + c.b
Element(s, c) ==
    IF s \in {"yuv", "yuv422"} THEN <<ColY(Word(c)), 128, 128>> ELSE Encode(s, Word(c))
Nothing == IF from \in {"yuv", "yuv422"} THEN <<0, 0, 0>> ELSE 0
FoundAt(offset) ==
    LET line == width * Bytes(from) IN
    IF offset % line = 0 /\ offset \div line < Height
    THEN Element(from, lines[offset \div line + 1]) ELSE Nothing

ImageInit ==
    /\ phase = "caller" /\ from \in Spaces /\ to \in Spaces
    /\ width \in Widths /\ lines \in Pictures
    /\ fromSize \in {SizeOf(from), SizeOf(from) - 1} \cap Nat
    /\ toSize \in Rooms /\ room = 0 /\ told = FALSE /\ answer = NoAnswer
    /\ row = 0 /\ fromAt = 0 /\ toAt = 0
    /\ reached = [from |-> 0, buffer |-> 0, to |-> 0] /\ out = <<>>

UntouchedImage == UNCHANGED <<row, fromAt, toAt, reached, out>>

\* webcam_convert_image without a buffer: *to_size becomes the size
BehindAsk ==
    IF SizeOf(from) > fromSize THEN [answer |-> -1, size |-> toSize, told |-> told]
    ELSE [answer |-> 0, size |-> SizeOf(to), told |-> TRUE]
Ask ==
    /\ phase = "caller" /\ ~told
    /\ answer' = BehindAsk.answer
    /\ toSize' = BehindAsk.size
    /\ told' = BehindAsk.told
    /\ phase' = IF answer' = 0 THEN "caller" ELSE "over"
    /\ UNCHANGED <<image, room>> /\ UntouchedImage

\* The checks of a call with a buffer of *to_size bytes, and malloc
BehindChecks_Source(enough) ==
    IF SizeOf(from) > fromSize THEN [answer |-> -1, size |-> toSize, next |-> "over"]
    ELSE IF toSize < SizeOf(to) THEN [answer |-> 1, size |-> SizeOf(from), next |-> "caller"]
    ELSE IF ~enough THEN [answer |-> -1, size |-> SizeOf(to), next |-> "over"]
    ELSE [answer |-> NoAnswer, size |-> SizeOf(to), next |-> "lines"]
BehindChecks_Trusting(enough) ==
    IF toSize < SizeOf(to) THEN [answer |-> 1, size |-> SizeOf(to), next |-> "caller"]
    ELSE IF ~enough THEN [answer |-> -1, size |-> SizeOf(to), next |-> "over"]
    ELSE [answer |-> NoAnswer, size |-> SizeOf(to), next |-> "lines"]
BehindChecks(enough) ==
    IF SizeOf(from) > fromSize THEN [answer |-> -1, size |-> toSize, next |-> "over"]
    ELSE IF toSize < SizeOf(to) THEN [answer |-> 1, size |-> SizeOf(to), next |-> "caller"]
    ELSE IF ~enough THEN [answer |-> -1, size |-> SizeOf(to), next |-> "over"]
    ELSE [answer |-> NoAnswer, size |-> SizeOf(to), next |-> "lines"]
Call ==
    /\ phase = "caller"
    /\ \E enough \in BOOLEAN :
          /\ phase' = BehindChecks(enough).next
          /\ answer' = BehindChecks(enough).answer
          /\ toSize' = BehindChecks(enough).size
    /\ told' = (told \/ answer' = 1)
    /\ room' = toSize
    /\ UNCHANGED image /\ UntouchedImage

\* One round of the loop: convert_to_rgb into the buffer, convert_from_rgb out of
\* it.  (The two calls without a buffer compare a pointer with WEBCAM_RGB32,
\* which is 0, and are never taken.)
Further(a, b) == IF a > b THEN a ELSE b
ConvertLine ==
    /\ phase = "lines" /\ row < Height
    /\ row' = row + 1
    /\ out' = Append(out, [at |-> toAt, is |-> Encode(to, Decode(from, FoundAt(fromAt)))])
    /\ reached' = [from |-> Further(reached.from, fromAt + ReadBytes(from)),
                   buffer |-> Further(reached.buffer, Further(ReadColours(from), PutColours(to))),
                   to |-> Further(reached.to, toAt + PutBytes(to))]
    /\ fromAt' = fromAt + ReadCount(from)
    /\ toAt' = toAt + PutCount(to)
    /\ UNCHANGED <<phase, image, room, toSize, told, answer>>

Return ==
    /\ phase = "lines" /\ row = Height
    /\ phase' = "over" /\ answer' = 0
    /\ UNCHANGED <<image, room, toSize, told>> /\ UntouchedImage

ImageSpec == ImageInit /\ [][Ask \/ Call \/ ConvertLine \/ Return]_imageVars

-----------------------------------------------------------------------------
\* The state has its type; in the loop the two offsets go with the line.
ImageTypeOK ==
    /\ phase \in {"caller", "lines", "over"} /\ answer \in {NoAnswer, 0, 1, -1}
    /\ from \in Spaces /\ to \in Spaces /\ width \in Widths /\ lines \in Pictures
    /\ {fromSize, toSize, room} \subseteq Nat /\ told \in BOOLEAN
    /\ row \in 0..Height /\ Len(out) = row
    /\ fromAt = row * width * Bytes(from)

\* What the library can convert without leaving the buffers: into yuv422 it
\* cannot, nor from a yuv422 image with a line of half a pair.
Regular == to # "yuv422" /\ (from = "yuv422" => width % 2 = 0)

\* The loop reads the source that was promised, its own line of colours and the
\* buffer of the caller, and nothing behind them; and when it is over it has
\* filled exactly the bytes that *to_size tells of.
StaysInside ==
    Regular => /\ reached.from <= fromSize /\ reached.buffer <= width /\ reached.to <= room
               /\ phase = "over" /\ answer = 0 => reached.to = toSize /\ toSize <= room

\* A caller who uses the size it was told, by a call without a buffer or by a
\* call that refused its buffer, is not refused again.
ToldSizeIsEnough == [][told /\ phase = "caller" => answer' # 1]_imageVars

\* Every line is where the size of a line puts it, with the colour the source
\* had there: the bits that both formats have room for, one bit less for the
\* green of an rgb565 source.  A grey line keeps its brightness in a grey image.
KeptOf(c, levels) == Top(c, levels) * (256 \div levels)
Levels(s, c) == IF s = "rgb565" THEN 32 ELSE Put(s)[c][2]
KeptColour(line) ==
    [c \in {"r", "g", "b"} |-> KeptOf(line[c], Levels(from, c))]
ShownAs(c) ==
    LET part(x) == Top(c[x], Put(to)[x][2]) * Put(to)[x][1]
    IN part("r") + part("g") + part("b")
IsGrey(c) == c.r = c.g /\ c.g = c.b
LinesKeepColour ==
    from \in Packed => \A k \in 1..Len(out) :
        LET c == KeptColour(lines[k]) IN
        /\ to \in Packed \cup {"rgb24", "bgr24"}
              => out[k] = [at |-> (k - 1) * width * Bytes(to), is |-> ShownAs(c)]
        /\ to = "gray" /\ IsGrey(c) => out[k] = [at |-> (k - 1) * width, is |-> c.r]

===============================================================================
