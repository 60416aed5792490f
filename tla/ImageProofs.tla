----------------------------- MODULE ImageProofs -----------------------------
(***************************************************************************)
(* Proofs about the pixels: the client sees the colour that was drawn      *)
(* (PixelFormat), a resized picture keeps every pixel in its place         *)
(* (Picture), the conversion of an image stays inside the memory it was    *)
(* given and keeps the colours of the lines (ColorSpace), and all of this  *)
(* holds of the three side by side (MCPixels).                             *)
(***************************************************************************)
EXTENDS MCPixels, TLAPS

(* Numbers as sets of bits *)

LEMMA InDown ==
    ASSUME NEW v, v \subseteq Nat, NEW n \in Nat, NEW x
    PROVE  x \in Down(v, n) <=> (x \in Nat /\ x + n \in v)
<1>1. ASSUME x \in Down(v, n) PROVE x \in Nat /\ x + n \in v
  <2>1. PICK i \in v : i >= n /\ x = i - n
    BY <1>1 DEF Down
  <2>2. i \in Nat
    BY <2>1
  <2> QED
    BY <2>1, <2>2, SMT
<1>2. ASSUME x \in Nat, x + n \in v PROVE x \in Down(v, n)
  <2>1. x + n >= n /\ x = (x + n) - n
    BY <1>2, SMT
  <2> QED
    BY <1>2, <2>1 DEF Down
<1> QED
  BY <1>1, <1>2

LEMMA InUp ==
    ASSUME NEW v, v \subseteq Nat, NEW n \in Nat, NEW x
    PROVE  x \in Up(v, n) <=> (x \in Nat /\ x >= n /\ x - n \in v)
<1>1. ASSUME x \in Up(v, n) PROVE x \in Nat /\ x >= n /\ x - n \in v
  <2>1. PICK i \in v : x = i + n
    BY <1>1 DEF Up
  <2>2. i \in Nat
    BY <2>1
  <2>3. i + n - n = i /\ i + n \in Nat /\ i + n >= n
    BY <2>2, SMT
  <2> QED
    BY <2>1, <2>3
<1>2. ASSUME x \in Nat, x >= n, x - n \in v PROVE x \in Up(v, n)
  <2>1. x = (x - n) + n
    BY <1>2, SMT
  <2> QED
    BY <1>2, <2>1 DEF Up
<1> QED
  BY <1>1, <1>2

LEMMA ShiftsTyped ==
    ASSUME NEW v, v \subseteq Nat, NEW n \in Nat
    PROVE  Down(v, n) \subseteq Nat /\ Up(v, n) \subseteq Nat
  BY InDown, InUp

LEMMA DownUp ==
    ASSUME NEW v, v \subseteq Nat, NEW n \in Nat
    PROVE  Down(Up(v, n), n) = v
<1>1. Up(v, n) \subseteq Nat
  BY ShiftsTyped
<1>2. ASSUME NEW x PROVE x \in Down(Up(v, n), n) <=> (x \in Nat /\ x + n \in Up(v, n))
  BY <1>1, InDown
<1>3. ASSUME NEW x \in Nat PROVE x + n \in Up(v, n) <=> x \in v
  <2>1. x + n \in Nat /\ x + n >= n /\ (x + n) - n = x
    BY SMT
  <2> QED
    BY <2>1, InUp
<1> QED
  BY <1>2, <1>3

\* Components of k[c] bits, side by side, are found again where they were put.
Fits(v, at, k) ==
    /\ \A c \in Channels : at[c] \in Nat /\ k[c] \in Nat /\ v[c] \subseteq 0..(k[c] - 1)
    /\ \A c, d \in Channels : c # d => at[c] + k[c] <= at[d] \/ at[d] + k[d] <= at[c]

LEMMA InJoined ==
    ASSUME NEW v, NEW at, NEW k, Fits(v, at, k), NEW x
    PROVE  x \in Joined(v, at) <=>
             (x \in Nat /\ \E c \in Channels : x >= at[c] /\ x - at[c] \in v[c])
<1>1. \A c \in Channels : v[c] \subseteq Nat /\ at[c] \in Nat
  BY DEF Fits
<1>2. \A c \in Channels : x \in Up(v[c], at[c]) <=> (x \in Nat /\ x >= at[c] /\ x - at[c] \in v[c])
  BY <1>1, InUp
<1> QED
  BY <1>2 DEF Joined, Channels

\* v[c] is found at at[c] in the n bits of all of them
Found(v, at, k, n, c) == Down(Joined(v, at) \cap 0..(n - 1), at[c]) \cap 0..(k[c] - 1) = v[c]

LEMMA PartsFound ==
    ASSUME NEW v, NEW at, NEW k, Fits(v, at, k), NEW n \in Nat, NEW c \in Channels,
           at[c] + k[c] <= n
    PROVE  Found(v, at, k, n, c)
<1> DEFINE whole == Joined(v, at) \cap 0..(n - 1)
<1>1. at[c] \in Nat /\ k[c] \in Nat /\ v[c] \subseteq 0..(k[c] - 1)
  BY DEF Fits
<1>2. whole \subseteq Nat
  OBVIOUS
<1>3. \A x : x \in Down(whole, at[c]) <=> (x \in Nat /\ x + at[c] \in whole)
  BY <1>1, <1>2, InDown
<1>4. ASSUME NEW x \in v[c] PROVE x \in Down(whole, at[c]) \cap 0..(k[c] - 1)
  <2>1. x \in Nat /\ x <= k[c] - 1
    BY <1>1
  <2>2. x + at[c] \in Nat /\ x + at[c] >= at[c] /\ (x + at[c]) - at[c] = x /\ x + at[c] <= n - 1
    BY <1>1, <2>1, SMT
  <2>3. x + at[c] \in Joined(v, at)
    BY <2>2, InJoined
  <2>4. x + at[c] \in whole
    BY <2>2, <2>3
  <2>5. x \in 0..(k[c] - 1)
    BY <1>1
  <2> QED
    BY <1>3, <2>1, <2>4, <2>5
<1>5. ASSUME NEW x \in Down(whole, at[c]) \cap 0..(k[c] - 1) PROVE x \in v[c]
  <2>1. x \in Nat /\ x <= k[c] - 1 /\ x + at[c] \in Joined(v, at)
    <3>1. x \in Down(whole, at[c]) /\ x \in 0..(k[c] - 1)
      OBVIOUS
    <3>2. x \in Nat /\ x + at[c] \in whole
      BY <1>3, <3>1
    <3> QED
      BY <1>1, <3>1, <3>2
  <2>2. PICK d \in Channels : x + at[c] >= at[d] /\ (x + at[c]) - at[d] \in v[d]
    BY <2>1, InJoined
  <2>3. at[d] \in Nat /\ k[d] \in Nat /\ (x + at[c]) - at[d] <= k[d] - 1
    BY <2>2 DEF Fits
  <2>4. CASE d = c
    <3>1. (x + at[c]) - at[c] = x
      BY <1>1, <2>1, SMT
    <3> QED
      BY <2>2, <2>4, <3>1
  <2>5. CASE d # c
    <3>1. at[c] + k[c] <= at[d] \/ at[d] + k[d] <= at[c]
      BY <2>5 DEF Fits
    <3>2. FALSE
      BY <1>1, <2>1, <2>2, <2>3, <3>1, SMT
    <3> QED
      BY <3>2
  <2> QED
    BY <2>4, <2>5
<1>6. Down(whole, at[c]) \cap 0..(k[c] - 1) = v[c]
  BY <1>4, <1>5
<1> QED
  BY <1>6 DEF Found

(* Masks of whole bits, and formats *)

LEMMA WholeBits ==
    ASSUME NEW k \in 1..8
    PROVE  Bits(0..(k - 1)) = k /\ Norm(0..(k - 1)) = 8 - k
<1>1. \A j \in 1..8 : 0..(k - 1) = 0..(j - 1) => j = k
  <2> SUFFICES ASSUME NEW j \in 1..8, 0..(k - 1) = 0..(j - 1)
               PROVE  j = k
    OBVIOUS
  <2>1. k - 1 \in 0..(j - 1) /\ j - 1 \in 0..(k - 1)
    BY SMT
  <2> QED
    BY <2>1, SMT
<1>2. Bits(0..(k - 1)) = k
  BY <1>1 DEF Bits
<1>3. 0..(k - 1) \cap OneByte = 0..(k - 1) /\ 0..(k - 1) # {} /\ k - 1 \in 0..(k - 1)
  BY SMT DEF OneByte
<1>4. \A i \in 0..(k - 1) : (\A j \in 0..(k - 1) : j <= i) <=> i = k - 1
  BY SMT
<1>5. Highest(0..(k - 1)) = k - 1
  BY <1>3, <1>4 DEF Highest
<1>6. Norm(0..(k - 1)) = 7 - (k - 1)
  BY <1>3, <1>5 DEF Norm
<1> QED
  BY <1>2, <1>6, SMT

Formats == [bpp : {1, 2, 4}, max : [Channels -> SUBSET (0..15)],
            shift : [Channels -> FourBytes]]
Width(f) == [c \in Channels |-> Bits(f.max[c])]

LEMMA SoundFormat ==
    ASSUME NEW f \in Formats, Sound(f), NEW c \in Channels
    PROVE  /\ Width(f)[c] \in 1..8 /\ Width(f)[c] = Bits(f.max[c])
           /\ f.max[c] = 0..(Width(f)[c] - 1) /\ Norm(f.max[c]) = 8 - Width(f)[c]
           /\ f.shift[c] \in Nat /\ f.shift[c] + Width(f)[c] <= 8 * f.bpp
<1>1. PICK k \in 1..8 : f.max[c] = 0..(k - 1)
  BY DEF Sound
<1>2. Bits(f.max[c]) = k /\ Norm(f.max[c]) = 8 - k
  BY <1>1, WholeBits
<1>3. Width(f)[c] = k
  BY <1>2 DEF Width
<1>4. f.shift[c] \in Nat
  BY DEF Formats, FourBytes
<1>5. f.shift[c] + k <= 8 * f.bpp
  BY <1>2 DEF Sound
<1> QED
  BY <1>1, <1>2, <1>3, <1>4, <1>5

LEMMA SoundFits ==
    ASSUME NEW f \in Formats, Sound(f), NEW v, \A c \in Channels : v[c] \subseteq f.max[c]
    PROVE  Fits(v, f.shift, Width(f))
<1>1. \A c \in Channels : /\ Width(f)[c] \in 1..8 /\ Width(f)[c] = Bits(f.max[c])
                          /\ f.max[c] = 0..(Width(f)[c] - 1) /\ f.shift[c] \in Nat
  BY SoundFormat
<1>2. \A c \in Channels : /\ f.shift[c] \in Nat /\ Width(f)[c] \in Nat
                          /\ v[c] \subseteq 0..(Width(f)[c] - 1)
  BY <1>1
<1>3. \A c, d \in Channels : c # d =>
         f.shift[c] + Width(f)[c] <= f.shift[d] \/ f.shift[d] + Width(f)[d] <= f.shift[c]
  BY <1>1 DEF Sound
<1> QED
  BY <1>2, <1>3 DEF Fits

LEMMA ColourFound ==
    ASSUME NEW v \in [Channels -> SUBSET OneByte], NEW c \in Channels
    PROVE  ColourPart(TrfbRgb(v), c) = v[c]
<1> DEFINE k == [d \in Channels |-> 8]
<1>1. InColour["r"] = 16 /\ InColour["g"] = 8 /\ InColour["b"] = 0
  BY DEF InColour, Rgb, Channels
<1>2. \A d \in Channels : InColour[d] \in Nat /\ k[d] = 8 /\ v[d] \subseteq 0..(k[d] - 1)
  BY <1>1 DEF Channels, OneByte
<1>3. \A d, e \in Channels : d # e => InColour[d] + 8 <= InColour[e] \/ InColour[e] + 8 <= InColour[d]
  BY <1>1 DEF Channels
<1>4. Fits(v, InColour, k)
  BY <1>2, <1>3 DEF Fits
<1> DEFINE n == 32
<1>5. n \in Nat /\ InColour[c] + k[c] <= n
  BY <1>1 DEF Channels
<1>6. Found(v, InColour, k, n, c)
  <2> HIDE DEF k, n
  <2> QED
    BY <1>4, <1>5, PartsFound, Zenon
<1>7. 0..(n - 1) = FourBytes /\ 0..(k[c] - 1) = OneByte
  BY DEF FourBytes, OneByte
<1> QED
  BY <1>6, <1>7 DEF ColourPart, TrfbRgb, Found

LEMMA LostBits ==
    ASSUME NEW v, v \subseteq OneByte, NEW k \in 1..8
    PROVE  Down(v, 8 - k) \subseteq 0..(k - 1) /\ Up(Down(v, 8 - k), 8 - k) \subseteq OneByte
<1>1. v \subseteq Nat /\ 8 - k \in Nat
  BY SMT DEF OneByte
<1>2. ASSUME NEW x \in Down(v, 8 - k) PROVE x \in 0..(k - 1)
  <2>1. x \in Nat /\ x + (8 - k) \in v
    BY <1>1, InDown
  <2>2. x + (8 - k) <= 7
    BY <2>1 DEF OneByte
  <2> QED
    BY <2>1, <2>2, SMT
<1>3. Down(v, 8 - k) \subseteq Nat
  BY <1>1, ShiftsTyped
<1>4. ASSUME NEW x \in Up(Down(v, 8 - k), 8 - k) PROVE x \in OneByte
  <2>1. x \in Nat /\ x - (8 - k) \in Down(v, 8 - k)
    BY <1>1, <1>3, InUp
  <2>2. x - (8 - k) <= k - 1
    BY <1>2, <2>1
  <2> QED
    BY <2>1, <2>2, SMT DEF OneByte
<1> QED
  BY <1>2, <1>4

\* What is put into a pixel of a sound format is found again, but for the low
\* bits that it has no room for.
LEMMA PixelHolds ==
    ASSUME NEW f \in Formats, Sound(f), NEW v \in [Channels -> SUBSET OneByte],
           NEW c \in Channels
    PROVE  TakenOut(f, SetPixel(f, TrfbRgb(v)), c) = Shade(v[c], f, c)
<1> DEFINE part == [d \in Channels |-> Component(f, TrfbRgb(v), d)]
<1>1. ASSUME NEW d \in Channels PROVE part[d] = Shade(v[d], f, d) /\ part[d] \subseteq f.max[d]
  <2>1. Width(f)[d] \in 1..8 /\ f.max[d] = 0..(Width(f)[d] - 1)
        /\ Norm(f.max[d]) = 8 - Width(f)[d] /\ Width(f)[d] = Bits(f.max[d])
    BY SoundFormat
  <2>2. Down(v[d], 8 - Width(f)[d]) \subseteq f.max[d]
    BY <2>1, LostBits
  <2>3. part[d] = Down(v[d], 8 - Width(f)[d]) \cap f.max[d]
    BY <2>1, ColourFound DEF Component
  <2> QED
    BY <2>1, <2>2, <2>3 DEF Shade
<1> HIDE DEF part
<1>2. Fits(part, f.shift, Width(f))
  BY <1>1, SoundFits
<1>3. 8 * f.bpp \in Nat
  BY SMT DEF Formats
<1>4. f.shift[c] + Width(f)[c] <= 8 * f.bpp /\ f.max[c] = 0..(Width(f)[c] - 1)
  BY SoundFormat
<1>5. Down(Joined(part, f.shift) \cap 0..(8 * f.bpp - 1), f.shift[c])
         \cap 0..(Width(f)[c] - 1) = part[c]
  <2> DEFINE n == 8 * f.bpp
  <2>1. n \in Nat /\ f.shift[c] + Width(f)[c] <= n
    BY <1>3, <1>4
  <2> HIDE DEF n
  <2>2. Found(part, f.shift, Width(f), n, c)
    BY <1>2, <2>1, PartsFound, Zenon
  <2> QED
    BY <2>2 DEF n, Found
<1>6. SetPixel(f, TrfbRgb(v)) = Joined(part, f.shift) \cap 0..(8 * f.bpp - 1)
  BY DEF SetPixel, Cut, part
<1> QED
  BY <1>1, <1>4, <1>5, <1>6 DEF TakenOut
(* The formats of the application *)

LEMMA SoundByParts ==
    ASSUME NEW f, NEW k,
           \A c \in Channels : /\ k[c] \in 1..8 /\ f.max[c] = 0..(k[c] - 1)
                              /\ f.shift[c] + k[c] <= 8 * f.bpp,
           \A c, d \in Channels : c # d =>
              f.shift[c] + k[c] <= f.shift[d] \/ f.shift[d] + k[d] <= f.shift[c]
    PROVE  Sound(f)
<1>1. \A c \in Channels : Bits(f.max[c]) = k[c] /\ f.max[c] \in {0..(n - 1) : n \in 1..8}
  BY WholeBits
<1> QED
  BY <1>1 DEF Sound

LEMMA CreatedSound ==
    ASSUME NEW b \in {1, 2, 4}
    PROVE  Created(b) \in Formats /\ Created(b).bpp = b /\ Sound(Created(b))
<1> DEFINE f == Created(b)
<1>1. CASE b = 1
  <2> DEFINE k == Rgb(3, 3, 2)
  <2>1. f = [bpp |-> 1, max |-> Rgb(0..2, 0..2, 0..1), shift |-> Rgb(0, 3, 6)]
    BY <1>1 DEF Created
  <2>2. f \in Formats /\ f.bpp = 1
    BY <2>1 DEF Formats, Rgb, FourBytes, Channels
  <2>3. /\ f.max["r"] = 0..(3 - 1) /\ f.max["g"] = 0..(3 - 1) /\ f.max["b"] = 0..(2 - 1)
        /\ f.shift["r"] = 0 /\ f.shift["g"] = 3 /\ f.shift["b"] = 6
        /\ k["r"] = 3 /\ k["g"] = 3 /\ k["b"] = 2
    BY <2>1 DEF Rgb, Channels
  <2> HIDE DEF f, k
  <2>4. \A c \in Channels : /\ k[c] \in 1..8 /\ f.max[c] = 0..(k[c] - 1)
                            /\ f.shift[c] + k[c] <= 8 * f.bpp
    <3>1. \A c \in Channels : f.max[c] = 0..(k[c] - 1)
      BY <2>3, Zenon DEF Channels
    <3>2. \A c \in Channels : k[c] \in 1..8 /\ f.shift[c] + k[c] <= 8 * f.bpp
      BY <2>2, <2>3 DEF Channels
    <3> QED
      BY <3>1, <3>2
  <2>5. \A c, d \in Channels : c # d =>
           f.shift[c] + k[c] <= f.shift[d] \/ f.shift[d] + k[d] <= f.shift[c]
    BY <2>3 DEF Channels
  <2>6. Sound(f)
    BY <2>4, <2>5, SoundByParts
  <2> QED
    BY <1>1, <2>2, <2>6 DEF f
<1>2. CASE b = 2
  <2> DEFINE k == Rgb(5, 6, 5)
  <2>1. f = [bpp |-> 2, max |-> Rgb(0..4, 0..5, 0..4), shift |-> Rgb(11, 5, 0)]
    BY <1>2 DEF Created
  <2>2. f \in Formats /\ f.bpp = 2
    BY <2>1 DEF Formats, Rgb, FourBytes, Channels
  <2>3. /\ f.max["r"] = 0..(5 - 1) /\ f.max["g"] = 0..(6 - 1) /\ f.max["b"] = 0..(5 - 1)
        /\ f.shift["r"] = 11 /\ f.shift["g"] = 5 /\ f.shift["b"] = 0
        /\ k["r"] = 5 /\ k["g"] = 6 /\ k["b"] = 5
    BY <2>1 DEF Rgb, Channels
  <2> HIDE DEF f, k
  <2>4. \A c \in Channels : /\ k[c] \in 1..8 /\ f.max[c] = 0..(k[c] - 1)
                            /\ f.shift[c] + k[c] <= 8 * f.bpp
    <3>1. \A c \in Channels : f.max[c] = 0..(k[c] - 1)
      BY <2>3, Zenon DEF Channels
    <3>2. \A c \in Channels : k[c] \in 1..8 /\ f.shift[c] + k[c] <= 8 * f.bpp
      BY <2>2, <2>3 DEF Channels
    <3> QED
      BY <3>1, <3>2
  <2>5. \A c, d \in Channels : c # d =>
           f.shift[c] + k[c] <= f.shift[d] \/ f.shift[d] + k[d] <= f.shift[c]
    BY <2>3 DEF Channels
  <2>6. Sound(f)
    BY <2>4, <2>5, SoundByParts
  <2> QED
    BY <1>2, <2>2, <2>6 DEF f
<1>3. CASE b = 4
  <2> DEFINE k == Rgb(8, 8, 8)
  <2>1. f = [bpp |-> 4, max |-> Rgb(0..7, 0..7, 0..7), shift |-> Rgb(16, 8, 0)]
    BY <1>3 DEF Created
  <2>2. f \in Formats /\ f.bpp = 4
    BY <2>1 DEF Formats, Rgb, FourBytes, Channels
  <2>3. /\ f.max["r"] = 0..(8 - 1) /\ f.max["g"] = 0..(8 - 1) /\ f.max["b"] = 0..(8 - 1)
        /\ f.shift["r"] = 16 /\ f.shift["g"] = 8 /\ f.shift["b"] = 0
        /\ k["r"] = 8 /\ k["g"] = 8 /\ k["b"] = 8
    BY <2>1 DEF Rgb, Channels
  <2> HIDE DEF f, k
  <2>4. \A c \in Channels : /\ k[c] \in 1..8 /\ f.max[c] = 0..(k[c] - 1)
                            /\ f.shift[c] + k[c] <= 8 * f.bpp
    <3>1. \A c \in Channels : f.max[c] = 0..(k[c] - 1)
      BY <2>3, Zenon DEF Channels
    <3>2. \A c \in Channels : k[c] \in 1..8 /\ f.shift[c] + k[c] <= 8 * f.bpp
      BY <2>2, <2>3 DEF Channels
    <3> QED
      BY <3>1, <3>2
  <2>5. \A c, d \in Channels : c # d =>
           f.shift[c] + k[c] <= f.shift[d] \/ f.shift[d] + k[d] <= f.shift[c]
    BY <2>3 DEF Channels
  <2>6. Sound(f)
    BY <2>4, <2>5, SoundByParts
  <2> QED
    BY <1>3, <2>2, <2>6 DEF f
<1> QED
  BY <1>1, <1>2, <1>3

(* Bytes in memory and on the wire *)

LEMMA BytesJoin ==
    ASSUME NEW n \in {1, 2, 4}, NEW p, p \subseteq 0..(8 * n - 1)
    PROVE  UNION {Up(Byte(p, i - 1), 8 * (i - 1)) : i \in 1..n} = p
<1> DEFINE all == UNION {Up(Byte(p, i - 1), 8 * (i - 1)) : i \in 1..n}
<1>0. p \subseteq Nat
  BY SMT
<1>1. ASSUME NEW i \in 1..n, NEW x
      PROVE  x \in Up(Byte(p, i - 1), 8 * (i - 1)) <=>
               (x \in p /\ x >= 8 * (i - 1) /\ x - 8 * (i - 1) <= 7)
  <2>1. 8 * (i - 1) \in Nat
    BY SMT
  <2> DEFINE s == 8 * (i - 1)
  <2>2. Byte(p, i - 1) = Down(p, s) \cap OneByte
    BY DEF Byte
  <2>3. s \in Nat
    BY <2>1
  <2> HIDE DEF s
  <2>4. Byte(p, i - 1) \subseteq Nat
    BY <1>0, <2>2, <2>3, ShiftsTyped
  <2>5. x \in Up(Byte(p, i - 1), s) <=> (x \in Nat /\ x >= s /\ x - s \in Byte(p, i - 1))
    BY <2>3, <2>4, InUp
  <2>6. x - s \in Down(p, s) <=> (x - s \in Nat /\ (x - s) + s \in p)
    BY <1>0, <2>3, InDown
  <2>7. ASSUME x \in Nat, x >= s
        PROVE  /\ x - s \in Nat /\ (x - s) + s = x
               /\ x - s \in OneByte <=> x - s <= 7
    BY <2>3, <2>7, SMT DEF OneByte
  <2>8. x \in Up(Byte(p, i - 1), s) <=> (x \in p /\ x >= s /\ x - s <= 7)
    BY <1>0, <2>2, <2>5, <2>6, <2>7
  <2> QED
    BY <2>8 DEF s
<1>2. \A x \in all : x \in p
  BY <1>1
<1>3. ASSUME NEW x \in p PROVE x \in all
  <2>1. \E i \in 1..n : x >= 8 * (i - 1) /\ x - 8 * (i - 1) <= 7
    <3>1. x \in Nat /\ x <= 8 * n - 1
      OBVIOUS
    <3>2. CASE n = 1
      <4>1. 1 \in 1..n /\ x >= 8 * (1 - 1) /\ x - 8 * (1 - 1) <= 7
        BY <3>1, <3>2, SMT
      <4> QED
        BY <4>1
    <3>3. CASE n = 2
      <4>1. \/ 1 \in 1..n /\ x >= 8 * (1 - 1) /\ x - 8 * (1 - 1) <= 7
            \/ 2 \in 1..n /\ x >= 8 * (2 - 1) /\ x - 8 * (2 - 1) <= 7
        BY <3>1, <3>3, SMT
      <4> QED
        BY <4>1
    <3>4. CASE n = 4
      <4>1. \/ 1 \in 1..n /\ x >= 8 * (1 - 1) /\ x - 8 * (1 - 1) <= 7
            \/ 2 \in 1..n /\ x >= 8 * (2 - 1) /\ x - 8 * (2 - 1) <= 7
            \/ 3 \in 1..n /\ x >= 8 * (3 - 1) /\ x - 8 * (3 - 1) <= 7
            \/ 4 \in 1..n /\ x >= 8 * (4 - 1) /\ x - 8 * (4 - 1) <= 7
        BY <3>1, <3>4, SMT
      <4> QED
        BY <4>1
    <3> QED
      BY <3>2, <3>3, <3>4
  <2> QED
    BY <1>1, <2>1
<1> QED
  BY <1>2, <1>3

\* b is the n bytes of a pixel
Sequenced(b, n) == b \in [1..n -> SUBSET OneByte]

LEMMA SwappedTurns ==
    ASSUME NEW n \in {1, 2, 4}, NEW b, Sequenced(b, n)
    PROVE  Sequenced(Swapped(b), n) /\ \A i \in 1..n : Swapped(b)[i] = b[n + 1 - i]
<1>1. b \in Seq(SUBSET OneByte) /\ Len(b) = n
  BY DEF Sequenced
<1>2. CASE n = 1
  <2>1. Swapped(b) = b
    BY <1>1, <1>2 DEF Swapped
  <2> QED
    BY <1>2, <2>1
<1>3. CASE n = 2
  <2>1. Swapped(b) = <<b[2], b[1]>>
    BY <1>1, <1>3 DEF Swapped
  <2> QED
    BY <1>1, <1>3, <2>1 DEF Sequenced
<1>4. CASE n = 4
  <2>1. Swapped(b) = <<b[4], b[3], b[2], b[1]>>
    BY <1>1, <1>4 DEF Swapped
  <2> QED
    BY <1>1, <1>4, <2>1 DEF Sequenced
<1> QED
  BY <1>2, <1>3, <1>4
LEMMA MemoryTyped ==
    ASSUME NEW f \in Formats, NEW p
    PROVE  Sequenced(InMemory(f, p), f.bpp)
  BY DEF Sequenced, InMemory, Byte, Formats

\* What TurnOrder puts on the wire, and what the client reads there
Wire(f, p) == IF hostBE = bigEndian THEN InMemory(f, p) ELSE Swapped(InMemory(f, p))

LEMMA WireBytes ==
    ASSUME NEW f \in Formats, NEW p, hostBE \in BOOLEAN, bigEndian \in BOOLEAN
    PROVE  /\ Sequenced(Wire(f, p), f.bpp)
           /\ \A i \in 1..f.bpp :
                 Wire(f, p)[i] = IF bigEndian THEN Byte(p, f.bpp - i) ELSE Byte(p, i - 1)
<1> DEFINE m == InMemory(f, p)
           n == f.bpp
<1>1. n \in {1, 2, 4}
  BY DEF Formats
<1>2. Sequenced(m, n) /\ \A i \in 1..n : m[i] = IF hostBE THEN Byte(p, n - i) ELSE Byte(p, i - 1)
  BY MemoryTyped DEF InMemory
<1> HIDE DEF m, n
<1>3. Sequenced(Swapped(m), n) /\ \A i \in 1..n : Swapped(m)[i] = m[n + 1 - i]
  BY <1>1, <1>2, SwappedTurns
<1>4. \A i \in 1..n : n + 1 - i \in 1..n /\ n - (n + 1 - i) = i - 1 /\ (n + 1 - i) - 1 = n - i
  BY <1>1, SMT
<1>5. \A i \in 1..n : Swapped(m)[i] = IF hostBE THEN Byte(p, i - 1) ELSE Byte(p, n - i)
  BY <1>2, <1>3, <1>4
<1> QED
  BY <1>2, <1>3, <1>5 DEF Wire, m, n

LEMMA WireRead ==
    ASSUME NEW f \in Formats, NEW p, p \subseteq 0..(8 * f.bpp - 1),
           hostBE \in BOOLEAN, bigEndian \in BOOLEAN
    PROVE  FromWire(Wire(f, p)) = p
<1> DEFINE w == Wire(f, p)
           n == f.bpp
           at(i) == IF bigEndian THEN w[Len(w) + 1 - i] ELSE w[i]
<1>1. n \in {1, 2, 4}
  BY DEF Formats
<1>2. Sequenced(w, n) /\ \A i \in 1..n : w[i] = IF bigEndian THEN Byte(p, n - i) ELSE Byte(p, i - 1)
  BY WireBytes
<1>3. Len(w) = n
  BY <1>1, <1>2 DEF Sequenced
<1>4. \A i \in 1..n : n + 1 - i \in 1..n /\ n - (n + 1 - i) = i - 1
  BY <1>1, SMT
<1>5. \A i \in 1..n : at(i) = Byte(p, i - 1)
  BY <1>2, <1>3, <1>4
<1>6. FromWire(w) = UNION {Up(at(i), 8 * (i - 1)) : i \in 1..Len(w)}
  BY DEF FromWire
<1>7. @ = UNION {Up(Byte(p, i - 1), 8 * (i - 1)) : i \in 1..n}
  BY <1>3, <1>5
<1> QED
  BY <1>1, <1>6, <1>7, BytesJoin
(* The pixel from stage to stage *)

\* What was put into the framebuffer of the server, and what is made of it for
\* the client.  The invariant: each stage has this pixel, in its own shape.
DrawnPixel == SetPixel(screen, TrfbRgb(colour))
SentPixel ==
    IF format = screen THEN DrawnPixel ELSE SetPixel(format, GetPixel(screen, DrawnPixel))
PixelInv ==
    /\ stage \in {"new", "drawn", "converted", "wire", "read"}
    /\ colour \in Colours /\ hostBE \in BOOLEAN /\ bigEndian \in BOOLEAN
    /\ screen \in {Created(b) : b \in {1, 2, 4}} /\ format \in Formats
    /\ stage = "new" => pixel = {}
    /\ stage = "drawn" => pixel = DrawnPixel
    /\ stage = "converted" => pixel = SentPixel
    /\ stage \in {"wire", "read"} => pixel = Wire(format, SentPixel)
    /\ seen = IF stage = "read" THEN [c \in Channels |-> TakenOut(format, SentPixel, c)]
                ELSE Rgb({}, {}, {})

LEMMA SetPixelFits ==
    ASSUME NEW f, NEW col
    PROVE  SetPixel(f, col) \subseteq 0..(8 * f.bpp - 1)
  BY DEF SetPixel, Cut

LEMMA FormatThere ==
    ASSUME NEW f \in Formats
    PROVE  CreatedOfFormat([f EXCEPT !.bpp = 8 * @]) = f
<1>1. f = [bpp |-> f.bpp, max |-> f.max, shift |-> f.shift] /\ f.bpp \in {1, 2, 4}
  BY DEF Formats
<1> DEFINE n == 8 * f.bpp
           g == [bpp |-> n, max |-> f.max, shift |-> f.shift]
<1>2. [f EXCEPT !.bpp = 8 * @] = g
  BY <1>1
<1>3. n \div 8 = f.bpp
  BY <1>1, SMT
<1> HIDE DEF n
<1>4. g.bpp = n /\ [g EXCEPT !.bpp = f.bpp] = f
  BY <1>1
<1> HIDE DEF g
<1>5. CreatedOfFormat(g) = [g EXCEPT !.bpp = g.bpp \div 8]
  BY Zenon DEF CreatedOfFormat
<1> QED
  BY <1>2, <1>3, <1>4, <1>5

LEMMA PixelStarts == PixelInit => PixelInv
<1> SUFFICES ASSUME PixelInit
             PROVE  PixelInv
  OBVIOUS
<1>1. PICK b \in {1, 2, 4} : screen = Created(b)
  BY DEF PixelInit
<1>2. screen \in Formats
  BY <1>1, CreatedSound
<1>3. ClientFormats \subseteq Formats
  BY PixelAssumption DEF Formats
<1>4. format \in Formats
  <2>1. CASE format = CreatedOfFormat(FormatOf(screen))
    BY <1>2, <2>1, FormatThere DEF FormatOf
  <2>2. CASE format \in {CreatedOfFormat([f EXCEPT !.bpp = 8 * @]) : f \in ClientFormats}
    <3>1. PICK f \in ClientFormats : format = CreatedOfFormat([f EXCEPT !.bpp = 8 * @])
      BY <2>2
    <3> QED
      BY <1>3, <3>1, FormatThere
  <2> QED
    BY <2>1, <2>2 DEF PixelInit
<1> QED
  BY <1>1, <1>4 DEF PixelInit, PixelInv

LEMMA PixelStep ==
    PixelInv /\ [Draw \/ Convert \/ TurnOrder \/ ClientReads]_pixelVars => PixelInv'
<1> SUFFICES ASSUME PixelInv, [Draw \/ Convert \/ TurnOrder \/ ClientReads]_pixelVars
             PROVE  PixelInv'
  OBVIOUS
<1> USE DEF PixelInv
<1>1. CASE Draw
  BY <1>1 DEF Draw, DrawnPixel
<1>2. CASE Convert
  BY <1>2 DEF Convert, Converted, SentPixel, DrawnPixel
<1>3. CASE TurnOrder
  <2>1. pixel' = Wire(format, SentPixel)
    BY <1>3 DEF TurnOrder, Wire
  <2>2. Wire(format, SentPixel)' = Wire(format, SentPixel)
    BY <1>3 DEF TurnOrder, Wire, SentPixel, DrawnPixel, InMemory
  <2> QED
    BY <1>3, <2>1, <2>2 DEF TurnOrder
<1>4. CASE ClientReads
  <2>1. screen \in Formats
    BY CreatedSound
  <2>2. SentPixel \subseteq 0..(8 * format.bpp - 1)
    BY SetPixelFits DEF SentPixel, DrawnPixel
  <2>3. FromWire(pixel) = SentPixel
    BY <1>4, <2>2, WireRead DEF ClientReads
  <2>4. seen' = [c \in Channels |-> TakenOut(format, SentPixel, c)]
    BY <1>4, <2>3 DEF ClientReads
  <2>5. Wire(format, SentPixel)' = Wire(format, SentPixel) /\ SentPixel' = SentPixel
    BY <1>4 DEF ClientReads, Wire, SentPixel, DrawnPixel, InMemory
  <2> QED
    BY <1>4, <2>4, <2>5 DEF ClientReads
<1>5. CASE UNCHANGED pixelVars
  <2>1. Wire(format, SentPixel)' = Wire(format, SentPixel) /\ SentPixel' = SentPixel
        /\ DrawnPixel' = DrawnPixel
    BY <1>5 DEF pixelVars, Wire, SentPixel, DrawnPixel, InMemory
  <2> QED
    BY <1>5, <2>1 DEF pixelVars
<1> QED
  BY <1>1, <1>2, <1>3, <1>4, <1>5

LEMMA PixelInvType == PixelInv => PixelTypeOK
<1> SUFFICES ASSUME PixelInv
             PROVE  PixelTypeOK
  OBVIOUS
<1> USE DEF PixelInv
<1>1. DrawnPixel \subseteq 0..(8 * screen.bpp - 1)
  BY SetPixelFits DEF DrawnPixel
<1>2. SentPixel \subseteq 0..(8 * format.bpp - 1)
  BY <1>1, SetPixelFits DEF SentPixel
<1>3. Wire(format, SentPixel) \in [1..format.bpp -> SUBSET OneByte]
  BY WireBytes DEF Sequenced
<1>4. seen \in [Channels -> SUBSET (0..15)]
  <2>1. \A c \in Channels : TakenOut(format, SentPixel, c) \subseteq 0..15
    BY DEF TakenOut, Formats
  <2> QED
    BY <2>1 DEF Rgb
<1> QED
  BY <1>1, <1>2, <1>3, <1>4 DEF PixelTypeOK

LEMMA PixelInvColour == PixelInv => ClientSeesColour
<1> SUFFICES ASSUME PixelInv, stage = "read", Sound(format), NEW c \in Channels
             PROVE  seen[c] = Shade(Drawn(c), format, c)
  BY DEF ClientSeesColour
<1> USE DEF PixelInv
<1>1. colour \in [Channels -> SUBSET OneByte]
  BY PixelAssumption
<1>2. screen \in Formats /\ Sound(screen)
  BY CreatedSound
<1>3. seen[c] = TakenOut(format, SentPixel, c)
  OBVIOUS
<1>4. \A d \in Channels : TakenOut(screen, DrawnPixel, d) = Shade(colour[d], screen, d)
  BY <1>1, <1>2, PixelHolds DEF DrawnPixel
<1> DEFINE back == [d \in Channels |-> Drawn(d)]
<1>5. ASSUME NEW d \in Channels
      PROVE  /\ Drawn(d) = Up(TakenOut(screen, DrawnPixel, d), Norm(screen.max[d]))
             /\ Drawn(d) \subseteq OneByte
             /\ Shade(Drawn(d), screen, d) = Shade(colour[d], screen, d)
  <2> DEFINE k == Width(screen)[d]
  <2>1. k \in 1..8 /\ k = Bits(screen.max[d]) /\ Norm(screen.max[d]) = 8 - k
    BY <1>2, SoundFormat
  <2> HIDE DEF k
  <2>2. colour[d] \subseteq OneByte /\ OneByte \subseteq Nat
    BY <1>1 DEF OneByte
  <2>3. 8 - k \in Nat
    BY <2>1, SMT
  <2>4. Shade(colour[d], screen, d) = Down(colour[d], 8 - k)
    BY <2>1 DEF Shade
  <2>5. Drawn(d) = Up(Down(colour[d], 8 - k), 8 - k)
    BY <2>1, <2>4 DEF Drawn
  <2>6. Down(colour[d], 8 - k) \subseteq Nat
    BY <2>2, <2>3, ShiftsTyped
  <2>7. Shade(Drawn(d), screen, d) = Down(colour[d], 8 - k)
    BY <2>1, <2>3, <2>5, <2>6, DownUp DEF Shade
  <2>8. Drawn(d) \subseteq OneByte
    BY <2>1, <2>2, <2>5, LostBits
  <2> QED
    BY <1>4, <2>1, <2>4, <2>5, <2>7, <2>8
<1>6. CASE format = screen
  BY <1>3, <1>4, <1>5, <1>6 DEF SentPixel
<1>7. CASE format # screen
  <2>1. GetPixel(screen, DrawnPixel) = TrfbRgb(back)
    BY <1>5 DEF GetPixel
  <2>2. back \in [Channels -> SUBSET OneByte]
    BY <1>5
  <2>3. TakenOut(format, SetPixel(format, TrfbRgb(back)), c) = Shade(back[c], format, c)
    BY <2>2, PixelHolds
  <2> QED
    BY <1>3, <1>7, <2>1, <2>3 DEF SentPixel
<1> QED
  BY <1>6, <1>7

LEMMA PixelInvAlways == PixelSpec => []PixelInv
  BY PixelStarts, PixelStep, PTL DEF PixelSpec

\* The framebuffers of server and connection: whatever is drawn and whatever the
\* client asks for, a pixel stays within the bytes of its format, in both byte
\* orders of host and client.
THEOREM PixelTyped == PixelSpec => []PixelTypeOK
  BY PixelInvAlways, PixelInvType, PTL

\* The pixel functions, trfb_framebuffer_convert and trfb_framebuffer_endian: for
\* every colour, every framebuffer of the application and every format of whole
\* bits side by side, the client sees the colour but for the low bits.
THEOREM ColourSeen == PixelSpec => []ClientSeesColour
  BY PixelInvAlways, PixelInvColour, PTL

-----------------------------------------------------------------------------
(* Places in rows of a given width *)

LEMMA PlaceInRow ==
    ASSUME NEW w \in Nat \ {0}, NEW x \in 0..(w - 1), NEW y \in Nat
    PROVE  ((y * w) + x) % w = x /\ ((y * w) + x) \div w = y
  BY SMTT(20)

LEMMA PlaceInPicture ==
    ASSUME NEW w \in Nat \ {0}, NEW h \in Nat \ {0}, NEW x \in 0..(w - 1), NEW y \in 0..(h - 1)
    PROVE  (y * w) + x \in 0..((w * h) - 1)
<1>1. (y * w) + w <= w * h
  BY SMTT(20)
<1>2. y * w \in Nat /\ w * h \in Nat
  BY SMT
<1> QED
  BY <1>1, <1>2, SMT

-----------------------------------------------------------------------------
(* A framebuffer that is resized *)

PictureInv == PictureTypeOK /\ PixelsKeepPlace

LEMMA PictureStarts == PictureInit => PictureInv
<1> SUFFICES ASSUME PictureInit
             PROVE  PictureInv
  OBVIOUS
<1>1. size.w \in Nat \ {0} /\ size.h \in Nat \ {0}
  BY PictureAssumption DEF PictureInit
<1>2. size \in PictureSizes /\ size = [w |-> size.w, h |-> size.h]
  BY PictureAssumption DEF PictureInit
<1>3. PictureTypeOK
  <2>1. least = [w |-> size.w, h |-> size.h]
    BY <1>2 DEF PictureInit
  <2> QED
    BY <1>1, <1>2, <2>1 DEF PictureInit, PictureTypeOK
<1>4. PixelsKeepPlace
  <2> SUFFICES ASSUME NEW x \in 0..(size.w - 1), NEW y \in 0..(size.h - 1)
               PROVE  picture[(y * size.w) + x]
                        = IF x < least.w /\ y < least.h THEN <<x, y>> ELSE Cleared
    BY Zenon DEF PixelsKeepPlace
  <2>1. (y * size.w) + x \in Places(size)
    BY <1>1, PlaceInPicture DEF Places
  <2>2. picture[(y * size.w) + x] = <<((y * size.w) + x) % size.w, ((y * size.w) + x) \div size.w>>
    BY <2>1 DEF PictureInit
  <2>3. ((y * size.w) + x) % size.w = x /\ ((y * size.w) + x) \div size.w = y
    <3>1. y \in Nat
      BY <1>1
    <3> QED
      BY <1>1, <3>1, PlaceInRow, Zenon
  <2>4. x < least.w /\ y < least.h
    BY <1>1 DEF PictureInit
  <2> QED
    BY <2>2, <2>3, <2>4
<1> QED
  BY <1>3, <1>4 DEF PictureInv

LEMMA PictureStays == PictureInv /\ [Resize]_pictureVars => PictureInv'
<1> SUFFICES ASSUME PictureInv, [Resize]_pictureVars
             PROVE  PictureInv'
  OBVIOUS
<1>1. CASE UNCHANGED pictureVars
  BY <1>1 DEF pictureVars, PictureInv, PictureTypeOK, PixelsKeepPlace, Places
<1>2. CASE Resize
  <2>1. PICK s \in PictureSizes :
           /\ size' = s /\ least' = LeastOf(least, s)
           /\ picture' = [i \in Places(s) |->
                IF i % s.w < LeastOf(size, s).w /\ i \div s.w < LeastOf(size, s).h
                THEN picture[RowOf(i \div s.w, s) + (i % s.w)] ELSE Cleared]
    BY <1>2 DEF Resize
  <2>2. /\ s.w \in Nat \ {0} /\ s.h \in Nat \ {0}
        /\ size.w \in Nat \ {0} /\ size.h \in Nat \ {0}
    BY PictureAssumption DEF PictureInv, PictureTypeOK
  <2>3. least.w \in 1..size.w /\ least.h \in 1..size.h
    BY DEF PictureInv, PictureTypeOK
  <2>4. /\ least' = [w |-> Lesser(least.w, s.w), h |-> Lesser(least.h, s.h)]
        /\ Lesser(least.w, s.w) \in 1..s.w /\ Lesser(least.h, s.h) \in 1..s.h
    BY <2>1, <2>2, <2>3 DEF LeastOf, Lesser
  <2>5. PictureTypeOK'
    <3>1. least' \in [w : 1..s.w, h : 1..s.h]
      BY <2>4
    <3> QED
      BY <2>1, <3>1 DEF PictureTypeOK, Places
  <2>6. PixelsKeepPlace'
    <3> SUFFICES ASSUME NEW x \in 0..(s.w - 1), NEW y \in 0..(s.h - 1)
                 PROVE  picture'[(y * s.w) + x]
                          = IF x < least'.w /\ y < least'.h THEN <<x, y>> ELSE Cleared
      BY <2>1, Zenon DEF PixelsKeepPlace, Cleared
    <3>1. (y * s.w) + x \in Places(s)
      BY <2>2, PlaceInPicture DEF Places
    <3>2. ((y * s.w) + x) % s.w = x /\ ((y * s.w) + x) \div s.w = y
      <4>1. y \in Nat
        BY <2>2
      <4> QED
        BY <2>2, <4>1, PlaceInRow, Zenon
    <3>3. picture'[(y * s.w) + x]
            = IF x < Lesser(size.w, s.w) /\ y < Lesser(size.h, s.h)
              THEN picture[(y * size.w) + x] ELSE Cleared
      BY <2>1, <3>1, <3>2 DEF LeastOf, RowOf
    <3>4. CASE x < size.w /\ y < size.h
      <4>1. picture[(y * size.w) + x]
              = IF x < least.w /\ y < least.h THEN <<x, y>> ELSE Cleared
        BY <2>2, <3>4 DEF PictureInv, PixelsKeepPlace
      <4>2. /\ x < Lesser(size.w, s.w) /\ y < Lesser(size.h, s.h)
            /\ x < least'.w <=> x < least.w
            /\ y < least'.h <=> y < least.h
        BY <2>2, <2>3, <2>4, <3>4 DEF Lesser
      <4> QED
        BY <3>3, <4>1, <4>2
    <3>5. CASE ~(x < size.w /\ y < size.h)
      <4>1. ~(x < Lesser(size.w, s.w) /\ y < Lesser(size.h, s.h))
        BY <2>2, <3>5 DEF Lesser
      <4>2. ~(x < least'.w /\ y < least'.h)
        BY <2>2, <2>3, <2>4, <3>5 DEF Lesser
      <4> QED
        BY <3>3, <4>1, <4>2
    <3> QED
      BY <3>4, <3>5
  <2> QED
    BY <2>5, <2>6 DEF PictureInv
<1> QED
  BY <1>1, <1>2

\* trfb_framebuffer_resize: a picture has as many pixels as its size says,
\* whatever sizes it goes through.
THEOREM PictureTyped == PictureSpec => []PictureTypeOK
<1>1. PictureInv => PictureTypeOK
  BY DEF PictureInv
<1> QED
  BY <1>1, PictureStarts, PictureStays, PTL DEF PictureSpec

\* trfb_framebuffer_resize: after any sequence of resizes, of any sizes, a pixel
\* is where it was drawn if every size on the way had it, and blank otherwise.
THEOREM PlacesKept == PictureSpec => []PixelsKeepPlace
<1>1. PictureInv => PixelsKeepPlace
  BY DEF PictureInv
<1> QED
  BY <1>1, PictureStarts, PictureStays, PTL DEF PictureSpec

-----------------------------------------------------------------------------
(* Colours: a word of three bytes, and what the packed formats keep of it *)

Octet == 0..255
Bytewise == [{"r", "g", "b"} -> Octet]

LEMMA OrZero ==
    ASSUME NEW m \in 0..255
    PROVE  OrByte(m, 0) = m
  BY SMTT(20) DEF OrByte, Bit

\* a word put together, by webcam_color_rgb or in Word, and taken apart
Joins(r, g, b) ==
    LET w == (r * 65536) + (g * 256) + b
    IN Colour(r, g, b) = w /\ R(w) = r /\ G(w) = g /\ B(w) = b

LEMMA ColourOfBytes ==
    ASSUME NEW r \in Octet, NEW g \in Octet, NEW b \in Octet
    PROVE  Joins(r, g, b)
<1>1. /\ r % 256 = r /\ (g \div 256) % 256 = 0 /\ (b \div 65536) % 256 = 0
      /\ g % 256 = g /\ (b \div 256) % 256 = 0 /\ b % 256 = b
  BY SMT DEF Octet
<1>2. OrByte(r, 0) = r /\ OrByte(g, 0) = g
  BY OrZero DEF Octet
<1>3. Colour(r, g, b) = (r * 65536) + (g * 256) + b
  BY <1>1, <1>2 DEF Colour
<1>4. /\ ((r * 65536) + (g * 256) + b) \div 65536 = r
      /\ (((r * 65536) + (g * 256) + b) \div 256) % 256 = g
      /\ ((r * 65536) + (g * 256) + b) % 256 = b
  BY SMTT(20) DEF Octet
<1> QED
  BY <1>3, <1>4, SMT DEF Joins, R, G, B

LEMMA PartsOfWord ==
    ASSUME NEW c \in Bytewise
    PROVE  /\ R(Word(c)) = c.r /\ G(Word(c)) = c.g /\ B(Word(c)) = c.b
           /\ Colour(c.r, c.g, c.b) = Word(c)
           /\ c.r \in Octet /\ c.g \in Octet /\ c.b \in Octet
<1>1. c.r \in Octet /\ c.g \in Octet /\ c.b \in Octet
  BY DEF Bytewise
<1>2. Joins(c.r, c.g, c.b)
  BY <1>1, ColourOfBytes
<1> QED
  BY <1>1, <1>2 DEF Joins, Word

\* The number a packed format puts for three bytes, and that reading it keeps of
\* each byte what the format has bits for.
Packing(s, r, g, b) ==
    (Top(r, Put(s).r[2]) * Put(s).r[1]) + (Top(g, Put(s).g[2]) * Put(s).g[1])
        + (Top(b, Put(s).b[2]) * Put(s).b[1])
RoundTrips(s, r, g, b) ==
    LET e == Packing(s, r, g, b) IN
    /\ Field(e, Taken(s).r) = KeptOf(r, Levels(s, "r"))
    /\ Field(e, Taken(s).g) = KeptOf(g, Levels(s, "g"))
    /\ Field(e, Taken(s).b) = KeptOf(b, Levels(s, "b"))
    /\ KeptOf(r, Levels(s, "r")) \in Octet /\ KeptOf(g, Levels(s, "g")) \in Octet
    /\ KeptOf(b, Levels(s, "b")) \in Octet

LEMMA FieldsRoundTrip ==
    ASSUME NEW s \in Packed, NEW r \in Octet, NEW g \in Octet, NEW b \in Octet
    PROVE  RoundTrips(s, r, g, b)
<1>1. CASE s = "rgb32"
  <2>1. /\ Put(s) = Place(65536, 256, 256, 256, 1, 256)
        /\ Taken(s) = Place(65536, 256, 256, 256, 1, 256)
    BY <1>1 DEF Put, Taken
  <2>2. Packing(s, r, g, b) = ((r \div 1) * 65536) + ((g \div 1) * 256) + ((b \div 1) * 1)
    BY <2>1 DEF Packing, Place, Top
  <2>3. /\ KeptOf(r, Levels(s, "r")) = (r \div 1) * 1
        /\ KeptOf(g, Levels(s, "g")) = (g \div 1) * 1
        /\ KeptOf(b, Levels(s, "b")) = (b \div 1) * 1
    BY <1>1, <2>1 DEF KeptOf, Levels, Place, Top
  <2> DEFINE e == ((r \div 1) * 65536) + ((g \div 1) * 256) + ((b \div 1) * 1)
  <2>4. /\ Field(e, Taken(s).r) = ((e \div 65536) % 256) * 1
        /\ Field(e, Taken(s).g) = ((e \div 256) % 256) * 1
        /\ Field(e, Taken(s).b) = ((e \div 1) % 256) * 1
    <3> HIDE DEF e
    <3> QED
      BY <2>1 DEF Field, Place
  <2>5. /\ ((e \div 65536) % 256) * 1 = (r \div 1) * 1 /\ ((e \div 256) % 256) * 1 = (g \div 1) * 1
        /\ ((e \div 1) % 256) * 1 = (b \div 1) * 1
    BY SMTT(20) DEF Octet
  <2>6. (r \div 1) * 1 \in 0..255 /\ (g \div 1) * 1 \in 0..255 /\ (b \div 1) * 1 \in 0..255
    BY DEF Octet
  <2> HIDE DEF e
  <2> QED
    BY <2>2, <2>3, <2>4, <2>5, <2>6 DEF RoundTrips, Octet, e
<1>2. CASE s = "rgb555"
  <2>1. /\ Put(s) = Place(1024, 32, 32, 32, 1, 32)
        /\ Taken(s) = Place(1024, 32, 32, 32, 1, 32)
    BY <1>2 DEF Put, Taken
  <2>2. Packing(s, r, g, b) = ((r \div 8) * 1024) + ((g \div 8) * 32) + ((b \div 8) * 1)
    BY <2>1 DEF Packing, Place, Top
  <2>3. /\ KeptOf(r, Levels(s, "r")) = (r \div 8) * 8
        /\ KeptOf(g, Levels(s, "g")) = (g \div 8) * 8
        /\ KeptOf(b, Levels(s, "b")) = (b \div 8) * 8
    BY <1>2, <2>1 DEF KeptOf, Levels, Place, Top
  <2> DEFINE e == ((r \div 8) * 1024) + ((g \div 8) * 32) + ((b \div 8) * 1)
  <2>4. /\ Field(e, Taken(s).r) = ((e \div 1024) % 32) * 8
        /\ Field(e, Taken(s).g) = ((e \div 32) % 32) * 8
        /\ Field(e, Taken(s).b) = ((e \div 1) % 32) * 8
    <3> HIDE DEF e
    <3> QED
      BY <2>1 DEF Field, Place
  <2>5. /\ ((e \div 1024) % 32) * 8 = (r \div 8) * 8 /\ ((e \div 32) % 32) * 8 = (g \div 8) * 8
        /\ ((e \div 1) % 32) * 8 = (b \div 8) * 8
    BY SMTT(20) DEF Octet
  <2>6. (r \div 8) * 8 \in 0..255 /\ (g \div 8) * 8 \in 0..255 /\ (b \div 8) * 8 \in 0..255
    BY DEF Octet
  <2> HIDE DEF e
  <2> QED
    BY <2>2, <2>3, <2>4, <2>5, <2>6 DEF RoundTrips, Octet, e
<1>3. CASE s = "rgb565"
  <2>1. /\ Put(s) = Place(2048, 32, 32, 64, 1, 32)
        /\ Taken(s) = Place(2048, 32, 64, 32, 1, 32)
    BY <1>3 DEF Put, Taken
  <2>2. Packing(s, r, g, b) = ((r \div 8) * 2048) + ((g \div 4) * 32) + ((b \div 8) * 1)
    BY <2>1 DEF Packing, Place, Top
  <2>3. /\ KeptOf(r, Levels(s, "r")) = (r \div 8) * 8
        /\ KeptOf(g, Levels(s, "g")) = (g \div 8) * 8
        /\ KeptOf(b, Levels(s, "b")) = (b \div 8) * 8
    BY <1>3, <2>1 DEF KeptOf, Levels, Place, Top
  <2> DEFINE e == ((r \div 8) * 2048) + ((g \div 4) * 32) + ((b \div 8) * 1)
  <2>4. /\ Field(e, Taken(s).r) = ((e \div 2048) % 32) * 8
        /\ Field(e, Taken(s).g) = ((e \div 64) % 32) * 8
        /\ Field(e, Taken(s).b) = ((e \div 1) % 32) * 8
    <3> HIDE DEF e
    <3> QED
      BY <2>1 DEF Field, Place
  <2>5. /\ ((e \div 2048) % 32) * 8 = (r \div 8) * 8 /\ ((e \div 64) % 32) * 8 = (g \div 8) * 8
        /\ ((e \div 1) % 32) * 8 = (b \div 8) * 8
    <3>1. r \div 8 \in 0..31 /\ g \div 4 \in 0..63 /\ b \div 8 \in 0..31
          /\ (g \div 4) \div 2 = g \div 8
      BY SMT DEF Octet
    <3>2. e \div 2048 = r \div 8
      BY <3>1, SMT DEF Octet
    <3>3. e \div 64 = ((r \div 8) * 32) + (g \div 8)
      BY <3>1, SMT DEF Octet
    <3>4. (e \div 1) % 32 = b \div 8
      BY <3>1, SMT DEF Octet
    <3>5. g \div 8 \in 0..31
      BY DEF Octet
    <3> HIDE DEF e
    <3> QED
      BY <3>1, <3>2, <3>3, <3>4, <3>5
  <2>6. (r \div 8) * 8 \in 0..255 /\ (g \div 8) * 8 \in 0..255 /\ (b \div 8) * 8 \in 0..255
    BY DEF Octet
  <2> HIDE DEF e
  <2> QED
    BY <2>2, <2>3, <2>4, <2>5, <2>6 DEF RoundTrips, Octet, e
<1>4. CASE s = "rgb332"
  <2>1. /\ Put(s) = Place(32, 8, 4, 8, 1, 4)
        /\ Taken(s) = Place(32, 8, 4, 8, 1, 4)
    BY <1>4 DEF Put, Taken
  <2>2. Packing(s, r, g, b) = ((r \div 32) * 32) + ((g \div 32) * 4) + ((b \div 64) * 1)
    BY <2>1 DEF Packing, Place, Top
  <2>3. /\ KeptOf(r, Levels(s, "r")) = (r \div 32) * 32
        /\ KeptOf(g, Levels(s, "g")) = (g \div 32) * 32
        /\ KeptOf(b, Levels(s, "b")) = (b \div 64) * 64
    BY <1>4, <2>1 DEF KeptOf, Levels, Place, Top
  <2> DEFINE e == ((r \div 32) * 32) + ((g \div 32) * 4) + ((b \div 64) * 1)
  <2>4. /\ Field(e, Taken(s).r) = ((e \div 32) % 8) * 32
        /\ Field(e, Taken(s).g) = ((e \div 4) % 8) * 32
        /\ Field(e, Taken(s).b) = ((e \div 1) % 4) * 64
    <3> HIDE DEF e
    <3> QED
      BY <2>1 DEF Field, Place
  <2>5. /\ ((e \div 32) % 8) * 32 = (r \div 32) * 32 /\ ((e \div 4) % 8) * 32 = (g \div 32) * 32
        /\ ((e \div 1) % 4) * 64 = (b \div 64) * 64
    BY SMTT(20) DEF Octet
  <2>6. (r \div 32) * 32 \in 0..255 /\ (g \div 32) * 32 \in 0..255 /\ (b \div 64) * 64 \in 0..255
    BY DEF Octet
  <2> HIDE DEF e
  <2> QED
    BY <2>2, <2>3, <2>4, <2>5, <2>6 DEF RoundTrips, Octet, e
<1>5. CASE s = "bgr233"
  <2>1. /\ Put(s) = Place(1, 8, 8, 8, 64, 4)
        /\ Taken(s) = Place(1, 8, 8, 8, 64, 4)
    BY <1>5 DEF Put, Taken
  <2>2. Packing(s, r, g, b) = ((r \div 32) * 1) + ((g \div 32) * 8) + ((b \div 64) * 64)
    BY <2>1 DEF Packing, Place, Top
  <2>3. /\ KeptOf(r, Levels(s, "r")) = (r \div 32) * 32
        /\ KeptOf(g, Levels(s, "g")) = (g \div 32) * 32
        /\ KeptOf(b, Levels(s, "b")) = (b \div 64) * 64
    BY <1>5, <2>1 DEF KeptOf, Levels, Place, Top
  <2> DEFINE e == ((r \div 32) * 1) + ((g \div 32) * 8) + ((b \div 64) * 64)
  <2>4. /\ Field(e, Taken(s).r) = ((e \div 1) % 8) * 32
        /\ Field(e, Taken(s).g) = ((e \div 8) % 8) * 32
        /\ Field(e, Taken(s).b) = ((e \div 64) % 4) * 64
    <3> HIDE DEF e
    <3> QED
      BY <2>1 DEF Field, Place
  <2>5. /\ ((e \div 1) % 8) * 32 = (r \div 32) * 32 /\ ((e \div 8) % 8) * 32 = (g \div 32) * 32
        /\ ((e \div 64) % 4) * 64 = (b \div 64) * 64
    BY SMTT(20) DEF Octet
  <2>6. (r \div 32) * 32 \in 0..255 /\ (g \div 32) * 32 \in 0..255 /\ (b \div 64) * 64 \in 0..255
    BY DEF Octet
  <2> HIDE DEF e
  <2> QED
    BY <2>2, <2>3, <2>4, <2>5, <2>6 DEF RoundTrips, Octet, e
<1> QED
  BY <1>1, <1>2, <1>3, <1>4, <1>5 DEF Packed

Kept(c, s) == [x \in {"r", "g", "b"} |-> KeptOf(c[x], Levels(s, x))]

LEMMA PackedRoundTrip ==
    ASSUME NEW s \in Packed, NEW c \in Bytewise
    PROVE  Decode(s, Encode(s, Word(c))) = Word(Kept(c, s)) /\ Kept(c, s) \in Bytewise
<1> DEFINE k == Kept(c, s)
           e == Packing(s, c.r, c.g, c.b)
<1>1. RoundTrips(s, c.r, c.g, c.b)
  BY PartsOfWord, FieldsRoundTrip
<1>2. /\ k.r = KeptOf(c.r, Levels(s, "r")) /\ k.g = KeptOf(c.g, Levels(s, "g"))
      /\ k.b = KeptOf(c.b, Levels(s, "b"))
  BY DEF Kept
<1>3. s \notin {"yuv", "gray", "yuv422", "rgb24", "bgr24"}
  BY DEF Packed
<1>4. Encode(s, Word(c)) = e
  BY <1>3, PartsOfWord DEF Encode, Packing
<1>5. Decode(s, e) = Colour(Field(e, Taken(s).r), Field(e, Taken(s).g), Field(e, Taken(s).b))
  BY <1>3 DEF Decode
<1>6. Decode(s, e) = Colour(k.r, k.g, k.b)
  BY <1>1, <1>2, <1>5 DEF RoundTrips
<1>7. k \in Bytewise
  <2>1. k.r \in Octet /\ k.g \in Octet /\ k.b \in Octet
    BY <1>1, <1>2 DEF RoundTrips
  <2>2. k = [x \in {"r", "g", "b"} |-> k[x]]
    BY DEF Kept
  <2> QED
    BY <2>1, <2>2 DEF Bytewise
<1> HIDE DEF k, e
<1>8. Colour(k.r, k.g, k.b) = Word(k)
  BY <1>7, PartsOfWord
<1> QED
  BY <1>4, <1>6, <1>7, <1>8 DEF k

\* What a packed format, rgb24 or bgr24 is given for a word shows its colour, and
\* a grey word is as bright in a grey image.
LEMMA EncodeShows ==
    ASSUME NEW k \in Bytewise, to \in Packed \cup {"rgb24", "bgr24"}
    PROVE  Encode(to, Word(k)) = ShownAs(k)
<1>1. to \notin {"yuv", "gray", "yuv422"}
  BY DEF Packed
<1> QED
  BY <1>1, PartsOfWord DEF Encode, ShownAs

LEMMA GreyShows ==
    ASSUME NEW k \in Bytewise, IsGrey(k)
    PROVE  Encode("gray", Word(k)) = k.r
<1>1. ASSUME NEW v \in Octet
      PROVE  (((76 * v) + (150 * v) + (30 * v)) \div 256) % 256 = v
  BY SMT DEF Octet
<1>2. Encode("gray", Word(k)) = (((76 * k.r) + (150 * k.r) + (30 * k.r)) \div 256) % 256
  BY PartsOfWord DEF Encode, ColY, IsGrey
<1>3. k.r \in Octet
  BY PartsOfWord
<1> QED
  BY <1>1, <1>2, <1>3

-----------------------------------------------------------------------------
(* Sizes, lines and the memory that the conversion touches *)

LineOf(s) == width * Bytes(s)
Accepted == phase = "lines" \/ (phase = "over" /\ answer = 0)

\* How far a conversion has come follows from the line it is at.
Reach ==
    /\ reached \in [from : Nat, buffer : Nat, to : Nat]
    /\ toAt = row * PutCount(to)
    /\ Regular => /\ reached.from <= row * LineOf(from) /\ reached.buffer <= width
                  /\ reached.to = row * LineOf(to)

\* What the checks in front of the loop have found.
Checked ==
    /\ row > 0 => Accepted
    /\ Accepted => SizeOf(from) <= fromSize /\ SizeOf(to) <= room /\ toSize = SizeOf(to)
    /\ phase = "over" /\ answer = 0 => row = Height
    /\ told /\ phase = "caller" => toSize = SizeOf(to)
    /\ out \in Seq({out[k] : k \in DOMAIN out})

ImageInv == ImageTypeOK /\ Reach /\ Checked
ImageNext == Ask \/ Call \/ ConvertLine \/ Return

LEMMA Sizes ==
    ASSUME ImageTypeOK
    PROVE  /\ width \in Nat \ {0} /\ lines \in Seq(Bytewise) /\ Height \in Nat /\ row \in Nat
           /\ \A s : /\ Bytes(s) \in 1..4 /\ LineOf(s) \in Nat \ {0} /\ SizeOf(s) \in Nat
                     /\ SizeOf(s) = Height * LineOf(s)
<1>1. width \in Nat \ {0}
  BY ImageAssumption DEF ImageTypeOK
<1>2. lines \in Seq(Bytewise)
  BY ImageAssumption, Zenon DEF ImageTypeOK, Bytewise, Octet
<1>3. Height \in Nat /\ row \in Nat
  BY <1>2 DEF Height, ImageTypeOK
<1>4. ASSUME NEW s
      PROVE  /\ Bytes(s) \in 1..4 /\ LineOf(s) \in Nat \ {0} /\ SizeOf(s) \in Nat
             /\ SizeOf(s) = Height * LineOf(s)
  <2>1. Bytes(s) \in 1..4
    BY DEF Bytes
  <2>2. LineOf(s) \in Nat \ {0}
    BY <1>1, <2>1, SMT DEF LineOf
  <2>3. SizeOf(s) \in Nat /\ SizeOf(s) = Height * LineOf(s)
    BY <1>1, <1>3, <2>1, SMT DEF LineOf, SizeOf
  <2> QED
    BY <2>1, <2>2, <2>3
<1> QED
  BY <1>1, <1>2, <1>3, <1>4, Zenon

\* In a regular conversion a line is what the functions of the formats touch.
LEMMA RegularLine ==
    ASSUME ImageTypeOK, Regular
    PROVE  /\ ReadBytes(from) = LineOf(from) /\ PutBytes(to) = LineOf(to)
           /\ PutCount(to) = LineOf(to)
           /\ ReadColours(from) = width /\ PutColours(to) = width
<1>1. width \in Nat \ {0}
  BY Sizes
<1>2. from = "yuv422" => Even(width) = width
  BY <1>1 DEF Regular, Even
<1>3. from = "yuv422" => Bytes(from) = 2
  BY DEF Bytes
<1> QED
  BY <1>1, <1>2, <1>3 DEF Regular, ReadBytes, PutBytes, PutCount, ReadColours, PutColours, LineOf

LEMMA ImageStarts == ImageInit => ImageInv
<1> SUFFICES ASSUME ImageInit
             PROVE  ImageInv
  OBVIOUS
<1>1. width \in Nat \ {0} /\ lines \in Seq(Bytewise)
  BY ImageAssumption, Zenon DEF ImageInit, Bytewise, Octet
<1>2. Height \in Nat
  BY <1>1 DEF Height
<1>3. ASSUME NEW s
      PROVE  Bytes(s) \in 1..4
  BY DEF Bytes
<1>4. SizeOf(from) \in Nat
  BY <1>1, <1>2, <1>3, SMT DEF SizeOf
<1>5. ImageTypeOK
  <2>1. Len(out) = 0
    BY DEF ImageInit
  <2>2. {fromSize, toSize, room} \subseteq Nat
    BY <1>4, ImageAssumption DEF ImageInit
  <2>3. 0 = (row * width) * Bytes(from)
    BY <1>1, <1>3 DEF ImageInit
  <2>4. /\ phase \in {"caller", "lines", "over"} /\ answer \in {NoAnswer, 0, 1, -1}
        /\ from \in Spaces /\ to \in Spaces /\ width \in Widths /\ lines \in Pictures
        /\ told \in BOOLEAN /\ row = 0 /\ fromAt = 0
    BY DEF ImageInit
  <2>5. row \in 0..Height
    BY <1>2, <2>4
  <2> QED
    BY <2>1, <2>2, <2>3, <2>4, <2>5, Zenon DEF ImageTypeOK
<1>6. Reach
  <2>1. PutCount(to) \in Nat
    BY <1>1, <1>3, SMT DEF PutCount
  <2>2. LineOf(from) \in Nat /\ LineOf(to) \in Nat
    BY <1>1, <1>3, SMT DEF LineOf
  <2> QED
    BY <1>1, <2>1, <2>2 DEF ImageInit, Reach
<1>7. Checked
  BY DEF ImageInit, Checked, Accepted
<1> QED
  BY <1>5, <1>6, <1>7 DEF ImageInv

\* A sequence of anything stays one when a member is appended.
LEMMA OneMore ==
    ASSUME NEW s, s \in Seq({s[k] : k \in DOMAIN s}), NEW e
    PROVE  LET t == Append(s, e) IN
           /\ t \in Seq({t[k] : k \in DOMAIN t}) /\ Len(t) = Len(s) + 1
           /\ \A k \in 1..Len(s) : t[k] = s[k]
           /\ t[Len(s) + 1] = e
<1> DEFINE S == {s[k] : k \in DOMAIN s}
           T == S \cup {e}
           t == Append(s, e)
<1>1. s \in Seq(T)
  <2>1. s \in [1..Len(s) -> T] /\ Len(s) \in Nat
    BY DEF S
  <2> HIDE DEF T
  <2> QED
    BY <2>1, SMT
<1> HIDE DEF S
<1>2. /\ t \in Seq(T) /\ Len(t) = Len(s) + 1 /\ Len(s) \in Nat
      /\ \A k \in 1..Len(s) : t[k] = s[k]
      /\ t[Len(s) + 1] = e
  BY <1>1
<1> HIDE DEF T, t
<1>3. t \in [1..Len(t) -> {t[k] : k \in DOMAIN t}] /\ Len(t) \in Nat
  BY <1>2
<1>4. t \in Seq({t[k] : k \in DOMAIN t})
  <2> DEFINE U == {t[k] : k \in DOMAIN t}
  <2>1. t \in [1..Len(t) -> U]
    BY <1>3
  <2> HIDE DEF U
  <2>2. t \in Seq(U)
    BY <1>3, <2>1
  <2> QED
    BY <2>2 DEF U
<1> QED
  BY <1>2, <1>4 DEF t

\* Nothing moves but what the caller and the checks write.
LEMMA CallerKeeps ==
    ASSUME ImageInv, UNCHANGED image, UntouchedImage
    PROVE  /\ \A s : SizeOf(s)' = SizeOf(s)
           /\ Reach' /\ (out \in Seq({out[k] : k \in DOMAIN out}))'
           /\ row' \in 0..Height' /\ Len(out') = row' /\ fromAt' = ((row * width) * Bytes(from))'
<1> USE DEF image, UntouchedImage
<1>1. Height' = Height /\ \A s : SizeOf(s)' = SizeOf(s) /\ LineOf(s)' = LineOf(s)
  BY DEF Height, SizeOf, LineOf, Bytes
<1>2. Reach'
  <2>1. Regular' = Regular /\ PutCount(to)' = PutCount(to)
    BY DEF Regular, PutCount, Bytes
  <2>2. LineOf(from)' = LineOf(from) /\ LineOf(to)' = LineOf(to)
    BY DEF LineOf, Bytes
  <2> QED
    BY <2>1, <2>2 DEF Reach, ImageInv
<1> QED
  BY <1>1, <1>2 DEF ImageInv, ImageTypeOK, Checked, Bytes

LEMMA AskKeeps ==
    ASSUME ImageInv, Ask
    PROVE  ImageInv'
<1>1. UNCHANGED image /\ UntouchedImage /\ phase = "caller" /\ ~told /\ room' = room
  BY DEF Ask
<1>2. \A s : SizeOf(s)' = SizeOf(s) /\ SizeOf(s) \in Nat
  BY <1>1, CallerKeeps, Sizes DEF ImageInv
<1>3. row = 0 /\ row' = 0
  BY <1>1 DEF ImageInv, ImageTypeOK, Checked, Accepted, UntouchedImage
<1>4. \/ answer' = -1 /\ toSize' = toSize /\ told' = told /\ phase' = "over"
      \/ answer' = 0 /\ toSize' = SizeOf(to) /\ told' = TRUE /\ phase' = "caller"
  <2>1. CASE SizeOf(from) > fromSize
    <3>1. BehindAsk = [answer |-> -1, size |-> toSize, told |-> told]
      BY <2>1 DEF BehindAsk
    <3>2. BehindAsk.answer = -1 /\ BehindAsk.size = toSize
      BY <3>1
    <3>3. told' = told
      BY <3>1, Zenon DEF Ask
    <3> QED
      BY <3>2, <3>3 DEF Ask
  <2>2. CASE ~(SizeOf(from) > fromSize)
    <3>1. BehindAsk = [answer |-> 0, size |-> SizeOf(to), told |-> TRUE]
      BY <2>2 DEF BehindAsk
    <3>2. BehindAsk.answer = 0 /\ BehindAsk.size = SizeOf(to)
      BY <3>1
    <3>3. told' = TRUE
      BY <3>1, Zenon DEF Ask
    <3> QED
      BY <3>2, <3>3 DEF Ask
  <2> QED
    BY <2>1, <2>2
<1>5. ImageTypeOK'
  <2>1. from' = from /\ to' = to /\ width' = width /\ lines' = lines /\ fromSize' = fromSize
    BY <1>1 DEF image
  <2> QED
    BY <1>1, <1>2, <1>4, <2>1, CallerKeeps DEF ImageTypeOK, ImageInv
<1>6. Checked'
  <2>1. to' = to
    BY <1>1 DEF image
  <2>2. told' /\ phase' = "caller" => toSize' = SizeOf(to)'
    BY <1>2, <1>4, <2>1 DEF SizeOf
  <2>3. ~Accepted'
    BY <1>4 DEF Accepted
  <2> QED
    BY <1>1, <1>3, <1>4, <2>2, <2>3, CallerKeeps DEF Checked
<1> QED
  BY <1>1, <1>5, <1>6, CallerKeeps DEF ImageInv

LEMMA CallKeeps ==
    ASSUME ImageInv, Call
    PROVE  ImageInv'
<1>1. UNCHANGED image /\ UntouchedImage /\ phase = "caller" /\ room' = toSize
  BY DEF Call
<1>2. \A s : SizeOf(s)' = SizeOf(s) /\ SizeOf(s) \in Nat
  BY <1>1, CallerKeeps, Sizes DEF ImageInv
<1>3. row = 0 /\ row' = 0
  BY <1>1 DEF ImageInv, ImageTypeOK, Checked, Accepted, UntouchedImage
<1>4. \/ answer' = -1 /\ toSize' \in {toSize, SizeOf(to)} /\ phase' = "over"
      \/ answer' = 1 /\ toSize' = SizeOf(to) /\ phase' = "caller"
      \/ /\ answer' = NoAnswer /\ toSize' = SizeOf(to) /\ phase' = "lines"
         /\ SizeOf(from) <= fromSize /\ SizeOf(to) <= toSize
  <2>1. PICK enough \in BOOLEAN :
          /\ phase' = BehindChecks(enough).next /\ answer' = BehindChecks(enough).answer
          /\ toSize' = BehindChecks(enough).size
    BY DEF Call
  <2>2. {fromSize, toSize} \subseteq Nat
    BY DEF ImageInv, ImageTypeOK
  <2> QED
    BY <1>2, <2>1, <2>2 DEF BehindChecks
<1>5. told' \in BOOLEAN /\ (told' /\ phase' = "caller" => toSize' = SizeOf(to))
  <2>1. told \in BOOLEAN /\ told' = (told \/ answer' = 1)
    BY DEF Call, ImageInv, ImageTypeOK
  <2> QED
    BY <1>4, <2>1
<1>6. from' = from /\ to' = to /\ width' = width /\ lines' = lines /\ fromSize' = fromSize
  BY <1>1 DEF image
<1>7. ImageTypeOK'
  BY <1>1, <1>2, <1>4, <1>5, <1>6, CallerKeeps DEF ImageTypeOK, ImageInv
<1>8. SizeOf(from)' = SizeOf(from) /\ SizeOf(to)' = SizeOf(to)
  BY <1>6 DEF SizeOf, Height, Bytes
<1>9. Checked'
  <2>1. Accepted' => /\ SizeOf(from) <= fromSize /\ SizeOf(to) <= toSize
                     /\ toSize' = SizeOf(to)
    BY <1>4 DEF Accepted, NoAnswer
  <2>2. ~(phase' = "over" /\ answer' = 0)
    BY <1>4 DEF NoAnswer
  <2> QED
    BY <1>1, <1>3, <1>5, <1>6, <1>8, <2>1, <2>2, CallerKeeps DEF Checked
<1> QED
  BY <1>1, <1>7, <1>9, CallerKeeps DEF ImageInv

LEMMA ReturnKeeps ==
    ASSUME ImageInv, Return
    PROVE  ImageInv'
<1>1. /\ UNCHANGED image /\ UntouchedImage /\ phase = "lines" /\ row = Height
      /\ room' = room /\ toSize' = toSize /\ told' = told /\ phase' = "over" /\ answer' = 0
  BY DEF Return
<1>2. from' = from /\ to' = to /\ width' = width /\ lines' = lines /\ fromSize' = fromSize
  BY <1>1 DEF image
<1>3. SizeOf(from)' = SizeOf(from) /\ SizeOf(to)' = SizeOf(to) /\ Height' = Height
  BY <1>2 DEF SizeOf, Height, Bytes
<1>4. ImageTypeOK'
  BY <1>1, <1>2, CallerKeeps DEF ImageTypeOK, ImageInv
<1>5. Checked'
  BY <1>1, <1>2, <1>3, CallerKeeps DEF Checked, Accepted, ImageInv, UntouchedImage
<1> QED
  BY <1>1, <1>4, <1>5, CallerKeeps DEF ImageInv

\* A round of the loop, at the line it comes to.
LEMMA RoundTyped ==
    ASSUME ImageInv, ConvertLine
    PROVE  /\ phase = "lines" /\ phase' = "lines" /\ answer' = answer /\ Accepted
           /\ UNCHANGED <<image, room, toSize, told>>
           /\ row \in Nat /\ row + 1 <= Height /\ row' = row + 1
           /\ Height' = Height /\ \A s : SizeOf(s)' = SizeOf(s) /\ LineOf(s)' = LineOf(s)
           /\ fromAt = row * LineOf(from) /\ fromAt' = row' * LineOf(from)
           /\ Regular' = Regular /\ PutCount(to)' = PutCount(to)
<1>1. /\ phase = "lines" /\ phase' = "lines" /\ answer' = answer
      /\ UNCHANGED <<image, room, toSize, told>>
      /\ row < Height /\ row' = row + 1 /\ fromAt' = fromAt + ReadCount(from)
  BY DEF ConvertLine
<1>2. from' = from /\ to' = to /\ width' = width /\ lines' = lines
  BY <1>1 DEF image
<1>3. Height' = Height /\ \A s : SizeOf(s)' = SizeOf(s) /\ LineOf(s)' = LineOf(s)
  BY <1>2 DEF Height, SizeOf, LineOf, Bytes
<1>4. Regular' = Regular /\ PutCount(to)' = PutCount(to)
  BY <1>2 DEF Regular, PutCount, Bytes
<1>5. /\ row \in Nat /\ Height \in Nat /\ LineOf(from) \in Nat /\ width \in Nat
      /\ Bytes(from) \in 1..4
  BY Sizes DEF ImageInv
<1>6. fromAt = row * LineOf(from)
  BY <1>5, SMTT(20) DEF ImageInv, ImageTypeOK, LineOf
<1>7. fromAt' = row' * LineOf(from)
  <2>1. fromAt' = fromAt + LineOf(from)
    BY <1>1 DEF ReadCount, LineOf
  <2> QED
    BY <1>1, <1>5, <1>6, <2>1
<1> QED
  BY <1>1, <1>3, <1>4, <1>5, <1>6, <1>7 DEF Accepted

LEMMA RoundReaches ==
    ASSUME ImageInv, ConvertLine
    PROVE  Reach'
<1>1. /\ row \in Nat /\ row' = row + 1 /\ fromAt = row * LineOf(from)
      /\ LineOf(from)' = LineOf(from) /\ LineOf(to)' = LineOf(to)
      /\ Regular' = Regular /\ PutCount(to)' = PutCount(to) /\ width' = width
  BY RoundTyped DEF image
<1>2. /\ reached' = [from |-> Further(reached.from, fromAt + ReadBytes(from)),
                     buffer |-> Further(reached.buffer,
                                        Further(ReadColours(from), PutColours(to))),
                     to |-> Further(reached.to, toAt + PutBytes(to))]
      /\ toAt' = toAt + PutCount(to)
  BY DEF ConvertLine
<1>3. /\ reached.from \in Nat /\ reached.buffer \in Nat /\ reached.to \in Nat
      /\ toAt = row * PutCount(to)
  BY DEF ImageInv, Reach
<1>4. width \in Nat \ {0} /\ \A s : Bytes(s) \in 1..4 /\ LineOf(s) \in Nat
  BY Sizes DEF ImageInv
<1>5. PutCount(to) \in Nat /\ PutColours(to) \in Nat /\ PutBytes(to) \in Nat
  BY <1>4 DEF PutCount, PutColours, PutBytes
<1>6. ReadBytes(from) \in Nat /\ ReadColours(from) \in Nat
  BY <1>4 DEF ReadBytes, ReadColours, Even
<1>7. toAt' = row' * PutCount(to) /\ toAt \in Nat
  BY <1>1, <1>2, <1>3, <1>5
<1>8. reached' \in [from : Nat, buffer : Nat, to : Nat]
  <2>1. fromAt \in Nat
    BY <1>1, <1>4
  <2> QED
    BY <1>2, <1>3, <1>5, <1>6, <1>7, <2>1 DEF Further
<1>9. ASSUME Regular
      PROVE  /\ reached'.from <= row' * LineOf(from) /\ reached'.buffer <= width
             /\ reached'.to = row' * LineOf(to)
  <2>1. /\ ReadBytes(from) = LineOf(from) /\ PutBytes(to) = LineOf(to)
        /\ PutCount(to) = LineOf(to) /\ ReadColours(from) = width /\ PutColours(to) = width
    BY <1>9, RegularLine DEF ImageInv
  <2>2. /\ reached.from <= row * LineOf(from) /\ reached.buffer <= width
        /\ reached.to = row * LineOf(to)
    BY <1>9 DEF ImageInv, Reach
  <2>3. \A s : row' * LineOf(s) = (row * LineOf(s)) + LineOf(s) /\ row * LineOf(s) \in Nat
    BY <1>1, <1>4
  <2>4. reached'.from <= row' * LineOf(from)
    BY <1>1, <1>2, <1>3, <1>4, <2>1, <2>2, <2>3 DEF Further
  <2>5. reached'.buffer <= width
    BY <1>2, <1>3, <1>4, <2>1, <2>2 DEF Further
  <2>6. reached'.to = row' * LineOf(to)
    BY <1>1, <1>2, <1>3, <1>4, <2>1, <2>2, <2>3 DEF Further
  <2> QED
    BY <2>4, <2>5, <2>6
<1> QED
  BY <1>1, <1>7, <1>8, <1>9 DEF Reach

LEMMA RoundRecords ==
    ASSUME ImageInv, ConvertLine
    PROVE  /\ (out \in Seq({out[k] : k \in DOMAIN out}))'
           /\ Len(out') = row' /\ Len(out) = row
           /\ \A k \in 1..row : out'[k] = out[k]
           /\ out'[row + 1] = [at |-> toAt, is |-> Encode(to, Decode(from, FoundAt(fromAt)))]
<1>1. out \in Seq({out[k] : k \in DOMAIN out}) /\ Len(out) = row
  BY DEF ImageInv, ImageTypeOK, Checked
<1>2. row' = row + 1
  BY DEF ConvertLine
<1>3. out' = Append(out, [at |-> toAt, is |-> Encode(to, Decode(from, FoundAt(fromAt)))])
  BY DEF ConvertLine
<1> QED
  BY <1>1, <1>2, <1>3, OneMore

LEMMA RoundKeeps ==
    ASSUME ImageInv, ConvertLine
    PROVE  ImageInv'
<1>1. from' = from /\ to' = to /\ width' = width /\ lines' = lines /\ fromSize' = fromSize
  BY RoundTyped DEF image
<1>2. room' = room /\ toSize' = toSize /\ told' = told
  BY RoundTyped
<1>3. ImageTypeOK'
  <2>1. row' \in 0..Height'
    BY RoundTyped
  <2>2. fromAt' = ((row * width) * Bytes(from))'
    <3>1. width \in Nat /\ Bytes(from) \in 1..4 /\ row' \in Nat
      BY Sizes, RoundTyped DEF ImageInv
    <3>2. fromAt' = row' * (width * Bytes(from))
      BY RoundTyped DEF LineOf
    <3>3. fromAt' = (row' * width) * Bytes(from)
      BY <3>1, <3>2
    <3> QED
      BY <1>1, <3>3 DEF Bytes
  <2>3. /\ phase \in {"caller", "lines", "over"} /\ answer \in {NoAnswer, 0, 1, -1}
        /\ from \in Spaces /\ to \in Spaces /\ width \in Widths /\ lines \in Pictures
        /\ {fromSize, toSize, room} \subseteq Nat /\ told \in BOOLEAN
    BY DEF ImageInv, ImageTypeOK
  <2>4. phase' = phase /\ answer' = answer
    BY RoundTyped
  <2> QED
    BY <1>1, <1>2, <2>1, <2>2, <2>3, <2>4, RoundRecords, Zenon DEF ImageTypeOK
<1>4. Checked'
  <2>1. SizeOf(from)' = SizeOf(from) /\ SizeOf(to)' = SizeOf(to)
    BY <1>1 DEF SizeOf, Height, Bytes
  <2>2. phase' = "lines" /\ Accepted
    BY RoundTyped
  <2>3. SizeOf(from) <= fromSize /\ SizeOf(to) <= room /\ toSize = SizeOf(to)
    BY <2>2 DEF ImageInv, Checked
  <2> QED
    BY <1>1, <1>2, <2>1, <2>2, <2>3, RoundRecords DEF Checked, Accepted
<1> QED
  BY <1>3, <1>4, RoundReaches DEF ImageInv

LEMMA ImageStays == ImageInv /\ [ImageNext]_imageVars => ImageInv'
<1> SUFFICES ASSUME ImageInv, [ImageNext]_imageVars
             PROVE  ImageInv'
  OBVIOUS
<1>1. CASE Ask
  BY <1>1, AskKeeps
<1>2. CASE Call
  BY <1>2, CallKeeps
<1>3. CASE ConvertLine
  BY <1>3, RoundKeeps
<1>4. CASE Return
  BY <1>4, ReturnKeeps
<1>5. CASE UNCHANGED imageVars
  <2>1. /\ UNCHANGED image /\ UntouchedImage
        /\ UNCHANGED <<room, toSize, told, phase, answer, row>>
    BY <1>5 DEF imageVars, image, UntouchedImage
  <2>2. from' = from /\ to' = to /\ width' = width /\ lines' = lines /\ fromSize' = fromSize
    BY <2>1 DEF image
  <2>3. SizeOf(from)' = SizeOf(from) /\ SizeOf(to)' = SizeOf(to) /\ Height' = Height
    BY <2>2 DEF SizeOf, Height, Bytes
  <2>4. ImageTypeOK'
    BY <2>1, <2>2, CallerKeeps DEF ImageTypeOK, ImageInv
  <2>5. Checked'
    BY <2>1, <2>2, <2>3, CallerKeeps DEF Checked, Accepted, ImageInv
  <2> QED
    BY <2>1, <2>4, <2>5, CallerKeeps DEF ImageInv
<1> QED
  BY <1>1, <1>2, <1>3, <1>4, <1>5 DEF ImageNext

\* webcam_convert_image: the state keeps its type, and in the loop the offset of
\* the line that is read goes with the line, for images of any size.
THEOREM ImageTyped == ImageSpec => []ImageTypeOK
<1>1. ImageInv => ImageTypeOK
  BY DEF ImageInv
<1>2. ImageSpec => []ImageInv
  BY ImageStarts, ImageStays, PTL DEF ImageSpec, ImageNext
<1> QED
  BY <1>1, <1>2, PTL

LEMMA ReachIsInside == ImageInv => StaysInside
<1> SUFFICES ASSUME ImageInv, Regular
             PROVE  /\ reached.from <= fromSize /\ reached.buffer <= width
                    /\ reached.to <= room
                    /\ phase = "over" /\ answer = 0 => reached.to = toSize /\ toSize <= room
  BY DEF StaysInside
<1>1. /\ reached.from \in Nat /\ reached.to \in Nat
      /\ reached.from <= row * LineOf(from) /\ reached.buffer <= width
      /\ reached.to = row * LineOf(to)
  BY DEF ImageInv, Reach
<1>2. /\ fromSize \in Nat /\ toSize \in Nat /\ room \in Nat /\ row \in Nat /\ row <= Height
      /\ Height \in Nat
  BY Sizes DEF ImageInv, ImageTypeOK
<1>3. ASSUME NEW s
      PROVE  /\ row * LineOf(s) \in Nat /\ row * LineOf(s) <= SizeOf(s)
             /\ row = Height => row * LineOf(s) = SizeOf(s)
             /\ row = 0 => row * LineOf(s) = 0
  <2>1. LineOf(s) \in Nat /\ SizeOf(s) = Height * LineOf(s)
    BY Sizes DEF ImageInv
  <2> QED
    BY <1>2, <2>1, SMTT(20)
<1>4. SizeOf(from) \in Nat /\ SizeOf(to) \in Nat
  BY Sizes DEF ImageInv
<1>5. CASE Accepted
  <2>1. /\ SizeOf(from) <= fromSize /\ SizeOf(to) <= room /\ toSize = SizeOf(to)
        /\ phase = "over" /\ answer = 0 => row = Height
    BY <1>5 DEF ImageInv, Checked
  <2> QED
    BY <1>1, <1>2, <1>3, <1>4, <2>1
<1>6. CASE ~Accepted
  <2>1. row = 0 /\ ~(phase = "over" /\ answer = 0)
    BY <1>2, <1>6 DEF ImageInv, Checked, Accepted
  <2> QED
    BY <1>1, <1>2, <1>3, <2>1
<1> QED
  BY <1>5, <1>6

\* webcam_convert_image: for every size of the image, of the source and of the
\* caller's buffer, the loop touches nothing behind the source, its line of
\* colours and the buffer, and at the end it has filled what *to_size tells of.
THEOREM ConversionStaysInside == ImageSpec => []StaysInside
<1>1. ImageSpec => []ImageInv
  BY ImageStarts, ImageStays, PTL DEF ImageSpec, ImageNext
<1> QED
  BY <1>1, ReachIsInside, PTL

\* webcam_convert_image: a caller who uses the size he was told, by a call
\* without a buffer or by one that refused his buffer, is not refused again.
THEOREM ToldSizeSuffices == ImageSpec => ToldSizeIsEnough
<1>1. ImageInv /\ [ImageNext]_imageVars => [told /\ phase = "caller" => answer' # 1]_imageVars
  <2> SUFFICES ASSUME ImageInv, ImageNext, told, phase = "caller"
               PROVE  answer' # 1
    BY DEF ImageNext
  <2>1. Call
    BY DEF ImageNext, Ask, ConvertLine, Return
  <2>2. toSize = SizeOf(to) /\ SizeOf(to) \in Nat
    BY Sizes DEF ImageInv, Checked
  <2>3. PICK enough \in BOOLEAN : answer' = BehindChecks(enough).answer
    BY <2>1 DEF Call
  <2> QED
    BY <2>2, <2>3 DEF BehindChecks, NoAnswer
<1>2. ImageSpec => []ImageInv
  BY ImageStarts, ImageStays, PTL DEF ImageSpec, ImageNext
<1> QED
  BY <1>1, <1>2, PTL DEF ImageSpec, ImageNext, ToldSizeIsEnough

-----------------------------------------------------------------------------
(* The colours of the lines *)

\* The line that the loop comes to is read where it starts.
LEMMA LineIsFound ==
    ASSUME ImageInv, ConvertLine
    PROVE  FoundAt(fromAt) = Element(from, lines[row + 1]) /\ lines[row + 1] \in Bytewise
<1>1. /\ row \in Nat /\ row + 1 <= Height /\ fromAt = row * LineOf(from) /\ Height \in Nat
      /\ LineOf(from) \in Nat \ {0} /\ lines \in Seq(Bytewise)
  BY RoundTyped, Sizes DEF ImageInv
<1>2. fromAt % LineOf(from) = 0 /\ fromAt \div LineOf(from) = row
  <2>1. 0 \in 0..(LineOf(from) - 1) /\ fromAt = (row * LineOf(from)) + 0
    BY <1>1
  <2>2. /\ ((row * LineOf(from)) + 0) % LineOf(from) = 0
        /\ ((row * LineOf(from)) + 0) \div LineOf(from) = row
    BY <1>1, <2>1, PlaceInRow, Zenon
  <2> QED
    BY <2>1, <2>2, Zenon
<1>3. row < Height
  BY <1>1
<1>4. FoundAt(fromAt) = Element(from, lines[row + 1])
  BY <1>2, <1>3, Zenon DEF FoundAt, LineOf
<1>5. lines[row + 1] \in Bytewise
  BY <1>1 DEF Height
<1> QED
  BY <1>4, <1>5

\* What is said of one line: the colours that both formats have room for.
LineKept(e, k) ==
    LET c == KeptColour(lines[k]) IN
    /\ to \in Packed \cup {"rgb24", "bgr24"}
          => e = [at |-> (k - 1) * width * Bytes(to), is |-> ShownAs(c)]
    /\ to = "gray" /\ IsGrey(c) => e = [at |-> (k - 1) * width, is |-> c.r]

LEMMA RoundKeepsColour ==
    ASSUME ImageInv, ConvertLine, from \in Packed
    PROVE  LineKept([at |-> toAt, is |-> Encode(to, Decode(from, FoundAt(fromAt)))], row + 1)
<1> DEFINE c == KeptColour(lines[row + 1])
<1>1. c = Kept(lines[row + 1], from)
  BY DEF KeptColour, Kept
<1>2. lines[row + 1] \in Bytewise
  BY LineIsFound
<1>3. FoundAt(fromAt) = Encode(from, Word(lines[row + 1]))
  <2>1. from \notin {"yuv", "yuv422"}
    BY DEF Packed
  <2> QED
    BY <2>1, LineIsFound DEF Element
<1>4. Decode(from, FoundAt(fromAt)) = Word(c) /\ c \in Bytewise
  BY <1>1, <1>2, <1>3, PackedRoundTrip, Zenon
<1>5. /\ row \in Nat /\ (row + 1) - 1 = row /\ width \in Nat /\ Bytes(to) \in 1..4
      /\ toAt = row * PutCount(to)
  <2>1. row \in Nat /\ width \in Nat
    BY Sizes DEF ImageInv
  <2>2. Bytes(to) \in 1..4
    BY Sizes, Zenon DEF ImageInv
  <2> QED
    BY <2>1, <2>2 DEF ImageInv, Reach
<1> HIDE DEF c
<1>6. ASSUME to \in Packed \cup {"rgb24", "bgr24"}
      PROVE  toAt = ((row + 1) - 1) * width * Bytes(to)
             /\ Encode(to, Decode(from, FoundAt(fromAt))) = ShownAs(c)
  <2>1. PutCount(to) = width * Bytes(to)
    BY <1>6 DEF PutCount, Packed
  <2>2. toAt = (row * width) * Bytes(to)
    BY <1>5, <2>1
  <2> QED
    BY <1>4, <1>5, <1>6, <2>2, EncodeShows
<1>7. ASSUME to = "gray", IsGrey(c)
      PROVE  toAt = ((row + 1) - 1) * width
             /\ Encode(to, Decode(from, FoundAt(fromAt))) = c.r
  <2>1. PutCount(to) = width * 1
    BY <1>7 DEF PutCount, Bytes
  <2>2. toAt = row * width
    BY <1>5, <2>1
  <2> QED
    BY <1>4, <1>5, <1>7, <2>2, GreyShows
<1> QED
  BY <1>6, <1>7 DEF LineKept, c

LEMMA ColoursStart == ImageInit => LinesKeepColour
BY DEF ImageInit, LinesKeepColour

LEMMA ColoursStay ==
    ImageInv /\ LinesKeepColour /\ [ImageNext]_imageVars => LinesKeepColour'
<1> SUFFICES ASSUME ImageInv, LinesKeepColour, [ImageNext]_imageVars
             PROVE  LinesKeepColour'
  OBVIOUS
<1>1. LinesKeepColour <=> (from \in Packed => \A k \in 1..Len(out) : LineKept(out[k], k))
  BY Zenon DEF LinesKeepColour, LineKept
<1>2. UNCHANGED image
  BY DEF ImageNext, Ask, Call, ConvertLine, Return, image, imageVars
<1>3. from' = from /\ to' = to /\ width' = width /\ lines' = lines
  BY <1>2 DEF image
<1>4. LinesKeepColour' <=> (from \in Packed => \A k \in 1..Len(out') : LineKept(out'[k], k))
  BY <1>3, Zenon DEF LinesKeepColour, LineKept, KeptColour, ShownAs
<1>5. CASE ConvertLine
  <2> SUFFICES ASSUME from \in Packed, NEW k \in 1..Len(out')
               PROVE  LineKept(out'[k], k)
    BY <1>4
  <2>1. row \in Nat /\ Len(out) = row /\ Len(out') = row + 1
    BY <1>5, RoundTyped, RoundRecords
  <2>2. CASE k \in 1..row
    BY <1>1, <1>5, <2>1, <2>2, RoundRecords
  <2>3. CASE k = row + 1
    BY <1>5, <2>3, RoundRecords, RoundKeepsColour
  <2> QED
    BY <2>1, <2>2, <2>3
<1>6. CASE ~ConvertLine
  <2>1. out' = out
    BY <1>6 DEF ImageNext, Ask, Call, Return, UntouchedImage, imageVars
  <2> QED
    BY <1>1, <1>4, <2>1
<1> QED
  BY <1>5, <1>6

\* webcam_convert_image and the functions of the packed formats: whatever the
\* image, every line goes to its place with the colours both formats have room
\* for, and a grey line keeps its brightness in a grey image.
THEOREM ColoursKept == ImageSpec => []LinesKeepColour
<1>1. ImageInit => ImageInv /\ LinesKeepColour
  BY ImageStarts, ColoursStart
<1>2. ImageInv /\ LinesKeepColour /\ [ImageNext]_imageVars => (ImageInv /\ LinesKeepColour)'
  BY ImageStays, ColoursStay
<1> QED
  BY <1>1, <1>2, PTL DEF ImageSpec, ImageNext

-----------------------------------------------------------------------------
(* The three machines side by side *)

\* The composition of MCPixels is an instance of each of its machines: a step is
\* a step of one of them and a stutter of the others.
THEOREM SideBySide == Spec => PixelSpec /\ PictureSpec /\ ImageSpec
<1> DEFINE PixelNext == Draw \/ Convert \/ TurnOrder \/ ClientReads
<1>1. Init => PixelInit /\ PictureInit /\ ImageInit
  BY DEF Init, PixelRests, PictureRests, ImageRests
<1>2. ASSUME [Next]_mcVars
      PROVE  [PixelNext]_pixelVars /\ [Resize]_pictureVars /\ [ImageNext]_imageVars
  <2>1. CASE machine = "pixel" /\ PixelMoves /\ PixelNext
    BY <2>1 DEF PixelMoves
  <2>2. CASE PictureMoves /\ Resize
    BY <2>2 DEF PictureMoves
  <2>3. CASE ImageMoves /\ ImageNext
    BY <2>3 DEF ImageMoves
  <2>4. CASE UNCHANGED mcVars
    BY <2>4 DEF mcVars
  <2> QED
    BY <1>2, <2>1, <2>2, <2>3, <2>4 DEF Next, ImageNext, PixelMoves
<1> QED
  BY <1>1, <1>2, PTL DEF Spec, PixelSpec, PictureSpec, ImageSpec, ImageNext

\* In the composition too each machine's state has its type.
THEOREM EachTyped == Spec => []TypeOK
<1>1. PixelTypeOK /\ PictureTypeOK /\ ImageTypeOK => TypeOK
  BY DEF TypeOK
<1> QED
  BY <1>1, SideBySide, PixelTyped, PictureTyped, ImageTyped, PTL

=============================================================================
