-------------------------- MODULE FrameUpdateProofs --------------------------
(***************************************************************************)
(* Proofs about FrameUpdate for every set of connections, sizes, formats   *)
(* and requests: FInv is inductive, and what a reply shows follows from    *)
(* it.                                                                     *)
(***************************************************************************)
EXTENDS FrameUpdate, TLAPS

USE FrameAssumption DEF FrameAssumption
USE DEF ConGoto, SetFb, ScreenSame, UnderLock, LockFb, LockIsFree, UpdatedBehind, srvVars, conVars, AppLocal

-----------------------------------------------------------------------------
(* The lock and the framebuffer of the server. *)

\* The lock is held by the one thread inside a critical section.
LEMMA LockStep ==
    ASSUME TypeOK, LockAgrees, [Next]_vars
    PROVE  LockAgrees'
<1> USE DEF TypeOK, LockAgrees, WriteSection
<1>1. CASE AppStep
  <2>1. CASE AppWantsToDraw
    BY <2>1 DEF AppWantsToDraw
  <2>2. CASE AppSeesUpdate
    BY <2>2 DEF AppSeesUpdate
  <2>3. CASE AppLockRead
    BY <2>3 DEF AppLockRead
  <2>4. CASE AppLockWrite
    BY <2>4 DEF AppLockWrite
  <2>5. CASE AppWaitFrame
    BY <2>5 DEF AppWaitFrame
  <2>6. CASE AppDrawsFirst
    BY <2>6 DEF AppDrawsFirst
  <2>7. CASE AppDrawsSecond
    BY <2>7 DEF AppDrawsSecond
  <2> QED
    BY <1>1, <2>1, <2>2, <2>3, <2>4, <2>5, <2>6, <2>7 DEF AppStep, AppCritical
<1>2. ASSUME NEW c \in Conns, ConStep(c)
      PROVE  LockAgrees'
  <2>1. CASE SetPixelFormat(c)
    BY <2>1 DEF SetPixelFormat
  <2>2. CASE CreateFb(c)
    BY <2>2 DEF CreateFb
  <2>3. CASE UpdateRequest(c)
    BY <2>3 DEF UpdateRequest
  <2>4. CASE CopyFb(c)
    BY <2>4 DEF CopyFb
  <2>5. CASE StartConvert(c)
    BY <2>5 DEF StartConvert
  <2>6. CASE ConvertFails(c)
    BY <2>6 DEF ConvertFails, HolderBehindFailure
  <2>7. CASE ConvertFirst(c)
    BY <2>7 DEF ConvertFirst
  <2>8. CASE ConvertSecond(c)
    BY <2>8 DEF ConvertSecond
  <2>9. CASE Compose(c)
    BY <2>9 DEF Compose
  <2>10. CASE Reply(c)
    BY <2>10 DEF Reply
  <2> QED
    BY <1>2, <2>1, <2>2, <2>3, <2>4, <2>5, <2>6, <2>7, <2>8, <2>9, <2>10 DEF ConStep, ConCritical
<1>3. CASE UNCHANGED vars
  BY <1>3 DEF vars, srvVars, conVars
<1> QED
  BY <1>1, <1>2, <1>3 DEF Next

\* The picture is whole outside the write section.
LEMMA PictureStep ==
    ASSUME TypeOK, PictureAgrees, [Next]_vars
    PROVE  PictureAgrees'
<1> USE DEF TypeOK, PictureAgrees, WriteSection, Drawings, Halves
<1>1. CASE AppStep
  <2>1. CASE AppWantsToDraw
    BY <2>1 DEF AppWantsToDraw
  <2>2. CASE AppSeesUpdate
    BY <2>2 DEF AppSeesUpdate
  <2>3. CASE AppLockRead
    BY <2>3 DEF AppLockRead
  <2>4. CASE AppLockWrite
    BY <2>4 DEF AppLockWrite
  <2>5. CASE AppWaitFrame
    BY <2>5 DEF AppWaitFrame
  <2>6. CASE AppDrawsFirst
    BY <2>6 DEF AppDrawsFirst
  <2>7. CASE AppDrawsSecond
    BY <2>7 DEF AppDrawsSecond
  <2> QED
    BY <1>1, <2>1, <2>2, <2>3, <2>4, <2>5, <2>6, <2>7 DEF AppStep, AppCritical
<1>2. ASSUME NEW c \in Conns, ConStep(c)
      PROVE  PictureAgrees'
  BY <1>2 DEF ConStep, ConCritical, SetPixelFormat, CreateFb, UpdateRequest, CopyFb, StartConvert,
     ConvertFails, ConvertFirst, ConvertSecond, Compose, Reply
<1>3. CASE UNCHANGED vars
  BY <1>3 DEF vars, srvVars, conVars
<1> QED
  BY <1>1, <1>2, <1>3 DEF Next

-----------------------------------------------------------------------------
(* Types, and the copies of the connections. *)

\* Types are kept.  A drawing is counted in the bounds because the write section is
\* entered below the last one.
LEMMA TypeStep ==
    ASSUME TypeOK, PictureAgrees,
           \A d \in Conns : ConvertAgrees(d), [Next]_vars
    PROVE  TypeOK'
<1> USE DEF TypeOK, WriteSection, Drawings, Halves
<1>1. CASE AppStep
  <2>1. CASE AppWantsToDraw
    BY <2>1 DEF AppWantsToDraw
  <2>2. CASE AppSeesUpdate
    BY <2>2 DEF AppSeesUpdate
  <2>3. CASE AppLockRead
    BY <2>3 DEF AppLockRead
  <2>4. CASE AppLockWrite
    BY <2>4 DEF AppLockWrite
  <2>5. CASE AppWaitFrame
    BY <2>5 DEF AppWaitFrame
  <2>6. CASE AppDrawsFirst
    BY <2>6 DEF AppDrawsFirst, PictureAgrees
  <2>7. CASE AppDrawsSecond
    <3>1. halves'[2] = halves[1] /\ halves' \in [Halves -> Drawings]
      BY <2>7 DEF AppDrawsSecond, PictureAgrees
    <3> QED
      BY <2>7, <3>1 DEF AppDrawsSecond
  <2> QED
    BY <1>1, <2>1, <2>2, <2>3, <2>4, <2>5, <2>6, <2>7 DEF AppStep, AppCritical
<1>2. ASSUME NEW c \in Conns, ConStep(c)
      PROVE  TypeOK'
  <2>1. CASE SetPixelFormat(c)
    BY <2>1 DEF SetPixelFormat
  <2>2. CASE CreateFb(c)
    <3> DEFINE bytes == format[c].bpp \div 8
    <3>1. bytes \in Nat
      OBVIOUS
    <3>2. format' \in [Conns -> [bpp : Nat, bigEndian : BOOLEAN]]
      BY <2>2, <3>1 DEF CreateFb
    <3>3. Supported(bytes) => FbOf(size.w, CreatedHeight, bytes, HostBE, Blank) \in ClientFb
      BY DEF FbOf, CreatedHeight, Supported, Blank, ClientFb
    <3>4. fb' \in [Conns -> ClientFb \cup {NoOne}]
      BY <2>2, <3>3 DEF CreateFb
    <3> QED
      BY <2>2, <3>2, <3>4 DEF CreateFb
  <2>3. CASE UpdateRequest(c)
    BY <2>3 DEF UpdateRequest
  <2>4. CASE CopyFb(c)
    <3>1. FbOf(size.w, size.h, ScreenBpp, HostBE, halves) \in ClientFb
      BY <2>4 DEF CopyFb, FbOf, ScreenBpp, ClientFb
    <3>2. fb' \in [Conns -> ClientFb \cup {NoOne}]
      BY <2>4, <3>1 DEF CopyFb
    <3> QED
      BY <2>4, <3>2 DEF CopyFb
  <2>5. CASE StartConvert(c)
    <3>1. Resized(fb[c]) \in ClientFb
      BY <2>5 DEF StartConvert, Resized, FbOf, ClientFb
    <3>2. fb' \in [Conns -> ClientFb \cup {NoOne}]
      BY <2>5, <3>1 DEF StartConvert
    <3>3. holder' \in Conns \cup {App, NoOne} /\ updated' \in 0..MaxUpdated
      BY <2>5 DEF StartConvert
    <3>4. conPc' \in [Conns -> {"idle", "create", "request", "convert", "second", "compose",
                                "reply", "ended"}]
      BY <2>5 DEF StartConvert
    <3> QED
      BY <2>5, <3>2, <3>3, <3>4 DEF StartConvert
  <2>6. CASE ConvertFails(c)
    BY <2>6 DEF ConvertFails, HolderBehindFailure
  <2>7. CASE ConvertFirst(c)
    <3>1. fb[c] \in ClientFb
      BY <2>7 DEF ConvertFirst, ConvertAgrees
    <3>2. With(fb[c], 1, fb[c].order) \in ClientFb
      BY <3>1 DEF With, FbOf, ClientFb
    <3>3. fb' \in [Conns -> ClientFb \cup {NoOne}]
      BY <2>7, <3>2 DEF ConvertFirst
    <3> QED
      BY <2>7, <3>3 DEF ConvertFirst
  <2>8. CASE ConvertSecond(c)
    <3>1. fb[c] \in ClientFb
      <4>1. conPc[c] = "second"
        BY <2>8 DEF ConvertSecond
      <4>2. fb[c] # NoOne
        BY <4>1, Zenon DEF ConvertAgrees
      <4> QED
        BY <4>1, <4>2
    <3>2. With(fb[c], 2, OrderBehindConvert(fb[c])) \in ClientFb
      BY <3>1 DEF With, FbOf, OrderBehindConvert, ClientFb
    <3>3. fb' \in [Conns -> ClientFb \cup {NoOne}]
      BY <2>8, <3>2 DEF ConvertSecond
    <3> QED
      BY <2>8, <3>3 DEF ConvertSecond
  <2>9. CASE Compose(c)
    <3>1. fb[c] \in ClientFb
      BY <2>9 DEF Compose, ConvertAgrees
    <3>2. Clipped(rect[c], fb[c]) \in [x : Nat, y : Nat, w : Nat, h : Nat]
      BY <3>1 DEF Clipped, Lesser, ClientFb
    <3>3. Swapped(fb[c], format[c].bigEndian) \in ClientFb
      BY <3>1 DEF Swapped, FbOf, ClientFb
    <3>4. fb' \in [Conns -> ClientFb \cup {NoOne}]
      BY <2>9, <3>3 DEF Compose
    <3>5. rect' \in [Conns -> [x : Nat, y : Nat, w : Nat, h : Nat]]
      <4>1. NoRect \in [x : Nat, y : Nat, w : Nat, h : Nat]
        BY DEF NoRect
      <4> QED
        BY <2>9, <3>2, <4>1 DEF Compose
    <3> QED
      BY <2>9, <3>4, <3>5 DEF Compose
  <2>10. CASE Reply(c)
    BY <2>10 DEF Reply, NoRect
  <2> QED
    BY <1>2, <2>1, <2>2, <2>3, <2>4, <2>5, <2>6, <2>7, <2>8, <2>9, <2>10 DEF ConStep, ConCritical
<1>3. CASE UNCHANGED vars
  BY <1>3 DEF vars, srvVars, conVars
<1> QED
  BY <1>1, <1>2, <1>3 DEF Next

\* A step of a connection leaves the others and the picture of the server alone.
LEMMA Apart ==
    ASSUME TypeOK, NEW c \in Conns, NEW d \in Conns, c # d, ConStep(c)
    PROVE  /\ conPc'[d] = conPc[d] /\ format'[d] = format[d] /\ fb'[d] = fb[d]
           /\ UNCHANGED <<app, size, halves, shown>>
           /\ updated' = updated \/ updated' = updated + 1
<1> USE DEF TypeOK
<1>1. CASE SetPixelFormat(c)
  BY <1>1 DEF SetPixelFormat
<1>2. CASE CreateFb(c)
  BY <1>2 DEF CreateFb
<1>3. CASE UpdateRequest(c)
  BY <1>3 DEF UpdateRequest
<1>4. CASE CopyFb(c)
  BY <1>4 DEF CopyFb
<1>5. CASE StartConvert(c)
  BY <1>5 DEF StartConvert
<1>6. CASE ConvertFails(c)
  BY <1>6 DEF ConvertFails
<1>7. CASE ConvertFirst(c)
  BY <1>7 DEF ConvertFirst
<1>8. CASE ConvertSecond(c)
  BY <1>8 DEF ConvertSecond
<1>9. CASE Compose(c)
  BY <1>9 DEF Compose
<1>10. CASE Reply(c)
  BY <1>10 DEF Reply
<1> QED
  BY <1>1, <1>2, <1>3, <1>4, <1>5, <1>6, <1>7, <1>8, <1>9, <1>10 DEF ConStep, ConCritical

\* What the actions on con->fb make of it.
LEMMA CreateFbMakes ==
    ASSUME TypeOK, NEW d \in Conns, CreateFb(d), conPc'[d] # "ended"
    PROVE  /\ conPc'[d] = "idle" /\ fb'[d] # NoOne
           /\ fb'[d].bpp = format'[d].bpp /\ format'[d].bpp # 0
<1> USE DEF TypeOK
<1> DEFINE bytes == format[d].bpp \div 8
<1>1. FbOf(size.w, CreatedHeight, bytes, HostBE, Blank).bpp = bytes
  BY DEF FbOf
<1>2. Supported(bytes) => FbOf(size.w, CreatedHeight, bytes, HostBE, Blank) \in ClientFb
  BY DEF FbOf, CreatedHeight, Supported, Blank, ClientFb, Halves, Drawings
<1>3. format'[d].bpp = bytes
  BY DEF CreateFb
<1>4. Supported(bytes) /\ conPc'[d] = "idle"
      /\ fb'[d] = FbOf(size.w, CreatedHeight, bytes, HostBE, Blank)
  BY DEF CreateFb
<1> QED
  BY <1>1, <1>2, <1>3, <1>4 DEF Supported

LEMMA CopyFbMakes ==
    ASSUME TypeOK, NEW d \in Conns, CopyFb(d), conPc'[d] # "ended"
    PROVE  conPc'[d] = "request" /\ fb[d] = NoOne /\ fb'[d] # NoOne /\ fb'[d].bpp = ScreenBpp
<1> USE DEF TypeOK
<1>1. FbOf(size.w, size.h, ScreenBpp, HostBE, halves) \in ClientFb
  BY DEF FbOf, ScreenBpp, ClientFb
<1>2. FbOf(size.w, size.h, ScreenBpp, HostBE, halves).bpp = ScreenBpp
  BY DEF FbOf
<1>3. conPc'[d] = "request" /\ fb[d] = NoOne
      /\ fb'[d] = FbOf(size.w, size.h, ScreenBpp, HostBE, halves)
  BY DEF CopyFb
<1> QED
  BY <1>1, <1>2, <1>3

LEMMA StartConvertMakes ==
    ASSUME TypeOK, NEW d \in Conns, StartConvert(d)
    PROVE  /\ conPc[d] = "request" /\ conPc'[d] = "convert" /\ fb[d] # NoOne
           /\ fb'[d] \in ClientFb /\ fb'[d].bpp = fb[d].bpp
           /\ fb'[d].w = size.w /\ fb'[d].h = size.h
<1> USE DEF TypeOK
<1>1. conPc[d] = "request" /\ conPc'[d] = "convert" /\ fb[d] # NoOne /\ fb[d] \in ClientFb
  BY DEF StartConvert
<1>2. Resized(fb[d]) \in ClientFb /\ Resized(fb[d]).bpp = fb[d].bpp
      /\ Resized(fb[d]).w = size.w /\ Resized(fb[d]).h = size.h
  BY <1>1 DEF Resized, FbOf, ClientFb
<1>3. CASE MustResize(fb[d])
  <2>1. fb'[d] = Resized(fb[d])
    BY <1>3 DEF StartConvert
  <2> QED
    BY <1>1, <1>2, <2>1
<1>4. CASE ~MustResize(fb[d])
  <2>1. fb'[d] = fb[d]
    BY <1>4 DEF StartConvert
  <2> QED
    BY <1>1, <1>4, <2>1 DEF MustResize
<1> QED
  BY <1>3, <1>4

LEMMA ConvertFirstMakes ==
    ASSUME TypeOK, NEW d \in Conns, ConvertAgrees(d), ConvertFirst(d)
    PROVE  /\ conPc[d] = "convert" /\ conPc'[d] = "second" /\ fb[d] # NoOne
           /\ fb'[d] \in ClientFb /\ fb'[d].bpp = fb[d].bpp
           /\ fb'[d].w = fb[d].w /\ fb'[d].h = fb[d].h
           /\ fb'[d].halves[1] = halves[1]
<1> USE DEF TypeOK
<1>1. conPc[d] = "convert" /\ conPc'[d] = "second" /\ fb[d] # NoOne /\ fb[d] \in ClientFb
  BY DEF ConvertFirst, ConvertAgrees
<1> DEFINE g == With(fb[d], 1, fb[d].order)
<1>2. g \in ClientFb /\ g.bpp = fb[d].bpp /\ g.w = fb[d].w /\ g.h = fb[d].h /\ g.halves[1] = halves[1]
  BY <1>1 DEF With, FbOf, ClientFb, Halves, Drawings
<1>3. fb'[d] = g
  BY DEF ConvertFirst
<1> QED
  BY <1>1, <1>2, <1>3

LEMMA ConvertSecondMakes ==
    ASSUME TypeOK, NEW d \in Conns, ConvertAgrees(d), ConvertSecond(d)
    PROVE  /\ conPc[d] = "second" /\ conPc'[d] = "compose" /\ fb[d] # NoOne
           /\ fb'[d] \in ClientFb /\ fb'[d].bpp = fb[d].bpp /\ fb'[d].order = HostBE
           /\ fb'[d].w = fb[d].w /\ fb'[d].h = fb[d].h
           /\ fb'[d].halves[1] = fb[d].halves[1] /\ fb'[d].halves[2] = halves[2]
<1> USE DEF TypeOK
<1>1. conPc[d] = "second" /\ conPc'[d] = "compose"
  BY DEF ConvertSecond
<1>2. fb[d] # NoOne
  BY <1>1, Zenon DEF ConvertAgrees
<1>3. fb[d] \in ClientFb
  BY <1>2
<1> DEFINE g == With(fb[d], 2, OrderBehindConvert(fb[d]))
<1>4. g \in ClientFb /\ g.bpp = fb[d].bpp /\ g.order = HostBE /\ g.w = fb[d].w /\ g.h = fb[d].h
      /\ g.halves[1] = fb[d].halves[1] /\ g.halves[2] = halves[2]
  BY <1>3 DEF With, FbOf, OrderBehindConvert, ClientFb, Halves, Drawings
<1>5. fb'[d] = g
  BY DEF ConvertSecond
<1> QED
  BY <1>1, <1>2, <1>4, <1>5

LEMMA ComposeMakes ==
    ASSUME TypeOK, NEW d \in Conns, ConvertAgrees(d), Compose(d)
    PROVE  /\ conPc[d] = "compose" /\ conPc'[d] \in {"idle", "reply"} /\ fb[d] # NoOne
           /\ fb'[d] \in ClientFb /\ fb'[d].bpp = fb[d].bpp /\ fb'[d].halves = fb[d].halves
           /\ fb'[d].w = fb[d].w /\ fb'[d].h = fb[d].h
           /\ conPc'[d] = "reply" /\ fb[d].order = HostBE /\ fb[d].bpp # 1 =>
                 fb'[d].order = format[d].bigEndian
<1> USE DEF TypeOK
<1>1. conPc[d] = "compose"
  BY DEF Compose
<1>2. fb[d] # NoOne
  BY <1>1, Zenon DEF ConvertAgrees
<1>3. fb[d] \in ClientFb
  BY <1>2
<1> DEFINE g == Swapped(fb[d], format[d].bigEndian)
<1>4. g \in ClientFb /\ g.bpp = fb[d].bpp /\ g.halves = fb[d].halves /\ g.w = fb[d].w /\ g.h = fb[d].h
      /\ (fb[d].order = HostBE /\ fb[d].bpp # 1 => g.order = format[d].bigEndian)
  BY <1>3 DEF Swapped, FbOf, ClientFb
<1>5. (conPc'[d] = "idle" /\ fb'[d] = fb[d]) \/ (conPc'[d] = "reply" /\ fb'[d] = g)
  BY DEF Compose
<1> QED
  BY <1>1, <1>2, <1>3, <1>4, <1>5

\* The lock keeps the application out of the picture while a connection converts it.
LEMMA ConvertStep ==
    ASSUME TypeOK, LockAgrees, PictureAgrees, NEW d \in Conns, ConvertAgrees(d), [Next]_vars
    PROVE  ConvertAgrees(d)'
<1> USE DEF TypeOK, LockAgrees, WriteSection, Drawings, Halves, ConvertAgrees
<1>1. CASE AppStep
  <2>1. CASE AppWantsToDraw
    BY <2>1 DEF AppWantsToDraw
  <2>2. CASE AppSeesUpdate
    BY <2>2 DEF AppSeesUpdate
  <2>3. CASE AppLockRead
    BY <2>3 DEF AppLockRead
  <2>4. CASE AppLockWrite
    BY <2>4 DEF AppLockWrite
  <2>5. CASE AppWaitFrame
    BY <2>5 DEF AppWaitFrame
  <2>6. CASE AppDrawsFirst
    BY <2>6 DEF AppDrawsFirst
  <2>7. CASE AppDrawsSecond
    BY <2>7 DEF AppDrawsSecond
  <2> QED
    BY <1>1, <2>1, <2>2, <2>3, <2>4, <2>5, <2>6, <2>7 DEF AppStep, AppCritical
<1>2. ASSUME NEW c \in Conns, c # d, ConStep(c)
      PROVE  ConvertAgrees(d)'
  <2>1. conPc'[d] = conPc[d] /\ fb'[d] = fb[d] /\ UNCHANGED <<size, halves, shown>>
    BY <1>2, Apart
  <2> QED
    BY <2>1
<1>3. CASE ConStep(d)
  <2>1. CASE SetPixelFormat(d)
    BY <2>1 DEF SetPixelFormat
  <2>2. CASE CreateFb(d)
    BY <2>2 DEF CreateFb
  <2>3. CASE UpdateRequest(d)
    BY <2>3 DEF UpdateRequest
  <2>4. CASE CopyFb(d)
    BY <2>4 DEF CopyFb
  <2>5. CASE StartConvert(d)
    <3>1. conPc'[d] = "convert" /\ fb'[d] \in ClientFb /\ fb'[d].w = size.w /\ fb'[d].h = size.h
      BY <2>5, StartConvertMakes
    <3>2. fb'[d] # NoOne
      BY <3>1
    <3>3. size' = size
      BY <2>5 DEF StartConvert
    <3> QED
      BY <3>1, <3>2, <3>3
  <2>6. CASE ConvertFails(d)
    BY <2>6 DEF ConvertFails
  <2>7. CASE ConvertFirst(d)
    <3>1. conPc[d] = "convert" /\ conPc'[d] = "second" /\ fb'[d] \in ClientFb
          /\ fb'[d].w = fb[d].w /\ fb'[d].h = fb[d].h /\ fb'[d].halves[1] = halves[1]
      BY <2>7, ConvertFirstMakes
    <3>2. fb'[d] # NoOne
      BY <3>1
    <3>3. fb[d].w = size.w /\ fb[d].h = size.h
      BY <3>1
    <3>4. size' = size /\ halves' = halves
      BY <2>7 DEF ConvertFirst
    <3> QED
      BY <3>1, <3>2, <3>3, <3>4
  <2>8. CASE ConvertSecond(d)
    <3>1. app \notin WriteSection
      BY <2>8 DEF ConvertSecond
    <3>2. halves[1] = halves[2] /\ <<size, halves[2]>> \in shown
      BY <3>1 DEF PictureAgrees
    <3>3. fb'[d].halves[1] = fb'[d].halves[2] /\ fb'[d].halves[1] = halves[2]
          /\ fb'[d].w = size.w /\ fb'[d].h = size.h
      BY <2>8, <3>2, ConvertSecondMakes
    <3>4. [w |-> fb'[d].w, h |-> fb'[d].h] = size
      BY <3>3
    <3>5. conPc'[d] = "compose" /\ fb'[d] \in ClientFb /\ shown' = shown
      BY <2>8, ConvertSecondMakes DEF ConvertSecond
    <3>6. fb'[d] # NoOne
      BY <3>5
    <3>7. <<[w |-> fb'[d].w, h |-> fb'[d].h], fb'[d].halves[1]>> \in shown'
      BY <3>2, <3>3, <3>4, <3>5
    <3> QED
      BY <3>3, <3>5, <3>6, <3>7
  <2>9. CASE Compose(d)
    <3>1. shown' = shown
      BY <2>9 DEF Compose
    <3>2. fb[d].halves[1] = fb[d].halves[2]
          /\ <<[w |-> fb[d].w, h |-> fb[d].h], fb[d].halves[1]>> \in shown
      BY <2>9, ComposeMakes
    <3>3. fb'[d].halves = fb[d].halves /\ fb'[d].w = fb[d].w /\ fb'[d].h = fb[d].h
          /\ fb'[d] # NoOne /\ conPc'[d] \in {"idle", "reply"}
      BY <2>9, ComposeMakes
    <3> QED
      BY <3>1, <3>2, <3>3
  <2>10. CASE Reply(d)
    BY <2>10 DEF Reply
  <2> QED
    BY <1>3, <2>1, <2>2, <2>3, <2>4, <2>5, <2>6, <2>7, <2>8, <2>9, <2>10 DEF ConStep, ConCritical
<1>4. CASE UNCHANGED vars
  BY <1>4 DEF vars, srvVars, conVars
<1> QED
  BY <1>1, <1>2, <1>3, <1>4 DEF Next

\* con->fb has the format the client asked for.
LEMMA FormatStep ==
    ASSUME TypeOK, NEW d \in Conns, ConvertAgrees(d), FormatAgrees(d), [Next]_vars
    PROVE  FormatAgrees(d)'
<1> USE DEF TypeOK, WriteSection, FormatAgrees
<1>1. CASE AppStep
  <2>1. CASE AppWantsToDraw
    BY <2>1 DEF AppWantsToDraw
  <2>2. CASE AppSeesUpdate
    BY <2>2 DEF AppSeesUpdate
  <2>3. CASE AppLockRead
    BY <2>3 DEF AppLockRead
  <2>4. CASE AppLockWrite
    BY <2>4 DEF AppLockWrite
  <2>5. CASE AppWaitFrame
    BY <2>5 DEF AppWaitFrame
  <2>6. CASE AppDrawsFirst
    BY <2>6 DEF AppDrawsFirst
  <2>7. CASE AppDrawsSecond
    BY <2>7 DEF AppDrawsSecond
  <2> QED
    BY <1>1, <2>1, <2>2, <2>3, <2>4, <2>5, <2>6, <2>7 DEF AppStep, AppCritical
<1>2. ASSUME NEW c \in Conns, c # d, ConStep(c)
      PROVE  FormatAgrees(d)'
  BY <1>2, Apart
<1>3. CASE ConStep(d)
  <2>1. CASE SetPixelFormat(d)
    BY <2>1 DEF SetPixelFormat
  <2>2. CASE CreateFb(d)
    BY <2>2, CreateFbMakes DEF CreateFb
  <2>3. CASE UpdateRequest(d)
    BY <2>3 DEF UpdateRequest
  <2>4. CASE CopyFb(d)
    BY <2>4, CopyFbMakes DEF CopyFb
  <2>5. CASE StartConvert(d)
    <3>1. conPc[d] = "request" /\ conPc'[d] = "convert" /\ fb[d] # NoOne
          /\ fb'[d] \in ClientFb /\ fb'[d].bpp = fb[d].bpp
      BY <2>5, StartConvertMakes
    <3>2. fb'[d] # NoOne
      BY <3>1
    <3>3. format' = format
      BY <2>5 DEF StartConvert
    <3> QED
      BY <3>1, <3>2, <3>3
  <2>6. CASE ConvertFails(d)
    BY <2>6 DEF ConvertFails
  <2>7. CASE ConvertFirst(d)
    <3>1. conPc[d] = "convert" /\ conPc'[d] = "second" /\ fb[d] # NoOne
          /\ fb'[d] \in ClientFb /\ fb'[d].bpp = fb[d].bpp
      BY <2>7, ConvertFirstMakes
    <3>2. fb'[d] # NoOne
      BY <3>1
    <3>3. format' = format
      BY <2>7 DEF ConvertFirst
    <3> QED
      BY <3>1, <3>2, <3>3
  <2>8. CASE ConvertSecond(d)
    <3>1. conPc[d] = "second" /\ conPc'[d] = "compose" /\ fb[d] # NoOne
          /\ fb'[d] \in ClientFb /\ fb'[d].bpp = fb[d].bpp /\ fb'[d].order = HostBE
      BY <2>8, ConvertSecondMakes
    <3>2. fb'[d] # NoOne
      BY <3>1
    <3>3. format' = format
      BY <2>8 DEF ConvertSecond
    <3> QED
      BY <3>1, <3>2, <3>3
  <2>9. CASE Compose(d)
    <3>1. format' = format
      BY <2>9 DEF Compose
    <3> QED
      BY <2>9, <3>1, ComposeMakes
  <2>10. CASE Reply(d)
    BY <2>10 DEF Reply
  <2> QED
    BY <1>3, <2>1, <2>2, <2>3, <2>4, <2>5, <2>6, <2>7, <2>8, <2>9, <2>10 DEF ConStep, ConCritical
<1>4. CASE UNCHANGED vars
  BY <1>4 DEF vars, srvVars, conVars
<1> QED
  BY <1>1, <1>2, <1>3, <1>4 DEF Next

\* A connection counts itself before it reads, and only a new drawing forgets it.
LEMMA ReadsStep ==
    ASSUME TypeOK, LockAgrees, PictureAgrees, NEW d \in Conns, ConvertAgrees(d), ReadsAgree(d), [Next]_vars
    PROVE  ReadsAgree(d)'
<1> USE DEF TypeOK, LockAgrees, WriteSection, Drawings, Halves, ReadsAgree
<1>1. CASE AppStep
  <2>1. CASE AppWantsToDraw
    BY <2>1 DEF AppWantsToDraw
  <2>2. CASE AppSeesUpdate
    BY <2>2 DEF AppSeesUpdate
  <2>3. CASE AppLockRead
    BY <2>3 DEF AppLockRead
  <2>4. CASE AppLockWrite
    BY <2>4 DEF AppLockWrite
  <2>5. CASE AppWaitFrame
    BY <2>5 DEF AppWaitFrame
  <2>6. CASE AppDrawsFirst
    BY <2>6 DEF AppDrawsFirst
  <2>7. CASE AppDrawsSecond
    <3>1. halves'[2] = halves[2] + 1 /\ fb' = fb /\ conPc' = conPc /\ updated' = updated
      BY <2>7 DEF AppDrawsSecond
    <3>2. conPc[d] \in {"compose", "reply"} => fb[d].halves[2] \in Nat
      BY DEF ConvertAgrees, ClientFb
    <3> QED
      BY <3>1, <3>2
  <2> QED
    BY <1>1, <2>1, <2>2, <2>3, <2>4, <2>5, <2>6, <2>7 DEF AppStep, AppCritical
<1>2. ASSUME NEW c \in Conns, c # d, ConStep(c)
      PROVE  ReadsAgree(d)'
  BY <1>2, Apart
<1>3. CASE ConStep(d)
  <2>1. CASE SetPixelFormat(d)
    BY <2>1 DEF SetPixelFormat
  <2>2. CASE CreateFb(d)
    BY <2>2 DEF CreateFb
  <2>3. CASE UpdateRequest(d)
    BY <2>3 DEF UpdateRequest
  <2>4. CASE CopyFb(d)
    BY <2>4 DEF CopyFb
  <2>5. CASE StartConvert(d)
    BY <2>5 DEF StartConvert
  <2>6. CASE ConvertFails(d)
    BY <2>6 DEF ConvertFails
  <2>7. CASE ConvertFirst(d)
    BY <2>7 DEF ConvertFirst
  <2>8. CASE ConvertSecond(d)
    <3>1. updated # 0 /\ UNCHANGED <<updated, halves, app>>
      BY <2>8 DEF ConvertSecond
    <3> QED
      BY <2>8, <3>1, ConvertSecondMakes
  <2>9. CASE Compose(d)
    <3>1. UNCHANGED <<updated, halves, app>>
      BY <2>9 DEF Compose
    <3> QED
      BY <2>9, <3>1, ComposeMakes
  <2>10. CASE Reply(d)
    BY <2>10 DEF Reply
  <2> QED
    BY <1>3, <2>1, <2>2, <2>3, <2>4, <2>5, <2>6, <2>7, <2>8, <2>9, <2>10 DEF ConStep, ConCritical
<1>4. CASE UNCHANGED vars
  BY <1>4 DEF vars, srvVars, conVars
<1> QED
  BY <1>1, <1>2, <1>3, <1>4 DEF Next

-----------------------------------------------------------------------------
(* The theorems. *)

LEMMA InitFInv ==
    ASSUME Init
    PROVE  FInv
<1>1. TypeOK
  BY DEF Init, TypeOK, Blank, Halves, Drawings, NoRect
<1>2. LockAgrees
  BY DEF Init, LockAgrees, WriteSection
<1>3. PictureAgrees
  BY DEF Init, PictureAgrees, Blank, Halves, WriteSection
<1>4. ASSUME NEW d \in Conns
      PROVE  ConvertAgrees(d) /\ FormatAgrees(d) /\ ReadsAgree(d)
  BY DEF Init, ConvertAgrees, FormatAgrees, ReadsAgree
<1> QED
  BY <1>1, <1>2, <1>3, <1>4 DEF FInv

LEMMA StepFInv ==
    ASSUME FInv, [Next]_vars
    PROVE  FInv'
<1>1. /\ TypeOK /\ LockAgrees /\ PictureAgrees
      /\ \A d \in Conns : ConvertAgrees(d) /\ FormatAgrees(d) /\ ReadsAgree(d)
  BY DEF FInv
<1>2. TypeOK'
  BY <1>1, TypeStep
<1>3. LockAgrees' /\ PictureAgrees'
  BY <1>1, LockStep, PictureStep
<1>4. ASSUME NEW d \in Conns
      PROVE  ConvertAgrees(d)' /\ FormatAgrees(d)' /\ ReadsAgree(d)'
  BY <1>1, ConvertStep, FormatStep, ReadsStep
<1> QED
  BY <1>2, <1>3, <1>4 DEF FInv

\* The lock, the picture and the copies of the connections agree in every
\* reachable state, however many connections there are.
THEOREM FrameInvariance == Spec => []FInv
<1>1. Init => FInv
  BY InitFInv
<1>2. FInv /\ [Next]_vars => FInv'
  BY StepFInv
<1> QED
  BY <1>1, <1>2, PTL DEF Spec

\* The lock, the copies and the sizes keep their types.
THEOREM FrameTypeCorrect == Spec => []TypeOK
<1>1. FInv => TypeOK
  BY DEF FInv
<1> QED
  BY <1>1, FrameInvariance, PTL

\* A reply shows one picture the application had finished, at the size it had
\* then: what trfb_framebuffer_convert does under the lock.
THEOREM SnapshotsInvariance == Spec => []RepliesAreSnapshots
<1>1. FInv => RepliesAreSnapshots
  BY DEF FInv, RepliesAreSnapshots, ConvertAgrees
<1> QED
  BY <1>1, FrameInvariance, PTL

\* A reply has the pixel width and the byte order the client asked for.
THEOREM FormatInvariance == Spec => []FormatIsHonoured
<1>1. ASSUME FInv, NEW c \in Conns, conPc[c] = "reply"
      PROVE  /\ fb[c].bpp = IF format[c].bpp = 0 THEN ScreenBpp ELSE format[c].bpp
             /\ fb[c].bpp # 1 => fb[c].order = format[c].bigEndian
  <2>1. fb[c] # NoOne
    BY <1>1 DEF FInv, ConvertAgrees
  <2>2. FormatAgrees(c)
    BY <1>1 DEF FInv
  <2> QED
    BY <1>1, <2>1, <2>2 DEF FormatAgrees
<1>2. FInv => FormatIsHonoured
  BY <1>1 DEF FormatIsHonoured
<1> QED
  BY <1>2, FrameInvariance, PTL

\* A client that has the current picture has been counted, so the application
\* is told to draw the next one.
THEOREM ReadersInvariance == Spec => []ReadersAreNoticed
<1>1. FInv => ReadersAreNoticed
  BY DEF FInv, ReadersAreNoticed, ReadsAgree
<1> QED
  BY <1>1, FrameInvariance, PTL

-----------------------------------------------------------------------------
(* The lock is on its way back.                                              *)

\* the steps the holder of the lock takes at most until it releases it
StepsToRelease ==
    CASE holder = App     -> IF app = "first" THEN 2 ELSE 1
      [] holder \in Conns -> IF conPc[holder] = "convert" THEN 2 ELSE 1
      [] OTHER            -> 0
Critical == AppCritical \/ \E c \in Conns : ConCritical(c)

\* A held lock stays with its holder, whose every step releases it or comes
\* nearer to that, the failed conversion included; the steps of the others
\* neither take nor delay it.
LockRunsDown ==
    [][holder # NoOne =>
         /\ holder' \in {holder, NoOne}
         /\ StepsToRelease' <= StepsToRelease
         /\ Critical => StepsToRelease' < StepsToRelease]_vars

\* The steps inside critical sections are those of the holder.
LEMMA AppHolds ==
    ASSUME TypeOK, LockAgrees, AppStep, holder # NoOne
    PROVE  /\ holder' \in {holder, NoOne} /\ StepsToRelease' <= StepsToRelease
           /\ AppCritical => StepsToRelease' < StepsToRelease
<1> USE DEF TypeOK, LockAgrees, WriteSection, StepsToRelease
<1>1. CASE AppWantsToDraw
  BY <1>1 DEF AppWantsToDraw, AppCritical, AppWaitFrame, AppDrawsFirst, AppDrawsSecond
<1>2. CASE AppSeesUpdate \/ AppLockRead \/ AppLockWrite
  BY <1>2 DEF AppSeesUpdate, AppLockRead, AppLockWrite
<1>3. CASE AppWaitFrame
  BY <1>3 DEF AppWaitFrame
<1>4. CASE AppDrawsFirst
  BY <1>4 DEF AppDrawsFirst
<1>5. CASE AppDrawsSecond
  BY <1>5 DEF AppDrawsSecond
<1> QED
  BY <1>1, <1>2, <1>3, <1>4, <1>5 DEF AppStep, AppCritical

LEMMA ConHolds ==
    ASSUME TypeOK, LockAgrees, NEW c \in Conns, ConStep(c), holder # NoOne
    PROVE  /\ holder' \in {holder, NoOne} /\ StepsToRelease' <= StepsToRelease
           /\ ConCritical(c) => StepsToRelease' < StepsToRelease
<1> USE DEF TypeOK, LockAgrees, StepsToRelease
<1>1. CASE CreateFb(c) \/ CopyFb(c) \/ StartConvert(c)
  BY <1>1 DEF CreateFb, CopyFb, StartConvert
<1>2. CASE SetPixelFormat(c) \/ UpdateRequest(c) \/ Compose(c) \/ Reply(c)
  <2>1. /\ UNCHANGED <<app, holder>> /\ conPc[c] \notin {"convert", "second"}
        /\ \A d \in Conns : d # c => conPc'[d] = conPc[d]
    BY <1>2 DEF SetPixelFormat, UpdateRequest, Compose, Reply
  <2>2. holder # c
    BY <2>1
  <2> QED
    BY <2>1, <2>2 DEF ConCritical, ConvertFails, ConvertFirst, ConvertSecond
<1>3. CASE ConvertFails(c)
  BY <1>3 DEF ConvertFails, HolderBehindFailure
<1>4. CASE ConvertFirst(c)
  <2>1. holder = c /\ holder' = c /\ conPc'[c] = "second" /\ conPc[c] = "convert"
    BY <1>4 DEF ConvertFirst
  <2> QED
    BY <2>1
<1>5. CASE ConvertSecond(c)
  BY <1>5 DEF ConvertSecond
<1> QED
  BY <1>1, <1>2, <1>3, <1>4, <1>5 DEF ConStep, ConCritical

\* The lock of the framebuffer is given back after two further steps of its
\* holder at most, the wait for the camera counted as one, whatever the other
\* threads do meanwhile.
THEOREM LockReleaseNears == Spec => LockRunsDown
<1> DEFINE Nears == holder # NoOne =>
                      /\ holder' \in {holder, NoOne}
                      /\ StepsToRelease' <= StepsToRelease
                      /\ Critical => StepsToRelease' < StepsToRelease
<1>1. FInv /\ [Next]_vars => [Nears]_vars
  <2> SUFFICES ASSUME FInv, Next, holder # NoOne
               PROVE  Nears
    OBVIOUS
  <2>1. TypeOK /\ LockAgrees
    BY DEF FInv
  <2>2. CASE AppStep
    <3>1. ASSUME NEW c \in Conns, ConCritical(c)
          PROVE  AppCritical
      <4>1. conPc' # conPc
        BY <2>1, <3>1 DEF TypeOK, ConCritical, ConvertFails, ConvertFirst, ConvertSecond
      <4> QED
        BY <2>2, <4>1 DEF AppStep, AppCritical, AppWantsToDraw, AppSeesUpdate, AppLockRead,
           AppLockWrite, AppWaitFrame, AppDrawsFirst, AppDrawsSecond
    <3> QED
      BY <2>1, <2>2, <3>1, AppHolds DEF Critical
  <2>3. ASSUME NEW c \in Conns, ConStep(c)
        PROVE  Nears
    <3>1. ASSUME AppCritical
          PROVE  ConCritical(c)
      <4>1. app' # app
        BY <3>1 DEF AppCritical, AppWaitFrame, AppDrawsFirst, AppDrawsSecond
      <4> QED
        BY <2>3, <4>1 DEF ConStep, ConCritical, SetPixelFormat, CreateFb, UpdateRequest, CopyFb,
           StartConvert, ConvertFails, ConvertFirst, ConvertSecond, Compose, Reply
    <3>2. ASSUME NEW d \in Conns, ConCritical(d)
          PROVE  ConCritical(c)
      <4>1. holder = d /\ conPc'[d] # conPc[d]
        BY <2>1, <3>2 DEF TypeOK, LockAgrees, ConCritical, ConvertFails, ConvertFirst, ConvertSecond
      <4>2. d = c
        BY <2>1, <2>3, <4>1 DEF TypeOK, ConStep, ConCritical, SetPixelFormat, CreateFb, UpdateRequest,
           CopyFb, StartConvert, ConvertFails, ConvertFirst, ConvertSecond, Compose, Reply
      <4> QED
        BY <3>2, <4>2
    <3> QED
      BY <2>1, <2>3, <3>1, <3>2, ConHolds DEF Critical
  <2> QED
    BY <2>2, <2>3 DEF Next
<1> QED
  BY <1>1, FrameInvariance, PTL DEF Spec, LockRunsDown

=============================================================================
