---------------------------- MODULE WebcamProofs ----------------------------
(***************************************************************************)
(* Proofs about Webcam for every set of drivers, every number of buffers   *)
(* they grant and every bound: WInv is inductive, and what the library     *)
(* keeps of memory, of buffers and of pictures follows from it.            *)
(***************************************************************************)
EXTENDS Webcam, FiniteSetTheorems, TLAPS

Opening == {"priv", "device", "caps", "format", "image", "reqbufs", "map", "readbuf"}
Running == {"idle", "queue", "select", "dequeue", "copy", "second", "requeue", "refuse", "read"}
AtImage == {"copy", "second", "requeue", "refuse"}

\* What is allocated, open and mapped, by where the thread is.
Memory ==
    /\ pc = "closed" => held = {}
    /\ pc = "priv" => held = {"cam"}
    /\ pc \in {"device", "caps", "format", "image"} => held = {"cam", "priv"}
    /\ pc \in {"reqbufs", "readbuf"} => held = {"cam", "priv", "image"}
    /\ pc = "map" => held = {"cam", "priv", "image", "buffers"}
    /\ pc \in Running => held = {"cam", "priv", "image", IF method = "mmap" THEN "buffers" ELSE "buf"}
    /\ pc \in {"closed", "priv", "device"} => ~fd

\* The buffers the driver has granted, and those mapped.
Mappings ==
    /\ pc \in {"reqbufs", "map", "queue", "dequeue", "requeue", "refuse"} => method = "mmap"
    /\ pc \in {"readbuf", "read"} => method = "read"
    /\ pc \in {"closed", "priv", "device", "caps", "format", "image", "reqbufs"} => bufs = NoBufs
    /\ pc = "map" => mapped = 0..(k - 1) /\ mapped \subseteq Bufs
    /\ pc \in Running /\ method = "mmap" => Bufs = 0..(count - 1) /\ mapped = Bufs
    /\ pc \notin Running \cup {"map"} \/ method = "read" => mapped = {}

\* Who has the buffers.
Accounted ==
    /\ streaming => pc \in Running /\ method = "mmap"
    /\ pc \notin Running \/ method = "read" => At("app") = Bufs
    /\ pc \in {"idle", "select", "dequeue"} =>
          /\ streaming => At("app") \subseteq lost
          /\ ~streaming /\ ~dirty => At("app") = Bufs
    /\ pc = "queue" =>
          /\ At("app") \subseteq k..(count - 1)
          /\ streaming => At("app") \subseteq lost
          /\ ~streaming /\ ~dirty => At("app") = k..(count - 1)
    /\ pc \in AtImage /\ method = "mmap" =>
          /\ streaming /\ cur \in At("app")
          /\ At("app") \subseteq lost \cup {cur}

\* Of which frame the halves of the driver's pictures are ...
Whole(pic) == pic[1] = pic[2]
Filled ==
    /\ ~short => \A i \in At("done") : Whole(bufs[i].pic)
    /\ \A i \in At("filling") : bufs[i].pic[1] = frame

\* ... and those of the pictures the library makes of them.
Copied ==
    /\ pc \in {"copy", "second"} /\ method = "mmap" /\ ~short => Whole(bufs[cur].pic)
    /\ pc \in Running /\ method = "read" /\ ~short => Whole(readbuf)
    /\ pc \in (Running \ {"second"}) \cup {"reqbufs", "map", "readbuf"} /\ ~short => Whole(image)
    /\ pc = "second" => image[1] = Source[1]

\* The sizes the library goes by.
Measured ==
    pc \in Running \cup {"image", "reqbufs", "map", "readbuf"} =>
        geometry = [line |-> Line, len |-> ImageLen]

WInv == TypeOK /\ Memory /\ Mappings /\ Accounted /\ Filled /\ Copied /\ Measured

-----------------------------------------------------------------------------
(* What the actions make of the buffers and of the pictures. *)

\* The buffers are a function on the numbers granted.
LEMMA BufsAreSlots ==
    ASSUME TypeOK
    PROVE  bufs \in [Bufs -> Slot] /\ Granting(bufs)
BY DEF TypeOK, Bufs, Granting

\* New contents for the same buffers are buffers again.
LEMMA GrantedAgain ==
    ASSUME TypeOK, NEW f \in [Bufs -> Slot]
    PROVE  Granting(f) /\ DOMAIN f = Bufs
BY DEF TypeOK, Bufs, Granting

LEMMA NoBufsGranted ==
    Granting(NoBufs) /\ DOMAIN NoBufs = {}
<1>1. 0..(0 - 1) = {}
  OBVIOUS
<1>2. NoBufs \in [0..(0 - 1) -> Slot]
  BY <1>1 DEF NoBufs
<1> QED
  BY <1>1, <1>2 DEF Granting

\* The buffer i changes hands.
LEMMA MovedSlot ==
    ASSUME TypeOK, NEW i \in Bufs, NEW p \in {"app", "queued", "filling", "done"}
    PROVE  LET f == [bufs EXCEPT ![i].at = p]
           IN  /\ Granting(f) /\ DOMAIN f = Bufs
               /\ \A j \in Bufs : /\ f[j].at = (IF j = i THEN p ELSE bufs[j].at)
                                  /\ f[j].pic = bufs[j].pic
<1> DEFINE f == [bufs EXCEPT ![i].at = p]
<1>1. bufs \in [Bufs -> Slot]
  BY BufsAreSlots
<1>2. f = [j \in Bufs |-> IF j = i THEN [bufs[i] EXCEPT !.at = p] ELSE bufs[j]]
  BY <1>1
<1>3. [bufs[i] EXCEPT !.at = p] = [at |-> p, pic |-> bufs[i].pic]
  BY <1>1 DEF Slot
<1>4. [at |-> p, pic |-> bufs[i].pic] \in Slot
  BY <1>1 DEF Slot
<1>5. f \in [Bufs -> Slot]
  BY <1>1, <1>2, <1>3, <1>4
<1>6. Granting(f) /\ DOMAIN f = Bufs
  BY <1>5, GrantedAgain
<1>7. \A j \in Bufs : f[j] = IF j = i THEN [at |-> p, pic |-> bufs[i].pic] ELSE bufs[j]
  BY <1>2, <1>3
<1> QED
  BY <1>6, <1>7

\* The buffer i gets a picture.
LEMMA FilledSlot ==
    ASSUME TypeOK, NEW i \in Bufs, NEW p \in {"app", "queued", "filling", "done"}, NEW q \in Picture
    PROVE  LET f == [bufs EXCEPT ![i] = [at |-> p, pic |-> q]]
           IN  /\ Granting(f) /\ DOMAIN f = Bufs
               /\ f[i].at = p /\ f[i].pic = q
               /\ \A j \in Bufs \ {i} : f[j] = bufs[j]
<1> DEFINE f == [bufs EXCEPT ![i] = [at |-> p, pic |-> q]]
<1>1. bufs \in [Bufs -> Slot]
  BY BufsAreSlots
<1>2. [at |-> p, pic |-> q] \in Slot
  BY DEF Slot
<1>3. f \in [Bufs -> Slot]
  BY <1>1, <1>2
<1>4. Granting(f) /\ DOMAIN f = Bufs
  BY <1>3, GrantedAgain
<1>5. f[i] = [at |-> p, pic |-> q] /\ \A j \in Bufs \ {i} : f[j] = bufs[j]
  BY <1>1
<1> QED
  BY <1>4, <1>5

\* The driver begins a frame ...
LEMMA FillFirstMakes ==
    ASSUME TypeOK, NEW i \in Bufs, FillFirst(i)
    PROVE  /\ Granting(bufs') /\ DOMAIN bufs' = Bufs
           /\ frame' \in Nat /\ frame' = frame + 1
           /\ bufs'[i].at = "filling" /\ bufs'[i].pic[1] = frame'
           /\ \A j \in Bufs \ {i} : bufs'[j] = bufs[j]
<1>1. frame' \in Nat /\ frame' = frame + 1 /\ bufs[i].pic \in [1..2 -> Nat]
  BY BufsAreSlots DEF TypeOK, FillFirst, Slot, Picture
<1>2. PICK q \in Picture : q = [bufs[i].pic EXCEPT ![1] = frame']
  BY <1>1 DEF Picture
<1>3. q[1] = frame'
  BY <1>1, <1>2
<1>4. LET f == [bufs EXCEPT ![i] = [at |-> "filling", pic |-> q]]
      IN  /\ Granting(f) /\ DOMAIN f = Bufs
          /\ f[i].at = "filling" /\ f[i].pic = q
          /\ \A j \in Bufs \ {i} : f[j] = bufs[j]
  BY FilledSlot
<1> DEFINE f == [bufs EXCEPT ![i] = [at |-> "filling", pic |-> q]]
<1>5. bufs' = f
  BY <1>1, <1>2 DEF FillFirst
<1>6. /\ Granting(f) /\ DOMAIN f = Bufs
      /\ f[i].at = "filling" /\ f[i].pic = q
      /\ \A j \in Bufs \ {i} : f[j] = bufs[j]
  BY <1>4
<1> HIDE DEF f
<1> QED
  BY <1>1, <1>3, <1>5, <1>6

\* ... and finishes it, or ends it early.
LEMMA FillSecondMakes ==
    ASSUME TypeOK, NEW i \in Bufs, FillSecond(i)
    PROVE  /\ Granting(bufs') /\ DOMAIN bufs' = Bufs
           /\ frame' = frame /\ bufs[i].at = "filling" /\ bufs'[i].at = "done"
           /\ ~short' => bufs'[i].pic[2] = frame /\ bufs'[i].pic[1] = bufs[i].pic[1]
           /\ \A j \in Bufs \ {i} : bufs'[j] = bufs[j]
<1>1. frame \in Nat /\ frame' = frame /\ bufs[i].at = "filling" /\ bufs[i].pic \in [1..2 -> Nat]
  BY BufsAreSlots DEF TypeOK, FillSecond, Slot, Picture, At
<1>2. CASE bufs' = [bufs EXCEPT ![i] = [at |-> "done", pic |-> [@.pic EXCEPT ![2] = frame]]]
  <2>1. PICK q \in Picture : q = [bufs[i].pic EXCEPT ![2] = frame]
    BY <1>1 DEF Picture
  <2>2. q[2] = frame /\ q[1] = bufs[i].pic[1]
    BY <1>1, <2>1
  <2> DEFINE f == [bufs EXCEPT ![i] = [at |-> "done", pic |-> q]]
  <2>3. bufs' = f
    BY <1>2, <2>1
  <2>4. /\ Granting(f) /\ DOMAIN f = Bufs
        /\ f[i].at = "done" /\ f[i].pic = q
        /\ \A j \in Bufs \ {i} : f[j] = bufs[j]
    BY FilledSlot
  <2> HIDE DEF f
  <2> QED
    BY <1>1, <2>2, <2>3, <2>4
<1>3. CASE short' /\ bufs' = [bufs EXCEPT ![i].at = "done"]
  <2>1. bufs \in [Bufs -> Slot]
    BY BufsAreSlots
  <2>2. bufs' \in [Bufs -> Slot] /\ bufs'[i].at = "done"
    BY <1>3, <2>1 DEF Slot
  <2>3. \A j \in Bufs \ {i} : bufs'[j] = bufs[j]
    BY <1>3, <2>1
  <2>4. Granting(bufs') /\ DOMAIN bufs' = Bufs
    BY <2>2, GrantedAgain
  <2> QED
    BY <1>1, <1>3, <2>2, <2>3, <2>4
<1> QED
  BY <1>2, <1>3 DEF FillSecond

\* STREAMOFF gives all of them to the program.
LEMMA ReclaimedSlots ==
    ASSUME TypeOK
    PROVE  /\ Granting(Reclaimed) /\ DOMAIN Reclaimed = Bufs
           /\ \A j \in Bufs : Reclaimed[j].at = "app" /\ Reclaimed[j].pic = bufs[j].pic
<1>1. bufs \in [Bufs -> Slot]
  BY BufsAreSlots
<1>2. \A j \in Bufs : [bufs[j] EXCEPT !.at = "app"] = [at |-> "app", pic |-> bufs[j].pic]
  BY <1>1 DEF Slot
<1>3. \A j \in Bufs : [at |-> "app", pic |-> bufs[j].pic] \in Slot
  BY <1>1 DEF Slot
<1>4. Reclaimed \in [Bufs -> Slot]
  BY <1>2, <1>3 DEF Reclaimed
<1>5. \A j \in Bufs : Reclaimed[j] = [at |-> "app", pic |-> bufs[j].pic]
  BY <1>2 DEF Reclaimed
<1> QED
  BY <1>4, <1>5, GrantedAgain

-----------------------------------------------------------------------------
(* The steps of the library, one by one. *)

USE DEF vars, libVars, pictures, drvVars, history

\* Whatever fails, what is allocated goes with where the thread is.
LEMMA MemoryStep ==
    ASSUME TypeOK, Memory, Mappings, [Next]_vars
    PROVE  Memory'
<1> USE DEF TypeOK, Memory, Mappings, Opening, Running, AtImage
<1>1. CASE OpenCam
  BY <1>1 DEF OpenCam, Goto, Fine, DriverSame
<1>2. CASE OpenPriv
  BY <1>2 DEF OpenPriv, Goto, Fine, Fault, DriverSame
<1>3. CASE OpenDevice
  BY <1>3 DEF OpenDevice, Goto, Fine, Fault, DriverSame
<1>4. CASE QueryCap
  BY <1>4 DEF QueryCap, Fine, Fault, InitFails, BufsBehind, FdBehindFailure, LastAttempt
<1>5. CASE SetFormat
  BY <1>5 DEF SetFormat, Fine, Fault, InitFails, BufsBehind, FdBehindFailure, LastAttempt
<1>6. CASE AllocImage
  BY <1>6 DEF AllocImage, Fine, Fault, InitFails, BufsBehind, FdBehindFailure, LastAttempt
<1>7. CASE RequestBuffers
  BY <1>7 DEF RequestBuffers, Fine, Fault, FallsBack
<1>8. CASE MapBuffer
  BY <1>8 DEF MapBuffer, Fine, Fault, FallsBack, DriverSame
<1>9. CASE Mapped
  BY <1>9 DEF Mapped, Goto, Fine, DriverSame
<1>10. CASE ReadBuffer
  <2>1. held = {"cam", "priv", "image"}
    BY <1>10 DEF ReadBuffer
  <2>2. {"cam", "priv", "image"} \ {"image"} = {"cam", "priv"}
    OBVIOUS
  <2>3. held \ {"image"} = {"cam", "priv"}
    BY <2>1, <2>2
  <2>4. CASE pc' = "idle"
    BY <1>10, <2>1, <2>4 DEF ReadBuffer, InitFails, LastAttempt
  <2>5. CASE InitFails({"cam", "priv"})
    BY <1>10, <2>5 DEF ReadBuffer, InitFails, FdBehindFailure, LastAttempt
  <2> QED
    BY <1>10, <2>3, <2>4, <2>5 DEF ReadBuffer
<1>11. CASE Close
  BY <1>11 DEF Close, Goto, Fine, FreedByClose
<1>12. CASE Start
  BY <1>12 DEF Start, Fine, DriverSame
<1>13. CASE QueueBuffer
  BY <1>13 DEF QueueBuffer, Fine, Fault, Give, Kept, StartFails, NextQueued, DriverSame
<1>14. CASE StreamOn
  BY <1>14 DEF StreamOn, Fine, Fault, Kept, StartFails, DriverSame
<1>15. CASE Stop
  BY <1>15 DEF Stop, Fine, Kept
<1>16. CASE StopFails
  BY <1>16 DEF StopFails, Fault
<1>17. CASE WaitFrame
  BY <1>17 DEF WaitFrame, Goto, Fine, DriverSame
<1>18. CASE SelectReturns
  BY <1>18 DEF SelectReturns, Goto, Fine, DriverSame
<1>19. CASE SelectReady
  BY <1>19 DEF SelectReady, Goto, Fine, DriverSame
<1>20. CASE Dequeue
  BY <1>20 DEF Dequeue, Fine, Fault, Kept, WaitFails, Goto, BehindError, DriverSame,
     BehindDequeue, PlaceInCopy
<1>21. CASE CopyFirst
  BY <1>21 DEF CopyFirst, Goto, Fine, DriverSame
<1>22. CASE CopySecond
  BY <1>22 DEF CopySecond, Goto, Fine, DriverSame, BehindCopy
<1>23. CASE Requeue
  BY <1>23 DEF Requeue, Fine, Fault, Give
<1>24. CASE Read
  BY <1>24 DEF Read, Goto, Fine, Fault, WaitFails, BehindError, DriverSame
<1>25. ASSUME NEW i \in Bufs, FillFirst(i)
      PROVE  Memory'
  BY <1>25 DEF FillFirst, DriverOnly
<1>26. ASSUME NEW i \in Bufs, FillSecond(i)
      PROVE  Memory'
  BY <1>26 DEF FillSecond, DriverOnly
<1>27. CASE UNCHANGED vars
  BY <1>27
<1> QED
  BY <1>1, <1>2, <1>3, <1>4, <1>5, <1>6, <1>7, <1>8, <1>9, <1>10, <1>11, <1>12, <1>13, <1>14,
     <1>15, <1>16, <1>17, <1>18, <1>19, <1>20, <1>21, <1>22, <1>23, <1>24, <1>25, <1>26, <1>27
     DEF Next, Open, Capture, Fill

\* Whatever fails, what is mapped goes with where the thread is, and a device
\* opened again has no buffers.
LEMMA MappingsStep ==
    ASSUME TypeOK, Mappings, Accounted, [Next]_vars
    PROVE  Mappings'
<1> USE DEF Mappings, Running
<1>0. count \in Nat /\ k \in Nat /\ method \in {"mmap", "read"}
  BY DEF TypeOK
<1>1. CASE OpenCam
  BY <1>1, <1>0 DEF OpenCam, Goto, Fine, DriverSame, Bufs
<1>2. CASE OpenPriv
  BY <1>2, <1>0 DEF OpenPriv, Goto, Fine, Fault, DriverSame, Bufs
<1>3. CASE OpenDevice
  BY <1>3, <1>0 DEF OpenDevice, Goto, Fine, Fault, DriverSame, Bufs
<1>4. CASE QueryCap
  BY <1>4, <1>0 DEF QueryCap, Fine, Fault, InitFails, BufsBehind, FdBehindFailure,
     LastAttempt, Bufs
<1>5. CASE SetFormat
  BY <1>5, <1>0 DEF SetFormat, Fine, Fault, InitFails, BufsBehind, FdBehindFailure,
     LastAttempt, Bufs
<1>6. CASE AllocImage
  BY <1>6, <1>0 DEF AllocImage, Fine, Fault, InitFails, BufsBehind, FdBehindFailure,
     LastAttempt, Bufs
<1>7. CASE RequestBuffers
  <2>1. CASE pc' = "map"
    <3>1. method = "mmap" /\ method' = method /\ k' = 0 /\ mapped' = {}
      BY <1>7, <2>1 DEF RequestBuffers, FallsBack
    <3> QED
      BY <2>1, <3>1 DEF Bufs
  <2>2. CASE pc' = "readbuf"
    <3>1. method' = "read" /\ mapped' = {}
      BY <1>7, <2>2 DEF RequestBuffers, FallsBack
    <3> QED
      BY <2>2, <3>1
  <2> QED
    BY <1>7, <2>1, <2>2 DEF RequestBuffers, FallsBack
<1>8. CASE MapBuffer
  <2>1. mapped = 0..(k - 1) /\ mapped \subseteq Bufs /\ k \in Bufs /\ Bufs' = Bufs
    BY <1>8 DEF MapBuffer, DriverSame, Bufs
  <2>2. CASE FallsBack(held \ {"buffers"})
    BY <2>1, <2>2 DEF FallsBack
  <2>3. CASE mapped' = mapped \cup {k} /\ k' = k + 1 /\ UNCHANGED <<pc, method>>
    <3>1. mapped' = 0..(k' - 1)
      BY <1>0, <2>1, <2>3
    <3>2. mapped' \subseteq Bufs
      BY <2>1, <2>3
    <3> QED
      BY <1>8, <2>1, <2>3, <3>1, <3>2 DEF MapBuffer
  <2> QED
    BY <1>8, <2>2, <2>3 DEF MapBuffer
<1>9. CASE Mapped
  <2>1. PICK n \in Granted \cup {0} : Bufs = 0..(n - 1)
    BY DEF TypeOK, Bufs, Granting
  <2>2. mapped = 0..(k - 1) /\ mapped \subseteq Bufs /\ k \notin Bufs /\ method = "mmap"
    BY <1>9 DEF Mapped, Goto
  <2>3. n \in Nat /\ k = n
    BY <1>0, <2>1, <2>2, WebcamAssumption DEF WebcamAssumption
  <2>4. Cardinality(Bufs) = n
    <3>1. Cardinality(0..(n - 1)) = n - 1 - 0 + 1
      BY <2>3, FS_Interval
    <3> QED
      BY <2>1, <2>3, <3>1
  <2>5. Bufs' = Bufs /\ mapped' = mapped /\ count' = n /\ pc' = "idle" /\ method' = method
    BY <1>9, <2>4 DEF Mapped, Goto, DriverSame, Bufs
  <2> QED
    BY <2>1, <2>2, <2>3, <2>5
<1>10. CASE ReadBuffer
  BY <1>10, <1>0 DEF ReadBuffer, Fine, Fault, InitFails, BufsBehind, FdBehindFailure,
     LastAttempt, Bufs
<1>11. CASE Close
  BY <1>11, <1>0 DEF Close, Goto, Fine, FreedByClose, Bufs
<1>12. CASE Start
  BY <1>12, <1>0 DEF Start, Fine, DriverSame, Bufs
<1>13. CASE QueueBuffer
  <2>1. Bufs' = Bufs
    BY <1>13, MovedSlot DEF QueueBuffer, Give, StartFails, DriverSame, Bufs, At
  <2> QED
    BY <1>13, <2>1 DEF QueueBuffer, Kept, StartFails
<1>14. CASE StreamOn
  BY <1>14, <1>0 DEF StreamOn, Fine, Fault, Kept, StartFails, DriverSame, Bufs
<1>15. CASE Stop
  <2>1. Bufs' = Bufs
    BY <1>15, ReclaimedSlots DEF Stop, Bufs
  <2> QED
    BY <1>15, <2>1 DEF Stop, Kept
<1>16. CASE StopFails
  BY <1>16, <1>0 DEF StopFails, Fault, Bufs
<1>17. CASE WaitFrame
  BY <1>17, <1>0 DEF WaitFrame, Goto, Fine, DriverSame, Bufs
<1>18. CASE SelectReturns
  BY <1>18, <1>0 DEF SelectReturns, Goto, Fine, DriverSame, Bufs
<1>19. CASE SelectReady
  BY <1>19, <1>0 DEF SelectReady, Goto, Fine, DriverSame, Bufs
<1>20. CASE Dequeue
  <2>1. Bufs' = Bufs
    BY <1>20, MovedSlot DEF Dequeue, PlaceInCopy, WaitFails, DriverSame, Bufs, At
  <2> QED
    BY <1>20, <2>1 DEF Dequeue, Kept, WaitFails, Goto, BehindError, BehindDequeue
<1>21. CASE CopyFirst
  BY <1>21, <1>0 DEF CopyFirst, Goto, Fine, DriverSame, Bufs
<1>22. CASE CopySecond
  BY <1>22, <1>0 DEF CopySecond, Goto, Fine, DriverSame, BehindCopy, Bufs
<1>23. CASE Requeue
  <2>1. cur \in Bufs
    BY <1>23 DEF Requeue, Accounted, AtImage, At
  <2>2. Bufs' = Bufs
    BY <1>23, <2>1, MovedSlot DEF Requeue, Give, Bufs
  <2> QED
    BY <1>23, <2>2 DEF Requeue
<1>24. CASE Read
  BY <1>24, <1>0 DEF Read, Goto, Fine, Fault, WaitFails, BehindError, DriverSame, Bufs
<1>25. ASSUME NEW i \in Bufs, FillFirst(i)
      PROVE  Mappings'
  <2>1. Bufs' = Bufs
    BY <1>25, FillFirstMakes DEF FillFirst, Bufs
  <2> QED
    BY <1>25, <2>1 DEF FillFirst, DriverOnly, Accounted
<1>26. ASSUME NEW i \in Bufs, FillSecond(i)
      PROVE  Mappings'
  <2>1. Bufs' = Bufs
    BY <1>26, FillSecondMakes DEF FillSecond, Bufs
  <2> QED
    BY <1>26, <2>1 DEF FillSecond, DriverOnly, Accounted
<1>27. CASE UNCHANGED vars
  BY <1>27, <1>0 DEF Bufs
<1> QED
  BY <1>1, <1>2, <1>3, <1>4, <1>5, <1>6, <1>7, <1>8, <1>9, <1>10, <1>11, <1>12, <1>13, <1>14,
     <1>15, <1>16, <1>17, <1>18, <1>19, <1>20, <1>21, <1>22, <1>23, <1>24, <1>25, <1>26, <1>27
     DEF Next, Open, Capture, Fill

\* Every buffer that is not with the driver is one being queued, the one in use,
\* or one that could not be given back.
LEMMA AccountedStep ==
    ASSUME TypeOK, Mappings, Accounted, [Next]_vars
    PROVE  Accounted'
<1> USE DEF Accounted, Running, AtImage, At
<1>0. count \in Nat /\ k \in Nat /\ method \in {"mmap", "read"} /\ streaming \in BOOLEAN /\ dirty \in BOOLEAN
  BY DEF TypeOK, ResourcesOK
<1>1. CASE OpenCam
  BY <1>1, <1>0 DEF OpenCam, Goto, Fine, DriverSame, Bufs, Mappings
<1>2. CASE OpenPriv
  BY <1>2, <1>0 DEF OpenPriv, Goto, Fine, Fault, DriverSame, Bufs, Mappings
<1>3. CASE OpenDevice
  BY <1>3, <1>0 DEF OpenDevice, Goto, Fine, Fault, DriverSame, Bufs, Mappings
<1>4. CASE QueryCap
  <2>1. ~streaming
    BY <1>4 DEF QueryCap
  <2>2. ASSUME NEW kept, InitFails(kept), UNCHANGED <<dirty, lost>>
        PROVE  Accounted'
    <3>1. bufs' = NoBufs /\ pc' \in {"closed", "device"} /\ streaming' = streaming
      BY <2>2 DEF InitFails, BufsBehind, FdBehindFailure, LastAttempt
    <3>2. Bufs' = {} /\ At("app")' = {}
      BY <3>1, NoBufsGranted DEF Bufs
    <3> QED
      BY <2>1, <3>1, <3>2
  <2>3. CASE pc' = "format" /\ UNCHANGED <<libVars, drvVars>>
    BY <1>4, <1>0, <2>1, <2>3 DEF QueryCap, Bufs, Mappings
  <2> QED
    BY <1>4, <2>2, <2>3 DEF QueryCap
<1>5. CASE SetFormat
  <2>1. ~streaming
    BY <1>5 DEF SetFormat
  <2>2. ASSUME NEW kept, InitFails(kept), UNCHANGED <<dirty, lost>>
        PROVE  Accounted'
    <3>1. bufs' = NoBufs /\ pc' \in {"closed", "device"} /\ streaming' = streaming
      BY <2>2 DEF InitFails, BufsBehind, FdBehindFailure, LastAttempt
    <3>2. Bufs' = {} /\ At("app")' = {}
      BY <3>1, NoBufsGranted DEF Bufs
    <3> QED
      BY <2>1, <3>1, <3>2
  <2>3. CASE pc' = "image" /\ UNCHANGED <<method, drvVars>>
    BY <1>5, <1>0, <2>1, <2>3 DEF SetFormat, Bufs, Mappings
  <2> QED
    BY <1>5, <2>2, <2>3 DEF SetFormat
<1>6. CASE AllocImage
  <2>1. ~streaming
    BY <1>6 DEF AllocImage
  <2>2. ASSUME NEW kept, InitFails(kept), UNCHANGED <<dirty, lost>>
        PROVE  Accounted'
    <3>1. bufs' = NoBufs /\ pc' \in {"closed", "device"} /\ streaming' = streaming
      BY <2>2 DEF InitFails, BufsBehind, FdBehindFailure, LastAttempt
    <3>2. Bufs' = {} /\ At("app")' = {}
      BY <3>1, NoBufsGranted DEF Bufs
    <3> QED
      BY <2>1, <3>1, <3>2
  <2>3. CASE pc' \in {"reqbufs", "readbuf"} /\ UNCHANGED <<method, drvVars>>
    BY <1>6, <1>0, <2>1, <2>3 DEF AllocImage, Bufs, Mappings
  <2> QED
    BY <1>6, <2>2, <2>3 DEF AllocImage
<1>7. CASE RequestBuffers
  <2>1. ~streaming /\ UNCHANGED streaming /\ At("app") = Bufs /\ pc' \in {"map", "readbuf"}
    BY <1>7 DEF RequestBuffers, FallsBack
  <2>2. CASE UNCHANGED bufs
    BY <2>1, <2>2 DEF Bufs
  <2>3. ASSUME NEW n \in Granted, bufs' = [j \in 0..(n - 1) |-> [at |-> "app", pic |-> Blank]]
        PROVE  Accounted'
    <3>1. Bufs' = 0..(n - 1) /\ \A j \in Bufs' : bufs'[j].at = "app"
      BY <2>3 DEF Bufs
    <3>2. At("app")' = Bufs'
      BY <3>1
    <3> QED
      BY <2>1, <3>2
  <2> QED
    BY <1>7, <2>2, <2>3 DEF RequestBuffers, FallsBack
<1>8. CASE MapBuffer
  BY <1>8, <1>0 DEF MapBuffer, Fine, Fault, FallsBack, DriverSame, Bufs, Mappings
<1>9. CASE Mapped
  BY <1>9, <1>0 DEF Mapped, Goto, Fine, DriverSame, Bufs, Mappings
<1>10. CASE ReadBuffer
  <2>1. ~streaming
    BY <1>10 DEF ReadBuffer
  <2>2. ASSUME NEW kept, InitFails(kept), UNCHANGED <<dirty, lost>>
        PROVE  Accounted'
    <3>1. bufs' = NoBufs /\ pc' \in {"closed", "device"} /\ streaming' = streaming
      BY <2>2 DEF InitFails, BufsBehind, FdBehindFailure, LastAttempt
    <3>2. Bufs' = {} /\ At("app")' = {}
      BY <3>1, NoBufsGranted DEF Bufs
    <3> QED
      BY <2>1, <3>1, <3>2
  <2>3. CASE pc' = "idle" /\ UNCHANGED <<method, drvVars>>
    BY <1>10, <1>0, <2>1, <2>3 DEF ReadBuffer, Bufs, Mappings
  <2> QED
    BY <1>10, <2>2, <2>3 DEF ReadBuffer
<1>11. CASE Close
  <2>1. Bufs' = {} /\ At("app")' = {}
    BY <1>11, NoBufsGranted DEF Close, Bufs
  <2> QED
    BY <1>11, <2>1 DEF Close, Goto
<1>12. CASE Start
  BY <1>12, <1>0 DEF Start, Fine, DriverSame, Bufs, Mappings
<1>13. CASE QueueBuffer
  <2>1. CASE StartFails
    BY <1>13, <2>1 DEF QueueBuffer, StartFails, DriverSame, Kept, Mappings, Bufs
  <2>2. CASE k \in At("app") /\ Give(k) /\ k' = NextQueued /\ lost' = lost \ {k} /\ UNCHANGED <<pc, dirty>>
    <3>1. Bufs' = Bufs /\ \A j \in Bufs : bufs'[j].at = IF j = k THEN "queued" ELSE bufs[j].at
      BY <2>2, MovedSlot DEF Give, Bufs
    <3>2. At("app")' = At("app") \ {k}
      BY <2>2, <3>1
    <3>3. pc' = "queue" /\ method' = "mmap" /\ streaming' = streaming /\ k' = k + 1 /\ count' = count
      BY <1>13, <2>2 DEF QueueBuffer, Kept, Give, NextQueued, Mappings
    <3>4. ((k..(count - 1)) \ {k}) = (k + 1)..(count - 1)
      BY <1>0
    <3>5. At("app") \subseteq k..(count - 1) /\ (streaming => At("app") \subseteq lost)
          /\ (~streaming /\ ~dirty => At("app") = k..(count - 1))
      BY <1>13 DEF QueueBuffer
    <3> QED
      BY <2>2, <3>2, <3>3, <3>4, <3>5
  <2> QED
    BY <1>13, <2>1, <2>2 DEF QueueBuffer
<1>14. CASE StreamOn
  BY <1>14, <1>0 DEF StreamOn, Fine, Fault, Kept, StartFails, DriverSame, Bufs, Mappings
<1>15. CASE Stop
  <2>1. Bufs' = Bufs /\ \A j \in Bufs : bufs'[j].at = "app"
    BY <1>15, ReclaimedSlots DEF Stop, Bufs
  <2>2. At("app")' = Bufs'
    BY <2>1
  <2> QED
    BY <1>15, <2>2 DEF Stop, Kept
<1>16. CASE StopFails
  BY <1>16, <1>0 DEF StopFails, Fault, Bufs, Mappings
<1>17. CASE WaitFrame
  BY <1>17, <1>0 DEF WaitFrame, Goto, Fine, DriverSame, Bufs, Mappings
<1>18. CASE SelectReturns
  BY <1>18, <1>0 DEF SelectReturns, Goto, Fine, DriverSame, Bufs, Mappings
<1>19. CASE SelectReady
  BY <1>19, <1>0 DEF SelectReady, Goto, Fine, DriverSame, Bufs, Mappings
<1>20. CASE Dequeue
  <2>1. CASE WaitFails("dequeue")
    BY <2>1 DEF WaitFails, Goto, BehindError, DriverSame, Bufs
  <2>2. ASSUME NEW i \in At("done"), pc = "dequeue", streaming, bufs' = [bufs EXCEPT ![i].at = PlaceInCopy],
               cur' = i, pc' = BehindDequeue, UNCHANGED <<streaming, history>>, Kept
        PROVE  Accounted'
    <3>1. Bufs' = Bufs /\ \A j \in Bufs : bufs'[j].at = IF j = i THEN "app" ELSE bufs[j].at
      BY <2>2, MovedSlot DEF PlaceInCopy, Bufs
    <3>2. At("app")' = At("app") \cup {i}
      BY <2>2, <3>1
    <3>3. pc' \in {"copy", "refuse"} /\ method' = "mmap" /\ streaming'
      BY <2>2 DEF BehindDequeue, Kept, Mappings
    <3> QED
      BY <2>2, <3>2, <3>3
  <2> QED
    BY <1>20, <2>1, <2>2 DEF Dequeue
<1>21. CASE CopyFirst
  BY <1>21, <1>0 DEF CopyFirst, Goto, Fine, DriverSame, Bufs, Mappings
<1>22. CASE CopySecond
  BY <1>22, <1>0 DEF CopySecond, Goto, Fine, DriverSame, BehindCopy, Bufs, Mappings
<1>23. CASE Requeue
  <2>1. method = "mmap" /\ streaming /\ cur \in At("app") /\ At("app") \subseteq lost \cup {cur}
    BY <1>23 DEF Requeue, Mappings
  <2>2. CASE Give(cur) /\ UNCHANGED lost
    <3>1. Bufs' = Bufs /\ \A j \in Bufs : bufs'[j].at = IF j = cur THEN "queued" ELSE bufs[j].at
      BY <2>1, <2>2, MovedSlot DEF Give, Bufs
    <3>2. At("app")' = At("app") \ {cur}
      BY <2>1, <3>1
    <3> QED
      BY <1>23, <2>1, <2>2, <3>2 DEF Requeue, Give
  <2>3. CASE lost' = lost \cup {cur} /\ UNCHANGED drvVars
    BY <1>23, <2>1, <2>3 DEF Requeue, Bufs
  <2> QED
    BY <1>23, <2>2, <2>3 DEF Requeue
<1>24. CASE Read
  <2>1. method = "read" /\ UNCHANGED <<method, bufs, streaming>> /\ pc' \in {"copy", "idle"} /\ ~streaming
    BY <1>24 DEF Read, Goto, WaitFails, BehindError, DriverSame, Mappings
  <2> QED
    BY <2>1 DEF Bufs
<1>25. ASSUME NEW i \in Bufs, FillFirst(i)
      PROVE  Accounted'
  <2>1. Bufs' = Bufs /\ i \notin At("app") /\ bufs'[i].at = "filling" /\ \A j \in Bufs \ {i} : bufs'[j] = bufs[j]
    BY <1>25, FillFirstMakes DEF FillFirst, Bufs
  <2>2. At("app")' = At("app")
    BY <2>1
  <2> QED
    BY <1>25, <2>1, <2>2 DEF FillFirst, DriverOnly
<1>26. ASSUME NEW i \in Bufs, FillSecond(i)
      PROVE  Accounted'
  <2>1. Bufs' = Bufs /\ i \notin At("app") /\ bufs'[i].at = "done" /\ \A j \in Bufs \ {i} : bufs'[j] = bufs[j]
    BY <1>26, FillSecondMakes DEF FillSecond, Bufs
  <2>2. At("app")' = At("app")
    BY <2>1
  <2> QED
    BY <1>26, <2>1, <2>2 DEF FillSecond, DriverOnly
<1>27. CASE UNCHANGED vars
  BY <1>27, <1>0 DEF Bufs
<1> QED
  BY <1>1, <1>2, <1>3, <1>4, <1>5, <1>6, <1>7, <1>8, <1>9, <1>10, <1>11, <1>12, <1>13, <1>14,
     <1>15, <1>16, <1>17, <1>18, <1>19, <1>20, <1>21, <1>22, <1>23, <1>24, <1>25, <1>26, <1>27
     DEF Next, Open, Capture, Fill

\* The sizes are set once, behind a format that was accepted.
LEMMA MeasuredStep ==
    ASSUME TypeOK, Mappings, Accounted, Measured, [Next]_vars
    PROVE  Measured'
<1> USE DEF Measured, Running, Line, ImageLen
<1>1. CASE OpenCam
  BY <1>1 DEF OpenCam, Goto, Fine, DriverSame
<1>2. CASE OpenPriv
  BY <1>2 DEF OpenPriv, Goto, Fine, Fault, DriverSame
<1>3. CASE OpenDevice
  BY <1>3 DEF OpenDevice, Goto, Fine, Fault, DriverSame
<1>4. CASE QueryCap
  BY <1>4 DEF QueryCap, Fine, Fault, InitFails, BufsBehind, FdBehindFailure, LastAttempt
<1>5. CASE SetFormat
  <2>1. CASE pc' = "image" /\ geometry' = [line |-> Line, len |-> ImageLen]
    BY <1>5, <2>1 DEF SetFormat, Larger
  <2>2. CASE InitFails(held)
    BY <1>5, <2>2 DEF SetFormat, InitFails, LastAttempt
  <2> QED
    BY <1>5, <2>1, <2>2 DEF SetFormat
<1>6. CASE AllocImage
  BY <1>6 DEF AllocImage, Fine, Fault, InitFails, BufsBehind, FdBehindFailure, LastAttempt
<1>7. CASE RequestBuffers
  BY <1>7 DEF RequestBuffers, Fine, Fault, FallsBack
<1>8. CASE MapBuffer
  BY <1>8 DEF MapBuffer, Fine, Fault, FallsBack, DriverSame
<1>9. CASE Mapped
  BY <1>9 DEF Mapped, Goto, Fine, DriverSame
<1>10. CASE ReadBuffer
  BY <1>10 DEF ReadBuffer, Fine, Fault, InitFails, BufsBehind, FdBehindFailure, LastAttempt
<1>11. CASE Close
  BY <1>11 DEF Close, Goto, Fine, FreedByClose
<1>12. CASE Start
  BY <1>12 DEF Start, Fine, DriverSame
<1>13. CASE QueueBuffer
  BY <1>13 DEF QueueBuffer, Fine, Fault, Give, Kept, StartFails, NextQueued, DriverSame
<1>14. CASE StreamOn
  BY <1>14 DEF StreamOn, Fine, Fault, Kept, StartFails, DriverSame
<1>15. CASE Stop
  BY <1>15 DEF Stop, Fine, Kept
<1>16. CASE StopFails
  BY <1>16 DEF StopFails, Fault
<1>17. CASE WaitFrame
  BY <1>17 DEF WaitFrame, Goto, Fine, DriverSame
<1>18. CASE SelectReturns
  BY <1>18 DEF SelectReturns, Goto, Fine, DriverSame
<1>19. CASE SelectReady
  BY <1>19 DEF SelectReady, Goto, Fine, DriverSame
<1>20. CASE Dequeue
  <2>1. UNCHANGED <<geometry, driver>> /\ pc \in Running /\ pc' \in Running
    BY <1>20 DEF Dequeue, Kept, WaitFails, Goto, BehindError, DriverSame, BehindDequeue
  <2> QED
    BY <2>1
<1>21. CASE CopyFirst
  BY <1>21 DEF CopyFirst, Goto, Fine, DriverSame
<1>22. CASE CopySecond
  BY <1>22 DEF CopySecond, Goto, Fine, DriverSame, BehindCopy
<1>23. CASE Requeue
  BY <1>23 DEF Requeue, Fine, Fault, Give
<1>24. CASE Read
  BY <1>24 DEF Read, Goto, Fine, Fault, WaitFails, BehindError, DriverSame
<1>25. ASSUME NEW i \in Bufs, FillFirst(i)
      PROVE  Measured'
  BY <1>25 DEF FillFirst, DriverOnly
<1>26. ASSUME NEW i \in Bufs, FillSecond(i)
      PROVE  Measured'
  BY <1>26 DEF FillSecond, DriverOnly
<1>27. CASE UNCHANGED vars
  BY <1>27
<1> QED
  BY <1>1, <1>2, <1>3, <1>4, <1>5, <1>6, <1>7, <1>8, <1>9, <1>10, <1>11, <1>12, <1>13, <1>14,
     <1>15, <1>16, <1>17, <1>18, <1>19, <1>20, <1>21, <1>22, <1>23, <1>24, <1>25, <1>26, <1>27
     DEF Next, Open, Capture, Fill

\* Only a new camera forgets that a frame came up short.
LEMMA ShortSticks ==
    ASSUME ResourcesOK, [Next]_vars, short, ~short'
    PROVE  pc = "closed"
<1> USE DEF history
<1>1. CASE OpenCam
  BY <1>1 DEF OpenCam, Goto
<1>2. CASE OpenPriv \/ OpenDevice \/ QueryCap \/ SetFormat \/ AllocImage \/ RequestBuffers \/ MapBuffer
           \/ Mapped \/ ReadBuffer \/ Close
  BY <1>2 DEF OpenPriv, OpenDevice, QueryCap, SetFormat, AllocImage, RequestBuffers, MapBuffer,
     Mapped, ReadBuffer, Close
<1>3. CASE Start \/ QueueBuffer \/ StreamOn \/ Stop \/ StopFails
  BY <1>3 DEF Start, QueueBuffer, StreamOn, Stop, StopFails
<1>4. CASE WaitFrame \/ SelectReturns \/ SelectReady \/ Dequeue \/ CopyFirst \/ CopySecond
  BY <1>4 DEF WaitFrame, SelectReturns, SelectReady, Dequeue, WaitFails, CopyFirst, CopySecond
<1>5. CASE Requeue \/ Read
  BY <1>5 DEF Requeue, Read, WaitFails
<1>6. CASE Fill
  BY <1>6 DEF Fill, FillFirst, FillSecond
<1>7. CASE UNCHANGED vars
  BY <1>7 DEF vars
<1> QED
  BY <1>1, <1>2, <1>3, <1>4, <1>5, <1>6, <1>7 DEF Next, Open, Capture

\* The driver finishes the picture of one frame before it begins the next.
LEMMA FilledStep ==
    ASSUME TypeOK, Mappings, Accounted, Filled, [Next]_vars
    PROVE  Filled'
<1>0. ~short' => \A i \in At("done") : Whole(bufs[i].pic)
  <2>1. CASE short /\ ~short'
    <3>1. bufs = NoBufs
      BY <2>1, ShortSticks DEF TypeOK, Mappings
    <3> QED
      BY <3>1, NoBufsGranted DEF At, Bufs
  <2> QED
    BY <2>1 DEF Filled
<1> USE <1>0 DEF Filled, Whole, At
<1>1. CASE OpenCam
  BY <1>1 DEF OpenCam, Goto, Fine, DriverSame, Bufs
<1>2. CASE OpenPriv
  BY <1>2 DEF OpenPriv, Goto, Fine, Fault, DriverSame, Bufs
<1>3. CASE OpenDevice
  BY <1>3 DEF OpenDevice, Goto, Fine, Fault, DriverSame, Bufs
<1>4. CASE QueryCap
  <2>1. ASSUME NEW kept, InitFails(kept)
        PROVE  Filled'
    <3>1. bufs' = NoBufs
      BY <2>1 DEF InitFails, BufsBehind, FdBehindFailure
    <3> QED
      BY <3>1, NoBufsGranted DEF Bufs
  <2>2. CASE UNCHANGED drvVars
    BY <1>4, <2>2 DEF Bufs
  <2> QED
    BY <1>4, <2>1, <2>2 DEF QueryCap
<1>5. CASE SetFormat
  <2>1. ASSUME NEW kept, InitFails(kept)
        PROVE  Filled'
    <3>1. bufs' = NoBufs
      BY <2>1 DEF InitFails, BufsBehind, FdBehindFailure
    <3> QED
      BY <3>1, NoBufsGranted DEF Bufs
  <2>2. CASE UNCHANGED drvVars
    BY <1>5, <2>2 DEF Bufs
  <2> QED
    BY <1>5, <2>1, <2>2 DEF SetFormat
<1>6. CASE AllocImage
  <2>1. ASSUME NEW kept, InitFails(kept)
        PROVE  Filled'
    <3>1. bufs' = NoBufs
      BY <2>1 DEF InitFails, BufsBehind, FdBehindFailure
    <3> QED
      BY <3>1, NoBufsGranted DEF Bufs
  <2>2. CASE UNCHANGED drvVars
    BY <1>6, <2>2 DEF Bufs
  <2> QED
    BY <1>6, <2>1, <2>2 DEF AllocImage
<1>7. CASE RequestBuffers
  <2>1. CASE UNCHANGED bufs
    BY <1>7, <2>1 DEF RequestBuffers, Bufs
  <2>2. ASSUME NEW n \in Granted, bufs' = [j \in 0..(n - 1) |-> [at |-> "app", pic |-> Blank]]
        PROVE  Filled'
    <3>1. Bufs' = 0..(n - 1) /\ \A j \in Bufs' : bufs'[j].at = "app"
      BY <2>2 DEF Bufs
    <3> QED
      BY <3>1
  <2> QED
    BY <1>7, <2>1, <2>2 DEF RequestBuffers
<1>8. CASE MapBuffer
  BY <1>8 DEF MapBuffer, DriverSame, Bufs
<1>9. CASE Mapped
  BY <1>9 DEF Mapped, Goto, Fine, DriverSame, Bufs
<1>10. CASE ReadBuffer
  <2>1. ASSUME NEW kept, InitFails(kept)
        PROVE  Filled'
    <3>1. bufs' = NoBufs
      BY <2>1 DEF InitFails, BufsBehind, FdBehindFailure
    <3> QED
      BY <3>1, NoBufsGranted DEF Bufs
  <2>2. CASE UNCHANGED drvVars
    BY <1>10, <2>2 DEF Bufs
  <2> QED
    BY <1>10, <2>1, <2>2 DEF ReadBuffer
<1>11. CASE Close
  <2>1. Bufs' = {}
    BY <1>11, NoBufsGranted DEF Close, Bufs
  <2> QED
    BY <2>1
<1>12. CASE Start
  BY <1>12 DEF Start, Fine, DriverSame, Bufs
<1>13. CASE QueueBuffer
  <2>1. CASE UNCHANGED drvVars
    BY <2>1 DEF Bufs
  <2>2. CASE k \in Bufs /\ Give(k)
    <3>1. Bufs' = Bufs /\ \A j \in Bufs : /\ bufs'[j].at = (IF j = k THEN "queued" ELSE bufs[j].at)
                                        /\ bufs'[j].pic = bufs[j].pic
      BY <2>2, MovedSlot DEF Give, Bufs
    <3> QED
      BY <2>2, <3>1 DEF Give
  <2> QED
    BY <1>13, <2>1, <2>2 DEF QueueBuffer, StartFails, DriverSame
<1>14. CASE StreamOn
  BY <1>14 DEF StreamOn, Fine, Fault, Kept, StartFails, DriverSame, Bufs
<1>15. CASE Stop
  <2>1. Bufs' = Bufs /\ \A j \in Bufs : bufs'[j].at = "app"
    BY <1>15, ReclaimedSlots DEF Stop, Bufs
  <2> QED
    BY <2>1
<1>16. CASE StopFails
  BY <1>16 DEF StopFails, Fault, Bufs
<1>17. CASE WaitFrame
  BY <1>17 DEF WaitFrame, Goto, Fine, DriverSame, Bufs
<1>18. CASE SelectReturns
  BY <1>18 DEF SelectReturns, Goto, Fine, DriverSame, Bufs
<1>19. CASE SelectReady
  BY <1>19 DEF SelectReady, Goto, Fine, DriverSame, Bufs
<1>20. CASE Dequeue
  <2>1. CASE UNCHANGED drvVars
    BY <2>1 DEF Bufs
  <2>2. ASSUME NEW i \in At("done"), bufs' = [bufs EXCEPT ![i].at = PlaceInCopy], UNCHANGED frame
        PROVE  Filled'
    <3>1. Bufs' = Bufs /\ \A j \in Bufs : /\ bufs'[j].at = (IF j = i THEN "app" ELSE bufs[j].at)
                                        /\ bufs'[j].pic = bufs[j].pic
      BY <2>2, MovedSlot DEF PlaceInCopy, Bufs
    <3> QED
      BY <2>2, <3>1
  <2> QED
    BY <1>20, <2>1, <2>2 DEF Dequeue, WaitFails, DriverSame
<1>21. CASE CopyFirst
  BY <1>21 DEF CopyFirst, Goto, Fine, DriverSame, Bufs
<1>22. CASE CopySecond
  BY <1>22 DEF CopySecond, Goto, Fine, DriverSame, BehindCopy, Bufs
<1>23. CASE Requeue
  <2>1. CASE UNCHANGED drvVars
    BY <2>1 DEF Bufs
  <2>2. CASE Give(cur)
    <3>1. cur \in Bufs
      BY <1>23 DEF Requeue, Accounted, Mappings, AtImage, At
    <3>2. Bufs' = Bufs /\ \A j \in Bufs : /\ bufs'[j].at = (IF j = cur THEN "queued" ELSE bufs[j].at)
                                        /\ bufs'[j].pic = bufs[j].pic
      BY <2>2, <3>1, MovedSlot DEF Give, Bufs
    <3> QED
      BY <2>2, <3>2 DEF Give
  <2> QED
    BY <1>23, <2>1, <2>2 DEF Requeue
<1>24. CASE Read
  <2>1. bufs' = bufs /\ (Bufs = {} \/ UNCHANGED frame)
    BY <1>24 DEF Read, WaitFails, DriverSame
  <2> QED
    BY <2>1 DEF Bufs
<1>25. ASSUME NEW i \in Bufs, FillFirst(i)
      PROVE  Filled'
  <2>1. Bufs' = Bufs /\ frame' = frame + 1 /\ At("filling") = {} /\ frame + 1 \in Nat
    BY <1>25, FillFirstMakes DEF FillFirst, Bufs
  <2>2. /\ bufs'[i].at = "filling" /\ bufs'[i].pic[1] = frame'
        /\ \A j \in Bufs \ {i} : bufs'[j] = bufs[j]
    BY <1>25, FillFirstMakes
  <2> QED
    BY <2>1, <2>2
<1>26. ASSUME NEW i \in Bufs, FillSecond(i)
      PROVE  Filled'
  <2>1. Bufs' = Bufs /\ frame' = frame
    BY <1>26, FillSecondMakes DEF Bufs
  <2>2. /\ bufs'[i].at = "done"
        /\ ~short' => bufs'[i].pic[2] = frame /\ bufs'[i].pic[1] = frame
        /\ \A j \in Bufs \ {i} : bufs'[j] = bufs[j]
    BY <1>26, FillSecondMakes
  <2> QED
    BY <2>1, <2>2
<1>27. CASE UNCHANGED vars
  BY <1>27 DEF Bufs
<1> QED
  BY <1>1, <1>2, <1>3, <1>4, <1>5, <1>6, <1>7, <1>8, <1>9, <1>10, <1>11, <1>12, <1>13, <1>14,
     <1>15, <1>16, <1>17, <1>18, <1>19, <1>20, <1>21, <1>22, <1>23, <1>24, <1>25, <1>26, <1>27
     DEF Next, Open, Capture, Fill

\* The copy is of one picture, which the driver does not touch meanwhile.
LEMMA CopiedStep ==
    ASSUME TypeOK, Mappings, Accounted, Filled, Copied, [Next]_vars
    PROVE  Copied'
<1> USE DEF Copied, Running, Whole
<1>0. method \in {"mmap", "read"}
  BY DEF TypeOK
<1>1. CASE OpenCam
  BY <1>1, <1>0 DEF OpenCam, Goto, Fine, DriverSame, Mappings, Source
<1>2. CASE OpenPriv
  BY <1>2, <1>0 DEF OpenPriv, Goto, Fine, Fault, DriverSame, Mappings, Source
<1>3. CASE OpenDevice
  BY <1>3, <1>0 DEF OpenDevice, Goto, Fine, Fault, DriverSame, Mappings, Source
<1>4. CASE QueryCap
  BY <1>4, <1>0 DEF QueryCap, Fine, Fault, InitFails, BufsBehind, FdBehindFailure,
     LastAttempt, Mappings, Source
<1>5. CASE SetFormat
  BY <1>5, <1>0 DEF SetFormat, Fine, Fault, InitFails, BufsBehind, FdBehindFailure,
     LastAttempt, Mappings, Source
<1>6. CASE AllocImage
  <2>1. CASE pc' \in {"reqbufs", "readbuf"} /\ image' = Blank
    BY <2>1 DEF Blank
  <2>2. CASE pc' \in {"closed", "device"}
    BY <2>2
  <2> QED
    BY <1>6, <2>1, <2>2 DEF AllocImage, InitFails, LastAttempt
<1>7. CASE RequestBuffers
  <2>1. /\ pc = "reqbufs" /\ pc' \in {"map", "readbuf"}
        /\ UNCHANGED <<image, short>>
    BY <1>7 DEF RequestBuffers, FallsBack
  <2> QED
    BY <2>1
<1>8. CASE MapBuffer
  BY <1>8, <1>0 DEF MapBuffer, Fine, Fault, FallsBack, DriverSame, Mappings, Source
<1>9. CASE Mapped
  BY <1>9, <1>0 DEF Mapped, Goto, Fine, DriverSame, Mappings, Source
<1>10. CASE ReadBuffer
  <2>1. CASE pc' = "idle" /\ readbuf' = Blank /\ UNCHANGED <<image, short>>
    BY <1>10, <2>1 DEF ReadBuffer, Blank
  <2>2. CASE pc' \in {"closed", "device"}
    BY <2>2
  <2> QED
    BY <1>10, <2>1, <2>2 DEF ReadBuffer, InitFails, LastAttempt
<1>11. CASE Close
  BY <1>11 DEF Close, Goto
<1>12. CASE Start
  BY <1>12, <1>0 DEF Start, Fine, DriverSame, Mappings, Source
<1>13. CASE QueueBuffer
  BY <1>13 DEF QueueBuffer, StartFails, Kept
<1>14. CASE StreamOn
  BY <1>14 DEF StreamOn, StartFails, Kept
<1>15. CASE Stop
  BY <1>15 DEF Stop, Kept
<1>16. CASE StopFails
  BY <1>16, <1>0 DEF StopFails, Fault, Mappings, Source
<1>17. CASE WaitFrame
  BY <1>17, <1>0 DEF WaitFrame, Goto, Fine, DriverSame, Mappings, Source
<1>18. CASE SelectReturns
  BY <1>18, <1>0 DEF SelectReturns, Goto, Fine, DriverSame, Mappings, Source
<1>19. CASE SelectReady
  BY <1>19, <1>0 DEF SelectReady, Goto, Fine, DriverSame, Mappings, Source
<1>20. CASE Dequeue
  <2>1. pc = "dequeue" /\ method = "mmap" /\ UNCHANGED <<method, readbuf, image, short>>
    BY <1>20 DEF Dequeue, WaitFails, Goto, Kept, Mappings
  <2>2. CASE WaitFails("dequeue")
    BY <2>1, <2>2 DEF WaitFails, Goto, BehindError
  <2>3. ASSUME NEW i \in At("done"), bufs' = [bufs EXCEPT ![i].at = PlaceInCopy], cur' = i,
               pc' = BehindDequeue
        PROVE  Copied'
    <3>1. i \in Bufs /\ (~short => Whole(bufs[i].pic))
      BY <2>3 DEF Filled, At
    <3>2. bufs'[i].pic = bufs[i].pic
      BY <2>3, <3>1, MovedSlot DEF PlaceInCopy
    <3>3. pc' \in {"copy", "refuse"}
      BY <2>3 DEF BehindDequeue
    <3> QED
      BY <2>1, <2>3, <3>1, <3>2, <3>3
  <2> QED
    BY <1>20, <2>2, <2>3 DEF Dequeue
<1>21. CASE CopyFirst
  <2>1. Source[1] \in Nat
    <3>1. CASE method = "mmap"
      <4>1. cur \in Bufs
        BY <1>21, <3>1 DEF CopyFirst, Goto, Accounted, AtImage, At
      <4>2. bufs[cur].pic \in Picture
        BY <4>1, BufsAreSlots DEF Slot
      <4> QED
        BY <3>1, <4>2 DEF Source, Picture
    <3>2. CASE method = "read"
      BY <3>2 DEF Source, Picture, TypeOK
    <3> QED
      BY <1>0, <3>1, <3>2
  <2>2. image'[1] = Source[1]
    BY <1>21 DEF CopyFirst, TypeOK, Picture
  <2>3. /\ pc = "copy" /\ pc' = "second"
        /\ UNCHANGED <<bufs, cur, method, readbuf, short>>
    BY <1>21 DEF CopyFirst, Goto, DriverSame
  <2> QED
    BY <2>2, <2>3 DEF Source
<1>22. CASE CopySecond
  <2>1. pc = "second" /\ image'[1] = image[1] /\ image'[2] = Source[2] /\ image[1] = Source[1]
    BY <1>22 DEF CopySecond, Goto, TypeOK, Picture
  <2>2. ~short => Source[1] = Source[2]
    BY <1>0, <2>1 DEF Source
  <2>3. /\ pc' \in {"requeue", "idle"}
        /\ UNCHANGED <<method, readbuf, short>>
    BY <1>22 DEF CopySecond, Goto, BehindCopy
  <2> QED
    BY <2>1, <2>2, <2>3
<1>23. CASE Requeue
  <2>1. /\ pc \in {"requeue", "refuse"} /\ pc' = "idle"
        /\ UNCHANGED <<method, readbuf, image, short>>
    BY <1>23 DEF Requeue
  <2> QED
    BY <2>1
<1>24. CASE Read
  <2>1. pc = "read" /\ method = "read" /\ UNCHANGED <<method, image>> /\ pc' \in {"copy", "idle"}
    BY <1>24 DEF Read, WaitFails, Goto, BehindError, Mappings
  <2>2. CASE UNCHANGED <<readbuf, short>>
    BY <2>1, <2>2
  <2>3. CASE readbuf' = [h \in 1..2 |-> frame + 1] /\ UNCHANGED short
    BY <2>1, <2>3
  <2>4. CASE short'
    BY <2>1, <2>4
  <2> QED
    BY <1>24, <2>2, <2>3, <2>4 DEF Read, WaitFails
<1>25. ASSUME NEW i \in Bufs, FillFirst(i)
      PROVE  Copied'
  <2>1. /\ \A j \in Bufs \ {i} : bufs'[j] = bufs[j]
        /\ i \notin At("app")
    BY <1>25, FillFirstMakes DEF FillFirst, At
  <2>2. pc \in {"copy", "second"} /\ method = "mmap" => bufs'[cur] = bufs[cur]
    BY <2>1 DEF Accounted, AtImage, At
  <2> QED
    BY <1>25, <2>2 DEF FillFirst, DriverOnly, Source
<1>26. ASSUME NEW i \in Bufs, FillSecond(i)
      PROVE  Copied'
  <2>1. /\ \A j \in Bufs \ {i} : bufs'[j] = bufs[j]
        /\ i \notin At("app")
    BY <1>26, FillSecondMakes DEF FillSecond, At
  <2>2. pc \in {"copy", "second"} /\ method = "mmap" => bufs'[cur] = bufs[cur]
    BY <2>1 DEF Accounted, AtImage, At
  <2> QED
    BY <1>26, <2>2 DEF FillSecond, DriverOnly, Source
<1>27. CASE UNCHANGED vars
  BY <1>27, <1>0 DEF Source
<1> QED
  BY <1>1, <1>2, <1>3, <1>4, <1>5, <1>6, <1>7, <1>8, <1>9, <1>10, <1>11, <1>12, <1>13, <1>14,
     <1>15, <1>16, <1>17, <1>18, <1>19, <1>20, <1>21, <1>22, <1>23, <1>24, <1>25, <1>26, <1>27
     DEF Next, Open, Capture, Fill

\* The driver's buffers stay numbered, each with its picture.
LEMMA GrantedStep ==
    ASSUME TypeOK, Mappings, Accounted, [Next]_vars
    PROVE  Granting(bufs')
<1> USE DEF At
<1>0. Granting(bufs)
  BY BufsAreSlots
<1>1. CASE OpenCam
  BY <1>1, <1>0, NoBufsGranted DEF OpenCam, Goto, Fine, DriverSame
<1>2. CASE OpenPriv
  BY <1>2, <1>0, NoBufsGranted DEF OpenPriv, Goto, Fine, Fault, DriverSame
<1>3. CASE OpenDevice
  BY <1>3, <1>0, NoBufsGranted DEF OpenDevice, Goto, Fine, Fault, DriverSame
<1>4. CASE QueryCap
  BY <1>4, <1>0, NoBufsGranted DEF QueryCap, Fine, Fault, InitFails, BufsBehind,
     FdBehindFailure, LastAttempt
<1>5. CASE SetFormat
  BY <1>5, <1>0, NoBufsGranted DEF SetFormat, Fine, Fault, InitFails, BufsBehind,
     FdBehindFailure, LastAttempt
<1>6. CASE AllocImage
  BY <1>6, <1>0, NoBufsGranted DEF AllocImage, Fine, Fault, InitFails, BufsBehind,
     FdBehindFailure, LastAttempt
<1>7. CASE RequestBuffers
  <2>1. CASE UNCHANGED bufs
    BY <1>0, <2>1
  <2>2. ASSUME NEW n \in Granted, bufs' = [j \in 0..(n - 1) |-> [at |-> "app", pic |-> Blank]]
        PROVE  Granting(bufs')
    <3>1. [at |-> "app", pic |-> Blank] \in Slot
      BY DEF Slot, Blank, Picture
    <3> QED
      BY <2>2, <3>1 DEF Granting
  <2> QED
    BY <1>7, <2>1, <2>2 DEF RequestBuffers
<1>8. CASE MapBuffer
  BY <1>8, <1>0, NoBufsGranted DEF MapBuffer, Fine, Fault, FallsBack, DriverSame
<1>9. CASE Mapped
  BY <1>9, <1>0, NoBufsGranted DEF Mapped, Goto, Fine, DriverSame
<1>10. CASE ReadBuffer
  BY <1>10, <1>0, NoBufsGranted DEF ReadBuffer, Fine, Fault, InitFails, BufsBehind,
     FdBehindFailure, LastAttempt
<1>11. CASE Close
  BY <1>11, NoBufsGranted DEF Close
<1>12. CASE Start
  BY <1>12, <1>0, NoBufsGranted DEF Start, Fine, DriverSame
<1>13. CASE QueueBuffer
  BY <1>13, <1>0, MovedSlot DEF QueueBuffer, Give, StartFails, DriverSame
<1>14. CASE StreamOn
  BY <1>14, <1>0, NoBufsGranted DEF StreamOn, Fine, Fault, Kept, StartFails, DriverSame
<1>15. CASE Stop
  BY <1>15, ReclaimedSlots DEF Stop
<1>16. CASE StopFails
  BY <1>16, <1>0, NoBufsGranted DEF StopFails, Fault
<1>17. CASE WaitFrame
  BY <1>17, <1>0, NoBufsGranted DEF WaitFrame, Goto, Fine, DriverSame
<1>18. CASE SelectReturns
  BY <1>18, <1>0, NoBufsGranted DEF SelectReturns, Goto, Fine, DriverSame
<1>19. CASE SelectReady
  BY <1>19, <1>0, NoBufsGranted DEF SelectReady, Goto, Fine, DriverSame
<1>20. CASE Dequeue
  BY <1>20, <1>0, MovedSlot DEF Dequeue, PlaceInCopy, WaitFails, DriverSame
<1>21. CASE CopyFirst
  BY <1>21, <1>0, NoBufsGranted DEF CopyFirst, Goto, Fine, DriverSame
<1>22. CASE CopySecond
  BY <1>22, <1>0, NoBufsGranted DEF CopySecond, Goto, Fine, DriverSame, BehindCopy
<1>23. CASE Requeue
  <2>1. cur \in Bufs
    BY <1>23 DEF Requeue, Accounted, Mappings, AtImage
  <2> QED
    BY <1>23, <1>0, <2>1, MovedSlot DEF Requeue, Give
<1>24. CASE Read
  BY <1>24, <1>0, NoBufsGranted DEF Read, Goto, Fine, Fault, WaitFails, BehindError, DriverSame
<1>25. ASSUME NEW i \in Bufs, FillFirst(i)
      PROVE  Granting(bufs')
  BY <1>25, FillFirstMakes
<1>26. ASSUME NEW i \in Bufs, FillSecond(i)
      PROVE  Granting(bufs')
  BY <1>26, FillSecondMakes
<1>27. CASE UNCHANGED vars
  BY <1>27, <1>0, NoBufsGranted
<1> QED
  BY <1>1, <1>2, <1>3, <1>4, <1>5, <1>6, <1>7, <1>8, <1>9, <1>10, <1>11, <1>12, <1>13, <1>14,
     <1>15, <1>16, <1>17, <1>18, <1>19, <1>20, <1>21, <1>22, <1>23, <1>24, <1>25, <1>26, <1>27
     DEF Next, Open, Capture, Fill

\* Types of what is held and of what is remembered are kept.
LEMMA ResourcesStep ==
    ASSUME TypeOK, [Next]_vars
    PROVE  ResourcesOK'
<1> USE DEF ResourcesOK
<1>0. ResourcesOK /\ k \in Nat /\ cur \in Nat
  BY DEF TypeOK
<1>1. CASE OpenCam
  BY <1>1, <1>0, Zenon DEF OpenCam, Goto, Fine, DriverSame, Kept, libVars, history
<1>2. CASE OpenPriv
  BY <1>2, <1>0, Zenon DEF OpenPriv, Goto, Fine, Fault, DriverSame, Kept, libVars, history
<1>3. CASE OpenDevice
  BY <1>3, <1>0, Zenon DEF OpenDevice, Goto, Fine, Fault, DriverSame, Kept, libVars, history
<1>4. CASE QueryCap
  BY <1>4, <1>0, Zenon DEF QueryCap, Fine, Fault, InitFails, BufsBehind, FdBehindFailure,
     LastAttempt, Kept, libVars, history
<1>5. CASE SetFormat
  <2>1. CASE InitFails(held)
    BY <1>5, <2>1, <1>0, ZenonT(30) DEF SetFormat, InitFails, FdBehindFailure
  <2>2. CASE geometry' = [line |-> Line, len |-> ImageLen] /\ UNCHANGED <<held, fd, mapped, streaming, history>>
    <3>1. Line \in Nat /\ driver.h \in Nat /\ driver.size \in Nat
      BY WebcamAssumption DEF WebcamAssumption, TypeOK, Line, Larger
    <3>2. Line * driver.h \in Nat
      BY <3>1
    <3>3. ImageLen \in Nat
      BY <3>1, <3>2 DEF ImageLen, Larger
    <3>4. geometry' \in [line : Nat, len : Nat]
      BY <2>2, <3>1, <3>3
    <3> QED
      BY <1>0, <2>2, <3>4
  <2> QED
    BY <1>5, <2>1, <2>2 DEF SetFormat
<1>6. CASE AllocImage
  BY <1>6, <1>0, Zenon DEF AllocImage, Fine, Fault, InitFails, BufsBehind, FdBehindFailure,
     LastAttempt, Kept, libVars, history
<1>7. CASE RequestBuffers
  BY <1>7, <1>0, Zenon DEF RequestBuffers, Fine, Fault, FallsBack, Kept, libVars, history
<1>8. CASE MapBuffer
  BY <1>8, <1>0, Zenon DEF MapBuffer, Fine, Fault, FallsBack, DriverSame, Kept, libVars,
     history
<1>9. CASE Mapped
  BY <1>9, <1>0, Zenon DEF Mapped, Goto, Fine, DriverSame, Kept, libVars, history
<1>10. CASE ReadBuffer
  BY <1>10, <1>0, Zenon DEF ReadBuffer, Fine, Fault, InitFails, BufsBehind, FdBehindFailure,
     LastAttempt, Kept, libVars, history
<1>11. CASE Close
  BY <1>11, <1>0, Zenon DEF Close, Goto, Fine, FreedByClose, Kept, libVars, history
<1>12. CASE Start
  BY <1>12, <1>0, Zenon DEF Start, Fine, DriverSame, Kept, libVars, history
<1>13. CASE QueueBuffer
  BY <1>13, <1>0, Zenon DEF QueueBuffer, Fine, Fault, Give, Kept, StartFails, NextQueued,
     DriverSame, Kept, libVars, history
<1>14. CASE StreamOn
  BY <1>14, <1>0, Zenon DEF StreamOn, Fine, Fault, Kept, StartFails, DriverSame, Kept,
     libVars, history
<1>15. CASE Stop
  BY <1>15, <1>0, Zenon DEF Stop, Fine, Kept, Kept, libVars, history
<1>16. CASE StopFails
  BY <1>16, <1>0, Zenon DEF StopFails, Fault, Kept, libVars, history
<1>17. CASE WaitFrame
  BY <1>17, <1>0, Zenon DEF WaitFrame, Goto, Fine, DriverSame, Kept, libVars, history
<1>18. CASE SelectReturns
  BY <1>18, <1>0, Zenon DEF SelectReturns, Goto, Fine, DriverSame, Kept, libVars, history
<1>19. CASE SelectReady
  BY <1>19, <1>0, Zenon DEF SelectReady, Goto, Fine, DriverSame, Kept, libVars, history
<1>20. CASE Dequeue
  BY <1>20, <1>0, Zenon DEF Dequeue, Fine, Fault, Kept, WaitFails, Goto, BehindError,
     DriverSame, BehindDequeue, PlaceInCopy, Kept, libVars, history
<1>21. CASE CopyFirst
  BY <1>21, <1>0, Zenon DEF CopyFirst, Goto, Fine, DriverSame, Kept, libVars, history
<1>22. CASE CopySecond
  BY <1>22, <1>0, Zenon DEF CopySecond, Goto, Fine, DriverSame, BehindCopy, Kept, libVars,
     history
<1>23. CASE Requeue
  BY <1>23, <1>0, Zenon DEF Requeue, Fine, Fault, Give, Kept, libVars, history
<1>24. CASE Read
  BY <1>24, <1>0, Zenon DEF Read, Goto, Fine, Fault, WaitFails, BehindError, DriverSame, Kept,
     libVars, history
<1>25. ASSUME NEW i \in Bufs, FillFirst(i)
      PROVE  ResourcesOK'
  BY <1>25, <1>0, Zenon DEF FillFirst, DriverOnly, Kept, libVars, history
<1>26. ASSUME NEW i \in Bufs, FillSecond(i)
      PROVE  ResourcesOK'
  BY <1>26, <1>0, Zenon DEF FillSecond, DriverOnly, Kept, libVars, history
<1>27. CASE UNCHANGED vars
  BY <1>27, <1>0, Zenon
<1> QED
  BY <1>1, <1>2, <1>3, <1>4, <1>5, <1>6, <1>7, <1>8, <1>9, <1>10, <1>11, <1>12, <1>13, <1>14,
     <1>15, <1>16, <1>17, <1>18, <1>19, <1>20, <1>21, <1>22, <1>23, <1>24, <1>25, <1>26, <1>27
     DEF Next, Open, Capture, Fill

\* Types are kept.
LEMMA TypeStep ==
    ASSUME TypeOK, Mappings, Accounted, [Next]_vars
    PROVE  TypeOK'
<1> USE DEF TypeOK, Places
<1>0. Granting(bufs)'
  BY GrantedStep
<1>0_1. ResourcesOK'
  BY ResourcesStep
<1>0_2. ASSUME NEW h \in 1..2, pc \in AtImage
       PROVE  Source[h] \in Nat
  <2>1. CASE method = "mmap"
    <3>1. cur \in Bufs
      BY <1>0_2, <2>1 DEF Accounted, At
    <3>2. bufs[cur].pic \in Picture
      BY <3>1, BufsAreSlots DEF Slot
    <3> QED
      BY <2>1, <3>2 DEF Source, Picture
  <2>2. CASE method = "read"
    BY <2>2 DEF Source, Picture
  <2> QED
    BY <2>1, <2>2
<1>1. CASE OpenCam
  BY <1>1, <1>0, <1>0_1 DEF OpenCam, Goto, Fine, DriverSame
<1>2. CASE OpenPriv
  BY <1>2, <1>0, <1>0_1 DEF OpenPriv, Goto, Fine, Fault, DriverSame
<1>3. CASE OpenDevice
  BY <1>3, <1>0, <1>0_1 DEF OpenDevice, Goto, Fine, Fault, DriverSame
<1>4. CASE QueryCap
  BY <1>4, <1>0, <1>0_1 DEF QueryCap, Fine, Fault, InitFails, BufsBehind, FdBehindFailure,
     LastAttempt
<1>5. CASE SetFormat
  BY <1>5, <1>0, <1>0_1 DEF SetFormat, Fine, Fault, InitFails, BufsBehind, FdBehindFailure,
     LastAttempt
<1>6. CASE AllocImage
  BY <1>6, <1>0, <1>0_1 DEF AllocImage, Fine, Fault, InitFails, FdBehindFailure, LastAttempt, Blank, Picture
<1>7. CASE RequestBuffers
  BY <1>7, <1>0, <1>0_1 DEF RequestBuffers, Fine, Fault, FallsBack
<1>8. CASE MapBuffer
  BY <1>8, <1>0, <1>0_1 DEF MapBuffer, Fine, Fault, FallsBack, DriverSame
<1>9. CASE Mapped
  <2>1. Cardinality(Bufs) \in Nat
    <3>1. PICK n \in Granted \cup {0} : Bufs = 0..(n - 1)
      BY WebcamAssumption DEF WebcamAssumption, Bufs, Granting
    <3>2. n \in Nat
      BY WebcamAssumption DEF WebcamAssumption
    <3>3. IsFiniteSet(0..(n - 1))
      BY <3>2, FS_Interval
    <3> QED
      BY <3>1, <3>3, FS_CardinalityType
  <2> QED
    BY <1>9, <1>0, <1>0_1, <2>1 DEF Mapped, Goto, Fine, DriverSame
<1>10. CASE ReadBuffer
  BY <1>10, <1>0, <1>0_1 DEF ReadBuffer, Fine, Fault, InitFails, FdBehindFailure, LastAttempt, Blank, Picture
<1>11. CASE Close
  BY <1>11, <1>0, <1>0_1 DEF Close, Goto, Fine, FreedByClose
<1>12. CASE Start
  BY <1>12, <1>0, <1>0_1 DEF Start, Fine, DriverSame
<1>13. CASE QueueBuffer
  BY <1>13, <1>0, <1>0_1 DEF QueueBuffer, Fine, Fault, Give, Kept, StartFails, NextQueued, DriverSame
<1>14. CASE StreamOn
  BY <1>14, <1>0, <1>0_1 DEF StreamOn, Fine, Fault, Kept, StartFails, DriverSame
<1>15. CASE Stop
  BY <1>15, <1>0, <1>0_1 DEF Stop, Fine, Kept
<1>16. CASE StopFails
  BY <1>16, <1>0, <1>0_1 DEF StopFails, Fault
<1>17. CASE WaitFrame
  BY <1>17, <1>0, <1>0_1 DEF WaitFrame, Goto, Fine, DriverSame
<1>18. CASE SelectReturns
  BY <1>18, <1>0, <1>0_1 DEF SelectReturns, Goto, Fine, DriverSame
<1>19. CASE SelectReady
  BY <1>19, <1>0, <1>0_1 DEF SelectReady, Goto, Fine, DriverSame
<1>20. CASE Dequeue
  <2>1. \A i \in At("done") : i \in Nat
    BY WebcamAssumption DEF WebcamAssumption, At, Bufs, Granting
  <2> QED
    BY <1>20, <1>0, <1>0_1, <2>1 DEF Dequeue, Fine, Fault, Kept, WaitFails, Goto, BehindError, DriverSame, BehindDequeue
<1>21. CASE CopyFirst
  <2>1. Source[1] \in Nat
    BY <1>21, <1>0_2 DEF CopyFirst, Goto, AtImage
  <2>2. image' \in Picture
    BY <1>21, <2>1 DEF CopyFirst, Picture
  <2> QED
    BY <1>21, <1>0, <1>0_1, <2>2 DEF CopyFirst, Goto, Fine, DriverSame
<1>22. CASE CopySecond
  <2>1. Source[2] \in Nat
    BY <1>22, <1>0_2 DEF CopySecond, Goto, AtImage
  <2>2. image' \in Picture
    BY <1>22, <2>1 DEF CopySecond, Picture
  <2> QED
    BY <1>22, <1>0, <1>0_1, <2>2 DEF CopySecond, Goto, Fine, DriverSame, BehindCopy
<1>23. CASE Requeue
  BY <1>23, <1>0, <1>0_1 DEF Requeue, Fine, Fault, Give
<1>24. CASE Read
  <2>1. frame + 1 \in Nat
    OBVIOUS
  <2>2. readbuf' \in Picture
    BY <1>24, <2>1 DEF Read, WaitFails, Picture
  <2>3. frame' \in Nat /\ faults' \in Nat /\ pc' \in Places
    BY <1>24, <2>1 DEF Read, Fine, Fault, WaitFails, Goto, BehindError, DriverSame
  <2> QED
    BY <1>24, <1>0, <1>0_1, <2>2, <2>3 DEF Read, WaitFails, DriverSame
<1>25. ASSUME NEW i \in Bufs, FillFirst(i)
      PROVE  TypeOK'
  <2>1. frame' \in Nat /\ faults' \in Nat
    BY <1>25 DEF FillFirst, Fine, Fault
  <2>2. UNCHANGED <<pc, attempt, method, count, k, cur, image, readbuf, driver>>
    BY <1>25 DEF FillFirst, DriverOnly, libVars, pictures
  <2> QED
    BY <1>0, <1>0_1, <2>1, <2>2
<1>26. ASSUME NEW i \in Bufs, FillSecond(i)
      PROVE  TypeOK'
  <2>1. frame' \in Nat /\ faults' \in Nat
    BY <1>26 DEF FillSecond, Fine, Fault
  <2>2. UNCHANGED <<pc, attempt, method, count, k, cur, image, readbuf, driver>>
    BY <1>26 DEF FillSecond, DriverOnly, libVars, pictures
  <2> QED
    BY <1>0, <1>0_1, <2>1, <2>2
<1>27. CASE UNCHANGED vars
  BY <1>27, <1>0, <1>0_1
<1> QED
  BY <1>1, <1>2, <1>3, <1>4, <1>5, <1>6, <1>7, <1>8, <1>9, <1>10, <1>11, <1>12, <1>13, <1>14,
     <1>15, <1>16, <1>17, <1>18, <1>19, <1>20, <1>21, <1>22, <1>23, <1>24, <1>25, <1>26, <1>27
     DEF Next, Open, Capture, Fill

-----------------------------------------------------------------------------
(* The invariant. *)

LEMMA WInvInit ==
    Init => WInv
<1> SUFFICES ASSUME Init PROVE WInv
  OBVIOUS
<1>1. Bufs = {} /\ Granting(bufs)
  BY NoBufsGranted DEF Init, Bufs
<1>2. TypeOK
  BY <1>1 DEF Init, TypeOK, ResourcesOK, Places, Blank, Picture
<1>3. Memory /\ Mappings /\ Measured
  BY DEF Init, Memory, Mappings, Measured, Running
<1>4. Accounted /\ Filled /\ Copied
  BY <1>1 DEF Init, Accounted, Filled, Copied, Running, At, AtImage
<1> QED
  BY <1>2, <1>3, <1>4 DEF WInv

LEMMA WInvStep ==
    WInv /\ [Next]_vars => WInv'
BY TypeStep, MemoryStep, MappingsStep, AccountedStep, FilledStep, CopiedStep, MeasuredStep DEF WInv

\* The invariant holds of every driver, whatever fails and when.
THEOREM CaptureIsSound ==
    Spec => []WInv
BY WInvInit, WInvStep, PTL DEF Spec

\* The variables keep their types.
THEOREM CaptureIsTyped ==
    Spec => []TypeOK
<1>1. WInv => TypeOK
  BY DEF WInv
<1> QED
  BY <1>1, CaptureIsSound, PTL

\* However many of the driver's calls and of the allocations fail, in either
\* attempt, a camera that is closed or could not be opened leaves nothing behind.
THEOREM ClosingFreesAll ==
    Spec => []NothingLeft
<1>1. WInv => NothingLeft
  BY DEF WInv, Memory, Mappings, Running, NothingLeft
<1> QED
  BY <1>1, CaptureIsSound, PTL

\* Whatever the first attempt reached, the second one starts without its picture,
\* its mappings and its buffers.
THEOREM AttemptsAreIndependent ==
    Spec => []SecondAttemptIsFresh
<1>1. WInv => SecondAttemptIsFresh
  BY DEF WInv, Memory, Mappings, Running, SecondAttemptIsFresh
<1> QED
  BY <1>1, CaptureIsSound, PTL

\* A streaming driver lacks, between the calls, only the buffers whose VIDIOC_QBUF
\* failed, for every number of buffers.
THEOREM NoBufferIsKept ==
    Spec => []BuffersComeBack
<1>1. WInv => BuffersComeBack
  BY DEF WInv, Accounted, BuffersComeBack
<1> QED
  BY <1>1, CaptureIsSound, PTL

\* A picture is of one frame, though the driver fills buffers while it is copied.
THEOREM PicturesAreOfOneFrame ==
    Spec => []OneFrame
<1>1. WInv => OneFrame
  BY DEF WInv, Copied, Whole, Running, OneFrame
<1> QED
  BY <1>1, CaptureIsSound, PTL

\* A start meets a buffer the driver has only when it is one start too many.
THEOREM StartFindsTheBuffers ==
    Spec => []StartsAgain
<1>1. WInv => StartsAgain
  BY DEF WInv, TypeOK, Accounted, StartsAgain
<1> QED
  BY <1>1, CaptureIsSound, PTL

\* The last byte of the last line is inside h lines when a line holds its pixels.
LEMMA LastLineFits ==
    ASSUME NEW h \in Nat \ {0}, NEW line \in Nat, NEW bytes \in Nat, bytes <= line
    PROVE  (h - 1) * line + bytes <= line * h
<1>1. (h - 1) * line = line * h - line
  OBVIOUS
<1>2. line * h \in Nat
  OBVIOUS
<1> QED
  BY <1>1, <1>2

\* A copy stays inside the buffer for every size of picture, where lines hold three
\* bytes per pixel.
THEOREM CopyStaysInside ==
    Spec => []ReadsInside
<1>1. ASSUME WInv, pc = "copy", driver.line >= driver.w * 3, driver.len >= driver.line * driver.h
      PROVE  Extent <= Room
  <2>1. /\ driver.w \in Nat /\ driver.h \in Nat \ {0} /\ driver.line \in Nat
        /\ driver.size \in Nat /\ driver.len \in Nat
    BY <1>1, WebcamAssumption DEF WebcamAssumption, WInv, TypeOK
  <2>2. geometry.line = driver.line /\ geometry.len = ImageLen
    BY <1>1, <2>1 DEF WInv, Measured, Running, Line, Larger
  <2>3. Line = driver.line
    BY <1>1, <2>1 DEF Line, Larger
  <2>4. driver.line * driver.h \in Nat
    BY <2>1
  <2>5. Extent <= driver.line * driver.h
    BY <1>1, <2>1, <2>2, LastLineFits DEF Extent
  <2>6. ImageLen >= driver.line * driver.h
    BY <2>1, <2>3, <2>4 DEF ImageLen, Larger
  <2>7. driver.line * driver.h <= Room
    BY <1>1, <2>2, <2>6 DEF Room
  <2>8. Extent \in Int /\ Room \in Int /\ driver.line * driver.h \in Int
    <3>1. ImageLen \in Nat
      BY <2>1, <2>3, <2>4 DEF ImageLen, Larger
    <3>2. (driver.h - 1) * driver.line \in Int
      BY <2>1
    <3> QED
      BY <2>1, <2>2, <2>4, <3>1, <3>2 DEF Extent, Room
  <2> QED
    BY <2>5, <2>7, <2>8
<1>2. WInv => ReadsInside
  BY <1>1 DEF ReadsInside
<1> QED
  BY <1>2, CaptureIsSound, PTL

=============================================================================
