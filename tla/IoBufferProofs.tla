--------------------------- MODULE IoBufferProofs ---------------------------
(***************************************************************************)
(* Proofs about IoBuffer for every size of the buffer, all lengths and all *)
(* outcomes of the socket calls: IoInv says byte by byte where the streams *)
(* are, and that nothing of them is lost follows from it.                  *)
(***************************************************************************)
EXTENDS IoBuffer, SequenceTheorems, TLAPS

\* What the loops of write_all and flush have left to do.
Loops ==
    /\ pc = "write" => left > 0
    /\ pc = "flush" => left = 0 /\ wlen > 0
    /\ pc \in {"idle", "read"} => left = 0

\* The bytes written, counted and one by one.
Counted == Len(wire) + wlen = given - left
OutBytes ==
    "partial" \notin met =>
        /\ \A i \in 1..Len(wire) : wire[i] = i
        /\ \A i \in 1..wlen : wbuf[i] = Len(wire) + i

\* The bytes read, one by one.
InBytes ==
    /\ Len(got) + (rlen - rpos) = received
    /\ \A i \in 1..Len(got) : got[i] = i
    /\ \A i \in rpos + 1..rlen : rbuf[i] = Len(got) + (i - rpos)

IoInv == TypeOK /\ Loops /\ Counted /\ OutBytes /\ InBytes /\ WriteAllHandsOverInTime

-----------------------------------------------------------------------------
(* Streams and the parts of buffers. *)

\* A part of a buffer is a sequence of its bytes.
LEMMA HeldIsSeq ==
    ASSUME NEW max \in Nat, NEW buf \in [1..BufSiz -> 0..max], NEW from \in Nat, NEW to \in -1..BufSiz
    PROVE  /\ Held(buf, from, to) \in Seq(0..max)
           /\ Len(Held(buf, from, to)) = (IF to > from THEN to - from ELSE 0)
           /\ \A i \in 1..to - from : Held(buf, from, to)[i] = buf[from + i]
<1>0. BufSiz \in Nat
  BY IoAssumption DEF IoAssumption
<1>1. CASE to > from
  <2>1. to - from \in Nat /\ \A i \in 1..to - from : buf[from + i] \in 0..max
    BY <1>0, <1>1
  <2> QED
    BY <1>1, <2>1 DEF Held
<1>2. CASE to <= from
  <2>1. 1..to - from = {} /\ 1..0 = {}
    BY <1>0, <1>2
  <2>2. Held(buf, from, to) = [i \in 1..0 |-> buf[from + i]]
    BY <2>1 DEF Held
  <2>3. Held(buf, from, to) = <<>>
    BY <2>1, <2>2
  <2> QED
    BY <1>2, <2>1, <2>3, EmptySeq
<1> QED
  BY <1>0, <1>1, <1>2

\* A sequence of which the i-th byte is byte i is the stream.
LEMMA StreamByBytes ==
    ASSUME NEW S, NEW s \in Seq(S), \A i \in 1..Len(s) : s[i] = i
    PROVE  s = Stream(Len(s))
<1>1. Len(s) \in Nat /\ s = [i \in 1..Len(s) |-> s[i]]
  OBVIOUS
<1> QED
  BY <1>1 DEF Stream

-----------------------------------------------------------------------------
(* Reading. *)

\* A part of the buffer the peer's bytes are in.
LEMMA PartIn ==
    ASSUME NEW buf \in [1..BufSiz -> 0..MaxIn], NEW from \in Nat, NEW to \in -1..BufSiz
    PROVE  /\ Held(buf, from, to) \in Seq(0..MaxIn)
           /\ Len(Held(buf, from, to)) = (IF to > from THEN to - from ELSE 0)
           /\ \A i \in 1..to - from : Held(buf, from, to)[i] = buf[from + i]
<1>1. MaxIn \in Nat
  BY IoAssumption DEF IoAssumption
<1>2. PICK max \in Nat : max = MaxIn
  BY <1>1
<1>3. buf \in [1..BufSiz -> 0..max]
  BY <1>2
<1>4. /\ Held(buf, from, to) \in Seq(0..max)
      /\ Len(Held(buf, from, to)) = (IF to > from THEN to - from ELSE 0)
      /\ \A i \in 1..to - from : Held(buf, from, to)[i] = buf[from + i]
  BY <1>3, HeldIsSeq
<1> QED
  BY <1>2, <1>4

\* What is handed out of a buffer are the next bytes of the stream, and the rest stays.
LEMMA DeliverKeeps ==
    ASSUME TypeOK, NEW buf \in [1..BufSiz -> 0..MaxIn], NEW len \in 0..BufSiz, NEW pos \in 0..len,
           \A i \in 1..Len(got) : got[i] = i,
           \A i \in pos + 1..len : buf[i] = Len(got) + (i - pos),
           Deliver(buf, pos, len), rbuf' = buf
    PROVE  /\ got' \in Seq(0..MaxIn) /\ want' \in Nat /\ rlen' \in 0..BufSiz /\ rpos' \in 0..rlen'
           /\ pc' \in {"idle", "read"}
           /\ Len(got') + (rlen' - rpos') = Len(got) + (len - pos)
           /\ \A i \in 1..Len(got') : got'[i] = i
           /\ \A i \in rpos' + 1..rlen' : rbuf'[i] = Len(got') + (i - rpos')
<1> DEFINE l == Taken(pos, len)
           part == Held(buf, pos, pos + l)
<1>0. BufSiz \in Nat \ {0} /\ MaxIn \in Nat
  BY IoAssumption DEF IoAssumption
<1>1. len \in Nat /\ pos \in Nat /\ pos <= len /\ len <= BufSiz /\ BufSiz \in Nat /\ want \in Nat
      /\ got \in Seq(0..MaxIn) /\ Len(got) \in Nat
  BY <1>0 DEF TypeOK
<1>2. l \in Nat /\ l <= len - pos /\ l <= want
  BY <1>1 DEF Taken, Lesser
<1>3. part \in Seq(0..MaxIn) /\ Len(part) = l /\ \A i \in 1..l : part[i] = buf[pos + i]
  <2>1. PICK m \in -1..BufSiz : m = pos + l
    BY <1>1, <1>2
  <2>2. /\ Held(buf, pos, m) \in Seq(0..MaxIn)
        /\ Len(Held(buf, pos, m)) = (IF m > pos THEN m - pos ELSE 0)
        /\ \A i \in 1..m - pos : Held(buf, pos, m)[i] = buf[pos + i]
    BY <1>1, PartIn
  <2>3. part = Held(buf, pos, m)
    BY <2>1
  <2> HIDE DEF l, part
  <2>4. m - pos = l /\ (m > pos \/ l = 0)
    BY <1>1, <1>2, <2>1
  <2> QED
    BY <1>2, <2>2, <2>3, <2>4
<1>4. /\ got' = got \o part /\ want' = want - l /\ rpos' = NextPos(pos, len)
      /\ rlen' = (IF pos + l = len THEN 0 ELSE len)
      /\ pc' = IF want = l THEN "idle" ELSE "read"
  BY DEF Deliver
<1>5. NextPos(pos, len) = IF pos + l = len THEN 0 ELSE pos + l
  BY DEF NextPos
<1> HIDE DEF l, part
<1>6. got' \in Seq(0..MaxIn) /\ Len(got') = Len(got) + l
      /\ \A i \in 1..Len(got) + l : got'[i] = IF i <= Len(got) THEN got[i] ELSE part[i - Len(got)]
  BY <1>1, <1>3, <1>4, ConcatProperties
<1>7. \A i \in 1..l : part[i] = Len(got) + i
  BY <1>1, <1>2, <1>3
<1>8. \A i \in 1..Len(got') : got'[i] = i
  <2> SUFFICES ASSUME NEW i \in 1..Len(got') PROVE got'[i] = i
    OBVIOUS
  <2>1. CASE i <= Len(got)
    BY <1>1, <1>6, <2>1
  <2>2. CASE i > Len(got)
    <3>1. i - Len(got) \in 1..l
      BY <1>1, <1>2, <1>6, <2>2
    <3>2. part[i - Len(got)] = Len(got) + (i - Len(got)) /\ Len(got) + (i - Len(got)) = i
      BY <1>1, <1>6, <1>7, <3>1
    <3>3. got'[i] = part[i - Len(got)]
      BY <1>1, <1>2, <1>6, <2>2
    <3> QED
      BY <3>2, <3>3
  <2> QED
    BY <1>1, <1>6, <2>1, <2>2
<1>9. Len(got') = Len(got) + l
  BY <1>6
<1>10. /\ want' \in Nat /\ rlen' \in 0..BufSiz /\ rpos' \in 0..rlen'
       /\ Len(got') + (rlen' - rpos') = Len(got) + (len - pos)
  <2>1. want' \in Nat
    BY <1>1, <1>2, <1>4
  <2>2. CASE pos + l = len
    <3>1. rlen' = 0 /\ rpos' = 0 /\ l = len - pos
      BY <1>1, <1>2, <1>4, <1>5, <2>2
    <3>2. Len(got') + (rlen' - rpos') = Len(got) + (len - pos)
      BY <1>1, <1>9, <3>1
    <3> QED
      BY <1>0, <2>1, <3>1, <3>2
  <2>3. CASE pos + l # len
    <3>1. rlen' = len /\ rpos' = pos + l
      BY <1>4, <1>5, <2>3
    <3>2. Len(got') + (rlen' - rpos') = Len(got) + (len - pos)
      BY <1>1, <1>2, <1>9, <3>1
    <3>3. rlen' \in 0..BufSiz /\ rpos' \in 0..rlen'
      BY <1>0, <1>1, <1>2, <3>1
    <3> QED
      BY <2>1, <3>2, <3>3
  <2> QED
    BY <2>2, <2>3
<1>11. ASSUME NEW i \in rpos' + 1..rlen'
       PROVE  rbuf'[i] = Len(got') + (i - rpos')
  <2>1. rpos' = pos + l /\ rlen' = len
    BY <1>4, <1>5, <1>11
  <2>2. i \in pos + 1..len
    BY <1>1, <1>2, <2>1
  <2> QED
    BY <1>1, <1>2, <1>9, <2>1, <2>2
<1>12. got' \in Seq(0..MaxIn) /\ pc' \in {"idle", "read"}
  BY <1>4, <1>6
<1> QED
  BY <1>8, <1>10, <1>11, <1>12

-----------------------------------------------------------------------------
(* Writing. *)

\* A copy into the buffer takes the next bytes of the call and moves no other.
LEMMA FilledBytes ==
    ASSUME NEW buf \in [1..BufSiz -> 0..MaxOut], NEW len \in 0..BufSiz, NEW l \in 0..given,
           NEW n \in 0..l, len + n <= BufSiz, given \in 0..MaxOut
    PROVE  /\ Filled(buf, len, l, n) \in [1..BufSiz -> 0..MaxOut]
           /\ \A i \in 1..len : Filled(buf, len, l, n)[i] = buf[i]
           /\ \A i \in len + 1..len + n : Filled(buf, len, l, n)[i] = given - l + (i - len)
<1>0. BufSiz \in Nat \ {0} /\ MaxOut \in Nat
  BY IoAssumption DEF IoAssumption
<1>1. \A i \in 1..BufSiz :
         (IF i \in len + 1..len + n THEN given - l + (i - len) ELSE buf[i]) \in 0..MaxOut
  BY <1>0
<1>2. Filled(buf, len, l, n) \in [1..BufSiz -> 0..MaxOut]
  BY <1>1 DEF Filled
<1>3. ASSUME NEW i \in 1..len
      PROVE  Filled(buf, len, l, n)[i] = buf[i]
  <2>1. i \in 1..BufSiz /\ i \notin len + 1..len + n
    BY <1>0
  <2> QED
    BY <2>1 DEF Filled
<1>4. ASSUME NEW i \in len + 1..len + n
      PROVE  Filled(buf, len, l, n)[i] = given - l + (i - len)
  <2>1. i \in 1..BufSiz
    BY <1>0
  <2> QED
    BY <2>1 DEF Filled
<1> QED
  BY <1>2, <1>3, <1>4

\* What remains in the buffer is moved inside it.
LEMMA MovedBytes ==
    ASSUME NEW buf \in [1..BufSiz -> 0..MaxOut], NEW len \in 0..BufSiz, NEW r \in -1..len
    PROVE  /\ Moved(buf, len, r) \in [1..BufSiz -> 0..MaxOut]
           /\ r \in {-1, 0, len} => Moved(buf, len, r) = buf
<1>0. BufSiz \in Nat \ {0} /\ MaxOut \in Nat
  BY IoAssumption DEF IoAssumption
<1>1. \A i \in 1..BufSiz : (IF i \in r + 1..len THEN buf[i - r] ELSE buf[i]) \in 0..MaxOut
                           \/ r \notin 1..len - 1
  BY <1>0
<1> QED
  BY <1>0, <1>1 DEF Moved

\* The bytes send takes are the first ones of the buffer.
LEMMA WiredBytes ==
    ASSUME wire \in Seq(0..MaxOut), NEW buf \in [1..BufSiz -> 0..MaxOut],
           NEW r \in -1..BufSiz
    PROVE  /\ Wired(buf, r) \in Seq(0..MaxOut)
           /\ Len(Wired(buf, r)) = Len(wire) + (IF r > 0 THEN r ELSE 0)
           /\ \A i \in 1..Len(wire) : Wired(buf, r)[i] = wire[i]
           /\ \A i \in 1..r : Wired(buf, r)[Len(wire) + i] = buf[i]
<1> DEFINE part == Held(buf, 0, r)
<1>0. BufSiz \in Nat \ {0} /\ MaxOut \in Nat
  BY IoAssumption DEF IoAssumption
<1>1. part \in Seq(0..MaxOut) /\ Len(part) = (IF r > 0 THEN r ELSE 0) /\ \A i \in 1..r : part[i] = buf[i]
  <2>1. 0 \in Nat /\ BufSiz \in Nat /\ r - 0 = r
    BY <1>0
  <2>2. /\ Held(buf, 0, r) \in Seq(0..MaxOut)
        /\ Len(Held(buf, 0, r)) = (IF r > 0 THEN r - 0 ELSE 0)
        /\ \A i \in 1..r - 0 : Held(buf, 0, r)[i] = buf[0 + i]
    BY <1>0, <2>1, HeldIsSeq
  <2> QED
    BY <2>1, <2>2
<1> HIDE DEF part
<1>2. Wired(buf, r) = wire \o part
  BY DEF Wired, part
<1>3. /\ wire \o part \in Seq(0..MaxOut)
      /\ Len(wire \o part) = Len(wire) + Len(part)
      /\ \A i \in 1..Len(wire) + Len(part) :
            (wire \o part)[i] = IF i <= Len(wire) THEN wire[i] ELSE part[i - Len(wire)]
  BY <1>1, ConcatProperties, Zenon
<1>a. Len(wire) \in Nat
  OBVIOUS
<1>4. Len(Wired(buf, r)) = Len(wire) + (IF r > 0 THEN r ELSE 0)
  BY <1>1, <1>2, <1>3, <1>a
<1>5. ASSUME NEW i \in 1..Len(wire)
      PROVE  Wired(buf, r)[i] = wire[i]
  <2>1. i \in 1..Len(wire) + Len(part) /\ i <= Len(wire)
    BY <1>1, <1>3, <1>a
  <2> QED
    BY <1>2, <1>3, <2>1
<1>6. ASSUME NEW i \in 1..r
      PROVE  Wired(buf, r)[Len(wire) + i] = buf[i]
  <2>1. PICK m \in 1..Len(wire) + Len(part) : m = Len(wire) + i
    BY <1>1, <1>3, <1>a
  <2>2. ~(m <= Len(wire)) /\ m - Len(wire) = i
    BY <1>3, <1>a, <2>1
  <2>3. (wire \o part)[m] = part[i]
    BY <1>3, <1>a, <2>2
  <2> QED
    BY <1>1, <1>2, <2>1, <2>3
<1> QED
  BY <1>2, <1>3, <1>4, <1>5, <1>6

\* What a call of send may meet.
LEMMA MetKinds ==
    ASSUME TypeOK, NEW w \in Nat \ {0}, NEW r \in -1..w
    PROVE  /\ Met(w, r) \subseteq OutcomeKinds
           /\ "partial" \notin Met(w, r) => "partial" \notin met /\ r \in {-1, 0, w}
           /\ "timeout" \notin Met(w, r) => "timeout" \notin met /\ r # 0
<1>1. met \subseteq OutcomeKinds
  BY DEF TypeOK
<1>2. CASE r = -1
  <2>1. Met(w, r) = met \cup {"error"}
    BY <1>2 DEF Met
  <2>2. Met(w, r) \subseteq OutcomeKinds
    BY <1>1, <2>1 DEF OutcomeKinds
  <2>3. met \subseteq Met(w, r)
    BY <2>1
  <2> QED
    BY <1>2, <2>2, <2>3
<1>3. CASE r = 0
  <2>1. Met(w, r) = met \cup {"timeout"}
    BY <1>3 DEF Met
  <2> QED
    BY <1>1, <1>3, <2>1 DEF OutcomeKinds
<1>4. CASE r = w
  <2>1. Met(w, r) = met \cup {}
    BY <1>4 DEF Met
  <2> QED
    BY <1>1, <1>4, <2>1
<1>5. CASE r \notin {-1, 0, w}
  <2>1. Met(w, r) = met \cup {"partial"}
    BY <1>5 DEF Met
  <2> QED
    BY <1>1, <1>5, <2>1 DEF OutcomeKinds
<1> QED
  BY <1>2, <1>3, <1>4, <1>5

\* trfb_io_write fills the buffer, flushes it once, and fills it again.
LEMMA WriteFlushesKeeps ==
    ASSUME IoInv, NEW r \in -1..BufSiz, WriteFlushes(r)
    PROVE  IoInv'
<1> DEFINE room == BufSiz - wlen
           full == Filled(wbuf, wlen, left, room)
           rest == left - room
           len == Remaining(BufSiz, r)
           moved == Moved(full, BufSiz, r)
           n == IF r = -1 THEN 0 ELSE Lesser(BufSiz - len, rest)
<1>0. BufSiz \in Nat \ {0} /\ MaxOut \in Nat
  BY IoAssumption DEF IoAssumption
<1>1. /\ wlen \in 0..BufSiz /\ given \in 0..MaxOut /\ left \in 0..given /\ wire \in Seq(0..MaxOut)
      /\ wbuf \in [1..BufSiz -> 0..MaxOut] /\ Len(wire) \in Nat
      /\ Len(wire) + wlen = given - left /\ left > room /\ pc = "write"
  BY DEF IoInv, TypeOK, Counted, WriteFlushes
<1>2. /\ wire' = Wired(full, r) /\ wbuf' = Filled(moved, len, rest, n)
      /\ wlen' = len + n /\ left' = rest - n /\ given' = given
      /\ pc' = (IF r = -1 THEN "ended" ELSE AfterWrite(room + n, rest - n))
      /\ met' = Met(BufSiz, r)
  BY DEF WriteFlushes
<1>3. room \in 0..left /\ wlen + room = BufSiz /\ rest \in 1..given /\ room + rest = left
  BY <1>0, <1>1
<1>4. /\ full \in [1..BufSiz -> 0..MaxOut]
      /\ \A i \in 1..wlen : full[i] = wbuf[i]
      /\ \A i \in wlen + 1..BufSiz : full[i] = given - left + (i - wlen)
  <2>1. wlen + room <= BufSiz
    BY <1>0, <1>3
  <2> HIDE DEF room
  <2> QED
    BY <1>1, <1>3, <2>1, FilledBytes, ZenonT(60)
<1>5. moved \in [1..BufSiz -> 0..MaxOut] /\ (r \in {-1, 0, BufSiz} => moved = full)
  <2> HIDE DEF full
  <2> QED
    BY <1>0, <1>4, MovedBytes, SMTT(30)
<1>6. len \in 0..BufSiz /\ (r > 0 => len = BufSiz - r) /\ (~(r > 0) => len = BufSiz)
  BY <1>0 DEF Remaining
<1>7. n \in 0..rest /\ len + n <= BufSiz /\ (~(r > 0) => n = 0) /\ (r > 0 => n > 0)
  <2> HIDE DEF len, rest
  <2> QED
    BY <1>0, <1>3, <1>6 DEF Lesser
<1> HIDE DEF room, full, rest, len, moved, n
<1>8. /\ wbuf' \in [1..BufSiz -> 0..MaxOut]
      /\ \A i \in 1..len : wbuf'[i] = moved[i]
      /\ \A i \in len + 1..len + n : wbuf'[i] = given - rest + (i - len)
  <2>1. rest \in 0..given
    BY <1>3
  <2> QED
    BY <1>1, <1>2, <1>5, <1>6, <1>7, <2>1, FilledBytes, ZenonT(60)
<1>9. /\ wire' \in Seq(0..MaxOut)
      /\ Len(wire') = Len(wire) + (IF r > 0 THEN r ELSE 0)
      /\ \A i \in 1..Len(wire) : wire'[i] = wire[i]
      /\ \A i \in 1..r : wire'[Len(wire) + i] = full[i]
  BY <1>1, <1>2, <1>4, WiredBytes
<1>10. Counted'
  <2>1. CASE r > 0
    <3>1. Len(wire') = Len(wire) + r /\ wlen' = BufSiz - r + n
      BY <1>2, <1>6, <1>9, <2>1
    <3>2. n \in Int /\ rest \in Int /\ r \in Int
      BY <1>0, <1>3, <1>7
    <3>3. Len(wire') + wlen' = Len(wire) + BufSiz + n
      BY <1>0, <1>1, <3>1, <3>2
    <3>4. Len(wire) + BufSiz = given - rest
      <4>1. room \in Int /\ left \in Int /\ wlen \in Int /\ given \in Int
        BY <1>1, <1>3
      <4>2. Len(wire) + wlen = given - left /\ wlen + room = BufSiz /\ room + rest = left
        BY <1>1, <1>3
      <4> QED
        BY <1>1, <3>2, <4>1, <4>2, SMTT(30)
    <3>5. given' - left' = given - rest + n
      BY <1>1, <1>2, <3>2
    <3>6. Len(wire') + wlen' = given' - left'
      BY <1>0, <1>1, <3>2, <3>3, <3>4, <3>5
    <3> QED
      BY <3>6 DEF Counted
  <2>2. CASE ~(r > 0)
    <3>1. Len(wire') = Len(wire) /\ wlen' = BufSiz + n
      BY <1>1, <1>2, <1>6, <1>9, <2>2
    <3>2. n = 0 /\ Len(wire') = Len(wire) /\ wlen' = BufSiz /\ left' = rest /\ given' = given
      BY <1>0, <1>2, <1>3, <1>7, <2>2, <3>1
    <3>3. room \in Int /\ left \in Int /\ wlen \in Int /\ given \in Int /\ rest \in Int
      BY <1>1, <1>3
    <3>4. Len(wire) + wlen = given - left /\ wlen + room = BufSiz /\ room + rest = left
      BY <1>1, <1>3
    <3>5. Len(wire) + BufSiz = given - rest
      BY <1>1, <3>3, <3>4, SMTT(30)
    <3> QED
      BY <3>2, <3>5 DEF Counted
  <2> QED
    BY <2>1, <2>2
<1>11. wlen' \in 1..BufSiz /\ left' \in 0..given'
  BY <1>0, <1>1, <1>2, <1>3, <1>6, <1>7
<1>12. Loops'
  BY <1>2, <1>11 DEF Loops, AfterWrite
<1>13. TypeOK'
  <2>1. pc' \in {"idle", "write", "flush", "read", "ended"}
    BY <1>2 DEF AfterWrite
  <2>2. UNCHANGED <<stop, inVars, sent>>
    BY DEF WriteFlushes
  <2>3. met' \subseteq OutcomeKinds
    BY <1>0, <1>2, MetKinds DEF IoInv
  <2>4. given' \in 0..MaxOut /\ wlen' \in 0..BufSiz
    BY <1>1, <1>2, <1>11
  <2> QED
    BY <1>8, <1>9, <1>11, <2>1, <2>2, <2>3, <2>4 DEF IoInv, TypeOK, inVars
<1>14. ASSUME "partial" \notin met'
       PROVE  /\ \A i \in 1..Len(wire') : wire'[i] = i
              /\ \A i \in 1..wlen' : wbuf'[i] = Len(wire') + i
  <2>1. "partial" \notin met /\ r \in {-1, 0, BufSiz}
    BY <1>0, <1>2, <1>14, MetKinds DEF IoInv
  <2>2. \A i \in 1..Len(wire) : wire[i] = i
    BY <2>1 DEF IoInv, OutBytes
  <2>3. \A i \in 1..wlen : wbuf[i] = Len(wire) + i
    BY <2>1 DEF IoInv, OutBytes
  <2>4. ASSUME NEW i \in 1..BufSiz
        PROVE  full[i] = Len(wire) + i
    <3>1. CASE i \in 1..wlen
      BY <1>4, <2>3, <3>1
    <3>2. CASE i \in wlen + 1..BufSiz
      BY <1>1, <1>4, <3>2, SMTT(30)
    <3> QED
      BY <1>0, <1>1, <3>1, <3>2
  <2>5. CASE r = BufSiz
    <3>1. len = 0 /\ Len(wire') = Len(wire) + BufSiz /\ wlen' = n
      BY <1>0, <1>2, <1>6, <1>7, <1>9, <2>5
    <3>2. ASSUME NEW i \in 1..Len(wire')
          PROVE  wire'[i] = i
      <4>1. CASE i <= Len(wire)
        BY <1>1, <1>9, <2>2, <4>1
      <4>2. CASE i > Len(wire)
        <5>1. PICK m \in 1..BufSiz : i = Len(wire) + m
          <6>1. i - Len(wire) \in 1..BufSiz /\ i = Len(wire) + (i - Len(wire))
            BY <1>0, <1>1, <3>1, <4>2
          <6> QED
            BY <6>1
        <5> QED
          BY <1>9, <2>4, <2>5, <5>1
      <4> QED
        BY <1>1, <4>1, <4>2
    <3>3. ASSUME NEW i \in 1..wlen'
          PROVE  wbuf'[i] = Len(wire') + i
      <4>1. i \in len + 1..len + n /\ i - len = i
        BY <1>3, <1>7, <3>1
      <4>2. wbuf'[i] = given - rest + i
        BY <1>8, <4>1
      <4>3. Len(wire') = given - rest
        <5>1. room \in Int /\ left \in Int /\ wlen \in Int /\ given \in Int /\ rest \in Int
          BY <1>1, <1>3
        <5>2. Len(wire) + wlen = given - left /\ wlen + room = BufSiz /\ room + rest = left
          BY <1>1, <1>3
        <5> QED
          BY <1>1, <3>1, <5>1, <5>2, SMTT(30)
      <4> QED
        BY <4>2, <4>3
    <3> QED
      BY <3>2, <3>3
  <2>6. CASE r \in {-1, 0}
    <3>1. len = BufSiz /\ wlen' = BufSiz /\ Len(wire') = Len(wire) /\ moved = full
      BY <1>0, <1>1, <1>2, <1>5, <1>6, <1>7, <1>9, <2>6
    <3>2. ASSUME NEW i \in 1..Len(wire')
          PROVE  wire'[i] = i
      BY <1>9, <2>2, <3>1
    <3>3. ASSUME NEW i \in 1..wlen'
          PROVE  wbuf'[i] = Len(wire') + i
      BY <1>8, <2>4, <3>1
    <3> QED
      BY <3>2, <3>3
  <2> QED
    BY <2>1, <2>5, <2>6
<1>15. InBytes'
  BY DEF IoInv, InBytes, WriteFlushes, inVars
<1>16. WriteAllHandsOverInTime'
  BY <1>2 DEF AfterWrite, WriteAllHandsOverInTime, WriteAllHandsOver
<1> QED
  BY <1>10, <1>12, <1>13, <1>14, <1>15, <1>16 DEF IoInv, OutBytes

\* The call of flush, once or again.
LEMMA FlushKeeps ==
    ASSUME IoInv, NEW r \in -1..BufSiz, Flush(r)
    PROVE  IoInv'
<1> DEFINE len == Remaining(wlen, r)
<1>0. BufSiz \in Nat \ {0} /\ MaxOut \in Nat
  BY IoAssumption DEF IoAssumption
<1>1. /\ wlen \in 1..BufSiz /\ given \in 0..MaxOut /\ left = 0 /\ wire \in Seq(0..MaxOut)
      /\ wbuf \in [1..BufSiz -> 0..MaxOut] /\ Len(wire) \in Nat
      /\ Len(wire) + wlen = given
  BY <1>0 DEF IoInv, TypeOK, Loops, Counted, Flush
<1>2. /\ wire' = Wired(wbuf, r) /\ wbuf' = Moved(wbuf, wlen, r) /\ wlen' = len
      /\ left' = left /\ given' = given /\ pc' = AfterFlush(len, r) /\ met' = Met(wlen, r)
  BY DEF Flush
<1>3. r \in -1..wlen
  BY <1>0, <1>1 DEF Flush, SendResults
<1>4. len \in 0..wlen /\ (r > 0 => len = wlen - r) /\ (~(r > 0) => len = wlen)
  BY <1>0, <1>1, <1>3 DEF Remaining
<1> HIDE DEF len
<1>5. wbuf' \in [1..BufSiz -> 0..MaxOut] /\ (r \in {-1, 0, wlen} => wbuf' = wbuf)
  <2>1. wlen \in 0..BufSiz
    BY <1>0, <1>1
  <2> QED
    BY <1>1, <1>2, <1>3, <2>1, MovedBytes
<1>6. /\ wire' \in Seq(0..MaxOut)
      /\ Len(wire') = Len(wire) + (IF r > 0 THEN r ELSE 0)
      /\ \A i \in 1..Len(wire) : wire'[i] = wire[i]
      /\ \A i \in 1..r : wire'[Len(wire) + i] = wbuf[i]
  BY <1>1, <1>2, WiredBytes
<1>7. wlen' \in 0..BufSiz
  BY <1>0, <1>1, <1>2, <1>4
<1>8. Counted'
  <2>1. CASE r > 0
    <3>1. Len(wire') = Len(wire) + r /\ wlen' = wlen - r
      BY <1>2, <1>4, <1>6, <2>1
    <3>2. r \in Int /\ wlen \in Int
      BY <1>0, <1>1
    <3>3. Len(wire') + wlen' = Len(wire) + wlen
      BY <1>1, <3>1, <3>2
    <3>4. given' - left' = given
      BY <1>1, <1>2
    <3>5. Len(wire') + wlen' = given' - left'
      BY <1>1, <3>3, <3>4
    <3> QED
      BY <3>5 DEF Counted
  <2>2. CASE ~(r > 0)
    <3>1. Len(wire') = Len(wire) /\ wlen' = wlen
      BY <1>1, <1>2, <1>4, <1>6, <2>2
    <3> QED
      BY <1>1, <1>2, <3>1 DEF Counted
  <2> QED
    BY <2>1, <2>2
<1>9. Loops'
  BY <1>1, <1>2, <1>4 DEF Loops, AfterFlush
<1>10. met' \subseteq OutcomeKinds /\ ("timeout" \notin met' => r # 0)
       /\ ("partial" \notin met' => "partial" \notin met /\ r \in {-1, 0, wlen})
  <2>1. wlen \in Nat \ {0}
    BY <1>0, <1>1
  <2> QED
    BY <1>2, <1>3, <2>1, MetKinds DEF IoInv
<1>11. TypeOK'
  <2>1. pc' \in {"idle", "write", "flush", "read", "ended"}
    BY <1>2 DEF AfterFlush
  <2>2. UNCHANGED <<stop, inVars, sent>>
    BY DEF Flush
  <2>3. given' \in 0..MaxOut /\ left' \in 0..given'
    BY <1>0, <1>1, <1>2
  <2> QED
    BY <1>5, <1>6, <1>7, <1>10, <2>1, <2>2, <2>3 DEF IoInv, TypeOK, inVars
<1>12. ASSUME "partial" \notin met'
       PROVE  /\ \A i \in 1..Len(wire') : wire'[i] = i
              /\ \A i \in 1..wlen' : wbuf'[i] = Len(wire') + i
  <2>1. "partial" \notin met /\ r \in {-1, 0, wlen}
    BY <1>10, <1>12
  <2>2. \A i \in 1..Len(wire) : wire[i] = i
    BY <2>1 DEF IoInv, OutBytes
  <2>3. \A i \in 1..wlen : wbuf[i] = Len(wire) + i
    BY <2>1 DEF IoInv, OutBytes
  <2>4. CASE r = wlen
    <3>1. wlen' = 0 /\ Len(wire') = Len(wire) + wlen
      BY <1>0, <1>1, <1>2, <1>4, <1>6, <2>4
    <3>2. ASSUME NEW i \in 1..Len(wire')
          PROVE  wire'[i] = i
      <4>1. CASE i <= Len(wire)
        BY <1>1, <1>6, <2>2, <4>1
      <4>2. CASE i > Len(wire)
        <5>1. PICK m \in 1..wlen : i = Len(wire) + m
          <6>1. i - Len(wire) \in 1..wlen /\ i = Len(wire) + (i - Len(wire))
            BY <1>0, <1>1, <3>1, <4>2
          <6> QED
            BY <6>1
        <5> QED
          BY <1>6, <2>3, <2>4, <5>1
      <4> QED
        BY <1>1, <4>1, <4>2
    <3> QED
      BY <3>1, <3>2
  <2>5. CASE r \in {-1, 0}
    <3>1. wlen' = wlen /\ Len(wire') = Len(wire) /\ wbuf' = wbuf
      BY <1>0, <1>1, <1>2, <1>4, <1>5, <1>6, <2>5
    <3>2. ASSUME NEW i \in 1..Len(wire')
          PROVE  wire'[i] = i
      BY <1>6, <2>2, <3>1
    <3> QED
      BY <2>3, <3>1, <3>2
  <2> QED
    BY <2>1, <2>4, <2>5
<1>13. InBytes'
  BY DEF IoInv, InBytes, Flush, inVars
<1>14. WriteAllHandsOverInTime'
  BY <1>2, <1>10 DEF AfterFlush, WriteAllHandsOverInTime, WriteAllHandsOver
<1> QED
  BY <1>8, <1>9, <1>11, <1>12, <1>13, <1>14 DEF IoInv, OutBytes

\* trfb_io_write finds room for everything.
LEMMA WriteFitsKeeps ==
    ASSUME IoInv, WriteFits
    PROVE  IoInv'
<1>0. BufSiz \in Nat \ {0} /\ MaxOut \in Nat
  BY IoAssumption DEF IoAssumption
<1>1. /\ wlen \in 0..BufSiz /\ given \in 0..MaxOut /\ left \in 1..given /\ wire \in Seq(0..MaxOut)
      /\ wbuf \in [1..BufSiz -> 0..MaxOut] /\ Len(wire) \in Nat
      /\ Len(wire) + wlen = given - left /\ left <= BufSiz - wlen
  BY <1>0 DEF IoInv, TypeOK, Loops, Counted, WriteFits
<1>2. /\ wbuf' = Filled(wbuf, wlen, left, left) /\ wlen' = wlen + left /\ left' = 0 /\ pc' = "flush"
      /\ UNCHANGED <<stop, given, wire, met, inVars, sent>>
  BY DEF WriteFits
<1>3. /\ wbuf' \in [1..BufSiz -> 0..MaxOut]
      /\ \A i \in 1..wlen : wbuf'[i] = wbuf[i]
      /\ \A i \in wlen + 1..wlen + left : wbuf'[i] = given - left + (i - wlen)
  <2>1. left \in 0..given /\ left \in 0..left /\ wlen + left <= BufSiz
    BY <1>0, <1>1
  <2> QED
    BY <1>1, <1>2, <2>1, FilledBytes
<1>4. wlen' \in 1..BufSiz /\ left' \in 0..given'
  BY <1>0, <1>1, <1>2
<1>5. TypeOK'
  BY <1>2, <1>3, <1>4 DEF IoInv, TypeOK, inVars
<1>6. Loops' /\ Counted'
  BY <1>1, <1>2, <1>4 DEF Loops, Counted
<1>7. ASSUME "partial" \notin met, NEW i \in 1..wlen'
      PROVE  wbuf'[i] = Len(wire') + i
  <2>1. \A j \in 1..wlen : wbuf[j] = Len(wire) + j
    BY <1>7 DEF IoInv, OutBytes
  <2>2. CASE i \in 1..wlen
    BY <1>2, <1>3, <2>1, <2>2
  <2>3. CASE i \in wlen + 1..wlen + left
    <3>1. wbuf'[i] = given - left + (i - wlen)
      BY <1>3, <2>3
    <3>2. Len(wire') = Len(wire)
      BY <1>2
    <3>3. given - left + (i - wlen) = Len(wire) + i
      BY <1>1, <2>3
    <3> QED
      BY <3>1, <3>2, <3>3
  <2> QED
    BY <1>1, <1>2, <2>2, <2>3
<1>8. OutBytes'
  BY <1>2, <1>7 DEF IoInv, OutBytes
<1>9. InBytes' /\ WriteAllHandsOverInTime'
  BY <1>2 DEF IoInv, InBytes, inVars, WriteAllHandsOverInTime, WriteAllHandsOver
<1> QED
  BY <1>5, <1>6, <1>8, <1>9 DEF IoInv

\* trfb_io_read is served from the buffer.
LEMMA ReadBufferedKeeps ==
    ASSUME IoInv, ReadBuffered
    PROVE  IoInv'
<1>0. BufSiz \in Nat \ {0} /\ MaxIn \in Nat
  BY IoAssumption DEF IoAssumption
<1>1. /\ TypeOK /\ Deliver(rbuf, rpos, rlen) /\ UNCHANGED <<stop, outVars, rbuf, received, sent>>
      /\ rbuf \in [1..BufSiz -> 0..MaxIn] /\ rlen \in 0..BufSiz /\ rpos \in 0..rlen
      /\ \A i \in 1..Len(got) : got[i] = i
      /\ \A i \in rpos + 1..rlen : rbuf[i] = Len(got) + (i - rpos)
      /\ pc = "read" /\ left = 0
  BY DEF IoInv, TypeOK, InBytes, Loops, ReadBuffered
<1>2. /\ got' \in Seq(0..MaxIn) /\ want' \in Nat /\ rlen' \in 0..BufSiz /\ rpos' \in 0..rlen'
      /\ pc' \in {"idle", "read"}
      /\ Len(got') + (rlen' - rpos') = Len(got) + (rlen - rpos)
      /\ \A i \in 1..Len(got') : got'[i] = i
      /\ \A i \in rpos' + 1..rlen' : rbuf'[i] = Len(got') + (i - rpos')
  <2>1. rbuf' = rbuf
    BY <1>1
  <2> QED
    BY <1>1, <2>1, DeliverKeeps
<1>3. InBytes'
  <2>1. Len(got) + (rlen - rpos) = received /\ received' = received
    BY <1>1 DEF IoInv, InBytes
  <2> QED
    BY <1>2, <2>1 DEF InBytes
<1>4. TypeOK'
  BY <1>1, <1>2 DEF TypeOK, outVars
<1>5. Loops' /\ Counted' /\ OutBytes' /\ WriteAllHandsOverInTime'
  <2>1. UNCHANGED <<wbuf, wlen, given, left, wire, met>>
    BY <1>1 DEF outVars
  <2> QED
    BY <1>1, <1>2, <2>1 DEF IoInv, Loops, Counted, OutBytes, WriteAllHandsOverInTime, WriteAllHandsOver
<1> QED
  BY <1>3, <1>4, <1>5 DEF IoInv

\* It fills its empty buffer with what recv returns.
LEMMA ReadRefillsKeeps ==
    ASSUME IoInv, ReadRefills
    PROVE  IoInv'
<1>0. BufSiz \in Nat \ {0} /\ MaxIn \in Nat
  BY IoAssumption DEF IoAssumption
<1>1. PICK r \in 1..Lesser(BufSiz, sent - received) :
         rbuf' = Refilled(r) /\ received' = received + r /\ Deliver(Refilled(r), 0, r)
  BY DEF ReadRefills
<1>2. /\ TypeOK /\ UNCHANGED <<stop, outVars, sent>> /\ rpos >= rlen /\ pc = "read" /\ left = 0
      /\ rbuf \in [1..BufSiz -> 0..MaxIn] /\ rlen \in 0..BufSiz /\ rpos \in 0..rlen
      /\ sent \in 0..MaxIn /\ received \in 0..sent /\ got \in Seq(0..MaxIn) /\ Len(got) \in Nat
      /\ Len(got) + (rlen - rpos) = received /\ \A i \in 1..Len(got) : got[i] = i
  BY DEF IoInv, TypeOK, InBytes, Loops, ReadRefills, NeedsRefill
<1>3. r \in 1..BufSiz /\ received + r \in 0..sent
  BY <1>0, <1>2 DEF Lesser
<1>4. Len(got) = received
  BY <1>0, <1>2
<1>5. Refilled(r) \in [1..BufSiz -> 0..MaxIn] /\ \A i \in 0 + 1..r : Refilled(r)[i] = Len(got) + (i - 0)
  <2>1. \A i \in 1..BufSiz : (IF i <= r THEN received + i ELSE rbuf[i]) \in 0..MaxIn
    BY <1>0, <1>2, <1>3
  <2>2. ASSUME NEW i \in 0 + 1..r
        PROVE  Refilled(r)[i] = Len(got) + (i - 0)
    <3>1. i \in 1..BufSiz /\ i <= r /\ received + i = Len(got) + (i - 0)
      BY <1>0, <1>2, <1>3, <1>4
    <3> QED
      BY <3>1 DEF Refilled
  <2> QED
    BY <2>1, <2>2 DEF Refilled
<1>6. /\ got' \in Seq(0..MaxIn) /\ want' \in Nat /\ rlen' \in 0..BufSiz /\ rpos' \in 0..rlen'
      /\ pc' \in {"idle", "read"}
      /\ Len(got') + (rlen' - rpos') = Len(got) + (r - 0)
      /\ \A i \in 1..Len(got') : got'[i] = i
      /\ \A i \in rpos' + 1..rlen' : rbuf'[i] = Len(got') + (i - rpos')
  <2>1. r \in 0..BufSiz /\ 0 \in 0..r
    BY <1>0, <1>3
  <2> QED
    BY <1>1, <1>2, <1>5, <2>1, DeliverKeeps
<1>7. InBytes'
  <2>1. Len(got) + (r - 0) = received + r
    BY <1>2, <1>3, <1>4
  <2> QED
    BY <1>1, <1>6, <2>1 DEF InBytes
<1>8. TypeOK'
  <2>1. rbuf' \in [1..BufSiz -> 0..MaxIn] /\ received' \in 0..sent'
    BY <1>1, <1>2, <1>3, <1>5
  <2> QED
    BY <1>2, <1>6, <2>1 DEF TypeOK, outVars
<1>9. Loops' /\ Counted' /\ OutBytes' /\ WriteAllHandsOverInTime'
  <2>1. UNCHANGED <<wbuf, wlen, given, left, wire, met>>
    BY <1>2 DEF outVars
  <2> QED
    BY <1>2, <1>6, <2>1 DEF IoInv, Loops, Counted, OutBytes, WriteAllHandsOverInTime, WriteAllHandsOver
<1> QED
  BY <1>7, <1>8, <1>9 DEF IoInv

-----------------------------------------------------------------------------
(* The invariant. *)

THEOREM IoInvInit == Init => IoInv
<1> SUFFICES ASSUME Init PROVE IoInv
  OBVIOUS
<1>0. BufSiz \in Nat \ {0} /\ MaxOut \in Nat /\ MaxIn \in Nat
  BY IoAssumption DEF IoAssumption
<1>1. wbuf \in [1..BufSiz -> 0..MaxOut] /\ rbuf \in [1..BufSiz -> 0..MaxIn]
  BY <1>0 DEF Init
<1>2. wire = <<>> /\ wire \in Seq(0..MaxOut) /\ Len(wire) = 0 /\ 1..0 = {}
  BY EmptySeq DEF Init
<1>3. got = <<>> /\ got \in Seq(0..MaxIn) /\ Len(got) = 0
  BY EmptySeq DEF Init
<1>4. TypeOK
  <2>1. pc \in {"idle", "write", "flush", "read", "ended"} /\ stop \in BOOLEAN /\ met \subseteq OutcomeKinds
    BY Zenon DEF Init
  <2>2. /\ wlen \in 0..BufSiz /\ given \in 0..MaxOut /\ left \in 0..given /\ rlen \in 0..BufSiz
        /\ rpos \in 0..rlen /\ want \in Nat /\ sent \in 0..MaxIn /\ received \in 0..sent
    BY <1>0 DEF Init
  <2> QED
    BY <1>1, <1>2, <1>3, <2>1, <2>2 DEF TypeOK
<1>5. Loops /\ Counted /\ WriteAllHandsOverInTime
  BY <1>2 DEF Init, Loops, Counted, WriteAllHandsOverInTime, WriteAllHandsOver
<1>6. OutBytes
  BY <1>2 DEF Init, OutBytes
<1>7. InBytes
  BY <1>3 DEF Init, InBytes
<1> QED
  BY <1>4, <1>5, <1>6, <1>7 DEF IoInv

THEOREM IoInvStep == IoInv /\ [Next]_vars => IoInv'
<1> SUFFICES ASSUME IoInv, [Next]_vars PROVE IoInv'
  OBVIOUS
<1>0. MaxOut \in Nat /\ MaxIn \in Nat /\ Lens \subseteq Nat \ {0}
  BY IoAssumption DEF IoAssumption
<1>1. CASE BeginWrite
  <2>1. PICK n \in Lens : given + n <= MaxOut /\ given' = given + n /\ left' = n
    BY <1>1 DEF BeginWrite
  <2>2. /\ n \in Nat \ {0} /\ pc = "idle" /\ pc' = "write"
        /\ UNCHANGED <<stop, wbuf, wlen, wire, met, rbuf, rlen, rpos, want, received, got, sent>>
    BY <1>0, <1>1 DEF BeginWrite, inVars
  <2>3. given \in 0..MaxOut /\ left = 0 /\ Len(wire) + wlen = given - left
    BY <2>2 DEF IoInv, TypeOK, Loops, Counted
  <2>4. given' \in 0..MaxOut /\ left' \in 0..given' /\ left' > 0 /\ given' - left' = given
    BY <1>0, <2>1, <2>2, <2>3
  <2>5. TypeOK'
    BY <2>2, <2>4 DEF IoInv, TypeOK
  <2>6. Loops'
    BY <2>2, <2>4 DEF Loops
  <2>7. Counted'
    <3>1. given - left = given
      BY <2>3
    <3> QED
      BY <2>2, <2>3, <2>4, <3>1 DEF Counted
  <2>8. OutBytes' /\ InBytes' /\ WriteAllHandsOverInTime'
    BY <2>2 DEF IoInv, OutBytes, InBytes, WriteAllHandsOverInTime, WriteAllHandsOver
  <2> QED
    BY <2>5, <2>6, <2>7, <2>8 DEF IoInv
<1>2. CASE WriteFits
  BY <1>2, WriteFitsKeeps
<1>3. ASSUME NEW r \in -1..BufSiz, WriteCall(r)
      PROVE  IoInv'
  BY <1>3, WriteFlushesKeeps, FlushKeeps DEF WriteCall
<1>4. CASE BeginRead
  <2>1. PICK n \in Lens : want' = n
    BY <1>4 DEF BeginRead
  <2>2. /\ want' \in Nat /\ pc = "idle" /\ pc' = "read"
        /\ UNCHANGED <<stop, wbuf, wlen, given, left, wire, met, rbuf, rlen, rpos, received, got, sent>>
    BY <1>0, <1>4, <2>1 DEF BeginRead, outVars
  <2>3. TypeOK'
    BY <2>2 DEF IoInv, TypeOK
  <2>4. Loops' /\ Counted' /\ OutBytes' /\ InBytes' /\ WriteAllHandsOverInTime'
    BY <2>2 DEF IoInv, Loops, Counted, OutBytes, InBytes, WriteAllHandsOverInTime, WriteAllHandsOver
  <2> QED
    BY <2>3, <2>4 DEF IoInv
<1>5. CASE ReadBuffered
  BY <1>5, ReadBufferedKeeps
<1>6. CASE ReadRefills
  BY <1>6, ReadRefillsKeeps
<1>7. CASE ReadTimeout \/ ReadFails
  <2>1. /\ pc' = "ended"
        /\ UNCHANGED <<stop, wbuf, wlen, given, left, wire, met, rbuf, rlen, rpos, want, received, got, sent>>
    BY <1>7 DEF ReadTimeout, ReadFails, outVars, inVars
  <2>2. TypeOK'
    BY <2>1 DEF IoInv, TypeOK
  <2>3. Loops' /\ Counted' /\ OutBytes' /\ InBytes' /\ WriteAllHandsOverInTime'
    BY <2>1 DEF IoInv, Loops, Counted, OutBytes, InBytes, WriteAllHandsOverInTime, WriteAllHandsOver
  <2> QED
    BY <2>2, <2>3 DEF IoInv
<1>8. CASE PeerSends
  <2>1. PICK n \in Lens : sent + n <= MaxIn /\ sent' = sent + n
    BY <1>8 DEF PeerSends
  <2>2. UNCHANGED <<pc, stop, wbuf, wlen, given, left, wire, met, rbuf, rlen, rpos, want, received, got>>
    BY <1>8 DEF PeerSends, outVars, inVars
  <2>3. sent \in 0..MaxIn /\ received \in 0..sent
    BY DEF IoInv, TypeOK
  <2>4. n \in Nat
    BY <1>0
  <2>5. sent' \in 0..MaxIn /\ received \in 0..sent'
    BY <1>0, <2>1, <2>3, <2>4
  <2>6. TypeOK'
    BY <2>2, <2>5 DEF IoInv, TypeOK
  <2>7. Loops' /\ Counted' /\ OutBytes' /\ InBytes' /\ WriteAllHandsOverInTime'
    BY <2>2 DEF IoInv, Loops, Counted, OutBytes, InBytes, WriteAllHandsOverInTime, WriteAllHandsOver
  <2> QED
    BY <2>6, <2>7 DEF IoInv
<1>9. CASE StopAsked
  <2>1. /\ stop' = TRUE
        /\ UNCHANGED <<pc, wbuf, wlen, given, left, wire, met, rbuf, rlen, rpos, want, received, got, sent>>
    BY <1>9 DEF StopAsked, outVars, inVars
  <2>2. TypeOK'
    BY <2>1 DEF IoInv, TypeOK
  <2>3. Loops' /\ Counted' /\ OutBytes' /\ InBytes' /\ WriteAllHandsOverInTime'
    BY <2>1 DEF IoInv, Loops, Counted, OutBytes, InBytes, WriteAllHandsOverInTime, WriteAllHandsOver
  <2> QED
    BY <2>2, <2>3 DEF IoInv
<1>10. CASE UNCHANGED vars
  <2>1. UNCHANGED <<pc, stop, wbuf, wlen, given, left, wire, met, rbuf, rlen, rpos, want, received, got, sent>>
    BY <1>10 DEF vars, outVars, inVars
  <2>2. TypeOK'
    BY <2>1 DEF IoInv, TypeOK
  <2>3. Loops' /\ Counted' /\ OutBytes' /\ InBytes' /\ WriteAllHandsOverInTime'
    BY <2>1 DEF IoInv, Loops, Counted, OutBytes, InBytes, WriteAllHandsOverInTime, WriteAllHandsOver
  <2> QED
    BY <2>2, <2>3 DEF IoInv
<1> QED
  BY <1>1, <1>2, <1>3, <1>4, <1>5, <1>6, <1>7, <1>8, <1>9, <1>10 DEF Next, ReadCall

-----------------------------------------------------------------------------
(* What the runs check, for every buffer. *)

\* In every state the bytes are where IoInv says they are.
THEOREM BuffersAreSound == Spec => []IoInv
<1>1. Init => IoInv
  BY IoInvInit
<1>2. IoInv /\ [Next]_vars => IoInv'
  BY IoInvStep
<1> QED
  BY <1>1, <1>2, PTL DEF Spec

\* The indices of a buffer stay inside it, and the counts of bytes in range.
THEOREM BuffersAreTyped == Spec => []TypeOK
<1>1. IoInv => TypeOK
  BY DEF IoInv
<1> QED
  BY <1>1, BuffersAreSound, PTL

\* No byte is lost or written twice as far as counting goes, in however many
\* parts send takes them.
THEOREM WrittenBytesAreCounted == Spec => []OutCountRight
<1>1. IoInv => OutCountRight
  BY DEF IoInv, Counted, OutCountRight
<1> QED
  BY <1>1, BuffersAreSound, PTL

\* What read_all delivers is what the peer has sent, byte by byte.
LEMMA InBytesAreStream == IoInv => InStreamIntact
<1> SUFFICES ASSUME IoInv PROVE InStreamIntact
  OBVIOUS
<1> DEFINE part == Held(rbuf, rpos, rlen)
<1>0. BufSiz \in Nat \ {0} /\ MaxIn \in Nat
  BY IoAssumption DEF IoAssumption
<1>1. /\ rbuf \in [1..BufSiz -> 0..MaxIn] /\ rlen \in 0..BufSiz /\ rpos \in 0..rlen
      /\ got \in Seq(0..MaxIn) /\ Len(got) \in Nat /\ Len(got) + (rlen - rpos) = received /\ received \in 0..MaxIn
      /\ \A i \in 1..Len(got) : got[i] = i
      /\ \A i \in rpos + 1..rlen : rbuf[i] = Len(got) + (i - rpos)
  <2>1. sent \in 0..MaxIn /\ received \in 0..sent
    BY DEF IoInv, TypeOK
  <2>2. received \in 0..MaxIn
    BY <1>0, <2>1
  <2> QED
    BY <2>2 DEF IoInv, TypeOK, InBytes
<1>2. part \in Seq(0..MaxIn) /\ Len(part) = rlen - rpos /\ \A i \in 1..rlen - rpos : part[i] = rbuf[rpos + i]
  <2>1. rpos \in Nat /\ rlen \in -1..BufSiz
    BY <1>0, <1>1
  <2>2. Len(part) = (IF rlen > rpos THEN rlen - rpos ELSE 0)
    BY <1>1, <2>1, PartIn
  <2>3. part \in Seq(0..MaxIn) /\ \A i \in 1..rlen - rpos : part[i] = rbuf[rpos + i]
    BY <1>1, <2>1, PartIn
  <2> QED
    BY <1>0, <1>1, <2>2, <2>3
<1> HIDE DEF part
<1>3. /\ got \o part \in Seq(0..MaxIn)
      /\ Len(got \o part) = Len(got) + Len(part)
      /\ \A i \in 1..Len(got) + Len(part) :
            (got \o part)[i] = IF i <= Len(got) THEN got[i] ELSE part[i - Len(got)]
  <2>1. got \in Seq(0..MaxIn) /\ part \in Seq(0..MaxIn)
    BY <1>1, <1>2
  <2> QED
    BY <2>1, ConcatProperties, ZenonT(60)
<1>4. Len(got) + Len(part) = received
  BY <1>1, <1>2
<1>5. ASSUME NEW i \in 1..received
      PROVE  (got \o part)[i] = i
  <2>1. CASE i <= Len(got)
    BY <1>0, <1>1, <1>3, <1>4, <2>1
  <2>2. CASE i > Len(got)
    <3>1. PICK j \in 1..rlen - rpos : i = Len(got) + j
      <4>1. i - Len(got) \in 1..rlen - rpos /\ i = Len(got) + (i - Len(got))
        BY <1>0, <1>1, <2>2
      <4> QED
        BY <4>1
    <3>2. (got \o part)[i] = part[j]
      BY <1>0, <1>1, <1>3, <1>4, <2>2, <3>1
    <3>3. rpos + j \in rpos + 1..rlen /\ (rpos + j) - rpos = j
      BY <1>0, <1>1, <3>1
    <3>4. rbuf[rpos + j] = i
      BY <1>1, <3>1, <3>3
    <3> QED
      BY <1>2, <3>1, <3>2, <3>4
  <2>3. i <= Len(got) \/ i > Len(got)
    <3>1. received \in Int /\ Len(got) \in Int
      BY <1>0, <1>1
    <3> QED
      BY <3>1
  <2> QED
    BY <2>1, <2>2, <2>3, Zenon
<1>6. got \o part = Stream(received)
  BY <1>3, <1>4, <1>5, StreamByBytes
<1> QED
  BY <1>6 DEF InStreamIntact, part

THEOREM ReadsDeliverTheStream == Spec => []InStreamIntact
<1> QED
  BY InBytesAreStream, BuffersAreSound, PTL

\* Until send takes a part of the buffer for the first time, the socket and
\* the buffer hold what was written, byte by byte.
LEMMA OutBytesAreStream == IoInv => OutStreamIntactWhenWhole
<1> SUFFICES ASSUME IoInv, "partial" \notin met PROVE OutStreamIntact
  BY DEF OutStreamIntactWhenWhole
<1> DEFINE part == Held(wbuf, 0, wlen)
<1>0. BufSiz \in Nat \ {0} /\ MaxOut \in Nat
  BY IoAssumption DEF IoAssumption
<1>1. /\ wbuf \in [1..BufSiz -> 0..MaxOut] /\ wlen \in 0..BufSiz /\ wire \in Seq(0..MaxOut)
      /\ Len(wire) \in Nat /\ Len(wire) + wlen = given - left
      /\ \A i \in 1..Len(wire) : wire[i] = i
      /\ \A i \in 1..wlen : wbuf[i] = Len(wire) + i
  BY DEF IoInv, TypeOK, Counted, OutBytes
<1>2. part \in Seq(0..MaxOut) /\ Len(part) = wlen /\ \A i \in 1..wlen : part[i] = wbuf[i]
  <2>1. 0 \in Nat /\ wlen \in -1..BufSiz /\ wlen - 0 = wlen /\ \A i \in 1..wlen : 0 + i = i
    BY <1>0, <1>1
  <2>2. /\ Held(wbuf, 0, wlen) \in Seq(0..MaxOut)
        /\ Len(Held(wbuf, 0, wlen)) = (IF wlen > 0 THEN wlen - 0 ELSE 0)
        /\ \A i \in 1..wlen - 0 : Held(wbuf, 0, wlen)[i] = wbuf[0 + i]
    <3>1. PICK max \in Nat : max = MaxOut
      BY <1>0
    <3>2. wbuf \in [1..BufSiz -> 0..max]
      BY <1>1, <3>1
    <3>3. /\ Held(wbuf, 0, wlen) \in Seq(0..max)
          /\ Len(Held(wbuf, 0, wlen)) = (IF wlen > 0 THEN wlen - 0 ELSE 0)
          /\ \A i \in 1..wlen - 0 : Held(wbuf, 0, wlen)[i] = wbuf[0 + i]
      BY <2>1, <3>2, HeldIsSeq, ZenonT(60)
    <3> QED
      BY <3>1, <3>3
  <2> QED
    BY <1>0, <1>1, <2>1, <2>2
<1> HIDE DEF part
<1>3. /\ wire \o part \in Seq(0..MaxOut)
      /\ Len(wire \o part) = Len(wire) + Len(part)
      /\ \A i \in 1..Len(wire) + Len(part) :
            (wire \o part)[i] = IF i <= Len(wire) THEN wire[i] ELSE part[i - Len(wire)]
  <2>1. wire \in Seq(0..MaxOut) /\ part \in Seq(0..MaxOut)
    BY <1>1, <1>2
  <2> QED
    BY <2>1, ConcatProperties, ZenonT(60)
<1>4. Len(wire) + Len(part) = Len(wire) + wlen
  BY <1>2
<1>5. ASSUME NEW i \in 1..Len(wire) + wlen
      PROVE  (wire \o part)[i] = i
  <2>1. CASE i <= Len(wire)
    BY <1>0, <1>1, <1>3, <1>4, <2>1
  <2>2. CASE i > Len(wire)
    <3>1. PICK j \in 1..wlen : i = Len(wire) + j
      <4>1. i - Len(wire) \in 1..wlen /\ i = Len(wire) + (i - Len(wire))
        BY <1>0, <1>1, <2>2
      <4> QED
        BY <4>1
    <3>2. (wire \o part)[i] = part[j]
      BY <1>0, <1>1, <1>3, <1>4, <2>2, <3>1
    <3> QED
      BY <1>1, <1>2, <3>1, <3>2
  <2>3. i <= Len(wire) \/ i > Len(wire)
    <3>1. Len(wire) + wlen \in Int /\ Len(wire) \in Int
      BY <1>0, <1>1
    <3> QED
      BY <3>1
  <2> QED
    BY <2>1, <2>2, <2>3, Zenon
<1>6. wire \o part = Stream(Len(wire) + wlen)
  BY <1>3, <1>4, <1>5, StreamByBytes
<1> QED
  BY <1>1, <1>6 DEF OutStreamIntact, part

THEOREM WritesKeepTheStream == Spec => []OutStreamIntactWhenWhole
<1> QED
  BY OutBytesAreStream, BuffersAreSound, PTL

\* As long as no write times out, a call of write_all that has returned has
\* left nothing in the buffer.
THEOREM WritesAreHandedOver == Spec => []WriteAllHandsOverInTime
<1>1. IoInv => WriteAllHandsOverInTime
  BY DEF IoInv
<1> QED
  BY <1>1, BuffersAreSound, PTL

-----------------------------------------------------------------------------
(* A write that is asked to stop returns.                                    *)

\* the calls of trfb_io_write and trfb_io_flush that remain at most
CallsToReturn ==
    CASE pc = "write" -> left + 1
      [] pc = "flush" -> 1
      [] OTHER        -> 0

\* In a thread that is asked to stop each call the write makes brings its end
\* nearer, whatever the call meets: a call that takes no byte is the last one.
StopBoundsWrite ==
    [][stop /\ pc \in {"write", "flush"} =>
         \/ UNCHANGED <<stop, outVars, pc>>
         \/ stop' /\ CallsToReturn' < CallsToReturn]_vars

LEMMA WriteFlushesNears ==
    ASSUME IoInv, stop, NEW r \in -1..BufSiz, WriteFlushes(r)
    PROVE  CallsToReturn' < CallsToReturn
<1> DEFINE room == BufSiz - wlen
           rest == left - room
           len  == Remaining(BufSiz, r)
           n    == IF r = -1 THEN 0 ELSE Lesser(BufSiz - len, rest)
<1>1. BufSiz \in Nat /\ wlen \in 0..BufSiz /\ left \in Nat /\ left > room /\ pc = "write"
  BY IoAssumption DEF IoAssumption, IoInv, TypeOK, WriteFlushes
<1>2. /\ left' = rest - n
      /\ pc' = IF r = -1 THEN "ended" ELSE AfterWrite(room + n, rest - n)
  BY DEF WriteFlushes
<1>3. room \in Nat /\ rest \in Nat /\ rest <= left /\ len \in 0..BufSiz
  BY <1>1 DEF Remaining
<1>4. n \in Nat /\ n <= rest
  BY <1>1, <1>3 DEF Lesser
<1>5. CASE pc' = "ended"
  BY <1>1, <1>5 DEF CallsToReturn
<1>6. CASE pc' # "ended"
  <2>1. room + n # 0 /\ pc' \in {"flush", "write"}
    BY <1>2, <1>6 DEF AfterWrite
  <2>2. left' = left - (room + n) /\ left' < left /\ left' \in Nat /\ left > 0
    BY <1>1, <1>2, <1>3, <1>4, <2>1
  <2> HIDE DEF room, rest, len, n
  <2> QED
    BY <1>1, <2>1, <2>2 DEF CallsToReturn
<1> QED
  BY <1>5, <1>6

\* A thread asked to stop in trfb_connection_write_all leaves it after at most
\* one call for each byte not yet buffered, and a last one.
THEOREM StopEndsWriteInTime == Spec => StopBoundsWrite
<1> DEFINE Bounded == stop /\ pc \in {"write", "flush"} =>
                        \/ UNCHANGED <<stop, outVars, pc>>
                        \/ stop' /\ CallsToReturn' < CallsToReturn
<1>1. IoInv /\ [Next]_vars => [Bounded]_vars
  <2> SUFFICES ASSUME IoInv, Next, stop, pc \in {"write", "flush"}
               PROVE  Bounded
    OBVIOUS
  <2>1. CASE WriteFits
    <3>1. stop' /\ CallsToReturn' = 1 /\ CallsToReturn = left + 1 /\ left \in Nat /\ left > 0
      BY <2>1 DEF WriteFits, CallsToReturn, IoInv, TypeOK, Loops
    <3> QED
      BY <3>1
  <2>2. ASSUME NEW r \in -1..BufSiz, WriteFlushes(r)
        PROVE  Bounded
    <3>1. stop' = stop
      BY <2>2 DEF WriteFlushes
    <3> QED
      BY <2>2, <3>1, WriteFlushesNears
  <2>3. ASSUME NEW r \in -1..BufSiz, Flush(r)
        PROVE  Bounded
    <3>1. stop' = stop /\ pc = "flush" /\ pc' \in {"idle", "ended"}
      BY <2>3 DEF Flush, AfterFlush
    <3> QED
      BY <3>1 DEF CallsToReturn
  <2>4. CASE PeerSends
    BY <2>4 DEF PeerSends
  <2>5. CASE BeginWrite \/ BeginRead \/ ReadCall \/ StopAsked
    BY <2>5 DEF BeginWrite, BeginRead, ReadCall, ReadBuffered, ReadRefills, ReadTimeout,
       ReadFails, StopAsked
  <2> QED
    BY <2>1, <2>2, <2>3, <2>4, <2>5 DEF Next, WriteCall
<1> QED
  BY <1>1, BuffersAreSound, PTL DEF Spec, StopBoundsWrite

=============================================================================
