--------------------------- MODULE DialogueProofs ---------------------------
(***************************************************************************)
(* Proofs about what the two sides of a connection have said to each       *)
(* other, for any versions, messages, sizes and bounds: that Session       *)
(* implements Dialogue, and that the client keeps its step.                *)
(***************************************************************************)
EXTENDS SessionProofs, FiniteSetTheorems, WellFoundedInduction

\* The request that is being answered, and the answer that is made of it.
RequestKept ==
    /\ handled <= Len(asked)
    /\ pc = "convert" => rect = Coming.rect
    /\ pc \in {"header", "payload"} =>
          /\ rect.x = Coming.rect.x /\ rect.y = Coming.rect.y
          /\ rect.w <= Coming.rect.w /\ rect.h <= Coming.rect.h
          /\ ~Ignored(rect) /\ format # 0
\* Each answer has its number.
AnswersRanked == \A k \in 1..Cardinality(Answers) : OfRank(Answers, k) # {}

DInv == SInv /\ RequestKept /\ AnswersRanked

\* What the thread says before it takes requests, and in which order it says
\* everything.
Greeting == IF Spoken = 8 THEN 4 ELSE 3
Pairs(n) == n >= Greeting /\ (n - Greeting) % 2 = 0
WordAt(i) ==
    IF i = 1 THEN "version"
    ELSE IF i = 2 THEN IF Spoken = 3 THEN "sectype" ELSE "sectypes"
    ELSE IF i = 3 /\ Spoken = 8 THEN "result"
    ELSE IF i = Greeting THEN "serverinit"
    ELSE IF (i - Greeting) % 2 = 1 THEN "header" ELSE "payload"
LengthAt(place, n) ==
    /\ place = "offer" => n = 0
    /\ place \in {"version", "security"} => n = 1
    /\ place \in {"choice", "result"} => n = 2
    /\ place \in {"clientinit"} \cup Sizing => n = Greeting - 1
    /\ place \in {"type"} \cup (Inside \ {"payload"}) => Pairs(n)
    /\ place = "payload" => Pairs(n - 1)
SaidAt ==
    /\ heard <= flushed /\ flushed <= Len(said)
    /\ \A i \in 1..Len(said) : said[i].kind = WordAt(i)
    /\ Len(said) >= 2 => Len(asked) >= 1
    /\ LengthAt(pc, Len(said))
HeardAt ==
    /\ client = "version" => heard = 0
    /\ client = "security" => heard = 1
    /\ client = "result" => heard = 2
    /\ client \in {"init", "serverinit"} => heard = Greeting - 1
    /\ client = "ready" => Pairs(heard)

\* As long as the hypotheses of ClientInStep hold, each answer is of the whole
\* screen, and in the format of the request it is the answer to.
Usual == resizes = 0 /\ AsksForAll /\ ScreenBytes = 4
Answering(i) ==
    /\ said[i].rect = Whole(screen) /\ said[i - 1].rect = Whole(screen)
    /\ \E q \in UpdatesIn(Len(asked)) :
          /\ Cardinality(UpdatesIn(q)) = Cardinality(AnswersIn(i))
          /\ said[i].n = ClientFormat(q)
AnswersAgree ==
    Usual =>
        /\ resizing = NoSize /\ client # "adrift"
        /\ FormatToSend = ClientFormat(handled)
        /\ Cardinality(Answers) = Cardinality(UpdatesIn(handled))
        /\ pc \in {"header", "payload"} => rect = Whole(screen) /\ size = screen
        /\ pc = "payload" => said[Len(said)].rect = Whole(screen)
        /\ \A i \in Answers : Answering(i)

\* A resize that is under way has been counted.
Still == resizes = 0 => resizing = NoSize
CInv == DInv /\ Still /\ SaidAt /\ HeardAt /\ AnswersAgree

-----------------------------------------------------------------------------
(* Places of a set, in order *)

LEMMA RanksOf ==
    ASSUME NEW n \in Nat, NEW S \in SUBSET (1..n)
    PROVE  /\ IsFiniteSet(S) /\ Cardinality(S) \in Nat
           /\ \A i : /\ IsFiniteSet({j \in S : j <= i})
                     /\ Cardinality({j \in S : j <= i}) \in 0..Cardinality(S)
<1>1. IsFiniteSet(1..n)
  BY FS_Interval
<1>2. IsFiniteSet(S)
  BY <1>1, FS_Subset
<1>3. Cardinality(S) \in Nat
  BY <1>2, FS_CardinalityType
<1>4. ASSUME NEW i
      PROVE  IsFiniteSet({j \in S : j <= i}) /\ Cardinality({j \in S : j <= i}) \in 0..Cardinality(S)
  <2>1. {j \in S : j <= i} \in SUBSET S
    OBVIOUS
  <2>2. IsFiniteSet({j \in S : j <= i}) /\ Cardinality({j \in S : j <= i}) <= Cardinality(S)
    BY <1>2, <2>1, FS_Subset
  <2>3. Cardinality({j \in S : j <= i}) \in Nat
    BY <2>2, FS_CardinalityType
  <2> QED
    BY <1>3, <2>2, <2>3
<1> QED
  BY <1>2, <1>3, <1>4

\* One more place behind the others takes no number from them.
LEMMA RanksKept ==
    ASSUME NEW n \in Nat, NEW S \in SUBSET (1..n)
    PROVE  /\ Cardinality(S \cup {n + 1}) = Cardinality(S) + 1
           /\ \A k \in 1..Cardinality(S) : OfRank(S \cup {n + 1}, k) = OfRank(S, k)
           /\ OfRank(S \cup {n + 1}, Cardinality(S) + 1) = {n + 1}
<1> DEFINE T == S \cup {n + 1}
<1>0. /\ \A j \in S : j \in Int /\ j <= n
      /\ n + 1 \notin S
  OBVIOUS
<1>1. IsFiniteSet(S) /\ Cardinality(S) \in Nat /\ n + 1 \notin S
  BY <1>0, RanksOf, Zenon
<1>2. Cardinality(T) = Cardinality(S) + 1
  BY <1>1, FS_AddElement
<1>3. \A i \in S : {j \in T : j <= i} = {j \in S : j <= i}
  OBVIOUS
<1>4. {j \in T : j <= n + 1} = T
  <2>1. \A j \in T : j <= n + 1
    BY <1>0
  <2> QED
    BY <2>1
<1>5. \A i \in S : Cardinality({j \in T : j <= i}) \in 0..Cardinality(S)
  BY <1>3, RanksOf
<1>6. ASSUME NEW k \in 1..Cardinality(S)
      PROVE  OfRank(T, k) = OfRank(S, k)
  <2>1. Cardinality(T) # k
    BY <1>1, <1>2
  <2>2. \A i \in T : Cardinality({j \in T : j <= i}) = k => i \in S
    BY <1>2, <1>4, <2>1
  <2> QED
    BY <1>3, <2>2 DEF OfRank
<1>7. OfRank(T, Cardinality(S) + 1) = {n + 1}
  <2>1. \A i \in S : Cardinality({j \in T : j <= i}) # Cardinality(S) + 1
    BY <1>1, <1>5
  <2> QED
    BY <1>2, <1>4, <2>1 DEF OfRank
<1> QED
  BY <1>2, <1>6, <1>7

\* No two places have one number.
LEMMA RankIsUnique ==
    ASSUME NEW n \in Nat, NEW S \in SUBSET (1..n), NEW i \in S, NEW q \in S,
           Cardinality({j \in S : j <= i}) = Cardinality({j \in S : j <= q})
    PROVE  i = q
<1>1. ASSUME NEW a \in S, NEW b \in S, a < b,
             Cardinality({j \in S : j <= a}) = Cardinality({j \in S : j <= b})
      PROVE  FALSE
  <2>1. IsFiniteSet({j \in S : j <= b})
    BY RanksOf
  <2>2. {j \in S : j <= a} \in SUBSET {j \in S : j <= b}
    <3>1. \A j \in S : j \in Int
      OBVIOUS
    <3>2. \A j \in S : j <= a => j <= b
      BY <1>1, <3>1
    <3> QED
      BY <3>2
  <2>3. {j \in S : j <= a} = {j \in S : j <= b}
    BY <1>1, <2>1, <2>2, FS_Subset
  <2> QED
    BY <1>1, <2>3
<1>2. i < q \/ q < i \/ i = q
  OBVIOUS
<1> QED
  BY <1>1, <1>2

LEMMA ElementTyped ==
    ASSUME NEW S, NEW s \in Seq(S)
    PROVE  \A i \in 1..Len(s) : s[i] \in S
OBVIOUS

\* The words said, the messages asked: one more at the end.
LEMMA SaidGrows ==
    ASSUME OutTyped, NEW word \in [kind : Kinds, rect : Rects, n : Nat], said' = Append(said, word)
    PROVE  /\ Len(said) \in Nat /\ Len(said') = Len(said) + 1 /\ said'[Len(said) + 1] = word
           /\ \A i \in 1..Len(said) : said'[i] = said[i]
BY AppendGrows DEF OutTyped

\* What is said besides is no answer, and an answer takes the next number.
LEMMA AnswersSame ==
    ASSUME UNCHANGED said, AnswersRanked
    PROVE  Answers' = Answers /\ AnswerFormats' = AnswerFormats /\ AnswersRanked'
<1>1. Answers' = Answers
  BY DEF Answers, AnswersIn
<1> QED
  BY <1>1 DEF AnswerFormats, AnswersRanked
LEMMA AnswersOther ==
    ASSUME OutTyped, AnswersRanked, NEW word \in [kind : Kinds, rect : Rects, n : Nat],
           said' = Append(said, word), word.kind # "payload"
    PROVE  Answers' = Answers /\ AnswerFormats' = AnswerFormats /\ AnswersRanked'
<1>1. /\ Len(said) \in Nat /\ Len(said') = Len(said) + 1 /\ said'[Len(said) + 1] = word
      /\ \A i \in 1..Len(said) : said'[i] = said[i]
  BY SaidGrows
<1>2. Answers' = Answers
  BY <1>1 DEF Answers, AnswersIn
<1>3. ASSUME NEW k \in 1..Cardinality(Answers)
      PROVE  said'[KthOf(Answers, k)].n = said[KthOf(Answers, k)].n
  <2>1. OfRank(Answers, k) # {}
    BY <1>3 DEF AnswersRanked
  <2>2. KthOf(Answers, k) \in OfRank(Answers, k)
    BY <2>1 DEF KthOf
  <2>3. KthOf(Answers, k) \in 1..Len(said)
    BY <2>2 DEF OfRank, Answers, AnswersIn
  <2> QED
    BY <1>1, <2>3
<1> QED
  BY <1>2, <1>3 DEF AnswerFormats, AnswersRanked

\* There are as many formats as answers.
LEMMA AnswersCount ==
    ASSUME OutTyped, AnswersRanked
    PROVE  /\ Cardinality(Answers) \in Nat
           /\ AnswerFormats \in Seq(Nat) /\ Len(AnswerFormats) = Cardinality(Answers)
<1> DEFINE c == Cardinality(Answers)
<1>0. Len(said) \in Nat /\ said \in Seq([kind : Kinds, rect : Rects, n : Nat])
  BY DEF OutTyped
<1>1. c \in Nat
  <2>1. Answers \in SUBSET (1..Len(said))
    BY DEF Answers, AnswersIn
  <2> QED
    BY <1>0, <2>1, RanksOf
<1>2. AnswerFormats = [k \in 1..c |-> said[KthOf(Answers, k)].n]
  BY DEF AnswerFormats
<1>3. ASSUME NEW k \in 1..c
      PROVE  said[KthOf(Answers, k)].n \in Nat
  <2>1. OfRank(Answers, k) # {}
    BY DEF AnswersRanked
  <2>2. KthOf(Answers, k) \in OfRank(Answers, k)
    BY <2>1 DEF KthOf
  <2>3. KthOf(Answers, k) \in 1..Len(said)
    BY <2>2 DEF OfRank, Answers, AnswersIn
  <2>4. said[KthOf(Answers, k)] \in [kind : Kinds, rect : Rects, n : Nat]
    BY <1>0, <2>3, ElementTyped
  <2> QED
    BY <2>4
<1> HIDE DEF c
<1>4. AnswerFormats \in Seq(Nat) /\ Len(AnswerFormats) = c
  BY <1>1, <1>2, <1>3
<1> QED
  BY <1>1, <1>4 DEF c
LEMMA AnswersMore ==
    ASSUME OutTyped, AnswersRanked, NEW word \in [kind : Kinds, rect : Rects, n : Nat],
           said' = Append(said, word), word.kind = "payload"
    PROVE  /\ Answers' = Answers \cup {Len(said) + 1}
           /\ Cardinality(Answers') = Cardinality(Answers) + 1
           /\ AnswerFormats' = Append(AnswerFormats, word.n)
           /\ AnswersRanked'
<1>1. /\ Len(said) \in Nat /\ Len(said') = Len(said) + 1 /\ said'[Len(said) + 1] = word
      /\ \A i \in 1..Len(said) : said'[i] = said[i]
  BY SaidGrows
<1>2. Answers' = Answers \cup {Len(said) + 1} /\ Answers \in SUBSET (1..Len(said))
  BY <1>1 DEF Answers, AnswersIn
<1>a. Len(said) \in Nat
  BY <1>1
<1>3. /\ Cardinality(Answers') = Cardinality(Answers) + 1
      /\ \A k \in 1..Cardinality(Answers) : OfRank(Answers', k) = OfRank(Answers, k)
      /\ OfRank(Answers', Cardinality(Answers) + 1) = {Len(said) + 1}
  <2> DEFINE More == Answers \cup {Len(said) + 1}
  <2>1. /\ Cardinality(More) = Cardinality(Answers) + 1
        /\ \A k \in 1..Cardinality(Answers) : OfRank(More, k) = OfRank(Answers, k)
        /\ OfRank(More, Cardinality(Answers) + 1) = {Len(said) + 1}
    BY <1>a, <1>2, RanksKept
  <2> QED
    BY <1>2, <2>1
<1>4. Cardinality(Answers) \in Nat
  BY <1>1, <1>2, RanksOf
<1> DEFINE c == Cardinality(Answers)
<1>5. ASSUME NEW k \in 1..c
      PROVE  said'[KthOf(Answers', k)].n = said[KthOf(Answers, k)].n
  <2>1. OfRank(Answers, k) # {}
    BY DEF AnswersRanked
  <2>2. KthOf(Answers, k) \in OfRank(Answers, k) /\ KthOf(Answers', k) = KthOf(Answers, k)
    BY <1>3, <2>1 DEF KthOf
  <2>3. KthOf(Answers, k) \in 1..Len(said)
    BY <2>2 DEF OfRank, Answers, AnswersIn
  <2> QED
    BY <1>1, <2>2, <2>3
<1>6. said'[KthOf(Answers', c + 1)].n = word.n
  <2>1. KthOf(Answers', c + 1) = Len(said) + 1
    BY <1>3 DEF KthOf
  <2> QED
    BY <1>1, <2>1
<1> HIDE DEF c
<1>7. AnswerFormats = [k \in 1..c |-> said[KthOf(Answers, k)].n]
  BY DEF AnswerFormats, c
<1>8. AnswerFormats' = [k \in 1..(c + 1) |-> said'[KthOf(Answers', k)].n]
  BY <1>3 DEF AnswerFormats, c
<1>9. AnswerFormats' = Append(AnswerFormats, word.n)
  <2>1. c \in Nat
    BY <1>4 DEF c
  <2>2. AnswerFormats \in Seq(Nat) /\ Len(AnswerFormats) = c
    BY AnswersCount DEF c
  <2> DEFINE more == Append(AnswerFormats, word.n)
  <2>3. word.n \in Nat
    OBVIOUS
  <2>4. /\ more \in Seq(Nat) /\ Len(more) = c + 1 /\ more[c + 1] = word.n
        /\ \A k \in 1..c : more[k] = AnswerFormats[k]
    BY <2>2, <2>3, AppendProperties
  <2> HIDE DEF more
  <2>5. \A k \in 1..c : AnswerFormats[k] = said[KthOf(Answers, k)].n
    BY <1>7
  <2>6. \A k \in 1..(c + 1) : k \in 1..c \/ k = c + 1
    BY <2>1
  <2>7. \A k \in 1..(c + 1) : said'[KthOf(Answers', k)].n = more[k]
    BY <1>5, <1>6, <2>4, <2>5, <2>6
  <2>8. more = [k \in 1..(c + 1) |-> more[k]]
    BY <2>4
  <2>9. AnswerFormats' = more
    BY <1>8, <2>7, <2>8
  <2> QED
    BY <2>9 DEF more
<1>10. AnswersRanked'
  <2>1. ASSUME NEW k \in 1..(c + 1)
        PROVE  OfRank(Answers', k) # {}
    <3>1. CASE k \in 1..c
      BY <1>3, <3>1 DEF c, AnswersRanked
    <3>2. CASE k = c + 1
      <4>1. OfRank(Answers', c + 1) = {Len(said) + 1}
        BY <1>3 DEF c
      <4> QED
        BY <3>2, <4>1
    <3> QED
      BY <1>4, <3>1, <3>2 DEF c
  <2> QED
    BY <1>3, <2>1 DEF AnswersRanked, c
<1> QED
  BY <1>2, <1>3, <1>9, <1>10

-----------------------------------------------------------------------------
(* Session implements Dialogue *)

Open == pc \notin {"adrift", "ended"}
dialogueVars == <<asked, handled, events, AnswerFormats, FormatToSend, pc \notin {"adrift", "ended"}>>

LEMMA FinishedIs ==
    ASSUME NEW inStep, NEW k, NEW next, Finished(inStep, k, next)
    PROVE  \/ inStep /\ handled' = handled + 1 /\ pc' = next
           \/ handled' = handled /\ pc' = "adrift"
BY DEF Finished, inVars
LEMMA ReadsOnIs ==
    ASSUME NEW next, ReadsOn(next)
    PROVE  handled' = handled /\ pc' \in {next, "adrift"}
BY DEF ReadsOn

\* What leaves the messages alone is a stutter or the end, ...
LEMMA StutterOrEnd ==
    ASSUME Open, UNCHANGED <<asked, handled, events>>,
           AnswerFormats' = AnswerFormats, FormatToSend' = FormatToSend
    PROVE  [Promise!Next]_dialogueVars
<1>1. CASE Open'
  <2>1. (pc \notin {"adrift", "ended"})' = (pc \notin {"adrift", "ended"})
    BY <1>1, Zenon DEF Open
  <2> QED
    BY <2>1, Zenon DEF dialogueVars
<1>2. CASE ~Open'
  BY <1>2 DEF Open, Promise!Next, Promise!Close
<1> QED
  BY <1>1, <1>2
\* ... and so is what leaves an event behind when it ends.
LEMMA EventAndEnd ==
    ASSUME Open, ~Open', UNCHANGED <<asked, handled>>, EventsTyped,
           NEW e \in [type : {"key", "pointer", "text"}, n : Int], events' = Append(events, e),
           AnswerFormats' = AnswerFormats, FormatToSend' = FormatToSend
    PROVE  [Promise!Next]_dialogueVars
<1>1. /\ Len(events) \in Nat /\ Len(events') = Len(events) + 1
      /\ \A i \in 1..Len(events) : events'[i] = events[i]
      /\ events' \in Seq([type : {"key", "pointer", "text"}, n : Int])
  BY AppendGrows, AppendProperties DEF EventsTyped
<1>2. SubSeq(events', 1, Len(events)) = events
  BY <1>1 DEF EventsTyped
<1> QED
  BY <1>1, <1>2, Zenon DEF Open, Promise!Next, Promise!Close

\* A message takes effect.
LEMMA Served ==
    ASSUME Open, Open', handled < Len(asked), handled' = handled + 1, UNCHANGED asked,
           events' = IF Coming.type \in {"key", "pointer", "text"}
                     THEN Append(events, [type |-> Coming.type, n |-> Coming.n]) ELSE events,
           FormatToSend' = IF Coming.type = "format" THEN Coming.n ELSE FormatToSend,
           \/ /\ Coming.type = "update" /\ Coming.rect.x <= Coming.rect.w /\ Coming.rect.y <= Coming.rect.h
              /\ AnswerFormats' = Append(AnswerFormats, FormatToSend)
           \/ /\ Coming.type = "update" => Coming.rect.x # 0 \/ Coming.rect.y # 0
              /\ AnswerFormats' = AnswerFormats
    PROVE  [Promise!Next]_dialogueVars
<1>1. (pc \notin {"adrift", "ended"})' = (pc \notin {"adrift", "ended"})
  BY Zenon DEF Open
<1>2. Promise!Serve
  BY <1>1 DEF Open, Coming, Promise!Serve, Promise!EventTypes, Promise!EventOf,
     Promise!MayAnswer, Promise!MayKeepSilent
<1> QED
  BY <1>2 DEF Promise!Next

LEMMA FormatStays ==
    ASSUME format' = format \/ format' = FormatToSend, ScreenBytes # 0
    PROVE  FormatToSend' = FormatToSend
BY DEF FormatToSend
LEMMA ScreenHasBytes == ScreenBytes \in {1, 2, 4}
BY SessionAssumption DEF SessionAssumption

\* Outside of an answer there is nothing to keep.
LEMMA NothingKept ==
    ASSUME handled' <= Len(asked'), pc' \notin {"convert", "header", "payload"}
    PROVE  RequestKept'
BY DEF RequestKept

\* The negotiation.
LEMMA NegotiateServes ==
    ASSUME DInv, Negotiate
    PROVE  [Promise!Next]_dialogueVars /\ RequestKept' /\ AnswersRanked'
<1>0. /\ AnswersRanked /\ OutTyped /\ ClientTyped /\ InTyped /\ handled \in Nat /\ Len(asked) \in Nat
      /\ handled <= Len(asked) /\ NoRect \in Rects /\ Whole(size) \in Rects /\ ScreenBytes # 0
  <2>1. Whole(size) \in Rects
    BY MessageTyped, ClippedTyped DEF DInv, SInv, TypeOK
  <2> QED
    BY <2>1, TypeByParts, MessageTyped, ScreenHasBytes DEF DInv, SInv, TypeOK, RequestKept
<1>1. UNCHANGED <<asked, events>> /\ (format' = format) /\ Open
  BY DEF Negotiate, OfferVersion, ReadVersion, WriteSecurity, ReadChoice, WriteResult, ReadClientInit,
         ReadSize, WriteServerInit, Writes, OutsideSame, clientVars, threadVars, Reads, Open
<1>2. FormatToSend' = FormatToSend
  BY <1>0, <1>1, FormatStays
<1>3. ASSUME UNCHANGED handled, AnswerFormats' = AnswerFormats, AnswersRanked',
             pc' \notin {"convert", "header", "payload"}
      PROVE  [Promise!Next]_dialogueVars /\ RequestKept' /\ AnswersRanked'
  BY <1>0, <1>1, <1>2, <1>3, StutterOrEnd, NothingKept
<1>4. ASSUME NEW kind \in Kinds \ {"payload"}, NEW r \in Rects, NEW n \in Nat, Say(kind, r, n),
             UNCHANGED handled, pc' \notin {"convert", "header", "payload"}
      PROVE  [Promise!Next]_dialogueVars /\ RequestKept' /\ AnswersRanked'
  <2> DEFINE word == [kind |-> kind, rect |-> r, n |-> n]
  <2>1. said' = Append(said, word) /\ word \in [kind : Kinds, rect : Rects, n : Nat]
        /\ word.kind # "payload"
    BY <1>4 DEF Say
  <2>2. AnswerFormats' = AnswerFormats /\ AnswersRanked'
    BY <1>0, <2>1, AnswersOther
  <2> QED
    BY <1>3, <1>4, <2>2
<1>5. ASSUME NEW from, NEW kind \in Kinds \ {"payload"},
             NEW next \in {"version", "clientinit", "choice", "result"}, Writes(from, kind, next)
      PROVE  [Promise!Next]_dialogueVars /\ RequestKept' /\ AnswersRanked'
  BY <1>0, <1>4, <1>5 DEF Writes, inVars
<1>6. ASSUME NEW place \in {"version", "choice", "clientinit"}, Reads(place), Quiet,
             NEW next \in {"security", "clientinit", "result", "widthhigh"},
             ReadsLast(next) \/ ReadsOn("ended")
      PROVE  [Promise!Next]_dialogueVars /\ RequestKept' /\ AnswersRanked'
  <2>1. pc = place /\ handled < Len(asked)
    BY <1>0, <1>6, ArrivedTyped DEF Reads
  <2>2. AnswerFormats' = AnswerFormats /\ AnswersRanked'
    BY <1>0, <1>6, AnswersSame DEF Quiet, outVars
  <2>3. \/ Expected /\ handled' = handled + 1 /\ pc' = next
        \/ handled' = handled /\ pc' \in {"adrift", "ended"}
    BY <1>6, FinishedIs, ReadsOnIs DEF ReadsLast
  <2>4. CASE Expected /\ handled' = handled + 1 /\ pc' = next
    <3>1. Coming.type \in {"version", "choice", "clientinit"}
      BY <2>1, <2>4 DEF Expected
    <3>2. Open' /\ RequestKept'
      BY <1>0, <1>1, <2>1, <2>4, NothingKept DEF Open
    <3>3. [Promise!Next]_dialogueVars
      BY <1>1, <1>2, <2>1, <2>2, <2>4, <3>1, <3>2, Served
    <3> QED
      BY <2>2, <3>2, <3>3
  <2>5. CASE handled' = handled /\ pc' \in {"adrift", "ended"}
    BY <1>3, <2>2, <2>5
  <2> QED
    BY <2>3, <2>4, <2>5
<1>7. CASE OfferVersion
  BY <1>5, <1>7 DEF OfferVersion, Kinds
<1>8. CASE ReadVersion
  BY <1>6, <1>8 DEF ReadVersion
<1>9. CASE WriteSecurity
  BY <1>5, <1>9 DEF WriteSecurity, Kinds
<1>10. CASE ReadChoice
  BY <1>6, <1>10 DEF ReadChoice, BehindChoice
<1>11. CASE WriteResult
  BY <1>5, <1>11 DEF WriteResult, Kinds
<1>12. CASE ReadClientInit
  BY <1>6, <1>12 DEF ReadClientInit
<1>13. CASE ReadSize
  <2>1. UNCHANGED <<handled, said>> /\ pc' \notin {"convert", "header", "payload"}
    BY <1>13 DEF ReadSize, Quiet, outVars, inVars
  <2> QED
    BY <1>0, <1>3, <2>1, AnswersSame
<1>14. CASE WriteServerInit
  <2>1. Say("serverinit", Whole(size), 4) /\ handled' = handled /\ pc' = "type"
    BY <1>14 DEF WriteServerInit, inVars
  <2> QED
    BY <1>0, <1>4, <2>1 DEF Kinds
<1> QED
  BY <1>7, <1>8, <1>9, <1>10, <1>11, <1>12, <1>13, <1>14 DEF Negotiate

\* The handlers.
LEMMA HandleServes ==
    ASSUME DInv, Handle
    PROVE  [Promise!Next]_dialogueVars /\ RequestKept' /\ AnswersRanked'
<1>0. /\ SInv /\ RequestKept /\ AnswersRanked /\ OutTyped /\ EventsTyped /\ ClientTyped /\ InTyped
      /\ handled \in Nat /\ Len(asked) \in Nat /\ handled <= Len(asked) /\ ScreenBytes # 0
      /\ rect \in Rects /\ screen \in [w : Nat, h : Nat] /\ size \in [w : Nat, h : Nat]
      /\ format \in Nat
  BY TypeByParts, ScreenHasBytes DEF DInv, SInv, TypeOK, RequestKept
<1>1. asked' = asked /\ Open
  BY DEF Handle, ReadType, SetPixelFormat, SetEncodings, ReadEncoding, KeyEvent, PointerEvent,
         ClientCutText, ReadText, UpdateRequest, Convert, WriteHeader, WritePayload, OutsideSame,
         clientVars, Reads, Open
<1> DEFINE Goal == [Promise!Next]_dialogueVars /\ RequestKept' /\ AnswersRanked'
<1>2. ASSUME Quiet
      PROVE  Answers' = Answers /\ AnswerFormats' = AnswerFormats /\ AnswersRanked'
  BY <1>0, <1>2, AnswersSame DEF Quiet, outVars
\* nothing but the place in the message, or the end
<1>3. ASSUME Quiet, UNCHANGED <<handled, events, format>>, RequestKept'
      PROVE  Goal
  <2>1. FormatToSend' = FormatToSend
    BY <1>0, <1>3, FormatStays
  <2> QED
    BY <1>1, <1>2, <1>3, <2>1, StutterOrEnd
\* the message is done with, in silence
<1>4. ASSUME Quiet, handled < Len(asked), handled' = handled + 1, pc' = "type",
             events' = IF Coming.type \in {"key", "pointer", "text"}
                       THEN Append(events, [type |-> Coming.type, n |-> Coming.n]) ELSE events,
             FormatToSend' = IF Coming.type = "format" THEN Coming.n ELSE FormatToSend,
             Coming.type = "update" => Coming.rect.x # 0 \/ Coming.rect.y # 0
      PROVE  Goal
  <2>1. RequestKept' /\ Open'
    BY <1>0, <1>1, <1>4, NothingKept DEF Open
  <2> QED
    BY <1>1, <1>2, <1>4, <2>1, Served
<1>5. CASE ReadType
  <2>1. Quiet /\ UNCHANGED <<handled, events, format>> /\ pc' \notin {"convert", "header", "payload"}
    BY <1>5 DEF ReadType, ReadsOn, KnownTypes, threadVars
  <2> QED
    BY <1>0, <1>1, <1>3, <2>1, NothingKept
<1>6. CASE SetPixelFormat
  <2>1. /\ pc = "format" /\ Quiet /\ UNCHANGED events
        /\ \/ Coming.n \in {1, 2, 4} /\ ReadsLast("type") /\ format' = Coming.n
           \/ ReadsOn("ended") /\ UNCHANGED format
    BY <1>6 DEF SetPixelFormat, Reads
  <2>2. /\ Expected /\ part = 1 /\ Len(Parts(Coming)) = 2 /\ Coming.type = "format"
        /\ handled < Len(asked)
    BY <1>0, <2>1, BodyExpected, InsideRequest DEF Inside, Bodies
  <2>3. CASE Coming.n \in {1, 2, 4} /\ ReadsLast("type") /\ format' = Coming.n
    <3>1. handled' = handled + 1 /\ pc' = "type" /\ format' = Coming.n
      BY <2>1, <2>2, <2>3, ExpectedReads
    <3>2. FormatToSend' = Coming.n
      BY <2>3, <3>1 DEF FormatToSend
    <3> QED
      BY <1>4, <2>1, <2>2, <3>1, <3>2
  <2>4. CASE ReadsOn("ended") /\ UNCHANGED format
    <3>1. handled' = handled /\ pc' = "ended" /\ format' = format
      BY <2>1, <2>2, <2>4, ExpectedReads
    <3> QED
      BY <1>0, <1>1, <1>3, <2>1, <3>1, NothingKept
  <2> QED
    BY <2>1, <2>3, <2>4
<1>7. CASE SetEncodings \/ ReadEncoding
  <2>1. /\ pc \in {"encodings", "encoding"} /\ Quiet /\ UNCHANGED <<events, format>>
        /\ ReadsLast("type") \/ ReadsOn("encoding")
    BY <1>7 DEF SetEncodings, ReadEncoding, Reads
  <2>2. Coming.type = "encodings" /\ handled < Len(asked)
    BY <1>0, <2>1, InsideRequest DEF SInv, MessageAt, Inside, Bodies
  <2>3. \/ handled' = handled + 1 /\ pc' = "type"
        \/ handled' = handled /\ pc' \in {"encoding", "adrift"}
    BY <2>1, FinishedIs, ReadsOnIs DEF ReadsLast
  <2>4. FormatToSend' = FormatToSend
    BY <1>0, <2>1, FormatStays
  <2> QED
    BY <1>0, <1>1, <1>3, <1>4, <2>1, <2>2, <2>3, <2>4, NothingKept
<1>8. CASE KeyEvent \/ PointerEvent
  <2>1. /\ pc \in {"key", "pointer"} /\ Quiet /\ format' = format
        /\ ReadsLast("type") /\ events' = Append(events, [type |-> pc, n |-> Coming.n])
    BY <1>8 DEF KeyEvent, PointerEvent, Reads, Heard, threadVars
  <2>2. /\ Expected /\ part = 1 /\ Len(Parts(Coming)) = 2 /\ Coming.type = pc
        /\ handled < Len(asked)
    BY <1>0, <2>1, BodyExpected, InsideRequest DEF Inside, Bodies
  <2>3. handled' = handled + 1 /\ pc' = "type"
    BY <2>1, <2>2, ExpectedReads
  <2>4. FormatToSend' = FormatToSend
    BY <1>0, <2>1, FormatStays
  <2> QED
    BY <1>4, <2>1, <2>2, <2>3, <2>4
<1>9. CASE ClientCutText
  <2>1. Quiet /\ UNCHANGED <<events, format>> /\ (ReadsOn("textbody") \/ ReadsOn("ended"))
    BY <1>9 DEF ClientCutText
  <2>2. handled' = handled /\ pc' \in {"textbody", "ended", "adrift"}
    BY <2>1, ReadsOnIs
  <2> QED
    BY <1>0, <1>1, <1>3, <2>1, <2>2, NothingKept
<1>10. CASE ReadText
  <2>1. /\ pc = "textbody" /\ Quiet /\ format' = format
        /\ IF left > 0 THEN ReadsLast("type") ELSE Finished(TRUE, part, "type")
        /\ events' = Append(events, [type |-> "text", n |-> left])
    BY <1>10 DEF ReadText, threadVars
  <2>2. /\ Coming.type = "text" /\ part = 2 /\ left = Signed(Coming.n) /\ left >= -1
        /\ Coming \in Requests /\ Coming.n \in Nat /\ left \in Int /\ handled < Len(asked)
    BY <1>0, <2>1, InsideRequest DEF SInv, MessageAt, Inside
  <2>3. Coming.n <= TopLength
    BY <2>2, RequestBegins
  <2>4. FormatToSend' = FormatToSend
    BY <1>0, <2>1, FormatStays
  <2>5. \/ handled' = handled + 1 /\ pc' = "type"
        \/ handled' = handled /\ pc' = "adrift"
    BY <2>1, FinishedIs DEF ReadsLast
  <2>6. CASE handled' = handled /\ pc' = "adrift"
    <3>1. RequestKept' /\ ~Open'
      BY <1>0, <1>1, <2>6, NothingKept DEF Open
    <3>2. [type |-> "text", n |-> left] \in [type : {"key", "pointer", "text"}, n : Int]
      BY <2>2
    <3> QED
      BY <1>0, <1>1, <1>2, <2>1, <2>4, <2>6, <3>1, <3>2, EventAndEnd
  <2>7. CASE handled' = handled + 1 /\ pc' = "type"
    <3>1. left # -1
      <4> SUFFICES ASSUME left = -1 PROVE FALSE
        OBVIOUS
      <4>1. Coming.n = TopLength /\ TopLength # 0
        BY <2>2, <2>3, SignedLength, SessionAssumption DEF SessionAssumption
      <4>2. Parts(Coming) = <<1, 7, Coming.n>>
        BY <2>2, <4>1, PartsOfMessage
      <4>3. Len(Parts(Coming)) = 3
        BY <4>2
      <4> QED
        BY <2>1, <2>2, <2>7, <4>3 DEF Finished
    <3>2. left = Coming.n
      BY <2>2, <2>3, <3>1, SignedLength
    <3> QED
      BY <1>4, <2>1, <2>2, <2>4, <2>7, <3>2
  <2> QED
    BY <2>5, <2>6, <2>7
<1>11. CASE UpdateRequest
  <2>1. pc = "update" /\ Quiet /\ UNCHANGED <<events, format>> /\ ReadsOn("convert")
        /\ rect' = Coming.rect
    BY <1>11 DEF UpdateRequest, Reads
  <2>2. handled' = handled /\ pc' \in {"convert", "adrift"}
    BY <2>1, ReadsOnIs
  <2>3. RequestKept'
    BY <1>0, <1>1, <2>1, <2>2 DEF RequestKept, Coming
  <2> QED
    BY <1>3, <2>1, <2>2, <2>3
<1>12. CASE Convert
  <2>1. /\ pc = "convert" /\ Quiet /\ UNCHANGED events /\ format' = FormatToSend
        /\ rect' = Clipped(rect, screen)
        /\ IF Ignored(rect') THEN Finished(TRUE, part, "type")
                             ELSE pc' = "header" /\ UNCHANGED inVars
    BY <1>12 DEF Convert
  <2>2. /\ Coming.type = "update" /\ part = 2 /\ handled < Len(asked) /\ Coming.n \in Nat
    BY <1>0, <2>1, InsideRequest DEF SInv, MessageAt, Inside
  <2>3. FormatToSend' = FormatToSend
    BY <1>0, <2>1, FormatStays
  <2>4. rect = Coming.rect
    BY <1>0, <2>1 DEF RequestKept
  <2>5. /\ rect.x \in Nat /\ rect.y \in Nat /\ rect.w \in Nat /\ rect.h \in Nat
        /\ screen.w \in Nat /\ screen.h \in Nat
    BY <1>0 DEF Rects
  <2>6. /\ rect'.x = Coming.rect.x /\ rect'.y = Coming.rect.y
        /\ rect'.w <= Coming.rect.w /\ rect'.h <= Coming.rect.h
        /\ rect'.w \in Nat /\ rect'.h \in Nat
    BY <2>1, <2>4, <2>5 DEF Clipped, Lesser
  <2>7. CASE Ignored(rect')
    <3>1. Coming.rect.x # 0 \/ Coming.rect.y # 0
      BY <2>4, <2>5, <2>6, <2>7 DEF Ignored
    <3>2. Len(Parts(Coming)) = 2
      <4>1. Parts(Coming) = <<1, 9>>
        BY <2>2, PartsOfMessage
      <4> QED
        BY <4>1
    <3>3. handled' = handled + 1 /\ pc' = "type"
      BY <2>1, <2>2, <2>7, <3>2 DEF Finished
    <3> QED
      BY <1>4, <2>1, <2>2, <2>3, <3>1, <3>3
  <2>8. CASE ~Ignored(rect')
    <3>1. pc' = "header" /\ handled' = handled
      BY <2>1, <2>8 DEF inVars
    <3>2. Coming' = Coming
      BY <1>1, <3>1 DEF Coming
    <3>3. format' # 0
      BY <1>0, <2>1 DEF FormatToSend
    <3>4. Ignored(rect)' = Ignored(rect')
      BY DEF Ignored
    <3>5. RequestKept'
      BY <1>0, <1>1, <2>6, <2>8, <3>1, <3>2, <3>3, <3>4 DEF RequestKept
    <3>6. Open'
      BY <3>1 DEF Open
    <3> QED
      BY <1>1, <1>2, <2>1, <2>3, <3>1, <3>5, StutterOrEnd
  <2> QED
    BY <2>7, <2>8
<1>13. CASE WriteHeader
  <2>1. /\ pc = "header" /\ pc' = "payload" /\ Say("header", rect, 0)
        /\ UNCHANGED <<rect, format, handled, events>>
    BY <1>13 DEF WriteHeader, threadVars, inVars
  <2> DEFINE word == [kind |-> "header", rect |-> rect, n |-> 0]
  <2>2. said' = Append(said, word) /\ word \in [kind : Kinds, rect : Rects, n : Nat]
        /\ word.kind # "payload"
    BY <1>0, <2>1 DEF Say, Kinds
  <2> HIDE DEF word
  <2>3. AnswerFormats' = AnswerFormats /\ AnswersRanked'
    BY <1>0, <2>2, AnswersOther
  <2>4. FormatToSend' = FormatToSend
    BY <1>0, <2>1, FormatStays
  <2>5. RequestKept'
    BY <1>0, <1>1, <2>1 DEF RequestKept, Coming, Ignored
  <2> QED
    BY <1>1, <2>1, <2>3, <2>4, <2>5, StutterOrEnd
<1>14. CASE WritePayload
  <2>1. /\ pc = "payload" /\ Finished(TRUE, part, "type") /\ Say("payload", Whole(size), format)
        /\ UNCHANGED <<format, events>>
    BY <1>14 DEF WritePayload, threadVars
  <2>2. /\ Coming.type = "update" /\ part = 2 /\ handled < Len(asked) /\ Coming.n \in Nat
        /\ Coming.rect \in Rects
    <3>1. /\ Coming.type = "update" /\ part = 2 /\ handled < Len(asked) /\ Coming.n \in Nat
          /\ Coming \in Requests
      BY <1>0, <2>1, InsideRequest DEF SInv, MessageAt, Inside
    <3> QED
      BY <3>1, MessageTyped
  <2>3. Len(Parts(Coming)) = 2
    <3>1. Parts(Coming) = <<1, 9>>
      BY <2>2, PartsOfMessage
    <3> QED
      BY <3>1
  <2>4. handled' = handled + 1 /\ pc' = "type"
    BY <2>1, <2>2, <2>3 DEF Finished
  <2> DEFINE word == [kind |-> "payload", rect |-> Whole(size), n |-> format]
  <2>5. /\ said' = Append(said, word) /\ word \in [kind : Kinds, rect : Rects, n : Nat]
        /\ word.kind = "payload" /\ word.n = format
    <3>1. Whole(size) \in Rects
      BY <1>0, ClippedTyped
    <3> QED
      BY <1>0, <2>1, <3>1 DEF Say, Kinds
  <2> HIDE DEF word
  <2>6. AnswerFormats' = Append(AnswerFormats, format) /\ AnswersRanked'
    BY <1>0, <2>5, AnswersMore
  <2>7. format = FormatToSend /\ FormatToSend' = FormatToSend
    BY <1>0, <2>1, FormatStays DEF RequestKept, FormatToSend
  <2>8. Coming.rect.x <= Coming.rect.w /\ Coming.rect.y <= Coming.rect.h
    <3>1. /\ rect.x = Coming.rect.x /\ rect.y = Coming.rect.y
          /\ rect.w <= Coming.rect.w /\ rect.h <= Coming.rect.h
          /\ ~(rect.x > rect.w) /\ ~(rect.y > rect.h)
      BY <1>0, <2>1 DEF RequestKept, Ignored
    <3>2. /\ rect.x \in Nat /\ rect.y \in Nat /\ rect.w \in Nat /\ rect.h \in Nat
          /\ Coming.rect.w \in Nat /\ Coming.rect.h \in Nat
      BY <1>0, <2>2 DEF Rects
    <3> QED
      BY <3>1, <3>2
  <2>9. RequestKept' /\ Open'
    BY <1>0, <1>1, <2>2, <2>4, NothingKept DEF Open
  <2>10. [Promise!Next]_dialogueVars
    BY <1>1, <2>1, <2>2, <2>4, <2>6, <2>7, <2>8, <2>9, Served
  <2> QED
    BY <2>6, <2>9, <2>10
<1> QED
  BY <1>5, <1>6, <1>7, <1>8, <1>9, <1>10, <1>11, <1>12, <1>13, <1>14 DEF Handle

\* The stream of the client grows at its end, if at all.
LEMMA ClientSends ==
    ASSUME ClientStep
    PROVE  UNCHANGED asked \/ \E m \in Message : Sends(m)
<1>1. CASE ClientHearsVersion
  BY <1>1, MessageTyped DEF ClientHearsVersion
<1>2. CASE ClientHearsSecurity
  BY <1>2, MessageTyped DEF ClientHearsSecurity
<1>3. CASE ClientInits
  BY <1>3, MessageTyped DEF ClientInits
<1>4. CASE ClientAsks
  BY <1>4, MessageTyped DEF ClientAsks
<1>5. CASE ClientHearsResult \/ ClientHearsInit \/ ClientHearsUpdate \/ ClientLeaves \/ ClientGoesOn
  BY <1>5 DEF ClientHearsResult, ClientHearsInit, ClientHearsUpdate, ClientLeaves, ClientGoesOn
<1> QED
  BY <1>1, <1>2, <1>3, <1>4, <1>5 DEF ClientStep, ClientReads
LEMMA AskedGrows ==
    ASSUME SInv, ClientStep
    PROVE  /\ Len(asked) \in Nat /\ Len(asked') \in Nat /\ Len(asked) <= Len(asked')
           /\ \A i \in 1..Len(asked) : asked'[i] = asked[i]
           /\ Len(asked) >= 1 => Spoken' = Spoken
<1>0. asked \in Seq(Message) /\ Len(asked) \in Nat
  BY DEF SInv, TypeOK
<1>1. CASE UNCHANGED asked
  BY <1>0, <1>1 DEF Spoken
<1>2. CASE \E m \in Message : Sends(m)
  <2>1. PICK m \in Message : asked' = Append(asked, m)
    BY <1>2 DEF Sends
  <2>2. Len(asked') = Len(asked) + 1 /\ \A i \in 1..Len(asked) : asked'[i] = asked[i]
    BY <1>0, <2>1, AppendGrows
  <2>3. Len(asked) >= 1 => asked'[1] = asked[1]
    BY <1>0, <2>2
  <2> QED
    BY <1>0, <2>2, <2>3 DEF Spoken
<1> QED
  BY <1>1, <1>2, ClientSends

\* The ends, the client and the application.
LEMMA OthersServe ==
    ASSUME DInv, Ends \/ ClientStep \/ AppStep \/ UNCHANGED vars
    PROVE  [Promise!Next]_dialogueVars /\ RequestKept' /\ AnswersRanked'
<1>0. /\ SInv /\ RequestKept /\ AnswersRanked /\ OutTyped /\ ClientTyped
      /\ handled \in Nat /\ Len(asked) \in Nat /\ handled <= Len(asked)
      /\ asked \in Seq(Message) /\ ScreenBytes # 0
  BY TypeByParts, ScreenHasBytes DEF DInv, SInv, TypeOK, RequestKept
<1>1. UNCHANGED <<handled, events, format, said, rect>>
  <2>1. CASE Ends
    BY <2>1, EndsAre DEF threadVars, inVars, outVars
  <2>2. CASE ClientStep
    BY <2>2 DEF ClientStep, ClientReads, ClientAsks, ClientLeaves, ClientHearsVersion,
       ClientHearsSecurity, ClientHearsResult, ClientInits, ClientHearsInit, ClientGoesOn,
       ClientHearsUpdate, ThreadSame, threadVars, inVars, outVars
  <2>3. CASE AppStep
    BY <2>3 DEF AppStep, AppStops, AppResizes, AppResized, OthersSame, threadVars, inVars, outVars
  <2>4. CASE UNCHANGED vars
    BY <2>4 DEF vars, threadVars, inVars, outVars
  <2> QED
    BY <2>1, <2>2, <2>3, <2>4
<1>2. AnswerFormats' = AnswerFormats /\ AnswersRanked' /\ FormatToSend' = FormatToSend
  BY <1>0, <1>1, AnswersSame, FormatStays
<1>3. CASE Ends
  <2>1. pc' = "ended" /\ asked' = asked
    BY <1>3, EndsAre DEF clientVars
  <2>2. RequestKept'
    BY <1>0, <1>1, <2>1, NothingKept
  <2>3. CASE Open
    BY <1>1, <1>2, <2>1, <2>2, <2>3, StutterOrEnd
  <2>4. CASE ~Open
    <3>1. (pc \notin {"adrift", "ended"})' = (pc \notin {"adrift", "ended"})
      BY <2>1, <2>4, Zenon DEF Open
    <3> QED
      BY <1>1, <1>2, <2>1, <2>2, <3>1, Zenon DEF dialogueVars
  <2> QED
    BY <2>3, <2>4
<1>4. ASSUME pc' = pc, asked' = asked
      PROVE  [Promise!Next]_dialogueVars /\ RequestKept' /\ AnswersRanked'
  <2>1. (pc \notin {"adrift", "ended"})' = (pc \notin {"adrift", "ended"})
    BY <1>4, Zenon
  <2>2. RequestKept'
    BY <1>0, <1>1, <1>4 DEF RequestKept, Coming, Ignored
  <2> QED
    BY <1>1, <1>2, <1>4, <2>1, <2>2, Zenon DEF dialogueVars
<1>5. CASE ClientStep
  <2>1. pc' = pc
    BY <1>5 DEF ClientStep, ClientReads, ClientAsks, ClientLeaves, ClientHearsVersion,
       ClientHearsSecurity, ClientHearsResult, ClientInits, ClientHearsInit, ClientGoesOn,
       ClientHearsUpdate, ThreadSame
  <2>2. UNCHANGED asked \/ \E m \in Message : Sends(m)
    BY <1>5, ClientSends
  <2>3. CASE \E m \in Message : Sends(m)
    <3>1. PICK m \in Message : asked' = Append(asked, m)
      BY <2>3 DEF Sends
    <3>2. (pc \notin {"adrift", "ended"})' = (pc \notin {"adrift", "ended"})
      BY <2>1, Zenon
    <3>3. Promise!Ask
      BY <1>1, <1>2, <3>1, <3>2, Zenon DEF Promise!Ask
    <3>4. Len(asked') = Len(asked) + 1 /\ \A i \in 1..Len(asked) : asked'[i] = asked[i]
      BY <1>0, <3>1, AppendGrows
    <3>5. handled' <= Len(asked')
      BY <1>0, <1>1, <3>4
    <3>6. CASE pc \in {"convert", "header", "payload"}
      <4>1. handled < Len(asked)
        BY <1>0, <3>6 DEF SInv, MessageAt, Inside
      <4>2. handled + 1 \in 1..Len(asked)
        BY <1>0, <4>1
      <4>3. Coming' = Coming
        BY <1>1, <3>4, <4>2 DEF Coming
      <4> QED
        BY <1>0, <1>1, <1>2, <2>1, <3>3, <3>5, <4>3 DEF RequestKept, Ignored, Promise!Next
    <3>7. CASE pc \notin {"convert", "header", "payload"}
      BY <1>2, <2>1, <3>3, <3>5, <3>7, NothingKept DEF Promise!Next
    <3> QED
      BY <3>6, <3>7
  <2> QED
    BY <1>4, <2>1, <2>2, <2>3
<1>6. CASE AppStep \/ UNCHANGED vars
  BY <1>4, <1>6 DEF AppStep, AppStops, AppResizes, AppResized, OthersSame, clientVars, vars
<1> QED
  BY <1>3, <1>5, <1>6

LEMMA NextServes ==
    ASSUME DInv, [Next]_vars
    PROVE  [Promise!Next]_dialogueVars /\ RequestKept' /\ AnswersRanked'
BY NegotiateServes, HandleServes, OthersServe
DEF Next, ThreadStep, Ends, ClientStep, AppStep

LEMMA DInvInit ==
    ASSUME Init
    PROVE  DInv /\ Promise!Init
<1>1. Len(asked) = 0 /\ Len(said) = 0
  BY DEF Init
<1>2. Answers = {} /\ Cardinality(Answers) = 0
  <2>1. Answers = {}
    BY <1>1 DEF Answers, AnswersIn
  <2> QED
    BY <2>1, FS_EmptySet
<1>3. RequestKept
  BY <1>1 DEF Init, RequestKept
<1>4. AnswersRanked
  BY <1>2 DEF AnswersRanked
<1>5. AnswerFormats = <<>>
  <2>1. AnswerFormats = [k \in 1..0 |-> said[KthOf(Answers, k)].n]
    BY <1>2 DEF AnswerFormats
  <2> QED
    BY <2>1
<1>6. Promise!Init
  <2>1. (pc \notin {"adrift", "ended"}) = TRUE
    BY DEF Init
  <2> QED
    BY <1>5, <2>1 DEF Init, Promise!Init, FormatToSend
<1> QED
  BY <1>3, <1>4, <1>6, SInvInit DEF DInv

\* What the thread does with the messages is what a client may rely on, for
\* any messages, sizes and bounds: each takes effect once and in order, its
\* event is handed over once, and an update request is answered in the pixel
\* format asked for before it or ignored.
THEOREM ThreadKeepsPromise == Spec => KeepsPromise
<1>1. Init => DInv /\ Promise!Init
  BY DInvInit
<1>2. DInv /\ [Next]_vars => DInv'
  BY NextServes, SInvStep DEF DInv
<1>3. DInv /\ [Next]_vars => [Promise!Next]_dialogueVars
  BY NextServes
<1> QED
  BY <1>1, <1>2, <1>3, PTL DEF Spec, KeepsPromise, Promise!Spec, dialogueVars

-----------------------------------------------------------------------------
(* The client in step *)

LEMMA Words ==
    ASSUME NEW n \in Nat
    PROVE  /\ Spoken \in {3, 7, 8} /\ Greeting \in {3, 4} /\ (Greeting = 4 <=> Spoken = 8)
           /\ WordAt(1) = "version"
           /\ WordAt(2) = IF Spoken = 3 THEN "sectype" ELSE "sectypes"
           /\ Spoken = 8 => WordAt(3) = "result"
           /\ WordAt(Greeting) = "serverinit" /\ Pairs(Greeting)
           /\ Pairs(n) => /\ WordAt(n + 1) = "header" /\ WordAt(n + 2) = "payload"
                          /\ Pairs(n + 2)
<1>1. Spoken \in {3, 7, 8} /\ Greeting \in {3, 4} /\ (Greeting = 4 <=> Spoken = 8)
  BY DEF Spoken, Greeting
<1>2. WordAt(1) = "version" /\ WordAt(2) = (IF Spoken = 3 THEN "sectype" ELSE "sectypes")
      /\ (Spoken = 8 => WordAt(3) = "result") /\ WordAt(Greeting) = "serverinit"
      /\ Pairs(Greeting)
  BY <1>1 DEF WordAt, Pairs
<1>3. ASSUME Pairs(n)
      PROVE  WordAt(n + 1) = "header" /\ WordAt(n + 2) = "payload" /\ Pairs(n + 2)
  <2>1. n >= Greeting /\ (n - Greeting) % 2 = 0
    BY <1>3 DEF Pairs
  <2>2. ((n + 1) - Greeting) % 2 = 1 /\ ((n + 2) - Greeting) % 2 = 0
    BY <1>1, <2>1
  <2> QED
    BY <1>1, <2>1, <2>2 DEF WordAt, Pairs
<1> QED
  BY <1>1, <1>2, <1>3

\* The thread says the words in their order.
LEMMA ThreadSays ==
    ASSUME DInv, SaidAt, Negotiate \/ Handle
    PROVE  SaidAt'
<1>0. /\ SInv /\ OutTyped /\ Len(said) \in Nat /\ heard \in Nat /\ flushed \in Nat /\ Len(asked) \in Nat
      /\ rect \in Rects /\ NoRect \in Rects /\ Whole(size) \in Rects /\ format \in Nat
  <2>1. Whole(size) \in Rects
    BY ClippedTyped, MessageTyped DEF DInv, SInv, TypeOK
  <2> QED
    BY <2>1, TypeByParts, MessageTyped DEF DInv, SInv, TypeOK
<1>1. UNCHANGED <<asked, heard>>
  BY DEF Negotiate, OfferVersion, ReadVersion, WriteSecurity, ReadChoice, WriteResult, ReadClientInit,
         ReadSize, WriteServerInit, Writes, Handle, ReadType, SetPixelFormat, SetEncodings,
         ReadEncoding, KeyEvent, PointerEvent, ClientCutText, ReadText, UpdateRequest, Convert,
         WriteHeader, WritePayload, OutsideSame, clientVars, threadVars
<1>2. Spoken' = Spoken /\ Greeting' = Greeting /\ \A i : WordAt(i)' = WordAt(i)
  BY <1>1 DEF Spoken, Greeting, WordAt
<1>3. LengthAt(pc', Len(said')) => LengthAt(pc, Len(said))'
  BY <1>2 DEF LengthAt, Pairs
<1>4. ASSUME UNCHANGED <<said, flushed>>, LengthAt(pc', Len(said))
      PROVE  SaidAt'
  BY <1>1, <1>2, <1>3, <1>4 DEF SaidAt
<1>5. ASSUME NEW kind \in Kinds, NEW r \in Rects, NEW n \in Nat, Say(kind, r, n),
             kind = WordAt(Len(said) + 1), Len(said) + 1 >= 2 => Len(asked) >= 1,
             LengthAt(pc', Len(said) + 1)
      PROVE  SaidAt'
  <2> DEFINE word == [kind |-> kind, rect |-> r, n |-> n]
  <2>1. said' = Append(said, word) /\ word \in [kind : Kinds, rect : Rects, n : Nat]
        /\ word.kind = WordAt(Len(said) + 1)
    BY <1>5 DEF Say
  <2> HIDE DEF word
  <2>2. /\ Len(said') = Len(said) + 1 /\ said'[Len(said) + 1] = word
        /\ \A i \in 1..Len(said) : said'[i] = said[i]
    BY <1>0, <2>1, SaidGrows
  <2>3. flushed' = Len(said) + 1 \/ flushed' = flushed
    BY <1>5 DEF Say
  <2>4. heard' <= flushed' /\ flushed' <= Len(said')
    BY <1>0, <1>1, <2>2, <2>3 DEF SaidAt
  <2>5. \A i \in 1..Len(said') : said'[i].kind = WordAt(i)
    <3>1. \A i \in 1..Len(said') : i \in 1..Len(said) \/ i = Len(said) + 1
      BY <1>0, <2>2
    <3> QED
      BY <2>1, <2>2, <3>1 DEF SaidAt
  <2> QED
    BY <1>1, <1>2, <1>3, <1>5, <2>2, <2>4, <2>5 DEF SaidAt
<1>6. ASSUME Quiet, LengthAt(pc', Len(said))
      PROVE  SaidAt'
  BY <1>4, <1>6 DEF Quiet, outVars
<1>7. LengthAt("adrift", Len(said)) /\ LengthAt("ended", Len(said))
      /\ LengthAt("adrift", Len(said) + 1)
  BY DEF LengthAt, Sizing, Inside, Bodies
<1>8. Spoken \in {3, 7, 8} /\ Greeting = IF Spoken = 8 THEN 4 ELSE 3
  BY Words DEF Greeting
<1>9. LengthAt(pc, Len(said))
  BY DEF SaidAt
<1>10. pc \notin {"offer", "version", "ended", "adrift"} => Len(asked) >= 1 /\ version = Spoken
  BY <1>0 DEF SInv, TypeOK, ThreadAt
<1>11. CASE OfferVersion
  <2>1. pc = "offer" /\ pc' = "version" /\ Say("version", NoRect, 0)
    BY <1>11 DEF OfferVersion, Writes
  <2>2. Len(said) = 0
    BY <1>9, <2>1 DEF LengthAt
  <2>3. LengthAt("version", 1)
    BY DEF LengthAt, Sizing, Inside, Bodies
  <2> QED
    BY <1>0, <1>5, <2>1, <2>2, <2>3, Words DEF Kinds
<1>12. CASE ReadVersion
  <2>1. pc = "version" /\ pc' \in {"security", "adrift"} /\ Quiet
    BY <1>12, FinishedIs DEF ReadVersion, Reads, ReadsLast
  <2>2. LengthAt("security", Len(said))
    BY <1>9, <2>1 DEF LengthAt, Sizing, Inside, Bodies
  <2> QED
    BY <1>6, <1>7, <2>1, <2>2
<1>13. CASE WriteSecurity
  <2>1. /\ pc = "security"
        /\ \/ version < 7 /\ pc' = "clientinit" /\ Say("sectype", NoRect, 0)
           \/ ~(version < 7) /\ pc' = "choice" /\ Say("sectypes", NoRect, 0)
    BY <1>13 DEF WriteSecurity, Writes
  <2>2. Len(said) = 1 /\ (version < 7 <=> Spoken = 3) /\ Len(asked) >= 1
    BY <1>8, <1>9, <1>10, <2>1 DEF LengthAt
  <2>3. LengthAt("choice", 2) /\ (Spoken = 3 => LengthAt("clientinit", 2))
    BY <1>8 DEF LengthAt, Sizing, Inside, Bodies
  <2> QED
    BY <1>0, <1>5, <2>1, <2>2, <2>3, Words DEF Kinds
<1>14. CASE ReadChoice
  <2>1. pc = "choice" /\ pc' \in {BehindChoice, "ended", "adrift"} /\ Quiet
    BY <1>14, FinishedIs, ReadsOnIs DEF ReadChoice, Reads, ReadsLast
  <2>2. Len(said) = 2 /\ version = Spoken
    BY <1>9, <1>10, <2>1 DEF LengthAt
  <2>3. LengthAt(BehindChoice, Len(said))
    BY <1>8, <2>2 DEF LengthAt, Sizing, Inside, Bodies, BehindChoice
  <2> QED
    BY <1>6, <1>7, <2>1, <2>3
<1>15. CASE WriteResult
  <2>1. pc = "result" /\ pc' = "clientinit" /\ Say("result", NoRect, 0)
    BY <1>15 DEF WriteResult, Writes
  <2>2. Len(said) = 2 /\ Spoken = 8 /\ Len(asked) >= 1
    BY <1>0, <1>9, <1>10, <2>1 DEF LengthAt, SInv, ThreadAt
  <2>3. LengthAt("clientinit", 3)
    BY <1>8, <2>2 DEF LengthAt, Sizing, Inside, Bodies
  <2> QED
    BY <1>0, <1>5, <2>1, <2>2, <2>3, Words DEF Kinds
<1>16. CASE ReadClientInit
  <2>1. pc = "clientinit" /\ pc' \in {"widthhigh", "adrift"} /\ Quiet
    BY <1>16, FinishedIs DEF ReadClientInit, Reads, ReadsLast
  <2>2. LengthAt("widthhigh", Len(said))
    BY <1>9, <2>1 DEF LengthAt, Sizing, Inside, Bodies
  <2> QED
    BY <1>6, <1>7, <2>1, <2>2
<1>17. CASE ReadSize
  <2>1. pc \in Sizing /\ pc' \in Sizing /\ Quiet
    BY <1>17 DEF ReadSize, Sizing
  <2>2. LengthAt(pc', Len(said))
    BY <1>9, <2>1 DEF LengthAt, Sizing, Inside, Bodies
  <2> QED
    BY <1>6, <2>1, <2>2
<1>18. CASE WriteServerInit
  <2>1. pc = "serverinit" /\ pc' = "type" /\ Say("serverinit", Whole(size), 4)
    BY <1>18 DEF WriteServerInit
  <2>2. Len(said) + 1 = Greeting /\ Len(asked) >= 1
    BY <1>0, <1>8, <1>9, <1>10, <2>1 DEF LengthAt, Sizing
  <2>3. LengthAt("type", Greeting)
    BY <1>0, Words DEF LengthAt, Sizing, Inside, Bodies
  <2> QED
    BY <1>0, <1>5, <2>1, <2>2, <2>3, Words DEF Kinds
<1> DEFINE Asking == {"type"} \cup (Inside \ {"payload"})
<1>19. \A p \in Asking : Pairs(Len(said)) <=> LengthAt(p, Len(said))
  BY DEF LengthAt, Sizing, Inside, Bodies
<1>20. ASSUME pc \in Asking, pc' \in Asking \cup {"adrift", "ended"}, Quiet
       PROVE  SaidAt'
  BY <1>6, <1>7, <1>9, <1>19, <1>20
<1>21. CASE ReadType
  <2>1. pc = "type" /\ pc' \in KnownTypes \cup {"adrift", "ended"} /\ Quiet
    BY <1>21, ReadsOnIs DEF ReadType, Reads
  <2> QED
    BY <1>20, <2>1 DEF KnownTypes, Inside, Bodies
<1>22. CASE SetPixelFormat \/ SetEncodings \/ ReadEncoding \/ KeyEvent \/ PointerEvent
            \/ ClientCutText \/ ReadText \/ UpdateRequest
  <2>1. /\ pc \in {"format", "encodings", "encoding", "key", "pointer", "text", "textbody", "update"}
        /\ pc' \in {"type", "encoding", "textbody", "convert", "ended", "adrift"} /\ Quiet
    BY <1>22, FinishedIs, ReadsOnIs
    DEF SetPixelFormat, SetEncodings, ReadEncoding, KeyEvent, PointerEvent, ClientCutText, ReadText,
        UpdateRequest, Reads, ReadsLast
  <2> QED
    BY <1>20, <2>1 DEF Inside, Bodies
<1>23. CASE Convert
  <2>1. pc = "convert" /\ pc' \in {"type", "header", "adrift"} /\ Quiet
    BY <1>23, FinishedIs DEF Convert
  <2> QED
    BY <1>20, <2>1 DEF Inside, Bodies
<1>24. CASE WriteHeader
  <2>1. pc = "header" /\ pc' = "payload" /\ Say("header", rect, 0)
    BY <1>24 DEF WriteHeader
  <2>2. Pairs(Len(said)) /\ Len(asked) >= 1
    BY <1>9, <1>10, <1>19, <2>1 DEF Inside
  <2>3. LengthAt("payload", Len(said) + 1)
    BY <1>0, <2>2 DEF LengthAt, Sizing, Inside, Bodies
  <2> QED
    BY <1>0, <1>5, <2>1, <2>2, <2>3, Words DEF Kinds
<1>25. CASE WritePayload
  <2>1. pc = "payload" /\ pc' \in {"type", "adrift"} /\ Say("payload", Whole(size), format)
    BY <1>25, FinishedIs DEF WritePayload
  <2>2. Pairs(Len(said) - 1) /\ Len(asked) >= 1
    BY <1>9, <1>10, <2>1 DEF LengthAt
  <2>3. Len(said) - 1 \in Nat
    BY <1>0, <1>8, <2>2 DEF Pairs
  <2>4. WordAt(Len(said) + 1) = "payload" /\ Pairs(Len(said) + 1)
    <3>1. WordAt((Len(said) - 1) + 2) = "payload" /\ Pairs((Len(said) - 1) + 2)
      BY <2>2, <2>3, Words
    <3>2. (Len(said) - 1) + 2 = Len(said) + 1
      BY <1>0
    <3> QED
      BY <3>1, <3>2
  <2>5. LengthAt("type", Len(said) + 1)
    BY <2>4 DEF LengthAt, Sizing, Inside, Bodies
  <2> QED
    BY <1>0, <1>5, <1>7, <2>1, <2>2, <2>4, <2>5 DEF Kinds
<1> QED
  BY <1>11, <1>12, <1>13, <1>14, <1>15, <1>16, <1>17, <1>18, <1>21, <1>22, <1>23, <1>24, <1>25
  DEF Negotiate, Handle

\* Whoever else takes a step: what is said keeps its order, and the client
\* knows where in it it is.
LEMMA OthersSay ==
    ASSUME DInv, SaidAt, Ends \/ ClientStep \/ AppStep \/ UNCHANGED vars
    PROVE  SaidAt'
<1>0. /\ SInv /\ Len(said) \in Nat /\ heard \in Nat /\ flushed \in Nat /\ Len(asked) \in Nat
      /\ heard <= flushed /\ flushed <= Len(said) /\ LengthAt(pc, Len(said))
  BY DEF DInv, SInv, TypeOK, SaidAt
<1>1. CASE Ends
  <2>1. pc' = "ended" /\ UNCHANGED <<said, flushed, heard, asked>>
    BY <1>1, EndsAre DEF outVars, clientVars
  <2>2. LengthAt(pc, Len(said))'
    BY <2>1 DEF LengthAt, Sizing, Inside, Bodies
  <2>3. \A i : WordAt(i)' = WordAt(i)
    BY <2>1 DEF WordAt, Greeting, Spoken
  <2> QED
    BY <2>1, <2>2, <2>3 DEF SaidAt
<1>2. CASE AppStep \/ UNCHANGED vars
  <2>1. UNCHANGED <<pc, said, flushed, heard, asked>>
    BY <1>2 DEF AppStep, AppStops, AppResizes, AppResized, OthersSame, vars, outVars, clientVars
  <2>2. LengthAt(pc, Len(said))'
    BY <1>0, <2>1 DEF LengthAt, Pairs, Greeting, Spoken
  <2>3. \A i : WordAt(i)' = WordAt(i)
    BY <2>1 DEF WordAt, Greeting, Spoken
  <2> QED
    BY <2>1, <2>2, <2>3 DEF SaidAt
<1>3. CASE ClientStep
  <2>1. UNCHANGED <<pc, said, flushed>>
    BY <1>3 DEF ClientStep, ClientReads, ClientAsks, ClientLeaves, ClientHearsVersion,
       ClientHearsSecurity, ClientHearsResult, ClientInits, ClientHearsInit, ClientGoesOn,
       ClientHearsUpdate, ThreadSame, outVars
  <2>2. heard' <= flushed
    <3>1. \/ heard' = heard \/ (heard < flushed /\ heard' = heard + 1)
          \/ (heard + 1 < flushed /\ heard' = heard + 2)
      BY <1>3 DEF ClientStep, ClientReads, ClientAsks, ClientLeaves, ClientHearsVersion,
         ClientHearsSecurity, ClientHearsResult, ClientInits, ClientHearsInit, ClientGoesOn,
         ClientHearsUpdate
    <3> QED
      BY <1>0, <3>1
  <2>3. Len(asked) <= Len(asked') /\ Len(asked') \in Nat /\ (Len(asked) >= 1 => Spoken' = Spoken)
    BY <1>0, <1>3, AskedGrows
  <2>4. CASE Len(asked) >= 1
    <3>1. Spoken' = Spoken
      BY <2>3, <2>4
    <3>2. LengthAt(pc, Len(said))'
      BY <1>0, <2>1, <3>1 DEF LengthAt, Pairs, Greeting
    <3>3. \A i : WordAt(i)' = WordAt(i)
      BY <3>1 DEF WordAt, Greeting
    <3>4. Len(asked') >= 1
      BY <1>0, <2>3, <2>4
    <3> QED
      BY <2>1, <2>2, <3>2, <3>3, <3>4 DEF SaidAt
  <2>5. CASE Len(asked) = 0
    <3>1. Len(said) <= 1
      BY <1>0, <2>5 DEF SaidAt
    <3>2. pc \in {"offer", "version", "ended", "adrift"}
      BY <1>0, <2>5 DEF SInv, TypeOK, ThreadAt
    <3>3. LengthAt(pc, Len(said))'
      BY <1>0, <2>1, <3>2 DEF LengthAt, Sizing, Inside, Bodies
    <3>4. \A i \in 1..Len(said) : i = 1
      BY <1>0, <3>1
    <3>5. WordAt(1) = "version" /\ WordAt(1)' = "version"
      BY DEF WordAt
    <3> QED
      BY <1>0, <2>1, <2>2, <3>1, <3>3, <3>4, <3>5 DEF SaidAt
  <2> QED
    BY <1>0, <2>4, <2>5
<1> QED
  BY <1>1, <1>2, <1>3

LEMMA ClientHears ==
    ASSUME DInv, HeardAt, [Next]_vars
    PROVE  HeardAt'
<1>0. SInv /\ heard \in Nat
  BY DEF DInv, SInv, TypeOK
<1>1. ASSUME UNCHANGED <<heard, asked>>, client' = client
      PROVE  HeardAt'
  BY <1>1 DEF HeardAt, Pairs, Greeting, Spoken
<1>2. CASE ThreadStep
  <2>1. UNCHANGED clientVars
    BY <1>2 DEF ThreadStep, Negotiate, OfferVersion, ReadVersion, WriteSecurity, ReadChoice,
       WriteResult, ReadClientInit, ReadSize, WriteServerInit, Writes, Handle, ReadType,
       SetPixelFormat, SetEncodings, ReadEncoding, KeyEvent, PointerEvent, ClientCutText, ReadText,
       UpdateRequest, Convert, WriteHeader, WritePayload, StopSeen, ReadFails, WriteFails,
       ConvertFails, AdriftEnds, End, OutsideSame
  <2> QED
    BY <1>1, <2>1 DEF clientVars
<1>3. CASE AppStep \/ UNCHANGED vars
  BY <1>1, <1>3 DEF AppStep, AppStops, AppResizes, AppResized, OthersSame, clientVars, vars
<1>4. CASE ClientStep
  <2>1. Len(asked) >= 1 => Spoken' = Spoken /\ Greeting' = Greeting
    BY <1>0, <1>4, AskedGrows DEF Greeting
  <2>2. ClientSpeaks = Spoken /\ Spoken \in {3, 7, 8} /\ Greeting = IF Spoken = 8 THEN 4 ELSE 3
    BY DEF ClientSpeaks, Spoken, Greeting
  <2>3. client' \in {"adrift", "gone"} => HeardAt'
    BY DEF HeardAt
  <2>4. /\ client \in {"security", "result", "init", "serverinit", "ready"} => Len(asked) >= 1
        /\ client = "result" => Spoken = 8
    <3>1. Steps \in {2, 3} /\ Len(asked) \in Nat /\ ClientAt
      BY <1>0 DEF SInv, TypeOK, Steps
    <3> QED
      BY <3>1 DEF ClientAt
  <2>5. CASE ClientHearsVersion
    <3>1. client' \in {"security", "adrift"} /\ heard' = 1
      BY <1>0, <2>5 DEF ClientHearsVersion, HeardAt
    <3> QED
      BY <2>3, <3>1 DEF HeardAt
  <2>6. CASE ClientHearsSecurity
    <3>1. heard' = 2 /\ Greeting' = Greeting
      BY <2>1, <2>4, <2>6 DEF ClientHearsSecurity, HeardAt
    <3>2. \/ client' = "adrift" \/ client' = "result"
          \/ client' = "init" /\ Spoken # 8
      BY <2>2, <2>6 DEF ClientHearsSecurity
    <3> QED
      BY <2>2, <2>3, <3>1, <3>2 DEF HeardAt
  <2>7. CASE ClientHearsResult
    <3>1. heard' = 3 /\ Greeting' = Greeting /\ Spoken = 8 /\ client' \in {"init", "adrift"}
      BY <2>1, <2>4, <2>7 DEF ClientHearsResult, HeardAt
    <3> QED
      BY <2>2, <2>3, <3>1 DEF HeardAt
  <2>8. CASE ClientInits
    <3>1. heard' = Greeting - 1 /\ Greeting' = Greeting /\ client' = "serverinit"
      BY <2>1, <2>4, <2>8 DEF ClientInits, HeardAt
    <3> QED
      BY <3>1 DEF HeardAt
  <2>9. CASE ClientHearsInit
    <3>1. heard' = Greeting /\ Greeting' = Greeting /\ client' \in {"ready", "adrift"}
      BY <2>1, <2>2, <2>4, <2>9 DEF ClientHearsInit, HeardAt
    <3> QED
      BY <2>2, <2>3, <3>1 DEF HeardAt, Pairs
  <2>10. CASE ClientHearsUpdate
    <3>1. heard' = heard + 2 /\ Pairs(heard) /\ Greeting' = Greeting /\ client' \in {"ready", "adrift"}
      BY <2>1, <2>4, <2>10 DEF ClientHearsUpdate, HeardAt
    <3>2. Pairs(heard + 2)
      BY <1>0, <3>1, Words
    <3> QED
      BY <2>3, <3>1, <3>2 DEF HeardAt, Pairs
  <2>11. CASE ClientAsks \/ ClientGoesOn
    <3>1. heard' = heard /\ Pairs(heard) /\ Greeting' = Greeting /\ client' = "ready"
      BY <2>1, <2>4, <2>11 DEF ClientAsks, ClientGoesOn, HeardAt
    <3> QED
      BY <3>1 DEF HeardAt, Pairs
  <2>12. CASE ClientLeaves
    BY <2>3, <2>12 DEF ClientLeaves
  <2> QED
    BY <1>4, <2>5, <2>6, <2>7, <2>8, <2>9, <2>10, <2>11, <2>12 DEF ClientStep, ClientReads
<1> QED
  BY <1>2, <1>3, <1>4 DEF Next, ClientStep, AppStep

\* The largest place there is.
LEMMA LessIs == OpToRel(<, Nat) = {ss \in Nat \X Nat : ss[1] < ss[2]}
BY Zenon DEF OpToRel
LEMMA LargestPlace ==
    ASSUME NEW n \in Nat, NEW S \in SUBSET (1..n), S # {}
    PROVE  /\ LastOf(S) \in S /\ \A j \in S : j <= LastOf(S)
           /\ \A i \in S : (\A j \in S : j <= i) => i = LastOf(S)
<1> DEFINE R == {ss \in Nat \X Nat : ss[1] < ss[2]}
           Behind == {n - j : j \in S}
<1>0. \A j \in S : j \in Int /\ j <= n /\ n - j \in Nat /\ n - (n - j) = j
  OBVIOUS
<1>1. IsWellFoundedOn(R, Nat)
  BY NatLessThanWellFounded, LessIs, Zenon
<1>2. Behind \subseteq Nat /\ Behind # {}
  BY <1>0
<1>3. PICK x \in Behind : \A y \in Behind : ~(<<y, x>> \in R)
  <2> HIDE DEF R, Behind
  <2> QED
    BY <1>1, <1>2, WFMin
<1>4. PICK i \in S : x = n - i
  BY <1>3
<1>5. ASSUME NEW j \in S
      PROVE  j <= i
  <2>1. ~(n - j < n - i)
    BY <1>0, <1>3, <1>4
  <2> QED
    BY <1>0, <2>1
<1>6. LastOf(S) \in S /\ \A j \in S : j <= LastOf(S)
  BY <1>5 DEF LastOf
<1>7. ASSUME NEW k \in S, \A j \in S : j <= k
      PROVE  k = LastOf(S)
  <2>1. k <= LastOf(S) /\ LastOf(S) <= k
    BY <1>6, <1>7
  <2> HIDE DEF Behind, R
  <2>2. k \in Int /\ LastOf(S) \in Int
    BY <1>0, <1>6, <1>7, Zenon
  <2>3. \A a, b \in Int : a <= b /\ b <= a => a = b
    OBVIOUS
  <2> QED
    BY <2>1, <2>2, <2>3, Zenon
<1> QED
  BY <1>6, <1>7

\* One more message, one more word: how the places grow.
LEMMA OneMoreAsked ==
    ASSUME NEW n \in Nat
    PROVE  /\ asked[n + 1].type = "update"
                => Cardinality(UpdatesIn(n + 1)) = Cardinality(UpdatesIn(n)) + 1
           /\ asked[n + 1].type # "update" => UpdatesIn(n + 1) = UpdatesIn(n)
           /\ asked[n + 1].type = "format" => ClientFormat(n + 1) = asked[n + 1].n
           /\ asked[n + 1].type # "format" => ClientFormat(n + 1) = ClientFormat(n)
<1>1. 1..(n + 1) = (1..n) \cup {n + 1} /\ n + 1 \notin 1..n
  OBVIOUS
<1>2. ASSUME asked[n + 1].type = "update"
      PROVE  Cardinality(UpdatesIn(n + 1)) = Cardinality(UpdatesIn(n)) + 1
  <2>1. UpdatesIn(n + 1) = UpdatesIn(n) \cup {n + 1} /\ UpdatesIn(n) \in SUBSET (1..n)
    BY <1>1, <1>2 DEF UpdatesIn
  <2> QED
    BY <2>1, RanksKept
<1>3. asked[n + 1].type # "update" => UpdatesIn(n + 1) = UpdatesIn(n)
  BY <1>1 DEF UpdatesIn
<1>4. ASSUME asked[n + 1].type = "format"
      PROVE  ClientFormat(n + 1) = asked[n + 1].n
  <2>1. /\ FormatsIn(n + 1) \in SUBSET (1..(n + 1)) /\ n + 1 \in FormatsIn(n + 1)
        /\ \A j \in FormatsIn(n + 1) : j <= n + 1
    BY <1>4 DEF FormatsIn
  <2>2. LastOf(FormatsIn(n + 1)) = n + 1 /\ FormatsIn(n + 1) # {}
    <3> DEFINE m == n + 1
               F == FormatsIn(m)
    <3>1. m \in Nat /\ F \in SUBSET (1..m) /\ m \in F /\ \A j \in F : j <= m
      BY <2>1
    <3> HIDE DEF m, F
    <3>2. LastOf(F) = m /\ F # {}
      BY <3>1, LargestPlace
    <3> QED
      BY <3>2 DEF m, F
  <2> QED
    BY <2>2 DEF ClientFormat
<1>5. asked[n + 1].type # "format" => ClientFormat(n + 1) = ClientFormat(n)
  <2>1. asked[n + 1].type # "format" => FormatsIn(n + 1) = FormatsIn(n)
    BY <1>1 DEF FormatsIn
  <2> QED
    BY <2>1 DEF ClientFormat
<1> QED
  BY <1>2, <1>3, <1>4, <1>5
LEMMA AskedPlaces ==
    ASSUME NEW n \in Nat, \A i \in 1..n : asked'[i] = asked[i]
    PROVE  UpdatesIn(n)' = UpdatesIn(n) /\ ClientFormat(n)' = ClientFormat(n)
<1>1. UpdatesIn(n)' = UpdatesIn(n) /\ FormatsIn(n)' = FormatsIn(n)
  BY DEF UpdatesIn, FormatsIn
<1>2. ASSUME FormatsIn(n) # {}
      PROVE  asked'[LastOf(FormatsIn(n))] = asked[LastOf(FormatsIn(n))]
  <2>1. FormatsIn(n) \in SUBSET (1..n)
    BY DEF FormatsIn
  <2>2. LastOf(FormatsIn(n)) \in 1..n
    BY <1>2, <2>1, LargestPlace
  <2> QED
    BY <2>2
<1> QED
  BY <1>1, <1>2 DEF ClientFormat
LEMMA SaidPlaces ==
    ASSUME NEW n \in Nat
    PROVE  /\ (\A i \in 1..n : said'[i] = said[i]) => AnswersIn(n)' = AnswersIn(n)
           /\ said[n + 1].kind = "payload"
                => Cardinality(AnswersIn(n + 1)) = Cardinality(AnswersIn(n)) + 1
           /\ said[n + 1].kind # "payload" => AnswersIn(n + 1) = AnswersIn(n)
<1>1. 1..(n + 1) = (1..n) \cup {n + 1} /\ n + 1 \notin 1..n
  OBVIOUS
<1>2. (\A i \in 1..n : said'[i] = said[i]) => AnswersIn(n)' = AnswersIn(n)
  BY DEF AnswersIn
<1>3. ASSUME said[n + 1].kind = "payload"
      PROVE  Cardinality(AnswersIn(n + 1)) = Cardinality(AnswersIn(n)) + 1
  <2>1. AnswersIn(n + 1) = AnswersIn(n) \cup {n + 1} /\ AnswersIn(n) \in SUBSET (1..n)
    BY <1>1, <1>3 DEF AnswersIn
  <2> QED
    BY <2>1, RanksKept
<1>4. said[n + 1].kind # "payload" => AnswersIn(n + 1) = AnswersIn(n)
  BY <1>1 DEF AnswersIn
<1> QED
  BY <1>2, <1>3, <1>4

\* What has been said and asked stays.
LEMMA StreamsGrow ==
    ASSUME DInv, [Next]_vars
    PROVE  /\ Len(said) \in Nat /\ Len(said') \in Nat /\ Len(said) <= Len(said')
           /\ \A i \in 1..Len(said) : said'[i] = said[i]
           /\ Len(asked) \in Nat /\ Len(asked') \in Nat /\ Len(asked) <= Len(asked')
           /\ \A i \in 1..Len(asked) : asked'[i] = asked[i]
<1>0. SInv /\ TypeOK /\ OutTyped /\ Len(said) \in Nat /\ Len(asked) \in Nat
  BY TypeByParts DEF DInv, SInv, TypeOK
<1>1. ASSUME NEW word \in [kind : Kinds, rect : Rects, n : Nat], said' = Append(said, word)
      PROVE  Len(said') = Len(said) + 1 /\ \A i \in 1..Len(said) : said'[i] = said[i]
  BY <1>0, <1>1, SaidGrows
<1>2. Len(said') \in Nat /\ Len(said) <= Len(said') /\ \A i \in 1..Len(said) : said'[i] = said[i]
  <2>1. CASE UNCHANGED said
    BY <1>0, <2>1
  <2>2. CASE \E kind \in Kinds \ {"serverinit"}, r \in Rects, n \in Nat :
                said' = Append(said, [kind |-> kind, rect |-> r, n |-> n])
    <3>1. PICK kind \in Kinds, r \in Rects, n \in Nat :
                said' = Append(said, [kind |-> kind, rect |-> r, n |-> n])
      BY <2>2
    <3>2. [kind |-> kind, rect |-> r, n |-> n] \in [kind : Kinds, rect : Rects, n : Nat]
      OBVIOUS
    <3> QED
      BY <1>0, <1>1, <3>1, <3>2
  <2>3. CASE said' = Append(said, [kind |-> "serverinit", rect |-> Whole(size), n |-> 4])
    <3>1. [kind |-> "serverinit", rect |-> Whole(size), n |-> 4]
             \in [kind : Kinds, rect : Rects, n : Nat]
      BY <1>0, ClippedTyped, MessageTyped DEF TypeOK, Kinds
    <3> QED
      BY <1>0, <1>1, <2>3, <3>1
  <2> QED
    BY <1>0, <2>1, <2>2, <2>3, WrittenIs
<1>3. Len(asked') \in Nat /\ Len(asked) <= Len(asked') /\ \A i \in 1..Len(asked) : asked'[i] = asked[i]
  <2>1. CASE ClientStep
    BY <1>0, <2>1, AskedGrows
  <2>2. CASE ~ClientStep
    <3>1. asked' = asked
      <4>1. CASE ThreadStep
        BY <4>1 DEF ThreadStep, Negotiate, OfferVersion, ReadVersion, WriteSecurity, ReadChoice,
           WriteResult, ReadClientInit, ReadSize, WriteServerInit, Writes, Handle, ReadType,
           SetPixelFormat, SetEncodings, ReadEncoding, KeyEvent, PointerEvent, ClientCutText, ReadText,
           UpdateRequest, Convert, WriteHeader, WritePayload, StopSeen, ReadFails, WriteFails,
           ConvertFails, AdriftEnds, End, OutsideSame, clientVars
      <4>2. CASE AppStep \/ UNCHANGED vars
        BY <4>2 DEF AppStep, AppStops, AppResizes, AppResized, OthersSame, clientVars, vars
      <4> QED
        BY <2>2, <4>1, <4>2 DEF Next, ClientStep, AppStep
    <3> QED
      BY <1>0, <3>1
  <2> QED
    BY <2>1, <2>2
<1> QED
  BY <1>0, <1>2, <1>3

\* The screen changes only with a resize, and a resize is counted.
LEMMA ScreenChanges ==
    ASSUME TypeOK, Still, [Next]_vars, resizes' = 0
    PROVE  resizes = 0 /\ UNCHANGED <<screen, resizing>>
<1>1. resizes \in Nat
  BY DEF TypeOK
<1>2. CASE ThreadStep
  <2>1. UNCHANGED screenVars
    BY <1>2 DEF ThreadStep, Negotiate, OfferVersion, ReadVersion, WriteSecurity, ReadChoice,
       WriteResult, ReadClientInit, ReadSize, WriteServerInit, Writes, Handle, ReadType,
       SetPixelFormat, SetEncodings, ReadEncoding, KeyEvent, PointerEvent, ClientCutText, ReadText,
       UpdateRequest, Convert, WriteHeader, WritePayload, StopSeen, ReadFails, WriteFails,
       ConvertFails, AdriftEnds, End, OutsideSame
  <2> QED
    BY <2>1 DEF screenVars
<1>3. CASE ClientStep
  BY <1>3 DEF ClientStep, ClientReads, ClientAsks, ClientLeaves, ClientHearsVersion,
     ClientHearsSecurity, ClientHearsResult, ClientInits, ClientHearsInit, ClientGoesOn,
     ClientHearsUpdate, ThreadSame, screenVars
<1>4. CASE AppStops \/ UNCHANGED vars
  BY <1>4 DEF AppStops, vars, screenVars
<1>5. CASE AppResizes
  BY <1>1, <1>5 DEF AppResizes
<1>6. CASE AppResized
  BY <1>6 DEF AppResized, Still
<1> QED
  BY <1>2, <1>3, <1>4, <1>5, <1>6 DEF Next, ClientStep

\* Nothing becomes usual again.
LEMMA UsualBefore ==
    ASSUME DInv, Still, [Next]_vars, Usual'
    PROVE  Usual /\ UNCHANGED <<screen, resizing>> /\ resizing = NoSize
<1>1. resizes = 0 /\ UNCHANGED <<screen, resizing>>
  BY ScreenChanges DEF Usual, DInv, SInv
<1>2. resizing = NoSize
  BY <1>1 DEF Still
<1>3. /\ Len(asked) \in Nat /\ Len(asked') \in Nat /\ Len(asked) <= Len(asked')
      /\ \A i \in 1..Len(asked) : asked'[i] = asked[i]
  BY StreamsGrow
<1>4. \A i \in 1..Len(asked) : i \in 1..Len(asked')
  BY <1>3
<1>5. AsksForAll
  BY <1>1, <1>3, <1>4 DEF Usual, AsksForAll
<1> QED
  BY <1>1, <1>2, <1>5 DEF Usual

\* An answer stays the answer to its request.
LEMMA AnsweringKept ==
    ASSUME DInv, [Next]_vars, UNCHANGED screen,
           NEW i \in 2..Len(said), Answering(i)
    PROVE  Answering(i)'
<1>1. /\ Len(said) \in Nat /\ \A j \in 1..Len(said) : said'[j] = said[j]
      /\ Len(asked) \in Nat /\ Len(asked') \in Nat /\ Len(asked) <= Len(asked')
      /\ \A j \in 1..Len(asked) : asked'[j] = asked[j]
  BY StreamsGrow
<1>2. i \in Nat /\ i \in 1..Len(said) /\ i - 1 \in 1..Len(said)
  BY <1>1
<1>3. said'[i] = said[i] /\ said'[i - 1] = said[i - 1] /\ AnswersIn(i)' = AnswersIn(i)
  <2>1. \A j \in 1..i : j \in 1..Len(said)
    BY <1>1, <1>2
  <2> QED
    BY <1>1, <1>2, <2>1, SaidPlaces
<1>4. PICK q \in UpdatesIn(Len(asked)) :
          Cardinality(UpdatesIn(q)) = Cardinality(AnswersIn(i)) /\ said[i].n = ClientFormat(q)
  BY DEF Answering
<1>5. q \in 1..Len(asked) /\ q \in Nat /\ asked[q].type = "update"
  BY <1>1, <1>4 DEF UpdatesIn
<1>6. UpdatesIn(q)' = UpdatesIn(q) /\ ClientFormat(q)' = ClientFormat(q)
  <2>1. \A j \in 1..q : j \in 1..Len(asked)
    BY <1>1, <1>5
  <2> QED
    BY <1>1, <1>5, <2>1, AskedPlaces
<1>7. q \in UpdatesIn(Len(asked))'
  <2>1. q \in 1..Len(asked')
    BY <1>1, <1>5
  <2> QED
    BY <1>1, <1>5, <2>1 DEF UpdatesIn
<1>8. said'[i].rect = Whole(screen') /\ said'[i - 1].rect = Whole(screen')
  BY <1>3 DEF Answering
<1> QED
  BY <1>3, <1>4, <1>6, <1>7, <1>8 DEF Answering

\* An answer is never the first word.
LEMMA AnswersBehind ==
    ASSUME SaidAt, Len(said) \in Nat
    PROVE  \A i \in Answers : i \in 2..Len(said)
<1>1. ASSUME NEW i \in Answers
      PROVE  i \in 2..Len(said)
  <2>1. i \in 1..Len(said) /\ said[i].kind = "payload"
    BY DEF Answers, AnswersIn
  <2>2. i # 1
    BY <2>1, Words DEF SaidAt
  <2> QED
    BY <2>1, <2>2
<1> QED
  BY <1>1

\* The client finds what it looks for.
LEMMA ClientFollows ==
    ASSUME DInv, SaidAt, HeardAt, AnswersAgree, Usual, ClientStep
    PROVE  client' # "adrift"
<1>0. /\ SInv /\ heard \in Nat /\ flushed \in Nat /\ Len(said) \in Nat /\ Len(asked) \in Nat
      /\ heard <= flushed /\ flushed <= Len(said) /\ client # "adrift"
  BY DEF DInv, SInv, TypeOK, SaidAt, AnswersAgree
<1>1. ClientSpeaks = Spoken /\ Spoken \in {3, 7, 8} /\ Greeting = IF Spoken = 8 THEN 4 ELSE 3
  BY DEF ClientSpeaks, Spoken, Greeting
<1>2. heard < flushed => said[heard + 1].kind = WordAt(heard + 1)
  <2>1. heard < flushed => heard + 1 \in 1..Len(said)
    BY <1>0
  <2> QED
    BY <2>1 DEF SaidAt
<1>3. CASE ClientHearsVersion
  BY <1>2, <1>3, Words DEF ClientHearsVersion, Hears, HeardAt
<1>4. CASE ClientHearsSecurity
  <2>1. said[heard + 1].kind = IF Spoken = 3 THEN "sectype" ELSE "sectypes"
    BY <1>2, <1>4, Words DEF ClientHearsSecurity, HeardAt
  <2> QED
    BY <1>1, <1>4, <2>1 DEF ClientHearsSecurity, Hears
<1>5. CASE ClientHearsResult
  <2>1. Spoken = 8 /\ heard = 2
    BY <1>0, <1>5 DEF ClientHearsResult, SInv, ClientAt, HeardAt
  <2>2. said[heard + 1].kind = "result"
    BY <1>2, <1>5, <2>1, Words DEF ClientHearsResult
  <2> QED
    BY <1>5, <2>2 DEF ClientHearsResult, Hears
<1>6. CASE ClientHearsInit
  <2>1. heard + 1 = Greeting
    BY <1>1, <1>6 DEF ClientHearsInit, HeardAt
  <2>2. said[heard + 1].kind = "serverinit"
    BY <1>2, <1>6, <2>1, Words DEF ClientHearsInit
  <2> QED
    BY <1>6, <2>2 DEF ClientHearsInit, Hears
<1>7. CASE ClientHearsUpdate
  <2>1. Pairs(heard) /\ heard + 1 < flushed
    BY <1>7 DEF ClientHearsUpdate, HeardAt
  <2>2. heard + 1 \in 1..Len(said) /\ heard + 2 \in 1..Len(said)
    BY <1>0, <2>1
  <2>3. said[heard + 1].kind = "header" /\ said[heard + 2].kind = "payload"
    BY <1>0, <2>1, <2>2, Words DEF SaidAt
  <2>4. heard + 2 \in Answers
    BY <2>2, <2>3 DEF Answers, AnswersIn
  <2>5. Answering(heard + 2)
    BY <2>4 DEF AnswersAgree
  <2>6. (heard + 2) - 1 = heard + 1
    BY <1>0
  <2>7. /\ said[heard + 2].rect = Whole(screen) /\ said[heard + 1].rect = Whole(screen)
    BY <2>5, <2>6 DEF Answering
  <2>8. PICK q \in UpdatesIn(Len(asked)) :
            Cardinality(UpdatesIn(q)) = Cardinality(AnswersIn(heard + 2))
            /\ said[heard + 2].n = ClientFormat(q)
    BY <2>5 DEF Answering
  <2>9. Cardinality(AnswersIn(heard + 2)) = HeardAnswers + 1
    <3>1. AnswersIn(heard + 1) = AnswersIn(heard)
      BY <1>0, <2>3, SaidPlaces
    <3>2. (heard + 1) + 1 = heard + 2 /\ heard + 1 \in Nat
      BY <1>0
    <3>3. Cardinality(AnswersIn((heard + 1) + 1)) = Cardinality(AnswersIn(heard + 1)) + 1
      BY <2>3, <3>2, SaidPlaces
    <3> QED
      BY <3>1, <3>2, <3>3 DEF HeardAnswers
  <2>10. RequestAt(HeardAnswers + 1) = q
    <3> DEFINE U == UpdatesIn(Len(asked))
               k == HeardAnswers + 1
    <3>1. U \in SUBSET (1..Len(asked))
      BY DEF UpdatesIn
    <3>2. {j \in U : j <= q} = UpdatesIn(q)
      <4>1. q \in 1..Len(asked)
        BY <2>8 DEF UpdatesIn
      <4>2. \A j \in 1..Len(asked) : j <= q <=> j \in 1..q
        BY <1>0, <4>1
      <4>3. \A j \in 1..q : j \in 1..Len(asked)
        BY <1>0, <4>1
      <4> QED
        BY <4>2, <4>3 DEF UpdatesIn
    <3>3. q \in OfRank(U, k)
      BY <2>8, <2>9, <3>2 DEF OfRank
    <3>4. \A i \in OfRank(U, k) : i = q
      <4>1. ASSUME NEW i \in OfRank(U, k)
            PROVE  i = q
        <5>1. i \in U /\ Cardinality({j \in U : j <= i}) = Cardinality({j \in U : j <= q})
          BY <2>8, <2>9, <3>2 DEF OfRank
        <5> HIDE DEF U
        <5> QED
          BY <1>0, <2>8, <3>1, <3>3, <5>1, RankIsUnique DEF U
      <4> QED
        BY <4>1
    <3> QED
      BY <3>3, <3>4 DEF RequestAt, KthOf
  <2>11. LengthOf(said[heard + 2])
           = said[heard + 1].rect.w * said[heard + 1].rect.h * ClientFormat(RequestAt(HeardAnswers + 1))
    BY <2>7, <2>8, <2>10 DEF LengthOf
  <2> QED
    BY <1>7, <2>3, <2>11 DEF ClientHearsUpdate, Hears
<1>8. CASE ClientInits \/ ClientAsks \/ ClientGoesOn \/ ClientLeaves
  BY <1>0, <1>8 DEF ClientInits, ClientAsks, ClientGoesOn, ClientLeaves
<1> QED
  BY <1>3, <1>4, <1>5, <1>6, <1>7, <1>8 DEF ClientStep, ClientReads

\* Only Convert and WriteHeader lead to an answer, and only WritePayload is one.
LEMMA AnswerPlaces ==
    ASSUME DInv, Negotiate \/ Handle
    PROVE  /\ pc' = "header" => Convert /\ ~Ignored(rect')
           /\ pc' = "payload" => WriteHeader
<1>1. CASE Negotiate
  BY <1>1, FinishedIs, ReadsOnIs
  DEF Negotiate, OfferVersion, ReadVersion, WriteSecurity, ReadChoice, WriteResult, ReadClientInit,
      ReadSize, WriteServerInit, Writes, ReadsLast, BehindChoice
<1>2. CASE ReadType
  BY <1>2, ReadsOnIs DEF ReadType, KnownTypes
<1>3. CASE SetPixelFormat \/ SetEncodings \/ ReadEncoding \/ KeyEvent \/ PointerEvent
            \/ ClientCutText \/ ReadText \/ UpdateRequest \/ WritePayload
  <2>1. pc' \in {"type", "encoding", "textbody", "convert", "ended", "adrift"}
    <3>1. CASE WritePayload
      BY <3>1, FinishedIs DEF WritePayload
    <3>2. CASE ~WritePayload
      BY <1>3, <3>2, FinishedIs, ReadsOnIs
      DEF SetPixelFormat, SetEncodings, ReadEncoding, KeyEvent, PointerEvent, ClientCutText, ReadText,
          UpdateRequest, ReadsLast
    <3> QED
      BY <3>1, <3>2
  <2> QED
    BY <2>1
<1>4. CASE Convert
  BY <1>4, FinishedIs DEF Convert
<1>5. CASE WriteHeader
  BY <1>5 DEF WriteHeader
<1> QED
  BY <1>1, <1>2, <1>3, <1>4, <1>5 DEF Handle

\* A step of the thread that sends no answer: a message other than an answered
\* request takes effect, or none does.
LEMMA SilentStep ==
    ASSUME DInv, Negotiate \/ Handle, ~WritePayload
    PROVE  /\ Answers' = Answers
           /\ \/ handled' = handled /\ FormatToSend' = FormatToSend
              \/ /\ handled' = handled + 1 /\ handled < Len(asked)
                 /\ FormatToSend' = IF Coming.type = "format" THEN Coming.n ELSE FormatToSend
                 /\ Coming.type = "update" => Coming.rect.x # 0 \/ Coming.rect.y # 0
<1>0. /\ OutTyped /\ AnswersRanked /\ asked \in Seq(Message) /\ rect \in Rects /\ NoRect \in Rects
      /\ Whole(size) \in Rects /\ format \in Nat /\ ScreenBytes \in {1, 2, 4}
  <2>1. Whole(size) \in Rects
    BY ClippedTyped, MessageTyped DEF DInv, SInv, TypeOK
  <2> QED
    BY <2>1, TypeByParts, MessageTyped, ScreenHasBytes DEF DInv, SInv, TypeOK
<1>1. asked' = asked
  BY DEF Negotiate, OfferVersion, ReadVersion, WriteSecurity, ReadChoice, WriteResult, ReadClientInit,
         ReadSize, WriteServerInit, Writes, Handle, ReadType, SetPixelFormat, SetEncodings,
         ReadEncoding, KeyEvent, PointerEvent, ClientCutText, ReadText, UpdateRequest, Convert,
         WriteHeader, WritePayload, OutsideSame, clientVars
<1>2. \/ UNCHANGED said
      \/ \E kind \in Kinds \ {"payload"}, r \in Rects, n \in Nat : Say(kind, r, n)
  <2>1. CASE Negotiate
    BY <1>0, <2>1
    DEF Negotiate, OfferVersion, ReadVersion, WriteSecurity, ReadChoice, WriteResult, ReadClientInit,
        ReadSize, WriteServerInit, Writes, Quiet, outVars, Kinds
  <2>2. CASE WriteHeader
    BY <1>0, <2>2 DEF WriteHeader, Kinds
  <2>3. CASE Handle /\ ~WriteHeader
    BY <2>3
    DEF Handle, ReadType, SetPixelFormat, SetEncodings, ReadEncoding, KeyEvent, PointerEvent,
        ClientCutText, ReadText, UpdateRequest, Convert, Quiet, outVars
  <2> QED
    BY <2>1, <2>2, <2>3
<1>3. Answers' = Answers /\ AnswerFormats' = AnswerFormats
  <2>1. CASE UNCHANGED said
    BY <1>0, <2>1, AnswersSame
  <2>2. CASE \E kind \in Kinds \ {"payload"}, r \in Rects, n \in Nat : Say(kind, r, n)
    <3>1. PICK kind \in Kinds \ {"payload"}, r \in Rects, n \in Nat :
                 said' = Append(said, [kind |-> kind, rect |-> r, n |-> n])
      BY <2>2 DEF Say
    <3> DEFINE word == [kind |-> kind, rect |-> r, n |-> n]
    <3>2. word \in [kind : Kinds, rect : Rects, n : Nat] /\ word.kind # "payload"
          /\ said' = Append(said, word)
      BY <3>1
    <3> HIDE DEF word
    <3> QED
      BY <1>0, <3>2, AnswersOther
  <2> QED
    BY <1>2, <2>1, <2>2
<1>4. AnswerFormats # Append(AnswerFormats, FormatToSend)
  <2>1. AnswerFormats \in Seq(Nat) /\ Len(AnswerFormats) \in Nat
    BY <1>0, AnswersCount
  <2>2. FormatToSend \in Nat
    BY <1>0 DEF FormatToSend
  <2>3. Len(Append(AnswerFormats, FormatToSend)) = Len(AnswerFormats) + 1
    BY <2>1, <2>2, AppendGrows
  <2> QED
    BY <2>1, <2>3
<1>5. [Promise!Next]_dialogueVars
  BY NegotiateServes, HandleServes
<1>6. CASE Promise!Ask
  <2>1. PICK m \in Message : asked' = Append(asked, m)
    BY <1>6 DEF Promise!Ask
  <2>2. Len(asked') = Len(asked) + 1 /\ Len(asked) \in Nat
    BY <1>0, <2>1, AppendGrows
  <2> QED
    BY <1>1, <2>2
<1>7. CASE Promise!Serve
  BY <1>3, <1>4, <1>7 DEF Promise!Serve, Promise!MayKeepSilent, Coming
<1>8. CASE Promise!Close \/ UNCHANGED dialogueVars
  BY <1>3, <1>8 DEF Promise!Close, dialogueVars
<1> QED
  BY <1>5, <1>6, <1>7, <1>8 DEF Promise!Next

\* As long as everything is usual, an answer is of the whole screen and in the
\* format of its request.
LEMMA ThreadAgrees ==
    ASSUME DInv, Still, SaidAt, AnswersAgree, Negotiate \/ Handle, [Next]_vars, Usual'
    PROVE  /\ FormatToSend' = ClientFormat(handled)'
           /\ Cardinality(Answers)' = Cardinality(UpdatesIn(handled))'
           /\ pc' \in {"header", "payload"} => rect' = Whole(screen)' /\ size' = screen'
           /\ pc' = "payload" => said'[Len(said')].rect = Whole(screen)'
           /\ \A i \in Answers' : Answering(i)'
<1>0. /\ SInv /\ RequestKept /\ AnswersRanked /\ OutTyped /\ handled \in Nat /\ Len(asked) \in Nat
      /\ handled <= Len(asked) /\ Len(said) \in Nat /\ rect \in Rects
      /\ size \in [w : Nat, h : Nat] /\ screen \in [w : Nat, h : Nat] /\ format \in Nat
  BY TypeByParts DEF DInv, SInv, TypeOK, RequestKept
<1>1. Usual /\ screen' = screen
  BY UsualBefore
<1>2. asked' = asked
  BY DEF Negotiate, OfferVersion, ReadVersion, WriteSecurity, ReadChoice, WriteResult, ReadClientInit,
         ReadSize, WriteServerInit, Writes, Handle, ReadType, SetPixelFormat, SetEncodings,
         ReadEncoding, KeyEvent, PointerEvent, ClientCutText, ReadText, UpdateRequest, Convert,
         WriteHeader, WritePayload, OutsideSame, clientVars
<1>3. /\ ClientFormat(handled)' = ClientFormat(handled')
      /\ Cardinality(UpdatesIn(handled))' = Cardinality(UpdatesIn(handled'))
  BY <1>2 DEF ClientFormat, FormatsIn, UpdatesIn
<1>4. /\ FormatToSend = ClientFormat(handled)
      /\ Cardinality(Answers) = Cardinality(UpdatesIn(handled))
      /\ pc \in {"header", "payload"} => rect = Whole(screen) /\ size = screen
      /\ pc = "payload" => said[Len(said)].rect = Whole(screen)
      /\ \A i \in Answers : Answering(i)
  BY <1>1 DEF AnswersAgree
<1>5. \A i \in Answers : Answering(i)'
  <2>1. \A i \in Answers : i \in 2..Len(said)
    BY <1>0, AnswersBehind
  <2> QED
    BY <1>1, <1>4, <2>1, AnsweringKept
<1>6. handled < Len(asked) /\ Coming.type = "update" =>
         /\ Coming.rect.x = 0 /\ Coming.rect.y = 0
         /\ Coming.rect.w >= screen.w /\ Coming.rect.h >= screen.h
  <2>1. handled < Len(asked) => handled + 1 \in 1..Len(asked)
    BY <1>0
  <2> QED
    BY <1>1, <2>1 DEF Usual, AsksForAll, Coming
<1>7. pc' \in {"header", "payload"} => rect' = Whole(screen)' /\ size' = screen'
  <2>1. ASSUME Convert
        PROVE  rect' = Whole(screen) /\ size' = screen
    <3>1. /\ pc = "convert" /\ rect' = Clipped(rect, screen) /\ size' = screen
          /\ rect = Coming.rect
      BY <1>0, <2>1 DEF Convert, RequestKept
    <3>2. Coming.type = "update" /\ handled < Len(asked)
      BY <1>0, <3>1 DEF SInv, MessageAt, Inside
    <3>3. /\ rect.x = 0 /\ rect.y = 0 /\ rect.w >= screen.w /\ rect.h >= screen.h
          /\ rect.w \in Nat /\ rect.h \in Nat /\ screen.w \in Nat /\ screen.h \in Nat
      BY <1>0, <1>6, <3>1, <3>2 DEF Rects
    <3>4. Lesser(rect.w, screen.w) = screen.w /\ Lesser(rect.h, screen.h) = screen.h
      BY <3>3 DEF Lesser
    <3> QED
      BY <3>1, <3>3, <3>4 DEF Clipped, Whole
  <2>2. ASSUME WriteHeader
        PROVE  rect' = Whole(screen) /\ size' = screen
    BY <1>4, <2>2 DEF WriteHeader, threadVars
  <2>3. Whole(screen)' = Whole(screen)
    BY <1>1 DEF Whole
  <2> QED
    BY <1>1, <2>1, <2>2, <2>3, AnswerPlaces
<1>8. pc' = "payload" => said'[Len(said')].rect = Whole(screen)'
  <2>1. ASSUME WriteHeader
        PROVE  said'[Len(said')].rect = Whole(screen)
    <3> DEFINE word == [kind |-> "header", rect |-> rect, n |-> 0]
    <3>1. /\ said' = Append(said, word) /\ word \in [kind : Kinds, rect : Rects, n : Nat]
          /\ word.rect = Whole(screen)
      BY <1>0, <1>4, <2>1 DEF WriteHeader, Say, Kinds
    <3> HIDE DEF word
    <3> QED
      BY <1>0, <3>1, SaidGrows
  <2>2. Whole(screen)' = Whole(screen)
    BY <1>1 DEF Whole
  <2> QED
    BY <2>1, <2>2, AnswerPlaces
<1>9. CASE ~WritePayload
  <2>1. /\ Answers' = Answers
        /\ \/ handled' = handled /\ FormatToSend' = FormatToSend
           \/ /\ handled' = handled + 1 /\ handled < Len(asked)
              /\ FormatToSend' = IF Coming.type = "format" THEN Coming.n ELSE FormatToSend
              /\ Coming.type = "update" => Coming.rect.x # 0 \/ Coming.rect.y # 0
    BY <1>9, SilentStep
  <2>2. FormatToSend' = ClientFormat(handled')
        /\ Cardinality(UpdatesIn(handled')) = Cardinality(UpdatesIn(handled))
    <3>1. CASE handled' = handled /\ FormatToSend' = FormatToSend
      BY <1>4, <3>1
    <3>2. CASE /\ handled' = handled + 1 /\ handled < Len(asked)
               /\ FormatToSend' = IF Coming.type = "format" THEN Coming.n ELSE FormatToSend
               /\ Coming.type = "update" => Coming.rect.x # 0 \/ Coming.rect.y # 0
      <4>1. Coming.type # "update"
        BY <1>6, <3>2
      <4>2. UpdatesIn(handled + 1) = UpdatesIn(handled)
        BY <1>0, <4>1, OneMoreAsked DEF Coming
      <4>3. ClientFormat(handled + 1)
              = IF Coming.type = "format" THEN Coming.n ELSE ClientFormat(handled)
        BY <1>0, OneMoreAsked DEF Coming
      <4> QED
        BY <1>4, <3>2, <4>2, <4>3
    <3> QED
      BY <2>1, <3>1, <3>2
  <2>3. Cardinality(Answers)' = Cardinality(UpdatesIn(handled'))
    BY <1>4, <2>1, <2>2
  <2> QED
    BY <1>3, <1>5, <1>7, <1>8, <2>1, <2>2, <2>3
<1>10. CASE WritePayload
  <2>1. /\ pc = "payload" /\ Finished(TRUE, part, "type") /\ Say("payload", Whole(size), format)
        /\ UNCHANGED format
    BY <1>10 DEF WritePayload, threadVars
  <2>2. /\ Coming.type = "update" /\ part = 2 /\ handled < Len(asked) /\ Coming.n \in Nat
    BY <1>0, <2>1, InsideRequest DEF SInv, MessageAt, Inside
  <2>3. Len(Parts(Coming)) = 2
    <3>1. Parts(Coming) = <<1, 9>>
      BY <2>2, PartsOfMessage
    <3> QED
      BY <3>1
  <2>4. handled' = handled + 1 /\ pc' = "type"
    BY <2>1, <2>2, <2>3 DEF Finished
  <2>5. format = FormatToSend /\ FormatToSend' = FormatToSend
    BY <1>0, <2>1 DEF RequestKept, FormatToSend
  <2> DEFINE word == [kind |-> "payload", rect |-> Whole(size), n |-> format]
             last == Len(said) + 1
  <2>6. /\ said' = Append(said, word) /\ word \in [kind : Kinds, rect : Rects, n : Nat]
        /\ word.kind = "payload" /\ word.n = format /\ word.rect = Whole(screen)
    <3>1. Whole(size) \in Rects
      BY <1>0, ClippedTyped
    <3> QED
      BY <1>0, <1>4, <2>1, <3>1 DEF Say, Kinds
  <2> HIDE DEF word
  <2>7. /\ Len(said') = last /\ said'[last] = word
        /\ \A i \in 1..Len(said) : said'[i] = said[i]
    BY <1>0, <2>6, SaidGrows
  <2>8. /\ Answers' = Answers \cup {last}
        /\ Cardinality(Answers') = Cardinality(Answers) + 1
    BY <1>0, <2>6, AnswersMore
  <2>9. /\ Cardinality(UpdatesIn(handled + 1)) = Cardinality(UpdatesIn(handled)) + 1
        /\ ClientFormat(handled + 1) = ClientFormat(handled)
    BY <1>0, <2>2, OneMoreAsked DEF Coming
  <2>10. FormatToSend' = ClientFormat(handled)'
         /\ Cardinality(Answers)' = Cardinality(UpdatesIn(handled))'
    BY <1>3, <1>4, <2>4, <2>5, <2>8, <2>9
  <2>11. ASSUME NEW i, i = last
         PROVE  Answering(i)'
    <3>1. i - 1 = Len(said) /\ Len(said) \in 1..Len(said)
      <4>1. Len(said) >= 1
        BY <1>0, <2>1, Words DEF SaidAt, LengthAt, Pairs
      <4> QED
        BY <1>0, <2>11, <4>1
    <3>2. said'[i].rect = Whole(screen') /\ said'[i - 1].rect = Whole(screen')
      BY <1>1, <1>4, <2>1, <2>6, <2>7, <2>11, <3>1
    <3>3. handled + 1 \in UpdatesIn(Len(asked)) /\ UpdatesIn(Len(asked))' = UpdatesIn(Len(asked))
      <4>1. handled + 1 \in 1..Len(asked)
        BY <1>0, <2>2
      <4> QED
        BY <1>2, <2>2, <4>1 DEF UpdatesIn, Coming
    <3>4. PICK q \in UpdatesIn(Len(asked))' : q = handled + 1
      BY <3>3
    <3>5. q \in Nat /\ UpdatesIn(q)' = UpdatesIn(q) /\ ClientFormat(q)' = ClientFormat(q)
      BY <1>0, <1>2, <3>4 DEF UpdatesIn, ClientFormat, FormatsIn
    <3>6. Cardinality(UpdatesIn(q))' = Cardinality(Answers')
      BY <1>4, <2>8, <2>9, <3>4, <3>5
    <3>7. said'[i].n = ClientFormat(q)'
      BY <2>11, <1>4, <2>5, <2>6, <2>7, <2>9, <3>4, <3>5
    <3>8. AnswersIn(i)' = Answers'
      BY <2>7, <2>11 DEF Answers, AnswersIn
    <3> QED
      BY <3>2, <3>4, <3>6, <3>7, <3>8 DEF Answering
  <2>12. \A i \in Answers' : Answering(i)'
    BY <1>5, <2>8, <2>11
  <2> QED
    BY <1>7, <1>8, <2>10, <2>12
<1> QED
  BY <1>9, <1>10
LEMMA OthersAgree ==
    ASSUME DInv, Still, SaidAt, AnswersAgree, [Next]_vars, Usual',
           Ends \/ ClientStep \/ AppStep \/ UNCHANGED vars
    PROVE  /\ FormatToSend' = ClientFormat(handled)'
           /\ Cardinality(Answers)' = Cardinality(UpdatesIn(handled))'
           /\ pc' \in {"header", "payload"} => rect' = Whole(screen)' /\ size' = screen'
           /\ pc' = "payload" => said'[Len(said')].rect = Whole(screen)'
           /\ \A i \in Answers' : Answering(i)'
<1>0. /\ RequestKept /\ handled \in Nat /\ Len(asked) \in Nat /\ handled <= Len(asked)
      /\ Len(said) \in Nat
  BY DEF DInv, SInv, TypeOK, RequestKept
<1>1. Usual /\ screen' = screen
  BY UsualBefore
<1>2. UNCHANGED <<handled, format, said, rect, size>> /\ (pc' = pc \/ pc' = "ended")
  <2>1. CASE Ends
    BY <2>1, EndsAre DEF threadVars, inVars, outVars
  <2>2. CASE ClientStep
    BY <2>2 DEF ClientStep, ClientReads, ClientAsks, ClientLeaves, ClientHearsVersion,
       ClientHearsSecurity, ClientHearsResult, ClientInits, ClientHearsInit, ClientGoesOn,
       ClientHearsUpdate, ThreadSame, threadVars, inVars, outVars
  <2>3. CASE AppStep
    BY <2>3 DEF AppStep, AppStops, AppResizes, AppResized, OthersSame, threadVars, inVars, outVars
  <2>4. CASE UNCHANGED vars
    BY <2>4 DEF vars, threadVars, inVars, outVars
  <2> QED
    BY <2>1, <2>2, <2>3, <2>4
<1>3. Answers' = Answers /\ FormatToSend' = FormatToSend
  BY <1>2 DEF Answers, AnswersIn, FormatToSend
<1>4. UpdatesIn(handled)' = UpdatesIn(handled) /\ ClientFormat(handled)' = ClientFormat(handled)
  <2>1. PICK n \in Nat : n = handled
    BY <1>0
  <2>2. \A i \in 1..n : asked'[i] = asked[i]
    <3>1. \A i \in 1..n : i \in 1..Len(asked)
      BY <1>0, <2>1
    <3> QED
      BY <3>1, StreamsGrow
  <2>3. UpdatesIn(n)' = UpdatesIn(n) /\ ClientFormat(n)' = ClientFormat(n)
    BY <2>2, AskedPlaces
  <2>4. UpdatesIn(handled)' = UpdatesIn(n)' /\ ClientFormat(handled)' = ClientFormat(n)'
    BY <1>2, <2>1
  <2> QED
    BY <2>1, <2>3, <2>4
<1>5. \A i \in Answers : Answering(i)'
  <2>1. \A i \in Answers : i \in 2..Len(said)
    BY <1>0, AnswersBehind
  <2> QED
    BY <1>1, <2>1, AnsweringKept DEF AnswersAgree
<1>6. Whole(screen)' = Whole(screen)
  BY <1>1 DEF Whole
<1> QED
  BY <1>1, <1>2, <1>3, <1>4, <1>5, <1>6 DEF AnswersAgree

\* CInv is inductive.
LEMMA CInvInit == Init => CInv
<1> SUFFICES ASSUME Init PROVE CInv
  OBVIOUS
<1>1. DInv
  BY DInvInit
<1>2. Still
  BY DEF Init, Still
<1>3. Len(said) = 0 /\ Len(asked) = 0
  BY DEF Init
<1>4. SaidAt /\ HeardAt
  BY <1>3 DEF Init, SaidAt, HeardAt, LengthAt, Sizing, Inside, Bodies
<1>5. AnswersAgree
  <2>1. Answers = {} /\ UpdatesIn(handled) = {} /\ FormatsIn(handled) = {}
    BY <1>3 DEF Init, Answers, AnswersIn, UpdatesIn, FormatsIn
  <2> QED
    BY <2>1 DEF Init, AnswersAgree, Usual, FormatToSend, ClientFormat
<1> QED
  BY <1>1, <1>2, <1>4, <1>5 DEF CInv

LEMMA CInvStep == CInv /\ [Next]_vars => CInv'
<1> SUFFICES ASSUME CInv, [Next]_vars PROVE CInv'
  OBVIOUS
<1>0. DInv /\ SInv /\ Still /\ SaidAt /\ HeardAt /\ AnswersAgree
  BY DEF CInv, DInv
<1>1. DInv'
  BY <1>0, NextServes, SInvStep DEF DInv
<1>2. Still'
  BY <1>0, ScreenChanges DEF Still, SInv
<1>3. \/ Negotiate \/ Handle
      \/ Ends \/ ClientStep \/ AppStep \/ UNCHANGED vars
  BY DEF Next, ThreadStep, Ends, ClientStep, AppStep
<1>4. SaidAt' /\ HeardAt'
  BY <1>0, <1>3, ThreadSays, OthersSay, ClientHears
<1>5. AnswersAgree'
  <2> SUFFICES ASSUME Usual' PROVE AnswersAgree'
    BY DEF AnswersAgree
  <2>1. Usual /\ UNCHANGED <<screen, resizing>> /\ resizing = NoSize
    BY <1>0, UsualBefore
  <2>2. client' # "adrift"
    <3>1. CASE ClientStep
      BY <1>0, <2>1, <3>1, ClientFollows
    <3>2. CASE ~ClientStep
      <4>1. client' = client
        <5>1. CASE ThreadStep
          BY <5>1 DEF ThreadStep, Negotiate, OfferVersion, ReadVersion, WriteSecurity, ReadChoice,
             WriteResult, ReadClientInit, ReadSize, WriteServerInit, Writes, Handle, ReadType,
             SetPixelFormat, SetEncodings, ReadEncoding, KeyEvent, PointerEvent, ClientCutText,
             ReadText, UpdateRequest, Convert, WriteHeader, WritePayload, StopSeen, ReadFails,
             WriteFails, ConvertFails, AdriftEnds, End, OutsideSame, clientVars
        <5>2. CASE AppStep \/ UNCHANGED vars
          BY <5>2 DEF AppStep, AppStops, AppResizes, AppResized, OthersSame, clientVars, vars
        <5> QED
          BY <3>2, <5>1, <5>2 DEF Next, ClientStep, AppStep
      <4> QED
        BY <1>0, <2>1, <4>1 DEF AnswersAgree
    <3> QED
      BY <3>1, <3>2
  <2>3. resizing' = NoSize
    BY <2>1
  <2>4. /\ FormatToSend' = ClientFormat(handled)'
        /\ Cardinality(Answers)' = Cardinality(UpdatesIn(handled))'
        /\ pc' \in {"header", "payload"} => rect' = Whole(screen)' /\ size' = screen'
        /\ pc' = "payload" => said'[Len(said')].rect = Whole(screen)'
        /\ \A i \in Answers' : Answering(i)'
    BY <1>0, <1>3, ThreadAgrees, OthersAgree
  <2> QED
    BY <2>2, <2>3, <2>4 DEF AnswersAgree
<1> QED
  BY <1>1, <1>2, <1>4, <1>5 DEF CInv

\* The client never takes one thing for another in what it is sent, for any
\* versions, messages and bounds, as long as the framebuffer has the pixels
\* ServerInit announces, it asks for the whole screen each time, and the
\* application does not resize.
THEOREM ClientKeepsStep == Spec => []ClientInStep
<1>1. CInv => ClientInStep
  BY DEF CInv, AnswersAgree, Usual, ClientInStep
<1> QED
  BY <1>1, CInvInit, CInvStep, PTL DEF Spec

=============================================================================
