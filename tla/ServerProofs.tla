---------------------------- MODULE ServerProofs ----------------------------
(***************************************************************************)
(* Proofs about Server for every set of connections, every bound and every *)
(* set of faults: IInv is inductive, and the safety properties of the life *)
(* cycle follow from it.                                                   *)
(***************************************************************************)
EXTENDS Server, SequenceTheorems, TLAPS

USE DEF SrvGoto, SrvLocal, ExitThread, ConGoto, ConLocal, appVars, walkVars, conVars

-----------------------------------------------------------------------------
(* What the steps of each thread leave alone. *)

\* The application thread touches neither the lists nor the connections, and
\* it writes srv->state only to request a stop.
LEMMA AppFrame ==
    ASSUME AppStep
    PROVE  UNCHANGED <<result, walkVars, fresh, conVars>>
BY DEF AppStep, AppInCall, AppBind, AppStart, AppStartReturns, AppStop, AppDestroy,
       AppRequestStop, AppSeesAnswer, AppJoin, AppFree

\* The server thread does not touch the application's side.
LEMMA SrvFrame ==
    ASSUME SrvStep
    PROVE  UNCHANGED appVars
BY DEF SrvStep, SrvDrain, SrvBegin, SrvListen, SrvCheck, SrvSelectTimeout, SrvSelectFails,
       SrvAccept, SrvAcceptFails, SrvPush, SrvReap, SrvReapJoin, SrvTake, SrvMark,
       SrvCount, SrvJoin, SrvFree, SrvSetState, SrvExit

\* A connection thread touches its own state and nothing of the server's.
LEMMA ConFrame ==
    ASSUME NEW c \in Conns, ConStep(c)
    PROVE  UNCHANGED <<appVars, srvState, srvPc, result, walkVars, fresh, conMem>>
BY DEF ConStep, ConBegin, ConCheckStopped, ConIoReturns, ConIoTimeout, ConFails,
       ConUsesServer, ConExit, ConEnd

-----------------------------------------------------------------------------
(* Sequences, as the lists are built and cut. *)

\* The items of a list, written out.
LEMMA ItemsOf ==
    ASSUME NEW s, NEW x
    PROVE  x \in Items(s) <=> \E i \in 1..Len(s) : x = s[i]
BY DEF Items

\* What follows an index of a list, as the reaping loop keeps it.
LEMMA CutAfter ==
    ASSUME NEW S, NEW s \in Seq(S), NEW k \in 1..Len(s), NEW t,
           t = SubSeq(s, k + 1, Len(s))
    PROVE  /\ t \in Seq(S)
           /\ Len(t) = Len(s) - k
           /\ \A i \in 1..Len(t) : t[i] = s[k + i]
BY SubSeqProperties

\* The rest of a list behind its head.
LEMMA Behead ==
    ASSUME NEW S, NEW s \in Seq(S), s # <<>>, NEW t, t = Tail(s)
    PROVE  /\ t \in Seq(S)
           /\ Len(t) = Len(s) - 1
           /\ \A i \in 1..Len(t) : t[i] = s[i + 1]
           /\ Head(s) = s[1] /\ 1 \in 1..Len(s)
BY HeadTailProperties, EmptySeq

\* A list with a new head.
LEMMA Prepend ==
    ASSUME NEW S, NEW s \in Seq(S), NEW x \in S, NEW t, t = Linked(x, s)
    PROVE  /\ t \in Seq(S)
           /\ Len(t) = Len(s) + 1
           /\ t[1] = x
           /\ \A i \in 1..Len(s) : t[i + 1] = s[i]
           /\ \A i \in 2..Len(t) : t[i] = s[i - 1]
BY DEF Linked

\* What a new head, a cut behind an index and a removed head do to the items of
\* a list and to their being distinct.
LEMMA PrependItems ==
    ASSUME NEW S, NEW s \in Seq(S), NEW x \in S, NEW t, t = Linked(x, s)
    PROVE  /\ Items(t) = Items(s) \cup {x}
           /\ Distinct(s) /\ x \notin Items(s) => Distinct(t)
<1>1. /\ t \in Seq(S) /\ Len(t) = Len(s) + 1 /\ t[1] = x
      /\ \A i \in 1..Len(s) : t[i + 1] = s[i]
      /\ \A i \in 2..Len(t) : t[i] = s[i - 1]
  BY DEF Linked
<1>2. ASSUME NEW y
      PROVE  y \in Items(t) <=> y \in Items(s) \cup {x}
  <2>1. ASSUME NEW i \in 1..Len(t), y = t[i]
        PROVE  y \in Items(s) \cup {x}
    <3>1. CASE i = 1
      BY <1>1, <2>1, <3>1
    <3>2. CASE i # 1
      <4>1. i - 1 \in 1..Len(s) /\ t[i] = s[i - 1]
        BY <1>1, <3>2
      <4> QED
        BY <2>1, <4>1, ItemsOf
    <3> QED
      BY <3>1, <3>2
  <2>2. ASSUME NEW i \in 1..Len(s), y = s[i]
        PROVE  y \in Items(t)
    <3>1. i + 1 \in 1..Len(t) /\ t[i + 1] = s[i]
      BY <1>1
    <3> QED
      BY <2>2, <3>1, ItemsOf
  <2>3. x \in Items(t)
    <3>1. 1 \in 1..Len(t) /\ t[1] = x
      BY <1>1
    <3> QED
      BY <3>1, ItemsOf
  <2> QED
    BY <2>1, <2>2, <2>3, ItemsOf
<1>3. ASSUME Distinct(s), x \notin Items(s), NEW i \in 1..Len(t), NEW j \in 1..Len(t),
             t[i] = t[j]
      PROVE  i = j
  <2>1. ASSUME NEW k \in 1..Len(t), k # 1
        PROVE  k - 1 \in 1..Len(s) /\ t[k] = s[k - 1] /\ t[k] # x
    <3>1. k - 1 \in 1..Len(s) /\ t[k] = s[k - 1]
      BY <1>1, <2>1
    <3> QED
      BY <1>3, <3>1, ItemsOf
  <2>2. CASE i = 1 \/ j = 1
    BY <1>1, <1>3, <2>1, <2>2
  <2>3. CASE i # 1 /\ j # 1
    BY <1>3, <2>1, <2>3 DEF Distinct
  <2> QED
    BY <2>2, <2>3
<1> QED
  BY <1>2, <1>3 DEF Distinct

LEMMA CutItems ==
    ASSUME NEW s \in Seq(Conns), NEW k \in 1..Len(s), NEW t, NEW m,
           m = k + 1, t = SubSeq(s, m, Len(s)), Distinct(s)
    PROVE  /\ Items(t) \subseteq Items(s) \ {s[k]}
           /\ Distinct(t)
<1>1. /\ Len(t) = Len(s) - k
      /\ \A i \in 1..Len(t) : t[i] = s[k + i]
  BY CutAfter
<1>2. ASSUME NEW i \in 1..Len(t)
      PROVE  k + i \in 1..Len(s) /\ t[i] = s[k + i] /\ t[i] # s[k]
  <2>1. k + i \in 1..Len(s) /\ t[i] = s[k + i]
    BY <1>1
  <2> QED
    BY <2>1 DEF Distinct
<1>3. Items(t) \subseteq Items(s) \ {s[k]}
  <2>1. ASSUME NEW i \in 1..Len(t)
        PROVE  t[i] \in Items(s) \ {s[k]}
    BY <1>2, ItemsOf
  <2> QED
    BY <2>1 DEF Items
<1>4. ASSUME NEW i \in 1..Len(t), NEW j \in 1..Len(t), t[i] = t[j]
      PROVE  i = j
  <2>1. k + i = k + j
    BY <1>2, <1>4 DEF Distinct
  <2> QED
    BY <2>1
<1> QED
  BY <1>3, <1>4 DEF Distinct

LEMMA BeheadItems ==
    ASSUME NEW S, NEW s \in Seq(S), s # <<>>, NEW t, t = Tail(s), Distinct(s)
    PROVE  /\ Items(t) = Items(s) \ {Head(s)}
           /\ Distinct(t)
<1>1. /\ Len(t) = Len(s) - 1
      /\ \A i \in 1..Len(t) : t[i] = s[i + 1]
      /\ Head(s) = s[1] /\ 1 \in 1..Len(s)
  BY Behead
<1>2. Items(t) \subseteq Items(s) \ {Head(s)}
  BY <1>1 DEF Items, Distinct
<1>3. Items(s) \ {Head(s)} \subseteq Items(t)
  <2>1. ASSUME NEW i \in 2..Len(s)
        PROVE  s[i] = t[i - 1] /\ i - 1 \in 1..Len(t)
    BY <1>1
  <2> QED
    BY <1>1, <2>1 DEF Items
<1> QED
  BY <1>1, <1>2, <1>3 DEF Distinct

-----------------------------------------------------------------------------
(* The conjuncts of IInv, one lemma each. *)

\* Types are kept: the one action that could break them links "fresh", which is
\* a connection wherever the server thread is about to push it.
LEMMA TypeStep ==
    ASSUME TypeOK, ListsAgree, [Next]_vars
    PROVE  TypeOK'
<1> USE DEF TypeOK, SrvPcs, DrainPcs, ConPcs, RunningPcs, AppPcs, States
<1>1. CASE AppStep
  <2>1. CASE AppBind
    BY <2>1 DEF AppBind
  <2>2. CASE AppStart
    BY <2>2, ConstantsAssumption DEF AppStart, ConstantsAssumption
  <2>3. CASE AppStop
    BY <2>3 DEF AppStop
  <2>4. CASE AppDestroy
    BY <2>4 DEF AppDestroy
  <2>5. CASE AppStartReturns
    BY <2>5 DEF AppStartReturns, StartOutcome
  <2>6. CASE AppRequestStop
    BY <2>6 DEF AppRequestStop
  <2>7. CASE AppSeesAnswer
    BY <2>7 DEF AppSeesAnswer
  <2>8. CASE AppJoin
    BY <2>8 DEF AppJoin
  <2>9. CASE AppFree
    BY <2>9 DEF AppFree
  <2> QED
    BY <1>1, <2>1, <2>2, <2>3, <2>4, <2>5, <2>6, <2>7, <2>8, <2>9 DEF AppStep, AppInCall
<1>2. CASE SrvStep
  <2>1. CASE SrvBegin
    BY <2>1 DEF SrvBegin
  <2>2. CASE SrvListen
    BY <2>2 DEF SrvListen
  <2>3. CASE SrvCheck
    BY <2>3 DEF SrvCheck
  <2>4. CASE SrvSelectTimeout
    BY <2>4 DEF SrvSelectTimeout
  <2>5. CASE SrvSelectFails
    BY <2>5 DEF SrvSelectFails
  <2>6. ASSUME NEW c \in Conns, SrvAccept(c)
        PROVE  TypeOK'
    BY <2>6 DEF SrvAccept
  <2>7. ASSUME NEW c \in Conns, SrvAcceptFails(c)
        PROVE  TypeOK'
    BY <2>7 DEF SrvAcceptFails, AfterCreateFails
  <2>8. CASE SrvPush
    <3>1. fresh \in Conns
      BY <2>8 DEF SrvPush, ListsAgree
    <3>2. clients' \in Seq(Conns)
      BY <2>8, <3>1, Prepend DEF SrvPush
    <3> QED
      BY <2>8, <3>2 DEF SrvPush
  <2>9. CASE SrvReap
    BY <2>9 DEF SrvReap
  <2>10. CASE SrvReapJoin
    <3>1. pos \in 1..Len(clients)
      BY <2>10 DEF SrvReapJoin, ListsAgree
    <3>2. clients' \in Seq(Conns)
      BY <2>10, <3>1, CutAfter DEF SrvReapJoin
    <3>3. conMem' \in [Conns -> {"none", "live", "freed", "leaked"}]
      BY <2>10 DEF SrvReapJoin
    <3>4. pos' \in Nat \ {0} /\ srvPc' \in SrvPcs
      BY <2>10 DEF SrvReapJoin
    <3> QED
      BY <2>10, <3>2, <3>3, <3>4 DEF SrvReapJoin
  <2>11. CASE SrvTake
    BY <2>11 DEF SrvTake, ListLeft
  <2>12. CASE SrvMark
    <3>1. CASE AtEnd(draining)
      <4>1. srvPc' = "count" /\ pos' = 1 /\ work' = FALSE /\ UNCHANGED conState
        BY <2>12, <3>1 DEF SrvMark
      <4>2. UNCHANGED <<appVars, srvState, result, clients, draining, fresh, conPc, conMem, ioLeft>>
        BY <2>12 DEF SrvMark
      <4>3. work' \in BOOLEAN
        BY <4>1, Zenon
      <4> QED
        BY <4>1, <4>2, <4>3
    <3>2. CASE ~AtEnd(draining)
      <4>1. draining[pos] \in Conns
        BY <3>2 DEF AtEnd
      <4>2. Marked(conState[draining[pos]]) \in States
        BY <4>1 DEF Marked
      <4>3. conState' = [conState EXCEPT ![draining[pos]] = Marked(conState[draining[pos]])]
        BY <2>12, <3>2 DEF SrvMark
      <4>4. conState' \in [Conns -> States]
        BY <4>1, <4>2, <4>3
      <4>5. pos' \in Nat \ {0} /\ srvPc' \in SrvPcs /\ work' \in BOOLEAN
        BY <2>12, <3>2 DEF SrvMark
      <4> QED
        BY <2>12, <4>4, <4>5 DEF SrvMark
    <3> QED
      BY <3>1, <3>2
  <2>13. CASE SrvCount
    <3>1. pos' \in Nat \ {0} /\ srvPc' \in SrvPcs
      BY <2>13 DEF SrvCount
    <3>2. work' \in BOOLEAN
      BY <2>13 DEF SrvCount, WorkAtStart
    <3> QED
      BY <2>13, <3>1, <3>2 DEF SrvCount
  <2>14. CASE SrvJoin
    BY <2>14 DEF SrvJoin
  <2>15. CASE SrvFree
    <3>1. draining' \in Seq(Conns)
      BY <2>15, Behead DEF SrvFree
    <3>2. conMem' \in [Conns -> {"none", "live", "freed", "leaked"}]
      BY <2>15 DEF SrvFree
    <3>3. srvPc' \in SrvPcs
      BY <2>15 DEF SrvFree
    <3> QED
      BY <2>15, <3>1, <3>2, <3>3 DEF SrvFree
  <2>16. CASE SrvSetState
    BY <2>16 DEF SrvSetState
  <2>17. CASE SrvExit
    BY <2>17 DEF SrvExit
  <2> QED
    BY <1>2, <2>1, <2>2, <2>3, <2>4, <2>5, <2>6, <2>7, <2>8, <2>9, <2>10,
       <2>11, <2>12, <2>13, <2>14, <2>15, <2>16, <2>17
       DEF SrvStep, SrvDrain
<1>3. ASSUME NEW c \in Conns, ConStep(c)
      PROVE  TypeOK'
  <2>1. CASE ConBegin(c)
    BY <2>1, ConstantsAssumption DEF ConBegin, ConstantsAssumption
  <2>2. CASE ConCheckStopped(c)
    <3>1. CASE conState[c] = "STOP"
      <4>1. ConEnd(c, "STOPPED")
        BY <2>2, <3>1 DEF ConCheckStopped
      <4> QED
        BY <4>1 DEF ConEnd
    <3>2. CASE conState[c] # "STOP"
      <4>1. /\ conPc' = [conPc EXCEPT ![c] = "io"]
            /\ ioLeft' = [ioLeft EXCEPT ![c] = MaxIo]
            /\ UNCHANGED <<appVars, srvState, srvPc, result, walkVars, fresh, conMem, conState>>
        BY <2>2, <3>2 DEF ConCheckStopped
      <4> QED
        BY <4>1, ConstantsAssumption DEF ConstantsAssumption
    <3> QED
      BY <3>1, <3>2
  <2>3. CASE ConIoReturns(c)
    <3>1. ioLeft' \in [Conns -> 0..MaxIo]
      <4>1. ioLeft[c] > 0 => ioLeft[c] - 1 \in 0..MaxIo
        BY ConstantsAssumption DEF ConstantsAssumption
      <4> QED
        BY <2>3, <4>1 DEF ConIoReturns
    <3>2. conPc' \in [Conns -> ConPcs]
      BY <2>3 DEF ConIoReturns
    <3> QED
      BY <2>3, <3>1, <3>2 DEF ConIoReturns
  <2>4. CASE ConIoTimeout(c)
    BY <2>4 DEF ConIoTimeout, ConEnd
  <2>5. CASE ConFails(c)
    BY <2>5 DEF ConFails, ConEnd
  <2>6. CASE ConUsesServer(c)
    <3>1. ioLeft' \in [Conns -> 0..MaxIo]
      <4>1. ioLeft[c] > 0 => ioLeft[c] - 1 \in 0..MaxIo
        BY ConstantsAssumption DEF ConstantsAssumption
      <4> QED
        BY <2>6, <4>1 DEF ConUsesServer
    <3>2. conPc' \in [Conns -> ConPcs]
      BY <2>6 DEF ConUsesServer
    <3> QED
      BY <2>6, <3>1, <3>2 DEF ConUsesServer
  <2>7. CASE ConExit(c)
    BY <2>7 DEF ConExit
  <2> QED
    BY <1>3, <2>1, <2>2, <2>3, <2>4, <2>5, <2>6, <2>7 DEF ConStep
<1>4. CASE Terminated \/ UNCHANGED vars
  BY <1>4 DEF Terminated, vars
<1> QED
  BY <1>1, <1>2, <1>3, <1>4 DEF Next

\* The application, the server thread and srv->state stay in agreement: the
\* thread writes WORKING only while trfb_server_start waits for it, so it cannot
\* overwrite a STOP, and a request to stop finds the thread alive or answered.
LEMMA CallsStep ==
    ASSUME TypeOK, CallsAgree, [Next]_vars
    PROVE  CallsAgree'
<1> USE DEF CallsAgree, SrvRuns
<1>1. CASE AppStep
  <2>1. CASE AppBind
    BY <2>1 DEF AppBind
  <2>2. CASE AppStart
    BY <2>2 DEF AppStart
  <2>3. CASE AppStop
    BY <2>3 DEF AppStop
  <2>4. CASE AppDestroy
    BY <2>4 DEF AppDestroy, MustStop
  <2>5. CASE AppStartReturns
    BY <2>5 DEF AppStartReturns, StartOutcome
  <2>6. CASE AppRequestStop
    BY <2>6 DEF AppRequestStop
  <2>7. CASE AppSeesAnswer
    BY <2>7 DEF AppSeesAnswer
  <2>8. CASE AppJoin
    BY <2>8 DEF AppJoin
  <2>9. CASE AppFree
    BY <2>9 DEF AppFree
  <2> QED
    BY <1>1, <2>1, <2>2, <2>3, <2>4, <2>5, <2>6, <2>7, <2>8, <2>9 DEF AppStep, AppInCall
<1>2. CASE SrvStep
  <2>1. CASE SrvBegin
    BY <2>1 DEF SrvBegin
  <2>2. CASE SrvListen
    BY <2>2 DEF SrvListen
  <2>3. CASE SrvCheck
    BY <2>3 DEF SrvCheck, StopAsked
  <2>4. CASE SrvSelectTimeout
    BY <2>4 DEF SrvSelectTimeout
  <2>5. CASE SrvSelectFails
    BY <2>5 DEF SrvSelectFails
  <2>6. ASSUME NEW c \in Conns, SrvAccept(c)
        PROVE  CallsAgree'
    BY <2>6 DEF SrvAccept
  <2>7. ASSUME NEW c \in Conns, SrvAcceptFails(c)
        PROVE  CallsAgree'
    BY <2>7 DEF SrvAcceptFails, AfterCreateFails
  <2>8. CASE SrvPush
    BY <2>8 DEF SrvPush
  <2>9. CASE SrvReap
    BY <2>9 DEF SrvReap
  <2>10. CASE SrvReapJoin
    BY <2>10 DEF SrvReapJoin, Joinable
  <2>11. CASE SrvTake
    BY <2>11 DEF SrvTake, ListLeft
  <2>12. CASE SrvMark
    BY <2>12 DEF SrvMark, Marked
  <2>13. CASE SrvCount
    BY <2>13 DEF SrvCount, WorkAtStart
  <2>14. CASE SrvJoin
    BY <2>14 DEF SrvJoin, Joinable
  <2>15. CASE SrvFree
    BY <2>15 DEF SrvFree
  <2>16. CASE SrvSetState
    BY <2>16 DEF SrvSetState
  <2>17. CASE SrvExit
    BY <2>17 DEF SrvExit
  <2> QED
    BY <1>2, <2>1, <2>2, <2>3, <2>4, <2>5, <2>6, <2>7, <2>8, <2>9, <2>10, <2>11, <2>12,
       <2>13, <2>14, <2>15, <2>16, <2>17 DEF SrvStep, SrvDrain
<1>3. ASSUME NEW c \in Conns, ConStep(c)
      PROVE  CallsAgree'
  BY <1>3, ConFrame
<1>4. CASE Terminated \/ UNCHANGED vars
  BY <1>4 DEF Terminated, vars
<1> QED
  BY <1>1, <1>2, <1>3, <1>4 DEF Next

\* Memory, location and state of every connection stay in agreement.
LEMMA AgreeStep ==
    ASSUME TypeOK, ListsAgree, ReachableAreLive, \A c \in Conns : ConAgrees(c),
           [Next]_vars,
           NEW d \in Conns
    PROVE  ConAgrees(d)'
<1> USE DEF TypeOK, ConAgrees, ConRuns, ConEnding, RunningPcs
<1>1. CASE AppStep
  BY <1>1, AppFrame
<1>2. CASE SrvStep
  <2>1. ASSUME NEW c \in Conns, SrvAccept(c)
        PROVE  ConAgrees(d)'
    BY <2>1 DEF SrvAccept
  <2>2. ASSUME NEW c \in Conns, SrvAcceptFails(c)
        PROVE  ConAgrees(d)'
    BY <2>2 DEF SrvAcceptFails, AfterCreateFails
  <2>3. CASE SrvReapJoin
    <3>1. pos \in 1..Len(clients)
      BY <2>3 DEF SrvReapJoin, ListsAgree
    <3>2. conMem[clients[pos]] = "live"
      BY <3>1 DEF ReachableAreLive, Items
    <3> QED
      BY <2>3, <3>2 DEF SrvReapJoin
  <2>4. CASE SrvMark
    <3>1. conState'[d] \in {conState[d], Marked(conState[d])}
      BY <2>4 DEF SrvMark
    <3>2. UNCHANGED <<conPc, conMem>>
      BY <2>4 DEF SrvMark
    <3> QED
      BY <3>1, <3>2 DEF Marked
  <2>5. CASE SrvFree
    <3>1. draining # <<>> => conMem[Head(draining)] = "live"
      BY Behead DEF ReachableAreLive, Items
    <3> QED
      BY <2>5, <3>1 DEF SrvFree
  <2>6. CASE \/ SrvBegin \/ SrvListen \/ SrvCheck \/ SrvSelectTimeout
           \/ SrvSelectFails \/ SrvPush \/ SrvReap \/ SrvTake \/ SrvCount
           \/ SrvJoin \/ SrvSetState \/ SrvExit
    BY <2>6
       DEF SrvBegin, SrvListen, SrvCheck, SrvSelectTimeout, SrvSelectFails, SrvPush,
           SrvReap, SrvTake, SrvCount, SrvJoin, SrvSetState, SrvExit
  <2> QED
    BY <1>2, <2>1, <2>2, <2>3, <2>4, <2>5, <2>6 DEF SrvStep, SrvDrain
<1>3. ASSUME NEW c \in Conns, ConStep(c)
      PROVE  ConAgrees(d)'
  <2>1. CASE ConBegin(c)
    BY <2>1 DEF ConBegin
  <2>2. CASE ConCheckStopped(c)
    BY <2>2 DEF ConCheckStopped, ConEnd
  <2>3. CASE ConIoReturns(c)
    BY <2>3 DEF ConIoReturns
  <2>4. CASE ConIoTimeout(c)
    BY <2>4 DEF ConIoTimeout, ConEnd, PollsStop
  <2>5. CASE ConFails(c)
    BY <2>5 DEF ConFails, ConEnd
  <2>6. CASE ConUsesServer(c)
    BY <2>6 DEF ConUsesServer
  <2>7. CASE ConExit(c)
    BY <2>7 DEF ConExit
  <2> QED
    BY <1>3, <2>1, <2>2, <2>3, <2>4, <2>5, <2>6, <2>7 DEF ConStep
<1>4. CASE Terminated \/ UNCHANGED vars
  BY <1>4 DEF Terminated, vars
<1> QED
  BY <1>1, <1>2, <1>3, <1>4 DEF Next

\* A connection is freed only behind the join of its thread, in both places.
LEMMA FreedStep ==
    ASSUME TypeOK, ListsAgree, JoinProgress, FreedOnlyAfterExit,
           \A c \in Conns : ConAgrees(c), [Next]_vars
    PROVE  FreedOnlyAfterExit'
<1> SUFFICES ASSUME NEW d \in Conns
             PROVE  conMem'[d] = "freed" => conPc'[d] = "exited"
  BY DEF FreedOnlyAfterExit
<1> USE DEF TypeOK, FreedOnlyAfterExit
<1>1. CASE AppStep
  BY <1>1, AppFrame
<1>2. CASE SrvStep
  <2>1. ASSUME NEW c \in Conns, SrvAccept(c)
        PROVE  conMem'[d] = "freed" => conPc'[d] = "exited"
    BY <2>1 DEF SrvAccept, ConAgrees
  <2>2. ASSUME NEW c \in Conns, SrvAcceptFails(c)
        PROVE  conMem'[d] = "freed" => conPc'[d] = "exited"
    BY <2>2 DEF SrvAcceptFails, AfterCreateFails
  <2>3. CASE SrvReapJoin
    BY <2>3 DEF SrvReapJoin, Joinable
  <2>4. CASE SrvFree
    <3>1. draining # <<>> => conPc[Head(draining)] = "exited"
      BY <2>4, Behead DEF SrvFree, JoinProgress
    <3> QED
      BY <2>4, <3>1 DEF SrvFree
  <2>5. CASE \/ SrvBegin \/ SrvListen \/ SrvCheck \/ SrvSelectTimeout
           \/ SrvSelectFails \/ SrvPush \/ SrvReap \/ SrvTake \/ SrvMark
           \/ SrvCount \/ SrvJoin \/ SrvSetState \/ SrvExit
    BY <2>5
       DEF SrvBegin, SrvListen, SrvCheck, SrvSelectTimeout, SrvSelectFails, SrvPush,
           SrvReap, SrvTake, SrvMark, SrvCount, SrvJoin, SrvSetState, SrvExit
  <2> QED
    BY <1>2, <2>1, <2>2, <2>3, <2>4, <2>5 DEF SrvStep, SrvDrain
<1>3. ASSUME NEW c \in Conns, ConStep(c)
      PROVE  conMem'[d] = "freed" => conPc'[d] = "exited"
  <2>1. CASE ConBegin(c)
    BY <2>1 DEF ConBegin
  <2>2. CASE ConCheckStopped(c)
    BY <2>2 DEF ConCheckStopped, ConEnd
  <2>3. CASE ConIoReturns(c)
    BY <2>3 DEF ConIoReturns
  <2>4. CASE ConIoTimeout(c)
    BY <2>4 DEF ConIoTimeout, ConEnd, PollsStop
  <2>5. CASE ConFails(c)
    BY <2>5 DEF ConFails, ConEnd
  <2>6. CASE ConUsesServer(c)
    BY <2>6 DEF ConUsesServer
  <2>7. CASE ConExit(c)
    BY <2>7 DEF ConExit
  <2> QED
    BY <1>3, <2>1, <2>2, <2>3, <2>4, <2>5, <2>6, <2>7 DEF ConStep
<1>4. CASE Terminated \/ UNCHANGED vars
  BY <1>4 DEF Terminated, vars
<1> QED
  BY <1>1, <1>2, <1>3, <1>4 DEF Next

\* The lists hold connections only where server() lets them.
LEMMA ListsStep ==
    ASSUME TypeOK, CallsAgree, ListsAgree, [Next]_vars
    PROVE  ListsAgree'
<1> USE DEF TypeOK, ListsAgree, DrainPcs
<1>1. CASE AppStep
  <2>1. CASE AppBind
    BY <2>1 DEF AppBind
  <2>2. CASE AppStart
    <3>1. srvPc \notin DrainPcs /\ srvPc # "push"
      BY <2>2 DEF AppStart, CallsAgree, SrvRuns
    <3> QED
      BY <2>2, <3>1 DEF AppStart
  <2>3. CASE AppStop
    BY <2>3 DEF AppStop
  <2>4. CASE AppDestroy
    BY <2>4 DEF AppDestroy, MustStop
  <2>5. CASE AppStartReturns
    BY <2>5 DEF AppStartReturns, StartOutcome
  <2>6. CASE AppRequestStop
    BY <2>6 DEF AppRequestStop
  <2>7. CASE AppSeesAnswer
    BY <2>7 DEF AppSeesAnswer
  <2>8. CASE AppJoin
    BY <2>8 DEF AppJoin
  <2>9. CASE AppFree
    BY <2>9 DEF AppFree
  <2> QED
    BY <1>1, <2>1, <2>2, <2>3, <2>4, <2>5, <2>6, <2>7, <2>8, <2>9 DEF AppStep, AppInCall
<1>2. CASE SrvStep
  <2>1. CASE SrvBegin
    BY <2>1 DEF SrvBegin
  <2>2. CASE SrvListen
    BY <2>2 DEF SrvListen
  <2>3. CASE SrvCheck
    BY <2>3 DEF SrvCheck, StopAsked
  <2>4. CASE SrvSelectTimeout
    BY <2>4 DEF SrvSelectTimeout
  <2>5. CASE SrvSelectFails
    BY <2>5 DEF SrvSelectFails
  <2>6. ASSUME NEW c \in Conns, SrvAccept(c)
        PROVE  ListsAgree'
    BY <2>6, ConstantsAssumption DEF SrvAccept, ConstantsAssumption
  <2>7. ASSUME NEW c \in Conns, SrvAcceptFails(c)
        PROVE  ListsAgree'
    BY <2>7 DEF SrvAcceptFails, AfterCreateFails
  <2>8. CASE SrvPush
    BY <2>8 DEF SrvPush
  <2>9. CASE SrvReap
    BY <2>9 DEF SrvReap, AtEnd
  <2>10. CASE SrvReapJoin
    BY <2>10 DEF SrvReapJoin, Joinable
  <2>11. CASE SrvTake
    BY <2>11 DEF SrvTake, ListLeft
  <2>12. CASE SrvMark
    BY <2>12 DEF SrvMark, Marked
  <2>13. CASE SrvCount
    BY <2>13 DEF SrvCount, WorkAtStart
  <2>14. CASE SrvJoin
    BY <2>14 DEF SrvJoin, Joinable
  <2>15. CASE SrvFree
    BY <2>15 DEF SrvFree
  <2>16. CASE SrvSetState
    BY <2>16 DEF SrvSetState
  <2>17. CASE SrvExit
    BY <2>17 DEF SrvExit
  <2> QED
    BY <1>2, <2>1, <2>2, <2>3, <2>4, <2>5, <2>6, <2>7, <2>8, <2>9, <2>10, <2>11, <2>12,
       <2>13, <2>14, <2>15, <2>16, <2>17 DEF SrvStep, SrvDrain
<1>3. ASSUME NEW c \in Conns, ConStep(c)
      PROVE  ListsAgree'
  BY <1>3, ConFrame
<1>4. CASE Terminated \/ UNCHANGED vars
  BY <1>4 DEF Terminated, vars
<1> QED
  BY <1>1, <1>2, <1>3, <1>4 DEF Next

\* A list of connections holds connections, and the empty one holds none.
LEMMA ItemsType ==
    /\ \A s \in Seq(Conns) : Items(s) \subseteq Conns
    /\ Items(<<>>) = {} /\ Distinct(<<>>)
BY DEF Items, Distinct

\* Whatever the server can reach stays allocated and reached once, although the
\* reaping loop cuts the list wherever it finds an ended connection.
LEMMA ReachStep ==
    ASSUME TypeOK, ListsAgree, ReachableAreLive, [Next]_vars
    PROVE  ReachableAreLive'
<1> USE DEF ReachableAreLive
<1>1. CASE AppStep
  BY <1>1, AppFrame
<1>2. CASE SrvStep
  <2>1. ASSUME NEW c \in Conns, SrvAccept(c)
        PROVE  ReachableAreLive'
    <3>1. c \notin Items(clients) /\ c \notin Items(draining)
      BY <2>1 DEF SrvAccept
    <3>2. /\ UNCHANGED <<clients, draining>> /\ fresh' = c
          /\ conMem' = [conMem EXCEPT ![c] = "live"]
      BY <2>1 DEF SrvAccept
    <3>3. conMem'[c] = "live" /\ \A d \in Conns : conMem[d] = "live" => conMem'[d] = "live"
      BY <3>2 DEF TypeOK
    <3>4. Items(clients) \subseteq Conns /\ Items(draining) \subseteq Conns
      BY ItemsType DEF TypeOK
    <3> QED
      BY <3>1, <3>2, <3>3, <3>4
  <2>2. ASSUME NEW c \in Conns, SrvAcceptFails(c)
        PROVE  ReachableAreLive'
    <3>1. /\ UNCHANGED <<clients, draining, fresh>> /\ conMem[c] = "none"
          /\ conMem' = [conMem EXCEPT ![c] = "leaked"]
      BY <2>2 DEF SrvAcceptFails
    <3>2. \A d \in Conns : conMem[d] = "live" => conMem'[d] = "live"
      BY <3>1 DEF TypeOK
    <3>3. Items(clients) \subseteq Conns /\ Items(draining) \subseteq Conns
      BY ItemsType DEF TypeOK
    <3> QED
      BY <3>1, <3>2, <3>3 DEF TypeOK
  <2>3. CASE SrvPush
    <3>1. fresh \in Conns /\ fresh \notin Items(clients) /\ fresh \notin Items(draining)
      BY <2>3 DEF SrvPush, ListsAgree, TypeOK
    <3>2. Items(clients') = Items(clients) \cup {fresh} /\ Distinct(clients')
      BY <2>3, <3>1, PrependItems DEF SrvPush, TypeOK
    <3>3. UNCHANGED <<draining, conMem>> /\ fresh' = NoConn
      BY <2>3 DEF SrvPush
    <3>4. NoConn \notin Items(clients) \cup Items(draining) \cup {fresh}
      BY <3>1, ItemsType, ConstantsAssumption DEF TypeOK, ConstantsAssumption
    <3>5. fresh \in {fresh} \ {NoConn}
      BY <3>4
    <3> QED
      BY <3>1, <3>2, <3>3, <3>4, <3>5
  <2>4. CASE SrvReapJoin
    <3>1. pos \in 1..Len(clients)
      BY <2>4 DEF SrvReapJoin, ListsAgree, TypeOK
    <3>2. Items(clients') \subseteq Items(clients) \ {clients[pos]} /\ Distinct(clients')
      <4>1. /\ clients \in Seq(Conns) /\ Distinct(clients)
            /\ clients' = SubSeq(clients, pos + 1, Len(clients))
        BY <2>4 DEF SrvReapJoin, TypeOK
      <4> DEFINE m == pos + 1
      <4>2. m = pos + 1 /\ clients' = SubSeq(clients, m, Len(clients))
        BY <4>1
      <4> HIDE DEF m
      <4> QED
        BY <3>1, <4>1, <4>2, CutItems
    <3>3. clients[pos] \in Items(clients)
      BY <3>1, ItemsOf
    <3>4. UNCHANGED <<draining, fresh>>
      BY <2>4 DEF SrvReapJoin
    <3>5. \A d \in Conns \ {clients[pos]} : conMem'[d] = conMem[d]
      BY <2>4 DEF SrvReapJoin, TypeOK
    <3>6. Items(clients) \subseteq Conns /\ Items(draining) \subseteq Conns
      BY ItemsType DEF TypeOK
    <3> QED
      BY <3>2, <3>3, <3>4, <3>5, <3>6 DEF TypeOK
  <2>5. CASE SrvTake
    <3>1. draining = <<>>
      BY <2>5 DEF SrvTake, ListsAgree
    <3>2. draining' = clients /\ clients' = <<>> /\ UNCHANGED <<fresh, conMem>>
      BY <2>5 DEF SrvTake, ListLeft
    <3> QED
      BY <3>1, <3>2, ItemsType
  <2>6. CASE SrvFree
    <3>1. CASE draining = <<>>
      BY <2>6, <3>1 DEF SrvFree
    <3>2. CASE draining # <<>>
      <4>1. /\ conMem' = [conMem EXCEPT ![Head(draining)] = "freed"]
            /\ draining' = Tail(draining)
            /\ UNCHANGED <<clients, fresh>>
        BY <2>6, <3>2 DEF SrvFree
      <4>2. Items(draining') = Items(draining) \ {Head(draining)} /\ Distinct(draining')
        BY <3>2, <4>1, BeheadItems DEF TypeOK
      <4>3. Head(draining) \in Items(draining)
        BY <3>2, Behead, ItemsOf DEF TypeOK
      <4>4. \A d \in Conns \ {Head(draining)} : conMem'[d] = conMem[d]
        BY <4>1 DEF TypeOK
      <4>5. Items(clients) \subseteq Conns /\ Items(draining) \subseteq Conns
        BY ItemsType DEF TypeOK
      <4> QED
        BY <4>1, <4>2, <4>3, <4>4, <4>5 DEF TypeOK
    <3> QED
      BY <3>1, <3>2
  <2>7. CASE \/ SrvBegin \/ SrvListen \/ SrvCheck \/ SrvSelectTimeout
           \/ SrvSelectFails \/ SrvReap \/ SrvMark \/ SrvCount \/ SrvJoin
           \/ SrvSetState \/ SrvExit
    BY <2>7
       DEF SrvBegin, SrvListen, SrvCheck, SrvSelectTimeout, SrvSelectFails, SrvReap,
           SrvMark, SrvCount, SrvJoin, SrvSetState, SrvExit
  <2> QED
    BY <1>2, <2>1, <2>2, <2>3, <2>4, <2>5, <2>6, <2>7 DEF SrvStep, SrvDrain
<1>3. ASSUME NEW c \in Conns, ConStep(c)
      PROVE  ReachableAreLive'
  BY <1>3, ConFrame
<1>4. CASE Terminated \/ UNCHANGED vars
  BY <1>4 DEF Terminated, vars
<1> QED
  BY <1>1, <1>2, <1>3, <1>4 DEF Next

\* Only connections of the drained list are ever asked to stop, and they leave
\* that list only behind their end.
LEMMA StopsStep ==
    ASSUME TypeOK, ListsAgree, JoinProgress, StopsAreDrained, ReachableAreLive,
           \A c \in Conns : ConAgrees(c), [Next]_vars
    PROVE  StopsAreDrained'
<1> SUFFICES ASSUME NEW d \in Conns
             PROVE  conState'[d] = "STOP" => d \in Items(draining')
  BY DEF StopsAreDrained
<1> USE DEF TypeOK, StopsAreDrained
<1>1. CASE AppStep
  BY <1>1, AppFrame
<1>2. CASE SrvStep
  <2>1. ASSUME NEW c \in Conns, SrvAccept(c)
        PROVE  conState'[d] = "STOP" => d \in Items(draining')
    BY <2>1 DEF SrvAccept
  <2>2. ASSUME NEW c \in Conns, SrvAcceptFails(c)
        PROVE  conState'[d] = "STOP" => d \in Items(draining')
    BY <2>2 DEF SrvAcceptFails, AfterCreateFails
  <2>3. CASE SrvTake
    BY <2>3, ItemsType DEF SrvTake, ListsAgree
  <2>4. CASE SrvMark
    <3>1. UNCHANGED draining
      BY <2>4 DEF SrvMark
    <3>2. CASE AtEnd(draining)
      BY <2>4, <3>1, <3>2 DEF SrvMark
    <3>3. CASE ~AtEnd(draining)
      <4>1. draining[pos] \in Items(draining)
        BY <3>3, ItemsOf DEF AtEnd
      <4>2. d # draining[pos] => conState'[d] = conState[d]
        BY <2>4, <3>3 DEF SrvMark
      <4> QED
        BY <3>1, <4>1, <4>2
    <3> QED
      BY <3>2, <3>3
  <2>5. CASE SrvFree
    <3>1. UNCHANGED conState
      BY <2>5 DEF SrvFree
    <3>2. CASE draining = <<>>
      BY <2>5, <3>2 DEF SrvFree
    <3>3. CASE draining # <<>>
      <4>1. conPc[Head(draining)] = "exited"
        BY <2>5, <3>3, Behead DEF SrvFree, JoinProgress
      <4>2. Head(draining) = d => conState[d] # "STOP"
        BY <4>1 DEF ConAgrees, ConEnding
      <4>3. draining' = Tail(draining) /\ Distinct(draining)
        BY <2>5, <3>3 DEF SrvFree, ReachableAreLive
      <4>4. Items(draining') = Items(draining) \ {Head(draining)}
        BY <3>3, <4>3, BeheadItems
      <4> QED
        BY <3>1, <4>2, <4>4
    <3> QED
      BY <3>2, <3>3
  <2>6. CASE \/ SrvBegin \/ SrvListen \/ SrvCheck \/ SrvSelectTimeout
           \/ SrvSelectFails \/ SrvPush \/ SrvReap \/ SrvReapJoin \/ SrvCount
           \/ SrvJoin \/ SrvSetState \/ SrvExit
    BY <2>6
       DEF SrvBegin, SrvListen, SrvCheck, SrvSelectTimeout, SrvSelectFails, SrvPush,
           SrvReap, SrvReapJoin, SrvCount, SrvJoin, SrvSetState, SrvExit
  <2> QED
    BY <1>2, <2>1, <2>2, <2>3, <2>4, <2>5, <2>6 DEF SrvStep, SrvDrain
<1>3. ASSUME NEW c \in Conns, ConStep(c)
      PROVE  conState'[d] = "STOP" => d \in Items(draining')
  <2>1. CASE ConBegin(c)
    BY <2>1 DEF ConBegin
  <2>2. CASE ConCheckStopped(c)
    BY <2>2 DEF ConCheckStopped, ConEnd
  <2>3. CASE ConIoReturns(c)
    BY <2>3 DEF ConIoReturns
  <2>4. CASE ConIoTimeout(c)
    BY <2>4 DEF ConIoTimeout, ConEnd, PollsStop
  <2>5. CASE ConFails(c)
    BY <2>5 DEF ConFails, ConEnd
  <2>6. CASE ConUsesServer(c)
    BY <2>6 DEF ConUsesServer
  <2>7. CASE ConExit(c)
    BY <2>7 DEF ConExit
  <2> QED
    BY <1>3, <2>1, <2>2, <2>3, <2>4, <2>5, <2>6, <2>7 DEF ConStep
<1>4. CASE Terminated \/ UNCHANGED vars
  BY <1>4 DEF Terminated, vars
<1> QED
  BY <1>1, <1>2, <1>3, <1>4 DEF Next

\* The threads counted as joined have ended, and stay so.
LEMMA JoinStep ==
    ASSUME TypeOK, ListsAgree, CallsAgree, ReachableAreLive, JoinProgress,
           \A c \in Conns : ConAgrees(c), [Next]_vars
    PROVE  JoinProgress'
<1> USE DEF TypeOK, JoinProgress
<1>1. CASE AppStep
  <2>1. UNCHANGED <<draining, pos, conPc>>
    BY <1>1, AppFrame
  <2>2. srvPc' \in {srvPc, "begin"}
    BY <1>1 DEF AppStep, AppInCall, AppBind, AppStart, AppStartReturns, AppStop, AppDestroy,
                AppRequestStop, AppSeesAnswer, AppJoin, AppFree
  <2> QED
    BY <2>1, <2>2
<1>2. CASE SrvStep
  <2>1. CASE SrvBegin
    BY <2>1 DEF SrvBegin
  <2>2. CASE SrvListen
    BY <2>2 DEF SrvListen
  <2>3. CASE SrvCheck
    BY <2>3 DEF SrvCheck, StopAsked
  <2>4. CASE SrvSelectTimeout
    BY <2>4 DEF SrvSelectTimeout
  <2>5. CASE SrvSelectFails
    BY <2>5 DEF SrvSelectFails
  <2>6. ASSUME NEW c \in Conns, SrvAccept(c)
        PROVE  JoinProgress'
    BY <2>6 DEF SrvAccept
  <2>7. ASSUME NEW c \in Conns, SrvAcceptFails(c)
        PROVE  JoinProgress'
    BY <2>7 DEF SrvAcceptFails, AfterCreateFails
  <2>8. CASE SrvPush
    BY <2>8 DEF SrvPush
  <2>9. CASE SrvReap
    BY <2>9 DEF SrvReap
  <2>10. CASE SrvReapJoin
    BY <2>10 DEF SrvReapJoin, Joinable
  <2>11. CASE SrvTake
    BY <2>11 DEF SrvTake, ListLeft
  <2>12. CASE SrvMark
    BY <2>12 DEF SrvMark, Marked
  <2>13. CASE SrvCount
    BY <2>13 DEF SrvCount, WorkAtStart
  <2>14. CASE SrvJoin
    <3>1. UNCHANGED <<draining, conPc>> /\ srvPc = "join"
      BY <2>14 DEF SrvJoin
    <3>2. CASE AtEnd(draining)
      BY <2>14, <3>1, <3>2 DEF SrvJoin, AtEnd
    <3>3. CASE ~AtEnd(draining)
      BY <2>14, <3>1, <3>3 DEF SrvJoin, Joinable
    <3> QED
      BY <3>2, <3>3
  <2>15. CASE SrvFree
    <3>1. CASE draining = <<>>
      BY <2>15, <3>1 DEF SrvFree
    <3>2. CASE draining # <<>>
      <4>1. draining' = Tail(draining) /\ UNCHANGED <<conPc, srvPc>> /\ srvPc = "free"
        BY <2>15, <3>2 DEF SrvFree
      <4>2. /\ Len(draining') = Len(draining) - 1 /\ Len(draining) \in Nat
            /\ \A i \in 1..Len(draining') : draining'[i] = draining[i + 1]
        <5>1. draining \in Seq(Conns)
          OBVIOUS
        <5> QED
          BY <3>2, <4>1, <5>1, Behead
      <4>3. ASSUME NEW i \in 1..Len(draining')
            PROVE  i + 1 \in 1..Len(draining) /\ draining'[i] = draining[i + 1]
        BY <4>2
      <4>4. \A i \in 1..Len(draining) : conPc[draining[i]] = "exited"
        BY <4>1
      <4>5. ASSUME NEW i \in 1..Len(draining')
            PROVE  conPc'[draining'[i]] = "exited"
        BY <4>1, <4>3, <4>4
      <4> QED
        BY <4>1, <4>5
    <3> QED
      BY <3>1, <3>2
  <2>16. CASE SrvSetState
    BY <2>16 DEF SrvSetState
  <2>17. CASE SrvExit
    BY <2>17 DEF SrvExit
  <2> QED
    BY <1>2, <2>1, <2>2, <2>3, <2>4, <2>5, <2>6, <2>7, <2>8, <2>9, <2>10, <2>11, <2>12,
       <2>13, <2>14, <2>15, <2>16, <2>17 DEF SrvStep, SrvDrain
<1>3. ASSUME NEW c \in Conns, ConStep(c)
      PROVE  JoinProgress'
  <2>1. UNCHANGED <<srvPc, draining, pos>>
    BY <1>3, ConFrame
  <2>2. ASSUME NEW d \in Conns, conPc[d] = "exited"
        PROVE  conPc'[d] = "exited"
    BY <1>3, <2>2 DEF ConStep, ConBegin, ConCheckStopped, ConIoReturns, ConIoTimeout, ConFails,
                      ConUsesServer, ConExit, ConEnd
  <2>3. \A i \in 1..Len(draining) : draining[i] \in Conns
    OBVIOUS
  <2> QED
    BY <2>1, <2>2, <2>3
<1>4. CASE Terminated \/ UNCHANGED vars
  BY <1>4 DEF Terminated, vars
<1> QED
  BY <1>1, <1>2, <1>3, <1>4 DEF Next

\* The reaping loop joins ending threads only: no connection it can see has been
\* asked to stop, so a state other than WORKING is a final one.
LEMMA ReapStep ==
    ASSUME TypeOK, ListsAgree, StopsAreDrained, ReachableAreLive, ReapJoinsEnding,
           \A c \in Conns : ConAgrees(c), [Next]_vars
    PROVE  ReapJoinsEnding'
<1> USE DEF TypeOK, ReapJoinsEnding
<1>1. CASE AppStep
  <2>1. UNCHANGED <<clients, pos, conPc>>
    BY <1>1, AppFrame
  <2>2. srvPc' \in {srvPc, "begin"}
    BY <1>1 DEF AppStep, AppInCall, AppBind, AppStart, AppStartReturns, AppStop, AppDestroy,
                AppRequestStop, AppSeesAnswer, AppJoin, AppFree
  <2> QED
    BY <2>1, <2>2
<1>2. CASE SrvStep
  <2>1. CASE SrvBegin
    BY <2>1 DEF SrvBegin
  <2>2. CASE SrvListen
    BY <2>2 DEF SrvListen
  <2>3. CASE SrvCheck
    BY <2>3 DEF SrvCheck, StopAsked
  <2>4. CASE SrvSelectTimeout
    BY <2>4 DEF SrvSelectTimeout
  <2>5. CASE SrvSelectFails
    BY <2>5 DEF SrvSelectFails
  <2>6. ASSUME NEW c \in Conns, SrvAccept(c)
        PROVE  ReapJoinsEnding'
    BY <2>6 DEF SrvAccept
  <2>7. ASSUME NEW c \in Conns, SrvAcceptFails(c)
        PROVE  ReapJoinsEnding'
    BY <2>7 DEF SrvAcceptFails, AfterCreateFails
  <2>8. CASE SrvPush
    BY <2>8 DEF SrvPush
  <2>9. CASE SrvReap
    <3>1. UNCHANGED <<clients, conPc>>
      BY <2>9 DEF SrvReap
    <3>2. CASE AtEnd(clients) \/ ~Ended(clients[pos])
      BY <2>9, <3>1, <3>2 DEF SrvReap
    <3>3. CASE ~AtEnd(clients) /\ Ended(clients[pos])
      <4>1. clients[pos] \in Conns /\ clients[pos] \in Items(clients)
        BY <3>3, ItemsOf DEF AtEnd
      <4>2. draining = <<>>
        BY <2>9 DEF SrvReap, ListsAgree, DrainPcs
      <4>3. conState[clients[pos]] \notin {"WORKING", "STOP"}
        BY <3>3, <4>1, <4>2, ItemsType DEF Ended, StopsAreDrained
      <4>4. conMem[clients[pos]] = "live"
        BY <4>1 DEF ReachableAreLive
      <4>5. conPc[clients[pos]] \in {"exiting", "exited"}
        BY <4>1, <4>3, <4>4 DEF ConAgrees, ConRuns, ConPcs
      <4>6. UNCHANGED pos
        BY <2>9, <3>3 DEF SrvReap
      <4> QED
        BY <3>1, <4>5, <4>6
    <3> QED
      BY <3>2, <3>3
  <2>10. CASE SrvReapJoin
    BY <2>10 DEF SrvReapJoin, Joinable
  <2>11. CASE SrvTake
    BY <2>11 DEF SrvTake, ListLeft
  <2>12. CASE SrvMark
    BY <2>12 DEF SrvMark, Marked
  <2>13. CASE SrvCount
    BY <2>13 DEF SrvCount, WorkAtStart
  <2>14. CASE SrvJoin
    BY <2>14 DEF SrvJoin, Joinable
  <2>15. CASE SrvFree
    BY <2>15 DEF SrvFree
  <2>16. CASE SrvSetState
    BY <2>16 DEF SrvSetState
  <2>17. CASE SrvExit
    BY <2>17 DEF SrvExit
  <2> QED
    BY <1>2, <2>1, <2>2, <2>3, <2>4, <2>5, <2>6, <2>7, <2>8, <2>9, <2>10, <2>11, <2>12,
       <2>13, <2>14, <2>15, <2>16, <2>17 DEF SrvStep, SrvDrain
<1>3. ASSUME NEW c \in Conns, ConStep(c)
      PROVE  ReapJoinsEnding'
  <2>1. UNCHANGED <<srvPc, clients, pos>>
    BY <1>3, ConFrame
  <2>2. ASSUME NEW d \in Conns, conPc[d] \in {"exiting", "exited"}
        PROVE  conPc'[d] \in {"exiting", "exited"}
    BY <1>3, <2>2 DEF ConStep, ConBegin, ConCheckStopped, ConIoReturns, ConIoTimeout, ConFails,
                      ConUsesServer, ConExit, ConEnd
  <2>3. srvPc = "reapJoin" => clients[pos] \in Conns
    BY DEF ListsAgree
  <2> QED
    BY <2>1, <2>2, <2>3
<1>4. CASE Terminated \/ UNCHANGED vars
  BY <1>4 DEF Terminated, vars
<1> QED
  BY <1>1, <1>2, <1>3, <1>4 DEF Next

-----------------------------------------------------------------------------
(* The drain reaches every connection, as long as none has ended by itself: *)
(* QuietInv is inductive relative to IInv.                                  *)

\* An identity that is not accepted stays STOPPED.
LEMMA UnbornStep ==
    ASSUME TypeOK, UnbornAgree, \A c \in Conns : ConAgrees(c),
           ListsAgree, ReachableAreLive, [Next]_vars
    PROVE  UnbornAgree'
<1> SUFFICES ASSUME NEW d \in Conns, conPc'[d] = "none"
             PROVE  conState'[d] = "STOPPED"
  BY DEF UnbornAgree
<1> USE DEF TypeOK, UnbornAgree
<1>1. CASE AppStep
  BY <1>1, AppFrame
<1>2. CASE SrvStep
  <2>1. ASSUME NEW c \in Conns, SrvAccept(c)
        PROVE  conState'[d] = "STOPPED"
    BY <2>1 DEF SrvAccept
  <2>2. ASSUME NEW c \in Conns, SrvAcceptFails(c)
        PROVE  conState'[d] = "STOPPED"
    BY <2>2 DEF SrvAcceptFails
  <2>3. CASE SrvMark
    <3>1. conState'[d] \in {conState[d], Marked(conState[d])} /\ UNCHANGED conPc
      BY <2>3 DEF SrvMark
    <3> QED
      BY <3>1 DEF Marked
  <2>4. CASE \/ SrvBegin \/ SrvListen \/ SrvCheck \/ SrvSelectTimeout
           \/ SrvSelectFails \/ SrvPush \/ SrvReap \/ SrvReapJoin \/ SrvTake
           \/ SrvCount \/ SrvJoin \/ SrvFree \/ SrvSetState \/ SrvExit
    BY <2>4
       DEF SrvBegin, SrvListen, SrvCheck, SrvSelectTimeout, SrvSelectFails, SrvPush,
           SrvReap, SrvReapJoin, SrvTake, SrvCount, SrvJoin, SrvFree, SrvSetState, SrvExit
  <2> QED
    BY <1>2, <2>1, <2>2, <2>3, <2>4 DEF SrvStep, SrvDrain
<1>3. ASSUME NEW c \in Conns, ConStep(c)
      PROVE  conState'[d] = "STOPPED"
  <2>1. conPc[d] = "none"
    BY <1>3 DEF ConStep, ConBegin, ConCheckStopped, ConIoReturns, ConIoTimeout, ConFails,
                ConUsesServer, ConExit, ConEnd
  <2>2. c # d
    BY <1>3, <2>1 DEF ConStep, ConBegin, ConCheckStopped, ConIoReturns, ConIoTimeout, ConFails,
                      ConUsesServer, ConExit
  <2> QED
    BY <1>3, <2>1, <2>2 DEF ConStep, ConBegin, ConCheckStopped, ConIoReturns, ConIoTimeout,
       ConFails, ConUsesServer, ConExit, ConEnd
<1>4. CASE Terminated \/ UNCHANGED vars
  BY <1>4 DEF Terminated, vars
<1> QED
  BY <1>1, <1>2, <1>3, <1>4 DEF Next

\* The state of a failed connection is overwritten by nothing: neither by its own
\* thread nor by the server that marks the others.
LEMMA FailureSticks ==
    ASSUME TypeOK, UnbornAgree, \A c \in Conns : ConAgrees(c), [Next]_vars, NoneFailed'
    PROVE  NoneFailed
<1> SUFFICES ASSUME NEW d \in Conns, conState[d] = "ERROR"
             PROVE  conState'[d] = "ERROR"
  BY DEF NoneFailed
<1> USE DEF TypeOK
<1>0. conPc[d] # "none" /\ conMem[d] # "none" /\ ~ConRuns(d)
  BY DEF UnbornAgree, ConAgrees
<1>1. CASE AppStep
  BY <1>1, AppFrame
<1>2. CASE SrvStep
  <2>1. ASSUME NEW c \in Conns, SrvAccept(c)
        PROVE  conState'[d] = "ERROR"
    BY <1>0, <2>1 DEF SrvAccept
  <2>2. ASSUME NEW c \in Conns, SrvAcceptFails(c)
        PROVE  conState'[d] = "ERROR"
    BY <2>2 DEF SrvAcceptFails
  <2>3. CASE SrvMark
    <3>1. conState'[d] \in {conState[d], Marked(conState[d])}
      BY <2>3 DEF SrvMark
    <3> QED
      BY <3>1 DEF Marked
  <2>4. CASE \/ SrvBegin \/ SrvListen \/ SrvCheck \/ SrvSelectTimeout
           \/ SrvSelectFails \/ SrvPush \/ SrvReap \/ SrvReapJoin \/ SrvTake
           \/ SrvCount \/ SrvJoin \/ SrvFree \/ SrvSetState \/ SrvExit
    BY <2>4
       DEF SrvBegin, SrvListen, SrvCheck, SrvSelectTimeout, SrvSelectFails, SrvPush,
           SrvReap, SrvReapJoin, SrvTake, SrvCount, SrvJoin, SrvFree, SrvSetState, SrvExit
  <2> QED
    BY <1>2, <2>1, <2>2, <2>3, <2>4 DEF SrvStep, SrvDrain
<1>3. ASSUME NEW c \in Conns, ConStep(c)
      PROVE  conState'[d] = "ERROR"
  <2>1. conPc[c] \in RunningPcs => c # d
    BY <1>0 DEF ConRuns
  <2> QED
    BY <1>3, <2>1 DEF RunningPcs, ConStep, ConBegin, ConCheckStopped, ConIoReturns,
       ConIoTimeout, ConFails, ConUsesServer, ConExit, ConEnd
<1>4. CASE Terminated \/ UNCHANGED vars
  BY <1>4 DEF Terminated, vars
<1> QED
  BY <1>1, <1>2, <1>3, <1>4 DEF Next

\* Only the thread of a connection ends it; without a request to stop it ends
\* with an error.
LEMMA LinkedStep ==
    ASSUME IInv, LinkedNotStopped, [Next]_vars
    PROVE  LinkedNotStopped'
<1> DEFINE Reached == Items(clients) \cup ({fresh} \ {NoConn})
<1>0. /\ TypeOK /\ ListsAgree /\ ReachableAreLive /\ StopsAreDrained
      /\ \A c \in Conns : ConAgrees(c)
  BY DEF IInv
<1> USE DEF TypeOK, LinkedNotStopped
<1>t. Items(clients) \subseteq Conns /\ Items(draining) \subseteq Conns
  BY <1>0, ItemsType
<1>1. CASE AppStep
  BY <1>1, AppFrame
<1>2. CASE SrvStep
  <2>1. ASSUME NEW c \in Conns, SrvAccept(c)
        PROVE  LinkedNotStopped'
    <3>1. /\ conState' = [conState EXCEPT ![c] = "WORKING"]
          /\ fresh' = c /\ UNCHANGED clients
      BY <2>1 DEF SrvAccept
    <3>2. \A d \in Conns : conState'[d] \in {conState[d], "WORKING"}
      BY <1>0, <3>1
    <3>3. conState'[c] = "WORKING"
      BY <1>0, <3>1
    <3> QED
      BY <1>t, <3>1, <3>2, <3>3
  <2>2. CASE SrvPush
    <3>1. fresh \in Conns
      BY <1>0, <2>2 DEF SrvPush, ListsAgree
    <3>2. Items(clients') = Items(clients) \cup {fresh}
      BY <1>0, <2>2, <3>1, PrependItems DEF SrvPush
    <3>3. fresh' = NoConn /\ UNCHANGED conState
      BY <2>2 DEF SrvPush
    <3>4. fresh # NoConn
      BY <3>1, ConstantsAssumption DEF ConstantsAssumption
    <3> QED
      BY <3>2, <3>3, <3>4
  <2>3. CASE SrvReapJoin
    <3>1. pos \in 1..Len(clients) /\ clients \in Seq(Conns) /\ Distinct(clients)
      BY <1>0, <2>3 DEF SrvReapJoin, ListsAgree, ReachableAreLive
    <3> DEFINE m == pos + 1
    <3>2. m = pos + 1 /\ clients' = SubSeq(clients, m, Len(clients))
      BY <2>3 DEF SrvReapJoin
    <3>3. UNCHANGED <<fresh, conState>>
      BY <2>3 DEF SrvReapJoin
    <3> HIDE DEF m
    <3>4. Items(clients') \subseteq Items(clients)
      BY <3>1, <3>2, CutItems
    <3> QED
      BY <3>3, <3>4
  <2>4. CASE SrvTake
    BY <2>4, ItemsType DEF SrvTake, ListLeft
  <2>5. CASE SrvMark
    <3>1. clients = <<>> /\ fresh = NoConn /\ UNCHANGED <<clients, fresh>>
      BY <1>0, <2>5 DEF SrvMark, ListsAgree, DrainPcs
    <3> QED
      BY <3>1, ItemsType
  <2>6. CASE \/ SrvBegin \/ SrvListen \/ SrvCheck \/ SrvSelectTimeout
           \/ SrvSelectFails \/ SrvReap \/ SrvCount \/ SrvJoin \/ SrvFree
           \/ SrvSetState \/ SrvExit \/ \E c \in Conns : SrvAcceptFails(c)
    BY <2>6
       DEF SrvBegin, SrvListen, SrvCheck, SrvSelectTimeout, SrvSelectFails, SrvReap,
           SrvCount, SrvJoin, SrvFree, SrvSetState, SrvExit, SrvAcceptFails
  <2> QED
    BY <1>2, <2>1, <2>2, <2>3, <2>4, <2>5, <2>6 DEF SrvStep, SrvDrain
<1>3. ASSUME NEW c \in Conns, ConStep(c)
      PROVE  LinkedNotStopped'
  <2>1. UNCHANGED <<clients, fresh>>
    BY <1>3, ConFrame
  <2>2. ASSUME NEW d \in Reached
        PROVE  d \in Conns /\ conState[d] \notin {"STOP", "STOPPED"}
    BY <1>0, <1>t, <2>2 DEF ReachableAreLive, StopsAreDrained
  <2>3. ASSUME NEW d \in Conns, conState[d] \notin {"STOP", "STOPPED"}
        PROVE  conState'[d] # "STOPPED"
    BY <1>0, <1>3, <2>3 DEF ConStep, ConBegin, ConCheckStopped, ConIoReturns, ConIoTimeout,
       ConFails, ConUsesServer, ConExit, ConEnd, PollsStop
  <2> QED
    BY <2>1, <2>2, <2>3
<1>4. CASE Terminated \/ UNCHANGED vars
  BY <1>4 DEF Terminated, vars
<1> QED
  BY <1>1, <1>2, <1>3, <1>4 DEF Next

\* So the reaping loop unlinks nothing until a connection has failed.
LEMMA QuietReaps ==
    ASSUME IInv, LinkedNotStopped, NoneFailed
    PROVE  ~SrvReapJoin
<1> SUFFICES ASSUME SrvReapJoin
             PROVE  FALSE
  OBVIOUS
<1>1. TypeOK /\ ListsAgree /\ ReapJoinsEnding /\ \A c \in Conns : ConAgrees(c)
  BY DEF IInv
<1>2. pos \in 1..Len(clients) /\ clients[pos] \in Conns
  BY <1>1 DEF TypeOK, ListsAgree, SrvReapJoin
<1>3. clients[pos] \in Items(clients)
  BY <1>2, ItemsOf
<1>4. conState[clients[pos]] \in {"STOPPED", "ERROR"}
  BY <1>1, <1>2 DEF ReapJoinsEnding, SrvReapJoin, ConAgrees, ConEnding
<1> QED
  BY <1>2, <1>3, <1>4 DEF LinkedNotStopped, NoneFailed

\* Until a connection has failed the server reaches all that run: the loop that
\* would cut the list unlinks nothing, and the drain lets go of ended ones only.
LEMMA RunningStep ==
    ASSUME IInv, UnbornAgree, LinkedNotStopped, RunningAreReachable, [Next]_vars
    PROVE  RunningAreReachable'
<1>0. /\ TypeOK /\ ListsAgree /\ ReachableAreLive /\ JoinProgress
      /\ \A c \in Conns : ConAgrees(c)
  BY DEF IInv
<1> SUFFICES ASSUME NoneFailed', NEW d \in Conns, ConRuns(d)'
             PROVE  d \in Items(clients') \cup Items(draining') \cup {fresh'}
  BY DEF RunningAreReachable
<1>q. NoneFailed
  BY <1>0, FailureSticks
<1>r. ConRuns(d) => d \in Items(clients) \cup Items(draining) \cup {fresh}
  BY <1>q DEF RunningAreReachable
<1>s. ASSUME conPc'[d] = conPc[d]
      PROVE  d \in Items(clients) \cup Items(draining) \cup {fresh}
  BY <1>r, <1>s DEF ConRuns
<1>1. CASE AppStep
  BY <1>1, <1>s, AppFrame
<1>2. CASE SrvStep
  <2>1. ASSUME NEW c \in Conns, SrvAccept(c)
        PROVE  d \in Items(clients') \cup Items(draining') \cup {fresh'}
    <3>1. fresh' = c /\ conPc' = [conPc EXCEPT ![c] = "begin"] /\ UNCHANGED <<clients, draining>>
      BY <2>1 DEF SrvAccept
    <3>2. fresh = NoConn /\ d # NoConn
      BY <1>0, <2>1, ConstantsAssumption DEF SrvAccept, ListsAgree, ConstantsAssumption
    <3>3. CASE d = c
      BY <3>1, <3>3
    <3>4. CASE d # c
      <4>1. conPc'[d] = conPc[d]
        BY <1>0, <3>1, <3>4 DEF TypeOK
      <4> QED
        BY <1>s, <3>1, <3>2, <4>1
    <3> QED
      BY <3>3, <3>4
  <2>2. CASE SrvPush
    <3>1. fresh \in Conns
      BY <1>0, <2>2 DEF SrvPush, ListsAgree, TypeOK
    <3>2. Items(clients') = Items(clients) \cup {fresh}
      BY <1>0, <2>2, <3>1, PrependItems DEF SrvPush, TypeOK
    <3> QED
      BY <1>s, <2>2, <3>2 DEF SrvPush
  <2>3. ~SrvReapJoin
    BY <1>q, QuietReaps
  <2>4. CASE SrvTake
    <3>1. draining' = clients /\ draining = <<>> /\ UNCHANGED <<fresh, conPc>>
      BY <1>0, <2>4 DEF SrvTake, ListsAgree
    <3> QED
      BY <1>s, <3>1, ItemsType
  <2>5. CASE SrvFree
    <3>1. UNCHANGED <<clients, fresh, conPc>>
      BY <2>5 DEF SrvFree
    <3>2. CASE draining = <<>>
      BY <1>s, <2>5, <3>1, <3>2 DEF SrvFree
    <3>3. CASE draining # <<>>
      <4>1. draining' = Tail(draining) /\ srvPc = "free"
        BY <2>5, <3>3 DEF SrvFree
      <4>2. Items(draining') = Items(draining) \ {Head(draining)}
        BY <1>0, <3>3, <4>1, BeheadItems DEF TypeOK, ReachableAreLive
      <4>3. conPc[Head(draining)] = "exited"
        BY <1>0, <3>3, <4>1, Behead DEF JoinProgress, TypeOK
      <4>4. d # Head(draining)
        BY <3>1, <4>3 DEF ConRuns, RunningPcs
      <4> QED
        BY <1>s, <3>1, <4>2, <4>4
    <3> QED
      BY <3>2, <3>3
  <2>6. CASE \/ SrvBegin \/ SrvListen \/ SrvCheck \/ SrvSelectTimeout
           \/ SrvSelectFails \/ SrvReap \/ SrvMark \/ SrvCount \/ SrvJoin
           \/ SrvSetState \/ SrvExit \/ \E c \in Conns : SrvAcceptFails(c)
    BY <1>s, <2>6
       DEF SrvBegin, SrvListen, SrvCheck, SrvSelectTimeout, SrvSelectFails, SrvReap,
           SrvMark, SrvCount, SrvJoin, SrvSetState, SrvExit, SrvAcceptFails
  <2> QED
    BY <1>2, <2>1, <2>2, <2>3, <2>4, <2>5, <2>6 DEF SrvStep, SrvDrain
<1>3. ASSUME NEW c \in Conns, ConStep(c)
      PROVE  d \in Items(clients') \cup Items(draining') \cup {fresh'}
  <2>1. UNCHANGED <<clients, draining, fresh>>
    BY <1>3, ConFrame
  <2>2. ConRuns(d)
    BY <1>0, <1>3 DEF TypeOK, ConRuns, RunningPcs, ConStep, ConBegin, ConCheckStopped,
       ConIoReturns, ConIoTimeout, ConFails, ConUsesServer, ConExit, ConEnd
  <2> QED
    BY <1>r, <2>1, <2>2
<1>4. CASE Terminated \/ UNCHANGED vars
  BY <1>4, <1>s DEF Terminated, vars
<1> QED
  BY <1>1, <1>2, <1>3, <1>4 DEF Next

\* Nothing is linked outside the loop that accepts.
LEMMA BehindStep ==
    ASSUME ListsAgree, NoneBehindDrain, [Next]_vars
    PROVE  NoneBehindDrain'
<1> USE DEF NoneBehindDrain
<1>1. CASE AppStep
  <2>1. UNCHANGED clients
    BY <1>1, AppFrame
  <2>2. srvPc' \in {srvPc, "begin"}
    BY <1>1 DEF AppStep, AppInCall, AppBind, AppStart, AppStartReturns, AppStop, AppDestroy,
                AppRequestStop, AppSeesAnswer, AppJoin, AppFree
  <2> QED
    BY <2>1, <2>2
<1>2. CASE SrvStep
  <2>1. CASE SrvDrain
    BY <2>1 DEF SrvDrain, SrvTake, ListLeft, SrvMark, SrvCount, SrvJoin, SrvFree, ListsAgree,
                DrainPcs
  <2>2. CASE SrvSetState \/ SrvExit
    BY <2>2 DEF SrvSetState, SrvExit
  <2>3. CASE \/ SrvBegin \/ SrvListen \/ SrvCheck \/ SrvSelectTimeout \/ SrvSelectFails
           \/ SrvPush \/ SrvReap \/ SrvReapJoin
           \/ \E c \in Conns : SrvAccept(c) \/ SrvAcceptFails(c)
    BY <2>3 DEF SrvBegin, SrvListen, SrvCheck, SrvSelectTimeout, SrvSelectFails, SrvPush,
                SrvReap, SrvReapJoin, SrvAccept, SrvAcceptFails, AfterCreateFails
  <2> QED
    BY <1>2, <2>1, <2>2, <2>3 DEF SrvStep
<1>3. ASSUME NEW c \in Conns, ConStep(c)
      PROVE  NoneBehindDrain'
  BY <1>3, ConFrame
<1>4. CASE Terminated \/ UNCHANGED vars
  BY <1>4 DEF Terminated, vars
<1> QED
  BY <1>1, <1>2, <1>3, <1>4 DEF Next

\* What no connection thread outlives: behind a drain that lost nothing the
\* server has nothing left to reach.
LEMMA QuietDrained ==
    ASSUME IInv, QuietInv, NoneFailed,
           srvPc \in {"none", "setState", "exiting", "exited"},
           NEW c \in Conns
    PROVE  ~ConRuns(c)
<1>1. clients = <<>>
  BY DEF QuietInv, NoneBehindDrain
<1>2. draining = <<>> /\ fresh = NoConn
  BY DEF IInv, ListsAgree, DrainPcs
<1>3. ConRuns(c) => c \in Items(clients) \cup Items(draining) \cup {fresh}
  BY DEF QuietInv, RunningAreReachable
<1> QED
  BY <1>1, <1>2, <1>3, ItemsType, ConstantsAssumption DEF ConstantsAssumption

-----------------------------------------------------------------------------
(* The results. *)

\* A created server satisfies the invariant.
LEMMA InitIInv == Init => IInv
<1> SUFFICES ASSUME Init
             PROVE  IInv
  OBVIOUS
<1>1. TypeOK
  <2>1. destroying \in BOOLEAN /\ work \in BOOLEAN
    BY Zenon DEF Init
  <2> QED
    BY <2>1, ConstantsAssumption
       DEF Init, ConstantsAssumption, TypeOK, AppPcs, States, SrvPcs, DrainPcs, ConPcs
<1>2. \A c \in Conns : ConAgrees(c)
  BY DEF Init, ConAgrees, ConRuns, ConEnding, RunningPcs
<1>3. ListsAgree /\ CallsAgree
  BY DEF Init, ListsAgree, DrainPcs, CallsAgree, SrvRuns
<1>4. ReachableAreLive
  BY ItemsType DEF Init, ReachableAreLive
<1>5. FreedOnlyAfterExit /\ StopsAreDrained /\ JoinProgress /\ ReapJoinsEnding
  BY DEF Init, FreedOnlyAfterExit, StopsAreDrained, JoinProgress, ReapJoinsEnding
<1> QED
  BY <1>1, <1>2, <1>3, <1>4, <1>5 DEF IInv

\* Every step keeps it.
LEMMA StepIInv ==
    ASSUME IInv, [Next]_vars
    PROVE  IInv'
<1>1. TypeOK'
  BY TypeStep DEF IInv
<1>2. \A c \in Conns : ConAgrees(c)'
  BY AgreeStep DEF IInv
<1>3. FreedOnlyAfterExit'
  BY FreedStep DEF IInv
<1>4. ListsAgree' /\ ReachableAreLive'
  BY ListsStep, ReachStep DEF IInv
<1>5. StopsAreDrained' /\ JoinProgress'
  BY StopsStep, JoinStep DEF IInv
<1>6. ReapJoinsEnding' /\ CallsAgree'
  BY ReapStep, CallsStep DEF IInv
<1> QED
  BY <1>1, <1>2, <1>3, <1>4, <1>5, <1>6 DEF IInv

\* The inductive invariant holds in every reachable state: the three threads
\* agree on srv->state, the lists and every con->state.
THEOREM Invariance == Spec => []IInv
<1>1. Init => IInv
  BY InitIInv
<1>2. IInv /\ [Next]_vars => IInv'
  BY StepIInv
<1> QED
  BY <1>1, <1>2, PTL DEF Spec

\* The variables keep their types.
THEOREM TypeCorrect == Spec => []TypeOK
<1>1. IInv => TypeOK
  BY DEF IInv
<1> QED
  BY <1>1, Invariance, PTL

\* No connection structure is freed under its running thread, by the reaping
\* loop or by stop_all_connections.
THEOREM NoUseAfterFree == Spec => []FreedOnlyAfterExit
<1>1. IInv => FreedOnlyAfterExit
  BY DEF IInv
<1> QED
  BY <1>1, Invariance, PTL

\* srv->clients, the drained list and the connection being linked never share,
\* repeat or keep a freed connection.
THEOREM ListsHoldLive == Spec => []ReachableAreLive
<1>1. IInv => ReachableAreLive
  BY DEF IInv
<1> QED
  BY <1>1, Invariance, PTL

\* The reaping loop blocks only on threads that are already ending.
THEOREM ReapNeverBlocks == Spec => []ReapJoinsEnding
<1>1. IInv => ReapJoinsEnding
  BY DEF IInv
<1> QED
  BY <1>1, Invariance, PTL

\* trfb_server_destroy frees a server its thread no longer uses.
THEOREM DestroyAfterThread == Spec => []ServerThreadGone
<1>1. IInv => ServerThreadGone
  BY DEF IInv, CallsAgree, ServerThreadGone
<1> QED
  BY <1>1, Invariance, PTL

\* A request to stop is withdrawn by nothing but the answer to it.
THEOREM StopIsAnswered == Spec => StopRequestSticks
<1>1. IInv /\ [Next]_vars
      => [srvState = "STOP" /\ srvState' # "STOP" => srvPc = "setState"]_vars
  <2> SUFFICES ASSUME IInv, Next, srvState = "STOP", srvState' # "STOP"
               PROVE  srvPc = "setState"
    OBVIOUS
  <2>1. CASE AppStep
    BY <2>1 DEF AppStep, AppInCall, AppBind, AppStart, AppStartReturns, AppStop, AppDestroy,
                AppRequestStop, AppSeesAnswer, AppJoin, AppFree
  <2>2. CASE SrvStep
    <3>1. srvPc # "begin"
      BY DEF IInv, CallsAgree
    <3> QED
      BY <2>2, <3>1 DEF SrvStep, SrvDrain, SrvBegin, SrvListen, SrvCheck, SrvSelectTimeout,
         SrvSelectFails, SrvAccept, SrvAcceptFails, SrvPush, SrvReap, SrvReapJoin, SrvTake,
         SrvMark, SrvCount, SrvJoin, SrvFree, SrvSetState, SrvExit
  <2>3. ASSUME NEW c \in Conns, ConStep(c)
        PROVE  UNCHANGED srvState
    BY <2>3, ConFrame
  <2>4. CASE Terminated
    BY <2>4 DEF Terminated, vars
  <2> QED
    BY <2>1, <2>2, <2>3, <2>4 DEF Next
<1> QED
  BY <1>1, Invariance, PTL DEF Spec, StopRequestSticks

\* The state an ending connection leaves is never overwritten, in particular not
\* by the server that asks the others to stop.
THEOREM FinalStates == Spec => FinalStateSticks
<1> DEFINE Sticks == \A c \in Conns :
                       conPc[c] \in {"exiting", "exited"} => conState'[c] = conState[c]
<1>1. IInv /\ [Next]_vars => [Sticks]_vars
  <2> SUFFICES ASSUME IInv, Next, NEW d \in Conns, conPc[d] \in {"exiting", "exited"}
               PROVE  conState'[d] = conState[d]
    OBVIOUS
  <2> USE DEF TypeOK
  <2>1. TypeOK /\ ConAgrees(d)
    BY DEF IInv
  <2>2. conState[d] \in {"STOPPED", "ERROR"} /\ conMem[d] # "none"
    BY <2>1 DEF ConAgrees, ConEnding
  <2>3. CASE AppStep
    BY <2>3, AppFrame
  <2>4. CASE SrvMark
    <3>1. conState'[d] \in {conState[d], Marked(conState[d])}
      BY <2>1, <2>4 DEF SrvMark
    <3> QED
      BY <2>2, <3>1 DEF Marked
  <2>5. ASSUME NEW c \in Conns, SrvAccept(c)
        PROVE  conState'[d] = conState[d]
    BY <2>1, <2>2, <2>5 DEF SrvAccept
  <2>6. CASE SrvStep /\ ~SrvMark /\ ~(\E c \in Conns : SrvAccept(c))
    BY <2>6 DEF SrvStep, SrvDrain, SrvBegin, SrvListen, SrvCheck, SrvSelectTimeout,
       SrvSelectFails, SrvAcceptFails, SrvPush, SrvReap, SrvReapJoin, SrvTake,
       SrvCount, SrvJoin, SrvFree, SrvSetState, SrvExit
  <2>7. ASSUME NEW c \in Conns, ConStep(c)
        PROVE  conState'[d] = conState[d]
    <3>1. conPc[c] \in RunningPcs => c # d
      BY DEF RunningPcs
    <3> QED
      BY <2>1, <2>7, <3>1 DEF RunningPcs, ConStep, ConBegin, ConCheckStopped, ConIoReturns,
         ConIoTimeout, ConFails, ConUsesServer, ConExit, ConEnd
  <2>8. CASE Terminated
    BY <2>8 DEF Terminated, vars
  <2> QED
    BY <2>3, <2>4, <2>5, <2>6, <2>7, <2>8 DEF Next
<1> QED
  BY <1>1, Invariance, PTL DEF Spec, FinalStateSticks

\* Until a connection fails, the server can reach every thread it has started.
THEOREM QuietInvariance == Spec => []QuietInv
<1>1. Init => QuietInv
  BY ItemsType
     DEF Init, QuietInv, UnbornAgree, LinkedNotStopped, RunningAreReachable, NoneBehindDrain,
         ConRuns, RunningPcs
<1>2. IInv /\ QuietInv /\ [Next]_vars => QuietInv'
  BY UnbornStep, LinkedStep, RunningStep, BehindStep DEF IInv, QuietInv
<1> QED
  BY <1>1, <1>2, Invariance, PTL DEF Spec

\* Until then stop_all_connections is right to report that all are stopped.
THEOREM QuietDrain == Spec => []QuietDrainIsComplete
<1>1. IInv /\ QuietInv => QuietDrainIsComplete
  BY QuietDrained DEF QuietDrainIsComplete, AllClientsStopped
<1> QED
  BY <1>1, Invariance, QuietInvariance, PTL

\* Until then no connection thread runs on a destroyed server.
THEOREM QuietDestroy == Spec => []QuietServerOutlivesConnections
<1>1. IInv /\ QuietInv => QuietServerOutlivesConnections
  <2> SUFFICES ASSUME IInv, QuietInv, NoneFailed, app = "done", NEW c \in Conns
               PROVE  ~ConRuns(c)
    BY DEF QuietServerOutlivesConnections
  <2>1. srvPc \in {"none", "setState", "exiting", "exited"}
    BY DEF IInv, CallsAgree, SrvRuns
  <2> QED
    BY <2>1, QuietDrained
<1> QED
  BY <1>1, Invariance, QuietInvariance, PTL

-----------------------------------------------------------------------------
(* What the drain waits for: DrainInv is inductive relative to IInv.        *)

\* the drain has set con->state to STOP; a thread that is WORKING behind that
\* has overwritten it
Asked(c) == conState[c] = "WORKING" => conPc[c] # "begin"

\* the connections asked so far, and those seen to have answered
DrainAsked ==
    /\ srvPc = "mark" => \A i \in 1..Len(draining) : i < pos => Asked(draining[i])
    /\ srvPc \in {"count", "join"} => \A i \in 1..Len(draining) : Asked(draining[i])
DrainAnswered ==
    /\ srvPc = "count" /\ ~work =>
         \A i \in 1..Len(draining) : i < pos => conState[draining[i]] # "STOP"
    /\ srvPc = "join" => \A i \in 1..Len(draining) : conState[draining[i]] # "STOP"
DrainInv == DrainAsked /\ DrainAnswered

\* thrd_join in stop_all_connections is called when each connection of the list
\* has ended, or is WORKING past its first write of con->state, the write that
\* undid the request.  It waits for nobody who is still to answer.
JoinMeetsEnded ==
    srvPc = "join" => \A c \in Items(draining) :
        ConEnding(c) \/ (conState[c] = "WORKING" /\ conPc[c] \in RunningPcs \ {"begin"})

\* where stop_all_connections is
Stage ==
    CASE srvPc = "take"  -> 1
      [] srvPc = "mark"  -> 2
      [] srvPc = "count" -> 3
      [] srvPc = "join"  -> 4
      [] srvPc = "free"  -> 5
      [] OTHER           -> 6
Running == {c \in Conns : ConRuns(c)}
StopPending == {c \in Conns : conState[c] = "STOP"}

\* A drain runs down: it passes its stages in order, no thread starts, only its
\* marking stage asks for a stop, and its list gets no new item.
DrainRunsDown ==
    [][(srvPc \in DrainPcs) =>
         /\ Stage' \in {Stage, Stage + 1} \/ (srvPc = "count" /\ srvPc' = "setState")
         /\ Running' \subseteq Running
         /\ srvPc # "mark" => StopPending' \subseteq StopPending
         /\ srvPc # "take" => Items(draining') \subseteq Items(draining)]_vars

\* An asked connection stays so.
LEMMA AskedKept ==
    ASSUME TypeOK, NEW d \in Conns, NEW c \in Conns, ConStep(c)
    PROVE  /\ Asked(d) => Asked(d)'
           /\ conState'[d] = "STOP" => conState[d] = "STOP"
           /\ ConRuns(d)' => ConRuns(d)
<1> USE DEF TypeOK, Asked, ConRuns, RunningPcs
<1>1. CASE ConBegin(c)
  BY <1>1 DEF ConBegin
<1>2. CASE ConCheckStopped(c)
  BY <1>2 DEF ConCheckStopped, ConEnd
<1>3. CASE ConIoReturns(c)
  BY <1>3 DEF ConIoReturns
<1>4. CASE ConIoTimeout(c)
  BY <1>4 DEF ConIoTimeout, ConEnd
<1>5. CASE ConFails(c)
  BY <1>5 DEF ConFails, ConEnd
<1>6. CASE ConUsesServer(c)
  BY <1>6 DEF ConUsesServer
<1>7. CASE ConExit(c)
  BY <1>7 DEF ConExit
<1> QED
  BY <1>1, <1>2, <1>3, <1>4, <1>5, <1>6, <1>7 DEF ConStep

\* Outside the drain the server thread reaches only its beginning.
LEMMA EntersDrain ==
    ASSUME SrvStep, ~SrvDrain
    PROVE  srvPc \notin DrainPcs /\ srvPc' \notin DrainPcs \ {"take"}
BY DEF SrvStep, DrainPcs, SrvBegin, SrvListen, SrvCheck, SrvSelectTimeout, SrvSelectFails,
       SrvAccept, SrvAcceptFails, AfterCreateFails, SrvPush, SrvReap, SrvReapJoin,
       SrvDrain, SrvSetState, SrvExit

\* The application makes a thread, and otherwise leaves it where it is.
LEMMA AppStarts ==
    ASSUME AppStep
    PROVE  srvPc' = srvPc \/ (app = "idle" /\ srvPc' = "begin")
BY DEF AppStep, AppInCall, AppBind, AppStart, AppStartReturns, AppStop, AppDestroy,
       AppRequestStop, AppSeesAnswer, AppJoin, AppFree

\* The marking loop leaves no thread behind it that could still undo a request
\* it has not seen; ended connections keep their state.
LEMMA AskedStep ==
    ASSUME TypeOK, DrainAsked, [Next]_vars
    PROVE  DrainAsked'
<1> USE DEF TypeOK, DrainAsked
<1>1. CASE AppStep
  BY <1>1, AppFrame, AppStarts DEF Asked
<1>2. CASE SrvStep /\ ~SrvDrain
  BY <1>2, EntersDrain DEF DrainPcs
<1>3. CASE SrvTake
  BY <1>3 DEF SrvTake
<1>4. CASE SrvMark
  <2>1. UNCHANGED <<draining, conPc>> /\ srvPc = "mark"
    BY <1>4 DEF SrvMark
  <2>2. CASE AtEnd(draining)
    <3>1. UNCHANGED conState /\ srvPc' = "count"
      BY <1>4, <2>2 DEF SrvMark
    <3> QED
      BY <2>1, <2>2, <3>1 DEF Asked, AtEnd
  <2>3. CASE ~AtEnd(draining)
    <3>1. /\ srvPc' = "mark" /\ pos' = pos + 1 /\ draining[pos] \in Conns
          /\ conState' = [conState EXCEPT ![draining[pos]] = Marked(@)]
      BY <1>4, <2>1, <2>3 DEF SrvMark, AtEnd
    <3>2. conState'[draining[pos]] # "WORKING"
      BY <3>1 DEF Marked
    <3>3. ASSUME NEW i \in 1..Len(draining), i < pos + 1
          PROVE  conState'[draining[i]] = "WORKING" => conPc[draining[i]] # "begin"
      <4>1. CASE draining[i] = draining[pos]
        BY <3>2, <4>1
      <4>2. CASE draining[i] # draining[pos]
        <5>1. i # pos
          BY <4>2
        <5>2. i < pos
          BY <3>3, <5>1
        <5>3. conState[draining[i]] = "WORKING" => conPc[draining[i]] # "begin"
          BY <2>1, <5>2 DEF Asked
        <5>4. conState'[draining[i]] = conState[draining[i]]
          BY <3>1, <4>2
        <5> QED
          BY <5>3, <5>4
      <4> QED
        BY <4>1, <4>2
    <3> QED
      BY <2>1, <3>1, <3>3 DEF Asked
  <2> QED
    BY <2>2, <2>3
<1>5. CASE SrvCount \/ SrvJoin
  BY <1>5 DEF SrvCount, SrvJoin, Asked
<1>6. CASE SrvFree
  BY <1>6 DEF SrvFree
<1>7. ASSUME NEW c \in Conns, ConStep(c)
      PROVE  DrainAsked'
  <2>1. UNCHANGED <<srvPc, draining, pos>>
    BY <1>7, ConFrame
  <2>2. ASSUME NEW i \in 1..Len(draining), Asked(draining[i])
        PROVE  conState'[draining[i]] = "WORKING" => conPc'[draining[i]] # "begin"
    <3>1. PICK d \in Conns : d = draining[i]
      OBVIOUS
    <3>2. Asked(d) => Asked(d)'
      BY <1>7, AskedKept
    <3>3. conState'[d] = "WORKING" => conPc'[d] # "begin"
      BY <2>2, <3>1, <3>2 DEF Asked
    <3> QED
      BY <3>1, <3>3
  <2> QED
    BY <2>1, <2>2 DEF Asked
<1>8. CASE Terminated \/ UNCHANGED vars
  BY <1>8 DEF Terminated, vars, Asked
<1> QED
  BY <1>1, <1>2, <1>3, <1>4, <1>5, <1>6, <1>7, <1>8 DEF Next, SrvDrain

\* The counting loop ends when it has walked the list without meeting a STOP.
LEMMA AnsweredStep ==
    ASSUME TypeOK, DrainAnswered, [Next]_vars
    PROVE  DrainAnswered'
<1> USE DEF TypeOK, DrainAnswered
<1>1. CASE AppStep
  BY <1>1, AppFrame, AppStarts
<1>2. CASE SrvStep /\ ~SrvDrain
  BY <1>2, EntersDrain DEF DrainPcs
<1>3. CASE SrvTake
  BY <1>3 DEF SrvTake
<1>4. CASE SrvMark
  BY <1>4 DEF SrvMark
<1>5. CASE SrvCount
  <2>1. UNCHANGED <<draining, conState>> /\ srvPc = "count"
    BY <1>5 DEF SrvCount
  <2>2. CASE srvPc' = "setState"
    BY <2>2
  <2>3. CASE srvPc' # "setState" /\ AtEnd(draining)
    <3>1. pos' = 1 /\ srvPc' = IF work THEN "count" ELSE "join"
      BY <1>5, <2>3 DEF SrvCount
    <3> QED
      BY <2>1, <2>3, <3>1 DEF AtEnd
  <2>4. CASE srvPc' # "setState" /\ ~AtEnd(draining)
    <3>1. /\ pos' = pos + 1 /\ srvPc' = "count"
          /\ work' = (work \/ conState[draining[pos]] = "STOP")
      BY <1>5, <2>1, <2>4 DEF SrvCount
    <3>2. ~work' => ~work /\ conState[draining[pos]] # "STOP"
      BY <3>1, Zenon
    <3> QED
      BY <2>1, <3>1, <3>2
  <2> QED
    BY <2>2, <2>3, <2>4
<1>6. CASE SrvJoin \/ SrvFree
  BY <1>6 DEF SrvJoin, SrvFree
<1>7. ASSUME NEW c \in Conns, ConStep(c)
      PROVE  DrainAnswered'
  <2>1. UNCHANGED <<srvPc, draining, pos, work>>
    BY <1>7, ConFrame
  <2>2. ASSUME NEW i \in 1..Len(draining), conState[draining[i]] # "STOP"
        PROVE  conState'[draining[i]] # "STOP"
    <3>1. draining[i] \in Conns
      OBVIOUS
    <3> QED
      BY <1>7, <2>2, <3>1, AskedKept
  <2> QED
    BY <2>1, <2>2
<1>8. CASE Terminated \/ UNCHANGED vars
  BY <1>8 DEF Terminated, vars
<1> QED
  BY <1>1, <1>2, <1>3, <1>4, <1>5, <1>6, <1>7, <1>8 DEF Next, SrvDrain

\* The two hold in every reachable state.
LEMMA DrainInvariance == Spec => []DrainInv
<1>1. Init => DrainInv
  BY DEF Init, DrainInv, DrainAsked, DrainAnswered
<1>2. IInv /\ DrainInv /\ [Next]_vars => DrainInv'
  BY AskedStep, AnsweredStep DEF IInv, DrainInv
<1> QED
  BY <1>1, <1>2, Invariance, PTL DEF Spec

\* stop_all_connections calls thrd_join only for connections that have ended or
\* have overwritten the request to stop: the one way it can be kept waiting.
THEOREM JoinWaitsForNoAnswer == Spec => []JoinMeetsEnded
<1>1. IInv /\ DrainInv => JoinMeetsEnded
  <2> SUFFICES ASSUME IInv, DrainInv, srvPc = "join",
                      NEW i \in 1..Len(draining), NEW c, c = draining[i]
               PROVE  \/ ConEnding(c)
                      \/ conState[c] = "WORKING" /\ conPc[c] \in RunningPcs \ {"begin"}
    BY ItemsOf DEF JoinMeetsEnded
  <2>1. c \in Conns /\ c \in Items(draining)
    BY ItemsOf DEF IInv, TypeOK
  <2>2. conMem[c] = "live" /\ ConAgrees(c) /\ conPc[c] \in ConPcs
    BY <2>1 DEF IInv, TypeOK, ReachableAreLive
  <2>3. Asked(c) /\ conState[c] # "STOP"
    BY DEF DrainInv, DrainAsked, DrainAnswered
  <2> QED
    BY <2>2, <2>3 DEF Asked, ConAgrees, ConRuns, ConEnding, ConPcs, RunningPcs
<1> QED
  BY <1>1, Invariance, DrainInvariance, PTL

\* A drain passes its stages in order, while the connections that run, that are
\* still to answer and that it holds become fewer only.
THEOREM DrainNeverGrows == Spec => DrainRunsDown
<1> DEFINE Down ==
      (srvPc \in DrainPcs) =>
         /\ Stage' \in {Stage, Stage + 1} \/ (srvPc = "count" /\ srvPc' = "setState")
         /\ Running' \subseteq Running
         /\ srvPc # "mark" => StopPending' \subseteq StopPending
         /\ srvPc # "take" => Items(draining') \subseteq Items(draining)
<1>1. IInv /\ [Next]_vars => [Down]_vars
  <2> SUFFICES ASSUME IInv, Next, srvPc \in DrainPcs
               PROVE  Down
    OBVIOUS
  <2> USE DEF Stage, Running, StopPending, DrainPcs
  <2>1. TypeOK
    BY DEF IInv
  <2>2. CASE AppStep
    <3>1. UNCHANGED <<draining, conState, conPc>>
      BY <2>2, AppFrame
    <3>2. UNCHANGED srvPc
      BY <2>2, AppStarts DEF IInv, CallsAgree, SrvRuns
    <3> QED
      BY <3>1, <3>2 DEF ConRuns
  <2>3. CASE SrvTake
    BY <2>3 DEF SrvTake, ConRuns
  <2>4. CASE SrvMark
    BY <2>4 DEF SrvMark, ConRuns
  <2>5. CASE SrvCount
    BY <2>5 DEF SrvCount, ConRuns
  <2>6. CASE SrvJoin
    BY <2>6 DEF SrvJoin, ConRuns
  <2>7. CASE SrvFree
    <3>1. UNCHANGED <<conState, conPc>> /\ srvPc = "free" /\ srvPc' \in {"free", "setState"}
      BY <2>7 DEF SrvFree
    <3>2. Items(draining') \subseteq Items(draining)
      <4>1. CASE draining = <<>>
        BY <2>7, <4>1 DEF SrvFree
      <4>2. CASE draining # <<>>
        <5>1. draining' = Tail(draining) /\ Distinct(draining) /\ draining \in Seq(Conns)
          BY <2>7, <4>2 DEF SrvFree, IInv, ReachableAreLive, TypeOK
        <5> QED
          BY <4>2, <5>1, BeheadItems
      <4> QED
        BY <4>1, <4>2
    <3> QED
      BY <3>1, <3>2 DEF ConRuns
  <2>8. CASE SrvStep /\ ~SrvDrain
    BY <2>8, EntersDrain
  <2>9. ASSUME NEW c \in Conns, ConStep(c)
        PROVE  Down
    <3>1. UNCHANGED <<srvPc, draining>>
      BY <2>9, ConFrame
    <3>2. Running' \subseteq Running /\ StopPending' \subseteq StopPending
      BY <2>1, <2>9, AskedKept DEF ConRuns
    <3> QED
      BY <3>1, <3>2
  <2>10. CASE Terminated
    BY <2>10 DEF Terminated, vars, ConRuns
  <2> QED
    BY <2>2, <2>3, <2>4, <2>5, <2>6, <2>7, <2>8, <2>9, <2>10 DEF Next, SrvDrain
<1> QED
  BY <1>1, Invariance, PTL DEF Spec, DrainRunsDown

\* the steps a thread takes at most in the message it is handling, up to
\* check_stopped and its exit
StepsToExit(c) ==
    CASE conPc[c] = "io"      -> 4 + 2 * ioLeft[c]
      [] conPc[c] = "use"     -> 3 + 2 * ioLeft[c]
      [] conPc[c] = "check"   -> 2
      [] conPc[c] = "exiting" -> 1
      [] OTHER                -> 0

\* A thread that has been asked to stop and is past its first write of con->state
\* begins no other message: every step it makes brings its exit nearer, and until
\* that the request stands, whatever the others do.
StopRunsOut ==
    [][\A c \in Conns :
         conState[c] = "STOP" /\ conPc[c] # "begin" =>
           \/ conPc'[c] = conPc[c] /\ conState'[c] = "STOP" /\ ioLeft'[c] = ioLeft[c]
           \/ /\ StepsToExit(c)' < StepsToExit(c)
              /\ conState'[c] = "STOP" \/ conPc'[c] = "exiting"]_vars

\* A thread asked to stop ends with the message it handles.
THEOREM StopEndsMessage == Spec => StopRunsOut
<1> DEFINE RunsOut(d) ==
      conState[d] = "STOP" /\ conPc[d] # "begin" =>
        \/ conPc'[d] = conPc[d] /\ conState'[d] = "STOP" /\ ioLeft'[d] = ioLeft[d]
        \/ /\ StepsToExit(d)' < StepsToExit(d)
           /\ conState'[d] = "STOP" \/ conPc'[d] = "exiting"
<1>1. IInv /\ [Next]_vars => [\A c \in Conns : RunsOut(c)]_vars
  <2> SUFFICES ASSUME IInv, Next, NEW d \in Conns, conState[d] = "STOP", conPc[d] # "begin"
               PROVE  RunsOut(d)
    OBVIOUS
  <2> USE ConstantsAssumption DEF ConstantsAssumption, TypeOK
  <2>1. TypeOK /\ ioLeft[d] \in Nat /\ d \in Items(draining)
    BY DEF IInv, StopsAreDrained
  <2>2. /\ conMem[d] = "live" /\ draining # <<>>
        /\ srvPc \in DrainPcs
    BY <2>1, ItemsType DEF IInv, ReachableAreLive, ListsAgree
  <2>3. CASE AppStep
    BY <2>3, AppFrame
  <2>4. CASE SrvStep
    <3>1. SrvDrain
      BY <2>2, <2>4, EntersDrain
    <3>2. UNCHANGED <<conPc, ioLeft>>
      BY <3>1 DEF SrvDrain, SrvTake, SrvMark, SrvCount, SrvJoin, SrvFree
    <3>3. conState'[d] \in {conState[d], Marked(conState[d])}
      BY <2>1, <3>1 DEF SrvDrain, SrvTake, SrvMark, SrvCount, SrvJoin, SrvFree
    <3> QED
      BY <3>2, <3>3 DEF Marked
  <2>5. ASSUME NEW c \in Conns, ConStep(c)
        PROVE  RunsOut(d)
    <3>1. CASE c # d
      BY <2>1, <2>5, <3>1 DEF ConStep, ConBegin, ConCheckStopped, ConIoReturns, ConIoTimeout,
         ConFails, ConUsesServer, ConExit, ConEnd
    <3>2. CASE c = d
      <4> USE DEF StepsToExit
      <4>1. CASE ConBegin(d)
        BY <4>1 DEF ConBegin
      <4>2. CASE ConCheckStopped(d)
        BY <2>1, <4>2 DEF ConCheckStopped, ConEnd
      <4>3. CASE ConIoReturns(d)
        BY <2>1, <4>3 DEF ConIoReturns
      <4>4. CASE ConIoTimeout(d) \/ ConFails(d)
        BY <2>1, <4>4 DEF ConIoTimeout, ConFails, ConEnd
      <4>5. CASE ConUsesServer(d)
        BY <2>1, <4>5 DEF ConUsesServer
      <4>6. CASE ConExit(d)
        BY <2>1, <4>6 DEF ConExit
      <4> QED
        BY <2>5, <3>2, <4>1, <4>2, <4>3, <4>4, <4>5, <4>6 DEF ConStep
    <3> QED
      BY <3>1, <3>2
  <2>6. CASE Terminated
    BY <2>6 DEF Terminated, vars, conVars
  <2> QED
    BY <2>3, <2>4, <2>5, <2>6 DEF Next
<1> QED
  BY <1>1, Invariance, PTL DEF Spec, StopRunsOut

=============================================================================
