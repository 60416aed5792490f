------------------------------- MODULE Server -------------------------------
(***************************************************************************)
(* Life cycle of a trfb server: the application thread that starts, stops  *)
(* and destroys it (trfb.c, server.c), the server thread that accepts,     *)
(* reaps and finally drains the connections (server.c), and one thread per *)
(* connection (connection.c).  The threads share srv->state, the list      *)
(* srv->clients and each con->state, every one behind its mutex: a         *)
(* critical section is one step, everything between two of them is a       *)
(* program location.                                                       *)
(*                                                                         *)
(* The bytes of the protocol are abstracted: an I/O call either returns,   *)
(* times out after its second, or fails.                                   *)
(***************************************************************************)
EXTENDS Integers, Sequences

CONSTANTS
    Conns,      \* identities of the connections accepted over a behaviour
    NoConn,     \* "no connection", the C null pointer
    MaxStarts,  \* bound on the calls of trfb_server_start that make a thread
    MaxIo,      \* bound on the further I/O calls of one message handler
    Faults      \* what may fail in this environment, see FaultKinds

FaultKinds ==
    { "listen",   \* listen() fails
      "select",   \* select() fails in the server thread, EINTR included
      "create",   \* accept() or trfb_connection_create fails
      "peer" }    \* a peer disconnects, or breaks the protocol

ASSUME ConstantsAssumption ==
    /\ NoConn \notin Conns
    /\ MaxStarts \in Nat
    /\ MaxIo \in Nat
    /\ Faults \subseteq FaultKinds

VARIABLES
    app,         \* where the application thread is in the API
    starts,      \* how many server threads it has made
    sock,        \* srv->sock
    destroying,  \* trfb_server_stop was called by trfb_server_destroy
    srvState,    \* srv->state
    srvPc,       \* where the server thread is
    result,      \* argument of EXIT_THREAD
    clients,     \* srv->clients, the head first
    draining,    \* the local list "connections" of stop_all_connections
    pos,         \* index of the local "con" in the list being walked
    work,        \* the local "work" of stop_all_connections is not zero
    fresh,       \* connection created and not yet in srv->clients
    conState,    \* con->state
    conPc,       \* where each connection thread is
    conMem,      \* the trfb_connection_t and its socket
    ioLeft       \* I/O calls the current message may still make

appVars  == <<app, starts, sock, destroying>>
walkVars == <<clients, draining, pos, work>>
conVars  == <<conState, conPc, conMem, ioLeft>>
vars == <<appVars, srvState, srvPc, result, walkVars, fresh, conVars>>

AppPcs == {"idle", "starting", "running", "stopping", "wait", "join", "free", "done"}
States == {"STOPPED", "WORKING", "STOP", "ERROR"}
\* locations inside stop_all_connections, then the rest of EXIT_THREAD
DrainPcs == {"take", "mark", "count", "join", "free"}
SrvPcs == {"none", "begin", "listen", "check", "select", "push", "reap", "reapJoin",
           "setState", "exiting", "exited"} \cup DrainPcs
RunningPcs == {"begin", "check", "io", "use"}
ConPcs == {"none", "exiting", "exited"} \cup RunningPcs

Items(s) == {s[i] : i \in 1..Len(s)}

TypeOK ==
    /\ app \in AppPcs
    /\ starts \in 0..MaxStarts
    /\ sock \in {"none", "open", "closed"}
    /\ destroying \in BOOLEAN
    /\ srvState \in States
    /\ srvPc \in SrvPcs
    /\ result \in States
    /\ clients \in Seq(Conns)
    /\ draining \in Seq(Conns)
    /\ pos \in Nat \ {0}
    /\ work \in BOOLEAN
    /\ fresh \in Conns \cup {NoConn}
    /\ conState \in [Conns -> States]
    /\ conPc \in [Conns -> ConPcs]
    /\ conMem \in [Conns -> {"none", "live", "freed", "leaked"}]
    /\ ioLeft \in [Conns -> 0..MaxIo]

\* trfb_server_create: calloc, sock = -1, state = STOPPED, no clients
Init ==
    /\ app = "idle" /\ starts = 0 /\ sock = "none" /\ destroying = FALSE
    /\ srvState = "STOPPED" /\ srvPc = "none" /\ result = "STOPPED"
    /\ clients = <<>> /\ draining = <<>> /\ pos = 1 /\ work = FALSE
    /\ fresh = NoConn
    /\ conState = [c \in Conns |-> "STOPPED"]
    /\ conPc = [c \in Conns |-> "none"]
    /\ conMem = [c \in Conns |-> "none"]
    /\ ioLeft = [c \in Conns |-> 0]

-----------------------------------------------------------------------------
(* The application thread. *)

\* trfb_server_bind succeeds: trfb_server_set_socket takes the socket while
\* the server is stopped
AppBind ==
    /\ app = "idle" /\ sock = "none"
    /\ srvState = "STOPPED"
    /\ sock' = "open"
    /\ UNCHANGED <<app, starts, destroying, srvState, srvPc, result, walkVars, fresh, conVars>>

\* trfb_server_start up to thrd_create.  The calls that return -1 before it
\* change nothing.
AppStart ==
    /\ app = "idle" /\ starts < MaxStarts
    /\ clients = <<>> /\ srvState = "STOPPED"
    /\ sock = "open"
    /\ app' = "starting"
    /\ starts' = starts + 1
    /\ srvPc' = "begin"
    /\ UNCHANGED <<sock, destroying, srvState, result, walkVars, fresh, conVars>>

\* trfb_server_start looks at the state until it is not STOPPED, and then
\* returns 0 when it is WORKING, -1 otherwise
StartOutcome_AtOnce == "running"
StartOutcome ==
    CASE srvState = "STOPPED" -> "starting"
      [] srvState = "WORKING" -> "running"
      [] OTHER                -> "idle"
AppStartReturns ==
    /\ app = "starting"
    /\ StartOutcome # "starting"
    /\ app' = StartOutcome
    /\ UNCHANGED <<starts, sock, destroying, srvState, srvPc, result, walkVars, fresh, conVars>>

\* The application calls trfb_server_stop
AppStop ==
    /\ app = "running"
    /\ app' = "stopping"
    /\ UNCHANGED <<starts, sock, destroying, srvState, srvPc, result, walkVars, fresh, conVars>>

\* trfb_server_destroy reads the state and calls trfb_server_stop only when
\* it is WORKING
MustStop_Never == FALSE
MustStop == srvState = "WORKING"
AppDestroy ==
    /\ app \in {"idle", "running"}
    /\ app' = IF MustStop THEN "stopping" ELSE "free"
    /\ destroying' = TRUE
    /\ UNCHANGED <<starts, sock, srvState, srvPc, result, walkVars, fresh, conVars>>

\* trfb_server_stop: the state becomes STOP whatever it was
AppRequestStop ==
    /\ app = "stopping"
    /\ srvState' = "STOP"
    /\ app' = "wait"
    /\ UNCHANGED <<starts, sock, destroying, srvPc, result, walkVars, fresh, conVars>>

\* ... its polling loop ends when the server thread has answered
AppSeesAnswer ==
    /\ app = "wait"
    /\ srvState # "STOP"
    /\ app' = "join"
    /\ UNCHANGED <<starts, sock, destroying, srvState, srvPc, result, walkVars, fresh, conVars>>

\* ... and thrd_join returns: back to the application or to trfb_server_destroy
AppJoin ==
    /\ app = "join"
    /\ srvPc = "exited"
    /\ app' = IF destroying THEN "free" ELSE "idle"
    /\ UNCHANGED <<starts, sock, destroying, srvState, srvPc, result, walkVars, fresh, conVars>>

\* trfb_server_destroy closes the socket and frees the framebuffer and srv
AppFree ==
    /\ app = "free"
    /\ sock' = "closed"
    /\ app' = "done"
    /\ UNCHANGED <<starts, destroying, srvState, srvPc, result, walkVars, fresh, conVars>>

AppInCall == AppStartReturns \/ AppRequestStop \/ AppSeesAnswer \/ AppJoin \/ AppFree
AppStep == AppBind \/ AppStart \/ AppStop \/ AppDestroy \/ AppInCall

-----------------------------------------------------------------------------
(* The server thread: server() and stop_all_connections(). *)

AtEnd(list) == pos > Len(list)

\* thrd_join returns once the thread has ended
Joinable_Any(c) == TRUE
Joinable(c) == conPc[c] = "exited"

SrvGoto(l) == srvPc' = l
SrvLocal == UNCHANGED <<appVars, srvState>>

\* EXIT_THREAD(s)
ExitThread(s) == result' = s /\ SrvGoto("take")

\* the thread starts by announcing itself, before listen
SrvBegin ==
    /\ srvPc = "begin"
    /\ srvState' = "WORKING"
    /\ SrvGoto("listen")
    /\ UNCHANGED <<appVars, result, walkVars, fresh, conVars>>

SrvListen ==
    /\ srvPc = "listen"
    /\ \/ SrvGoto("check") /\ UNCHANGED result
       \/ "listen" \in Faults /\ ExitThread("ERROR")
    /\ SrvLocal /\ UNCHANGED <<walkVars, fresh, conVars>>

StopAsked_Unchecked == FALSE
StopAsked == srvState = "STOP"
SrvCheck ==
    /\ srvPc = "check"
    /\ IF StopAsked THEN ExitThread("STOPPED")
                            ELSE SrvGoto("select") /\ UNCHANGED result
    /\ SrvLocal /\ UNCHANGED <<walkVars, fresh, conVars>>

\* select timed out, or failed
SrvSelectTimeout ==
    /\ srvPc = "select"
    /\ SrvGoto("reap") /\ pos' = 1
    /\ SrvLocal /\ UNCHANGED <<result, clients, draining, work, fresh, conVars>>

SrvSelectFails ==
    /\ srvPc = "select" /\ "select" \in Faults
    /\ ExitThread("ERROR")
    /\ SrvLocal /\ UNCHANGED <<walkVars, fresh, conVars>>

\* accept and trfb_connection_create: the structure is WORKING and its thread
\* runs before the server has linked it
SrvAccept(c) ==
    /\ srvPc = "select" /\ conMem[c] = "none"
    /\ conMem' = [conMem EXCEPT ![c] = "live"]
    /\ conState' = [conState EXCEPT ![c] = "WORKING"]
    /\ conPc' = [conPc EXCEPT ![c] = "begin"]
    /\ fresh' = c
    /\ SrvGoto("push")
    /\ SrvLocal /\ UNCHANGED <<result, walkVars, ioLeft>>

\* trfb_connection_create fails and returns NULL: nothing is linked, and nobody
\* closes the socket
AfterCreateFails == "reap"
SrvAcceptFails(c) ==
    /\ srvPc = "select" /\ conMem[c] = "none" /\ "create" \in Faults
    /\ conMem' = [conMem EXCEPT ![c] = "leaked"]
    /\ SrvGoto(AfterCreateFails) /\ pos' = 1
    /\ SrvLocal
    /\ UNCHANGED <<result, clients, draining, work, fresh, conState, conPc, ioLeft>>

\* the new connection becomes the head of the list
Linked_Alone(c, list) == <<c>>
Linked(c, list) == <<c>> \o list
SrvPush ==
    /\ srvPc = "push"
    /\ clients' = Linked(fresh, clients)
    /\ fresh' = NoConn
    /\ SrvGoto("reap") /\ pos' = 1
    /\ SrvLocal /\ UNCHANGED <<result, draining, work, conVars>>

\* The reaping loop looks at one connection
Ended_Inverted(c) == conState[c] = "WORKING"
Ended(c) == conState[c] # "WORKING"
SrvReap ==
    /\ srvPc = "reap"
    /\ IF AtEnd(clients) THEN SrvGoto("check") /\ UNCHANGED pos
       ELSE IF Ended(clients[pos])
            THEN SrvGoto("reapJoin") /\ UNCHANGED pos
            ELSE pos' = pos + 1 /\ UNCHANGED srvPc
    /\ SrvLocal /\ UNCHANGED <<result, clients, draining, work, fresh, conVars>>

\* It joins, unlinks and frees an ended connection.  No iteration assigns
\* "prev", so the list is cut in front of con->next whatever preceded con.
SrvReapJoin ==
    /\ srvPc = "reapJoin"
    /\ Joinable(clients[pos])
    /\ clients' = SubSeq(clients, pos + 1, Len(clients))
    /\ conMem' = [conMem EXCEPT ![clients[pos]] = "freed"]
    /\ pos' = 1
    /\ SrvGoto("reap")
    /\ SrvLocal /\ UNCHANGED <<result, draining, work, fresh, conState, conPc, ioLeft>>

\* stop_all_connections takes the list ...
ListLeft == <<>>
SrvTake ==
    /\ srvPc = "take"
    /\ draining' = clients
    /\ clients' = ListLeft
    /\ SrvGoto("mark") /\ pos' = 1
    /\ SrvLocal /\ UNCHANGED <<result, work, fresh, conVars>>

\* ... asks every WORKING connection to stop ...
Marked_Always(state) == "STOP"
Marked(state) == IF state = "WORKING" THEN "STOP" ELSE state
SrvMark ==
    /\ srvPc = "mark"
    /\ \/ /\ AtEnd(draining)
          /\ SrvGoto("count") /\ pos' = 1 /\ work' = FALSE
          /\ UNCHANGED conState
       \/ /\ ~AtEnd(draining)
          /\ conState' = [conState EXCEPT ![draining[pos]] = Marked(@)]
          /\ pos' = pos + 1
          /\ UNCHANGED <<srvPc, work>>
    /\ SrvLocal /\ UNCHANGED <<result, clients, draining, fresh, conPc, conMem, ioLeft>>

\* ... counts those that have not answered, again and again ...
WorkAtStart_Kept == work
WorkAtStart == FALSE
SrvCount ==
    /\ srvPc = "count"
    /\ \/ draining = <<>> /\ SrvGoto("setState") /\ UNCHANGED <<pos, work>>
       \/ /\ draining # <<>> /\ AtEnd(draining)
          /\ pos' = 1 /\ work' = WorkAtStart
          /\ SrvGoto(IF work THEN "count" ELSE "join")
       \/ /\ ~AtEnd(draining)
          /\ pos' = pos + 1 /\ UNCHANGED srvPc
          /\ work' = (work \/ conState[draining[pos]] = "STOP")
    /\ SrvLocal /\ UNCHANGED <<result, clients, draining, fresh, conVars>>

\* ... joins them all ...
SrvJoin ==
    /\ srvPc = "join"
    /\ \/ AtEnd(draining) /\ SrvGoto("free") /\ UNCHANGED pos
       \/ /\ ~AtEnd(draining) /\ Joinable(draining[pos])
          /\ pos' = pos + 1 /\ UNCHANGED srvPc
    /\ SrvLocal /\ UNCHANGED <<result, clients, draining, work, fresh, conVars>>

\* ... and frees them.
SrvFree ==
    /\ srvPc = "free"
    /\ \/ draining = <<>> /\ SrvGoto("setState") /\ UNCHANGED <<draining, conMem>>
       \/ /\ draining # <<>>
          /\ conMem' = [conMem EXCEPT ![Head(draining)] = "freed"]
          /\ draining' = Tail(draining)
          /\ UNCHANGED srvPc
    /\ SrvLocal
    /\ UNCHANGED <<result, clients, pos, work, fresh, conState, conPc, ioLeft>>

\* the end of EXIT_THREAD
SrvSetState ==
    /\ srvPc = "setState"
    /\ srvState' = result
    /\ SrvGoto("exiting")
    /\ UNCHANGED <<appVars, result, walkVars, fresh, conVars>>

SrvExit ==
    /\ srvPc = "exiting"
    /\ SrvGoto("exited")
    /\ SrvLocal /\ UNCHANGED <<result, walkVars, fresh, conVars>>

SrvDrain == SrvTake \/ SrvMark \/ SrvCount \/ SrvJoin \/ SrvFree
SrvStep ==
    \/ SrvBegin \/ SrvListen \/ SrvCheck
    \/ SrvSelectTimeout \/ SrvSelectFails
    \/ \E c \in Conns : SrvAccept(c) \/ SrvAcceptFails(c)
    \/ SrvPush \/ SrvReap \/ SrvReapJoin
    \/ SrvDrain \/ SrvSetState \/ SrvExit

-----------------------------------------------------------------------------
(* The connection threads: connection(), negotiate() and the handlers. *)

ConGoto(c, l) == conPc' = [conPc EXCEPT ![c] = l]
ConLocal == UNCHANGED <<appVars, srvState, srvPc, result, walkVars, fresh, conMem>>

\* The first write of connection() overwrites con->state whatever it is, then
\* negotiate() starts writing
ConBegin(c) ==
    /\ conPc[c] = "begin"
    /\ conState' = [conState EXCEPT ![c] = "WORKING"]
    /\ ioLeft' = [ioLeft EXCEPT ![c] = MaxIo]
    /\ ConGoto(c, "io")
    /\ ConLocal

\* EXIT_THREAD(s), and the STOPPED branch of check_stopped: the state is
\* written under the lock, then the thread exits
ConEnd(c, s) ==
    /\ conState' = [conState EXCEPT ![c] = s]
    /\ ConGoto(c, "exiting")
    /\ ConLocal /\ UNCHANGED ioLeft

\* check_stopped at the top of the message loop, then the call that reads the
\* type of the next message
ConCheckStopped(c) ==
    /\ conPc[c] = "check"
    /\ IF conState[c] = "STOP"
       THEN ConEnd(c, "STOPPED")
       ELSE /\ ConGoto(c, "io")
            /\ ioLeft' = [ioLeft EXCEPT ![c] = MaxIo]
            /\ ConLocal /\ UNCHANGED conState

\* An I/O call returns: with its bytes, or from trfb_connection_flush, which
\* takes a timeout for success and never asks check_stopped.  The handler makes
\* a further call, works on the server structure, or is done with the message.
ConIoReturns(c) ==
    /\ conPc[c] = "io"
    /\ \/ ioLeft[c] > 0 /\ ioLeft' = [ioLeft EXCEPT ![c] = @ - 1] /\ UNCHANGED conPc
       \/ ConGoto(c, "use") /\ UNCHANGED ioLeft
       \/ ConGoto(c, "check") /\ UNCHANGED ioLeft
    /\ ConLocal /\ UNCHANGED conState

\* The call has waited its second in select.  check_stopped decides: the thread
\* ends, or the call waits again.
PollsStop_Never(c) == FALSE
PollsStop(c) == conState[c] = "STOP"
ConIoTimeout(c) ==
    /\ conPc[c] = "io"
    /\ PollsStop(c)
    /\ ConEnd(c, "STOPPED")

\* The call, the negotiation, the message or the work on it fails
ConFails(c) ==
    /\ conPc[c] \in {"io", "use"} /\ "peer" \in Faults
    /\ ConEnd(c, "ERROR")

\* A handler reads con->server->fb under its lock or adds an event
ConUsesServer(c) ==
    /\ conPc[c] = "use"
    /\ \/ ioLeft[c] > 0 /\ ConGoto(c, "io") /\ ioLeft' = [ioLeft EXCEPT ![c] = @ - 1]
       \/ ConGoto(c, "check") /\ UNCHANGED ioLeft
    /\ ConLocal /\ UNCHANGED conState

ConExit(c) ==
    /\ conPc[c] = "exiting"
    /\ ConGoto(c, "exited")
    /\ ConLocal /\ UNCHANGED <<conState, ioLeft>>

ConStep(c) ==
    \/ ConBegin(c) \/ ConCheckStopped(c) \/ ConIoReturns(c) \/ ConIoTimeout(c)
    \/ ConFails(c) \/ ConUsesServer(c) \/ ConExit(c)

-----------------------------------------------------------------------------
\* the process has nothing left to do for the application
Terminated == app = "done" /\ UNCHANGED vars

Next == AppStep \/ SrvStep \/ (\E c \in Conns : ConStep(c)) \/ Terminated

Spec == Init /\ [][Next]_vars

(* Scheduling: every thread that can run does, a call of the application ends *)
(* when it can, and select ends by its timeout.  Nothing is assumed of the    *)
(* peers, which may stay silent, nor of what the application calls.           *)
ThreadFairness ==
    /\ WF_vars(AppInCall)
    /\ WF_vars(SrvStep)
    /\ \A c \in Conns :
        /\ WF_vars(ConBegin(c)) /\ WF_vars(ConCheckStopped(c)) /\ WF_vars(ConUsesServer(c))
        /\ WF_vars(ConIoTimeout(c)) /\ WF_vars(ConExit(c))
FairSpec == Spec /\ ThreadFairness

(* An environment in which no peer stays connected for ever. *)
PeersLeave == \A c \in Conns : SF_vars(ConFails(c))

-----------------------------------------------------------------------------
(* Safety. *)

ConRuns(c) == conPc[c] \in RunningPcs
SrvRuns == srvPc \notin {"none", "exiting", "exited"}

\* No thread works on a freed connection: a trfb_connection_t is freed (and its
\* mutex destroyed) only after its thread has ended, in the reaping loop and in
\* stop_all_connections.
FreedOnlyAfterExit == \A c \in Conns : conMem[c] = "freed" => conPc[c] = "exited"

Distinct(s) == \A i, j \in 1..Len(s) : s[i] = s[j] => i = j

\* Every connection the server can reach is allocated and reached once: none of
\* srv->clients, the drained list and the connection being linked shares a
\* connection with another, holds one twice, or holds a freed one.
ReachableAreLive ==
    /\ Distinct(clients) /\ Distinct(draining)
    /\ Items(clients) \cap Items(draining) = {}
    /\ fresh \notin Items(clients) \cup Items(draining)
    /\ \A c \in Items(clients) \cup Items(draining) \cup ({fresh} \ {NoConn}) :
         conMem[c] = "live"

\* The reaping loop joins, and so blocks the accepting server, only on threads
\* that have nothing left to do: a state other than WORKING read there always
\* means an ending thread.
ReapJoinsEnding ==
    srvPc = "reapJoin" => conPc[clients[pos]] \in {"exiting", "exited"}

\* trfb_server_destroy frees the server when its thread no longer uses it,
\* whatever happened to the thread before.
ServerThreadGone == app = "done" => ~SrvRuns

\* What stop_all_connections reports: all clients have been stopped.
AllClientsStopped ==
    srvPc \in {"setState", "exiting", "exited"} => \A c \in Conns : ~ConRuns(c)

\* no connection has ended on its own, so that the reaping loop has unlinked none
NoneFailed == \A c \in Conns : conState[c] # "ERROR"

\* Until then the report is right: stop_all_connections reaches every connection
\* the server has accepted, the one it was just linking included.
QuietDrainIsComplete == NoneFailed => AllClientsStopped

\* Until then no connection thread runs on a destroyed server.
QuietServerOutlivesConnections ==
    NoneFailed /\ app = "done" => \A c \in Conns : ~ConRuns(c)

(* Action properties. *)

\* The state an ending connection leaves for the server to read is final: the
\* server's request to stop never overwrites it.
FinalStateSticks ==
    [][\A c \in Conns :
         conPc[c] \in {"exiting", "exited"} => conState'[c] = conState[c]]_vars

\* A request to stop is withdrawn by nothing but the answer of the server thread
\* at its very end; in particular not by the thread's own announcement that it
\* is WORKING, because trfb_server_start waits for that.
StopRequestSticks ==
    [][srvState = "STOP" /\ srvState' # "STOP" => srvPc = "setState"]_vars

(* Liveness. *)

\* A connection asked to stop once its thread has passed its first write ends,
\* even if its peer stays silent for ever.
StopHonouredOnceRunning ==
    \A c \in Conns :
        conState[c] = "STOP" /\ conPc[c] # "begin" ~> conPc[c] = "exited"

\* What trfb.h says of the I/O functions: they stop the thread when asked.
StopHonoured == \A c \in Conns : conState[c] = "STOP" ~> conPc[c] = "exited"

\* A drain that starts when the threads of its connections are past their first
\* write ends, even if the peers stay silent for ever.
DrainEnds ==
    srvPc = "mark" /\ pos = 1 /\ (\A c \in Items(draining) : conPc[c] # "begin")
      ~> srvPc = "exited"

\* Every call of trfb_server_start, trfb_server_stop and trfb_server_destroy
\* returns, if no peer stays connected for ever.
CallsReturn ==
    PeersLeave => (app \notin {"idle", "running"} ~> app \in {"idle", "running", "done"})

-----------------------------------------------------------------------------
(* The inductive invariant behind the safety properties, checked by TLC and *)
(* proved in ServerProofs.                                                  *)

ConEnding(c) == conPc[c] \in {"exiting", "exited"}

\* memory, location and state of one connection agree
ConAgrees(c) ==
    /\ conPc[c] = "none" <=> conMem[c] \in {"none", "leaked"}
    /\ ConRuns(c) => conState[c] \in {"WORKING", "STOP"}
    /\ ConEnding(c) => conState[c] \in {"STOPPED", "ERROR"}

\* which list holds connections where in server()
ListsAgree ==
    /\ srvPc \in DrainPcs \ {"take"} => clients = <<>>
    /\ srvPc \notin DrainPcs \ {"take"} => draining = <<>>
    /\ srvPc = "push" <=> fresh # NoConn
    /\ srvPc = "reapJoin" => pos <= Len(clients)

\* only the drain asks connections to stop, and only its own
StopsAreDrained == \A c \in Conns : conState[c] = "STOP" => c \in Items(draining)

\* the joins done so far
JoinProgress ==
    /\ srvPc = "join" => \A i \in 1..Len(draining) : i < pos => conPc[draining[i]] = "exited"
    /\ srvPc = "free" => \A i \in 1..Len(draining) : conPc[draining[i]] = "exited"

\* the application, the server thread and srv->state agree
CallsAgree ==
    /\ result \in {"STOPPED", "ERROR"}
    /\ srvPc = "begin" => app = "starting" /\ srvState = "STOPPED"
    /\ SrvRuns /\ srvPc # "begin" => srvState \in {"WORKING", "STOP"}
    /\ ~SrvRuns => srvState # "WORKING"
    /\ srvState = "STOP" => app = "wait"
    /\ app \in {"idle", "free", "done"} => ~SrvRuns

IInv ==
    /\ TypeOK
    /\ \A c \in Conns : ConAgrees(c)
    /\ FreedOnlyAfterExit
    /\ ListsAgree
    /\ ReachableAreLive
    /\ StopsAreDrained
    /\ JoinProgress
    /\ ReapJoinsEnding
    /\ CallsAgree

(* What that invariant leaves out of a drain: which connections it reaches. *)

\* an identity is STOPPED until it is accepted
UnbornAgree == \A c \in Conns : conPc[c] = "none" => conState[c] = "STOPPED"

\* no connection answers a request to stop before the drain has taken it
LinkedNotStopped ==
    \A c \in Items(clients) \cup ({fresh} \ {NoConn}) : conState[c] # "STOPPED"

\* until a connection has failed, the server can reach all that run
RunningAreReachable ==
    NoneFailed => \A c \in Conns :
                    ConRuns(c) => c \in Items(clients) \cup Items(draining) \cup {fresh}

\* and before the first start and behind a drain it has none
NoneBehindDrain == srvPc \in {"none", "setState", "exiting", "exited"} => clients = <<>>

QuietInv == UnbornAgree /\ LinkedNotStopped /\ RunningAreReachable /\ NoneBehindDrain

=============================================================================
