----------------------------- MODULE OwnerServer ----------------------------
(* The lifetime of the Owner's Chat server: admission of requests and         *)
(* executions (chatui/client_lifetime.go, execution.go), the handoff          *)
(* (attach.go), the idle shutdown of a detached desktop, the loss of the      *)
(* database, and Close.                                                       *)
(*                                                                            *)
(* Every step that holds the server's mutex is one action; what happens       *)
(* between two of its critical sections is left open.                         *)
EXTENDS Naturals, FiniteSets

CONSTANTS
  Chats,  \* conversations
  Reqs,   \* client requests that can be inside at once
  MaxForegroundRuns

VARIABLES
  running,   \* server.running: chats with an execution
  recorded,  \* those whose Run is settled or waits
  cancelled, \* those whose context is cancelled
  undecided, \* chats with a Run that waits for a confirmation
  commands,  \* a background command is active
  sealed,    \* the command supervisor is closed
  stopping, closed, stopRequested,
  why,       \* what requested the stop
  recanted,  \* a handoff was answered with an error after it had stopped admission
  req,       \* requests inside: kind, and whether something ran
  client,    \* a client was seen within 45 s
  main       \* the process: "serving", "closing" (Close waits) or "drained"

executions == <<running, recorded, cancelled, undecided>>
lifetime == <<stopping, closed, stopRequested, why, recanted, main>>
serverVars == <<executions, commands, sealed, lifetime, req, client>>

Kinds == {"read", "submit", "handoff", "handoff-cancel"}
Out == [kind |-> "none", active |-> FALSE]

ServerInit ==
  /\ running = {} /\ recorded = {} /\ cancelled = {} /\ undecided = {}
  /\ commands = FALSE /\ sealed = FALSE
  /\ stopping = FALSE /\ closed = FALSE /\ stopRequested = FALSE
  /\ why = "none" /\ recanted = FALSE
  /\ req = [r \in Reqs |-> Out] /\ client = FALSE /\ main = "serving"

-----------------------------------------------------------------------------
(* Executions *)

\* reserveContext: the conditions under which a chat gets an execution.
Reservable(c) ==
  /\ c \notin running /\ ~stopping /\ ~closed
  /\ Cardinality(running) < MaxForegroundRuns

Reserve(c) == Reservable(c) /\ running' = running \cup {c}

\* DispatchChannel, advanceQueue: an execution without a request.
Dispatch(c) ==
  /\ Reserve(c)
  /\ UNCHANGED <<recorded, cancelled, undecided, commands, sealed, lifetime, req, client>>

\* The Run is settled, or waits for a confirmation.
Record(c) ==
  /\ c \in running \ (recorded \cup cancelled)
  /\ recorded' = recorded \cup {c}
  /\ undecided' \in {undecided \ {c}, undecided \cup {c}}
  /\ UNCHANGED <<running, cancelled, commands, sealed, lifetime, req, client>>

\* A tool of the Run starts a background command.
StartCommand(c) ==
  /\ c \in running \ (recorded \cup cancelled) /\ ~sealed /\ ~commands
  /\ commands' = TRUE
  /\ UNCHANGED <<executions, sealed, lifetime, req, client>>

CommandEnds ==
  /\ commands /\ commands' = FALSE
  /\ UNCHANGED <<executions, sealed, lifetime, req, client>>

\* requestStopLocked: once.
RequestStop(reason) ==
  /\ stopRequested' = TRUE
  /\ why' = IF stopRequested THEN why ELSE reason

\* Mutant: the last execution to end does not look whether a handoff waits.
ReleaseQuietly(c) ==
  /\ c \in running
  /\ running' = running \ {c} /\ recorded' = recorded \ {c} /\ cancelled' = cancelled \ {c}
  /\ UNCHANGED <<undecided, commands, sealed, lifetime, req, client>>

\* release: the slot is free; the last one to end under a handoff requests the stop.
Release(c) ==
  /\ c \in running
  /\ running' = running \ {c} /\ recorded' = recorded \ {c} /\ cancelled' = cancelled \ {c}
  /\ IF stopping /\ running = {c} THEN RequestStop("handoff") ELSE UNCHANGED <<stopRequested, why>>
  /\ UNCHANGED <<undecided, commands, sealed, stopping, closed, recanted, main, req, client>>

\* cancelConversation.
CancelChat(c) ==
  /\ c \in running \ cancelled /\ cancelled' = cancelled \cup {c}
  /\ UNCHANGED <<running, recorded, undecided, commands, sealed, lifetime, req, client>>

CancelAll == cancelled' = running

-----------------------------------------------------------------------------
(* Requests *)

\* enterClientRequest: a closed server admits nothing, a stopping one only reads.
Enter(r, kind) ==
  /\ req[r] = Out
  /\ ~closed /\ (stopping => kind = "read")
  /\ req' = [req EXCEPT ![r] = [kind |-> kind, active |-> FALSE]]
  /\ client' = TRUE
  /\ UNCHANGED <<executions, commands, sealed, lifetime>>

Leave(r) == req' = [req EXCEPT ![r] = Out]

\* A request that reads, or whose task is refused.
Answer(r) ==
  /\ \/ req[r].kind = "read"
     \/ req[r].kind = "submit" /\ \E c \in Chats : ~Reservable(c)
  /\ Leave(r)
  /\ UNCHANGED <<executions, commands, sealed, lifetime, client>>

\* startBound: the execution goes on after the answer.
Submit(r, c) ==
  /\ req[r].kind = "submit"
  /\ Reserve(c) /\ Leave(r)
  /\ UNCHANGED <<recorded, cancelled, undecided, commands, sealed, lifetime, client>>

\* The handoff route, first critical section: refused while something runs
\* unless the client asked to cancel it; otherwise admission stops.
HandOff(r) ==
  /\ req[r].kind \in {"handoff", "handoff-cancel"}
  /\ LET busy == (running # {} \/ commands) /\ req[r].kind = "handoff"
     IN \/ (closed \/ stopping \/ busy) /\ Leave(r) /\ UNCHANGED <<cancelled, stopping>>
        \/ /\ ~closed /\ ~stopping /\ ~busy
           /\ req' = [req EXCEPT ![r] = [kind |-> "ending", active |-> running # {}]]
           /\ CancelAll
           /\ stopping' = TRUE
  /\ UNCHANGED <<running, recorded, undecided, commands, sealed, closed, stopRequested, why, recanted,
                 main, client>>

\* Mutant: the handoff does not wait for the executions it cancelled.
CommandsClosedAtOnce(r) ==
  /\ req[r].kind = "ending"
  /\ commands' = FALSE /\ sealed' = TRUE
  /\ RequestStop("handoff")
  /\ CancelAll /\ Leave(r)
  /\ UNCHANGED <<running, recorded, undecided, stopping, closed, recanted, main, client>>

\* CloseCommands has stopped them; the stop is requested here only if nothing
\* was running when admission stopped.
CommandsClosed(r) ==
  /\ req[r].kind = "ending"
  /\ commands' = FALSE /\ sealed' = TRUE
  /\ IF req[r].active THEN UNCHANGED <<stopRequested, why>> ELSE RequestStop("handoff")
  /\ CancelAll /\ Leave(r)
  /\ UNCHANGED <<running, recorded, undecided, stopping, closed, recanted, main, client>>

\* A command could not be stopped: the handoff fails and admission is open
\* again, while the supervisor stays closed.
CommandsNotClosed(r) ==
  /\ req[r].kind = "ending" /\ commands
  /\ sealed' = TRUE /\ stopping' = FALSE /\ recanted' = TRUE /\ Leave(r)
  /\ UNCHANGED <<executions, commands, closed, stopRequested, why, main, client>>

-----------------------------------------------------------------------------
(* The end of the Owner *)

\* 45 seconds pass, or the client detaches.
ClientGone ==
  /\ client /\ client' = FALSE
  /\ UNCHANGED <<executions, commands, sealed, lifetime, req>>

\* KeepOwnerAlive: Runs running or waiting for a confirmation; with no
\* execution the first kind is none.
KeepOwnerAlive == undecided # {}

\* tryIdleShutdown: all under the mutex that admission takes.
IdleTick ==
  /\ ~closed /\ ~stopping /\ running = {} /\ ~client /\ ~commands /\ ~KeepOwnerAlive
  /\ \A r \in Reqs : req[r] = Out
  /\ stopping' = TRUE /\ RequestStop("idle")
  /\ UNCHANGED <<executions, commands, sealed, closed, recanted, main, req, client>>

\* watchDatabaseOwner.
DatabaseLost ==
  /\ why # "lost" /\ ~closed
  /\ stopping' = TRUE /\ stopRequested' = TRUE /\ why' = "lost"
  /\ CancelAll
  /\ UNCHANGED <<running, recorded, undecided, commands, sealed, closed, recanted, main, req, client>>

\* Server.Close, when the stop is requested or the process is told to end.
Close ==
  /\ main = "serving" /\ main' = "closing"
  /\ closed' = TRUE /\ CancelAll
  /\ UNCHANGED <<running, recorded, undecided, commands, sealed, stopping, stopRequested, why,
                 recanted, req, client>>

\* wg.Wait returns, the commands are closed; the store is closed after this.
Drained ==
  /\ main = "closing" /\ running = {}
  /\ main' = "drained" /\ commands' = FALSE /\ sealed' = TRUE
  /\ UNCHANGED <<executions, stopping, closed, stopRequested, why, recanted, req, client>>

ServerNext ==
  \/ \E c \in Chats :
       \/ Dispatch(c) \/ Record(c) \/ StartCommand(c) \/ Release(c) \/ CancelChat(c)
  \/ \E r \in Reqs :
       \/ \E kind \in Kinds : Enter(r, kind)
       \/ Answer(r) \/ \E c \in Chats : Submit(r, c)
       \/ HandOff(r) \/ CommandsClosed(r) \/ CommandsNotClosed(r)
  \/ CommandEnds \/ ClientGone \/ IdleTick \/ DatabaseLost \/ Close \/ Drained

\* The steps the server takes by itself: an execution ends (its calls have
\* deadlines), and the handler of a handoff returns (CloseCommands waits 12 s).
ExecutionEnds == \E c \in Chats : Release(c)
HandOffReturns == \E r \in Reqs : CommandsClosed(r) \/ CommandsNotClosed(r)

ServerSpec == ServerInit /\ [][ServerNext]_serverVars /\ WF_serverVars(ExecutionEnds) /\ WF_serverVars(HandOffReturns)

-----------------------------------------------------------------------------
ServerTypeOK ==
  /\ running \subseteq Chats /\ recorded \subseteq Chats /\ cancelled \subseteq Chats
  /\ undecided \subseteq Chats
  /\ commands \in BOOLEAN /\ sealed \in BOOLEAN /\ client \in BOOLEAN
  /\ stopping \in BOOLEAN /\ closed \in BOOLEAN /\ stopRequested \in BOOLEAN /\ recanted \in BOOLEAN
  /\ why \in {"none", "handoff", "idle", "lost"}
  /\ req \in [Reqs -> [kind : Kinds \cup {"none", "ending"}, active : BOOLEAN]]
  /\ main \in {"serving", "closing", "drained"}

\* Close waits for every execution: none is admitted behind its back, by a
\* request, a channel or a queue (Server.Close, reserveContext).
DrainedMeansQuiet == main = "drained" => running = {}

\* The Owner is not asked to stop under a running task, and none starts after:
\* a handoff waits for what it cancelled.  The loss of the database does not
\* wait; a handoff that failed is the exception (attach.go, release).
StopMeansQuiet == stopRequested /\ why # "lost" /\ ~recanted => running = {}

\* The idle shutdown takes nothing with it: no command and no Run that waits for
\* the user's decision, then or later (tryIdleShutdown, KeepOwnerAlive).
IdleLosesNothing == why = "idle" => running = {} /\ ~commands /\ undecided = {}

\* An Owner that stopped admission stops, or says that it cannot (handoff route,
\* release, tryIdleShutdown).
HandoffEnds == stopping ~> (stopRequested \/ ~stopping)

\* The end of the Owner takes no work with it that it should have waited for.
EndIsQuiet == ServerTypeOK /\ DrainedMeansQuiet /\ StopMeansQuiet /\ IdleLosesNothing
=============================================================================
