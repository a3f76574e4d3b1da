------------------------------ MODULE MCService ------------------------------
(* The Owner's own resources, checked in one run: its gates ("gate"), and the *)
(* commands it runs, as a background and a foreground command competing for   *)
(* one place ("pair") and as an extended service beside a foreground command  *)
(* of another execution profile ("service"); and that a budgeted Run gives    *)
(* its lease back ("run"); the output tail of a command ("tail"); and that an *)
(* Owner that lost its database session ("store") or hands over ("server")    *)
(* ends.                                                                      *)
EXTENDS ExecutionGate, CommandSessions

CONSTANTS w1, w2, w3, c1, c2, c3, m1, m2

ThreeWorkers == {w1, w2, w3}
ThreeChats == {c1, c2, c3}
TwoCallers == {m1, m2}
OneHandler == {m2}

VARIABLES part, run, att, steer, incoming, inputs, exec, up, lost,
  widths, chunks, cursor, starts, at, seen, told,
  pc, lock, database, session, advisory, doc, gen, gone, txs, files, reader, viewer, last, deaths,
  losses, left,
  running, recorded, cancelled, undecided, jobs, sealed, stopping, closed, stopRequested, why,
  recanted, req, client, main

gate == <<exclusive, chats, controlBusy, hostBusy, processBusy, slots, waiting, deciding, holds>>
task == <<run, att, steer, incoming, inputs, exec, up, lost>>
tail == <<widths, chunks, cursor, starts, at, seen, told>>
store == <<pc, lock, database, session, advisory, doc, gen, gone, txs, files, reader, viewer, last,
           deaths, losses, left>>
server == <<running, recorded, cancelled, undecided, jobs, sealed, stopping, closed,
            stopRequested, why, recanted, req, client, main>>
ownership == <<store, server>>
all == <<part, gate, commandVars, task, tail, ownership>>

\* The instance satisfies what the proofs assume.
ASSUME Instances == CommandsAssumption

Run == INSTANCE RunLifecycle WITH crashes <- lost,
  MaxRuns <- 1, MaxAttempts <- 6, MaxSteps <- 4, ModelRetries <- 1, MaxRounds <- 2,
  MaxCalls <- 1, MaxInputs <- 1, MaxCrashes <- 1, WritesMayFail <- FALSE

Tail == INSTANCE CommandTail WITH
  Limit <- 4, MaxChunks <- 3, Merge <- 3, Segments <- 2, Pages <- {1, 2, 3}, MaxBytes <- 7

Store == INSTANCE OwnerStore WITH lost <- gone, crashes <- deaths,
  Procs <- {"p1"}, MaxSessions <- 1, MaxCrashes <- 0, MaxLosses <- 1

Server == INSTANCE OwnerServer WITH commands <- jobs,
  Chats <- {"c1"}, Reqs <- {"r1"}, MaxForegroundRuns <- 1

MCInit ==
  /\ part \in {"gate", "pair", "service", "run", "tail", "store", "server"}
  /\ Init /\ CommandsInit /\ Run!Init /\ Tail!Init /\ Store!StoreInit /\ Server!ServerInit
  /\ part = "tail" \/ widths = {1}

\* Without the service, and without the background command.
InPair(A) ==
  part = "pair" /\ A /\ attempt'["s"] = "none" /\ UNCHANGED <<part, gate, task, tail, ownership>>
InService(A) ==
  part = "service" /\ A /\ attempt'["b"] = "none" /\ UNCHANGED <<part, gate, task, tail, ownership>>
InRun(A) == part = "run" /\ A /\ UNCHANGED <<part, gate, commandVars, tail, ownership>>
InStore(A) == part = "store" /\ A /\ UNCHANGED <<part, gate, commandVars, task, tail, server>>
InServer(A) == part = "server" /\ A /\ UNCHANGED <<part, gate, commandVars, task, tail, store>>

MCNext ==
  \/ part = "gate" /\ Next /\ UNCHANGED <<part, commandVars, task, tail, ownership>>
  \/ InPair(CommandsNext) \/ InService(CommandsNext)
  \/ part = "run" /\ Run!Next /\ UNCHANGED <<part, gate, commandVars, tail, ownership>>
  \/ part = "tail" /\ Tail!Next /\ UNCHANGED <<part, gate, commandVars, task, ownership>>
  \/ InStore(Store!StoreNext) \/ InServer(Server!ServerNext)

\* Timers fire, the supervising goroutine and the execution under the lease go
\* on, and an Owner that is down is started again; the watcher of the Owner's
\* session looks again and again, an Owner that lost it stops, and handoffs
\* return.  part never changes, so WF of a disjunction is WF of the disjunct of
\* the component that runs.
MCFairness ==
  /\ WF_all(InPair(Tick) \/ InService(Tick) \/ InRun(Run!ExecStep)
            \/ InStore(Store!Watch("p1")) \/ InServer(Server!ExecutionEnds))
  /\ WF_all(\/ InPair(SaveStart("b") \/ SaveStartFails("b"))
            \/ InService(SaveStart("s") \/ SaveStartFails("s"))
            \/ InRun(Run!Recover)
            \/ InStore(gone["p1"] /\ Store!Stop("p1")) \/ InServer(Server!HandOffReturns))
  /\ WF_all(\/ InPair(Supervise("b")) \/ InService(Supervise("s"))
            \/ InRun(Run!AcceptCommits))

MCSpec == MCInit /\ [][MCNext]_all /\ MCFairness

\* The output tail is one window of whole characters up to the newest byte, and a page
\* never skips one-byte characters without reporting a gap (append, snapshot, poll).
OutputExact == Tail!OutputExact

\* What was started comes to an end: an execution gives its lease back
\* (Service.process), and a background command or service is settled at the latest
\* after its deadline, extended or not (waitCommand, supervise).
Supervised == \E c \in DOMAIN mem : mem[c].phase \in {"new", "watch"}
WorkEnds ==
  /\ exec.pc # "idle" ~> exec.pc = "idle"
  /\ Supervised ~> ~Supervised

\* An Owner that lost its session stops serving (watchPGOwner, watchDatabaseOwner), and
\* one that stopped admission stops or says that it cannot (handoff route, release).
OwnerEnds == Store!LossEndsOwner("p1") /\ Server!HandoffEnds
=============================================================================
