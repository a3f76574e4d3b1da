----------------------------- MODULE ChatEvents -----------------------------
(* What clients learn about a conversation while the Owner works on it: the   *)
(* event log and the streams of chatui/server.go (onEvent, notify, events),   *)
(* attachEvents of attach.go, the snapshot of snapshot.go, and the terminal   *)
(* client of cmd/freeagent/chat_client.go that waits for the result of its    *)
(* own request.                                                               *)
(*                                                                            *)
(* One conversation with its executions, one after the other.  Observers do   *)
(* not change the server, so each behaviour has one of them.                  *)
EXTENDS Naturals, Sequences, FiniteSets

CONSTANTS
  MaxExecs,    \* bound: executions
  MaxTexts,    \* bound: events with model text
  MaxRestarts, \* bound: restarts of the Owner
  LogSize,     \* events kept for polling clients (256)
  Buffer       \* events buffered for a stream (32)

\* What the proofs assume of them.
EventsAssumption == LogSize \in Nat \ {0} /\ Buffer \in Nat

VARIABLES
  exec,      \* server.running of the conversation: execution, binding and step
  execs, tails,
  run,       \* the Run of the client's request: "none", "running" or "over"
  version,   \* what the Runs of the conversation have recorded
  generation, eventSeq, stateSeq,
  log,       \* server.eventLog: sequence numbers
  texts,
  observer,  \* which kind of client looks
  poll,      \* the polling client
  stream,    \* the streaming client
  snap       \* the client that loads a snapshot

server == <<exec, execs, tails, run, version, generation, eventSeq, stateSeq, log, texts>>
vars == <<server, observer, poll, stream, snap>>

NoExec == [id |-> 0, binding |-> "none", step |-> "none"]
NoPoll == [pc |-> "idle", gen |-> 0, base |-> 0, cursor |-> 0, got |-> {}]
NoStream == [open |-> FALSE, base |-> 0, queue |-> <<>>, got |-> {}]
NoSnap == [pc |-> "idle", exec |-> 0, seq |-> 0, view |-> 0, retry |-> 0, busy |-> FALSE]

Init ==
  /\ exec = NoExec /\ execs = 0 /\ tails = 0 /\ run = "none" /\ version = 0
  /\ generation = 1 /\ eventSeq = 0 /\ stateSeq = 0 /\ log = <<>> /\ texts = 0
  /\ observer \in {"poll", "stream", "snapshot"}
  /\ poll = NoPoll /\ stream = NoStream /\ snap = NoSnap

-----------------------------------------------------------------------------
(* The event log and the streams *)

Trimmed(s) == IF Len(s) > LogSize THEN SubSeq(s, Len(s) - LogSize + 1, Len(s)) ELSE s

\* broadcastLocked: a stream whose buffer is full is closed.
Broadcast(n) ==
  stream' = IF ~stream.open THEN stream
            ELSE IF Len(stream.queue) < Buffer THEN [stream EXCEPT !.queue = Append(@, n)]
            ELSE NoStream

\* onEvent, notify: number, log and broadcast in one critical section.
Event(text) ==
  /\ eventSeq' = eventSeq + 1
  /\ stateSeq' = IF text THEN stateSeq ELSE eventSeq'
  /\ log' = Trimmed(Append(log, eventSeq'))
  /\ Broadcast(eventSeq')

Quiet == UNCHANGED <<eventSeq, stateSeq, log, stream>>

-----------------------------------------------------------------------------
(* Executions of the conversation *)

\* reserveContext for the client's request, a queue or a channel.
Reserve(binding) ==
  /\ exec = NoExec /\ execs < MaxExecs
  /\ execs' = execs + 1
  /\ exec' = [id |-> execs + 1, binding |-> binding, step |-> "begun"]

\* advanceQueue binds the execution to the queue, DispatchChannel to nothing.
Dispatch ==
  /\ \E binding \in {"queue", "channel"} : Reserve(binding)
  /\ Quiet
  /\ UNCHANGED <<tails, run, version, generation, texts, observer, poll, snap>>

Step(from, to) == exec.step = from /\ exec' = [exec EXCEPT !.step = to]

\* The execution of the client's request.
Mine == exec.binding = "mine"

\* CreateRun, then the event of it.
CreateRun ==
  /\ Step("begun", "created") /\ Quiet
  /\ version' = version + 1 /\ run' = IF Mine THEN "running" ELSE run
  /\ UNCHANGED <<execs, tails, generation, texts, observer, poll, snap>>

TellCreated ==
  /\ Step("created", "running") /\ Event(FALSE)
  /\ UNCHANGED <<execs, tails, run, version, generation, texts, observer, poll, snap>>

ModelText ==
  /\ exec.step = "running" /\ texts < MaxTexts /\ texts' = texts + 1
  /\ Event(TRUE)
  /\ UNCHANGED <<exec, execs, tails, run, version, generation, observer, poll, snap>>

\* The Run ends or waits for a decision, then the event of it.
EndRun ==
  /\ Step("running", "ended") /\ Quiet
  /\ version' = version + 1 /\ run' = IF Mine THEN "over" ELSE run
  /\ UNCHANGED <<execs, tails, generation, texts, observer, poll, snap>>

TellEnded ==
  /\ Step("ended", "done") /\ Event(FALSE)
  /\ UNCHANGED <<execs, tails, run, version, generation, texts, observer, poll, snap>>

\* The task is refused before a Run exists: dispatchBoundContext notifies
\* EventRequestError and then releases.
Refused ==
  /\ Step("begun", "done") /\ Event(FALSE)
  /\ UNCHANGED <<execs, tails, run, version, generation, texts, observer, poll, snap>>

\* release: the slot first, the notification in a critical section of its own.
Release ==
  /\ exec.step = "done" /\ exec' = NoExec /\ tails' = tails + 1 /\ Quiet
  /\ UNCHANGED <<execs, run, version, generation, texts, observer, poll, snap>>

Notify ==
  /\ tails > 0 /\ tails' = tails - 1 /\ Event(FALSE)
  /\ UNCHANGED <<exec, execs, run, version, generation, texts, observer, poll, snap>>

\* Another Owner: a new generation counts from one again; recovery ends the Run.
Restart ==
  /\ generation <= MaxRestarts
  /\ generation' = generation + 1
  /\ exec' = NoExec /\ tails' = 0 /\ run' = IF run = "running" THEN "over" ELSE run
  /\ eventSeq' = 0 /\ stateSeq' = 0 /\ log' = <<>> /\ stream' = NoStream /\ snap' = NoSnap
  /\ UNCHANGED <<execs, version, texts, observer, poll>>

-----------------------------------------------------------------------------
(* The polling client: submits, follows the events, then reads the result *)

\* State: the client starts at the last event.
Attach ==
  /\ observer = "poll" /\ poll.pc = "idle"
  /\ poll' = [pc |-> "attached", gen |-> generation, base |-> eventSeq, cursor |-> eventSeq,
               got |-> {}]
  /\ UNCHANGED <<server, observer, stream, snap>>

\* Submit: the answer comes after the execution is reserved.
Submit ==
  /\ poll.pc = "attached" /\ poll.gen = generation
  /\ Reserve("mine")
  /\ poll' = [poll EXCEPT !.pc = "wait"]
  /\ UNCHANGED <<tails, run, version, generation, eventSeq, stateSeq, log, texts, observer, stream,
                 snap>>

\* Mutant: the oldest kept event may be one later.
ExpiredLate == log # <<>> /\ poll.cursor + 2 < Head(log)

\* attachEvents: events after the cursor were dropped from the log.
Expired == log # <<>> /\ poll.cursor + 1 < Head(log)

\* attachEvents: the client's generation is not this Owner's (nor is its secret).
Changed == poll.gen # generation

\* remoteChat.wait: nothing is executed, or something for another binding; an
\* execution without one may be the client's.
Inactive == exec = NoExec \/ exec.binding = "queue"

\* attachEvents: what it answers.
News == {log[i] : i \in {j \in DOMAIN log : log[j] > poll.cursor}}

\* remoteChat.events: events and activity of one critical section; after an
\* expired cursor the client starts again at the last event.
Follow ==
  /\ poll.pc \in {"wait", "read"}
  /\ poll' = IF Changed THEN [NoPoll EXCEPT !.pc = "changed"]
             ELSE LET next == IF poll.pc = "read" THEN "over"
                              ELSE IF Inactive THEN "inactive" ELSE "wait"
                  IN IF Expired
                     THEN [pc |-> next, gen |-> poll.gen, base |-> eventSeq, cursor |-> eventSeq,
                           got |-> {}]
                     ELSE [pc |-> next, gen |-> poll.gen, base |-> poll.base, cursor |-> eventSeq,
                           got |-> poll.got \cup News]
  /\ UNCHANGED <<server, observer, stream, snap>>

\* Status and Inspect: the client reports the Run, or that there is none.
ReadResult ==
  /\ poll.pc = "inactive"
  /\ poll' = IF Changed THEN [NoPoll EXCEPT !.pc = "changed"]
             ELSE [poll EXCEPT !.pc = IF run = "none" THEN "refused" ELSE "read"]
  /\ UNCHANGED <<server, observer, stream, snap>>

-----------------------------------------------------------------------------
(* The streaming client *)

\* events: the listener is registered.
Listen ==
  /\ observer = "stream" /\ ~stream.open
  /\ stream' = [open |-> TRUE, base |-> eventSeq, queue |-> <<>>, got |-> {}]
  /\ UNCHANGED <<server, observer, poll, snap>>

Receive ==
  /\ stream.queue # <<>>
  /\ stream' = [open |-> stream.open, base |-> stream.base, queue |-> Tail(stream.queue),
                 got |-> stream.got \cup {Head(stream.queue)}]
  /\ UNCHANGED <<server, observer, poll, snap>>

-----------------------------------------------------------------------------
(* The snapshot *)

\* readChatSnapshot: the slot and the sequence first ...
Mark ==
  /\ observer = "snapshot" /\ snap.pc \in {"idle", "sent", "again"}
  /\ snap' = [pc |-> "marked", exec |-> exec.id, seq |-> stateSeq, view |-> snap.view,
               retry |-> IF snap.pc = "again" THEN snap.retry ELSE 0, busy |-> FALSE]
  /\ UNCHANGED <<server, observer, poll, stream>>

\* ... then the view, in a transaction of its own ...
View ==
  /\ snap.pc = "marked"
  /\ snap' = [[snap EXCEPT !.view = version] EXCEPT !.pc = "viewed"]
  /\ UNCHANGED <<server, observer, poll, stream>>

\* Mutant: only the slot is compared.
SameSlot == snap.exec = exec.id

\* ... and the same slot and sequence again.
Stable == snap.exec = exec.id /\ snap.seq = stateSeq

\* Three tries; the last one says busy unless it was stable.
Send ==
  /\ snap.pc = "viewed"
  /\ snap' = IF ~Stable /\ snap.retry < 2
             THEN [[snap EXCEPT !.retry = snap.retry + 1] EXCEPT !.pc = "again"]
             ELSE [[snap EXCEPT !.busy = exec.id # 0 \/ ~Stable] EXCEPT !.pc = "sent"]
  /\ UNCHANGED <<server, observer, poll, stream>>

Next ==
  \/ Dispatch \/ CreateRun \/ TellCreated \/ ModelText \/ EndRun \/ TellEnded \/ Refused
  \/ Release \/ Notify \/ Restart
  \/ Attach \/ Submit \/ Follow \/ ReadResult
  \/ Listen \/ Receive
  \/ Mark \/ View \/ Send

Spec == Init /\ [][Next]_vars

-----------------------------------------------------------------------------
TypeOK ==
  /\ exec \in [id : Nat, binding : {"none", "mine", "queue", "channel"},
               step : {"none", "begun", "created", "running", "ended", "done"}]
  /\ execs \in Nat /\ tails \in Nat /\ version \in Nat /\ texts \in Nat
  /\ run \in {"none", "running", "over"}
  /\ generation \in Nat /\ eventSeq \in Nat /\ stateSeq \in Nat /\ log \in Seq(Nat)
  /\ observer \in {"poll", "stream", "snapshot"}
  /\ poll \in [pc : {"idle", "attached", "wait", "inactive", "read", "over", "refused", "changed"},
               gen : Nat, base : Nat, cursor : Nat, got : SUBSET Nat]
  /\ stream \in [open : BOOLEAN, base : Nat, queue : Seq(Nat), got : SUBSET Nat]
  /\ snap \in [pc : {"idle", "marked", "viewed", "again", "sent"}, exec : Nat, seq : Nat,
               view : Nat, retry : 0..2, busy : BOOLEAN]

\* A polling client has every event between where it started and its cursor,
\* also when the log was cut or the Owner changed; otherwise it was told to start
\* again (attachEvents, remoteChat.events).
NoSilentGap == poll.got = (poll.base + 1)..poll.cursor

\* A stream that is open has, received or buffered, every event since it was
\* opened (broadcastLocked).
StreamWhole ==
  stream.open => stream.got \cup {stream.queue[i] : i \in DOMAIN stream.queue}
                   = (stream.base + 1)..eventSeq

\* The result the terminal client reports is of a Run that is over, and it
\* reports that there is no Run only when there will be none (remoteChat.wait).
ResultIsFinal ==
  /\ poll.pc = "read" => run = "over"
  /\ poll.pc = "refused" => run = "none" /\ ~Mine

\* A snapshot that says a conversation is not busy shows all that its finished
\* executions recorded (readChatSnapshot: the view "must not be paired with a
\* later idle execution slot").
SentComplete ==
  snap.pc = "viewed" /\ snap'.pc = "sent" /\ ~snap'.busy => snap.view = version
IdleViewComplete == [][SentComplete]_vars

\* What clients were shown is whole: no event is missing, no result is early.
ViewsWhole == TypeOK /\ NoSilentGap /\ StreamWhole /\ ResultIsFinal
=============================================================================
