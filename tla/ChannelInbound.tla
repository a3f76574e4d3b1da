--------------------------- MODULE ChannelInbound ---------------------------
(***************************************************************************)
(* Inbound events of one Telegram connection: the transport that posts them *)
(* in order and moves its cursor (internal/channelplugin/telegram.go),      *)
(* ChannelBridge.Inbound and acceptInbound with their receipt row in        *)
(* fa.meta, channelSession.handle, and the work that an event starts        *)
(* (internal/harness/channel_*.go).                                         *)
(*                                                                         *)
(* A handler is a sequence of database statements; between two of them the  *)
(* work it started may finish, the grant may change, the request may be cut  *)
(* off and the Owner may die.                                              *)
(***************************************************************************)
EXTENDS Naturals, FiniteSets

CONSTANTS
  Scripts,      \* sequences of events: "request" (a text for the model), "command"
                \* (takes effect in the handler), "launch" (a command that is
                \* executed as a job), "approve" (a button) or "background"
  N,            \* length of the scripts
  MaxUpsets,    \* bound: failed statements, lost answers, changes of the grant
  MaxOwners     \* bound: generations of the Owner

\* What the proofs assume of them.
InboundAssumption ==
  /\ N \in Nat /\ MaxUpsets \in Nat /\ MaxOwners \in Nat \ {0}
  /\ Scripts \subseteq [1..N -> {"request", "command", "launch", "approve", "background"}]

VARIABLES
  script,    \* one of Scripts
  cursor,    \* the last event the transport has finished, on disk
  transport, \* "idle", "posting" or "acked"
  h,         \* the handler that holds inboundMu
  row,       \* channel/inbound/<connection>/<event>
  message,   \* events recorded in fa.messages
  input,     \* input[e]: fa.inputs, "none", "pending" or "target_ended"
  run,       \* run[e]: the Run with e's request key: "none", "active" or "ended"
  waiting,   \* the active Run awaits a confirmation
  job,       \* the execution that is reserved for the conversation
  flights,   \* channelConnection.flights
  busy,      \* a busy notice has been sent since the executor was last free
  access,    \* revision of the chat's grant; grants with an odd one are disabled
  gen,       \* generation of the Owner
  effects,   \* effects[e]: how often the command or button took effect
  mark,      \* mark[e]: whether e was "refused" without access, "passed" over by
             \* a busy executor or "readmitted" by a later Owner
  upsets

inboundVars == <<script, cursor, transport, h, row, message, input, run, waiting, job, flights,
            busy, access, gen, effects, mark, upsets>>

Events == 1..N
Control(e) == script[e] \in {"command", "launch", "approve"}

NoRow == [state |-> "none", gen |-> 0, started |-> FALSE, target |-> 0, rev |-> 0]
Free == [e |-> 0, pc |-> "free", row |-> NoRow, rev |-> 0]
NoJob == [e |-> 0, kind |-> "none", pc |-> "none", found |-> FALSE, ok |-> FALSE, seen |-> NoRow]

Granted == access % 2 = 0
ActiveRun == {e \in Events : run[e] = "active"}
Settled == {"accepted", "rejected", "interrupted", "target_ended"}

InboundTypeOK ==
  /\ script \in Scripts /\ cursor \in 0..N /\ transport \in {"idle", "posting", "acked"}
  /\ h.e \in 0..N /\ h.pc \in {"free", "admit", "receive", "act", "wait", "final"}
  /\ \A e \in Events :
       /\ row[e].state \in Settled \cup {"none", "pending", "scheduled"}
       /\ row[e].gen \in 0..gen /\ row[e].target \in 0..N
       /\ input[e] \in {"none", "pending", "target_ended"} /\ run[e] \in {"none", "active", "ended"}
       /\ effects[e] \in 0..1
  /\ message \subseteq Events /\ flights \subseteq Events /\ upsets \in 0..MaxUpsets
  /\ mark \in [Events -> SUBSET {"refused", "passed", "readmitted"}]
  /\ job.e \in 0..N /\ job.pc \in {"none", "called", "returned", "reading", "recorded"}
  /\ Cardinality(ActiveRun) <= 1 /\ gen \in 1..MaxOwners

InboundInit ==
  /\ script \in Scripts
  /\ cursor = 0 /\ transport = "idle" /\ h = Free
  /\ row = [e \in Events |-> NoRow]
  /\ message = {} /\ input = [e \in Events |-> "none"] /\ run = [e \in Events |-> "none"]
  /\ waiting = FALSE /\ job = NoJob /\ flights = {} /\ busy = FALSE
  /\ access = 0 /\ gen = 1 /\ effects = [e \in Events |-> 0]
  /\ mark = [e \in Events |-> {}] /\ upsets = 0

fixed == <<script, upsets>>
work == <<message, input, run, waiting, job, flights, busy, effects>>

----------------------------------------------------------------------------
(* The transport *)

Post ==
  /\ transport = "idle" /\ cursor < N
  /\ transport' = "posting"
  /\ UNCHANGED <<fixed, cursor, h, row, work, access, gen, mark>>

\* Only an acknowledgement lets the cursor move, and only once it is on disk
\* does the next event follow.
SaveCursor ==
  /\ transport = "acked"
  /\ cursor' = cursor + 1 /\ transport' = "idle"
  /\ UNCHANGED <<fixed, h, row, work, access, gen, mark>>

\* What the waiting transport is told when a handler is through.  Its request
\* may be gone: then the event is posted again.
Answer(ok) == /\ h' = Free
              /\ transport' = IF transport = "posting" THEN (IF ok THEN "acked" ELSE "idle")
                              ELSE transport

----------------------------------------------------------------------------
(* Inbound and acceptInbound *)

\* Without access nothing is recorded (a /start leads to a request for access).
Refuse ==
  /\ transport = "posting" /\ h = Free /\ ~Granted
  /\ transport' = "acked"
  /\ mark' = [mark EXCEPT ![cursor + 1] = @ \cup {"refused"}]
  /\ UNCHANGED <<fixed, cursor, h, row, work, access, gen>>

Lookup ==
  LET e == cursor + 1
      old == row[e]
      open == old.state = "pending" \/ (old.state = "scheduled" /\ old.gen # gen)
      enter(r) == /\ row' = [row EXCEPT ![e] = r]
                  /\ h' = [e |-> e, pc |-> "admit", row |-> r, rev |-> access]
                  /\ UNCHANGED transport
      answer(r, ok) == /\ row' = [row EXCEPT ![e] = r] /\ h' = Free
                       /\ transport' = IF ok THEN "acked" ELSE "idle"
  IN
  /\ transport = "posting" /\ h = Free /\ Granted
  /\ IF old.state = "none"
     THEN enter([state |-> "pending", gen |-> gen, started |-> FALSE, rev |-> access,
                 target |-> IF ActiveRun = {} THEN 0 ELSE CHOOSE t \in ActiveRun : TRUE])
     ELSE IF ~open THEN answer(old, TRUE)
     ELSE IF run[e] # "none" THEN answer([old EXCEPT !.state = "accepted"], TRUE)
     ELSE IF old.started /\ old.gen = gen THEN answer(old, FALSE)
     ELSE IF old.started THEN answer([old EXCEPT !.state = "interrupted"], TRUE)
     ELSE enter(old)
  /\ mark' = IF old.gen \notin {0, gen} /\ h'.pc = "admit"
             THEN [mark EXCEPT ![e] = @ \cup {"readmitted"}] ELSE mark
  /\ UNCHANGED <<fixed, cursor, work, access, gen>>

\* A control is marked as started before anything is done for it.  An event
\* that came under another revision of the grant is rejected.
Admit ==
  LET r == IF Control(h.e) THEN [h.row EXCEPT !.started = TRUE] ELSE h.row IN
  /\ h.pc = "admit"
  /\ IF r.rev # h.rev
     THEN row' = [row EXCEPT ![h.e] = [r EXCEPT !.state = "rejected"]] /\ Answer(TRUE)
     ELSE /\ row' = [row EXCEPT ![h.e] = IF Control(h.e) THEN r ELSE @]
          /\ h' = [h EXCEPT !.row = r,
                            !.pc = IF h.e \in flights THEN "wait"
                                   ELSE IF script[h.e] = "approve" THEN "act" ELSE "receive"]
          /\ UNCHANGED transport
  /\ UNCHANGED <<fixed, cursor, work, access, gen, mark>>

\* How handle ends, and what acceptInbound makes of it: a request must show in
\* the database before it is acknowledged.
Rejected == h' = [h EXCEPT !.row.state = "rejected", !.pc = "final"]
Handled == h' = IF script[h.e] = "request" THEN [h EXCEPT !.pc = "wait"]
                ELSE [h EXCEPT !.row.state = "accepted", !.pc = "final"]

\* ReceiveChannelText records a message once.  A request that was recorded
\* but led to no Run is taken up again; a control is not.
Receive ==
  LET e == h.e IN
  /\ h.pc = "receive"
  /\ IF ~Granted THEN Rejected /\ UNCHANGED message
     ELSE /\ message' = message \cup {e}
          /\ IF script[e] = "background" \/ (e \in message /\ (Control(e) \/ run[e] # "none"))
             THEN Handled ELSE h' = [h EXCEPT !.pc = "act"]
  /\ UNCHANGED <<fixed, cursor, transport, row, input, run, waiting, job, flights, busy,
                 access, gen, effects, mark>>

\* DispatchChannel: one execution of a conversation at a time, and a slot must
\* be free; other entries of the Owner may hold either.
Dispatch(e, kind) ==
  /\ job = NoJob
  /\ job' = [NoJob EXCEPT !.e = e, !.kind = kind, !.pc = "called"]
  /\ flights' = flights \cup {e}

acting == <<fixed, cursor, transport, row, message, access, gen>>

ActCommand ==
  /\ h.pc = "act" /\ script[h.e] = "command"
  /\ effects' = [effects EXCEPT ![h.e] = @ + 1]
  /\ Handled
  /\ UNCHANGED <<acting, input, run, waiting, job, flights, busy, mark>>

\* launch.  The first one that finds the executor busy is told so; a later one
\* is passed over, and counts as handled.
ActLaunch ==
  /\ h.pc = "act" /\ script[h.e] = "launch"
  /\ \/ Dispatch(h.e, "launch") /\ Handled /\ UNCHANGED <<busy, mark>>
     \/ ~busy /\ busy' = TRUE /\ Rejected /\ UNCHANGED <<job, flights, mark>>
     \/ busy /\ Handled /\ mark' = [mark EXCEPT ![h.e] = @ \cup {"passed"}] /\ UNCHANGED <<busy, job, flights>>
  /\ UNCHANGED <<acting, input, run, waiting, effects>>

\* callback.  The token survives in the database; what ends it is that the
\* Run no longer waits for this confirmation.
ActApprove ==
  /\ h.pc = "act" /\ script[h.e] = "approve"
  /\ \/ waiting /\ Granted /\ Dispatch(h.e, "approve") /\ Handled
     \/ Rejected /\ UNCHANGED <<job, flights>>
  /\ UNCHANGED <<acting, input, run, waiting, busy, effects, mark>>

\* launchInput: the target was fixed when the event first came in.
ActRequest ==
  LET e == h.e
      t == h.row.target IN
  /\ h.pc = "act" /\ script[e] = "request"
  /\ \/ /\ t = 0
        /\ \/ Dispatch(e, "submit") /\ Handled
           \/ Rejected /\ UNCHANGED <<job, flights>>
        /\ UNCHANGED input
     \/ \* the Run of another member
        t # 0 /\ Rejected /\ UNCHANGED <<input, job, flights>>
     \/ /\ t # 0
        /\ input' = [input EXCEPT ![e] = IF @ # "none" THEN @
                                         ELSE IF run[t] = "active" THEN "pending" ELSE "target_ended"]
        /\ \/ run[t] = "active" /\ waiting /\ Dispatch(e, "launch") /\ Handled
           \/ run[t] = "active" /\ waiting /\ Rejected /\ UNCHANGED <<job, flights>>
           \/ ~(run[t] = "active" /\ waiting) /\ Handled /\ UNCHANGED <<job, flights>>
  /\ UNCHANGED <<acting, run, waiting, busy, effects, mark>>

\* Up to three seconds for the Run or the input to appear; a control that is
\* still in flight is answered at once.
WaitVolatile ==
  /\ h.pc = "wait"
  /\ h' = [h EXCEPT !.pc = "final", !.row.state = "accepted"]
  /\ UNCHANGED <<fixed, cursor, transport, row, work, access, gen, mark>>

Wait ==
  LET e == h.e IN
  /\ h.pc = "wait"
  /\ \/ Control(e) /\ h' = [h EXCEPT !.pc = "final", !.row.state = "accepted"]
     \/ ~Control(e) /\ run[e] # "none" /\ h' = [h EXCEPT !.pc = "final", !.row.state = "accepted"]
     \/ /\ ~Control(e) /\ run[e] = "none" /\ input[e] # "none"
        /\ h' = [h EXCEPT !.pc = "final",
                          !.row.state = IF input[e] = "pending" THEN "accepted" ELSE input[e]]
  /\ UNCHANGED <<fixed, cursor, transport, row, work, access, gen, mark>>

WaitExpires ==
  /\ h.pc = "wait" /\ ~Control(h.e) /\ run[h.e] = "none" /\ input[h.e] = "none"
  /\ Answer(FALSE)
  /\ UNCHANGED <<fixed, cursor, row, work, access, gen, mark>>

\* A control with a job in flight is scheduled.  The row is written only while
\* it is open, for its job may have completed it.
SaveReceipt ==
  LET e == h.e
      r == IF Control(e) /\ h.row.state = "accepted" /\ e \in flights
           THEN [h.row EXCEPT !.state = "scheduled"] ELSE h.row
  IN
  /\ h.pc = "final"
  /\ row' = [row EXCEPT ![e] = IF @.state \in {"pending", "scheduled"} THEN r ELSE @]
  /\ Answer(TRUE)
  /\ UNCHANGED <<fixed, cursor, work, access, gen, mark>>

----------------------------------------------------------------------------
(* The work an event starts *)

\* The job's call.  A submission creates its Run (idempotent by its key) if the
\* grant is still the one of the message and no other Run is active; it ends, or
\* comes to wait for a confirmation.
JobRuns ==
  /\ job.pc = "called"
  /\ \/ /\ job.kind = "submit" /\ ActiveRun = {} /\ Granted /\ run[job.e] = "none"
        /\ run' = [run EXCEPT ![job.e] = "active"]
        /\ job' = [job EXCEPT !.found = TRUE, !.ok = TRUE]
        /\ UNCHANGED <<waiting, effects>>
     \/ /\ job.kind = "submit" /\ run[job.e] = "active" /\ ~waiting
        /\ \/ run' = [run EXCEPT ![job.e] = "ended"] /\ UNCHANGED waiting
           \/ waiting' = TRUE /\ UNCHANGED run
        /\ job' = [job EXCEPT !.pc = "returned"] /\ UNCHANGED effects
     \/ /\ job.kind = "launch"
        /\ effects' = [effects EXCEPT ![job.e] = IF Control(job.e) THEN @ + 1 ELSE @]
        /\ job' = [job EXCEPT !.pc = "returned", !.ok = TRUE] /\ UNCHANGED <<run, waiting>>
     \/ /\ job.kind = "approve" /\ waiting /\ Granted
        /\ waiting' = FALSE /\ effects' = [effects EXCEPT ![job.e] = @ + 1]
        /\ run' = [e \in Events |-> IF run[e] = "active" THEN "ended" ELSE run[e]]
        /\ job' = [job EXCEPT !.pc = "returned", !.ok = TRUE, !.found = TRUE]
     \/ \* it fails before it does anything
        /\ ~job.found /\ job' = [job EXCEPT !.pc = "returned"] /\ UNCHANGED <<run, waiting, effects>>
  /\ UNCHANGED <<fixed, cursor, transport, h, row, message, input, flights, busy, access, gen, mark>>

\* completeInbound reads the row and compares it when it writes.
CompleteReads ==
  /\ job.pc = "returned"
  /\ job' = [job EXCEPT !.pc = "reading", !.seen = row[job.e]]
  /\ UNCHANGED <<fixed, cursor, transport, h, row, message, input, run, waiting, flights,
                 busy, access, gen, effects, mark>>

Completed(r) == [r EXCEPT !.state = IF job.ok THEN "accepted" ELSE "rejected"]

CompleteWrites ==
  /\ job.pc = "reading"
  /\ job' = [job EXCEPT !.pc = "recorded"]
  /\ row' = [row EXCEPT ![job.e] = IF job.seen.gen = gen /\ @ = job.seen THEN Completed(@) ELSE @]
  /\ UNCHANGED <<fixed, cursor, transport, h, message, input, run, waiting, flights, busy,
                 access, gen, effects, mark>>

\* The deferred delete, and the release of the executor.
JobEnds ==
  /\ job.pc = "recorded"
  /\ flights' = flights \ {job.e} /\ job' = NoJob /\ busy' = FALSE
  /\ UNCHANGED <<fixed, cursor, transport, h, row, message, input, run, waiting, access, gen,
                 effects, mark>>

RecoverRejectsOnly ==
  LET old == {e \in Events : row[e].state = "scheduled" /\ row[e].gen # gen /\ row[e].rev # access} IN
  /\ h = Free /\ old # {}
  /\ row' = [e \in Events |-> IF e \in old THEN [row[e] EXCEPT !.state = "rejected"] ELSE row[e]]
  /\ UNCHANGED <<fixed, cursor, transport, h, work, access, gen, mark>>

\* recoverInboundNotices, polled with the outbox: TryLock, then every control
\* that another Owner had scheduled is reported.
RecoverInboundNotices ==
  LET old == {e \in Events : row[e].state = "scheduled" /\ row[e].gen # gen} IN
  /\ h = Free /\ old # {}
  /\ row' = [e \in Events |-> IF e \notin old THEN row[e]
                              ELSE [row[e] EXCEPT !.state = IF Granted /\ row[e].rev = access
                                                            THEN "interrupted" ELSE "rejected"]]
  /\ UNCHANGED <<fixed, cursor, transport, h, work, access, gen, mark>>

----------------------------------------------------------------------------
(* Faults *)

Upset == upsets < MaxUpsets /\ upsets' = upsets + 1

\* A statement fails, or the request is cut off: the handler returns what it
\* has not written yet, and the event is posted again.
HandlerFails ==
  /\ h # Free /\ Upset /\ Answer(FALSE)
  /\ UNCHANGED <<script, cursor, row, work, access, gen, mark>>

AnswerLost ==
  /\ transport = "acked" /\ Upset /\ transport' = "idle"
  /\ UNCHANGED <<script, cursor, h, row, work, access, gen, mark>>

\* The plugin dies and is started again; a handler of its last request goes on.
PluginRestarts ==
  /\ transport # "idle" /\ h # Free /\ Upset /\ transport' = "idle"
  /\ UNCHANGED <<script, cursor, h, row, work, access, gen, mark>>

\* applyTelegramAccess cancels what runs in the chat.
AccessChanges ==
  /\ Upset /\ access' = access + 1
  /\ UNCHANGED <<script, cursor, transport, h, row, work, gen, mark>>

\* A Run that nobody executes is continued or abandoned from elsewhere.
RunSettledElsewhere ==
  /\ job = NoJob /\ ActiveRun # {} /\ Upset
  /\ run' = [e \in Events |-> IF run[e] = "active" THEN "ended" ELSE run[e]]
  /\ waiting' = FALSE
  /\ UNCHANGED <<script, cursor, transport, h, row, message, input, job, flights, busy, access,
                 gen, effects, mark>>

\* A new generation: handler, jobs and flights are gone, the transport of the
\* old one is refused and starts again.
NewOwner ==
  /\ gen < MaxOwners /\ gen' = gen + 1
  /\ h' = Free /\ job' = NoJob /\ flights' = {} /\ busy' = FALSE /\ transport' = "idle"
  /\ UNCHANGED <<fixed, cursor, row, message, input, run, waiting, access, effects, mark>>

Handler == Lookup \/ Refuse \/ Admit \/ Receive \/ ActCommand \/ ActLaunch \/ ActApprove
           \/ ActRequest \/ Wait \/ WaitExpires \/ SaveReceipt
Serve == Post \/ SaveCursor \/ Handler
Job == JobRuns \/ CompleteReads \/ CompleteWrites \/ JobEnds

InboundNext == \/ Serve \/ Job \/ RecoverInboundNotices
        \/ HandlerFails \/ AnswerLost \/ PluginRestarts \/ AccessChanges
        \/ RunSettledElsewhere \/ NewOwner

InboundSpec == InboundInit /\ [][InboundNext]_inboundVars

----------------------------------------------------------------------------
(* Properties *)

\* What the cursor has passed is settled or scheduled in the database, or came
\* without access: no crash, retry or lost answer skips an event.
AckedIsKept ==
  \A e \in Events : (e <= cursor \/ (e = cursor + 1 /\ transport = "acked")) =>
    row[e].state \in Settled \cup {"scheduled"} \/ "refused" \in mark[e]

\* A request is accepted only on the strength of a Run or an input that
\* survives the Owner, never on that of a goroutine.
AcceptedRequestIsDurable ==
  \A e \in Events : script[e] = "request" /\ row[e].state = "accepted" =>
    run[e] # "none" \/ input[e] = "pending"

\* A control that is accepted has taken effect, once, although it is never
\* repeated after an interruption.
AcceptedControlIsDone ==
  \A e \in Events : Control(e) /\ row[e].state = "accepted" =>
    effects[e] = 1 \/ mark[e] \cap {"passed", "readmitted"} # {}

\* A control that was begun in vain by this Owner: it is refused until a restart.
Stuck(e) == row[e].state = "pending" /\ row[e].started /\ row[e].gen = gen

\* What the channel was told is accepted is kept: acknowledged events are settled
\* or scheduled, accepted requests survive the Owner, accepted controls are done.
AcceptedIsKept == InboundTypeOK /\ AckedIsKept /\ AcceptedRequestIsDurable /\ AcceptedControlIsDone
=============================================================================
