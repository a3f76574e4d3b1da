----------------------------- MODULE InputQueue -----------------------------
(***************************************************************************)
(* The input queue of one conversation (internal/harness/input_queue.go    *)
(* and the adoption in Store.createRunWithTool).                           *)
(*                                                                         *)
(* Every input is a row of fa.meta that each operation reads, changes in   *)
(* memory and writes back whole.  inputMu serialises accepting, cancelling,*)
(* re-targeting and adopting as steering; a Run that consumes a queued     *)
(* input is created under attachmentMu and the conversation's row lock     *)
(* instead.  The two families share no lock, so the read and the write of  *)
(* CancelInput and SteerInput are separate steps here, and so are those of *)
(* createRun.                                                              *)
(***************************************************************************)
EXTENDS Naturals, FiniteSets

CONSTANTS
  Dispatchers,  \* callers of RunQueued: the chat server, the channel runtime
  Nobody,       \* no dispatcher
  MaxInputs,    \* bound: inputs ever accepted
  MaxRuns,      \* bound: Runs of the conversation
  MaxPending,   \* pending inputs per conversation (20 in the code)
  MaxDirect,    \* bound: Runs that are submitted directly
  MaxCrashes    \* bound: crashes of the Owner

ASSUME QueueAssumption ==
  /\ Nobody \notin Dispatchers
  /\ MaxInputs \in Nat /\ MaxRuns \in Nat /\ MaxPending \in Nat
  /\ MaxDirect \in Nat /\ MaxCrashes \in Nat

VARIABLES
  input,   \* input[k]: the row of the k-th accepted input, in order of message id
  moved,   \* moved[k]: fa.messages.run_id of its message, 0 when NULL
  run,     \* run[r]: status and request key of a Run
  paused,  \* input-paused/<conversation>
  resumed, \* history: the user has resumed the queue since a Run last stopped
  edit,    \* the CancelInput or SteerInput that holds inputMu
  disp,    \* the dispatchers
  lease,   \* the conversation's execution lease
  started, \* StartInputQueues has looked at this conversation
  crashes

vars == <<input, moved, run, paused, resumed, edit, disp, lease, started, crashes>>
queue == <<paused, resumed>>
owner == <<started, crashes>>

Inputs == 1..MaxInputs
Runs == 1..MaxRuns

\* "held" is an active Run that nobody executes (stopped, waiting_confirmation,
\* unknown, limited), "failed" one that ended without completing.
RunRecord == [status : {"none", "running", "completed", "failed", "held"}, key : 0..MaxInputs]

InputRecord ==
  [action : {"queue", "steer"}, status : {"none", "pending", "adopted", "cancelled", "target_ended"},
   target : 0..MaxRuns, run : 0..MaxRuns]

NoInput == [action |-> "queue", status |-> "none", target |-> 0, run |-> 0]

\* read: the row as the transaction loaded it.
EditRecord == [op : {"none", "cancel", "steer"}, key : 0..MaxInputs, target : 0..MaxRuns,
               read : InputRecord]
NoEdit == [op |-> "none", key |-> 0, target |-> 0, read |-> NoInput]

DispRecord == [pc : {"idle", "picked", "open", "running", "returned"}, key : 0..MaxInputs,
               run : 0..MaxRuns, read : InputRecord]
IdleDisp == [pc |-> "idle", key |-> 0, run |-> 0, read |-> NoInput]

Init ==
  /\ input = [k \in Inputs |-> NoInput]
  /\ moved = [k \in Inputs |-> 0]
  /\ run = [r \in Runs |-> [status |-> "none", key |-> 0]]
  /\ paused = FALSE
  /\ resumed = FALSE
  /\ edit = NoEdit
  /\ disp = [d \in Dispatchers |-> IdleDisp]
  /\ lease = Nobody
  /\ started = TRUE
  /\ crashes = 0

----------------------------------------------------------------------------
Pending == {k \in Inputs : input[k].status = "pending"}
Queued == {k \in Pending : input[k].action = "queue"}
SteersFor(r) == {k \in Pending : input[k].action = "steer" /\ input[k].target = r}

\* ORDER BY message_id LIMIT 1.
First(S, k) == k \in S /\ \A j \in S : k <= j

NewRun(r) == run[r].status = "none" /\ \A q \in Runs : q < r => run[q].status # "none"
NewInput(k) == input[k] = NoInput /\ \A j \in Inputs : j < k => input[j] # NoInput
Active(r) == run[r].status \in {"running", "held"}
Ended(r) == run[r].status \in {"completed", "failed"}
Latest(r) == /\ run[r].status # "none"
             /\ \A q \in Runs : q > r => run[q].status = "none"
Creating == \E d \in Dispatchers : disp[d].pc = "open"

----------------------------------------------------------------------------
(* acceptInput: under inputMu and attachmentMu *)

AcceptOneMore(k, action, target) ==
  /\ edit = NoEdit /\ ~Creating /\ NewInput(k)
  /\ action = "steer" => run[target].status # "none"
  /\ Cardinality(Pending) <= MaxPending
  /\ input' = [input EXCEPT ![k] =
                 [NoInput EXCEPT !.action = action, !.target = target, !.status = "pending"]]
  /\ UNCHANGED <<moved, run, queue, edit, disp, lease, owner>>

\* At most MaxPending wait; steering for a Run that has ended is kept, marked.
Accept(k, action, target) ==
  /\ edit = NoEdit /\ ~Creating /\ NewInput(k)
  /\ action = "steer" => run[target].status # "none"
  /\ Cardinality(Pending) < MaxPending
  /\ input' = [input EXCEPT ![k] =
                 [NoInput EXCEPT !.action = action, !.target = target,
                    !.status = IF action = "steer" /\ Ended(target)
                               THEN "target_ended" ELSE "pending"]]
  /\ UNCHANGED <<moved, run, queue, edit, disp, lease, owner>>

----------------------------------------------------------------------------
(* CancelInput and SteerInput: under inputMu; the row is read, then written *)

CancelReads(k) ==
  /\ edit = NoEdit /\ input[k].status = "pending"
  /\ edit' = [op |-> "cancel", key |-> k, target |-> 0, read |-> input[k]]
  /\ UNCHANGED <<input, moved, run, queue, disp, lease, owner>>

CancelCommits ==
  /\ edit.op = "cancel"
  /\ input' = [input EXCEPT ![edit.key] = [edit.read EXCEPT !.status = "cancelled"]]
  /\ edit' = NoEdit
  /\ UNCHANGED <<moved, run, queue, disp, lease, owner>>

\* Only a queued input and a Run that is running when it is read.
SteerReads(k, r) ==
  /\ edit = NoEdit
  /\ k \in Queued /\ run[r].status = "running"
  /\ edit' = [op |-> "steer", key |-> k, target |-> r, read |-> input[k]]
  /\ UNCHANGED <<input, moved, run, queue, disp, lease, owner>>

SteerCommits ==
  /\ edit.op = "steer"
  /\ input' = [input EXCEPT ![edit.key] =
                 [edit.read EXCEPT !.action = "steer", !.target = edit.target]]
  /\ edit' = NoEdit
  /\ UNCHANGED <<moved, run, queue, disp, lease, owner>>

\* PauseQueue: one statement, no lock.
Pause ==
  /\ ~paused
  /\ paused' = TRUE
  /\ UNCHANGED <<input, moved, run, resumed, edit, disp, lease, owner>>

Resume ==
  /\ paused
  /\ paused' = FALSE
  /\ resumed' = TRUE
  /\ UNCHANGED <<input, moved, run, edit, disp, lease, owner>>

----------------------------------------------------------------------------
(* RunQueued, then submitWithOptions under the lease *)

\* The first queued input, read without a lock.
Pick(d, k) ==
  /\ disp[d].pc = "idle" /\ ~paused
  /\ First(Queued, k)
  /\ run[MaxRuns].status = "none"
  /\ disp' = [disp EXCEPT ![d] = [IdleDisp EXCEPT !.pc = "picked", !.key = k]]
  /\ UNCHANGED <<input, moved, run, queue, edit, lease, owner>>

\* validateQueuedInput finds changed settings or revoked authority: the queue is
\* paused.
PickInvalid(d) ==
  /\ disp[d].pc = "idle" /\ ~paused /\ Queued # {}
  /\ paused' = TRUE
  /\ UNCHANGED <<input, moved, run, resumed, edit, disp, lease, owner>>

\* What createRunWithTool checks again in its transaction: no Run with this key,
\* no active Run, a pending queued input that is still the first, and a message that
\* moveInputMessage finds unattached (only the lease holder attaches messages, so it
\* stays so until the commit).
MayCreate(k) ==
  /\ \A r \in Runs : ~Active(r) /\ run[r].key # k
  /\ First(Queued, k)
  /\ ~paused
  /\ moved[k] = 0

\* execute takes the lease; createRun loads the input.
CreateReads(d) ==
  /\ disp[d].pc = "picked" /\ lease = Nobody
  /\ MayCreate(disp[d].key)
  /\ disp' = [disp EXCEPT ![d] = [disp[d] EXCEPT !.pc = "open", !.read = input[disp[d].key]]]
  /\ lease' = d
  /\ UNCHANGED <<input, moved, run, queue, edit, owner>>

\* acquireConversation fails: nothing happens, the next release tries again.
CreateBusy(d) ==
  /\ disp[d].pc = "picked" /\ lease # Nobody
  /\ disp' = [disp EXCEPT ![d] = IdleDisp]
  /\ UNCHANGED <<input, moved, run, queue, edit, lease, owner>>

\* A check fails under the lease, so execute pauses the queue; a request that is a
\* Run already returns that Run, which pauses it unless the Run has completed.
CreateRefused(d) ==
  /\ disp[d].pc = "picked" /\ lease = Nobody
  /\ LET same == {r \in Runs : run[r].key = disp[d].key}
     IN  paused' = (paused \/ same = {} \/ \E r \in same : run[r].status # "completed")
  /\ disp' = [disp EXCEPT ![d] = IdleDisp]
  /\ UNCHANGED <<input, moved, run, resumed, edit, lease, owner>>

\* The commit: the Run, the message moved into it and the row written back.
CreateCommits(d, r) ==
  /\ disp[d].pc = "open" /\ NewRun(r)
  /\ LET k == disp[d].key
     IN  /\ run' = [run EXCEPT ![r] = [status |-> "running", key |-> k]]
         /\ moved' = [moved EXCEPT ![k] = r]
         /\ input' = [input EXCEPT ![k] = [disp[d].read EXCEPT !.status = "adopted", !.run = r]]
  /\ disp' = [disp EXCEPT ![d] = [disp[d] EXCEPT !.pc = "running", !.run = r]]
  /\ UNCHANGED <<queue, edit, lease, owner>>

\* A request that is not queued: createRun without InputRequestID ignores the queue.
SubmitDirect(d, r) ==
  /\ disp[d].pc = "idle" /\ lease = Nobody /\ NewRun(r)
  /\ \A q \in Runs : ~Active(q)
  /\ Cardinality({q \in Runs : run[q].status # "none" /\ run[q].key = 0}) < MaxDirect
  /\ run' = [run EXCEPT ![r].status = "running"]
  /\ disp' = [disp EXCEPT ![d] = [IdleDisp EXCEPT !.pc = "running", !.run = r]]
  /\ lease' = d
  /\ UNCHANGED <<input, moved, queue, edit, owner>>

\* Continue and Confirm of a Run that stopped.
Continue(d, r) ==
  /\ disp[d].pc = "idle" /\ lease = Nobody
  /\ run[r].status = "held"
  /\ run' = [run EXCEPT ![r].status = "running"]
  /\ disp' = [disp EXCEPT ![d] = [IdleDisp EXCEPT !.pc = "running", !.run = r]]
  /\ lease' = d
  /\ UNCHANGED <<input, moved, queue, edit, owner>>

\* adoptSteering at the head of the loop of process, under inputMu.
AdoptSteering(d) ==
  /\ disp[d].pc = "running" /\ edit = NoEdit
  /\ SteersFor(disp[d].run) # {}
  /\ \A k \in SteersFor(disp[d].run) : moved[k] = 0
  /\ input' = [k \in Inputs |-> IF k \in SteersFor(disp[d].run)
                                THEN [input[k] EXCEPT !.status = "adopted", !.run = disp[d].run]
                                ELSE input[k]]
  /\ moved' = [k \in Inputs |-> IF k \in SteersFor(disp[d].run) THEN disp[d].run ELSE moved[k]]
  /\ UNCHANGED <<run, queue, edit, disp, lease, owner>>

\* The Run ends or stops; saveGuardedModel does not complete a Run with steering
\* pending.
RunEnds(d, s) ==
  /\ disp[d].pc = "running"
  /\ s = "completed" => SteersFor(disp[d].run) = {}
  /\ run' = [run EXCEPT ![disp[d].run].status = s]
  /\ resumed' = FALSE
  /\ disp' = [disp EXCEPT ![d].pc = "returned"]
  /\ UNCHANGED <<input, moved, paused, edit, lease, owner>>

ReturnUnpaused(d) ==
  /\ disp[d].pc = "returned"
  /\ disp' = [disp EXCEPT ![d] = IdleDisp]
  /\ lease' = Nobody
  /\ UNCHANGED <<input, moved, run, queue, edit, owner>>

\* The end of execute: a Run that did not complete pauses the queue, then the lease
\* is released.
Return(d) ==
  /\ disp[d].pc = "returned"
  /\ paused' = (paused \/ run[disp[d].run].status # "completed")
  /\ disp' = [disp EXCEPT ![d] = IdleDisp]
  /\ lease' = Nobody
  /\ UNCHANGED <<input, moved, run, resumed, edit, owner>>

----------------------------------------------------------------------------
(* Abandonment, crash and start *)

\* Abandon takes the exclusive boundary, so nobody holds the lease.
Abandon(r) ==
  /\ lease = Nobody /\ run[r].status = "held"
  /\ run' = [run EXCEPT ![r].status = "failed"]
  /\ UNCHANGED <<input, moved, queue, edit, disp, lease, owner>>

\* The Owner dies and another one recovers the store: a running Run is stopped.
Crash ==
  /\ crashes < MaxCrashes
  /\ crashes' = crashes + 1
  /\ run' = [r \in Runs |-> IF run[r].status = "running"
                            THEN [run[r] EXCEPT !.status = "held"] ELSE run[r]]
  /\ edit' = NoEdit
  /\ disp' = [d \in Dispatchers |-> IdleDisp]
  /\ lease' = Nobody
  /\ started' = FALSE
  /\ UNCHANGED <<input, moved, queue>>

\* StartInputQueues, after the channels are connected: a queue behind a Run that did
\* not complete is paused.
Start ==
  /\ ~started
  /\ started' = TRUE
  /\ paused' = (paused \/ (Queued # {} /\ \E r \in Runs : Latest(r) /\ run[r].status # "completed"))
  /\ UNCHANGED <<input, moved, run, resumed, edit, disp, lease, crashes>>

----------------------------------------------------------------------------
DispStep(d) ==
  \/ \E k \in Inputs : Pick(d, k)
  \/ PickInvalid(d)
  \/ CreateReads(d) \/ CreateBusy(d) \/ CreateRefused(d)
  \/ \E r \in Runs : CreateCommits(d, r) \/ SubmitDirect(d, r) \/ Continue(d, r)
  \/ AdoptSteering(d)
  \/ \E s \in {"completed", "failed", "held"} : RunEnds(d, s)
  \/ Return(d)

UserStep ==
  \/ \E k \in Inputs : Accept(k, "queue", 0)
  \/ \E k \in Inputs, r \in Runs : Accept(k, "steer", r)
  \/ \E k \in Inputs : CancelReads(k)
  \/ \E k \in Inputs, r \in Runs : SteerReads(k, r)
  \/ CancelCommits \/ SteerCommits
  \/ Pause \/ Resume
  \/ \E r \in Runs : Abandon(r)

Next == (\E d \in Dispatchers : DispStep(d)) \/ UserStep \/ Crash \/ Start

Spec == Init /\ [][Next]_vars

----------------------------------------------------------------------------
\* Type correctness.
TypeOK ==
  /\ input \in [Inputs -> InputRecord]
  /\ moved \in [Inputs -> 0..MaxRuns]
  /\ run \in [Runs -> RunRecord]
  /\ paused \in BOOLEAN /\ resumed \in BOOLEAN /\ started \in BOOLEAN
  /\ edit \in EditRecord
  /\ disp \in [Dispatchers -> DispRecord]
  /\ lease \in Dispatchers \cup {Nobody}
  /\ crashes \in 0..MaxCrashes

\* An input is executed once: no two Runs have its request key, and its message
\* never moves from one Run to another, although two dispatchers may pick the same
\* input and a stale SteerInput may write an adopted row back as pending.
ExecutedOnce ==
  /\ \A q, r \in Runs : run[q].key # 0 /\ run[q].key = run[r].key => q = r
  /\ \A r \in Runs : run[r].key # 0 => moved[run[r].key] = r

\* Queued inputs are executed in the order in which they were accepted: a later
\* one starts no Run while an earlier one is waiting.
InOrder ==
  \A k \in Inputs :
    (\E r \in Runs : run[r].key # k /\ run'[r].key = k) => \A j \in Queued : j >= k

\* The queue advances by itself only past a completed Run: after a Run that stopped,
\* failed or waits (docs/CONTEXT_AND_CONTINUOUS_EXECUTION.md) no queued input starts
\* until the user resumes the queue, whoever dispatches it and whenever.  A crash
\* between the end of a Run and the pause is the exception.
StopsOnFailure ==
  crashes = 0 /\ (\E r \in Runs : run[r].status = "none" /\ run'[r].key # 0) =>
    resumed \/ \A r \in Runs : Latest(r) => run[r].status = "completed"

\* The cap on pending inputs holds although it is counted under a lock that the
\* consumer does not take.
PendingBounded == Cardinality(Pending) <= MaxPending

\* The queue is exact: an input is executed once and the cap on waiting inputs holds.
QueueExact == TypeOK /\ ExecutedOnce /\ PendingBounded

\* The queue is orderly: it advances in order, and by itself only past a completed Run.
QueueOrderly == [][InOrder /\ StopsOnFailure]_vars
=============================================================================
