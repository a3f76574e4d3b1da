--------------------------- MODULE ExecutionGate ---------------------------
(***************************************************************************)
(* The in-process gates of one Owner (internal/harness/execution_gate.go   *)
(* and the controlDecisionGate of control.go).                             *)
(*                                                                         *)
(*   executionGate       one lease per conversation ("execution" consumes  *)
(*                       a foreground slot, "edit" is a short change) and  *)
(*                       one exclusive boundary for settings, backups and  *)
(*                       abandonment;                                      *)
(*   controlDecisionGate keeps a consequential settings commit apart from  *)
(*                       host commands and background processes;           *)
(*   modelSlots          a semaphore shared by every model call, also by   *)
(*                       the parallel calls of one lease's children.       *)
(*                                                                         *)
(* A gate keeps no owner: Unlock, endControl and the release closures      *)
(* clear shared fields unconditionally.  holds[w] is what worker w has     *)
(* still to release, so the properties relate the gate's fields to the     *)
(* callers the fields stand for.                                           *)
(***************************************************************************)
EXTENDS Naturals, FiniteSets

CONSTANTS
  Workers,            \* goroutines: requests, settings decisions, maintenance
  Chats,              \* conversation ids (a draft id is one more conversation)
  NoChat,             \* the empty conversation id
  Callers,            \* parallel model callers of one request (children, handlers)
  HandlerCallers,     \* those the request does not wait for (extension requests)
  MaxForegroundRuns,  \* execution leases at a time
  ModelSlots,         \* capacity of modelSlots
  MaxProcesses        \* bound: background command sessions

ASSUME GateAssumption ==
  /\ NoChat \notin Chats
  /\ HandlerCallers \subseteq Callers
  /\ IsFiniteSet(Chats) /\ IsFiniteSet(Workers)
  /\ MaxForegroundRuns \in Nat
  /\ ModelSlots \in Nat
  /\ MaxProcesses \in Nat

VARIABLES
  exclusive,    \* executionGate.exclusive
  chats,        \* executionGate.chats: "free" stands for an absent key
  controlBusy,  \* controlDecisionGate.controlBusy
  hostBusy,     \* controlDecisionGate.hostBusy
  processBusy,  \* controlDecisionGate.processBusy
  slots,        \* the callers whose token is in modelSlots
  waiting,      \* the callers blocked in acquireModel
  deciding,     \* ControlService.mu: the worker inside decideControlChange
  holds         \* what each worker has to release

gateVars == <<exclusive, chats>>
controlVars == <<controlBusy, hostBusy, processBusy>>
modelVars == <<slots, waiting>>
vars == <<exclusive, chats, controlBusy, hostBusy, processBusy, slots, waiting,
          deciding, holds>>

Kinds == {"free", "execution", "edit"}

\* lease: the conversation leased; excl: exclusive is ours; ctl: controlBusy is
\* ours; host: we are inside a host command; stage: progress of a decision.
Holding == [lease : Chats \cup {NoChat}, excl : BOOLEAN, ctl : BOOLEAN,
            host : BOOLEAN, stage : {"none", "committed", "applying"}]

Nothing == [lease |-> NoChat, excl |-> FALSE, ctl |-> FALSE, host |-> FALSE,
            stage |-> "none"]

Held == {c \in Chats : chats[c] # "free"}
Executing == {c \in Chats : chats[c] = "execution"}

Leased(w) == holds[w].lease # NoChat
Executes(w) == Leased(w) /\ chats[holds[w].lease] = "execution"

Init ==
  /\ exclusive = FALSE
  /\ chats = [c \in Chats |-> "free"]
  /\ controlBusy = FALSE
  /\ hostBusy = 0
  /\ processBusy = 0
  /\ slots = {}
  /\ waiting = {}
  /\ deciding = {}
  /\ holds = [w \in Workers |-> Nothing]

----------------------------------------------------------------------------
(* executionGate *)

\* acquire(chat, execution): refused under the exclusive boundary, for a held
\* conversation, and for an execution beyond the foreground limit.
Acquire(w, chat, kind) ==
  /\ holds[w] = Nothing
  /\ ~exclusive
  /\ chats[chat] = "free"
  /\ kind = "execution" => Cardinality(Executing) < MaxForegroundRuns
  /\ chats' = [chats EXCEPT ![chat] = kind]
  /\ holds' = [holds EXCEPT ![w].lease = chat]
  /\ UNCHANGED <<exclusive, controlVars, modelVars, deciding>>

\* The release closure of acquire; it runs when the request has returned, so
\* after its own and its children's model calls, host command and decision.  It
\* does not wait for the requests of an extension: endInvocation cancels their
\* context and goes on, so such a call may still hold or await a slot.
Release(w) ==
  /\ Leased(w)
  /\ holds[w] = [Nothing EXCEPT !.lease = holds[w].lease]
  /\ \A c \in Callers \ HandlerCallers : <<w, c>> \notin slots \cup waiting
  /\ chats' = [chats EXCEPT ![holds[w].lease] = "free"]
  /\ holds' = [holds EXCEPT ![w] = Nothing]
  /\ UNCHANGED <<exclusive, controlVars, modelVars, deciding>>

\* TryLock: settings, backup, workspace changes, Abandon; also commit("") of
\* ConfigureRuntimePolicy, which runs outside a decision.
TryLock(w) ==
  /\ holds[w] = Nothing
  /\ ~exclusive
  /\ Held = {}
  /\ exclusive' = TRUE
  /\ holds' = [holds EXCEPT ![w].excl = TRUE]
  /\ UNCHANGED <<chats, controlVars, modelVars, deciding>>

Unlock(w) ==
  /\ holds[w] = [Nothing EXCEPT !.excl = TRUE]
  /\ exclusive' = FALSE
  /\ holds' = [holds EXCEPT ![w] = Nothing]
  /\ UNCHANGED <<chats, controlVars, modelVars, deciding>>

----------------------------------------------------------------------------
(* decideControlChange: one decision at a time under ControlService.mu.  A   *)
(* change of a config resource commits through executionGate.commit, which   *)
(* tolerates the lease of the proposing conversation alone.                  *)

CommitAnyLease(w) ==
  /\ deciding = {}
  /\ holds[w].stage = "none" /\ ~holds[w].excl /\ ~holds[w].host
  /\ Leased(w) => Executes(w)
  /\ ~exclusive
  /\ exclusive' = TRUE
  /\ deciding' = {w}
  /\ holds' = [holds EXCEPT ![w] = [holds[w] EXCEPT !.excl = TRUE, !.stage = "committed"]]
  /\ UNCHANGED <<chats, controlVars, modelVars>>

\* commit(allowChat): allowChat is the worker's own conversation when the
\* decision is made inside its Run, and empty for a direct settings change.
Commit(w) ==
  /\ deciding = {}
  /\ holds[w].stage = "none" /\ ~holds[w].excl /\ ~holds[w].host
  /\ Leased(w) => Executes(w)
  /\ ~exclusive
  /\ \A c \in Held : c = holds[w].lease
  /\ exclusive' = TRUE
  /\ deciding' = {w}
  /\ holds' = [holds EXCEPT ![w] = [holds[w] EXCEPT !.excl = TRUE, !.stage = "committed"]]
  /\ UNCHANGED <<chats, controlVars, modelVars>>

\* A decision on resources outside config.* takes no exclusive boundary.
DecideLocal(w) ==
  /\ deciding = {}
  /\ holds[w].stage = "none" /\ ~holds[w].excl /\ ~holds[w].host
  /\ Leased(w) => Executes(w)
  /\ deciding' = {w}
  /\ holds' = [holds EXCEPT ![w].stage = "committed"]
  /\ UNCHANGED <<gateVars, controlVars, modelVars>>

\* beginControl: only for a risk above ordinary.
BeginControl(w) ==
  /\ holds[w].stage = "committed"
  /\ hostBusy = 0 /\ processBusy = 0
  /\ ~controlBusy
  /\ controlBusy' = TRUE
  /\ holds' = [holds EXCEPT ![w] = [holds[w] EXCEPT !.ctl = TRUE, !.stage = "applying"]]
  /\ UNCHANGED <<gateVars, hostBusy, processBusy, modelVars, deciding>>

\* An ordinary-risk change is applied without the control gate.
ApplyOrdinary(w) ==
  /\ holds[w].stage = "committed"
  /\ holds' = [holds EXCEPT ![w].stage = "applying"]
  /\ UNCHANGED <<gateVars, controlVars, modelVars, deciding>>

\* The deferred endControl, commit release and mu.Unlock, after applying or
\* after a refusal (busy gate, active commands).
EndDecision(w) ==
  /\ holds[w].stage # "none"
  /\ controlBusy' = IF holds[w].ctl THEN FALSE ELSE controlBusy
  /\ exclusive' = IF holds[w].excl THEN FALSE ELSE exclusive
  /\ deciding' = {}
  /\ holds' = [holds EXCEPT ![w] = [Nothing EXCEPT !.lease = holds[w].lease]]
  /\ UNCHANGED <<chats, hostBusy, processBusy, modelVars>>

----------------------------------------------------------------------------
(* Host commands and background command sessions of an execution *)

BeginHost(w) ==
  /\ Executes(w) /\ ~holds[w].host /\ holds[w].stage = "none"
  /\ ~controlBusy
  /\ hostBusy' = hostBusy + 1
  /\ holds' = [holds EXCEPT ![w].host = TRUE]
  /\ UNCHANGED <<gateVars, controlBusy, processBusy, modelVars, deciding>>

EndHost(w) ==
  /\ holds[w].host
  /\ hostBusy' = IF hostBusy > 0 THEN hostBusy - 1 ELSE hostBusy
  /\ holds' = [holds EXCEPT ![w].host = FALSE]
  /\ UNCHANGED <<gateVars, controlBusy, processBusy, modelVars, deciding>>

\* A background session outlives the request that started it.
BeginProcess(w) ==
  /\ Executes(w) /\ ~holds[w].host /\ holds[w].stage = "none"
  /\ ~controlBusy
  /\ processBusy < MaxProcesses
  /\ processBusy' = processBusy + 1
  /\ UNCHANGED <<gateVars, controlBusy, hostBusy, modelVars, deciding, holds>>

EndProcess ==
  /\ processBusy > 0
  /\ processBusy' = processBusy - 1
  /\ UNCHANGED <<gateVars, controlBusy, hostBusy, modelVars, deciding, holds>>

----------------------------------------------------------------------------
(* acquireModel: the calls of one request, its children and the extensions it *)
(* called compete for the slots.                                              *)

\* A call is on its way to a slot once the request or child makes it, or once an
\* extension's request has found its invocation alive, whatever else the request
\* does meanwhile.
RequestModel(w, c) ==
  /\ Executes(w)
  /\ c \in HandlerCallers \/ (holds[w].stage = "none" /\ ~holds[w].host)
  /\ <<w, c>> \notin slots \cup waiting
  /\ waiting' = waiting \cup {<<w, c>>}
  /\ UNCHANGED <<gateVars, controlVars, slots, deciding, holds>>

GrantModel(w, c) ==
  /\ <<w, c>> \in waiting
  /\ Cardinality(slots) < ModelSlots
  /\ waiting' = waiting \ {<<w, c>>}
  /\ slots' = slots \cup {<<w, c>>}
  /\ UNCHANGED <<gateVars, controlVars, deciding, holds>>

\* ctx.Done while waiting.
CancelModel(w, c) ==
  /\ <<w, c>> \in waiting
  /\ waiting' = waiting \ {<<w, c>>}
  /\ UNCHANGED <<gateVars, controlVars, slots, deciding, holds>>

KeepSlot(w, c) ==
  /\ <<w, c>> \in slots
  /\ slots' = slots
  /\ UNCHANGED <<gateVars, controlVars, waiting, deciding, holds>>

\* The deferred releaseSlot of dispatchModel.
ReleaseModel(w, c) ==
  /\ <<w, c>> \in slots
  /\ slots' = slots \ {<<w, c>>}
  /\ UNCHANGED <<gateVars, controlVars, waiting, deciding, holds>>

----------------------------------------------------------------------------
WorkerStep(w) ==
  \/ \E chat \in Chats, kind \in {"execution", "edit"} : Acquire(w, chat, kind)
  \/ Release(w)
  \/ TryLock(w)
  \/ Unlock(w)
  \/ Commit(w)
  \/ DecideLocal(w)
  \/ BeginControl(w)
  \/ ApplyOrdinary(w)
  \/ EndDecision(w)
  \/ BeginHost(w)
  \/ EndHost(w)
  \/ BeginProcess(w)

ModelStep(w, c) ==
  \/ RequestModel(w, c)
  \/ GrantModel(w, c)
  \/ CancelModel(w, c)
  \/ ReleaseModel(w, c)

Next ==
  \/ \E w \in Workers : WorkerStep(w)
  \/ \E w \in Workers, c \in Callers : ModelStep(w, c)
  \/ EndProcess

Spec == Init /\ [][Next]_vars

----------------------------------------------------------------------------
\* Type correctness.
TypeOK ==
  /\ exclusive \in BOOLEAN
  /\ chats \in [Chats -> Kinds]
  /\ controlBusy \in BOOLEAN
  /\ hostBusy \in Nat
  /\ processBusy \in 0..MaxProcesses
  /\ slots \subseteq Workers \X Callers
  /\ waiting \subseteq Workers \X Callers
  /\ deciding \subseteq Workers
  /\ holds \in [Workers -> Holding]

\* A conversation has at most one lease holder and the gate's map lists exactly
\* the leases that are still to be released: a release never frees a
\* conversation somebody else is executing in, although the closure deletes the
\* key without asking who set it.
LeasesMatch ==
  /\ \A c \in Chats :
       chats[c] # "free" <=> \E w \in Workers : holds[w].lease = c
  /\ \A v, w \in Workers :
       Leased(v) /\ holds[v].lease = holds[w].lease => v = w

\* The exclusive boundary has one holder, and while it is held the only lease in
\* existence is the holder's own: no other conversation executes during a global
\* commit, a backup or an abandonment, although Unlock clears the flag
\* unconditionally.
ExclusiveAlone ==
  /\ exclusive <=> \E w \in Workers : holds[w].excl
  /\ \A v, w \in Workers :
       holds[w].excl =>
         /\ holds[v].excl => v = w
         /\ Leased(v) => v = w

\* Never more than MaxForegroundRuns execution leases.
ForegroundBound == Cardinality(Executing) <= MaxForegroundRuns

\* While a consequential settings change is applied no host command and no
\* background process runs under the old profile.
ControlAlone ==
  controlBusy => hostBusy = 0 /\ processBusy = 0 /\ \A w \in Workers : ~holds[w].host

\* Never more model calls than slots, the calls of extension handlers that
\* outlive their request's lease counted in, and no call holds a slot while it
\* still waits for one.
SlotsBounded ==
  /\ Cardinality(slots) <= ModelSlots
  /\ slots \cap waiting = {}

\* A caller of acquireModel gets a slot or gives up: children that share one
\* lease never wait for each other for ever.
ModelServed ==
  \A w \in Workers, c \in Callers :
    <<w, c>> \in waiting ~> <<w, c>> \notin waiting

\* An exclusive boundary is always given back: maintenance cannot lock the Owner.
ExclusiveReleased == exclusive ~> ~exclusive

\* The gate is safe: leases and boundaries have one holder, foreground work and
\* model calls stay within their limits.
GateSafe ==
  TypeOK /\ LeasesMatch /\ ExclusiveAlone /\ ForegroundBound /\ ControlAlone /\ SlotsBounded

\* Nobody waits at the gate for ever.
GateServes == ModelServed /\ ExclusiveReleased
=============================================================================
