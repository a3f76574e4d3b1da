-------------------------- MODULE ControlOperations --------------------------
(* The control boundary of the Owner (control.go): operations that are        *)
(* planned, shown, confirmed or rejected and, once applied, reverted; the     *)
(* journal they are kept in; the revisions of the resources they change; the  *)
(* confirmation codes; the payloads that live in memory only; the fingerprint *)
(* that notices edits made by others; and the model proposals that a Run      *)
(* waits for.                                                                 *)
(*                                                                            *)
(* A decision holds the service's mutex from its checks to the journal line,  *)
(* so decisions do not interleave with each other; a crash of the Owner can   *)
(* still fall between the write of the setting and the line, and the check    *)
(* for foreign edits is made before the mutex is taken, so that an edit made  *)
(* between the two is overwritten unseen.                                     *)
EXTENDS ConfigControl

CONSTANTS
  Ops,           \* identifiers of operations
  Attempts,      \* tool attempts of Runs that can carry a proposal
  Requests,      \* the requests a user or a model makes
  Start,         \* the configuration before the first operation
  MaxTries,      \* controlMaxCodeAttempts
  MaxRestarts,   \* bound: restarts of the Owner
  MaxEdits,      \* bound: edits of config.json by another process
  MaxFaults      \* bound: failed writes of the journal, the baseline or the store

VARIABLES
  config,     \* config.json and the Key file
  memory,     \* core.currentConfig: the configuration the Owner works with
  baseline,   \* the fingerprint of the files
  external,   \* service.externalChange
  op,         \* service.operations
  journal,    \* the last line of each operation in the journal
  rev,        \* service.revisions, by resource
  code,       \* service.confirmations: the wrong entries of the live code
  payload,    \* operations whose secret or MCP profile is in memory
  attempt,    \* the attempts in the store
  proposing,  \* attempts whose plan is made and not yet bound
  cleared,    \* decisions that found no foreign edit and wait for the mutex
  busy,       \* the decision that holds the mutex, and how far it is
  restarts, edits, faults,
  applied,    \* history: how often each operation changed the configuration
  blurred     \* history: operations the code loses sight of, see Properties

vars == <<config, memory, baseline, external, op, journal, rev, code, payload, attempt,
          proposing, cleared, busy, restarts, edits, faults, applied, blurred>>

NoOp == "-"
NoCode == 0 - 1
Terminal == {"applied", "rejected", "stale", "failed"}

(* A record of an operation that was never planned.                           *)
Unused ==
  [status |-> "unused", source |-> "user", request |-> [kind |-> None], res |-> None,
   expected |-> 0, before |-> None, after |-> None, newRev |-> 0, attempt |-> NoOp, of |-> NoOp]

(* Identifiers are drawn at random: which unused one is drawn tells nothing.   *)
Unplanned == {o \in Ops : op[o].status = "unused"}
Free == IF Unplanned = {} THEN {} ELSE {CHOOSE o \in Unplanned : TRUE}
Pending(o) == op[o].status = "pending"
MutexFree == busy.at = "free"
Released == [at |-> "free", op |-> NoOp]

(* revisionLocked: a resource nobody changed has the revision 1.              *)
RevisionOf(res) == IF res \in DOMAIN rev THEN rev[res] ELSE 1

(* The requests that carry what the journal must not hold: a new Key secret   *)
(* and the profile of an MCP server.                                          *)
Secretive(r) == r.kind = "set_mcp_profile" \/ (r.kind = "set_key" /\ r.secret # None)

Revertible(o) == op[o].request.kind \notin {"set_mcp_profile", "set_key", "revert"}

TypeOK ==
  /\ config \in Configs /\ memory \in Configs /\ baseline \in Configs
  /\ external \in BOOLEAN
  /\ \A o \in Ops : /\ op[o].status \in Terminal \union {"unused", "pending"}
                    /\ journal[o].status \in Terminal \union {"unused", "pending"}
                    /\ op[o].attempt \in Attempts \union {NoOp}
  /\ code \in [Ops -> NoCode..MaxTries]
  /\ payload \subseteq Ops
  /\ attempt \in [Attempts -> {"none", "pending", "done", "refused", "ended"}]
  /\ proposing \in [Attempts -> Ops \union {NoOp}]
  /\ cleared \subseteq Ops
  /\ busy \in [at : {"free", "written", "settle"}, op : Ops \union {NoOp}]
  /\ restarts \in 0..MaxRestarts /\ edits \in 0..MaxEdits /\ faults \in 0..MaxFaults
  /\ applied \in [Ops -> 0..3] /\ blurred \subseteq Ops

Init ==
  /\ config = Start /\ memory = Start /\ baseline = Start
  /\ external = FALSE
  /\ op = [o \in Ops |-> Unused] /\ journal = [o \in Ops |-> Unused]
  /\ rev = << >>
  /\ code = [o \in Ops |-> NoCode]
  /\ payload = {}
  /\ attempt = [a \in Attempts |-> "none"]
  /\ proposing = [a \in Attempts |-> NoOp]
  /\ cleared = {}
  /\ busy = Released
  /\ restarts = 0 /\ edits = 0 /\ faults = 0
  /\ applied = [o \in Ops |-> 0] /\ blurred = {}

-----------------------------------------------------------------------------
(* Foreign edits.                                                             *)

(* detectExternalChange: the fingerprints agree and nothing is under review.  *)
Undisturbed == ~external /\ config = baseline

(* Another process edits config.json.                                         *)
ForeignEdit ==
  /\ edits < MaxEdits
  /\ \E r \in Requests :
       /\ ~Secretive(r) /\ r.kind # "set_key"
       /\ config' = Apply(config, r) /\ config' # config
       /\ Valid(config')
  /\ edits' = edits + 1
  /\ UNCHANGED <<memory, baseline, external, op, journal, rev, code, payload, attempt, proposing,
                 busy, cleared, restarts, faults, applied, blurred>>

(* CheckExternalChanges, and the same check at the start of every plan and    *)
(* decision: the difference is noted and the call refused.                    *)
NoticeEdit ==
  /\ ~Undisturbed /\ ~external
  /\ external' = TRUE
  /\ UNCHANGED <<config, memory, baseline, op, journal, rev, code, payload, attempt, proposing,
                 busy, cleared, restarts, edits, faults, applied, blurred>>

(* ReviewExternalChange: the file is accepted as it is. Revisions stay.       *)
ReviewExternalChange ==
  /\ ~Undisturbed /\ MutexFree
  /\ memory' = config /\ baseline' = config /\ external' = FALSE
  /\ blurred' = blurred \union {o \in Ops : Pending(o)}
  /\ UNCHANGED <<config, op, journal, rev, code, payload, attempt, proposing, busy, cleared, restarts,
                 edits, faults, applied>>

-----------------------------------------------------------------------------
(* Planning.                                                                  *)

Planned(r, source, a) ==
  LET res == ResourceOf(r)
  IN  [Unused EXCEPT !.status = "pending", !.source = source, !.res = res, !.attempt = a,
                     !.request = [f \in DOMAIN r |-> IF f = "secret" THEN None ELSE r[f]],
                     !.expected = RevisionOf(res), !.before = ValueOf(memory, res, r),
                     !.after = ValueOf(Apply(memory, r), res, r)]

(* PlanControlChange, PlanKeyProfileChange, PlanMCPProfileChange for a user.  *)
(* The journal gets no secret; the payload stays in memory. The plan is taken *)
(* back when its line cannot be written.                                      *)
PlanDirect(o, r) ==
  /\ o \in Free /\ MutexFree /\ Undisturbed
  /\ Applicable(memory, r)
  /\ op' = [op EXCEPT ![o] = Planned(r, "user", NoOp)]
  /\ journal' = [journal EXCEPT ![o] = op'[o]]
  /\ payload' = payload \union (IF Secretive(r) THEN {o} ELSE {})
  /\ UNCHANGED <<config, memory, baseline, external, rev, code, attempt, proposing, busy,
                 cleared, restarts, edits, faults, applied, blurred>>

(* controlTools.Prepare for a model: the pending proposal of the attempt is   *)
(* found again, or one is planned; binding it is a second line.               *)
PlanProposal(o, a, r) ==
  /\ o \in Free /\ MutexFree /\ Undisturbed
  /\ attempt[a] \in {"none", "pending"} /\ proposing[a] = NoOp
  /\ ~\E p \in Ops : Pending(p) /\ op[p].attempt = a
  /\ ~Secretive(r) /\ r.kind # "set_key" /\ Applicable(memory, r)
  /\ op' = [op EXCEPT ![o] = Planned(r, "model", NoOp)]
  /\ journal' = [journal EXCEPT ![o] = op'[o]]
  /\ attempt' = [attempt EXCEPT ![a] = "pending"]
  /\ proposing' = [proposing EXCEPT ![a] = o]
  /\ UNCHANGED <<config, memory, baseline, external, rev, code, payload, busy, cleared, restarts, edits,
                 faults, applied, blurred>>

(* bindAttempt does not ask whether the operation is still pending: a user    *)
(* can have decided the unbound proposal in between.                          *)
BindAttempt(a) ==
  LET o == proposing[a] IN
  /\ o # NoOp /\ MutexFree
  /\ op' = [op EXCEPT ![o].attempt = a]
  /\ journal' = [journal EXCEPT ![o] = op'[o]]
  /\ blurred' = IF Pending(o) THEN blurred ELSE blurred \union {o}
  /\ proposing' = [proposing EXCEPT ![a] = NoOp]
  /\ UNCHANGED <<config, memory, baseline, external, rev, code, payload, attempt, busy, cleared, restarts,
                 edits, faults, applied>>

(* PlanRevertControlChange: a revert expects the revision its original left   *)
(* behind. It makes no check for foreign edits.                               *)
PlanRevert(o, p) ==
  /\ o \in Free /\ MutexFree
  /\ op[p].status = "applied" /\ Revertible(p)
  /\ op' = [op EXCEPT ![o] =
              [Unused EXCEPT !.status = "pending", !.res = op[p].res, !.of = p,
                             !.request = [kind |-> "revert"], !.expected = op[p].newRev,
                             !.before = op[p].after, !.after = op[p].before]]
  /\ journal' = [journal EXCEPT ![o] = op'[o]]
  /\ UNCHANGED <<config, memory, baseline, external, rev, code, payload, attempt, proposing, busy,
                 cleared, restarts, edits, faults, applied, blurred>>

-----------------------------------------------------------------------------
(* Ending an operation without applying it.                                   *)

Settle(o, outcome) ==
  LET a == op[o].attempt
  IN  IF a # NoOp /\ attempt[a] = "pending" THEN [attempt EXCEPT ![a] = outcome] ELSE attempt

(* The status is written, the code and the payload are dropped, and the       *)
(* attempt that waits for the proposal is settled (settleInvalidProposal),    *)
(* unless the store fails then.                                               *)
Ended(o, status) ==
  /\ op' = [op EXCEPT ![o].status = status]
  /\ journal' = [journal EXCEPT ![o] = op'[o]]
  /\ code' = [code EXCEPT ![o] = NoCode]
  /\ payload' = payload \ {o}
  /\ cleared' = cleared \ {o}

EndedAs(o, status) ==
  /\ Ended(o, status)
  /\ \/ attempt' = Settle(o, "refused") /\ UNCHANGED <<faults, blurred>>
     \/ /\ faults < MaxFaults /\ faults' = faults + 1
        /\ op[o].attempt # NoOp /\ blurred' = blurred \union {o}
        /\ UNCHANGED attempt

(* Mutant: the revision is not compared.                                      *)
StaleNever(o) == FALSE

Stale(o) == RevisionOf(op[o].res) # op[o].expected

(* invalidateProposalLocked, met by RenderConfirmation and by a decision.     *)
Invalidate(o) ==
  /\ Pending(o) /\ MutexFree /\ Stale(o)
  /\ EndedAs(o, "stale")
  /\ UNCHANGED <<config, memory, baseline, external, rev, proposing, busy, restarts, edits,
                 applied>>

(* expireDirectLocked: a direct request has an absolute lifetime.             *)
ExpireDirect(o) ==
  /\ Pending(o) /\ MutexFree /\ op[o].source = "user" /\ op[o].attempt = NoOp
  /\ EndedAs(o, "stale")
  /\ UNCHANGED <<config, memory, baseline, external, rev, proposing, busy, restarts, edits,
                 applied>>

(* RejectControlChange, and ConfirmControl with a refusal, which settles the  *)
(* attempt itself and lets the Run go on.                                     *)
Reject(o) ==
  /\ Pending(o) /\ MutexFree
  /\ EndedAs(o, "rejected")
  /\ UNCHANGED <<config, memory, baseline, external, rev, proposing, busy, restarts, edits,
                 applied>>

(* Abandon ends the Run, and its attempts with it; withdrawing the proposal   *)
(* is a second step that a crash can prevent.                                 *)
AbandonRun(a) ==
  /\ attempt[a] = "pending" /\ busy.at # "settle"
  /\ ~(busy.op \in Ops /\ op[busy.op].attempt = a)
  /\ attempt' = [attempt EXCEPT ![a] = "ended"]
  /\ UNCHANGED <<config, memory, baseline, external, op, journal, rev, code, payload, proposing,
                 busy, cleared, restarts, edits, faults, applied, blurred>>

WithdrawProposal(o) ==
  /\ Pending(o) /\ MutexFree
  /\ op[o].attempt # NoOp /\ attempt[op[o].attempt] = "ended"
  /\ EndedAs(o, "rejected")
  /\ UNCHANGED <<config, memory, baseline, external, rev, proposing, busy, restarts, edits,
                 applied>>

-----------------------------------------------------------------------------
(* Confirming.                                                                *)

(* RenderConfirmation: a new code when there is none or the old one is spent. *)
Render(o) ==
  /\ Pending(o) /\ MutexFree /\ ~Stale(o)
  /\ code[o] \in {NoCode, MaxTries}
  /\ code' = [code EXCEPT ![o] = 0]
  /\ UNCHANGED <<config, memory, baseline, external, op, journal, rev, payload, attempt,
                 proposing, busy, cleared, restarts, edits, faults, applied, blurred>>

(* ReenterMCPProfile: the user gives the payload again after a restart.       *)
ReenterMCPProfile(o) ==
  /\ Pending(o) /\ MutexFree /\ Undisturbed
  /\ op[o].request.kind = "set_mcp_profile" /\ o \notin payload
  /\ payload' = payload \union {o}
  /\ UNCHANGED <<config, memory, baseline, external, op, journal, rev, code, attempt, proposing,
                 busy, cleared, restarts, edits, faults, applied, blurred>>

(* The risk of a kind in the catalog; reverts have that of their original.    *)
Ordinary(r) == r.kind = "set_default" \/ (r.kind = "set_policy" /\ r.field = "limits")
NeedsCode(o) ==
  \/ op[o].source = "model"
  \/ LET r == IF op[o].of = NoOp THEN op[o].request ELSE op[op[o].of].request IN ~Ordinary(r)

(* detectExternalChange at the head of a decision, before the mutex.          *)
Clear(o) ==
  /\ Pending(o) /\ o \notin cleared /\ Undisturbed
  /\ cleared' = cleared \union {o}
  /\ UNCHANGED <<config, memory, baseline, external, op, journal, rev, code, payload, attempt,
                 proposing, busy, restarts, edits, faults, applied, blurred>>

(* A proposal that is bound is decided through its Run and only there.        *)
Decidable(o) ==
  /\ Pending(o) /\ MutexFree /\ o \in cleared
  /\ op[o].attempt # NoOp => attempt[op[o].attempt] = "pending"

(* verifyCodeLocked with a wrong code.                                        *)
Mistype(o) ==
  /\ Decidable(o) /\ NeedsCode(o) /\ code[o] \in 0..(MaxTries - 1)
  /\ code' = [code EXCEPT ![o] = @ + 1]
  /\ cleared' = cleared \ {o}
  /\ UNCHANGED <<config, memory, baseline, external, op, journal, rev, payload, attempt,
                 proposing, busy, restarts, edits, faults, applied, blurred>>

(* What applyRecordLocked makes of the configuration. A Key profile is        *)
(* written with the secret that is still in memory, if there is one.          *)
Effect(o) ==
  LET p == op[o].of
      r == op[o].request
  IN  IF p # NoOp THEN Restored(memory, op[p].res, op[p].request, op[p].before)
      ELSE IF r.kind = "set_key"
        THEN SetKeyProfile(memory, [r EXCEPT !.secret = IF o \in payload THEN "new" ELSE None])
        ELSE Apply(memory, r)

Applies(o) ==
  LET p == op[o].of
  IN  IF p # NoOp THEN Valid(Effect(o)) ELSE Applicable(memory, op[o].request)

HasPayload(o) == op[o].request.kind = "set_mcp_profile" => o \in payload

Confirmed(o) == NeedsCode(o) => code[o] \in 0..(MaxTries - 1)

(* decideControlChange up to the write of the files. The whole candidate is   *)
(* written, made from the configuration in memory.                            *)
Write(o) ==
  /\ Decidable(o) /\ Confirmed(o) /\ ~Stale(o) /\ HasPayload(o) /\ Applies(o)
  /\ config' = Effect(o) /\ memory' = config'
  /\ cleared' = cleared \ {o}
  /\ busy' = [at |-> "written", op |-> o]
  /\ applied' = [applied EXCEPT ![o] = IF @ < 3 THEN @ + 1 ELSE @]
  /\ payload' = payload \ {o}
  /\ UNCHANGED <<baseline, external, op, journal, rev, code, attempt, proposing, restarts, edits, faults,
                 blurred>>

(* The edit is refused: the operation has failed and is not tried again.      *)
Fail(o) ==
  /\ Decidable(o) /\ Confirmed(o) /\ ~Stale(o) /\ HasPayload(o) /\ ~Applies(o)
  /\ EndedAs(o, "failed")
  /\ UNCHANGED <<config, memory, baseline, external, rev, proposing, busy, restarts, edits,
                 applied>>

(* Operations that wait for the resource o is about, o included.              *)
SameResource(o) == {p \in Ops : p = o \/ (Pending(p) /\ op[p].res = op[o].res)}

(* Revisions are kept by resource: an operation on another resource that      *)
(* shares settings with o's is not told that o has changed them.              *)
Overtaken(o) ==
  {p \in Ops : /\ Pending(p) /\ op[p].res # op[o].res
               /\ LET r == IF op[p].of = NoOp THEN op[p].request ELSE op[op[p].of].request
                  IN  ValueOf(memory, op[p].res, r) # op[p].before}

AppliedRecord(o) ==
  [op[o] EXCEPT !.status = "applied", !.newRev = RevisionOf(op[o].res) + 1]

Bumped(res) == [x \in DOMAIN rev \union {res} |-> IF x = res THEN RevisionOf(res) + 1 ELSE rev[x]]

(* refreshBaseline: the files as they are now are the Owner's own.            *)
Measured == baseline' = config /\ external' = FALSE

(* Mutant: the operation is applied in memory and no line is written.         *)
CommitMemoryOnly ==
  LET o == busy.op IN
  /\ busy.at = "written" /\ Measured
  /\ rev' = Bumped(op[o].res)
  /\ op' = [op EXCEPT ![o] = AppliedRecord(o)]
  /\ code' = [code EXCEPT ![o] = NoCode]
  /\ busy' = IF op[o].attempt = NoOp THEN Released ELSE [busy EXCEPT !.at = "settle"]
  /\ blurred' = blurred \union Overtaken(o)
  /\ UNCHANGED <<config, memory, journal, payload, attempt, proposing, cleared, restarts, edits,
                 faults, applied>>

(* decideControlChange from the write to its end: the fingerprint is taken,   *)
(* the revision moves on, and the operation is applied in memory and in the   *)
(* journal. A proposal's attempt is settled afterwards by ConfirmControl.     *)
Commit ==
  LET o == busy.op IN
  /\ busy.at = "written" /\ Measured
  /\ rev' = Bumped(op[o].res)
  /\ op' = [op EXCEPT ![o] = AppliedRecord(o)]
  /\ journal' = [journal EXCEPT ![o] = op'[o]]
  /\ code' = [code EXCEPT ![o] = NoCode]
  /\ busy' = IF op[o].attempt = NoOp THEN Released ELSE [busy EXCEPT !.at = "settle"]
  /\ blurred' = blurred \union Overtaken(o)
  /\ UNCHANGED <<config, memory, payload, attempt, proposing, cleared, restarts, edits, faults,
                 applied>>

(* The line cannot be written: applied in memory, pending in the journal. The *)
(* error goes to the caller and the Run is not settled.                       *)
CommitUnlogged ==
  LET o == busy.op IN
  /\ busy.at = "written" /\ faults < MaxFaults /\ Measured
  /\ rev' = Bumped(op[o].res)
  /\ op' = [op EXCEPT ![o] = AppliedRecord(o)]
  /\ faults' = faults + 1
  /\ blurred' = blurred \union Overtaken(o) \union SameResource(o)
  /\ busy' = Released
  /\ UNCHANGED <<config, memory, journal, code, payload, attempt, proposing, cleared, restarts,
                 edits, applied>>

(* The second fingerprint of the decision cannot be taken: the caller is told *)
(* "applied", yet the operation stays pending and the revision where it was.  *)
CommitUnmeasured ==
  /\ busy.at = "written" /\ faults < MaxFaults /\ Measured
  /\ faults' = faults + 1
  /\ blurred' = blurred \union Overtaken(busy.op) \union SameResource(busy.op)
  /\ payload' = payload \ {busy.op}
  /\ busy' = Released
  /\ UNCHANGED <<config, memory, op, journal, rev, code, attempt, proposing, cleared, restarts,
                 edits, applied>>

(* The first one, in configureRuntimePolicy, cannot be taken: the operation   *)
(* has failed in the books and the files stay changed.                        *)
WriteUnmeasured ==
  /\ busy.at = "written" /\ faults < MaxFaults
  /\ Ended(busy.op, "failed")
  /\ attempt' = Settle(busy.op, "refused") /\ faults' = faults + 1
  /\ blurred' = blurred \union Overtaken(busy.op) \union SameResource(busy.op)
  /\ busy' = Released
  /\ UNCHANGED <<config, memory, baseline, external, rev, proposing, restarts, edits, applied>>

(* settleControlProposal: the Run is complete. When the store fails, the      *)
(* attempt waits on for a decision that was made, and the next listing of the *)
(* pending approvals plans a second operation for it.                         *)
SettleRun ==
  /\ busy.at = "settle"
  /\ \/ attempt' = Settle(busy.op, "done") /\ UNCHANGED <<faults, blurred>>
     \/ /\ faults < MaxFaults /\ faults' = faults + 1
        /\ blurred' = blurred \union {busy.op}
        /\ UNCHANGED attempt
  /\ busy' = Released
  /\ UNCHANGED <<config, memory, baseline, external, op, journal, rev, code, payload, proposing,
                 cleared, restarts, edits, applied>>

-----------------------------------------------------------------------------
(* loadJournal: the revisions are those the applied lines left.               *)
JournalRevisions ==
  LET known == {journal[o].res : o \in {p \in Ops : journal[p].status = "applied"}}
      left(res) == {journal[o].newRev : o \in {p \in Ops : journal[p].status = "applied"
                                                             /\ journal[p].res = res}}
  IN  [res \in known |-> CHOOSE n \in left(res) : \A m \in left(res) : m <= n]

(* recoverAppliedProposals: what the journal decided settles the attempts     *)
(* that still wait, in the order of a Go map.                                 *)
Decided(a) == {journal[o].status : o \in {p \in Ops : journal[p].attempt = a}} \intersect Terminal

Recovered(a) ==
  IF attempt[a] # "pending" \/ Decided(a) = {} THEN {attempt[a]}
  ELSE {IF status = "applied" THEN "done" ELSE "refused" : status \in Decided(a)}

(* controlServiceForCore in a new Owner, which takes the files as it finds    *)
(* them for the fingerprint.                                                  *)
Restart ==
  /\ restarts < MaxRestarts
  /\ restarts' = restarts + 1
  /\ memory' = config /\ baseline' = config /\ external' = FALSE
  /\ op' = journal /\ rev' = JournalRevisions
  /\ code' = [o \in Ops |-> NoCode] /\ payload' = {}
  /\ proposing' = [a \in Attempts |-> NoOp]
  /\ attempt' \in {f \in [Attempts -> {"none", "pending", "done", "refused", "ended"}] :
                     \A a \in Attempts : f[a] \in Recovered(a)}
  /\ busy' = Released /\ cleared' = {}
  /\ blurred' = blurred
       \union {o \in Ops : config # memory /\ journal[o].status = "pending"}
       \union (IF busy.at # "written" THEN {}
               ELSE SameResource(busy.op) \union Overtaken(busy.op))
  /\ UNCHANGED <<config, journal, edits, faults, applied>>

Next ==
  \/ ForeignEdit \/ NoticeEdit \/ ReviewExternalChange
  \/ \E o \in Ops :
       \/ \E r \in Requests : PlanDirect(o, r) \/ \E a \in Attempts : PlanProposal(o, a, r)
       \/ \E p \in Ops : PlanRevert(o, p)
       \/ Invalidate(o) \/ ExpireDirect(o) \/ Reject(o) \/ WithdrawProposal(o)
       \/ Render(o) \/ ReenterMCPProfile(o) \/ Clear(o) \/ Mistype(o) \/ Write(o) \/ Fail(o)
  \/ \E a \in Attempts : BindAttempt(a) \/ AbandonRun(a)
  \/ Commit \/ CommitUnlogged \/ CommitUnmeasured \/ WriteUnmeasured \/ SettleRun
  \/ Restart

Spec == Init /\ [][Next]_vars

-----------------------------------------------------------------------------
(* Properties. The operations of blurred are those the code itself loses      *)
(* sight of: a crash or a failed write between the change and its record, a   *)
(* foreign edit the user accepted, a change made under another resource, a    *)
(* decision made before the proposal was bound to its attempt.                *)

(* The books are honest: an operation that is applied has changed the         *)
(* configuration exactly once, and one that is pending, rejected, stale or    *)
(* failed has not (decideControlChange, loadJournal), whatever restarts,      *)
(* wrong codes and failed writes happened to other operations in between.     *)
BooksHonest ==
  \A o \in Ops \ blurred :
    applied[o] = IF op[o].status = "applied" \/ (busy.at = "written" /\ busy.op = o) THEN 1 ELSE 0

(* An operation is applied to the very value its preview showed the user: the *)
(* expected revision is a true witness that the resource has not changed      *)
(* since the plan (decideControlChange, PlanRevertControlChange), restarts    *)
(* included (loadJournal).                                                    *)
AppliedAsShown ==
  \A o \in Ops \ blurred :
    applied'[o] # applied[o] =>
      LET r == IF op[o].of = NoOp THEN op[o].request ELSE op[op[o].of].request
      IN  ValueOf(memory, op[o].res, r) = op[o].before

(* What a snapshot says of a resource. An empty list of origins, of models or *)
(* of connections is not in it, nor is a provider that had no entry.          *)
SaidBefore(res, v, now) ==
  CASE res = "set_http"     -> now.on = v.on /\ (v.origins # {} => now.origins = v.origins)
    [] res = "set_collab"   -> now.on = v.on /\ (v.models # {} => now.models = v.models)
    [] res = "set_provider" -> \A k \in DOMAIN v : k \in DOMAIN now /\ now[k] = v[k]
    [] res = "channels"     -> v # 0 => now = v
    [] OTHER                -> now = v

(* A revert gives the resource back everything its snapshot says it had       *)
(* before the original operation, for every kind of request                   *)
(* (setConfigResource against configResourceValue). What the snapshot leaves  *)
(* out stays as the operation made it: decodeAndAssign decodes into the value *)
(* that is there.                                                             *)
RevertedAsBefore ==
  \A o \in Ops : \A p \in {op[o].of} \ {NoOp} :
    applied'[o] # applied[o] =>
      SaidBefore(op[p].res, op[p].before, ValueOf(memory', op[p].res, op[p].request))

(* A Run is told the truth about its proposal: an attempt settled as refused  *)
(* has changed nothing, and one settled as done has (settleInvalidProposal,   *)
(* settleControlProposal, recoverAppliedProposals).                           *)
AnswerTrue ==
  \A a \in Attempts :
    LET mine == {o \in Ops : op[o].attempt = a}
    IN  mine \intersect blurred = {} =>
          /\ attempt[a] = "refused" => \A o \in mine : applied[o] = 0
          /\ attempt[a] = "done" => \E o \in mine : applied[o] = 1

(* No Run waits for a decision that was already made: after a restart every   *)
(* attempt whose operation has ended in the journal is settled, also when the *)
(* crash or a failed write came between the decision and its settlement.      *)
RestartHasSettled ==
  restarts' # restarts =>
    \A o \in Ops : \A a \in {op'[o].attempt} \ {NoOp} :
      op'[o].status \in Terminal => attempt'[a] # "pending"

(* Removing a model never lets Auto or Collaboration reach a model they could *)
(* not reach before: an explicit list that loses its last entry turns its     *)
(* user off, because an empty list means every model (RemoveModels).          *)
RemovalNarrows ==
  \A o \in Ops :
    applied'[o] # applied[o] /\ op[o].request.kind = "remove_model" =>
      /\ AutoPool(memory') \subseteq AutoPool(memory)
      /\ CollaborationPool(memory') \subseteq CollaborationPool(memory)

(* Every decision is recorded as what was done, in the journal and in the     *)
(* answer the Run gets.                                                       *)
DecisionsHonest == TypeOK /\ BooksHonest /\ AnswerTrue

(* What a step that applies, reverts or restarts may never do.                *)
DecisionsKept == AppliedAsShown /\ RevertedAsBefore /\ RestartHasSettled /\ RemovalNarrows
=============================================================================
