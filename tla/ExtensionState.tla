--------------------------- MODULE ExtensionState ----------------------------
(* A change of the state an extension keeps in a database of its own, decided *)
(* by the Owner's control service (internal/harness/extension_state.go), and  *)
(* the paired backup of the two databases (extension_backup.go).               *)
(*                                                                            *)
(* The change is sent once: the intent is journalled before state.apply, and  *)
(* a lost answer is looked up with state.result.  The extension (external,    *)
(* docs/AFFECTWEAVE_HOST_CONTRACT_V8_3.md) commits a change with its result   *)
(* in one transaction, when the revision is the previewed one and no pause is *)
(* in force; a request that the Owner gave up may still be carried out.       *)
EXTENDS Naturals, FiniteSets

CONSTANTS
  MaxOps,       \* bound: control operations
  MaxFaults,    \* bound: exits of the extension and failed journal writes
  MaxRestarts   \* bound: restarts of the Owner

VARIABLES
  rev,       \* the extension's revision
  ledger,    \* the operations whose change it has committed
  pause,     \* the backup's pause is in force (memory of the process)
  flight,    \* requests state.apply that the process may still carry out
  op,        \* service.operations
  journal,   \* the control journal
  attempt,   \* the Attempt of the Run that proposed each operation
  busy,      \* the operation whose state.apply is awaited, with control.mu
  sends,     \* history: how often state.apply was sent
  cut,       \* history: operations whose answer was lost with the process
  backup,    \* how far BackupExtensionPair is, and what its stage holds
  faults, restarts

\* What the constants have to be.
StateAssumption == MaxOps \in Nat /\ MaxFaults \in Nat /\ MaxRestarts \in Nat

stateVars == <<rev, ledger, pause, flight, op, journal, attempt, busy, sends, cut, backup,
               faults, restarts>>
extension == <<rev, ledger, pause, flight>>
service == <<op, journal, attempt, busy, sends, cut>>
limits == <<faults, restarts>>

None == 0
Ops == 1..MaxOps
Unused == [status |-> "unused", dispatched |-> FALSE, rev |-> 0]
NoBackup == [at |-> "idle", ledger |-> {}, journal |-> [o \in Ops |-> Unused]]

StateTypeOK ==
  /\ rev \in Nat /\ ledger \subseteq Ops /\ pause \in BOOLEAN /\ flight \subseteq Ops
  /\ \A o \in Ops : /\ op[o].status \in {"unused", "pending", "applied", "failed", "partial"}
                    /\ journal[o].status \in {"unused", "pending", "applied", "failed", "partial"}
  /\ attempt \in [Ops -> {"none", "pending", "unknown", "verified", "done", "refused"}]
  /\ busy \in Ops \union {None}
  /\ backup.at \in {"idle", "first", "pause", "second", "dump", "snapshot", "check", "published"}
  /\ faults \in 0..MaxFaults /\ restarts \in 0..MaxRestarts

StateInit ==
  /\ rev = 1 /\ ledger = {} /\ pause = FALSE /\ flight = {}
  /\ op = [o \in Ops |-> Unused] /\ journal = [o \in Ops |-> Unused]
  /\ attempt = [o \in Ops |-> "none"] /\ busy = None
  /\ sends = [o \in Ops |-> 0] /\ cut = {}
  /\ backup = NoBackup
  /\ faults = 0 /\ restarts = 0

Free == busy = None

Record(o, r) == op' = [op EXCEPT ![o] = r]
Journalled(o, r) == journal' = [journal EXCEPT ![o] = r]

-----------------------------------------------------------------------------
(* The operation                                                              *)

(* buildExtensionState: state.preview must show the revision the request      *)
(* names; the plan is journalled.  A Run's proposal has an Attempt.           *)
Plan(o, proposed) ==
  /\ Free /\ op[o] = Unused /\ \A p \in Ops : p < o => op[p] # Unused
  /\ LET r == [status |-> "pending", dispatched |-> FALSE, rev |-> rev] IN
       Record(o, r) /\ Journalled(o, r)
  /\ attempt' = [attempt EXCEPT ![o] = IF proposed THEN "pending" ELSE "none"]
  /\ UNCHANGED <<extension, busy, sends, cut, backup, limits>>

(* markUnknown, settleInvalidProposal: the Run learns of it.                  *)
Told(o, s) == attempt' = [attempt EXCEPT ![o] = IF @ = "pending" THEN s ELSE @]

(* decideControlChange on an operation whose intent was already journalled.   *)
Redecide(o) ==
  /\ Free /\ op[o].status = "pending" /\ op[o].dispatched
  /\ LET r == [op[o] EXCEPT !.status = "partial"] IN Record(o, r) /\ Journalled(o, r)
  /\ Told(o, "unknown")
  /\ UNCHANGED <<extension, busy, sends, cut, backup, limits>>

(* applyExtensionState: the intent cannot be journalled.                      *)
DispatchUnlogged(o) ==
  /\ Free /\ op[o].status = "pending" /\ ~op[o].dispatched /\ faults < MaxFaults
  /\ faults' = faults + 1
  /\ Record(o, [op[o] EXCEPT !.status = "failed", !.dispatched = TRUE])
  /\ Told(o, "refused")
  /\ journal' \in {journal, [journal EXCEPT ![o] = op'[o]]}
  /\ UNCHANGED <<extension, busy, sends, cut, backup, restarts>>

(* applyExtensionState: the intent is journalled, then the request is sent.   *)
Dispatch(o) ==
  /\ Free /\ op[o].status = "pending" /\ ~op[o].dispatched
  /\ LET r == [op[o] EXCEPT !.dispatched = TRUE] IN Record(o, r) /\ Journalled(o, r)
  /\ busy' = o /\ flight' = flight \union {o} /\ sends' = [sends EXCEPT ![o] = @ + 1]
  /\ UNCHANGED <<rev, ledger, pause, attempt, cut, backup, limits>>

(* The extension: commit, or refuse.                                          *)
ExtCommit(o) ==
  /\ o \in flight /\ ~pause /\ op[o].rev = rev
  /\ flight' = flight \ {o} /\ ledger' = ledger \union {o} /\ rev' = rev + 1
  /\ UNCHANGED <<pause, service, backup, limits>>

ExtRefuse(o) ==
  /\ o \in flight /\ (pause \/ op[o].rev # rev)
  /\ flight' = flight \ {o}
  /\ UNCHANGED <<rev, ledger, pause, service, backup, limits>>

(* The decision is over; its journal line may fail to be written.             *)
SettleChange(o, status, told) ==
  /\ Record(o, [op[o] EXCEPT !.status = status])
  /\ \/ Journalled(o, op'[o]) /\ UNCHANGED faults
     \/ faults < MaxFaults /\ faults' = faults + 1 /\ UNCHANGED journal
  /\ Told(o, told) /\ busy' = None

(* The answer: the change is applied, or certainly refused.                   *)
ApplyAnswered(o) ==
  /\ busy = o /\ o \notin flight /\ o \notin cut
  /\ IF o \in ledger THEN SettleChange(o, "applied", "done")
     ELSE SettleChange(o, "failed", "refused")
  /\ UNCHANGED <<extension, sends, cut, backup, restarts>>

(* No answer in ten seconds, or an answer that is not this operation's: the   *)
(* outcome is unknown.                                                        *)
Timeout(o) ==
  /\ busy = o /\ SettleChange(o, "partial", "unknown")
  /\ UNCHANGED <<extension, sends, cut, backup, restarts>>

(* The process exits, and its pause with it.  What was not committed is lost. *)
ProcessExit ==
  /\ faults < MaxFaults /\ faults' = faults + 1
  /\ pause' = FALSE /\ flight' = {}
  /\ cut' = IF Free THEN cut ELSE cut \union {busy}
  /\ UNCHANGED <<rev, ledger, op, journal, attempt, busy, sends, backup, restarts>>

(* RPCClient.fail: the waiting call gets the read loop's error, io.EOF, or    *)
(* ErrRPCClosed, as select chooses; workflowOutcomeUnknown knows the second.  *)
CutOff(o) ==
  /\ busy = o /\ o \in cut
  /\ SettleChange(o, "failed", "refused") \/ SettleChange(o, "partial", "unknown")
  /\ UNCHANGED <<extension, sends, cut, backup, restarts>>

(* settleReconciledExtension: a pending Attempt is finished, an unknown one   *)
(* stays unknown and gets a verification receipt; the Run is completed.       *)
Reconciled(o) == [attempt EXCEPT ![o] = CASE @ = "pending" -> "done"
                                          [] @ = "unknown" -> "verified"
                                          [] OTHER -> @]

ReconcileBlind(o) ==
  /\ Free /\ op[o].dispatched
  /\ LET r == [op[o] EXCEPT !.status = "applied"] IN Record(o, r) /\ Journalled(o, r)
  /\ attempt' = Reconciled(o)
  /\ UNCHANGED <<extension, busy, sends, cut, backup, limits>>

(* ReconcileExtensionChange: state.result of a dispatched operation.          *)
Reconcile(o) ==
  /\ Free /\ op[o].dispatched
  /\ o \in ledger \/ op[o].status = "applied"
  /\ LET r == [op[o] EXCEPT !.status = "applied"] IN Record(o, r) /\ Journalled(o, r)
  /\ attempt' = Reconciled(o)
  /\ UNCHANGED <<extension, busy, sends, cut, backup, limits>>

(* The Owner restarts: the process goes with it, operations are what the      *)
(* journal says, recoverAppliedProposals settles the Attempts.                *)
Restart ==
  /\ restarts < MaxRestarts /\ restarts' = restarts + 1
  /\ op' = journal /\ busy' = None /\ flight' = {} /\ pause' = FALSE /\ cut' = cut
  /\ attempt' = [o \in Ops |-> CASE journal[o].status = "applied" -> Reconciled(o)[o]
                                 [] journal[o].status = "failed" /\ attempt[o] = "pending" -> "refused"
                                 [] OTHER -> attempt[o]]
  /\ backup' = IF backup.at = "published" THEN backup ELSE NoBackup
  /\ UNCHANGED <<rev, ledger, journal, sends, faults>>

-----------------------------------------------------------------------------
(* BackupExtensionPair                                                        *)

UnresolvedChanges == {o \in Ops : op[o].dispatched /\ op[o].status \notin {"applied", "failed"}}

(* reconcileExtensionWrites: each unresolved operation is looked up; one that *)
(* the ledger does not have ends the backup.                                  *)
ReconcileWrites(next) ==
  /\ Free
  /\ IF UnresolvedChanges \subseteq ledger
     THEN /\ op' = [o \in Ops |-> IF o \in UnresolvedChanges
                                   THEN [op[o] EXCEPT !.status = "applied"] ELSE op[o]]
          /\ journal' = [o \in Ops |-> IF o \in UnresolvedChanges THEN op'[o] ELSE journal[o]]
          /\ attempt' = [o \in Ops |-> IF o \in UnresolvedChanges THEN Reconciled(o)[o] ELSE attempt[o]]
          /\ backup' = [backup EXCEPT !.at = next]
     ELSE backup' = NoBackup /\ UNCHANGED <<op, journal, attempt>>
  /\ UNCHANGED <<extension, busy, sends, cut, limits>>

BackupFirst == backup.at = "idle" /\ ReconcileWrites("first")

(* state.pause.                                                               *)
BackupPause ==
  /\ backup.at = "first" /\ pause' = TRUE /\ backup' = [backup EXCEPT !.at = "pause"]
  /\ UNCHANGED <<rev, ledger, flight, service, limits>>

BackupSecond == backup.at = "pause" /\ ReconcileWrites("second")

(* The extension's sources, then pg_dump of its database.                     *)
BackupDump ==
  /\ backup.at = "second" /\ backup' = [backup EXCEPT !.at = "dump", !.ledger = ledger]
  /\ UNCHANGED <<extension, service, limits>>

(* With control.mu: the journal, and the snapshot of the Core.                *)
BackupSnapshot ==
  /\ backup.at = "dump" /\ Free
  /\ backup' = [backup EXCEPT !.at = "snapshot", !.journal = journal]
  /\ UNCHANGED <<extension, service, limits>>

(* state.pause_status: published only if the pause is still in force; then    *)
(* state.resume.                                                              *)
BackupPublish ==
  /\ backup.at = "snapshot"
  /\ backup' = IF pause THEN [backup EXCEPT !.at = "published"] ELSE NoBackup
  /\ pause' = FALSE
  /\ UNCHANGED <<rev, ledger, flight, service, limits>>

(* Any step fails: the stage is removed, state.resume.                        *)
BackupFail ==
  /\ backup.at \notin {"idle", "published"} /\ backup' = NoBackup /\ pause' = FALSE
  /\ UNCHANGED <<rev, ledger, flight, service, limits>>

(* The deadline of the pause passes.                                          *)
PauseExpires ==
  /\ pause /\ pause' = FALSE
  /\ UNCHANGED <<rev, ledger, flight, service, backup, limits>>

-----------------------------------------------------------------------------
StateNext ==
  \/ \E o \in Ops : \/ \E proposed \in BOOLEAN : Plan(o, proposed)
                    \/ Redecide(o) \/ DispatchUnlogged(o) \/ Dispatch(o)
                    \/ ExtCommit(o) \/ ExtRefuse(o)
                    \/ ApplyAnswered(o) \/ Timeout(o) \/ CutOff(o) \/ Reconcile(o)
  \/ ProcessExit \/ Restart
  \/ BackupFirst \/ BackupPause \/ BackupSecond \/ BackupDump \/ BackupSnapshot \/ BackupPublish
  \/ BackupFail \/ PauseExpires

StateSpec == StateInit /\ [][StateNext]_stateVars

-----------------------------------------------------------------------------
(* A change is sent to the extension at most once, through restarts and       *)
(* repeated decisions (extension_state.go applyExtensionState: "never         *)
(* automatically issue another state.apply").                                 *)
SentOnce == \A o \in Ops : sends[o] <= 1

(* What the Owner records as applied the extension has committed, and what an *)
(* Attempt's receipt claims as verified too (extension_state.go               *)
(* ReconcileExtensionChange, settleReconciledExtension).                      *)
AppliedIsCommitted ==
  \A o \in Ops : op[o].status = "applied" \/ attempt[o] = "verified" => o \in ledger

(* A change recorded as failed will not be made any more, and it was made     *)
(* only if the process died after committing it, before it answered; such an  *)
(* operation can still be looked up (extension_state.go applyExtensionState,  *)
(* ReconcileExtensionChange; the io.EOF of extensions.go                      *)
(* workflowOutcomeUnknown).                                                   *)
FailedIsNot ==
  \A o \in Ops : op[o].status = "failed" =>
     /\ o \notin flight
     /\ o \in ledger => o \in cut /\ op[o].dispatched

(* A published pair fits together: each change in the extension's dump is one *)
(* the journal copy knows it sent, and each change the journal copy calls     *)
(* applied is in the dump (extension_backup.go BackupExtensionPair).          *)
PairConsistent ==
  backup.at = "published" =>
    /\ \A o \in backup.ledger : backup.journal[o].dispatched
    /\ \A o \in Ops : backup.journal[o].status = "applied" => o \in backup.ledger

(* What the Owner records about an extension's state is what the extension    *)
(* did, and a published pair of backups says the same of both                 *)
(* (extension_state.go, extension_backup.go).                                 *)
StateHonest == StateTypeOK /\ SentOnce /\ AppliedIsCommitted /\ FailedIsNot /\ PairConsistent
=============================================================================
