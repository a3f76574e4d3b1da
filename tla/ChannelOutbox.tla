---------------------------- MODULE ChannelOutbox ----------------------------
(***************************************************************************)
(* The outbox of one channel connection: ChannelBridge.perform, Outbox and *)
(* Receipt (internal/harness/channel_*.go), the delivery of a Run's reply, *)
(* and the transport process that fetches operations, calls the platform   *)
(* and reports back (internal/channelplugin).                              *)
(*                                                                         *)
(* An operation is a row of fa.meta.  The transport polls; each poll leases *)
(* an operation and records a new dispatch.  The platform call may succeed, *)
(* fail for certain or end uncertainly, and its receipt may be lost, late   *)
(* or repeated.  The Owner and the transport crash independently.          *)
(***************************************************************************)
EXTENDS Naturals, FiniteSets

CONSTANTS
  Ops,           \* operations, 1..n in the order of their keys
  Mixes,         \* what the operations are: functions from Ops to
                 \* "reply" (text of a Run), "file" or "download"
  MaxAttempts,   \* dispatches of one operation (3 in the code)
  Batch,         \* LIMIT of one poll (8 in the code)
  Contents,      \* what a download may return
  MaxLoad        \* bound: operations begun, plus changes of the grant, crashes,
                 \* failed polls and sends, lost and repeated receipts

\* What the proofs assume of them.
OutboxAssumption ==
  IsFiniteSet(Ops) /\ MaxAttempts \in Nat /\ MaxLoad \in Nat /\ 0 \notin Contents

VARIABLES
  kind,      \* one of Mixes
  op,        \* the operation rows
  claim,     \* channel/send/<run>/<part>: the claim of a reply
  deliverer, \* Deliver, for each reply
  mirror,    \* message ids under which the operation is in fa.messages
  file,      \* channel-downloads/<id>: content on disk, 0 when absent
  rev,       \* revision of the enabled Telegram grant
  batch,     \* dispatches the transport has fetched and not yet sent
  wire,      \* receipts on their way to the Owner
  platform,  \* platform[o]: dispatches the platform has carried out
  faults

vars == <<kind, op, claim, deliverer, mirror, file, rev, batch, wire, platform, faults>>

Dispatches == 1..MaxAttempts
Done(o) == IF kind[o] = "download" THEN "downloaded" ELSE "sent"

\* disp[d]: the d-th dispatch; leased: next_dispatch_ms lies in the future;
\* msg: the dispatch whose message id was adopted; rev: the revision of the
\* grant it was queued under; data: hash of the downloaded content.
NoOp == [state |-> "none", attempts |-> 0, disp |-> [d \in Dispatches |-> "none"],
         leased |-> FALSE, msg |-> 0, projected |-> FALSE, rev |-> 0, data |-> 0]

Idle == [pc |-> "idle", rev |-> 0]

Receipt == [o : Ops, d : Dispatches, state : {"sent", "downloaded", "failed", "unknown"},
            retry : BOOLEAN, data : Contents \cup {0}]

TypeOK ==
  /\ kind \in Mixes
  /\ \A o \in Ops :
       /\ op[o].state \in {"none", "pending", "dispatching", "sent", "downloaded", "failed", "unknown"}
       /\ op[o].attempts \in 0..MaxAttempts
       /\ op[o].disp \in [Dispatches -> {"none", "dispatching", "sent", "downloaded", "failed", "unknown"}]
       /\ op[o].msg \in 0..MaxAttempts /\ op[o].rev \in 0..MaxLoad
       /\ claim[o] \in {"none", "dispatching", "queued", "sent", "failed"}
       /\ deliverer[o].pc \in {"idle", "claimed", "performed"}
       /\ mirror[o] \subseteq Dispatches /\ platform[o] \subseteq Dispatches
       /\ file[o] \in Contents \cup {0}
  /\ batch \subseteq Ops \X Dispatches /\ wire \subseteq Receipt
  /\ rev \in 0..MaxLoad /\ faults \in 0..MaxLoad

Init ==
  /\ kind \in Mixes
  /\ op = [o \in Ops |-> NoOp]
  /\ claim = [o \in Ops |-> "none"]
  /\ deliverer = [o \in Ops |-> Idle]
  /\ mirror = [o \in Ops |-> {}]
  /\ file = [o \in Ops |-> 0]
  /\ platform = [o \in Ops |-> {}]
  /\ rev = 0 /\ batch = {} /\ wire = {} /\ faults = 0

remote == <<batch, wire, platform>>
Load == faults + Cardinality({o \in Ops : claim[o] # "none" \/ op[o].state # "none"})
Fault == Load < MaxLoad /\ faults' = faults + 1

----------------------------------------------------------------------------
(* Queueing *)

\* perform: INSERT ... ON CONFLICT DO NOTHING, keyed by the content.
Inserted(o, r) == IF op[o].state = "none"
                  THEN [op EXCEPT ![o] = [NoOp EXCEPT !.state = "pending", !.rev = r]]
                  ELSE op

\* A download is queued by perform alone.
Perform(o) ==
  /\ kind[o] = "download" /\ op[o].state = "none" /\ Load < MaxLoad
  /\ op' = Inserted(o, rev)
  /\ UNCHANGED <<kind, claim, deliverer, mirror, file, rev, remote, faults>>

\* Deliver claims each part of a reply, and sendFileReceipt each file, before
\* anything is sent, and only while the Run's grant is current; what has been
\* claimed is skipped, also when Deliver is called again for the same Run.
Unclaimed(o) == kind[o] # "download" /\ deliverer[o] = Idle /\ claim[o] = "none"

DeliverClaims(o) ==
  /\ Unclaimed(o) /\ Load < MaxLoad
  /\ claim' = [claim EXCEPT ![o] = "dispatching"]
  /\ deliverer' = [deliverer EXCEPT ![o] = [pc |-> "claimed", rev |-> rev]]
  /\ UNCHANGED <<kind, op, mirror, file, rev, remote, faults>>

\* sendRunText queues it, unless the grant has changed since.
DeliverPerforms(o) ==
  /\ deliverer[o].pc = "claimed" /\ deliverer[o].rev = rev
  /\ op' = Inserted(o, rev)
  /\ deliverer' = [deliverer EXCEPT ![o].pc = "performed"]
  /\ UNCHANGED <<kind, claim, mirror, file, rev, remote, faults>>

DeliverRefused(o) ==
  /\ deliverer[o].pc = "claimed" /\ deliverer[o].rev # rev
  /\ deliverer' = [deliverer EXCEPT ![o] = Idle]
  /\ claim' = [claim EXCEPT ![o] = IF @ = "dispatching" THEN "failed" ELSE @]
  /\ UNCHANGED <<kind, op, mirror, file, rev, remote, faults>>

DeliverSettlesAlways(o) ==
  /\ deliverer[o].pc = "performed"
  /\ claim' = [claim EXCEPT ![o] = "queued"]
  /\ deliverer' = [deliverer EXCEPT ![o] = Idle]
  /\ UNCHANGED <<kind, op, mirror, file, rev, remote, faults>>

\* UPDATE ... WHERE state = 'dispatching': the receipt may have come first.
DeliverSettles(o) ==
  /\ deliverer[o].pc = "performed"
  /\ claim' = [claim EXCEPT ![o] = IF @ = "dispatching" THEN "queued" ELSE @]
  /\ deliverer' = [deliverer EXCEPT ![o] = Idle]
  /\ UNCHANGED <<kind, op, mirror, file, rev, remote, faults>>

----------------------------------------------------------------------------
(* Projection of a confirmed delivery: recordDelivered, then the flag *)

\* The mirror row of a reply is keyed by the adopted message id, that of a
\* file by the operation; either is inserted once.
Mirrored(o, row) == IF kind[o] = "file" /\ mirror[o] # {} THEN mirror[o]
                    ELSE mirror[o] \cup {row.msg}

\* The rows of S are projected, that of part only as far as the connection, the
\* Owner or the database lets it: each statement is committed on its own.
Project(S, part, far, ops) ==
  /\ claim' = [o \in Ops |-> IF /\ kind[o] = "reply"
                                /\ o \in S \/ (o \in part /\ far # "nothing")
                             THEN "sent" ELSE claim[o]]
  /\ mirror' = [o \in Ops |-> IF o \in S \/ (o \in part /\ far = "mirror")
                              THEN Mirrored(o, ops[o]) ELSE mirror[o]]
  /\ op' = [o \in Ops |-> IF o \in S THEN [ops[o] EXCEPT !.projected = TRUE] ELSE ops[o]]

Extents == {"nothing", "claim", "mirror"}

----------------------------------------------------------------------------
(* Outbox *)

Unprojected(o) == op[o].state = "sent" /\ ~op[o].projected

Due(o) == /\ op[o].state \in {"pending", "dispatching", "unknown"}
          /\ op[o].attempts < MaxAttempts /\ ~op[o].leased

\* The query: eligible rows in the order of their keys, at most Batch.
Window == {o \in Ops : /\ Unprojected(o) \/ Due(o)
                       /\ Cardinality({p \in Ops : p < o /\ (Unprojected(p) \/ Due(p))}) < Batch}

\* A row queued under another revision of the grant is passed over, and a file
\* ends the batch, so that the response stays small.
Current(o) == Due(o) /\ op[o].rev = rev
Seen == {o \in Window : ~\E p \in Window : Current(p) /\ p < o /\ kind[p] = "file"}

Leased(o) == LET n == op[o].attempts + 1
             IN  [op[o] EXCEPT !.state = "dispatching", !.attempts = n,
                               !.leased = TRUE, !.disp = [op[o].disp EXCEPT ![n] = "dispatching"]]

\* One poll.  It gets as far as the row at which something fails; the dispatches
\* of the rows before it stay recorded, with nobody to carry them out, and so
\* they do when the response is lost.
Poll(failed, far, arrives) ==
  LET seen == {o \in Seen : \A f \in failed : o < f}
      sent == {o \in seen : Current(o)}
  IN
  /\ batch = {} /\ Window # {}
  /\ Project({o \in seen : Unprojected(o)}, {o \in failed : Unprojected(o)}, far,
             [o \in Ops |-> IF o \in sent THEN Leased(o) ELSE op[o]])
  /\ IF arrives THEN batch' = {<<o, op[o].attempts + 1>> : o \in sent} /\ UNCHANGED faults
                ELSE batch' = {} /\ Fault
  /\ UNCHANGED <<kind, deliverer, file, rev, wire, platform>>

Outbox == \/ Poll({}, "nothing", TRUE) \/ Poll({}, "nothing", FALSE)
          \/ \E o \in Seen, far \in Extents : Poll({o}, far, FALSE)

----------------------------------------------------------------------------
(* The transport process and the platform *)

\* The platform call of one fetched dispatch, and the receipt it leads to.
\* "failed" is certain; "unknown" may or may not have been carried out.
Send(o, d, state, reached, retry, data) ==
  /\ <<o, d>> \in batch
  /\ state = Done(o) => reached
  /\ state = "failed" => ~reached
  /\ retry => state # Done(o)
  /\ (data # 0) <=> (state = "downloaded")
  /\ batch' = batch \ {<<o, d>>}
  /\ platform' = [platform EXCEPT ![o] = IF reached THEN @ \cup {d} ELSE @]
  /\ wire' = wire \cup {[o |-> o, d |-> d, state |-> state, retry |-> retry, data |-> data]}
  /\ IF state = Done(o) THEN UNCHANGED faults ELSE Fault
  /\ UNCHANGED <<kind, op, claim, deliverer, mirror, file, rev>>

LoseReceipt(r) ==
  /\ r \in wire
  /\ wire' = wire \ {r} /\ Fault
  /\ UNCHANGED <<kind, op, claim, deliverer, mirror, file, rev, batch, platform>>

----------------------------------------------------------------------------
(* Receipt *)

Succeeded(s) == s \in {"sent", "downloaded"}

\* A dispatch that is known to have succeeded accepts only the same receipt.
Accepts(r) ==
  /\ Succeeded(op[r.o].disp[r.d]) => op[r.o].disp[r.d] = r.state
  /\ r.state = "downloaded" => /\ op[r.o].state = "downloaded" => op[r.o].data = r.data
                               /\ file[r.o] \in {0, r.data}

AppliedToAny(r) ==
  LET row == [op[r.o] EXCEPT !.disp = [@ EXCEPT ![r.d] = r.state],
                             !.data = IF r.state = "downloaded" THEN r.data ELSE @] IN
  [row EXCEPT !.state = IF r.state = "failed" /\ r.retry THEN "pending" ELSE r.state,
              !.msg = IF r.state = "sent" THEN r.d ELSE 0]

\* Any success wins; another outcome counts for the current dispatch only, and
\* never over a success.  A retry hint turns a certain failure into a delay.
Applied(r) ==
  LET row == op[r.o]
      seen == row.disp[r.d]
      counts == ~Succeeded(row.state) /\ (Succeeded(r.state) \/ r.d = row.attempts)
  IN  [state |-> IF ~counts THEN row.state
                 ELSE IF r.state = "failed" /\ r.retry THEN "pending" ELSE r.state,
       attempts |-> row.attempts,
       disp |-> [row.disp EXCEPT ![r.d] = IF Succeeded(seen) THEN seen ELSE r.state],
       leased |-> row.leased \/ (counts /\ r.retry),
       msg |-> IF ~counts THEN row.msg ELSE IF r.state = "sent" THEN r.d ELSE 0,
       projected |-> row.projected, rev |-> row.rev,
       data |-> IF r.state = "downloaded" THEN r.data ELSE row.data]

\* The receipt commits and a sent operation is projected at once.  The
\* transport keeps a receipt whose response it did not see, and repeats it.
ReceiptArrives(r) ==
  LET ops == [op EXCEPT ![r.o] = Applied(r)]
      S == IF ops[r.o].state = "sent" THEN {r.o} ELSE {}
  IN
  /\ r \in wire /\ Accepts(r)
  /\ file' = [file EXCEPT ![r.o] = IF r.state = "downloaded" THEN r.data ELSE @]
  /\ \/ Project(S, {}, "nothing", ops) /\ wire' = wire \ {r} /\ UNCHANGED faults
     \/ Project(S, {}, "nothing", ops) /\ wire' = wire /\ Fault
     \/ S # {} /\ wire' = wire /\ Fault /\ \E far \in Extents : Project({}, S, far, ops)
  /\ UNCHANGED <<kind, deliverer, rev, batch, platform>>

\* saveDownload renames the file into place before the receipt commits.
DownloadSavedOnly(r) ==
  /\ r \in wire /\ r.state = "downloaded" /\ Accepts(r) /\ file[r.o] # r.data
  /\ file' = [file EXCEPT ![r.o] = r.data] /\ Fault
  /\ UNCHANGED <<kind, op, claim, deliverer, mirror, rev, remote>>

----------------------------------------------------------------------------
(* Time, grants and crashes *)

\* Two minutes after a dispatch, or the platform's retry delay, have passed.
LeaseExpires(o) ==
  /\ op[o].leased /\ ~Succeeded(op[o].state)
  /\ op' = [op EXCEPT ![o].leased = FALSE]
  /\ UNCHANGED <<kind, claim, deliverer, mirror, file, rev, remote, faults>>

\* applyTelegramAccess: the revision only grows, also when access is renewed.
GrantChanges ==
  /\ rev' = rev + 1 /\ Fault
  /\ UNCHANGED <<kind, op, claim, deliverer, mirror, file, remote>>

\* The new Owner has another generation: what the old transport still holds is
\* refused, and the transport starts again.
OwnerRestarts ==
  /\ Fault
  /\ deliverer' = [o \in Ops |-> Idle]
  /\ batch' = {} /\ wire' = {}
  /\ UNCHANGED <<kind, op, claim, mirror, file, rev, platform>>

TransportRestarts ==
  /\ Fault
  /\ batch' = {}
  /\ UNCHANGED <<kind, op, claim, deliverer, mirror, file, rev, wire, platform>>

SendOnce == \E b \in batch, s \in {"sent", "downloaded", "failed", "unknown"},
              reached \in BOOLEAN, retry \in BOOLEAN, data \in Contents \cup {0} :
              (Succeeded(s) => s = Done(b[1])) /\ Send(b[1], b[2], s, reached, retry, data)

Next ==
  \/ \E o \in Ops : \/ Perform(o) \/ DeliverClaims(o) \/ DeliverPerforms(o)
                    \/ DeliverRefused(o) \/ DeliverSettles(o) \/ LeaseExpires(o)
  \/ Outbox \/ SendOnce
  \/ \E r \in wire : ReceiptArrives(r) \/ LoseReceipt(r) \/ DownloadSavedOnly(r)
  \/ GrantChanges \/ OwnerRestarts \/ TransportRestarts

Spec == Init /\ [][Next]_vars

----------------------------------------------------------------------------
(* Properties *)

\* A success of any dispatch is the operation's outcome, whatever later or
\* older dispatches report, and the operation is never sent without one that
\* the platform has really carried out.
SuccessWins ==
  \A o \in Ops :
    /\ (\E d \in Dispatches : Succeeded(op[o].disp[d])) <=> Succeeded(op[o].state)
    /\ op[o].state = "sent" => op[o].msg \in platform[o] /\ op[o].disp[op[o].msg] = "sent"

\* The public record shows an operation at most once, under the message id that
\* was adopted, although polls and receipts project it again after a failure.
MirroredOnce ==
  \A o \in Ops : mirror[o] # {} => op[o].state = "sent" /\ mirror[o] = {op[o].msg}

\* A reply that is projected is claimed as sent: the Deliver that queued it does
\* not put the claim back, however late it settles.
ClaimHonest ==
  \A o \in Ops : kind[o] = "reply" =>
    /\ op[o].projected => claim[o] = "sent"
    /\ claim[o] = "sent" => op[o].state = "sent"

\* What is on disk is what a finished download is recorded to be, also when two
\* dispatches returned different contents.
DownloadIsRecorded ==
  \A o \in Ops : op[o].state = "downloaded" => file[o] # 0 /\ file[o] = op[o].data

\* The platform never carries out more dispatches than the row records, so a
\* reply appears at most MaxAttempts times.
AttemptsRecorded ==
  \A o \in Ops : \A d \in platform[o] : d <= op[o].attempts /\ op[o].disp[d] # "none"

\* A confirmed delivery becomes part of the public record, unless operations of
\* an older grant take up the polls.
PassedOver(o) == Due(o) /\ op[o].rev # rev
ConfirmedIsProjected ==
  []<>((\E p \in Ops : PassedOver(p)) \/ (\A o \in Ops : ~Unprojected(o)))

\* The promise, with the row's state and the mirror as its phases.
Delivered == {o \in Ops : platform[o] # {}}
Phase == [o \in Ops |-> IF mirror[o] # {} THEN "public"
                       ELSE IF Succeeded(op[o].state) THEN "confirmed"
                       ELSE IF op[o].state = "none" THEN "absent" ELSE "queued"]
Promise == INSTANCE DeliveryPromise WITH done <- Delivered, phase <- Phase

\* The outbox implements DeliveryPromise: nothing is public that the platform is
\* not known to have, and no crash, retry or late receipt takes a step back.
KeepsPromise == Promise!Spec

\* The outbox records what the platform did, and shows it once.
OutboxHonest ==
  TypeOK /\ SuccessWins /\ MirroredOnce /\ ClaimHonest /\ DownloadIsRecorded /\ AttemptsRecorded
=============================================================================
