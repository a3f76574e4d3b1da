---------------------------- MODULE ChannelProofs ----------------------------
(***************************************************************************)
(* The two directions of a channel connection, for any operations, events,  *)
(* attempts, contents, Owners and faults.  The outbox keeps its promise:    *)
(* ChannelOutbox implements DeliveryPromise.  What the channel was told is   *)
(* accepted is kept (ChannelInbound).                                       *)
(*                                                                         *)
(* The invariant of the outbox speaks of one operation at a time: its row,  *)
(* its claim, its mirror, its file, and what the platform has carried out.  *)
(* What is on its way, fetched dispatches and receipts, must have been      *)
(* recorded first.  That of the inbound events relates the handler and the  *)
(* job to the rows they are about to write.                                 *)
(***************************************************************************)
EXTENDS ChannelOutbox, ChannelInbound, FiniteSetTheorems, TLAPS

DispStates == {"none", "dispatching", "sent", "downloaded", "failed", "unknown"}
OpRecord ==
  [state : {"none", "pending", "dispatching", "sent", "downloaded", "failed", "unknown"},
   attempts : 0..MaxAttempts, disp : [Dispatches -> DispStates], leased : BOOLEAN,
   msg : 0..MaxAttempts, projected : BOOLEAN, rev : 0..MaxLoad, data : Contents \cup {0}]

Types ==
  /\ kind \in Mixes /\ op \in [Ops -> OpRecord]
  /\ claim \in [Ops -> {"none", "dispatching", "queued", "sent", "failed"}]
  /\ deliverer \in [Ops -> [pc : {"idle", "claimed", "performed"}, rev : 0..MaxLoad]]
  /\ mirror \in [Ops -> SUBSET Dispatches] /\ platform \in [Ops -> SUBSET Dispatches]
  /\ file \in [Ops -> Contents \cup {0}]
  /\ batch \subseteq Ops \X Dispatches /\ wire \subseteq Receipt
  /\ rev \in 0..MaxLoad /\ faults \in 0..MaxLoad /\ rev <= faults

\* What is true of one operation: its kind k, row w, claim c, mirror m, the
\* dispatches pl the platform carried out, and the file f.
RowOK(k, w, c, m, pl, f) ==
  /\ \A d \in Dispatches :
       Succeeded(w.disp[d]) => /\ w.disp[d] = IF k = "download" THEN "downloaded" ELSE "sent"
                               /\ Succeeded(w.state)
  /\ w.state = "sent" => w.msg \in pl /\ w.disp[w.msg] = "sent"
  /\ w.state = "downloaded" => /\ f # 0 /\ f = w.data
                               /\ \E d \in pl : w.disp[d] = "downloaded"
  /\ m # {} => w.state = "sent" /\ m = {w.msg}
  /\ k = "reply" => /\ w.projected => c = "sent"
                    /\ c = "sent" => w.state = "sent"
  /\ \A d \in pl : d <= w.attempts /\ w.disp[d] # "none"
  /\ w.state = "none" => pl = {}
RowsOK == \A o \in Ops : RowOK(kind[o], op[o], claim[o], mirror[o], platform[o], file[o])

\* A dispatch is recorded before the transport has it.
BatchOK ==
  \A o \in Ops, d \in Dispatches : <<o, d>> \in batch =>
    op[o].state # "none" /\ d <= op[o].attempts /\ op[o].disp[d] # "none"

\* A receipt of a success is of something the platform has carried out.
WireOK ==
  \A r \in wire :
    /\ op[r.o].state # "none" /\ op[r.o].disp[r.d] # "none" /\ r.d <= op[r.o].attempts
    /\ Succeeded(r.state) => r.state = Done(r.o) /\ r.d \in platform[r.o]
    /\ r.state = "downloaded" <=> r.data # 0

Inv == Types /\ RowsOK /\ BatchOK /\ WireOK

-----------------------------------------------------------------------------
(* Rows *)

LEMMA NoOpRecord ==
  ASSUME OutboxAssumption, NEW r \in 0..MaxLoad
  PROVE  /\ NoOp \in OpRecord
         /\ [NoOp EXCEPT !.state = "pending", !.rev = r] \in OpRecord
<1>1. 0 \in 0..MaxAttempts /\ 0 \in 0..MaxLoad /\ [d \in Dispatches |-> "none"] \in [Dispatches -> DispStates]
  BY DEF OutboxAssumption, DispStates
<1>2. QED
  BY <1>1 DEF NoOp, OpRecord

LEMMA FlaggedRecord ==
  ASSUME NEW w \in OpRecord
  PROVE  [w EXCEPT !.projected = TRUE] \in OpRecord
BY DEF OpRecord

\* A queued row, where there was none.
LEMMA InsertedRow ==
  ASSUME NEW k, NEW w, NEW c, NEW m, NEW pl, NEW f, RowOK(k, w, c, m, pl, f), w.state = "none", NEW r
  PROVE  RowOK(k, [NoOp EXCEPT !.state = "pending", !.rev = r], c, m, pl, f)
BY DEF RowOK, NoOp, Succeeded

\* recordDelivered and the flag: the mirror row is inserted once, and the claim of a
\* reply says so before the row does.
Said(k, c) == IF k = "reply" THEN "sent" ELSE c

LEMMA ProjectedRow ==
  ASSUME NEW k, NEW w \in OpRecord, NEW c, NEW m, NEW pl, NEW f, RowOK(k, w, c, m, pl, f),
         w.state = "sent"
  PROVE  /\ RowOK(k, w, Said(k, c), m, pl, f)
         /\ RowOK(k, w, Said(k, c), {w.msg}, pl, f)
         /\ RowOK(k, [w EXCEPT !.projected = TRUE], Said(k, c), {w.msg}, pl, f)
<1>1. RowOK(k, w, Said(k, c), m, pl, f) /\ RowOK(k, w, Said(k, c), {w.msg}, pl, f)
  BY DEF RowOK, Said
<1>2. RowOK(k, [w EXCEPT !.projected = TRUE], Said(k, c), {w.msg}, pl, f)
  BY <1>1 DEF RowOK, OpRecord, Said
<1>3. QED
  BY <1>1, <1>2

\* Of a projection only this is used: the rows keep what they record, and what
\* enters the mirror has been sent.
Projects(ops) ==
  /\ op' \in [Ops -> OpRecord]
  /\ claim' \in [Ops -> {"none", "dispatching", "queued", "sent", "failed"}]
  /\ mirror' \in [Ops -> SUBSET Dispatches]
  /\ \A o \in Ops :
       /\ op'[o].state = ops[o].state /\ op'[o].attempts = ops[o].attempts /\ op'[o].disp = ops[o].disp
       /\ mirror'[o] = mirror[o] \/ (ops[o].state = "sent" /\ mirror'[o] # {})
       /\ RowOK(kind[o], op'[o], claim'[o], mirror'[o], platform[o], file'[o])

LEMMA ProjectStep ==
  ASSUME Types, NEW S, NEW part, NEW far, NEW ops \in [Ops -> OpRecord],
         Project(S, part, far, ops), \A o \in S \cup part : ops[o].state = "sent",
         \A o \in Ops : RowOK(kind[o], ops[o], claim[o], mirror[o], platform[o], file'[o])
  PROVE  Projects(ops)
<1>1. ASSUME NEW o \in Ops, ops[o].state = "sent"
      PROVE  ops[o].msg \in Dispatches
  BY <1>1 DEF Types, RowOK
<1>2. /\ claim' = [o \in Ops |-> IF kind[o] = "reply" /\ (o \in S \/ (o \in part /\ far # "nothing"))
                               THEN "sent" ELSE claim[o]]
      /\ mirror' = [o \in Ops |-> IF o \in S \/ (o \in part /\ far = "mirror")
                                THEN Mirrored(o, ops[o]) ELSE mirror[o]]
      /\ op' = [o \in Ops |-> IF o \in S THEN [ops[o] EXCEPT !.projected = TRUE] ELSE ops[o]]
  BY DEF Project
<1>3. ASSUME NEW o \in Ops, ops[o].state = "sent" PROVE Mirrored(o, ops[o]) = {ops[o].msg}
  <2>1. RowOK(kind[o], ops[o], claim[o], mirror[o], platform[o], file'[o])
    OBVIOUS
  <2>2. mirror[o] = {} \/ mirror[o] = {ops[o].msg}
    BY <2>1, <1>3 DEF RowOK
  <2>3. QED
    BY <2>2 DEF Mirrored
<1>4. op' \in [Ops -> OpRecord]
  <2>1. ASSUME NEW o \in Ops PROVE [ops[o] EXCEPT !.projected = TRUE] \in OpRecord
    <3>1. ops[o] \in OpRecord
      OBVIOUS
    <3>2. QED
      BY <3>1, FlaggedRecord
  <2>2. QED
    BY <1>2, <2>1
<1>5. claim' \in [Ops -> {"none", "dispatching", "queued", "sent", "failed"}]
  BY <1>2 DEF Types
<1>6. mirror' \in [Ops -> SUBSET Dispatches]
  BY <1>1, <1>2, <1>3 DEF Types
<1>7. ASSUME NEW o \in Ops, ops[o].state = "sent"
      PROVE  /\ RowOK(kind[o], ops[o], Said(kind[o], claim[o]), mirror[o], platform[o], file'[o])
             /\ RowOK(kind[o], ops[o], Said(kind[o], claim[o]), {ops[o].msg}, platform[o], file'[o])
             /\ RowOK(kind[o], [ops[o] EXCEPT !.projected = TRUE], Said(kind[o], claim[o]),
                       {ops[o].msg}, platform[o], file'[o])
  <2>1. RowOK(kind[o], ops[o], claim[o], mirror[o], platform[o], file'[o]) /\ ops[o] \in OpRecord
    OBVIOUS
  <2>2. QED
    BY <2>1, <1>7, ProjectedRow
<1>8. ASSUME NEW o \in Ops
      PROVE  /\ op'[o].state = ops[o].state /\ op'[o].attempts = ops[o].attempts
             /\ op'[o].disp = ops[o].disp
             /\ mirror'[o] = mirror[o] \/ (ops[o].state = "sent" /\ mirror'[o] # {})
             /\ RowOK(kind[o], op'[o], claim'[o], mirror'[o], platform[o], file'[o])
  <2>1. CASE o \notin S \cup part
    BY <1>2, <2>1
  <2>2. CASE o \in S
    <3>1. /\ op'[o] = [ops[o] EXCEPT !.projected = TRUE] /\ mirror'[o] = {ops[o].msg}
          /\ claim'[o] = Said(kind[o], claim[o])
      BY <1>2, <1>3, <2>2 DEF Said
    <3>2. RowOK(kind[o], op'[o], claim'[o], mirror'[o], platform[o], file'[o])
      BY <2>2, <3>1, <1>7, ProjectedRow
    <3>3. QED
      BY <2>2, <3>1, <3>2 DEF OpRecord
  <2>3. CASE o \in part \ S
    <3>1. op'[o] = ops[o] /\ ops[o].state = "sent"
      BY <1>2, <2>3
    <3>2. CASE far = "nothing"
      BY <1>2, <2>3, <3>1, <3>2
    <3>3. CASE far # "nothing"
      <4>1. claim'[o] = Said(kind[o], claim[o])
        BY <1>2, <2>3, <3>3 DEF Said
      <4>2. mirror'[o] = mirror[o] \/ mirror'[o] = {ops[o].msg}
        BY <1>2, <1>3, <2>3, <3>1
      <4>3. QED
        BY <3>1, <4>1, <4>2, <1>7
    <3>4. QED
      BY <3>2, <3>3
  <2>4. QED
    BY <2>1, <2>2, <2>3
<1>9. QED
  BY <1>4, <1>5, <1>6, <1>8 DEF Projects

-----------------------------------------------------------------------------
(* Steps *)

\* What every step but that of the platform keeps: rows do not vanish, a success
\* stays one, and nothing leaves the mirror.
Kept ==
  /\ platform' = platform
  /\ \A o \in Ops : /\ op[o].state = "none" <=> op'[o].state = "none"
                    /\ Succeeded(op[o].state) => Succeeded(op'[o].state)
                    /\ mirror[o] # {} => mirror'[o] # {}

\* The load counts the faults.
LEMMA FaultFits ==
  ASSUME OutboxAssumption, Types, Load < MaxLoad
  PROVE  faults + 1 \in 0..MaxLoad /\ rev + 1 \in 0..MaxLoad /\ rev <= faults + 1
<1> DEFINE begun == {o \in Ops : claim[o] # "none" \/ op[o].state # "none"}
<1>1. Cardinality(begun) \in Nat
  BY FS_Subset, FS_CardinalityType DEF OutboxAssumption
<1>2. faults + Cardinality(begun) < MaxLoad
  BY DEF Load
<1> HIDE DEF begun
<1>3. QED
  BY <1>1, <1>2 DEF OutboxAssumption, Types

LEMMA InitInv ==
  ASSUME OutboxAssumption, Init
  PROVE  Inv
<1>0. 0 \in 0..MaxLoad
  BY DEF OutboxAssumption
<1>1. NoOp \in OpRecord /\ 0 \in 0..MaxLoad
  BY <1>0, NoOpRecord
<1>2. Types
  BY <1>1 DEF Init, Types, Idle, OutboxAssumption
<1>3. RowsOK
  BY DEF Init, RowsOK, RowOK, NoOp, Succeeded
<1>4. QED
  BY <1>2, <1>3 DEF Init, Inv, BatchOK, WireOK

\* perform, alone or for Deliver.
LEMMA QueueStep ==
  ASSUME OutboxAssumption, Inv, NEW o \in Ops, op' = Inserted(o, rev),
         UNCHANGED <<kind, claim, mirror, file, rev, remote, faults>>,
         deliverer' \in [Ops -> [pc : {"idle", "claimed", "performed"}, rev : 0..MaxLoad]]
  PROVE  Inv'
<1> DEFINE new == [NoOp EXCEPT !.state = "pending", !.rev = rev]
<1>1. new \in OpRecord /\ new.state = "pending"
  BY NoOpRecord DEF Inv, Types, NoOp
<1>2. CASE op[o].state = "none"
  <2>1. op' = [op EXCEPT ![o] = new]
    BY <1>2 DEF Inserted
  <2> HIDE DEF new
  <2>2. Types'
    BY <1>1, <2>1 DEF Inv, Types, remote
  <2>3. RowsOK'
    <3>1. RowOK(kind[o], op[o], claim[o], mirror[o], platform[o], file[o])
      BY DEF Inv, RowsOK
    <3>2. RowOK(kind[o], new, claim[o], mirror[o], platform[o], file[o])
      BY <1>2, <3>1, InsertedRow DEF new
    <3>3. QED
      BY <2>1, <3>2 DEF Inv, Types, RowsOK, remote
  <2>4. BatchOK'
    BY <1>2, <2>1 DEF Inv, Types, BatchOK, remote
  <2>5. WireOK'
    <3>1. \A r \in wire : r.o # o
      BY <1>2 DEF Inv, WireOK
    <3>2. \A r \in wire : r.o \in Ops /\ op'[r.o] = op[r.o]
      BY <2>1, <3>1 DEF Inv, Types, Receipt
    <3>3. QED
      BY <3>2 DEF Inv, WireOK, remote, Done
  <2>6. QED
    BY <2>2, <2>3, <2>4, <2>5 DEF Inv
<1>3. CASE op[o].state # "none"
  BY <1>3 DEF Inserted, Inv, Types, RowsOK, BatchOK, WireOK, remote, Done
<1>4. QED
  BY <1>2, <1>3

\* Deliver writes only its claim, and never over one that says sent.
LEMMA ClaimStep ==
  ASSUME Inv, NEW o \in Ops, claim[o] = "none" \/ claim[o] = "dispatching",
         NEW c \in {"dispatching", "queued", "failed"}, claim' = [claim EXCEPT ![o] = c],
         UNCHANGED <<kind, op, mirror, file, rev, remote, faults>>,
         deliverer' \in [Ops -> [pc : {"idle", "claimed", "performed"}, rev : 0..MaxLoad]]
  PROVE  Inv' /\ Kept
<1>1. Types'
  BY DEF Inv, Types, remote
<1>2. RowsOK'
  <2>1. RowOK(kind[o], op[o], c, mirror[o], platform[o], file[o])
    BY DEF Inv, RowsOK, RowOK
  <2>2. QED
    BY <2>1 DEF Inv, Types, RowsOK, remote
<1>3. QED
  BY <1>1, <1>2 DEF Inv, BatchOK, WireOK, remote, Done, Kept

\* A lease: the dispatch is recorded as the next attempt.
Lease(w) == [w EXCEPT !.state = "dispatching", !.attempts = w.attempts + 1, !.leased = TRUE,
                      !.disp = [w.disp EXCEPT ![w.attempts + 1] = "dispatching"]]

LEMMA LeasedRow ==
  ASSUME NEW k, NEW w \in OpRecord, NEW c, NEW m, NEW pl \in SUBSET Dispatches, NEW f,
         RowOK(k, w, c, m, pl, f), MaxAttempts \in Nat,
         w.state \in {"pending", "dispatching", "unknown"}, w.attempts < MaxAttempts
  PROVE  /\ Lease(w) \in OpRecord /\ RowOK(k, Lease(w), c, m, pl, f) /\ w.attempts + 1 \in Dispatches
         /\ Lease(w).state = "dispatching" /\ Lease(w).attempts = w.attempts + 1
         /\ Lease(w).disp[w.attempts + 1] = "dispatching" /\ w.attempts <= w.attempts + 1
         /\ \A d \in Dispatches : w.disp[d] # "none" => Lease(w).disp[d] # "none"
<1> DEFINE n == w.attempts + 1
           v == Lease(w)
<1>1. /\ w.attempts \in 0..MaxAttempts /\ n \in Dispatches /\ n \in 0..MaxAttempts
      /\ w.disp \in [Dispatches -> DispStates]
  BY DEF OpRecord, Dispatches
<1>2. [w.disp EXCEPT ![n] = "dispatching"] \in [Dispatches -> DispStates]
  BY <1>1 DEF DispStates
<1>3. v \in OpRecord
  BY <1>1, <1>2 DEF OpRecord, Lease
<1>4. /\ v.state = "dispatching" /\ v.attempts = n /\ v.msg = w.msg /\ v.projected = w.projected
      /\ v.data = w.data /\ v.disp = [w.disp EXCEPT ![n] = "dispatching"]
  BY DEF OpRecord, Lease
<1>5. /\ w.attempts <= n /\ v.disp[n] = "dispatching"
      /\ \A d \in Dispatches : v.disp[d] = IF d = n THEN "dispatching" ELSE w.disp[d]
  BY <1>1, <1>4
<1>6. RowOK(k, v, c, m, pl, f)
  <2>1. \A d \in Dispatches : ~Succeeded(v.disp[d])
    BY <1>1, <1>5 DEF RowOK, Succeeded
  <2>2. m = {} /\ ~(k = "reply" /\ (w.projected \/ c = "sent"))
    BY DEF RowOK
  <2>3. \A d \in pl : d <= v.attempts /\ v.disp[d] # "none"
    <3>1. \A d \in pl : d <= w.attempts /\ w.disp[d] # "none" /\ d \in Int
      BY DEF RowOK, Dispatches
    <3>2. QED
      BY <1>1, <1>4, <1>5, <3>1
  <2>4. QED
    BY <1>4, <2>1, <2>2, <2>3 DEF RowOK
<1>7. QED
  BY <1>1, <1>3, <1>4, <1>5, <1>6

LEMMA PollStep ==
  ASSUME OutboxAssumption, Inv, NEW failed \in SUBSET Ops, NEW far, NEW arrives \in BOOLEAN,
         Poll(failed, far, arrives)
  PROVE  Inv' /\ Kept
<1> DEFINE seen == {o \in Seen : \A f \in failed : o < f}
           sent == {o \in seen : Current(o)}
           ops == [o \in Ops |-> IF o \in sent THEN Leased(o) ELSE op[o]]
<1>1. /\ Project({o \in seen : Unprojected(o)}, {o \in failed : Unprojected(o)}, far, ops)
      /\ batch' \subseteq {<<o, op[o].attempts + 1>> : o \in sent}
      /\ UNCHANGED <<kind, deliverer, file, rev, wire, platform>>
      /\ faults' = faults \/ (Load < MaxLoad /\ faults' = faults + 1)
  <2>1. Project({o \in seen : Unprojected(o)}, {o \in failed : Unprojected(o)}, far, ops)
    BY DEF Poll
  <2>2. QED
    BY DEF Poll, Fault
<1>2. seen \subseteq Ops /\ sent \subseteq Ops
  BY DEF Seen, Window
<1>3. \A o \in sent : op[o].state \in {"pending", "dispatching", "unknown"} /\ op[o].attempts < MaxAttempts
  BY DEF Current, Due
<1>4. ASSUME NEW o \in sent
      PROVE  /\ Leased(o) \in OpRecord /\ op[o].attempts + 1 \in Dispatches
             /\ RowOK(kind[o], Leased(o), claim[o], mirror[o], platform[o], file[o])
             /\ Leased(o).state = "dispatching" /\ Leased(o).attempts = op[o].attempts + 1
             /\ Leased(o).disp[op[o].attempts + 1] = "dispatching"
             /\ op[o].attempts <= op[o].attempts + 1
             /\ \A d \in Dispatches : op[o].disp[d] # "none" => Leased(o).disp[d] # "none"
  <2> HIDE DEF seen, sent, ops
  <2>1. /\ op[o] \in OpRecord /\ platform[o] \in SUBSET Dispatches /\ MaxAttempts \in Nat
        /\ RowOK(kind[o], op[o], claim[o], mirror[o], platform[o], file[o])
    BY <1>2 DEF Inv, Types, RowsOK, OutboxAssumption
  <2>2. op[o].state \in {"pending", "dispatching", "unknown"} /\ op[o].attempts < MaxAttempts
    BY <1>3
  <2>3. Leased(o) = Lease(op[o])
    BY DEF Leased, Lease
  <2>4. QED
    BY <2>1, <2>2, <2>3, LeasedRow
<1> HIDE DEF sent
<1>5. ops \in [Ops -> OpRecord]
  BY <1>4 DEF Inv, Types
<1>6. \A o \in Ops : ops[o] = IF o \in sent THEN Leased(o) ELSE op[o]
  OBVIOUS
<1>7. \A o \in {p \in seen : Unprojected(p)} \cup {p \in failed : Unprojected(p)} : ops[o].state = "sent"
  <2>1. ASSUME NEW o \in Ops, Unprojected(o) PROVE ops[o].state = "sent"
    BY <1>3, <1>6, <2>1 DEF Unprojected
  <2>2. QED
    BY <1>2, <2>1
<1> HIDE DEF ops, seen
<1>8. \A o \in Ops : RowOK(kind[o], ops[o], claim[o], mirror[o], platform[o], file'[o])
  BY <1>1, <1>4, <1>6 DEF Inv, RowsOK
<1>9. Projects(ops)
  BY <1>1, <1>5, <1>7, <1>8, ProjectStep DEF Inv
<1>10. batch' \subseteq Ops \X Dispatches
  BY <1>1, <1>2, <1>4
<1>11. Types'
  <2>1. faults' \in 0..MaxLoad /\ rev <= faults'
    BY <1>1, FaultFits DEF Inv, Types
  <2>2. QED
    BY <1>1, <1>9, <1>10, <2>1 DEF Inv, Types, Projects
<1>12. RowsOK'
  BY <1>1, <1>9 DEF RowsOK, Projects
<1>13. BatchOK'
  <2>1. \A o \in Ops, d \in Dispatches : <<o, d>> \in batch' =>
          o \in sent /\ d = op[o].attempts + 1
    BY <1>1
  <2>2. ASSUME NEW o \in sent
        PROVE  /\ op'[o].state # "none" /\ op[o].attempts + 1 <= op'[o].attempts
               /\ op'[o].disp[op[o].attempts + 1] # "none"
    BY <1>2, <1>4, <1>6, <1>9 DEF Projects, Dispatches
  <2>3. QED
    BY <2>1, <2>2 DEF BatchOK
<1>14. WireOK'
  <2>1. ASSUME NEW r \in wire
        PROVE  /\ op'[r.o].state # "none" /\ op'[r.o].disp[r.d] # "none" /\ r.d <= op'[r.o].attempts
    <3>1. r.o \in Ops /\ r.d \in Dispatches /\ op[r.o] \in OpRecord
      BY DEF Inv, Types, Receipt
    <3>2. op[r.o].state # "none" /\ op[r.o].disp[r.d] # "none" /\ r.d <= op[r.o].attempts
      BY DEF Inv, WireOK
    <3>3. /\ op'[r.o].state = ops[r.o].state /\ op'[r.o].attempts = ops[r.o].attempts
          /\ op'[r.o].disp = ops[r.o].disp
      BY <1>9, <3>1 DEF Projects
    <3>4. CASE r.o \notin sent
      BY <1>6, <3>1, <3>2, <3>3, <3>4
    <3>5. CASE r.o \in sent
      <4>1. r.d <= op[r.o].attempts + 1
        BY <3>1, <3>2 DEF OpRecord, Dispatches
      <4>2. QED
        BY <1>4, <1>6, <3>1, <3>2, <3>3, <3>5, <4>1
    <3>6. QED
      BY <3>4, <3>5
  <2>2. QED
    BY <1>1, <2>1 DEF Inv, WireOK, Done
<1>15. Kept
  <2>1. ASSUME NEW o \in Ops
        PROVE  /\ op[o].state = "none" <=> op'[o].state = "none"
               /\ Succeeded(op[o].state) => Succeeded(op'[o].state)
               /\ mirror[o] # {} => mirror'[o] # {}
    <3>1. op'[o].state = ops[o].state /\ (mirror'[o] = mirror[o] \/ mirror'[o] # {})
      BY <1>9 DEF Projects
    <3>2. op[o].state = "none" <=> op'[o].state = "none"
      BY <1>3, <1>4, <1>6, <3>1
    <3>3. Succeeded(op[o].state) => Succeeded(op'[o].state)
      BY <1>3, <1>6, <3>1 DEF Succeeded
    <3>4. QED
      BY <3>1, <3>2, <3>3
  <2>2. QED
    BY <1>1, <2>1 DEF Kept
<1>16. QED
  BY <1>11, <1>12, <1>13, <1>14, <1>15 DEF Inv

\* The platform acts on a dispatch that the row records, and before any receipt.
LEMMA SendStep ==
  ASSUME OutboxAssumption, Inv, NEW o, NEW d, NEW state \in {"sent", "downloaded", "failed", "unknown"},
         NEW reached \in BOOLEAN, NEW retry \in BOOLEAN, NEW data \in Contents \cup {0},
         Succeeded(state) => state = Done(o), Send(o, d, state, reached, retry, data)
  PROVE  Inv' /\ o \in Ops /\ op[o].state # "none"
<1> DEFINE r == [o |-> o, d |-> d, state |-> state, retry |-> retry, data |-> data]
<1>1. /\ <<o, d>> \in batch /\ batch' \subseteq batch /\ wire' = wire \cup {r}
      /\ platform' = [platform EXCEPT ![o] = IF reached THEN platform[o] \cup {d} ELSE platform[o]]
      /\ state = Done(o) => reached
      /\ data # 0 <=> state = "downloaded"
      /\ faults' = faults \/ (Load < MaxLoad /\ faults' = faults + 1)
      /\ UNCHANGED <<kind, op, claim, deliverer, mirror, file, rev>>
  BY DEF Send, Fault
<1>2. o \in Ops /\ d \in Dispatches
  BY <1>1 DEF Inv, Types
<1>3. op[o].state # "none" /\ d <= op[o].attempts /\ op[o].disp[d] # "none"
  BY <1>1, <1>2 DEF Inv, BatchOK
<1>4. r \in Receipt /\ r.o = o /\ r.d = d /\ r.state = state /\ r.data = data
  BY <1>2 DEF Receipt
<1> HIDE DEF r
<1>5. \A p \in Ops : platform[p] \subseteq platform'[p] /\ platform'[p] \subseteq Dispatches
  BY <1>1, <1>2 DEF Inv, Types
<1>6. Types'
  <2>1. faults' \in 0..MaxLoad /\ rev <= faults'
    BY <1>1, FaultFits DEF Inv, Types
  <2>2. platform' \in [Ops -> SUBSET Dispatches]
    BY <1>1, <1>2 DEF Inv, Types
  <2>3. QED
    BY <1>1, <1>4, <2>1, <2>2 DEF Inv, Types
<1>7. RowsOK'
  <2>1. ASSUME NEW p \in Ops
        PROVE  RowOK(kind[p], op[p], claim[p], mirror[p], platform'[p], file[p])
    <3>1. RowOK(kind[p], op[p], claim[p], mirror[p], platform[p], file[p])
      BY DEF Inv, RowsOK
    <3>2. CASE p # o
      BY <1>1, <3>1, <3>2 DEF Inv, Types
    <3>3. CASE p = o
      <4>1. platform'[p] = platform[p] \/ platform'[p] = platform[p] \cup {d}
        BY <1>1, <1>2, <3>3 DEF Inv, Types
      <4>2. RowOK(kind[p], op[p], claim[p], mirror[p], platform[p] \cup {d}, file[p])
        BY <1>3, <3>1, <3>3 DEF RowOK
      <4>3. QED
        BY <3>1, <4>1, <4>2
    <3>4. QED
      BY <3>2, <3>3
  <2>2. QED
    BY <1>1, <2>1 DEF RowsOK
<1>8. BatchOK'
  BY <1>1 DEF Inv, BatchOK
<1>9. WireOK'
  <2>1. Succeeded(state) => state = Done(o) /\ d \in platform'[o]
    BY <1>1, <1>2 DEF Inv, Types
  <2>2. \A q \in wire : q.o \in Ops
    BY DEF Inv, Types, Receipt
  <2>3. ASSUME NEW q \in wire'
        PROVE  /\ op[q.o].state # "none" /\ op[q.o].disp[q.d] # "none" /\ q.d <= op[q.o].attempts
               /\ Succeeded(q.state) => q.state = Done(q.o) /\ q.d \in platform'[q.o]
               /\ q.state = "downloaded" <=> q.data # 0
    <3>1. CASE q = r
      BY <1>1, <1>3, <1>4, <2>1, <3>1
    <3>2. CASE q \in wire
      BY <1>5, <2>2, <3>2 DEF Inv, WireOK
    <3>3. QED
      BY <1>1, <3>1, <3>2
  <2>4. QED
    BY <1>1, <2>3 DEF WireOK, Done
<1>10. QED
  BY <1>2, <1>3, <1>6, <1>7, <1>8, <1>9 DEF Inv

\* Receipt, on the row: a success wins, an older or a later outcome changes nothing of it.
Apply(w, r) ==
  LET seen == w.disp[r.d]
      counts == ~Succeeded(w.state) /\ (Succeeded(r.state) \/ r.d = w.attempts)
  IN  [state |-> IF ~counts THEN w.state
                 ELSE IF r.state = "failed" /\ r.retry THEN "pending" ELSE r.state,
       attempts |-> w.attempts,
       disp |-> [w.disp EXCEPT ![r.d] = IF Succeeded(seen) THEN seen ELSE r.state],
       leased |-> w.leased \/ (counts /\ r.retry),
       msg |-> IF ~counts THEN w.msg ELSE IF r.state = "sent" THEN r.d ELSE 0,
       projected |-> w.projected, rev |-> w.rev,
       data |-> IF r.state = "downloaded" THEN r.data ELSE w.data]

OnDisk(r, f) == IF r.state = "downloaded" THEN r.data ELSE f
Final(k) == IF k = "download" THEN "downloaded" ELSE "sent"

LEMMA AppliedRow ==
  ASSUME OutboxAssumption, NEW k, NEW w \in OpRecord, NEW c, NEW m, NEW pl \in SUBSET Dispatches, NEW f,
         NEW r \in Receipt, RowOK(k, w, c, m, pl, f), w.state # "none",
         Succeeded(r.state) => r.state = Final(k) /\ r.d \in pl,
         r.state = "downloaded" <=> r.data # 0
  PROVE  /\ Apply(w, r) \in OpRecord
         /\ RowOK(k, Apply(w, r), c, m, pl, OnDisk(r, f))
         /\ Apply(w, r).state # "none" /\ Apply(w, r).attempts = w.attempts
         /\ Succeeded(w.state) => Succeeded(Apply(w, r).state)
         /\ \A d \in Dispatches : w.disp[d] # "none" => Apply(w, r).disp[d] # "none"
<1> DEFINE v == Apply(w, r)
           counts == ~Succeeded(w.state) /\ (Succeeded(r.state) \/ r.d = w.attempts)
<1>1. /\ r.d \in Dispatches /\ r.state \in {"sent", "downloaded", "failed", "unknown"}
      /\ r.retry \in BOOLEAN /\ r.data \in Contents \cup {0}
  BY DEF Receipt
<1>2. /\ w.disp \in [Dispatches -> DispStates] /\ w.attempts \in 0..MaxAttempts /\ w.leased \in BOOLEAN
      /\ w.msg \in 0..MaxAttempts /\ w.projected \in BOOLEAN /\ w.rev \in 0..MaxLoad
      /\ w.data \in Contents \cup {0}
      /\ w.state \in {"none", "pending", "dispatching", "sent", "downloaded", "failed", "unknown"}
  BY DEF OpRecord
<1>3. /\ v.state = IF ~counts THEN w.state
                   ELSE IF r.state = "failed" /\ r.retry THEN "pending" ELSE r.state
      /\ v.attempts = w.attempts /\ v.projected = w.projected
      /\ v.msg = IF ~counts THEN w.msg ELSE IF r.state = "sent" THEN r.d ELSE 0
      /\ v.data = IF r.state = "downloaded" THEN r.data ELSE w.data
      /\ v.disp = [w.disp EXCEPT ![r.d] = IF Succeeded(w.disp[r.d]) THEN w.disp[r.d] ELSE r.state]
  BY DEF Apply
<1>4. \A d \in Dispatches : v.disp[d] = IF d = r.d /\ ~Succeeded(w.disp[r.d]) THEN r.state ELSE w.disp[d]
  BY <1>1, <1>2, <1>3
<1>5. v \in OpRecord
  <2>1. v.state \in {"none", "pending", "dispatching", "sent", "downloaded", "failed", "unknown"}
    BY <1>1, <1>2, <1>3
  <2>2. v.disp \in [Dispatches -> DispStates]
    BY <1>1, <1>2, <1>3 DEF DispStates
  <2>3. v.msg \in 0..MaxAttempts /\ v.data \in Contents \cup {0}
    BY <1>1, <1>2, <1>3 DEF Dispatches, OutboxAssumption
  <2> DEFINE l == w.leased \/ (counts /\ r.retry)
  <2>4. v = [state |-> v.state, attempts |-> w.attempts, disp |-> v.disp, leased |-> l, msg |-> v.msg,
             projected |-> w.projected, rev |-> w.rev, data |-> v.data]
    BY DEF Apply
  <2>5. l \in BOOLEAN
    OBVIOUS
  <2> HIDE DEF v, counts, l
  <2>6. [state |-> v.state, attempts |-> w.attempts, disp |-> v.disp, leased |-> l, msg |-> v.msg,
         projected |-> w.projected, rev |-> w.rev, data |-> v.data] \in OpRecord
    BY <1>2, <2>1, <2>2, <2>3, <2>5 DEF OpRecord
  <2>7. QED
    BY <2>4, <2>6
<1> HIDE DEF v
<1>6. \A d \in Dispatches : w.disp[d] # "none" => v.disp[d] # "none"
  BY <1>1, <1>4
<1>7. v.state # "none" /\ (Succeeded(w.state) => v.state = w.state)
  BY <1>1, <1>3
<1>8. RowOK(k, v, c, m, pl, OnDisk(r, f))
  <2>1. \A d \in Dispatches :
          Succeeded(v.disp[d]) => /\ v.disp[d] = IF k = "download" THEN "downloaded" ELSE "sent"
                                  /\ Succeeded(v.state)
    BY <1>1, <1>3, <1>4 DEF RowOK, Succeeded, Final
  <2>2. v.state = "sent" => v.msg \in pl /\ v.disp[v.msg] = "sent"
    BY <1>1, <1>3, <1>4 DEF RowOK, Succeeded, Final
  <2>3. v.state = "downloaded" => \E d \in pl : v.disp[d] = "downloaded"
    BY <1>1, <1>3, <1>4 DEF RowOK, Succeeded, Final
  <2>4. v.state = "downloaded" => OnDisk(r, f) # 0 /\ OnDisk(r, f) = v.data
    BY <1>1, <1>3 DEF RowOK, Succeeded, OnDisk
  <2>5. m # {} => v.state = "sent" /\ m = {v.msg}
    BY <1>3 DEF RowOK, Succeeded
  <2>6. k = "reply" => (v.projected => c = "sent") /\ (c = "sent" => v.state = "sent")
    BY <1>3 DEF RowOK, Succeeded
  <2>7. \A d \in pl : d <= v.attempts /\ v.disp[d] # "none"
    BY <1>3, <1>6 DEF RowOK
  <2>8. QED
    BY <1>7, <2>1, <2>2, <2>3, <2>4, <2>5, <2>6, <2>7 DEF RowOK
<1>9. QED
  BY <1>3, <1>5, <1>6, <1>7, <1>8 DEF v

LEMMA ReceiptStep ==
  ASSUME OutboxAssumption, Inv, NEW r \in wire, ReceiptArrives(r)
  PROVE  Inv' /\ Kept
<1> DEFINE ops == [op EXCEPT ![r.o] = Applied(r)]
           S == IF ops[r.o].state = "sent" THEN {r.o} ELSE {}
           f == OnDisk(r, file[r.o])
<1>1. /\ file' = [file EXCEPT ![r.o] = f]
      /\ UNCHANGED <<kind, deliverer, rev, batch, platform>>
      /\ wire' \subseteq wire
      /\ faults' = faults \/ (Load < MaxLoad /\ faults' = faults + 1)
  BY DEF ReceiptArrives, Fault, OnDisk
<1>2. PICK T, part, far : Project(T, part, far, ops) /\ T \cup part \subseteq S
  <2>1. Project(S, {}, "nothing", ops) \/ \E far : Project({}, S, far, ops)
    BY DEF ReceiptArrives
  <2> HIDE DEF S, ops
  <2>2. QED
    BY <2>1
<1>3. r \in Receipt /\ r.o \in Ops /\ r.d \in Dispatches
  BY DEF Inv, Types, Receipt
<1>4. /\ Applied(r) \in OpRecord
      /\ RowOK(kind[r.o], Applied(r), claim[r.o], mirror[r.o], platform[r.o], f)
      /\ Applied(r).state # "none" /\ Applied(r).attempts = op[r.o].attempts
      /\ Succeeded(op[r.o].state) => Succeeded(Applied(r).state)
      /\ \A d \in Dispatches : op[r.o].disp[d] # "none" => Applied(r).disp[d] # "none"
  <2>1. /\ op[r.o] \in OpRecord /\ platform[r.o] \in SUBSET Dispatches
        /\ RowOK(kind[r.o], op[r.o], claim[r.o], mirror[r.o], platform[r.o], file[r.o])
    BY <1>3 DEF Inv, Types, RowsOK
  <2>2. /\ op[r.o].state # "none"
        /\ Succeeded(r.state) => r.state = Final(kind[r.o]) /\ r.d \in platform[r.o]
        /\ r.state = "downloaded" <=> r.data # 0
    BY DEF Inv, WireOK, Done, Final
  <2>3. Applied(r) = Apply(op[r.o], r)
    BY DEF Applied, Apply
  <2>4. QED
    BY <1>3, <2>1, <2>2, <2>3, AppliedRow
<1> HIDE DEF f
<1>5. /\ ops \in [Ops -> OpRecord] /\ ops[r.o] = Applied(r)
      /\ \A o \in Ops : o # r.o => ops[o] = op[o]
  BY <1>3, <1>4 DEF Inv, Types
<1> HIDE DEF ops
<1>6. \A o \in T \cup part : ops[o].state = "sent"
  BY <1>2
<1>7. ASSUME NEW o \in Ops PROVE RowOK(kind[o], ops[o], claim[o], mirror[o], platform[o], file'[o])
  <2>1. CASE o = r.o
    <3>1. file'[o] = f
      BY <1>1, <2>1 DEF Inv, Types
    <3>2. QED
      BY <1>4, <1>5, <2>1, <3>1
  <2>2. CASE o # r.o
    <3>1. file'[o] = file[o] /\ ops[o] = op[o]
      BY <1>1, <1>5, <2>2 DEF Inv, Types
    <3>2. QED
      BY <3>1 DEF Inv, RowsOK
  <2>3. QED
    BY <2>1, <2>2
<1>8. Projects(ops)
  BY <1>2, <1>5, <1>6, <1>7, ProjectStep DEF Inv
<1>9. ASSUME NEW o \in Ops
      PROVE  /\ op'[o].state = "none" <=> op[o].state = "none"
             /\ op'[o].attempts = op[o].attempts
             /\ Succeeded(op[o].state) => Succeeded(op'[o].state)
             /\ mirror[o] # {} => mirror'[o] # {}
             /\ \A d \in Dispatches : op[o].disp[d] # "none" => op'[o].disp[d] # "none"
  <2>1. /\ op'[o].state = ops[o].state /\ op'[o].attempts = ops[o].attempts
        /\ op'[o].disp = ops[o].disp /\ (mirror'[o] = mirror[o] \/ mirror'[o] # {})
    BY <1>8 DEF Projects
  <2>2. CASE o # r.o
    BY <1>5, <2>1, <2>2
  <2>3. CASE o = r.o
    <3>1. op[o].state # "none"
      BY <2>3 DEF Inv, WireOK
    <3>2. QED
      BY <1>4, <1>5, <2>1, <2>3, <3>1
  <2>4. QED
    BY <2>2, <2>3
<1>10. Types'
  <2>1. faults' \in 0..MaxLoad /\ rev <= faults'
    BY <1>1, FaultFits DEF Inv, Types
  <2>2. f \in Contents \cup {0}
    BY <1>3 DEF Inv, Types, Receipt, f, OnDisk
  <2>3. file' \in [Ops -> Contents \cup {0}]
    BY <1>1, <2>2 DEF Inv, Types
  <2>4. QED
    BY <1>1, <1>8, <2>1, <2>3 DEF Inv, Types, Projects
<1>11. RowsOK'
  BY <1>1, <1>8 DEF RowsOK, Projects
<1>12. BatchOK'
  BY <1>1, <1>9 DEF Inv, BatchOK
<1>13. WireOK'
  <2>1. \A q \in wire : q.o \in Ops /\ q.d \in Dispatches
    BY DEF Inv, Types, Receipt
  <2>2. QED
    BY <1>1, <1>9, <2>1 DEF Inv, WireOK, Done
<1>14. QED
  BY <1>1, <1>9, <1>10, <1>11, <1>12, <1>13 DEF Inv, Kept

\* saveDownload before its receipt commits: only while nothing is recorded.
LEMMA SavedStep ==
  ASSUME OutboxAssumption, Inv, NEW r \in wire, DownloadSavedOnly(r)
  PROVE  Inv' /\ Kept
<1>1. /\ r.state = "downloaded" /\ file[r.o] = 0 /\ file' = [file EXCEPT ![r.o] = r.data]
      /\ Load < MaxLoad /\ faults' = faults + 1
      /\ UNCHANGED <<kind, op, claim, deliverer, mirror, rev, remote>>
  BY DEF DownloadSavedOnly, Accepts, Fault
<1>2. r.o \in Ops /\ r.data \in Contents \cup {0}
  BY DEF Inv, Types, Receipt
<1>3. Types'
  <2>1. faults' \in 0..MaxLoad /\ rev <= faults'
    BY <1>1, FaultFits DEF Inv
  <2>2. QED
    BY <1>1, <1>2, <2>1 DEF Inv, Types, remote
<1>4. RowsOK'
  <2>1. RowOK(kind[r.o], op[r.o], claim[r.o], mirror[r.o], platform[r.o], file[r.o])
    BY <1>2 DEF Inv, RowsOK
  <2>2. RowOK(kind[r.o], op[r.o], claim[r.o], mirror[r.o], platform[r.o], r.data)
    BY <1>1, <2>1 DEF RowOK
  <2>3. QED
    BY <1>1, <1>2, <2>2 DEF Inv, Types, RowsOK, remote
<1>5. QED
  BY <1>1, <1>3, <1>4 DEF Inv, BatchOK, WireOK, remote, Done, Kept

\* Time, grants, crashes and lost receipts leave every record as it is.
LEMMA EnvironmentStep ==
  ASSUME OutboxAssumption, Inv,
         \/ \E o \in Ops : LeaseExpires(o)
         \/ \E r \in wire : LoseReceipt(r)
         \/ GrantChanges \/ OwnerRestarts \/ TransportRestarts
  PROVE  Inv' /\ Kept
<1>1. ASSUME NEW o \in Ops, LeaseExpires(o) PROVE Inv' /\ Kept
  <2> DEFINE v == [op[o] EXCEPT !.leased = FALSE]
  <2>1. op' = [op EXCEPT ![o] = v] /\ UNCHANGED <<kind, claim, deliverer, mirror, file, rev, remote, faults>>
    BY <1>1 DEF LeaseExpires
  <2>2. op[o] \in OpRecord
    BY DEF Inv, Types
  <2>3. /\ v \in OpRecord /\ v.state = op[o].state /\ v.attempts = op[o].attempts /\ v.disp = op[o].disp
        /\ v.msg = op[o].msg /\ v.projected = op[o].projected /\ v.data = op[o].data
    BY <2>2 DEF OpRecord
  <2> HIDE DEF v
  <2>4. RowOK(kind[o], v, claim[o], mirror[o], platform[o], file[o])
    <3>1. RowOK(kind[o], op[o], claim[o], mirror[o], platform[o], file[o])
      BY DEF Inv, RowsOK
    <3>2. QED
      BY <2>3, <3>1 DEF RowOK
  <2>5. /\ \A p \in Ops : /\ op'[p].state = op[p].state /\ op'[p].attempts = op[p].attempts
                          /\ op'[p].disp = op[p].disp
        /\ op' \in [Ops -> OpRecord]
    BY <2>1, <2>3 DEF Inv, Types
  <2>6. Types'
    BY <2>1, <2>5 DEF Inv, Types, remote
  <2>7. RowsOK'
    BY <2>1, <2>4 DEF Inv, Types, RowsOK, remote
  <2>8. BatchOK'
    BY <2>1, <2>5 DEF Inv, BatchOK, remote
  <2>9. WireOK'
    <3>1. \A r \in wire : r.o \in Ops
      BY DEF Inv, Types, Receipt
    <3>2. QED
      BY <2>1, <2>5, <3>1 DEF Inv, WireOK, Done, remote
  <2>10. Kept
    BY <2>1, <2>5 DEF Kept, remote
  <2>11. QED
    BY <2>6, <2>7, <2>8, <2>9, <2>10 DEF Inv
<1>2. ASSUME NEW r \in wire, LoseReceipt(r) PROVE Inv' /\ Kept
  <2>1. /\ wire' \subseteq wire /\ Load < MaxLoad /\ faults' = faults + 1
        /\ UNCHANGED <<kind, op, claim, deliverer, mirror, file, rev, batch, platform>>
    BY <1>2 DEF LoseReceipt, Fault
  <2>2. faults' \in 0..MaxLoad /\ rev <= faults'
    BY <2>1, FaultFits DEF Inv
  <2>3. QED
    BY <2>1, <2>2 DEF Inv, Types, RowsOK, BatchOK, WireOK, Done, Kept
<1>3. CASE GrantChanges
  <2>1. /\ rev' = rev + 1 /\ Load < MaxLoad /\ faults' = faults + 1
        /\ UNCHANGED <<kind, op, claim, deliverer, mirror, file, remote>>
    BY <1>3 DEF GrantChanges, Fault
  <2>2. faults' \in 0..MaxLoad /\ rev' \in 0..MaxLoad /\ rev' <= faults'
    BY <2>1, FaultFits DEF Inv, Types
  <2>3. Types'
    BY <2>1, <2>2 DEF Inv, Types, remote
  <2>4. QED
    BY <2>1, <2>3 DEF Inv, RowsOK, BatchOK, WireOK, Done, Kept, remote
<1>4. CASE OwnerRestarts \/ TransportRestarts
  <2>1. /\ batch' = {} /\ wire' \subseteq wire /\ Load < MaxLoad /\ faults' = faults + 1
        /\ UNCHANGED <<kind, op, claim, mirror, file, rev, platform>>
        /\ deliverer' = deliverer \/ deliverer' = [o \in Ops |-> Idle]
    BY <1>4 DEF OwnerRestarts, TransportRestarts, Fault
  <2>2. faults' \in 0..MaxLoad /\ rev <= faults' /\ 0 \in 0..MaxLoad
    BY <2>1, FaultFits DEF Inv, OutboxAssumption
  <2>3. Types'
    BY <2>1, <2>2 DEF Inv, Types, Idle
  <2>4. QED
    BY <2>1, <2>3 DEF Inv, RowsOK, BatchOK, WireOK, Done, Kept
<1>5. QED
  BY <1>1, <1>2, <1>3, <1>4

\* Deliver, apart from the perform it calls.
LEMMA DeliverStep ==
  ASSUME OutboxAssumption, Inv, NEW o \in Ops,
         DeliverClaims(o) \/ DeliverRefused(o) \/ DeliverSettles(o)
  PROVE  Inv' /\ Kept
<1>0. 0 \in 0..MaxLoad /\ claim[o] \in {"none", "dispatching", "queued", "sent", "failed"}
  BY DEF Inv, Types, OutboxAssumption
<1>1. UNCHANGED <<kind, op, mirror, file, rev, remote, faults>>
  BY DEF DeliverClaims, DeliverRefused, DeliverSettles
<1>2. deliverer' \in [Ops -> [pc : {"idle", "claimed", "performed"}, rev : 0..MaxLoad]]
  BY <1>0 DEF DeliverClaims, DeliverRefused, DeliverSettles, Idle, Inv, Types
<1>3. \/ claim' = claim
      \/ /\ claim[o] = "none" \/ claim[o] = "dispatching"
         /\ \E c \in {"dispatching", "queued", "failed"} : claim' = [claim EXCEPT ![o] = c]
  BY DEF DeliverClaims, DeliverRefused, DeliverSettles, Unclaimed, Inv, Types
<1>4. CASE claim' = claim
  BY <1>1, <1>2, <1>4 DEF Inv, Types, RowsOK, BatchOK, WireOK, Done, Kept, remote
<1>5. QED
  BY <1>1, <1>2, <1>3, <1>4, ClaimStep

-----------------------------------------------------------------------------
(* The promise *)

\* An exchange that keeps what was there confirms some operations and publishes
\* others, and the platform has carried out every one of them.
LEMMA KeptRecords ==
  ASSUME Inv', Kept
  PROVE  Promise!Next
<1> DEFINE C == {o \in Ops : Phase[o] = "queued" /\ Phase'[o] = "confirmed"}
           P == {o \in Ops : Phase[o] # "public" /\ Phase'[o] = "public"}
<1>1. ASSUME NEW o \in Ops
      PROVE  /\ Phase[o] = IF mirror[o] # {} THEN "public"
                          ELSE IF Succeeded(op[o].state) THEN "confirmed"
                          ELSE IF op[o].state = "none" THEN "absent" ELSE "queued"
             /\ Phase'[o] = IF mirror'[o] # {} THEN "public"
                           ELSE IF Succeeded(op'[o].state) THEN "confirmed"
                           ELSE IF op'[o].state = "none" THEN "absent" ELSE "queued"
  BY DEF Phase
<1>2. ASSUME NEW o \in Ops
      PROVE  /\ op[o].state = "none" <=> op'[o].state = "none"
             /\ Succeeded(op[o].state) => Succeeded(op'[o].state)
             /\ mirror[o] # {} => mirror'[o] # {}
  BY DEF Kept
<1>3. ASSUME NEW o \in Ops
      PROVE  /\ mirror'[o] # {} => op'[o].state = "sent"
             /\ Succeeded(op'[o].state) => o \in Delivered
  <2>1. RowOK(kind'[o], op'[o], claim'[o], mirror'[o], platform'[o], file'[o])
    BY DEF Inv, RowsOK
  <2>2. /\ mirror'[o] # {} => op'[o].state = "sent"
        /\ Succeeded(op'[o].state) => platform'[o] # {}
    BY <2>1 DEF RowOK, Succeeded
  <2>3. QED
    BY <2>2 DEF Kept, Delivered
<1>4. ASSUME NEW o \in Ops
      PROVE  /\ Phase'[o] = Phase[o] \/ o \in C \/ o \in P
             /\ o \in P => Phase[o] \in {"queued", "confirmed"} /\ o \in Delivered
             /\ o \in C => o \in Delivered
  BY <1>1, <1>2, <1>3 DEF Succeeded
<1>5. Phase' = [o \in Ops |-> IF o \in C THEN "confirmed" ELSE IF o \in P THEN "public" ELSE Phase[o]]
  <2>1. Phase' = [o \in Ops |-> Phase'[o]]
    BY DEF Phase
  <2>2. \A o \in Ops : Phase'[o] = IF o \in C THEN "confirmed" ELSE IF o \in P THEN "public" ELSE Phase[o]
    BY <1>4
  <2> HIDE DEF C, P
  <2>3. QED
    BY <2>1, <2>2
<1>6. Delivered' = Delivered
  BY DEF Kept, Delivered
<1>7. C \in SUBSET Ops /\ P \in SUBSET Ops /\ C \cap P = {} /\ \A o \in C : Phase[o] = "queued"
  OBVIOUS
<1> HIDE DEF C, P
<1>8. Promise!Record(C, P)
  BY <1>4, <1>5, <1>6, <1>7 DEF Promise!Record
<1>9. QED
  BY <1>7, <1>8 DEF Promise!Next

\* A new row is an operation that was absent.
LEMMA InsertQueues ==
  ASSUME Inv, NEW o \in Ops, op[o].state = "none", op' = Inserted(o, rev), UNCHANGED <<mirror, platform>>
  PROVE  Promise!Next
<1>1. op' = [op EXCEPT ![o] = [NoOp EXCEPT !.state = "pending", !.rev = rev]]
  BY DEF Inserted
<1>2. op'[o].state = "pending" /\ \A p \in Ops : p # o => op'[p] = op[p]
  BY <1>1 DEF Inv, Types, NoOp
<1>3. mirror[o] = {}
  BY DEF Inv, RowsOK, RowOK
<1>4. Phase[o] = "absent" /\ Phase' = [Phase EXCEPT ![o] = "queued"]
  BY <1>2, <1>3 DEF Phase, Succeeded
<1>5. QED
  BY <1>4 DEF Promise!Next, Promise!Queue, Delivered

\* The platform acts only on what is queued.
LEMMA SendCarriesOut ==
  ASSUME Inv, NEW o \in Ops, op[o].state # "none", NEW d, NEW reached \in BOOLEAN,
         platform' = [platform EXCEPT ![o] = IF reached THEN platform[o] \cup {d} ELSE platform[o]],
         UNCHANGED <<op, mirror>>
  PROVE  Promise!Next \/ UNCHANGED <<Phase, Delivered>>
<1>1. Phase' = Phase /\ Phase[o] # "absent"
  BY DEF Phase
<1>2. CASE reached
  <2>1. Delivered' = Delivered \cup {o}
    BY <1>2 DEF Delivered, Inv, Types
  <2>2. QED
    BY <1>1, <2>1 DEF Promise!Next, Promise!CarryOut
<1>3. CASE ~reached
  <2>1. platform' = platform
    BY <1>3 DEF Inv, Types
  <2>2. QED
    BY <1>1, <2>1 DEF Delivered
<1>4. QED
  BY <1>2, <1>3

\* Every step keeps the invariant, and is a step of the promise or none.
LEMMA OutboxStep ==
  ASSUME OutboxAssumption, Inv, [Next]_vars
  PROVE  Inv' /\ (Promise!Next \/ UNCHANGED <<Phase, Delivered>>)
<1>1. CASE UNCHANGED vars
  BY <1>1 DEF vars, Inv, Types, RowsOK, BatchOK, WireOK, Done, Phase, Delivered
<1>2. ASSUME NEW o \in Ops, Perform(o) \/ DeliverPerforms(o)
      PROVE  Inv' /\ Promise!Next
  <2>1. /\ op' = Inserted(o, rev) /\ UNCHANGED <<kind, claim, mirror, file, rev, remote, faults>>
        /\ deliverer' \in [Ops -> [pc : {"idle", "claimed", "performed"}, rev : 0..MaxLoad]]
    BY <1>2 DEF Perform, DeliverPerforms, Inv, Types
  <2>2. Inv'
    BY <2>1, QueueStep
  <2>3. CASE op[o].state = "none"
    BY <2>1, <2>2, <2>3, InsertQueues DEF remote
  <2>4. CASE op[o].state # "none"
    BY <2>1, <2>2, <2>4, KeptRecords DEF Inserted, Kept, remote
  <2>5. QED
    BY <2>2, <2>3, <2>4
<1>3. ASSUME NEW o \in Ops, DeliverClaims(o) \/ DeliverRefused(o) \/ DeliverSettles(o)
      PROVE  Inv' /\ Promise!Next
  BY <1>3, DeliverStep, KeptRecords
<1>4. ASSUME Outbox PROVE Inv' /\ Promise!Next
  <2>1. CASE Poll({}, "nothing", TRUE) \/ Poll({}, "nothing", FALSE)
    BY <2>1, PollStep, KeptRecords
  <2>2. ASSUME NEW o \in Seen, NEW far \in Extents, Poll({o}, far, FALSE) PROVE Inv' /\ Promise!Next
    <3>1. {o} \in SUBSET Ops /\ FALSE \in BOOLEAN
      BY DEF Seen, Window
    <3>2. QED
      BY <2>2, <3>1, PollStep, KeptRecords
  <2>3. QED
    BY <1>4, <2>1, <2>2 DEF Outbox
<1>5. ASSUME SendOnce PROVE Inv' /\ (Promise!Next \/ UNCHANGED <<Phase, Delivered>>)
  <2>1. PICK b \in batch, s \in {"sent", "downloaded", "failed", "unknown"}, reached \in BOOLEAN,
             retry \in BOOLEAN, data \in Contents \cup {0} :
               (Succeeded(s) => s = Done(b[1])) /\ Send(b[1], b[2], s, reached, retry, data)
    BY <1>5 DEF SendOnce
  <2>2. Inv' /\ b[1] \in Ops /\ op[b[1]].state # "none"
    BY <2>1, SendStep, ZenonT(60)
  <2>3. /\ platform' = [platform EXCEPT ![b[1]] = IF reached THEN platform[b[1]] \cup {b[2]} ELSE platform[b[1]]]
        /\ UNCHANGED <<op, mirror>>
    BY <2>1 DEF Send
  <2>4. QED
    BY <2>2, <2>3, SendCarriesOut
<1>6. ASSUME NEW r \in wire, ReceiptArrives(r) \/ DownloadSavedOnly(r)
      PROVE  Inv' /\ Promise!Next
  BY <1>6, ReceiptStep, SavedStep, KeptRecords
<1>7. ASSUME \/ \E o \in Ops : LeaseExpires(o)
             \/ \E r \in wire : LoseReceipt(r)
             \/ GrantChanges \/ OwnerRestarts \/ TransportRestarts
      PROVE  Inv' /\ Promise!Next
  BY <1>7, EnvironmentStep, KeptRecords
<1>8. QED
  BY <1>1, <1>2, <1>3, <1>4, <1>5, <1>6, <1>7 DEF Next

LEMMA InvAlways ==
  ASSUME OutboxAssumption
  PROVE  Spec => []Inv
<1>1. Init => Inv
  BY InitInv
<1>2. Inv /\ [Next]_vars => Inv'
  BY OutboxStep
<1>3. QED
  BY <1>1, <1>2, PTL DEF Spec

\* Whatever is lost, late or repeated, a success of any dispatch is the outcome of the
\* operation; it has happened; the public record and the claims show it once; and a
\* file on disk is the one that is recorded.
THEOREM OutboxHonestAlways ==
  ASSUME OutboxAssumption
  PROVE  Spec => []OutboxHonest
<1>1. Inv => OutboxHonest
  <2> SUFFICES ASSUME Inv PROVE OutboxHonest
    OBVIOUS
  <2>1. ASSUME NEW o \in Ops PROVE op[o] \in OpRecord
    BY DEF Inv, Types
  <2>2. TypeOK
    <3>1. ASSUME NEW o \in Ops
          PROVE  /\ op[o].state \in {"none", "pending", "dispatching", "sent", "downloaded", "failed", "unknown"}
                 /\ op[o].attempts \in 0..MaxAttempts /\ op[o].disp \in [Dispatches -> DispStates]
                 /\ op[o].msg \in 0..MaxAttempts /\ op[o].rev \in 0..MaxLoad
      BY <2>1 DEF OpRecord
    <3>2. \A o \in Ops : deliverer[o].pc \in {"idle", "claimed", "performed"}
      BY DEF Inv, Types
    <3>3. QED
      BY <3>1, <3>2 DEF Inv, Types, TypeOK, DispStates
  <2>3. ASSUME NEW o \in Ops PROVE RowOK(kind[o], op[o], claim[o], mirror[o], platform[o], file[o])
    BY DEF Inv, RowsOK
  <2>4. \A o \in Ops : platform[o] \subseteq Dispatches
    BY DEF Inv, Types
  <2>5. SuccessWins
    BY <2>3, <2>4 DEF RowOK, SuccessWins, Succeeded
  <2>6. MirroredOnce /\ ClaimHonest /\ DownloadIsRecorded /\ AttemptsRecorded
    BY <2>3 DEF RowOK, MirroredOnce, ClaimHonest, DownloadIsRecorded, AttemptsRecorded
  <2>7. QED
    BY <2>2, <2>5, <2>6 DEF OutboxHonest
<1>2. QED
  BY <1>1, InvAlways, PTL

\* The outbox implements DeliveryPromise: an operation becomes queued, confirmed and
\* public in this order, the last two only after the platform has carried it out.
THEOREM KeepsPromiseAlways ==
  ASSUME OutboxAssumption
  PROVE  Spec => KeepsPromise
<1>1. Init => Promise!Init
  BY DEF Init, Promise!Init, Phase, Delivered, NoOp, Succeeded
<1>2. Inv /\ [Next]_vars => [Promise!Next]_<<Phase, Delivered>>
  BY OutboxStep
<1>3. QED
  BY <1>1, <1>2, InvAlways, PTL DEF Spec, KeepsPromise, Promise!Spec

-----------------------------------------------------------------------------
(* Inbound events.  A receipt is written by whoever is through first: the     *)
(* handler or the job that it started.  Both hold what they will write while  *)
(* the other, a new Owner or a changed grant gets ahead of them; Promised     *)
(* says what the handler may rely on until then.                              *)

\* The rows of fa.meta, the handler and the job.
Kinds == {"request", "command", "launch", "approve", "background"}
InboundRows ==
  [state : Settled \cup {"none", "pending", "scheduled"}, gen : Nat, started : BOOLEAN,
   target : 0..N, rev : Nat]
Handlers ==
  [e : 0..N, pc : {"free", "admit", "receive", "act", "wait", "final"}, row : InboundRows,
   rev : Nat]
InboundJobs ==
  [e : 0..N, kind : {"none", "submit", "launch", "approve"},
   pc : {"none", "called", "returned", "reading", "recorded"}, found : BOOLEAN, ok : BOOLEAN,
   seen : InboundRows]

InboundTypes ==
  /\ script \in [Events -> Kinds] /\ script \in Scripts
  /\ cursor \in 0..N /\ transport \in {"idle", "posting", "acked"}
  /\ h \in Handlers /\ row \in [Events -> InboundRows] /\ message \subseteq Events
  /\ input \in [Events -> {"none", "pending", "target_ended"}]
  /\ run \in [Events -> {"none", "active", "ended"}]
  /\ job \in InboundJobs /\ flights \subseteq Events
  /\ access \in Nat /\ gen \in 1..MaxOwners /\ effects \in [Events -> 0..1]
  /\ mark \in [Events -> SUBSET {"refused", "passed", "readmitted"}]
  /\ upsets \in 0..MaxUpsets

\* The transport is past nothing that it may still post, and the handler works on the
\* event the transport is at, whose row is there.
InTurn ==
  /\ transport # "idle" => cursor < N
  /\ h.pc # "free" =>
       /\ transport # "acked" /\ cursor < N /\ h.e = cursor + 1
       /\ row[h.e].state # "none" /\ h.row.gen = row[h.e].gen /\ h.row.target = row[h.e].target
       /\ row[h.e].gen = gen \/ "readmitted" \in mark[h.e]
  /\ h.pc = "free" => h = Free
  /\ h.pc \in {"admit", "receive", "act", "wait"} => h.row.state \in {"pending", "scheduled"}
  /\ h.pc = "final" => h.row.state \in {"accepted", "rejected", "target_ended"}
  /\ \A e \in Events : row[e].gen <= gen /\ (row[e].state # "none" => row[e].gen # 0)
  /\ \A e \in Events : row[e].state = "none" => ~row[e].started /\ row[e].target = 0

\* One Run at a time, of a request; a target was a Run when the request came in.
RunsOfRequests ==
  /\ \A d, e \in Events : run[d] = "active" /\ run[e] = "active" => d = e
  /\ \A e \in Events : run[e] # "none" \/ input[e] # "none" => script[e] = "request"
  /\ \A e \in Events : row[e].target # 0 => run[row[e].target] # "none"
  /\ \A e \in Events : input[e] = "target_ended" =>
       row[e].target # 0 /\ run[row[e].target] = "ended"

\* A control leaves traces only when it is on record as started, and what was started
\* is not taken up again.
Begun ==
  /\ \A e \in Events : Control(e) /\ (e \in flights \/ e \in message \/ effects[e] # 0)
                         => row[e].started
  /\ h.pc = "admit" => ~row[h.e].started /\ ~h.row.started
  /\ h.pc \in {"receive", "act"} /\ Control(h.e) =>
       /\ row[h.e].started /\ h.row.started /\ effects[h.e] = 0 /\ h.e \notin flights
       /\ h.pc = "receive" => h.e \notin message
  /\ h.pc = "wait" => ~Control(h.e)
  /\ h.pc \in {"receive", "act", "wait", "final"} /\ Control(h.e) => h.row.started

\* The job is of an event in flight; what it reports has happened.
Durable(e) == run[e] # "none" \/ input[e] = "pending"
Excused(e) == effects[e] = 1 \/ mark[e] \cap {"passed", "readmitted"} # {}
JobOK ==
  /\ job.pc = "none" => job = NoJob /\ flights = {}
  /\ job.pc # "none" =>
       /\ job.e \in Events /\ flights = {job.e}
       /\ job.kind = "submit" => script[job.e] = "request"
       /\ job.kind = "approve" => script[job.e] = "approve"
       /\ job.kind = "launch" => script[job.e] \in {"launch", "request"}
       /\ job.kind # "none"
       /\ job.kind = "launch" /\ script[job.e] = "request" => input[job.e] = "pending"
       /\ job.pc = "called" /\ Control(job.e) => effects[job.e] = 0 /\ ~job.ok
       /\ job.ok /\ script[job.e] = "request" => Durable(job.e)
       /\ job.ok /\ Control(job.e) => effects[job.e] = 1
       /\ job.found => job.ok

\* What the handler is about to record.
Promised ==
  /\ h.pc = "final" /\ h.row.state = "accepted" /\ script[h.e] = "request" => Durable(h.e)
  /\ h.pc = "final" /\ h.row.state = "accepted" /\ Control(h.e) =>
       \/ Excused(h.e)
       \/ row[h.e].state = "rejected"
       \/ /\ h.e \in flights /\ job.pc # "recorded" /\ row[h.e].gen = gen
          /\ job.pc = "reading" => job.seen = row[h.e]

InboundInv ==
  /\ InboundTypes /\ InTurn /\ RunsOfRequests /\ Begun /\ JobOK /\ Promised
  /\ AckedIsKept /\ AcceptedRequestIsDurable /\ AcceptedControlIsDone
-----------------------------------------------------------------------------
(* The records.                                                               *)

LEMMA NoInboundRecords ==
  ASSUME InboundAssumption
  PROVE  NoRow \in InboundRows /\ Free \in Handlers /\ NoJob \in InboundJobs
<1>1. NoRow \in InboundRows
  BY DEF InboundAssumption, NoRow, InboundRows
<1>. QED BY <1>1 DEF InboundAssumption, Free, Handlers, NoJob, InboundJobs

\* A row in another state, or of a control that is started.
LEMMA RowMoves ==
  ASSUME NEW r \in InboundRows, NEW s \in Settled \cup {"pending", "scheduled"}
  PROVE  LET m == [r EXCEPT !.state = s] IN
           /\ m \in InboundRows /\ m.state = s /\ m.gen = r.gen /\ m.started = r.started
           /\ m.target = r.target /\ m.rev = r.rev
BY DEF InboundRows
LEMMA RowStarted ==
  ASSUME NEW r \in InboundRows
  PROVE  LET m == [r EXCEPT !.started = TRUE] IN
           /\ m \in InboundRows /\ m.state = r.state /\ m.gen = r.gen /\ m.started
           /\ m.target = r.target /\ m.rev = r.rev
BY DEF InboundRows

\* The handler goes on, with its row or with another state for it.
LEMMA HandlerAt ==
  ASSUME h \in Handlers, NEW p \in {"act", "wait"}
  PROVE  LET m == [h EXCEPT !.pc = p] IN
           m \in Handlers /\ m.pc = p /\ m.e = h.e /\ m.row = h.row
BY DEF Handlers
LEMMA HandlerEnds ==
  ASSUME h \in Handlers, NEW s \in Settled, NEW m,
         m = [h EXCEPT !.row.state = s, !.pc = "final"] \/ m = [h EXCEPT !.pc = "final", !.row.state = s]
  PROVE  /\ m \in Handlers /\ m.pc = "final" /\ m.e = h.e
         /\ m.row = [h.row EXCEPT !.state = s]
         /\ m.row.state = s /\ m.row.gen = h.row.gen /\ m.row.started = h.row.started
         /\ m.row.target = h.row.target
<1>1. h.row \in InboundRows /\ [h.row EXCEPT !.state = s] \in InboundRows
  BY RowMoves DEF Handlers
<1>2. m \in Handlers /\ m.pc = "final" /\ m.e = h.e /\ m.row = [h.row EXCEPT !.state = s]
  BY <1>1 DEF Handlers
<1>. QED BY <1>1, <1>2, RowMoves

\* A row is written.
LEMMA RowWritten ==
  ASSUME InboundTypes, NEW e \in Events, NEW r \in InboundRows, row' = [row EXCEPT ![e] = r]
  PROVE  /\ row' \in [Events -> InboundRows] /\ row'[e] = r
         /\ \A d \in Events : d # e => row'[d] = row[d]
BY DEF InboundTypes

\* What acceptInbound makes of the way handle ends.
LEMMA HandledEnds ==
  ASSUME InboundTypes, Handled
  PROVE  /\ h' \in Handlers /\ h'.e = h.e /\ h'.row.gen = h.row.gen
         /\ h'.row.target = h.row.target /\ h'.row.started = h.row.started
         /\ IF script[h.e] = "request" THEN h'.pc = "wait" /\ h'.row = h.row
            ELSE h'.pc = "final" /\ h'.row.state = "accepted"
<1>1. h \in Handlers BY DEF InboundTypes
<1>2. CASE script[h.e] = "request" BY <1>1, <1>2, HandlerAt DEF Handled
<1>3. CASE script[h.e] # "request"
  <2>1. h' = [h EXCEPT !.row.state = "accepted", !.pc = "final"] BY <1>3 DEF Handled
  <2>. QED BY <1>1, <1>3, <2>1, HandlerEnds DEF Settled
<1>. QED BY <1>2, <1>3
LEMMA RejectedEnds ==
  ASSUME InboundTypes, Rejected
  PROVE  /\ h' \in Handlers /\ h'.e = h.e /\ h'.row.gen = h.row.gen
         /\ h'.row.target = h.row.target /\ h'.row.started = h.row.started
         /\ h'.pc = "final" /\ h'.row.state = "rejected"
<1>1. h \in Handlers BY DEF InboundTypes
<1>2. h' = [h EXCEPT !.row.state = "rejected", !.pc = "final"] BY DEF Rejected
<1>. QED BY <1>1, <1>2, HandlerEnds DEF Settled

-----------------------------------------------------------------------------
(* The transport and the faults: only the transport, or the handler, moves.   *)

Unmoved == UNCHANGED <<script, row, message, input, run, job, flights, gen, effects, mark>>

\* The handler is gone, or is where it was.
LEMMA HandlerGone ==
  ASSUME InboundInv, Unmoved, cursor' = cursor, h' \in {h, Free},
         transport' = transport \/ transport' = "idle" \/ (transport = "idle" /\ transport' = "posting" /\ cursor < N)
  PROVE  /\ InTurn' /\ RunsOfRequests' /\ Begun' /\ JobOK' /\ Promised'
         /\ AckedIsKept' /\ AcceptedRequestIsDurable' /\ AcceptedControlIsDone'
<1> USE DEF InboundInv, Unmoved
<1>0. Free.pc = "free"
  BY DEF Free
<1>1. InTurn'
  BY <1>0 DEF InTurn, Events
<1>2. RunsOfRequests'
  BY DEF RunsOfRequests
<1>3. Begun'
  BY <1>0 DEF Begun, Control
<1>4. JobOK'
  BY DEF JobOK, Control, Durable
<1>5. Promised'
  BY <1>0 DEF Promised, Control, Durable, Excused
<1>6. AckedIsKept'
  BY DEF AckedIsKept
<1>7. AcceptedRequestIsDurable' /\ AcceptedControlIsDone'
  BY DEF AcceptedRequestIsDurable, AcceptedControlIsDone, Control
<1>. QED BY <1>1, <1>2, <1>3, <1>4, <1>5, <1>6, <1>7

LEMMA TransportKeeps ==
  ASSUME InboundAssumption, InboundInv,
         Post \/ HandlerFails \/ WaitExpires \/ AnswerLost \/ PluginRestarts \/ AccessChanges
  PROVE  InboundInv'
<1>1. Unmoved /\ cursor' = cursor
  BY DEF Unmoved, Post, HandlerFails, WaitExpires, AnswerLost, PluginRestarts, AccessChanges, fixed, work
<1>2. h' \in {h, Free}
  BY DEF Post, HandlerFails, WaitExpires, AnswerLost, PluginRestarts, AccessChanges, Answer
<1>3. transport' = transport \/ transport' = "idle" \/ (transport = "idle" /\ transport' = "posting" /\ cursor < N)
  BY DEF Post, HandlerFails, WaitExpires, AnswerLost, PluginRestarts, AccessChanges, Answer
<1>4. access' \in Nat /\ upsets' \in 0..MaxUpsets
  <2>0. access \in Nat /\ upsets \in 0..MaxUpsets /\ MaxUpsets \in Nat
    BY DEF InboundInv, InboundTypes, InboundAssumption
  <2>1. access' = access \/ access' = access + 1
    BY DEF Post, HandlerFails, WaitExpires, AnswerLost, PluginRestarts, AccessChanges
  <2>2. upsets' = upsets \/ Upset
    BY DEF Post, HandlerFails, WaitExpires, AnswerLost, PluginRestarts, AccessChanges, fixed
  <2>3. upsets' \in 0..MaxUpsets
    BY <2>0, <2>2 DEF Upset
  <2>. QED BY <2>0, <2>1, <2>3
<1>5. InboundTypes'
  <2>1. h' \in Handlers
    BY <1>2, NoInboundRecords DEF InboundInv, InboundTypes
  <2>2. transport' \in {"idle", "posting", "acked"}
    BY <1>3 DEF InboundInv, InboundTypes
  <2>. QED BY <1>1, <1>4, <2>1, <2>2 DEF Unmoved, InboundInv, InboundTypes
<1>. QED BY <1>1, <1>2, <1>3, <1>5, HandlerGone DEF InboundInv

LEMMA CursorKeeps == ASSUME InboundAssumption, InboundInv, SaveCursor PROVE InboundInv'
<1> USE DEF InboundInv
<1>1. Unmoved /\ UNCHANGED <<h, access, upsets>> /\ transport = "acked" /\ transport' = "idle" /\ cursor' = cursor + 1
  BY DEF SaveCursor, fixed, work, Unmoved
<1>2. h.pc = "free" /\ cursor < N
  BY <1>1 DEF InTurn
<1>3. cursor' \in 0..N
  BY <1>1, <1>2 DEF InboundTypes, InboundAssumption
<1>4. InboundTypes'
  BY <1>1, <1>3 DEF Unmoved, InboundTypes
<1>5. InTurn'
  BY <1>1, <1>2 DEF InTurn, Unmoved
<1>6. AckedIsKept'
  BY <1>1, <1>3 DEF AckedIsKept, Unmoved, Events, InboundTypes, InboundAssumption
<1>7. RunsOfRequests' /\ Begun' /\ JobOK'
  BY <1>1, <1>2 DEF Unmoved, RunsOfRequests, Begun, JobOK, Control, Durable
<1>8. Promised' /\ AcceptedRequestIsDurable' /\ AcceptedControlIsDone'
  BY <1>1, <1>2 DEF Unmoved, Promised, AcceptedRequestIsDurable, AcceptedControlIsDone, Control
<1>. QED BY <1>4, <1>5, <1>6, <1>7, <1>8

LEMMA RefuseKeeps == ASSUME InboundAssumption, InboundInv, Refuse PROVE InboundInv'
<1> USE DEF InboundInv
<1>1. UNCHANGED <<script, cursor, h, row, message, input, run, job, flights, gen, effects, access, upsets>>
  BY DEF Refuse, fixed, work
<1>2. transport = "posting" /\ transport' = "acked" /\ h.pc = "free" /\ cursor < N
      /\ mark' = [mark EXCEPT ![cursor + 1] = @ \cup {"refused"}] /\ cursor + 1 \in Events
  BY DEF Refuse, Free, InTurn, InboundTypes, Events, InboundAssumption
<1>3. /\ mark' \in [Events -> SUBSET {"refused", "passed", "readmitted"}]
      /\ \A e \in Events : mark[e] \subseteq mark'[e]
      /\ "refused" \in mark'[cursor + 1]
  BY <1>2 DEF InboundTypes
<1>4. InboundTypes'
  BY <1>1, <1>2, <1>3 DEF InboundTypes
<1>5. InTurn'
  BY <1>1, <1>2 DEF InTurn
<1>6. AckedIsKept'
  BY <1>1, <1>2, <1>3 DEF AckedIsKept
<1>7. RunsOfRequests' /\ Begun' /\ JobOK'
  BY <1>1, <1>2 DEF RunsOfRequests, Begun, JobOK, Control, Durable
<1>8. Promised' /\ AcceptedRequestIsDurable'
  BY <1>1, <1>2 DEF Promised, AcceptedRequestIsDurable
<1>9. AcceptedControlIsDone'
  BY <1>1, <1>3 DEF AcceptedControlIsDone, Control
<1>. QED BY <1>4, <1>5, <1>6, <1>7, <1>8, <1>9

-----------------------------------------------------------------------------
(* The handler.                                                               *)

\* What the handler works on.
LEMMA HandlerFacts ==
  ASSUME InboundAssumption, InboundInv, h.pc # "free"
  PROVE  /\ h.e \in Events /\ h.e = cursor + 1 /\ h.e # 0 /\ h \in Handlers /\ h.row \in InboundRows
         /\ row[h.e] \in InboundRows /\ row[h.e].state # "none" /\ transport # "acked"
         /\ script[h.e] \in Kinds
<1>1. h.e = cursor + 1 /\ cursor < N /\ cursor \in 0..N /\ N \in Nat
  BY DEF InboundInv, InTurn, InboundTypes, InboundAssumption
<1>2. h.e \in Events
  BY <1>1 DEF Events
<1>. QED BY <1>1, <1>2 DEF InboundInv, InTurn, InboundTypes, Handlers

\* The handler answers: the transport is told, or is gone.
LEMMA AnswerKeeps ==
  ASSUME InboundInv, NEW ok \in BOOLEAN, Answer(ok)
  PROVE  /\ h' \in Handlers <=> Free \in Handlers
         /\ h' = Free /\ h'.pc = "free"
         /\ transport' \in {"idle", "posting", "acked"}
         /\ transport' = "acked" => ok \/ transport = "acked"
         /\ transport' # "idle" => transport # "idle"
BY DEF Answer, Free, InboundInv, InboundTypes

LEMMA LookupKeeps == ASSUME InboundAssumption, InboundInv, Lookup PROVE InboundInv'
<1> DEFINE e == cursor + 1
           old == row[e]
           new == [state |-> "pending", gen |-> gen, started |-> FALSE, rev |-> access,
                   target |-> IF ActiveRun = {} THEN 0 ELSE CHOOSE t \in ActiveRun : TRUE]
<1> USE DEF InboundInv
<1>1. UNCHANGED <<script, cursor, message, input, run, job, flights, gen, effects, access, upsets>>
  BY DEF Lookup, fixed, work
<1>2. transport = "posting" /\ h = Free /\ h.pc = "free" /\ cursor < N /\ e \in Events
  BY DEF Lookup, Free, InTurn, InboundTypes, Events, InboundAssumption
<1>3. old \in InboundRows /\ old.gen <= gen /\ (old.state # "none" => old.gen # 0)
      /\ gen \in Nat /\ access \in Nat
  BY <1>2 DEF InTurn, InboundTypes
<1>4. /\ new \in InboundRows
      /\ new.target # 0 => new.target \in Events /\ run[new.target] = "active"
  <2> DEFINE t == IF ActiveRun = {} THEN 0 ELSE CHOOSE x \in ActiveRun : TRUE
  <2>1. t # 0 => t \in ActiveRun
    OBVIOUS
  <2>2. t \in 0..N /\ (t # 0 => t \in Events /\ run[t] = "active")
    BY <2>1 DEF ActiveRun, Events, InboundAssumption
  <2>3. new = [state |-> "pending", gen |-> gen, started |-> FALSE, rev |-> access, target |-> t]
    OBVIOUS
  <2> HIDE DEF t
  <2>. QED BY <1>3, <2>2, <2>3 DEF InboundRows
<1>13. new.gen = gen /\ ~new.started /\ new.state = "pending"
  OBVIOUS
\* The row that is there afterwards, and where the event goes.
<1>5. PICK r \in {new} \cup {old} \cup {[old EXCEPT !.state = s] : s \in {"accepted", "interrupted"}} :
        /\ row' = [row EXCEPT ![e] = r]
        /\ \/ /\ h' = [e |-> e, pc |-> "admit", row |-> r, rev |-> access] /\ transport' = transport
              /\ ~r.started /\ r.state \in {"pending", "scheduled"}
              /\ (r = new /\ old.state = "none") \/ (r = old /\ old.state # "none")
           \/ /\ h' = Free /\ transport' = "idle" /\ r = old
           \/ /\ h' = Free /\ transport' = "acked" /\ r.state \in Settled \cup {"scheduled"}
              /\ old.state # "none"
              /\ r.state = "accepted" /\ r # old => run[e] # "none"
  <2>1. CASE old.state = "none"
    <3>1. /\ row' = [row EXCEPT ![e] = new]
          /\ h' = [e |-> e, pc |-> "admit", row |-> new, rev |-> access] /\ transport' = transport
      BY <2>1 DEF Lookup
    <3> HIDE DEF new, old, e
    <3>. QED BY <1>13, <2>1, <3>1
  <2>2. CASE old.state # "none" /\ ~(old.state = "pending" \/ (old.state = "scheduled" /\ old.gen # gen))
    <3>1. row' = [row EXCEPT ![e] = old] /\ h' = Free /\ transport' = "acked"
      BY <2>2 DEF Lookup
    <3>2. old.state \in Settled \cup {"scheduled"}
      BY <1>3, <2>2 DEF InboundRows
    <3>. QED BY <2>2, <3>1, <3>2
  <2>3. CASE (old.state = "pending" \/ (old.state = "scheduled" /\ old.gen # gen)) /\ run[e] # "none"
    <3>1. row' = [row EXCEPT ![e] = [old EXCEPT !.state = "accepted"]] /\ h' = Free /\ transport' = "acked"
      BY <2>3 DEF Lookup
    <3>2. [old EXCEPT !.state = "accepted"].state = "accepted"
      BY <1>3, RowMoves DEF Settled
    <3>. QED BY <2>3, <3>1, <3>2 DEF Settled
  <2>4. CASE /\ (old.state = "pending" \/ (old.state = "scheduled" /\ old.gen # gen))
             /\ run[e] = "none" /\ old.started /\ old.gen = gen
    BY <2>4 DEF Lookup
  <2>5. CASE /\ (old.state = "pending" \/ (old.state = "scheduled" /\ old.gen # gen))
             /\ run[e] = "none" /\ old.started /\ old.gen # gen
    <3>1. row' = [row EXCEPT ![e] = [old EXCEPT !.state = "interrupted"]] /\ h' = Free /\ transport' = "acked"
      BY <2>5 DEF Lookup
    <3>2. [old EXCEPT !.state = "interrupted"].state = "interrupted"
      BY <1>3, RowMoves DEF Settled
    <3>. QED BY <2>5, <3>1, <3>2 DEF Settled
  <2>6. CASE /\ (old.state = "pending" \/ (old.state = "scheduled" /\ old.gen # gen))
             /\ run[e] = "none" /\ ~old.started
    <3>1. /\ row' = [row EXCEPT ![e] = old]
          /\ h' = [e |-> e, pc |-> "admit", row |-> old, rev |-> access] /\ transport' = transport
      BY <2>6 DEF Lookup
    <3>. QED BY <2>6, <3>1
  <2>. QED BY <2>1, <2>2, <2>3, <2>4, <2>5, <2>6
<1>6. /\ r \in InboundRows
      /\ r = new \/ (r.gen = old.gen /\ r.started = old.started /\ r.target = old.target)
      /\ r.state = "none" => r = old
  <2>1. \A s \in {"accepted", "interrupted"} : s \in Settled \cup {"pending", "scheduled"}
    BY DEF Settled
  <2>2. PICK s \in {"accepted", "interrupted"} : r \in {new, old, [old EXCEPT !.state = s]}
    BY <1>5
  <2> HIDE DEF new, old
  <2>3. CASE r \in {new, old}
    BY <1>3, <1>4, <1>13, <2>3
  <2>4. CASE r = [old EXCEPT !.state = s]
    BY <1>3, <2>1, <2>4, RowMoves
  <2>. QED BY <2>2, <2>3, <2>4
<1>7. /\ row' \in [Events -> InboundRows] /\ row'[e] = r
      /\ \A d \in Events : d # e => row'[d] = row[d]
  BY <1>2, <1>5, <1>6, RowWritten
<1>8. /\ mark' \in [Events -> SUBSET {"refused", "passed", "readmitted"}]
      /\ \A d \in Events : mark[d] \subseteq mark'[d]
      /\ old.gen \notin {0, gen} /\ h'.pc = "admit" => "readmitted" \in mark'[e]
  <2>1. mark' = IF old.gen \notin {0, gen} /\ h'.pc = "admit"
                THEN [mark EXCEPT ![e] = @ \cup {"readmitted"}] ELSE mark
    BY DEF Lookup
  <2>. QED BY <1>2, <2>1 DEF InboundTypes
<1>9. h'.pc \in {"admit", "free"} /\ h' \in Handlers /\ (h'.pc = "free" => h' = Free)
      /\ (h'.pc = "admit" => h'.e = e /\ h'.row = r /\ transport' = "posting" /\ ~r.started
                             /\ r.state \in {"pending", "scheduled"}
                             /\ ((r = new /\ old.state = "none") \/ (r = old /\ old.state # "none")))
  <2>1. CASE h' = Free
    BY <2>1, NoInboundRecords DEF Free
  <2>2. CASE h' # Free
    <3>1. h' = [e |-> e, pc |-> "admit", row |-> r, rev |-> access] /\ transport' = transport
          /\ ~r.started /\ r.state \in {"pending", "scheduled"}
          /\ ((r = new /\ old.state = "none") \/ (r = old /\ old.state # "none"))
      BY <1>5, <2>2
    <3>2. e \in 0..N
      BY <1>2 DEF Events, InboundAssumption
    <3>. QED BY <1>2, <1>3, <1>6, <3>1, <3>2 DEF Handlers
  <2>. QED BY <2>1, <2>2
<1>10. transport' \in {"idle", "posting", "acked"}
       /\ (transport' = "acked" => r.state \in Settled \cup {"scheduled"} /\ h'.pc = "free" /\ old.state # "none")
  BY <1>2, <1>5 DEF Free
<1>11. r.state = "accepted" => r = old \/ run[e] # "none"
  BY <1>5
<1>12. r = new \/ r = old \/ old.state # "none"
  BY <1>5
<1>23. r = new => r = old \/ old.state = "none"
  <2> HIDE DEF new, old, e
  <2>. QED BY <1>5, <1>13, RowMoves, <1>3 DEF Settled
<1> HIDE DEF new, old, e
<1>14. InboundTypes'
  BY <1>1, <1>7, <1>8, <1>9, <1>10 DEF InboundTypes
<1>15. InTurn'
  <2>1. r.gen = gen \/ r.gen = old.gen
    BY <1>6, <1>13
  <2>2. r.gen <= gen /\ (r.state # "none" => r.gen # 0)
    <3>1. r = new => r.gen = gen /\ gen # 0
      BY <1>13 DEF InboundTypes
    <3>2. r = old \/ old.state # "none" => r.gen <= gen /\ (r.state # "none" => r.gen # 0)
      BY <1>3, <1>6, <3>1
    <3>. QED BY <1>3, <1>12, <3>1, <3>2
  <2>3. \A d \in Events : row'[d].gen <= gen' /\ (row'[d].state # "none" => row'[d].gen # 0)
    BY <1>1, <1>7, <2>2 DEF InTurn
  <2>4. h'.pc = "admit" => r.gen = gen \/ "readmitted" \in mark'[e]
    <3>1. h'.pc = "admit" /\ r # new => old.gen # 0 /\ r.gen = old.gen
      BY <1>3, <1>9
    <3>. QED BY <1>8, <1>13, <3>1
  <2>5. \A d \in Events : row'[d].state = "none" => ~row'[d].started /\ row'[d].target = 0
    BY <1>2, <1>6, <1>7 DEF InTurn, old
  <2>6. /\ transport' # "idle" => cursor' < N
        /\ h'.pc # "free" =>
             /\ transport' # "acked" /\ cursor' < N /\ h'.e = cursor' + 1
             /\ row'[h'.e].state # "none" /\ h'.row.gen = row'[h'.e].gen /\ h'.row.target = row'[h'.e].target
             /\ row'[h'.e].gen = gen' \/ "readmitted" \in mark'[h'.e]
    BY <1>1, <1>2, <1>7, <1>9, <2>4 DEF e
  <2>7. /\ h'.pc = "free" => h' = Free
        /\ h'.pc \in {"admit", "receive", "act", "wait"} => h'.row.state \in {"pending", "scheduled"}
        /\ h'.pc # "final"
    BY <1>9
  <2>. QED BY <2>3, <2>5, <2>6, <2>7 DEF InTurn
<1>16. RunsOfRequests'
  <2>1. r.target # 0 => run[r.target] # "none"
    BY <1>2, <1>4, <1>6 DEF RunsOfRequests, old
  <2>2. input[e] = "target_ended" => r.target # 0 /\ run[r.target] = "ended"
    <3>1. input[e] = "target_ended" => old.target # 0 /\ run[old.target] = "ended"
      BY <1>2 DEF RunsOfRequests, old
    <3>2. input[e] = "target_ended" => old.state # "none"
      BY <1>2, <3>1 DEF InTurn, old
    <3>. QED BY <1>6, <1>23, <3>1, <3>2
  <2>. QED BY <1>1, <1>7, <2>1, <2>2 DEF RunsOfRequests
<1>17. Begun'
  <2>1. \A d \in Events : row[d].started => row'[d].started
    <3>1. old.started => r.started
      BY <1>2, <1>6, <1>23 DEF InTurn, old
    <3>. QED BY <1>2, <1>7, <3>1 DEF old
  <2>2. \A d \in Events : Control(d)' <=> Control(d)
    BY <1>1 DEF Control
  <2>3. \A d \in Events : Control(d)' /\ (d \in flights' \/ d \in message' \/ effects'[d] # 0) => row'[d].started
    BY <1>1, <2>1, <2>2 DEF Begun
  <2>. QED BY <1>7, <1>9, <2>3 DEF Begun
<1>18. JobOK'
  BY <1>1 DEF JobOK, Control, Durable
<1>19. Promised'
  BY <1>9 DEF Promised
<1>20. AckedIsKept'
  <2>1. \A d \in Events : d # e /\ (d <= cursor \/ (d = cursor + 1 /\ transport' = "acked")) => d <= cursor
    BY DEF e
  <2>2. transport' = "acked" => row'[e].state \in Settled \cup {"scheduled"}
    BY <1>7, <1>10
  <2>3. \A d \in Events : d <= cursor => d # e
    BY DEF e, Events, InboundTypes
  <2>. QED BY <1>1, <1>7, <1>8, <2>1, <2>2, <2>3 DEF AckedIsKept
<1>21. AcceptedRequestIsDurable'
  BY <1>1, <1>2, <1>7, <1>11 DEF AcceptedRequestIsDurable, old
<1>22. AcceptedControlIsDone'
  <2>1. r.state = "accepted" /\ Control(e) => r = old
    BY <1>2, <1>11 DEF RunsOfRequests, Control
  <2>. QED BY <1>1, <1>2, <1>7, <1>8, <2>1 DEF AcceptedControlIsDone, Control, old
<1>. QED BY <1>14, <1>15, <1>16, <1>17, <1>18, <1>19, <1>20, <1>21, <1>22

\* A step of handle: the handler goes on to act, to wait or to its end; no row is
\* written, and what is recorded for an event stays.
HandlerMoves ==
  /\ UNCHANGED <<script, cursor, transport, row, run, gen, access, upsets>>
  /\ h' \in Handlers /\ h'.e = h.e /\ h'.row.gen = h.row.gen /\ h'.row.target = h.row.target
  /\ h'.row.started = h.row.started
  /\ \/ h'.pc \in {"act", "wait"} /\ h'.row = h.row
     \/ h'.pc = "final" /\ h'.row.state \in {"accepted", "rejected", "target_ended"}
  /\ mark' \in [Events -> SUBSET {"refused", "passed", "readmitted"}]
  /\ input' \in [Events -> {"none", "pending", "target_ended"}]
  /\ effects' \in [Events -> 0..1]
  /\ \A d \in Events : /\ mark[d] \subseteq mark'[d] /\ (effects[d] = 1 => effects'[d] = 1)
                       /\ input[d] # "none" => input'[d] = input[d]

LEMMA MovesKeep ==
  ASSUME InboundInv, h.pc \in {"receive", "act", "wait"}, h.e \in Events, HandlerMoves
  PROVE  InTurn' /\ AckedIsKept' /\ AcceptedRequestIsDurable' /\ AcceptedControlIsDone'
<1>1. /\ UNCHANGED <<script, cursor, transport, row, run, gen>>
      /\ h' \in Handlers /\ h'.e = h.e /\ h'.row.gen = h.row.gen /\ h'.row.target = h.row.target
      /\ \/ h'.pc \in {"act", "wait"} /\ h'.row = h.row
         \/ h'.pc = "final" /\ h'.row.state \in {"accepted", "rejected", "target_ended"}
      /\ \A d \in Events : /\ mark[d] \subseteq mark'[d] /\ (effects[d] = 1 => effects'[d] = 1)
                           /\ input[d] # "none" => input'[d] = input[d]
  BY DEF HandlerMoves
<1>2. InTurn'
  BY <1>1 DEF InboundInv, InTurn
<1>3. AckedIsKept'
  BY <1>1 DEF InboundInv, AckedIsKept
<1>4. AcceptedRequestIsDurable'
  BY <1>1 DEF InboundInv, AcceptedRequestIsDurable
<1>5. AcceptedControlIsDone'
  BY <1>1 DEF InboundInv, AcceptedControlIsDone, Control
<1>. QED BY <1>2, <1>3, <1>4, <1>5

LEMMA ReceiveKeeps == ASSUME InboundAssumption, InboundInv, Receive PROVE InboundInv'
<1>1. /\ UNCHANGED <<script, cursor, transport, row, run, gen, access, upsets>>
      /\ UNCHANGED <<input, job, flights, effects, mark>>
  BY DEF Receive, fixed
<1>2. h.pc = "receive" /\ h.e \in Events /\ h \in Handlers /\ script[h.e] \in Kinds
  BY HandlerFacts DEF Receive
<1>3. message' = message \/ message' = message \cup {h.e}
  BY DEF Receive
<1>4. /\ h' \in Handlers /\ h'.e = h.e /\ h'.row.gen = h.row.gen /\ h'.row.target = h.row.target
      /\ h'.row.started = h.row.started
      /\ \/ h'.pc = "act" /\ h'.row = h.row
         \/ h'.pc = "wait" /\ h'.row = h.row /\ script[h.e] = "request"
         \/ h'.pc = "final" /\ h'.row.state = "rejected"
         \/ h'.pc = "final" /\ h'.row.state = "accepted" /\ script[h.e] = "background"
  <2>1. CASE ~Granted
    BY <2>1, RejectedEnds DEF Receive, InboundInv
  <2>2. CASE Granted /\ (script[h.e] = "background" \/ (h.e \in message /\ (Control(h.e) \/ run[h.e] # "none")))
    <3>1. Handled
      BY <2>2 DEF Receive
    <3>2. script[h.e] \in {"background", "request"}
      BY <1>2, <2>2 DEF InboundInv, Begun, RunsOfRequests
    <3>. QED BY <3>1, <3>2, HandledEnds DEF InboundInv
  <2>3. CASE Granted /\ ~(script[h.e] = "background" \/ (h.e \in message /\ (Control(h.e) \/ run[h.e] # "none")))
    <3>1. h' = [h EXCEPT !.pc = "act"]
      BY <2>3 DEF Receive
    <3>. QED BY <1>2, <3>1, HandlerAt
  <2>. QED BY <2>1, <2>2, <2>3
<1>5. HandlerMoves
  <2>1. UNCHANGED <<mark, input, effects>>
    BY <1>1
  <2>. QED BY <1>1, <1>4, <2>1 DEF HandlerMoves, InboundInv, InboundTypes
<1>6. InboundTypes'
  BY <1>1, <1>2, <1>3, <1>4 DEF InboundInv, InboundTypes
<1>7. RunsOfRequests' /\ JobOK'
  BY <1>1 DEF InboundInv, RunsOfRequests, JobOK, Control, Durable
<1>8. Begun'
  <2>1. \A d \in Events : Control(d)' <=> Control(d)
    BY <1>1 DEF Control
  <2>2. Control(h.e) => row[h.e].started /\ h.row.started /\ effects[h.e] = 0 /\ h.e \notin flights
    BY <1>2 DEF InboundInv, Begun
  <2>3. script[h.e] = "request" => ~Control(h.e)
    BY DEF Control
  <2>. QED BY <1>1, <1>2, <1>3, <1>4, <2>1, <2>2, <2>3 DEF InboundInv, Begun
<1>9. Promised'
  BY <1>1, <1>4 DEF Promised, Control
<1>. QED BY <1>2, <1>5, <1>6, <1>7, <1>8, <1>9, MovesKeep DEF InboundInv

LEMMA WaitKeeps == ASSUME InboundAssumption, InboundInv, Wait PROVE InboundInv'
<1>1. /\ UNCHANGED <<script, cursor, transport, row, run, gen, access, upsets>>
      /\ UNCHANGED <<message, input, job, flights, effects, mark>>
  BY DEF Wait, fixed, work
<1>2. h.pc = "wait" /\ h.e \in Events /\ h \in Handlers /\ ~Control(h.e)
  BY HandlerFacts DEF Wait, InboundInv, Begun
<1>3. /\ h' \in Handlers /\ h'.e = h.e /\ h'.row.gen = h.row.gen /\ h'.row.target = h.row.target
      /\ h'.row.started = h.row.started /\ h'.pc = "final"
      /\ \/ h'.row.state = "accepted" /\ Durable(h.e)
         \/ h'.row.state = "target_ended"
  <2>1. CASE run[h.e] # "none"
    <3>1. h' = [h EXCEPT !.pc = "final", !.row.state = "accepted"]
      BY <1>2, <2>1 DEF Wait
    <3>. QED BY <1>2, <2>1, <3>1, HandlerEnds DEF Settled, Durable
  <2>2. CASE run[h.e] = "none"
    <3>1. h' = [h EXCEPT !.pc = "final", !.row.state = IF input[h.e] = "pending" THEN "accepted" ELSE input[h.e]]
          /\ input[h.e] # "none"
      BY <1>2, <2>2 DEF Wait
    <3>2. CASE input[h.e] = "pending"
      <4>1. h' = [h EXCEPT !.pc = "final", !.row.state = "accepted"]
        BY <3>1, <3>2
      <4>. QED BY <1>2, <3>2, <4>1, HandlerEnds DEF Settled, Durable
    <3>3. CASE input[h.e] = "target_ended"
      <4>1. h' = [h EXCEPT !.pc = "final", !.row.state = "target_ended"]
        BY <3>1, <3>3
      <4>. QED BY <1>2, <4>1, HandlerEnds DEF Settled
    <3>. QED BY <1>2, <3>1, <3>2, <3>3 DEF InboundInv, InboundTypes
  <2>. QED BY <2>1, <2>2
<1>4. HandlerMoves
  <2>1. UNCHANGED <<mark, input, effects>>
    BY <1>1
  <2>. QED BY <1>1, <1>3, <2>1 DEF HandlerMoves, InboundInv, InboundTypes
<1>5. InboundTypes'
  BY <1>1, <1>3 DEF InboundInv, InboundTypes
<1>6. RunsOfRequests' /\ JobOK'
  BY <1>1 DEF InboundInv, RunsOfRequests, JobOK, Control, Durable
<1>7. Begun'
  <2>1. \A d \in Events : Control(d)' <=> Control(d)
    BY <1>1 DEF Control
  <2>. QED BY <1>1, <1>2, <1>3, <2>1 DEF InboundInv, Begun
<1>8. Promised'
  <2>1. ~Control(h.e)' /\ (Durable(h.e) => Durable(h.e)')
    BY <1>1, <1>2, <1>3 DEF Control, Durable
  <2>. QED BY <1>1, <1>3, <2>1 DEF Promised, Control, Durable
<1>. QED BY <1>2, <1>4, <1>5, <1>6, <1>7, <1>8, MovesKeep DEF InboundInv

\* What is known of the handler that acts.
LEMMA ActFacts ==
  ASSUME InboundAssumption, InboundInv, h.pc = "act"
  PROVE  /\ h.e \in Events /\ h \in Handlers /\ script[h.e] \in Kinds
         /\ Control(h.e) => /\ row[h.e].started /\ h.row.started /\ effects[h.e] = 0
                            /\ h.e \notin flights
         /\ row[h.e].gen = gen \/ "readmitted" \in mark[h.e]
         /\ job = NoJob => flights = {}
<1>1. h.e \in Events /\ h \in Handlers /\ script[h.e] \in Kinds
  BY HandlerFacts
<1>2. Control(h.e) => row[h.e].started /\ h.row.started /\ effects[h.e] = 0 /\ h.e \notin flights
  BY DEF InboundInv, Begun
<1>3. row[h.e].gen = gen \/ "readmitted" \in mark[h.e]
  BY DEF InboundInv, InTurn
<1>4. job = NoJob => flights = {}
  BY DEF InboundInv, JobOK, NoJob
<1>. QED BY <1>1, <1>2, <1>3, <1>4

\* An execution is reserved for the event.
LEMMA DispatchJob ==
  ASSUME InboundAssumption, InboundInv,
         h.pc = "act", NEW k \in {"submit", "launch", "approve"}, Dispatch(h.e, k)
  PROVE  /\ job' \in InboundJobs /\ job'.e = h.e /\ job'.kind = k /\ job'.pc = "called"
         /\ ~job'.found /\ ~job'.ok /\ flights' = {h.e}
<1>1. job' = [NoJob EXCEPT !.e = h.e, !.kind = k, !.pc = "called"] /\ flights' = flights \cup {h.e} /\ job = NoJob
  BY DEF Dispatch
<1>2. h.e \in 0..N /\ flights = {}
  BY <1>1, ActFacts DEF Events, InboundAssumption
<1>3. job' \in InboundJobs /\ job'.e = h.e /\ job'.kind = k /\ job'.pc = "called" /\ ~job'.found /\ ~job'.ok
  BY <1>1, <1>2, NoInboundRecords DEF NoJob, InboundJobs
<1>. QED BY <1>1, <1>2, <1>3

\* The handler acts: what it has done, what it has started, and how it ends.
LEMMA ActsKeep ==
  ASSUME InboundAssumption, InboundInv, h.pc = "act", HandlerMoves, UNCHANGED message,
         \A d \in Events : d # h.e => effects'[d] = effects[d] /\ input'[d] = input[d],
         script[h.e] # "request" => input'[h.e] = input[h.e],
         script[h.e] # "command" => effects'[h.e] = effects[h.e],
         input'[h.e] = "target_ended" => h.row.target # 0 /\ run[h.row.target] # "active",
         \/ job' = job /\ flights' = flights
         \/ /\ script[h.e] # "command"
            /\ \E k \in {"submit", "launch", "approve"} :
                 /\ Dispatch(h.e, k)
                 /\ k = "submit" => script[h.e] = "request"
                 /\ k = "approve" => script[h.e] = "approve"
                 /\ k = "launch" => script[h.e] \in {"launch", "request"}
                 /\ k = "launch" /\ script[h.e] = "request" => input'[h.e] = "pending",
         script[h.e] = "command" => job' = job /\ flights' = flights,
         (h'.pc = "wait" /\ script[h.e] = "request") \/ h'.pc = "final",
         h'.pc = "final" /\ h'.row.state = "accepted" =>
           /\ Control(h.e)
           /\ effects'[h.e] = 1 \/ "passed" \in mark'[h.e] \/ (flights' = {h.e} /\ job'.pc = "called")
  PROVE  InboundInv'
<1>1. /\ UNCHANGED <<script, cursor, transport, row, run, gen, access, upsets>>
      /\ h' \in Handlers /\ h'.e = h.e /\ h'.row.gen = h.row.gen /\ h'.row.target = h.row.target
      /\ h'.row.started = h.row.started
      /\ mark' \in [Events -> SUBSET {"refused", "passed", "readmitted"}]
      /\ input' \in [Events -> {"none", "pending", "target_ended"}]
      /\ effects' \in [Events -> 0..1]
      /\ \A d \in Events : /\ mark[d] \subseteq mark'[d] /\ (effects[d] = 1 => effects'[d] = 1)
                           /\ input[d] # "none" => input'[d] = input[d]
  BY DEF HandlerMoves
<1>2. /\ h.e \in Events /\ h \in Handlers /\ script[h.e] \in Kinds
      /\ Control(h.e) => /\ row[h.e].started /\ h.row.started /\ effects[h.e] = 0
                         /\ h.e \notin flights
      /\ row[h.e].gen = gen \/ "readmitted" \in mark[h.e]
      /\ job = NoJob => flights = {}
  BY ActFacts
<1>3. \A d \in Events : Control(d)' <=> Control(d)
  BY <1>1 DEF Control
<1>4. /\ job' \in InboundJobs /\ flights' \subseteq flights \cup {h.e}
      /\ \/ job' = job /\ flights' = flights
         \/ /\ script[h.e] # "command" /\ flights' = {h.e}
            /\ job'.e = h.e /\ job'.pc = "called" /\ ~job'.found /\ ~job'.ok
            /\ job'.kind = "submit" => script[h.e] = "request"
            /\ job'.kind = "approve" => script[h.e] = "approve"
            /\ job'.kind = "launch" => script[h.e] \in {"launch", "request"}
            /\ job'.kind # "none"
            /\ job'.kind = "launch" /\ script[h.e] = "request" => input'[h.e] = "pending"
  <2>1. CASE job' = job /\ flights' = flights
    BY <2>1 DEF InboundInv, InboundTypes
  <2>2. CASE ~(job' = job /\ flights' = flights)
    <3>1. PICK k \in {"submit", "launch", "approve"} :
                 /\ Dispatch(h.e, k) /\ script[h.e] # "command"
                 /\ k = "submit" => script[h.e] = "request"
                 /\ k = "approve" => script[h.e] = "approve"
                 /\ k = "launch" => script[h.e] \in {"launch", "request"}
                 /\ k = "launch" /\ script[h.e] = "request" => input'[h.e] = "pending"
      BY <2>2
    <3>. QED BY <3>1, DispatchJob
  <2>. QED BY <2>1, <2>2
<1>5. InboundTypes'
  <2>1. flights' \subseteq Events
    BY <1>2, <1>4 DEF InboundInv, InboundTypes
  <2>. QED BY <1>1, <1>4, <2>1 DEF InboundInv, InboundTypes
<1>6. RunsOfRequests'
  <2>1. h.row.target = row[h.e].target
    BY DEF InboundInv, InTurn
  <2>2. row[h.e].target # 0 => run[row[h.e].target] # "none" /\ row[h.e].target \in Events
    BY <1>2 DEF InboundInv, RunsOfRequests, InboundTypes, InboundRows, Events
  <2>3. input'[h.e] = "target_ended" => row[h.e].target # 0 /\ run[row[h.e].target] = "ended"
    BY <2>1, <2>2 DEF InboundInv, InboundTypes
  <2>. QED BY <1>1, <2>3 DEF InboundInv, RunsOfRequests
<1>7. JobOK'
  <2>1. CASE job' = job /\ flights' = flights
    <3>1. job.pc # "none" => job.e \in Events /\ flights = {job.e}
      BY DEF InboundInv, JobOK
    <3>2. job.pc # "none" /\ Control(job.e) => effects'[job.e] = effects[job.e]
      BY <1>2, <3>1 DEF InboundInv, InboundTypes
    <3>3. job.pc # "none" => (Durable(job.e) => (run'[job.e] # "none" \/ input'[job.e] = "pending"))
                             /\ (input[job.e] = "pending" => input'[job.e] = "pending")
      BY <1>1, <3>1 DEF Durable
    <3>. QED BY <1>1, <1>3, <2>1, <3>1, <3>2, <3>3 DEF InboundInv, JobOK, Durable
  <2>2. CASE ~(job' = job /\ flights' = flights)
    BY <1>1, <1>2, <1>3, <1>4, <2>2 DEF JobOK
  <2>. QED BY <2>1, <2>2
<1>8. Begun'
  <2>1. \A d \in Events : Control(d) /\ (d \in flights' \/ d \in message' \/ effects'[d] # 0) => row'[d].started
    BY <1>1, <1>2, <1>4 DEF InboundInv, Begun
  <2>2. script[h.e] = "request" => ~Control(h.e)
    BY DEF Control
  <2>. QED BY <1>1, <1>2, <1>3, <2>1, <2>2 DEF Begun
<1>9. Promised'
  <2>1. h'.pc = "final" /\ h'.row.state = "accepted" => script[h.e] # "request"
    BY DEF Control
  <2>2. h'.pc = "final" /\ h'.row.state = "accepted" =>
          Excused(h.e)' \/ (/\ h'.e \in flights' /\ job'.pc # "recorded" /\ row'[h'.e].gen = gen'
                            /\ job'.pc # "reading")
    BY <1>1, <1>2 DEF Excused
  <2>. QED BY <1>1, <2>1, <2>2 DEF Promised
<1>. QED BY <1>2, <1>5, <1>6, <1>7, <1>8, <1>9, MovesKeep DEF InboundInv

LEMMA ActCommandKeeps == ASSUME InboundAssumption, InboundInv, ActCommand PROVE InboundInv'
<1>1. /\ UNCHANGED <<script, cursor, transport, row, run, gen, access, upsets>>
      /\ UNCHANGED <<message, input, job, flights, mark>>
      /\ h.pc = "act" /\ script[h.e] = "command" /\ Handled
      /\ effects' = [effects EXCEPT ![h.e] = @ + 1]
  BY DEF ActCommand, acting, fixed
<1>2. h.e \in Events /\ Control(h.e) /\ effects[h.e] = 0
  BY <1>1, ActFacts DEF Control
<1>3. /\ effects' \in [Events -> 0..1] /\ effects'[h.e] = 1
      /\ \A d \in Events : d # h.e => effects'[d] = effects[d]
  BY <1>1, <1>2 DEF InboundInv, InboundTypes
<1>4. /\ h' \in Handlers /\ h'.e = h.e /\ h'.row.gen = h.row.gen /\ h'.row.target = h.row.target
      /\ h'.row.started = h.row.started /\ h'.pc = "final" /\ h'.row.state = "accepted"
  BY <1>1, HandledEnds DEF InboundInv
<1>5. HandlerMoves
  BY <1>1, <1>2, <1>3, <1>4 DEF HandlerMoves, InboundInv, InboundTypes
<1>6. input'[h.e] # "target_ended"
  BY <1>1, <1>2 DEF Control, InboundInv, RunsOfRequests
<1>. QED BY <1>1, <1>2, <1>3, <1>4, <1>5, <1>6, ActsKeep

LEMMA ActLaunchKeeps == ASSUME InboundAssumption, InboundInv, ActLaunch PROVE InboundInv'
<1>1. /\ UNCHANGED <<script, cursor, transport, row, run, gen, access, upsets>>
      /\ UNCHANGED <<message, input, effects>>
      /\ h.pc = "act" /\ script[h.e] = "launch"
      /\ \/ Dispatch(h.e, "launch") /\ Handled /\ UNCHANGED <<busy, mark>>
         \/ ~busy /\ busy' = TRUE /\ Rejected /\ UNCHANGED <<job, flights, mark>>
         \/ busy /\ Handled /\ mark' = [mark EXCEPT ![h.e] = @ \cup {"passed"}] /\ UNCHANGED <<busy, job, flights>>
  BY DEF ActLaunch, acting, fixed
<1>2. h.e \in Events /\ Control(h.e) /\ effects[h.e] = 0
  BY <1>1, ActFacts DEF Control
<1>3. /\ h' \in Handlers /\ h'.e = h.e /\ h'.row.gen = h.row.gen /\ h'.row.target = h.row.target
      /\ h'.row.started = h.row.started /\ h'.pc = "final" /\ h'.row.state \in {"accepted", "rejected"}
      /\ Rejected => h'.row.state = "rejected"
  BY <1>1, HandledEnds, RejectedEnds DEF InboundInv
<1>4. /\ mark' \in [Events -> SUBSET {"refused", "passed", "readmitted"}]
      /\ \A d \in Events : mark[d] \subseteq mark'[d]
      /\ mark' = mark \/ "passed" \in mark'[h.e]
  BY <1>1, <1>2 DEF InboundInv, InboundTypes
<1>5. HandlerMoves
  BY <1>1, <1>3, <1>4 DEF HandlerMoves, InboundInv, InboundTypes
<1>6. input'[h.e] # "target_ended"
  BY <1>1, <1>2 DEF Control, InboundInv, RunsOfRequests
<1>7. \/ job' = job /\ flights' = flights
      \/ Dispatch(h.e, "launch")
  BY <1>1
<1>8. h'.row.state = "accepted" => "passed" \in mark'[h.e] \/ (flights' = {h.e} /\ job'.pc = "called")
  <2>1. h'.row.state = "accepted" => Dispatch(h.e, "launch") \/ mark' = [mark EXCEPT ![h.e] = @ \cup {"passed"}]
    BY <1>1, <1>3
  <2>2. Dispatch(h.e, "launch") => flights' = {h.e} /\ job'.pc = "called"
    BY <1>1, DispatchJob
  <2>. QED BY <1>2, <2>1, <2>2 DEF InboundInv, InboundTypes
<1>9. script[h.e] \notin {"command", "request"}
  BY <1>1
<1>. QED BY <1>1, <1>2, <1>3, <1>5, <1>6, <1>7, <1>8, <1>9, ActsKeep

LEMMA ActApproveKeeps == ASSUME InboundAssumption, InboundInv, ActApprove PROVE InboundInv'
<1>1. /\ UNCHANGED <<script, cursor, transport, row, run, gen, access, upsets>>
      /\ UNCHANGED <<message, input, effects, mark>>
      /\ h.pc = "act" /\ script[h.e] = "approve"
      /\ \/ Dispatch(h.e, "approve") /\ Handled
         \/ Rejected /\ UNCHANGED <<job, flights>>
  BY DEF ActApprove, acting, fixed
<1>2. h.e \in Events /\ Control(h.e) /\ effects[h.e] = 0
  BY <1>1, ActFacts DEF Control
<1>3. /\ h' \in Handlers /\ h'.e = h.e /\ h'.row.gen = h.row.gen /\ h'.row.target = h.row.target
      /\ h'.row.started = h.row.started /\ h'.pc = "final" /\ h'.row.state \in {"accepted", "rejected"}
      /\ Rejected => h'.row.state = "rejected"
  BY <1>1, HandledEnds, RejectedEnds DEF InboundInv
<1>5. HandlerMoves
  <2>1. UNCHANGED <<mark, input, effects>>
    BY <1>1
  <2>. QED BY <1>1, <1>3, <2>1 DEF HandlerMoves, InboundInv, InboundTypes
<1>6. input'[h.e] # "target_ended"
  BY <1>1, <1>2 DEF Control, InboundInv, RunsOfRequests
<1>7. \/ job' = job /\ flights' = flights
      \/ Dispatch(h.e, "approve")
  BY <1>1
<1>8. h'.row.state = "accepted" => flights' = {h.e} /\ job'.pc = "called"
  <2>1. h'.row.state = "accepted" => Dispatch(h.e, "approve")
    BY <1>1, <1>3
  <2>. QED BY <1>1, <2>1, DispatchJob
<1>9. script[h.e] \notin {"command", "request"}
  BY <1>1
<1>. QED BY <1>1, <1>2, <1>3, <1>5, <1>6, <1>7, <1>8, <1>9, ActsKeep

LEMMA ActRequestKeeps == ASSUME InboundAssumption, InboundInv, ActRequest PROVE InboundInv'
<1>1. /\ UNCHANGED <<script, cursor, transport, row, run, gen, access, upsets>>
      /\ UNCHANGED <<message, effects, mark>>
      /\ h.pc = "act" /\ script[h.e] = "request"
  BY DEF ActRequest, acting, fixed
<1>2. h.e \in Events /\ ~Control(h.e)
  BY <1>1, ActFacts DEF Control
<1>3. Handled \/ Rejected
  BY DEF ActRequest
<1>4. /\ h' \in Handlers /\ h'.e = h.e /\ h'.row.gen = h.row.gen /\ h'.row.target = h.row.target
      /\ h'.row.started = h.row.started
      /\ (h'.pc = "wait" /\ h'.row = h.row) \/ (h'.pc = "final" /\ h'.row.state = "rejected")
  BY <1>1, <1>3, HandledEnds, RejectedEnds DEF InboundInv
<1>5. \/ input' = input
      \/ /\ h.row.target # 0
         /\ input' = [input EXCEPT ![h.e] = IF @ # "none" THEN @
                        ELSE IF run[h.row.target] = "active" THEN "pending" ELSE "target_ended"]
  BY DEF ActRequest
<1>6. /\ input' \in [Events -> {"none", "pending", "target_ended"}]
      /\ \A d \in Events : input[d] # "none" => input'[d] = input[d]
      /\ \A d \in Events : d # h.e => input'[d] = input[d]
  BY <1>2, <1>5 DEF InboundInv, InboundTypes
<1>7. input'[h.e] = "target_ended" => h.row.target # 0 /\ run[h.row.target] # "active"
  <2>1. input[h.e] = "target_ended" => row[h.e].target # 0 /\ run[row[h.e].target] = "ended"
    BY <1>2 DEF InboundInv, RunsOfRequests
  <2>2. h.row.target = row[h.e].target
    BY <1>1 DEF InboundInv, InTurn
  <2>. QED BY <1>2, <1>5, <2>1, <2>2 DEF InboundInv, InboundTypes
<1>8. \/ job' = job /\ flights' = flights
      \/ Dispatch(h.e, "submit")
      \/ Dispatch(h.e, "launch") /\ input'[h.e] = "pending"
  <2>1. \/ job' = job /\ flights' = flights
        \/ Dispatch(h.e, "submit")
        \/ /\ Dispatch(h.e, "launch") /\ run[h.row.target] = "active"
           /\ h.row.target # 0
           /\ input' = [input EXCEPT ![h.e] = IF @ # "none" THEN @
                        ELSE IF run[h.row.target] = "active" THEN "pending" ELSE "target_ended"]
    BY DEF ActRequest
  <2>2. run[h.row.target] = "active" => input[h.e] # "target_ended"
    <3>1. input[h.e] = "target_ended" => row[h.e].target # 0 /\ run[row[h.e].target] = "ended"
      BY <1>2 DEF InboundInv, RunsOfRequests
    <3>2. h.row.target = row[h.e].target
      BY <1>1 DEF InboundInv, InTurn
    <3>. QED BY <3>1, <3>2
  <2>. QED BY <1>2, <2>1, <2>2 DEF InboundInv, InboundTypes
<1>9. HandlerMoves
  <2>1. UNCHANGED <<mark, effects>>
    BY <1>1
  <2>. QED BY <1>1, <1>4, <1>6, <2>1 DEF HandlerMoves, InboundInv, InboundTypes
<1>10. \/ job' = job /\ flights' = flights
       \/ /\ script[h.e] # "command"
          /\ \E k \in {"submit", "launch", "approve"} :
                 /\ Dispatch(h.e, k)
                 /\ k = "submit" => script[h.e] = "request"
                 /\ k = "approve" => script[h.e] = "approve"
                 /\ k = "launch" => script[h.e] \in {"launch", "request"}
                 /\ k = "launch" /\ script[h.e] = "request" => input'[h.e] = "pending"
  BY <1>1, <1>8
<1>. QED BY <1>1, <1>2, <1>4, <1>6, <1>7, <1>9, <1>10, ActsKeep

-----------------------------------------------------------------------------
(* A row that is there is written again, by the handler or by the job.        *)

LEMMA WriteKeeps ==
  ASSUME InboundInv, NEW e \in Events, NEW r \in InboundRows, row' = [row EXCEPT ![e] = r],
         UNCHANGED <<script, cursor, message, input, run, gen, effects, mark>>,
         flights' \subseteq flights,
         r.gen = row[e].gen, r.target = row[e].target,
         Control(e) /\ row[e].started => r.started,
         r.state # "none" /\ r.gen # 0,
         transport' = "acked" => transport = "acked" \/ e = cursor + 1,
         r.state \in Settled \cup {"scheduled"} \/ (e = cursor + 1 /\ transport' # "acked"),
         r.state = "accepted" => \/ row[e].state = "accepted"
                                 \/ /\ script[e] = "request" => Durable(e)
                                    /\ Control(e) => Excused(e)
  PROVE  /\ row' \in [Events -> InboundRows] /\ row'[e] = r
         /\ \A d \in Events : d # e => row'[d] = row[d]
         /\ \A d \in Events : row'[d].gen <= gen' /\ (row'[d].state # "none" => row'[d].gen # 0)
         /\ \A d \in Events : row'[d].state = "none" => ~row'[d].started /\ row'[d].target = 0
         /\ \A d \in Events : Control(d)' /\ (d \in flights' \/ d \in message' \/ effects'[d] # 0)
                         => row'[d].started
         /\ RunsOfRequests' /\ AckedIsKept' /\ AcceptedRequestIsDurable' /\ AcceptedControlIsDone'
<1>1. /\ row' \in [Events -> InboundRows] /\ row'[e] = r
      /\ \A d \in Events : d # e => row'[d] = row[d]
  BY RowWritten DEF InboundInv
<1>2. /\ \A d \in Events : row'[d].gen <= gen' /\ (row'[d].state # "none" => row'[d].gen # 0)
      /\ \A d \in Events : row'[d].state = "none" => ~row'[d].started /\ row'[d].target = 0
  BY <1>1 DEF InboundInv, InTurn
<1>3. \A d \in Events : Control(d)' /\ (d \in flights' \/ d \in message' \/ effects'[d] # 0)
                         => row'[d].started
  BY <1>1 DEF InboundInv, Begun, Control
<1>4. RunsOfRequests'
  <2>1. \A d \in Events : row'[d].target = row[d].target
    BY <1>1
  <2>. QED BY <2>1 DEF InboundInv, RunsOfRequests
<1>5. AckedIsKept'
  <2>1. cursor \in Nat /\ e \in Nat
    BY DEF InboundInv, InboundTypes, Events
  <2>2. SUFFICES ASSUME NEW d \in Events, d <= cursor \/ (d = cursor + 1 /\ transport' = "acked"),
                        "refused" \notin mark[d]
                 PROVE  row'[d].state \in Settled \cup {"scheduled"}
    BY DEF AckedIsKept
  <2>3. CASE d # e
    <3>1. d = cursor + 1 /\ transport' = "acked" => transport = "acked"
      BY <2>3
    <3>. QED BY <1>1, <2>2, <2>3, <3>1 DEF InboundInv, AckedIsKept
  <2>4. CASE d = e
    BY <1>1, <2>1, <2>2, <2>4
  <2>. QED BY <2>3, <2>4
<1>6. AcceptedRequestIsDurable'
  BY <1>1 DEF InboundInv, AcceptedRequestIsDurable, Durable
<1>7. AcceptedControlIsDone'
  BY <1>1 DEF InboundInv, AcceptedControlIsDone, Control, Excused
<1>. QED BY <1>1, <1>2, <1>3, <1>4, <1>5, <1>6, <1>7

LEMMA SaveReceiptKeeps == ASSUME InboundAssumption, InboundInv, SaveReceipt PROVE InboundInv'
<1> DEFINE saved == IF Control(h.e) /\ h.row.state = "accepted" /\ h.e \in flights
                    THEN [h.row EXCEPT !.state = "scheduled"] ELSE h.row
           r == IF row[h.e].state \in {"pending", "scheduled"} THEN saved ELSE row[h.e]
<1>1. /\ UNCHANGED <<script, cursor, message, input, run, gen, effects, mark>>
      /\ UNCHANGED <<access, upsets, job, flights>> /\ Answer(TRUE) /\ h.pc = "final"
  BY DEF SaveReceipt, fixed, work
<1>2. /\ h.e \in Events /\ h.e = cursor + 1 /\ h \in Handlers /\ h.row \in InboundRows
      /\ row[h.e] \in InboundRows /\ row[h.e].state # "none" /\ transport # "acked"
  BY <1>1, HandlerFacts
<1>3. row' = [row EXCEPT ![h.e] = r]
  BY <1>2 DEF SaveReceipt, InboundInv, InboundTypes
<1>4. /\ h.row.gen = row[h.e].gen /\ h.row.target = row[h.e].target
      /\ h.row.state \in {"accepted", "rejected", "target_ended"}
      /\ row[h.e].gen # 0 /\ (Control(h.e) => h.row.started)
  BY <1>1, <1>2 DEF InboundInv, InTurn, Begun
<1>5. /\ saved \in InboundRows /\ saved.gen = row[h.e].gen /\ saved.target = row[h.e].target
      /\ saved.started = h.row.started /\ saved.state \in Settled \cup {"scheduled"}
      /\ saved.state = "accepted" => h.row.state = "accepted" /\ ~(Control(h.e) /\ h.e \in flights)
  <2>1. CASE Control(h.e) /\ h.row.state = "accepted" /\ h.e \in flights
    BY <1>2, <1>4, <2>1, RowMoves
  <2>2. CASE ~(Control(h.e) /\ h.row.state = "accepted" /\ h.e \in flights)
    BY <1>2, <1>4, <2>2 DEF Settled
  <2>. QED BY <2>1, <2>2
<1> HIDE DEF saved
<1>6. /\ r \in InboundRows /\ r.gen = row[h.e].gen /\ r.target = row[h.e].target
      /\ r.state # "none" /\ r.gen # 0 /\ r.state \in Settled \cup {"scheduled"}
  <2>1. row[h.e].state \in Settled \cup {"pending", "scheduled"}
    BY <1>2 DEF InboundRows
  <2>. QED BY <1>2, <1>4, <1>5, <2>1 DEF Settled
<1>7. r.state = "accepted" => \/ row[h.e].state = "accepted"
                              \/ /\ script[h.e] = "request" => Durable(h.e)
                                 /\ Control(h.e) => Excused(h.e)
  <2>1. CASE row[h.e].state \in {"pending", "scheduled"} /\ r.state = "accepted"
    BY <1>1, <1>5, <2>1 DEF InboundInv, Promised
  <2>. QED BY <2>1
<1>8. Control(h.e) /\ row[h.e].started => r.started
  BY <1>4, <1>5
<1> HIDE DEF r
<1>9. /\ h' \in Handlers /\ h' = Free /\ h'.pc = "free" /\ transport' \in {"idle", "posting", "acked"}
      /\ transport' # "idle" => transport # "idle"
  BY <1>1, AnswerKeeps, NoInboundRecords
<1>10. /\ row' \in [Events -> InboundRows]
       /\ \A d \in Events : row'[d].gen <= gen' /\ (row'[d].state # "none" => row'[d].gen # 0)
       /\ \A d \in Events : row'[d].state = "none" => ~row'[d].started /\ row'[d].target = 0
       /\ \A d \in Events : Control(d)' /\ (d \in flights' \/ d \in message' \/ effects'[d] # 0)
                         => row'[d].started
       /\ RunsOfRequests' /\ AckedIsKept' /\ AcceptedRequestIsDurable' /\ AcceptedControlIsDone'
  <2>1. UNCHANGED <<script, cursor, message, input, run, gen, effects, mark>> /\ flights' \subseteq flights
    BY <1>1
  <2>2. transport' = "acked" => transport = "acked" \/ h.e = cursor + 1
    BY <1>2
  <2>. QED BY <1>2, <1>3, <1>6, <1>7, <1>8, <2>1, <2>2, WriteKeeps
<1>11. InboundTypes'
  BY <1>1, <1>9, <1>10 DEF InboundInv, InboundTypes
<1>12. InTurn'
  BY <1>1, <1>9, <1>10 DEF InboundInv, InTurn
<1>13. Begun' /\ Promised'
  BY <1>9, <1>10 DEF Begun, Promised
<1>14. JobOK'
  BY <1>1 DEF InboundInv, JobOK, Control, Durable
<1>. QED BY <1>10, <1>11, <1>12, <1>13, <1>14 DEF InboundInv

LEMMA AdmitKeeps == ASSUME InboundAssumption, InboundInv, Admit PROVE InboundInv'
<1> DEFINE r == IF Control(h.e) THEN [h.row EXCEPT !.started = TRUE] ELSE h.row
           stale == [r EXCEPT !.state = "rejected"]
           kept == IF Control(h.e) THEN r ELSE row[h.e]
           next == IF h.e \in flights THEN "wait" ELSE IF script[h.e] = "approve" THEN "act" ELSE "receive"
<1>1. /\ UNCHANGED <<script, cursor, message, input, run, gen, effects, mark>>
      /\ UNCHANGED <<access, upsets, job, flights>> /\ h.pc = "admit"
  BY DEF Admit, fixed, work
<1>2. /\ h.e \in Events /\ h.e = cursor + 1 /\ h \in Handlers /\ h.row \in InboundRows
      /\ row[h.e] \in InboundRows /\ row[h.e].state # "none" /\ transport # "acked"
      /\ script[h.e] \in Kinds
  BY <1>1, HandlerFacts
<1>3. /\ h.row.gen = row[h.e].gen /\ h.row.target = row[h.e].target
      /\ h.row.state \in {"pending", "scheduled"} /\ cursor < N
      /\ row[h.e].gen # 0 /\ (row[h.e].gen = gen \/ "readmitted" \in mark[h.e])
      /\ ~row[h.e].started
  BY <1>1, <1>2 DEF InboundInv, InTurn, Begun
<1>4. Control(h.e) => h.e \notin flights /\ h.e \notin message /\ effects[h.e] = 0
  BY <1>2, <1>3 DEF InboundInv, Begun
<1>5. /\ r \in InboundRows /\ r.gen = row[h.e].gen /\ r.target = row[h.e].target
      /\ r.state = h.row.state /\ (Control(h.e) => r.started)
  BY <1>2, <1>3, RowStarted
<1>6. \/ row' = [row EXCEPT ![h.e] = stale] /\ Answer(TRUE)
      \/ row' = [row EXCEPT ![h.e] = kept] /\ h' = [h EXCEPT !.row = r, !.pc = next] /\ transport' = transport
  <2>1. \/ row' = [row EXCEPT ![h.e] = stale] /\ Answer(TRUE)
        \/ /\ row' = [row EXCEPT ![h.e] = IF Control(h.e) THEN r ELSE @]
           /\ h' = [h EXCEPT !.row = r, !.pc = next] /\ transport' = transport
    BY Zenon DEF Admit
  <2> HIDE DEF r
  <2>2. [row EXCEPT ![h.e] = IF Control(h.e) THEN r ELSE @] = [row EXCEPT ![h.e] = kept]
    OBVIOUS
  <2>. QED BY <2>1, <2>2
<1>7. next \in {"wait", "act", "receive"} /\ (Control(h.e) => next # "wait")
  BY <1>4
<1> HIDE DEF r
<1>8. /\ stale \in InboundRows /\ stale.gen = r.gen /\ stale.target = r.target /\ stale.state = "rejected"
      /\ stale.started = r.started
  BY <1>5, RowMoves DEF Settled
<1>9. /\ kept \in InboundRows /\ kept.gen = row[h.e].gen /\ kept.target = row[h.e].target
      /\ kept.state # "none" /\ (Control(h.e) => kept.started)
      /\ kept.state = "accepted" => row[h.e].state = "accepted"
  BY <1>2, <1>3, <1>5
<1> HIDE DEF stale, kept, next
<1>10. UNCHANGED <<script, cursor, message, input, run, gen, effects, mark>> /\ flights' \subseteq flights
  BY <1>1
<1>11. ASSUME row' = [row EXCEPT ![h.e] = stale], Answer(TRUE)
       PROVE  InboundInv'
  <2>1. /\ h' \in Handlers /\ h' = Free /\ h'.pc = "free" /\ transport' \in {"idle", "posting", "acked"}
        /\ transport' # "idle" => transport # "idle"
    BY <1>11, AnswerKeeps, NoInboundRecords
  <2>2. /\ row' \in [Events -> InboundRows]
        /\ \A d \in Events : row'[d].gen <= gen' /\ (row'[d].state # "none" => row'[d].gen # 0)
        /\ \A d \in Events : row'[d].state = "none" => ~row'[d].started /\ row'[d].target = 0
        /\ \A d \in Events : Control(d)' /\ (d \in flights' \/ d \in message' \/ effects'[d] # 0)
                         => row'[d].started
        /\ RunsOfRequests' /\ AckedIsKept' /\ AcceptedRequestIsDurable' /\ AcceptedControlIsDone'
    <3>1. stale.state \in Settled \cup {"scheduled"} /\ stale.state # "accepted"
      BY <1>8 DEF Settled
    <3>2. stale.state # "none" /\ stale.gen # 0 /\ stale.gen = row[h.e].gen /\ stale.target = row[h.e].target
          /\ (Control(h.e) /\ row[h.e].started => stale.started)
      BY <1>3, <1>5, <1>8
    <3>. QED BY <1>2, <1>8, <1>10, <1>11, <3>1, <3>2, WriteKeeps
  <2>3. InboundTypes'
    BY <1>1, <2>1, <2>2 DEF InboundInv, InboundTypes
  <2>4. InTurn'
    BY <1>1, <2>1, <2>2 DEF InboundInv, InTurn
  <2>5. Begun' /\ Promised'
    BY <2>1, <2>2 DEF Begun, Promised
  <2>6. JobOK'
    BY <1>1 DEF InboundInv, JobOK, Control, Durable
  <2>. QED BY <2>2, <2>3, <2>4, <2>5, <2>6 DEF InboundInv
<1>12. ASSUME row' = [row EXCEPT ![h.e] = kept], h' = [h EXCEPT !.row = r, !.pc = next], transport' = transport
       PROVE  InboundInv'
  <2>1. h' \in Handlers /\ h'.pc = next /\ h'.e = h.e /\ h'.row = r
    <3>1. h \in Handlers /\ next \in {"receive", "act", "wait"} /\ r \in InboundRows
      BY <1>2, <1>5, <1>7
    <3>2. LET m == [h EXCEPT !.row = r, !.pc = next] IN
            m \in Handlers /\ m.pc = next /\ m.e = h.e /\ m.row = r
      BY <3>1 DEF Handlers
    <3>. QED BY <1>12, <3>2
  <2>2. /\ row' \in [Events -> InboundRows] /\ row'[h.e] = kept
        /\ \A d \in Events : row'[d].gen <= gen' /\ (row'[d].state # "none" => row'[d].gen # 0)
        /\ \A d \in Events : row'[d].state = "none" => ~row'[d].started /\ row'[d].target = 0
        /\ \A d \in Events : Control(d)' /\ (d \in flights' \/ d \in message' \/ effects'[d] # 0)
                         => row'[d].started
        /\ RunsOfRequests' /\ AckedIsKept' /\ AcceptedRequestIsDurable' /\ AcceptedControlIsDone'
    <3>1. kept.gen # 0 /\ transport' # "acked"
      BY <1>2, <1>3, <1>9, <1>12
    <3>. QED BY <1>2, <1>9, <1>10, <1>12, <3>1, WriteKeeps
  <2>3. InboundTypes'
    BY <1>1, <1>12, <2>1, <2>2 DEF InboundInv, InboundTypes
  <2>4. InTurn'
    BY <1>1, <1>2, <1>3, <1>5, <1>7, <1>9, <1>12, <2>1, <2>2 DEF InboundInv, InTurn
  <2>5. Begun'
    <3>1. Control(h.e)' <=> Control(h.e)
      BY <1>1, <2>1 DEF Control
    <3>. QED BY <1>1, <1>4, <1>5, <1>7, <1>9, <2>1, <2>2, <3>1 DEF Begun
  <2>6. JobOK' /\ Promised'
    BY <1>1, <1>7, <2>1 DEF InboundInv, JobOK, Control, Durable, Promised
  <2>. QED BY <2>2, <2>3, <2>4, <2>5, <2>6 DEF InboundInv
<1>. QED BY <1>6, <1>11, <1>12

-----------------------------------------------------------------------------
(* The job.                                                                   *)

\* What is known of the job that runs.
LEMMA JobFacts ==
  ASSUME InboundInv, job.pc # "none"
  PROVE  /\ job.e \in Events /\ flights = {job.e} /\ job \in InboundJobs
         /\ job.kind = "submit" => script[job.e] = "request"
         /\ job.kind = "approve" => script[job.e] = "approve"
         /\ job.kind = "launch" => script[job.e] \in {"launch", "request"}
         /\ job.kind # "none"
         /\ job.kind = "launch" /\ script[job.e] = "request" => input[job.e] = "pending"
         /\ job.pc = "called" /\ Control(job.e) => effects[job.e] = 0 /\ ~job.ok
         /\ job.ok /\ script[job.e] = "request" => Durable(job.e)
         /\ job.ok /\ Control(job.e) => effects[job.e] = 1
         /\ job.found => job.ok
BY DEF InboundInv, InboundTypes, JobOK

LEMMA JobRunsKeeps == ASSUME InboundAssumption, InboundInv, JobRuns PROVE InboundInv'
<1>1. /\ UNCHANGED <<script, cursor, transport, h, row, message, input, flights, access, gen, mark, upsets>>
      /\ job.pc = "called"
  BY DEF JobRuns, fixed
<1>2. /\ job.e \in Events /\ flights = {job.e} /\ job \in InboundJobs
      /\ job.kind = "submit" => script[job.e] = "request"
      /\ job.kind = "approve" => script[job.e] = "approve"
      /\ job.kind = "launch" => script[job.e] \in {"launch", "request"}
      /\ job.kind # "none"
      /\ job.kind = "launch" /\ script[job.e] = "request" => input[job.e] = "pending"
      /\ job.pc = "called" /\ Control(job.e) => effects[job.e] = 0 /\ ~job.ok
      /\ job.ok /\ script[job.e] = "request" => Durable(job.e)
      /\ job.ok /\ Control(job.e) => effects[job.e] = 1
      /\ job.found => job.ok
  BY <1>1, JobFacts
\* What becomes of the Runs.
<1>3. /\ run' \in [Events -> {"none", "active", "ended"}]
      /\ \A d \in Events : run[d] # "none" => run'[d] # "none"
      /\ \A d \in Events : run[d] = "ended" => run'[d] = "ended"
      /\ \A d \in Events : run'[d] # "none" => script[d] = "request"
      /\ \A c, d \in Events : run'[c] = "active" /\ run'[d] = "active" => c = d
  <2>1. /\ run \in [Events -> {"none", "active", "ended"}]
        /\ \A d \in Events : run[d] # "none" => script[d] = "request"
        /\ \A c, d \in Events : run[c] = "active" /\ run[d] = "active" => c = d
    BY DEF InboundInv, InboundTypes, RunsOfRequests
  <2>2. \/ run' = run
        \/ run' = [run EXCEPT ![job.e] = "active"] /\ job.kind = "submit" /\ ActiveRun = {} /\ run[job.e] = "none"
        \/ run' = [run EXCEPT ![job.e] = "ended"] /\ run[job.e] = "active"
        \/ run' = [e \in Events |-> IF run[e] = "active" THEN "ended" ELSE run[e]]
    BY DEF JobRuns
  <2>3. CASE run' = run BY <2>1, <2>3
  <2>4. CASE run' = [run EXCEPT ![job.e] = "active"] /\ job.kind = "submit" /\ ActiveRun = {} /\ run[job.e] = "none"
    BY <1>2, <2>1, <2>4 DEF ActiveRun
  <2>5. CASE run' = [run EXCEPT ![job.e] = "ended"] /\ run[job.e] = "active"
    BY <1>2, <2>1, <2>5
  <2>6. CASE run' = [e \in Events |-> IF run[e] = "active" THEN "ended" ELSE run[e]]
    BY <2>1, <2>6
  <2>. QED BY <2>2, <2>3, <2>4, <2>5, <2>6
\* What takes effect.
<1>4. /\ effects' \in [Events -> 0..1]
      /\ \A d \in Events : d # job.e \/ ~Control(d) => effects'[d] = effects[d]
      /\ \A d \in Events : effects[d] = 1 => effects'[d] = 1
      /\ effects' = effects \/ effects'[job.e] = 1 \/ ~Control(job.e)
  <2>1. effects \in [Events -> 0..1]
    BY DEF InboundInv, InboundTypes
  <2>2. \/ effects' = effects
        \/ effects' = [effects EXCEPT ![job.e] = IF Control(job.e) THEN @ + 1 ELSE @]
        \/ effects' = [effects EXCEPT ![job.e] = @ + 1] /\ job.kind = "approve"
    BY DEF JobRuns
  <2>3. job.kind = "approve" => Control(job.e)
    BY <1>2 DEF Control
  <2>. QED BY <1>1, <1>2, <2>1, <2>2, <2>3
\* What the job reports.
<1>5. /\ job' \in InboundJobs /\ job'.e = job.e /\ job'.kind = job.kind
      /\ job'.pc \in {"called", "returned"}
      /\ job'.found => job'.ok
      /\ job'.pc = "called" => job.kind = "submit"
      /\ job'.ok /\ ~job.ok => \/ job.kind = "submit" /\ run'[job.e] # "none"
                               \/ job.kind = "launch" /\ (Control(job.e) => effects'[job.e] = 1)
                               \/ job.kind = "approve" /\ effects'[job.e] = 1
      /\ job.ok => job'.ok
  <2>1. CASE /\ job.kind = "submit" /\ run' = [run EXCEPT ![job.e] = "active"]
             /\ job' = [job EXCEPT !.found = TRUE, !.ok = TRUE]
    <3>1. job' \in InboundJobs /\ job'.e = job.e /\ job'.kind = job.kind /\ job'.pc = job.pc /\ job'.found /\ job'.ok
      BY <1>2, <2>1 DEF InboundJobs
    <3>2. run'[job.e] # "none"
      BY <1>2, <2>1 DEF InboundInv, InboundTypes
    <3>. QED BY <1>1, <2>1, <3>1, <3>2
  <2>2. CASE job' = [job EXCEPT !.pc = "returned"]
    <3>1. job' \in InboundJobs /\ job'.e = job.e /\ job'.kind = job.kind /\ job'.pc = "returned"
          /\ job'.found = job.found /\ job'.ok = job.ok
      BY <1>2, <2>2 DEF InboundJobs
    <3>. QED BY <1>2, <3>1
  <2>3. CASE /\ job.kind = "launch" /\ job' = [job EXCEPT !.pc = "returned", !.ok = TRUE]
             /\ effects' = [effects EXCEPT ![job.e] = IF Control(job.e) THEN @ + 1 ELSE @]
    <3>1. job' \in InboundJobs /\ job'.e = job.e /\ job'.kind = job.kind /\ job'.pc = "returned" /\ job'.ok
      BY <1>2, <2>3 DEF InboundJobs
    <3>2. Control(job.e) => effects'[job.e] = 1
      BY <1>1, <1>2, <2>3 DEF InboundInv, InboundTypes
    <3>. QED BY <2>3, <3>1, <3>2
  <2>4. CASE /\ job.kind = "approve" /\ job' = [job EXCEPT !.pc = "returned", !.ok = TRUE, !.found = TRUE]
             /\ effects' = [effects EXCEPT ![job.e] = @ + 1]
    <3>1. job' \in InboundJobs /\ job'.e = job.e /\ job'.kind = job.kind /\ job'.pc = "returned" /\ job'.ok
      BY <1>2, <2>4 DEF InboundJobs
    <3>2. effects'[job.e] = 1
      BY <1>1, <1>2, <2>4 DEF InboundInv, InboundTypes, Control
    <3>. QED BY <2>4, <3>1, <3>2
  <2>. QED BY <2>1, <2>2, <2>3, <2>4 DEF JobRuns
<1>6. \A d \in Events : Control(d)' <=> Control(d)
  BY <1>1 DEF Control
<1>7. InboundTypes'
  BY <1>1, <1>3, <1>4, <1>5 DEF InboundInv, InboundTypes
<1>8. InTurn' /\ AckedIsKept'
  BY <1>1 DEF InboundInv, InTurn, AckedIsKept
<1>9. RunsOfRequests'
  <2>1. \A d \in Events : row[d].target # 0 => row[d].target \in Events
    BY DEF InboundInv, InboundTypes, InboundRows, Events
  <2>. QED BY <1>1, <1>3, <2>1 DEF InboundInv, RunsOfRequests
<1>10. Begun'
  <2>1. job.e \in flights
    BY <1>2
  <2>2. \A d \in Events : Control(d) /\ (d \in flights \/ d \in message \/ effects'[d] # 0) => row[d].started
    BY <1>2, <1>4, <2>1 DEF InboundInv, Begun
  <2>3. h.pc \in {"receive", "act"} /\ Control(h.e) => h.e # job.e /\ h.e \in Events
    <3>1. h.pc # "free" => h.e \in Events
      BY HandlerFacts
    <3>. QED BY <2>1, <3>1 DEF InboundInv, Begun
  <2>4. Control(h.e)' <=> Control(h.e)
    BY <1>1 DEF Control
  <2>. QED BY <1>1, <1>4, <1>6, <2>2, <2>3, <2>4 DEF InboundInv, Begun
<1>11. JobOK'
  <2>2. Durable(job.e) => run'[job.e] # "none" \/ input'[job.e] = "pending"
    BY <1>1, <1>2, <1>3 DEF Durable
  <2>3. job'.ok /\ script[job.e] = "request" => run'[job.e] # "none" \/ input'[job.e] = "pending"
    BY <1>1, <1>2, <1>5, <2>2
  <2>4. job'.ok /\ Control(job.e) => effects'[job.e] = 1
    BY <1>1, <1>2, <1>5 DEF Control
  <2>5. job.kind = "submit" => ~Control(job.e)
    BY <1>2 DEF Control
  <2>. QED BY <1>1, <1>2, <1>5, <2>3, <2>4, <2>5 DEF JobOK, Control, Durable
<1>12. Promised'
  <2>1. h.pc = "final" => h.e \in Events
    BY HandlerFacts
  <2>2. h.pc = "final" => (Control(h.e)' <=> Control(h.e)) /\ (Durable(h.e) => Durable(h.e)')
                          /\ (Excused(h.e) => Excused(h.e)')
    BY <1>1, <1>3, <1>4, <2>1 DEF Control, Durable, Excused
  <2>. QED BY <1>1, <1>5, <2>1, <2>2 DEF InboundInv, Promised
<1>13. AcceptedRequestIsDurable'
  BY <1>1, <1>3 DEF InboundInv, AcceptedRequestIsDurable
<1>14. AcceptedControlIsDone'
  BY <1>1, <1>4, <1>6 DEF InboundInv, AcceptedControlIsDone
<1>. QED BY <1>7, <1>8, <1>9, <1>10, <1>11, <1>12, <1>13, <1>14 DEF InboundInv

LEMMA CompleteReadsKeeps == ASSUME InboundAssumption, InboundInv, CompleteReads PROVE InboundInv'
<1>1. /\ UNCHANGED <<script, cursor, transport, h, row, message, input, run, flights,
                     access, gen, mark, upsets, effects>>
      /\ job.pc = "returned" /\ job' = [job EXCEPT !.pc = "reading", !.seen = row[job.e]]
  BY DEF CompleteReads, fixed
<1>2. job.e \in Events /\ flights = {job.e} /\ job \in InboundJobs
  BY <1>1, JobFacts
<1>3. /\ job' \in InboundJobs /\ job'.e = job.e /\ job'.kind = job.kind /\ job'.pc = "reading"
      /\ job'.found = job.found /\ job'.ok = job.ok /\ job'.seen = row[job.e]
  <2>1. row[job.e] \in InboundRows
    BY <1>2 DEF InboundInv, InboundTypes
  <2>. QED BY <1>1, <1>2, <2>1 DEF InboundJobs
<1>4. InboundTypes'
  BY <1>1, <1>3 DEF InboundInv, InboundTypes
<1>5. InTurn' /\ RunsOfRequests' /\ AckedIsKept'
  BY <1>1 DEF InboundInv, InTurn, RunsOfRequests, AckedIsKept
<1>6. Begun' /\ AcceptedRequestIsDurable' /\ AcceptedControlIsDone'
  BY <1>1 DEF InboundInv, Begun, AcceptedRequestIsDurable, AcceptedControlIsDone, Control
<1>7. JobOK'
  BY <1>1, <1>3 DEF InboundInv, JobOK, Control, Durable
<1>8. Promised'
  BY <1>1, <1>2, <1>3 DEF InboundInv, Promised, Control, Durable, Excused
<1>. QED BY <1>4, <1>5, <1>6, <1>7, <1>8 DEF InboundInv

LEMMA CompleteWritesKeeps == ASSUME InboundAssumption, InboundInv, CompleteWrites PROVE InboundInv'
<1>1. /\ UNCHANGED <<script, cursor, transport, h, message, input, run, flights, access,
                     gen, mark, upsets, effects>>
      /\ job.pc = "reading" /\ job' = [job EXCEPT !.pc = "recorded"]
  BY DEF CompleteWrites, fixed
<1>2. /\ job.e \in Events /\ flights = {job.e} /\ job \in InboundJobs
      /\ job.ok /\ script[job.e] = "request" => Durable(job.e)
      /\ job.ok /\ Control(job.e) => effects[job.e] = 1
  BY <1>1, JobFacts
<1>3. /\ job' \in InboundJobs /\ job'.e = job.e /\ job'.kind = job.kind /\ job'.pc = "recorded"
      /\ job'.found = job.found /\ job'.ok = job.ok
  BY <1>1, <1>2 DEF InboundJobs
<1>4. row[job.e] \in InboundRows /\ gen # 0
  BY <1>2 DEF InboundInv, InboundTypes
<1>5. JobOK'
  BY <1>1, <1>3 DEF InboundInv, JobOK, Control, Durable
<1>6. h.pc # "free" => h.e \in Events
  BY HandlerFacts
<1>7. ASSUME job.seen.gen = gen, row[job.e] = job.seen PROVE InboundInv'
  <2> DEFINE r == Completed(row[job.e])
  <2>1. /\ r \in InboundRows /\ r.gen = row[job.e].gen /\ r.target = row[job.e].target
        /\ r.started = row[job.e].started /\ r.state \in {"accepted", "rejected"}
        /\ r.state = "accepted" => job.ok
    <3>1. CASE job.ok
      <4>1. r = [row[job.e] EXCEPT !.state = "accepted"]
        BY <3>1 DEF Completed
      <4> HIDE DEF r
      <4>. QED BY <1>4, <3>1, <4>1, RowMoves DEF Settled
    <3>2. CASE ~job.ok
      <4>1. r = [row[job.e] EXCEPT !.state = "rejected"]
        BY <3>2 DEF Completed
      <4> HIDE DEF r
      <4>. QED BY <1>4, <3>2, <4>1, RowMoves DEF Settled
    <3>. QED BY <3>1, <3>2
  <2>2. row' = [row EXCEPT ![job.e] = r]
    BY <1>2, <1>7 DEF CompleteWrites, InboundInv, InboundTypes
  <2> HIDE DEF r
  <2>3. /\ row' \in [Events -> InboundRows] /\ row'[job.e] = r
        /\ \A d \in Events : d # job.e => row'[d] = row[d]
        /\ \A d \in Events : row'[d].gen <= gen' /\ (row'[d].state # "none" => row'[d].gen # 0)
        /\ \A d \in Events : row'[d].state = "none" => ~row'[d].started /\ row'[d].target = 0
        /\ \A d \in Events : Control(d)' /\ (d \in flights' \/ d \in message' \/ effects'[d] # 0)
                         => row'[d].started
        /\ RunsOfRequests' /\ AckedIsKept' /\ AcceptedRequestIsDurable' /\ AcceptedControlIsDone'
    <3>1. UNCHANGED <<script, cursor, message, input, run, gen, effects, mark>> /\ flights' \subseteq flights
          /\ (transport' = "acked" => transport = "acked")
      BY <1>1
    <3>2. r.state \in Settled \cup {"scheduled"} /\ r.state # "none" /\ r.gen # 0
      BY <1>4, <1>7, <2>1 DEF Settled
    <3>3. r.state = "accepted" => /\ script[job.e] = "request" => Durable(job.e)
                                  /\ Control(job.e) => Excused(job.e)
      BY <1>2, <2>1 DEF Excused
    <3>. QED BY <1>2, <2>1, <2>2, <3>1, <3>2, <3>3, WriteKeeps
  <2>4. InboundTypes'
    BY <1>1, <1>3, <2>3 DEF InboundInv, InboundTypes
  <2>5. InTurn'
    BY <1>1, <1>6, <2>1, <2>3 DEF InboundInv, InTurn
  <2>6. Begun'
    BY <1>1, <1>6, <2>1, <2>3 DEF InboundInv, Begun, Control
  <2>7. Promised'
    <3>1. h.pc = "final" => (Control(h.e)' <=> Control(h.e)) /\ (Durable(h.e) => Durable(h.e)')
                            /\ (Excused(h.e) => Excused(h.e)')
      BY <1>1 DEF Control, Durable, Excused
    <3>2. ASSUME h.pc = "final", h.row.state = "accepted", Control(h.e), ~Excused(h.e)
          PROVE  row'[h.e].state = "rejected"
      <4>1. CASE row[h.e].state = "rejected" /\ h.e # job.e
        BY <1>6, <2>3, <3>2, <4>1
      <4>2. CASE h.e = job.e
        BY <1>2, <2>1, <2>3, <3>2, <4>2 DEF Excused
      <4>3. h.e # job.e => row[h.e].state = "rejected"
        BY <1>2, <3>2 DEF InboundInv, Promised
      <4>. QED BY <4>1, <4>2, <4>3
    <3>. QED BY <1>1, <3>1, <3>2 DEF InboundInv, Promised
  <2>. QED BY <1>5, <2>3, <2>4, <2>5, <2>6, <2>7 DEF InboundInv
<1>8. ASSUME ~(job.seen.gen = gen /\ row[job.e] = job.seen) PROVE InboundInv'
  <2>1. row' = row
    BY <1>2, <1>8 DEF CompleteWrites, InboundInv, InboundTypes
  <2>2. InboundTypes'
    BY <1>1, <1>3, <2>1 DEF InboundInv, InboundTypes
  <2>3. InTurn' /\ RunsOfRequests' /\ AckedIsKept'
    BY <1>1, <2>1 DEF InboundInv, InTurn, RunsOfRequests, AckedIsKept
  <2>4. Begun' /\ AcceptedRequestIsDurable' /\ AcceptedControlIsDone'
    BY <1>1, <2>1 DEF InboundInv, Begun, AcceptedRequestIsDurable, AcceptedControlIsDone, Control
  <2>5. Promised'
    BY <1>1, <1>2, <1>8, <2>1 DEF InboundInv, Promised, Control, Durable, Excused
  <2>. QED BY <1>5, <2>2, <2>3, <2>4, <2>5 DEF InboundInv
<1>. QED BY <1>7, <1>8

LEMMA JobEndsKeeps == ASSUME InboundAssumption, InboundInv, JobEnds PROVE InboundInv'
<1>1. /\ UNCHANGED <<script, cursor, transport, h, row, message, input, run, access, gen,
                     mark, upsets, effects>>
      /\ job.pc = "recorded" /\ job' = NoJob /\ flights' = flights \ {job.e}
  BY DEF JobEnds, fixed
<1>2. flights' = {} /\ job'.pc = "none" /\ job' \in InboundJobs
  <2>1. flights = {job.e}
    BY <1>1, JobFacts
  <2>. QED BY <1>1, <2>1, NoInboundRecords DEF NoJob
<1>3. InboundTypes'
  BY <1>1, <1>2 DEF InboundInv, InboundTypes
<1>4. InTurn' /\ RunsOfRequests' /\ AckedIsKept'
  BY <1>1 DEF InboundInv, InTurn, RunsOfRequests, AckedIsKept
<1>5. Begun' /\ AcceptedRequestIsDurable' /\ AcceptedControlIsDone'
  BY <1>1, <1>2 DEF InboundInv, Begun, AcceptedRequestIsDurable, AcceptedControlIsDone, Control
<1>6. JobOK'
  BY <1>1, <1>2 DEF JobOK
<1>7. Promised'
  BY <1>1 DEF InboundInv, Promised, Control, Durable, Excused
<1>. QED BY <1>3, <1>4, <1>5, <1>6, <1>7 DEF InboundInv

LEMMA RecoverInboundKeeps == ASSUME InboundAssumption, InboundInv, RecoverInboundNotices PROVE InboundInv'
<1>1. /\ UNCHANGED <<script, cursor, transport, h, message, input, run, job, flights,
                     access, gen, mark, upsets, effects>>
      /\ h.pc = "free"
  BY DEF RecoverInboundNotices, fixed, work, Free
<1>2. /\ row' \in [Events -> InboundRows]
      /\ \A d \in Events : /\ row'[d].gen = row[d].gen /\ row'[d].started = row[d].started
                           /\ row'[d].target = row[d].target
                           /\ \/ row'[d].state = row[d].state
                              \/ row[d].state = "scheduled" /\ row'[d].state \in {"interrupted", "rejected"}
  <2> DEFINE old == {e \in Events : row[e].state = "scheduled" /\ row[e].gen # gen}
             end(e) == IF Granted /\ row[e].rev = access THEN "interrupted" ELSE "rejected"
  <2>1. row' = [e \in Events |-> IF e \notin old THEN row[e] ELSE [row[e] EXCEPT !.state = end(e)]]
    BY DEF RecoverInboundNotices
  <2>2. \A e \in Events : end(e) \in {"interrupted", "rejected"}
    OBVIOUS
  <2>3. \A e \in old : row[e].state = "scheduled"
    OBVIOUS
  <2> HIDE DEF old, end
  <2>4. SUFFICES ASSUME NEW d \in Events
                 PROVE  /\ row'[d] \in InboundRows
                        /\ row'[d].gen = row[d].gen /\ row'[d].started = row[d].started
                        /\ row'[d].target = row[d].target
                        /\ \/ row'[d].state = row[d].state
                           \/ row[d].state = "scheduled" /\ row'[d].state \in {"interrupted", "rejected"}
    BY <2>1
  <2>5. row[d] \in InboundRows
    BY DEF InboundInv, InboundTypes
  <2>6. CASE d \notin old
    BY <2>1, <2>5, <2>6
  <2>7. CASE d \in old
    <3>1. row'[d] = [row[d] EXCEPT !.state = end(d)]
      BY <2>1, <2>7
    <3>2. end(d) \in Settled \cup {"pending", "scheduled"}
      BY <2>2 DEF Settled
    <3>. QED BY <2>2, <2>3, <2>5, <2>7, <3>1, <3>2, RowMoves
  <2>. QED BY <2>6, <2>7
<1>3. InboundTypes'
  BY <1>1, <1>2 DEF InboundInv, InboundTypes
<1>4. InTurn'
  BY <1>1, <1>2 DEF InboundInv, InTurn
<1>5. RunsOfRequests' /\ JobOK'
  BY <1>1, <1>2 DEF InboundInv, RunsOfRequests, JobOK, Control, Durable
<1>6. Begun' /\ Promised'
  BY <1>1, <1>2 DEF InboundInv, Begun, Promised, Control
<1>7. AckedIsKept'
  BY <1>1, <1>2 DEF InboundInv, AckedIsKept, Settled
<1>8. AcceptedRequestIsDurable' /\ AcceptedControlIsDone'
  BY <1>1, <1>2 DEF InboundInv, AcceptedRequestIsDurable, AcceptedControlIsDone, Control
<1>. QED BY <1>3, <1>4, <1>5, <1>6, <1>7, <1>8 DEF InboundInv

LEMMA RunSettledKeeps == ASSUME InboundAssumption, InboundInv, RunSettledElsewhere PROVE InboundInv'
<1>1. /\ UNCHANGED <<script, cursor, transport, h, row, message, input, job, flights,
                     access, gen, mark, effects>>
      /\ run' = [e \in Events |-> IF run[e] = "active" THEN "ended" ELSE run[e]]
      /\ upsets' \in 0..MaxUpsets
  BY DEF RunSettledElsewhere, Upset, InboundInv, InboundTypes, InboundAssumption
<1>2. /\ run' \in [Events -> {"none", "active", "ended"}]
      /\ \A d \in Events : run'[d] # "active" /\ (run'[d] = "none" <=> run[d] = "none")
                           /\ (run[d] = "ended" => run'[d] = "ended")
  BY <1>1 DEF InboundInv, InboundTypes
<1>3. InboundTypes'
  BY <1>1, <1>2 DEF InboundInv, InboundTypes
<1>4. InTurn' /\ AckedIsKept'
  BY <1>1 DEF InboundInv, InTurn, AckedIsKept
<1>5. RunsOfRequests'
  <2>1. \A d \in Events : row[d].target # 0 => row[d].target \in Events
    BY DEF InboundInv, InboundTypes, InboundRows, Events
  <2>. QED BY <1>1, <1>2, <2>1 DEF InboundInv, RunsOfRequests
<1>6. Begun' /\ AcceptedControlIsDone'
  BY <1>1 DEF InboundInv, Begun, AcceptedControlIsDone, Control
<1>7. JobOK'
  BY <1>1, <1>2 DEF InboundInv, JobOK, Control, Durable
<1>8. AcceptedRequestIsDurable'
  BY <1>1, <1>2 DEF InboundInv, AcceptedRequestIsDurable
<1>9. Promised'
  <2>1. h.pc = "final" => h.e \in Events
    BY HandlerFacts
  <2>. QED BY <1>1, <1>2, <2>1 DEF InboundInv, Promised, Control, Durable, Excused
<1>. QED BY <1>3, <1>4, <1>5, <1>6, <1>7, <1>8, <1>9 DEF InboundInv

LEMMA NewOwnerKeeps == ASSUME InboundAssumption, InboundInv, NewOwner PROVE InboundInv'
<1>1. /\ UNCHANGED <<script, cursor, row, message, input, run, access, mark, upsets, effects>>
      /\ h' = Free /\ job' = NoJob /\ flights' = {} /\ transport' = "idle"
      /\ gen' = gen + 1 /\ gen < MaxOwners
  BY DEF NewOwner, fixed
<1>2. h'.pc = "free" /\ job'.pc = "none" /\ h' \in Handlers /\ job' \in InboundJobs
  BY <1>1, NoInboundRecords DEF Free, NoJob
<1>3. gen' \in 1..MaxOwners
  BY <1>1 DEF InboundInv, InboundTypes, InboundAssumption
<1>4. InboundTypes'
  BY <1>1, <1>2, <1>3 DEF InboundInv, InboundTypes
<1>5. InTurn'
  <2>1. \A d \in Events : row[d].gen \in Nat
    BY DEF InboundInv, InboundTypes, InboundRows
  <2>2. gen \in Nat
    BY DEF InboundInv, InboundTypes
  <2>. QED BY <1>1, <1>2, <2>1, <2>2 DEF InboundInv, InTurn
<1>6. RunsOfRequests' /\ AckedIsKept'
  BY <1>1 DEF InboundInv, RunsOfRequests, AckedIsKept
<1>7. Begun' /\ JobOK' /\ Promised'
  BY <1>1, <1>2 DEF InboundInv, Begun, JobOK, Promised, Control
<1>8. AcceptedRequestIsDurable' /\ AcceptedControlIsDone'
  BY <1>1 DEF InboundInv, AcceptedRequestIsDurable, AcceptedControlIsDone, Control
<1>. QED BY <1>4, <1>5, <1>6, <1>7, <1>8 DEF InboundInv

-----------------------------------------------------------------------------
LEMMA InboundStarts == ASSUME InboundAssumption, InboundInit PROVE InboundInv
<1>1. /\ cursor = 0 /\ transport = "idle" /\ h = Free /\ row = [e \in Events |-> NoRow] /\ message = {}
      /\ input = [e \in Events |-> "none"] /\ run = [e \in Events |-> "none"] /\ job = NoJob
      /\ flights = {} /\ access = 0 /\ gen = 1 /\ effects = [e \in Events |-> 0]
      /\ mark = [e \in Events |-> {}] /\ upsets = 0 /\ script \in Scripts
  BY DEF InboundInit
<1>2. h.pc = "free" /\ job.pc = "none" /\ NoRow.state = "none" /\ NoRow.gen = 0 /\ ~NoRow.started /\ NoRow.target = 0
  BY <1>1 DEF Free, NoJob, NoRow
<1>3. InboundTypes
  <2>1. script \in [Events -> Kinds]
    BY <1>1 DEF InboundAssumption, Events, Kinds
  <2>2. gen \in 1..MaxOwners
    BY <1>1 DEF InboundAssumption
  <2>3. cursor \in 0..N /\ upsets \in 0..MaxUpsets
    BY <1>1 DEF InboundAssumption
  <2>4. row \in [Events -> InboundRows] /\ h \in Handlers /\ job \in InboundJobs
    BY <1>1, NoInboundRecords
  <2>. QED BY <1>1, <2>1, <2>2, <2>3, <2>4 DEF InboundTypes
<1>4. InTurn
  BY <1>1, <1>2 DEF InTurn
<1>5. RunsOfRequests
  BY <1>1, <1>2 DEF RunsOfRequests
<1>6. Begun /\ JobOK /\ Promised
  BY <1>1, <1>2 DEF Begun, JobOK, Promised
<1>7. AckedIsKept
  BY <1>1 DEF AckedIsKept, Events
<1>8. AcceptedRequestIsDurable /\ AcceptedControlIsDone
  BY <1>1, <1>2 DEF AcceptedRequestIsDurable, AcceptedControlIsDone
<1>. QED BY <1>3, <1>4, <1>5, <1>6, <1>7, <1>8 DEF InboundInv

LEMMA InboundStep == ASSUME InboundAssumption, InboundInv, [InboundNext]_inboundVars PROVE InboundInv'
<1>1. CASE Serve
  BY <1>1, TransportKeeps, CursorKeeps, RefuseKeeps, LookupKeeps, AdmitKeeps,
     ReceiveKeeps, ActCommandKeeps, ActLaunchKeeps,
     ActApproveKeeps, ActRequestKeeps, WaitKeeps, SaveReceiptKeeps DEF Serve, Handler
<1>2. CASE Job
  BY <1>2, JobRunsKeeps, CompleteReadsKeeps, CompleteWritesKeeps, JobEndsKeeps DEF Job
<1>3. CASE RecoverInboundNotices \/ RunSettledElsewhere \/ NewOwner
  BY <1>3, RecoverInboundKeeps, RunSettledKeeps, NewOwnerKeeps
<1>4. CASE HandlerFails \/ AnswerLost \/ PluginRestarts \/ AccessChanges
  BY <1>4, TransportKeeps
<1>5. CASE UNCHANGED inboundVars
  <2>1. /\ Unmoved /\ UNCHANGED <<cursor, transport, h, access, upsets>>
    BY <1>5 DEF inboundVars, Unmoved
  <2>2. InboundTypes'
    BY <2>1 DEF Unmoved, InboundInv, InboundTypes
  <2>. QED BY <2>1, <2>2, HandlerGone DEF InboundInv
<1>. QED BY <1>1, <1>2, <1>3, <1>4, <1>5 DEF InboundNext

\* One Run is active at most.
LEMMA OneActive == ASSUME InboundAssumption, InboundInv PROVE Cardinality(ActiveRun) <= 1
<1>1. CASE ActiveRun = {}
  BY <1>1, FS_EmptySet
<1>2. CASE ActiveRun # {}
  <2>1. PICK e \in ActiveRun : TRUE
    BY <1>2
  <2>2. ActiveRun = {e}
    BY <2>1 DEF ActiveRun, InboundInv, RunsOfRequests
  <2>. QED BY <2>2, FS_Singleton
<1>. QED BY <1>1, <1>2

LEMMA InboundTyped == ASSUME InboundAssumption, InboundInv PROVE InboundTypeOK
<1>1. h.e \in 0..N /\ h.pc \in {"free", "admit", "receive", "act", "wait", "final"}
  BY DEF InboundInv, InboundTypes, Handlers
<1>2. job.e \in 0..N /\ job.pc \in {"none", "called", "returned", "reading", "recorded"}
  BY DEF InboundInv, InboundTypes, InboundJobs
<1>3. \A e \in Events : /\ row[e].state \in Settled \cup {"none", "pending", "scheduled"}
                        /\ row[e].gen \in 0..gen /\ row[e].target \in 0..N
  <2>1. \A e \in Events : /\ row[e].state \in Settled \cup {"none", "pending", "scheduled"}
                          /\ row[e].gen \in Nat /\ row[e].target \in 0..N
    BY DEF InboundInv, InboundTypes, InboundRows
  <2>2. \A e \in Events : row[e].gen <= gen
    BY DEF InboundInv, InTurn
  <2>3. gen \in Nat
    BY DEF InboundInv, InboundTypes
  <2>. QED BY <2>1, <2>2, <2>3
<1>. QED BY <1>1, <1>2, <1>3, OneActive DEF InboundTypeOK, InboundInv, InboundTypes

\* What the channel was told is accepted is kept (acceptInbound, completeInbound,
\* recoverInboundNotices): the cursor passes no event that is neither settled nor
\* scheduled nor refused, an accepted request has a Run or an input in the database, and
\* an accepted control has taken effect, whatever fails and whichever Owner finds it.
THEOREM AcceptedIsKeptAlways == ASSUME InboundAssumption PROVE InboundSpec => []AcceptedIsKept
<1>1. InboundInit => InboundInv
  BY InboundStarts
<1>2. InboundInv /\ [InboundNext]_inboundVars => InboundInv'
  BY InboundStep
<1>3. InboundInv => AcceptedIsKept
  BY InboundTyped DEF InboundInv, AcceptedIsKept
<1>. QED BY <1>1, <1>2, <1>3, PTL DEF InboundSpec
=============================================================================
