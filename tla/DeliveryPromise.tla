-------------------------- MODULE DeliveryPromise ---------------------------
(***************************************************************************)
(* What the channel outbox promises about every operation, whatever        *)
(* processes crash and whatever receipts are lost, repeated or late.  An   *)
(* operation is queued; the platform carries it out; this is confirmed;    *)
(* and only then its text or file enters the public record.  Nothing is    *)
(* taken back.  ChannelOutbox implements this specification.               *)
(***************************************************************************)
CONSTANT Ops

VARIABLES
  phase, \* phase[o]: what the Core knows of the operation
  done   \* the operations that the platform has carried out

Init == phase = [o \in Ops |-> "absent"] /\ done = {}

Queue(o) ==
  /\ phase[o] = "absent"
  /\ phase' = [phase EXCEPT ![o] = "queued"]
  /\ UNCHANGED done

CarryOut(o) ==
  /\ phase[o] # "absent"
  /\ done' = done \cup {o}
  /\ UNCHANGED phase

\* One exchange may confirm an operation and publish others.
Record(C, P) ==
  /\ C \cap P = {}
  /\ \A o \in C : phase[o] = "queued" /\ o \in done
  /\ \A o \in P : phase[o] \in {"queued", "confirmed"} /\ o \in done
  /\ phase' = [o \in Ops |-> IF o \in C THEN "confirmed" ELSE IF o \in P THEN "public" ELSE phase[o]]
  /\ UNCHANGED done

Next == \/ \E o \in Ops : Queue(o) \/ CarryOut(o)
        \/ \E C, P \in SUBSET Ops : Record(C, P)

Spec == Init /\ [][Next]_<<phase, done>>
=============================================================================
