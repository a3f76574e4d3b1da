------------------------- MODULE CollaborationProofs -------------------------
(* The collaboration record, for every plan, budget and number of children:   *)
(* its counters are exactly the calls that were dispatched and their charges, *)
(* work is dispatched as the plan says, and a collaboration completes with    *)
(* nothing uncertain and of complete results.                                 *)
(*                                                                            *)
(* The argument: a goroutine exists only during a batch and holds its place,  *)
(* its assignment cannot be edited, and everything it depends on is complete, *)
(* which nothing takes back (Placed, Begun); a place without a goroutine is   *)
(* stuck until the record is cleared. A Run has one call in flight,           *)
(* while its goroutine or executor waits for it; any other uncertain call has *)
(* left the Run UNKNOWN or abandoned (OneFlight, ChildFlights, ParentFlights).*)
(* What was read for a revision holds while the revision is the same          *)
(* (Planned), and from the moment every live child is complete no child can   *)
(* start a call (Quiet). The charges are counted one by one, so that a new or *)
(* corrected call changes the accounts by exactly its own bytes (Ledger).     *)
EXTENDS Collaboration, FiniteSetTheorems, SequenceTheorems, WellFoundedInduction, TLAPS

Runs == {Parent} \cup Child
Kinds == {"model", "tool"}
Kids ==
  [control : {"running", "paused", "cancelled"}, retired : BOOLEAN, ready : BOOLEAN,
   output : Int, deps : SUBSET Child, spec : Nat, steps : Nat, pending : BOOLEAN,
   follow : BOOLEAN]
Purposes == {"", "replanning", "synthesis"}
Calls ==
  [run : Runs, kind : Kinds, purpose : Purposes,
   status : {"dispatched", "unknown", "finished", "failed"}, spec : Nat, rev : Nat,
   edit : Edits \cup {NoEdit, BadEdit}, bytes : Nat, observed : Nat, final : BOOLEAN]
Records ==
  [control : {"running", "paused", "cancelled"}, sources : Seq({"user", "limits", "replanning"}),
   active : SUBSET Child, model : Int, tool : Int, output : Int, raised : Nat, replans : Int,
   replan : Int, replanned : SUBSET Child, synthesis : BOOLEAN, synth : Int]
Places ==
  {"idle", "clear", "enter", "loop", "activate", "batch", "replan", "propose", "call",
   "settle", "failed", "apply", "finalize", "synthesize", "inspect", "commit", "drain",
   "draining", "pick", "finish"}
Executions ==
  [who : {"nobody", "continue", "confirm", "control"}, pc : Places, rev : Nat,
   batch : SUBSET Child, retired : SUBSET Child, seen : SUBSET Child, replans : Int,
   whole : BOOLEAN, over : BOOLEAN, saved : Int, todo : SUBSET Runs,
   err : SUBSET Errors, status : Statuses \ {"completed"}]
Jobs ==
  [pc : {"off", "deliver", "continue", "model", "tool", "call", "settle", "end"},
   spec : Nat, limit : BOOLEAN, err : SUBSET Errors]

Types ==
  /\ rec \in Records /\ kid \in [Child -> Kids] /\ att \in Seq(Calls)
  /\ run \in [Runs -> Statuses] /\ exec \in Executions /\ job \in [Child -> Jobs]
  /\ ctl \in BOOLEAN /\ events \in 0 .. MaxEvents

Waits == {"dispatched", "unknown"}
Done(c) == run[c] = "completed"
Certain(r) == \A i \in DOMAIN att : att[i].run = r => att[i].status \notin Waits

\* The limits of the record, and where its references lead.
Bounded ==
  /\ rec.model \in 0 .. MaxModelCalls + rec.raised /\ rec.tool \in 0 .. MaxToolCalls
  /\ rec.replans \in 0 .. MaxReplans
  /\ rec.replan \in 0 .. Len(att) /\ rec.synth \in 0 .. Len(att)
  /\ exec.pc = "apply" => exec.saved \in DOMAIN att /\ att[exec.saved].edit # BadEdit
  /\ exec.pc = "draining" => \A c \in Child \cap exec.todo : run[c] # "none"
  /\ \A c \in Child : \A d \in kid[c].deps : run[d] # "none"

\* A goroutine exists only during a batch; it holds its place, has the present
\* assignment, and everything that one depends on is complete.
Placed ==
  \A c \in Child : job[c].pc # "off" =>
    /\ c \in rec.active /\ exec.pc = "batch"
    /\ run[c] # "none" /\ ~kid[c].retired /\ job[c].spec = kid[c].spec
    /\ \A d \in kid[c].deps : Done(d)
    /\ job[c].pc \in {"model", "tool", "call", "settle"} => run[c] = "running"
    /\ job[c].pc = "tool" => kid[c].steps > 0

\* What can only follow a dispatch follows one.
Begun ==
  \A c \in Child :
    /\ run[c] \in {"completed", "waiting_confirmation"} \/ kid[c].pending => kid[c].steps > 0
    /\ run[c] = "none" => kid[c].steps = 0
    /\ \A i \in DOMAIN att : att[i].run = c => kid[c].steps > 0

\* The uncertain calls of a child: the one its goroutine waits for, or the ones that
\* left the child UNKNOWN or, after that, abandoned. A retired child has none.
ChildFlights ==
  \A c \in Child :
    /\ \A i \in DOMAIN att : att[i].run = c /\ att[i].status \in Waits =>
         \/ run[c] \in {"unknown", "abandoned"} /\ ~kid[c].retired
         \/ att[i].status = "dispatched" /\ job[c].pc \in {"call", "settle"}
    /\ job[c].pc \in {"call", "settle"} =>
         \E i \in DOMAIN att : att[i].run = c /\ att[i].status = "dispatched"

\* A Run has one call in flight at a time.
OneFlight ==
  \A i, j \in DOMAIN att :
    att[i].run = att[j].run /\ att[i].status = "dispatched" /\ att[j].status = "dispatched" => i = j

\* The uncertain calls of the parent, by where its execution is.
Resolved ==
  {"clear", "enter", "loop", "activate", "replan", "propose", "failed", "apply", "finalize",
   "synthesize", "commit"}
ParentFlights ==
  /\ exec.pc \in Resolved \/ (exec.pc = "batch" /\ exec.who # "confirm") => Certain(Parent)
  /\ exec.pc \in {"call", "settle"} =>
       /\ \A i \in DOMAIN att : att[i].run = Parent => att[i].status # "unknown"
       /\ \E i \in DOMAIN att : /\ att[i].run = Parent /\ att[i].status = "dispatched"
                                /\ att[i].purpose \in {"replanning", "synthesis"}
  /\ exec.pc \notin Resolved \cup {"call", "settle"} =>
       \A i \in DOMAIN att : att[i].run = Parent /\ att[i].status \in Waits =>
         /\ run[Parent] \in {"unknown", "abandoned"}
         /\ exec.pc = "inspect" => run[Parent] = "unknown"
  /\ exec.pc = "finish" /\ exec.status # "none" => run[Parent] = "running"

\* What was read for a revision holds as long as it is the present one.
Planned ==
  /\ exec.rev <= Revision
  /\ exec.pc = "activate" /\ exec.rev = Revision =>
       \A c \in exec.batch : run[c] # "none" /\ \A d \in kid[c].deps : Done(d)
  /\ /\ (exec.pc = "finalize" /\ exec.whole) \/ (exec.pc = "commit" /\ ~rec.synthesis)
     /\ exec.rev = Revision
     => \A c \in Live : Done(c)

\* Only a plan with a synthesis is synthesised.
Synthesised ==
  /\ exec.pc \in {"synthesize", "inspect"} => rec.synthesis
  /\ \A i \in DOMAIN att : att[i].purpose = "synthesis" => rec.synthesis

\* The execution is past the point where every live child was complete.
Closing ==
  \/ exec.pc = "finalize" /\ exec.whole
  \/ exec.pc \in {"synthesize", "inspect", "commit"}
  \/ \E i \in DOMAIN att : att[i].purpose = "synthesis" /\ att[i].status = "dispatched"
  \/ run[Parent] = "completed"

\* From then on no child has an uncertain call or may start one, and a completed
\* parent is not executed.
Quiet ==
  /\ Closing => \A c \in Child : Certain(c) /\ run[c] # "waiting_confirmation"
  /\ \A i \in DOMAIN att : att[i].purpose = "synthesis" /\ att[i].status = "dispatched" =>
       att[i].run = Parent /\ exec.pc \in {"call", "settle"}
  /\ run[Parent] = "completed" => exec.pc \in {"idle", "drain", "draining", "pick", "finish"}

\* A child that waits for approval is live.
WaitsLive == \A c \in Child : run[c] = "waiting_confirmation" => ~kid[c].retired

Plan == Placed /\ ActiveIsRunning /\ Begun /\ DependenciesFirst /\ DispatchedAsPlanned
Ending == Planned /\ Synthesised /\ Quiet /\ SynthesisCurrent /\ ControlWins /\ DraftWhole
Inv == Types /\ Bounded /\ UncertainStaysCharged /\ Plan /\ ChildFlights /\ OneFlight
       /\ ParentFlights /\ WaitsLive /\ Ending

-----------------------------------------------------------------------------
(* The records.                                                               *)

LEMMA TypeParts ==
  ASSUME Types
  PROVE  /\ rec \in Records /\ rec.sources \in Seq({"user", "limits", "replanning"})
         /\ Revision \in Nat /\ att \in Seq(Calls) /\ Len(att) \in Nat
         /\ DOMAIN att = 1 .. Len(att) /\ \A i \in DOMAIN att : att[i] \in Calls
         /\ kid \in [Child -> Kids] /\ \A c \in Child : kid[c] \in Kids
         /\ run \in [Runs -> Statuses] /\ exec \in Executions
         /\ job \in [Child -> Jobs] /\ \A c \in Child : job[c] \in Jobs
         /\ Parent \in Runs /\ Parent \notin Child /\ \A c \in Child : c \in Runs
<1>1. rec \in Records /\ att \in Seq(Calls) /\ kid \in [Child -> Kids]
      /\ run \in [Runs -> Statuses] /\ exec \in Executions /\ job \in [Child -> Jobs]
  BY DEF Types
<1>2. rec.sources \in Seq({"user", "limits", "replanning"})
  BY <1>1 DEF Records
<1>3. Revision \in Nat
  BY <1>2 DEF Revision
<1>4. Len(att) \in Nat /\ DOMAIN att = 1 .. Len(att) /\ \A i \in DOMAIN att : att[i] \in Calls
  BY <1>1
<1>5. Parent \in Runs /\ Parent \notin Child /\ \A c \in Child : c \in Runs
  BY DEF Runs, Parent, Child
<1>. QED BY <1>1, <1>2, <1>3, <1>4, <1>5

-----------------------------------------------------------------------------
(* What the shared parts of the actions do.                                   *)

LEMMA ReserveAttempt ==
  ASSUME Types, BudgetAssumption, NEW r \in Runs, NEW kind \in Kinds,
         NEW purpose \in Purposes, NEW spec \in Nat,
         Reserve(r, kind, purpose, spec)
  PROVE  /\ att' \in Seq(Calls) /\ Len(att') = Len(att) + 1
         /\ \A i \in DOMAIN att : att'[i] = att[i]
         /\ att'[Len(att) + 1] = NewAttempt(r, kind, purpose, spec)
         /\ DOMAIN att' = DOMAIN att \cup {Len(att) + 1} /\ Len(att) + 1 \notin DOMAIN att
<1>1. Revision \in Nat /\ att \in Seq(Calls)
  BY TypeParts
<1>2. NewAttempt(r, kind, purpose, spec) \in Calls
  BY <1>1 DEF BudgetAssumption, Runs, Kinds, NewAttempt, Calls
<1>. DEFINE a == NewAttempt(r, kind, purpose, spec)
<1>3. att' = Append(att, a)
  BY DEF Reserve
<1>. HIDE DEF a
<1>4. /\ att' \in Seq(Calls) /\ Len(att') = Len(att) + 1
      /\ \A i \in 1 .. Len(att) : att'[i] = att[i]
      /\ att'[Len(att) + 1] = a
  BY <1>1, <1>2, <1>3, AppendProperties DEF a
<1>5. DOMAIN att' = 1 .. Len(att') /\ DOMAIN att = 1 .. Len(att) /\ Len(att) \in Nat
  BY <1>1, <1>4, LenProperties
<1>. QED BY <1>4, <1>5 DEF a

LEMMA ReserveRecord ==
  ASSUME Types, NEW r \in Runs, NEW kind \in Kinds, BudgetAssumption,
         NEW purpose \in Purposes, NEW spec \in Nat,
         Reserve(r, kind, purpose, spec)
  PROVE  /\ rec' \in Records
         /\ rec'.control = rec.control /\ rec'.sources = rec.sources
         /\ rec'.active = rec.active /\ rec'.raised = rec.raised
         /\ rec'.synthesis = rec.synthesis
         /\ rec'.output = rec.output + CallOutput
         /\ kind = "model" => rec'.model = rec.model + 1 /\ rec'.tool = rec.tool
         /\ kind = "tool" => rec'.tool = rec.tool + 1 /\ rec'.model = rec.model
         /\ rec'.replans = IF purpose = "replanning" THEN rec.replans + 1 ELSE rec.replans
         /\ rec'.replan = IF purpose = "replanning" THEN Len(att) + 1 ELSE rec.replan
         /\ rec'.synth = IF purpose = "synthesis" THEN Len(att) + 1 ELSE rec.synth
<1>1. rec \in Records /\ Len(att) \in Nat /\ CallOutput \in Nat
  BY TypeParts DEF BudgetAssumption
<1>. DEFINE n2 == rec.output + CallOutput
            n3 == IF purpose = "replanning" THEN rec.replans + 1 ELSE rec.replans
            n4 == IF purpose = "replanning" THEN Len(att) + 1 ELSE rec.replan
            n5 == IF purpose = "synthesis" THEN Len(att) + 1 ELSE rec.synth
<1>2. rec.model \in Int /\ rec.tool \in Int /\ rec.output \in Int /\ rec.replans \in Int
      /\ rec.replan \in Int /\ rec.synth \in Int
  BY <1>1 DEF Records
<1>3. rec.model + 1 \in Int /\ rec.tool + 1 \in Int /\ n2 \in Int /\ n3 \in Int /\ n4 \in Int
      /\ n5 \in Int
  BY <1>1, <1>2, SMTT(30)
<1>4. CASE kind = "model"
  <2>1. rec' = [rec EXCEPT !.model = rec.model + 1, !.output = n2, !.replans = n3, !.replan = n4,
                           !.synth = n5]
    BY <1>1, <1>4 DEF Reserve, Records
  <2>. HIDE DEF n2, n3, n4, n5
  <2>2. /\ rec' \in Records /\ rec'.control = rec.control /\ rec'.sources = rec.sources
        /\ rec'.active = rec.active /\ rec'.raised = rec.raised /\ rec'.synthesis = rec.synthesis
        /\ rec'.model = rec.model + 1 /\ rec'.tool = rec.tool /\ rec'.output = n2
        /\ rec'.replans = n3 /\ rec'.replan = n4 /\ rec'.synth = n5
    BY <1>1, <1>3, <2>1 DEF Records
  <2>. QED BY <1>4, <2>2 DEF n2, n3, n4, n5
<1>5. CASE kind = "tool"
  <2>1. rec' = [rec EXCEPT !.tool = rec.tool + 1, !.output = n2, !.replans = n3, !.replan = n4,
                           !.synth = n5]
    BY <1>1, <1>5 DEF Reserve, Records
  <2>. HIDE DEF n2, n3, n4, n5
  <2>2. /\ rec' \in Records /\ rec'.control = rec.control /\ rec'.sources = rec.sources
        /\ rec'.active = rec.active /\ rec'.raised = rec.raised /\ rec'.synthesis = rec.synthesis
        /\ rec'.tool = rec.tool + 1 /\ rec'.model = rec.model /\ rec'.output = n2
        /\ rec'.replans = n3 /\ rec'.replan = n4 /\ rec'.synth = n5
    BY <1>1, <1>3, <2>1 DEF Records
  <2>. QED BY <1>5, <2>2 DEF n2, n3, n4, n5
<1>. QED BY <1>4, <1>5 DEF Kinds

LEMMA ReserveKid ==
  ASSUME Types, NEW r \in Runs, NEW kind \in Kinds, BudgetAssumption,
         NEW purpose \in Purposes, NEW spec \in Nat,
         Reserve(r, kind, purpose, spec)
  PROVE  /\ kid' \in [Child -> Kids]
         /\ \A c \in Child : c # r => kid'[c] = kid[c]
         /\ r \in Child =>
              /\ kid'[r].control = kid[r].control /\ kid'[r].retired = kid[r].retired
              /\ kid'[r].deps = kid[r].deps /\ kid'[r].spec = kid[r].spec
              /\ kid'[r].output = kid[r].output + CallOutput
              /\ kid'[r].steps = kid[r].steps + 1 /\ kid'[r].pending = FALSE
<1>1. CallOutput \in Nat /\ kid \in [Child -> Kids] /\ Parent \notin Child
  BY TypeParts DEF BudgetAssumption
<1>2. CASE r \in Child
  <2>. DEFINE m == kid[r].output + CallOutput
              n == kid[r].steps + 1
              k == [kid[r] EXCEPT !.output = m, !.steps = n, !.pending = FALSE]
  <2>1. kid[r] \in Kids
    BY <1>1, <1>2
  <2>2. m \in Int /\ n \in Nat
    BY <1>1, <2>1 DEF Kids
  <2>3. kid' = [kid EXCEPT ![r] = k]
    <3>1. r # Parent
      BY <1>1, <1>2
    <3>. QED BY <3>1 DEF Reserve
  <2>. HIDE DEF m, n
  <2>4. k \in Kids /\ k.control = kid[r].control /\ k.retired = kid[r].retired
        /\ k.deps = kid[r].deps /\ k.spec = kid[r].spec
        /\ k.output = m /\ k.steps = n /\ k.pending = FALSE
    BY <2>1, <2>2 DEF Kids
  <2>. HIDE DEF k
  <2>. QED BY <1>1, <1>2, <2>3, <2>4 DEF m, n
<1>3. CASE r \notin Child
  BY <1>1, <1>3 DEF Reserve, Runs
<1>. QED BY <1>2, <1>3

\* A call i becomes next, of the same Run, and its charge is corrected.
Corrects(i, next) ==
  /\ att' = [att EXCEPT ![i] = next]
  /\ rec' = [rec EXCEPT !.output = @ + (next.bytes - att[i].bytes)]

LEMMA CorrectsAttempt ==
  ASSUME Types, NEW i \in DOMAIN att, NEW next \in Calls, Corrects(i, next)
  PROVE  /\ att' \in Seq(Calls) /\ Len(att') = Len(att) /\ DOMAIN att' = DOMAIN att
         /\ att'[i] = next /\ \A j \in DOMAIN att : j # i => att'[j] = att[j]
<1>1. att \in Seq(Calls) /\ att' = [att EXCEPT ![i] = next]
  BY TypeParts DEF Corrects
<1>2. att' \in Seq(Calls) /\ Len(att') = Len(att)
  BY <1>1, ExceptSeq
<1>. QED BY <1>1, <1>2

LEMMA CorrectsRecord ==
  ASSUME Types, NEW i \in DOMAIN att, NEW next \in Calls, Corrects(i, next)
  PROVE  /\ rec' \in Records
         /\ rec'.control = rec.control /\ rec'.sources = rec.sources
         /\ rec'.active = rec.active /\ rec'.raised = rec.raised
         /\ rec'.synthesis = rec.synthesis /\ rec'.model = rec.model /\ rec'.tool = rec.tool
         /\ rec'.replans = rec.replans /\ rec'.replan = rec.replan /\ rec'.synth = rec.synth
         /\ rec'.output = rec.output + (next.bytes - att[i].bytes)
<1>1. rec \in Records /\ att[i] \in Calls
  BY TypeParts
<1>2. rec.output \in Int
  BY <1>1 DEF Records
<1>3. att[i].bytes \in Nat /\ next.bytes \in Nat
  BY <1>1 DEF Calls
<1>. DEFINE n == rec.output + (next.bytes - att[i].bytes)
<1>4. n \in Int
  BY <1>2, <1>3
<1>5. rec' = [rec EXCEPT !.output = n]
  BY DEF Corrects
<1>. HIDE DEF n
<1>6. /\ rec' \in Records
      /\ rec'.control = rec.control /\ rec'.sources = rec.sources
      /\ rec'.active = rec.active /\ rec'.raised = rec.raised
      /\ rec'.synthesis = rec.synthesis /\ rec'.model = rec.model /\ rec'.tool = rec.tool
      /\ rec'.replans = rec.replans /\ rec'.replan = rec.replan /\ rec'.synth = rec.synth
      /\ rec'.output = n
  BY <1>1, <1>4, <1>5 DEF Records
<1>. QED BY <1>6 DEF n

LEMMA RecordKid ==
  ASSUME Types, NEW i \in DOMAIN att, NEW next \in Calls, Record(i, next)
  PROVE  /\ Corrects(i, next)
         /\ kid' \in [Child -> Kids]
         /\ \A c \in Child : c # next.run => kid'[c] = kid[c]
         /\ \A c \in Child : c = next.run =>
              /\ kid'[c].control = kid[c].control /\ kid'[c].retired = kid[c].retired
              /\ kid'[c].deps = kid[c].deps /\ kid'[c].spec = kid[c].spec
              /\ kid'[c].steps = kid[c].steps /\ kid'[c].pending = kid[c].pending
              /\ kid'[c].output = kid[c].output + (next.bytes - att[i].bytes)
<1>1. kid \in [Child -> Kids] /\ Parent \notin Child /\ att[i] \in Calls
  BY TypeParts
<1>2. att[i].bytes \in Nat /\ next.bytes \in Nat /\ next.run \in Runs
  BY <1>1 DEF Calls
<1>3. Corrects(i, next)
  BY DEF Corrects, Record
<1>4. CASE next.run \in Child
  <2>. DEFINE c == next.run
              n == kid[c].output + (next.bytes - att[i].bytes)
              k == [kid[c] EXCEPT !.output = n]
  <2>1. kid[c] \in Kids
    BY <1>1, <1>4
  <2>2. n \in Int
    BY <1>2, <2>1 DEF Kids
  <2>3. kid' = [kid EXCEPT ![c] = k]
    <3>1. c # Parent
      BY <1>1, <1>4
    <3>2. kid' = [kid EXCEPT ![c].output = @ + (next.bytes - att[i].bytes)]
      BY <3>1 DEF Record
    <3>. QED BY <3>2
  <2>. HIDE DEF n
  <2>4. k \in Kids /\ k.control = kid[c].control /\ k.retired = kid[c].retired
        /\ k.deps = kid[c].deps /\ k.spec = kid[c].spec
        /\ k.output = n /\ k.steps = kid[c].steps /\ k.pending = kid[c].pending
    BY <2>1, <2>2 DEF Kids
  <2>. HIDE DEF k
  <2>. QED BY <1>1, <1>3, <1>4, <2>3, <2>4 DEF n
<1>5. CASE next.run = Parent
  <2>1. kid' = kid
    BY <1>5 DEF Record
  <2>. QED BY <1>1, <1>3, <1>5, <2>1
<1>. QED BY <1>2, <1>4, <1>5 DEF Runs

LEMMA BilledFields ==
  ASSUME NEW a \in Calls, NEW size \in Nat, NEW final \in BOOLEAN
  PROVE  /\ Billed(a, size, final) \in Calls
         /\ Billed(a, size, final).run = a.run /\ Billed(a, size, final).kind = a.kind
         /\ Billed(a, size, final).purpose = a.purpose /\ Billed(a, size, final).spec = a.spec
         /\ Billed(a, size, final).status = a.status
         /\ Billed(a, size, final).final = final
         /\ Billed(a, size, final).observed = (IF size > a.observed THEN size ELSE a.observed)
         /\ Billed(a, size, final).bytes =
              (IF final \/ Billed(a, size, final).observed > a.bytes
               THEN Billed(a, size, final).observed ELSE a.bytes)
<1>. DEFINE observed == IF size > a.observed THEN size ELSE a.observed
            bytes == IF final \/ observed > a.bytes THEN observed ELSE a.bytes
            b == [a EXCEPT !.observed = observed, !.final = final, !.bytes = bytes]
<1>1. a.observed \in Nat /\ a.bytes \in Nat
  BY DEF Calls
<1>2. observed \in Nat
  BY <1>1
<1>3. bytes \in Nat
  BY <1>1, <1>2
<1>4. Billed(a, size, final) = b
  BY DEF Billed
<1>. HIDE DEF observed, bytes
<1>5. /\ b \in Calls /\ b.run = a.run /\ b.kind = a.kind /\ b.purpose = a.purpose
      /\ b.spec = a.spec /\ b.status = a.status /\ b.final = final /\ b.observed = observed
      /\ b.bytes = bytes
  BY <1>2, <1>3 DEF Calls
<1>. HIDE DEF b
<1>6. /\ Billed(a, size, final) \in Calls
      /\ Billed(a, size, final).run = a.run /\ Billed(a, size, final).kind = a.kind
      /\ Billed(a, size, final).purpose = a.purpose /\ Billed(a, size, final).spec = a.spec
      /\ Billed(a, size, final).status = a.status
      /\ Billed(a, size, final).final = final
  BY <1>4, <1>5
<1>7. Billed(a, size, final).observed = observed /\ Billed(a, size, final).bytes = bytes
  BY <1>4, <1>5
<1>. QED BY <1>6, <1>7 DEF observed, bytes

LEMMA BilledCall ==
  ASSUME NEW a \in Calls, NEW size \in Nat, NEW final \in BOOLEAN
  PROVE  /\ Billed(a, size, final) \in Calls
         /\ Billed(a, size, final).run = a.run /\ Billed(a, size, final).kind = a.kind
         /\ Billed(a, size, final).purpose = a.purpose /\ Billed(a, size, final).spec = a.spec
         /\ Billed(a, size, final).status = a.status
BY BilledFields

LEMMA SettledCall ==
  ASSUME NEW a \in Calls, NEW s \in {"finished", "failed"}, NEW e \in Edits \cup {NoEdit, BadEdit}
  PROVE  /\ LET b == [a EXCEPT !.status = s]
            IN /\ b \in Calls /\ b.run = a.run /\ b.kind = a.kind /\ b.purpose = a.purpose
               /\ b.spec = a.spec /\ b.final = a.final /\ b.observed = a.observed
               /\ b.bytes = a.bytes /\ b.status = s
         /\ LET b == [a EXCEPT !.status = s, !.edit = e]
            IN /\ b \in Calls /\ b.run = a.run /\ b.kind = a.kind /\ b.purpose = a.purpose
               /\ b.spec = a.spec /\ b.final = a.final /\ b.observed = a.observed
               /\ b.bytes = a.bytes /\ b.status = s
BY DEF Calls

LEMMA FlightCall ==
  ASSUME NEW r, \E i \in DOMAIN att : att[i].run = r /\ att[i].status = "dispatched"
  PROVE  Flight(r) \in DOMAIN att /\ att[Flight(r)].run = r
         /\ att[Flight(r)].status = "dispatched"
BY DEF Flight

LEMMA UnknownCall ==
  ASSUME Types, NEW i \in DOMAIN att, att' = [att EXCEPT ![i].status = "unknown"]
  PROVE  /\ att' \in Seq(Calls) /\ Len(att') = Len(att) /\ DOMAIN att' = DOMAIN att
         /\ \A j \in DOMAIN att : j # i => att'[j] = att[j]
         /\ att'[i].run = att[i].run /\ att'[i].kind = att[i].kind
         /\ att'[i].purpose = att[i].purpose /\ att'[i].spec = att[i].spec
         /\ att'[i].bytes = att[i].bytes /\ att'[i].observed = att[i].observed
         /\ att'[i].final = att[i].final /\ att'[i].status = "unknown"
<1>. DEFINE a == [att[i] EXCEPT !.status = "unknown"]
<1>1. att \in Seq(Calls) /\ att[i] \in Calls
  BY TypeParts
<1>2. /\ a \in Calls /\ a.run = att[i].run /\ a.kind = att[i].kind
      /\ a.purpose = att[i].purpose /\ a.spec = att[i].spec
      /\ a.bytes = att[i].bytes /\ a.observed = att[i].observed
      /\ a.final = att[i].final /\ a.status = "unknown"
  BY <1>1 DEF Calls
<1>3. att' = [att EXCEPT ![i] = a]
  OBVIOUS
<1>. HIDE DEF a
<1>4. att' \in Seq(Calls) /\ Len(att') = Len(att)
  BY <1>1, <1>2, <1>3, ExceptSeq
<1>. QED BY <1>1, <1>2, <1>3, <1>4

\* The fields of the record that only a plan, a control or a call changes.
SameBooks ==
  /\ rec'.model = rec.model /\ rec'.tool = rec.tool /\ rec'.output = rec.output
  /\ rec'.raised = rec.raised /\ rec'.replans = rec.replans
SamePlan ==
  /\ rec'.sources = rec.sources /\ rec'.replan = rec.replan
  /\ rec'.synth = rec.synth /\ rec'.synthesis = rec.synthesis

LEMMA SameRecord ==
  ASSUME Types, rec' = rec
  PROVE  rec' \in Records /\ SameBooks /\ SamePlan /\ rec'.control = rec.control
         /\ rec'.active = rec.active
BY TypeParts DEF SameBooks, SamePlan

LEMMA ActiveRecord ==
  ASSUME Types, NEW S \in SUBSET Child, rec' = [rec EXCEPT !.active = S]
  PROVE  rec' \in Records /\ SameBooks /\ SamePlan /\ rec'.control = rec.control
         /\ rec'.active = S
<1>1. rec \in Records
  BY TypeParts
<1>. QED BY <1>1 DEF Records, SameBooks, SamePlan

LEMMA ControlRecord ==
  ASSUME Types, NEW s \in {"running", "paused", "cancelled"}, rec' = [rec EXCEPT !.control = s]
  PROVE  rec' \in Records /\ SameBooks /\ SamePlan /\ rec'.control = s
         /\ rec'.active = rec.active
<1>1. rec \in Records
  BY TypeParts
<1>. QED BY <1>1 DEF Records, SameBooks, SamePlan

LEMMA LimitsRecord ==
  ASSUME Types,
         rec' = [rec EXCEPT !.raised = @ + 1, !.sources = Append(@, "limits")]
  PROVE  /\ rec' \in Records /\ rec'.control = rec.control /\ rec'.active = rec.active
         /\ rec'.model = rec.model /\ rec'.tool = rec.tool /\ rec'.output = rec.output
         /\ rec'.raised = rec.raised + 1 /\ rec'.replans = rec.replans
         /\ rec'.replan = rec.replan /\ rec'.synth = rec.synth
         /\ rec'.synthesis = rec.synthesis /\ Revision' = Revision + 1
<1>. DEFINE n == rec.raised + 1
            s == Append(rec.sources, "limits")
<1>1. rec \in Records /\ rec.sources \in Seq({"user", "limits", "replanning"})
  BY TypeParts
<1>2. n \in Nat
  BY <1>1 DEF Records
<1>3. s \in Seq({"user", "limits", "replanning"}) /\ Len(s) = Len(rec.sources) + 1
  BY <1>1, AppendProperties
<1>4. rec' = [rec EXCEPT !.raised = n, !.sources = s]
  OBVIOUS
<1>. HIDE DEF n, s
<1>5. /\ rec' \in Records /\ rec'.control = rec.control /\ rec'.active = rec.active
      /\ rec'.model = rec.model /\ rec'.tool = rec.tool /\ rec'.output = rec.output
      /\ rec'.raised = n /\ rec'.replans = rec.replans
      /\ rec'.replan = rec.replan /\ rec'.synth = rec.synth
      /\ rec'.synthesis = rec.synthesis /\ rec'.sources = s
  BY <1>1, <1>2, <1>3, <1>4 DEF Records
<1>6. Revision' = Revision + 1
  BY <1>3, <1>5 DEF Revision
<1>. QED BY <1>5, <1>6 DEF n

\* A revision: one more source, no saved proposal.
Revises(synth) ==
  /\ rec' \in Records /\ rec'.control = rec.control /\ rec'.active = rec.active /\ SameBooks
  /\ rec'.replan = 0 /\ rec'.synth = synth /\ rec'.synthesis = rec.synthesis
  /\ Revision' = Revision + 1

LEMMA RevisedRecord ==
  ASSUME Types, NEW source \in {"user", "limits", "replanning"}, NEW seen \in SUBSET Child,
         NEW n \in Int,
         rec' = [rec EXCEPT !.sources = Append(@, source), !.synth = n, !.replan = 0,
                            !.replanned = seen]
  PROVE  Revises(n)
<1>. DEFINE s == Append(rec.sources, source)
            z == 0
<1>1. rec \in Records /\ rec.sources \in Seq({"user", "limits", "replanning"})
  BY TypeParts
<1>3. s \in Seq({"user", "limits", "replanning"}) /\ Len(s) = Len(rec.sources) + 1
  BY <1>1, AppendProperties
<1>4. rec' = [rec EXCEPT !.sources = s, !.synth = n, !.replan = z, !.replanned = seen] /\ z \in Int
  OBVIOUS
<1>. HIDE DEF s, z
<1>5. /\ rec' \in Records /\ rec'.control = rec.control /\ rec'.active = rec.active
      /\ rec'.model = rec.model /\ rec'.tool = rec.tool /\ rec'.output = rec.output
      /\ rec'.raised = rec.raised /\ rec'.replans = rec.replans
      /\ rec'.replan = z /\ rec'.synth = n
      /\ rec'.synthesis = rec.synthesis /\ rec'.sources = s
  BY <1>1, <1>3, <1>4, ZenonT(60) DEF Records
<1>6. Revision' = Revision + 1
  BY <1>3, <1>5 DEF Revision
<1>. QED BY <1>5, <1>6 DEF Revises, SameBooks, z

\* What an edit of child c does to it: a new child, another assignment of one that was
\* never dispatched, or its retirement.
Adds(c) ==
  /\ run[c] = "none" /\ run'[c] = "stopped"
  /\ kid'[c].control = "running" /\ ~kid'[c].retired /\ kid'[c].output = 0
  /\ kid'[c].steps = 0 /\ ~kid'[c].pending
Reassigns(c) ==
  /\ run[c] # "none" /\ run'[c] = run[c] /\ kid[c].steps = 0
  /\ kid'[c].control = kid[c].control /\ kid'[c].retired = kid[c].retired
  /\ kid'[c].output = kid[c].output /\ kid'[c].steps = kid[c].steps
  /\ kid'[c].pending = kid[c].pending
Retires(c) ==
  /\ run[c] # "none" /\ kid'[c].retired
  /\ \/ kid[c].steps = 0 /\ run'[c] = "abandoned"
     \/ run[c] = "failed" /\ run'[c] = "failed"
  /\ kid'[c].output = kid[c].output /\ kid'[c].steps = kid[c].steps
  /\ kid'[c].pending = kid[c].pending /\ kid'[c].deps = kid[c].deps
  /\ kid'[c].spec = kid[c].spec /\ ~Uncertain(c)

EditMade(c) ==
  /\ Revises(0) /\ Editable
  /\ kid' \in [Child -> Kids] /\ run' \in [Runs -> Statuses]
  /\ \A d \in Child : d # c => kid'[d] = kid[d]
  /\ \A r \in Runs : r # c => run'[r] = run[r]
  /\ Adds(c) \/ (Reassigns(c) /\ c \notin rec.active) \/ (Retires(c) /\ c \notin rec.active)
  /\ kid'[c].deps = kid[c].deps \/ \A d \in kid'[c].deps : run[d] # "none" /\ d # c

LEMMA EditAdds ==
  ASSUME Types, NEW e \in Edits, EditOK(e), e.op = "upsert", run[e.child] = "none",
         kid' = [kid EXCEPT ![e.child] = EditedKid(e)],
         run' = [run EXCEPT ![e.child] = EditedStatus(e)]
  PROVE  /\ kid' \in [Child -> Kids] /\ run' \in [Runs -> Statuses] /\ Adds(e.child)
         /\ kid'[e.child].deps = e.deps
<1>1. /\ kid \in [Child -> Kids] /\ run \in [Runs -> Statuses] /\ Revision + 1 \in Nat
      /\ e.child \in Child /\ e.child \in Runs /\ e.deps \in SUBSET Child
  BY TypeParts DEF Edits, Runs
<1>2. EditedKid(e) = NewKid(e.deps, Revision + 1)
  BY DEF EditedKid
<1>3. EditedStatus(e) = "stopped"
  BY DEF EditedStatus
<1>. DEFINE n == Revision + 1
            k == NewKid(e.deps, n)
<1>. HIDE DEF n
<1>4. k \in Kids /\ k.control = "running" /\ ~k.retired /\ k.output = 0 /\ k.steps = 0
      /\ ~k.pending /\ k.deps = e.deps
  BY <1>1 DEF Kids, NewKid, n
<1>. HIDE DEF k
<1>5. kid' = [kid EXCEPT ![e.child] = k] /\ run' = [run EXCEPT ![e.child] = "stopped"]
  BY <1>2, <1>3 DEF k, n
<1>. QED BY <1>1, <1>4, <1>5 DEF Adds, Statuses

LEMMA EditReassigns ==
  ASSUME Types, NEW e \in Edits, EditOK(e), e.op = "upsert", run[e.child] # "none",
         kid' = [kid EXCEPT ![e.child] = EditedKid(e)],
         run' = [run EXCEPT ![e.child] = EditedStatus(e)]
  PROVE  /\ kid' \in [Child -> Kids] /\ run' \in [Runs -> Statuses] /\ Reassigns(e.child)
         /\ kid'[e.child].deps = e.deps /\ e.child \notin rec.active
<1>1. /\ kid \in [Child -> Kids] /\ run \in [Runs -> Statuses] /\ Revision + 1 \in Nat
      /\ e.child \in Child /\ e.child \in Runs /\ e.deps \in SUBSET Child
  BY TypeParts DEF Edits, Runs
<1>2. EditedKid(e) = [kid[e.child] EXCEPT !.deps = e.deps, !.spec = Revision + 1, !.ready = FALSE]
  BY DEF EditedKid
<1>3. EditedStatus(e) = run[e.child]
  BY DEF EditedStatus
<1>. DEFINE n == Revision + 1
            k == [kid[e.child] EXCEPT !.deps = e.deps, !.spec = n, !.ready = FALSE]
            q == kid[e.child]
<1>. HIDE DEF n
<1>4. q \in Kids
  BY <1>1
<1>5. k \in Kids /\ k.control = q.control /\ k.retired = q.retired
      /\ k.output = q.output /\ k.steps = q.steps
      /\ k.pending = q.pending /\ k.deps = e.deps
  BY <1>1, <1>4 DEF Kids, n
<1>. HIDE DEF k
<1>6. kid' = [kid EXCEPT ![e.child] = k] /\ run' = [run EXCEPT ![e.child] = run[e.child]]
  BY <1>2, <1>3 DEF k, n
<1>7. kid[e.child].steps = 0 /\ e.child \notin rec.active
  BY DEF EditOK, Upsertable, Untouched
<1>. QED BY <1>1, <1>5, <1>6, <1>7 DEF Reassigns

LEMMA EditRetires ==
  ASSUME Types, NEW e \in Edits, EditOK(e), e.op = "retire",
         kid' = [kid EXCEPT ![e.child] = EditedKid(e)],
         run' = [run EXCEPT ![e.child] = EditedStatus(e)]
  PROVE  /\ kid' \in [Child -> Kids] /\ run' \in [Runs -> Statuses] /\ Retires(e.child)
         /\ e.child \notin rec.active
<1>1. /\ kid \in [Child -> Kids] /\ run \in [Runs -> Statuses]
      /\ e.child \in Child /\ e.child \in Runs
  BY TypeParts DEF Edits, Runs
<1>2. /\ run[e.child] # "none" /\ e.child \notin rec.active /\ ~Uncertain(e.child)
      /\ kid[e.child].steps = 0 \/ run[e.child] = "failed"
  BY DEF EditOK, Retirable, Untouched, Present
<1>. DEFINE s == IF kid[e.child].steps = 0 THEN "cancelled" ELSE kid[e.child].control
            k == [kid[e.child] EXCEPT !.retired = TRUE, !.control = s]
            q == kid[e.child]
            t == IF kid[e.child].steps = 0 THEN "abandoned" ELSE run[e.child]
<1>3. EditedKid(e) = k
  BY <1>2 DEF EditedKid
<1>4. EditedStatus(e) = t
  BY <1>2 DEF EditedStatus
<1>5. q \in Kids
  BY <1>1
<1>6. s \in {"running", "paused", "cancelled"}
  BY <1>5 DEF Kids
<1>7. t \in Statuses
  BY <1>1 DEF Statuses
<1>. HIDE DEF s
<1>8. k \in Kids /\ k.retired /\ k.output = q.output /\ k.steps = q.steps
      /\ k.pending = q.pending /\ k.deps = q.deps /\ k.spec = q.spec
  BY <1>5, <1>6 DEF Kids
<1>. HIDE DEF k
<1>9. kid' = [kid EXCEPT ![e.child] = k] /\ run' = [run EXCEPT ![e.child] = t]
  BY <1>3, <1>4
<1>. QED BY <1>1, <1>2, <1>7, <1>8, <1>9 DEF Retires

LEMMA EditEffect ==
  ASSUME Types, NEW e \in Edits, NEW source \in {"user", "replanning"}, EditOK(e),
         ApplyEdit(e, source)
  PROVE  EditMade(e.child) /\ e.child \in Child
<1>. DEFINE c == e.child
<1>1. /\ kid \in [Child -> Kids] /\ run \in [Runs -> Statuses] /\ c \in Child
      /\ rec \in Records /\ exec \in Executions /\ e.op \in {"upsert", "retire"}
  BY TypeParts DEF Edits
<1>2. Editable
  BY DEF EditOK
<1>3. Revises(0)
  <2>. DEFINE seen == IF source = "replanning" THEN rec.replanned \cup exec.seen ELSE rec.replanned
  <2>1. seen \in SUBSET Child
    BY <1>1 DEF Records, Executions
  <2>2. rec' = [rec EXCEPT !.sources = Append(@, source), !.synth = 0, !.replan = 0,
                           !.replanned = seen]
    BY DEF ApplyEdit
  <2>3. source \in {"user", "limits", "replanning"} /\ 0 \in Int
    OBVIOUS
  <2>. HIDE DEF seen
  <2>. QED BY <2>1, <2>2, <2>3, RevisedRecord
<1>4. kid' = [kid EXCEPT ![c] = EditedKid(e)] /\ run' = [run EXCEPT ![c] = EditedStatus(e)]
  BY DEF ApplyEdit
<1>5. /\ \A d \in Child : d # c => kid'[d] = kid[d]
      /\ \A r \in Runs : r # c => run'[r] = run[r]
  BY <1>1, <1>4
<1>6. CASE e.op = "upsert"
  <2>1. \A d \in e.deps : run[d] # "none" /\ d # c
    BY <1>6 DEF EditOK, Upsertable, Live, Present
  <2>2. CASE run[c] = "none"
    <3>1. /\ kid' \in [Child -> Kids] /\ run' \in [Runs -> Statuses] /\ Adds(c)
          /\ kid'[c].deps = e.deps
      BY <1>4, <1>6, <2>2, EditAdds
    <3>. QED BY <1>1, <1>2, <1>3, <1>5, <2>1, <3>1 DEF EditMade
  <2>3. CASE run[c] # "none"
    <3>1. /\ kid' \in [Child -> Kids] /\ run' \in [Runs -> Statuses] /\ Reassigns(c)
          /\ kid'[c].deps = e.deps /\ c \notin rec.active
      BY <1>4, <1>6, <2>3, EditReassigns
    <3>. QED BY <1>1, <1>2, <1>3, <1>5, <2>1, <3>1 DEF EditMade
  <2>. QED BY <2>2, <2>3
<1>7. CASE e.op = "retire"
  <2>1. /\ kid' \in [Child -> Kids] /\ run' \in [Runs -> Statuses] /\ Retires(c)
        /\ c \notin rec.active
    BY <1>4, <1>7, EditRetires
  <2>2. kid'[c].deps = kid[c].deps
    BY <2>1 DEF Retires
  <2>. QED BY <1>1, <1>2, <1>3, <1>5, <2>1, <2>2 DEF EditMade
<1>. QED BY <1>1, <1>6, <1>7

-----------------------------------------------------------------------------
(* The execution, and the goroutines.                                         *)

LEMMA IdleExec ==
  /\ Idle \in Executions /\ Idle.pc = "idle" /\ Idle.who = "nobody" /\ Idle.rev = 0
  /\ Idle.status = "none" /\ ~Idle.whole
BY DEF Idle, Executions, Places, Statuses, Runs, Errors

LEMMA ExitExec ==
  ASSUME Types, NEW err \in SUBSET Errors, Exit(err)
  PROVE  /\ exec' \in Executions /\ exec'.pc = "drain" /\ exec'.who = exec.who /\ exec'.rev = 0
         /\ exec'.status = "none" /\ ~exec'.whole
<1>. DEFINE w == exec.who
            s == (exec.err \cup err) \cap {"limit"}
<1>1. exec \in Executions
  BY TypeParts
<1>2. w \in {"nobody", "continue", "confirm", "control"} /\ s \in SUBSET Errors
  BY <1>1 DEF Executions, Errors
<1>3. exec' = [Idle EXCEPT !.who = w, !.pc = "drain", !.err = s]
  BY DEF Exit
<1>. HIDE DEF w, s
<1>4. /\ exec' \in Executions /\ exec'.pc = "drain" /\ exec'.who = w /\ exec'.rev = 0
      /\ exec'.status = "none" /\ ~exec'.whole
  BY <1>2, <1>3, IdleExec DEF Executions, Places
<1>. QED BY <1>4 DEF w

\* The execution goes to another place with what it has.
Goes(p) ==
  /\ exec' \in Executions /\ exec'.pc = p /\ exec'.who = exec.who /\ exec'.rev = exec.rev
  /\ exec'.batch = exec.batch /\ exec'.whole = exec.whole /\ exec'.status = exec.status

LEMMA GotoExec ==
  ASSUME Types, NEW p \in Places, Goto(p)
  PROVE  Goes(p) /\ exec'.saved = exec.saved
<1>1. exec \in Executions
  BY TypeParts
<1>. QED BY <1>1 DEF Goto, Goes, Executions

LEMMA ReportExec ==
  ASSUME Types, NEW err \in Errors, Report(err)
  PROVE  Goes("inspect")
<1>. DEFINE s == exec.err \cup {err}
<1>1. exec \in Executions
  BY TypeParts
<1>2. s \in SUBSET Errors
  BY <1>1 DEF Executions
<1>3. exec' = [exec EXCEPT !.pc = "inspect", !.err = s]
  BY DEF Report
<1>. HIDE DEF s
<1>. QED BY <1>1, <1>2, <1>3 DEF Goes, Executions, Places

\* The goroutine of c goes to another place, with its assignment.
JobGoes(c, p) ==
  /\ job' \in [Child -> Jobs] /\ job'[c].pc = p /\ job'[c].spec = job[c].spec
  /\ \A d \in Child : d # c => job'[d] = job[d]

LEMMA GoJob ==
  ASSUME Types, NEW c \in Child,
         NEW p \in {"off", "deliver", "continue", "model", "tool", "call", "settle", "end"},
         job' = [job EXCEPT ![c].pc = p]
  PROVE  JobGoes(c, p)
<1>. DEFINE j == [job[c] EXCEPT !.pc = p]
<1>1. job \in [Child -> Jobs] /\ job[c] \in Jobs
  BY TypeParts
<1>2. j \in Jobs /\ j.pc = p /\ j.spec = job[c].spec
  BY <1>1 DEF Jobs
<1>3. job' = [job EXCEPT ![c] = j]
  OBVIOUS
<1>. HIDE DEF j
<1>. QED BY <1>1, <1>2, <1>3 DEF JobGoes

LEMMA EndJob ==
  ASSUME Types, NEW c \in Child, NEW err \in SUBSET Errors, End(c, err)
  PROVE  JobGoes(c, "end")
<1>. DEFINE j == [job[c] EXCEPT !.pc = "end", !.err = err]
<1>1. job \in [Child -> Jobs] /\ job[c] \in Jobs
  BY TypeParts
<1>2. j \in Jobs /\ j.pc = "end" /\ j.spec = job[c].spec
  BY <1>1 DEF Jobs
<1>3. job' = [job EXCEPT ![c] = j]
  BY DEF End
<1>. HIDE DEF j
<1>. QED BY <1>1, <1>2, <1>3 DEF JobGoes

LEMMA SettleJob ==
  ASSUME Types, NEW c \in Child, NEW b \in BOOLEAN,
         job' = [job EXCEPT ![c] = [@ EXCEPT !.pc = "settle", !.limit = b]]
  PROVE  JobGoes(c, "settle")
<1>. DEFINE j == [job[c] EXCEPT !.pc = "settle", !.limit = b]
<1>1. job \in [Child -> Jobs] /\ job[c] \in Jobs
  BY TypeParts
<1>2. j \in Jobs /\ j.pc = "settle" /\ j.spec = job[c].spec
  BY <1>1 DEF Jobs
<1>3. job' = [job EXCEPT ![c] = j]
  OBVIOUS
<1>. HIDE DEF j
<1>. QED BY <1>1, <1>2, <1>3 DEF JobGoes

-----------------------------------------------------------------------------
(* What a step of the goroutine of child c leaves alone.                      *)

ChildFrame(c) ==
  /\ rec' \in Records /\ kid' \in [Child -> Kids] /\ att' \in Seq(Calls)
  /\ run' \in [Runs -> Statuses] /\ exec' \in Executions /\ job' \in [Child -> Jobs]
  /\ ctl' = ctl /\ (events' = events \/ Event)
  /\ \/ stuck' = stuck
     \/ stuck' = stuck \cup {c} /\ rec'.active = rec.active /\ job'[c].pc = "off"
  /\ SamePlan /\ rec'.control = rec.control /\ rec'.raised = rec.raised
  /\ rec'.replans = rec.replans
  /\ exec'.pc = exec.pc /\ exec'.who = exec.who /\ exec'.rev = exec.rev
  /\ exec'.status = exec.status
  /\ \A r \in Runs : r # c => run'[r] = run[r]
  /\ \A d \in Child : d # c => job'[d] = job[d] /\ kid'[d] = kid[d]
  /\ kid'[c].retired = kid[c].retired /\ kid'[c].deps = kid[c].deps
  /\ kid'[c].spec = kid[c].spec /\ kid'[c].control = kid[c].control

\* Of the calls: only calls of c change, and they keep their Run and assignment.
CallsFrame(c) ==
  /\ Len(att') = Len(att) /\ DOMAIN att' = DOMAIN att
  /\ \A i \in DOMAIN att : att[i].run # c => att'[i] = att[i]
  /\ \A i \in DOMAIN att : /\ att'[i].run = att[i].run /\ att'[i].spec = att[i].spec
                           /\ att'[i].purpose = att[i].purpose /\ att'[i].kind = att[i].kind

LEMMA SameCalls ==
  ASSUME Types, att' = att, NEW c
  PROVE  CallsFrame(c) /\ att' \in Seq(Calls)
BY TypeParts DEF CallsFrame

LEMMA SameKids ==
  ASSUME Types, kid' = kid, NEW c \in Child
  PROVE  /\ kid' \in [Child -> Kids] /\ \A d \in Child : d # c => kid'[d] = kid[d]
         /\ kid'[c].retired = kid[c].retired /\ kid'[c].deps = kid[c].deps
         /\ kid'[c].spec = kid[c].spec /\ kid'[c].control = kid[c].control
         /\ kid'[c].steps = kid[c].steps /\ kid'[c].pending = kid[c].pending
         /\ kid'[c].output = kid[c].output
BY TypeParts

LEMMA SameExec ==
  ASSUME Types, exec' = exec
  PROVE  exec' \in Executions /\ Goes(exec.pc) /\ exec'.saved = exec.saved
BY TypeParts DEF Goes

LEMMA DeliverEffect ==
  ASSUME Types, NEW c \in Child, Deliver(c)
  PROVE  /\ ChildFrame(c) /\ CallsFrame(c) /\ att' = att /\ rec' = rec /\ run' = run
         /\ kid'[c].steps = kid[c].steps /\ kid'[c].pending = kid[c].pending
         /\ kid'[c].output = kid[c].output
         /\ job[c].pc = "deliver" /\ (JobGoes(c, "continue") \/ JobGoes(c, "end"))
<1>1. /\ job[c].pc = "deliver" /\ att' = att /\ rec' = rec /\ run' = run /\ exec' = exec
      /\ ctl' = ctl /\ events' = events /\ stuck' = stuck
  BY DEF Deliver
<1>2. kid \in [Child -> Kids] /\ kid[c] \in Kids /\ run \in [Runs -> Statuses]
  BY TypeParts
<1>3. JobGoes(c, "continue") \/ JobGoes(c, "end")
  BY GoJob, EndJob DEF Deliver, Errors
<1>4. /\ kid' \in [Child -> Kids] /\ \A d \in Child : d # c => kid'[d] = kid[d]
      /\ kid'[c].retired = kid[c].retired /\ kid'[c].deps = kid[c].deps
      /\ kid'[c].spec = kid[c].spec /\ kid'[c].control = kid[c].control
      /\ kid'[c].steps = kid[c].steps /\ kid'[c].pending = kid[c].pending
      /\ kid'[c].output = kid[c].output
  <2>1. CASE kid' = kid
    BY <2>1, SameKids
  <2>2. CASE kid' = [kid EXCEPT ![c].ready = TRUE]
    <3>. DEFINE k == [kid[c] EXCEPT !.ready = TRUE]
    <3>1. /\ k \in Kids /\ k.retired = kid[c].retired /\ k.deps = kid[c].deps
          /\ k.spec = kid[c].spec /\ k.control = kid[c].control
          /\ k.steps = kid[c].steps /\ k.pending = kid[c].pending /\ k.output = kid[c].output
      BY <1>2 DEF Kids
    <3>2. kid' = [kid EXCEPT ![c] = k]
      BY <2>2
    <3>. HIDE DEF k
    <3>. QED BY <1>2, <3>1, <3>2
  <2>. QED BY <2>1, <2>2 DEF Deliver
<1>5. CallsFrame(c) /\ att' \in Seq(Calls)
  BY <1>1, SameCalls
<1>6. rec' \in Records /\ SameBooks /\ SamePlan /\ rec'.control = rec.control
  BY <1>1, SameRecord
<1>7. exec' \in Executions /\ Goes(exec.pc)
  BY <1>1, SameExec
<1>. QED BY <1>1, <1>2, <1>3, <1>4, <1>5, <1>6, <1>7 DEF ChildFrame, JobGoes, Goes, SameBooks

\* Of a step that changes only the status and the goroutine of c.
LEMMA StatusEffect ==
  ASSUME Types, NEW c \in Child, NEW s \in Statuses, run' = [run EXCEPT ![c] = s] \/ run' = run,
         NEW p, JobGoes(c, p), UNCHANGED <<rec, kid, att, exec, ctl, events, stuck>>
  PROVE  ChildFrame(c) /\ CallsFrame(c)
<1>1. run \in [Runs -> Statuses] /\ c \in Runs
  BY TypeParts
<1>2. run' \in [Runs -> Statuses] /\ \A r \in Runs : r # c => run'[r] = run[r]
  BY <1>1
<1>3. /\ kid' \in [Child -> Kids] /\ \A d \in Child : d # c => kid'[d] = kid[d]
      /\ kid'[c].retired = kid[c].retired /\ kid'[c].deps = kid[c].deps
      /\ kid'[c].spec = kid[c].spec /\ kid'[c].control = kid[c].control
  BY SameKids
<1>5. CallsFrame(c) /\ att' \in Seq(Calls)
  BY SameCalls
<1>6. rec' \in Records /\ SameBooks /\ SamePlan /\ rec'.control = rec.control
  BY SameRecord
<1>7. exec' \in Executions /\ Goes(exec.pc)
  BY SameExec
<1>. QED BY <1>2, <1>3, <1>5, <1>6, <1>7 DEF ChildFrame, JobGoes, Goes, SameBooks

LEMMA ContinueEffect ==
  ASSUME Types, NEW c \in Child, ChildContinue(c)
  PROVE  /\ ChildFrame(c) /\ CallsFrame(c) /\ att' = att /\ rec' = rec /\ kid' = kid
         /\ job[c].pc = "continue"
         /\ \/ /\ run'[c] = "running" /\ ~Uncertain(c)
               /\ run[c] \notin {"completed", "failed", "abandoned"}
               /\ (kid[c].pending /\ JobGoes(c, "tool")) \/ JobGoes(c, "model")
            \/ run' = run /\ JobGoes(c, "end")
<1>1. job[c].pc = "continue" /\ UNCHANGED <<rec, kid, att, exec, ctl, events, stuck>>
  BY DEF ChildContinue
<1>2. run \in [Runs -> Statuses] /\ c \in Runs
  BY TypeParts
<1>3. CASE run' = run /\ (End(c, {"unknown"}) \/ End(c, {"error"}))
  <2>1. JobGoes(c, "end")
    BY <1>3, EndJob DEF Errors
  <2>2. "stopped" \in Statuses
    BY DEF Statuses
  <2>3. ChildFrame(c) /\ CallsFrame(c)
    BY <1>1, <1>3, <2>1, <2>2, StatusEffect
  <2>. QED BY <1>1, <1>3, <2>1, <2>3
<1>4. CASE /\ run[c] \notin {"completed", "failed", "abandoned"} /\ ~Uncertain(c)
           /\ run' = [run EXCEPT ![c] = "running"]
           /\ job' = [job EXCEPT ![c].pc = IF kid[c].pending THEN "tool" ELSE "model"]
  <2>1. (kid[c].pending /\ JobGoes(c, "tool")) \/ JobGoes(c, "model")
    <3>1. CASE kid[c].pending
      BY <1>4, <3>1, GoJob
    <3>2. CASE ~kid[c].pending
      BY <1>4, <3>2, GoJob
    <3>. QED BY <3>1, <3>2
  <2>2. "running" \in Statuses
    BY DEF Statuses
  <2>3. ChildFrame(c) /\ CallsFrame(c)
    BY <1>1, <1>4, <2>1, <2>2, StatusEffect
  <2>4. run'[c] = "running"
    BY <1>2, <1>4
  <2>. QED BY <1>1, <1>4, <2>1, <2>3, <2>4
<1>. QED BY <1>3, <1>4 DEF ChildContinue

LEMMA StopEffect ==
  ASSUME Types, NEW c \in Child, Stop(c) \/ AwaitApproval(c)
  PROVE  /\ ChildFrame(c) /\ CallsFrame(c) /\ att' = att /\ rec' = rec /\ kid' = kid
         /\ job[c].pc \in {"model", "tool"} /\ JobGoes(c, "end")
         /\ \/ run'[c] \in {"limited", "stopped"}
            \/ run'[c] = "waiting_confirmation" /\ job[c].pc = "tool"
<1>1. job[c].pc \in {"model", "tool"} /\ UNCHANGED <<rec, kid, att, exec, ctl, events, stuck>>
  BY DEF Stop, AwaitApproval
<1>2. run \in [Runs -> Statuses] /\ c \in Runs
  BY TypeParts
<1>3. PICK s \in {"limited", "stopped", "waiting_confirmation"} :
        /\ run' = [run EXCEPT ![c] = s] /\ (s = "waiting_confirmation" => job[c].pc = "tool")
        /\ End(c, {"limit"}) \/ End(c, {"error"}) \/ End(c, {})
  BY DEF Stop, AwaitApproval
<1>4. JobGoes(c, "end")
  BY <1>3, EndJob DEF Errors
<1>5. s \in Statuses
  BY DEF Statuses
<1>6. ChildFrame(c) /\ CallsFrame(c)
  BY <1>1, <1>3, <1>4, <1>5, StatusEffect
<1>7. run'[c] = s
  BY <1>2, <1>3
<1>. QED BY <1>1, <1>3, <1>4, <1>6, <1>7

LEMMA AnswerEffect ==
  ASSUME Types, NEW c \in Child, AnswerUndispatched(c)
  PROVE  /\ ChildFrame(c) /\ CallsFrame(c) /\ att' = att /\ rec' = rec /\ run' = run
         /\ kid'[c].steps = kid[c].steps /\ ~kid'[c].pending /\ kid'[c].output = kid[c].output
         /\ job[c].pc = "tool" /\ JobGoes(c, "model")
<1>1. /\ job[c].pc = "tool" /\ att' = att /\ rec' = rec /\ run' = run /\ exec' = exec
      /\ ctl' = ctl /\ events' = events /\ stuck' = stuck
  BY DEF AnswerUndispatched
<1>2. kid \in [Child -> Kids] /\ kid[c] \in Kids /\ run \in [Runs -> Statuses]
  BY TypeParts
<1>3. JobGoes(c, "model")
  BY GoJob DEF AnswerUndispatched
<1>4. /\ kid' \in [Child -> Kids] /\ \A d \in Child : d # c => kid'[d] = kid[d]
      /\ kid'[c].retired = kid[c].retired /\ kid'[c].deps = kid[c].deps
      /\ kid'[c].spec = kid[c].spec /\ kid'[c].control = kid[c].control
      /\ kid'[c].steps = kid[c].steps /\ ~kid'[c].pending
      /\ kid'[c].output = kid[c].output
  <2>. DEFINE k == [kid[c] EXCEPT !.pending = FALSE]
  <2>1. /\ k \in Kids /\ k.retired = kid[c].retired /\ k.deps = kid[c].deps
        /\ k.spec = kid[c].spec /\ k.control = kid[c].control
        /\ k.steps = kid[c].steps /\ ~k.pending /\ k.output = kid[c].output
    BY <1>2 DEF Kids
  <2>2. kid' = [kid EXCEPT ![c] = k]
    BY DEF AnswerUndispatched
  <2>. HIDE DEF k
  <2>. QED BY <1>2, <2>1, <2>2
<1>5. CallsFrame(c) /\ att' \in Seq(Calls)
  BY <1>1, SameCalls
<1>6. rec' \in Records /\ SameBooks /\ SamePlan /\ rec'.control = rec.control
  BY <1>1, SameRecord
<1>7. exec' \in Executions /\ Goes(exec.pc)
  BY <1>1, SameExec
<1>. QED BY <1>1, <1>2, <1>3, <1>4, <1>5, <1>6, <1>7 DEF ChildFrame, JobGoes, Goes, SameBooks

LEMMA DispatchEffect ==
  ASSUME Types, BudgetAssumption, NEW c \in Child, Dispatch(c)
  PROVE  /\ ChildFrame(c) /\ run' = run /\ rec'.active = rec.active
         /\ Reserve(c, job[c].pc, "", job[c].spec) /\ job[c].pc \in Kinds
         /\ job[c].spec \in Nat /\ MayReserve(c) /\ Fits(c, job[c].pc)
         /\ kid'[c].steps = kid[c].steps + 1 /\ ~kid'[c].pending
         /\ Len(att') = Len(att) + 1 /\ DOMAIN att' = DOMAIN att \cup {Len(att) + 1}
         /\ \A i \in DOMAIN att : att'[i] = att[i]
         /\ LET a == att'[Len(att) + 1]
            IN a.run = c /\ a.spec = job[c].spec /\ a.status = "dispatched"
               /\ a.purpose \notin {"replanning", "synthesis"}
         /\ JobGoes(c, "call")
<1>1. /\ job[c].pc \in {"model", "tool"} /\ Reserve(c, job[c].pc, "", job[c].spec)
      /\ MayReserve(c) /\ Fits(c, job[c].pc)
      /\ run' = run /\ exec' = exec /\ ctl' = ctl /\ events' = events /\ stuck' = stuck
  BY DEF Dispatch
<1>2. /\ job[c] \in Jobs /\ run \in [Runs -> Statuses] /\ c \in Runs /\ kid \in [Child -> Kids]
  BY TypeParts
<1>3. job[c].spec \in Nat
  BY <1>2 DEF Jobs
<1>4. job[c].pc \in Kinds /\ "" \in Purposes
  BY <1>1 DEF Kinds, Purposes
<1>5. JobGoes(c, "call")
  BY GoJob DEF Dispatch
<1>6. /\ att' \in Seq(Calls) /\ Len(att') = Len(att) + 1
      /\ \A i \in DOMAIN att : att'[i] = att[i]
      /\ att'[Len(att) + 1] = NewAttempt(c, job[c].pc, "", job[c].spec)
      /\ DOMAIN att' = DOMAIN att \cup {Len(att) + 1}
  BY <1>1, <1>2, <1>3, <1>4, ReserveAttempt
<1>7. /\ NewAttempt(c, job[c].pc, "", job[c].spec).run = c
      /\ NewAttempt(c, job[c].pc, "", job[c].spec).spec = job[c].spec
      /\ NewAttempt(c, job[c].pc, "", job[c].spec).status = "dispatched"
      /\ NewAttempt(c, job[c].pc, "", job[c].spec).purpose \notin {"replanning", "synthesis"}
  BY DEF NewAttempt
<1>8. /\ rec' \in Records
      /\ rec'.control = rec.control /\ rec'.sources = rec.sources
      /\ rec'.active = rec.active /\ rec'.raised = rec.raised
      /\ rec'.synthesis = rec.synthesis
      /\ rec'.replans = IF "" = "replanning" THEN rec.replans + 1 ELSE rec.replans
      /\ rec'.replan = IF "" = "replanning" THEN Len(att) + 1 ELSE rec.replan
      /\ rec'.synth = IF "" = "synthesis" THEN Len(att) + 1 ELSE rec.synth
  BY <1>1, <1>2, <1>3, <1>4, ReserveRecord
<1>9. SamePlan /\ rec'.replans = rec.replans
  BY <1>8 DEF SamePlan
<1>10. /\ kid' \in [Child -> Kids]
       /\ \A d \in Child : d # c => kid'[d] = kid[d]
       /\ kid'[c].control = kid[c].control /\ kid'[c].retired = kid[c].retired
       /\ kid'[c].deps = kid[c].deps /\ kid'[c].spec = kid[c].spec
       /\ kid'[c].steps = kid[c].steps + 1 /\ kid'[c].pending = FALSE
  BY <1>1, <1>2, <1>3, <1>4, ReserveKid
<1>11. exec' \in Executions /\ Goes(exec.pc)
  BY <1>1, SameExec
<1>12. ChildFrame(c)
  BY <1>1, <1>2, <1>5, <1>6, <1>8, <1>9, <1>10, <1>11 DEF ChildFrame, JobGoes, Goes
<1>. QED BY <1>1, <1>3, <1>4, <1>5, <1>6, <1>7, <1>8, <1>10, <1>12

\* A call of c in flight is corrected, and may be settled.
Settles(c, i, next) ==
  /\ i \in DOMAIN att /\ att[i].run = c /\ att[i].status = "dispatched" /\ next \in Calls
  /\ next.run = c /\ next.kind = att[i].kind /\ next.spec = att[i].spec
  /\ next.purpose = att[i].purpose
  /\ Corrects(i, next)

LEMMA SettlesFrame ==
  ASSUME Types, NEW c, NEW i, NEW next, Settles(c, i, next)
  PROVE  CallsFrame(c) /\ att' \in Seq(Calls) /\ att'[i] = next
         /\ \A j \in DOMAIN att : j # i => att'[j] = att[j]
<1>1. /\ att' \in Seq(Calls) /\ Len(att') = Len(att) /\ DOMAIN att' = DOMAIN att
      /\ att'[i] = next /\ \A j \in DOMAIN att : j # i => att'[j] = att[j]
  BY CorrectsAttempt DEF Settles
<1>. QED BY <1>1 DEF Settles, CallsFrame

LEMMA ObserveEffect ==
  ASSUME Types, BudgetAssumption, ChildFlights, NEW c \in Child, Observe(c)
  PROVE  /\ ChildFrame(c) /\ run' = run /\ rec'.active = rec.active
         /\ kid'[c].steps = kid[c].steps /\ kid'[c].pending = kid[c].pending
         /\ job[c].pc = "call" /\ JobGoes(c, "settle")
         /\ \E size \in Nat : LET i == Flight(c)
                                  next == Billed(att[i], size, FALSE)
                              IN /\ Settles(c, i, next) /\ next.status = "dispatched"
                                 /\ Record(i, next)
<1>. DEFINE i == Flight(c)
<1>1. /\ job[c].pc = "call" /\ run' = run /\ exec' = exec /\ ctl' = ctl /\ events' = events /\ stuck' = stuck
  BY DEF Observe
<1>2. PICK size \in Sizes :
        /\ Record(i, Billed(att[i], size, FALSE))
        /\ job' = [job EXCEPT ![c] = [@ EXCEPT !.pc = "settle", !.limit = Over(i)]]
  BY DEF Observe
<1>3. size \in Nat
  BY DEF BudgetAssumption
<1>4. i \in DOMAIN att /\ att[i].run = c /\ att[i].status = "dispatched"
  BY <1>1, FlightCall DEF ChildFlights
<1>5. att[i] \in Calls /\ run \in [Runs -> Statuses] /\ kid \in [Child -> Kids]
  BY <1>4, TypeParts
<1>. DEFINE next == Billed(att[i], size, FALSE)
<1>6. /\ next \in Calls /\ next.run = c /\ next.kind = att[i].kind /\ next.spec = att[i].spec
      /\ next.purpose = att[i].purpose /\ next.status = "dispatched"
  <2>1. FALSE \in BOOLEAN
    OBVIOUS
  <2>. QED BY <1>3, <1>4, <1>5, <2>1, BilledCall
<1>. HIDE DEF next, i
<1>7. Record(i, next)
  BY <1>2 DEF next
<1>8. /\ Corrects(i, next)
      /\ kid' \in [Child -> Kids]
      /\ \A d \in Child : d # c => kid'[d] = kid[d]
      /\ kid'[c].control = kid[c].control /\ kid'[c].retired = kid[c].retired
      /\ kid'[c].deps = kid[c].deps /\ kid'[c].spec = kid[c].spec
      /\ kid'[c].steps = kid[c].steps /\ kid'[c].pending = kid[c].pending
  BY <1>4, <1>6, <1>7, RecordKid
<1>9. Settles(c, i, next)
  BY <1>4, <1>6, <1>8 DEF Settles
<1>10. CallsFrame(c) /\ att' \in Seq(Calls)
  BY <1>9, SettlesFrame
<1>11. /\ rec' \in Records
       /\ rec'.control = rec.control /\ rec'.sources = rec.sources
       /\ rec'.active = rec.active /\ rec'.raised = rec.raised
       /\ rec'.synthesis = rec.synthesis
       /\ rec'.replans = rec.replans /\ rec'.replan = rec.replan /\ rec'.synth = rec.synth
  BY <1>4, <1>6, <1>8, CorrectsRecord
<1>12. JobGoes(c, "settle")
  <2>. DEFINE b == Over(i)
  <2>1. b \in BOOLEAN
    BY DEF Over
  <2>2. job' = [job EXCEPT ![c] = [@ EXCEPT !.pc = "settle", !.limit = b]]
    BY <1>2
  <2>. HIDE DEF b
  <2>. QED BY <2>1, <2>2, SettleJob
<1>13. exec' \in Executions /\ Goes(exec.pc)
  BY <1>1, SameExec
<1>14. ChildFrame(c)
  BY <1>1, <1>5, <1>8, <1>10, <1>11, <1>12, <1>13 DEF ChildFrame, JobGoes, Goes, SamePlan
<1>15. Settles(c, Flight(c), Billed(att[Flight(c)], size, FALSE))
       /\ Billed(att[Flight(c)], size, FALSE).status = "dispatched"
       /\ Record(Flight(c), Billed(att[Flight(c)], size, FALSE))
  BY <1>6, <1>7, <1>9 DEF next, i
<1>. QED BY <1>1, <1>3, <1>8, <1>11, <1>12, <1>14, <1>15

LEMMA FailEffect ==
  ASSUME Types, BudgetAssumption, ChildFlights, NEW c \in Child, Fail(c)
  PROVE  /\ ChildFrame(c) /\ run'[c] = "failed" /\ rec'.active = rec.active
         /\ kid'[c].steps = kid[c].steps /\ kid'[c].pending = kid[c].pending
         /\ job[c].pc = "settle" /\ JobGoes(c, "end")
         /\ LET i == Flight(c)
                next == [Billed(att[i], 0, FALSE) EXCEPT !.status = "failed"]
            IN /\ Settles(c, i, next) /\ next.status = "failed" /\ Record(i, next)
<1>. DEFINE i == Flight(c)
            b == Billed(att[i], 0, FALSE)
            next == [b EXCEPT !.status = "failed"]
<1>1. /\ job[c].pc = "settle" /\ exec' = exec /\ ctl' = ctl /\ events' = events /\ stuck' = stuck
      /\ run' = [run EXCEPT ![c] = "failed"]
  BY DEF Fail
<1>2. Record(i, next) /\ End(c, {"error"})
  BY DEF Fail
<1>4. i \in DOMAIN att /\ att[i].run = c /\ att[i].status = "dispatched"
  BY <1>1, FlightCall DEF ChildFlights
<1>5. att[i] \in Calls /\ run \in [Runs -> Statuses] /\ kid \in [Child -> Kids] /\ c \in Runs
  BY <1>4, TypeParts
<1>6. /\ b \in Calls /\ b.run = c /\ b.kind = att[i].kind /\ b.spec = att[i].spec
      /\ b.purpose = att[i].purpose
  <2>1. FALSE \in BOOLEAN /\ 0 \in Nat
    OBVIOUS
  <2>. QED BY <1>4, <1>5, <2>1, BilledCall
<1>. HIDE DEF b
<1>7. /\ next \in Calls /\ next.run = c /\ next.kind = att[i].kind /\ next.spec = att[i].spec
      /\ next.purpose = att[i].purpose /\ next.status = "failed"
  BY <1>6 DEF Calls
<1>. HIDE DEF next, i
<1>8. /\ Corrects(i, next)
      /\ kid' \in [Child -> Kids]
      /\ \A d \in Child : d # c => kid'[d] = kid[d]
      /\ kid'[c].control = kid[c].control /\ kid'[c].retired = kid[c].retired
      /\ kid'[c].deps = kid[c].deps /\ kid'[c].spec = kid[c].spec
      /\ kid'[c].steps = kid[c].steps /\ kid'[c].pending = kid[c].pending
  BY <1>2, <1>4, <1>7, RecordKid
<1>9. Settles(c, i, next)
  BY <1>4, <1>7, <1>8 DEF Settles
<1>10. CallsFrame(c) /\ att' \in Seq(Calls)
  BY <1>9, SettlesFrame
<1>11. /\ rec' \in Records
       /\ rec'.control = rec.control /\ rec'.sources = rec.sources
       /\ rec'.active = rec.active /\ rec'.raised = rec.raised
       /\ rec'.synthesis = rec.synthesis
       /\ rec'.replans = rec.replans /\ rec'.replan = rec.replan /\ rec'.synth = rec.synth
  BY <1>4, <1>7, <1>8, CorrectsRecord
<1>12. JobGoes(c, "end")
  BY <1>2, EndJob DEF Errors
<1>13. exec' \in Executions /\ Goes(exec.pc)
  BY <1>1, SameExec
<1>14. run' \in [Runs -> Statuses] /\ run'[c] = "failed" /\ \A r \in Runs : r # c => run'[r] = run[r]
  BY <1>1, <1>5 DEF Statuses
<1>15. ChildFrame(c)
  BY <1>1, <1>8, <1>10, <1>11, <1>12, <1>13, <1>14 DEF ChildFrame, JobGoes, Goes, SamePlan
<1>16. Settles(c, Flight(c), [Billed(att[Flight(c)], 0, FALSE) EXCEPT !.status = "failed"])
       /\ [Billed(att[Flight(c)], 0, FALSE) EXCEPT !.status = "failed"].status = "failed"
       /\ Record(Flight(c), [Billed(att[Flight(c)], 0, FALSE) EXCEPT !.status = "failed"])
  BY <1>2, <1>7, <1>9 DEF next, i, b
<1>. QED BY <1>1, <1>8, <1>11, <1>12, <1>14, <1>15, <1>16

LEMMA FinishEffect ==
  ASSUME Types, BudgetAssumption, ChildFlights, NEW c \in Child, Finish(c)
  PROVE  /\ ChildFrame(c) /\ rec'.active = rec.active
         /\ kid'[c].steps = kid[c].steps /\ job[c].pc = "settle"
         /\ \/ run'[c] \in {"limited", "completed"} /\ JobGoes(c, "end")
            \/ run'[c] = run[c] /\ (JobGoes(c, "tool") \/ JobGoes(c, "model"))
         /\ \E refund \in BOOLEAN :
              LET i == Flight(c)
                  next == [Billed(att[i], 0, refund) EXCEPT !.status = "finished"]
              IN /\ Settles(c, i, next) /\ next.status = "finished"
                 /\ kid'[c].output = kid[c].output + (next.bytes - att[i].bytes)
<1>. DEFINE i == Flight(c)
            model == att[i].kind = "model"
<1>1. /\ job[c].pc = "settle" /\ exec' = exec /\ ctl' = ctl /\ events' = events /\ stuck' = stuck
  BY DEF Finish
<1>2. PICK last, follow, refund \in BOOLEAN :
        LET next == [Billed(att[i], 0, refund) EXCEPT !.status = "finished"]
            delta == next.bytes - att[i].bytes
            over == job[c].limit \/ Over(i)
        IN /\ att' = [att EXCEPT ![i] = next]
           /\ rec' = [rec EXCEPT !.output = @ + delta]
           /\ kid' = [kid EXCEPT ![c] = [kid[c] EXCEPT !.output = @ + delta,
                                                       !.pending = model /\ ~last,
                                                       !.follow = follow]]
           /\ run' = [run EXCEPT ![c] = IF over THEN "limited"
                                        ELSE IF last THEN "completed" ELSE @]
           /\ IF over THEN End(c, {"limit"})
              ELSE IF last THEN End(c, {})
              ELSE job' = [job EXCEPT ![c].pc = IF model THEN "tool" ELSE "model"]
  BY DEF Finish
<1>. DEFINE b == Billed(att[i], 0, refund)
            next == [b EXCEPT !.status = "finished"]
            delta == next.bytes - att[i].bytes
            over == job[c].limit \/ Over(i)
<1>4. i \in DOMAIN att /\ att[i].run = c /\ att[i].status = "dispatched"
  BY <1>1, FlightCall DEF ChildFlights
<1>5. att[i] \in Calls /\ run \in [Runs -> Statuses] /\ kid \in [Child -> Kids] /\ c \in Runs
      /\ kid[c] \in Kids
  BY <1>4, TypeParts
<1>6. /\ b \in Calls /\ b.run = c /\ b.kind = att[i].kind /\ b.spec = att[i].spec
      /\ b.purpose = att[i].purpose
  <2>1. 0 \in Nat
    OBVIOUS
  <2>. QED BY <1>4, <1>5, <2>1, BilledCall
<1>. HIDE DEF b
<1>7. /\ next \in Calls /\ next.run = c /\ next.kind = att[i].kind /\ next.spec = att[i].spec
      /\ next.purpose = att[i].purpose /\ next.status = "finished"
  BY <1>6 DEF Calls
<1>8. att' = [att EXCEPT ![i] = next] /\ rec' = [rec EXCEPT !.output = @ + delta]
  BY <1>2 DEF b
<1>9. kid' = [kid EXCEPT ![c] = [kid[c] EXCEPT !.output = kid[c].output + delta,
                                               !.pending = model /\ ~last, !.follow = follow]]
  BY <1>2 DEF b
<1>10. /\ run' = [run EXCEPT ![c] = IF over THEN "limited"
                                    ELSE IF last THEN "completed" ELSE run[c]]
       /\ IF over THEN End(c, {"limit"})
          ELSE IF last THEN End(c, {})
          ELSE job' = [job EXCEPT ![c].pc = IF model THEN "tool" ELSE "model"]
  BY <1>2
<1>11. /\ run' \in [Runs -> Statuses] /\ \A r \in Runs : r # c => run'[r] = run[r]
       /\ \/ run'[c] \in {"limited", "completed"} /\ JobGoes(c, "end")
          \/ run'[c] = run[c] /\ (JobGoes(c, "tool") \/ JobGoes(c, "model"))
  <2>. HIDE DEF over, model, i
  <2>1. CASE over
    BY <1>5, <1>10, <2>1, EndJob DEF Errors, Statuses
  <2>2. CASE ~over /\ last
    BY <1>5, <1>10, <2>2, EndJob DEF Errors, Statuses
  <2>3. CASE ~over /\ ~last /\ model
    BY <1>5, <1>10, <2>3, GoJob
  <2>4. CASE ~over /\ ~last /\ ~model
    BY <1>5, <1>10, <2>4, GoJob
  <2>. QED BY <2>1, <2>2, <2>3, <2>4
<1>. HIDE DEF next
<1>12. Corrects(i, next)
  BY <1>8 DEF Corrects
<1>13. Settles(c, i, next)
  BY <1>4, <1>7, <1>12 DEF Settles
<1>14. CallsFrame(c) /\ att' \in Seq(Calls)
  BY <1>13, SettlesFrame
<1>15. /\ rec' \in Records
       /\ rec'.control = rec.control /\ rec'.sources = rec.sources
       /\ rec'.active = rec.active /\ rec'.raised = rec.raised
       /\ rec'.synthesis = rec.synthesis
       /\ rec'.replans = rec.replans /\ rec'.replan = rec.replan /\ rec'.synth = rec.synth
  BY <1>4, <1>7, <1>12, CorrectsRecord
<1>16. /\ kid' \in [Child -> Kids] /\ \A d \in Child : d # c => kid'[d] = kid[d]
       /\ kid'[c].retired = kid[c].retired /\ kid'[c].deps = kid[c].deps
       /\ kid'[c].spec = kid[c].spec /\ kid'[c].control = kid[c].control
       /\ kid'[c].steps = kid[c].steps /\ kid'[c].output = kid[c].output + delta
  <2>. DEFINE m == kid[c].output + delta
              p == model /\ ~last
              k == [kid[c] EXCEPT !.output = m, !.pending = p, !.follow = follow]
  <2>1. m \in Int
    <3>1. next.bytes \in Nat /\ att[i].bytes \in Nat
      BY <1>5, <1>7 DEF Calls
    <3>2. kid[c].output \in Int
      BY <1>5 DEF Kids
    <3>. QED BY <3>1, <3>2
  <2>2. p \in BOOLEAN
    OBVIOUS
  <2>3. kid' = [kid EXCEPT ![c] = k]
    BY <1>9
  <2>. HIDE DEF m, p
  <2>4. /\ k \in Kids /\ k.retired = kid[c].retired /\ k.deps = kid[c].deps
        /\ k.spec = kid[c].spec /\ k.control = kid[c].control
        /\ k.steps = kid[c].steps /\ k.output = m
    BY <1>5, <2>1, <2>2 DEF Kids
  <2>. HIDE DEF k, delta
  <2>. QED BY <1>5, <2>3, <2>4 DEF m
<1>17. exec' \in Executions /\ Goes(exec.pc)
  BY <1>1, SameExec
<1>18. job' \in [Child -> Jobs] /\ \A d \in Child : d # c => job'[d] = job[d]
  BY <1>11 DEF JobGoes
<1>19. ChildFrame(c)
  BY <1>1, <1>11, <1>14, <1>15, <1>16, <1>17, <1>18 DEF ChildFrame, Goes, SamePlan
<1>20. LET x == [Billed(att[Flight(c)], 0, refund) EXCEPT !.status = "finished"]
       IN /\ Settles(c, Flight(c), x) /\ x.status = "finished"
          /\ kid'[c].output = kid[c].output + (x.bytes - att[Flight(c)].bytes)
  BY <1>7, <1>13, <1>16 DEF next, b
<1>. QED BY <1>1, <1>11, <1>15, <1>16, <1>19, <1>20

LEMMA LoseEffect ==
  ASSUME Types, ChildFlights, NEW c \in Child, Lose(c)
  PROVE  /\ ChildFrame(c) /\ CallsFrame(c) /\ run'[c] = "unknown" /\ rec' = rec /\ kid' = kid
         /\ job[c].pc = "settle" /\ JobGoes(c, "end")
         /\ LET i == Flight(c)
            IN /\ i \in DOMAIN att /\ att[i].run = c /\ att[i].status = "dispatched"
               /\ att' = [att EXCEPT ![i].status = "unknown"]
               /\ att'[i].status = "unknown" /\ \A j \in DOMAIN att : j # i => att'[j] = att[j]
               /\ att'[i].bytes = att[i].bytes /\ att'[i].observed = att[i].observed
               /\ att'[i].final = att[i].final
<1>. DEFINE i == Flight(c)
<1>1. /\ job[c].pc = "settle" /\ exec' = exec /\ ctl' = ctl /\ events' = events /\ stuck' = stuck
      /\ rec' = rec /\ kid' = kid /\ run' = [run EXCEPT ![c] = "unknown"] /\ End(c, {"unknown"})
      /\ att' = [att EXCEPT ![i].status = "unknown"]
  BY DEF Lose
<1>2. i \in DOMAIN att /\ att[i].run = c /\ att[i].status = "dispatched"
  BY <1>1, FlightCall DEF ChildFlights
<1>. HIDE DEF i
<1>3. /\ att' \in Seq(Calls) /\ Len(att') = Len(att) /\ DOMAIN att' = DOMAIN att
      /\ \A j \in DOMAIN att : j # i => att'[j] = att[j]
      /\ att'[i].run = att[i].run /\ att'[i].kind = att[i].kind
      /\ att'[i].purpose = att[i].purpose /\ att'[i].spec = att[i].spec
      /\ att'[i].bytes = att[i].bytes /\ att'[i].observed = att[i].observed
      /\ att'[i].final = att[i].final /\ att'[i].status = "unknown"
  BY <1>1, <1>2, UnknownCall
<1>4. CallsFrame(c)
  BY <1>2, <1>3 DEF CallsFrame
<1>5. JobGoes(c, "end")
  BY <1>1, EndJob DEF Errors
<1>6. run \in [Runs -> Statuses] /\ c \in Runs
  BY TypeParts
<1>7. run' \in [Runs -> Statuses] /\ run'[c] = "unknown" /\ \A r \in Runs : r # c => run'[r] = run[r]
  BY <1>1, <1>6 DEF Statuses
<1>8. /\ kid' \in [Child -> Kids] /\ \A d \in Child : d # c => kid'[d] = kid[d]
      /\ kid'[c].retired = kid[c].retired /\ kid'[c].deps = kid[c].deps
      /\ kid'[c].spec = kid[c].spec /\ kid'[c].control = kid[c].control
  BY <1>1, SameKids
<1>9. rec' \in Records /\ SameBooks /\ SamePlan /\ rec'.control = rec.control
  BY <1>1, SameRecord
<1>10. exec' \in Executions /\ Goes(exec.pc)
  BY <1>1, SameExec
<1>11. ChildFrame(c)
  BY <1>1, <1>3, <1>5, <1>7, <1>8, <1>9, <1>10 DEF ChildFrame, JobGoes, Goes, SameBooks
<1>. QED BY <1>1, <1>2, <1>3, <1>4, <1>5, <1>7, <1>11 DEF i

LEMMA DeactivateEffect ==
  ASSUME Types, NEW c \in Child, Deactivate(c)
  PROVE  /\ ChildFrame(c) /\ CallsFrame(c) /\ att' = att /\ run' = run /\ kid' = kid /\ SameBooks
         /\ \/ rec'.active = rec.active \ {c}
            \/ rec'.active = rec.active /\ stuck' = stuck \cup {c}
         /\ job[c].pc = "end" /\ job'[c].pc = "off" /\ \A d \in Child : d # c => job'[d] = job[d]
<1>. DEFINE e == exec.err \cup job[c].err
<1>1. /\ job[c].pc = "end" /\ job' = [job EXCEPT ![c] = Off]
      /\ exec' = [exec EXCEPT !.err = e] \/ exec' = [exec EXCEPT !.err = e \cup {"error"}]
      /\ kid' = kid /\ att' = att /\ run' = run /\ ctl' = ctl /\ (events' = events \/ Event)
  BY DEF Deactivate
<1>11. \/ rec' = [rec EXCEPT !.active = @ \ {c}] /\ stuck' = stuck
       \/ rec' = rec /\ stuck' = stuck \cup {c}
  BY DEF Deactivate
<1>2. /\ rec \in Records /\ exec \in Executions /\ job \in [Child -> Jobs] /\ job[c] \in Jobs
      /\ run \in [Runs -> Statuses]
  BY TypeParts
<1>3. Off \in Jobs /\ Off.pc = "off"
  BY DEF Off, Jobs, Errors
<1>4. job' \in [Child -> Jobs] /\ job'[c].pc = "off" /\ \A d \in Child : d # c => job'[d] = job[d]
  BY <1>1, <1>2, <1>3
<1>5. exec' \in Executions /\ Goes(exec.pc)
  <2>1. e \in SUBSET Errors /\ e \cup {"error"} \in SUBSET Errors
    BY <1>2 DEF Executions, Jobs, Errors
  <2>2. ASSUME NEW s \in SUBSET Errors, exec' = [exec EXCEPT !.err = s]
        PROVE  exec' \in Executions /\ Goes(exec.pc)
    BY <1>2, <2>2 DEF Goes, Executions
  <2>. HIDE DEF e
  <2>. QED BY <1>1, <2>1, <2>2
<1>6. rec' \in Records /\ SameBooks /\ SamePlan /\ rec'.control = rec.control
      /\ \/ rec'.active = rec.active \ {c} /\ stuck' = stuck
         \/ rec'.active = rec.active /\ stuck' = stuck \cup {c}
  <2>1. CASE rec' = [rec EXCEPT !.active = @ \ {c}] /\ stuck' = stuck
    <3>. DEFINE S == rec.active \ {c}
    <3>1. S \in SUBSET Child
      BY <1>2 DEF Records
    <3>2. rec' = [rec EXCEPT !.active = S]
      BY <2>1
    <3>. HIDE DEF S
    <3>3. rec' \in Records /\ SameBooks /\ SamePlan /\ rec'.control = rec.control /\ rec'.active = S
      BY <3>1, <3>2, ActiveRecord
    <3>. QED BY <2>1, <3>3 DEF S
  <2>2. CASE rec' = rec /\ stuck' = stuck \cup {c}
    BY <1>2, <2>2 DEF SameBooks, SamePlan
  <2>. QED BY <1>11, <2>1, <2>2
<1>7. CallsFrame(c) /\ att' \in Seq(Calls)
  BY <1>1, SameCalls
<1>8. /\ kid' \in [Child -> Kids] /\ \A d \in Child : d # c => kid'[d] = kid[d]
      /\ kid'[c].retired = kid[c].retired /\ kid'[c].deps = kid[c].deps
      /\ kid'[c].spec = kid[c].spec /\ kid'[c].control = kid[c].control
  BY <1>1, SameKids
<1>9. ChildFrame(c)
  BY <1>1, <1>2, <1>4, <1>5, <1>6, <1>7, <1>8 DEF ChildFrame, Goes, SameBooks
<1>. QED BY <1>1, <1>4, <1>6, <1>7, <1>9

\* All that the invariants about the parent need to know of a step of a goroutine.
ChildMoves(c) ==
  /\ ChildFrame(c)
  /\ job[c].pc # "off" /\ run'[c] # "none" /\ (Done(c) => run'[c] = "completed")
  /\ rec'.active \subseteq rec.active
  /\ Len(att') >= Len(att) /\ DOMAIN att \subseteq DOMAIN att'
  /\ \A i \in DOMAIN att :
       /\ att[i].run # c => att'[i] = att[i]
       /\ att'[i].run = att[i].run /\ att'[i].spec = att[i].spec
       /\ att'[i].purpose = att[i].purpose
       /\ att'[i].status = "dispatched" => att[i].status = "dispatched"
  /\ \A i \in DOMAIN att' \ DOMAIN att :
       /\ att'[i].run = c /\ att'[i].spec = job[c].spec
       /\ att'[i].purpose \notin {"replanning", "synthesis"}

LEMMA MovesAlone ==
  ASSUME Types, NEW c \in Child, ChildFrame(c), att' = att, job[c].pc # "off",
         run'[c] # "none", Done(c) => run'[c] = "completed", rec'.active \subseteq rec.active
  PROVE  ChildMoves(c)
<1>1. Len(att') >= Len(att) /\ DOMAIN att' = DOMAIN att
  BY TypeParts
<1>. QED BY <1>1 DEF ChildMoves

LEMMA MovesSettling ==
  ASSUME Types, NEW c \in Child, ChildFrame(c), NEW i, NEW next, Settles(c, i, next),
         job[c].pc # "off",
         run'[c] # "none", Done(c) => run'[c] = "completed", rec'.active \subseteq rec.active
  PROVE  ChildMoves(c)
<1>1. CallsFrame(c) /\ \A j \in DOMAIN att : j # i => att'[j] = att[j]
  BY SettlesFrame
<1>2. Len(att') >= Len(att) /\ DOMAIN att' = DOMAIN att
  BY <1>1, TypeParts DEF CallsFrame
<1>3. att[i].status = "dispatched"
  BY DEF Settles
<1>. QED BY <1>1, <1>2, <1>3 DEF ChildMoves, CallsFrame

LEMMA StepMoves ==
  ASSUME Types, BudgetAssumption, ChildFlights, Placed, NEW c \in Child, ChildStep(c)
  PROVE  ChildMoves(c)
<1>. USE DEF Done
<1>0. /\ job[c].pc # "off" => run[c] # "none"
      /\ job[c].pc \in {"model", "tool", "call", "settle"} => run[c] = "running"
  BY DEF Placed
<1>1. CASE Deliver(c)
  <2>1. /\ ChildFrame(c) /\ att' = att /\ rec' = rec /\ run' = run /\ job[c].pc = "deliver"
    BY <1>1, DeliverEffect
  <2>. QED BY <1>0, <2>1, MovesAlone
<1>2. CASE ChildContinue(c)
  <2>1. /\ ChildFrame(c) /\ att' = att /\ rec' = rec /\ job[c].pc = "continue"
        /\ \/ run'[c] = "running" /\ run[c] \notin {"completed", "failed", "abandoned"}
           \/ run' = run
    BY <1>2, ContinueEffect
  <2>. QED BY <1>0, <2>1, MovesAlone
<1>3. CASE Stop(c) \/ AwaitApproval(c)
  <2>1. /\ ChildFrame(c) /\ att' = att /\ rec' = rec /\ job[c].pc \in {"model", "tool"}
        /\ run'[c] \in {"limited", "stopped", "waiting_confirmation"}
    BY <1>3, StopEffect
  <2>. QED BY <1>0, <2>1, MovesAlone
<1>4. CASE AnswerUndispatched(c)
  <2>1. /\ ChildFrame(c) /\ att' = att /\ rec' = rec /\ run' = run /\ job[c].pc = "tool"
    BY <1>4, AnswerEffect
  <2>. QED BY <1>0, <2>1, MovesAlone
<1>5. CASE Dispatch(c)
  <2>1. /\ ChildFrame(c) /\ run' = run /\ rec'.active = rec.active /\ job[c].pc \in Kinds
        /\ Len(att') = Len(att) + 1 /\ DOMAIN att' = DOMAIN att \cup {Len(att) + 1}
        /\ \A i \in DOMAIN att : att'[i] = att[i]
        /\ LET a == att'[Len(att) + 1]
           IN a.run = c /\ a.spec = job[c].spec /\ a.status = "dispatched"
              /\ a.purpose \notin {"replanning", "synthesis"}
    BY <1>5, DispatchEffect
  <2>2. Len(att) \in Nat
    BY TypeParts
  <2>. QED BY <1>0, <2>1, <2>2 DEF ChildMoves, Kinds
<1>6. CASE Observe(c)
  <2>1. /\ ChildFrame(c) /\ run' = run /\ rec'.active = rec.active /\ job[c].pc = "call"
        /\ \E i, next : Settles(c, i, next)
    BY <1>6, ObserveEffect
  <2>. QED BY <1>0, <2>1, MovesSettling
<1>7. CASE Finish(c)
  <2>1. /\ ChildFrame(c) /\ rec'.active = rec.active /\ job[c].pc = "settle"
        /\ run'[c] \in {"limited", "completed", run[c]}
        /\ \E i, next : Settles(c, i, next)
    BY <1>7, FinishEffect
  <2>. QED BY <1>0, <2>1, MovesSettling
<1>8. CASE Fail(c)
  <2>1. /\ ChildFrame(c) /\ rec'.active = rec.active /\ job[c].pc = "settle" /\ run'[c] = "failed"
        /\ \E i, next : Settles(c, i, next)
    BY <1>8, FailEffect
  <2>. QED BY <1>0, <2>1, MovesSettling
<1>9. CASE Lose(c)
  <2>1. /\ ChildFrame(c) /\ CallsFrame(c) /\ rec' = rec /\ job[c].pc = "settle"
        /\ run'[c] = "unknown" /\ att'[Flight(c)].status = "unknown"
        /\ \A j \in DOMAIN att : j # Flight(c) => att'[j] = att[j]
    BY <1>9, LoseEffect
  <2>2. Len(att) \in Nat
    BY TypeParts
  <2>. QED BY <1>0, <2>1, <2>2 DEF ChildMoves, CallsFrame
<1>10. CASE Deactivate(c)
  <2>1. /\ ChildFrame(c) /\ att' = att /\ rec'.active \subseteq rec.active /\ run' = run
        /\ job[c].pc = "end"
    BY <1>10, DeactivateEffect
  <2>. QED BY <1>0, <2>1, MovesAlone
<1>. QED BY <1>1, <1>2, <1>3, <1>4, <1>5, <1>6, <1>7, <1>8, <1>9, <1>10 DEF ChildStep

LEMMA ChildTypes ==
  ASSUME Types, NEW c \in Child, ChildMoves(c)
  PROVE  Types'
<1>1. events' \in 0 .. MaxEvents
  BY BudgetAssumption DEF Types, ChildMoves, ChildFrame, Event
<1>. QED BY <1>1 DEF Types, ChildMoves, ChildFrame

\* A step of a goroutine happens during a batch: the parent and the end of the
\* collaboration are not concerned.
LEMMA ChildKeepsParent ==
  ASSUME Types, Types', Placed, ParentFlights, NEW c \in Child, ChildMoves(c)
  PROVE  ParentFlights'
<1>1. /\ exec.pc = "batch" /\ exec'.pc = "batch" /\ exec'.who = exec.who
      /\ run'[Parent] = run[Parent] /\ Parent # c
  BY TypeParts DEF Placed, ChildMoves, ChildFrame
<1>2. \A i \in DOMAIN att' : att'[i].run = Parent => i \in DOMAIN att /\ att'[i] = att[i]
  BY <1>1 DEF ChildMoves
<1>. QED BY <1>1, <1>2 DEF ParentFlights, Certain, Resolved

LEMMA ChildKeepsEnding ==
  ASSUME Types, Types', Placed, Ending, NEW c \in Child, ChildMoves(c)
  PROVE  Ending'
<1>1. /\ exec.pc = "batch" /\ exec'.pc = "batch" /\ exec'.rev = exec.rev
      /\ run'[Parent] = run[Parent] /\ Parent # c /\ SamePlan /\ rec'.control = rec.control
  BY TypeParts DEF Placed, ChildMoves, ChildFrame
<1>2. Revision' = Revision
  BY <1>1 DEF SamePlan, Revision
<1>3. Planned'
  BY <1>1, <1>2 DEF Ending, Planned
<1>4. Synthesised'
  BY <1>1 DEF Ending, Synthesised, ChildMoves, SamePlan
<1>5. run[Parent] # "completed"
  BY <1>1 DEF Ending, Quiet
<1>6. \A i \in DOMAIN att' : ~(att'[i].purpose = "synthesis" /\ att'[i].status = "dispatched")
  BY <1>1 DEF Ending, Quiet, ChildMoves
<1>7. Quiet'
  BY <1>1, <1>5, <1>6 DEF Quiet, Closing
<1>8. SynthesisCurrent'
  <2>1. \A d \in Child :
          run[d] # "none" /\ ~kid[d].retired /\ rec.synth # 0 => run[d] = "completed"
    BY DEF Ending, SynthesisCurrent, Live, Present
  <2>2. \A d \in Child : /\ run'[d] # "none" => run[d] # "none"
                         /\ kid'[d].retired = kid[d].retired
                         /\ run[d] = "completed" => run'[d] = "completed"
    <3>1. TAKE d \in Child
    <3>2. d \in Runs
      BY TypeParts
    <3>3. CASE d = c
      BY <3>3 DEF ChildMoves, ChildFrame, Done, Placed
    <3>4. CASE d # c
      BY <3>2, <3>4 DEF ChildMoves, ChildFrame
    <3>. QED BY <3>3, <3>4
  <2>. QED BY <1>1, <2>1, <2>2 DEF SynthesisCurrent, Live, Present, SamePlan
<1>9. ControlWins' /\ DraftWhole'
  BY <1>1, <1>5 DEF ControlWins, DraftWhole
<1>. QED BY <1>3, <1>4, <1>7, <1>8, <1>9 DEF Ending

\* Everything that was complete still is, and the places of the others are as before.
LEMMA ChildKeepsOthers ==
  ASSUME Types, Placed, NEW c \in Child, ChildMoves(c)
  PROVE  /\ \A d \in Child : Done(d) => run'[d] = "completed"
         /\ \A d \in Child : d # c /\ job'[d].pc # "off" =>
              /\ d \in rec.active /\ exec'.pc = "batch"
              /\ run'[d] # "none" /\ ~kid'[d].retired /\ job'[d].spec = kid'[d].spec
              /\ \A e \in kid'[d].deps : run'[e] = "completed"
              /\ job'[d].pc \in {"model", "tool", "call", "settle"} => run'[d] = "running"
              /\ job'[d].pc = "tool" => kid'[d].steps > 0
         /\ c \in rec.active /\ exec'.pc = "batch" /\ run'[c] # "none" /\ ~kid'[c].retired
         /\ job[c].spec = kid'[c].spec /\ \A e \in kid'[c].deps : run'[e] = "completed"
         /\ \A d \in Child : kid[d].deps \in SUBSET Child
<1>1. \A d \in Child : Done(d) => run'[d] = "completed"
  <2>1. TAKE d \in Child
  <2>2. d \in Runs
    BY TypeParts
  <2>. QED BY <2>2 DEF ChildMoves, ChildFrame, Done
<1>2. \A d \in Child : kid[d].deps \in SUBSET Child
  BY TypeParts DEF Kids
<1>3. ASSUME NEW d \in Child, d # c, job'[d].pc # "off"
      PROVE  /\ d \in rec.active /\ exec'.pc = "batch"
             /\ run'[d] # "none" /\ ~kid'[d].retired /\ job'[d].spec = kid'[d].spec
             /\ \A e \in kid'[d].deps : run'[e] = "completed"
             /\ job'[d].pc \in {"model", "tool", "call", "settle"} => run'[d] = "running"
             /\ job'[d].pc = "tool" => kid'[d].steps > 0
  <2>1. d \in Runs
    BY TypeParts
  <2>2. run'[d] = run[d] /\ job'[d] = job[d] /\ kid'[d] = kid[d] /\ exec'.pc = exec.pc
    BY <1>3, <2>1 DEF ChildMoves, ChildFrame
  <2>. QED BY <1>1, <1>2, <1>3, <2>2 DEF Placed
<1>4. /\ c \in rec.active /\ exec'.pc = "batch" /\ run'[c] # "none" /\ ~kid'[c].retired
      /\ job[c].spec = kid'[c].spec /\ \A e \in kid'[c].deps : run'[e] = "completed"
  BY <1>1, <1>2 DEF ChildMoves, ChildFrame, Placed
<1>. QED BY <1>1, <1>2, <1>3, <1>4

\* What a step of a goroutine makes of its place.
LEMMA ChildPlaced ==
  ASSUME Types, Placed, Begun, ActiveIsRunning, NEW c \in Child, ChildMoves(c),
         \/ rec'.active = rec.active /\ job'[c].spec = job[c].spec /\ job'[c].pc # "off"
         \/ rec'.active = rec.active \ {c} /\ job'[c].pc = "off"
         \/ rec'.active = rec.active /\ stuck' = stuck \cup {c} /\ job'[c].pc = "off",
         job'[c].pc \in {"model", "tool", "call", "settle"} => run'[c] = "running",
         job'[c].pc = "tool" => kid'[c].steps > 0
  PROVE  Placed' /\ ActiveIsRunning'
<1>1. Placed'
  <2>. SUFFICES ASSUME NEW d \in Child, job'[d].pc # "off"
                PROVE  /\ d \in rec'.active /\ exec'.pc = "batch"
                       /\ run'[d] # "none" /\ ~kid'[d].retired /\ job'[d].spec = kid'[d].spec
                       /\ \A e \in kid'[d].deps : run'[e] = "completed"
                       /\ job'[d].pc \in {"model", "tool", "call", "settle"} => run'[d] = "running"
                       /\ job'[d].pc = "tool" => kid'[d].steps > 0
    BY DEF Placed, Done
  <2>1. CASE d # c
    BY <2>1, ChildKeepsOthers
  <2>2. CASE d = c
    BY <2>2, ChildKeepsOthers
  <2>. QED BY <2>1, <2>2
<1>2. ActiveIsRunning'
  <2>1. \A d \in rec'.active : d \in rec.active
    BY DEF ChildMoves
  <2>2. \A d \in rec.active : d \in Child
    BY TypeParts DEF Records
  <2>3. /\ \A d \in Child : d # c => job'[d] = job[d]
        /\ \/ stuck' = stuck
           \/ stuck' = stuck \cup {c} /\ rec'.active = rec.active /\ job'[c].pc = "off"
        /\ c \in rec.active /\ job[c].pc # "off"
    BY DEF ChildMoves, ChildFrame, Placed
  <2>4. stuck \subseteq rec.active /\ \A d \in rec.active : d \in stuck <=> job[d].pc = "off"
    BY DEF ActiveIsRunning
  <2>5. stuck' \subseteq rec'.active
    BY <2>3, <2>4
  <2>6. ASSUME NEW d \in rec'.active PROVE d \in stuck' <=> job'[d].pc = "off"
    <3>1. CASE d # c
      BY <2>1, <2>2, <2>3, <2>4, <3>1
    <3>2. CASE d = c
      BY <2>3, <2>4, <3>2
    <3>. QED BY <3>1, <3>2
  <2>. QED BY <2>5, <2>6 DEF ActiveIsRunning
<1>. QED BY <1>1, <1>2

\* ... of the work of the child, given the calls it has made.
LEMMA ChildBegun ==
  ASSUME Types, Placed, Begun, DependenciesFirst, DispatchedAsPlanned, WaitsLive,
         NEW c \in Child, ChildMoves(c),
         kid'[c].steps >= kid[c].steps,
         run'[c] \in {"completed", "waiting_confirmation"} \/ kid'[c].pending => kid'[c].steps > 0,
         DOMAIN att' = DOMAIN att \/ kid'[c].steps > 0
  PROVE  Begun' /\ DependenciesFirst' /\ DispatchedAsPlanned' /\ WaitsLive'
<1>0. /\ run[c] # "none" /\ \A d \in Child : d \in Runs /\ kid[d].steps \in Nat
      /\ \A e \in kid'[c].deps : run'[e] = "completed" /\ kid'[c].steps \in Nat
  BY TypeParts, ChildKeepsOthers, ZenonT(60) DEF Placed, ChildMoves, Kids, ChildFrame
<1>1. \A d \in Child : d # c => run'[d] = run[d] /\ kid'[d] = kid[d]
  BY <1>0 DEF ChildMoves, ChildFrame
<1>2. Begun'
  <2>. SUFFICES ASSUME NEW d \in Child
                PROVE  /\ run'[d] \in {"completed", "waiting_confirmation"} \/ kid'[d].pending
                            => kid'[d].steps > 0
                       /\ run'[d] = "none" => kid'[d].steps = 0
                       /\ \A i \in DOMAIN att' : att'[i].run = d => kid'[d].steps > 0
    BY DEF Begun
  <2>1. CASE d # c
    <3>1. \A i \in DOMAIN att' : att'[i].run = d => i \in DOMAIN att /\ att[i].run = d
      BY <2>1 DEF ChildMoves
    <3>. QED BY <1>1, <2>1, <3>1 DEF Begun
  <2>2. CASE d = c
    <3>1. \A i \in DOMAIN att : att'[i].run = c => kid'[c].steps > 0
      <4>1. kid[c].steps \in Nat /\ kid'[c].steps \in Nat
        BY TypeParts DEF Kids, ChildMoves, ChildFrame
      <4>. QED BY <4>1 DEF ChildMoves, Begun
    <3>. QED BY <2>2, <3>1 DEF ChildMoves
  <2>. QED BY <2>1, <2>2
<1>3. DependenciesFirst'
  <2>1. \A d \in Child : d # c /\ run'[d] # "none" /\ kid'[d].steps > 0 =>
          \A e \in kid'[d].deps : run'[e] = "completed"
    BY <1>1, ChildKeepsOthers DEF DependenciesFirst, Present, Done
  <2>. QED BY <2>1, ChildKeepsOthers DEF DependenciesFirst, Present
<1>4. DispatchedAsPlanned'
  <2>. SUFFICES ASSUME NEW i \in DOMAIN att', att'[i].run # Parent
                PROVE  att'[i].spec = kid'[att'[i].run].spec
    BY DEF DispatchedAsPlanned
  <2>1. CASE i \notin DOMAIN att
    BY <2>1, ChildKeepsOthers DEF ChildMoves
  <2>2. CASE i \in DOMAIN att
    <3>1. att[i].run \in Child /\ att'[i].run = att[i].run /\ att'[i].spec = att[i].spec
      <4>1. att[i].run \in Runs
        BY <2>2, TypeParts DEF Calls
      <4>. QED BY <2>2, <4>1 DEF ChildMoves, Runs
    <3>2. kid'[att[i].run].spec = kid[att[i].run].spec
      BY <1>1, <3>1 DEF ChildMoves, ChildFrame
    <3>. QED BY <2>2, <3>1, <3>2 DEF DispatchedAsPlanned
  <2>. QED BY <2>1, <2>2
<1>5. WaitsLive'
  <2>1. ~kid'[c].retired
    BY ChildKeepsOthers
  <2>. QED BY <1>1, <2>1 DEF WaitsLive
<1>. QED BY <1>2, <1>3, <1>4, <1>5

\* A goroutine about to call has no uncertain call; one that waits has only that one.
LEMMA ChildCertain ==
  ASSUME Types, Placed, ChildFlights, OneFlight, NEW c \in Child
  PROVE  /\ job[c].pc \in {"model", "tool"} => Certain(c)
         /\ job[c].pc \in {"call", "settle"} =>
              \A i, j \in DOMAIN att :
                att[i].run = c /\ att[i].status = "dispatched" /\ att[j].run = c
                  /\ att[j].status \in Waits => i = j
<1>1. job[c].pc \in {"model", "tool", "call", "settle"} => run[c] = "running"
  BY DEF Placed
<1>2. \A i \in DOMAIN att : att[i].run = c /\ att[i].status \in Waits =>
        \/ run[c] \in {"unknown", "abandoned"}
        \/ att[i].status = "dispatched" /\ job[c].pc \in {"call", "settle"}
  BY DEF ChildFlights
<1>3. job[c].pc \in {"model", "tool"} => Certain(c)
  BY <1>1, <1>2 DEF Certain
<1>. QED BY <1>1, <1>2, <1>3 DEF OneFlight

\* The flights after a step of c, from those of c alone.
LEMMA ChildFlightsKept ==
  ASSUME Types, ChildFlights, OneFlight, NEW c \in Child, ChildMoves(c),
         \A i \in DOMAIN att' : att'[i].run = c /\ att'[i].status \in Waits =>
           \/ run'[c] \in {"unknown", "abandoned"} /\ ~kid'[c].retired
           \/ att'[i].status = "dispatched" /\ job'[c].pc \in {"call", "settle"},
         job'[c].pc \in {"call", "settle"} =>
           \E i \in DOMAIN att' : att'[i].run = c /\ att'[i].status = "dispatched",
         DOMAIN att' = DOMAIN att \/ (Certain(c) /\ DOMAIN att' = DOMAIN att \cup {Len(att) + 1})
  PROVE  ChildFlights' /\ OneFlight'
<1>1. ChildFlights'
  <2>. SUFFICES ASSUME NEW d \in Child
                PROVE
                  /\ \A i \in DOMAIN att' : att'[i].run = d /\ att'[i].status \in Waits =>
                       \/ run'[d] \in {"unknown", "abandoned"} /\ ~kid'[d].retired
                       \/ att'[i].status = "dispatched" /\ job'[d].pc \in {"call", "settle"}
                  /\ job'[d].pc \in {"call", "settle"} =>
                       \E i \in DOMAIN att' : att'[i].run = d /\ att'[i].status = "dispatched"
    BY DEF ChildFlights
  <2>1. CASE d = c
    BY <2>1
  <2>2. CASE d # c
    <3>1. d \in Runs
      BY TypeParts
    <3>2. run'[d] = run[d] /\ kid'[d] = kid[d] /\ job'[d] = job[d]
      BY <2>2, <3>1 DEF ChildMoves, ChildFrame
    <3>3. \A i \in DOMAIN att' : att'[i].run = d => i \in DOMAIN att /\ att'[i] = att[i]
      BY <2>2 DEF ChildMoves
    <3>4. \A i \in DOMAIN att : att[i].run = d => i \in DOMAIN att' /\ att'[i] = att[i]
      BY <2>2 DEF ChildMoves
    <3>5. \A i \in DOMAIN att' : att'[i].run = d /\ att'[i].status \in Waits =>
                       \/ run'[d] \in {"unknown", "abandoned"} /\ ~kid'[d].retired
                       \/ att'[i].status = "dispatched" /\ job'[d].pc \in {"call", "settle"}
      BY <3>2, <3>3 DEF ChildFlights
    <3>6. ASSUME job'[d].pc \in {"call", "settle"}
          PROVE  \E i \in DOMAIN att' : att'[i].run = d /\ att'[i].status = "dispatched"
      <4>1. PICK i \in DOMAIN att : att[i].run = d /\ att[i].status = "dispatched"
        BY <3>2, <3>6 DEF ChildFlights
      <4>. QED BY <3>4, <4>1
    <3>. QED BY <3>5, <3>6
  <2>. QED BY <2>1, <2>2
<1>2. OneFlight'
  <2>. SUFFICES ASSUME NEW i \in DOMAIN att', NEW j \in DOMAIN att', att'[i].run = att'[j].run,
                       att'[i].status = "dispatched", att'[j].status = "dispatched"
                PROVE  i = j
    BY DEF OneFlight
  <2>1. CASE i \in DOMAIN att /\ j \in DOMAIN att
    BY <2>1 DEF ChildMoves, OneFlight
  <2>2. CASE i \notin DOMAIN att \/ j \notin DOMAIN att
    <3>1. Certain(c) /\ DOMAIN att' = DOMAIN att \cup {Len(att) + 1}
      BY <2>2
    <3>2. att'[i].run = c /\ att'[j].run = c
      BY <2>2 DEF ChildMoves
    <3>3. i \notin DOMAIN att /\ j \notin DOMAIN att
      BY <3>1, <3>2 DEF Certain, ChildMoves, Waits
    <3>. QED BY <3>1, <3>3
  <2>. QED BY <2>1, <2>2
<1>. QED BY <1>1, <1>2

\* A step that leaves the calls alone and does not wait for one.
LEMMA AloneFlights ==
  ASSUME Types, Placed, ChildFlights, OneFlight, NEW c \in Child, ChildMoves(c), att' = att,
         job'[c].pc \notin {"call", "settle"},
         Certain(c) \/ (run' = run /\ job[c].pc \notin {"call", "settle"})
  PROVE  ChildFlights' /\ OneFlight'
<1>1. kid'[c].retired = kid[c].retired
  BY DEF ChildMoves, ChildFrame
<1>2. \A i \in DOMAIN att' : att'[i].run = c /\ att'[i].status \in Waits =>
           \/ run'[c] \in {"unknown", "abandoned"} /\ ~kid'[c].retired
           \/ att'[i].status = "dispatched" /\ job'[c].pc \in {"call", "settle"}
  <2>1. CASE Certain(c)
    BY <2>1 DEF Certain
  <2>2. CASE run' = run /\ job[c].pc \notin {"call", "settle"}
    BY <1>1, <2>2 DEF ChildFlights
  <2>. QED BY <2>1, <2>2
<1>3. DOMAIN att' = DOMAIN att
  OBVIOUS
<1>. QED BY <1>2, <1>3, ChildFlightsKept

\* The call in flight is settled, or only observed.
LEMMA SettlingFlights ==
  ASSUME Types, Placed, ChildFlights, OneFlight, NEW c \in Child, ChildMoves(c),
         job[c].pc \in {"call", "settle"}, NEW i, NEW next, Settles(c, i, next),
         \/ next.status \notin Waits /\ job'[c].pc \notin {"call", "settle"}
         \/ next.status = "dispatched" /\ job'[c].pc = "settle"
  PROVE  ChildFlights' /\ OneFlight'
<1>1. /\ CallsFrame(c) /\ att'[i] = next /\ \A j \in DOMAIN att : j # i => att'[j] = att[j]
  BY SettlesFrame
<1>2. i \in DOMAIN att /\ att[i].run = c /\ att[i].status = "dispatched" /\ next.run = c
  BY DEF Settles
<1>3. DOMAIN att' = DOMAIN att
  BY <1>1 DEF CallsFrame
<1>4. \A j \in DOMAIN att : att[j].run = c /\ att[j].status \in Waits => j = i
  BY <1>2, ChildCertain
<1>5. \A j \in DOMAIN att' : att'[j].run = c /\ att'[j].status \in Waits => j = i
  BY <1>1, <1>3, <1>4
<1>6. \A j \in DOMAIN att' : att'[j].run = c /\ att'[j].status \in Waits =>
           \/ run'[c] \in {"unknown", "abandoned"} /\ ~kid'[c].retired
           \/ att'[j].status = "dispatched" /\ job'[c].pc \in {"call", "settle"}
  BY <1>1, <1>5 DEF Waits
<1>7. job'[c].pc \in {"call", "settle"} =>
           \E j \in DOMAIN att' : att'[j].run = c /\ att'[j].status = "dispatched"
  BY <1>1, <1>2, <1>3 DEF Waits
<1>. QED BY <1>3, <1>6, <1>7, ChildFlightsKept

\* The invariants about the work of the children.
Work == Plan /\ WaitsLive /\ ChildFlights /\ OneFlight

LEMMA WorkKept ==
  ASSUME Types, Work, NEW c \in Child, ChildMoves(c),
         \/ rec'.active = rec.active /\ job'[c].spec = job[c].spec /\ job'[c].pc # "off"
         \/ rec'.active = rec.active \ {c} /\ job'[c].pc = "off"
         \/ rec'.active = rec.active /\ stuck' = stuck \cup {c} /\ job'[c].pc = "off",
         job'[c].pc \in {"model", "tool", "call", "settle"} => run'[c] = "running",
         job'[c].pc = "tool" => kid'[c].steps > 0,
         kid'[c].steps >= kid[c].steps,
         run'[c] \in {"completed", "waiting_confirmation"} \/ kid'[c].pending => kid'[c].steps > 0,
         DOMAIN att' = DOMAIN att \/ kid'[c].steps > 0,
         ChildFlights' /\ OneFlight'
  PROVE  Work'
<1>1. Placed' /\ ActiveIsRunning'
  BY ChildPlaced DEF Work, Plan
<1>2. Begun' /\ DependenciesFirst' /\ DispatchedAsPlanned' /\ WaitsLive'
  BY ChildBegun DEF Work, Plan
<1>. QED BY <1>1, <1>2 DEF Work, Plan

LEMMA ChildWork ==
  ASSUME Types, BudgetAssumption, Work, NEW c \in Child, ChildStep(c)
  PROVE  Work'
<1>0. /\ Placed /\ Begun /\ ChildFlights /\ OneFlight /\ ChildMoves(c)
      /\ kid[c].steps \in Nat /\ run[c] \in Statuses /\ kid[c].pending \in BOOLEAN
  <2>1. Placed /\ Begun /\ ChildFlights /\ OneFlight
    BY DEF Work, Plan
  <2>2. ChildMoves(c)
    BY <2>1, StepMoves
  <2>3. c \in Runs /\ kid[c] \in Kids /\ run \in [Runs -> Statuses]
    BY TypeParts
  <2>. QED BY <2>1, <2>2, <2>3 DEF Kids
<1>1. /\ job[c].pc \in {"model", "tool", "call", "settle"} => run[c] = "running"
      /\ job[c].pc = "tool" => kid[c].steps > 0
      /\ run[c] \in {"completed", "waiting_confirmation"} \/ kid[c].pending => kid[c].steps > 0
      /\ job[c].pc \in {"call", "settle"} => kid[c].steps > 0
  BY <1>0 DEF Placed, Begun, ChildFlights
<1>2. CASE Deliver(c)
  <2>1. /\ att' = att /\ rec' = rec /\ run' = run
        /\ kid'[c].steps = kid[c].steps /\ kid'[c].pending = kid[c].pending
        /\ job[c].pc = "deliver" /\ (JobGoes(c, "continue") \/ JobGoes(c, "end"))
    BY <1>2, DeliverEffect
  <2>2. job'[c].pc \in {"continue", "end"} /\ job'[c].spec = job[c].spec
    BY <2>1 DEF JobGoes
  <2>3. ChildFlights' /\ OneFlight'
    BY <1>0, <2>1, <2>2, AloneFlights
  <2>. QED BY <1>0, <1>1, <2>1, <2>2, <2>3, WorkKept
<1>3. CASE ChildContinue(c)
  <2>1. /\ att' = att /\ rec' = rec /\ kid' = kid /\ job[c].pc = "continue"
        /\ \/ /\ run'[c] = "running" /\ ~Uncertain(c)
              /\ (kid[c].pending /\ JobGoes(c, "tool")) \/ JobGoes(c, "model")
           \/ run' = run /\ JobGoes(c, "end")
    BY <1>3, ContinueEffect
  <2>2. /\ job'[c].pc \in {"model", "tool", "end"} /\ job'[c].spec = job[c].spec
        /\ job'[c].pc = "tool" => kid[c].pending
        /\ job'[c].pc \in {"model", "tool"} => run'[c] = "running"
        /\ run'[c] = "running" \/ run' = run
    BY <2>1 DEF JobGoes
  <2>3. ~Uncertain(c) => Certain(c)
    BY DEF Uncertain, Certain, Waits
  <2>4. ChildFlights' /\ OneFlight'
    BY <1>0, <2>1, <2>2, <2>3, AloneFlights
  <2>. QED BY <1>0, <1>1, <2>1, <2>2, <2>4, WorkKept
<1>4. CASE Stop(c) \/ AwaitApproval(c)
  <2>1. /\ att' = att /\ rec' = rec /\ kid' = kid
        /\ job[c].pc \in {"model", "tool"} /\ JobGoes(c, "end")
        /\ \/ run'[c] \in {"limited", "stopped"}
           \/ run'[c] = "waiting_confirmation" /\ job[c].pc = "tool"
    BY <1>4, StopEffect
  <2>2. job'[c].pc = "end" /\ job'[c].spec = job[c].spec
    BY <2>1 DEF JobGoes
  <2>3. Certain(c)
    BY <1>0, <2>1, ChildCertain
  <2>4. ChildFlights' /\ OneFlight'
    BY <1>0, <2>1, <2>2, <2>3, AloneFlights
  <2>. QED BY <1>0, <1>1, <2>1, <2>2, <2>4, WorkKept
<1>5. CASE AnswerUndispatched(c)
  <2>1. /\ att' = att /\ rec' = rec /\ run' = run
        /\ kid'[c].steps = kid[c].steps /\ ~kid'[c].pending
        /\ job[c].pc = "tool" /\ JobGoes(c, "model")
    BY <1>5, AnswerEffect
  <2>2. job'[c].pc = "model" /\ job'[c].spec = job[c].spec
    BY <2>1 DEF JobGoes
  <2>3. ChildFlights' /\ OneFlight'
    BY <1>0, <2>1, <2>2, AloneFlights
  <2>. QED BY <1>0, <1>1, <2>1, <2>2, <2>3, WorkKept
<1>6. CASE Dispatch(c)
  <2>1. /\ run' = run /\ rec'.active = rec.active /\ job[c].pc \in Kinds
        /\ kid'[c].steps = kid[c].steps + 1 /\ ~kid'[c].pending
        /\ Len(att') = Len(att) + 1 /\ DOMAIN att' = DOMAIN att \cup {Len(att) + 1}
        /\ \A i \in DOMAIN att : att'[i] = att[i]
        /\ att'[Len(att) + 1].run = c /\ att'[Len(att) + 1].status = "dispatched"
        /\ JobGoes(c, "call")
    BY <1>6, DispatchEffect
  <2>2. job'[c].pc = "call" /\ job'[c].spec = job[c].spec
    BY <2>1 DEF JobGoes
  <2>3. Certain(c) /\ run[c] = "running"
    BY <1>0, <1>1, <2>1, ChildCertain DEF Kinds
  <2>4. \A i \in DOMAIN att' : att'[i].run = c /\ att'[i].status \in Waits =>
          att'[i].status = "dispatched" /\ job'[c].pc \in {"call", "settle"}
    BY <2>1, <2>2, <2>3 DEF Certain
  <2>5. \E i \in DOMAIN att' : att'[i].run = c /\ att'[i].status = "dispatched"
    BY <2>1
  <2>6. ChildFlights' /\ OneFlight'
    BY <1>0, <2>1, <2>3, <2>4, <2>5, ChildFlightsKept
  <2>7. kid'[c].steps >= kid[c].steps /\ kid'[c].steps > 0
    BY <1>0, <2>1
  <2>. QED BY <1>0, <2>1, <2>2, <2>3, <2>6, <2>7, WorkKept
<1>7. CASE Observe(c)
  <2>1. /\ run' = run /\ rec'.active = rec.active
        /\ kid'[c].steps = kid[c].steps /\ kid'[c].pending = kid[c].pending
        /\ job[c].pc = "call" /\ JobGoes(c, "settle")
    BY <1>0, <1>7, ObserveEffect
  <2>2. PICK i, next : Settles(c, i, next) /\ next.status = "dispatched"
    BY <1>0, <1>7, ObserveEffect
  <2>3. job'[c].pc = "settle" /\ job'[c].spec = job[c].spec
    BY <2>1 DEF JobGoes
  <2>4. ChildFlights' /\ OneFlight'
    BY <1>0, <2>1, <2>2, <2>3, SettlingFlights
  <2>5. DOMAIN att' = DOMAIN att
    BY <2>2, SettlesFrame DEF CallsFrame
  <2>. QED BY <1>0, <1>1, <2>1, <2>3, <2>4, <2>5, WorkKept
<1>8. CASE Finish(c)
  <2>1. /\ rec'.active = rec.active
        /\ kid'[c].steps = kid[c].steps /\ job[c].pc = "settle"
        /\ \/ run'[c] \in {"limited", "completed"} /\ JobGoes(c, "end")
           \/ run'[c] = run[c] /\ (JobGoes(c, "tool") \/ JobGoes(c, "model"))
    BY <1>0, <1>8, FinishEffect
  <2>2. PICK i, next : Settles(c, i, next) /\ next.status = "finished"
    <3>1. \E refund \in BOOLEAN :
            LET i == Flight(c)
                next == [Billed(att[i], 0, refund) EXCEPT !.status = "finished"]
            IN Settles(c, i, next) /\ next.status = "finished"
      BY <1>0, <1>8, FinishEffect
    <3>. QED BY <3>1
  <2>3. /\ job'[c].pc \in {"end", "tool", "model"} /\ job'[c].spec = job[c].spec
        /\ job'[c].pc \in {"tool", "model"} => run'[c] = run[c]
    BY <2>1 DEF JobGoes
  <2>4. ChildFlights' /\ OneFlight'
    BY <1>0, <2>1, <2>2, <2>3, SettlingFlights DEF Waits
  <2>5. DOMAIN att' = DOMAIN att
    BY <2>2, SettlesFrame DEF CallsFrame
  <2>. QED BY <1>0, <1>1, <2>1, <2>3, <2>4, <2>5, WorkKept
<1>9. CASE Fail(c)
  <2>1. /\ run'[c] = "failed" /\ rec'.active = rec.active
        /\ kid'[c].steps = kid[c].steps /\ kid'[c].pending = kid[c].pending
        /\ job[c].pc = "settle" /\ JobGoes(c, "end")
    BY <1>0, <1>9, FailEffect
  <2>2. PICK i, next : Settles(c, i, next) /\ next.status = "failed"
    BY <1>0, <1>9, FailEffect, ZenonT(60)
  <2>3. job'[c].pc = "end" /\ job'[c].spec = job[c].spec
    BY <2>1 DEF JobGoes
  <2>4. ChildFlights' /\ OneFlight'
    BY <1>0, <2>1, <2>2, <2>3, SettlingFlights DEF Waits
  <2>5. DOMAIN att' = DOMAIN att
    BY <2>2, SettlesFrame DEF CallsFrame
  <2>. QED BY <1>0, <1>1, <2>1, <2>3, <2>4, <2>5, WorkKept
<1>10. CASE Lose(c)
  <2>1. /\ CallsFrame(c) /\ run'[c] = "unknown" /\ rec' = rec /\ kid' = kid
        /\ job[c].pc = "settle" /\ JobGoes(c, "end")
        /\ Flight(c) \in DOMAIN att /\ att[Flight(c)].run = c
        /\ att[Flight(c)].status = "dispatched"
    BY <1>0, <1>10, LoseEffect
  <2>3. job'[c].pc = "end" /\ job'[c].spec = job[c].spec
    BY <2>1 DEF JobGoes
  <2>4. DOMAIN att' = DOMAIN att
    BY <2>1 DEF CallsFrame
  <2>5. ~kid[c].retired
    BY <1>0, <2>1 DEF Placed
  <2>6. ChildFlights' /\ OneFlight'
    BY <1>0, <2>1, <2>3, <2>4, <2>5, ChildFlightsKept
  <2>. QED BY <1>0, <1>1, <2>1, <2>3, <2>4, <2>6, WorkKept
<1>11. CASE Deactivate(c)
  <2>1. /\ att' = att /\ run' = run /\ kid' = kid
        /\ \/ rec'.active = rec.active \ {c}
           \/ rec'.active = rec.active /\ stuck' = stuck \cup {c}
        /\ job[c].pc = "end" /\ job'[c].pc = "off"
    BY <1>11, DeactivateEffect
  <2>2. ChildFlights' /\ OneFlight'
    BY <1>0, <2>1, AloneFlights
  <2>. QED BY <1>0, <1>1, <2>1, <2>2, WorkKept
<1>. QED BY <1>2, <1>3, <1>4, <1>5, <1>6, <1>7, <1>8, <1>9, <1>10, <1>11 DEF ChildStep

-----------------------------------------------------------------------------
(* The limits and the charges.                                                *)

LEMMA BilledCharged ==
  ASSUME NEW a \in Calls, NEW size \in Nat, NEW final \in BOOLEAN, a.bytes >= a.observed
  PROVE  /\ Billed(a, size, final).bytes >= Billed(a, size, final).observed
         /\ ~final => Billed(a, size, final).bytes >= a.bytes /\ ~Billed(a, size, final).final
<1>. DEFINE b == Billed(a, size, final)
<1>1. /\ b.final = final /\ b.observed = (IF size > a.observed THEN size ELSE a.observed)
      /\ b.bytes = (IF final \/ b.observed > a.bytes THEN b.observed ELSE a.bytes)
  BY BilledFields
<1>2. a.bytes \in Nat /\ a.observed \in Nat
  BY DEF Calls
<1>. HIDE DEF b
<1>3. b.bytes >= b.observed /\ (~final => b.bytes >= a.bytes)
  BY <1>1, <1>2
<1>4. ~final => ~b.final
  BY <1>1
<1>. QED BY <1>3, <1>4 DEF b

\* One call is corrected, and is charged as it must be.
LEMMA ChargedSettling ==
  ASSUME Types, UncertainStaysCharged, NEW c, NEW i, NEW next, Settles(c, i, next),
         next.bytes >= next.observed,
         next.status # "finished" => next.bytes >= CallOutput /\ ~next.final
  PROVE  UncertainStaysCharged'
<1>1. /\ CallsFrame(c) /\ att'[i] = next /\ \A j \in DOMAIN att : j # i => att'[j] = att[j]
  BY SettlesFrame
<1>2. DOMAIN att' = DOMAIN att
  BY <1>1 DEF CallsFrame
<1>3. ASSUME NEW j \in DOMAIN att'
      PROVE  /\ att'[j].bytes >= att'[j].observed
             /\ att'[j].status # "finished" => att'[j].bytes >= CallOutput /\ ~att'[j].final
  <2>1. CASE j = i
    BY <1>1, <2>1
  <2>2. CASE j # i
    BY <1>1, <1>2, <2>2 DEF UncertainStaysCharged
  <2>. QED BY <2>1, <2>2
<1>. QED BY <1>3 DEF UncertainStaysCharged

\* ... as it is when it is observed or settled.
LEMMA ChargedBilled ==
  ASSUME Types, BudgetAssumption, UncertainStaysCharged, NEW i \in DOMAIN att, NEW size \in Nat,
         NEW final \in BOOLEAN, att[i].status = "dispatched"
  PROVE  LET b == Billed(att[i], size, final)
         IN b.bytes >= b.observed /\ (~final => b.bytes >= CallOutput /\ ~b.final)
<1>1. att[i] \in Calls
  BY TypeParts
<1>2. att[i].bytes >= att[i].observed /\ att[i].bytes >= CallOutput
  BY DEF UncertainStaysCharged
<1>. DEFINE b == Billed(att[i], size, final)
<1>3. b.bytes >= b.observed /\ (~final => b.bytes >= att[i].bytes /\ ~b.final) /\ b \in Calls
  BY <1>1, <1>2, BilledCharged, BilledCall
<1>4. b.bytes \in Nat /\ att[i].bytes \in Nat /\ CallOutput \in Nat
  BY <1>1, <1>3 DEF Calls, BudgetAssumption
<1>. HIDE DEF b
<1>5. ~final => b.bytes >= CallOutput /\ ~b.final
  BY <1>2, <1>3, <1>4
<1>. QED BY <1>3, <1>5 DEF b

LEMMA ChargedReserve ==
  ASSUME Types, BudgetAssumption, UncertainStaysCharged, NEW r \in Runs, NEW kind \in Kinds,
         NEW purpose \in Purposes, NEW spec \in Nat, Reserve(r, kind, purpose, spec)
  PROVE  UncertainStaysCharged'
<1>1. /\ \A i \in DOMAIN att : att'[i] = att[i]
      /\ att'[Len(att) + 1] = NewAttempt(r, kind, purpose, spec)
      /\ DOMAIN att' = DOMAIN att \cup {Len(att) + 1}
  BY ReserveAttempt
<1>2. /\ NewAttempt(r, kind, purpose, spec).bytes = CallOutput
      /\ NewAttempt(r, kind, purpose, spec).observed = 0
      /\ ~NewAttempt(r, kind, purpose, spec).final
  BY DEF NewAttempt
<1>3. CallOutput >= 0 /\ CallOutput >= CallOutput
  BY DEF BudgetAssumption
<1>4. ASSUME NEW j \in DOMAIN att'
      PROVE  /\ att'[j].bytes >= att'[j].observed
             /\ att'[j].status # "finished" => att'[j].bytes >= CallOutput /\ ~att'[j].final
  <2>1. CASE j \in DOMAIN att
    BY <1>1, <2>1 DEF UncertainStaysCharged
  <2>2. CASE j = Len(att) + 1
    BY <1>1, <1>2, <1>3, <2>2
  <2>. QED BY <1>1, <2>1, <2>2
<1>. QED BY <1>4 DEF UncertainStaysCharged

\* A lost call keeps its charge.
LEMMA ChargedLosing ==
  ASSUME Types, UncertainStaysCharged, NEW i \in DOMAIN att, att[i].status = "dispatched",
         att' = [att EXCEPT ![i].status = "unknown"]
  PROVE  UncertainStaysCharged'
<1>1. /\ DOMAIN att' = DOMAIN att /\ \A j \in DOMAIN att : j # i => att'[j] = att[j]
      /\ att'[i].bytes = att[i].bytes /\ att'[i].observed = att[i].observed
      /\ att'[i].final = att[i].final
  BY UnknownCall
<1>2. ASSUME NEW j \in DOMAIN att'
      PROVE  /\ att'[j].bytes >= att'[j].observed
             /\ att'[j].status # "finished" => att'[j].bytes >= CallOutput /\ ~att'[j].final
  <2>1. CASE j = i
    BY <1>1, <2>1 DEF UncertainStaysCharged
  <2>2. CASE j # i
    BY <1>1, <2>2 DEF UncertainStaysCharged
  <2>. QED BY <2>1, <2>2
<1>. QED BY <1>2 DEF UncertainStaysCharged

LEMMA ChargedSame ==
  ASSUME UncertainStaysCharged, att' = att
  PROVE  UncertainStaysCharged'
BY DEF UncertainStaysCharged

LEMMA ChildCharged ==
  ASSUME Types, BudgetAssumption, ChildFlights, UncertainStaysCharged, NEW c \in Child,
         ChildStep(c)
  PROVE  UncertainStaysCharged'
<1>1. CASE Deliver(c) \/ ChildContinue(c) \/ Stop(c) \/ AwaitApproval(c)
           \/ AnswerUndispatched(c) \/ Deactivate(c)
  <2>1. att' = att
    BY <1>1 DEF Deliver, ChildContinue, Stop, AwaitApproval, AnswerUndispatched, Deactivate
  <2>. QED BY <2>1, ChargedSame
<1>2. CASE Dispatch(c)
  <2>1. Reserve(c, job[c].pc, "", job[c].spec) /\ job[c].pc \in Kinds /\ job[c].spec \in Nat
    BY <1>2, DispatchEffect
  <2>2. c \in Runs /\ "" \in Purposes
    BY TypeParts DEF Purposes
  <2>. QED BY <2>1, <2>2, ChargedReserve
<1>3. CASE Observe(c)
  <2>1. PICK size \in Nat : Settles(c, Flight(c), Billed(att[Flight(c)], size, FALSE))
    BY <1>3, ObserveEffect
  <2>2. Flight(c) \in DOMAIN att /\ att[Flight(c)].status = "dispatched"
    BY <2>1 DEF Settles
  <2>. DEFINE b == Billed(att[Flight(c)], size, FALSE)
  <2>3. FALSE \in BOOLEAN
    OBVIOUS
  <2>4. b.bytes >= b.observed /\ b.bytes >= CallOutput /\ ~b.final
    BY <2>2, <2>3, ChargedBilled
  <2>. QED BY <2>1, <2>4, ChargedSettling
<1>4. CASE Finish(c)
  <2>1. \E refund \in BOOLEAN :
          LET i == Flight(c)
              next == [Billed(att[i], 0, refund) EXCEPT !.status = "finished"]
          IN Settles(c, i, next) /\ next.status = "finished"
    BY <1>4, FinishEffect
  <2>2. PICK refund \in BOOLEAN :
          LET i == Flight(c)
              next == [Billed(att[i], 0, refund) EXCEPT !.status = "finished"]
          IN Settles(c, i, next) /\ next.status = "finished"
    BY <2>1
  <2>. DEFINE i == Flight(c)
              b == Billed(att[i], 0, refund)
              next == [b EXCEPT !.status = "finished"]
  <2>3. i \in DOMAIN att /\ att[i].status = "dispatched" /\ 0 \in Nat
    BY <2>2 DEF Settles
  <2>4. b.bytes >= b.observed /\ b \in Calls
    BY <2>3, ChargedBilled, BilledCall, TypeParts
  <2>5. Settles(c, i, next) /\ next.status = "finished"
    BY <2>2
  <2>. HIDE DEF b
  <2>6. next.bytes = b.bytes /\ next.observed = b.observed
    BY <2>4 DEF Calls
  <2>. HIDE DEF next
  <2>. QED BY <2>4, <2>5, <2>6, ChargedSettling
<1>5. CASE Fail(c)
  <2>. DEFINE i == Flight(c)
              b == Billed(att[i], 0, FALSE)
              next == [b EXCEPT !.status = "failed"]
  <2>1. Settles(c, i, next)
    BY <1>5, FailEffect
  <2>2. i \in DOMAIN att /\ att[i].status = "dispatched" /\ 0 \in Nat /\ FALSE \in BOOLEAN
    BY <2>1 DEF Settles
  <2>3. b.bytes >= b.observed /\ b.bytes >= CallOutput /\ ~b.final
    BY <2>2, ChargedBilled
  <2>4. b \in Calls
    BY <2>2, BilledCall, TypeParts
  <2>. HIDE DEF b
  <2>5. next.bytes = b.bytes /\ next.observed = b.observed /\ next.final = b.final
    BY <2>4 DEF Calls
  <2>. HIDE DEF next
  <2>. QED BY <2>1, <2>3, <2>5, ChargedSettling
<1>6. CASE Lose(c)
  <2>1. Flight(c) \in DOMAIN att /\ att[Flight(c)].status = "dispatched"
        /\ att' = [att EXCEPT ![Flight(c)].status = "unknown"]
    BY <1>6, LoseEffect
  <2>. QED BY <2>1, ChargedLosing
<1>. QED BY <1>1, <1>2, <1>3, <1>4, <1>5, <1>6 DEF ChildStep

\* A call that fits stays within the limits.
LEMMA FitsLimits ==
  ASSUME Types, BudgetAssumption, Bounded, NEW r \in Runs, NEW kind \in Kinds,
         NEW purpose \in Purposes, NEW spec \in Nat, Reserve(r, kind, purpose, spec),
         Fits(r, kind)
  PROVE  rec'.model \in 0 .. MaxModelCalls + rec'.raised /\ rec'.tool \in 0 .. MaxToolCalls
<1>1. /\ rec'.raised = rec.raised
      /\ kind = "model" => rec'.model = rec.model + 1 /\ rec'.tool = rec.tool
      /\ kind = "tool" => rec'.tool = rec.tool + 1 /\ rec'.model = rec.model
  BY ReserveRecord
<1>2. rec.model \in 0 .. MaxModelCalls + rec.raised /\ rec.tool \in 0 .. MaxToolCalls
  BY DEF Bounded
<1>3. rec[kind] < MaxCalls(kind)
  BY DEF Fits
<1>4. rec.raised \in Nat /\ MaxModelCalls \in Nat /\ MaxToolCalls \in Nat
  BY TypeParts DEF Records, BudgetAssumption
<1>5. CASE kind = "model"
  <2>1. rec.model < MaxModelCalls + rec.raised
    BY <1>3, <1>5 DEF MaxCalls
  <2>. QED BY <1>1, <1>2, <1>4, <1>5, <2>1
<1>6. CASE kind = "tool"
  <2>1. rec.tool < MaxToolCalls
    BY <1>3, <1>6 DEF MaxCalls
  <2>. QED BY <1>1, <1>2, <1>4, <1>6, <2>1
<1>. QED BY <1>5, <1>6 DEF Kinds

LEMMA ChildBounded ==
  ASSUME Types, BudgetAssumption, Placed, ChildFlights, Bounded, NEW c \in Child, ChildStep(c)
  PROVE  Bounded'
<1>1. ChildMoves(c)
  BY StepMoves
<1>2. rec'.model \in 0 .. MaxModelCalls + rec'.raised /\ rec'.tool \in 0 .. MaxToolCalls
  <2>1. CASE rec'.model = rec.model /\ rec'.tool = rec.tool
    BY <1>1, <2>1 DEF Bounded, ChildMoves, ChildFrame
  <2>2. CASE Dispatch(c)
    <3>1. /\ Reserve(c, job[c].pc, "", job[c].spec) /\ job[c].pc \in Kinds
          /\ job[c].spec \in Nat /\ Fits(c, job[c].pc)
      BY <2>2, DispatchEffect
    <3>2. c \in Runs /\ "" \in Purposes
      BY TypeParts DEF Purposes
    <3>. QED BY <3>1, <3>2, FitsLimits
  <2>3. CASE \E i, next : Settles(c, i, next)
    <3>1. rec'.model = rec.model /\ rec'.tool = rec.tool
      BY <2>3, CorrectsRecord DEF Settles
    <3>. QED BY <2>1, <3>1
  <2>4. CASE Deliver(c) \/ ChildContinue(c) \/ Stop(c) \/ AwaitApproval(c)
             \/ AnswerUndispatched(c) \/ Lose(c)
    <3>1. rec' = rec
      BY <2>4 DEF Deliver, ChildContinue, Stop, AwaitApproval, AnswerUndispatched, Lose
    <3>. QED BY <2>1, <3>1
  <2>5. CASE Deactivate(c)
    <3>1. SameBooks
      BY <2>5, DeactivateEffect
    <3>. QED BY <2>1, <3>1 DEF SameBooks
  <2>6. CASE Observe(c)
    BY <2>3, <2>6, ObserveEffect
  <2>7. CASE Finish(c)
    <3>1. \E refund \in BOOLEAN :
          LET i == Flight(c)
              next == [Billed(att[i], 0, refund) EXCEPT !.status = "finished"]
          IN Settles(c, i, next)
      BY <2>7, FinishEffect
    <3>. QED BY <2>3, <3>1
  <2>8. CASE Fail(c)
    BY <2>3, <2>8, FailEffect
  <2>. QED BY <2>2, <2>4, <2>5, <2>6, <2>7, <2>8 DEF ChildStep
<1>3. rec'.replans = rec.replans /\ rec'.replan = rec.replan /\ rec'.synth = rec.synth
  BY <1>1 DEF ChildMoves, ChildFrame, SamePlan
<1>4. rec'.replan \in 0 .. Len(att') /\ rec'.synth \in 0 .. Len(att')
  <2>1. rec.replan \in 0 .. Len(att) /\ rec.synth \in 0 .. Len(att)
    BY DEF Bounded
  <2>2. Len(att) \in Nat /\ Len(att') \in Nat /\ Len(att') >= Len(att)
    BY <1>1, TypeParts, LenProperties DEF ChildMoves, ChildFrame
  <2>. QED BY <1>3, <2>1, <2>2
<1>5. exec'.pc \notin {"apply", "draining"}
  BY <1>1 DEF ChildMoves, ChildFrame, Placed
<1>6. \A d \in Child : \A e \in kid'[d].deps : run'[e] # "none"
  <2>1. \A d \in Child : kid'[d].deps = kid[d].deps /\ d \in Runs /\ kid[d].deps \in SUBSET Child
    BY <1>1, TypeParts DEF ChildMoves, ChildFrame, Kids
  <2>2. \A e \in Child : run[e] # "none" => run'[e] # "none"
    BY <1>1, <2>1 DEF ChildMoves, ChildFrame
  <2>. QED BY <2>1, <2>2 DEF Bounded
<1>. QED BY <1>2, <1>3, <1>4, <1>5, <1>6 DEF Bounded

LEMMA ChildKeeps ==
  ASSUME Inv, BudgetAssumption, NEW c \in Child, ChildStep(c)
  PROVE  Inv'
<1>1. /\ Types /\ Bounded /\ UncertainStaysCharged /\ Placed /\ ChildFlights
      /\ ParentFlights /\ Ending /\ Work
  BY DEF Inv, Plan, Work
<1>2. ChildMoves(c)
  BY <1>1, StepMoves
<1>3. Types'
  BY <1>1, <1>2, ChildTypes
<1>4. ParentFlights' /\ Ending'
  BY <1>1, <1>2, <1>3, ChildKeepsParent, ChildKeepsEnding
<1>5. Work'
  BY <1>1, ChildWork
<1>6. UncertainStaysCharged' /\ Bounded'
  BY <1>1, ChildCharged, ChildBounded
<1>. QED BY <1>3, <1>4, <1>5, <1>6 DEF Inv, Work

-----------------------------------------------------------------------------
(* Plan revisions.                                                            *)

\* What was complete was dispatched, and is not edited.
LEMMA EditKeepsDone ==
  ASSUME Types, Begun, NEW c \in Child, EditMade(c)
  PROVE  /\ \A d \in Child : Done(d) => d # c /\ run'[d] = "completed"
         /\ \A d \in Child : run[d] # "none" => run'[d] # "none"
         /\ \A d \in Child : d \in Runs /\ (d # c => run'[d] = run[d] /\ kid'[d] = kid[d])
         /\ run'[Parent] = run[Parent] /\ run[Parent] # "completed"
         /\ run'[c] \notin {"none", "waiting_confirmation"} \/ run'[c] = run[c]
<1>1. Parent \in Runs /\ Parent # c /\ \A d \in Child : d \in Runs
  BY TypeParts
<1>2. run[c] = "completed" => kid[c].steps > 0
  BY DEF Begun
<1>3. run[c] # "completed"
  BY <1>2 DEF EditMade, Adds, Reassigns, Retires
<1>4. \A d \in Child : d # c => run'[d] = run[d] /\ kid'[d] = kid[d]
  BY <1>1 DEF EditMade
<1>5. run'[c] # "none"
  BY DEF EditMade, Adds, Reassigns, Retires
<1>6. run'[c] \notin {"none", "waiting_confirmation"} \/ run'[c] = run[c]
  BY DEF EditMade, Adds, Reassigns, Retires
<1>7. run'[Parent] = run[Parent] /\ run[Parent] # "completed"
  BY <1>1 DEF EditMade, Editable
<1>. QED BY <1>1, <1>3, <1>4, <1>5, <1>6, <1>7 DEF Done

\* An edited child that is not retired never called.
LEMMA EditedUncalled ==
  ASSUME Types, Begun, NEW c \in Child, EditMade(c)
  PROVE  \/ /\ \A i \in DOMAIN att : att[i].run # c
            /\ kid[c].steps = 0 /\ kid'[c].steps = 0
            /\ run'[c] = "stopped" \/ run'[c] = run[c]
            /\ ~kid'[c].pending \/ kid'[c].pending = kid[c].pending
            /\ run'[c] = "waiting_confirmation" => kid'[c].retired = kid[c].retired
         \/ Retires(c)
<1>1. /\ run[c] = "none" => kid[c].steps = 0
      /\ \A i \in DOMAIN att : att[i].run = c => kid[c].steps > 0
  BY DEF Begun
<1>2. CASE Adds(c)
  BY <1>1, <1>2 DEF Adds
<1>3. CASE Reassigns(c)
  BY <1>1, <1>3 DEF Reassigns
<1>. QED BY <1>2, <1>3 DEF EditMade

LEMMA EditWork ==
  ASSUME Types, Work, NEW c \in Child, EditMade(c), att' = att, job' = job, stuck' = stuck,
         exec' = exec \/ exec.pc = "apply"
  PROVE  Work'
<1>0. /\ Placed /\ ActiveIsRunning /\ Begun /\ DependenciesFirst /\ DispatchedAsPlanned
      /\ WaitsLive /\ ChildFlights /\ OneFlight
  BY DEF Work, Plan
<1>1. /\ \A d \in Child : Done(d) => d # c /\ run'[d] = "completed"
      /\ \A d \in Child : run[d] # "none" => run'[d] # "none"
      /\ \A d \in Child : d \in Runs /\ (d # c => run'[d] = run[d] /\ kid'[d] = kid[d])
      /\ rec'.active = rec.active
  BY <1>0, EditKeepsDone DEF EditMade, Revises
<1>2. \/ /\ \A i \in DOMAIN att : att[i].run # c
         /\ kid[c].steps = 0 /\ kid'[c].steps = 0
         /\ run'[c] = "stopped" \/ run'[c] = run[c]
         /\ ~kid'[c].pending \/ kid'[c].pending = kid[c].pending
         /\ run'[c] = "waiting_confirmation" => kid'[c].retired = kid[c].retired
      \/ Retires(c)
  BY <1>0, EditedUncalled
<1>3. \A d \in Child : kid[d].deps \in SUBSET Child
  BY TypeParts DEF Kids
<1>4. Placed'
  <2>. SUFFICES ASSUME NEW d \in Child, job[d].pc # "off"
                PROVE  /\ d \in rec.active /\ exec'.pc = "batch"
                       /\ run'[d] # "none" /\ ~kid'[d].retired /\ job[d].spec = kid'[d].spec
                       /\ \A e \in kid'[d].deps : run'[e] = "completed"
                       /\ job[d].pc \in {"model", "tool", "call", "settle"} => run'[d] = "running"
                       /\ job[d].pc = "tool" => kid'[d].steps > 0
    BY <1>1 DEF Placed, Done
  <2>1. d # c
    BY <1>0 DEF EditMade, Placed, Adds
  <2>2. exec'.pc = "batch"
    BY <1>0 DEF Placed
  <2>. QED BY <1>0, <1>1, <1>3, <2>1, <2>2 DEF Placed
<1>5. ActiveIsRunning'
  BY <1>0, <1>1 DEF ActiveIsRunning
<1>6. Begun'
  <2>. SUFFICES ASSUME NEW d \in Child
                PROVE  /\ run'[d] \in {"completed", "waiting_confirmation"} \/ kid'[d].pending
                            => kid'[d].steps > 0
                       /\ run'[d] = "none" => kid'[d].steps = 0
                       /\ \A i \in DOMAIN att : att[i].run = d => kid'[d].steps > 0
    BY DEF Begun
  <2>1. CASE d # c
    BY <1>0, <1>1, <2>1 DEF Begun
  <2>2. CASE d = c
    BY <1>0, <1>1, <1>2, <2>2 DEF Begun, Retires
  <2>. QED BY <2>1, <2>2
<1>7. DependenciesFirst'
  <2>. SUFFICES ASSUME NEW d \in Child, run'[d] # "none", kid'[d].steps > 0,
                       NEW e \in kid'[d].deps
                PROVE  run'[e] = "completed"
    BY DEF DependenciesFirst, Present
  <2>1. CASE d # c
    BY <1>0, <1>1, <1>3, <2>1 DEF DependenciesFirst, Present, Done
  <2>2. CASE d = c
    BY <1>0, <1>1, <1>2, <1>3, <2>2 DEF DependenciesFirst, Present, Done, Retires
  <2>. QED BY <2>1, <2>2
<1>8. DispatchedAsPlanned'
  <2>. SUFFICES ASSUME NEW i \in DOMAIN att, att[i].run # Parent
                PROVE  att[i].spec = kid'[att[i].run].spec
    BY DEF DispatchedAsPlanned
  <2>1. att[i].run \in Child
    BY TypeParts DEF Calls, Runs
  <2>2. kid'[att[i].run].spec = kid[att[i].run].spec
    BY <1>1, <1>2, <2>1 DEF Retires
  <2>. QED BY <1>0, <2>2 DEF DispatchedAsPlanned
<1>9. WaitsLive'
  <2>. SUFFICES ASSUME NEW d \in Child, run'[d] = "waiting_confirmation"
                PROVE  ~kid'[d].retired
    BY DEF WaitsLive
  <2>1. CASE d # c
    BY <1>0, <1>1, <2>1 DEF WaitsLive
  <2>2. CASE d = c
    BY <1>0, <1>2, <2>2 DEF WaitsLive, Retires
  <2>. QED BY <2>1, <2>2
<1>10. ChildFlights'
  <2>. SUFFICES ASSUME NEW d \in Child
                PROVE
                  /\ \A i \in DOMAIN att : att[i].run = d /\ att[i].status \in Waits =>
                       \/ run'[d] \in {"unknown", "abandoned"} /\ ~kid'[d].retired
                       \/ att[i].status = "dispatched" /\ job[d].pc \in {"call", "settle"}
                  /\ job[d].pc \in {"call", "settle"} =>
                       \E i \in DOMAIN att : att[i].run = d /\ att[i].status = "dispatched"
    BY DEF ChildFlights
  <2>1. CASE d # c
    BY <1>0, <1>1, <2>1 DEF ChildFlights
  <2>2. CASE d = c
    <3>1. \A i \in DOMAIN att : att[i].run = c => att[i].status \notin Waits
      BY <1>2 DEF Retires, Uncertain, Waits
    <3>. QED BY <1>0, <2>2, <3>1 DEF ChildFlights
  <2>. QED BY <2>1, <2>2
<1>11. OneFlight'
  BY <1>0 DEF OneFlight
<1>. QED BY <1>4, <1>5, <1>6, <1>7, <1>8, <1>9, <1>10, <1>11 DEF Work, Plan

LEMMA EditEnding ==
  ASSUME Types, Types', Begun, ParentFlights, Ending, NEW c \in Child, EditMade(c), att' = att,
         exec' = exec \/ (exec.pc = "apply" /\ exec'.pc = "loop" /\ exec'.rev = 0)
  PROVE  ParentFlights' /\ Ending'
<1>1. /\ \A d \in Child : Done(d) => d # c /\ run'[d] = "completed"
      /\ \A d \in Child : d \in Runs /\ (d # c => run'[d] = run[d] /\ kid'[d] = kid[d])
      /\ run'[Parent] = run[Parent] /\ run[Parent] # "completed"
      /\ run'[c] \notin {"none", "waiting_confirmation"} \/ run'[c] = run[c]
  BY EditKeepsDone
<1>2. /\ rec'.synth = 0 /\ rec'.synthesis = rec.synthesis /\ rec'.control = rec.control
      /\ Revision' = Revision + 1
  BY DEF EditMade, Revises
<1>3. exec.rev <= Revision /\ exec.rev \in Nat /\ Revision \in Nat
  BY TypeParts DEF Ending, Planned, Executions
<1>4. ParentFlights'
  BY <1>1 DEF ParentFlights, Certain, Resolved
<1>5. Planned'
  <2>1. exec'.rev <= Revision' /\ exec'.rev # Revision'
    BY <1>2, <1>3
  <2>. QED BY <2>1 DEF Planned
<1>6. Synthesised'
  BY <1>2 DEF Ending, Synthesised
<1>7. Quiet'
  <2>1. Closing' => Closing
    BY <1>1 DEF Closing
  <2>2. Closing => \A d \in Child : Certain(d) /\ run[d] # "waiting_confirmation"
    BY DEF Ending, Quiet
  <2>3. \A d \in Child : run'[d] = "waiting_confirmation" => run[d] = "waiting_confirmation"
    BY <1>1
  <2>4. Closing' => \A d \in Child : Certain(d)' /\ run'[d] # "waiting_confirmation"
    BY <2>1, <2>2, <2>3 DEF Certain
  <2>5. \A i \in DOMAIN att : att[i].purpose = "synthesis" /\ att[i].status = "dispatched" =>
          att[i].run = Parent /\ exec'.pc \in {"call", "settle"}
    BY DEF Ending, Quiet
  <2>. QED BY <1>1, <2>4, <2>5 DEF Quiet
<1>8. SynthesisCurrent' /\ ControlWins' /\ DraftWhole'
  BY <1>1, <1>2 DEF SynthesisCurrent, ControlWins, DraftWhole
<1>. QED BY <1>4, <1>5, <1>6, <1>7, <1>8 DEF Ending

LEMMA EditBounded ==
  ASSUME Types, Begun, Bounded, NEW c \in Child, EditMade(c), att' = att,
         exec' = exec \/ exec'.pc = "loop"
  PROVE  Bounded'
<1>1. \A d \in Child : /\ run[d] # "none" => run'[d] # "none"
                       /\ d # c => kid'[d] = kid[d]
  BY EditKeepsDone
<1>2. /\ rec'.synth = 0 /\ rec'.replan = 0 /\ SameBooks
  BY DEF EditMade, Revises
<1>3. \A d \in Child : \A e \in kid'[d].deps : run'[e] # "none"
  <2>1. \A d \in Child : kid[d].deps \in SUBSET Child /\ kid'[d].deps \in SUBSET Child
    BY TypeParts DEF Kids, EditMade
  <2>2. \A e \in kid'[c].deps : run[e] # "none"
    BY DEF EditMade, Bounded
  <2>. QED BY <1>1, <2>1, <2>2 DEF Bounded
<1>4. 0 \in 0 .. Len(att)
  BY TypeParts
<1>. QED BY <1>1, <1>2, <1>3, <1>4 DEF Bounded, SameBooks

LEMMA EditKeeps ==
  ASSUME Inv, NEW c \in Child, EditMade(c), att' = att, job' = job, stuck' = stuck,
         exec' \in Executions,
         ctl' \in BOOLEAN, events' \in 0 .. MaxEvents,
         exec' = exec \/ (exec.pc = "apply" /\ exec'.pc = "loop" /\ exec'.rev = 0)
  PROVE  Inv'
<1>1. /\ Types /\ Bounded /\ UncertainStaysCharged /\ Begun
      /\ ParentFlights /\ Ending /\ Work
  BY DEF Inv, Plan, Work
<1>2. Types'
  BY <1>1 DEF Types, EditMade, Revises
<1>3. Work' /\ ParentFlights' /\ Ending' /\ Bounded'
  BY <1>1, <1>2, EditWork, EditEnding, EditBounded
<1>4. UncertainStaysCharged'
  BY <1>1, ChargedSame
<1>. QED BY <1>2, <1>3, <1>4 DEF Inv, Work

LEMMA ReviseKeeps ==
  ASSUME Inv, BudgetAssumption, Revise
  PROVE  Inv'
<1>1. Types
  BY DEF Inv
<1>2. PICK e \in Edits : EditOK(e) /\ ApplyEdit(e, "user")
  BY DEF Revise
<1>3. EditMade(e.child) /\ e.child \in Child
  BY <1>1, <1>2, EditEffect
<1>4. /\ att' = att /\ exec' = exec /\ job' = job /\ stuck' = stuck
      /\ ctl' \in BOOLEAN /\ exec' \in Executions
  BY <1>1, TypeParts DEF Revise, Types
<1>5. events' \in 0 .. MaxEvents
  BY <1>1 DEF Types, Revise, Event, BudgetAssumption
<1>. QED BY <1>3, <1>4, <1>5, EditKeeps

-----------------------------------------------------------------------------
(* Steps of the executor and of users: the children and their calls are left  *)
(* alone.                                                                     *)

AllOff == \A c \in Child : job[c].pc = "off"

\* The places are as before, or the record is cleared or filled with stuck ones.
PlacesSame == rec'.active = rec.active /\ stuck' = stuck
PlacesStuck == rec'.active = stuck' /\ stuck' \subseteq Child
SameKid(c) ==
  /\ kid'[c].retired = kid[c].retired /\ kid'[c].deps = kid[c].deps
  /\ kid'[c].spec = kid[c].spec /\ kid'[c].steps = kid[c].steps
  /\ kid'[c].pending = kid[c].pending

\* The calls of the children are as before.
ChildCallsSame ==
  /\ \A i \in DOMAIN att' : att'[i].run # Parent => i \in DOMAIN att /\ att'[i] = att[i]
  /\ \A i \in DOMAIN att : att[i].run # Parent => i \in DOMAIN att' /\ att'[i] = att[i]

LEMMA OffOutside ==
  ASSUME Placed, exec.pc # "batch"
  PROVE  AllOff
BY DEF Placed, AllOff

LEMMA SteadyWork ==
  ASSUME Types, Work, OneFlight', ChildCallsSame, job' = job,
         \A c \in Child : run'[c] = run[c] /\ SameKid(c),
         PlacesSame \/ (AllOff /\ PlacesStuck),
         AllOff \/ exec'.pc = "batch"
  PROVE  Work'
<1>0. /\ Placed /\ ActiveIsRunning /\ Begun /\ DependenciesFirst /\ DispatchedAsPlanned
      /\ WaitsLive /\ ChildFlights
  BY DEF Work, Plan
<1>1. \A d \in Child : kid[d].deps \in SUBSET Child /\ d # Parent
  BY TypeParts DEF Kids
<1>2. Placed'
  <2>. SUFFICES ASSUME NEW d \in Child, job[d].pc # "off"
                PROVE  /\ d \in rec'.active /\ exec'.pc = "batch"
                       /\ run'[d] # "none" /\ ~kid'[d].retired /\ job[d].spec = kid'[d].spec
                       /\ \A e \in kid'[d].deps : run'[e] = "completed"
                       /\ job[d].pc \in {"model", "tool", "call", "settle"} => run'[d] = "running"
                       /\ job[d].pc = "tool" => kid'[d].steps > 0
    BY DEF Placed, Done
  <2>1. exec'.pc = "batch" /\ rec'.active = rec.active
    BY DEF AllOff, PlacesSame
  <2>. QED BY <1>0, <1>1, <2>1 DEF Placed, SameKid, Done
<1>3. ActiveIsRunning'
  <2>1. CASE PlacesSame
    BY <1>0, <2>1 DEF ActiveIsRunning, PlacesSame
  <2>2. CASE AllOff /\ PlacesStuck
    BY <2>2 DEF ActiveIsRunning, PlacesStuck, AllOff
  <2>. QED BY <2>1, <2>2
<1>4. Begun'
  <2>. SUFFICES ASSUME NEW d \in Child
                PROVE  /\ run'[d] \in {"completed", "waiting_confirmation"} \/ kid'[d].pending
                            => kid'[d].steps > 0
                       /\ run'[d] = "none" => kid'[d].steps = 0
                       /\ \A i \in DOMAIN att' : att'[i].run = d => kid'[d].steps > 0
    BY DEF Begun
  <2>1. \A i \in DOMAIN att' : att'[i].run = d => i \in DOMAIN att /\ att[i].run = d
    BY <1>1 DEF ChildCallsSame
  <2>. QED BY <1>0, <2>1 DEF Begun, SameKid
<1>5. DependenciesFirst'
  <2>. SUFFICES ASSUME NEW d \in Child, run'[d] # "none", kid'[d].steps > 0,
                       NEW e \in kid'[d].deps
                PROVE  run'[e] = "completed"
    BY DEF DependenciesFirst, Present
  <2>. QED BY <1>0, <1>1 DEF DependenciesFirst, Present, SameKid
<1>6. DispatchedAsPlanned'
  <2>. SUFFICES ASSUME NEW i \in DOMAIN att', att'[i].run # Parent
                PROVE  att'[i].spec = kid'[att'[i].run].spec
    BY DEF DispatchedAsPlanned
  <2>1. i \in DOMAIN att /\ att'[i] = att[i]
    BY DEF ChildCallsSame
  <2>2. att[i].run \in Child
    BY <2>1, TypeParts DEF Calls, Runs
  <2>. QED BY <1>0, <2>1, <2>2 DEF DispatchedAsPlanned, SameKid
<1>7. WaitsLive'
  BY <1>0 DEF WaitsLive, SameKid
<1>8. ChildFlights'
  <2>. SUFFICES ASSUME NEW d \in Child
                PROVE
                  /\ \A i \in DOMAIN att' : att'[i].run = d /\ att'[i].status \in Waits =>
                       \/ run'[d] \in {"unknown", "abandoned"} /\ ~kid'[d].retired
                       \/ att'[i].status = "dispatched" /\ job[d].pc \in {"call", "settle"}
                  /\ job[d].pc \in {"call", "settle"} =>
                       \E i \in DOMAIN att' : att'[i].run = d /\ att'[i].status = "dispatched"
    BY DEF ChildFlights
  <2>1. \A i \in DOMAIN att' : att'[i].run = d => i \in DOMAIN att /\ att'[i] = att[i]
    BY <1>1 DEF ChildCallsSame
  <2>2. \A i \in DOMAIN att : att[i].run = d => i \in DOMAIN att' /\ att'[i] = att[i]
    BY <1>1 DEF ChildCallsSame
  <2>3. \A i \in DOMAIN att' : att'[i].run = d /\ att'[i].status \in Waits =>
          \/ run'[d] \in {"unknown", "abandoned"} /\ ~kid'[d].retired
          \/ att'[i].status = "dispatched" /\ job[d].pc \in {"call", "settle"}
    BY <1>0, <2>1 DEF ChildFlights, SameKid
  <2>4. ASSUME job[d].pc \in {"call", "settle"}
        PROVE  \E i \in DOMAIN att' : att'[i].run = d /\ att'[i].status = "dispatched"
    <3>1. PICK i \in DOMAIN att : att[i].run = d /\ att[i].status = "dispatched"
      BY <1>0, <2>4 DEF ChildFlights
    <3>. QED BY <2>2, <3>1
  <2>. QED BY <2>3, <2>4
<1>. QED BY <1>2, <1>3, <1>4, <1>5, <1>6, <1>7, <1>8 DEF Work, Plan

\* Of the end of the collaboration, a step has to show these.
LEMMA SteadyEnding ==
  ASSUME Types, Ending, Planned', ChildCallsSame,
         \A c \in Child : run'[c] = run[c] /\ kid'[c].retired = kid[c].retired,
         rec'.synthesis = rec.synthesis,
         exec'.pc \in {"synthesize", "inspect"} => rec.synthesis,
         \A i \in DOMAIN att' : att'[i].purpose = "synthesis" => rec.synthesis,
         Closing' => \A c \in Child : Certain(c) /\ run[c] # "waiting_confirmation",
         \A i \in DOMAIN att' : att'[i].purpose = "synthesis" /\ att'[i].status = "dispatched" =>
           att'[i].run = Parent /\ exec'.pc \in {"call", "settle"},
         rec'.synth = rec.synth \/ \A c \in Live : Done(c),
         run'[Parent] = "completed" =>
           /\ exec'.pc \in {"idle", "drain", "draining", "pick", "finish"}
           /\ rec'.control = "running" /\ (~rec.synthesis => \A c \in Live : Done(c))
  PROVE  Ending'
<1>1. \A c \in Child : c \in Live' <=> c \in Live
  BY DEF Live, Present
<1>2. Synthesised'
  BY DEF Synthesised
<1>3. Quiet'
  <2>1. \A c \in Child : Certain(c) => Certain(c)'
    <3>1. \A c \in Child : c # Parent
      BY TypeParts
    <3>. QED BY <3>1 DEF Certain, ChildCallsSame
  <2>2. Closing' => \A c \in Child : Certain(c)' /\ run'[c] # "waiting_confirmation"
    BY <2>1
  <2>. QED BY <2>2 DEF Quiet
<1>4. Live \subseteq Child /\ Live' \subseteq Child
  BY DEF Live, Present
<1>5. SynthesisCurrent'
  BY <1>1, <1>4 DEF SynthesisCurrent, Ending, Done
<1>6. ControlWins' /\ DraftWhole'
  BY <1>1, <1>4 DEF ControlWins, DraftWhole, Done
<1>. QED BY <1>2, <1>3, <1>5, <1>6 DEF Ending

LEMMA SteadyBounded ==
  ASSUME Types, Bounded, att' = att, SameBooks, rec'.synth = rec.synth,
         rec'.replan \in {rec.replan, 0},
         \A c \in Child : run'[c] = run[c] /\ kid'[c].deps = kid[c].deps,
         exec'.pc = "apply" => exec'.saved \in DOMAIN att /\ att[exec'.saved].edit # BadEdit,
         exec'.pc = "draining" => \A c \in Child \cap exec'.todo : run[c] # "none"
  PROVE  Bounded'
<1>1. \A c \in Child : kid[c].deps \in SUBSET Child
  BY TypeParts DEF Kids
<1>2. 0 \in 0 .. Len(att)
  BY TypeParts
<1>. QED BY <1>1, <1>2 DEF Bounded, SameBooks

\* A step that leaves the calls alone too.
LEMMA Turn ==
  ASSUME Inv, Types', Bounded', ParentFlights', Planned', att' = att, job' = job,
         \A c \in Child : run'[c] = run[c] /\ SameKid(c),
         PlacesSame \/ (AllOff /\ PlacesStuck),
         AllOff \/ exec'.pc = "batch",
         rec'.synth = rec.synth, rec'.synthesis = rec.synthesis,
         exec'.pc \in {"synthesize", "inspect"} => rec.synthesis,
         Closing' => \A c \in Child : Certain(c) /\ run[c] # "waiting_confirmation",
         exec.pc \in {"call", "settle"} => exec'.pc = exec.pc,
         run'[Parent] = "completed" =>
           /\ exec'.pc \in {"idle", "drain", "draining", "pick", "finish"}
           /\ rec'.control = "running" /\ (~rec.synthesis => \A c \in Live : Done(c))
  PROVE  Inv'
<1>1. /\ Types /\ UncertainStaysCharged /\ Ending /\ Work /\ OneFlight /\ Quiet /\ Synthesised
  BY DEF Inv, Work, Ending
<1>2. ChildCallsSame
  BY DEF ChildCallsSame
<1>3. OneFlight'
  BY <1>1 DEF OneFlight
<1>4. Work'
  BY <1>1, <1>2, <1>3, SteadyWork
<1>5. UncertainStaysCharged'
  BY <1>1, ChargedSame
<1>6. \A i \in DOMAIN att' : att'[i].purpose = "synthesis" /\ att'[i].status = "dispatched" =>
           att'[i].run = Parent /\ exec'.pc \in {"call", "settle"}
  BY <1>1 DEF Quiet
<1>7. \A i \in DOMAIN att' : att'[i].purpose = "synthesis" => rec.synthesis
  BY <1>1 DEF Synthesised
<1>8. \A c \in Child : run'[c] = run[c] /\ kid'[c].retired = kid[c].retired
  BY DEF SameKid
<1>9. Ending'
  BY <1>1, <1>2, <1>6, <1>7, <1>8, SteadyEnding
<1>. QED BY <1>4, <1>5, <1>9 DEF Inv, Work

Ends == {"idle", "drain", "draining", "pick", "finish"}

\* Uncertain calls of the parent outside of its own calls.
LEMMA ParentCertain ==
  ASSUME ParentFlights, exec.pc \notin {"call", "settle"}
  PROVE  Certain(Parent) \/ run[Parent] \in {"unknown", "abandoned"}
BY DEF ParentFlights, Certain, Resolved

\* The execution ends, or its end goes on.
LEMMA Leaves ==
  ASSUME Inv, Types', UNCHANGED <<rec, kid, att, job, stuck>>, AllOff,
         exec.pc \notin {"call", "settle"}, exec'.pc \in Ends, exec'.rev \in {0, exec.rev},
         \A c \in Child : run'[c] = run[c],
         \/ run'[Parent] = run[Parent]
         \/ run'[Parent] # "completed" /\ (Certain(Parent) \/ run'[Parent] \in {"unknown", "abandoned"})
         \/ /\ exec.pc = "commit" /\ rec.control = "running"
            /\ ~rec.synthesis => \A c \in Live : Done(c),
         exec'.pc = "finish" /\ exec'.status # "none" => run'[Parent] = "running",
         exec'.pc = "draining" => \A c \in Child \cap exec'.todo : run[c] # "none"
  PROVE  Inv'
<1>1. /\ Types /\ Bounded /\ ParentFlights /\ Ending /\ Planned /\ Quiet /\ ControlWins /\ DraftWhole
  BY DEF Inv, Ending
<1>2. SameBooks /\ rec'.active = rec.active /\ rec'.synth = rec.synth
      /\ rec'.synthesis = rec.synthesis /\ rec'.replan = rec.replan /\ rec'.control = rec.control
  BY <1>1, SameRecord DEF SamePlan
<1>3. \A c \in Child : run'[c] = run[c] /\ SameKid(c)
  BY DEF SameKid
<1>4. exec'.pc \notin {"apply", "synthesize", "inspect", "activate", "finalize", "commit", "call",
                       "settle", "batch"} \cup Resolved
  BY DEF Ends, Resolved
<1>5. Bounded'
  <2>1. \A c \in Child : run'[c] = run[c] /\ kid'[c].deps = kid[c].deps
    BY <1>3 DEF SameKid
  <2>. QED BY <1>1, <1>2, <1>4, <2>1, SteadyBounded
<1>6. Certain(Parent) \/ run'[Parent] \in {"unknown", "abandoned"}
  <2>1. Certain(Parent) \/ run[Parent] \in {"unknown", "abandoned"}
    BY <1>1, ParentCertain
  <2>2. exec.pc = "commit" => Certain(Parent)
    BY <1>1 DEF ParentFlights, Resolved
  <2>. QED BY <2>1, <2>2
<1>7. ParentFlights'
  BY <1>4, <1>6 DEF ParentFlights, Certain
<1>8. Planned'
  <2>1. exec.rev \in Nat /\ Revision \in Nat /\ exec.rev <= Revision
    BY <1>1, TypeParts DEF Executions, Planned
  <2>2. exec'.rev <= Revision /\ Revision' = Revision
    BY <2>1 DEF Revision
  <2>. QED BY <1>4, <2>2 DEF Planned
<1>9. \A i \in DOMAIN att : ~(att[i].purpose = "synthesis" /\ att[i].status = "dispatched")
  BY <1>1 DEF Quiet
<1>10. Closing' => run'[Parent] = "completed"
  BY <1>4, <1>9 DEF Closing
<1>11. run'[Parent] = "completed" => run[Parent] = "completed" \/ exec.pc = "commit"
  OBVIOUS
<1>12. Closing' => \A c \in Child : Certain(c) /\ run[c] # "waiting_confirmation"
  BY <1>1, <1>10, <1>11 DEF Closing, Quiet
<1>13. run'[Parent] = "completed" => rec.control = "running" /\ (~rec.synthesis => \A c \in Live : Done(c))
  BY <1>1 DEF ControlWins, DraftWhole, Done
<1>14. exec'.pc \in {"idle", "drain", "draining", "pick", "finish"}
  BY DEF Ends
<1>. QED BY <1>2, <1>3, <1>4, <1>5, <1>7, <1>8, <1>12, <1>13, <1>14, Turn DEF PlacesSame

\* The execution goes on, with no uncertain call of the parent.
LEMMA Proceeds ==
  ASSUME Inv, Types', UNCHANGED <<kid, att, job>>, AllOff,
         SameBooks, rec'.control = rec.control, rec'.synth = rec.synth,
         rec'.synthesis = rec.synthesis, rec'.replan \in {rec.replan, 0},
         PlacesSame \/ PlacesStuck,
         exec.pc \notin {"call", "settle"}, exec'.pc \in Resolved \cup {"inspect"},
         \A c \in Child : run'[c] = run[c], run'[Parent] # "completed", Certain(Parent), Planned',
         exec'.pc \in {"synthesize", "inspect"} => rec.synthesis,
         exec'.pc = "apply" => exec'.saved \in DOMAIN att /\ att[exec'.saved].edit # BadEdit,
         (exec'.pc = "finalize" /\ exec'.whole) \/ exec'.pc \in {"synthesize", "inspect", "commit"} =>
           \A c \in Child : Certain(c) /\ run[c] # "waiting_confirmation"
  PROVE  Inv'
<1>1. /\ Types /\ Bounded /\ Quiet
  BY DEF Inv, Ending
<1>2. \A c \in Child : run'[c] = run[c] /\ SameKid(c)
  BY DEF SameKid
<1>3. exec'.pc \notin {"draining", "call", "settle", "batch", "finish"}
  BY DEF Resolved
<1>4. Bounded'
  <2>1. \A c \in Child : run'[c] = run[c] /\ kid'[c].deps = kid[c].deps
    BY <1>2 DEF SameKid
  <2>. QED BY <1>1, <1>3, <2>1, SteadyBounded
<1>5. ParentFlights'
  BY <1>3 DEF ParentFlights, Certain
<1>6. \A i \in DOMAIN att : ~(att[i].purpose = "synthesis" /\ att[i].status = "dispatched")
  BY <1>1 DEF Quiet
<1>7. Closing' => \A c \in Child : Certain(c) /\ run[c] # "waiting_confirmation"
  BY <1>6 DEF Closing
<1>. QED BY <1>2, <1>3, <1>4, <1>5, <1>7, Turn

-----------------------------------------------------------------------------
(* Continue, until it starts a batch or a call.                               *)

LEMMA MinMember ==
  ASSUME NEW S, S \subseteq Nat, S # {}
  PROVE  Min(S) \in S
<1>. DEFINE R == OpToRel(<, Nat)
<1>1. IsWellFoundedOn(R, Nat)
  BY NatLessThanWellFounded
<1>2. \A x, y \in Nat : x < y => <<x, y>> \in R
  BY DEF OpToRel
<1>. HIDE DEF R
<1>3. PICK x \in S : \A y \in S : ~(<<y, x>> \in R)
  BY <1>1, WFMin
<1>4. \A y \in S : x <= y
  <2>1. TAKE y \in S
  <2>2. x \in Nat /\ y \in Nat
    OBVIOUS
  <2>3. ~(y < x)
    BY <1>2, <1>3, <2>2, Zenon
  <2>. QED BY <2>2, <2>3
<1>. QED BY <1>4 DEF Min

LEMMA MaxMember ==
  ASSUME NEW n \in Nat, NEW S, S \subseteq 1 .. n, S # {}
  PROVE  Max(S) \in S
<1>. DEFINE T == {k \in Nat : n - k \in S}
<1>1. PICK s \in S : TRUE
  OBVIOUS
<1>2. n - s \in Nat /\ n - (n - s) = s
  OBVIOUS
<1>3. T \subseteq Nat /\ T # {}
  BY <1>1, <1>2
<1>. DEFINE R == OpToRel(<, Nat)
<1>4. IsWellFoundedOn(R, Nat)
  BY NatLessThanWellFounded
<1>5. \A x, y \in Nat : x < y => <<x, y>> \in R
  BY DEF OpToRel
<1>. HIDE DEF R, T
<1>6. PICK x \in T : \A y \in T : ~(<<y, x>> \in R)
  BY <1>3, <1>4, WFMin
<1>7. x \in Nat /\ n - x \in S /\ \A y \in T : x <= y
  <2>1. x \in Nat /\ n - x \in S
    BY DEF T
  <2>2. ASSUME NEW y \in T
        PROVE  x <= y
    <3>1. y \in Nat
      BY DEF T
    <3>2. ~(y < x)
      BY <1>5, <1>6, <2>1, <3>1, Zenon
    <3>. QED BY <2>1, <3>1, <3>2
  <2>. QED BY <2>1, <2>2
<1>8. ASSUME NEW y \in S
      PROVE  n - x >= y
  <2>1. n - y \in T
    <3>1. n - y \in Nat /\ n - (n - y) = y
      OBVIOUS
    <3>. QED BY <3>1 DEF T
  <2>2. y \in Int /\ x <= n - y
    BY <1>7, <2>1
  <2>. QED BY <1>7, <2>2
<1>. QED BY <1>7, <1>8 DEF Max

LEMMA ExitKeeps ==
  ASSUME Inv, NEW err \in SUBSET Errors, Exit(err), AllOff,
         UNCHANGED <<rec, kid, att, run, job, ctl, events, stuck>>, exec.pc \notin {"call", "settle"}
  PROVE  Inv'
<1>1. Types
  BY DEF Inv
<1>2. exec' \in Executions /\ exec'.pc = "drain" /\ exec'.rev = 0
  BY <1>1, ExitExec
<1>3. Types'
  BY <1>1, <1>2 DEF Types
<1>. QED BY <1>2, <1>3, Leaves DEF Ends

\* Going back to nothing.
LEMMA IdleKeeps ==
  ASSUME Inv, AllOff, exec' = Idle, UNCHANGED <<rec, kid, att, run, job, ctl, events, stuck>>,
         exec.pc \notin {"call", "settle"}
  PROVE  Inv'
<1>1. Types
  BY DEF Inv
<1>2. Types'
  BY <1>1, IdleExec DEF Types
<1>. QED BY <1>2, IdleExec, Leaves DEF Ends

LEMMA ContinueBeginKeeps ==
  ASSUME Inv, ContinueBegin
  PROVE  Inv'
<1>0. /\ Types /\ Placed /\ ParentFlights /\ exec.pc = "idle"
      /\ UNCHANGED <<rec, kid, att, job, ctl, events, stuck>>
      /\ run[Parent] \notin {"completed", "unknown", "abandoned"}
  BY DEF Inv, Plan, ContinueBegin, At
<1>1. AllOff
  BY <1>0, OffOutside
<1>2. run \in [Runs -> Statuses] /\ Parent \in Runs /\ \A c \in Child : c \in Runs /\ c # Parent
  BY <1>0, TypeParts
<1>3. Certain(Parent)
  BY <1>0, ParentCertain
<1>4. CASE exec' = [Idle EXCEPT !.who = "control", !.pc = "drain"] /\ run' = run
  <2>1. exec' \in Executions /\ exec'.pc = "drain" /\ exec'.rev = 0
    BY <1>4, IdleExec DEF Executions, Places
  <2>2. Types'
    BY <1>0, <1>4, <2>1 DEF Types
  <2>. QED BY <1>0, <1>1, <1>4, <2>1, <2>2, Leaves DEF Ends
<1>5. CASE /\ exec' = [Idle EXCEPT !.who = "continue", !.pc = "clear"]
           /\ run' = run \/ run' = [run EXCEPT ![Parent] = "stopped"]
  <2>1. exec' \in Executions /\ exec'.pc = "clear" /\ exec'.rev = 0
    BY <1>5, IdleExec DEF Executions, Places
  <2>2. /\ run' \in [Runs -> Statuses] /\ run'[Parent] # "completed"
        /\ \A c \in Child : run'[c] = run[c]
    BY <1>0, <1>2, <1>5 DEF Statuses
  <2>3. Types'
    BY <1>0, <2>1, <2>2 DEF Types
  <2>4. SameBooks /\ SamePlan /\ rec'.control = rec.control /\ rec'.active = rec.active
    BY <1>0, SameRecord
  <2>5. Planned'
    <3>1. Revision \in Nat /\ Revision' = Revision
      BY <1>0, TypeParts DEF Revision
    <3>. QED BY <2>1, <3>1 DEF Planned
  <2>. QED BY <1>0, <1>1, <1>3, <2>1, <2>2, <2>3, <2>4, <2>5, Proceeds DEF Resolved, SamePlan, PlacesSame
<1>. QED BY <1>4, <1>5 DEF ContinueBegin

LEMMA ContinueClearKeeps ==
  ASSUME Inv, ContinueClear
  PROVE  Inv'
<1>0. /\ Types /\ Placed /\ ParentFlights /\ Ending /\ exec.pc = "clear"
      /\ UNCHANGED <<kid, att, run, job, ctl, events>>
      /\ rec' = [rec EXCEPT !.active = {}] /\ stuck' = {} /\ Goto("enter")
  BY DEF Inv, Plan, ContinueClear, At
<1>1. AllOff
  BY <1>0, OffOutside
<1>2. rec' \in Records /\ SameBooks /\ SamePlan /\ rec'.control = rec.control /\ rec'.active = {}
  <2>1. {} \in SUBSET Child
    OBVIOUS
  <2>. QED BY <1>0, <2>1, ActiveRecord
<1>3. Goes("enter")
  BY <1>0, GotoExec DEF Places
<1>4. Types'
  BY <1>0, <1>2, <1>3 DEF Types, Goes
<1>5. Planned'
  BY <1>0, <1>2, <1>3 DEF Ending, Planned, Goes, SamePlan, Revision
<1>6. Certain(Parent) /\ run'[Parent] # "completed"
  BY <1>0 DEF ParentFlights, Resolved, Ending, Quiet
<1>7. exec'.pc = "enter" /\ PlacesStuck
  BY <1>0, <1>2, <1>3 DEF Goes, PlacesStuck
<1>. QED BY <1>0, <1>1, <1>2, <1>4, <1>5, <1>6, <1>7, Proceeds DEF Resolved, SamePlan

LEMMA ContinueEnterKeeps ==
  ASSUME Inv, ContinueEnter
  PROVE  Inv'
<1>0. /\ Types /\ Placed /\ ParentFlights /\ Ending /\ exec.pc = "enter"
      /\ UNCHANGED <<rec, kid, att, job, ctl, events, stuck>>
      /\ run' = [run EXCEPT ![Parent] = "running"] /\ Goto("loop")
  BY DEF Inv, Plan, ContinueEnter, At
<1>1. AllOff
  BY <1>0, OffOutside
<1>2. SameBooks /\ SamePlan /\ rec'.control = rec.control /\ rec'.active = rec.active
  BY <1>0, SameRecord
<1>3. Goes("loop")
  BY <1>0, GotoExec DEF Places
<1>4. /\ run' \in [Runs -> Statuses] /\ run'[Parent] # "completed"
      /\ \A c \in Child : run'[c] = run[c]
  <2>1. run \in [Runs -> Statuses] /\ Parent \in Runs /\ \A c \in Child : c \in Runs /\ c # Parent
    BY <1>0, TypeParts
  <2>. QED BY <1>0, <2>1 DEF Statuses
<1>5. Types'
  BY <1>0, <1>3, <1>4 DEF Types, Goes
<1>6. Planned'
  BY <1>0, <1>3 DEF Ending, Planned, Goes, Revision
<1>7. Certain(Parent)
  BY <1>0 DEF ParentFlights, Resolved
<1>8. exec'.pc = "loop"
  BY <1>3 DEF Goes
<1>. QED BY <1>0, <1>1, <1>2, <1>4, <1>5, <1>6, <1>7, <1>8, Proceeds
     DEF Resolved, SamePlan, PlacesSame

LEMMA AbortKeeps ==
  ASSUME Inv, Abort
  PROVE  Inv'
<1>0. /\ Placed /\ UNCHANGED <<rec, kid, att, run, job, ctl, events, stuck>>
      /\ exec.pc \notin {"batch", "call", "settle"}
      /\ exec' = Idle \/ Exit({"error"})
  BY DEF Inv, Plan, Abort
<1>1. AllOff
  BY <1>0, OffOutside
<1>2. {"error"} \in SUBSET Errors
  BY DEF Errors
<1>. QED BY <1>0, <1>1, <1>2, IdleKeeps, ExitKeeps

\* When every live child is complete, no child has an uncertain call or waits.
LEMMA WholeQuiet ==
  ASSUME Types, Work, AllOff, \A c \in Live : Done(c)
  PROVE  \A c \in Child : Certain(c) /\ run[c] # "waiting_confirmation"
<1>. SUFFICES ASSUME NEW c \in Child
              PROVE  Certain(c) /\ run[c] # "waiting_confirmation"
  OBVIOUS
<1>1. run[c] = "none" \/ kid[c].retired \/ run[c] = "completed"
  BY DEF Live, Present, Done
<1>2. run[c] # "waiting_confirmation"
  BY <1>1 DEF Work, WaitsLive
<1>3. run[c] = "none" => \A i \in DOMAIN att : att[i].run # c
  BY DEF Work, Plan, Begun
<1>4. \A i \in DOMAIN att : att[i].run = c /\ att[i].status \in Waits =>
        run[c] \in {"unknown", "abandoned"} /\ ~kid[c].retired
  BY DEF Work, ChildFlights, AllOff
<1>5. Certain(c)
  BY <1>1, <1>3, <1>4 DEF Certain
<1>. QED BY <1>2, <1>5

\* Where the execution goes on, as a value.
LEMMA ProceedsAt ==
  ASSUME Inv, AllOff, UNCHANGED <<rec, kid, att, run, job, ctl, events, stuck>>, exec' \in Executions,
         exec.pc \notin {"call", "settle"}, exec'.pc \in Resolved \cup {"inspect"},
         run[Parent] # "completed", Certain(Parent), Planned',
         exec'.pc \in {"synthesize", "inspect"} => rec.synthesis,
         exec'.pc = "apply" => exec'.saved \in DOMAIN att /\ att[exec'.saved].edit # BadEdit,
         (exec'.pc = "finalize" /\ exec'.whole) \/ exec'.pc \in {"synthesize", "inspect", "commit"} =>
           \A c \in Child : Certain(c) /\ run[c] # "waiting_confirmation"
  PROVE  Inv'
<1>1. Types
  BY DEF Inv
<1>2. Types'
  BY <1>1 DEF Types
<1>3. SameBooks /\ SamePlan /\ rec'.control = rec.control /\ rec'.active = rec.active
  BY <1>1, SameRecord
<1>. QED BY <1>2, <1>3, Proceeds DEF SamePlan, PlacesSame

\* A place of Continue outside of batches and calls, or at the end of a batch.
LEMMA Resumes ==
  ASSUME Inv, exec.pc \in Resolved \/ (exec.pc = "batch" /\ exec.who # "confirm")
  PROVE  /\ Types /\ Work /\ Ending /\ Bounded /\ Certain(Parent) /\ run[Parent] # "completed"
         /\ exec.pc \notin {"call", "settle"} /\ (exec.pc # "batch" => AllOff)
         /\ exec \in Executions /\ exec.rev \in Nat /\ Revision \in Nat /\ exec.rev <= Revision
<1>1. /\ Types /\ Work /\ Ending /\ Bounded /\ ParentFlights /\ Quiet /\ Placed /\ Planned
  BY DEF Inv, Work, Ending, Plan
<1>2. Certain(Parent) /\ run[Parent] # "completed" /\ exec.pc \notin {"call", "settle"}
  BY <1>1 DEF ParentFlights, Quiet, Resolved
<1>3. exec.pc # "batch" => AllOff
  BY <1>1, OffOutside
<1>4. exec \in Executions /\ exec.rev \in Nat /\ Revision \in Nat /\ exec.rev <= Revision
  BY <1>1, TypeParts DEF Executions, Planned
<1>. QED BY <1>1, <1>2, <1>3, <1>4

LEMMA LoopKeeps ==
  ASSUME Inv, Loop
  PROVE  Inv'
<1>0. exec.pc = "loop" /\ UNCHANGED <<rec, kid, att, run, job, ctl, events, stuck>>
  BY DEF Loop, At
<1>1. /\ Types /\ Work /\ Certain(Parent) /\ run[Parent] # "completed" /\ AllOff
      /\ Revision \in Nat /\ rec \in Records
  BY <1>0, Resumes, TypeParts DEF Resolved
<1>2. Revision' = Revision
  BY <1>0 DEF Revision
<1>3. CASE Exit({"unknown"})
  <2>1. {"unknown"} \in SUBSET Errors
    BY DEF Errors
  <2>. QED BY <1>0, <1>1, <1>3, <2>1, ExitKeeps
<1>4. CASE exec' = [Idle EXCEPT !.who = "continue", !.pc = "activate", !.rev = Revision,
                           !.batch = Batch, !.retired = Present \ Live, !.replans = rec.replans]
  <2>. DEFINE b == Batch
              s == Present \ Live
              n == rec.replans
              v == Revision
  <2>1. b \in SUBSET Child /\ s \in SUBSET Child /\ n \in Int /\ v \in Nat
    BY <1>1 DEF Batch, Present, Records
  <2>2. exec' = [Idle EXCEPT !.who = "continue", !.pc = "activate", !.rev = v,
                             !.batch = b, !.retired = s, !.replans = n]
    BY <1>4
  <2>3. \A c \in b : run[c] # "none" /\ \A d \in kid[c].deps : Done(d)
    BY DEF Batch, Eligible, Live, Present, Done
  <2>. HIDE DEF b, s, n, v
  <2>4. exec' \in Executions /\ exec'.pc = "activate" /\ exec'.rev = v /\ exec'.batch = b
    BY <2>1, <2>2, IdleExec DEF Executions, Places
  <2>5. Planned'
    <3>1. exec'.rev <= Revision'
      BY <1>1, <1>2, <2>4 DEF v
    <3>2. \A c \in exec'.batch : run'[c] # "none" /\ \A d \in kid'[c].deps : run'[d] = "completed"
      BY <1>0, <2>3, <2>4 DEF Done
    <3>. QED BY <2>4, <3>1, <3>2 DEF Planned, Done
  <2>. QED BY <1>0, <1>1, <2>4, <2>5, ProceedsAt DEF Resolved
<1>5. CASE exec' = [Idle EXCEPT !.who = "continue", !.pc = "replan", !.seen = Ended]
  <2>. DEFINE s == Ended
  <2>1. s \in SUBSET Child
    BY DEF Ended, Present
  <2>2. exec' = [Idle EXCEPT !.who = "continue", !.pc = "replan", !.seen = s]
    BY <1>5
  <2>. HIDE DEF s
  <2>3. exec' \in Executions /\ exec'.pc = "replan" /\ exec'.rev = 0
    BY <2>1, <2>2, IdleExec DEF Executions, Places
  <2>4. Planned'
    BY <1>1, <1>2, <2>3 DEF Planned
  <2>. QED BY <1>0, <1>1, <2>3, <2>4, ProceedsAt DEF Resolved
<1>6. CASE exec' = [Idle EXCEPT !.who = "continue", !.pc = "finalize", !.rev = Revision,
                 !.whole = \A c \in Live : run[c] = "completed" /\ kid[c].control = "running"]
  <2>. DEFINE w == \A c \in Live : run[c] = "completed" /\ kid[c].control = "running"
              v == Revision
  <2>1. w \in BOOLEAN /\ v \in Nat
    BY <1>1
  <2>2. exec' = [Idle EXCEPT !.who = "continue", !.pc = "finalize", !.rev = v, !.whole = w]
    BY <1>6
  <2>3. w => \A c \in Live : Done(c)
    BY DEF Done
  <2>. HIDE DEF w, v
  <2>4. exec' \in Executions /\ exec'.pc = "finalize" /\ exec'.rev = v /\ (exec'.whole => w)
    BY <2>1, <2>2, IdleExec DEF Executions, Places
  <2>5. exec'.whole => \A c \in Child : Certain(c) /\ run[c] # "waiting_confirmation"
    BY <1>1, <2>3, <2>4, WholeQuiet
  <2>6. Planned'
    <3>1. exec'.rev <= Revision'
      BY <1>1, <1>2, <2>4 DEF v
    <3>2. exec'.whole => \A c \in Live' : run'[c] = "completed"
      BY <1>0, <2>3, <2>4 DEF Done, Live, Present
    <3>. QED BY <2>4, <3>1, <3>2 DEF Planned, Done
  <2>. QED BY <1>0, <1>1, <2>4, <2>5, <2>6, ProceedsAt DEF Resolved
<1>. QED BY <1>3, <1>4, <1>5, <1>6 DEF Loop, LoopNext

LEMMA AfterBatchKeeps ==
  ASSUME Inv, AfterBatch
  PROVE  Inv'
<1>0. exec.pc = "batch" /\ UNCHANGED <<rec, kid, att, run, job, ctl, events, stuck>> /\ AllOff
  BY DEF AfterBatch, At, AllOff
<1>1. Types /\ exec \in Executions
  BY TypeParts DEF Inv
<1>2. CASE Exit({})
  <2>1. {} \in SUBSET Errors
    OBVIOUS
  <2>. QED BY <1>0, <1>2, <2>1, ExitKeeps
<1>3. CASE exec.who # "confirm"
  <2>0. Certain(Parent) /\ run[Parent] # "completed" /\ Revision \in Nat
    BY <1>0, <1>3, Resumes
  <2>1. Revision' = Revision
    BY <1>0 DEF Revision
  <2>2. CASE exec' = [Idle EXCEPT !.who = "continue", !.pc = "replan", !.seen = Ended,
                                       !.err = exec.err]
    <3>. DEFINE s == Ended
                x == exec.err
    <3>1. s \in SUBSET Child /\ x \in SUBSET Errors
      BY <1>1 DEF Ended, Present, Executions
    <3>2. exec' = [Idle EXCEPT !.who = "continue", !.pc = "replan", !.seen = s, !.err = x]
      BY <2>2
    <3>. HIDE DEF s, x
    <3>3. exec' \in Executions /\ exec'.pc = "replan" /\ exec'.rev = 0
      BY <3>1, <3>2, IdleExec DEF Executions, Places
    <3>4. Planned'
      BY <2>0, <2>1, <3>3 DEF Planned
    <3>. QED BY <1>0, <2>0, <3>3, <3>4, ProceedsAt DEF Resolved
  <2>3. CASE exec' = [Idle EXCEPT !.who = "continue", !.pc = "loop"]
    <3>3. exec' \in Executions /\ exec'.pc = "loop" /\ exec'.rev = 0
      BY <2>3, IdleExec DEF Executions, Places
    <3>4. Planned'
      BY <2>0, <2>1, <3>3 DEF Planned
    <3>. QED BY <1>0, <2>0, <3>3, <3>4, ProceedsAt DEF Resolved
  <2>4. exec.err = {} \/ exec.err # {}
    OBVIOUS
  <2>. QED BY <1>2, <1>3, <2>2, <2>3, <2>4 DEF AfterBatch
<1>. QED BY <1>2, <1>3 DEF AfterBatch

LEMMA ReplanReadKeeps ==
  ASSUME Inv, ReplanRead
  PROVE  Inv'
<1>0. exec.pc = "replan" /\ UNCHANGED <<rec, kid, att, run, job, ctl, events, stuck>>
  BY DEF ReplanRead, At
<1>1. /\ Types /\ Work /\ Certain(Parent) /\ run[Parent] # "completed" /\ AllOff
      /\ Revision \in Nat /\ exec \in Executions
  BY <1>0, Resumes DEF Resolved
<1>2. Revision' = Revision
  BY <1>0 DEF Revision
<1>3. CASE Exit({"unknown"}) \/ Exit({"error"})
  <2>1. {"unknown"} \in SUBSET Errors /\ {"error"} \in SUBSET Errors
    BY DEF Errors
  <2>. QED BY <1>0, <1>1, <1>3, <2>1, ExitKeeps
<1>. DEFINE v == Revision
<1>4. CASE exec' = [exec EXCEPT !.pc = "propose", !.rev = Revision]
  <2>1. exec' = [exec EXCEPT !.pc = "propose", !.rev = v] /\ v \in Nat
    BY <1>1, <1>4
  <2>. HIDE DEF v
  <2>2. exec' \in Executions /\ exec'.pc = "propose" /\ exec'.rev = v
    BY <1>1, <2>1 DEF Executions, Places
  <2>3. Planned'
    BY <1>1, <1>2, <2>2 DEF Planned, v
  <2>. QED BY <1>0, <1>1, <2>2, <2>3, ProceedsAt DEF Resolved
<1>5. CASE /\ SavedProposals # {} /\ att[Max(SavedProposals)].edit # BadEdit
           /\ exec' = [exec EXCEPT !.pc = "apply", !.saved = Max(SavedProposals), !.rev = Revision]
  <2>. DEFINE s == Max(SavedProposals)
  <2>1. s \in DOMAIN att
    <3>1. SavedProposals \subseteq 1 .. Len(att) /\ Len(att) \in Nat /\ DOMAIN att = 1 .. Len(att)
      BY <1>1, TypeParts DEF SavedProposals
    <3>2. s \in SavedProposals
      BY <1>5, <3>1, MaxMember
    <3>. QED BY <3>1, <3>2
  <2>2. s \in Int
    BY <1>1, <2>1, TypeParts
  <2>3. exec' = [exec EXCEPT !.pc = "apply", !.saved = s, !.rev = v] /\ v \in Nat
    BY <1>1, <1>5
  <2>. HIDE DEF v, s
  <2>4. exec' \in Executions /\ exec'.pc = "apply" /\ exec'.rev = v /\ exec'.saved = s
    BY <1>1, <2>2, <2>3 DEF Executions, Places
  <2>5. Planned'
    BY <1>1, <1>2, <2>4 DEF Planned, v
  <2>6. att[s].edit # BadEdit
    BY <1>5 DEF s
  <2>. QED BY <1>0, <1>1, <2>1, <2>4, <2>5, <2>6, ProceedsAt DEF Resolved
<1>. QED BY <1>3, <1>4, <1>5 DEF ReplanRead

LEMMA ReplanFailedKeeps ==
  ASSUME Inv, ReplanFailed
  PROVE  Inv'
<1>0. /\ exec.pc = "failed" /\ UNCHANGED <<rec, kid, att, job, ctl, events, stuck>>
      /\ run' = [run EXCEPT ![Parent] = "stopped"]
  BY DEF ReplanFailed, At
<1>1. Types /\ Certain(Parent) /\ AllOff /\ exec.pc \notin {"call", "settle"}
  BY <1>0, Resumes DEF Resolved
<1>2. exec' \in Executions /\ exec'.pc = "drain" /\ exec'.rev = 0
  <2>1. PICK err \in SUBSET Errors : Exit(err)
    BY DEF ReplanFailed, Errors
  <2>. QED BY <1>1, <2>1, ExitExec
<1>3. /\ run' \in [Runs -> Statuses] /\ run'[Parent] = "stopped"
      /\ \A c \in Child : run'[c] = run[c]
  <2>1. run \in [Runs -> Statuses] /\ Parent \in Runs /\ \A c \in Child : c \in Runs /\ c # Parent
    BY <1>1, TypeParts
  <2>. QED BY <1>0, <2>1 DEF Statuses
<1>4. Types'
  BY <1>0, <1>1, <1>2, <1>3 DEF Types
<1>. QED BY <1>0, <1>1, <1>2, <1>3, <1>4, Leaves DEF Ends

LEMMA ApplyKeeps ==
  ASSUME Inv, Apply
  PROVE  Inv'
<1>0. exec.pc = "apply" /\ UNCHANGED <<att, job, ctl, events, stuck>>
  BY DEF Apply, At
<1>1. /\ Types /\ Certain(Parent) /\ run[Parent] # "completed" /\ AllOff
      /\ exec.pc \notin {"call", "settle"} /\ Bounded /\ rec \in Records
      /\ exec \in Executions /\ Revision \in Nat
  BY <1>0, Resumes, TypeParts DEF Resolved
<1>. DEFINE e == att[exec.saved].edit
<1>2. e \in Edits \cup {NoEdit}
  <2>1. exec.saved \in DOMAIN att /\ e # BadEdit
    BY <1>0, <1>1 DEF Bounded
  <2>2. att[exec.saved] \in Calls
    BY <1>1, <2>1, TypeParts
  <2>. QED BY <2>1, <2>2 DEF Calls
<1>3. CASE Exit({"error"}) /\ UNCHANGED <<rec, kid, run>>
  <2>1. {"error"} \in SUBSET Errors
    BY DEF Errors
  <2>. QED BY <1>0, <1>1, <1>3, <2>1, ExitKeeps
<1>4. CASE exec' = [Idle EXCEPT !.who = "continue", !.pc = "loop"]
  <2>1. exec' \in Executions /\ exec'.pc = "loop" /\ exec'.rev = 0
    BY <1>4, IdleExec DEF Executions, Places
  <2>2. CASE e \in Edits /\ EditOK(e) /\ ApplyEdit(e, "replanning")
    <3>1. EditMade(e.child) /\ e.child \in Child
      BY <1>1, <2>2, EditEffect
    <3>2. ctl' \in BOOLEAN /\ events' \in 0 .. MaxEvents
      BY <1>0, <1>1 DEF Types
    <3>. QED BY <1>0, <2>1, <3>1, <3>2, EditKeeps
  <2>3. CASE /\ rec' = [rec EXCEPT !.sources = Append(@, "replanning"), !.replan = 0,
                                   !.replanned = @ \cup exec.seen]
             /\ UNCHANGED <<kid, run>>
    <3>. DEFINE seen == rec.replanned \cup exec.seen
                n == rec.synth
    <3>1. seen \in SUBSET Child /\ n \in Int
      BY <1>1 DEF Records, Executions
    <3>2. rec' = [rec EXCEPT !.sources = Append(@, "replanning"), !.synth = n, !.replan = 0,
                             !.replanned = seen]
      BY <1>1, <2>3 DEF Records
    <3>3. "replanning" \in {"user", "limits", "replanning"}
      OBVIOUS
    <3>. HIDE DEF seen, n
    <3>4. Revises(n)
      BY <1>1, <3>1, <3>2, <3>3, RevisedRecord
    <3>5. Types'
      BY <1>0, <1>1, <2>1, <2>3, <3>4 DEF Types, Revises
    <3>6. Planned'
      BY <1>1, <2>1, <3>4 DEF Planned, Revises
    <3>. QED BY <1>0, <1>1, <2>1, <2>3, <3>4, <3>5, <3>6, Proceeds
         DEF Resolved, Revises, PlacesSame, n
  <2>4. NoEdit \notin Edits
    BY DEF NoEdit, Edits
  <2>. QED BY <1>0, <1>2, <1>3, <2>2, <2>3, <2>4 DEF Apply
<1>. QED BY <1>3, <1>4 DEF Apply

LEMMA FinalizeKeeps ==
  ASSUME Inv, Finalize
  PROVE  Inv'
<1>0. exec.pc = "finalize" /\ UNCHANGED <<rec, kid, att, run, job, ctl, events, stuck>>
  BY DEF Finalize, At
<1>1. /\ Types /\ Certain(Parent) /\ run[Parent] # "completed" /\ AllOff
      /\ exec.pc \notin {"call", "settle"} /\ Ending
  BY <1>0, Resumes DEF Resolved
<1>2. CASE Exit({}) \/ Exit({"error"})
  <2>1. {} \in SUBSET Errors /\ {"error"} \in SUBSET Errors
    BY DEF Errors
  <2>. QED BY <1>0, <1>1, <1>2, <2>1, ExitKeeps
<1>3. CASE exec.whole /\ Goto(IF rec.synthesis THEN "synthesize" ELSE "commit")
  <2>1. PICK p \in {"synthesize", "commit"} :
          /\ Goto(p) /\ (p = "synthesize" => rec.synthesis) /\ (p = "commit" => ~rec.synthesis)
    BY <1>3
  <2>2. Goes(p)
    BY <1>1, <2>1, GotoExec DEF Places
  <2>3. exec' \in Executions /\ exec'.pc = p /\ exec'.rev = exec.rev
    BY <2>2 DEF Goes
  <2>4. \A c \in Child : Certain(c) /\ run[c] # "waiting_confirmation"
    BY <1>0, <1>1, <1>3 DEF Ending, Quiet, Closing
  <2>5. Planned'
    <3>1. exec.rev = Revision => \A c \in Live : Done(c)
      BY <1>0, <1>1, <1>3 DEF Ending, Planned
    <3>2. exec.rev <= Revision /\ Revision' = Revision
      BY <1>0, <1>1 DEF Ending, Planned, Revision
    <3>3. Live' = Live /\ \A c \in Child : Done(c)' <=> Done(c)
      BY <1>0 DEF Live, Present, Done
    <3>4. Live \subseteq Child
      BY DEF Live, Present
    <3>5. exec'.rev = Revision' => \A c \in Live' : Done(c)'
      BY <2>3, <3>1, <3>2, <3>3, <3>4
    <3>. QED BY <2>3, <3>2, <3>5 DEF Planned
  <2>. QED BY <1>0, <1>1, <2>1, <2>3, <2>4, <2>5, ProceedsAt DEF Resolved
<1>. QED BY <1>2, <1>3 DEF Finalize

\* A synthesis that is not dispatched.
LEMMA SynthesizeKeeps ==
  ASSUME Inv, Synthesize, UNCHANGED <<rec, kid, att>>,
         ~(rec.synth = 0 /\ MaySynthesize)
  PROVE  Inv'
<1>0. exec.pc = "synthesize" /\ UNCHANGED <<run, job, ctl, events, stuck>>
  BY DEF Synthesize, At
<1>1. /\ Types /\ Certain(Parent) /\ run[Parent] # "completed" /\ AllOff
      /\ exec.pc \notin {"call", "settle"} /\ Ending
  BY <1>0, Resumes DEF Resolved
<1>2. CASE Exit({"error"}) \/ Exit({"limit"})
  <2>1. {"limit"} \in SUBSET Errors /\ {"error"} \in SUBSET Errors
    BY DEF Errors
  <2>. QED BY <1>0, <1>1, <1>2, <2>1, ExitKeeps
<1>3. CASE Goto("inspect") \/ Report("error") \/ Report("unknown")
  <2>1. "error" \in Errors /\ "unknown" \in Errors /\ "inspect" \in Places
    BY DEF Errors, Places
  <2>2. Goes("inspect")
    BY <1>1, <1>3, <2>1, GotoExec, ReportExec
  <2>3. exec' \in Executions /\ exec'.pc = "inspect" /\ exec'.rev = exec.rev
    BY <2>2 DEF Goes
  <2>4. \A c \in Child : Certain(c) /\ run[c] # "waiting_confirmation"
    BY <1>0, <1>1 DEF Ending, Quiet, Closing
  <2>5. rec.synthesis
    BY <1>0, <1>1 DEF Ending, Synthesised
  <2>6. Planned'
    BY <1>0, <1>1, <2>3 DEF Ending, Planned, Revision
  <2>. QED BY <1>0, <1>1, <2>3, <2>4, <2>5, <2>6, ProceedsAt
<1>. QED BY <1>2, <1>3 DEF Synthesize

LEMMA ReinspectKeeps ==
  ASSUME Inv, Reinspect
  PROVE  Inv'
<1>0. exec.pc = "inspect" /\ UNCHANGED <<rec, kid, att, run, job, ctl, events, stuck>>
  BY DEF Reinspect, At
<1>1. Types /\ Placed /\ ParentFlights /\ Ending
  BY DEF Inv, Plan
<1>2. AllOff
  BY <1>0, <1>1, OffOutside
<1>3. CASE Exit({})
  <2>1. {} \in SUBSET Errors
    OBVIOUS
  <2>. QED BY <1>0, <1>2, <1>3, <2>1, ExitKeeps
<1>4. CASE /\ run[Parent] # "unknown"
           /\ exec' = [exec EXCEPT !.pc = "commit", !.rev = Revision]
  <2>. DEFINE v == Revision
  <2>1. exec' = [exec EXCEPT !.pc = "commit", !.rev = v] /\ v \in Nat /\ exec \in Executions
    BY <1>1, <1>4, TypeParts
  <2>. HIDE DEF v
  <2>2. exec' \in Executions /\ exec'.pc = "commit" /\ exec'.rev = v
    BY <2>1 DEF Executions, Places
  <2>3. Certain(Parent)
    BY <1>0, <1>1, <1>4 DEF ParentFlights, Certain, Resolved
  <2>4. run[Parent] # "completed" /\ rec.synthesis
    BY <1>0, <1>1 DEF Ending, Quiet, Synthesised
  <2>5. \A c \in Child : Certain(c) /\ run[c] # "waiting_confirmation"
    BY <1>0, <1>1 DEF Ending, Quiet, Closing
  <2>6. Planned'
    BY <1>0, <2>1, <2>2, <2>4 DEF Planned, v, Revision
  <2>. QED BY <1>0, <1>2, <2>2, <2>3, <2>4, <2>5, <2>6, ProceedsAt DEF Resolved
<1>. QED BY <1>3, <1>4 DEF Reinspect

LEMMA CommitKeeps ==
  ASSUME Inv, Commit
  PROVE  Inv'
<1>0. exec.pc = "commit" /\ UNCHANGED <<rec, kid, att, job, ctl, events, stuck>>
  BY DEF Commit, At
<1>1. Types /\ AllOff /\ exec.pc \notin {"call", "settle"} /\ Ending
  BY <1>0, Resumes DEF Resolved
<1>2. {} \in SUBSET Errors /\ {"error"} \in SUBSET Errors
  BY DEF Errors
<1>3. CASE Exit({"error"}) /\ run' = run
  BY <1>0, <1>1, <1>2, <1>3, ExitKeeps
<1>4. CASE /\ rec.control = "running" /\ Revision = exec.rev
           /\ run' = [run EXCEPT ![Parent] = "completed"] /\ Exit({})
  <2>1. exec' \in Executions /\ exec'.pc = "drain" /\ exec'.rev = 0
    BY <1>1, <1>2, <1>4, ExitExec
  <2>2. run' \in [Runs -> Statuses] /\ \A c \in Child : run'[c] = run[c]
    <3>1. run \in [Runs -> Statuses] /\ Parent \in Runs /\ \A c \in Child : c \in Runs /\ c # Parent
      BY <1>1, TypeParts
    <3>. QED BY <1>4, <3>1 DEF Statuses
  <2>3. Types'
    BY <1>0, <1>1, <2>1, <2>2 DEF Types
  <2>4. ~rec.synthesis => \A c \in Live : Done(c)
    BY <1>0, <1>1, <1>4 DEF Ending, Planned
  <2>. QED BY <1>0, <1>1, <1>4, <2>1, <2>2, <2>3, <2>4, Leaves DEF Ends
<1>. QED BY <1>3, <1>4 DEF Commit

-----------------------------------------------------------------------------
(* The end of an execution.                                                   *)

LEMMA DrainReadKeeps ==
  ASSUME Inv, DrainRead
  PROVE  Inv'
<1>0. exec.pc = "drain" /\ UNCHANGED <<rec, kid, att, run, job, ctl, events, stuck>>
  BY DEF DrainRead, At
<1>1. Types /\ Placed /\ exec \in Executions
  BY TypeParts DEF Inv, Plan
<1>2. AllOff
  BY <1>0, <1>1, OffOutside
<1>. DEFINE t == {c \in Present : "cancelled" \in {kid[c].control, rec.control}}
                   \cup (IF rec.control = "cancelled" THEN {Parent} ELSE {})
<1>3. t \in SUBSET Runs /\ \A c \in Child \cap t : run[c] # "none"
  <2>1. Parent \in Runs /\ Parent \notin Child /\ \A c \in Child : c \in Runs
    BY <1>1, TypeParts
  <2>2. Present \subseteq Child /\ \A c \in Present : run[c] # "none"
    BY DEF Present
  <2>. QED BY <2>1, <2>2
<1>4. exec' = [exec EXCEPT !.pc = "draining", !.todo = t]
  BY DEF DrainRead
<1>. HIDE DEF t
<1>5. exec' \in Executions /\ exec'.pc = "draining" /\ exec'.rev = exec.rev /\ exec'.todo = t
  BY <1>1, <1>3, <1>4 DEF Executions, Places
<1>6. Types'
  BY <1>0, <1>1, <1>5 DEF Types
<1>. QED BY <1>0, <1>2, <1>3, <1>5, <1>6, Leaves DEF Ends

LEMMA PickStatusKeeps ==
  ASSUME Inv, PickStatus
  PROVE  Inv'
<1>0. exec.pc = "pick" /\ UNCHANGED <<rec, kid, att, run, job, ctl, events, stuck>>
  BY DEF PickStatus, At
<1>1. Types /\ Placed /\ exec \in Executions
  BY TypeParts DEF Inv, Plan
<1>2. AllOff
  BY <1>0, <1>1, OffOutside
<1>. DEFINE s == CASE run[Parent] # "running" -> "none"
                   [] run[Parent] = "running" /\ rec.control = "cancelled" -> "abandoned"
                   [] run[Parent] = "running" /\ rec.control # "cancelled" ->
                        IF \E c \in Present : run[c] = "unknown" THEN "unknown"
                        ELSE IF "limit" \in exec.err THEN "limited" ELSE "stopped"
<1>3. s \in Statuses \ {"completed"} /\ (s # "none" => run[Parent] = "running")
  <2>1. CASE run[Parent] # "running"
    BY <2>1 DEF Statuses
  <2>2. CASE run[Parent] = "running" /\ rec.control = "cancelled"
    BY <2>2 DEF Statuses
  <2>3. CASE run[Parent] = "running" /\ rec.control # "cancelled"
    BY <2>3 DEF Statuses
  <2>. QED BY <2>1, <2>2, <2>3
<1>4. exec' = [exec EXCEPT !.pc = "finish", !.status = s]
  BY DEF PickStatus
<1>. HIDE DEF s
<1>5. exec' \in Executions /\ exec'.pc = "finish" /\ exec'.rev = exec.rev /\ exec'.status = s
  BY <1>1, <1>3, <1>4 DEF Executions, Places
<1>6. Types'
  BY <1>0, <1>1, <1>5 DEF Types
<1>. QED BY <1>0, <1>2, <1>3, <1>5, <1>6, Leaves DEF Ends

LEMMA FinishParentKeeps ==
  ASSUME Inv, FinishParent
  PROVE  Inv'
<1>0. /\ exec.pc = "finish" /\ UNCHANGED <<rec, kid, att, job, ctl, events, stuck>> /\ exec' = Idle
      /\ run' = [run EXCEPT ![Parent] = IF exec.status = "none" THEN run[Parent] ELSE exec.status]
  BY DEF FinishParent, At
<1>1. Types /\ Placed /\ exec \in Executions /\ ParentFlights
  BY TypeParts DEF Inv, Plan
<1>2. AllOff
  BY <1>0, <1>1, OffOutside
<1>3. run \in [Runs -> Statuses] /\ Parent \in Runs /\ \A c \in Child : c \in Runs /\ c # Parent
  BY <1>1, TypeParts
<1>4. exec.status \in Statuses \ {"completed"}
  BY <1>1 DEF Executions
<1>5. /\ run' \in [Runs -> Statuses] /\ \A c \in Child : run'[c] = run[c]
      /\ run'[Parent] = (IF exec.status = "none" THEN run[Parent] ELSE exec.status)
  BY <1>0, <1>3, <1>4
<1>6. Types'
  BY <1>0, <1>1, <1>5, IdleExec DEF Types
<1>7. exec.status # "none" => Certain(Parent)
  <2>1. exec.status # "none" => run[Parent] = "running"
    BY <1>0, <1>1 DEF ParentFlights
  <2>. QED BY <1>0, <1>1, <2>1, ParentCertain
<1>8. \/ run'[Parent] = run[Parent]
      \/ run'[Parent] # "completed" /\ Certain(Parent)
  BY <1>4, <1>5, <1>7
<1>. QED BY <1>0, <1>2, <1>5, <1>6, <1>8, IdleExec, Leaves DEF Ends

\* A child is abandoned.
LEMMA DrainChild ==
  ASSUME Inv, exec.pc = "draining", NEW r \in Child, r \in exec.todo,
         UNCHANGED <<rec, kid, att, job, ctl, events, stuck>>,
         exec' = [exec EXCEPT !.todo = @ \ {r}],
         run' = [run EXCEPT ![r] = IF @ = "completed" \/ @ = "failed" THEN @ ELSE "abandoned"]
  PROVE  Inv'
<1>1. /\ Types /\ Bounded /\ Work /\ ParentFlights /\ Ending /\ UncertainStaysCharged
      /\ Placed /\ ActiveIsRunning /\ Begun /\ DependenciesFirst /\ DispatchedAsPlanned
      /\ WaitsLive /\ ChildFlights /\ OneFlight
  BY DEF Inv, Plan, Work
<1>2. AllOff
  BY <1>1, OffOutside
<1>3. /\ run \in [Runs -> Statuses] /\ Parent \in Runs /\ r # Parent /\ exec \in Executions
      /\ \A c \in Child : c \in Runs /\ kid[c].deps \in SUBSET Child
  BY <1>1, TypeParts DEF Kids
<1>4. /\ run' \in [Runs -> Statuses] /\ run'[Parent] = run[Parent]
      /\ \A c \in Child : c # r => run'[c] = run[c]
      /\ run'[r] = run[r] \/ run'[r] = "abandoned"
      /\ run[r] = "completed" => run'[r] = "completed"
  BY <1>3 DEF Statuses
<1>5. run[r] # "none"
  BY <1>1 DEF Bounded
<1>6. /\ exec' \in Executions /\ exec'.pc = "draining" /\ exec'.rev = exec.rev
      /\ exec'.todo \subseteq exec.todo
  <2>. DEFINE t == exec.todo \ {r}
  <2>1. t \in SUBSET Runs
    BY <1>3 DEF Executions
  <2>2. exec' = [exec EXCEPT !.todo = t]
    OBVIOUS
  <2>3. t \subseteq exec.todo
    OBVIOUS
  <2>. HIDE DEF t
  <2>. QED BY <1>3, <2>1, <2>2, <2>3 DEF Executions
<1>7. Types'
  BY <1>1, <1>4, <1>6 DEF Types
<1>8. \A c \in Child : /\ run[c] = "completed" <=> run'[c] = "completed"
                       /\ run[c] = "none" <=> run'[c] = "none"
  BY <1>4, <1>5
<1>9. Bounded'
  <2>1. \A c \in Child \cap exec'.todo : run'[c] # "none"
    BY <1>1, <1>6, <1>8 DEF Bounded
  <2>2. \A c \in Child : \A d \in kid[c].deps : run'[d] # "none"
    BY <1>1, <1>3, <1>8 DEF Bounded
  <2>. QED BY <1>1, <1>6, <2>1, <2>2 DEF Bounded
<1>10. Work'
  <2>1. Placed'
    BY <1>2 DEF Placed, AllOff
  <2>2. ActiveIsRunning' /\ OneFlight'
    BY <1>1 DEF ActiveIsRunning, OneFlight
  <2>3. Begun'
    <3>. SUFFICES ASSUME NEW d \in Child
                  PROVE  /\ run'[d] \in {"completed", "waiting_confirmation"} \/ kid[d].pending
                              => kid[d].steps > 0
                         /\ run'[d] = "none" => kid[d].steps = 0
                         /\ \A i \in DOMAIN att : att[i].run = d => kid[d].steps > 0
      BY DEF Begun
    <3>. QED BY <1>1, <1>4, <1>8 DEF Begun
  <2>4. DependenciesFirst'
    <3>. SUFFICES ASSUME NEW d \in Child, run'[d] # "none", kid[d].steps > 0,
                         NEW e \in kid[d].deps
                  PROVE  run'[e] = "completed"
      BY DEF DependenciesFirst, Present
    <3>. QED BY <1>1, <1>3, <1>8 DEF DependenciesFirst, Present
  <2>5. DispatchedAsPlanned'
    BY <1>1 DEF DispatchedAsPlanned
  <2>6. WaitsLive'
    BY <1>1, <1>4 DEF WaitsLive
  <2>7. ChildFlights'
    BY <1>1, <1>2, <1>4 DEF ChildFlights, AllOff
  <2>. QED BY <2>1, <2>2, <2>3, <2>4, <2>5, <2>6, <2>7 DEF Work, Plan
<1>11. ParentFlights'
  BY <1>1, <1>4, <1>6 DEF ParentFlights, Certain, Resolved
<1>12. UncertainStaysCharged'
  BY <1>1, ChargedSame
<1>13. Ending'
  <2>1. Planned'
    BY <1>1, <1>6 DEF Ending, Planned, Revision
  <2>2. Synthesised'
    BY <1>1, <1>6 DEF Ending, Synthesised
  <2>3. Quiet'
    <3>1. Closing' => Closing
      BY <1>4, <1>6 DEF Closing
    <3>2. \A c \in Child : run'[c] = "waiting_confirmation" => run[c] = "waiting_confirmation"
      BY <1>4
    <3>3. Closing' => \A c \in Child : Certain(c)' /\ run'[c] # "waiting_confirmation"
      BY <1>1, <3>1, <3>2 DEF Ending, Quiet, Certain
    <3>. QED BY <1>1, <1>4, <1>6, <3>3 DEF Ending, Quiet
  <2>4. \A c \in Child : c \in Live' <=> c \in Live
    BY <1>8 DEF Live, Present
  <2>5. Live \subseteq Child /\ Live' \subseteq Child
    BY DEF Live, Present
  <2>6. SynthesisCurrent' /\ DraftWhole'
    BY <1>1, <1>4, <1>8, <2>4, <2>5 DEF Ending, SynthesisCurrent, DraftWhole
  <2>7. ControlWins'
    BY <1>1, <1>4 DEF Ending, ControlWins
  <2>. QED BY <2>1, <2>2, <2>3, <2>6, <2>7 DEF Ending
<1>. QED BY <1>7, <1>9, <1>10, <1>11, <1>12, <1>13 DEF Inv, Work

LEMMA DrainKeeps ==
  ASSUME Inv, BudgetAssumption, Drain
  PROVE  Inv'
<1>0. exec.pc = "draining" /\ UNCHANGED <<rec, kid, att, job, ctl, events, stuck>>
  BY DEF Drain, At
<1>1. Types /\ Placed /\ exec \in Executions /\ exec.todo \in SUBSET Runs /\ Bounded
  BY TypeParts DEF Inv, Plan, Executions
<1>2. AllOff
  BY <1>0, <1>1, OffOutside
<1>3. run \in [Runs -> Statuses] /\ Parent \in Runs /\ \A c \in Child : c \in Runs /\ c # Parent
  BY <1>1, TypeParts
<1>4. CASE exec.todo = {}
  <2>1. run' = run /\ (exec' = Idle \/ exec' = [exec EXCEPT !.pc = "pick"])
    BY <1>4 DEF Drain
  <2>2. CASE exec' = Idle
    BY <1>0, <1>2, <2>1, <2>2, IdleKeeps
  <2>3. CASE exec' = [exec EXCEPT !.pc = "pick"]
    <3>1. exec' \in Executions /\ exec'.pc = "pick" /\ exec'.rev = exec.rev
      BY <1>1, <2>3 DEF Executions, Places
    <3>2. Types'
      BY <1>0, <1>1, <2>1, <3>1 DEF Types
    <3>. QED BY <1>0, <1>2, <2>1, <3>1, <3>2, Leaves DEF Ends
  <2>. QED BY <2>1, <2>2, <2>3
<1>5. CASE exec.todo = {Parent}
  <2>1. /\ exec' = [exec EXCEPT !.todo = @ \ {Parent}]
        /\ run' = [run EXCEPT ![Parent] = IF @ = "completed" THEN @ ELSE "abandoned"]
    BY <1>5 DEF Drain
  <2>2. /\ exec' \in Executions /\ exec'.pc = "draining" /\ exec'.rev = exec.rev
        /\ exec'.todo \subseteq exec.todo
    <3>. DEFINE t == exec.todo \ {Parent}
    <3>1. t \in SUBSET Runs /\ t \subseteq exec.todo
      BY <1>1
    <3>2. exec' = [exec EXCEPT !.todo = t]
      BY <2>1
    <3>. HIDE DEF t
    <3>. QED BY <1>0, <1>1, <3>1, <3>2 DEF Executions
  <2>3. /\ run' \in [Runs -> Statuses] /\ \A c \in Child : run'[c] = run[c]
        /\ run'[Parent] = run[Parent] \/ run'[Parent] = "abandoned"
    BY <1>3, <2>1 DEF Statuses
  <2>4. Types'
    BY <1>0, <1>1, <2>2, <2>3 DEF Types
  <2>5. \A c \in Child \cap exec'.todo : run[c] # "none"
    BY <1>0, <1>1, <2>2 DEF Bounded
  <2>. QED BY <1>0, <1>2, <2>2, <2>3, <2>4, <2>5, Leaves DEF Ends
<1>6. CASE exec.todo # {} /\ exec.todo # {Parent}
  <2>. DEFINE r == Min(exec.todo \ {Parent})
  <2>1. r \in exec.todo /\ r \in Child
    <3>1. exec.todo \ {Parent} \subseteq Nat /\ exec.todo \ {Parent} \subseteq Child
      BY <1>1 DEF Runs, Child, BudgetAssumption
    <3>2. exec.todo \ {Parent} # {}
      BY <1>6
    <3>3. r \in exec.todo \ {Parent}
      BY <3>1, <3>2, MinMember
    <3>. QED BY <3>1, <3>3
  <2>2. /\ exec' = [exec EXCEPT !.todo = @ \ {r}]
        /\ run' = [run EXCEPT ![r] = IF @ = "completed" \/ @ = "failed" THEN @ ELSE "abandoned"]
    BY <1>3, <1>6, <2>1 DEF Drain
  <2>. HIDE DEF r
  <2>. QED BY <1>0, <2>1, <2>2, DrainChild
<1>. QED BY <1>4, <1>5, <1>6

-----------------------------------------------------------------------------
(* Users.                                                                     *)

LEMMA UserKeeps ==
  ASSUME Inv, Types', Bounded', UNCHANGED <<att, run, exec, job, stuck>>,
         \A c \in Child : SameKid(c),
         rec'.active = rec.active, rec'.synth = rec.synth, rec'.synthesis = rec.synthesis,
         Revision' = Revision \/ (exec.pc = "idle" /\ Revision' = Revision + 1),
         run[Parent] # "completed" \/ rec'.control = rec.control
  PROVE  Inv'
<1>1. Types /\ ParentFlights /\ Planned /\ Ending /\ Placed /\ Quiet /\ Synthesised
  BY DEF Inv, Ending, Plan
<1>2. ParentFlights'
  BY <1>1 DEF ParentFlights, Certain
<1>3. AllOff \/ exec'.pc = "batch"
  BY <1>1, OffOutside
<1>4. Planned'
  <2>1. exec.rev <= Revision' /\ (exec.pc # "idle" => Revision' = Revision)
    BY <1>1, TypeParts DEF Planned, Executions
  <2>2. \A c \in Child : c \in Live' <=> c \in Live
    BY DEF Live, Present, SameKid
  <2>3. Live \subseteq Child /\ Live' \subseteq Child
    BY DEF Live, Present
  <2>4. exec.batch \in SUBSET Child
    BY <1>1, TypeParts DEF Executions
  <2>5. \A c \in Child : kid'[c].deps = kid[c].deps
    BY DEF SameKid
  <2>. QED BY <1>1, <2>1, <2>2, <2>3, <2>4, <2>5 DEF Planned, Done
<1>5. Closing' => \A c \in Child : Certain(c) /\ run[c] # "waiting_confirmation"
  BY <1>1 DEF Closing, Quiet
<1>6. run[Parent] = "completed" =>
        /\ exec.pc \in {"idle", "drain", "draining", "pick", "finish"}
        /\ rec'.control = "running" /\ (~rec.synthesis => \A c \in Live : Done(c))
  BY <1>1 DEF Quiet, Ending, ControlWins, DraftWhole, Done
<1>7. exec.pc \in {"synthesize", "inspect"} => rec.synthesis
  BY <1>1 DEF Synthesised
<1>. QED BY <1>2, <1>3, <1>4, <1>5, <1>6, <1>7, Turn DEF PlacesSame

LEMMA EventType ==
  ASSUME Types, BudgetAssumption, Event
  PROVE  events' \in 0 .. MaxEvents
BY DEF Types, Event, BudgetAssumption

LEMMA IncreaseLimitsKeeps ==
  ASSUME Inv, BudgetAssumption, IncreaseLimits
  PROVE  Inv'
<1>0. /\ exec.pc = "idle" /\ UNCHANGED <<kid, att, run, exec, job, ctl, stuck>>
      /\ Event
      /\ rec' = [rec EXCEPT !.raised = @ + 1, !.sources = Append(@, "limits")]
  BY DEF IncreaseLimits
<1>1. Types /\ Bounded
  BY DEF Inv
<1>2. /\ rec' \in Records /\ rec'.control = rec.control /\ rec'.active = rec.active
      /\ rec'.model = rec.model /\ rec'.tool = rec.tool /\ rec'.output = rec.output
      /\ rec'.raised = rec.raised + 1 /\ rec'.replans = rec.replans
      /\ rec'.replan = rec.replan /\ rec'.synth = rec.synth
      /\ rec'.synthesis = rec.synthesis /\ Revision' = Revision + 1
  BY <1>0, <1>1, LimitsRecord
<1>3. Types'
  BY <1>0, <1>1, <1>2, EventType DEF Types
<1>4. Bounded'
  <2>1. rec'.model \in 0 .. MaxModelCalls + rec'.raised
    <3>1. rec.raised \in Nat /\ MaxModelCalls \in Nat
      BY <1>1, TypeParts DEF Records, BudgetAssumption
    <3>2. rec.model \in 0 .. MaxModelCalls + rec.raised
      BY <1>1 DEF Bounded
    <3>. QED BY <1>2, <3>1, <3>2
  <2>. QED BY <1>0, <1>1, <1>2, <2>1 DEF Bounded
<1>5. \A c \in Child : SameKid(c)
  BY <1>0 DEF SameKid
<1>. QED BY <1>0, <1>2, <1>3, <1>4, <1>5, UserKeeps

\* The controls of the record and of its children.
LEMMA ControlOf ==
  ASSUME NEW action \in DOMAIN NextControl
  PROVE  NextControl[action] \in {"running", "paused", "cancelled"}
BY DEF NextControl

LEMMA ControlKeeps ==
  ASSUME Inv, BudgetAssumption, NEW action \in DOMAIN NextControl, Control(action)
  PROVE  Inv'
<1>0. UNCHANGED <<kid, att, run, exec, job, stuck>> /\ Event /\ ctl' \in BOOLEAN
  BY DEF Control
<1>1. Types /\ Bounded
  BY DEF Inv
<1>2. /\ rec' \in Records /\ SameBooks /\ SamePlan /\ rec'.active = rec.active
      /\ run[Parent] # "completed" \/ rec'.control = rec.control
  <2>1. CASE rec' = rec
    BY <1>1, <2>1, SameRecord
  <2>2. CASE run[Parent] # "completed" /\ rec' = [rec EXCEPT !.control = NextControl[action]]
    <3>. DEFINE s == NextControl[action]
    <3>1. s \in {"running", "paused", "cancelled"}
      BY ControlOf
    <3>2. rec' = [rec EXCEPT !.control = s]
      BY <2>2
    <3>. HIDE DEF s
    <3>. QED BY <1>1, <2>2, <3>1, <3>2, ControlRecord
  <2>. QED BY <2>1, <2>2 DEF Control
<1>3. Types'
  BY <1>0, <1>1, <1>2, EventType DEF Types
<1>4. Bounded'
  BY <1>0, <1>1, <1>2 DEF Bounded, SameBooks, SamePlan
<1>5. \A c \in Child : SameKid(c)
  BY <1>0 DEF SameKid
<1>6. Revision' = Revision
  BY <1>2 DEF SamePlan, Revision
<1>. QED BY <1>0, <1>2, <1>3, <1>4, <1>5, <1>6, UserKeeps DEF SamePlan

LEMMA ControlChildKeeps ==
  ASSUME Inv, BudgetAssumption, NEW action \in DOMAIN NextControl, NEW c \in Child,
         ControlChild(c, action)
  PROVE  Inv'
<1>0. UNCHANGED <<rec, att, run, exec, job, stuck>> /\ Event /\ ctl' \in BOOLEAN
  BY DEF ControlChild
<1>1. Types /\ Bounded /\ kid \in [Child -> Kids] /\ kid[c] \in Kids
  BY TypeParts DEF Inv
<1>2. kid' \in [Child -> Kids] /\ \A d \in Child : SameKid(d)
  <2>1. CASE kid' = kid
    BY <1>1, <2>1 DEF SameKid
  <2>2. CASE kid' = [kid EXCEPT ![c].control = NextControl[action]]
    <3>. DEFINE s == NextControl[action]
                k == [kid[c] EXCEPT !.control = s]
    <3>1. s \in {"running", "paused", "cancelled"}
      BY ControlOf
    <3>2. kid' = [kid EXCEPT ![c] = k]
      BY <2>2
    <3>. HIDE DEF s
    <3>3. /\ k \in Kids /\ k.retired = kid[c].retired /\ k.deps = kid[c].deps
          /\ k.spec = kid[c].spec /\ k.steps = kid[c].steps /\ k.pending = kid[c].pending
      BY <1>1, <3>1 DEF Kids
    <3>. HIDE DEF k
    <3>. QED BY <1>1, <3>2, <3>3 DEF SameKid
  <2>. QED BY <2>1, <2>2 DEF ControlChild
<1>3. Types'
  BY <1>0, <1>1, <1>2, EventType DEF Types
<1>4. Bounded'
  BY <1>0, <1>1, <1>2 DEF Bounded, SameKid
<1>5. Revision' = Revision
  BY <1>0 DEF Revision
<1>. QED BY <1>0, <1>2, <1>3, <1>4, <1>5, UserKeeps

LEMMA ControlDrainKeeps ==
  ASSUME Inv, ControlDrain
  PROVE  Inv'
<1>0. UNCHANGED <<rec, kid, att, run, job, events, stuck>> /\ ctl' = FALSE
  BY DEF ControlDrain
<1>1. Types /\ Placed /\ Bounded
  BY DEF Inv, Plan
<1>2. CASE exec.pc = "idle"
  <2>1. exec' = [Idle EXCEPT !.who = "control", !.pc = "drain"]
    BY <1>2 DEF ControlDrain
  <2>2. exec' \in Executions /\ exec'.pc = "drain" /\ exec'.rev = 0
    BY <2>1, IdleExec DEF Executions, Places
  <2>3. Types'
    BY <1>0, <1>1, <2>2 DEF Types
  <2>4. AllOff
    BY <1>1, <1>2, OffOutside
  <2>. QED BY <1>0, <1>2, <2>2, <2>3, <2>4, Leaves DEF Ends
<1>3. CASE exec.pc # "idle"
  <2>1. exec' = exec
    BY <1>3 DEF ControlDrain
  <2>2. Types'
    BY <1>0, <1>1, <2>1 DEF Types
  <2>3. Bounded'
    BY <1>0, <1>1, <2>1 DEF Bounded
  <2>4. \A c \in Child : SameKid(c)
    BY <1>0 DEF SameKid
  <2>5. Revision' = Revision
    BY <1>0 DEF Revision
  <2>. QED BY <1>0, <2>1, <2>2, <2>3, <2>4, <2>5, UserKeeps
<1>. QED BY <1>2, <1>3

-----------------------------------------------------------------------------
(* A batch starts.                                                            *)

LEMMA StartEffect ==
  ASSUME Types, NEW batch \in SUBSET Child,
         NEW pc \in [Child -> {"deliver", "continue", "tool"}], Start(batch, pc)
  PROVE  /\ rec' \in Records /\ SameBooks /\ SamePlan /\ rec'.control = rec.control
         /\ rec'.active = rec.active \cup batch
         /\ job' \in [Child -> Jobs]
         /\ \A c \in batch : job'[c].pc = pc[c] /\ job'[c].spec = kid[c].spec
         /\ \A c \in Child \ batch : job'[c] = job[c]
<1>1. /\ rec \in Records /\ job \in [Child -> Jobs] /\ \A c \in Child : kid[c] \in Kids
  BY TypeParts
<1>2. rec' \in Records /\ SameBooks /\ SamePlan /\ rec'.control = rec.control
      /\ rec'.active = rec.active \cup batch
  <2>. DEFINE S == rec.active \cup batch
  <2>1. S \in SUBSET Child
    BY <1>1 DEF Records
  <2>2. rec' = [rec EXCEPT !.active = S]
    BY DEF Start
  <2>. HIDE DEF S
  <2>3. rec' \in Records /\ SameBooks /\ SamePlan /\ rec'.control = rec.control /\ rec'.active = S
    BY <2>1, <2>2, ActiveRecord
  <2>. QED BY <2>3 DEF S
<1>. DEFINE J(c) == [Off EXCEPT !.pc = pc[c], !.spec = kid[c].spec]
<1>3. ASSUME NEW c \in Child
      PROVE  J(c) \in Jobs /\ J(c).pc = pc[c] /\ J(c).spec = kid[c].spec
  <2>. DEFINE p == pc[c]
              s == kid[c].spec
  <2>1. p \in {"deliver", "continue", "tool"} /\ s \in Nat
    BY <1>1 DEF Kids
  <2>. HIDE DEF p, s
  <2>2. LET j == [Off EXCEPT !.pc = p, !.spec = s] IN j \in Jobs /\ j.pc = p /\ j.spec = s
    BY <2>1 DEF Off, Jobs, Errors
  <2>. QED BY <2>2 DEF p, s
<1>4. job' = [c \in Child |-> IF c \in batch THEN J(c) ELSE job[c]]
  BY DEF Start
<1>. HIDE DEF J
<1>5. /\ job' \in [Child -> Jobs]
      /\ \A c \in batch : job'[c] = J(c) /\ \A d \in Child \ batch : job'[d] = job[d]
      /\ \A d \in Child \ batch : job'[d] = job[d]
  BY <1>1, <1>3, <1>4
<1>6. \A c \in batch : job'[c].pc = pc[c] /\ job'[c].spec = kid[c].spec
  BY <1>3, <1>5
<1>. QED BY <1>2, <1>5, <1>6

\* Nobody holds a place before it starts.
LEMMA StartWork ==
  ASSUME Types, Work, AllOff, UNCHANGED <<kid, att, stuck>>, exec'.pc = "batch",
         NEW batch \in SUBSET Child, rec'.active = rec.active \cup batch,
         \A c \in Child \ batch : job'[c] = job[c] /\ run'[c] = run[c],
         \A c \in batch : c \notin rec.active,
         \A c \in batch :
           /\ job'[c].spec = kid[c].spec /\ run[c] # "none" /\ ~kid[c].retired
           /\ \A d \in kid[c].deps : Done(d)
           /\ \/ run'[c] = run[c] /\ job'[c].pc \in {"deliver", "continue"}
              \/ /\ run[c] = "waiting_confirmation" /\ run'[c] = "running"
                 /\ job'[c].pc = "tool"
  PROVE  Work'
<1>0. /\ Placed /\ ActiveIsRunning /\ Begun /\ DependenciesFirst /\ DispatchedAsPlanned
      /\ WaitsLive /\ ChildFlights /\ OneFlight
  BY DEF Work, Plan
<1>1. \A c \in Child : kid[c].deps \in SUBSET Child
  BY TypeParts DEF Kids
<1>2. \A c \in Child : Done(c) => run'[c] = "completed"
  BY DEF Done
<1>3. Placed'
  <2>. SUFFICES ASSUME NEW d \in Child, job'[d].pc # "off"
                PROVE  /\ d \in rec'.active
                       /\ run'[d] # "none" /\ ~kid[d].retired /\ job'[d].spec = kid[d].spec
                       /\ \A e \in kid[d].deps : run'[e] = "completed"
                       /\ job'[d].pc \in {"model", "tool", "call", "settle"} => run'[d] = "running"
                       /\ job'[d].pc = "tool" => kid[d].steps > 0
    BY DEF Placed, Done
  <2>1. d \in batch
    BY DEF AllOff
  <2>2. run[d] = "waiting_confirmation" => kid[d].steps > 0
    BY <1>0 DEF Begun
  <2>. QED BY <1>1, <1>2, <2>1, <2>2
<1>4. ActiveIsRunning'
  <2>1. rec.active \subseteq Child
    BY TypeParts DEF Records
  <2>2. stuck = rec.active
    BY <1>0, <2>1 DEF ActiveIsRunning, AllOff
  <2>3. \A c \in rec.active : c \notin batch /\ job'[c].pc = "off"
    BY <2>1 DEF AllOff
  <2>4. \A c \in batch : c \notin stuck /\ job'[c].pc # "off"
    BY <2>2
  <2>. QED BY <2>2, <2>3, <2>4 DEF ActiveIsRunning
<1>5. Begun'
  BY <1>0 DEF Begun
<1>6. DependenciesFirst'
  <2>. SUFFICES ASSUME NEW d \in Child, run'[d] # "none", kid[d].steps > 0, NEW e \in kid[d].deps
                PROVE  run'[e] = "completed"
    BY DEF DependenciesFirst, Present
  <2>1. run[d] # "none"
    OBVIOUS
  <2>. QED BY <1>0, <1>1, <1>2, <2>1 DEF DependenciesFirst, Present, Done
<1>7. DispatchedAsPlanned' /\ OneFlight'
  BY <1>0 DEF DispatchedAsPlanned, OneFlight
<1>8. WaitsLive'
  BY <1>0 DEF WaitsLive
<1>9. ChildFlights'
  <2>1. \A c \in Child : job'[c].pc \notin {"call", "settle"}
    BY DEF AllOff
  <2>2. \A c \in Child : \A i \in DOMAIN att : att[i].run = c /\ att[i].status \in Waits =>
          run'[c] \in {"unknown", "abandoned"} /\ ~kid[c].retired
    BY <1>0 DEF ChildFlights, AllOff
  <2>. QED BY <2>1, <2>2 DEF ChildFlights
<1>. QED BY <1>3, <1>4, <1>5, <1>6, <1>7, <1>8, <1>9 DEF Work, Plan

LEMMA ActivateKeeps ==
  ASSUME Inv, Activate
  PROVE  Inv'
<1>0. exec.pc = "activate" /\ UNCHANGED <<kid, att, run, ctl, events, stuck>>
  BY DEF Activate, At
<1>1. /\ Types /\ Work /\ Ending /\ Bounded /\ Certain(Parent) /\ run[Parent] # "completed"
      /\ exec.pc \notin {"call", "settle"} /\ AllOff /\ exec \in Executions
  BY <1>0, Resumes DEF Resolved
<1>2. CASE \E err \in {"limit", "error"} : Exit({err}) /\ UNCHANGED <<rec, job>>
  <2>1. {"limit"} \in SUBSET Errors /\ {"error"} \in SUBSET Errors
    BY DEF Errors
  <2>. QED BY <1>0, <1>1, <1>2, <2>1, ExitKeeps
<1>3. CASE /\ Revision = exec.rev /\ MayActivate(exec.batch)
           /\ Start(exec.batch, FirstStep) /\ Goto("batch")
  <2>1. exec.batch \in SUBSET Child /\ FirstStep \in [Child -> {"deliver", "continue", "tool"}]
    BY <1>1 DEF Executions, FirstStep
  <2>2. /\ rec' \in Records /\ SameBooks /\ SamePlan /\ rec'.control = rec.control
        /\ rec'.active = rec.active \cup exec.batch /\ job' \in [Child -> Jobs]
        /\ \A c \in exec.batch : job'[c].pc = FirstStep[c] /\ job'[c].spec = kid[c].spec
        /\ \A c \in Child \ exec.batch : job'[c] = job[c]
    BY <1>1, <1>3, <2>1, StartEffect
  <2>3. \A c \in Child : FirstStep[c] \in {"deliver", "continue"}
    BY DEF FirstStep
  <2>4. Goes("batch")
    BY <1>1, <1>3, GotoExec DEF Places
  <2>5. exec' \in Executions /\ exec'.pc = "batch" /\ exec'.rev = exec.rev
    BY <2>4 DEF Goes
  <2>6. Types'
    BY <1>0, <1>1, <2>2, <2>5 DEF Types
  <2>7. \A c \in exec.batch : run[c] # "none" /\ \A d \in kid[c].deps : Done(d)
    BY <1>0, <1>1, <1>3 DEF Ending, Planned
  <2>8. \A c \in exec.batch : ~kid[c].retired
    BY <1>3 DEF MayActivate
  <2>9. Work'
    <3>. DEFINE b == exec.batch
    <3>1. \A c \in Child \ b : job'[c] = job[c] /\ run'[c] = run[c]
      BY <1>0, <2>2
    <3>2. \A c \in b :
            /\ job'[c].spec = kid[c].spec /\ run[c] # "none" /\ ~kid[c].retired
            /\ \A d \in kid[c].deps : Done(d)
            /\ run'[c] = run[c] /\ job'[c].pc \in {"deliver", "continue"}
      BY <1>0, <2>1, <2>2, <2>3, <2>7, <2>8
    <3>3. b \in SUBSET Child /\ rec'.active = rec.active \cup b
      BY <2>1, <2>2
    <3>4. \A c \in b : c \notin rec.active
      BY <1>3 DEF MayActivate
    <3>. HIDE DEF b
    <3>. QED BY <1>0, <1>1, <2>5, <3>1, <3>2, <3>3, <3>4, StartWork
  <2>10. Bounded'
    <3>1. \A c \in Child : run'[c] = run[c] /\ kid'[c].deps = kid[c].deps
      BY <1>0
    <3>. QED BY <1>0, <1>1, <2>2, <2>5, <3>1, SteadyBounded DEF SamePlan
  <2>11. ParentFlights'
    BY <1>0, <1>1, <2>5 DEF ParentFlights, Certain, Resolved
  <2>12. UncertainStaysCharged'
    BY <1>0, ChargedSame DEF Inv
  <2>13. Planned'
    BY <1>1, <2>2, <2>5 DEF Ending, Planned, SamePlan, Revision
  <2>14. \A i \in DOMAIN att : ~(att[i].purpose = "synthesis" /\ att[i].status = "dispatched")
    BY <1>0, <1>1 DEF Ending, Quiet
  <2>15. ~Closing'
    BY <1>0, <1>1, <2>5, <2>14 DEF Closing
  <2>16. ChildCallsSame
    BY <1>0 DEF ChildCallsSame
  <2>17. \A i \in DOMAIN att : att[i].purpose = "synthesis" => rec.synthesis
    BY <1>1 DEF Ending, Synthesised
  <2>18. Ending'
    BY <1>0, <1>1, <2>2, <2>5, <2>13, <2>14, <2>15, <2>16, <2>17, SteadyEnding DEF SamePlan
  <2>. QED BY <2>6, <2>9, <2>10, <2>11, <2>12, <2>18 DEF Inv, Work
<1>. QED BY <1>2, <1>3 DEF Activate

\* The places of a saved activation whose answer was lost.
LEMMA ActivateLostKeeps ==
  ASSUME Inv, BudgetAssumption, ActivateLost
  PROVE  Inv'
<1>0. /\ Types /\ Placed /\ ParentFlights /\ Ending /\ Bounded /\ Quiet /\ Planned /\ ActiveIsRunning
      /\ UNCHANGED <<kid, att, run, job, ctl>> /\ Event
  BY DEF Inv, Plan, Ending, ActivateLost
<1>1. PICK batch \in SUBSET Live :
        /\ \/ exec.pc = "activate" /\ Exit({"error"})
           \/ exec.pc = "idle" /\ exec' = exec
        /\ rec' = [rec EXCEPT !.active = @ \cup batch] /\ stuck' = stuck \cup batch
  BY DEF ActivateLost, At
<1>2. AllOff
  BY <1>0, <1>1, OffOutside
<1>3. /\ rec' \in Records /\ SameBooks /\ SamePlan /\ rec'.control = rec.control
      /\ rec'.active = rec.active \cup batch
  <2>. DEFINE S == rec.active \cup batch
  <2>1. S \in SUBSET Child
    BY <1>0, TypeParts DEF Records, Live, Present
  <2>2. rec' = [rec EXCEPT !.active = S]
    BY <1>1
  <2>. HIDE DEF S
  <2>3. rec' \in Records /\ SameBooks /\ SamePlan /\ rec'.control = rec.control /\ rec'.active = S
    BY <1>0, <2>1, <2>2, ActiveRecord
  <2>. QED BY <2>3 DEF S
<1>4. PlacesStuck
  <2>1. rec.active \subseteq Child
    BY <1>0, TypeParts DEF Records
  <2>2. stuck = rec.active
    BY <1>0, <1>2, <2>1 DEF ActiveIsRunning, AllOff
  <2>. QED BY <1>1, <1>3, <2>1, <2>2 DEF PlacesStuck, Live, Present
<1>5. /\ exec' \in Executions /\ exec'.pc \in {"idle", "drain"} /\ exec'.rev \in {0, exec.rev}
      /\ exec.pc \in {"idle", "activate"}
  <2>1. {"error"} \in SUBSET Errors
    BY DEF Errors
  <2>. QED BY <1>0, <1>1, <2>1, ExitExec, TypeParts
<1>6. Types'
  <2>1. events' \in 0 .. MaxEvents
    BY <1>0, EventType
  <2>. QED BY <1>0, <1>3, <1>5, <2>1 DEF Types
<1>7. \A c \in Child : run'[c] = run[c] /\ SameKid(c)
  BY <1>0 DEF SameKid
<1>8. Bounded'
  <2>1. \A c \in Child : run'[c] = run[c] /\ kid'[c].deps = kid[c].deps
    BY <1>0
  <2>. QED BY <1>0, <1>3, <1>5, <2>1, SteadyBounded DEF SamePlan
<1>9. ParentFlights'
  <2>1. Certain(Parent) \/ run[Parent] \in {"unknown", "abandoned"}
    BY <1>0, <1>5, ParentCertain
  <2>. QED BY <1>0, <1>5, <2>1 DEF ParentFlights, Certain, Resolved
<1>10. Planned'
  <2>1. exec.rev \in Nat /\ Revision \in Nat /\ exec.rev <= Revision
    BY <1>0, TypeParts DEF Executions, Planned
  <2>2. exec'.rev <= Revision /\ Revision' = Revision
    BY <1>3, <1>5, <2>1 DEF Revision, SamePlan
  <2>. QED BY <1>5, <2>2 DEF Planned
<1>11. \A i \in DOMAIN att : ~(att[i].purpose = "synthesis" /\ att[i].status = "dispatched")
  BY <1>0, <1>5 DEF Quiet
<1>12. Closing' => run[Parent] = "completed"
  BY <1>0, <1>5, <1>11 DEF Closing
<1>13. Closing' => \A c \in Child : Certain(c) /\ run[c] # "waiting_confirmation"
  BY <1>0, <1>12 DEF Closing, Quiet
<1>14. run'[Parent] = "completed" =>
         /\ rec'.control = "running" /\ (~rec.synthesis => \A c \in Live : Done(c))
  BY <1>0, <1>3 DEF Ending, ControlWins, DraftWhole, Done
<1>. QED BY <1>0, <1>2, <1>3, <1>4, <1>5, <1>6, <1>7, <1>8, <1>9, <1>10, <1>13, <1>14, Turn
     DEF SamePlan

LEMMA ChildConfirmKeeps ==
  ASSUME Inv, NEW c \in Child, ChildConfirm(c)
  PROVE  Inv'
<1>0. /\ exec.pc = "idle" /\ UNCHANGED <<kid, att, ctl, events, stuck>>
      /\ run[c] = "waiting_confirmation" /\ ~kid[c].retired /\ c \in Live /\ c \notin rec.active
      /\ Start({c}, [d \in Child |-> "tool"]) /\ run' = [run EXCEPT ![c] = "running"]
      /\ exec' = [Idle EXCEPT !.who = "confirm", !.pc = "batch", !.batch = {c}]
  BY DEF ChildConfirm, At, Live, MayActivate
<1>1. /\ Types /\ Work /\ Ending /\ Bounded /\ Placed /\ ParentFlights /\ Quiet
  BY DEF Inv, Work, Plan, Ending
<1>2. AllOff
  BY <1>0, <1>1, OffOutside
<1>3. run[Parent] # "completed"
  BY <1>0, <1>1 DEF Quiet, Closing
<1>4. {c} \in SUBSET Child /\ [d \in Child |-> "tool"] \in [Child -> {"deliver", "continue", "tool"}]
  OBVIOUS
<1>5. /\ rec' \in Records /\ SameBooks /\ SamePlan /\ rec'.control = rec.control
      /\ rec'.active = rec.active \cup {c} /\ job' \in [Child -> Jobs]
      /\ job'[c].pc = "tool" /\ job'[c].spec = kid[c].spec
      /\ \A d \in Child \ {c} : job'[d] = job[d]
  BY <1>0, <1>1, <1>4, StartEffect
<1>6. /\ run' \in [Runs -> Statuses] /\ run'[Parent] = run[Parent] /\ run'[c] = "running"
      /\ \A d \in Child : d # c => run'[d] = run[d]
  <2>1. run \in [Runs -> Statuses] /\ Parent \in Runs /\ \A d \in Child : d \in Runs /\ d # Parent
    BY <1>1, TypeParts
  <2>. QED BY <1>0, <2>1 DEF Statuses
<1>7. exec' \in Executions /\ exec'.pc = "batch" /\ exec'.who = "confirm" /\ exec'.rev = 0
  BY <1>0, <1>4, IdleExec DEF Executions, Places
<1>8. Types'
  BY <1>0, <1>1, <1>5, <1>6, <1>7 DEF Types
<1>9. \A d \in kid[c].deps : Done(d)
  BY <1>0, <1>1 DEF Work, Plan, Begun, DependenciesFirst, Present, Done
<1>10. Work'
  BY <1>0, <1>1, <1>2, <1>4, <1>5, <1>6, <1>7, <1>9, StartWork
<1>11. Bounded'
  <2>1. \A d \in Child : kid[d].deps \in SUBSET Child
    BY <1>1, TypeParts DEF Kids
  <2>2. \A d \in Child : run[d] # "none" => run'[d] # "none"
    BY <1>6
  <2>3. \A d \in Child : \A e \in kid'[d].deps : run'[e] # "none"
    BY <1>0, <1>1, <2>1, <2>2 DEF Bounded
  <2>. QED BY <1>0, <1>1, <1>5, <1>7, <2>3 DEF Bounded, SameBooks, SamePlan
<1>12. ParentFlights'
  BY <1>0, <1>1, <1>6, <1>7 DEF ParentFlights, Certain, Resolved
<1>13. UncertainStaysCharged'
  BY <1>0, ChargedSame DEF Inv
<1>14. Ending'
  <2>1. Planned'
    <3>1. Revision' = Revision /\ Revision \in Nat
      BY <1>1, <1>5, TypeParts DEF SamePlan, Revision
    <3>. QED BY <1>7, <3>1 DEF Planned
  <2>2. Synthesised'
    BY <1>0, <1>1, <1>5, <1>7 DEF Ending, Synthesised, SamePlan
  <2>3. \A i \in DOMAIN att : ~(att[i].purpose = "synthesis" /\ att[i].status = "dispatched")
    BY <1>0, <1>1 DEF Quiet
  <2>4. ~Closing'
    BY <1>0, <1>3, <1>6, <1>7, <2>3 DEF Closing
  <2>5. Quiet'
    BY <1>0, <1>3, <1>6, <2>3, <2>4 DEF Quiet
  <2>6. rec.synth = 0
    BY <1>0, <1>1 DEF Ending, SynthesisCurrent
  <2>7. SynthesisCurrent' /\ ControlWins' /\ DraftWhole'
    BY <1>3, <1>5, <1>6, <2>6 DEF SynthesisCurrent, ControlWins, DraftWhole, SamePlan
  <2>. QED BY <2>1, <2>2, <2>5, <2>7 DEF Ending
<1>. QED BY <1>8, <1>10, <1>11, <1>12, <1>13, <1>14 DEF Inv, Work

-----------------------------------------------------------------------------
(* The calls of the parent.                                                   *)

\* The call that the execution waits for is the only uncertain one of the parent.
LEMMA ParentFlight ==
  ASSUME Inv, exec.pc \in {"call", "settle"}
  PROVE  LET i == Flight(Parent)
         IN /\ i \in DOMAIN att /\ att[i].run = Parent /\ att[i].status = "dispatched"
            /\ att[i] \in Calls /\ att[i].purpose \in {"replanning", "synthesis"}
            /\ \A j \in DOMAIN att : att[j].run = Parent /\ att[j].status \in Waits => j = i
<1>. DEFINE i == Flight(Parent)
<1>1. Types /\ ParentFlights /\ OneFlight
  BY DEF Inv
<1>2. /\ \A j \in DOMAIN att : att[j].run = Parent => att[j].status # "unknown"
      /\ \E j \in DOMAIN att : /\ att[j].run = Parent /\ att[j].status = "dispatched"
                               /\ att[j].purpose \in {"replanning", "synthesis"}
  BY <1>1 DEF ParentFlights
<1>3. i \in DOMAIN att /\ att[i].run = Parent /\ att[i].status = "dispatched"
  BY <1>2, FlightCall
<1>4. att[i] \in Calls
  BY <1>1, <1>3, TypeParts
<1>. HIDE DEF i
<1>5. \A j \in DOMAIN att : att[j].run = Parent /\ att[j].status \in Waits => j = i
  BY <1>1, <1>2, <1>3 DEF OneFlight, Waits
<1>6. att[i].purpose \in {"replanning", "synthesis"}
  BY <1>2, <1>5 DEF Waits
<1>. QED BY <1>3, <1>4, <1>5, <1>6 DEF i

\* What the settlement of that call leaves alone.
SameAccounts ==
  /\ rec'.control = rec.control /\ rec'.sources = rec.sources /\ rec'.active = rec.active
  /\ rec'.raised = rec.raised /\ rec'.synthesis = rec.synthesis /\ rec'.model = rec.model
  /\ rec'.tool = rec.tool /\ rec'.replans = rec.replans /\ rec'.replan = rec.replan
  /\ rec'.synth = rec.synth
Settled(i) ==
  /\ Len(att') = Len(att) /\ DOMAIN att' = DOMAIN att
  /\ \A j \in DOMAIN att : j # i => att'[j] = att[j]
  /\ att'[i].run = att[i].run /\ att'[i].purpose = att[i].purpose

LEMMA ParentTurn ==
  ASSUME Inv, exec.pc \in {"call", "settle"}, Types', UncertainStaysCharged', SameAccounts,
         job' = job, stuck' = stuck, \A c \in Child : run'[c] = run[c] /\ SameKid(c), run'[Parent] # "completed",
         NEW i, i = Flight(Parent), Settled(i), exec'.rev \in {0, exec.rev},
         \/ att'[i].status = "dispatched" /\ exec'.pc = "settle"
         \/ /\ att'[i].status = "unknown" /\ run'[Parent] = "unknown"
            /\ exec'.pc \in {"drain", "inspect"}
         \/ /\ att'[i].status \notin Waits
            /\ exec'.pc \in {"drain", "inspect", "apply", "failed"},
         exec'.pc = "apply" => exec'.saved = i /\ att'[i].edit # BadEdit,
         exec'.pc = "inspect" => att[i].purpose = "synthesis"
  PROVE  Inv'
<1>1. /\ Types /\ Work /\ OneFlight /\ Placed /\ Ending /\ Quiet /\ Planned /\ Bounded
      /\ Synthesised
  BY DEF Inv, Work, Ending, Plan
<1>2. /\ i \in DOMAIN att /\ att[i].run = Parent /\ att[i].status = "dispatched"
      /\ att[i].purpose \in {"replanning", "synthesis"}
      /\ \A j \in DOMAIN att : att[j].run = Parent /\ att[j].status \in Waits => j = i
  BY ParentFlight
<1>3. AllOff
  BY <1>1, OffOutside
<1>4. ChildCallsSame
  BY <1>2 DEF ChildCallsSame, Settled
<1>5. OneFlight'
  <2>. SUFFICES ASSUME NEW j \in DOMAIN att', NEW k \in DOMAIN att', att'[j].run = att'[k].run,
                       att'[j].status = "dispatched", att'[k].status = "dispatched"
                PROVE  j = k
    BY DEF OneFlight
  <2>1. j \in DOMAIN att /\ k \in DOMAIN att /\ att[j].run = att'[j].run /\ att[k].run = att'[k].run
    BY DEF Settled
  <2>2. att[j].status = "dispatched" /\ att[k].status = "dispatched"
    BY <1>2, <2>1 DEF Settled
  <2>. QED BY <1>1, <2>1, <2>2 DEF OneFlight
<1>6. Work'
  BY <1>1, <1>3, <1>4, <1>5, SteadyWork DEF SameAccounts, PlacesSame
<1>7. \A j \in DOMAIN att' : att'[j].run = Parent /\ att'[j].status \in Waits => j = i
  BY <1>2 DEF Settled
<1>8. ParentFlights'
  <2>1. exec'.pc \in {"apply", "failed"} => att'[i].status \notin Waits
    BY DEF Waits
  <2>2. exec'.pc \in {"apply", "failed"} => Certain(Parent)'
    BY <1>7, <2>1 DEF Certain
  <2>3. exec'.pc = "settle" => att'[i].status = "dispatched"
    OBVIOUS
  <2>4. exec'.pc = "settle" =>
          /\ \A j \in DOMAIN att' : att'[j].run = Parent => att'[j].status # "unknown"
          /\ \E j \in DOMAIN att' : /\ att'[j].run = Parent /\ att'[j].status = "dispatched"
                                    /\ att'[j].purpose \in {"replanning", "synthesis"}
    BY <1>2, <1>7, <2>3 DEF Settled, Waits
  <2>5. exec'.pc \in {"drain", "inspect"} =>
          \A j \in DOMAIN att' : att'[j].run = Parent /\ att'[j].status \in Waits =>
            run'[Parent] = "unknown"
    BY <1>7 DEF Waits
  <2>6. exec'.pc \in {"apply", "failed", "settle", "drain", "inspect"}
    OBVIOUS
  <2>. QED BY <2>2, <2>4, <2>5, <2>6 DEF ParentFlights, Resolved
<1>9. Planned'
  <2>1. exec.rev \in Nat /\ Revision \in Nat /\ exec.rev <= Revision
    BY <1>1, TypeParts DEF Executions, Planned
  <2>2. exec'.rev <= Revision /\ Revision' = Revision
    BY <2>1 DEF Revision, SameAccounts
  <2>3. exec'.pc \notin {"activate", "finalize", "commit"}
    OBVIOUS
  <2>. QED BY <2>2, <2>3 DEF Planned
<1>10. Ending'
  <2>1. \A j \in DOMAIN att' : att'[j].purpose = att[j].purpose
                               /\ (att'[j].status = "dispatched" => att[j].status = "dispatched")
    BY <1>2 DEF Settled
  <2>2. att[i].purpose = "synthesis" => rec.synthesis
    BY <1>1, <1>2 DEF Synthesised
  <2>3. exec'.pc \in {"synthesize", "inspect"} => rec.synthesis
    BY <2>2
  <2>4. \A j \in DOMAIN att' : att'[j].purpose = "synthesis" => rec.synthesis
    BY <1>1, <2>1 DEF Synthesised, Settled
  <2>5. \A j \in DOMAIN att' : att'[j].purpose = "synthesis" /\ att'[j].status = "dispatched" =>
           att'[j].run = Parent /\ exec'.pc \in {"call", "settle"}
    <3>. SUFFICES ASSUME NEW j \in DOMAIN att', att'[j].purpose = "synthesis",
                         att'[j].status = "dispatched"
                  PROVE  att'[j].run = Parent /\ exec'.pc \in {"call", "settle"}
      OBVIOUS
    <3>1. att[j].run = Parent /\ j \in DOMAIN att
      BY <1>1, <2>1 DEF Quiet, Settled
    <3>2. j = i
      BY <1>2, <2>1, <3>1 DEF Waits
    <3>. QED BY <1>2, <3>1, <3>2 DEF Settled, Waits
  <2>6. Closing' => Closing
    <3>1. exec'.pc \notin {"finalize", "synthesize", "commit"}
      OBVIOUS
    <3>2. exec'.pc = "inspect" => Closing
      BY <1>2 DEF Closing
    <3>3. (\E j \in DOMAIN att' : att'[j].purpose = "synthesis" /\ att'[j].status = "dispatched")
            => Closing
      BY <2>1 DEF Closing, Settled
    <3>. QED BY <3>1, <3>2, <3>3 DEF Closing
  <2>7. Closing' => \A c \in Child : Certain(c) /\ run[c] # "waiting_confirmation"
    BY <1>1, <2>6 DEF Quiet
  <2>8. \A c \in Child : run'[c] = run[c] /\ kid'[c].retired = kid[c].retired
    BY DEF SameKid
  <2>9. rec'.synthesis = rec.synthesis /\ rec'.synth = rec.synth
    BY DEF SameAccounts
  <2>. QED BY <1>1, <1>4, <1>9, <2>3, <2>4, <2>5, <2>7, <2>8, <2>9, SteadyEnding
<1>11. Bounded'
  <2>1. \A c \in Child : kid[c].deps \in SUBSET Child /\ kid'[c].deps = kid[c].deps
    BY <1>1, TypeParts DEF Kids, SameKid
  <2>2. exec'.pc # "draining"
    OBVIOUS
  <2>3. exec'.pc = "apply" => exec'.saved \in DOMAIN att' /\ att'[exec'.saved].edit # BadEdit
    BY <1>2 DEF Settled
  <2>. QED BY <1>1, <2>1, <2>2, <2>3 DEF Bounded, SameAccounts, Settled
<1>. QED BY <1>6, <1>8, <1>10, <1>11 DEF Inv, Work

\* A call of the parent is dispatched.
LEMMA ParentReserves ==
  ASSUME Inv, BudgetAssumption, exec.pc \in {"propose", "synthesize"},
         NEW purpose \in {"replanning", "synthesis"}, Reserve(Parent, "model", purpose, 0),
         Fits(Parent, "model"), Goto("call"), UNCHANGED <<run, job, ctl, events, stuck>>,
         purpose = "replanning" => rec.replans < MaxReplans,
         purpose = "synthesis" => exec.pc = "synthesize" /\ \A c \in Live : Done(c)
  PROVE  Inv'
<1>1. /\ Types /\ Work /\ Ending /\ Bounded /\ Certain(Parent) /\ run[Parent] # "completed"
      /\ AllOff /\ exec.rev \in Nat /\ Revision \in Nat /\ exec.rev <= Revision
  BY Resumes DEF Resolved
<1>2. Parent \in Runs /\ "model" \in Kinds /\ purpose \in Purposes /\ 0 \in Nat
  BY <1>1, TypeParts DEF Kinds, Purposes
<1>. DEFINE n == Len(att) + 1
<1>3. /\ att' \in Seq(Calls) /\ Len(att') = n /\ \A i \in DOMAIN att : att'[i] = att[i]
      /\ att'[n] = NewAttempt(Parent, "model", purpose, 0)
      /\ DOMAIN att' = DOMAIN att \cup {n} /\ n \notin DOMAIN att
  BY <1>1, <1>2, ReserveAttempt
<1>4. att'[n].run = Parent /\ att'[n].purpose = purpose /\ att'[n].status = "dispatched"
  BY <1>3 DEF NewAttempt
<1>5. /\ rec' \in Records /\ rec'.control = rec.control /\ rec'.sources = rec.sources
      /\ rec'.active = rec.active /\ rec'.raised = rec.raised
      /\ rec'.synthesis = rec.synthesis
      /\ rec'.replans = (IF purpose = "replanning" THEN rec.replans + 1 ELSE rec.replans)
      /\ rec'.replan = (IF purpose = "replanning" THEN n ELSE rec.replan)
      /\ rec'.synth = (IF purpose = "synthesis" THEN n ELSE rec.synth)
  BY <1>1, <1>2, ReserveRecord
<1>6. kid' = kid
  BY DEF Reserve
<1>7. Goes("call")
  BY <1>1, GotoExec DEF Places
<1>8. exec' \in Executions /\ exec'.pc = "call" /\ exec'.rev = exec.rev
  BY <1>7 DEF Goes
<1>9. Types'
  BY <1>1, <1>3, <1>5, <1>6, <1>8 DEF Types
<1>10. UncertainStaysCharged'
  BY <1>1, <1>2, ChargedReserve DEF Inv
<1>11. Len(att) \in Nat /\ n \in Nat
  BY <1>1, TypeParts
<1>12. Bounded'
  <2>1. rec'.model \in 0 .. MaxModelCalls + rec'.raised /\ rec'.tool \in 0 .. MaxToolCalls
    BY <1>1, <1>2, FitsLimits
  <2>2. rec'.replans \in 0 .. MaxReplans
    <3>1. rec.replans \in 0 .. MaxReplans /\ MaxReplans \in Nat
      BY <1>1 DEF Bounded, BudgetAssumption
    <3>. QED BY <1>5, <3>1
  <2>3. rec'.replan \in 0 .. Len(att') /\ rec'.synth \in 0 .. Len(att')
    <3>1. rec.replan \in 0 .. Len(att) /\ rec.synth \in 0 .. Len(att)
      BY <1>1 DEF Bounded
    <3>. QED BY <1>3, <1>5, <1>11, <3>1
  <2>4. \A c \in Child : \A d \in kid'[c].deps : run'[d] # "none"
    BY <1>1, <1>6 DEF Bounded
  <2>. QED BY <1>8, <2>1, <2>2, <2>3, <2>4 DEF Bounded
<1>. HIDE DEF n
<1>13. ChildCallsSame
  BY <1>3, <1>4 DEF ChildCallsSame
<1>14. \A i \in DOMAIN att' : att'[i].run = Parent /\ att'[i].status \in Waits => i = n
  BY <1>1, <1>3 DEF Certain
<1>15. OneFlight'
  <2>. SUFFICES ASSUME NEW j \in DOMAIN att', NEW k \in DOMAIN att', att'[j].run = att'[k].run,
                       att'[j].status = "dispatched", att'[k].status = "dispatched"
                PROVE  j = k
    BY DEF OneFlight
  <2>1. CASE att'[j].run = Parent
    BY <1>14, <2>1 DEF Waits
  <2>2. CASE att'[j].run # Parent
    <3>1. j \in DOMAIN att /\ k \in DOMAIN att
      BY <1>3, <1>4, <2>2
    <3>. QED BY <1>1, <1>3, <3>1 DEF OneFlight, Work
  <2>. QED BY <2>1, <2>2
<1>16. \A c \in Child : run'[c] = run[c] /\ SameKid(c)
  BY <1>6 DEF SameKid
<1>17. Work'
  BY <1>1, <1>5, <1>13, <1>15, <1>16, SteadyWork DEF PlacesSame
<1>18. ParentFlights'
  <2>1. \A i \in DOMAIN att' : att'[i].run = Parent => att'[i].status # "unknown"
    BY <1>4, <1>14 DEF Waits
  <2>2. \E i \in DOMAIN att' : /\ att'[i].run = Parent /\ att'[i].status = "dispatched"
                               /\ att'[i].purpose \in {"replanning", "synthesis"}
    BY <1>3, <1>4
  <2>. QED BY <1>8, <2>1, <2>2 DEF ParentFlights, Resolved
<1>19. Planned'
  BY <1>1, <1>5, <1>8 DEF Planned, Revision
<1>20. Ending'
  <2>1. exec.pc = "synthesize" => rec.synthesis
    BY <1>1 DEF Ending, Synthesised
  <2>2. \A i \in DOMAIN att' : att'[i].purpose = "synthesis" => rec.synthesis
    BY <1>1, <1>3, <1>4, <2>1 DEF Ending, Synthesised
  <2>3. \A i \in DOMAIN att : ~(att[i].purpose = "synthesis" /\ att[i].status = "dispatched")
    BY <1>1 DEF Ending, Quiet
  <2>4. \A i \in DOMAIN att' : att'[i].purpose = "synthesis" /\ att'[i].status = "dispatched" =>
           i = n /\ purpose = "synthesis"
    BY <1>3, <1>4, <2>3
  <2>5. Closing' => purpose = "synthesis"
    BY <1>1, <1>8, <2>4 DEF Closing
  <2>6. Closing' => \A c \in Child : Certain(c) /\ run[c] # "waiting_confirmation"
    BY <1>1, <2>5, WholeQuiet
  <2>7. \A c \in Child : run'[c] = run[c] /\ kid'[c].retired = kid[c].retired
    BY <1>6
  <2>8. rec'.synth = rec.synth \/ \A c \in Live : Done(c)
    BY <1>5
  <2>9. run'[Parent] # "completed"
    BY <1>1
  <2>. QED BY <1>1, <1>4, <1>5, <1>8, <1>13, <1>19, <2>2, <2>4, <2>6, <2>7, <2>8, <2>9, SteadyEnding
<1>. QED BY <1>9, <1>10, <1>12, <1>17, <1>18, <1>20 DEF Inv, Work

LEMMA ProposeKeeps ==
  ASSUME Inv, BudgetAssumption, Propose
  PROVE  Inv'
<1>0. exec.pc = "propose" /\ UNCHANGED <<run, job, ctl, events, stuck>>
  BY DEF Propose, At
<1>1. AllOff /\ exec.pc \notin {"call", "settle"}
  BY <1>0, Resumes DEF Resolved
<1>2. CASE (Exit({"limit"}) \/ Exit({"error"})) /\ UNCHANGED <<rec, kid, att>>
  <2>1. {"limit"} \in SUBSET Errors /\ {"error"} \in SUBSET Errors
    BY DEF Errors
  <2>. QED BY <1>0, <1>1, <1>2, <2>1, ExitKeeps
<1>3. CASE MayPropose /\ Reserve(Parent, "model", "replanning", 0) /\ Goto("call")
  <2>1. rec.replans < MaxReplans /\ Fits(Parent, "model")
    BY <1>3 DEF MayPropose
  <2>. QED BY <1>0, <1>3, <2>1, ParentReserves
<1>. QED BY <1>2, <1>3 DEF Propose

LEMMA SynthesizeStep ==
  ASSUME Inv, BudgetAssumption, Synthesize
  PROVE  Inv'
<1>0. exec.pc = "synthesize" /\ UNCHANGED <<run, job, ctl, events, stuck>>
  BY DEF Synthesize, At
<1>1. CASE UNCHANGED <<rec, kid, att>> /\ ~(rec.synth = 0 /\ MaySynthesize)
  BY <1>1, SynthesizeKeeps
<1>2. CASE MaySynthesize /\ Reserve(Parent, "model", "synthesis", 0) /\ Goto("call")
  <2>1. Fits(Parent, "model") /\ \A c \in Live : Done(c)
    BY <1>2 DEF MaySynthesize, AllComplete, Done
  <2>. QED BY <1>0, <1>2, <2>1, ParentReserves
<1>. QED BY <1>1, <1>2 DEF Synthesize

\* The call of the parent is recorded again.
LEMMA ParentRecords ==
  ASSUME Inv, exec.pc \in {"call", "settle"}, NEW i, i = Flight(Parent), NEW next \in Calls,
         Record(i, next), next.run = Parent, next.purpose = att[i].purpose,
         next.kind = att[i].kind, next.spec = att[i].spec
  PROVE  /\ Settles(Parent, i, next) /\ SameAccounts /\ Settled(i) /\ att'[i] = next
         /\ rec' \in Records /\ kid' \in [Child -> Kids] /\ att' \in Seq(Calls)
         /\ \A c \in Child : SameKid(c)
<1>1. Types
  BY DEF Inv
<1>2. i \in DOMAIN att /\ att[i].run = Parent /\ att[i].status = "dispatched"
  BY ParentFlight
<1>3. /\ Corrects(i, next) /\ kid' \in [Child -> Kids]
      /\ \A c \in Child : c # next.run => kid'[c] = kid[c]
  BY <1>1, <1>2, RecordKid
<1>4. \A c \in Child : kid'[c] = kid[c]
  BY <1>1, <1>3, TypeParts
<1>5. rec' \in Records /\ SameAccounts
  BY <1>1, <1>2, <1>3, CorrectsRecord DEF SameAccounts
<1>6. /\ att' \in Seq(Calls) /\ Len(att') = Len(att) /\ DOMAIN att' = DOMAIN att
      /\ att'[i] = next /\ \A j \in DOMAIN att : j # i => att'[j] = att[j]
  BY <1>1, <1>2, <1>3, CorrectsAttempt
<1>7. Settles(Parent, i, next)
  BY <1>2, <1>3 DEF Settles
<1>8. Settled(i)
  BY <1>2, <1>6 DEF Settled
<1>. QED BY <1>3, <1>4, <1>5, <1>6, <1>7, <1>8 DEF SameKid

\* The new status of the parent alone.
LEMMA ParentStatus ==
  ASSUME Types, NEW s \in Statuses, run' = [run EXCEPT ![Parent] = s]
  PROVE  /\ run' \in [Runs -> Statuses] /\ run'[Parent] = s
         /\ \A c \in Child : run'[c] = run[c]
<1>1. run \in [Runs -> Statuses] /\ Parent \in Runs /\ \A c \in Child : c \in Runs /\ c # Parent
  BY TypeParts
<1>. QED BY <1>1

LEMMA ParentObserveKeeps ==
  ASSUME Inv, BudgetAssumption, ParentObserve
  PROVE  Inv'
<1>. DEFINE i == Flight(Parent)
<1>0. exec.pc = "call" /\ UNCHANGED <<run, job, ctl, events, stuck>>
  BY DEF ParentObserve, At
<1>1. PICK size \in Sizes : /\ Record(i, Billed(att[i], size, FALSE))
                            /\ exec' = [exec EXCEPT !.pc = "settle", !.over = Over(i)]
  BY DEF ParentObserve
<1>2. /\ i \in DOMAIN att /\ att[i].run = Parent /\ att[i].status = "dispatched"
      /\ att[i] \in Calls
  BY <1>0, ParentFlight
<1>3. size \in Nat /\ FALSE \in BOOLEAN /\ Types /\ UncertainStaysCharged /\ Quiet
  BY DEF BudgetAssumption, Inv, Ending
<1>. DEFINE next == Billed(att[i], size, FALSE)
            over == Over(i)
<1>4. /\ next \in Calls /\ next.run = Parent /\ next.purpose = att[i].purpose
      /\ next.kind = att[i].kind /\ next.spec = att[i].spec /\ next.status = "dispatched"
  BY <1>2, <1>3, BilledCall
<1>5. next.bytes >= next.observed /\ next.bytes >= CallOutput /\ ~next.final
  BY <1>2, <1>3, ChargedBilled
<1>6. over \in BOOLEAN
  BY DEF Over
<1>7. Record(i, next) /\ exec' = [exec EXCEPT !.pc = "settle", !.over = over] /\ exec \in Executions
  BY <1>1, <1>3, TypeParts
<1>. HIDE DEF next, over, i
<1>8. exec' \in Executions /\ exec'.pc = "settle" /\ exec'.rev = exec.rev
  BY <1>6, <1>7 DEF Executions, Places
<1>9. i = Flight(Parent)
  BY DEF i
<1>10. /\ Settles(Parent, i, next) /\ SameAccounts /\ Settled(i) /\ att'[i] = next
       /\ rec' \in Records /\ kid' \in [Child -> Kids] /\ att' \in Seq(Calls)
       /\ \A c \in Child : SameKid(c)
  BY <1>0, <1>4, <1>7, <1>9, ParentRecords
<1>11. UncertainStaysCharged'
  BY <1>3, <1>5, <1>10, ChargedSettling
<1>12. Types'
  BY <1>0, <1>3, <1>8, <1>10 DEF Types
<1>13. run'[Parent] # "completed"
  BY <1>0, <1>3 DEF Quiet
<1>. QED BY <1>0, <1>4, <1>8, <1>9, <1>10, <1>11, <1>12, <1>13, ParentTurn

LEMMA ParentFailKeeps ==
  ASSUME Inv, BudgetAssumption, ParentFail
  PROVE  Inv'
<1>. DEFINE i == Flight(Parent)
            b == Billed(att[i], 0, FALSE)
            next == [b EXCEPT !.status = "failed"]
<1>0. /\ exec.pc = "settle" /\ UNCHANGED <<job, ctl, events, stuck>>
      /\ run' = [run EXCEPT ![Parent] = "failed"] /\ Record(i, next)
  BY DEF ParentFail, At
<1>1. \/ att[i].purpose = "replanning" /\ Goto("failed")
      \/ att[i].purpose = "synthesis" /\ (Exit({"limit"}) \/ Report("error"))
  <2>1. att[i].purpose \in {"replanning", "synthesis"}
    BY <1>0, ParentFlight
  <2>. QED BY <2>1 DEF ParentFail
<1>2. /\ i \in DOMAIN att /\ att[i].run = Parent /\ att[i].status = "dispatched"
      /\ att[i] \in Calls
  BY <1>0, ParentFlight
<1>3. 0 \in Nat /\ FALSE \in BOOLEAN /\ Types /\ UncertainStaysCharged
  BY DEF Inv
<1>4. /\ b \in Calls /\ b.run = Parent /\ b.purpose = att[i].purpose
      /\ b.kind = att[i].kind /\ b.spec = att[i].spec
  BY <1>2, <1>3, BilledCall
<1>5. b.bytes >= b.observed /\ b.bytes >= CallOutput /\ ~b.final
  BY <1>2, <1>3, ChargedBilled
<1>. HIDE DEF b
<1>6. /\ next \in Calls /\ next.run = b.run /\ next.kind = b.kind /\ next.purpose = b.purpose
      /\ next.spec = b.spec /\ next.final = b.final /\ next.observed = b.observed
      /\ next.bytes = b.bytes /\ next.status = "failed"
  BY <1>4 DEF Calls
<1>7. /\ exec' \in Executions /\ exec'.rev \in {0, exec.rev}
      /\ exec'.pc \in {"drain", "inspect", "failed"}
      /\ exec'.pc = "inspect" => att[i].purpose = "synthesis"
  <2>1. {"limit"} \in SUBSET Errors /\ "error" \in Errors /\ "failed" \in Places
    BY DEF Errors, Places
  <2>2. CASE Goto("failed")
    BY <1>3, <2>1, <2>2, GotoExec DEF Goes
  <2>3. CASE att[i].purpose = "synthesis" /\ Exit({"limit"})
    BY <1>3, <2>1, <2>3, ExitExec
  <2>4. CASE att[i].purpose = "synthesis" /\ Report("error")
    BY <1>3, <2>1, <2>4, ReportExec DEF Goes
  <2>. QED BY <1>1, <2>2, <2>3, <2>4
<1>. HIDE DEF next, i
<1>9. i = Flight(Parent)
  BY DEF i
<1>10. /\ Settles(Parent, i, next) /\ SameAccounts /\ Settled(i) /\ att'[i] = next
       /\ rec' \in Records /\ kid' \in [Child -> Kids] /\ att' \in Seq(Calls)
       /\ \A c \in Child : SameKid(c)
  BY <1>0, <1>4, <1>6, <1>9, ParentRecords
<1>11. UncertainStaysCharged'
  BY <1>3, <1>5, <1>6, <1>10, ChargedSettling
<1>12. /\ run' \in [Runs -> Statuses] /\ run'[Parent] = "failed"
       /\ \A c \in Child : run'[c] = run[c]
  BY <1>0, <1>3, ParentStatus DEF Statuses
<1>13. Types'
  BY <1>0, <1>3, <1>7, <1>10, <1>12 DEF Types
<1>14. att'[i].status \notin Waits
  BY <1>6, <1>10 DEF Waits
<1>. QED BY <1>0, <1>7, <1>9, <1>10, <1>11, <1>12, <1>13, <1>14, ParentTurn

LEMMA ParentFinishKeeps ==
  ASSUME Inv, BudgetAssumption, ParentFinish
  PROVE  Inv'
<1>. DEFINE i == Flight(Parent)
            b == Billed(att[i], 0, TRUE)
<1>0. exec.pc = "settle" /\ UNCHANGED <<job, ctl, events, stuck>>
  BY DEF ParentFinish, At
<1>1. PICK e \in Edits \cup {NoEdit, BadEdit} :
        /\ Record(i, [b EXCEPT !.status = "finished", !.edit = e])
        /\ LET over == exec.over \/ Over(i)
           IN /\ run' = [run EXCEPT ![Parent] = IF over THEN "limited"
                                                ELSE IF rec.control = "cancelled" THEN "abandoned"
                                                ELSE @]
              /\ CASE over -> Exit({"limit"})
                   [] ~over /\ e = BadEdit -> Exit({"error"})
                   [] ~over /\ e # BadEdit ->
                        exec' = [exec EXCEPT !.saved = i,
                                   !.pc = IF att[i].purpose = "synthesis" THEN "inspect" ELSE "apply"]
  BY DEF ParentFinish
<1>. DEFINE next == [b EXCEPT !.status = "finished", !.edit = e]
<1>2. /\ i \in DOMAIN att /\ att[i].run = Parent /\ att[i].status = "dispatched"
      /\ att[i] \in Calls
  BY <1>0, ParentFlight
<1>3. 0 \in Nat /\ TRUE \in BOOLEAN /\ Types /\ UncertainStaysCharged /\ Quiet
  BY DEF Inv, Ending
<1>4. /\ b \in Calls /\ b.run = Parent /\ b.purpose = att[i].purpose
      /\ b.kind = att[i].kind /\ b.spec = att[i].spec
  BY <1>2, <1>3, BilledCall
<1>5. b.bytes >= b.observed
  BY <1>2, <1>3, ChargedBilled
<1>. HIDE DEF b
<1>6. /\ next \in Calls /\ next.run = b.run /\ next.kind = b.kind /\ next.purpose = b.purpose
      /\ next.spec = b.spec /\ next.observed = b.observed
      /\ next.bytes = b.bytes /\ next.status = "finished" /\ next.edit = e
  BY <1>4 DEF Calls
<1>7. Record(i, next)
  BY <1>1
<1>8. PICK s \in {"limited", "abandoned", run[Parent]} : run' = [run EXCEPT ![Parent] = s]
  BY <1>1
<1>9. run[Parent] \in Statuses /\ run[Parent] # "completed"
  <2>1. run \in [Runs -> Statuses] /\ Parent \in Runs
    BY <1>3, TypeParts
  <2>. QED BY <1>0, <1>3, <2>1 DEF Quiet
<1>10. /\ run' \in [Runs -> Statuses] /\ run'[Parent] # "completed"
       /\ \A c \in Child : run'[c] = run[c]
  <2>1. s \in Statuses /\ s # "completed"
    BY <1>9 DEF Statuses
  <2>. QED BY <1>3, <1>8, <2>1, ParentStatus
<1>11. /\ exec' \in Executions /\ exec'.rev \in {0, exec.rev}
       /\ exec'.pc \in {"drain", "inspect", "apply"}
       /\ exec'.pc = "apply" => exec'.saved = i /\ e # BadEdit
       /\ exec'.pc = "inspect" => att[i].purpose = "synthesis"
  <2>1. {"limit"} \in SUBSET Errors /\ {"error"} \in SUBSET Errors
    BY DEF Errors
  <2>2. CASE Exit({"limit"}) \/ Exit({"error"})
    BY <1>3, <2>1, <2>2, ExitExec
  <2>3. CASE /\ e # BadEdit
             /\ exec' = [exec EXCEPT !.saved = i,
                           !.pc = IF att[i].purpose = "synthesis" THEN "inspect" ELSE "apply"]
    <3>. DEFINE p == IF att[i].purpose = "synthesis" THEN "inspect" ELSE "apply"
    <3>1. i \in Int /\ exec \in Executions
      BY <1>2, <1>3, TypeParts
    <3>2. p \in {"inspect", "apply"} /\ (p = "inspect" => att[i].purpose = "synthesis")
      OBVIOUS
    <3>3. exec' = [exec EXCEPT !.saved = i, !.pc = p]
      BY <2>3
    <3>. HIDE DEF p, i
    <3>4. exec' \in Executions /\ exec'.pc = p /\ exec'.rev = exec.rev /\ exec'.saved = i
      BY <3>1, <3>2, <3>3 DEF Executions, Places
    <3>. QED BY <2>3, <3>2, <3>4
  <2>. QED BY <1>1, <2>2, <2>3
<1>. HIDE DEF next, i
<1>12. i = Flight(Parent)
  BY DEF i
<1>13. /\ Settles(Parent, i, next) /\ SameAccounts /\ Settled(i) /\ att'[i] = next
       /\ rec' \in Records /\ kid' \in [Child -> Kids] /\ att' \in Seq(Calls)
       /\ \A c \in Child : SameKid(c)
  BY <1>0, <1>4, <1>6, <1>7, <1>12, ParentRecords
<1>14. UncertainStaysCharged'
  BY <1>3, <1>5, <1>6, <1>13, ChargedSettling
<1>15. Types'
  BY <1>0, <1>3, <1>10, <1>11, <1>13 DEF Types
<1>16. att'[i].status \notin Waits /\ (exec'.pc = "apply" => exec'.saved = i /\ att'[i].edit # BadEdit)
  BY <1>6, <1>11, <1>13 DEF Waits
<1>. QED BY <1>0, <1>10, <1>11, <1>12, <1>13, <1>14, <1>15, <1>16, ParentTurn

LEMMA ParentLoseKeeps ==
  ASSUME Inv, ParentLose
  PROVE  Inv'
<1>. DEFINE i == Flight(Parent)
<1>0. /\ exec.pc = "settle" /\ UNCHANGED <<rec, kid, job, ctl, events, stuck>>
      /\ run' = [run EXCEPT ![Parent] = "unknown"]
      /\ att' = [att EXCEPT ![i].status = "unknown"]
      /\ IF att[i].purpose = "synthesis" THEN Report("unknown") ELSE Exit({"unknown"})
  BY DEF ParentLose, At
<1>1. i \in DOMAIN att /\ att[i].run = Parent /\ att[i].status = "dispatched"
  BY <1>0, ParentFlight
<1>2. Types /\ UncertainStaysCharged
  BY DEF Inv
<1>3. /\ exec' \in Executions /\ exec'.rev \in {0, exec.rev} /\ exec'.pc \in {"drain", "inspect"}
      /\ exec'.pc = "inspect" => att[i].purpose = "synthesis"
  <2>1. {"unknown"} \in SUBSET Errors /\ "unknown" \in Errors
    BY DEF Errors
  <2>2. CASE att[i].purpose = "synthesis" /\ Report("unknown")
    BY <1>2, <2>1, <2>2, ReportExec DEF Goes
  <2>3. CASE Exit({"unknown"})
    BY <1>2, <2>1, <2>3, ExitExec
  <2>. QED BY <1>0, <2>2, <2>3
<1>. HIDE DEF i
<1>4. i = Flight(Parent)
  BY DEF i
<1>5. /\ att' \in Seq(Calls) /\ Settled(i) /\ att'[i].status = "unknown"
  BY <1>0, <1>1, <1>2, UnknownCall DEF Settled
<1>6. UncertainStaysCharged'
  BY <1>0, <1>1, <1>2, ChargedLosing
<1>7. /\ run' \in [Runs -> Statuses] /\ run'[Parent] = "unknown"
      /\ \A c \in Child : run'[c] = run[c]
  BY <1>0, <1>2, ParentStatus DEF Statuses
<1>8. Types'
  BY <1>0, <1>2, <1>3, <1>5, <1>7 DEF Types
<1>9. SameAccounts
  BY <1>0 DEF SameAccounts
<1>10. \A c \in Child : run'[c] = run[c] /\ SameKid(c)
  BY <1>0, <1>7 DEF SameKid
<1>. QED BY <1>0, <1>3, <1>4, <1>5, <1>6, <1>7, <1>8, <1>9, <1>10, ParentTurn

-----------------------------------------------------------------------------
(* The Owner dies.                                                            *)

\* Every call that was in flight is UNKNOWN, and nothing else about it changes.
LEMMA RestartCalls ==
  ASSUME Types,
         att' = [i \in DOMAIN att |-> IF att[i].status = "dispatched"
                                      THEN [att[i] EXCEPT !.status = "unknown"] ELSE att[i]]
  PROVE  /\ att' \in Seq(Calls) /\ Len(att') = Len(att) /\ DOMAIN att' = DOMAIN att
         /\ \A i \in DOMAIN att :
              /\ att'[i].run = att[i].run /\ att'[i].kind = att[i].kind
              /\ att'[i].purpose = att[i].purpose /\ att'[i].spec = att[i].spec
              /\ att'[i].bytes = att[i].bytes /\ att'[i].observed = att[i].observed
              /\ att'[i].final = att[i].final /\ att'[i].status # "dispatched"
              /\ att'[i].status \in Waits <=> att[i].status \in Waits
              /\ att'[i].status = "finished" => att[i].status = "finished"
<1>1. Len(att) \in Nat /\ DOMAIN att = 1 .. Len(att) /\ \A i \in DOMAIN att : att[i] \in Calls
  BY TypeParts
<1>2. ASSUME NEW i \in DOMAIN att
      PROVE  /\ att'[i] \in Calls
             /\ att'[i].run = att[i].run /\ att'[i].kind = att[i].kind
             /\ att'[i].purpose = att[i].purpose /\ att'[i].spec = att[i].spec
             /\ att'[i].bytes = att[i].bytes /\ att'[i].observed = att[i].observed
             /\ att'[i].final = att[i].final /\ att'[i].status # "dispatched"
             /\ att'[i].status \in Waits <=> att[i].status \in Waits
             /\ att'[i].status = "finished" => att[i].status = "finished"
  <2>1. att[i] \in Calls
    BY <1>1
  <2>2. att'[i] = IF att[i].status = "dispatched"
                  THEN [att[i] EXCEPT !.status = "unknown"] ELSE att[i]
    OBVIOUS
  <2>3. CASE att[i].status = "dispatched"
    <3>. DEFINE a == att[i]
                b == [a EXCEPT !.status = "unknown"]
    <3>1. a \in Calls /\ a.status = "dispatched" /\ att'[i] = b
      BY <2>1, <2>2, <2>3
    <3>. HIDE DEF a
    <3>2. b \in Calls /\ b.run = a.run /\ b.kind = a.kind /\ b.purpose = a.purpose
          /\ b.spec = a.spec /\ b.bytes = a.bytes /\ b.observed = a.observed
          /\ b.final = a.final /\ b.status = "unknown"
      BY <3>1 DEF Calls
    <3>. HIDE DEF b
    <3>3. a = att[i]
      BY DEF a
    <3>. QED BY <3>1, <3>2, <3>3 DEF Waits
  <2>4. CASE att[i].status # "dispatched"
    BY <2>1, <2>2, <2>4
  <2>. QED BY <2>3, <2>4
<1>3. DOMAIN att' = 1 .. Len(att) /\ att' \in [1 .. Len(att) -> Calls]
  BY <1>1, <1>2
<1>4. att' \in Seq(Calls) /\ Len(att') = Len(att)
  BY <1>1, <1>3
<1>. QED BY <1>1, <1>2, <1>3, <1>4

\* What recovery makes of a Run.
LEMMA RecoveredRuns ==
  ASSUME Types, run' = [r \in DOMAIN run |-> Recovered(r)]
  PROVE  /\ run' \in [Runs -> Statuses]
         /\ \A r \in Runs : /\ ~Certain(r) => run'[r] \in {"unknown", "abandoned"}
                            /\ run'[r] \in {"unknown", "stopped", run[r]}
                            /\ Certain(r) /\ run[r] # "running" => run'[r] = run[r]
<1>1. run \in [Runs -> Statuses] /\ DOMAIN run = Runs
  BY TypeParts
<1>2. \A r : Uncertain(r) <=> ~Certain(r)
  BY DEF Uncertain, Certain, Waits
<1>3. ASSUME NEW r \in Runs
      PROVE  /\ run'[r] \in Statuses /\ run'[r] = Recovered(r)
             /\ ~Certain(r) => run'[r] \in {"unknown", "abandoned"}
             /\ run'[r] \in {"unknown", "stopped", run[r]}
             /\ Certain(r) /\ run[r] # "running" => run'[r] = run[r]
  <2>1. run'[r] = Recovered(r) /\ run[r] \in Statuses
    BY <1>1
  <2>2. CASE Uncertain(r) /\ run[r] # "abandoned"
    BY <1>2, <2>1, <2>2 DEF Recovered, Statuses
  <2>3. CASE run[r] = "running" /\ ~Uncertain(r)
    BY <1>2, <2>1, <2>3 DEF Recovered, Statuses
  <2>4. CASE ~(Uncertain(r) /\ run[r] # "abandoned") /\ ~(run[r] = "running" /\ ~Uncertain(r))
    <3>1. run'[r] = run[r]
      BY <2>1, <2>4 DEF Recovered
    <3>. QED BY <1>2, <2>1, <2>4, <3>1
  <2>. QED BY <2>2, <2>3, <2>4
<1>. QED BY <1>1, <1>3

LEMMA RestartKeeps ==
  ASSUME Inv, BudgetAssumption, Restart
  PROVE  Inv'
<1>0. /\ kid' = kid /\ exec' = Idle /\ job' = [c \in Child |-> Off] /\ ctl' = FALSE /\ Event
      /\ rec' = [rec EXCEPT !.active = {}] /\ run' = [r \in DOMAIN run |-> Recovered(r)]
      /\ stuck' = {}
  BY DEF Restart
<1>1. /\ Types /\ Bounded /\ UncertainStaysCharged /\ Placed /\ Begun /\ DependenciesFirst
      /\ DispatchedAsPlanned /\ ChildFlights /\ ParentFlights /\ WaitsLive /\ Quiet
      /\ Synthesised /\ SynthesisCurrent /\ ControlWins /\ DraftWhole
  BY DEF Inv, Plan, Ending
<1>2. /\ att' \in Seq(Calls) /\ Len(att') = Len(att) /\ DOMAIN att' = DOMAIN att
      /\ \A i \in DOMAIN att :
           /\ att'[i].run = att[i].run /\ att'[i].kind = att[i].kind
           /\ att'[i].purpose = att[i].purpose /\ att'[i].spec = att[i].spec
           /\ att'[i].bytes = att[i].bytes /\ att'[i].observed = att[i].observed
           /\ att'[i].final = att[i].final /\ att'[i].status # "dispatched"
           /\ att'[i].status \in Waits <=> att[i].status \in Waits
           /\ att'[i].status = "finished" => att[i].status = "finished"
  BY <1>1, RestartCalls DEF Restart
<1>3. /\ run' \in [Runs -> Statuses]
      /\ \A r \in Runs : /\ ~Certain(r) => run'[r] \in {"unknown", "abandoned"}
                         /\ run'[r] \in {"unknown", "stopped", run[r]}
                         /\ Certain(r) /\ run[r] # "running" => run'[r] = run[r]
  BY <1>0, <1>1, RecoveredRuns
<1>4. /\ rec' \in Records /\ SameBooks /\ SamePlan /\ rec'.control = rec.control
      /\ rec'.active = {}
  BY <1>0, <1>1, ActiveRecord
<1>5. Off \in Jobs /\ Off.pc = "off"
  BY DEF Off, Jobs
<1>6. job' \in [Child -> Jobs] /\ \A c \in Child : job'[c].pc = "off"
  BY <1>0, <1>5
<1>7. Types'
  <2>1. events' \in 0 .. MaxEvents
    BY <1>0, <1>1, EventType
  <2>2. ctl' \in BOOLEAN
    BY <1>0
  <2>3. exec' \in Executions /\ kid' \in [Child -> Kids]
    BY <1>0, <1>1, IdleExec, TypeParts
  <2>. QED BY <1>2, <1>3, <1>4, <1>6, <2>1, <2>2, <2>3 DEF Types
<1>8. \A c \in Child : c \in Runs /\ c # Parent
  BY <1>1, TypeParts
<1>9. Parent \in Runs
  BY <1>1, TypeParts
\* The children keep their results, and an uncertain one is live.
<1>10. ASSUME NEW c \in Child
       PROVE  /\ run[c] \in {"completed", "none"} => run'[c] = run[c]
              /\ run'[c] \in {"completed", "none", "waiting_confirmation"} => run'[c] = run[c]
              /\ Certain(c)' <=> Certain(c)
              /\ ~Certain(c) => ~kid[c].retired
  <2>1. run[c] = "none" => Certain(c)
    <3>1. run[c] = "none" => \A i \in DOMAIN att : att[i].run # c
      <4>1. kid[c].steps \in Nat
        BY <1>1, TypeParts DEF Kids
      <4>. QED BY <1>1, <4>1 DEF Begun
    <3>. QED BY <3>1 DEF Certain
  <2>2. ~Certain(c) => run[c] \in {"unknown", "abandoned", "running"} /\ ~kid[c].retired
    BY <1>1 DEF Certain, ChildFlights, Placed
  <2>3. Certain(c)' <=> Certain(c)
    BY <1>2 DEF Certain
  <2>4. run[c] \in {"completed", "none"} => run'[c] = run[c]
    BY <1>3, <1>8, <2>2
  <2>5. run'[c] \in {"completed", "none", "waiting_confirmation"} => run'[c] = run[c]
    BY <1>3, <1>8
  <2>. QED BY <2>2, <2>3, <2>4, <2>5
<1>11. \A c \in Child : kid[c].deps \in SUBSET Child
  BY <1>1, TypeParts DEF Kids
<1>12. Bounded'
  <2>1. \A c \in Child : \A d \in kid'[c].deps : run'[d] # "none"
    BY <1>0, <1>1, <1>10, <1>11 DEF Bounded
  <2>. QED BY <1>0, <1>1, <1>2, <1>4, <2>1, IdleExec DEF Bounded, SameBooks, SamePlan
<1>13. UncertainStaysCharged'
  <2>1. ASSUME NEW i \in DOMAIN att'
        PROVE  /\ att'[i].bytes >= att'[i].observed
               /\ att'[i].status # "finished" => att'[i].bytes >= CallOutput /\ ~att'[i].final
    <3>1. /\ i \in DOMAIN att /\ att'[i].bytes = att[i].bytes /\ att'[i].observed = att[i].observed
          /\ att'[i].final = att[i].final
      BY <1>2
    <3>2. att'[i].status # "finished" => att[i].status # "finished"
      <4>1. att[i].status = "finished" => att'[i] = att[i]
        BY <3>1 DEF Restart
      <4>. QED BY <4>1
    <3>. QED BY <1>1, <3>1, <3>2 DEF UncertainStaysCharged
  <2>. QED BY <2>1 DEF UncertainStaysCharged
<1>14. Plan'
  <2>1. Placed' /\ ActiveIsRunning'
    BY <1>0, <1>4, <1>6 DEF Placed, ActiveIsRunning
  <2>2. Begun'
    BY <1>0, <1>1, <1>2, <1>10 DEF Begun
  <2>3. DependenciesFirst'
    <3>. SUFFICES ASSUME NEW c \in Child, run'[c] # "none", kid'[c].steps > 0,
                         NEW d \in kid'[c].deps
                  PROVE  run'[d] = "completed"
      BY DEF DependenciesFirst, Present
    <3>1. run[c] # "none" /\ kid[c].steps > 0 /\ d \in kid[c].deps
      BY <1>0, <1>10
    <3>2. run[d] = "completed" /\ d \in Child
      BY <1>1, <1>11, <3>1 DEF DependenciesFirst, Present
    <3>. QED BY <1>10, <3>2
  <2>4. DispatchedAsPlanned'
    BY <1>0, <1>1, <1>2 DEF DispatchedAsPlanned
  <2>. QED BY <2>1, <2>2, <2>3, <2>4 DEF Plan
<1>15. ChildFlights'
  <2>. SUFFICES ASSUME NEW c \in Child, NEW i \in DOMAIN att', att'[i].run = c,
                       att'[i].status \in Waits
                PROVE  run'[c] \in {"unknown", "abandoned"} /\ ~kid'[c].retired
    BY <1>6 DEF ChildFlights
  <2>1. ~Certain(c)
    BY <1>2 DEF Certain
  <2>. QED BY <1>0, <1>3, <1>8, <1>10, <2>1
<1>16. OneFlight' /\ WaitsLive'
  BY <1>0, <1>1, <1>2, <1>10 DEF OneFlight, WaitsLive
<1>17. ParentFlights'
  <2>1. \A i \in DOMAIN att' : att'[i].run = Parent /\ att'[i].status \in Waits =>
          run'[Parent] \in {"unknown", "abandoned"}
    BY <1>2, <1>3, <1>9 DEF Certain
  <2>. QED BY <1>0, <2>1, IdleExec DEF ParentFlights, Resolved
<1>18. Ending'
  <2>1. Planned'
    <3>1. Revision' = Revision /\ Revision \in Nat
      BY <1>1, <1>4, TypeParts DEF Revision, SamePlan
    <3>. QED BY <1>0, <3>1, IdleExec DEF Planned
  <2>2. Synthesised'
    BY <1>0, <1>1, <1>2, <1>4, IdleExec DEF Synthesised, SamePlan
  <2>3. run'[Parent] = "completed" => run[Parent] = "completed"
    BY <1>3, <1>9
  <2>4. Closing' => run'[Parent] = "completed"
    BY <1>0, <1>2, IdleExec DEF Closing
  <2>5. Quiet'
    <3>1. Closing' => \A c \in Child : Certain(c) /\ run[c] # "waiting_confirmation"
      BY <1>1, <2>3, <2>4 DEF Quiet, Closing
    <3>2. Closing' => \A c \in Child : Certain(c)' /\ run'[c] # "waiting_confirmation"
      BY <1>10, <3>1
    <3>. QED BY <1>0, <1>2, <3>2, IdleExec DEF Quiet
  <2>6. \A c \in Child : c \in Live' <=> c \in Live
    BY <1>0, <1>10 DEF Live, Present
  <2>7. Live \subseteq Child /\ Live' \subseteq Child
    BY DEF Live, Present
  <2>8. SynthesisCurrent'
    BY <1>1, <1>4, <1>10, <2>6, <2>7 DEF SynthesisCurrent, SamePlan
  <2>9. ControlWins' /\ DraftWhole'
    BY <1>1, <1>4, <1>10, <2>3, <2>6, <2>7 DEF ControlWins, DraftWhole, SamePlan
  <2>. QED BY <2>1, <2>2, <2>5, <2>8, <2>9 DEF Ending
<1>. QED BY <1>7, <1>12, <1>13, <1>14, <1>15, <1>16, <1>17, <1>18 DEF Inv

-----------------------------------------------------------------------------

LEMMA InitKeeps ==
  ASSUME BudgetAssumption, Init
  PROVE  Inv
<1>0. /\ att = << >> /\ exec = Idle /\ job = [c \in Child |-> Off] /\ ctl = FALSE /\ events = 0
      /\ stuck = {}
  BY DEF Init
<1>1. PICK synthesis \in BOOLEAN :
        rec = [control |-> "running", sources |-> <<"user">>, active |-> {},
               model |-> 0, tool |-> 0, output |-> 0, raised |-> 0, replans |-> 0,
               replan |-> 0, replanned |-> {}, synthesis |-> synthesis, synth |-> 0]
  BY DEF Init
<1>2. PICK n \in Initial : \E deps \in [1 .. n -> SUBSET (1 .. n)] :
        /\ kid = [c \in Child |-> NewKid(IF c <= n THEN deps[c] ELSE {}, 1)]
        /\ run = [r \in {Parent} \cup Child |-> IF r <= n THEN "stopped" ELSE "none"]
  BY DEF Init
<1>3. PICK deps \in [1 .. n -> SUBSET (1 .. n)] :
        /\ kid = [c \in Child |-> NewKid(IF c <= n THEN deps[c] ELSE {}, 1)]
        /\ run = [r \in {Parent} \cup Child |-> IF r <= n THEN "stopped" ELSE "none"]
  BY <1>2
<1>4. n \in 1 .. MaxChildren /\ MaxChildren \in Nat
  BY DEF BudgetAssumption
<1>5. /\ rec \in Records /\ rec.active = {} /\ rec.model = 0 /\ rec.tool = 0 /\ rec.raised = 0
      /\ rec.replans = 0 /\ rec.replan = 0 /\ rec.synth = 0 /\ Revision = 1
  <2>1. <<"user">> \in Seq({"user", "limits", "replanning"}) /\ Len(<<"user">>) = 1
    OBVIOUS
  <2>2. rec \in Records
    BY <1>1, <2>1 DEF Records
  <2>. QED BY <1>1, <2>1, <2>2 DEF Revision
<1>6. ASSUME NEW c \in Child
      PROVE  /\ kid[c] \in Kids /\ ~kid[c].retired /\ kid[c].steps = 0 /\ ~kid[c].pending
             /\ kid[c].deps \subseteq 1 .. n
             /\ run[c] \in {"stopped", "none"} /\ (c <= n => run[c] = "stopped") /\ c \in Nat
             /\ kid[c].output = 0
  <2>. DEFINE D == IF c <= n THEN deps[c] ELSE {}
  <2>1. D \subseteq 1 .. n
    BY <1>4 DEF Child
  <2>2. kid[c] = NewKid(D, 1)
    BY <1>3
  <2>3. 1 .. n \subseteq Child
    BY <1>4 DEF Child
  <2>. HIDE DEF D
  <2>4. D \in SUBSET Child /\ 1 \in Nat
    BY <2>1, <2>3
  <2>5. kid[c] \in Kids /\ ~kid[c].retired /\ kid[c].steps = 0 /\ ~kid[c].pending
        /\ kid[c].deps = D /\ kid[c].output = 0
    BY <2>2, <2>4 DEF NewKid, Kids
  <2>6. run[c] \in {"stopped", "none"} /\ (c <= n => run[c] = "stopped") /\ c \in Nat
    BY <1>3 DEF Child
  <2>. QED BY <2>1, <2>5, <2>6
<1>7. kid \in [Child -> Kids]
  BY <1>3, <1>6
<1>8. run \in [Runs -> Statuses] /\ run[Parent] = "stopped"
  <2>1. Parent <= n
    BY <1>4 DEF Parent
  <2>. QED BY <1>3, <2>1 DEF Runs, Statuses
<1>9. att \in Seq(Calls) /\ Len(att) = 0 /\ DOMAIN att = {}
  BY <1>0
<1>10. job \in [Child -> Jobs] /\ \A c \in Child : job[c].pc = "off"
  <2>1. Off \in Jobs /\ Off.pc = "off"
    BY DEF Off, Jobs
  <2>. QED BY <1>0, <2>1
<1>11. exec \in Executions /\ exec.pc = "idle" /\ exec.rev = 0
  BY <1>0, IdleExec
<1>12. Types
  <2>1. ctl \in BOOLEAN
    BY <1>0
  <2>2. events \in 0 .. MaxEvents
    BY <1>0 DEF BudgetAssumption
  <2>. QED BY <1>5, <1>7, <1>8, <1>9, <1>10, <1>11, <2>1, <2>2 DEF Types
<1>13. \A c \in Child : \A d \in kid[c].deps : run[d] # "none"
  <2>. SUFFICES ASSUME NEW c \in Child, NEW d \in kid[c].deps
                PROVE  run[d] # "none"
    OBVIOUS
  <2>1. d \in 1 .. n
    BY <1>6
  <2>2. d \in Child /\ d <= n
    BY <1>4, <2>1 DEF Child
  <2>. QED BY <1>6, <2>2
<1>14. Bounded
  <2>1. /\ rec.model \in 0 .. MaxModelCalls + rec.raised /\ rec.tool \in 0 .. MaxToolCalls
        /\ rec.replans \in 0 .. MaxReplans
    BY <1>5 DEF BudgetAssumption
  <2>2. rec.replan \in 0 .. Len(att) /\ rec.synth \in 0 .. Len(att)
    BY <1>5, <1>9
  <2>. QED BY <1>11, <1>13, <2>1, <2>2 DEF Bounded
<1>15. UncertainStaysCharged /\ OneFlight
  BY <1>9 DEF UncertainStaysCharged, OneFlight
<1>16. Plan
  <2>1. Placed /\ ActiveIsRunning
    BY <1>0, <1>5, <1>10 DEF Placed, ActiveIsRunning
  <2>2. Begun
    BY <1>6, <1>9 DEF Begun
  <2>3. DependenciesFirst /\ DispatchedAsPlanned
    BY <1>6, <1>9 DEF DependenciesFirst, DispatchedAsPlanned, Present
  <2>. QED BY <2>1, <2>2, <2>3 DEF Plan
<1>17. ChildFlights /\ WaitsLive
  BY <1>6, <1>9, <1>10 DEF ChildFlights, WaitsLive
<1>18. ParentFlights
  BY <1>9, <1>11 DEF ParentFlights, Resolved
<1>19. Ending
  <2>1. Planned
    BY <1>5, <1>11 DEF Planned
  <2>2. Synthesised
    BY <1>9, <1>11 DEF Synthesised
  <2>3. Quiet
    BY <1>8, <1>9, <1>11 DEF Quiet, Closing
  <2>4. SynthesisCurrent /\ ControlWins /\ DraftWhole
    BY <1>5, <1>8 DEF SynthesisCurrent, ControlWins, DraftWhole
  <2>. QED BY <2>1, <2>2, <2>3, <2>4 DEF Ending
<1>. QED BY <1>12, <1>14, <1>15, <1>16, <1>17, <1>18, <1>19 DEF Inv

LEMMA StutterKeeps ==
  ASSUME Inv, UNCHANGED vars
  PROVE  Inv'
<1>1. UNCHANGED <<rec, kid, att, run, exec, job, ctl, events, stuck>>
  BY DEF vars
<1>2. Types' /\ Bounded' /\ UncertainStaysCharged' /\ ChildFlights' /\ OneFlight'
      /\ ParentFlights' /\ WaitsLive'
  <2>1. Types' /\ Bounded' /\ UncertainStaysCharged'
    BY <1>1 DEF Inv, Types, Bounded, UncertainStaysCharged
  <2>2. ChildFlights' /\ OneFlight' /\ WaitsLive'
    BY <1>1 DEF Inv, ChildFlights, OneFlight, WaitsLive
  <2>3. ParentFlights'
    BY <1>1 DEF Inv, ParentFlights, Certain
  <2>. QED BY <2>1, <2>2, <2>3
<1>3. Plan'
  <2>1. Placed' /\ ActiveIsRunning' /\ Begun'
    BY <1>1 DEF Inv, Plan, Placed, ActiveIsRunning, Begun, Done
  <2>2. DependenciesFirst' /\ DispatchedAsPlanned'
    BY <1>1 DEF Inv, Plan, DependenciesFirst, DispatchedAsPlanned, Present
  <2>. QED BY <2>1, <2>2 DEF Plan
<1>4. Ending'
  <2>1. Planned'
    BY <1>1 DEF Inv, Ending, Planned, Revision, Live, Present, Done
  <2>2. Synthesised' /\ Quiet'
    BY <1>1 DEF Inv, Ending, Synthesised, Quiet, Closing, Certain
  <2>3. SynthesisCurrent' /\ ControlWins' /\ DraftWhole'
    BY <1>1 DEF Inv, Ending, SynthesisCurrent, ControlWins, DraftWhole, Live, Present
  <2>. QED BY <2>1, <2>2, <2>3 DEF Ending
<1>. QED BY <1>2, <1>3, <1>4 DEF Inv

LEMMA StepKeeps ==
  ASSUME BudgetAssumption, Inv, [Next]_vars
  PROVE  Inv'
<1>1. CASE ExecStep
  BY <1>1, ContinueClearKeeps, ContinueEnterKeeps, AbortKeeps, LoopKeeps, ActivateKeeps,
     ActivateLostKeeps,
     AfterBatchKeeps, ReplanReadKeeps, ProposeKeeps, ReplanFailedKeeps, ApplyKeeps,
     FinalizeKeeps, SynthesizeStep, ReinspectKeeps, CommitKeeps, ParentObserveKeeps,
     ParentFinishKeeps, ParentFailKeeps, ParentLoseKeeps, DrainReadKeeps, DrainKeeps,
     PickStatusKeeps, FinishParentKeeps DEF ExecStep
<1>2. CASE UserStep
  BY <1>2, ContinueBeginKeeps, ReviseKeeps, IncreaseLimitsKeeps, ControlKeeps,
     ControlChildKeeps, ChildConfirmKeeps DEF UserStep
<1>3. CASE \E c \in Child : ChildStep(c)
  BY <1>3, ChildKeeps
<1>. QED BY <1>1, <1>2, <1>3, ControlDrainKeeps, RestartKeeps, StutterKeeps DEF Next

\* The inductive invariant holds in every reachable state.
THEOREM InvAlways == Spec => []Inv
<1>1. Init => Inv
  BY BudgetAssumption, InitKeeps
<1>2. Inv /\ [Next]_vars => Inv'
  BY BudgetAssumption, StepKeeps
<1>. QED BY <1>1, <1>2, PTL DEF Spec

\* runChild and collaborationGuard.Reserve: whatever users revise, pause or cancel and
\* whenever the Owner dies, a place in the batch belongs to a goroutine, no child was
\* dispatched before everything it depends on was complete, and every call was made for
\* the assignment that the plan still shows.
THEOREM DispatchHonestAlways == Spec => []DispatchHonest
<1>1. Inv => DispatchHonest
  BY DEF Inv, Plan, DispatchHonest
<1>. QED BY <1>1, InvAlways, PTL

\* finalize: a collaboration is completed only while it runs, with no unresolved call of
\* the parent or of a child; without synthesis its live children are complete, and with
\* one they are unless the plan was revised after the synthesis.
THEOREM CompletionHonestAlways == Spec => []CompletionHonest
<1>1. ASSUME Inv
      PROVE  CompletionHonest
  <2>1. /\ Types /\ Quiet /\ ParentFlights /\ SynthesisCurrent /\ ControlWins /\ DraftWhole
    BY <1>1 DEF Inv, Ending
  <2>2. ASSUME run[Parent] = "completed"
        PROVE  \A r \in {Parent} \cup Present : ~Uncertain(r)
    <3>1. \A c \in Child : Certain(c)
      BY <2>1, <2>2 DEF Quiet, Closing
    <3>2. exec.pc \notin {"call", "settle"}
      BY <2>1, <2>2 DEF Quiet
    <3>3. Certain(Parent)
      BY <2>1, <2>2, <3>2, ParentCertain
    <3>. QED BY <3>1, <3>3 DEF Certain, Uncertain, Present, Waits
  <2>. QED BY <2>1, <2>2 DEF CompletionHonest, NothingUncertainCompleted
<1>. QED BY <1>1, InvAlways, PTL

-----------------------------------------------------------------------------
(* The accounts: charges are counted one by one.                              *)

Charged(calls, S) == Cardinality(Charges(calls, S))
Own(calls, r) == {i \in DOMAIN calls : calls[i].run = r}
OfKind(calls, kind) == {i \in DOMAIN calls : calls[i].kind = kind}

LEMMA CallBytes ==
  ASSUME NEW calls \in Seq(Calls), NEW i \in DOMAIN calls
  PROVE  calls[i] \in Calls /\ calls[i].bytes \in Nat
<1>1. calls[i] \in Calls
  BY LenProperties, ElementOfSeq
<1>. QED BY <1>1 DEF Calls

LEMMA ChargesFinite ==
  ASSUME NEW calls \in Seq(Calls), NEW S \in SUBSET DOMAIN calls
  PROVE  /\ IsFiniteSet(S) /\ IsFiniteSet(Charges(calls, S))
         /\ Cardinality(S) \in Nat /\ Charged(calls, S) \in Nat
<1>1. Len(calls) \in Nat /\ DOMAIN calls = 1 .. Len(calls) /\ \A i \in DOMAIN calls : calls[i] \in Calls
  BY LenProperties, ElementOfSeq
<1>2. IsFiniteSet(S)
  <2>1. IsFiniteSet(1 .. Len(calls))
    BY <1>1, FS_Interval
  <2>. QED BY <1>1, <2>1, FS_Subset
<1>. DEFINE P(i) == {i} \X (1 .. calls[i].bytes)
            T == {P(i) : i \in S}
            f == [i \in S |-> P(i)]
<1>3. \A i \in S : IsFiniteSet(P(i))
  <2>. SUFFICES ASSUME NEW i \in S
                PROVE  IsFiniteSet(P(i))
    OBVIOUS
  <2>1. calls[i].bytes \in Int
    BY <1>1 DEF Calls
  <2>2. IsFiniteSet(1 .. calls[i].bytes)
    BY <2>1, FS_Interval
  <2>3. IsFiniteSet({i})
    BY FS_Singleton
  <2>. QED BY <2>2, <2>3, FS_Product
<1>4. \A t \in T : IsFiniteSet(t)
  BY <1>3
<1>. HIDE DEF P
<1>5. f \in Surjection(S, T)
  BY DEF Surjection
<1>6. IsFiniteSet(T)
  <2>. HIDE DEF T, f
  <2>. QED BY <1>2, <1>5, FS_Surjection
<1>7. IsFiniteSet(UNION T)
  <2>. HIDE DEF T
  <2>. QED BY <1>4, <1>6, FS_UNION
<1>8. Charges(calls, S) = UNION T
  BY DEF Charges, P
<1>. QED BY <1>2, <1>7, <1>8, FS_CardinalityType DEF Charged

\* The charges of a call and those of the others.
LEMMA ChargesSplit ==
  ASSUME NEW calls \in Seq(Calls), NEW S \in SUBSET DOMAIN calls, NEW i \in S
  PROVE  Charged(calls, S) = Charged(calls, S \ {i}) + calls[i].bytes
<1>. DEFINE A == Charges(calls, S \ {i})
            B == {i} \X (1 .. calls[i].bytes)
            b == calls[i].bytes
<1>1. b \in Nat
  BY CallBytes
<1>2. Charges(calls, S) = A \cup B
  BY DEF Charges
<1>3. A \cap B = {}
  BY DEF Charges
<1>4. IsFiniteSet(A) /\ Cardinality(A) \in Nat
  BY ChargesFinite DEF Charged
<1>5. IsFiniteSet(1 .. b) /\ Cardinality(1 .. b) = b
  <2>1. 1 \in Int /\ b \in Int
    BY <1>1
  <2>2. IsFiniteSet(1 .. b) /\ Cardinality(1 .. b) = IF 1 > b THEN 0 ELSE b - 1 + 1
    BY <2>1, FS_Interval
  <2>. QED BY <1>1, <2>2
<1>6. IsFiniteSet({i}) /\ Cardinality({i}) = 1
  BY FS_Singleton
<1>7. IsFiniteSet(B) /\ Cardinality(B) = 1 * b
  <2>1. IsFiniteSet(B) /\ Cardinality(B) = Cardinality({i}) * Cardinality(1 .. b)
    BY <1>5, <1>6, FS_Product
  <2>. QED BY <1>5, <1>6, <2>1
<1>8. Cardinality(A \cap B) = 0
  BY <1>3, FS_EmptySet
<1>. HIDE DEF A, B, b
<1>9. Cardinality(A \cup B) = Cardinality(A) + Cardinality(B) - Cardinality(A \cap B)
  BY <1>4, <1>7, FS_Union
<1>10. Cardinality(A \cup B) = Cardinality(A) + b
  BY <1>1, <1>4, <1>7, <1>8, <1>9
<1>. QED BY <1>2, <1>10 DEF Charged, A, b

LEMMA ChargesSame ==
  ASSUME NEW f, NEW g, NEW S, \A i \in S : f[i].bytes = g[i].bytes
  PROVE  Charged(f, S) = Charged(g, S)
<1>1. Charges(f, S) = Charges(g, S)
  BY DEF Charges
<1>. QED BY <1>1 DEF Charged

\* One more call.
LEMMA CallAdded ==
  ASSUME NEW f \in Seq(Calls), NEW g \in Seq(Calls), NEW n, n \notin DOMAIN f,
         DOMAIN g = DOMAIN f \cup {n}, \A i \in DOMAIN f : g[i] = f[i]
  PROVE  /\ Charged(g, DOMAIN g) = Charged(f, DOMAIN f) + g[n].bytes
         /\ \A r : Charged(g, Own(g, r)) =
                     (IF g[n].run = r THEN Charged(f, Own(f, r)) + g[n].bytes
                      ELSE Charged(f, Own(f, r)))
         /\ \A kind : Cardinality(OfKind(g, kind)) =
                        (IF g[n].kind = kind THEN Cardinality(OfKind(f, kind)) + 1
                         ELSE Cardinality(OfKind(f, kind)))
<1>1. ASSUME NEW S \in SUBSET DOMAIN f
      PROVE  /\ Charged(g, S) = Charged(f, S)
             /\ Charged(g, S \cup {n}) = Charged(f, S) + g[n].bytes
  <2>1. Charged(g, S) = Charged(f, S)
    BY ChargesSame
  <2>2. S \cup {n} \in SUBSET DOMAIN g /\ n \in S \cup {n} /\ (S \cup {n}) \ {n} = S
    OBVIOUS
  <2>3. Charged(g, S \cup {n}) = Charged(g, S) + g[n].bytes
    BY <2>2, ChargesSplit
  <2>. QED BY <2>1, <2>3
<1>2. Charged(g, DOMAIN g) = Charged(f, DOMAIN f) + g[n].bytes
  BY <1>1
<1>3. ASSUME NEW r
      PROVE  Charged(g, Own(g, r)) =
                     (IF g[n].run = r THEN Charged(f, Own(f, r)) + g[n].bytes
                      ELSE Charged(f, Own(f, r)))
  <2>1. Own(f, r) \in SUBSET DOMAIN f
    BY DEF Own
  <2>2. Own(g, r) = IF g[n].run = r THEN Own(f, r) \cup {n} ELSE Own(f, r)
    BY DEF Own
  <2>. QED BY <1>1, <2>1, <2>2
<1>4. ASSUME NEW kind
      PROVE  Cardinality(OfKind(g, kind)) =
                        (IF g[n].kind = kind THEN Cardinality(OfKind(f, kind)) + 1
                         ELSE Cardinality(OfKind(f, kind)))
  <2>1. OfKind(f, kind) \in SUBSET DOMAIN f /\ n \notin OfKind(f, kind)
    BY DEF OfKind
  <2>2. IsFiniteSet(OfKind(f, kind))
    BY <2>1, ChargesFinite
  <2>3. Cardinality(OfKind(f, kind) \cup {n}) = Cardinality(OfKind(f, kind)) + 1
    BY <2>1, <2>2, FS_AddElement
  <2>4. OfKind(g, kind) = IF g[n].kind = kind THEN OfKind(f, kind) \cup {n} ELSE OfKind(f, kind)
    BY DEF OfKind
  <2>. QED BY <2>3, <2>4
<1>. QED BY <1>2, <1>3, <1>4

\* One call is charged anew.
LEMMA CallCorrected ==
  ASSUME NEW f \in Seq(Calls), NEW g \in Seq(Calls), NEW n \in DOMAIN f,
         DOMAIN g = DOMAIN f, \A i \in DOMAIN f : i # n => g[i] = f[i],
         g[n].run = f[n].run, g[n].kind = f[n].kind
  PROVE  /\ Charged(g, DOMAIN g) = Charged(f, DOMAIN f) + (g[n].bytes - f[n].bytes)
         /\ \A r : Charged(g, Own(g, r)) =
                     (IF f[n].run = r THEN Charged(f, Own(f, r)) + (g[n].bytes - f[n].bytes)
                      ELSE Charged(f, Own(f, r)))
         /\ \A kind : OfKind(g, kind) = OfKind(f, kind)
<1>1. ASSUME NEW S \in SUBSET DOMAIN f
      PROVE  /\ n \notin S => Charged(g, S) = Charged(f, S)
             /\ n \in S => Charged(g, S) = Charged(f, S) + (g[n].bytes - f[n].bytes)
  <2>1. n \notin S => Charged(g, S) = Charged(f, S)
    BY ChargesSame
  <2>2. ASSUME n \in S
        PROVE  Charged(g, S) = Charged(f, S) + (g[n].bytes - f[n].bytes)
    <3>1. S \ {n} \in SUBSET DOMAIN f /\ S \ {n} \in SUBSET DOMAIN g /\ S \in SUBSET DOMAIN g
      OBVIOUS
    <3>2. Charged(g, S \ {n}) = Charged(f, S \ {n})
      BY ChargesSame
    <3>3. Charged(g, S) = Charged(g, S \ {n}) + g[n].bytes
      BY <2>2, <3>1, ChargesSplit
    <3>4. Charged(f, S) = Charged(f, S \ {n}) + f[n].bytes
      BY <2>2, <3>1, ChargesSplit
    <3>5. g[n].bytes \in Nat /\ f[n].bytes \in Nat /\ Charged(f, S \ {n}) \in Nat
      BY <3>1, ChargesFinite, CallBytes
    <3>. QED BY <3>2, <3>3, <3>4, <3>5
  <2>. QED BY <2>1, <2>2
<1>2. \A r : Own(g, r) = Own(f, r) /\ Own(f, r) \in SUBSET DOMAIN f /\ (n \in Own(f, r) <=> f[n].run = r)
  BY DEF Own
<1>3. \A kind : OfKind(g, kind) = OfKind(f, kind)
  BY DEF OfKind
<1>4. Charged(g, DOMAIN g) = Charged(f, DOMAIN f) + (g[n].bytes - f[n].bytes)
  BY <1>1
<1>5. ASSUME NEW r
      PROVE  Charged(g, Own(g, r)) =
                     (IF f[n].run = r THEN Charged(f, Own(f, r)) + (g[n].bytes - f[n].bytes)
                      ELSE Charged(f, Own(f, r)))
  BY <1>1, <1>2
<1>. QED BY <1>3, <1>4, <1>5

\* The calls keep their charges.
LEMMA CallsKept ==
  ASSUME NEW f, NEW g, DOMAIN g = DOMAIN f,
         \A i \in DOMAIN f : g[i].run = f[i].run /\ g[i].kind = f[i].kind /\ g[i].bytes = f[i].bytes
  PROVE  /\ Charged(g, DOMAIN g) = Charged(f, DOMAIN f)
         /\ \A r : Charged(g, Own(g, r)) = Charged(f, Own(f, r))
         /\ \A kind : OfKind(g, kind) = OfKind(f, kind)
<1>1. \A r : Own(g, r) = Own(f, r) /\ Own(f, r) \subseteq DOMAIN f
  BY DEF Own
<1>2. \A kind : OfKind(g, kind) = OfKind(f, kind)
  BY DEF OfKind
<1>3. \A S : S \subseteq DOMAIN f => Charged(g, S) = Charged(f, S)
  BY ChargesSame
<1>. QED BY <1>1, <1>2, <1>3

\* The same accounts, of the record, its children and the calls.
Ledger(record, kids, calls) ==
  /\ record.model = Cardinality(OfKind(calls, "model"))
  /\ record.tool = Cardinality(OfKind(calls, "tool"))
  /\ record.output = Charged(calls, DOMAIN calls)
  /\ \A c \in Child : kids[c].output = Charged(calls, Own(calls, c))

LEMMA LedgerExact ==
  /\ AccountsExact <=> Ledger(rec, kid, att)
  /\ AccountsExact' <=> Ledger(rec', kid', att')
BY DEF AccountsExact, Ledger, Bytes, CallsOf, Charged, Own, OfKind

\* Nothing is charged or refunded. A child that is added has no calls.
LEMMA LedgerSame ==
  ASSUME Types, AccountsExact, DOMAIN att' = DOMAIN att,
         \A i \in DOMAIN att : /\ att'[i].run = att[i].run /\ att'[i].kind = att[i].kind
                               /\ att'[i].bytes = att[i].bytes,
         rec'.model = rec.model, rec'.tool = rec.tool, rec'.output = rec.output,
         \A c \in Child : \/ kid'[c].output = kid[c].output
                          \/ kid'[c].output = 0 /\ \A i \in DOMAIN att : att[i].run # c
  PROVE  AccountsExact'
<1>1. Ledger(rec, kid, att)
  BY LedgerExact
<1>2. /\ Charged(att', DOMAIN att') = Charged(att, DOMAIN att)
      /\ \A r : Charged(att', Own(att', r)) = Charged(att, Own(att, r))
      /\ \A kind : OfKind(att', kind) = OfKind(att, kind)
  BY CallsKept
<1>3. ASSUME NEW c \in Child, \A i \in DOMAIN att : att[i].run # c
      PROVE  Charged(att, Own(att, c)) = 0
  <2>1. Own(att, c) = {}
    BY <1>3 DEF Own
  <2>2. Charges(att, {}) = {}
    BY DEF Charges
  <2>. QED BY <2>1, <2>2, FS_EmptySet DEF Charged
<1>4. \A c \in Child : kid'[c].output = Charged(att', Own(att', c))
  BY <1>1, <1>2, <1>3 DEF Ledger
<1>5. Ledger(rec', kid', att')
  BY <1>1, <1>2, <1>4 DEF Ledger
<1>. QED BY <1>5, LedgerExact

\* A call is charged when it is dispatched.
LEMMA LedgerReserve ==
  ASSUME Types, BudgetAssumption, AccountsExact, NEW r \in Runs, NEW kind \in Kinds,
         NEW purpose \in Purposes, NEW spec \in Nat, Reserve(r, kind, purpose, spec)
  PROVE  AccountsExact'
<1>. DEFINE n == Len(att) + 1
            new == NewAttempt(r, kind, purpose, spec)
<1>1. /\ att' \in Seq(Calls) /\ \A i \in DOMAIN att : att'[i] = att[i] /\ att'[n] = new
      /\ DOMAIN att' = DOMAIN att \cup {n} /\ n \notin DOMAIN att
  BY ReserveAttempt
<1>2. att \in Seq(Calls)
  BY TypeParts
<1>3. att'[n].run = r /\ att'[n].kind = kind /\ att'[n].bytes = CallOutput
  <2>1. att'[n] = new
    BY ReserveAttempt
  <2>. QED BY <2>1 DEF NewAttempt
<1>4. DOMAIN att' = DOMAIN att \cup {n} /\ n \notin DOMAIN att /\ \A i \in DOMAIN att : att'[i] = att[i]
  BY <1>1
<1>. HIDE DEF n, new
<1>5. /\ Charged(att', DOMAIN att') = Charged(att, DOMAIN att) + CallOutput
      /\ \A q : Charged(att', Own(att', q)) =
                  (IF r = q THEN Charged(att, Own(att, q)) + CallOutput
                   ELSE Charged(att, Own(att, q)))
      /\ \A k : Cardinality(OfKind(att', k)) =
                  (IF kind = k THEN Cardinality(OfKind(att, k)) + 1
                   ELSE Cardinality(OfKind(att, k)))
  <2>1. /\ Charged(att', DOMAIN att') = Charged(att, DOMAIN att) + att'[n].bytes
        /\ \A q : Charged(att', Own(att', q)) =
                    (IF att'[n].run = q THEN Charged(att, Own(att, q)) + att'[n].bytes
                     ELSE Charged(att, Own(att, q)))
        /\ \A k : Cardinality(OfKind(att', k)) =
                    (IF att'[n].kind = k THEN Cardinality(OfKind(att, k)) + 1
                     ELSE Cardinality(OfKind(att, k)))
    BY <1>1, <1>2, <1>4, CallAdded
  <2>. QED BY <1>3, <2>1
<1>6. Ledger(rec, kid, att)
  BY LedgerExact
<1>7. /\ rec'.output = rec.output + CallOutput
      /\ kind = "model" => rec'.model = rec.model + 1 /\ rec'.tool = rec.tool
      /\ kind = "tool" => rec'.tool = rec.tool + 1 /\ rec'.model = rec.model
  BY ReserveRecord
<1>8. /\ \A c \in Child : c # r => kid'[c] = kid[c]
      /\ r \in Child => kid'[r].output = kid[r].output + CallOutput
  BY ReserveKid
<1>9. \A c \in Child : kid'[c].output = Charged(att', Own(att', c))
  BY <1>5, <1>6, <1>8 DEF Ledger
<1>10. rec'.output = Charged(att', DOMAIN att')
  BY <1>5, <1>6, <1>7 DEF Ledger
<1>11. /\ rec'.model = Cardinality(OfKind(att', "model"))
       /\ rec'.tool = Cardinality(OfKind(att', "tool"))
  <2>1. rec.model = Cardinality(OfKind(att, "model")) /\ rec.tool = Cardinality(OfKind(att, "tool"))
    BY <1>6 DEF Ledger
  <2>2. CASE kind = "model"
    BY <1>5, <1>7, <2>1, <2>2
  <2>3. CASE kind = "tool"
    BY <1>5, <1>7, <2>1, <2>3
  <2>. QED BY <2>2, <2>3 DEF Kinds
<1>12. Ledger(rec', kid', att')
  BY <1>9, <1>10, <1>11 DEF Ledger
<1>. QED BY <1>12, LedgerExact

\* A call is charged anew, and so are its Run and the collaboration.
LEMMA LedgerSettles ==
  ASSUME Types, AccountsExact, NEW r \in Runs, NEW i, NEW next, Settles(r, i, next),
         \A c \in Child : c # r => kid'[c].output = kid[c].output,
         r \in Child => kid'[r].output = kid[r].output + (next.bytes - att[i].bytes)
  PROVE  AccountsExact'
<1>1. /\ i \in DOMAIN att /\ att[i].run = r /\ next \in Calls /\ next.run = r
      /\ next.kind = att[i].kind /\ Corrects(i, next) /\ att \in Seq(Calls)
  BY TypeParts DEF Settles
<1>2. /\ att' \in Seq(Calls) /\ DOMAIN att' = DOMAIN att /\ att'[i] = next
      /\ \A j \in DOMAIN att : j # i => att'[j] = att[j]
  BY <1>1, CorrectsAttempt
<1>. DEFINE d == next.bytes - att[i].bytes
<1>3. /\ Charged(att', DOMAIN att') = Charged(att, DOMAIN att) + d
      /\ \A q : Charged(att', Own(att', q)) =
                  (IF r = q THEN Charged(att, Own(att, q)) + d ELSE Charged(att, Own(att, q)))
      /\ \A kind : OfKind(att', kind) = OfKind(att, kind)
  <2>1. att'[i].run = att[i].run /\ att'[i].kind = att[i].kind
    BY <1>1, <1>2
  <2>2. /\ Charged(att', DOMAIN att') = Charged(att, DOMAIN att) + (att'[i].bytes - att[i].bytes)
        /\ \A q : Charged(att', Own(att', q)) =
                    (IF att[i].run = q
                     THEN Charged(att, Own(att, q)) + (att'[i].bytes - att[i].bytes)
                     ELSE Charged(att, Own(att, q)))
        /\ \A kind : OfKind(att', kind) = OfKind(att, kind)
    BY <1>1, <1>2, <2>1, CallCorrected
  <2>. QED BY <1>1, <1>2, <2>2
<1>4. rec'.model = rec.model /\ rec'.tool = rec.tool /\ rec'.output = rec.output + d
  BY <1>1, CorrectsRecord
<1>. HIDE DEF d
<1>5. Ledger(rec, kid, att)
  BY LedgerExact
<1>6. r \in Child => kid'[r].output = kid[r].output + d
  BY DEF d
<1>7. \A c \in Child : kid'[c].output = Charged(att', Own(att', c))
  BY <1>3, <1>5, <1>6 DEF Ledger
<1>8. Ledger(rec', kid', att')
  BY <1>3, <1>4, <1>5, <1>7 DEF Ledger
<1>. QED BY <1>8, LedgerExact

LEMMA ChildAccounts ==
  ASSUME Types, BudgetAssumption, ChildFlights, AccountsExact, NEW c \in Child, ChildStep(c)
  PROVE  AccountsExact'
<1>0. c \in Runs /\ c # Parent
  BY TypeParts
<1>1. CASE ChildContinue(c) \/ Stop(c) \/ AwaitApproval(c)
  <2>1. UNCHANGED <<rec, kid, att>>
    BY <1>1 DEF ChildContinue, Stop, AwaitApproval
  <2>. QED BY <2>1, LedgerSame
<1>2. CASE Deliver(c) \/ AnswerUndispatched(c)
  <2>1. /\ att' = att /\ rec' = rec /\ kid'[c].output = kid[c].output
        /\ \A d \in Child : d # c => kid'[d] = kid[d]
    BY <1>2, DeliverEffect, AnswerEffect DEF ChildFrame
  <2>. QED BY <2>1, LedgerSame
<1>3. CASE Deactivate(c)
  <2>1. UNCHANGED <<kid, att>> /\ SameBooks
    BY <1>3, DeactivateEffect DEF Deactivate
  <2>. QED BY <2>1, LedgerSame DEF SameBooks
<1>4. CASE Dispatch(c)
  <2>1. Reserve(c, job[c].pc, "", job[c].spec) /\ job[c].pc \in Kinds /\ job[c].spec \in Nat
    BY <1>4, DispatchEffect
  <2>2. "" \in Purposes
    BY DEF Purposes
  <2>. QED BY <1>0, <2>1, <2>2, LedgerReserve
<1>5. CASE Observe(c)
  <2>1. PICK size \in Nat : LET i == Flight(c)
                                next == Billed(att[i], size, FALSE)
                            IN Settles(c, i, next) /\ Record(i, next)
    BY <1>5, ObserveEffect
  <2>. DEFINE i == Flight(c)
              next == Billed(att[i], size, FALSE)
  <2>2. Settles(c, i, next) /\ Record(i, next)
    BY <2>1
  <2>. HIDE DEF i, next
  <2>3. i \in DOMAIN att /\ next \in Calls /\ next.run = c
    BY <2>2 DEF Settles
  <2>4. /\ \A d \in Child : d # c => kid'[d] = kid[d]
        /\ kid'[c].output = kid[c].output + (next.bytes - att[i].bytes)
    BY <2>2, <2>3, RecordKid
  <2>. QED BY <1>0, <2>2, <2>4, LedgerSettles
<1>6. CASE Fail(c)
  <2>. DEFINE i == Flight(c)
              next == [Billed(att[i], 0, FALSE) EXCEPT !.status = "failed"]
  <2>2. Settles(c, i, next) /\ Record(i, next)
    BY <1>6, FailEffect
  <2>. HIDE DEF i, next
  <2>3. i \in DOMAIN att /\ next \in Calls /\ next.run = c
    BY <2>2 DEF Settles
  <2>4. /\ \A d \in Child : d # c => kid'[d] = kid[d]
        /\ kid'[c].output = kid[c].output + (next.bytes - att[i].bytes)
    BY <2>2, <2>3, RecordKid
  <2>. QED BY <1>0, <2>2, <2>4, LedgerSettles
<1>7. CASE Finish(c)
  <2>1. \E refund \in BOOLEAN :
          LET i == Flight(c)
              next == [Billed(att[i], 0, refund) EXCEPT !.status = "finished"]
          IN Settles(c, i, next) /\ kid'[c].output = kid[c].output + (next.bytes - att[i].bytes)
    BY <1>7, FinishEffect
  <2>2. PICK refund \in BOOLEAN :
          LET i == Flight(c)
              next == [Billed(att[i], 0, refund) EXCEPT !.status = "finished"]
          IN Settles(c, i, next) /\ kid'[c].output = kid[c].output + (next.bytes - att[i].bytes)
    BY <2>1
  <2>. DEFINE i == Flight(c)
              next == [Billed(att[i], 0, refund) EXCEPT !.status = "finished"]
  <2>3. Settles(c, i, next) /\ kid'[c].output = kid[c].output + (next.bytes - att[i].bytes)
    BY <2>2
  <2>4. \A d \in Child : d # c => kid'[d] = kid[d]
    BY <1>7, FinishEffect DEF ChildFrame
  <2>. HIDE DEF i, next
  <2>. QED BY <1>0, <2>3, <2>4, LedgerSettles
<1>8. CASE Lose(c)
  <2>1. /\ UNCHANGED <<rec, kid>> /\ Flight(c) \in DOMAIN att
        /\ att' = [att EXCEPT ![Flight(c)].status = "unknown"]
    BY <1>8, LoseEffect
  <2>2. /\ DOMAIN att' = DOMAIN att
        /\ \A i \in DOMAIN att : /\ att'[i].run = att[i].run /\ att'[i].kind = att[i].kind
                                 /\ att'[i].bytes = att[i].bytes
    BY <2>1, UnknownCall
  <2>. QED BY <2>1, <2>2, LedgerSame
<1>. QED BY <1>1, <1>2, <1>3, <1>4, <1>5, <1>6, <1>7, <1>8 DEF ChildStep

LEMMA ParentAccounts ==
  ASSUME Inv, BudgetAssumption, AccountsExact, exec.pc \in {"call", "settle"},
         NEW size \in Nat, NEW final \in BOOLEAN, NEW next \in Calls,
         LET b == Billed(att[Flight(Parent)], size, final)
         IN next.run = b.run /\ next.kind = b.kind /\ next.purpose = b.purpose /\ next.spec = b.spec,
         Record(Flight(Parent), next)
  PROVE  AccountsExact'
<1>. DEFINE i == Flight(Parent)
<1>1. Types
  BY DEF Inv
<1>2. i \in DOMAIN att /\ att[i].run = Parent /\ att[i].status = "dispatched" /\ att[i] \in Calls
  BY ParentFlight
<1>3. /\ next.run = Parent /\ next.purpose = att[i].purpose
      /\ next.kind = att[i].kind /\ next.spec = att[i].spec
  BY <1>2, BilledCall
<1>4. Record(i, next)
  OBVIOUS
<1>. HIDE DEF i
<1>5. Corrects(i, next) /\ \A c \in Child : c # next.run => kid'[c] = kid[c]
  BY <1>1, <1>2, <1>4, RecordKid
<1>6. Settles(Parent, i, next)
  BY <1>2, <1>3, <1>5 DEF Settles
<1>7. Parent \in Runs /\ Parent \notin Child
  BY <1>1, TypeParts
<1>. QED BY <1>1, <1>3, <1>5, <1>6, <1>7, LedgerSettles

LEMMA ParentCallAccounts ==
  ASSUME Inv, BudgetAssumption, AccountsExact,
         ParentObserve \/ ParentFinish \/ ParentFail \/ ParentLose
  PROVE  AccountsExact'
<1>. DEFINE i == Flight(Parent)
<1>0. exec.pc \in {"call", "settle"}
  BY DEF ParentObserve, ParentFinish, ParentFail, ParentLose, At
<1>1. Types /\ att[i] \in Calls /\ i \in DOMAIN att
  BY <1>0, ParentFlight DEF Inv
<1>2. 0 \in Nat /\ TRUE \in BOOLEAN /\ FALSE \in BOOLEAN
  OBVIOUS
<1>3. CASE ParentObserve
  <2>1. PICK size \in Sizes : Record(i, Billed(att[i], size, FALSE))
    BY <1>3 DEF ParentObserve
  <2>2. size \in Nat
    BY DEF BudgetAssumption
  <2>3. Billed(att[i], size, FALSE) \in Calls
    BY <1>1, <1>2, <2>2, BilledCall
  <2>. QED BY <1>0, <1>2, <2>1, <2>2, <2>3, ParentAccounts
<1>4. CASE ParentFinish
  <2>. DEFINE b == Billed(att[i], 0, TRUE)
  <2>1. PICK e \in Edits \cup {NoEdit, BadEdit} :
          Record(i, [b EXCEPT !.status = "finished", !.edit = e])
    BY <1>4 DEF ParentFinish
  <2>. DEFINE next == [b EXCEPT !.status = "finished", !.edit = e]
  <2>2. b \in Calls
    BY <1>1, <1>2, BilledCall
  <2>3. b = Billed(att[Flight(Parent)], 0, TRUE)
    OBVIOUS
  <2>. HIDE DEF b
  <2>4. /\ next \in Calls /\ next.run = b.run /\ next.kind = b.kind
        /\ next.purpose = b.purpose /\ next.spec = b.spec
    BY <2>2 DEF Calls
  <2>5. Record(Flight(Parent), next)
    BY <2>1
  <2>. HIDE DEF next
  <2>. QED BY <1>0, <1>2, <2>3, <2>4, <2>5, ParentAccounts
<1>5. CASE ParentFail
  <2>. DEFINE b == Billed(att[i], 0, FALSE)
              next == [b EXCEPT !.status = "failed"]
  <2>1. Record(Flight(Parent), next)
    BY <1>5 DEF ParentFail
  <2>2. b \in Calls
    BY <1>1, <1>2, BilledCall
  <2>3. b = Billed(att[Flight(Parent)], 0, FALSE)
    OBVIOUS
  <2>. HIDE DEF b
  <2>4. /\ next \in Calls /\ next.run = b.run /\ next.kind = b.kind
        /\ next.purpose = b.purpose /\ next.spec = b.spec
    BY <2>2 DEF Calls
  <2>. HIDE DEF next
  <2>. QED BY <1>0, <1>2, <2>1, <2>3, <2>4, ParentAccounts
<1>6. CASE ParentLose
  <2>1. UNCHANGED <<rec, kid>> /\ att' = [att EXCEPT ![i].status = "unknown"]
    BY <1>6 DEF ParentLose
  <2>2. /\ DOMAIN att' = DOMAIN att
        /\ \A j \in DOMAIN att : /\ att'[j].run = att[j].run /\ att'[j].kind = att[j].kind
                                 /\ att'[j].bytes = att[j].bytes
    BY <1>1, <2>1, UnknownCall
  <2>. QED BY <1>1, <2>1, <2>2, LedgerSame
<1>. QED BY <1>3, <1>4, <1>5, <1>6

\* A step that leaves the books of the record alone.
LEMMA BooksSame ==
  ASSUME Types, AccountsExact, UNCHANGED <<kid, att>>, SameBooks
  PROVE  AccountsExact'
BY LedgerSame DEF SameBooks

\* An edit: a child that is added has no calls.
LEMMA EditAccounts ==
  ASSUME Types, Begun, AccountsExact, NEW c \in Child, EditMade(c), att' = att
  PROVE  AccountsExact'
<1>1. SameBooks /\ \A d \in Child : d # c => kid'[d] = kid[d]
  BY DEF EditMade, Revises
<1>2. \/ kid'[c].output = kid[c].output
      \/ kid'[c].output = 0 /\ \A i \in DOMAIN att : att[i].run # c
  <2>1. CASE Adds(c)
    <3>1. kid[c].steps \in Nat
      BY TypeParts DEF Kids
    <3>2. kid[c].steps = 0
      BY <2>1 DEF Adds, Begun
    <3>. QED BY <2>1, <3>1, <3>2 DEF Adds, Begun
  <2>2. CASE Reassigns(c) \/ Retires(c)
    BY <2>2 DEF Reassigns, Retires
  <2>. QED BY <2>1, <2>2 DEF EditMade
<1>3. \A d \in Child : \/ kid'[d].output = kid[d].output
                       \/ kid'[d].output = 0 /\ \A i \in DOMAIN att : att[i].run # d
  BY <1>1, <1>2
<1>. QED BY <1>1, <1>3, LedgerSame DEF SameBooks

LEMMA ExecAccounts ==
  ASSUME Inv, BudgetAssumption, AccountsExact, ExecStep
  PROVE  AccountsExact'
<1>1. Types /\ Begun /\ rec \in Records /\ exec \in Executions /\ Bounded
  BY TypeParts DEF Inv, Plan
<1>2. CASE UNCHANGED <<rec, kid, att>>
  BY <1>1, <1>2, SameRecord, BooksSame
<1>3. CASE Propose
  <2>1. CASE Reserve(Parent, "model", "replanning", 0)
    <3>1. Parent \in Runs /\ "model" \in Kinds /\ "replanning" \in Purposes /\ 0 \in Nat
      BY <1>1, TypeParts DEF Kinds, Purposes
    <3>. QED BY <1>1, <2>1, <3>1, LedgerReserve
  <2>. QED BY <1>2, <1>3, <2>1 DEF Propose
<1>4. CASE Synthesize
  <2>1. CASE Reserve(Parent, "model", "synthesis", 0)
    <3>1. Parent \in Runs /\ "model" \in Kinds /\ "synthesis" \in Purposes /\ 0 \in Nat
      BY <1>1, TypeParts DEF Kinds, Purposes
    <3>. QED BY <1>1, <2>1, <3>1, LedgerReserve
  <2>. QED BY <1>2, <1>4, <2>1 DEF Synthesize
<1>5. CASE ParentObserve \/ ParentFinish \/ ParentFail \/ ParentLose
  BY <1>5, ParentCallAccounts
<1>6. CASE ContinueClear
  <2>1. {} \in SUBSET Child /\ rec' = [rec EXCEPT !.active = {}] /\ UNCHANGED <<kid, att>>
    BY <1>6 DEF ContinueClear
  <2>2. SameBooks
    BY <1>1, <2>1, ActiveRecord
  <2>. QED BY <1>1, <2>1, <2>2, BooksSame
<1>7. CASE Activate
  <2>1. CASE Start(exec.batch, FirstStep)
    <3>1. UNCHANGED <<kid, att>> /\ exec.batch \in SUBSET Child
      BY <1>1, <1>7 DEF Activate, Executions
    <3>2. rec' = [rec EXCEPT !.active = rec.active \cup exec.batch]
      BY <2>1 DEF Start
    <3>3. rec.active \cup exec.batch \in SUBSET Child
      BY <1>1, <3>1 DEF Records
    <3>4. SameBooks
      BY <1>1, <3>2, <3>3, ActiveRecord
    <3>. QED BY <1>1, <3>1, <3>4, BooksSame
  <2>. QED BY <1>2, <1>7, <2>1 DEF Activate
<1>8. CASE Apply
  <2>. DEFINE e == att[exec.saved].edit
  <2>1. exec.pc = "apply" /\ att' = att
    BY <1>8 DEF Apply, At
  <2>2. e \in Edits \cup {NoEdit}
    <3>1. exec.saved \in DOMAIN att /\ e # BadEdit
      BY <1>1, <2>1 DEF Bounded
    <3>2. att[exec.saved] \in Calls
      BY <1>1, <3>1, TypeParts
    <3>. QED BY <3>1, <3>2 DEF Calls
  <2>3. CASE e \in Edits /\ EditOK(e) /\ ApplyEdit(e, "replanning")
    <3>1. EditMade(e.child) /\ e.child \in Child
      BY <1>1, <2>3, EditEffect
    <3>. QED BY <1>1, <2>1, <3>1, EditAccounts
  <2>4. CASE /\ rec' = [rec EXCEPT !.sources = Append(@, "replanning"), !.replan = 0,
                                   !.replanned = @ \cup exec.seen]
             /\ UNCHANGED kid
    <3>1. SameBooks
      BY <1>1, <2>4 DEF Records, SameBooks
    <3>. QED BY <1>1, <2>1, <2>4, <3>1, BooksSame
  <2>. QED BY <1>2, <1>8, <2>1, <2>2, <2>3, <2>4 DEF Apply
<1>9. CASE \/ ContinueEnter \/ Abort \/ Loop \/ AfterBatch \/ ReplanRead \/ ReplanFailed
           \/ Finalize \/ Reinspect \/ Commit \/ DrainRead \/ Drain \/ PickStatus \/ FinishParent
  <2>1. UNCHANGED <<rec, kid, att>>
    BY <1>9 DEF ContinueEnter, Abort, Loop, AfterBatch, ReplanRead, ReplanFailed,
       Finalize, Reinspect, Commit, DrainRead, Drain, PickStatus, FinishParent
  <2>. QED BY <1>2, <2>1
<1>10. CASE ActivateLost
  <2>1. PICK batch \in SUBSET Live : rec' = [rec EXCEPT !.active = @ \cup batch]
    BY <1>10 DEF ActivateLost
  <2>. DEFINE S == rec.active \cup batch
  <2>2. S \in SUBSET Child /\ UNCHANGED <<kid, att>>
    BY <1>1, <1>10, TypeParts DEF Records, Live, Present, ActivateLost
  <2>3. rec' = [rec EXCEPT !.active = S]
    BY <2>1
  <2>. HIDE DEF S
  <2>4. SameBooks
    BY <1>1, <2>2, <2>3, ActiveRecord
  <2>. QED BY <1>1, <2>2, <2>4, BooksSame
<1>. QED BY <1>3, <1>4, <1>5, <1>6, <1>7, <1>8, <1>9, <1>10 DEF ExecStep

LEMMA UserAccounts ==
  ASSUME Inv, BudgetAssumption, AccountsExact, UserStep
  PROVE  AccountsExact'
<1>1. Types /\ Begun /\ rec \in Records
  BY TypeParts DEF Inv, Plan
<1>2. CASE UNCHANGED <<rec, kid, att>>
  BY <1>1, <1>2, SameRecord, BooksSame
<1>3. CASE ContinueBegin
  BY <1>2, <1>3 DEF ContinueBegin
<1>4. CASE Revise
  <2>1. PICK e \in Edits : EditOK(e) /\ ApplyEdit(e, "user")
    BY <1>4 DEF Revise
  <2>2. EditMade(e.child) /\ e.child \in Child /\ att' = att
    BY <1>1, <1>4, <2>1, EditEffect DEF Revise
  <2>. QED BY <1>1, <2>2, EditAccounts
<1>5. CASE IncreaseLimits
  <2>1. rec' = [rec EXCEPT !.raised = @ + 1, !.sources = Append(@, "limits")]
        /\ UNCHANGED <<kid, att>>
    BY <1>5 DEF IncreaseLimits
  <2>2. rec'.model = rec.model /\ rec'.tool = rec.tool /\ rec'.output = rec.output
    BY <1>1, <2>1, LimitsRecord
  <2>. QED BY <1>1, <2>1, <2>2, LedgerSame
<1>6. ASSUME NEW action \in DOMAIN NextControl, Control(action)
      PROVE  AccountsExact'
  <2>1. UNCHANGED <<kid, att>>
        /\ (rec' = rec \/ rec' = [rec EXCEPT !.control = NextControl[action]])
    BY <1>6 DEF Control
  <2>2. SameBooks
    BY <1>1, <2>1, SameRecord, ControlOf, ControlRecord
  <2>. QED BY <1>1, <2>1, <2>2, BooksSame
<1>7. ASSUME NEW action \in DOMAIN NextControl, NEW c \in Child, ControlChild(c, action)
      PROVE  AccountsExact'
  <2>1. UNCHANGED <<rec, att>>
        /\ (kid' = kid \/ kid' = [kid EXCEPT ![c].control = NextControl[action]])
    BY <1>7 DEF ControlChild
  <2>2. kid \in [Child -> Kids]
    BY <1>1, TypeParts
  <2>3. \A d \in Child : kid'[d].output = kid[d].output
    BY <2>1, <2>2 DEF Kids
  <2>. QED BY <1>1, <2>1, <2>3, LedgerSame
<1>8. ASSUME NEW c \in Child, ChildConfirm(c)
      PROVE  AccountsExact'
  <2>1. UNCHANGED <<kid, att>> /\ rec' = [rec EXCEPT !.active = rec.active \cup {c}]
    BY <1>8 DEF ChildConfirm, Start
  <2>2. rec.active \cup {c} \in SUBSET Child
    BY <1>1 DEF Records
  <2>3. SameBooks
    BY <1>1, <2>1, <2>2, ActiveRecord
  <2>. QED BY <1>1, <2>1, <2>3, BooksSame
<1>. QED BY <1>3, <1>4, <1>5, <1>6, <1>7, <1>8 DEF UserStep

LEMMA AccountsKept ==
  ASSUME BudgetAssumption, Inv, AccountsExact, [Next]_vars
  PROVE  AccountsExact'
<1>1. Types /\ ChildFlights
  BY DEF Inv
<1>2. CASE UNCHANGED <<rec, kid, att>>
  BY <1>1, <1>2, SameRecord, BooksSame
<1>3. CASE Restart
  <2>1. kid' = kid /\ rec' = [rec EXCEPT !.active = {}] /\ {} \in SUBSET Child
    BY <1>3 DEF Restart
  <2>2. SameBooks
    BY <1>1, <2>1, ActiveRecord
  <2>3. /\ DOMAIN att' = DOMAIN att
        /\ \A i \in DOMAIN att : /\ att'[i].run = att[i].run /\ att'[i].kind = att[i].kind
                                 /\ att'[i].bytes = att[i].bytes
    BY <1>1, <1>3, RestartCalls DEF Restart
  <2>. QED BY <1>1, <2>1, <2>2, <2>3, LedgerSame DEF SameBooks
<1>4. CASE \E c \in Child : ChildStep(c)
  BY <1>1, <1>4, ChildAccounts
<1>5. CASE ControlDrain
  BY <1>2, <1>5 DEF ControlDrain
<1>6. CASE UNCHANGED vars
  BY <1>2, <1>6 DEF vars
<1>. QED BY <1>3, <1>4, <1>5, <1>6, ExecAccounts, UserAccounts DEF Next

LEMMA InitAccounts ==
  ASSUME BudgetAssumption, Init
  PROVE  AccountsExact
<1>1. att = << >> /\ rec.model = 0 /\ rec.tool = 0 /\ rec.output = 0
  BY DEF Init
<1>2. \A c \in Child : kid[c].output = 0
  <2>. SUFFICES ASSUME NEW c \in Child
                PROVE  kid[c].output = 0
    OBVIOUS
  <2>1. \E deps, spec : kid[c] = NewKid(deps, spec)
    BY DEF Init
  <2>. QED BY <2>1 DEF NewKid
<1>3. DOMAIN att = {}
  BY <1>1
<1>4. Charges(att, {}) = {} /\ Cardinality({}) = 0
  BY FS_EmptySet DEF Charges
<1>5. \A c \in Child : Own(att, c) = {}
  BY <1>3 DEF Own
<1>6. \A kind : OfKind(att, kind) = {}
  BY <1>3 DEF OfKind
<1>7. Ledger(rec, kid, att)
  BY <1>1, <1>2, <1>3, <1>4, <1>5, <1>6 DEF Ledger, Charged
<1>. QED BY <1>7, LedgerExact

\* Budget (reserveCollaborationCall, collaborationGuard.Record): in every reachable state
\* the counters of the record are exactly the dispatched calls and their charges, each
\* child's share is its own calls, the limits on calls hold, and a call that is not
\* settled keeps at least its reservation.
THEOREM AccountsHonestAlways == Spec => []AccountsHonest
<1>1. Init => AccountsExact
  BY BudgetAssumption, InitAccounts
<1>2. Inv /\ AccountsExact /\ [Next]_vars => AccountsExact'
  BY BudgetAssumption, AccountsKept
<1>3. ASSUME Inv, AccountsExact
      PROVE  AccountsHonest
  <2>1. /\ Types /\ Bounded /\ UncertainStaysCharged /\ Placed /\ ActiveIsRunning
        /\ rec \in Records /\ att \in Seq(Calls) /\ exec \in Executions
    BY <1>3, TypeParts DEF Inv, Plan
  <2>2. rec.output \in Nat /\ \A c \in Child : kid[c].output \in Nat
    <3>1. Ledger(rec, kid, att)
      BY <1>3, LedgerExact
    <3>2. \A r : Own(att, r) \in SUBSET DOMAIN att
      BY DEF Own
    <3>3. Charged(att, DOMAIN att) \in Nat /\ \A r : Charged(att, Own(att, r)) \in Nat
      BY <2>1, <3>2, ChargesFinite
    <3>. QED BY <3>1, <3>3 DEF Ledger
  <2>3. rec.active \subseteq Child
    BY <2>1 DEF Records
  <2>4. \A c \in Child : kid[c].deps \subseteq Present
    <3>1. \A c \in Child : kid[c].deps \in SUBSET Child
      BY <2>1, TypeParts DEF Kids
    <3>. QED BY <2>1, <3>1 DEF Bounded, Present
  <2>5. rec.control \in {"running", "paused", "cancelled"} /\ exec.err \subseteq Errors
    BY <2>1 DEF Records, Executions
  <2>6. TypeOK
    BY <2>1, <2>2, <2>3, <2>4, <2>5 DEF TypeOK, Types, Bounded, Runs
  <2>. QED BY <1>3, <2>1, <2>6 DEF AccountsHonest
<1>. QED BY <1>1, <1>2, <1>3, InvAlways, PTL DEF Spec
=============================================================================
