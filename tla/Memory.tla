------------------------------- MODULE Memory -------------------------------
(* Memory entries (internal/harness/memory.go), the selection of a            *)
(* conversation, pins (memory_pins.go) and the requests of a Run that carry   *)
(* their bodies (memory_context.go).  Clients save changes by request key,    *)
(* in transactions that interleave; a response may be lost and the change     *)
(* asked for again.  A Run freezes what it may use, reads it for a request,   *)
(* and the request is checked again in the transaction that starts the call.  *)
(*                                                                            *)
(* The text of a change is named by its request key.  Sizes, kinds, titles    *)
(* and the sources other than an imported file are left out.                  *)
EXTENDS Naturals, FiniteSets

CONSTANTS
  Ids,       \* entries
  First,     \* the one that is there at the start
  Clients,   \* who sends changes
  Agent,     \* the client that is the model of the Run
  Keys,      \* request keys
  Actions,   \* actions clients ask for
  Scopes,    \* scopes of new entries: private, knowledge, task
  MaxRev,    \* bound: revisions of an entry
  MaxSends   \* bound: requests of the Run

\* What the proofs assume of them.
MemoryAssumption ==
  /\ First \in Ids /\ MaxRev \in Nat \ {0}
  /\ Actions \subseteq {"create", "update", "disable", "enable", "delete", "pin", "unpin"}

VARIABLES
  entry,      \* fa.memories
  revs,       \* fa.memory_revisions: entry and revision of the rows
  receipt,    \* fa.memory_operations
  job,        \* what each client does
  selection,  \* chat/memory/<chat>: entries, excluded pins, granted pins
  edit,       \* an exclusion that has read the selection
  private,    \* the space inherits the Owner's private defaults
  using,      \* the Run: its frozen policy and the request it has built
  commits,    \* how many changes of each entry were committed
  applied     \* how often the change of each key took effect

memoryVars == <<entry, revs, receipt, job, selection, edit, private, using, commits, applied>>

Nothing == [action |-> "none", id |-> First, scope |-> "private", expected |-> 0, pin |-> "none"]
Absent == [state |-> "absent", scope |-> "private", rev |-> 0, body |-> "", pin |-> "none", file |-> FALSE]
NoReceipt == [hash |-> Nothing, id |-> First]
Idle == [at |-> "idle", key |-> "", change |-> Nothing, old |-> Absent]
NoEdit == [at |-> "idle", id |-> First, seen |-> {}]
Stopped == [at |-> "idle", entries |-> {}, pins |-> {}, request |-> {}, sends |-> 0]

MemoryTypeOK ==
  /\ \A i \in Ids : entry[i].state \in {"absent", "active", "disabled", "deleted"} /\ entry[i].rev \in 0..MaxRev
  /\ \A c \in Clients : job[c].at \in {"idle", "check", "begin", "lock", "write", "insert", "done"}
  /\ selection.entries \subseteq Ids /\ selection.excluded \subseteq Ids
  /\ using.at \in {"idle", "loop", "built"}

MemoryInit ==
  /\ entry = [i \in Ids |-> IF i = First THEN [Absent EXCEPT !.state = "active", !.rev = 1, !.body = "start"]
                            ELSE Absent]
  /\ revs = {<<First, 1>>} /\ receipt = [k \in Keys |-> NoReceipt]
  /\ job = [c \in Clients |-> Idle]
  /\ selection = [entries |-> {}, excluded |-> {}] /\ edit = NoEdit /\ private = TRUE
  /\ using = Stopped
  /\ commits = [i \in Ids |-> entry[i].rev] /\ applied = [k \in Keys |-> 0]

-----------------------------------------------------------------------------
(* memoryAuthority.grant: the user may do all of it; an Agent may add and     *)
(* change what belongs to its Run, and nothing else.                          *)
Grants(c, scope, action) == c # Agent \/ (scope = "task" /\ action \in {"create", "update"})

At(c, p) == job[c].at = p
Found(k) == receipt[k] # NoReceipt
Moves(c, p) == job' = [job EXCEPT ![c].at = p]
Over(c) == [Idle EXCEPT !.at = "done", !.key = job[c].key, !.change = job[c].change]
Ends(c) == job' = [job EXCEPT ![c] = Over(c)]

Fresh == {k \in Keys : ~Found(k) /\ \A d \in Clients : job[d].key # k}

(* A client asks for a change, under a key of its own; the revision is what   *)
(* it believes.                                                               *)
Ask(c, k, ch) ==
  /\ job[c].at \in {"idle", "done"} /\ Grants(c, ch.scope, ch.action)
  /\ ch.action # "create" => entry[ch.id] # Absent /\ entry[ch.id].scope = ch.scope
  /\ job' = [job EXCEPT ![c] = [Idle EXCEPT !.at = "check", !.key = k, !.change = ch]]
  /\ UNCHANGED <<entry, revs, receipt, selection, edit, private, using, commits, applied>>

(* The same change once more, from the same place or from another.            *)
Repeat(c, d) ==
  /\ job[c].at \in {"idle", "done"} /\ ~At(d, "idle") /\ (c # d \/ At(c, "done"))
  /\ c # Agent /\ d # Agent
  /\ job' = [job EXCEPT ![c] = [Idle EXCEPT !.at = "check", !.key = job[d].key, !.change = job[d].change]]
  /\ UNCHANGED <<entry, revs, receipt, selection, edit, private, using, commits, applied>>

(* SaveMemory: a receipt that is there already is the answer.                 *)
Check(c) ==
  /\ At(c, "check")
  /\ IF Found(job[c].key) THEN Ends(c) ELSE Moves(c, "begin")
  /\ UNCHANGED <<entry, revs, receipt, selection, edit, private, using, commits, applied>>

InTransaction(c) == job[c].at \in {"lock", "write", "insert"}

(* mutateMemoryTx: the lock of the request key, then the receipt again.       *)
Begin(c) ==
  /\ At(c, "begin") /\ \A d \in Clients : InTransaction(d) => job[d].key # job[c].key
  /\ IF Found(job[c].key) THEN Ends(c) ELSE Moves(c, "lock")
  /\ UNCHANGED <<entry, revs, receipt, selection, edit, private, using, commits, applied>>

(* duplicateKnowledgeSource: the file is in the collection already.           *)
Known == {i \in Ids : entry[i].file /\ entry[i].state # "deleted"}

(* A new entry: an imported file that is known gets the receipt of the entry  *)
(* that has it; otherwise the entry is inserted next.                         *)
Scan(c) ==
  /\ At(c, "lock") /\ job[c].change.action = "create"
  /\ IF job[c].change.scope = "knowledge" /\ Known # {}
     THEN /\ \E i \in Known : receipt' = [receipt EXCEPT ![job[c].key] = [hash |-> job[c].change, id |-> i]]
          /\ Ends(c)
     ELSE Moves(c, "insert") /\ UNCHANGED receipt
  /\ UNCHANGED <<entry, revs, selection, edit, private, using, commits, applied>>

(* What the commit of a change writes besides the entry.                      *)
Committed(c, i, rows) ==
  /\ revs' = rows
  /\ receipt' = [receipt EXCEPT ![job[c].key] = [hash |-> job[c].change, id |-> i]]
  /\ commits' = [commits EXCEPT ![i] = @ + 1]
  /\ applied' = [applied EXCEPT ![job[c].key] = @ + 1]
  /\ Ends(c)
  /\ UNCHANGED <<selection, edit, private, using>>

(* newID: names are interchangeable.                                          *)
NewID == CHOOSE i \in Ids : entry[i] = Absent

Insert(c) ==
  /\ At(c, "insert") /\ \E i \in Ids : entry[i] = Absent
  /\ entry' = [entry EXCEPT ![NewID] = [Absent EXCEPT !.state = "active", !.scope = job[c].change.scope, !.rev = 1,
                                      !.body = job[c].key, !.file = job[c].change.scope = "knowledge"]]
  /\ Committed(c, NewID, revs \union {<<NewID, 1>>})

(* An edit takes the row's lock, reads the entry and compares the revision.   *)
Editable(c) ==
  LET e == entry[job[c].change.id] IN
    /\ e.scope = job[c].change.scope /\ e.state \in {"active", "disabled"}
    /\ e.rev = job[c].change.expected

LockRowShared(c) ==
  /\ At(c, "lock") /\ job[c].change.action # "create"
  /\ job' = [job EXCEPT ![c] = IF Editable(c) THEN [job[c] EXCEPT !.at = "write", !.old = entry[job[c].change.id]]
                               ELSE Over(c)]
  /\ UNCHANGED <<entry, revs, receipt, selection, edit, private, using, commits, applied>>

LockRow(c) ==
  /\ At(c, "lock") /\ job[c].change.action # "create"
  /\ \A d \in Clients : At(d, "write") => job[d].change.id # job[c].change.id
  /\ job' = [job EXCEPT ![c] = IF Editable(c) THEN [job[c] EXCEPT !.at = "write", !.old = entry[job[c].change.id]]
                               ELSE Over(c)]
  /\ UNCHANGED <<entry, revs, receipt, selection, edit, private, using, commits, applied>>

(* The entry after the change.                                                *)
EntryAfter(e, key, ch) ==
  LET new == [e EXCEPT !.rev = @ + 1] IN
  CASE ch.action = "update" -> [new EXCEPT !.body = key]
    [] ch.action = "disable" -> [new EXCEPT !.state = "disabled"]
    [] ch.action = "enable" -> [new EXCEPT !.state = "active"]
    [] ch.action = "delete" -> [new EXCEPT !.state = "deleted", !.body = "", !.pin = "none", !.file = FALSE]
    [] ch.action = "pin" -> [new EXCEPT !.pin = ch.pin]
    [] ch.action = "unpin" -> [new EXCEPT !.pin = "none"]

Possible(c) ==
  LET ch == job[c].change
      e == job[c].old IN
    /\ e.rev < MaxRev
    /\ ch.action = "disable" => e.state = "active"
    /\ ch.action = "enable" => e.state = "disabled"
    /\ ch.action = "pin" => e.state = "active" /\ e.scope # "task"

(* The entry, its revision row and the receipt; a deletion takes every        *)
(* revision with it.                                                          *)
Write(c) ==
  LET i == job[c].change.id IN
    /\ At(c, "write") /\ Possible(c)
    /\ entry' = [entry EXCEPT ![i] = EntryAfter(job[c].old, job[c].key, job[c].change)]
    /\ Committed(c, i, IF job[c].change.action = "delete" THEN {r \in revs : r[1] # i}
                       ELSE revs \union {<<i, entry'[i].rev>>})

(* The transaction is refused or rolled back; the Owner may die in it.        *)
Rollback(c) ==
  /\ InTransaction(c)
  /\ Ends(c)
  /\ UNCHANGED <<entry, revs, receipt, selection, edit, private, using, commits, applied>>

-----------------------------------------------------------------------------
(* The selection of the conversation                                          *)

(* SelectMemory replaces the selection; every entry must be active.           *)
SelectMemory(S) ==
  /\ using.sends < MaxSends
  /\ \A i \in S : entry[i].state = "active" /\ entry[i].scope = "private"
  /\ selection' = [selection EXCEPT !.entries = S]
  /\ UNCHANGED <<entry, revs, receipt, job, edit, private, using, commits, applied>>

(* ExcludeMemory reads the selection and writes it back without one entry.    *)
ExcludeReads(i) ==
  /\ edit.at = "idle" /\ i \in selection.entries
  /\ edit' = [at |-> "write", id |-> i, seen |-> selection.entries]
  /\ UNCHANGED <<entry, revs, receipt, job, selection, private, using, commits, applied>>

ExcludeWrites ==
  /\ edit.at = "write"
  /\ selection' = [selection EXCEPT !.entries = edit.seen \ {edit.id}] /\ edit' = NoEdit
  /\ UNCHANGED <<entry, revs, receipt, job, private, using, commits, applied>>

(* ExcludePinnedMemory.                                                       *)
ExcludePin(i) ==
  /\ using.sends < MaxSends
  /\ i \notin selection.excluded
  /\ \A j \in selection.entries : entry[j].state = "active"
  /\ selection' = [selection EXCEPT !.excluded = @ \union {i}]
  /\ UNCHANGED <<entry, revs, receipt, job, edit, private, using, commits, applied>>

(* The permission of the space is given or taken.                             *)
SetPrivate ==
  /\ using.sends < MaxSends
  /\ private' = ~private
  /\ UNCHANGED <<entry, revs, receipt, job, selection, edit, using, commits, applied>>

-----------------------------------------------------------------------------
(* The Run                                                                    *)

(* memoryUse: a disabled or deleted entry is named without its body.          *)
Use(i) == [id |-> i, rev |-> entry[i].rev, state |-> entry[i].state, pin |-> entry[i].pin,
           body |-> IF entry[i].state = "active" THEN entry[i].body ELSE ""]

(* A pin on the conversation counts in it; one on everything only where the   *)
(* Owner's private defaults are inherited.                                    *)
Reaches(pin) == pin = "conversation" \/ (pin = "global" /\ private)
Pinned == {i \in Ids : entry[i].state = "active" /\ entry[i].scope # "task"
                       /\ Reaches(entry[i].pin) /\ i \notin selection.excluded}

(* selectMemory and selectPinnedMemory: the policy of a new Run.              *)
Freeze ==
  /\ using.at = "idle" /\ using.sends < MaxSends
  /\ using' = [using EXCEPT !.at = "loop", !.entries = selection.entries, !.pins = {Use(i) : i \in Pinned}]
  /\ UNCHANGED <<entry, revs, receipt, job, selection, edit, private, commits, applied>>

PinnedIds == {u.id : u \in using.pins}

(* memoryContext: one read of everything; a pin that has changed since is a   *)
(* conflict.                                                                  *)
BuildContext ==
  /\ using.at = "loop" /\ using.sends < MaxSends
  /\ using' = IF \A u \in using.pins : Use(u.id) = u
              THEN [using EXCEPT !.at = "built", !.request = {Use(i) : i \in using.entries \union PinnedIds}]
              ELSE [Stopped EXCEPT !.sends = using.sends]
  /\ UNCHANGED <<entry, revs, receipt, job, selection, edit, private, commits, applied>>

(* validateLivePin, with the permission and the exclusions of this moment.    *)
LivePin(u) == u.id \notin selection.excluded /\ Reaches(u.pin)

StartBuilt ==
  /\ using.at = "built"
  /\ using' = [using EXCEPT !.at = "loop", !.sends = @ + 1]
  /\ UNCHANGED <<entry, revs, receipt, job, selection, edit, private, commits, applied>>

(* startGuardedModel with validateRequestMemory: what the request holds is    *)
(* compared with the entries in the transaction that starts the call.         *)
StartSend ==
  /\ using.at = "built"
  /\ using' = IF \A u \in using.request : Use(u.id) = u /\ (u.id \in PinnedIds => LivePin(u))
              THEN [using EXCEPT !.at = "loop", !.sends = @ + 1]
              ELSE [Stopped EXCEPT !.sends = using.sends]
  /\ UNCHANGED <<entry, revs, receipt, job, selection, edit, private, commits, applied>>

(* The Run is over.                                                           *)
Finish ==
  /\ using.at # "idle" /\ using' = [Stopped EXCEPT !.sends = using.sends]
  /\ UNCHANGED <<entry, revs, receipt, job, selection, edit, private, commits, applied>>

-----------------------------------------------------------------------------
Changes ==
  {[action |-> a, id |-> i, scope |-> s, expected |-> n, pin |-> p] :
     a \in Actions \ {"create"}, i \in Ids, s \in Scopes, n \in 1..(MaxRev - 1), p \in {"none"}}
  \union {[action |-> "create", id |-> First, scope |-> s, expected |-> 0, pin |-> "none"] : s \in Scopes}
  \union {[action |-> "pin", id |-> i, scope |-> s, expected |-> n, pin |-> p] :
            i \in Ids, s \in Scopes \ {"task"}, n \in 1..(MaxRev - 1), p \in {"conversation", "global"}}

Asked == {ch \in Changes : ch.action \in Actions /\ (ch.action = "pin" => ch.pin # "none")}

(* Changes by some clients, with some actions; the Run and the choice of what *)
(* it uses, among some entries.                                               *)
Changing(C, A) ==
  \E c \in C : \/ \E k \in Fresh, ch \in {x \in Asked : x.action \in A} : Ask(c, k, ch)
               \/ \E d \in C : Repeat(c, d)
               \/ Check(c) \/ Begin(c) \/ Scan(c) \/ LockRow(c) \/ Write(c) \/ Rollback(c) \/ Insert(c)

Choosing(I) ==
  \/ \E S \in SUBSET I : SelectMemory(S)
  \/ \E i \in I : ExcludeReads(i) \/ ExcludePin(i)
  \/ ExcludeWrites \/ SetPrivate
  \/ Freeze \/ BuildContext \/ StartSend \/ Finish

MemoryNext == Changing(Clients, Actions) \/ Choosing(Ids)

MemorySpec == MemoryInit /\ [][MemoryNext]_memoryVars

-----------------------------------------------------------------------------
(* A change takes effect once, however often and from wherever it is asked    *)
(* for, and a change whose effect was deleted is not made again (memory.go    *)
(* SaveMemory, mutateMemoryTx).                                               *)
AppliedOnce == \A k \in Keys : applied[k] <= 1

(* No edit is lost: every committed change of an entry is a revision of its   *)
(* own (memory.go mutateMemoryTx).                                            *)
EveryEditCounts == \A i \in Ids : entry[i].rev = commits[i]

(* Delete leaves nothing of an entry in the store, at whatever moment it      *)
(* meets an edit, and nothing brings the entry back (memory.go                *)
(* mutateMemoryTx; docs/MEMORY.md).                                           *)
Forgotten ==
  /\ \A i \in Ids : entry[i].state = "deleted" => entry[i].body = "" /\ \A r \in revs : r[1] # i
  /\ \A i \in Ids : entry[i].state \in {"active", "disabled"} => {r[2] : r \in {q \in revs : q[1] = i}} = 1..entry[i].rev

(* "concurrent changes before dispatch cause a conflict, not silent           *)
(* substitution": a call is started only with memory as it is at that moment, *)
(* nothing disabled, deleted, unpinned, excluded or out of reach in it        *)
(* (memory_context.go validateRequestMemory).                                 *)
SendsCurrent ==
  using'.sends > using.sends =>
    \A u \in using.request :
      /\ u.rev = entry[u.id].rev
      /\ u.body # "" => entry[u.id].state = "active" /\ u.body = entry[u.id].body
      /\ u.id \in selection.excluded \/ (u.pin = "global" /\ ~private) => u.id \notin PinnedIds

(* Memory is what its committed changes made of it, once each, and nothing of *)
(* what was deleted.                                                          *)
MemoryExact == MemoryTypeOK /\ AppliedOnce /\ EveryEditCounts /\ Forgotten
=============================================================================
