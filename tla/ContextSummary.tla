--------------------------- MODULE ContextSummary ---------------------------
(* The summary that stands for the older messages of a conversation           *)
(* (internal/harness/context_summary.go, context_compaction.go,               *)
(* context_fragments.go, context_prepare.go, context_tools.go).  A summary is *)
(* made by model calls, chunk by chunk, while messages arrive, get files,     *)
(* are queued, and queued ones are adopted; it is saved if the covered        *)
(* messages are still what was summarised.  A request of a Run carries the    *)
(* summary and the messages behind it.                                        *)
(*                                                                            *)
(* A message is named by what it says; the calls and results of tools are     *)
(* the private part of the answer that made them.  Sizes are left out: a      *)
(* request fits or does not, a chunk takes as much as it can.  In a channel,  *)
(* an answer stands for its delivered copy.                                   *)
EXTENDS Integers, FiniteSets

CONSTANTS
  MaxId,       \* bound: numbers of messages
  MaxRuns,     \* bound: Runs
  MaxCrashes,  \* bound: restarts
  Channel,     \* the conversation is one of a channel
  Modes        \* permissions of Runs: scoped (text only) and not

VARIABLES
  msg,      \* fa.messages of the conversation, by number
  last,     \* last_message_seq
  run,      \* the latest Run
  summary,  \* context/summary/<chat>
  verified, \* summaryVerified: the record the cache vouches for
  job,      \* the executor of the conversation
  sent,     \* a request of the Run is with the model
  crashes

vars == <<msg, last, run, summary, verified, job, sent, crashes>>

MessageIds == 1..MaxId
NoMsg == [says |-> 0, run |-> 0, role |-> "none", deferred |-> FALSE, files |-> FALSE]
NoSummary == [through |-> 0, source |-> {}, text |-> {}, scoped |-> FALSE, own |-> TRUE]
NoRun == [id |-> 0, status |-> "over", scoped |-> FALSE, bound |-> 0]
Idle == [at |-> "idle", raw |-> NoSummary, base |-> {}, source |-> {}, done |-> {}, text |-> {}, own |-> TRUE]

TypeOK ==
  /\ last \in 0..MaxId /\ \A i \in MessageIds : (msg[i] # NoMsg) => i <= last
  /\ run.status \in {"running", "limited", "over"}
  /\ job.at \in {"idle", "loop", "chunks", "manual"}
  /\ summary.through \in 0..last

Init ==
  /\ msg = [i \in MessageIds |-> NoMsg] /\ last = 0 /\ run = NoRun
  /\ summary = NoSummary /\ verified = NoSummary /\ job = Idle /\ sent = FALSE /\ crashes = 0

Is(p) == job.at = p
Used == {i \in MessageIds : msg[i] # NoMsg}

-----------------------------------------------------------------------------
(* Messages                                                                   *)

New(m) == [msg EXCEPT ![last + 1] = m]
User(r, d) == [says |-> last + 1, run |-> r, role |-> "user", deferred |-> d, files |-> FALSE]
NextRun(mode, bound) == [id |-> run.id + 1, status |-> "running", scoped |-> mode, bound |-> bound]
Startable == Is("idle") /\ run.status = "over" /\ run.id < MaxRuns

(* createRun with an input of its own; the bound of a local Run is no bound.  *)
Start(mode) ==
  /\ Startable /\ ~Channel /\ last < MaxId
  /\ msg' = New(User(run.id + 1, FALSE)) /\ last' = last + 1
  /\ run' = NextRun(mode, MaxId) /\ job' = [Idle EXCEPT !.at = "loop"]
  /\ UNCHANGED <<summary, verified, sent, crashes>>

(* A message of the channel is recorded; its files arrive later.              *)
Receive ==
  /\ Channel /\ last < MaxId /\ msg' = New(User(0, FALSE)) /\ last' = last + 1
  /\ UNCHANGED <<run, summary, verified, job, sent, crashes>>

Files(i) ==
  /\ Channel /\ msg[i].role = "user" /\ msg[i].run = 0 /\ ~msg[i].files
  /\ msg' = [msg EXCEPT ![i].files = TRUE]
  /\ UNCHANGED <<last, run, summary, verified, job, sent, crashes>>

(* The Run of a channel message takes it as it is; its number is the bound.   *)
StartChannel(i, mode) ==
  /\ Startable /\ Channel /\ msg[i].role = "user" /\ msg[i].run = 0 /\ ~msg[i].deferred
  /\ msg' = [msg EXCEPT ![i].run = run.id + 1]
  /\ run' = NextRun(mode, i) /\ job' = [Idle EXCEPT !.at = "loop"]
  /\ UNCHANGED <<last, summary, verified, sent, crashes>>

(* An input waits for its turn: a message of its own, or the one received.    *)
Queue ==
  /\ run.status # "over" /\ ~Channel /\ last < MaxId
  /\ msg' = New(User(0, TRUE)) /\ last' = last + 1
  /\ UNCHANGED <<run, summary, verified, job, sent, crashes>>

QueueReceived(i) ==
  /\ run.status # "over" /\ Channel /\ msg[i].role = "user" /\ msg[i].run = 0 /\ ~msg[i].deferred
  /\ msg' = [msg EXCEPT ![i].deferred = TRUE]
  /\ UNCHANGED <<last, run, summary, verified, job, sent, crashes>>

StayInput(i, r) ==
  /\ last < MaxId
  /\ msg' = [msg EXCEPT ![i].deferred = FALSE, ![i].run = r] /\ last' = last + 1

(* moveInputMessage: the waiting input gets the next number.                  *)
MoveInput(i, r) ==
  /\ last < MaxId
  /\ msg' = [msg EXCEPT ![i] = NoMsg, ![last + 1] = [msg[i] EXCEPT !.deferred = FALSE, !.run = r]]
  /\ last' = last + 1

(* The input is steered into the Run, or starts the next one.                 *)
Adopt(i) ==
  /\ Is("loop") /\ msg[i].deferred /\ ~sent /\ MoveInput(i, run.id)
  /\ UNCHANGED <<run, summary, verified, job, sent, crashes>>

StartQueued(i, mode) ==
  /\ Startable /\ msg[i].deferred /\ MoveInput(i, run.id + 1)
  /\ run' = NextRun(mode, IF Channel THEN last + 1 ELSE MaxId) /\ job' = [Idle EXCEPT !.at = "loop"]
  /\ UNCHANGED <<summary, verified, sent, crashes>>

-----------------------------------------------------------------------------
(* The covered prefix                                                         *)

Visible(n) == {i \in Used : i <= n /\ ~msg[i].deferred}

(* readSourcePrefix: number, Run and body of every message, in a digest.      *)
Prefix(n) == {[id |-> i, m |-> msg[i]] : i \in Visible(n)}
Through(source) == IF source = {} THEN 0 ELSE CHOOSE n \in {s.id : s \in source} : \A s \in source : s.id <= n

(* projectPublicMessages: what a reader of this scope gets of a message.      *)
Parts(m, scoped) ==
  {[says |-> m.says, files |-> m.files, part |-> p] :
     p \in IF m.role = "assistant" /\ ~scoped THEN {"text", "tools"} ELSE {"text"}}

(* contextSummary without force: the cache is asked first, then the digest.   *)
Loaded ==
  LET true == summary = verified \/ summary.source = Prefix(summary.through) IN
    [ok |-> true, cache |-> IF true THEN summary ELSE NoSummary]

(* buildContextWithSummary: a scoped reader takes a scoped summary.           *)
Usable(s, scoped) == IF scoped /\ ~s.scoped THEN NoSummary ELSE s

-----------------------------------------------------------------------------
(* planCompactionFor                                                          *)

Highest(S) == CHOOSE i \in S : \A j \in S : j <= i
Lowest(S) == CHOOSE i \in S : \A j \in S : i <= j
Own(role) == {i \in Used : msg[i].run = run.id /\ msg[i].role = role}
OfRun(r) == {i \in Used : msg[i].run = r}

(* Of an unfinished Run, the last answer stays, and the last input unless it  *)
(* is the first.                                                              *)
RetainOwn(first) ==
  IF Own("assistant") = {} THEN first
  ELSE LET answer == Highest(Own("assistant"))
           input == IF Own("user") = {} THEN 0 ELSE Highest(Own("user")) IN
         IF input > first /\ input < answer THEN input ELSE answer

(* The newest message the Run may see, deferred or not, says what stays.      *)
Seen(bound) == {i \in Used : i <= bound \/ (run.id > 0 /\ msg[i].run = run.id)}
Newest(bound) == Highest(Seen(bound))
OfSome(bound) == msg[Newest(bound)].run # 0
OwnNewest(bound) == msg[Newest(bound)].run = run.id /\ run.status # "over"
Retain(bound) ==
  LET r == msg[Newest(bound)].run
      first == IF r = 0 THEN Newest(bound) ELSE Lowest(OfRun(r)) IN
    IF OwnNewest(bound) THEN RetainOwn(first) ELSE first

(* compact extends the old summary, refresh starts from nothing; a stale one  *)
(* can only be refreshed, which an automatic plan does by itself.             *)
Plan(at, refresh, auto, bound) ==
  LET old == IF refresh \/ ~Loaded.ok THEN NoSummary ELSE Usable(summary, run.scoped)
      source == IF refresh /\ ~auto THEN Prefix(summary.through) ELSE Prefix(Retain(bound) - 1) IN
    /\ Seen(bound) # {} /\ (Loaded.ok \/ refresh \/ auto)
    /\ Through(source) > old.through
    /\ job' = [Idle EXCEPT !.at = at, !.raw = summary, !.base = old.source, !.done = old.source, !.text = old.text,
                           !.source = old.source \union {s \in source : s.id > old.through},
                           !.own = IF refresh /\ ~auto THEN summary.own ELSE OfSome(bound)]
    /\ verified' = Loaded.cache

-----------------------------------------------------------------------------
(* applyCompaction                                                            *)

Working == job.at \in {"chunks", "manual"}

(* summaryChunk and summarizeLargeGroup: some of the next messages are read   *)
(* and put in the text by a model call.                                       *)
Chunk(n) ==
  LET next == {s \in Prefix(n) : s.id > Through(job.done)} IN
    /\ Working /\ n > Through(job.done) /\ n <= Through(job.source) /\ next # {}
    /\ job' = [job EXCEPT !.done = @ \union next,
                          !.text = @ \union UNION {Parts(s.m, run.scoped) : s \in next}]
    /\ UNCHANGED <<msg, last, run, summary, verified, sent, crashes>>

After == IF Is("chunks") THEN "loop" ELSE "idle"

(* Everything read is what was planned, the summary is the one planned with,  *)
(* and the messages are still the ones that were read.                        *)
Save ==
  /\ Working /\ job.done = job.source /\ job.raw = summary
  /\ Prefix(Through(job.done)) = job.done
  /\ summary' = [through |-> Through(job.done), source |-> job.done, text |-> job.text, scoped |-> run.scoped,
               own |-> job.own]
  /\ job' = [Idle EXCEPT !.at = After]
  /\ UNCHANGED <<msg, last, run, verified, sent, crashes>>

(* A call fails or is unknown, the text does not shrink or fit, something has *)
(* changed: the old summary stays; an automatic compaction ends the Run.      *)
Give ==
  /\ Working /\ job' = Idle
  /\ run' = IF Is("chunks") THEN [run EXCEPT !.status = "limited"] ELSE run
  /\ UNCHANGED <<msg, last, summary, verified, sent, crashes>>

-----------------------------------------------------------------------------
(* The Run                                                                    *)

(* contextTail: the messages behind the summary, as far as the Run may see,   *)
(* and its first message in any case.                                         *)
Tail(used) ==
  LET behind == {i \in Used : ~msg[i].deferred /\ i > used.through /\ (i <= run.bound \/ msg[i].run = run.id)}
      prompt == {Lowest(OfRun(run.id))} IN
    {msg[i] : i \in behind \union prompt}

Request == Usable(summary, run.scoped)

(* buildContext, prepareContextRequest: the request fits and is sent.         *)
Sendable == Is("loop") /\ ~sent /\ Loaded.ok
Send ==
  /\ Sendable /\ sent' = TRUE /\ verified' = Loaded.cache
  /\ UNCHANGED <<msg, last, run, summary, job, crashes>>

(* It does not fit, or the summary is stale.                                  *)
Compact ==
  /\ Is("loop") /\ ~sent /\ Plan("chunks", FALSE, TRUE, run.bound)
  /\ UNCHANGED <<msg, last, run, summary, sent, crashes>>

(* The answer, with the results of its tools; the Run goes on or is over.     *)
Answer(over) ==
  /\ Is("loop") /\ sent /\ last < MaxId
  /\ msg' = New([says |-> last + 1, run |-> run.id, role |-> "assistant", deferred |-> FALSE, files |-> FALSE])
  /\ last' = last + 1
  /\ run' = IF over THEN [run EXCEPT !.status = "over"] ELSE run
  /\ job' = IF over THEN Idle ELSE job
  /\ sent' = FALSE
  /\ UNCHANGED <<summary, verified, crashes>>

(* The Run is stopped and continued, or given up.                             *)
Stop ==
  /\ Is("loop") /\ job' = Idle /\ run' = [run EXCEPT !.status = "limited"] /\ sent' = FALSE
  /\ UNCHANGED <<msg, last, summary, verified, crashes>>

Resume ==
  /\ Is("idle") /\ run.status = "limited"
  /\ \/ run' = [run EXCEPT !.status = "running"] /\ job' = [Idle EXCEPT !.at = "loop"]
     \/ run' = [run EXCEPT !.status = "over"] /\ UNCHANGED job
  /\ UNCHANGED <<msg, last, summary, verified, sent, crashes>>

(* manageContext: compact or refresh by the user, within the lease of the     *)
(* conversation; clear removes the summary.                                   *)
Manage(refresh) ==
  /\ Is("idle") /\ run.status # "running" /\ run.id > 0
  /\ Plan("manual", refresh, FALSE, IF run.status = "limited" THEN run.bound ELSE MaxId)
  /\ UNCHANGED <<msg, last, run, summary, sent, crashes>>

Clear ==
  /\ Is("idle") /\ run.status # "running" /\ summary # NoSummary /\ summary' = NoSummary
  /\ UNCHANGED <<msg, last, run, verified, job, sent, crashes>>

(* ContextState: the digest is compared whatever the cache says.              *)
Inspect ==
  /\ summary # NoSummary
  /\ verified' = IF summary.source = Prefix(summary.through) THEN summary ELSE NoSummary
  /\ UNCHANGED <<msg, last, run, summary, job, sent, crashes>>

Crash ==
  /\ crashes < MaxCrashes /\ crashes' = crashes + 1
  /\ job' = Idle /\ verified' = NoSummary /\ sent' = FALSE
  /\ run' = IF run.status = "running" THEN [run EXCEPT !.status = "limited"] ELSE run
  /\ UNCHANGED <<msg, last, summary>>

Next ==
  \/ \E mode \in Modes : Start(mode) \/ \E i \in Used : StartChannel(i, mode) \/ StartQueued(i, mode)
  \/ Receive \/ Queue \/ \E i \in Used : Files(i) \/ QueueReceived(i) \/ Adopt(i)
  \/ \E n \in MessageIds : Chunk(n)
  \/ Save \/ Give \/ Send \/ Compact \/ Answer(TRUE) \/ Answer(FALSE) \/ Stop \/ Resume
  \/ Manage(TRUE) \/ Manage(FALSE) \/ Clear \/ Inspect \/ Crash

Spec == Init /\ [][Next]_vars

-----------------------------------------------------------------------------
(* "Recheck both selection and source bytes before atomically replacing the   *)
(* previous summary": at the moment it is saved, a summary covers exactly the *)
(* messages there are, whatever arrived, got files or was queued during the   *)
(* model calls (context_compaction.go applyCompaction).                       *)
SavesTrue ==
  summary' # summary /\ summary' # NoSummary =>
    summary'.source = {[id |-> i, m |-> msg'[i]] :
                         i \in {j \in MessageIds : msg'[j] # NoMsg /\ j <= summary'.through /\ ~msg'[j].deferred}}

(* "contextTail never silently drops earlier Runs", and "Pending input never  *)
(* becomes part of an earlier summary's covered prefix": whatever the Run may *)
(* see is said in the request, in the summary or behind it                    *)
(* (context_summary.go contextTail, input_queue.go moveInputMessage).         *)
NothingForgotten ==
  Sendable =>
    \A i \in Used : ~msg[i].deferred /\ (i <= run.bound \/ msg[i].run = run.id) =>
      \/ \E t \in Request.text : t.says = msg[i].says
      \/ \E m \in Tail(Request) : m.says = msg[i].says

(* A Run that may only read text gets no calls or results of tools through a  *)
(* summary (context_compaction.go planCompactionFor, service.go               *)
(* buildContextWithSummary).                                                  *)
ScopeKept == Sendable /\ run.scoped => \A t \in Request.text : t.part = "text"

(* What the latest input of the Run and its last answer say is in the         *)
(* request in words.                                                          *)
InWords ==
  \A role \in {"user", "assistant"} :
    Own(role) # {} => \E m \in Tail(Request) : m.says = msg[Highest(Own(role))].says

(* Compaction during a Run leaves its latest input and its last answer in     *)
(* words, if the newest message of the conversation was not a waiting one     *)
(* (context_compaction.go planCompactionFor).                                 *)
LatestKept == Sendable /\ Request.own => InWords

(* A request has all that its Run may see and nothing that it may not.        *)
ContextWhole == TypeOK /\ NothingForgotten /\ ScopeKept /\ LatestKept
=============================================================================
