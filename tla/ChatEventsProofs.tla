-------------------------- MODULE ChatEventsProofs --------------------------
(* What a conversation shows and what it remembers.                           *)
(*                                                                            *)
(* What clients see is whole, for any size of the event log and of a stream's *)
(* buffer and any number of executions, events and restarts.  The log always  *)
(* is the last stretch of the events, without a hole and up to the last       *)
(* number; a client that attached in this generation is not ahead of it; and  *)
(* the terminal client's execution runs only while it waits.                  *)
(*                                                                            *)
(* Memory is what its changes made of it, for any entries, clients and        *)
(* requests.  A client in a transaction holds the lock of its key, so that    *)
(* no receipt of that key can appear beside it; one that has compared the     *)
(* revision holds the lock of the row, so that what it read is the entry.     *)
EXTENDS ChatEvents, Memory, SequenceTheorems, TLAPS

\* The log s ends with event n and has no hole.
Contiguous(s, n) ==
  /\ s \in Seq(Nat) /\ Len(s) <= n
  /\ n # 0 => s # <<>>
  /\ \A i \in 1..Len(s) : s[i] = (n - Len(s)) + i

StreamType == [open : BOOLEAN, base : Nat, queue : Seq(Nat), got : SUBSET Nat]

\* The events and the streams: what was numbered is logged, and sent or buffered.
FeedOK ==
  /\ eventSeq \in Nat /\ stateSeq \in Nat /\ stateSeq <= eventSeq
  /\ log \in Seq(Nat) /\ Contiguous(log, eventSeq)
  /\ stream \in StreamType /\ (stream.open => stream.base <= eventSeq)
  /\ StreamWhole

\* The executions: a slot is empty or has the number of an execution, and the
\* client's Run is running only inside the client's execution.
ExecOK ==
  /\ exec \in [id : Nat, binding : {"none", "mine", "queue", "channel"},
               step : {"none", "begun", "created", "running", "ended", "done"}]
  /\ execs \in Nat /\ tails \in Nat /\ version \in Nat /\ texts \in Nat /\ generation \in Nat
  /\ run \in {"none", "running", "over"}
  /\ observer \in {"poll", "stream", "snapshot"}
  /\ exec.id = 0 => exec = NoExec
  /\ run = "running" => Mine /\ exec.step \in {"created", "running"}

\* The polling client: not ahead of the events of its generation, and its
\* execution is there only while it waits.
PollOK ==
  /\ poll \in [pc : {"idle", "attached", "wait", "inactive", "read", "over", "refused", "changed"},
               gen : Nat, base : Nat, cursor : Nat, got : SUBSET Nat]
  /\ poll.gen <= generation /\ poll.base <= poll.cursor
  /\ poll.gen = generation => poll.cursor <= eventSeq
  /\ Mine => poll.pc = "wait" /\ poll.gen = generation
  /\ NoSilentGap /\ ResultIsFinal

\* The snapshot: a view that misses a change was marked before the change was
\* announced, or the execution that made it is about to announce it.
SnapOK ==
  /\ snap \in [pc : {"idle", "marked", "viewed", "again", "sent"}, exec : Nat, seq : Nat,
               view : Nat, retry : 0..2, busy : BOOLEAN]
  /\ snap.seq <= stateSeq
  /\ snap.pc = "viewed" =>
       snap.view = version \/ stateSeq > snap.seq \/ exec.step \in {"created", "ended"}

Inv == FeedOK /\ ExecOK /\ PollOK /\ SnapOK

-----------------------------------------------------------------------------
(* The log *)

\* The next event keeps the log whole, also when the oldest one is dropped
\* (onEvent: the slice is cut to the last 256).
LEMMA TrimmedContiguous ==
  ASSUME EventsAssumption, NEW s, NEW n \in Nat, Contiguous(s, n)
  PROVE  Contiguous(Trimmed(Append(s, n + 1)), n + 1)
<1> DEFINE t == Append(s, n + 1)
<1>0. s \in Seq(Nat) /\ Len(s) \in Nat /\ Len(s) <= n /\ n + 1 \in Nat
  BY DEF Contiguous
<1>1. /\ t \in Seq(Nat) /\ Len(t) = Len(s) + 1
      /\ \A i \in 1..Len(s) : t[i] = s[i]
      /\ t[Len(s) + 1] = n + 1
  BY <1>0, AppendProperties
<1> SUFFICES Contiguous(Trimmed(t), n + 1)
  OBVIOUS
<1> HIDE DEF t
<1>2. \A i \in 1..Len(t) : t[i] = (n + 1 - Len(t)) + i
  <2> TAKE i \in 1..Len(t)
  <2>1. CASE i \in 1..Len(s)
    BY <1>0, <1>1, <2>1 DEF Contiguous
  <2>2. CASE i = Len(s) + 1
    BY <1>0, <1>1, <2>2
  <2>3. QED
    BY <1>0, <1>1, <2>1, <2>2
<1>3. CASE Len(t) <= LogSize
  <2>1. Trimmed(t) = t
    BY <1>0, <1>1, <1>3 DEF Trimmed, EventsAssumption
  <2>2. t # <<>>
    BY <1>0, <1>1
  <2>3. Len(t) <= n + 1
    BY <1>0, <1>1
  <2>4. Contiguous(t, n + 1)
    BY <1>1, <1>2, <2>2, <2>3 DEF Contiguous
  <2>5. QED
    BY <2>1, <2>4
<1>4. CASE Len(t) > LogSize
  <2> DEFINE m == Len(t) - LogSize + 1
             u == SubSeq(t, m, Len(t))
  <2>1. m \in 1..Len(t) /\ Len(t) - m + 1 = LogSize /\ LogSize \in Nat \ {0}
    BY <1>0, <1>1, <1>4 DEF EventsAssumption
  <2>2. \A i \in m..Len(t) : t[i] \in Nat
    BY <1>0, <1>1, <2>1, ElementOfSeq
  <2> HIDE DEF m
  <2>3. u \in Seq(Nat) /\ Len(u) = LogSize /\ \A i \in 1..LogSize : u[i] = t[m + i - 1]
    BY <1>0, <1>1, <2>1, <2>2, SubSeqProperties
  <2>4. Trimmed(t) = u
    BY <1>4 DEF Trimmed, m
  <2> HIDE DEF u
  <2>5. \A i \in 1..Len(u) : u[i] = (n + 1 - Len(u)) + i
    <3> TAKE i \in 1..Len(u)
    <3>1. m + i - 1 \in 1..Len(t) /\ u[i] = t[m + i - 1] /\ i \in Nat
      BY <1>0, <1>1, <2>1, <2>3
    <3>2. t[m + i - 1] = (n + 1 - Len(t)) + (m + i - 1)
      BY <1>2, <3>1
    <3>3. Len(t) \in Nat /\ m \in Nat /\ m = Len(t) - Len(u) + 1 /\ Len(u) \in Nat
      BY <1>0, <1>1, <2>1, <2>3
    <3>4. QED
      BY <3>1, <3>2, <3>3
  <2>6. u # <<>> /\ Len(u) <= n + 1
    BY <1>0, <1>1, <2>1, <2>3
  <2>7. QED
    BY <2>3, <2>4, <2>5, <2>6 DEF Contiguous
<1>5. QED
  BY <1>0, <1>1, <1>3, <1>4 DEF EventsAssumption

\* A cursor that has not expired is answered with all events behind it.
LEMMA NewsComplete ==
  ASSUME FeedOK, PollOK, poll.gen = generation, ~Expired
  PROVE  News = (poll.cursor + 1)..eventSeq
<1>1. poll.cursor \in Nat /\ eventSeq \in Nat /\ poll.cursor <= eventSeq
  BY DEF FeedOK, PollOK
<1>2. CASE log = <<>>
  BY <1>1, <1>2 DEF FeedOK, Contiguous, News
<1>3. CASE log # <<>>
  <2>1. log \in Seq(Nat) /\ Len(log) \in Nat \ {0} /\ Head(log) = log[1] /\ DOMAIN log = 1..Len(log)
    BY <1>3 DEF FeedOK
  <2>2. \A i \in 1..Len(log) : log[i] = (eventSeq - Len(log)) + i
    BY DEF FeedOK, Contiguous
  <2>3. poll.cursor + 1 >= (eventSeq - Len(log)) + 1
    BY <1>1, <1>3, <2>1, <2>2 DEF Expired
  <2>4. ASSUME NEW e \in (poll.cursor + 1)..eventSeq PROVE e \in News
    <3>1. e - (eventSeq - Len(log)) \in 1..Len(log)
      BY <1>1, <2>1, <2>3
    <3>2. log[e - (eventSeq - Len(log))] = e
      BY <1>1, <2>1, <2>2, <3>1
    <3>3. QED
      BY <1>1, <2>1, <3>1, <3>2, SMTT(30) DEF News
  <2>5. ASSUME NEW e \in News PROVE e \in (poll.cursor + 1)..eventSeq
    BY <1>1, <2>1, <2>2, <2>5 DEF News
  <2>6. QED
    BY <2>4, <2>5
<1>4. QED
  BY <1>2, <1>3

-----------------------------------------------------------------------------
(* The steps *)

\* onEvent and notify keep the log and the streams whole: an event that does not
\* fit a stream's buffer closes the stream.
LEMMA EventStep ==
  ASSUME EventsAssumption, FeedOK, NEW text \in BOOLEAN, Event(text)
  PROVE  FeedOK'
<1>1. eventSeq \in Nat /\ eventSeq' = eventSeq + 1 /\ eventSeq' \in Nat
  BY DEF FeedOK, Event
<1>2. Contiguous(log', eventSeq') /\ log' \in Seq(Nat)
  <2>1. Contiguous(log', eventSeq')
    BY <1>1, TrimmedContiguous DEF FeedOK, Event
  <2>2. QED
    BY <2>1 DEF Contiguous
<1>3. stream \in StreamType /\ (stream.open => stream.base <= eventSeq)
  BY DEF FeedOK
<1>0. stateSeq' \in Nat /\ stateSeq' <= eventSeq'
  BY <1>1 DEF FeedOK, Event
<1>4. CASE ~stream.open
  <2>1. stream' = stream
    BY <1>4 DEF Event, Broadcast
  <2>2. StreamWhole' /\ ~stream'.open
    BY <1>4, <2>1 DEF StreamWhole
  <2>3. QED
    BY <1>0, <1>1, <1>2, <1>3, <2>1, <2>2 DEF FeedOK
<1>5. CASE stream.open /\ Len(stream.queue) < Buffer
  <2> DEFINE q == Append(stream.queue, eventSeq')
  <2>0. stream.queue \in Seq(Nat) /\ Len(stream.queue) \in Nat
    BY <1>3 DEF StreamType
  <2>1. /\ q \in Seq(Nat) /\ Len(q) = Len(stream.queue) + 1
        /\ \A i \in 1..Len(stream.queue) : q[i] = stream.queue[i]
        /\ q[Len(stream.queue) + 1] = eventSeq'
    BY <1>1, <2>0, AppendProperties
  <2>2. stream' = [stream EXCEPT !.queue = q]
    BY <1>5 DEF Event, Broadcast
  <2> HIDE DEF q
  <2>3. /\ stream' \in StreamType /\ stream'.base = stream.base /\ stream'.got = stream.got
        /\ stream'.queue = q
    BY <1>3, <2>1, <2>2 DEF StreamType
  <2>4. {q[i] : i \in DOMAIN q} = {stream.queue[i] : i \in DOMAIN stream.queue} \cup {eventSeq'}
    <3>1. DOMAIN q = 1..(Len(stream.queue) + 1) /\ DOMAIN stream.queue = 1..Len(stream.queue)
      BY <2>0, <2>1
    <3>2. 1..(Len(stream.queue) + 1) = 1..Len(stream.queue) \cup {Len(stream.queue) + 1}
      BY <2>0
    <3>3. QED
      BY <2>1, <3>1, <3>2, SMTT(30)
  <2>5. stream.got \cup {stream.queue[i] : i \in DOMAIN stream.queue} = (stream.base + 1)..eventSeq
    BY <1>5 DEF FeedOK, StreamWhole
  <2>6. (stream.base + 1)..eventSeq' = ((stream.base + 1)..eventSeq) \cup {eventSeq'}
    BY <1>1, <1>3, <1>5 DEF StreamType
  <2>7. StreamWhole'
    BY <2>3, <2>4, <2>5, <2>6 DEF StreamWhole
  <2>8. QED
    BY <1>0, <1>1, <1>2, <1>3, <1>5, <2>3, <2>7 DEF FeedOK, StreamType
<1>6. CASE stream.open /\ ~(Len(stream.queue) < Buffer)
  <2>1. stream' = NoStream
    BY <1>6 DEF Event, Broadcast
  <2>2. NoStream \in StreamType /\ ~NoStream.open
    BY DEF NoStream, StreamType
  <2>3. QED
    BY <1>0, <1>1, <1>2, <2>1, <2>2 DEF FeedOK, StreamWhole
<1>7. QED
  BY <1>4, <1>5, <1>6

\* A stream takes an event out of its buffer.
LEMMA ReceiveStep == ASSUME FeedOK, Receive PROVE FeedOK'
<1> DEFINE q == stream.queue
<1>1. /\ q \in Seq(Nat) /\ q # <<>> /\ stream.open \in BOOLEAN /\ stream.base \in Nat
      /\ stream.got \in SUBSET Nat
  BY DEF FeedOK, StreamType, Receive
<1>2. /\ Head(q) \in Nat /\ Head(q) = q[1]
      /\ Tail(q) \in Seq(Nat) /\ Len(Tail(q)) = Len(q) - 1
      /\ \A i \in 1..Len(Tail(q)) : Tail(q)[i] = q[i + 1]
  BY <1>1, HeadTailProperties
<1>3. Len(q) \in Nat \ {0} /\ DOMAIN q = 1..Len(q) /\ DOMAIN Tail(q) = 1..(Len(q) - 1)
  BY <1>1, <1>2
<1>4. {q[i] : i \in DOMAIN q} = {Head(q)} \cup {Tail(q)[i] : i \in DOMAIN Tail(q)}
  <2>1. ASSUME NEW i \in 1..Len(q) PROVE q[i] = Head(q) \/ q[i] \in {Tail(q)[j] : j \in 1..(Len(q) - 1)}
    <3>1. CASE i = 1
      BY <1>2, <3>1
    <3>2. CASE i # 1
      <4>1. i - 1 \in 1..(Len(q) - 1) /\ Tail(q)[i - 1] = q[(i - 1) + 1] /\ (i - 1) + 1 = i
        BY <1>2, <1>3, <3>2
      <4>2. QED
        BY <4>1
    <3>3. QED
      BY <3>1, <3>2
  <2>2. ASSUME NEW j \in 1..(Len(q) - 1) PROVE j + 1 \in 1..Len(q) /\ Tail(q)[j] = q[j + 1]
    BY <1>2, <1>3
  <2>3. 1 \in 1..Len(q)
    BY <1>3
  <2>4. QED
    BY <1>2, <1>3, <2>1, <2>2, <2>3, ZenonT(60)
<1>5. /\ stream' = [open |-> stream.open, base |-> stream.base, queue |-> Tail(q),
                   got |-> stream.got \cup {Head(q)}]
      /\ UNCHANGED <<eventSeq, stateSeq, log>>
  BY DEF Receive, server
<1>6. stream' \in StreamType
  BY <1>1, <1>2, <1>5 DEF StreamType
<1>7. stream'.got \cup {stream'.queue[i] : i \in DOMAIN stream'.queue}
        = stream.got \cup {stream.queue[i] : i \in DOMAIN stream.queue}
  BY <1>4, <1>5
<1>8. QED
  BY <1>5, <1>6, <1>7 DEF FeedOK, StreamWhole, Contiguous

\* Every step keeps the events and the streams whole.
LEMMA FeedStep == ASSUME EventsAssumption, FeedOK, [Next]_vars PROVE FeedOK'
<1>1. ASSUME NEW text \in BOOLEAN, Event(text) PROVE FeedOK'
  BY <1>1, EventStep
<1>2. CASE Quiet
  BY <1>2 DEF Quiet, FeedOK, StreamWhole, Contiguous
<1>3. CASE Restart
  <2>1. NoStream \in StreamType /\ ~NoStream.open
    BY DEF NoStream, StreamType
  <2>2. Contiguous(<<>>, 0)
    BY DEF Contiguous
  <2>3. QED
    BY <1>3, <2>1, <2>2 DEF Restart, FeedOK, StreamWhole
<1>4. CASE Listen
  <2>1. stream' \in StreamType /\ stream'.base = eventSeq /\ stream'.got = {} /\ stream'.queue = <<>>
    BY <1>4 DEF Listen, FeedOK, StreamType
  <2>2. UNCHANGED <<eventSeq, stateSeq, log>>
    BY <1>4 DEF Listen, server
  <2>3. StreamWhole'
    BY <2>1, <2>2 DEF FeedOK, StreamWhole
  <2>4. QED
    BY <2>1, <2>2, <2>3 DEF FeedOK, Contiguous
<1>5. CASE Receive
  BY <1>5, ReceiveStep
<1>6. Quiet \/ Restart \/ Listen \/ Receive \/ \E text \in BOOLEAN : Event(text)
  BY DEF Next, vars, server, Quiet, Dispatch, CreateRun, TellCreated, ModelText, EndRun, TellEnded,
         Refused, Release, Notify, Attach, Submit, Follow, ReadResult, Mark, View, Send
<1>7. QED
  BY <1>1, <1>2, <1>3, <1>4, <1>5, <1>6

\* An execution changes the client's Run only if it is the client's.
LEMMA ExecStep == ASSUME ExecOK, [Next]_vars PROVE ExecOK'
<1> USE DEF ExecOK, NoExec, Mine
<1>1. ASSUME NEW binding \in {"mine", "queue", "channel"}, Reserve(binding),
             UNCHANGED <<tails, run, version, generation, texts, observer>>
      PROVE  ExecOK'
  BY <1>1 DEF Reserve
<1>2. CASE Dispatch \/ Submit
  BY <1>1, <1>2 DEF Dispatch, Submit
<1>3. CASE CreateRun
  BY <1>3 DEF CreateRun, Step
<1>4. CASE TellCreated
  BY <1>4 DEF TellCreated, Step
<1>5. CASE ModelText
  BY <1>5 DEF ModelText
<1>6. CASE EndRun
  BY <1>6 DEF EndRun, Step
<1>7. CASE TellEnded
  BY <1>7 DEF TellEnded, Step
<1>8. CASE Refused
  BY <1>8 DEF Refused, Step
<1>9. CASE Release
  BY <1>9 DEF Release
<1>10. CASE Notify
  BY <1>10 DEF Notify
<1>11. CASE Restart
  BY <1>11 DEF Restart
<1>12. CASE UNCHANGED <<server, observer>>
  BY <1>12 DEF server
<1>13. QED
  BY <1>2, <1>3, <1>4, <1>5, <1>6, <1>7, <1>8, <1>9, <1>10, <1>11, <1>12
     DEF Next, vars, Attach, Follow, ReadResult, Listen, Receive, Mark, View, Send

\* What a step that the polling client does not take may do to it: the client's
\* execution does not appear, and its Run changes only inside of it.
PollFrame ==
  /\ poll' = poll /\ generation' >= generation
  /\ generation' = generation => eventSeq' >= eventSeq
  /\ Mine' => Mine /\ generation' = generation
  /\ run' # run => Mine

LEMMA OthersKeepPoll ==
  ASSUME FeedOK, ExecOK, [Next]_vars
  PROVE  PollFrame \/ Attach \/ Submit \/ Follow \/ ReadResult
<1> USE DEF PollFrame, FeedOK, ExecOK, Mine, NoExec
<1>1. CASE Dispatch
  BY <1>1 DEF Dispatch, Reserve, Quiet
<1>2. CASE CreateRun
  BY <1>2 DEF CreateRun, Step, Quiet
<1>3. CASE TellCreated
  BY <1>3 DEF TellCreated, Step, Event
<1>4. CASE ModelText
  BY <1>4 DEF ModelText, Event
<1>5. CASE EndRun
  BY <1>5 DEF EndRun, Step, Quiet
<1>6. CASE TellEnded
  BY <1>6 DEF TellEnded, Step, Event
<1>7. CASE Refused
  BY <1>7 DEF Refused, Step, Event
<1>8. CASE Release
  BY <1>8 DEF Release, Quiet
<1>9. CASE Notify
  BY <1>9 DEF Notify, Event
<1>10. CASE Restart
  BY <1>10 DEF Restart
<1>11. CASE UNCHANGED <<server, poll>>
  BY <1>11 DEF server
<1>12. QED
  BY <1>1, <1>2, <1>3, <1>4, <1>5, <1>6, <1>7, <1>8, <1>9, <1>10, <1>11
     DEF Next, vars, Listen, Receive, Mark, View, Send

\* Every step keeps what the polling client has whole and its result final.
LEMMA PollStep == ASSUME FeedOK, ExecOK, PollOK, FeedOK', ExecOK', [Next]_vars PROVE PollOK'
<1>1. CASE PollFrame
  <2>1. poll' = poll /\ poll.gen \in Nat /\ poll.cursor \in Nat
    BY <1>1 DEF PollFrame, PollOK
  <2>2. /\ generation \in Nat /\ generation' \in Nat /\ generation' >= generation
        /\ eventSeq \in Nat /\ eventSeq' \in Nat
        /\ generation' = generation => eventSeq' >= eventSeq
    BY <1>1 DEF PollFrame, FeedOK, ExecOK
  <2>3. poll.gen <= generation' /\ (poll.gen = generation' => poll.cursor <= eventSeq')
    BY <2>1, <2>2 DEF PollOK
  <2>4. Mine' => poll.pc = "wait" /\ poll.gen = generation'
    BY <1>1 DEF PollFrame, PollOK
  <2>5. ResultIsFinal'
    BY <1>1, <2>1 DEF PollFrame, PollOK, ResultIsFinal
  <2>6. QED
    BY <2>1, <2>3, <2>4, <2>5 DEF PollOK, NoSilentGap
<1>2. CASE Attach
  <2>1. ~Mine
    BY <1>2 DEF Attach, PollOK
  <2>2. QED
    BY <1>2, <2>1 DEF Attach, server, PollOK, FeedOK, ExecOK, NoSilentGap, ResultIsFinal, Mine
<1>3. CASE Submit
  BY <1>3 DEF Submit, Reserve, PollOK, FeedOK, ExecOK, NoSilentGap, ResultIsFinal, Mine
<1>4. CASE Follow
  <2>0. UNCHANGED <<exec, run, generation, eventSeq>>
    BY <1>4 DEF Follow, server
  <2>1. CASE Changed
    <3>1. poll' = [pc |-> "changed", gen |-> 0, base |-> 0, cursor |-> 0, got |-> {}]
      BY <1>4, <2>1 DEF Follow, NoPoll
    <3>2. ~Mine
      BY <2>1 DEF Changed, PollOK
    <3>3. QED
      BY <2>0, <3>1, <3>2 DEF PollOK, FeedOK, ExecOK, NoSilentGap, ResultIsFinal, Mine
  <2>2. CASE ~Changed
    <3> DEFINE next == IF poll.pc = "read" THEN "over" ELSE IF Inactive THEN "inactive" ELSE "wait"
    <3>1. /\ poll.gen = generation /\ next \in {"over", "inactive", "wait"}
          /\ Mine => next = "wait"
      BY <1>4, <2>2 DEF Follow, Changed, PollOK, Inactive, Mine, NoExec
    <3>2. CASE Expired
      <4>1. poll' = [pc |-> next, gen |-> poll.gen, base |-> eventSeq, cursor |-> eventSeq,
                     got |-> {}]
        BY <1>4, <2>2, <3>2 DEF Follow
      <4>2. QED
        BY <2>0, <3>1, <4>1 DEF PollOK, FeedOK, ExecOK, NoSilentGap, ResultIsFinal, Mine
    <3>3. CASE ~Expired
      <4>1. poll' = [pc |-> next, gen |-> poll.gen, base |-> poll.base, cursor |-> eventSeq,
                     got |-> poll.got \cup News]
        BY <1>4, <2>2, <3>3 DEF Follow
      <4>2. News = (poll.cursor + 1)..eventSeq /\ poll.got = (poll.base + 1)..poll.cursor
        BY <3>1, <3>3, NewsComplete DEF PollOK, NoSilentGap
      <4>3. poll.got \cup News = (poll.base + 1)..eventSeq
        BY <3>1, <4>2 DEF PollOK, FeedOK
      <4>4. poll.base <= eventSeq
        BY <3>1 DEF PollOK, FeedOK
      <4>5. QED
        BY <2>0, <3>1, <4>1, <4>3, <4>4, SMTT(30)
           DEF PollOK, FeedOK, ExecOK, NoSilentGap, ResultIsFinal, Mine
    <3>4. QED
      BY <3>2, <3>3
  <2>3. QED
    BY <2>1, <2>2
<1>5. CASE ReadResult
  <2>0. UNCHANGED <<exec, run, generation, eventSeq>> /\ ~Mine
    BY <1>5 DEF ReadResult, server, PollOK
  <2>1. CASE Changed
    <3>1. poll' = [pc |-> "changed", gen |-> 0, base |-> 0, cursor |-> 0, got |-> {}]
      BY <1>5, <2>1 DEF ReadResult, NoPoll
    <3>2. QED
      BY <2>0, <3>1 DEF PollOK, FeedOK, ExecOK, NoSilentGap, ResultIsFinal, Mine
  <2>2. CASE ~Changed
    <3>1. poll' = [poll EXCEPT !.pc = IF run = "none" THEN "refused" ELSE "read"]
      BY <1>5, <2>2 DEF ReadResult
    <3>2. QED
      BY <2>0, <3>1 DEF PollOK, ExecOK, NoSilentGap, ResultIsFinal, Mine
  <2>3. QED
    BY <2>1, <2>2
<1>6. QED
  BY <1>1, <1>2, <1>3, <1>4, <1>5, OthersKeepPoll

\* Every step keeps a view current, or its missing part announced.
LEMMA SnapStep == ASSUME FeedOK, ExecOK, SnapOK, FeedOK', [Next]_vars PROVE SnapOK'
<1> USE DEF FeedOK, ExecOK, SnapOK, NoExec
<1>1. CASE Dispatch
  BY <1>1 DEF Dispatch, Reserve, Quiet
<1>2. CASE CreateRun
  BY <1>2 DEF CreateRun, Step, Quiet
<1>3. CASE TellCreated
  BY <1>3 DEF TellCreated, Step, Event
<1>4. CASE ModelText
  BY <1>4 DEF ModelText, Event
<1>5. CASE EndRun
  BY <1>5 DEF EndRun, Step, Quiet
<1>6. CASE TellEnded
  BY <1>6 DEF TellEnded, Step, Event
<1>7. CASE Refused
  BY <1>7 DEF Refused, Step, Event
<1>8. CASE Release
  BY <1>8 DEF Release, Quiet
<1>9. CASE Notify
  BY <1>9 DEF Notify, Event
<1>10. CASE Restart
  BY <1>10 DEF Restart, NoSnap
<1>11. CASE Submit
  BY <1>11 DEF Submit, Reserve
<1>12. CASE Mark
  BY <1>12 DEF Mark, server
<1>13. CASE View
  BY <1>13 DEF View, server
<1>14. CASE Send
  <2>1. CASE snap' = [[snap EXCEPT !.retry = snap.retry + 1] EXCEPT !.pc = "again"] /\ snap.retry < 2
    <3>1. snap.retry + 1 \in 0..2 /\ stateSeq' = stateSeq
      BY <1>14, <2>1 DEF Send, server
    <3>2. /\ snap' \in [pc : {"idle", "marked", "viewed", "again", "sent"}, exec : Nat, seq : Nat,
                        view : Nat, retry : 0..2, busy : BOOLEAN]
          /\ snap'.pc = "again" /\ snap'.seq = snap.seq
      BY <2>1, <3>1
    <3>3. QED
      BY <3>1, <3>2
  <2>2. ASSUME NEW b \in BOOLEAN, snap' = [[snap EXCEPT !.busy = b] EXCEPT !.pc = "sent"]
        PROVE  SnapOK'
    BY <1>14, <2>2 DEF Send, server
  <2>3. (exec.id # 0 \/ ~Stable) \in BOOLEAN
    BY DEF Stable
  <2>4. QED
    BY <1>14, <2>1, <2>2, <2>3 DEF Send
<1>15. CASE UNCHANGED <<server, snap>>
  BY <1>15 DEF server
<1>16. QED
  BY <1>1, <1>2, <1>3, <1>4, <1>5, <1>6, <1>7, <1>8, <1>9, <1>10, <1>11, <1>12, <1>13, <1>14, <1>15
     DEF Next, vars, Attach, Follow, ReadResult, Listen, Receive

LEMMA InitInv == ASSUME Init PROVE Inv
<1>1. FeedOK
  <2>1. NoStream \in StreamType /\ ~NoStream.open
    BY DEF NoStream, StreamType
  <2>2. Contiguous(<<>>, 0)
    BY DEF Contiguous
  <2>3. QED
    BY <2>1, <2>2 DEF Init, FeedOK, StreamWhole
<1>2. ExecOK /\ ~Mine
  BY DEF Init, ExecOK, NoExec, Mine
<1>3. PollOK
  BY <1>2 DEF Init, PollOK, NoPoll, NoSilentGap, ResultIsFinal
<1>4. SnapOK
  BY DEF Init, SnapOK, NoSnap
<1>5. QED
  BY <1>1, <1>2, <1>3, <1>4 DEF Inv

LEMMA NextInv == ASSUME EventsAssumption, Inv, [Next]_vars PROVE Inv'
BY FeedStep, ExecStep, PollStep, SnapStep DEF Inv

\* No event is missing for a client that polls or streams, whatever the log and the
\* buffers drop, and the result the terminal client reports is final
\* (chatui/server.go onEvent and broadcastLocked, attach.go attachEvents,
\* cmd/freeagent/chat_client.go wait).
THEOREM ViewsWholeAlways == ASSUME EventsAssumption PROVE Spec => []ViewsWhole
<1>1. Inv => ViewsWhole
  BY DEF Inv, FeedOK, ExecOK, PollOK, SnapOK, StreamType, ViewsWhole, TypeOK
<1>2. QED
  BY <1>1, InitInv, NextInv, PTL DEF Spec

\* A snapshot that says the conversation is not busy shows all that its finished
\* executions recorded (chatui/snapshot.go readChatSnapshot).
THEOREM IdleViewCompleteAlways == ASSUME EventsAssumption PROVE Spec => IdleViewComplete
<1>1. ASSUME Inv, [Next]_vars PROVE SentComplete
  <2> SUFFICES ASSUME snap.pc = "viewed", snap'.pc = "sent", ~snap'.busy PROVE snap.view = version
    BY DEF SentComplete
  <2>1. snap \in [pc : {"idle", "marked", "viewed", "again", "sent"}, exec : Nat, seq : Nat,
                 view : Nat, retry : 0..2, busy : BOOLEAN]
    BY <1>1 DEF Inv, SnapOK
  <2>2. Send
    <3>1. snap' = snap \/ Restart \/ Mark \/ View \/ Send
      BY <1>1 DEF Next, vars, Dispatch, CreateRun, TellCreated, ModelText, EndRun, TellEnded, Refused,
                  Release, Notify, Attach, Submit, Follow, ReadResult, Listen, Receive
    <3>2. QED
      BY <2>1, <3>1 DEF Restart, NoSnap, Mark, View
  <2>3. Stable /\ exec.id = 0
    BY <2>1, <2>2 DEF Send
  <2>4. exec.step = "none" /\ ~(stateSeq > snap.seq)
    BY <1>1, <2>3 DEF Inv, ExecOK, FeedOK, SnapOK, NoExec, Stable
  <2>5. QED
    BY <1>1, <2>4 DEF Inv, SnapOK
<1>2. QED
  BY <1>1, InitInv, NextInv, PTL DEF Spec, IdleViewComplete

-----------------------------------------------------------------------------
(* Memory.                                                                    *)

\* The store, the clients and the Run as they can be.
Acts == {"create", "update", "disable", "enable", "delete", "pin", "unpin"}
Pins == {"none", "conversation", "global"}
Entries ==
  [state : {"absent", "active", "disabled", "deleted"}, scope : Scopes \cup {"private"}, rev : Nat,
   body : Keys \cup {"", "start"}, pin : Pins, file : BOOLEAN]
Requests ==
  [action : Acts \cup {"none"}, id : Ids, scope : Scopes \cup {"private"}, expected : Nat, pin : Pins]
Receipts == [hash : Requests, id : Ids]
Jobs ==
  [at : {"idle", "check", "begin", "lock", "write", "insert", "done"}, key : Keys \cup {""},
   change : Requests, old : Entries]
Uses ==
  [id : Ids, rev : Nat, state : {"absent", "active", "disabled", "deleted"}, pin : Pins,
   body : Keys \cup {"", "start"}]
Users ==
  [at : {"idle", "loop", "built"}, entries : SUBSET Ids, pins : SUBSET Uses, request : SUBSET Uses,
   sends : Nat]

StoreTyped ==
  /\ entry \in [Ids -> Entries] /\ revs \subseteq Ids \X Nat /\ receipt \in [Keys -> Receipts]
  /\ commits \in [Ids -> Nat] /\ applied \in [Keys -> Nat]
UseTyped ==
  /\ selection \in [entries : SUBSET Ids, excluded : SUBSET Ids]
  /\ edit \in [at : {"idle", "write"}, id : Ids, seen : SUBSET Ids]
  /\ using \in Users

\* A client works on a change of its own, under a key.
Working ==
  /\ job \in [Clients -> Jobs]
  /\ \A c \in Clients : /\ job[c].at # "idle" => job[c].key \in Keys /\ job[c].change.action \in Acts
                        /\ job[c].at = "write" => job[c].change.action # "create"

\* The lock of a key is held from the second look for its receipt to the end of the
\* transaction: nobody else can have written it.
KeysLocked ==
  /\ \A c \in Clients : InTransaction(c) => ~Found(job[c].key)
  /\ \A c, d \in Clients : c # d /\ InTransaction(c) /\ InTransaction(d) => job[c].key # job[d].key

\* The lock of a row is held from the comparison of the revision to the commit.
RowsLocked ==
  /\ \A c \in Clients : At(c, "write") => /\ job[c].old = entry[job[c].change.id]
                                          /\ job[c].old.state \in {"active", "disabled"}
  /\ \A c, d \in Clients : c # d /\ At(c, "write") /\ At(d, "write") => job[c].change.id # job[d].change.id

\* A change without a receipt has had no effect.
EffectOnce == \A k \in Keys : applied[k] <= 1 /\ (~Found(k) => applied[k] = 0)

\* Revisions are counted, and their rows are there as long as the entry is.
Counted(i) == entry[i].rev = commits[i] /\ entry[i].rev <= MaxRev
Rows(i) ==
  /\ entry[i].state = "absent" => entry[i] = Absent
  /\ entry[i].state = "deleted" => entry[i].body = ""
  /\ IF entry[i].state \in {"active", "disabled"}
     THEN \A n \in Nat : <<i, n>> \in revs <=> n \in 1..entry[i].rev
     ELSE \A n \in Nat : <<i, n>> \notin revs
EntriesKept == \A i \in Ids : Counted(i) /\ Rows(i)

MemoryInv == StoreTyped /\ UseTyped /\ Working /\ KeysLocked /\ RowsLocked /\ EffectOnce /\ EntriesKept

-----------------------------------------------------------------------------
(* The clients.                                                               *)

LEMMA ConstantsTyped ==
  ASSUME MemoryAssumption
  PROVE  /\ Nothing \in Requests /\ Nothing.action = "none"
         /\ Absent \in Entries /\ Absent.state = "absent" /\ Absent.rev = 0
         /\ NoReceipt \in Receipts /\ NoReceipt.hash = Nothing
         /\ Idle \in Jobs /\ Idle.at = "idle"
<1>1. First \in Ids
  BY DEF MemoryAssumption
<1>2. Nothing \in Requests /\ Nothing.action = "none"
  BY <1>1 DEF Nothing, Requests, Acts, Pins
<1>3. Absent \in Entries /\ Absent.state = "absent" /\ Absent.rev = 0
  BY DEF Absent, Entries, Pins
<1>4. NoReceipt \in Receipts /\ NoReceipt.hash = Nothing
  BY <1>1, <1>2 DEF NoReceipt, Receipts
<1>5. Idle \in Jobs /\ Idle.at = "idle"
  BY <1>2, <1>3 DEF Idle, Jobs
<1>. QED BY <1>2, <1>3, <1>4, <1>5

\* The receipt of a real change is one.
LEMMA ReceiptFound ==
  ASSUME MemoryAssumption, NEW ch \in Requests, ch.action \in Acts, NEW i
  PROVE  [hash |-> ch, id |-> i] # NoReceipt
<1>1. ch # Nothing
  BY ConstantsTyped DEF Acts
<1>. QED BY <1>1 DEF NoReceipt

\* What is asked of the next step j of client c.
JobFine(c, j) ==
  /\ j \in Jobs /\ job' = [job EXCEPT ![c] = j]
  /\ j.at # "idle" => j.key \in Keys /\ j.change.action \in Acts
  /\ j.at \in {"lock", "write", "insert"} =>
       /\ receipt' = receipt /\ ~Found(j.key)
       /\ \A d \in Clients \ {c} : InTransaction(d) => job[d].key # j.key
  /\ j.at = "write" =>
       /\ entry' = entry /\ j.change.action # "create"
       /\ j.old = entry[j.change.id] /\ j.old.state \in {"active", "disabled"}
       /\ \A d \in Clients \ {c} : At(d, "write") => job[d].change.id # j.change.id

\* What client c may do to the receipts and the entries.
StoreFine(c) ==
  /\ \A k \in Keys : receipt'[k] = receipt[k] \/ (InTransaction(c) /\ k = job[c].key)
  /\ \A d \in Clients \ {c} : At(d, "write") => entry'[job[d].change.id] = entry[job[d].change.id]

LEMMA ClientsKeep ==
  ASSUME Working, KeysLocked, RowsLocked, NEW c \in Clients, NEW j, JobFine(c, j), StoreFine(c)
  PROVE  Working' /\ KeysLocked' /\ RowsLocked'
<1>1. /\ job \in [Clients -> Jobs] /\ j \in Jobs /\ job' = [job EXCEPT ![c] = j]
  BY DEF Working, JobFine
<1>2. job' \in [Clients -> Jobs] /\ job'[c] = j /\ (\A d \in Clients \ {c} : job'[d] = job[d])
  BY <1>1
<1>3. Working'
  <2>1. ASSUME NEW d \in Clients
        PROVE  /\ job'[d].at # "idle" => job'[d].key \in Keys /\ job'[d].change.action \in Acts
               /\ job'[d].at = "write" => job'[d].change.action # "create"
    <3>1. CASE d = c
      BY <1>2, <3>1 DEF JobFine
    <3>2. CASE d # c
      BY <1>2, <3>2 DEF Working
    <3>. QED BY <3>1, <3>2
  <2>. QED BY <1>2, <2>1 DEF Working
<1>4. KeysLocked'
  <2>1. ASSUME NEW d \in Clients, InTransaction(d)'
        PROVE  ~Found(job[d].key)' /\ (d # c => InTransaction(d) /\ job'[d] = job[d])
    <3>1. CASE d = c
      <4>1. j.at \in {"lock", "write", "insert"}
        BY <1>2, <2>1, <3>1 DEF InTransaction
      <4>. QED BY <1>2, <3>1, <4>1 DEF JobFine, Found
    <3>2. CASE d # c
      <4>1. job'[d] = job[d] /\ InTransaction(d)
        BY <1>2, <2>1, <3>2 DEF InTransaction
      <4>2. job[d].key \in Keys /\ ~Found(job[d].key)
        BY <4>1 DEF KeysLocked, Working, InTransaction
      <4>3. receipt'[job[d].key] = receipt[job[d].key]
        BY <3>2, <4>1, <4>2 DEF StoreFine, KeysLocked
      <4>. QED BY <4>1, <4>2, <4>3 DEF Found
    <3>. QED BY <3>1, <3>2
  <2>2. ASSUME NEW d \in Clients, NEW e \in Clients, d # e, InTransaction(d)', InTransaction(e)'
        PROVE  job'[d].key # job'[e].key
    <3>1. CASE d = c
      <4>1. j.at \in {"lock", "write", "insert"} /\ job'[d] = j
        BY <1>2, <2>2, <3>1 DEF InTransaction
      <4>2. InTransaction(e) /\ job'[e] = job[e]
        BY <2>1, <2>2, <3>1
      <4>. QED BY <2>2, <3>1, <4>1, <4>2 DEF JobFine
    <3>2. CASE e = c
      <4>1. j.at \in {"lock", "write", "insert"} /\ job'[e] = j
        BY <1>2, <2>2, <3>2 DEF InTransaction
      <4>2. InTransaction(d) /\ job'[d] = job[d]
        BY <2>1, <2>2, <3>2
      <4>. QED BY <2>2, <3>2, <4>1, <4>2 DEF JobFine
    <3>3. CASE d # c /\ e # c
      BY <2>1, <2>2, <3>3 DEF KeysLocked
    <3>. QED BY <3>1, <3>2, <3>3
  <2>. QED BY <2>1, <2>2 DEF KeysLocked
<1>5. RowsLocked'
  <2>1. ASSUME NEW d \in Clients, At(d, "write")'
        PROVE  /\ job'[d].old = entry'[job'[d].change.id] /\ job'[d].old.state \in {"active", "disabled"}
               /\ d # c => At(d, "write") /\ job'[d] = job[d]
    <3>1. CASE d = c
      BY <1>2, <2>1, <3>1 DEF JobFine, At
    <3>2. CASE d # c
      <4>1. job'[d] = job[d] /\ At(d, "write")
        BY <1>2, <2>1, <3>2 DEF At
      <4>. QED BY <3>2, <4>1 DEF StoreFine, RowsLocked
    <3>. QED BY <3>1, <3>2
  <2>2. ASSUME NEW d \in Clients, NEW e \in Clients, d # e, At(d, "write")', At(e, "write")'
        PROVE  job'[d].change.id # job'[e].change.id
    <3>1. CASE d = c
      <4>1. j.at = "write" /\ job'[d] = j /\ At(e, "write") /\ job'[e] = job[e]
        BY <1>2, <2>1, <2>2, <3>1 DEF At
      <4>. QED BY <2>2, <3>1, <4>1 DEF JobFine
    <3>2. CASE e = c
      <4>1. j.at = "write" /\ job'[e] = j /\ At(d, "write") /\ job'[d] = job[d]
        BY <1>2, <2>1, <2>2, <3>2 DEF At
      <4>. QED BY <2>2, <3>2, <4>1 DEF JobFine
    <3>3. CASE d # c /\ e # c
      BY <2>1, <2>2, <3>3 DEF RowsLocked
    <3>. QED BY <3>1, <3>2, <3>3
  <2>. QED BY <2>1, <2>2 DEF RowsLocked
<1>. QED BY <1>3, <1>4, <1>5

\* A step that changes a client alone.
LEMMA JobKeeps ==
  ASSUME MemoryInv, NEW c \in Clients, NEW j, JobFine(c, j),
         UNCHANGED <<entry, revs, receipt, selection, edit, private, using, commits, applied>>
  PROVE  MemoryInv'
<1>1. StoreFine(c)
  BY DEF StoreFine
<1>2. Working' /\ KeysLocked' /\ RowsLocked'
  BY <1>1, ClientsKeep DEF MemoryInv
<1>3. StoreTyped' /\ UseTyped'
  BY DEF MemoryInv, StoreTyped, UseTyped
<1>4. EffectOnce' /\ EntriesKept'
  BY DEF MemoryInv, EffectOnce, EntriesKept, Counted, Rows, Found
<1>. QED BY <1>2, <1>3, <1>4 DEF MemoryInv

\* The end of a client's change, with or without an effect.
LEMMA OverTyped ==
  ASSUME MemoryAssumption, Working, NEW c \in Clients
  PROVE  /\ Over(c) \in Jobs /\ Over(c).at = "done" /\ Over(c).key = job[c].key
         /\ Over(c).change = job[c].change
<1>1. Idle \in Jobs /\ job[c].key \in Keys \cup {""} /\ job[c].change \in Requests
  BY ConstantsTyped DEF Working, Jobs
<1>. QED BY <1>1 DEF Over, Jobs

LEMMA OverFine ==
  ASSUME MemoryAssumption, Working, NEW c \in Clients, job[c].at # "idle",
         job' = [job EXCEPT ![c] = Over(c)]
  PROVE  JobFine(c, Over(c))
<1>1. job[c].key \in Keys /\ job[c].change.action \in Acts
  BY DEF Working
<1>. QED BY <1>1, OverTyped DEF JobFine

LEMMA AskedTyped ==
  ASSUME MemoryAssumption, NEW ch \in Asked
  PROVE  ch \in Requests /\ ch.action \in Acts
<1>1. First \in Ids /\ Actions \subseteq Acts /\ MaxRev \in Nat
  BY DEF MemoryAssumption, Acts
<1>2. ch \in Changes /\ ch.action \in Actions
  BY DEF Asked
<1>3. ch \in Requests
  <2>1. \A n \in 1..(MaxRev - 1) : n \in Nat
    BY <1>1
  <2>2. CASE ch \in {[action |-> a, id |-> i, scope |-> s, expected |-> n, pin |-> p] :
               a \in Actions \ {"create"}, i \in Ids, s \in Scopes, n \in 1..(MaxRev - 1), p \in {"none"}}
    BY <1>1, <2>1, <2>2 DEF Requests, Pins
  <2>3. CASE ch \in {[action |-> "create", id |-> First, scope |-> s, expected |-> 0, pin |-> "none"] : s \in Scopes}
    BY <1>1, <2>3 DEF Requests, Pins, Acts
  <2>4. CASE ch \in {[action |-> "pin", id |-> i, scope |-> s, expected |-> n, pin |-> p] :
               i \in Ids, s \in Scopes \ {"task"}, n \in 1..(MaxRev - 1), p \in {"conversation", "global"}}
    BY <1>1, <2>1, <2>4 DEF Requests, Pins, Acts
  <2>. QED BY <1>2, <2>2, <2>3, <2>4 DEF Changes
<1>. QED BY <1>1, <1>2, <1>3

\* A client that begins with a change.
Asks(k, ch) == [Idle EXCEPT !.at = "check", !.key = k, !.change = ch]

LEMMA AsksFine ==
  ASSUME MemoryAssumption, NEW c \in Clients, NEW k \in Keys, NEW ch \in Requests, ch.action \in Acts,
         job' = [job EXCEPT ![c] = Asks(k, ch)]
  PROVE  JobFine(c, Asks(k, ch))
<1>1. /\ Asks(k, ch) \in Jobs /\ Asks(k, ch).at = "check" /\ Asks(k, ch).key = k
      /\ Asks(k, ch).change = ch
  BY ConstantsTyped DEF Asks, Jobs
<1>. QED BY <1>1 DEF JobFine

LEMMA AskKeeps ==
  ASSUME MemoryAssumption, MemoryInv, NEW c \in Clients, NEW k \in Fresh, NEW ch \in Asked, Ask(c, k, ch)
  PROVE  MemoryInv'
<1>1. k \in Keys /\ ch \in Requests /\ ch.action \in Acts
  BY AskedTyped DEF Fresh
<1>2. /\ job' = [job EXCEPT ![c] = Asks(k, ch)]
      /\ UNCHANGED <<entry, revs, receipt, selection, edit, private, using, commits, applied>>
  BY DEF Ask, Asks
<1>. QED BY <1>1, <1>2, AsksFine, JobKeeps

LEMMA RepeatKeeps ==
  ASSUME MemoryAssumption, MemoryInv, NEW c \in Clients, NEW d \in Clients, Repeat(c, d)
  PROVE  MemoryInv'
<1>1. job[d].key \in Keys /\ job[d].change \in Requests /\ job[d].change.action \in Acts
  BY DEF MemoryInv, Working, Repeat, At, Jobs
<1>2. /\ job' = [job EXCEPT ![c] = Asks(job[d].key, job[d].change)]
      /\ UNCHANGED <<entry, revs, receipt, selection, edit, private, using, commits, applied>>
  BY DEF Repeat, Asks
<1>. QED BY <1>1, <1>2, AsksFine, JobKeeps

\* A client moves on to p.
LEMMA MovesTyped ==
  ASSUME Working, NEW c \in Clients,
         NEW p \in {"begin", "lock", "insert"}, job[c].at # "idle", Moves(c, p)
  PROVE  /\ job' = [job EXCEPT ![c] = [job[c] EXCEPT !.at = p]]
         /\ [job[c] EXCEPT !.at = p] \in Jobs /\ [job[c] EXCEPT !.at = p].at = p
         /\ [job[c] EXCEPT !.at = p].key = job[c].key /\ [job[c] EXCEPT !.at = p].change = job[c].change
         /\ job[c].key \in Keys /\ job[c].change.action \in Acts
<1>1. job[c] \in Jobs
  BY DEF Working
<1>2. job' = [job EXCEPT ![c] = [job[c] EXCEPT !.at = p]]
  BY DEF Moves
<1>3. job[c].key \in Keys /\ job[c].change.action \in Acts
  BY DEF Working
<1>. QED BY <1>1, <1>2, <1>3 DEF Jobs

LEMMA CheckKeeps ==
  ASSUME MemoryAssumption, MemoryInv, NEW c \in Clients, Check(c)
  PROVE  MemoryInv'
<1>1. /\ UNCHANGED <<entry, revs, receipt, selection, edit, private, using, commits, applied>>
      /\ job[c].at # "idle" /\ Working
  BY DEF Check, At, MemoryInv
<1>2. CASE Ends(c)
  BY <1>1, <1>2, OverFine, JobKeeps DEF Ends
<1>3. CASE Moves(c, "begin")
  <2>1. JobFine(c, [job[c] EXCEPT !.at = "begin"])
    BY <1>1, <1>3, MovesTyped DEF JobFine
  <2>. QED BY <1>1, <2>1, JobKeeps
<1>. QED BY <1>2, <1>3 DEF Check

LEMMA BeginKeeps ==
  ASSUME MemoryAssumption, MemoryInv, NEW c \in Clients, Begin(c)
  PROVE  MemoryInv'
<1>1. /\ UNCHANGED <<entry, revs, receipt, selection, edit, private, using, commits, applied>>
      /\ job[c].at # "idle" /\ Working
  BY DEF Begin, At, MemoryInv
<1>2. CASE Ends(c)
  BY <1>1, <1>2, OverFine, JobKeeps DEF Ends
<1>3. CASE ~Found(job[c].key) /\ Moves(c, "lock")
  <2>1. \A d \in Clients \ {c} : InTransaction(d) => job[d].key # job[c].key
    BY DEF Begin
  <2>2. JobFine(c, [job[c] EXCEPT !.at = "lock"])
    BY <1>1, <1>3, <2>1, MovesTyped DEF JobFine
  <2>. QED BY <1>1, <2>2, JobKeeps
<1>. QED BY <1>2, <1>3 DEF Begin

LEMMA LockRowKeeps ==
  ASSUME MemoryAssumption, MemoryInv, NEW c \in Clients, LockRow(c)
  PROVE  MemoryInv'
<1> DEFINE i == job[c].change.id
           j == [job[c] EXCEPT !.at = "write", !.old = entry[i]]
<1>1. /\ UNCHANGED <<entry, revs, receipt, selection, edit, private, using, commits, applied>>
      /\ job[c].at = "lock" /\ Working /\ job[c].change.action # "create"
  BY DEF LockRow, At, MemoryInv
<1>2. CASE ~Editable(c)
  BY <1>1, <1>2, OverFine, JobKeeps DEF LockRow
<1>3. CASE Editable(c)
  <2>1. job' = [job EXCEPT ![c] = j]
    BY <1>3 DEF LockRow
  <2>2. job[c] \in Jobs /\ i \in Ids /\ entry[i] \in Entries /\ job[c].key \in Keys /\ job[c].change.action \in Acts
    <3>1. job[c] \in Jobs /\ job[c].key \in Keys /\ job[c].change.action \in Acts
      BY <1>1 DEF Working
    <3>2. i \in Ids
      BY <3>1 DEF Jobs, Requests
    <3>. QED BY <3>1, <3>2 DEF MemoryInv, StoreTyped
  <2>3. j \in Jobs /\ j.at = "write" /\ j.key = job[c].key /\ j.change = job[c].change /\ j.old = entry[i]
    BY <2>2 DEF Jobs
  <2>4. InTransaction(c) /\ ~Found(job[c].key)
    BY <1>1 DEF InTransaction, MemoryInv, KeysLocked
  <2>5. \A d \in Clients \ {c} : InTransaction(d) => job[d].key # job[c].key
    BY <2>4 DEF MemoryInv, KeysLocked
  <2>6. \A d \in Clients : At(d, "write") => job[d].change.id # i
    BY DEF LockRow
  <2>7. entry[i].state \in {"active", "disabled"}
    BY <1>3 DEF Editable
  <2>8. JobFine(c, j)
    <3> HIDE DEF j
    <3>. QED BY <1>1, <2>1, <2>2, <2>3, <2>4, <2>5, <2>6, <2>7 DEF JobFine
  <2>. QED BY <1>1, <2>8, JobKeeps
<1>. QED BY <1>2, <1>3

LEMMA RollbackKeeps ==
  ASSUME MemoryAssumption, MemoryInv, NEW c \in Clients, Rollback(c)
  PROVE  MemoryInv'
<1>1. /\ UNCHANGED <<entry, revs, receipt, selection, edit, private, using, commits, applied>>
      /\ job[c].at # "idle" /\ Working /\ Ends(c)
  BY DEF Rollback, InTransaction, MemoryInv
<1>. QED BY <1>1, OverFine, JobKeeps DEF Ends

-----------------------------------------------------------------------------
(* The transactions.                                                          *)

\* A new receipt for the change of client c.
LEMMA NewReceipt ==
  ASSUME MemoryAssumption, MemoryInv, NEW c \in Clients, InTransaction(c), NEW i \in Ids,
         receipt' = [receipt EXCEPT ![job[c].key] = [hash |-> job[c].change, id |-> i]]
  PROVE  /\ receipt' \in [Keys -> Receipts] /\ job[c].key \in Keys
         /\ receipt'[job[c].key] # NoReceipt /\ receipt[job[c].key] = NoReceipt
         /\ \A k \in Keys : k # job[c].key => receipt'[k] = receipt[k]
<1>1. job[c].key \in Keys /\ job[c].change \in Requests /\ job[c].change.action \in Acts
  BY DEF MemoryInv, Working, InTransaction, Jobs
<1> DEFINE new == [hash |-> job[c].change, id |-> i]
<1>2. new \in Receipts /\ new # NoReceipt
  BY <1>1, ReceiptFound DEF Receipts
<1>3. receipt \in [Keys -> Receipts] /\ receipt' = [receipt EXCEPT ![job[c].key] = new]
  BY DEF MemoryInv, StoreTyped
<1> HIDE DEF new
<1>4. /\ receipt' \in [Keys -> Receipts] /\ receipt'[job[c].key] = new
      /\ (\A k \in Keys : k # job[c].key => receipt'[k] = receipt[k])
  BY <1>1, <1>2, <1>3
<1>5. receipt[job[c].key] = NoReceipt
  BY DEF MemoryInv, KeysLocked, Found
<1>. QED BY <1>1, <1>2, <1>4, <1>5

LEMMA ScanKeeps ==
  ASSUME MemoryAssumption, MemoryInv, NEW c \in Clients, Scan(c)
  PROVE  MemoryInv'
<1>1. /\ UNCHANGED <<entry, revs, selection, edit, private, using, commits, applied>>
      /\ job[c].at = "lock" /\ Working /\ job[c].change.action = "create" /\ InTransaction(c)
  BY DEF Scan, At, MemoryInv, InTransaction
<1>2. CASE UNCHANGED receipt /\ Moves(c, "insert")
  <2>1. ~Found(job[c].key) /\ \A d \in Clients \ {c} : InTransaction(d) => job[d].key # job[c].key
    BY <1>1 DEF MemoryInv, KeysLocked
  <2>2. JobFine(c, [job[c] EXCEPT !.at = "insert"])
    BY <1>1, <1>2, <2>1, MovesTyped DEF JobFine
  <2>. QED BY <1>1, <1>2, <2>2, JobKeeps
<1>3. CASE /\ \E i \in Known : receipt' = [receipt EXCEPT ![job[c].key] = [hash |-> job[c].change, id |-> i]]
           /\ Ends(c)
  <2>1. PICK i \in Ids : receipt' = [receipt EXCEPT ![job[c].key] = [hash |-> job[c].change, id |-> i]]
    BY <1>3 DEF Known
  <2>2. /\ receipt' \in [Keys -> Receipts] /\ job[c].key \in Keys
        /\ receipt'[job[c].key] # NoReceipt /\ receipt[job[c].key] = NoReceipt
        /\ \A k \in Keys : k # job[c].key => receipt'[k] = receipt[k]
    BY <1>1, <2>1, NewReceipt
  <2>3. JobFine(c, Over(c))
    BY <1>1, <1>3, OverFine DEF Ends
  <2>4. StoreFine(c)
    BY <1>1, <2>2 DEF StoreFine
  <2>5. Working' /\ KeysLocked' /\ RowsLocked'
    BY <2>3, <2>4, ClientsKeep DEF MemoryInv
  <2>6. StoreTyped' /\ UseTyped'
    BY <1>1, <2>2 DEF MemoryInv, StoreTyped, UseTyped
  <2>7. EffectOnce'
    BY <1>1, <2>2 DEF MemoryInv, EffectOnce, Found
  <2>8. EntriesKept'
    BY <1>1 DEF MemoryInv, EntriesKept, Counted, Rows
  <2>. QED BY <2>5, <2>6, <2>7, <2>8 DEF MemoryInv
<1>. QED BY <1>2, <1>3 DEF Scan

\* What is asked of the commit of a change: entry i becomes e, with the rows of revs'.
CommitFine(c, i, e) ==
  /\ InTransaction(c) /\ i \in Ids /\ e \in Entries /\ entry' = [entry EXCEPT ![i] = e]
  /\ \A d \in Clients \ {c} : At(d, "write") => job[d].change.id # i
  /\ e.rev = entry[i].rev + 1 /\ e.rev <= MaxRev
  /\ e.state \in {"active", "disabled", "deleted"} /\ (e.state = "deleted" => e.body = "")
  /\ revs' \subseteq Ids \X Nat
  /\ \A n \in Nat : <<i, n>> \in revs' <=> e.state # "deleted" /\ n \in 1..e.rev
  /\ \A k \in Ids \ {i}, n \in Nat : <<k, n>> \in revs' <=> <<k, n>> \in revs
  /\ Committed(c, i, revs')

LEMMA CommitKeeps ==
  ASSUME MemoryAssumption, MemoryInv, NEW c \in Clients, NEW i, NEW e, CommitFine(c, i, e)
  PROVE  MemoryInv'
<1>1. /\ receipt' = [receipt EXCEPT ![job[c].key] = [hash |-> job[c].change, id |-> i]]
      /\ commits' = [commits EXCEPT ![i] = @ + 1]
      /\ applied' = [applied EXCEPT ![job[c].key] = @ + 1]
      /\ Ends(c) /\ UNCHANGED <<selection, edit, private, using>>
  BY DEF CommitFine, Committed
<1>2. InTransaction(c) /\ i \in Ids /\ e \in Entries /\ entry' = [entry EXCEPT ![i] = e]
  BY DEF CommitFine
<1>3. StoreTyped /\ UseTyped /\ Working
  BY DEF MemoryInv
<1>4. /\ receipt' \in [Keys -> Receipts] /\ job[c].key \in Keys
      /\ receipt'[job[c].key] # NoReceipt /\ receipt[job[c].key] = NoReceipt
      /\ \A k \in Keys : k # job[c].key => receipt'[k] = receipt[k]
  BY <1>1, <1>2, NewReceipt
<1>5. entry' \in [Ids -> Entries] /\ entry'[i] = e /\ (\A k \in Ids : k # i => entry'[k] = entry[k])
  BY <1>2, <1>3 DEF StoreTyped
<1>6. /\ commits' \in [Ids -> Nat] /\ commits'[i] = commits[i] + 1
      /\ (\A k \in Ids : k # i => commits'[k] = commits[k])
  BY <1>1, <1>2, <1>3 DEF StoreTyped
<1>7. /\ applied' \in [Keys -> Nat] /\ applied'[job[c].key] = applied[job[c].key] + 1
      /\ (\A k \in Keys : k # job[c].key => applied'[k] = applied[k])
  BY <1>1, <1>3, <1>4 DEF StoreTyped
<1>8. JobFine(c, Over(c))
  BY <1>1, <1>2, <1>3, OverFine DEF Ends, InTransaction
<1>9. StoreFine(c)
  <2>1. ASSUME NEW d \in Clients \ {c}, At(d, "write")
        PROVE  entry'[job[d].change.id] = entry[job[d].change.id]
    <3>1. job[d].change.id \in Ids
      BY <1>3 DEF Working, Jobs, Requests
    <3>2. job[d].change.id # i
      BY <2>1 DEF CommitFine
    <3>. QED BY <1>5, <3>1, <3>2
  <2>. QED BY <1>2, <1>4, <2>1 DEF StoreFine
<1>10. Working' /\ KeysLocked' /\ RowsLocked'
  BY <1>8, <1>9, ClientsKeep DEF MemoryInv
<1>11. StoreTyped' /\ UseTyped'
  BY <1>1, <1>3, <1>4, <1>5, <1>6, <1>7 DEF StoreTyped, UseTyped, CommitFine
<1>12. EffectOnce'
  <2>1. applied[job[c].key] = 0
    BY <1>4 DEF MemoryInv, EffectOnce, Found
  <2>. QED BY <1>4, <1>7, <2>1 DEF MemoryInv, EffectOnce, Found
<1>13. EntriesKept'
  <2>1. Counted(i)' /\ Rows(i)'
    <3>1. entry[i].rev = commits[i] /\ e.rev = entry[i].rev + 1 /\ e.rev <= MaxRev
      BY <1>2 DEF MemoryInv, EntriesKept, Counted, CommitFine
    <3>2. Counted(i)'
      BY <1>5, <1>6, <3>1 DEF Counted
    <3>3. Rows(i)'
      BY <1>5 DEF Rows, CommitFine
    <3>. QED BY <3>2, <3>3
  <2>2. ASSUME NEW k \in Ids, k # i PROVE Counted(k)' /\ Rows(k)'
    <3>1. entry'[k] = entry[k] /\ commits'[k] = commits[k]
      BY <1>5, <1>6, <2>2
    <3>2. \A n \in Nat : <<k, n>> \in revs' <=> <<k, n>> \in revs
      BY <2>2 DEF CommitFine
    <3>3. Counted(k) /\ Rows(k)
      BY DEF MemoryInv, EntriesKept
    <3>. QED BY <3>1, <3>2, <3>3 DEF Counted, Rows
  <2>. QED BY <2>1, <2>2 DEF EntriesKept
<1>. QED BY <1>10, <1>11, <1>12, <1>13 DEF MemoryInv

LEMMA InsertKeeps ==
  ASSUME MemoryAssumption, MemoryInv, NEW c \in Clients, Insert(c)
  PROVE  MemoryInv'
<1> DEFINE e == [Absent EXCEPT !.state = "active", !.scope = job[c].change.scope, !.rev = 1,
                               !.body = job[c].key, !.file = job[c].change.scope = "knowledge"]
<1>1. /\ job[c].at = "insert" /\ InTransaction(c) /\ entry' = [entry EXCEPT ![NewID] = e]
      /\ Committed(c, NewID, revs \union {<<NewID, 1>>})
  BY DEF Insert, At, InTransaction
<1>2. NewID \in Ids /\ entry[NewID] = Absent
  BY DEF Insert, NewID
<1>3. job[c].key \in Keys /\ job[c].change.scope \in Scopes \cup {"private"}
  BY <1>1 DEF MemoryInv, Working, Jobs, Requests
<1>4. e \in Entries /\ e.rev = 1 /\ e.state = "active"
  BY <1>3, ConstantsTyped DEF Entries
<1> HIDE DEF e
<1>5. \A n \in Nat : <<NewID, n>> \notin revs
  BY <1>2, ConstantsTyped DEF MemoryInv, EntriesKept, Rows
<1>6. revs' = revs \union {<<NewID, 1>>} /\ revs \subseteq Ids \X Nat
  BY <1>1 DEF Committed, MemoryInv, StoreTyped
<1>7. \A d \in Clients \ {c} : At(d, "write") => job[d].change.id # NewID
  <2>1. ASSUME NEW d \in Clients, At(d, "write"), job[d].change.id = NewID PROVE FALSE
    <3>1. entry[NewID].state \in {"active", "disabled"}
      BY <2>1 DEF MemoryInv, RowsLocked
    <3>. QED BY <1>2, <3>1, ConstantsTyped
  <2>. QED BY <2>1
<1>8. e.rev = entry[NewID].rev + 1 /\ e.rev <= MaxRev
  BY <1>2, <1>4, ConstantsTyped DEF MemoryAssumption
<1>9. revs' \subseteq Ids \X Nat
  BY <1>2, <1>6
<1>10. \A n \in Nat : <<NewID, n>> \in revs' <=> e.state # "deleted" /\ n \in 1..e.rev
  <2>1. \A n \in Nat : n \in 1..1 <=> n = 1
    OBVIOUS
  <2>. QED BY <1>4, <1>5, <1>6, <2>1
<1>11. \A k \in Ids \ {NewID}, n \in Nat : <<k, n>> \in revs' <=> <<k, n>> \in revs
  BY <1>6
<1>12. Committed(c, NewID, revs')
  BY <1>1, <1>6
<1>13. CommitFine(c, NewID, e)
  BY <1>1, <1>2, <1>4, <1>7, <1>8, <1>9, <1>10, <1>11, <1>12 DEF CommitFine
<1>. QED BY <1>13, CommitKeeps

\* The entry after a change of a kind that edits.
LEMMA EntryAfterTyped ==
  ASSUME NEW e \in Entries, e.state \in {"active", "disabled"}, NEW k \in Keys, NEW ch \in Requests,
         ch.action \in Acts, ch.action # "create"
  PROVE  /\ EntryAfter(e, k, ch) \in Entries /\ EntryAfter(e, k, ch).rev = e.rev + 1
         /\ EntryAfter(e, k, ch).state \in {"active", "disabled", "deleted"}
         /\ EntryAfter(e, k, ch).state = "deleted" <=> ch.action = "delete"
         /\ EntryAfter(e, k, ch).state = "deleted" => EntryAfter(e, k, ch).body = ""
<1> DEFINE new == [e EXCEPT !.rev = @ + 1]
<1>1. e.rev + 1 \in Nat
  <2>1. e.rev \in Nat
    BY DEF Entries
  <2>. QED BY <2>1
<1>2. new \in Entries /\ new.rev = e.rev + 1 /\ new.state = e.state
  BY <1>1 DEF Entries
<1>3. ch.pin \in Pins
  BY DEF Requests
<1>4. EntryAfter(e, k, ch) =
        CASE ch.action = "update" -> [new EXCEPT !.body = k]
          [] ch.action = "disable" -> [new EXCEPT !.state = "disabled"]
          [] ch.action = "enable" -> [new EXCEPT !.state = "active"]
          [] ch.action = "delete" -> [new EXCEPT !.state = "deleted", !.body = "", !.pin = "none", !.file = FALSE]
          [] ch.action = "pin" -> [new EXCEPT !.pin = ch.pin]
          [] ch.action = "unpin" -> [new EXCEPT !.pin = "none"]
  BY DEF EntryAfter
<1> HIDE DEF new
<1>5. CASE ch.action = "update"
  <2>1. EntryAfter(e, k, ch) = [new EXCEPT !.body = k]
    BY <1>4, <1>5
  <2>. QED BY <1>2, <1>5, <2>1 DEF Entries
<1>6. CASE ch.action = "disable"
  <2>1. EntryAfter(e, k, ch) = [new EXCEPT !.state = "disabled"]
    BY <1>4, <1>6
  <2>. QED BY <1>2, <1>6, <2>1 DEF Entries
<1>7. CASE ch.action = "enable"
  <2>1. EntryAfter(e, k, ch) = [new EXCEPT !.state = "active"]
    BY <1>4, <1>7
  <2>. QED BY <1>2, <1>7, <2>1 DEF Entries
<1>8. CASE ch.action = "delete"
  <2>1. EntryAfter(e, k, ch) = [new EXCEPT !.state = "deleted", !.body = "", !.pin = "none", !.file = FALSE]
    BY <1>4, <1>8
  <2>. QED BY <1>2, <1>8, <2>1 DEF Entries, Pins
<1>9. CASE ch.action = "pin"
  <2>1. EntryAfter(e, k, ch) = [new EXCEPT !.pin = ch.pin]
    BY <1>4, <1>9
  <2>. QED BY <1>2, <1>3, <1>9, <2>1 DEF Entries
<1>10. CASE ch.action = "unpin"
  <2>1. EntryAfter(e, k, ch) = [new EXCEPT !.pin = "none"]
    BY <1>4, <1>10
  <2>. QED BY <1>2, <1>10, <2>1 DEF Entries, Pins
<1>. QED BY <1>5, <1>6, <1>7, <1>8, <1>9, <1>10 DEF Acts

LEMMA NextRevision ==
  ASSUME NEW a \in Nat, NEW m \in Nat, a < m
  PROVE  a + 1 \in Nat /\ a + 1 <= m /\ (\A n \in Nat : n \in 1..(a + 1) <=> n \in 1..a \/ n = a + 1)
OBVIOUS

LEMMA WriteKeeps ==
  ASSUME MemoryAssumption, MemoryInv, NEW c \in Clients, Write(c)
  PROVE  MemoryInv'
<1> DEFINE i == job[c].change.id
           e == EntryAfter(job[c].old, job[c].key, job[c].change)
           rows == IF job[c].change.action = "delete" THEN {r \in revs : r[1] # i}
                   ELSE revs \union {<<i, entry'[i].rev>>}
<1>1. /\ job[c].at = "write" /\ InTransaction(c) /\ At(c, "write") /\ Possible(c)
      /\ entry' = [entry EXCEPT ![i] = e] /\ Committed(c, i, rows)
  BY DEF Write, At, InTransaction
<1>2. /\ job[c].key \in Keys /\ job[c].change \in Requests /\ job[c].change.action \in Acts
      /\ job[c].change.action # "create" /\ i \in Ids
  <2>1. job[c] \in Jobs /\ job[c].key \in Keys /\ job[c].change.action \in Acts /\ job[c].change.action # "create"
    BY <1>1 DEF MemoryInv, Working
  <2>2. job[c].change \in Requests
    BY <2>1 DEF Jobs
  <2>3. i \in Ids
    BY <2>2 DEF Requests
  <2>. QED BY <2>1, <2>2, <2>3
<1>3. job[c].old = entry[i] /\ entry[i].state \in {"active", "disabled"} /\ entry[i] \in Entries
  BY <1>1, <1>2 DEF MemoryInv, RowsLocked, StoreTyped
<1>4. /\ e \in Entries /\ e.rev = entry[i].rev + 1 /\ e.state \in {"active", "disabled", "deleted"}
      /\ e.state = "deleted" <=> job[c].change.action = "delete"
      /\ e.state = "deleted" => e.body = ""
  <2>1. job[c].old \in Entries /\ job[c].old.state \in {"active", "disabled"}
    BY <1>3
  <2>2. /\ e \in Entries /\ e.rev = job[c].old.rev + 1 /\ e.state \in {"active", "disabled", "deleted"}
        /\ e.state = "deleted" <=> job[c].change.action = "delete"
        /\ e.state = "deleted" => e.body = ""
    BY <1>2, <2>1, EntryAfterTyped
  <2> HIDE DEF e
  <2>. QED BY <1>3, <2>2
<1>5. entry[i].rev < MaxRev /\ entry[i].rev \in Nat /\ MaxRev \in Nat
  BY <1>1, <1>3 DEF Possible, MemoryAssumption, Entries
<1>6. entry'[i] = e /\ entry \in [Ids -> Entries] /\ revs \subseteq Ids \X Nat
  BY <1>1, <1>2 DEF MemoryInv, StoreTyped
<1>7. revs' = rows
  BY <1>1 DEF Committed
<1>8. \A d \in Clients \ {c} : At(d, "write") => job[d].change.id # i
  BY <1>1 DEF MemoryInv, RowsLocked
<1>9. \A n \in Nat : <<i, n>> \in revs <=> n \in 1..entry[i].rev
  BY <1>2, <1>3 DEF MemoryInv, EntriesKept, Rows
<1>11. Committed(c, i, revs')
  BY <1>1, <1>7
<1> HIDE DEF e, i
<1>14. e.rev = entry[i].rev + 1
  BY <1>4
<1>15. /\ entry[i].rev + 1 \in Nat /\ entry[i].rev + 1 <= MaxRev
       /\ \A n \in Nat : n \in 1..(entry[i].rev + 1) <=> n \in 1..entry[i].rev \/ n = entry[i].rev + 1
  BY <1>5, NextRevision
<1>10. e.rev <= MaxRev
  BY <1>14, <1>15
<1>12. /\ revs' \subseteq Ids \X Nat
       /\ \A n \in Nat : <<i, n>> \in revs' <=> e.state # "deleted" /\ n \in 1..e.rev
       /\ \A k \in Ids \ {i}, n \in Nat : <<k, n>> \in revs' <=> <<k, n>> \in revs
  <2>1. CASE job[c].change.action = "delete"
    <3>1. revs' = {r \in revs : r[1] # i}
      BY <1>7, <2>1
    <3>2. \A k, n : <<k, n>>[1] = k
      OBVIOUS
    <3>3. \A k, n : <<k, n>> \in revs' <=> <<k, n>> \in revs /\ k # i
      BY <3>1, <3>2
    <3>4. revs' \subseteq Ids \X Nat
      BY <1>6, <3>1
    <3>. QED BY <1>4, <2>1, <3>3, <3>4
  <2>2. CASE job[c].change.action # "delete"
    <3>1. revs' = revs \union {<<i, e.rev>>}
      BY <1>6, <1>7, <2>2
    <3>2. \A n \in Nat : n \in 1..e.rev <=> n \in 1..entry[i].rev \/ n = e.rev
      BY <1>14, <1>15
    <3>3. e.rev \in Nat
      BY <1>14, <1>15
    <3>4. revs' \subseteq Ids \X Nat
      BY <1>2, <1>6, <3>1, <3>3
    <3>5. \A k, n : <<k, n>> \in revs' <=> <<k, n>> \in revs \/ (k = i /\ n = e.rev)
      BY <3>1
    <3>. QED BY <1>4, <1>9, <2>2, <3>2, <3>4, <3>5
  <2>. QED BY <2>1, <2>2
<1>13. CommitFine(c, i, e)
  BY <1>1, <1>2, <1>4, <1>8, <1>10, <1>11, <1>12 DEF CommitFine
<1>. QED BY <1>13, CommitKeeps

-----------------------------------------------------------------------------
(* The selection and the Run.                                                 *)

LEMMA UseIsTyped ==
  ASSUME StoreTyped, NEW i \in Ids
  PROVE  Use(i) \in Uses
<1>1. entry[i] \in Entries
  BY DEF StoreTyped
<1>2. /\ entry[i].rev \in Nat /\ entry[i].state \in {"absent", "active", "disabled", "deleted"}
      /\ entry[i].pin \in Pins /\ entry[i].body \in Keys \cup {"", "start"}
  BY <1>1 DEF Entries
<1>. QED BY <1>2 DEF Use, Uses

\* A step that leaves the entries and the clients alone.
LEMMA UseKeeps ==
  ASSUME MemoryInv, UseTyped', UNCHANGED <<entry, revs, receipt, job, commits, applied>>
  PROVE  MemoryInv'
<1>1. StoreTyped' /\ Working' /\ EffectOnce' /\ EntriesKept'
  BY DEF MemoryInv, StoreTyped, Working, EffectOnce, EntriesKept, Counted, Rows, Found
<1>2. KeysLocked' /\ RowsLocked'
  BY DEF MemoryInv, KeysLocked, RowsLocked, InTransaction, Found, At
<1>. QED BY <1>1, <1>2 DEF MemoryInv

LEMMA SelectionKeeps ==
  ASSUME MemoryAssumption, MemoryInv, NEW S \in SUBSET Ids, NEW i \in Ids,
         SelectMemory(S) \/ ExcludeReads(i) \/ ExcludePin(i) \/ ExcludeWrites \/ SetPrivate
  PROVE  MemoryInv'
<1>1. UNCHANGED <<entry, revs, receipt, job, commits, applied>> /\ using' = using
  BY DEF SelectMemory, ExcludeReads, ExcludePin, ExcludeWrites, SetPrivate
<1>2. /\ selection \in [entries : SUBSET Ids, excluded : SUBSET Ids]
      /\ edit \in [at : {"idle", "write"}, id : Ids, seen : SUBSET Ids] /\ using \in Users
  BY DEF MemoryInv, UseTyped
<1>3. NoEdit \in [at : {"idle", "write"}, id : Ids, seen : SUBSET Ids]
  BY DEF NoEdit, MemoryAssumption
<1>4. selection' \in [entries : SUBSET Ids, excluded : SUBSET Ids]
  <2>1. CASE SelectMemory(S)
    BY <1>2, <2>1 DEF SelectMemory
  <2>2. CASE ExcludePin(i)
    BY <1>2, <2>2 DEF ExcludePin
  <2>3. CASE ExcludeWrites
    BY <1>2, <2>3 DEF ExcludeWrites
  <2>4. CASE ExcludeReads(i) \/ SetPrivate
    BY <1>2, <2>4 DEF ExcludeReads, SetPrivate
  <2>. QED BY <2>1, <2>2, <2>3, <2>4
<1>5. edit' \in [at : {"idle", "write"}, id : Ids, seen : SUBSET Ids]
  <2>1. CASE ExcludeReads(i)
    BY <1>2, <2>1 DEF ExcludeReads
  <2>2. CASE ExcludeWrites
    BY <1>3, <2>2 DEF ExcludeWrites
  <2>3. CASE SelectMemory(S) \/ ExcludePin(i) \/ SetPrivate
    BY <1>2, <2>3 DEF SelectMemory, ExcludePin, SetPrivate
  <2>. QED BY <2>1, <2>2, <2>3
<1>6. UseTyped'
  BY <1>1, <1>2, <1>4, <1>5 DEF UseTyped
<1>. QED BY <1>1, <1>6, UseKeeps

LEMMA StoppedTyped ==
  ASSUME using \in Users
  PROVE  [Stopped EXCEPT !.sends = using.sends] \in Users
<1>1. using.sends \in Nat
  BY DEF Users
<1>. QED BY <1>1 DEF Stopped, Users

LEMMA RunKeeps ==
  ASSUME MemoryInv, Freeze \/ BuildContext \/ StartSend \/ Finish
  PROVE  MemoryInv'
<1>1. UNCHANGED <<entry, revs, receipt, job, commits, applied>> /\ UNCHANGED <<selection, edit>>
  BY DEF Freeze, BuildContext, StartSend, Finish
<1>2. selection \in [entries : SUBSET Ids, excluded : SUBSET Ids] /\ using \in Users /\ StoreTyped
  BY DEF MemoryInv, UseTyped
<1>3. \A I \in SUBSET Ids : {Use(i) : i \in I} \in SUBSET Uses
  BY <1>2, UseIsTyped
<1>4. /\ using.entries \in SUBSET Ids /\ using.pins \in SUBSET Uses /\ using.request \in SUBSET Uses
      /\ using.sends \in Nat /\ using.sends + 1 \in Nat
  BY <1>2 DEF Users
<1>5. PinnedIds \in SUBSET Ids
  BY <1>4 DEF PinnedIds, Uses
<1>6. using' \in Users
  <2>1. CASE Freeze
    <3>1. {Use(i) : i \in Pinned} \in SUBSET Uses
      <4>1. Pinned \in SUBSET Ids
        BY DEF Pinned
      <4>. QED BY <1>3, <4>1
    <3>2. selection.entries \in SUBSET Ids
      BY <1>2
    <3>3. using' = [using EXCEPT !.at = "loop", !.entries = selection.entries, !.pins = {Use(i) : i \in Pinned}]
      BY <2>1 DEF Freeze
    <3>. QED BY <1>2, <3>1, <3>2, <3>3 DEF Users
  <2>2. CASE BuildContext
    <3>1. {Use(i) : i \in using.entries \union PinnedIds} \in SUBSET Uses
      <4>1. using.entries \union PinnedIds \in SUBSET Ids
        BY <1>4, <1>5
      <4>. QED BY <1>3, <4>1
    <3>2. CASE using' = [using EXCEPT !.at = "built", !.request = {Use(i) : i \in using.entries \union PinnedIds}]
      BY <1>2, <3>1, <3>2 DEF Users
    <3>3. CASE using' = [Stopped EXCEPT !.sends = using.sends]
      BY <1>2, <3>3, StoppedTyped
    <3>. QED BY <2>2, <3>2, <3>3 DEF BuildContext
  <2>3. CASE StartSend
    <3>1. CASE using' = [using EXCEPT !.at = "loop", !.sends = @ + 1]
      BY <1>2, <1>4, <3>1 DEF Users
    <3>2. CASE using' = [Stopped EXCEPT !.sends = using.sends]
      BY <1>2, <3>2, StoppedTyped
    <3>. QED BY <2>3, <3>1, <3>2 DEF StartSend
  <2>4. CASE Finish
    BY <1>2, <2>4, StoppedTyped DEF Finish
  <2>. QED BY <2>1, <2>2, <2>3, <2>4
<1>7. UseTyped'
  BY <1>1, <1>6 DEF UseTyped, MemoryInv
<1>. QED BY <1>1, <1>7, UseKeeps

-----------------------------------------------------------------------------
(* The invariant.                                                             *)

LEMMA MemoryInitInv ==
  ASSUME MemoryAssumption, MemoryInit
  PROVE  MemoryInv
<1> DEFINE start == [Absent EXCEPT !.state = "active", !.rev = 1, !.body = "start"]
<1>1. /\ First \in Ids /\ MaxRev \in Nat /\ 1 <= MaxRev
  BY DEF MemoryAssumption
<1>2. start \in Entries /\ start.state = "active" /\ start.rev = 1
  BY ConstantsTyped DEF Entries
<1>3. entry \in [Ids -> Entries] /\ entry[First] = start /\ \A i \in Ids \ {First} : entry[i] = Absent
  <2> HIDE DEF start
  <2>1. entry = [i \in Ids |-> IF i = First THEN start ELSE Absent]
    BY DEF MemoryInit, start
  <2>. QED BY <1>1, <1>2, <2>1, ConstantsTyped
<1>4. StoreTyped
  <2>1. commits \in [Ids -> Nat]
    BY <1>3 DEF MemoryInit, Entries
  <2>2. receipt \in [Keys -> Receipts] /\ applied \in [Keys -> Nat]
    BY ConstantsTyped DEF MemoryInit
  <2>3. revs \subseteq Ids \X Nat
    BY <1>1 DEF MemoryInit
  <2>. QED BY <1>3, <2>1, <2>2, <2>3 DEF StoreTyped
<1>5. UseTyped
  <2>1. using \in Users
    BY DEF MemoryInit, Stopped, Users
  <2>2. edit \in [at : {"idle", "write"}, id : Ids, seen : SUBSET Ids]
    BY <1>1 DEF MemoryInit, NoEdit
  <2>. QED BY <2>1, <2>2 DEF UseTyped, MemoryInit
<1>6. \A c \in Clients : job[c].at = "idle"
  BY ConstantsTyped DEF MemoryInit
<1>7. Working
  BY <1>6, ConstantsTyped DEF Working, MemoryInit
<1>8. KeysLocked /\ RowsLocked
  BY <1>6 DEF KeysLocked, RowsLocked, InTransaction, At
<1>9. EffectOnce
  BY DEF EffectOnce, MemoryInit
<1>10. EntriesKept
  <2>1. ASSUME NEW i \in Ids PROVE Counted(i) /\ Rows(i)
    <3>1. commits[i] = entry[i].rev
      BY DEF MemoryInit
    <3>2. \A n \in Nat : <<i, n>> \in revs <=> i = First /\ n = 1
      BY DEF MemoryInit
    <3>3. CASE i = First
      <4>1. entry[i].state = "active" /\ entry[i].rev = 1
        BY <1>2, <1>3, <3>3
      <4>2. \A n \in Nat : n \in 1..1 <=> n = 1
        OBVIOUS
      <4>. QED BY <1>1, <3>1, <3>2, <3>3, <4>1, <4>2 DEF Counted, Rows
    <3>4. CASE i # First
      <4>1. entry[i] = Absent /\ entry[i].state = "absent" /\ entry[i].rev = 0
        BY <1>3, <3>4, ConstantsTyped
      <4>. QED BY <1>1, <3>1, <3>2, <3>4, <4>1 DEF Counted, Rows
    <3>. QED BY <3>3, <3>4
  <2>. QED BY <2>1 DEF EntriesKept
<1>. QED BY <1>4, <1>5, <1>7, <1>8, <1>9, <1>10 DEF MemoryInv

LEMMA MemoryNextInv ==
  ASSUME MemoryAssumption, MemoryInv, [MemoryNext]_memoryVars
  PROVE  MemoryInv'
<1>1. CASE Changing(Clients, Actions)
  <2>1. PICK c \in Clients :
          \/ \E k \in Fresh, ch \in {x \in Asked : x.action \in Actions} : Ask(c, k, ch)
          \/ \E d \in Clients : Repeat(c, d)
          \/ Check(c) \/ Begin(c) \/ Scan(c) \/ LockRow(c) \/ Write(c) \/ Rollback(c) \/ Insert(c)
    BY <1>1 DEF Changing
  <2>2. CASE \E k \in Fresh, ch \in {x \in Asked : x.action \in Actions} : Ask(c, k, ch)
    BY <2>2, AskKeeps
  <2>3. CASE \E d \in Clients : Repeat(c, d)
    BY <2>3, RepeatKeeps
  <2>4. CASE Check(c)
    BY <2>4, CheckKeeps
  <2>5. CASE Begin(c)
    BY <2>5, BeginKeeps
  <2>6. CASE Scan(c)
    BY <2>6, ScanKeeps
  <2>7. CASE LockRow(c)
    BY <2>7, LockRowKeeps
  <2>8. CASE Write(c)
    BY <2>8, WriteKeeps
  <2>9. CASE Rollback(c)
    BY <2>9, RollbackKeeps
  <2>10. CASE Insert(c)
    BY <2>10, InsertKeeps
  <2>. QED BY <2>1, <2>2, <2>3, <2>4, <2>5, <2>6, <2>7, <2>8, <2>9, <2>10
<1>2. CASE Choosing(Ids)
  <2>1. First \in Ids /\ {} \in SUBSET Ids
    BY DEF MemoryAssumption
  <2>2. CASE Freeze \/ BuildContext \/ StartSend \/ Finish
    BY <2>2, RunKeeps
  <2>3. CASE \/ \E S \in SUBSET Ids : SelectMemory(S)
             \/ \E i \in Ids : ExcludeReads(i) \/ ExcludePin(i)
             \/ ExcludeWrites \/ SetPrivate
    BY <2>1, <2>3, SelectionKeeps
  <2>. QED BY <1>2, <2>2, <2>3 DEF Choosing
<1>3. CASE UNCHANGED memoryVars
  <2>1. UNCHANGED <<entry, revs, receipt, job, commits, applied>> /\ UNCHANGED <<selection, edit, using>>
    BY <1>3 DEF memoryVars
  <2>2. UseTyped'
    BY <2>1 DEF MemoryInv, UseTyped
  <2>. QED BY <2>1, <2>2, UseKeeps
<1>. QED BY <1>1, <1>2, <1>3 DEF MemoryNext

LEMMA InvExact ==
  ASSUME MemoryAssumption, MemoryInv
  PROVE  MemoryExact
<1>1. StoreTyped /\ UseTyped /\ Working /\ EffectOnce /\ EntriesKept /\ MaxRev \in Nat
  BY DEF MemoryInv, MemoryAssumption
<1>2. ASSUME NEW i \in Ids
      PROVE  /\ entry[i].state \in {"absent", "active", "disabled", "deleted"} /\ entry[i].rev \in Nat
             /\ Counted(i) /\ Rows(i)
  <2>1. entry[i] \in Entries
    BY <1>1 DEF StoreTyped
  <2>. QED BY <1>1, <2>1 DEF EntriesKept, Entries
<1>3. MemoryTypeOK
  <2>1. \A i \in Ids : entry[i].state \in {"absent", "active", "disabled", "deleted"} /\ entry[i].rev \in 0..MaxRev
    BY <1>1, <1>2 DEF Counted
  <2>2. \A c \in Clients : job[c].at \in {"idle", "check", "begin", "lock", "write", "insert", "done"}
    BY <1>1 DEF Working, Jobs
  <2>3. selection.entries \subseteq Ids /\ selection.excluded \subseteq Ids /\ using.at \in {"idle", "loop", "built"}
    BY <1>1 DEF UseTyped, Users
  <2>. QED BY <2>1, <2>2, <2>3 DEF MemoryTypeOK
<1>4. AppliedOnce /\ EveryEditCounts
  BY <1>1, <1>2 DEF EffectOnce, Counted, AppliedOnce, EveryEditCounts
<1>5. \A r \in revs : r = <<r[1], r[2]>> /\ r[1] \in Ids /\ r[2] \in Nat
  BY <1>1 DEF StoreTyped
<1>6. ASSUME NEW i \in Ids, entry[i].state = "deleted"
      PROVE  entry[i].body = "" /\ \A r \in revs : r[1] # i
  <2>1. Rows(i)
    BY <1>2
  <2>2. entry[i].body = "" /\ \A n \in Nat : <<i, n>> \notin revs
    BY <1>6, <2>1 DEF Rows
  <2>. QED BY <1>5, <2>2
<1>7. ASSUME NEW i \in Ids, entry[i].state \in {"active", "disabled"}
      PROVE  {r[2] : r \in {q \in revs : q[1] = i}} = 1..entry[i].rev
  <2>1. Rows(i) /\ entry[i].rev \in Nat
    BY <1>2
  <2>2. \A n \in Nat : <<i, n>> \in revs <=> n \in 1..entry[i].rev
    BY <1>7, <2>1 DEF Rows
  <2>3. \A n \in 1..entry[i].rev : n \in Nat
    BY <2>1
  <2>4. ASSUME NEW n \in 1..entry[i].rev PROVE n \in {r[2] : r \in {q \in revs : q[1] = i}}
    <3>1. <<i, n>> \in revs /\ <<i, n>>[1] = i /\ <<i, n>>[2] = n
      BY <2>2, <2>3
    <3>. QED BY <3>1
  <2>5. ASSUME NEW r \in revs, r[1] = i PROVE r[2] \in 1..entry[i].rev
    BY <1>5, <2>2, <2>5
  <2>. QED BY <2>4, <2>5
<1>8. Forgotten
  BY <1>6, <1>7 DEF Forgotten
<1>. QED BY <1>3, <1>4, <1>8 DEF MemoryExact

(* However saves, repeats, edits and deletions interleave, a change takes     *)
(* effect at most once, no committed edit is lost, the rows of an entry are   *)
(* its revisions, and a deletion leaves nothing of it (memory.go SaveMemory,  *)
(* mutateMemoryTx).                                                           *)
THEOREM MemoryExactAlways == ASSUME MemoryAssumption PROVE MemorySpec => []MemoryExact
<1>1. MemoryInit => MemoryInv
  BY MemoryInitInv
<1>2. MemoryInv /\ [MemoryNext]_memoryVars => MemoryInv'
  BY MemoryNextInv
<1>3. MemoryInv => MemoryExact
  BY InvExact
<1>. QED BY <1>1, <1>2, <1>3, PTL DEF MemorySpec

\* Only StartSend sends, and it has compared what it sends.
LEMMA StartSendCurrent ==
  ASSUME MemoryInv, StartSend
  PROVE  SendsCurrent
<1>1. using \in Users
  BY DEF MemoryInv, UseTyped
<1>2. using.sends \in Nat /\ using.request \in SUBSET Uses
  BY <1>1 DEF Users
<1>3. CASE \A u \in using.request : Use(u.id) = u /\ (u.id \in PinnedIds => LivePin(u))
  <2>1. ASSUME NEW u \in using.request
        PROVE  /\ u.rev = entry[u.id].rev
               /\ u.body # "" => entry[u.id].state = "active" /\ u.body = entry[u.id].body
               /\ u.id \in selection.excluded \/ (u.pin = "global" /\ ~private) => u.id \notin PinnedIds
    <3>1. u = Use(u.id) /\ (u.id \in PinnedIds => LivePin(u))
      BY <1>3
    <3>2. /\ Use(u.id).rev = entry[u.id].rev
          /\ Use(u.id).body = IF entry[u.id].state = "active" THEN entry[u.id].body ELSE ""
      BY DEF Use
    <3>. QED BY <3>1, <3>2 DEF LivePin, Reaches
  <2>. QED BY <2>1 DEF SendsCurrent
<1>4. CASE using' = [Stopped EXCEPT !.sends = using.sends]
  <2>1. using'.sends = using.sends
    BY <1>4 DEF Stopped
  <2>2. ~(using'.sends > using.sends)
    BY <1>2, <2>1
  <2>. QED BY <2>2, Zenon DEF SendsCurrent
<1>. QED BY <1>3, <1>4 DEF StartSend

LEMMA OthersSendNothing ==
  ASSUME MemoryAssumption, MemoryInv, [MemoryNext]_memoryVars, ~StartSend
  PROVE  SendsCurrent
<1>1. using \in Users
  BY DEF MemoryInv, UseTyped
<1>2. using.sends \in Nat
  BY <1>1 DEF Users
<1>3. using'.sends = using.sends
  <2>1. CASE Changing(Clients, Actions)
    BY <2>1 DEF Changing, Ask, Repeat, Check, Begin, Scan, LockRow, Write, Rollback, Insert, Committed
  <2>2. CASE Choosing(Ids)
    <3>1. CASE Freeze
      BY <1>1, <3>1 DEF Freeze, Users
    <3>2. CASE BuildContext
      BY <1>1, <3>2 DEF BuildContext, Users, Stopped
    <3>3. CASE Finish
      BY <3>3 DEF Finish, Stopped
    <3>4. CASE \/ \E S \in SUBSET Ids : SelectMemory(S)
               \/ \E i \in Ids : ExcludeReads(i) \/ ExcludePin(i)
               \/ ExcludeWrites \/ SetPrivate
      BY <3>4 DEF SelectMemory, ExcludeReads, ExcludePin, ExcludeWrites, SetPrivate
    <3>. QED BY <2>2, <3>1, <3>2, <3>3, <3>4 DEF Choosing
  <2>3. CASE UNCHANGED memoryVars
    BY <2>3 DEF memoryVars
  <2>. QED BY <2>1, <2>2, <2>3 DEF MemoryNext
<1>4. ~(using'.sends > using.sends)
  BY <1>2, <1>3
<1>. QED BY <1>4, Zenon DEF SendsCurrent

(* A call starts only with memory as it is at that moment: nothing changed,   *)
(* disabled, deleted, excluded or out of reach since the request was built    *)
(* (memory_context.go validateRequestMemory, validateLivePin).                *)
THEOREM SendsCurrentAlways == ASSUME MemoryAssumption PROVE MemorySpec => [][SendsCurrent]_memoryVars
<1>1. MemoryInit => MemoryInv
  BY MemoryInitInv
<1>2. MemoryInv /\ [MemoryNext]_memoryVars => MemoryInv'
  BY MemoryNextInv
<1>3. MemoryInv /\ [MemoryNext]_memoryVars => [SendsCurrent]_memoryVars
  BY StartSendCurrent, OthersSendNothing
<1>. QED BY <1>1, <1>2, <1>3, PTL DEF MemorySpec
=============================================================================
