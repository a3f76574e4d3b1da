------------------------------ MODULE MCChannels ------------------------------
(***************************************************************************)
(* The ways into the Owner from outside, checked in one run: the two        *)
(* directions of a channel connection, and the public Web entrance in three *)
(* settings.  part says which of them moves in a behaviour.                 *)
(***************************************************************************)
EXTENDS ChannelOutbox, ChannelInbound

VARIABLES part,
  saved, cred, policy, origin, running, sessions, failures, global, challenges, logins,
  refreshers, requests, tries

webVars == <<saved, cred, policy, origin, running, sessions, failures, global, challenges,
             logins, refreshers, requests, tries>>
all == <<part, vars, inboundVars, webVars>>

\* A reply of a Run with a download, and with a file of its own.
TwoMixes == {<<"reply", "download">>, <<"reply", "file">>}

\* A request, its Run and the button that confirms it; jobs and commands between them.
ThreeScripts ==
  {<<"request", "request", "approve">>, <<"launch", "command", "launch">>,
   <<"background", "request", "launch">>}

\* The instances satisfy what the proofs assume.
ASSUME Instances == OutboxAssumption /\ InboundAssumption

Open == [enabled |-> TRUE, allowed |-> {"s1", "s2"}, max |-> 1, origin |-> 1]

\* Sign-ins of one source with wrong passwords.
SignIn == INSTANCE PublicSessions WITH
  Sources <- {"s1"}, Logins <- {"l1", "l2"}, Refreshers <- {"tick"}, Ticker <- "tick",
  Requests <- {}, Policies <- {Open}, Start <- Open, FailureLimit <- 2, BlacklistAfter <- 2,
  GlobalLimit <- 3, HashSlots <- 2, ReadSlots <- 1, PerSource <- 1, CookieCheck <- TRUE,
  Binding <- FALSE, MaxSources <- 2, MaxGeneration <- 1, file <- saved

\* Sign-ins and two refreshing threads while the password changes.
Reset == INSTANCE PublicSessions WITH
  Sources <- {"s1"}, Logins <- {"l1"}, Refreshers <- {"tick", "api"}, Ticker <- "tick",
  Requests <- {}, Start <- Open,
  Policies <- {Open, [Open EXCEPT !.enabled = FALSE]},
  FailureLimit <- 1, BlacklistAfter <- 1, GlobalLimit <- 1, HashSlots <- 2, ReadSlots <- 1,
  PerSource <- 1, CookieCheck <- FALSE, Binding <- FALSE, MaxSources <- 2,
  MaxGeneration <- 2, file <- saved

\* A session with a request while the policy changes.
Served == INSTANCE PublicSessions WITH
  Sources <- {"s1", "s2"}, Logins <- {"l1"}, Refreshers <- {"tick"}, Ticker <- "tick",
  Requests <- {"q1"},
  Policies <- {Open, [Open EXCEPT !.allowed = {"s1"}]},
  Start <- Open, FailureLimit <- 1, BlacklistAfter <- 1, GlobalLimit <- 1, HashSlots <- 1,
  ReadSlots <- 1, PerSource <- 1, CookieCheck <- FALSE, Binding <- FALSE, MaxSources <- 2,
  MaxGeneration <- 2, file <- saved

Web == {"signin", "reset", "served"}

\* The outbox and the inbound events, whose promises are checked throughout, stay where
\* they start while another part moves; the entrance then holds nothing.
NoWeb ==
  /\ saved = 0 /\ cred = 0 /\ policy = 0 /\ origin = 0 /\ running = 0 /\ sessions = 0
  /\ failures = 0 /\ global = 0 /\ challenges = 0 /\ logins = 0 /\ refreshers = 0
  /\ requests = 0 /\ tries = 0

MCInit ==
  /\ \/ part \in {"inbound", "outbox"} /\ NoWeb
     \/ part = "signin" /\ SignIn!Init
     \/ part = "reset" /\ Reset!Init
     \/ part = "served" /\ Served!Init
  /\ Init /\ InboundInit
  /\ part # "outbox" => kind[2] = "file"
  /\ part # "inbound" => script[1] = "background"

\* A step of each part, in the behaviours in which it moves.
InboundStep(A) == part = "inbound" /\ A /\ UNCHANGED <<part, vars, webVars>>
OutboxStep(A) == part = "outbox" /\ A /\ UNCHANGED <<part, inboundVars, webVars>>
WebStep(p, A) == part = p /\ A /\ UNCHANGED <<part, vars, inboundVars>>

MCNext == \/ InboundStep(InboundNext) \/ OutboxStep(Next)
          \/ WebStep("signin", SignIn!Next) \/ WebStep("reset", Reset!Next)
          \/ WebStep("served", Served!Next)

\* A reader of the credential, in whichever setting.
Refreshing(f) ==
  \/ WebStep("reset", Reset!RefreshRead(f) \/ Reset!RefreshApply(f))
  \/ WebStep("served", f = "tick" /\ (Served!RefreshRead(f) \/ Served!RefreshApply(f)))

\* One part moves in a behaviour: a fair step of any of them is fair in its part.
MCSpec == /\ MCInit /\ [][MCNext]_all
          /\ WF_all(\/ InboundStep(Serve)
                    \/ OutboxStep(Poll({}, "nothing", TRUE))
                    \/ Refreshing("tick"))
          /\ WF_all(\/ InboundStep(Job) \/ OutboxStep(SendOnce)
                    \/ part = "reset" /\ Refreshing("api")
                    \/ WebStep("served", Served!Admit("q1") \/ Served!Interrupt("q1")))
          /\ SF_all(InboundStep(RecoverInboundNotices))

\* The connection moves on to its next event (runTelegram, acceptInbound), what a former
\* Owner had scheduled is reported (recoverInboundNotices), and a confirmed delivery
\* enters the public record (Outbox, projectDelivery).
ChannelsMove ==
  /\ <>[](part = "inbound" => \/ cursor = 3 \/ Stuck(cursor + 1)
                              \/ "readmitted" \in mark[cursor + 1])
  /\ []<>(part = "inbound" =>
            \A e \in Events : ~(row[e].state = "scheduled" /\ row[e].gen # gen))
  /\ ConfirmedIsProjected

\* Every session belongs to the credential the entrance holds (Login, Refresh), wrong
\* passwords verified before a lock are bounded (failureLocked), and a change sent by a
\* session survives the session (PublicServer.ServeHTTP).
EntranceGuarded ==
  /\ part \in Web => SignIn!SessionsOfCredential
  /\ part = "signin" => SignIn!TypeOK /\ SignIn!GuessesBounded
  /\ part = "served" => Served!ChangesSettle

\* An outdated session ends (Refresh), and a reader ends with its session
\* (PublicServer.ServeHTTP, publicWriter).
SessionsEnd ==
  /\ (part \in {"reset", "served"} /\ Served!Outdated("l1"))
       ~> (part \in {"reset", "served"} => Served!Ended("l1") \/ ~Served!Outdated("l1"))
  /\ (part = "served" /\ requests["q1"].pc = "open" /\ requests["q1"].kind = "read"
        /\ Served!Ended(requests["q1"].session))
       ~> (part = "served" => requests["q1"].pc # "open")
=============================================================================
