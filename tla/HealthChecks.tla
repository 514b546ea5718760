------------------------------ MODULE HealthChecks ------------------------------
(***************************************************************************)
(* The health endpoints of the five services and CustomHealthIndicator.    *)
(* A request runs the checks of its endpoint at the same time and is       *)
(* answered when the last of them has a verdict.  Two of the checks open a *)
(* connection of their own (NATS, Temporal) and must close it again; some  *)
(* are held to five seconds by a timer, others wait for as long as the     *)
(* remote service likes.                                                   *)
(***************************************************************************)
EXTENDS Naturals, FiniteSets

CONSTANTS
    Requests,    \* slots for concurrent health requests
    Configured,  \* checks whose credentials or address are set
    Conns,       \* connections; bound: dials and connections at one time
    None

Kinds == {"mongodb", "nats", "temporal", "gmail", "telegram", "whatsapp"}

ASSUME HealthAssumption ==
    /\ "mongodb" \in Configured /\ Configured \subseteq Kinds
    /\ None \notin Conns /\ \A ks \in SUBSET Kinds : ks # None

VARIABLES
    checks,   \* checks of the request in each slot, or None
    stage,    \* per slot and check: "none", "dialing", "asking", "closing", "done"
    verdict,  \* per slot and check: "none", "up", "down"
    link,     \* per slot and check: the dial it waits for or the connection it holds
    dialing,  \* dials under way
    open,     \* connections open
    lost      \* history: dials their check did not wait for

vars == <<checks, stage, verdict, link, dialing, open, lost>>

-----------------------------------------------------------------------------
(* The endpoints GET /health, /health/ready and /health/live, as the       *)
(* controllers declare them.  The modules of the WhatsApp and the Telegram *)
(* worker register theirs; no module imports the HealthModule of the email *)
(* worker or the core service, nor lists the orchestrator's controller, so *)
(* their endpoints are those of a deployment that wires them up.           *)

EmailWorkers == [check |-> {"mongodb", "gmail", "nats"},
                 readiness |-> {"mongodb", "gmail"}, liveness |-> {}]
CoreService == [check |-> {"mongodb", "nats"}, readiness |-> {"mongodb"}, liveness |-> {}]
AgentOrchestrator == [check |-> {"temporal", "nats"},
                      readiness |-> {"temporal", "nats"}, liveness |-> {}]
WhatsappWorkers == [check |-> {"whatsapp", "nats"}, readiness |-> {"whatsapp"}, liveness |-> {}]
TelegramWorkers == [check |-> {"telegram", "nats"}, readiness |-> {"telegram"}, liveness |-> {}]

Services == {EmailWorkers, CoreService, AgentOrchestrator, WhatsappWorkers, TelegramWorkers}

\* Checks that open a connection of their own.
Connecting == {"nats", "temporal"}

-----------------------------------------------------------------------------

Init ==
    /\ checks = [r \in Requests |-> None]
    /\ stage = [r \in Requests |-> [k \in Kinds |-> "none"]]
    /\ verdict = [r \in Requests |-> [k \in Kinds |-> "none"]]
    /\ link = [r \in Requests |-> [k \in Kinds |-> None]]
    /\ dialing = {}
    /\ open = {}
    /\ lost = {}

Unused == Conns \ (dialing \cup open)

\* What an unconfigured check says without asking anybody.  Gmail without a
\* refresh token is up.
Unasked(k) == IF k = "gmail" THEN {"up", "down"} ELSE {"down"}

FirstStage(k) ==
    IF k \notin Configured THEN "done" ELSE IF k \in Connecting THEN "dialing" ELSE "asking"

\* A request arrives and every check of its endpoint runs to its first await.
Receive(r, ks) ==
    LET dials == ks \cap Configured \cap Connecting IN
    /\ checks[r] = None
    /\ checks' = [checks EXCEPT ![r] = ks]
    /\ stage' = [stage EXCEPT ![r] = [k \in Kinds |-> IF k \in ks THEN FirstStage(k) ELSE "none"]]
    /\ \E v \in [ks \ Configured -> {"up", "down"}] :
          /\ \A k \in ks \ Configured : v[k] \in Unasked(k)
          /\ verdict' = [verdict EXCEPT ![r] =
                [k \in Kinds |-> IF k \in ks \ Configured THEN v[k] ELSE "none"]]
    /\ \E ids \in [dials -> Unused] :
          /\ \A j, k \in dials : ids[j] = ids[k] => j = k
          /\ link' = [link EXCEPT ![r] = [k \in Kinds |-> IF k \in dials THEN ids[k] ELSE None]]
          /\ dialing' = dialing \cup {ids[k] : k \in dials}
    /\ UNCHANGED <<open, lost>>

\* Check k of request r returns v, and its variable `connection` is gone.
Return(r, k, v) ==
    /\ stage' = [stage EXCEPT ![r][k] = "done"]
    /\ verdict' = [verdict EXCEPT ![r][k] = v]
    /\ link' = [link EXCEPT ![r][k] = None]

-----------------------------------------------------------------------------
(* Connections.                                                            *)

\* connect resolves with an open connection.  NATS is up, and is closed next;
\* Temporal is asked for its system information.
Connected(r, k) ==
    /\ stage[r][k] = "dialing"
    /\ dialing' = dialing \ {link[r][k]}
    /\ open' = open \cup {link[r][k]}
    /\ stage' = [stage EXCEPT ![r][k] = IF k = "nats" THEN "closing" ELSE "asking"]
    /\ UNCHANGED <<checks, verdict, link, lost>>

\* connect rejects, or the NATS connection is already closed when it is looked at.
NotConnected(r, k) ==
    /\ stage[r][k] = "dialing"
    /\ dialing' = dialing \ {link[r][k]}
    /\ Return(r, k, "down")
    /\ UNCHANGED <<checks, open, lost>>

\* The finally block of the NATS check closes the connection and waits for it.
NatsClosed(r) ==
    /\ stage[r]["nats"] = "closing"
    /\ open' = open \ {link[r]["nats"]}
    /\ Return(r, "nats", "up")
    /\ UNCHANGED <<checks, dialing, lost>>

\* Mistake: the timer loses the race too late, when nobody has a verdict for it.
RaceIsSilent(r) ==
    /\ stage[r]["nats"] = "dialing"
    /\ lost' = lost \cup {link[r]["nats"]}
    /\ Return(r, "nats", "none")
    /\ UNCHANGED <<checks, dialing, open>>

\* Five seconds: the NATS check loses its race.  `connection` was never
\* assigned, so the finally block has nothing to close; the dial goes on.
RaceTimesOut(r) ==
    /\ stage[r]["nats"] = "dialing"
    /\ lost' = lost \cup {link[r]["nats"]}
    /\ Return(r, "nats", "down")
    /\ UNCHANGED <<checks, dialing, open>>

\* Five seconds: connect of the Temporal client gives up by itself.
DialTimesOut(r) ==
    /\ stage[r]["temporal"] = "dialing"
    /\ dialing' = dialing \ {link[r]["temporal"]}
    /\ Return(r, "temporal", "down")
    /\ UNCHANGED <<checks, open, lost>>

\* A dial that nobody waits for succeeds, and nobody closes the connection ...
LateConnected(c) ==
    /\ c \in lost \cap dialing
    /\ dialing' = dialing \ {c}
    /\ open' = open \cup {c}
    /\ UNCHANGED <<checks, stage, verdict, link, lost>>

\* ... or fails ...
LateNotConnected(c) ==
    /\ c \in lost \cap dialing
    /\ dialing' = dialing \ {c}
    /\ lost' = lost \ {c}
    /\ UNCHANGED <<checks, stage, verdict, link, open>>

\* ... or the server drops a connection that is left open.
ServerDrops(c) ==
    /\ c \in lost \cap open
    /\ open' = open \ {c}
    /\ lost' = lost \ {c}
    /\ UNCHANGED <<checks, stage, verdict, link, dialing>>

-----------------------------------------------------------------------------
(* Questions.                                                              *)

\* Mistake: the connection is closed only when Temporal answers well.
AnsweredNoFinally(r, k, v) ==
    /\ stage[r][k] = "asking"
    /\ open' = IF v = "up" THEN open \ {link[r][k]} ELSE open
    /\ Return(r, k, v)
    /\ UNCHANGED <<checks, dialing, lost>>

\* The remote service answers, well or badly.  The finally block of the
\* Temporal check closes its connection and does not wait for it.
Answered(r, k, v) ==
    /\ stage[r][k] = "asking"
    /\ open' = open \ {link[r][k]}
    /\ Return(r, k, v)
    /\ UNCHANGED <<checks, dialing, lost>>

\* Mistake: only Telegram has a timeout.
AskingTimesOutTelegram(r, k) ==
    /\ k \in {"telegram", "mongodb"}
    /\ stage[r][k] = "asking"
    /\ Return(r, k, "down")
    /\ UNCHANGED <<checks, dialing, open, lost>>

\* Telegram and WhatsApp are given five seconds, MongoDB's ping one.  Temporal's
\* getSystemInfo and Gmail's getProfile have no deadline.
AskingTimesOut(r, k) ==
    /\ k \in {"telegram", "whatsapp", "mongodb"}
    /\ stage[r][k] = "asking"
    /\ Return(r, k, "down")
    /\ UNCHANGED <<checks, dialing, open, lost>>

-----------------------------------------------------------------------------

\* HealthCheckService answers 200 if every check is up and 503 otherwise.
Respond(r) ==
    /\ checks[r] # None
    /\ \A k \in checks[r] : stage[r][k] = "done"
    /\ checks' = [checks EXCEPT ![r] = None]
    /\ stage' = [stage EXCEPT ![r] = [k \in Kinds |-> "none"]]
    /\ verdict' = [verdict EXCEPT ![r] = [k \in Kinds |-> "none"]]
    /\ UNCHANGED <<link, dialing, open, lost>>

TimesOut(r) ==
    \/ RaceTimesOut(r) \/ DialTimesOut(r)
    \/ \E k \in Kinds : AskingTimesOut(r, k)

Next ==
    \/ \E r \in Requests :
        \/ \E s \in Services : \E e \in {"check", "readiness", "liveness"} : Receive(r, s[e])
        \/ \E k \in Connecting : Connected(r, k) \/ NotConnected(r, k)
        \/ \E k \in Kinds : \E v \in {"up", "down"} : Answered(r, k, v)
        \/ NatsClosed(r) \/ TimesOut(r) \/ Respond(r)
    \/ \E c \in Conns : LateConnected(c) \/ LateNotConnected(c) \/ ServerDrops(c)

Spec == Init /\ [][Next]_vars

\* Timers fire, a connection that is closed gets closed, and a request whose
\* checks are done is answered.  No remote service need ever answer.
Fairness ==
    \A r \in Requests :
        WF_vars(TimesOut(r)) /\ WF_vars(NatsClosed(r)) /\ WF_vars(Respond(r))

FairSpec == Spec /\ Fairness

-----------------------------------------------------------------------------
(* Properties.                                                             *)

\* Every variable stays within its type, and a check that is done has a verdict.
TypeOK ==
    /\ checks \in [Requests -> (SUBSET Kinds) \cup {None}]
    /\ stage \in [Requests -> [Kinds -> {"none", "dialing", "asking", "closing", "done"}]]
    /\ verdict \in [Requests -> [Kinds -> {"none", "up", "down"}]]
    /\ link \in [Requests -> [Kinds -> Conns \cup {None}]]
    /\ dialing \subseteq Conns /\ open \subseteq Conns /\ lost \subseteq Conns
    /\ \A r \in Requests : \A k \in Kinds : stage[r][k] = "done" <=> verdict[r][k] # "none"

Holders(c) == {h \in Requests \X Kinds : link[h[1]][h[2]] = c}

\* Whatever mixture of answers, errors and timeouts concurrent health requests
\* meet, every open connection is held by exactly one running check, which will
\* close it - except those that opened after the NATS check had lost its race.
\* A probe every few seconds leaks nothing else.
ConnectionsOwned ==
    \A c \in open : IF c \in lost THEN Holders(c) = {}
                    ELSE Cardinality(Holders(c)) = 1

\* A request none of whose checks waits for Gmail or Temporal is answered even
\* if no remote service ever answers.
AnsweredInTime ==
    \A r \in Requests :
        (checks[r] # None /\ checks[r] \cap {"gmail", "temporal"} = {}) ~> checks[r] = None

=============================================================================
