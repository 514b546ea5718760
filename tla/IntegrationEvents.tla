--------------------------- MODULE IntegrationEvents ---------------------------
(***************************************************************************)
(* EventPublisher.publish: integration events over NATS, as a request that *)
(* waits for an answer (rpc, the default) or as an event that does not.    *)
(* Both are tried again after five seconds or after an error, RetryCount   *)
(* times.  What is tried again differs: the observable of ClientProxy.send *)
(* sends anew for every subscriber, the one of ClientProxy.emit sends once *)
(* however often it is subscribed to.  A message carries the data of the   *)
(* event and not its id, so a consumer cannot tell a repeated one.         *)
(*                                                                         *)
(* Neither NATS nor the consumers promise anything: messages are lost,     *)
(* delayed and overtaken, and handlers may answer late, badly or never.    *)
(***************************************************************************)
EXTENDS Naturals, FiniteSets

CONSTANTS
    Events,      \* integration events, each published once
    RetryCount   \* options.retryCount, 3 by default

ASSUME PublisherAssumption == RetryCount \in Nat

VARIABLES
    options,    \* of each event: how it is published, and whether its data is valid
    state,      \* of publish: "new", "connecting", "asking", "resolved", "rejected"
    attempt,    \* subscriptions so far
    dispatch,   \* the one dispatch of an event that is emitted
    messages,   \* on their way to a consumer
    handled,    \* history: messages a consumer has handled
    replies     \* on their way back

vars == <<options, state, attempt, dispatch, messages, handled, replies>>

\* What a consumer answers: a value, nothing (the handler returns undefined), or
\* an error.
Results == {"value", "nothing", "error"}

\* The attempt that sent a message; an emitted event is sent by none of them.
Message == [event : Events, attempt : 0 .. RetryCount + 1]

Option == [rpc : BOOLEAN, validate : BOOLEAN, valid : BOOLEAN]

Settled(e) == state[e] \in {"resolved", "rejected"}

Init ==
    /\ options \in [Events -> Option]
    /\ state = [e \in Events |-> "new"]
    /\ attempt = [e \in Events |-> 0]
    /\ dispatch = [e \in Events |-> "none"]
    /\ messages = {}
    /\ handled = {}
    /\ replies = {}

-----------------------------------------------------------------------------
(* publish.                                                                *)

Becomes(e, s) == state' = [state EXCEPT ![e] = s]

\* validateEvt throws: the promise is rejected and nothing is sent.
PublishInvalid(e) ==
    /\ state[e] = "new"
    /\ options[e].validate
    /\ ~options[e].valid
    /\ Becomes(e, "rejected")
    /\ UNCHANGED <<options, attempt, dispatch, messages, handled, replies>>

\* The client's observable is subscribed to, and the client connects if it has to.
\* emit does so by itself, and once.
Publish(e) ==
    /\ state[e] = "new"
    /\ options[e].validate => options[e].valid
    /\ Becomes(e, "connecting")
    /\ attempt' = [attempt EXCEPT ![e] = 1]
    /\ dispatch' = [dispatch EXCEPT ![e] = IF options[e].rpc THEN "none" ELSE "connecting"]
    /\ UNCHANGED <<options, messages, handled, replies>>

\* Mistake: one retry too many.
RetryOnceMore(e) ==
    \/ /\ attempt[e] <= RetryCount + 1
       /\ attempt' = [attempt EXCEPT ![e] = @ + 1]
       /\ Becomes(e, "connecting")
    \/ /\ attempt[e] > RetryCount + 1
       /\ Becomes(e, "rejected")
       /\ UNCHANGED attempt

\* retry subscribes again, or passes the error on to catchError, which rejects
\* with a PublishEventException.
RetryOrReject(e) ==
    \/ /\ attempt[e] <= RetryCount
       /\ attempt' = [attempt EXCEPT ![e] = @ + 1]
       /\ Becomes(e, "connecting")
    \/ /\ attempt[e] > RetryCount
       /\ Becomes(e, "rejected")
       /\ UNCHANGED attempt

\* Mistake: the timer starts when the request is out.
TimesOutAsking(e) ==
    /\ state[e] = "asking"
    /\ RetryOrReject(e)
    /\ UNCHANGED <<options, dispatch, messages, handled, replies>>

\* Five seconds without a value: the subscription is given up.  What it has sent
\* stays sent.
TimesOut(e) ==
    /\ state[e] \in {"connecting", "asking"}
    /\ RetryOrReject(e)
    /\ UNCHANGED <<options, dispatch, messages, handled, replies>>

-----------------------------------------------------------------------------
(* send: every subscription is a request of its own.                       *)

\* The connection is there: the request goes out, with an inbox for its answer.
Send(e) ==
    /\ state[e] = "connecting"
    /\ options[e].rpc
    /\ Becomes(e, "asking")
    /\ messages' = messages \cup {[event |-> e, attempt |-> attempt[e]]}
    /\ UNCHANGED <<options, attempt, dispatch, handled, replies>>

\* There is no connection to be had.
ConnectFails(e) ==
    /\ state[e] = "connecting"
    /\ options[e].rpc
    /\ RetryOrReject(e)
    /\ UNCHANGED <<options, dispatch, messages, handled, replies>>

\* Mistake: one inbox for all attempts.
AwaitedByEvent(r) == state[r.message.event] = "asking"

\* The inbox of an attempt is closed when the attempt is given up.
Awaited(r) ==
    /\ state[r.message.event] = "asking"
    /\ attempt[r.message.event] = r.message.attempt

\* A value: publish returns it.  Nothing: the observable completes empty, for
\* which lastValueFrom throws behind retry and catchError.  An error, be it the
\* handler's or that nobody listens to the topic: a failed attempt.
Receive(r) ==
    LET e == r.message.event IN
    /\ r \in replies
    /\ Awaited(r)
    /\ \/ r.result = "value" /\ Becomes(e, "resolved") /\ UNCHANGED attempt
       \/ r.result = "nothing" /\ Becomes(e, "rejected") /\ UNCHANGED attempt
       \/ r.result = "error" /\ RetryOrReject(e)
    /\ replies' = replies \ {r}
    /\ UNCHANGED <<options, dispatch, messages, handled>>

\* An answer that comes late is dropped by the client.
Discard(r) ==
    /\ r \in replies
    /\ ~Awaited(r)
    /\ replies' = replies \ {r}
    /\ UNCHANGED <<options, state, attempt, dispatch, messages, handled>>

-----------------------------------------------------------------------------
(* emit: one dispatch, whose outcome all subscriptions share.              *)

\* Mistake: the event is dispatched by every subscription.
DispatchByAttempt(e) ==
    /\ ~options[e].rpc
    /\ state[e] = "connecting"
    /\ messages' = messages \cup {[event |-> e, attempt |-> attempt[e]]}
    /\ \/ Becomes(e, "resolved") /\ UNCHANGED attempt
       \/ RetryOrReject(e)
    /\ UNCHANGED <<options, dispatch, handled, replies>>

\* The connection is there and the event goes out, to the relief of publish if it
\* is still waiting.
Dispatch(e) ==
    /\ dispatch[e] = "connecting"
    /\ dispatch' = [dispatch EXCEPT ![e] = "sent"]
    /\ messages' = messages \cup {[event |-> e, attempt |-> 0]}
    /\ \/ ~Settled(e) /\ Becomes(e, "resolved")
       \/ Settled(e) /\ UNCHANGED state
    /\ UNCHANGED <<options, attempt, handled, replies>>

\* There is no connection to be had.  A failed dispatch fails every subscription
\* to come, so all retries are used up at once.
DispatchFails(e) ==
    /\ dispatch[e] = "connecting"
    /\ dispatch' = [dispatch EXCEPT ![e] = "failed"]
    /\ \/ ~Settled(e) /\ Becomes(e, "rejected")
       \/ Settled(e) /\ UNCHANGED state
    /\ UNCHANGED <<options, attempt, messages, handled, replies>>

-----------------------------------------------------------------------------
(* NATS and the consumers.                                                 *)

IsRequest(m) == options[m.event].rpc

\* A consumer handles a message.  If it is a request, it may answer it.
Handle(m) ==
    /\ m \in messages
    /\ messages' = messages \ {m}
    /\ handled' = handled \cup {m}
    /\ \/ UNCHANGED replies
       \/ /\ IsRequest(m)
          /\ \E result \in Results :
                 replies' = replies \cup {[message |-> m, result |-> result]}
    /\ UNCHANGED <<options, state, attempt, dispatch>>

\* Nobody listens to the topic: NATS says so to whoever asks.  The publisher uses
\* evtTopic, an object, where the document worker listens to the string that
\* buildTopic makes of it, so that this is what happens today.
NoResponder(m) ==
    /\ m \in messages
    /\ messages' = messages \ {m}
    /\ replies' = IF IsRequest(m) THEN replies \cup {[message |-> m, result |-> "error"]}
                                  ELSE replies
    /\ UNCHANGED <<options, state, attempt, dispatch, handled>>

\* A message or an answer is lost.
Lose ==
    /\ \/ \E m \in messages : messages' = messages \ {m} /\ UNCHANGED replies
       \/ \E r \in replies : replies' = replies \ {r} /\ UNCHANGED messages
    /\ UNCHANGED <<options, state, attempt, dispatch, handled>>

-----------------------------------------------------------------------------

PublisherStep(e) ==
    \/ PublishInvalid(e) \/ Publish(e) \/ TimesOut(e)
    \/ Send(e) \/ ConnectFails(e)
    \/ Dispatch(e) \/ DispatchFails(e)

Next ==
    \/ \E e \in Events : PublisherStep(e)
    \/ \E r \in replies : Receive(r) \/ Discard(r)
    \/ \E m \in messages : Handle(m) \/ NoResponder(m)
    \/ Lose

Spec == Init /\ [][Next]_vars

\* Timers fire, and that is all: a connection need never come about.
Fairness == \A e \in Events : WF_vars(TimesOut(e))

FairSpec == Spec /\ Fairness

-----------------------------------------------------------------------------
(* Properties.                                                             *)

\* Every variable stays within its type.
TypeOK ==
    /\ options \in [Events -> Option]
    /\ state \in [Events -> {"new", "connecting", "asking", "resolved", "rejected"}]
    /\ attempt \in [Events -> 0 .. RetryCount + 1]
    /\ dispatch \in [Events -> {"none", "connecting", "sent", "failed"}]
    /\ messages \subseteq Message
    /\ handled \subseteq Message
    /\ replies \subseteq [message : Message, result : Results]

SendsOf(e) == {m \in messages \cup handled : m.event = e}

\* How often a consumer may get an event: never if it did not pass its validation,
\* once if it is emitted, whatever is retried, and once for each attempt that a
\* request has used, also after it was answered or given up.
DeliveriesBounded ==
    \A e \in Events :
        Cardinality(SendsOf(e)) <=
            IF options[e].validate /\ ~options[e].valid THEN 0
            ELSE IF options[e].rpc THEN attempt[e] ELSE 1

\* A request that is resolved was handled, and the answer is that of its last
\* attempt: an answer to an attempt that was given up never passes for the one
\* that is awaited.
AnswerIsCurrent ==
    \A e \in Events : options[e].rpc /\ state[e] = "resolved" =>
        [event |-> e, attempt |-> attempt[e]] \in handled

\* publish returns or throws in the end, though nobody listens, messages are lost
\* and no connection comes about.
PublishSettles == \A e \in Events : state[e] # "new" ~> Settled(e)

=============================================================================
