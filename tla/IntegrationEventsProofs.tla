------------------------ MODULE IntegrationEventsProofs ------------------------
(***************************************************************************)
(* Theorems about IntegrationEvents, for any number of events and retries: *)
(* types, that only the awaited attempt is taken for answered, and how     *)
(* often a consumer may get an event.                                      *)
(***************************************************************************)
EXTENDS IntegrationEvents, FiniteSetTheorems, TLAPS

-----------------------------------------------------------------------------
(* Type correctness.                                                       *)

\* A retry is within the bound, and a request that is given up is rejected.
LEMMA RetryType ==
    ASSUME TypeOK, NEW e \in Events, RetryOrReject(e)
    PROVE  /\ state' \in [Events -> {"new", "connecting", "asking", "resolved", "rejected"}]
           /\ attempt' \in [Events -> 0 .. RetryCount + 1]
BY PublisherAssumption DEF TypeOK, RetryOrReject, Becomes

\* Every step of publish, of NATS and of the consumers keeps the types.
LEMMA TypeStep == TypeOK /\ [Next]_vars => TypeOK'
<1> SUFFICES ASSUME TypeOK, [Next]_vars
             PROVE  TypeOK'
  OBVIOUS
<1> USE PublisherAssumption
<1>1. ASSUME NEW e \in Events, PublishInvalid(e) \/ Publish(e)
      PROVE  TypeOK'
  BY <1>1 DEF PublishInvalid, Publish, Becomes, TypeOK
<1>2. ASSUME NEW e \in Events, TimesOut(e) \/ ConnectFails(e)
      PROVE  TypeOK'
  BY <1>2, RetryType DEF TimesOut, ConnectFails, TypeOK
<1>3. ASSUME NEW e \in Events, Send(e)
      PROVE  TypeOK'
  <2>1. [event |-> e, attempt |-> attempt[e]] \in Message
    BY DEF TypeOK, Message
  <2> QED
    BY <1>3, <2>1 DEF Send, Becomes, TypeOK
<1>4. ASSUME NEW e \in Events, Dispatch(e) \/ DispatchFails(e)
      PROVE  TypeOK'
  <2>1. [event |-> e, attempt |-> 0] \in Message
    BY DEF Message
  <2> QED
    BY <1>4, <2>1 DEF Dispatch, DispatchFails, Becomes, TypeOK
<1>5. ASSUME NEW r \in replies, Receive(r)
      PROVE  TypeOK'
  <2>1. r.message.event \in Events
    BY DEF TypeOK, Message
  <2>2. /\ state' \in [Events -> {"new", "connecting", "asking", "resolved", "rejected"}]
        /\ attempt' \in [Events -> 0 .. RetryCount + 1]
    BY <1>5, <2>1, RetryType DEF Receive, Becomes, TypeOK
  <2> QED
    BY <1>5, <2>2 DEF Receive, TypeOK
<1>6. ASSUME NEW r \in replies, Discard(r)
      PROVE  TypeOK'
  BY <1>6 DEF Discard, TypeOK
<1>7. ASSUME NEW m \in messages, Handle(m) \/ NoResponder(m)
      PROVE  TypeOK'
  <2>1. \A result \in Results :
            [message |-> m, result |-> result] \in [message : Message, result : Results]
    BY DEF TypeOK
  <2>2. "error" \in Results
    BY DEF Results
  <2> QED
    BY <1>7, <2>1, <2>2 DEF Handle, NoResponder, TypeOK
<1>8. CASE Lose
  BY <1>8 DEF Lose, TypeOK
<1>9. CASE UNCHANGED vars
  BY <1>9 DEF vars, TypeOK
<1> QED
  BY <1>1, <1>2, <1>3, <1>4, <1>5, <1>6, <1>7, <1>8, <1>9 DEF Next, PublisherStep

\* Every variable stays within its type: publish never makes more attempts than
\* retryCount allows for.
THEOREM TypeCorrect == Spec => []TypeOK
<1>1. Init => TypeOK
  BY PublisherAssumption DEF Init, TypeOK
<1> QED
  BY <1>1, TypeStep, PTL DEF Spec

-----------------------------------------------------------------------------
(* What is dispatched and what is asked.                                   *)

\* Only events that are emitted are dispatched, none is published without its
\* validation, and attempts are counted from one.
Published ==
    \A e \in Events :
        /\ options[e].rpc => dispatch[e] = "none"
        /\ options[e].validate /\ ~options[e].valid =>
               state[e] \in {"new", "rejected"} /\ dispatch[e] = "none"
        /\ state[e] = "new" => dispatch[e] = "none" /\ attempt[e] = 0
        /\ state[e] \in {"connecting", "asking"} => attempt[e] >= 1

PublishedInv == TypeOK /\ Published

\* publish decides between the two, and its settled state is final.
LEMMA PublishedStep == PublishedInv /\ [Next]_vars => PublishedInv'
<1> SUFFICES ASSUME PublishedInv, [Next]_vars
             PROVE  Published'
  BY TypeStep DEF PublishedInv
<1>1. ASSUME NEW e \in Events, PublishInvalid(e) \/ Publish(e)
      PROVE  Published'
  BY <1>1 DEF PublishInvalid, Publish, Becomes, PublishedInv, TypeOK, Published
<1>2. ASSUME NEW e \in Events, TimesOut(e) \/ ConnectFails(e)
      PROVE  Published'
  BY <1>2 DEF TimesOut, ConnectFails, RetryOrReject, Becomes, PublishedInv, TypeOK, Published
<1>3. ASSUME NEW e \in Events, Send(e)
      PROVE  Published'
  BY <1>3 DEF Send, Becomes, PublishedInv, TypeOK, Published
<1>4. ASSUME NEW e \in Events, Dispatch(e) \/ DispatchFails(e)
      PROVE  Published'
  BY <1>4 DEF Dispatch, DispatchFails, Becomes, PublishedInv, TypeOK, Published
<1>5. ASSUME NEW r \in replies, Receive(r)
      PROVE  Published'
  BY <1>5 DEF Receive, Awaited, RetryOrReject, Becomes, PublishedInv, TypeOK, Published, Message
<1>6. CASE UNCHANGED <<options, state, attempt, dispatch>>
  BY <1>6 DEF PublishedInv, Published
<1> QED
  BY <1>1, <1>2, <1>3, <1>4, <1>5, <1>6
  DEF Next, PublisherStep, Discard, Handle, NoResponder, Lose, vars

\* Initially nothing is published.
LEMMA PublishedInit == Init => PublishedInv
BY PublisherAssumption DEF Init, PublishedInv, TypeOK, Published

-----------------------------------------------------------------------------
(* Answers.                                                                *)

\* What is answered, badly or well, was handled; an error need not have been.
RepliesAreHandled ==
    \A r \in replies : r.result # "error" => r.message \in handled

AnswerInv == PublishedInv /\ RepliesAreHandled /\ AnswerIsCurrent

\* Only the answer to the awaited attempt resolves a request.
LEMMA AnswerStep == AnswerInv /\ [Next]_vars => AnswerInv'
<1> SUFFICES ASSUME AnswerInv, [Next]_vars
             PROVE  RepliesAreHandled' /\ AnswerIsCurrent'
  BY PublishedStep DEF AnswerInv
<1>0. TypeOK
  BY DEF AnswerInv, PublishedInv
<1>1. ASSUME NEW e \in Events,
             \/ PublishInvalid(e) \/ Publish(e) \/ TimesOut(e)
             \/ Send(e) \/ ConnectFails(e) \/ Dispatch(e) \/ DispatchFails(e)
      PROVE  RepliesAreHandled' /\ AnswerIsCurrent'
  <2>1. UNCHANGED <<options, replies, handled>>
    BY <1>1 DEF PublishInvalid, Publish, TimesOut, Send, ConnectFails, Dispatch, DispatchFails
  <2>2. \A f \in Events \ {e} : state'[f] = state[f] /\ attempt'[f] = attempt[f]
    BY <1>0, <1>1 DEF PublishInvalid, Publish, TimesOut, Send, ConnectFails, Dispatch,
                      DispatchFails, RetryOrReject, Becomes, TypeOK
  <2>3. \/ state[e] # "resolved" /\ (state'[e] = "resolved" => ~options[e].rpc)
        \/ UNCHANGED <<state, attempt>>
    BY <1>0, <1>1 DEF PublishInvalid, Publish, TimesOut, Send, ConnectFails, Dispatch,
                      DispatchFails, RetryOrReject, Becomes, Settled, TypeOK,
                      AnswerInv, PublishedInv, Published
  <2>4. RepliesAreHandled'
    BY <2>1 DEF AnswerInv, RepliesAreHandled
  <2>5. AnswerIsCurrent'
    BY <2>1, <2>2, <2>3 DEF AnswerInv, AnswerIsCurrent
  <2> QED
    BY <2>4, <2>5
<1>2. ASSUME NEW r \in replies, Receive(r)
      PROVE  RepliesAreHandled' /\ AnswerIsCurrent'
  <2> DEFINE e == r.message.event
  <2>1. /\ r.message \in Message
        /\ e \in Events
        /\ r.message = [event |-> e, attempt |-> r.message.attempt]
    BY <1>0 DEF TypeOK, Message
  <2>2. /\ state[e] = "asking" /\ attempt[e] = r.message.attempt
        /\ replies' \subseteq replies
        /\ UNCHANGED <<options, handled>>
    BY <1>2 DEF Receive, Awaited
  <2>3. \A f \in Events \ {e} : state'[f] = state[f] /\ attempt'[f] = attempt[f]
    BY <1>0, <1>2, <2>1 DEF Receive, RetryOrReject, Becomes, TypeOK
  <2>4. state'[e] = "resolved" => r.result = "value" /\ attempt'[e] = attempt[e]
    BY <1>0, <1>2, <2>1 DEF Receive, RetryOrReject, Becomes, TypeOK
  <2>5. r.result = "value" => r.message \in handled
    BY DEF AnswerInv, RepliesAreHandled
  <2>6. state'[e] = "resolved" => [event |-> e, attempt |-> attempt'[e]] \in handled'
    BY <2>1, <2>2, <2>4, <2>5
  <2>7. RepliesAreHandled'
    BY <2>2 DEF AnswerInv, RepliesAreHandled
  <2> HIDE DEF e
  <2>8. AnswerIsCurrent'
    BY <2>1, <2>2, <2>3, <2>6 DEF AnswerInv, AnswerIsCurrent
  <2> QED
    BY <2>7, <2>8
<1>3. ASSUME NEW m \in messages, Handle(m) \/ NoResponder(m)
      PROVE  RepliesAreHandled' /\ AnswerIsCurrent'
  <2>1. /\ handled \subseteq handled'
        /\ UNCHANGED <<options, state, attempt>>
    BY <1>3 DEF Handle, NoResponder
  <2>2. \A r \in replies' : r \in replies \/ r.result = "error" \/ r.message \in handled'
    BY <1>3 DEF Handle, NoResponder
  <2> QED
    BY <2>1, <2>2 DEF AnswerInv, RepliesAreHandled, AnswerIsCurrent
<1>4. CASE replies' \subseteq replies /\ UNCHANGED <<options, state, attempt, handled>>
  BY <1>4 DEF AnswerInv, RepliesAreHandled, AnswerIsCurrent
<1>5. CASE Lose \/ (\E r \in replies : Discard(r)) \/ UNCHANGED vars
  BY <1>4, <1>5 DEF Lose, Discard, vars
<1> QED
  BY <1>1, <1>2, <1>3, <1>5 DEF Next, PublisherStep

\* For any number of retries: a request that publish resolves was handled by a
\* consumer, in the attempt that was awaited.
THEOREM AnswersAreCurrent == Spec => []AnswerIsCurrent
<1>1. Init => AnswerInv
  BY PublishedInit DEF Init, AnswerInv, RepliesAreHandled, AnswerIsCurrent
<1>2. AnswerInv => AnswerIsCurrent
  BY DEF AnswerInv
<1> QED
  BY <1>1, <1>2, AnswerStep, PTL DEF Spec

-----------------------------------------------------------------------------
(* Deliveries.                                                             *)

\* What may be on its way to a consumer or was handled: nothing of an invalid
\* event, one message of an emitted one, and one per attempt of a request.
MaySend(e, m) ==
    /\ ~(options[e].validate /\ ~options[e].valid)
    /\ IF options[e].rpc THEN m.attempt \in 1 .. attempt[e] ELSE m.attempt = 0

Sent == messages \cup handled

SendInv == PublishedInv /\ \A m \in Sent : MaySend(m.event, m)

\* Attempts are numbered on, so what was sent stays accounted for.
LEMMA SentStays ==
    ASSUME SendInv, TypeOK', \A e \in Events : attempt[e] <= attempt'[e],
           UNCHANGED options, NEW m \in Sent
    PROVE  MaySend(m.event, m)'
<1>1. m \in Message /\ m.event \in Events
  BY DEF SendInv, PublishedInv, TypeOK, Sent, Message
<1>2. attempt[m.event] \in Nat /\ attempt'[m.event] \in Nat
  BY <1>1, PublisherAssumption DEF SendInv, PublishedInv, TypeOK
<1> QED
  BY <1>1, <1>2 DEF SendInv, MaySend

\* No attempt is taken back.
LEMMA AttemptsGrow ==
    ASSUME PublishedInv, [Next]_vars, NEW e \in Events
    PROVE  attempt[e] <= attempt'[e]
<1>1. attempt[e] \in Nat /\ attempt \in [Events -> 0 .. RetryCount + 1]
  BY PublisherAssumption DEF PublishedInv, TypeOK
<1>2. UNCHANGED attempt => attempt[e] <= attempt'[e]
  BY <1>1
<1>3. ASSUME NEW f \in Events, attempt' = [attempt EXCEPT ![f] = @ + 1]
      PROVE  attempt[e] <= attempt'[e]
  BY <1>1, <1>3
<1>4. ASSUME NEW f \in Events, RetryOrReject(f)
      PROVE  attempt[e] <= attempt'[e]
  BY <1>2, <1>3, <1>4 DEF RetryOrReject
<1>5. ASSUME NEW f \in Events, Publish(f)
      PROVE  attempt[e] <= attempt'[e]
  <2>1. attempt' = [attempt EXCEPT ![f] = 1]
    BY <1>5 DEF Publish
  <2>2. CASE e = f
    BY <1>1, <1>5, <2>1, <2>2 DEF Publish, PublishedInv, Published
  <2>3. CASE e # f
    BY <1>1, <2>1, <2>3
  <2> QED
    BY <2>2, <2>3
<1>6. ASSUME NEW r \in replies, Receive(r)
      PROVE  attempt[e] <= attempt'[e]
  <2>1. r.message.event \in Events
    BY DEF PublishedInv, TypeOK, Message
  <2> QED
    BY <1>2, <1>4, <1>6, <2>1 DEF Receive
<1> QED
  BY <1>2, <1>4, <1>5, <1>6
  DEF Next, PublisherStep, PublishInvalid, TimesOut, Send, ConnectFails, Dispatch,
      DispatchFails, Discard, Handle, NoResponder, Lose, vars

\* Only Send and Dispatch send: a request under the number of its attempt, an
\* emitted event once.
LEMMA SendStep == SendInv /\ [Next]_vars => SendInv'
<1> SUFFICES ASSUME SendInv, [Next]_vars
             PROVE  \A m \in Sent' : MaySend(m.event, m)'
  BY PublishedStep DEF SendInv
<1>0. PublishedInv /\ TypeOK /\ TypeOK' /\ UNCHANGED options
  BY TypeStep
  DEF SendInv, PublishedInv, Next, PublisherStep, PublishInvalid, Publish, TimesOut, Send,
      ConnectFails, Dispatch, DispatchFails, Receive, Discard, Handle, NoResponder, Lose, vars
<1>1. \A m \in Sent : MaySend(m.event, m)'
  BY <1>0, AttemptsGrow, SentStays
<1>2. CASE Sent' \subseteq Sent
  BY <1>1, <1>2
<1>3. ASSUME NEW e \in Events, Send(e)
      PROVE  \A m \in Sent' : MaySend(m.event, m)'
  <2>1. Sent' = Sent \cup {[event |-> e, attempt |-> attempt[e]]}
    BY <1>3 DEF Send, Sent
  <2>2. /\ options[e].rpc /\ ~(options[e].validate /\ ~options[e].valid)
        /\ attempt[e] >= 1 /\ attempt[e] \in Nat /\ attempt' = attempt
    BY <1>0, <1>3, PublisherAssumption DEF Send, PublishedInv, Published, TypeOK
  <2>3. ASSUME NEW m, m = [event |-> e, attempt |-> attempt[e]]
        PROVE  MaySend(m.event, m)'
    BY <1>0, <2>2, <2>3 DEF MaySend
  <2> QED
    BY <1>1, <2>1, <2>3
<1>4. ASSUME NEW e \in Events, Dispatch(e)
      PROVE  \A m \in Sent' : MaySend(m.event, m)'
  <2> DEFINE new == [event |-> e, attempt |-> 0]
  <2>1. Sent' = Sent \cup {new}
    BY <1>4 DEF Dispatch, Sent
  <2>2. ~options[e].rpc /\ ~(options[e].validate /\ ~options[e].valid)
    BY <1>0, <1>4 DEF Dispatch, PublishedInv, Published
  <2>3. MaySend(new.event, new)'
    BY <1>0, <2>2 DEF MaySend
  <2> QED
    BY <1>1, <2>1, <2>3
<1> QED
  BY <1>2, <1>3, <1>4
  DEF Next, PublisherStep, PublishInvalid, Publish, TimesOut, ConnectFails, DispatchFails,
      Receive, Discard, Handle, NoResponder, Lose, vars, Sent

\* Messages of one event that may be sent are told apart by their attempts, which
\* are few.
LEMMA FewMaySend ==
    ASSUME SendInv, NEW e \in Events
    PROVE  Cardinality(SendsOf(e)) <=
               IF options[e].validate /\ ~options[e].valid THEN 0
               ELSE IF options[e].rpc THEN attempt[e] ELSE 1
<1>1. \A m \in SendsOf(e) :
          /\ MaySend(e, m)
          /\ m = [event |-> e, attempt |-> m.attempt]
  BY DEF SendInv, PublishedInv, TypeOK, SendsOf, Sent, Message
<1>2. attempt[e] \in Nat
  BY PublisherAssumption DEF SendInv, PublishedInv, TypeOK
<1>3. CASE options[e].validate /\ ~options[e].valid
  <2>1. SendsOf(e) = {}
    BY <1>1, <1>3 DEF MaySend
  <2> QED
    BY <1>3, <2>1, FS_EmptySet
<1>4. CASE ~(options[e].validate /\ ~options[e].valid) /\ options[e].rpc
  <2> DEFINE f == [m \in SendsOf(e) |-> m.attempt]
  <2>1. f \in Injection(SendsOf(e), 1 .. attempt[e])
    BY <1>1, <1>4 DEF MaySend, Injection, IsInjective
  <2>2. IsFiniteSet(1 .. attempt[e]) /\ Cardinality(1 .. attempt[e]) = attempt[e]
    BY <1>2, FS_Interval
  <2>3. Cardinality(SendsOf(e)) <= attempt[e]
    BY <2>1, <2>2, FS_Injection
  <2> QED
    BY <1>4, <2>3
<1>5. CASE ~(options[e].validate /\ ~options[e].valid) /\ ~options[e].rpc
  <2> DEFINE one == {[event |-> e, attempt |-> 0]}
  <2>1. SendsOf(e) \in SUBSET one
    BY <1>1, <1>5 DEF MaySend
  <2>2. IsFiniteSet(one) /\ Cardinality(one) = 1
    BY FS_Singleton
  <2> HIDE DEF one
  <2>3. Cardinality(SendsOf(e)) <= 1
    BY <2>1, <2>2, FS_Subset
  <2> QED
    BY <1>5, <2>3
<1> QED
  BY <1>3, <1>4, <1>5

\* For any number of retries: a consumer gets an event at most once for each
\* attempt of a request, once if it is emitted, and never if it is invalid.
THEOREM DeliveriesAreBounded == Spec => []DeliveriesBounded
<1>1. Init => SendInv
  BY PublishedInit DEF Init, SendInv, Sent
<1>2. SendInv => DeliveriesBounded
  BY FewMaySend DEF DeliveriesBounded
<1> QED
  BY <1>1, <1>2, SendStep, PTL DEF Spec

=============================================================================
