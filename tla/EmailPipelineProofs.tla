-------------------------- MODULE EmailPipelineProofs --------------------------
(***************************************************************************)
(* Theorems about the way of a message from the mailbox to the core        *)
(* service, for any number of messages, threads, requests, attempts and    *)
(* faults, in three parts: about EmailIngestion, about its composition     *)
(* with the poller (PolledIngestion), and about the composition of both    *)
(* with the workflows (EmailPipeline).                                     *)
(***************************************************************************)
EXTENDS EmailPipeline, SequenceTheorems, FiniteSetTheorems, TLAPS

PollerFacts == INSTANCE UnreadEmailsWorkflowProofs
WorkflowFacts == INSTANCE EmailThreadWorkflowProofs
                    WITH Workflows <- Ids,
                         MaxFaults <- MaxWorkflowFaults, faults <- workflowFaults

-----------------------------------------------------------------------------
(* Type correctness.                                                       *)

\* A request that is not idle has fetched a message and created its UUIDs.
Busy == \A r \in Requests : pc[r] # "idle" => msg[r] \in Messages /\ fresh[r] \in Ids

TypeInv == TypeOK /\ Busy

\* Fetch takes its UUID from the ids that are left.
LEMMA NewIdIsId ==
    ASSUME \E i \in Ids : Unused(i)
    PROVE  NewId \in Ids
BY DEF NewId

\* The storage id of a busy request is a UUID.
LEMMA StorageIdIsId ==
    ASSUME TypeInv, NEW r \in Requests, pc[r] # "idle"
    PROVE  StorageId(r) \in Ids
BY IngestionAssumption DEF TypeInv, Busy, TypeOK, StorageId

\* What a snapshot knows are messages.
LEMMA AggregateIdsAreMessages ==
    ASSUME TypeInv, NEW r \in Requests, pc[r] # "idle"
    PROVE  AggregateIds(r) \in SUBSET Messages
<1>1. known[r] \in SUBSET EmailEntity /\ msg[r] \in Messages
  BY DEF TypeInv, Busy, TypeOK
<1>2. KnownMessages(r) \subseteq Messages
  BY <1>1 DEF KnownMessages, EmailEntity
<1> QED
  BY <1>1, <1>2 DEF AggregateIds

\* End resets a request to the state in which Init left it.
LEMMA EndType ==
    ASSUME TypeInv, NEW r \in Requests, End(r)
    PROVE  /\ pc' \in [Requests -> Steps]
           /\ msg' \in [Requests -> Messages \cup {None}]
           /\ fresh' \in [Requests -> Ids \cup {None}]
           /\ sid' \in [Requests -> Ids \cup {None}]
           /\ listed' \in [Requests -> SUBSET Messages]
           /\ known' \in [Requests -> SUBSET EmailEntity]
           /\ Busy'
<1>1. pc' \in [Requests -> Steps]
  BY DEF TypeInv, TypeOK, End, Goto, Steps
<1>2. /\ msg' \in [Requests -> Messages \cup {None}]
      /\ fresh' \in [Requests -> Ids \cup {None}]
      /\ sid' \in [Requests -> Ids \cup {None}]
  BY DEF TypeInv, TypeOK, End
<1>3. /\ listed' \in [Requests -> SUBSET Messages]
      /\ known' \in [Requests -> SUBSET EmailEntity]
  BY DEF TypeInv, TypeOK, End
<1>4. Busy'
  BY DEF TypeInv, TypeOK, Busy, End, Goto
<1> QED
  BY <1>1, <1>2, <1>3, <1>4

\* A document of a thread is a document.
LEMMA DocsAreDocs ==
    ASSUME TypeInv, NEW t \in Threads, NEW i \in DOMAIN threadDocs[t]
    PROVE  threadDocs[t][i].sid \in Ids /\ threadDocs[t][i].messageIds \in SUBSET Messages
<1>1. threadDocs[t] \in Seq(ThreadDoc)
  BY DEF TypeInv, TypeOK
<1>2. threadDocs[t][i] \in ThreadDoc
  BY <1>1, ElementOfSeq, LenProperties
<1> QED
  BY <1>2 DEF ThreadDoc

\* What is counted as a fault stays within its bound.
LEMMA FaultType ==
    ASSUME TypeInv, Fault
    PROVE  faults' \in 0..MaxFaults
BY IngestionAssumption DEF TypeInv, TypeOK, Fault

\* A step that only moves a request forward keeps it busy and typed.
LEMMA GotoType ==
    ASSUME TypeInv, NEW r \in Requests, NEW step \in Steps, pc[r] # "idle",
           Goto(r, step), UNCHANGED <<msg, fresh>>
    PROVE  pc' \in [Requests -> Steps] /\ Busy'
BY DEF TypeInv, TypeOK, Busy, Goto

\* The empty worker is well typed.
LEMMA TypeInit == Init => TypeInv
BY IngestionAssumption DEF Init, TypeInv, TypeOK, Busy, Steps

\* Every step of a request, a handler or a fault keeps the types.
LEMMA TypeStep == TypeInv /\ [Next]_vars => TypeInv'
<1> SUFFICES ASSUME TypeInv, [Next]_vars
             PROVE  TypeInv'
  OBVIOUS
<1> USE IngestionAssumption
<1>1. ASSUME NEW m \in Messages, Arrive(m)
      PROVE  TypeInv'
  <2>1. mailbox' \in Seq(Messages)
    BY <1>1 DEF Arrive, TypeInv, TypeOK
  <2> QED
    BY <1>1, <2>1 DEF Arrive, TypeInv, TypeOK, Busy, requestVars
<1>2. ASSUME NEW r \in Requests, Fetch(r)
      PROVE  TypeInv'
  <2>1. NewId \in Ids
    BY <1>2, NewIdIsId DEF Fetch
  <2>2. mailbox[Len(mailbox)] \in Messages
    BY <1>2 DEF Fetch, TypeInv, TypeOK
  <2>3. Busy'
    BY <1>2, <2>1, <2>2 DEF Fetch, Goto, TypeInv, TypeOK, Busy
  <2>4. TypeOK'
    BY <1>2, <2>1, <2>2 DEF Fetch, Goto, TypeInv, TypeOK, Steps
  <2> QED
    BY <2>3, <2>4 DEF TypeInv
<1>3. ASSUME NEW r \in Requests, ReadThreads(r)
      PROVE  TypeInv'
  <2> DEFINE docs == threadDocs[ThreadOf[msg[r]]]
  <2>1. msg[r] \in Messages /\ ThreadOf[msg[r]] \in Threads /\ docs \in Seq(ThreadDoc)
    BY <1>3 DEF ReadThreads, TypeInv, TypeOK, Busy
  <2>2. pc' \in [Requests -> Steps] /\ Busy'
    BY <1>3 DEF ReadThreads, Goto, TypeInv, TypeOK, Busy, Steps
  <2>3. sid' \in [Requests -> Ids \cup {None}]
    <3>1. CASE docs = <<>>
      BY <1>3, <3>1 DEF ReadThreads, TypeInv, TypeOK
    <3>2. CASE docs # <<>>
      <4>1. Len(docs) \in DOMAIN docs
        BY <2>1, <3>2, EmptySeq, LenProperties
      <4>2. docs[Len(docs)].sid \in Ids
        BY <2>1, <4>1, DocsAreDocs
      <4> QED
        BY <1>3, <3>2, <4>2 DEF ReadThreads, TypeInv, TypeOK
    <3> QED
      BY <3>1, <3>2
  <2>4. UNION {docs[i].messageIds : i \in DOMAIN docs} \in SUBSET Messages
    <3>1. \A i \in DOMAIN docs : docs[i].messageIds \in SUBSET Messages
      BY <2>1, DocsAreDocs
    <3> QED
      BY <3>1
  <2>5. listed' \in [Requests -> SUBSET Messages]
    BY <1>3, <2>4 DEF ReadThreads, TypeInv, TypeOK
  <2> QED
    BY <1>3, <2>2, <2>3, <2>5 DEF ReadThreads, TypeInv, TypeOK
<1>4. ASSUME NEW r \in Requests, ReadEmails(r)
      PROVE  TypeInv'
  <2>1. known' \in [Requests -> SUBSET EmailEntity]
    BY <1>4 DEF ReadEmails, TypeInv, TypeOK
  <2>2. pc' \in [Requests -> Steps] /\ Busy'
    BY <1>4 DEF ReadEmails, Goto, TypeInv, TypeOK, Busy, Steps
  <2>3. listed' \in [Requests -> SUBSET Messages]
    BY <1>4 DEF ReadEmails, TypeInv, TypeOK
  <2> QED
    BY <1>4, <2>1, <2>2, <2>3 DEF ReadEmails, TypeInv, TypeOK
<1>5. ASSUME NEW r \in Requests, SaveThread(r)
      PROVE  TypeInv'
  <2> DEFINE t == ThreadOf[msg[r]]
             docs == threadDocs[t]
             doc == [sid |-> StorageId(r), messageIds |-> AggregateIds(r)]
  <2>1. pc[r] # "idle" /\ msg[r] \in Messages /\ t \in Threads /\ docs \in Seq(ThreadDoc)
    BY <1>5 DEF SaveThread, TypeInv, TypeOK, Busy
  <2>2. doc \in ThreadDoc
    BY <2>1, StorageIdIsId, AggregateIdsAreMessages DEF ThreadDoc
  <2>3. CASE docs = <<>>
    <3>1. Goto(r, "insertThread") /\ UNCHANGED <<threadDocs, msg, fresh, sid, listed, known>>
      BY <1>5, <2>3 DEF SaveThread
    <3>2. pc' \in [Requests -> Steps] /\ Busy'
      BY <2>1, <3>1, GotoType DEF Steps
    <3> QED
      BY <1>5, <3>1, <3>2 DEF SaveThread, TypeInv, TypeOK
  <2>4. CASE docs # <<>> /\ docs[1].sid = StorageId(r)
    <3>1. /\ Goto(r, "threadSaved")
          /\ threadDocs' = [threadDocs EXCEPT ![t] = [docs EXCEPT ![1] = doc]]
          /\ UNCHANGED <<msg, fresh, sid, listed, known>>
      BY <1>5, <2>4 DEF SaveThread
    <3>2. pc' \in [Requests -> Steps] /\ Busy'
      BY <2>1, <3>1, GotoType DEF Steps
    <3>3. [docs EXCEPT ![1] = doc] \in Seq(ThreadDoc)
      <4>1. 1 \in 1..Len(docs)
        BY <2>1, <2>4, EmptySeq
      <4> QED
        BY <2>1, <2>2, <4>1, ExceptSeq
    <3>4. threadDocs' \in [Threads -> Seq(ThreadDoc)]
      BY <2>1, <3>1, <3>3 DEF TypeInv, TypeOK
    <3> QED
      BY <1>5, <3>1, <3>2, <3>4 DEF SaveThread, TypeInv, TypeOK
  <2>5. CASE docs # <<>> /\ docs[1].sid # StorageId(r)
    <3>1. End(r) /\ UNCHANGED threadDocs
      BY <1>5, <2>5 DEF SaveThread
    <3> QED
      BY <1>5, <3>1, EndType DEF SaveThread, TypeInv, TypeOK
  <2> QED
    BY <2>3, <2>4, <2>5
<1>6. ASSUME NEW r \in Requests, InsertThread(r)
      PROVE  TypeInv'
  <2> DEFINE t == ThreadOf[msg[r]]
             doc == [sid |-> StorageId(r), messageIds |-> AggregateIds(r)]
  <2>1. pc[r] # "idle" /\ msg[r] \in Messages /\ t \in Threads
    BY <1>6 DEF InsertThread, TypeInv, TypeOK, Busy
  <2>2. doc \in ThreadDoc
    BY <2>1, StorageIdIsId, AggregateIdsAreMessages DEF ThreadDoc
  <2>3. threadDocs' \in [Threads -> Seq(ThreadDoc)]
    BY <1>6, <2>1, <2>2 DEF InsertThread, TypeInv, TypeOK
  <2>4. pc' \in [Requests -> Steps] /\ Busy'
    BY <1>6, <2>1, GotoType DEF InsertThread, Steps
  <2> QED
    BY <1>6, <2>3, <2>4 DEF InsertThread, TypeInv, TypeOK
<1>7. ASSUME NEW r \in Requests, SaveEmails(r)
      PROVE  TypeInv'
  <2>1. pc[r] # "idle"
    BY <1>7 DEF SaveEmails
  <2>2. CASE /\ Goto(r, "saved") \/ Goto(r, "insertEmail")
             /\ UNCHANGED <<msg, fresh, sid, listed, known>>
    <3>1. pc' \in [Requests -> Steps] /\ Busy'
      BY <2>1, <2>2, GotoType DEF Steps
    <3> QED
      BY <1>7, <2>2, <3>1 DEF SaveEmails, TypeInv, TypeOK
  <2>3. CASE End(r)
    BY <1>7, <2>3, EndType DEF SaveEmails, TypeInv, TypeOK
  <2> QED
    BY <1>7, <2>2, <2>3 DEF SaveEmails
<1>8. ASSUME NEW r \in Requests, InsertEmail(r)
      PROVE  TypeInv'
  <2>1. pc[r] # "idle" /\ msg[r] \in Messages /\ fresh[r] \in Ids
    BY <1>8 DEF InsertEmail, TypeInv, Busy
  <2>2. emailDocs' \in [Messages -> Seq(Ids)]
    BY <1>8, <2>1 DEF InsertEmail, TypeInv, TypeOK
  <2>3. pc' \in [Requests -> Steps] /\ Busy'
    BY <1>8, <2>1, GotoType DEF InsertEmail, Steps
  <2> QED
    BY <1>8, <2>2, <2>3 DEF InsertEmail, TypeInv, TypeOK
<1>9. ASSUME NEW r \in Requests, Publish(r)
      PROVE  TypeInv'
  <2>1. pc[r] # "idle" /\ msg[r] \in Messages /\ fresh[r] \in Ids
    BY <1>9 DEF Publish, Recorded, TypeInv, Busy
  <2>2. EventOf(r) \in Event
    BY <2>1, StorageIdIsId DEF EventOf, Event
  <2>3. handlers' \subseteq Event
    BY <1>9, <2>2 DEF Publish, Recorded, TypeInv, TypeOK
  <2> QED
    BY <1>9, <2>3, EndType DEF Publish, Recorded, TypeInv, TypeOK
<1>10. ASSUME NEW e \in handlers, TriggerWorkflow(e) \/ TriggerFails(e)
       PROVE  TypeInv'
  <2>1. handlers' \subseteq Event /\ signalled' \subseteq Event
    BY <1>10 DEF TriggerWorkflow, TriggerFails, TypeInv, TypeOK
  <2>2. faults' \in 0..MaxFaults
    BY <1>10, FaultType DEF TriggerWorkflow, TriggerFails, TypeInv, TypeOK
  <2> QED
    BY <1>10, <2>1, <2>2 DEF TriggerWorkflow, TriggerFails, requestVars, TypeInv, TypeOK, Busy
<1>11. ASSUME NEW r \in Requests, RequestFails(r)
       PROVE  TypeInv'
  BY <1>11, EndType, FaultType DEF RequestFails, TypeInv, TypeOK
<1>12. ASSUME Crash
       PROVE  TypeInv'
  <2>1. faults' \in 0..MaxFaults
    BY <1>12, FaultType DEF Crash
  <2>2. pc' \in [Requests -> Steps] /\ Busy'
    BY <1>12 DEF Crash, Busy, Steps
  <2>3. /\ msg' \in [Requests -> Messages \cup {None}]
        /\ fresh' \in [Requests -> Ids \cup {None}]
        /\ sid' \in [Requests -> Ids \cup {None}]
        /\ listed' \in [Requests -> SUBSET Messages]
        /\ known' \in [Requests -> SUBSET EmailEntity]
    BY <1>12 DEF Crash
  <2> QED
    BY <1>12, <2>1, <2>2, <2>3 DEF Crash, TypeInv, TypeOK
<1>13. ASSUME UNCHANGED vars
       PROVE  TypeInv'
  BY <1>13 DEF vars, requestVars, TypeInv, TypeOK, Busy
<1> QED
  BY <1>1, <1>2, <1>3, <1>4, <1>5, <1>6, <1>7, <1>8, <1>9, <1>10, <1>11, <1>12, <1>13
  DEF Next, RequestStep

\* Every variable stays within its type, however requests overlap, fail and crash.
THEOREM TypeCorrect == Spec => []TypeOK
<1>1. TypeInv => TypeOK
  BY DEF TypeInv
<1> QED
  BY <1>1, TypeInit, TypeStep, PTL DEF Spec

-----------------------------------------------------------------------------
(* Documents keep their storage ids.                                       *)

DocsKeepSids ==
    \A t \in Threads : \A i \in DOMAIN threadDocs[t] :
        /\ i \in DOMAIN threadDocs'[t]
        /\ threadDocs'[t][i].sid = threadDocs[t][i].sid

\* Only SaveThread and InsertThread touch the threads collection: the first
\* replaces a document by one with the same storage id, the second appends.
LEMMA DocsStep == TypeInv /\ [Next]_vars => DocsKeepSids
<1> SUFFICES ASSUME TypeInv, [Next]_vars
             PROVE  DocsKeepSids
  OBVIOUS
<1> USE IngestionAssumption
<1>1. ASSUME NEW r \in Requests, SaveThread(r)
      PROVE  DocsKeepSids
  <2> DEFINE t == ThreadOf[msg[r]]
             docs == threadDocs[t]
             doc == [sid |-> StorageId(r), messageIds |-> AggregateIds(r)]
  <2>1. pc[r] # "idle" /\ t \in Threads /\ docs \in Seq(ThreadDoc)
    BY <1>1 DEF SaveThread, TypeInv, TypeOK, Busy
  <2>2. CASE UNCHANGED threadDocs
    BY <2>2 DEF DocsKeepSids
  <2>3. CASE /\ docs # <<>>
             /\ docs[1].sid = StorageId(r)
             /\ threadDocs' = [threadDocs EXCEPT ![t] = [docs EXCEPT ![1] = doc]]
    <3>1. threadDocs'[t] = [docs EXCEPT ![1] = doc]
      BY <2>1, <2>3 DEF TypeInv, TypeOK
    <3>2. \A u \in Threads \ {t} : threadDocs'[u] = threadDocs[u]
      BY <2>1, <2>3 DEF TypeInv, TypeOK
    <3>3. doc.sid = docs[1].sid
      BY <2>3
    <3>4. \A i \in DOMAIN docs :
             i \in DOMAIN threadDocs'[t] /\ threadDocs'[t][i].sid = docs[i].sid
      BY <3>1, <3>3
    <3> QED
      BY <3>2, <3>4 DEF DocsKeepSids
  <2> QED
    BY <1>1, <2>2, <2>3 DEF SaveThread
<1>2. ASSUME NEW r \in Requests, InsertThread(r)
      PROVE  DocsKeepSids
  <2> DEFINE t == ThreadOf[msg[r]]
             docs == threadDocs[t]
             doc == [sid |-> StorageId(r), messageIds |-> AggregateIds(r)]
  <2>1. pc[r] # "idle" /\ t \in Threads /\ docs \in Seq(ThreadDoc)
    BY <1>2 DEF InsertThread, TypeInv, TypeOK, Busy
  <2>2. doc \in ThreadDoc
    BY <2>1, StorageIdIsId, AggregateIdsAreMessages DEF ThreadDoc
  <2>3. threadDocs'[t] = Append(docs, doc)
    BY <1>2, <2>1 DEF InsertThread, TypeInv, TypeOK
  <2>4. \A u \in Threads \ {t} : threadDocs'[u] = threadDocs[u]
    BY <1>2, <2>1 DEF InsertThread, TypeInv, TypeOK
  <2>5. \A i \in DOMAIN docs : i \in DOMAIN Append(docs, doc) /\ Append(docs, doc)[i] = docs[i]
    <3> HIDE DEF docs, doc
    <3> QED
      BY <2>1, <2>2
  <2> QED
    BY <2>3, <2>4, <2>5 DEF DocsKeepSids
<1>3. CASE UNCHANGED threadDocs
  BY <1>3 DEF DocsKeepSids
<1> QED
  BY <1>1, <1>2, <1>3
  DEF Next, RequestStep, Arrive, Fetch, ReadThreads, ReadEmails, SaveEmails, InsertEmail,
      Publish, Recorded, TriggerWorkflow, TriggerFails, RequestFails, Crash, vars

-----------------------------------------------------------------------------
(* What is announced is stored.                                            *)

Saving == {"threadSaved", "insertEmail", "saved"}

\* Past its save of the thread, a request's storage id is stored.
ThreadStored(r) == pc[r] \in Saving => StorageId(r) \in SidsOf(ThreadOf[msg[r]])

\* Past its save of the emails, a request's new email is stored.
EmailStored(r) == pc[r] = "saved" /\ IsNew(r) => fresh[r] \in EidsOf(msg[r])

\* The inductive invariant.
StoredInv ==
    /\ TypeInv
    /\ \A r \in Requests : ThreadStored(r) /\ EmailStored(r)
    /\ AnnouncedIsStored

\* No storage id disappears from a thread.
LEMMA SidsGrow ==
    ASSUME TypeInv, [Next]_vars, NEW t \in Threads
    PROVE  SidsOf(t) \subseteq SidsOf(t)'
BY DocsStep DEF DocsKeepSids, SidsOf

\* No email disappears from a message: InsertEmail appends, nothing else writes.
LEMMA EidsGrow ==
    ASSUME TypeInv, [Next]_vars, NEW m \in Messages
    PROVE  EidsOf(m) \subseteq EidsOf(m)'
<1>1. CASE UNCHANGED emailDocs
  BY <1>1 DEF EidsOf
<1>2. ASSUME NEW r \in Requests, InsertEmail(r)
      PROVE  EidsOf(m) \subseteq EidsOf(m)'
  <2>1. /\ fresh[r] \in Ids
        /\ emailDocs[m] \in Seq(Ids)
        /\ emailDocs'[m] \in {emailDocs[m], Append(emailDocs[m], fresh[r])}
    BY <1>2 DEF InsertEmail, TypeInv, TypeOK, Busy
  <2>2. \A i \in DOMAIN emailDocs[m] :
           i \in DOMAIN emailDocs'[m] /\ emailDocs'[m][i] = emailDocs[m][i]
    BY <2>1
  <2> QED
    BY <2>2 DEF EidsOf
<1> QED
  BY <1>1, <1>2
  DEF Next, RequestStep, Arrive, Fetch, ReadThreads, ReadEmails, SaveThread, InsertThread,
      SaveEmails, Publish, Recorded, TriggerWorkflow, TriggerFails, RequestFails, Crash, vars

\* A step of another request leaves a request standing still.
StandsStill(r) ==
    /\ pc'[r] = pc[r] /\ msg'[r] = msg[r] /\ fresh'[r] = fresh[r]
    /\ sid'[r] = sid[r] /\ known'[r] = known[r]

\* What is stored for a request stays stored while it stands still.
LEMMA StandingStill ==
    ASSUME StoredInv, [Next]_vars, NEW r \in Requests, StandsStill(r)
    PROVE  ThreadStored(r)' /\ EmailStored(r)'
<1>1. pc[r] \in Saving => msg[r] \in Messages /\ ThreadOf[msg[r]] \in Threads
  BY IngestionAssumption DEF StoredInv, TypeInv, Busy, Saving
<1>2. ThreadStored(r)'
  BY <1>1, SidsGrow DEF StoredInv, ThreadStored, StorageId, StandsStill
<1>3. EmailStored(r)'
  BY <1>1, EidsGrow DEF StoredInv, EmailStored, IsNew, KnownMessages, Saving, StandsStill
<1> QED
  BY <1>2, <1>3

\* An event that was announced before stays stored.
LEMMA AnnouncedStaysStored ==
    ASSUME StoredInv, [Next]_vars, NEW e \in Announced
    PROVE  e.sid \in SidsOf(ThreadOf[e.message])' /\ e.eid \in EidsOf(e.message)'
<1>1. e.message \in Messages /\ ThreadOf[e.message] \in Threads
  BY IngestionAssumption DEF StoredInv, TypeInv, TypeOK, Announced, Event
<1> QED
  BY <1>1, SidsGrow, EidsGrow DEF StoredInv, TypeInv, AnnouncedIsStored

\* Nothing is announced in the beginning.
LEMMA StoredInit == Init => StoredInv
BY TypeInit DEF Init, StoredInv, ThreadStored, EmailStored, Saving, AnnouncedIsStored, Announced

\* Each step keeps what requests have stored.
LEMMA RequestsStoredStep ==
    ASSUME StoredInv, [Next]_vars
    PROVE  \A r \in Requests : ThreadStored(r)' /\ EmailStored(r)'
<1> USE IngestionAssumption
<1>1. ASSUME NEW r \in Requests,
             \A q \in Requests \ {r} : StandsStill(q),
             ThreadStored(r)' /\ EmailStored(r)'
      PROVE  \A q \in Requests : ThreadStored(q)' /\ EmailStored(q)'
  BY <1>1, StandingStill
<1>2. ASSUME NEW r \in Requests, Fetch(r) \/ ReadThreads(r) \/ ReadEmails(r)
      PROVE  \A q \in Requests : ThreadStored(q)' /\ EmailStored(q)'
  <2>1. \A q \in Requests \ {r} : StandsStill(q)
    BY <1>2 DEF Fetch, ReadThreads, ReadEmails, Goto, StoredInv, TypeInv, TypeOK, StandsStill
  <2>2. pc'[r] \in {"fetched", "threadsRead", "built"}
    BY <1>2 DEF Fetch, ReadThreads, ReadEmails, Goto, StoredInv, TypeInv, TypeOK
  <2>3. ThreadStored(r)' /\ EmailStored(r)'
    BY <2>2 DEF ThreadStored, EmailStored, Saving
  <2> QED
    BY <1>1, <2>1, <2>3
<1>3. ASSUME NEW r \in Requests, End(r)
      PROVE  \A q \in Requests : ThreadStored(q)' /\ EmailStored(q)'
  <2>1. \A q \in Requests \ {r} : StandsStill(q)
    BY <1>3 DEF End, Goto, StoredInv, TypeInv, TypeOK, StandsStill
  <2>2. pc'[r] = "idle"
    BY <1>3 DEF End, Goto, StoredInv, TypeInv, TypeOK
  <2>3. ThreadStored(r)' /\ EmailStored(r)'
    BY <2>2 DEF ThreadStored, EmailStored, Saving
  <2> QED
    BY <1>1, <2>1, <2>3
<1>4. ASSUME NEW r \in Requests, NEW step \in Steps, Goto(r, step),
             UNCHANGED <<msg, fresh, sid, known>>,
             step \in Saving => StorageId(r) \in SidsOf(ThreadOf[msg[r]])',
             step = "saved" /\ IsNew(r) => fresh[r] \in EidsOf(msg[r])'
      PROVE  \A q \in Requests : ThreadStored(q)' /\ EmailStored(q)'
  <2>1. \A q \in Requests \ {r} : StandsStill(q)
    BY <1>4 DEF Goto, StoredInv, TypeInv, TypeOK, StandsStill
  <2>2. pc'[r] = step
    BY <1>4 DEF Goto, StoredInv, TypeInv, TypeOK
  <2>3. ThreadStored(r)'
    BY <1>4, <2>2 DEF ThreadStored, StorageId
  <2>4. EmailStored(r)'
    BY <1>4, <2>2 DEF EmailStored, IsNew, KnownMessages
  <2> QED
    BY <1>1, <2>1, <2>3, <2>4
<1>5. ASSUME NEW r \in Requests, SaveThread(r)
      PROVE  \A q \in Requests : ThreadStored(q)' /\ EmailStored(q)'
  <2> DEFINE t == ThreadOf[msg[r]]
             docs == threadDocs[t]
             doc == [sid |-> StorageId(r), messageIds |-> AggregateIds(r)]
  <2>1. pc[r] # "idle" /\ t \in Threads /\ docs \in Seq(ThreadDoc)
    BY <1>5 DEF SaveThread, StoredInv, TypeInv, TypeOK, Busy
  <2>2. CASE Goto(r, "insertThread") /\ UNCHANGED <<msg, fresh, sid, known>>
    BY <1>4, <2>2 DEF Steps, Saving
  <2>3. CASE /\ docs # <<>>
             /\ threadDocs' = [threadDocs EXCEPT ![t] = [docs EXCEPT ![1] = doc]]
             /\ Goto(r, "threadSaved")
             /\ UNCHANGED <<msg, fresh, sid, known>>
    <3>1. threadDocs'[t] = [docs EXCEPT ![1] = doc]
      BY <2>1, <2>3 DEF StoredInv, TypeInv, TypeOK
    <3>2. 1 \in DOMAIN docs
      BY <2>1, <2>3, EmptySeq
    <3>3. 1 \in DOMAIN threadDocs'[t] /\ threadDocs'[t][1].sid = StorageId(r)
      BY <3>1, <3>2
    <3>4. StorageId(r) \in SidsOf(t)'
      BY <2>3, <3>3 DEF SidsOf
    <3> QED
      BY <1>4, <2>3, <3>4 DEF Steps, Saving
  <2>4. CASE End(r)
    BY <1>3, <2>4
  <2> QED
    BY <1>5, <2>2, <2>3, <2>4 DEF SaveThread
<1>6. ASSUME NEW r \in Requests, InsertThread(r)
      PROVE  \A q \in Requests : ThreadStored(q)' /\ EmailStored(q)'
  <2> DEFINE t == ThreadOf[msg[r]]
             docs == threadDocs[t]
             doc == [sid |-> StorageId(r), messageIds |-> AggregateIds(r)]
  <2>1. pc[r] # "idle" /\ t \in Threads /\ docs \in Seq(ThreadDoc)
    BY <1>6 DEF InsertThread, StoredInv, TypeInv, TypeOK, Busy
  <2>2. doc \in ThreadDoc
    BY <2>1, StorageIdIsId, AggregateIdsAreMessages DEF ThreadDoc, StoredInv
  <2>3. threadDocs'[t] = Append(docs, doc)
    BY <1>6, <2>1 DEF InsertThread, StoredInv, TypeInv, TypeOK
  <2>4. Len(docs) + 1 \in DOMAIN Append(docs, doc) /\ Append(docs, doc)[Len(docs) + 1] = doc
    <3> HIDE DEF docs, doc
    <3> QED
      BY <2>1, <2>2
  <2>5. StorageId(r) \in SidsOf(t)'
    <3>1. Len(docs) + 1 \in DOMAIN threadDocs'[t]
      BY <2>3, <2>4
    <3>2. threadDocs'[t][Len(docs) + 1].sid = StorageId(r)
      BY <2>3, <2>4
    <3>3. t' = t
      BY <1>6 DEF InsertThread
    <3> HIDE DEF t, docs, doc
    <3> QED
      BY <3>1, <3>2, <3>3 DEF SidsOf
  <2> QED
    BY <1>4, <1>6, <2>5 DEF InsertThread, Steps, Saving
<1>7. ASSUME NEW r \in Requests, SaveEmails(r)
      PROVE  \A q \in Requests : ThreadStored(q)' /\ EmailStored(q)'
  <2>1. /\ StorageId(r) \in SidsOf(ThreadOf[msg[r]])
        /\ UNCHANGED threadDocs
    BY <1>7 DEF SaveEmails, StoredInv, ThreadStored, Saving
  <2>2. CASE UNCHANGED msg
    <3>1. StorageId(r) \in SidsOf(ThreadOf[msg[r]])'
      BY <2>1, <2>2 DEF SidsOf
    <3> QED
      BY <1>3, <1>4, <1>7, <3>1 DEF SaveEmails, Steps, Saving
  <2> QED
    BY <1>3, <1>7, <2>2 DEF SaveEmails
<1>8. ASSUME NEW r \in Requests, InsertEmail(r)
      PROVE  \A q \in Requests : ThreadStored(q)' /\ EmailStored(q)'
  <2>1. StorageId(r) \in SidsOf(ThreadOf[msg[r]])'
    BY <1>8 DEF InsertEmail, StoredInv, ThreadStored, Saving, SidsOf
  <2>2. /\ fresh[r] \in Ids
        /\ emailDocs[msg[r]] \in Seq(Ids)
        /\ emailDocs'[msg[r]] = Append(emailDocs[msg[r]], fresh[r])
    BY <1>8 DEF InsertEmail, StoredInv, TypeInv, TypeOK, Busy
  <2>3. fresh[r] \in EidsOf(msg[r])'
    <3>1. /\ Len(emailDocs[msg[r]]) + 1 \in DOMAIN emailDocs'[msg[r]]
          /\ emailDocs'[msg[r]][Len(emailDocs[msg[r]]) + 1] = fresh[r]
      BY <2>2
    <3> QED
      BY <1>8, <3>1 DEF EidsOf, InsertEmail
  <2> QED
    BY <1>4, <1>8, <2>1, <2>3 DEF InsertEmail, Steps
<1>9. ASSUME Crash
      PROVE  \A q \in Requests : ThreadStored(q)' /\ EmailStored(q)'
  BY <1>9 DEF Crash, ThreadStored, EmailStored, Saving
<1>10. CASE UNCHANGED requestVars
  BY <1>10, StandingStill DEF requestVars, StandsStill
<1> QED
  BY <1>2, <1>3, <1>5, <1>6, <1>7, <1>8, <1>9, <1>10
  DEF Next, RequestStep, Arrive, Publish, Recorded, TriggerWorkflow, TriggerFails, RequestFails, vars

\* Each step keeps announced events stored: only Publish announces, and it
\* announces what its request has stored.
LEMMA AnnouncedStep ==
    ASSUME StoredInv, [Next]_vars
    PROVE  AnnouncedIsStored'
<1>1. ASSUME NEW e \in Announced', e \in Announced
      PROVE  e.sid \in SidsOf(ThreadOf[e.message])' /\ e.eid \in EidsOf(e.message)'
  BY <1>1, AnnouncedStaysStored
<1>2. ASSUME NEW r \in Requests, Publish(r), IsNew(r), NEW e \in Announced', e = EventOf(r)
      PROVE  e.sid \in SidsOf(ThreadOf[e.message])' /\ e.eid \in EidsOf(e.message)'
  <2>1. /\ StorageId(r) \in SidsOf(ThreadOf[msg[r]])
        /\ fresh[r] \in EidsOf(msg[r])
    BY <1>2 DEF Publish, Recorded, StoredInv, ThreadStored, EmailStored, Saving
  <2>2. /\ e.sid = StorageId(r)
        /\ e.message = msg[r]
        /\ e.eid = fresh[r]
    BY <1>2 DEF EventOf
  <2>3. /\ SidsOf(ThreadOf[e.message])' = SidsOf(ThreadOf[e.message])
        /\ EidsOf(e.message)' = EidsOf(e.message)
    BY <1>2 DEF Publish, Recorded, SidsOf, EidsOf
  <2> QED
    BY <2>1, <2>2, <2>3
<1>3. ASSUME NEW r \in Requests, Publish(r)
      PROVE  Announced' \subseteq Announced \/ (IsNew(r) /\ Announced' \subseteq Announced \cup {EventOf(r)})
  BY <1>3 DEF Publish, Recorded, Announced
<1>4. CASE Announced' \subseteq Announced
  BY <1>1, <1>4 DEF AnnouncedIsStored, Announced
<1>5. CASE \E r \in Requests : Publish(r)
  BY <1>1, <1>2, <1>3, <1>5 DEF AnnouncedIsStored, Announced
<1>6. CASE UNCHANGED <<handlers, signalled>>
  BY <1>4, <1>6 DEF Announced
<1>7. CASE Crash \/ (\E e \in handlers : TriggerWorkflow(e) \/ TriggerFails(e))
  <2>1. Announced' \subseteq Announced
    BY <1>7 DEF Crash, TriggerWorkflow, TriggerFails, Announced
  <2> QED
    BY <1>4, <2>1
<1> QED
  BY <1>5, <1>6, <1>7
  DEF Next, RequestStep, Arrive, Fetch, ReadThreads, ReadEmails, SaveThread, InsertThread,
      SaveEmails, InsertEmail, RequestFails, vars

\* Whatever overlaps, fails or crashes, an announced event (and so a signal to
\* a workflow) names a stored thread document and a stored email.
THEOREM AnnouncedAreStored == Spec => []AnnouncedIsStored
<1>1. StoredInv /\ [Next]_vars => StoredInv'
  BY TypeStep, RequestsStoredStep, AnnouncedStep DEF StoredInv
<1>2. StoredInv => AnnouncedIsStored
  BY DEF StoredInv
<1> QED
  BY <1>1, <1>2, StoredInit, PTL DEF Spec

-----------------------------------------------------------------------------
(* Announcements are lost by faults only, and each by its own.             *)

\* A request inserts only an email that its snapshot did not have, and so will
\* announce it.
InsertsNew == \A r \in Requests : pc[r] = "insertEmail" => IsNew(r)

LossInv == TypeInv /\ InsertsNew

\* What a request is about to announce.
Announcing(r) == pc[r] = "saved" /\ IsNew(r)

\* Only SaveEmails leads to the insert, and on the way nothing is read anew.
LEMMA InsertsNewStep == LossInv /\ [Next]_vars => InsertsNew'
<1> SUFFICES ASSUME LossInv, [Next]_vars
             PROVE  InsertsNew'
  OBVIOUS
<1>1. ASSUME NEW r \in Requests, \A q \in Requests \ {r} : StandsStill(q),
             pc'[r] = "insertEmail" => IsNew(r)'
      PROVE  InsertsNew'
  BY <1>1 DEF LossInv, InsertsNew, StandsStill, IsNew, KnownMessages
<1>2. ASSUME NEW r \in Requests, End(r)
      PROVE  InsertsNew'
  <2>1. pc'[r] = "idle" /\ \A q \in Requests \ {r} : StandsStill(q)
    BY <1>2 DEF End, Goto, LossInv, TypeInv, TypeOK, StandsStill
  <2> QED
    BY <1>1, <2>1
<1>3. ASSUME NEW r \in Requests, Fetch(r) \/ ReadThreads(r) \/ ReadEmails(r)
      PROVE  InsertsNew'
  <2>1. /\ pc'[r] \in {"fetched", "threadsRead", "built"}
        /\ \A q \in Requests \ {r} : StandsStill(q)
    BY <1>3 DEF Fetch, ReadThreads, ReadEmails, Goto, LossInv, TypeInv, TypeOK, StandsStill
  <2> QED
    BY <1>1, <2>1
<1>4. ASSUME NEW r \in Requests, NEW step \in {"insertThread", "threadSaved", "saved"},
             Goto(r, step), UNCHANGED <<msg, fresh, sid, known>>
      PROVE  InsertsNew'
  <2>1. pc'[r] # "insertEmail" /\ \A q \in Requests \ {r} : StandsStill(q)
    BY <1>4 DEF Goto, LossInv, TypeInv, TypeOK, StandsStill
  <2> QED
    BY <1>1, <2>1
<1>5. ASSUME NEW r \in Requests, IsNew(r), Goto(r, "insertEmail"),
             UNCHANGED <<msg, fresh, sid, known>>
      PROVE  InsertsNew'
  <2>1. IsNew(r)' /\ \A q \in Requests \ {r} : StandsStill(q)
    BY <1>5 DEF Goto, LossInv, TypeInv, TypeOK, StandsStill, IsNew, KnownMessages
  <2> QED
    BY <1>1, <2>1
<1>6. CASE Crash
  BY <1>6 DEF Crash, InsertsNew
<1>7. CASE UNCHANGED requestVars
  BY <1>7 DEF requestVars, LossInv, InsertsNew, IsNew, KnownMessages
<1>8. ASSUME NEW r \in Requests, SaveThread(r) \/ InsertThread(r)
      PROVE  InsertsNew'
  BY <1>2, <1>4, <1>8 DEF SaveThread, InsertThread
<1>9. ASSUME NEW r \in Requests, SaveEmails(r) \/ InsertEmail(r)
      PROVE  InsertsNew'
  BY <1>2, <1>4, <1>5, <1>9 DEF SaveEmails, InsertEmail
<1> QED
  BY <1>2, <1>3, <1>6, <1>7, <1>8, <1>9
  DEF Next, RequestStep, Arrive, Publish, Recorded, TriggerWorkflow, TriggerFails, RequestFails, vars

\* A message that is lost was stored before the step or is stored by it, and had its
\* event announced, or a request at work on it that was to announce it.
LEMMA LostWasOwned ==
    ASSUME LossInv, NEW m \in Unannounced' \ Unannounced, UNCHANGED emailDocs
    PROVE  /\ m \in Messages
           /\ \/ \E e \in Announced \ Announced' : e.message = m
              \/ \E r \in Requests : /\ Announcing(r) /\ msg[r] = m
                                     /\ ~(Announcing(r)' /\ msg'[r] = m)
BY DEF Unannounced, Announcing

\* A step that stores no email, announces what was announced and moves only a
\* request that had nothing to announce, loses nothing.
LEMMA NothingLost ==
    ASSUME LossInv, NEW r \in Requests, pc[r] # "saved",
           \A q \in Requests \ {r} : StandsStill(q),
           Announced \subseteq Announced', UNCHANGED emailDocs
    PROVE  Unannounced' \ Unannounced = {}
<1> SUFFICES ASSUME NEW m \in Unannounced' \ Unannounced
             PROVE  FALSE
  OBVIOUS
<1>1. PICK q \in Requests : /\ Announcing(q) /\ msg[q] = m
                            /\ ~(Announcing(q)' /\ msg'[q] = m)
  BY LostWasOwned
<1>2. StandsStill(q)
  BY <1>1 DEF Announcing
<1> QED
  BY <1>1, <1>2 DEF Announcing, StandsStill, IsNew, KnownMessages

\* A request that stores its email is about to announce it.
LEMMA InsertsLoseNothing ==
    ASSUME LossInv, NEW r \in Requests, InsertEmail(r)
    PROVE  Unannounced' \ Unannounced = {}
<1>1. /\ pc'[r] = "saved" /\ IsNew(r)' /\ msg'[r] = msg[r]
      /\ \A q \in Requests \ {r} : StandsStill(q)
  BY DEF InsertEmail, Goto, LossInv, InsertsNew, TypeInv, TypeOK, StandsStill, IsNew,
         KnownMessages
<1>2. Announced' = Announced /\ pc[r] # "saved"
  BY DEF InsertEmail, Announced
<1>3. \A m \in Messages : m # msg[r] => emailDocs'[m] = emailDocs[m]
  BY DEF InsertEmail, LossInv, TypeInv, TypeOK
<1>4. \A q \in Requests : pc[q] = "saved" /\ IsNew(q) =>
          pc'[q] = "saved" /\ msg'[q] = msg[q] /\ IsNew(q)'
  BY <1>1, <1>2 DEF StandsStill, IsNew, KnownMessages
<1> QED
  BY <1>1, <1>2, <1>3, <1>4 DEF Unannounced

\* A request that publishes has its message announced, if it is new.
LEMMA PublishesLoseNothing ==
    ASSUME LossInv, NEW r \in Requests, Publish(r)
    PROVE  Unannounced' \ Unannounced = {}
<1>1. /\ \A q \in Requests \ {r} : StandsStill(q)
      /\ UNCHANGED emailDocs
      /\ Announced \subseteq Announced'
  BY DEF Publish, Recorded, End, Goto, LossInv, TypeInv, TypeOK, StandsStill, Announced
<1>2. IsNew(r) => EventOf(r) \in Announced' /\ EventOf(r).message = msg[r]
  BY DEF Publish, Recorded, Announced, EventOf
<1>3. \A q \in Requests \ {r} : pc[q] = "saved" /\ IsNew(q) =>
          pc'[q] = "saved" /\ msg'[q] = msg[q] /\ IsNew(q)'
  BY <1>1 DEF StandsStill, IsNew, KnownMessages
<1> QED
  BY <1>1, <1>2, <1>3 DEF Unannounced

\* The step of LossesAreOwned.
OwnLosses ==
    LET lost == Unannounced' \ Unannounced IN
        /\ \A m \in lost : LostByFault(m)
        /\ \/ \A m, n \in lost : m = n
           \/ handlers' = {} /\ \A r \in Requests : pc'[r] = "idle"

\* Steps that are no faults lose nothing, a refused handler loses its message, and a
\* restart what was in flight.
LEMMA LossStep == LossInv /\ [Next]_vars => OwnLosses
<1> SUFFICES ASSUME LossInv, [Next]_vars
             PROVE  OwnLosses
  OBVIOUS
<1>1. Unannounced' \ Unannounced = {} => OwnLosses
  BY DEF OwnLosses
<1>2. CASE Announced \subseteq Announced' /\ UNCHANGED <<emailDocs, requestVars>>
  <2>1. Unannounced' \ Unannounced = {}
    BY <1>2 DEF requestVars, Unannounced, IsNew, KnownMessages
  <2> QED
    BY <1>1, <2>1
<1>3. ASSUME NEW r \in Requests, Fetch(r) \/ ReadThreads(r) \/ ReadEmails(r)
      PROVE  OwnLosses
  <2>1. pc[r] # "saved" /\ \A q \in Requests \ {r} : StandsStill(q)
    BY <1>3 DEF Fetch, ReadThreads, ReadEmails, Goto, LossInv, TypeInv, TypeOK, StandsStill
  <2>2. Announced \subseteq Announced' /\ UNCHANGED emailDocs
    BY <1>3 DEF Fetch, ReadThreads, ReadEmails, Announced
  <2> QED
    BY <1>1, <2>1, <2>2, NothingLost
<1>4. ASSUME NEW r \in Requests,
             SaveThread(r) \/ InsertThread(r) \/ SaveEmails(r) \/ RequestFails(r)
      PROVE  OwnLosses
  <2>1. pc[r] # "saved" /\ \A q \in Requests \ {r} : StandsStill(q)
    BY <1>4
    DEF SaveThread, InsertThread, SaveEmails, RequestFails, End, Goto, LossInv, TypeInv, TypeOK,
        StandsStill
  <2>2. Announced \subseteq Announced' /\ UNCHANGED emailDocs
    BY <1>4 DEF SaveThread, InsertThread, SaveEmails, RequestFails, Announced
  <2> QED
    BY <1>1, <2>1, <2>2, NothingLost
<1>5. ASSUME NEW r \in Requests, InsertEmail(r) \/ Publish(r)
      PROVE  OwnLosses
  BY <1>1, <1>5, InsertsLoseNothing, PublishesLoseNothing
<1>6. ASSUME NEW f \in handlers, TriggerFails(f)
      PROVE  OwnLosses
  <2>1. /\ handlers' = handlers \ {f}
        /\ UNCHANGED <<emailDocs, requestVars, signalled>>
        /\ faults' = faults + 1
    BY <1>6 DEF TriggerFails, Fault
  <2>2. ASSUME NEW m \in Unannounced' \ Unannounced
        PROVE  f.message = m
    <3>1. PICK e \in Announced \ Announced' : e.message = m
      BY <2>1, LostWasOwned DEF requestVars, Announcing, IsNew, KnownMessages
    <3>2. e = f
      BY <2>1, <3>1 DEF Announced
    <3> QED
      BY <3>1, <3>2
  <2>3. \A m \in Unannounced' \ Unannounced : LostByFault(m)
    BY <2>1, <2>2 DEF LostByFault
  <2> QED
    BY <2>2, <2>3 DEF OwnLosses
<1>7. CASE Crash
  <2>1. /\ handlers' = {} /\ \A r \in Requests : pc'[r] = "idle"
        /\ UNCHANGED <<emailDocs, signalled>>
        /\ faults' = faults + 1
    BY <1>7 DEF Crash, Fault
  <2>2. ASSUME NEW m \in Unannounced' \ Unannounced
        PROVE  LostByFault(m)
    <3>1. \/ \E e \in Announced \ Announced' : e.message = m
          \/ \E r \in Requests : Announcing(r) /\ msg[r] = m
      BY <2>1, LostWasOwned
    <3> QED
      BY <2>1, <3>1 DEF LostByFault, Announced, Announcing
  <2> QED
    BY <2>1, <2>2 DEF OwnLosses
<1> QED
  BY <1>2, <1>3, <1>4, <1>5, <1>6, <1>7
  DEF Next, RequestStep, Arrive, TriggerWorkflow, Announced, vars, requestVars

\* For any number of overlapping requests and faults: each stored message that loses
\* its announcement loses it by a fault that hits its own event, and only a restart
\* can cost more than one.
THEOREM LossesNeedFaults == Spec => LossesAreOwned
<1>1. Init => LossInv
  BY TypeInit DEF LossInv, Init, InsertsNew
<1>2. LossInv /\ [Next]_vars => LossInv'
  BY TypeStep, InsertsNewStep DEF LossInv
<1>3. LossInv /\ [Next]_vars => [OwnLosses]_vars
  BY LossStep
<1> QED
  BY <1>1, <1>2, <1>3, PTL DEF Spec, LossesAreOwned, OwnLosses

-----------------------------------------------------------------------------
(* Storage ids are told apart.                                             *)

\* Requests that have not saved their thread yet.
Unsaved == {"fetched", "threadsRead", "built", "insertThread"}

\* The documents of a Gmail thread, and the requests at work, have UUIDs of their
\* own.  A request knows no storage id but one of its thread.
DistinctSids ==
    \A t \in Threads : \A i, j \in DOMAIN threadDocs[t] :
        threadDocs[t][i].sid = threadDocs[t][j].sid => i = j

FreshIsNew(r) == pc[r] \in Unsaved => \A t \in Threads : fresh[r] \notin SidsOf(t)

SidIsFound(r) ==
    /\ pc[r] \in {"idle", "fetched", "insertThread"} => sid[r] = None
    /\ sid[r] # None => sid[r] \in SidsOf(ThreadOf[msg[r]])

DistinctFresh ==
    \A q, r \in Requests : pc[q] # "idle" /\ fresh[q] = fresh[r] => q = r

SidInv ==
    /\ TypeInv
    /\ DistinctSids
    /\ DistinctFresh
    /\ \A r \in Requests : FreshIsNew(r) /\ SidIsFound(r)

\* A step of one request leaves the others standing still.
LEMMA OneMoves ==
    ASSUME TypeInv, NEW r \in Requests, Fetch(r) \/ RequestStep(r) \/ RequestFails(r)
    PROVE  \A q \in Requests \ {r} : StandsStill(q) /\ listed'[q] = listed[q]
BY DEF Fetch, RequestStep, ReadThreads, ReadEmails, SaveThread, InsertThread, SaveEmails,
       InsertEmail, Publish, Recorded, RequestFails, End, Goto, TypeInv, TypeOK, StandsStill

\* What SaveThread makes of a thread: one document is replaced by another with the
\* same storage id, if any is written at all.
LEMMA SavedThread ==
    ASSUME TypeInv, NEW r \in Requests, SaveThread(r)
    PROVE  \A t \in Threads : SidsOf(t)' = SidsOf(t)
<1> DEFINE u == ThreadOf[msg[r]]
           docs == threadDocs[u]
           doc == [sid |-> StorageId(r), messageIds |-> AggregateIds(r)]
<1>1. pc[r] # "idle" /\ u \in Threads /\ docs \in Seq(ThreadDoc)
  BY IngestionAssumption DEF SaveThread, TypeInv, TypeOK, Busy
<1>2. CASE UNCHANGED threadDocs
  BY <1>2 DEF SidsOf
<1>3. CASE /\ docs # <<>>
           /\ docs[1].sid = StorageId(r)
           /\ threadDocs' = [threadDocs EXCEPT ![u] = [docs EXCEPT ![1] = doc]]
  <2>1. SUFFICES ASSUME NEW t \in Threads
                 PROVE  SidsOf(t)' = SidsOf(t)
    OBVIOUS
  <2>2. CASE t # u
    BY <1>1, <1>3, <2>2 DEF SidsOf, TypeInv, TypeOK
  <2>3. CASE t = u
    <3>1. threadDocs'[t] = [docs EXCEPT ![1] = doc]
      BY <1>1, <1>3, <2>3 DEF TypeInv, TypeOK
    <3>2. \A i \in DOMAIN docs : threadDocs'[t][i].sid = docs[i].sid
      BY <1>3, <3>1
    <3>3. DOMAIN threadDocs'[t] = DOMAIN docs
      BY <3>1
    <3> HIDE DEF docs, doc
    <3> QED
      BY <2>3, <3>2, <3>3 DEF SidsOf, docs
  <2> QED
    BY <2>2, <2>3
<1> QED
  BY <1>2, <1>3 DEF SaveThread

\* What InsertThread makes of a thread.
LEMMA InsertedThread ==
    ASSUME TypeInv, NEW r \in Requests, InsertThread(r)
    PROVE  LET u == ThreadOf[msg[r]]
               doc == [sid |-> StorageId(r), messageIds |-> AggregateIds(r)] IN
           /\ u \in Threads
           /\ doc \in ThreadDoc
           /\ threadDocs[u] \in Seq(ThreadDoc)
           /\ threadDocs'[u] = Append(threadDocs[u], doc)
           /\ SidsOf(u)' = SidsOf(u) \cup {StorageId(r)}
           /\ \A t \in Threads \ {u} : threadDocs'[t] = threadDocs[t] /\ SidsOf(t)' = SidsOf(t)
<1> DEFINE u == ThreadOf[msg[r]]
           docs == threadDocs[u]
           doc == [sid |-> StorageId(r), messageIds |-> AggregateIds(r)]
<1>1. pc[r] # "idle" /\ u \in Threads /\ docs \in Seq(ThreadDoc)
  BY IngestionAssumption DEF InsertThread, TypeInv, TypeOK, Busy
<1>2. doc \in ThreadDoc
  BY <1>1, StorageIdIsId, AggregateIdsAreMessages DEF ThreadDoc
<1>3. threadDocs'[u] = Append(docs, doc)
  BY <1>1 DEF InsertThread, TypeInv, TypeOK
<1>4. \A t \in Threads \ {u} : threadDocs'[t] = threadDocs[t] /\ SidsOf(t)' = SidsOf(t)
  BY <1>1 DEF InsertThread, SidsOf, TypeInv, TypeOK
<1>5. SidsOf(u)' = SidsOf(u) \cup {StorageId(r)}
  <2>1. u' = u
    BY DEF InsertThread
  <2>2. /\ DOMAIN Append(docs, doc) = DOMAIN docs \cup {Len(docs) + 1}
        /\ Append(docs, doc)[Len(docs) + 1] = doc
        /\ \A i \in DOMAIN docs : Append(docs, doc)[i] = docs[i]
    <3> HIDE DEF docs, doc
    <3> QED
      BY <1>1, <1>2
  <2>3. SidsOf(u)' = {threadDocs'[u][i].sid : i \in DOMAIN threadDocs'[u]}
    BY <2>1 DEF SidsOf
  <2>4. SidsOf(u) = {docs[i].sid : i \in DOMAIN docs}
    BY DEF SidsOf
  <2>5. {Append(docs, doc)[i].sid : i \in DOMAIN Append(docs, doc)}
            = {docs[i].sid : i \in DOMAIN docs} \cup {doc.sid}
    <3> HIDE DEF docs, doc
    <3> QED
      BY <2>2
  <2> QED
    BY <1>3, <2>3, <2>4, <2>5
<1> QED
  BY <1>1, <1>2, <1>3, <1>4, <1>5

\* An insert is the only step that changes the storage ids of a thread.
LEMMA SidsChange ==
    ASSUME TypeInv, [Next]_vars, \A r \in Requests : ~InsertThread(r)
    PROVE  \A t \in Threads : SidsOf(t)' = SidsOf(t)
<1>1. CASE UNCHANGED threadDocs
  BY <1>1 DEF SidsOf
<1> QED
  BY <1>1, SavedThread
  DEF Next, RequestStep, Arrive, Fetch, ReadThreads, ReadEmails, SaveEmails, InsertEmail,
      Publish, Recorded, TriggerWorkflow, TriggerFails, RequestFails, Crash, vars

\* The empty worker has nothing to mix up.
LEMMA SidInit == Init => SidInv
BY TypeInit, IngestionAssumption
DEF Init, SidInv, DistinctSids, DistinctFresh, FreshIsNew, SidIsFound, Unsaved

\* A request is given a UUID that no other holds, and drops it when it ends.
LEMMA DistinctFreshStep == SidInv /\ [Next]_vars => DistinctFresh'
<1> SUFFICES ASSUME SidInv, [Next]_vars
             PROVE  DistinctFresh'
  OBVIOUS
<1> USE IngestionAssumption DEF SidInv, DistinctFresh
<1>1. ASSUME NEW r \in Requests, Fetch(r)
      PROVE  DistinctFresh'
  <2>1. NewId \in Ids /\ \A q \in Requests : fresh[q] # NewId
    BY <1>1 DEF Fetch, NewId, Unused
  <2>2. fresh' = [fresh EXCEPT ![r] = NewId]
    BY <1>1 DEF Fetch
  <2>3. \A q \in Requests \ {r} : pc'[q] = pc[q] /\ fresh'[q] = fresh[q]
    BY <1>1, OneMoves DEF StandsStill
  <2>4. fresh'[r] = NewId
    BY <2>2 DEF TypeInv, TypeOK
  <2> QED
    BY <2>1, <2>3, <2>4
<1>2. ASSUME NEW r \in Requests, RequestStep(r) \/ RequestFails(r)
      PROVE  DistinctFresh'
  <2>1. \A q \in Requests \ {r} : pc'[q] = pc[q] /\ fresh'[q] = fresh[q]
    BY <1>2, OneMoves DEF StandsStill
  <2>2. /\ pc[r] # "idle"
        /\ \/ fresh'[r] = fresh[r]
           \/ fresh'[r] = None /\ pc'[r] = "idle"
    BY <1>2
    DEF RequestStep, ReadThreads, ReadEmails, SaveThread, InsertThread, SaveEmails,
        InsertEmail, Publish, Recorded, RequestFails, End, Goto, TypeInv, TypeOK
  <2>3. \A q \in Requests : pc[q] # "idle" => fresh[q] \in Ids
    BY DEF TypeInv, Busy
  <2> QED
    BY <2>1, <2>2, <2>3
<1>3. CASE Crash
  BY <1>3 DEF Crash
<1>4. CASE UNCHANGED requestVars
  BY <1>4 DEF requestVars
<1> QED
  BY <1>1, <1>2, <1>3, <1>4 DEF Next, Arrive, TriggerWorkflow, TriggerFails, vars

\* A UUID is stored by the insert of its request and by no other step.
LEMMA FreshIsNewStep == SidInv /\ [Next]_vars => \A r \in Requests : FreshIsNew(r)'
<1> SUFFICES ASSUME SidInv, [Next]_vars, NEW r \in Requests, pc'[r] \in Unsaved,
                    NEW t \in Threads
             PROVE  fresh'[r] \notin SidsOf(t)'
  BY DEF FreshIsNew
<1> USE IngestionAssumption DEF SidInv
<1>1. ASSUME NEW q \in Requests, InsertThread(q)
      PROVE  fresh'[r] \notin SidsOf(t)'
  <2>1. q # r /\ pc[q] # "idle"
    BY <1>1 DEF InsertThread, Goto, TypeInv, TypeOK, Unsaved
  <2>2. StandsStill(r) /\ fresh[r] \notin SidsOf(t)
    BY <1>1, <2>1, OneMoves DEF RequestStep, StandsStill, FreshIsNew
  <2>3. sid[q] = None /\ StorageId(q) = fresh[q]
    BY <1>1 DEF InsertThread, SidIsFound, StorageId
  <2>4. fresh[q] # fresh[r]
    BY <2>1 DEF DistinctFresh
  <2>5. SidsOf(t)' \subseteq SidsOf(t) \cup {StorageId(q)}
    <3>1. CASE t = ThreadOf[msg[q]]
      <4>1. SidsOf(ThreadOf[msg[q]])' = SidsOf(ThreadOf[msg[q]]) \cup {StorageId(q)}
        BY <1>1, InsertedThread
      <4>2. SidsOf(t)' = SidsOf(ThreadOf[msg[q]])'
        BY <1>1, <3>1 DEF InsertThread, SidsOf
      <4> QED
        BY <3>1, <4>1, <4>2
    <3>2. CASE t # ThreadOf[msg[q]]
      BY <1>1, <3>2, InsertedThread
    <3> QED
      BY <3>1, <3>2
  <2> QED
    BY <2>2, <2>3, <2>4, <2>5 DEF StandsStill
<1>2. ASSUME \A q \in Requests : ~InsertThread(q), pc[r] \in Unsaved, fresh'[r] = fresh[r]
      PROVE  fresh'[r] \notin SidsOf(t)'
  BY <1>2, SidsChange DEF FreshIsNew
<1>3. ASSUME Fetch(r)
      PROVE  fresh'[r] \notin SidsOf(t)'
  <2>1. NewId \notin SidsOf(t)
    BY <1>3 DEF Fetch, NewId, Unused
  <2>2. fresh'[r] = NewId /\ SidsOf(t)' = SidsOf(t)
    BY <1>3 DEF Fetch, SidsOf, TypeInv, TypeOK
  <2> QED
    BY <2>1, <2>2
<1>4. ASSUME ~Fetch(r), \A q \in Requests : ~InsertThread(q)
      PROVE  pc[r] \in Unsaved /\ fresh'[r] = fresh[r]
  <2>1. ASSUME NEW q \in Requests, q # r, Fetch(q) \/ RequestStep(q) \/ RequestFails(q)
        PROVE  pc[r] \in Unsaved /\ fresh'[r] = fresh[r]
    BY <2>1, OneMoves DEF StandsStill
  <2>2. CASE RequestStep(r) \/ RequestFails(r)
    BY <1>4, <2>2
    DEF RequestStep, ReadThreads, ReadEmails, SaveThread, SaveEmails,
        InsertEmail, Publish, Recorded, RequestFails, End, Goto, TypeInv, TypeOK, Unsaved
  <2>3. CASE Crash
    BY <2>3 DEF Crash, Unsaved
  <2>4. CASE UNCHANGED requestVars
    BY <2>4 DEF requestVars
  <2> QED
    BY <1>4, <2>1, <2>2, <2>3, <2>4 DEF Next, Arrive, TriggerWorkflow, TriggerFails, vars
<1> QED
  BY <1>1, <1>2, <1>3, <1>4

\* Only ReadThreads finds a storage id, and what it found stays stored.
LEMMA SidIsFoundStep == SidInv /\ [Next]_vars => \A r \in Requests : SidIsFound(r)'
<1> SUFFICES ASSUME SidInv, [Next]_vars, NEW r \in Requests
             PROVE  SidIsFound(r)'
  OBVIOUS
<1> USE IngestionAssumption DEF SidInv
<1>1. ASSUME pc'[r] = pc[r], sid'[r] = sid[r], msg'[r] = msg[r]
      PROVE  SidIsFound(r)'
  <2>1. sid[r] # None => ThreadOf[msg[r]] \in Threads
    BY DEF SidIsFound, TypeInv, Busy
  <2> QED
    BY <1>1, <2>1, SidsGrow DEF SidIsFound
<1>2. ASSUME sid'[r] = None
      PROVE  SidIsFound(r)'
  BY <1>2 DEF SidIsFound
<1>3. ASSUME ReadThreads(r)
      PROVE  SidIsFound(r)'
  <2> DEFINE docs == threadDocs[ThreadOf[msg[r]]]
  <2>1. sid[r] = None /\ ThreadOf[msg[r]] \in Threads /\ docs \in Seq(ThreadDoc)
    BY <1>3 DEF ReadThreads, SidIsFound, TypeInv, TypeOK, Busy
  <2>2. CASE docs = <<>>
    BY <1>2, <1>3, <2>1, <2>2 DEF ReadThreads
  <2>3. CASE docs # <<>>
    <3>1. Len(docs) \in DOMAIN docs
      BY <2>1, <2>3, EmptySeq, LenProperties
    <3>2. sid'[r] = docs[Len(docs)].sid /\ pc'[r] = "threadsRead"
      BY <1>3, <2>3 DEF ReadThreads, Goto, TypeInv, TypeOK
    <3>3. sid'[r] \in SidsOf(ThreadOf[msg[r]])
      BY <3>1, <3>2 DEF SidsOf
    <3>4. msg' = msg /\ threadDocs' = threadDocs
      BY <1>3 DEF ReadThreads
    <3> QED
      BY <3>2, <3>3, <3>4 DEF SidIsFound, SidsOf
  <2> QED
    BY <2>2, <2>3
<1>4. ASSUME NEW step \in Steps \ {"idle", "fetched", "insertThread"},
             pc[r] # "idle", Goto(r, step), UNCHANGED <<sid, msg>>
      PROVE  SidIsFound(r)'
  <2>1. ThreadOf[msg[r]] \in Threads /\ pc'[r] = step
    BY <1>4 DEF Goto, TypeInv, TypeOK, Busy
  <2> QED
    BY <1>4, <2>1, SidsGrow DEF SidIsFound
<1>5. ASSUME SaveThread(r), Goto(r, "insertThread"), UNCHANGED sid
      PROVE  SidIsFound(r)'
  <2>1. ThreadOf[msg[r]] \in Threads /\ threadDocs[ThreadOf[msg[r]]] = <<>>
    BY <1>5 DEF SaveThread, End, Goto, TypeInv, TypeOK, Busy
  <2>2. sid[r] = None
    BY <2>1 DEF SidIsFound, SidsOf
  <2> QED
    BY <1>2, <1>5, <2>2
<1>6. ASSUME End(r)
      PROVE  SidIsFound(r)'
  <2>1. sid'[r] = None
    BY <1>6 DEF End, TypeInv, TypeOK
  <2> QED
    BY <1>2, <2>1
<1>7. CASE RequestStep(r) \/ RequestFails(r)
  BY <1>3, <1>4, <1>5, <1>6, <1>7
  DEF RequestStep, ReadEmails, SaveThread, InsertThread, SaveEmails, InsertEmail, Publish, Recorded,
      RequestFails, Steps
<1>8. CASE Fetch(r)
  BY <1>2, <1>8 DEF Fetch, SidIsFound
<1>9. ASSUME NEW q \in Requests, q # r, Fetch(q) \/ RequestStep(q) \/ RequestFails(q)
      PROVE  SidIsFound(r)'
  BY <1>1, <1>9, OneMoves DEF StandsStill
<1>10. CASE Crash
  BY <1>2, <1>10 DEF Crash
<1>11. CASE UNCHANGED requestVars
  BY <1>1, <1>11 DEF requestVars
<1> QED
  BY <1>7, <1>8, <1>9, <1>10, <1>11 DEF Next, Arrive, TriggerWorkflow, TriggerFails, vars

\* An insert adds a storage id its thread did not have, and a replacement keeps the
\* one of the document it replaces.
LEMMA DistinctSidsStep == SidInv /\ [Next]_vars => DistinctSids'
<1> SUFFICES ASSUME SidInv, [Next]_vars, NEW t \in Threads
             PROVE  \A i, j \in DOMAIN threadDocs'[t] :
                        threadDocs'[t][i].sid = threadDocs'[t][j].sid => i = j
  BY DEF DistinctSids
<1> USE IngestionAssumption DEF SidInv
<1>1. ASSUME DOMAIN threadDocs'[t] = DOMAIN threadDocs[t]
      PROVE  \A i, j \in DOMAIN threadDocs'[t] :
                        threadDocs'[t][i].sid = threadDocs'[t][j].sid => i = j
  BY <1>1, DocsStep DEF DocsKeepSids, DistinctSids
<1>2. ASSUME NEW r \in Requests, InsertThread(r), t = ThreadOf[msg[r]]
      PROVE  \A i, j \in DOMAIN threadDocs'[t] :
                        threadDocs'[t][i].sid = threadDocs'[t][j].sid => i = j
  <2> DEFINE docs == threadDocs[t]
             doc == [sid |-> StorageId(r), messageIds |-> AggregateIds(r)]
  <2>1. doc \in ThreadDoc /\ docs \in Seq(ThreadDoc) /\ threadDocs'[t] = Append(docs, doc)
    BY <1>2, InsertedThread
  <2>2. StorageId(r) = fresh[r] /\ fresh[r] \notin SidsOf(t)
    BY <1>2 DEF InsertThread, StorageId, SidIsFound, FreshIsNew, Unsaved
  <2>3. \A i \in DOMAIN docs : docs[i].sid # doc.sid
    BY <2>2 DEF SidsOf
  <2>4. \A i, j \in DOMAIN docs : docs[i].sid = docs[j].sid => i = j
    BY DEF DistinctSids
  <2> HIDE DEF docs, doc
  <2>5. /\ DOMAIN Append(docs, doc) = DOMAIN docs \cup {Len(docs) + 1}
        /\ Append(docs, doc)[Len(docs) + 1] = doc
        /\ \A i \in DOMAIN docs : Append(docs, doc)[i] = docs[i]
    BY <2>1
  <2> QED
    BY <2>1, <2>3, <2>4, <2>5
<1>3. ASSUME NEW r \in Requests, SaveThread(r)
      PROVE  DOMAIN threadDocs'[t] = DOMAIN threadDocs[t]
  BY <1>3 DEF SaveThread, TypeInv, TypeOK
<1>4. CASE UNCHANGED threadDocs
  BY <1>1, <1>4
<1>5. ASSUME NEW r \in Requests, InsertThread(r), t # ThreadOf[msg[r]]
      PROVE  DOMAIN threadDocs'[t] = DOMAIN threadDocs[t]
  BY <1>5, InsertedThread
<1> QED
  BY <1>1, <1>2, <1>3, <1>4, <1>5
  DEF Next, RequestStep, Arrive, Fetch, ReadThreads, ReadEmails, SaveEmails, InsertEmail,
      Publish, Recorded, TriggerWorkflow, TriggerFails, RequestFails, Crash, vars

\* All of it together.
LEMMA SidStep == SidInv /\ [Next]_vars => SidInv'
BY TypeStep, DistinctSidsStep, DistinctFreshStep, FreshIsNewStep, SidIsFoundStep DEF SidInv

-----------------------------------------------------------------------------
(* One request at a time.                                                  *)

\* The messages that the documents of a thread list.
ListedIn(t) == UNION {threadDocs[t][i].messageIds : i \in DOMAIN threadDocs[t]}

IsStored(m) == emailDocs[m] # <<>>

\* At most one request is at work.
Alone == \A q, r \in Requests : pc[q] # "idle" /\ pc[r] # "idle" => q = r

SingleDocs ==
    /\ \A t \in Threads : Len(threadDocs[t]) <= 1
    /\ \A m \in Messages : Len(emailDocs[m]) <= 1

\* A stored message is listed: StoredEmailListed, by the set of the listed.
StoredIsListed == \A m \in Messages : IsStored(m) => m \in ListedIn(ThreadOf[m])

\* What a lone request knows is up to date: it has read, or will find in its
\* snapshot, every listed message that is stored, the thread it misses is still
\* missing, and what it is about to store or announce nobody has.
UpToDate(r) ==
    LET t == ThreadOf[msg[r]] IN
    /\ pc[r] = "threadsRead" => ListedIn(t) \subseteq listed[r]
    /\ pc[r] = "built" => \A m \in ListedIn(t) : IsStored(m) => m \in KnownMessages(r)
    /\ pc[r] = "insertThread" => threadDocs[t] = <<>>
    /\ pc[r] \in {"threadSaved", "insertEmail"} => msg[r] \in ListedIn(t)
    /\ pc[r] = "insertEmail" => ~IsStored(msg[r])
    /\ pc[r] = "saved" /\ IsNew(r) => \A e \in Announced : e.message # msg[r]

SoloInv ==
    /\ StoredInv
    /\ Alone
    /\ SingleDocs
    /\ StoredIsListed
    /\ \A r \in Requests : UpToDate(r)
    /\ handlers \cap signalled = {}

\* What is announced stays stored.
LEMMA StoredStep == StoredInv /\ [Next]_vars => StoredInv'
BY TypeStep, RequestsStoredStep, AnnouncedStep DEF StoredInv

\* Two ways to say that stored messages are listed.
LEMMA ListedIsListed == StoredEmailListed <=> StoredIsListed
BY DEF StoredEmailListed, StoredIsListed, ListedIn, IsStored

\* A lone request that writes the threads collection leaves one document, which
\* lists its aggregate.
LEMMA OnlyDoc ==
    ASSUME SoloInv, NEW r \in Requests, SaveThread(r) \/ InsertThread(r),
           threadDocs' # threadDocs, NEW u \in Threads, u = ThreadOf[msg[r]]
    PROVE  /\ \A t \in Threads \ {u} : threadDocs'[t] = threadDocs[t]
           /\ Len(threadDocs'[u]) = 1
           /\ ListedIn(u)' = AggregateIds(r)
           /\ pc'[r] = "threadSaved"
           /\ UNCHANGED <<msg, emailDocs>>
<1> DEFINE doc == [sid |-> StorageId(r), messageIds |-> AggregateIds(r)]
<1> USE DEF SoloInv, StoredInv
<1>1. /\ pc[r] # "idle" /\ threadDocs[u] \in Seq(ThreadDoc) /\ Len(threadDocs[u]) <= 1
      /\ threadDocs \in [Threads -> Seq(ThreadDoc)]
      /\ pc \in [Requests -> Steps]
  BY DEF SaveThread, InsertThread, TypeInv, TypeOK, SingleDocs
<1>2. doc \in ThreadDoc
  BY <1>1, StorageIdIsId, AggregateIdsAreMessages DEF ThreadDoc
<1>3. /\ threadDocs' = [threadDocs EXCEPT ![u] = <<doc>>]
      /\ Goto(r, "threadSaved") /\ UNCHANGED <<msg, emailDocs>>
  <2>1. CASE SaveThread(r)
    <3>1. /\ threadDocs[u] # <<>>
          /\ threadDocs' = [threadDocs EXCEPT ![u] = [threadDocs[u] EXCEPT ![1] = doc]]
          /\ Goto(r, "threadSaved") /\ UNCHANGED <<msg, emailDocs>>
      BY <2>1 DEF SaveThread
    <3>2. [threadDocs[u] EXCEPT ![1] = doc] = <<doc>>
      <4> HIDE DEF doc
      <4> QED
        BY <1>1, <1>2, <3>1
    <3> QED
      BY <3>1, <3>2
  <2>2. CASE InsertThread(r)
    <3>1. threadDocs[u] = <<>>
      BY <2>2 DEF InsertThread, UpToDate
    <3>2. /\ threadDocs' = [threadDocs EXCEPT ![u] = Append(threadDocs[u], doc)]
          /\ Goto(r, "threadSaved") /\ UNCHANGED <<msg, emailDocs>>
      BY <2>2 DEF InsertThread
    <3> HIDE DEF doc
    <3> QED
      BY <3>1, <3>2
  <2> QED
    BY <2>1, <2>2
<1>4. threadDocs'[u] = <<doc>> /\ pc'[r] = "threadSaved"
  BY <1>1, <1>3 DEF Goto
<1>5. ListedIn(u)' = AggregateIds(r)
  <2>1. DOMAIN threadDocs'[u] = {1} /\ threadDocs'[u][1].messageIds = AggregateIds(r)
    BY <1>4
  <2>2. {threadDocs'[u][i].messageIds : i \in DOMAIN threadDocs'[u]} = {AggregateIds(r)}
    BY <2>1
  <2> QED
    BY <2>2 DEF ListedIn
<1> HIDE DEF doc
<1> QED
  BY <1>1, <1>3, <1>4, <1>5

\* A lone request loses none of the stored messages when it writes its thread.
LEMMA AggregateHasStored ==
    ASSUME SoloInv, NEW r \in Requests, SaveThread(r) \/ InsertThread(r),
           NEW m \in Messages, IsStored(m), ThreadOf[m] = ThreadOf[msg[r]]
    PROVE  pc[r] = "built" /\ m \in AggregateIds(r)
<1>1. m \in ListedIn(ThreadOf[msg[r]])
  BY DEF SoloInv, StoredIsListed
<1>2. ThreadOf[msg[r]] = ThreadOf[m] /\ threadDocs[ThreadOf[msg[r]]] # <<>>
  BY <1>1 DEF ListedIn
<1>3. pc[r] = "built"
  BY <1>2 DEF SaveThread, InsertThread, SoloInv, UpToDate
<1> QED
  BY <1>1, <1>3 DEF SoloInv, UpToDate, AggregateIds

\* A lone request that stores an email stores its first document, and its thread
\* lists the message.
LEMMA OnlyEmail ==
    ASSUME SoloInv, NEW r \in Requests, InsertEmail(r)
    PROVE  /\ msg[r] \in Messages
           /\ \A m \in Messages \ {msg[r]} : emailDocs'[m] = emailDocs[m]
           /\ Len(emailDocs'[msg[r]]) = 1
           /\ msg[r] \in ListedIn(ThreadOf[msg[r]])
           /\ \A e \in Announced : e.message # msg[r]
<1> USE DEF SoloInv, StoredInv
<1>1. /\ msg[r] \in Messages /\ fresh[r] \in Ids
      /\ emailDocs \in [Messages -> Seq(Ids)]
      /\ emailDocs[msg[r]] = <<>>
      /\ msg[r] \in ListedIn(ThreadOf[msg[r]])
  BY DEF InsertEmail, TypeInv, TypeOK, Busy, UpToDate, IsStored
<1>2. emailDocs' = [emailDocs EXCEPT ![msg[r]] = <<fresh[r]>>]
  BY <1>1 DEF InsertEmail
<1>3. \A e \in Announced : e.message # msg[r]
  BY <1>1 DEF AnnouncedIsStored, EidsOf
<1> QED
  BY <1>1, <1>2, <1>3

\* Writes of a lone request keep one document each, and every stored message
\* listed.
LEMMA SingleStep ==
    ASSUME SoloInv, [Next]_vars
    PROVE  SingleDocs' /\ StoredIsListed'
<1> USE IngestionAssumption DEF SoloInv
<1>1. CASE UNCHANGED <<threadDocs, emailDocs>>
  BY <1>1 DEF SingleDocs, StoredIsListed, ListedIn, IsStored
<1>2. ASSUME NEW r \in Requests, SaveThread(r) \/ InsertThread(r), threadDocs' # threadDocs
      PROVE  SingleDocs' /\ StoredIsListed'
  <2>1. PICK u \in Threads : u = ThreadOf[msg[r]]
    BY <1>2 DEF SaveThread, InsertThread, StoredInv, TypeInv, Busy
  <2>2. /\ \A t \in Threads \ {u} : threadDocs'[t] = threadDocs[t]
        /\ Len(threadDocs'[u]) = 1
        /\ ListedIn(u)' = AggregateIds(r)
        /\ emailDocs' = emailDocs
    BY <1>2, <2>1, OnlyDoc
  <2>3. SingleDocs'
    <3>1. \A t \in Threads : Len(threadDocs'[t]) <= 1
      <4>1. 1 <= 1
        OBVIOUS
      <4>2. \A t \in Threads : Len(threadDocs[t]) <= 1
        BY DEF SingleDocs
      <4> QED
        BY <2>2, <4>1, <4>2
    <3> QED
      BY <2>2, <3>1 DEF SingleDocs
  <2>4. ASSUME NEW m \in Messages, IsStored(m)'
        PROVE  m \in ListedIn(ThreadOf[m])'
    <3>1. IsStored(m) /\ ThreadOf[m] \in Threads
      BY <2>2, <2>4 DEF IsStored
    <3>2. CASE ThreadOf[m] = u
      BY <1>2, <2>1, <2>2, <3>1, <3>2, AggregateHasStored
    <3>3. CASE ThreadOf[m] # u
      BY <2>2, <3>1, <3>3 DEF StoredIsListed, ListedIn
    <3> QED
      BY <3>2, <3>3
  <2> QED
    BY <2>3, <2>4 DEF StoredIsListed
<1>3. ASSUME NEW r \in Requests, InsertEmail(r)
      PROVE  SingleDocs' /\ StoredIsListed'
  <2>1. threadDocs' = threadDocs
    BY <1>3 DEF InsertEmail
  <2>2. \A m \in Messages : Len(emailDocs'[m]) <= 1
    <3>1. \A m \in Messages : Len(emailDocs[m]) <= 1
      BY DEF SingleDocs
    <3>2. Len(emailDocs'[msg[r]]) <= 1
      <4>1. Len(emailDocs'[msg[r]]) = 1
        BY <1>3, OnlyEmail
      <4> QED
        BY <4>1
    <3> QED
      BY <1>3, <3>1, <3>2, OnlyEmail
  <2>3. \A t \in Threads : Len(threadDocs'[t]) <= 1
    BY <2>1 DEF SingleDocs
  <2>4. ASSUME NEW m \in Messages, IsStored(m)'
        PROVE  m \in ListedIn(ThreadOf[m])
    <3>1. CASE m = msg[r]
      BY <1>3, <3>1, OnlyEmail
    <3>2. CASE m # msg[r]
      <4>1. IsStored(m)
        BY <1>3, <2>4, <3>2, OnlyEmail DEF IsStored
      <4> QED
        BY <4>1 DEF StoredIsListed
    <3> QED
      BY <3>1, <3>2
  <2> QED
    BY <2>1, <2>2, <2>3, <2>4 DEF SingleDocs, StoredIsListed, ListedIn
<1>4. CASE UNCHANGED threadDocs
  BY <1>1, <1>3, <1>4
  DEF Next, RequestStep, Arrive, Fetch, ReadThreads, ReadEmails, SaveThread, InsertThread,
      SaveEmails, Publish, Recorded, TriggerWorkflow, TriggerFails, RequestFails, Crash, vars
<1> QED
  BY <1>1, <1>2, <1>4
  DEF Next, RequestStep, Arrive, Fetch, ReadThreads, ReadEmails, SaveEmails, InsertEmail,
      Publish, Recorded, TriggerWorkflow, TriggerFails, RequestFails, Crash, vars

\* Nothing writes behind the back of a lone request.
LEMMA UpToDateStep ==
    ASSUME SoloInv, [Next]_vars, Alone', NEW r \in Requests
    PROVE  UpToDate(r)'
<1> USE IngestionAssumption DEF SoloInv
<1> DEFINE t == ThreadOf[msg[r]]
<1>1. CASE pc'[r] \in {"idle", "fetched"}
  BY <1>1 DEF UpToDate
<1>2. CASE ReadThreads(r)
  <2>1. /\ pc[r] # "idle" /\ msg' = msg /\ threadDocs' = threadDocs
        /\ pc'[r] \in {"threadsRead", "built"}
    BY <1>2 DEF ReadThreads, Goto, StoredInv, TypeInv, TypeOK
  <2>2. pc'[r] = "threadsRead" => listed'[r] = ListedIn(t)
    BY <1>2 DEF ReadThreads, Goto, StoredInv, TypeInv, TypeOK, ListedIn
  <2>3. pc'[r] = "built" => ListedIn(t) = {}
    BY <1>2 DEF ReadThreads, Goto, StoredInv, TypeInv, TypeOK, ListedIn
  <2>4. ListedIn(t)' = ListedIn(t)
    BY <2>1 DEF ListedIn
  <2> QED
    BY <2>1, <2>2, <2>3, <2>4 DEF UpToDate
<1>3. CASE ReadEmails(r)
  <2>1. /\ msg[r] \in Messages /\ t \in Threads
        /\ msg' = msg /\ threadDocs' = threadDocs /\ emailDocs' = emailDocs
        /\ pc[r] = "threadsRead" /\ pc'[r] = "built"
    BY <1>3 DEF ReadEmails, Goto, StoredInv, TypeInv, TypeOK, Busy
  <2>2. known'[r] = {p \in EmailEntity : p[1] \in listed[r] /\ p[2] \in EidsOf(p[1])}
    BY <1>3 DEF ReadEmails, StoredInv, TypeInv, TypeOK
  <2>3. ASSUME NEW m \in ListedIn(t), IsStored(m)
        PROVE  m \in KnownMessages(r)'
    <3>1. m \in Messages /\ m \in listed[r]
      BY <2>1 DEF UpToDate, StoredInv, TypeInv, TypeOK
    <3>2. PICK i : i \in EidsOf(m) /\ i \in Ids
      <4>1. emailDocs[m] \in Seq(Ids) /\ 1 \in DOMAIN emailDocs[m]
        BY <2>3, <3>1, EmptySeq DEF IsStored, StoredInv, TypeInv, TypeOK
      <4> QED
        BY <4>1, ElementOfSeq DEF EidsOf
    <3>3. <<m, i>> \in known'[r]
      BY <2>2, <3>1, <3>2 DEF EmailEntity
    <3>4. <<m, i>>[1] = m
      OBVIOUS
    <3> QED
      BY <3>3, <3>4 DEF KnownMessages
  <2> QED
    BY <2>1, <2>3 DEF UpToDate, ListedIn, IsStored
<1>4. CASE SaveThread(r) \/ InsertThread(r)
  <2>1. t \in Threads /\ pc[r] # "idle" /\ msg[r] \in Messages
    BY <1>4 DEF SaveThread, InsertThread, StoredInv, TypeInv, Busy
  <2>2. CASE threadDocs' # threadDocs
    <3>1. pc'[r] = "threadSaved" /\ msg' = msg /\ ListedIn(t)' = AggregateIds(r)
      <4>1. PICK u \in Threads : u = ThreadOf[msg[r]]
        BY <2>1
      <4>2. ListedIn(u)' = AggregateIds(r) /\ msg' = msg /\ pc'[r] = "threadSaved"
        BY <1>4, <2>2, <4>1, OnlyDoc
      <4>3. ListedIn(t)' = ListedIn(u)'
        BY <4>1, <4>2 DEF ListedIn
      <4> QED
        BY <4>2, <4>3
    <3>2. msg[r] \in ListedIn(t)'
      BY <3>1 DEF AggregateIds
    <3> QED
      BY <3>1, <3>2 DEF UpToDate
  <2>3. CASE threadDocs' = threadDocs /\ SaveThread(r)
    <3>1. CASE threadDocs[t] = <<>>
      <4>1. pc'[r] = "insertThread" /\ msg' = msg
        BY <2>3, <3>1 DEF SaveThread, Goto, StoredInv, TypeInv, TypeOK
      <4> QED
        BY <2>3, <3>1, <4>1 DEF UpToDate
    <3>2. CASE End(r)
      BY <1>1, <3>2 DEF End, Goto, StoredInv, TypeInv, TypeOK
    <3>3. CASE Goto(r, "threadSaved") /\ UNCHANGED msg /\ threadDocs[t] # <<>>
      <4>1. /\ threadDocs' = [threadDocs EXCEPT ![t] = [threadDocs[t] EXCEPT ![1] =
                    [sid |-> StorageId(r), messageIds |-> AggregateIds(r)]]]
            /\ pc'[r] = "threadSaved"
        BY <2>3, <3>3 DEF SaveThread, End, Goto, StoredInv, TypeInv, TypeOK
      <4>2. threadDocs[t] \in Seq(ThreadDoc) /\ 1 \in DOMAIN threadDocs[t]
        BY <2>1, <3>3, EmptySeq DEF StoredInv, TypeInv, TypeOK
      <4>3. threadDocs'[t][1].messageIds = AggregateIds(r)
        BY <2>1, <4>1, <4>2 DEF StoredInv, TypeInv, TypeOK
      <4>4. msg[r] \in ListedIn(t)'
        BY <2>3, <3>3, <4>2, <4>3 DEF ListedIn, AggregateIds
      <4> QED
        BY <3>3, <4>1, <4>4 DEF UpToDate
    <3> QED
      BY <2>3, <3>1, <3>2, <3>3 DEF SaveThread
  <2>4. CASE threadDocs' = threadDocs /\ InsertThread(r)
    <3>1. threadDocs' = [threadDocs EXCEPT ![t] = Append(threadDocs[t],
                [sid |-> StorageId(r), messageIds |-> AggregateIds(r)])]
      BY <2>4 DEF InsertThread
    <3>2. threadDocs'[t] = Append(threadDocs[t],
                [sid |-> StorageId(r), messageIds |-> AggregateIds(r)])
      BY <2>1, <3>1 DEF StoredInv, TypeInv, TypeOK
    <3>3. threadDocs[t] = <<>>
      BY <2>4 DEF InsertThread, UpToDate
    <3> QED
      BY <2>4, <3>2, <3>3
  <2> QED
    BY <1>4, <2>2, <2>3, <2>4
<1>5. CASE SaveEmails(r)
  <2>1. pc[r] = "threadSaved" /\ threadDocs' = threadDocs /\ emailDocs' = emailDocs
    BY <1>5 DEF SaveEmails
  <2>2. CASE End(r)
    BY <1>1, <2>2 DEF End, Goto, StoredInv, TypeInv, TypeOK
  <2>3. CASE Goto(r, "saved") /\ ~IsNew(r) /\ UNCHANGED <<msg, known>>
    BY <2>3 DEF UpToDate, IsNew, KnownMessages, Goto, StoredInv, TypeInv, TypeOK
  <2>4. CASE Goto(r, "insertEmail") /\ emailDocs[msg[r]] = <<>> /\ UNCHANGED msg
    BY <2>1, <2>4 DEF UpToDate, ListedIn, IsStored, Goto, StoredInv, TypeInv, TypeOK
  <2> QED
    BY <1>5, <2>2, <2>3, <2>4 DEF SaveEmails
<1>6. CASE InsertEmail(r)
  <2>1. pc'[r] = "saved" /\ msg' = msg /\ Announced' = Announced
    BY <1>6 DEF InsertEmail, Goto, StoredInv, TypeInv, TypeOK, Announced
  <2> QED
    BY <1>6, <2>1, OnlyEmail DEF UpToDate
<1>7. CASE Publish(r) \/ RequestFails(r)
  BY <1>1, <1>7 DEF Publish, Recorded, RequestFails, End, Goto, StoredInv, TypeInv, TypeOK
<1>8. CASE Fetch(r)
  BY <1>1, <1>8 DEF Fetch, Goto, StoredInv, TypeInv, TypeOK
<1>9. ASSUME NEW q \in Requests, q # r, Fetch(q) \/ RequestStep(q) \/ RequestFails(q)
      PROVE  UpToDate(r)'
  <2>1. pc'[r] = pc[r]
    BY <1>9, OneMoves DEF StandsStill, StoredInv
  <2>2. pc[q] # "idle" \/ pc'[q] # "idle"
    BY <1>9
    DEF Fetch, RequestStep, ReadThreads, ReadEmails, SaveThread, InsertThread, SaveEmails,
        InsertEmail, Publish, Recorded, RequestFails, Goto, StoredInv, TypeInv, TypeOK
  <2>3. pc[r] = "idle"
    BY <1>9, <2>1, <2>2 DEF Alone
  <2> QED
    BY <1>1, <2>1, <2>3
<1>10. CASE Crash
  BY <1>1, <1>10 DEF Crash
<1>11. CASE UNCHANGED <<threadDocs, emailDocs, requestVars>> /\ Announced' \subseteq Announced
  <2>1. /\ pc' = pc /\ listed' = listed /\ msg' = msg
        /\ KnownMessages(r)' = KnownMessages(r)
    BY <1>11 DEF requestVars, KnownMessages
  <2>2. ListedIn(t)' = ListedIn(t) /\ \A m : IsStored(m)' = IsStored(m)
    BY <1>11, <2>1 DEF ListedIn, IsStored
  <2>3. UpToDate(r)
    OBVIOUS
  <2> QED
    BY <1>11, <2>1, <2>2, <2>3 DEF UpToDate, IsNew
<1>12. ASSUME NEW e \in handlers, TriggerWorkflow(e) \/ TriggerFails(e)
       PROVE  UNCHANGED <<threadDocs, emailDocs, requestVars>> /\ Announced' \subseteq Announced
  BY <1>12 DEF TriggerWorkflow, TriggerFails, Announced
<1> QED
  BY <1>2, <1>3, <1>4, <1>5, <1>6, <1>7, <1>8, <1>9, <1>10, <1>11, <1>12
  DEF Next, RequestStep, Arrive, vars, Announced

\* An event is handed to Temporal once.
LEMMA OnceStep ==
    ASSUME SoloInv, [Next]_vars
    PROVE  (handlers \cap signalled = {})'
<1>1. ASSUME NEW r \in Requests, Publish(r)
      PROVE  handlers' \cap signalled' = {}
  BY <1>1 DEF Publish, Recorded, SoloInv, UpToDate, Announced, EventOf
<1>2. ASSUME NEW e \in handlers, TriggerWorkflow(e) \/ TriggerFails(e)
      PROVE  handlers' \cap signalled' = {}
  BY <1>2 DEF TriggerWorkflow, TriggerFails, SoloInv
<1> QED
  BY <1>1, <1>2
  DEF Next, RequestStep, Arrive, Fetch, ReadThreads, ReadEmails, SaveThread, InsertThread,
      SaveEmails, InsertEmail, RequestFails, Crash, vars, SoloInv

\* All of it together: as long as requests do not overlap, it stays so.
LEMMA SoloStep == SoloInv /\ [Next]_vars /\ Alone' => SoloInv'
BY StoredStep, SingleStep, UpToDateStep, OnceStep DEF SoloInv

\* The empty worker has stored nothing.
LEMMA SoloInit == Init => SoloInv
BY StoredInit
DEF Init, SoloInv, Alone, SingleDocs, StoredIsListed, IsStored, UpToDate

\* With one document each, what is announced is told apart by its message, and
\* there is one storage id for a thread.
LEMMA SoloIsOneStory ==
    SoloInv => AnnouncedOnce /\ OneWorkflowPerThread /\ StoredEmailListed
<1> SUFFICES ASSUME SoloInv
             PROVE  AnnouncedOnce /\ OneWorkflowPerThread
  BY ListedIsListed DEF SoloInv
<1> USE IngestionAssumption DEF SoloInv, StoredInv
<1>1. Announced \subseteq Event
  BY DEF Announced, TypeInv, TypeOK
<1>2. ASSUME NEW t \in Threads, NEW i \in SidsOf(t), NEW j \in SidsOf(t)
      PROVE  i = j
  BY <1>2 DEF SidsOf, SingleDocs, TypeInv, TypeOK
<1>3. ASSUME NEW m \in Messages, NEW i \in EidsOf(m), NEW j \in EidsOf(m)
      PROVE  i = j
  BY <1>3 DEF EidsOf, SingleDocs, TypeInv, TypeOK
<1>4. OneWorkflowPerThread
  BY <1>1, <1>2 DEF OneWorkflowPerThread, AnnouncedIsStored, Event
<1>5. AnnouncedOnce
  <2> SUFFICES ASSUME NEW e \in Announced, NEW f \in Announced, e.message = f.message
               PROVE  e = f
    BY DEF AnnouncedOnce
  <2>1. e \in Event /\ f \in Event
    BY <1>1
  <2>2. e.sid = f.sid
    BY <1>4 DEF OneWorkflowPerThread
  <2>3. e.message \in Messages /\ e.eid \in EidsOf(e.message) /\ f.eid \in EidsOf(e.message)
    BY <2>1 DEF AnnouncedIsStored, Event
  <2>4. e.eid = f.eid
    BY <1>3, <2>3
  <2> QED
    BY <2>1, <2>2, <2>4 DEF Event
<1> QED
  BY <1>4, <1>5

\* A lone request that replaces a document leaves what it listed and is stored.
LEMMA ListedStaysListed ==
    ASSUME SoloInv, [Next]_vars, NEW t \in Threads, NEW i \in DOMAIN threadDocs[t],
           NEW m \in threadDocs[t][i].messageIds, IsStored(m)
    PROVE  /\ i \in DOMAIN threadDocs'[t]
           /\ threadDocs'[t][i].sid = threadDocs[t][i].sid
           /\ m \in threadDocs'[t][i].messageIds
<1> USE IngestionAssumption DEF SoloInv, StoredInv
<1>1. i \in DOMAIN threadDocs'[t] /\ threadDocs'[t][i].sid = threadDocs[t][i].sid
  BY DocsStep DEF DocsKeepSids
<1>2. CASE threadDocs'[t] = threadDocs[t]
  BY <1>1, <1>2
<1>3. ASSUME NEW r \in Requests, SaveThread(r) \/ InsertThread(r),
             threadDocs'[t] # threadDocs[t]
      PROVE  m \in threadDocs'[t][i].messageIds
  <2>1. PICK u \in Threads : u = ThreadOf[msg[r]]
    BY <1>3 DEF SaveThread, InsertThread, TypeInv, Busy
  <2>2. t = u /\ Len(threadDocs'[t]) = 1 /\ ListedIn(t)' = AggregateIds(r)
    BY <1>3, <2>1, OnlyDoc
  <2>3. m \in ListedIn(t)
    BY DEF ListedIn
  <2>4. pc[r] = "built"
    BY <1>3, <2>1, <2>2 DEF SaveThread, InsertThread, UpToDate
  <2>5. m \in AggregateIds(r)
    BY <2>1, <2>2, <2>3, <2>4 DEF UpToDate, AggregateIds
  <2>6. threadDocs'[t] \in Seq(ThreadDoc)
    BY TypeStep DEF TypeInv, TypeOK
  <2>7. i = 1 /\ \A j \in DOMAIN threadDocs'[t] : j = 1
    BY <1>1, <2>2, <2>6
  <2> QED
    BY <2>2, <2>5, <2>7 DEF ListedIn
<1>4. CASE UNCHANGED threadDocs
  BY <1>2, <1>4
<1> QED
  BY <1>1, <1>2, <1>3, <1>4
  DEF Next, RequestStep, Arrive, Fetch, ReadThreads, ReadEmails, SaveEmails, InsertEmail,
      Publish, Recorded, TriggerWorkflow, TriggerFails, RequestFails, Crash, vars

-----------------------------------------------------------------------------
(* Poller and email worker: the composition and its parts.                 *)

\* The email worker of the composition does nothing that EmailIngestion does not.
LEMMA PolledSteps == [PolledNext]_polledVars => [Next]_vars
<1> SUFFICES ASSUME [PolledNext]_polledVars
             PROVE  Next \/ UNCHANGED vars
  OBVIOUS
<1>1. ASSUME NEW r \in Requests, Poll(r) \/ Answer(r)
      PROVE  Next \/ UNCHANGED vars
  BY <1>1 DEF Poll, Answer, Next
<1>2. CASE PollerStep
  BY <1>2 DEF PollerStep
<1>3. CASE MailStep
  BY <1>3 DEF MailStep, Next
<1>4. CASE WorkerStep
  BY <1>4 DEF WorkerStep, Next
<1>5. ASSUME NEW e \in handlers, Trigger(e)
      PROVE  Next
  BY <1>5 DEF Trigger, Next
<1>6. CASE UNCHANGED polledVars
  BY <1>6 DEF polledVars
<1> QED
  BY <1>1, <1>2, <1>3, <1>4, <1>5, <1>6 DEF PolledNext

\* Every behaviour of the composition is one of the email worker, so that what is
\* proved of EmailIngestion holds here.
THEOREM PolledIsIngestion == PolledSpec => Spec
<1>1. PolledInit => Init
  BY DEF PolledInit
<1> QED
  BY <1>1, PolledSteps, PTL DEF PolledSpec, Spec

\* In the composition too, announced events are stored, and a message is left
\* unannounced only by a fault that hits its own event.
THEOREM PolledEventsAreSound ==
    PolledSpec => [](TypeOK /\ AnnouncedIsStored) /\ LossesAreOwned
BY PolledIsIngestion, TypeCorrect, AnnouncedAreStored, LossesNeedFaults, PTL

\* The poller of the composition does nothing that UnreadEmailsWorkflow does not.
LEMMA PollerSteps ==
    [PolledNext]_polledVars => [PollerFacts!Next]_(PollerFacts!vars)
<1> SUFFICES ASSUME [PolledNext]_polledVars
             PROVE  PollerFacts!Next \/ UNCHANGED PollerFacts!vars
  OBVIOUS
<1>1. ASSUME NEW r \in Requests, Poll(r) \/ Answer(r)
      PROVE  PollerFacts!Next
  BY <1>1
  DEF Poll, Answer, PollerFacts!Next, Poller!SendRequest, PollerFacts!SendRequest,
      Poller!Answered, PollerFacts!Answered
<1>2. CASE PollerStep
  BY <1>2
  DEF PollerStep, PollerFacts!Next, Poller!Boot, PollerFacts!Boot,
      Poller!StartPolling, PollerFacts!StartPolling,
      Poller!PollAgain, PollerFacts!PollAgain, Poller!PollTimesOut,
      PollerFacts!PollTimesOut, Poller!EndPolling, PollerFacts!EndPolling
<1>3. CASE UNCHANGED pollerVars
  BY <1>3 DEF pollerVars, PollerFacts!vars
<1>4. CASE \/ MailStep \/ WorkerStep \/ UNCHANGED polledVars
           \/ \E e \in handlers : Trigger(e)
  BY <1>3, <1>4 DEF MailStep, WorkerStep, Trigger, polledVars
<1> QED
  BY <1>1, <1>2, <1>4 DEF PolledNext

\* The poller, answered by the worker when it is done, behaves as UnreadEmailsWorkflow
\* says: the worker answers no request that the poller does not have in flight.
THEOREM PolledIsPolling == PolledSpec => PollerFacts!Spec
<1>1. PolledInit => PollerFacts!Init
  BY DEF PolledInit, Poller!Init, PollerFacts!Init
<1> QED
  BY <1>1, PollerSteps, PTL DEF PolledSpec, PollerFacts!Spec

\* Requests overlap only by timeouts and ended executions: what is proved of the
\* poller holds of the poller in the composition.
LEMMA OverlapSteps ==
    PollerFacts!OverlapInv /\ [PolledNext]_polledVars => PollerFacts!OverlapInv'
BY PolledAssumption, PollerSteps, PollerFacts!OverlapStep

\* Sets and their sizes are the same in both.
LEMMA SameSets ==
    ASSUME NEW S
    PROVE  /\ PollerFacts!IsFiniteSet(S) <=> IsFiniteSet(S)
           /\ PollerFacts!Cardinality(S) = Cardinality(S)
BY DEF PollerFacts!IsFiniteSet, IsFiniteSet, PollerFacts!Cardinality, Cardinality

\* The poller starts with no request.
LEMMA OverlapInit == PolledInit => PollerFacts!OverlapInv
BY PolledAssumption, PollerFacts!FS_EmptySet
DEF PolledInit, Poller!Init, PollerFacts!OverlapInv, PollerFacts!PollInv,
    PollerFacts!TypeOK, PollerFacts!AwaitedInFlight

\* A part of a set that is few is few.
LEMMA FewAmong ==
    ASSUME NEW R, NEW S \in SUBSET R, NEW a \in Nat, NEW b \in Nat, NEW c \in {0, 1},
           IsFiniteSet(R), Cardinality(R) <= a + b + c
    PROVE  /\ IsFiniteSet(S)
           /\ Cardinality(S) \in Nat
           /\ Cardinality(S) <= 1 + a + b
<1>1. IsFiniteSet(S) /\ Cardinality(S) <= Cardinality(R)
  BY FS_Subset
<1>2. Cardinality(S) \in Nat /\ Cardinality(R) \in Nat
  BY <1>1, FS_CardinalityType
<1> QED
  BY <1>1, <1>2

\* Documents and the requests about to insert one stay bounded together, when a
\* document comes from one of those requests or nobody was to insert one before.
LEMMA StillBounded ==
    ASSUME NEW l \in Nat, NEW ll \in Nat, NEW n \in Nat, NEW nn \in Nat, n <= nn,
           NEW S, NEW SS, IsFiniteSet(S), IsFiniteSet(SS), Cardinality(SS) <= nn,
           l + Cardinality(S) <= n,
           \/ ll = l /\ SS \subseteq S
           \/ ll = 0
           \/ \E r \in S : ll = l + 1 /\ SS = S \ {r}
    PROVE  ll + Cardinality(SS) <= nn
<1>1. Cardinality(S) \in Nat /\ Cardinality(SS) \in Nat
  BY FS_CardinalityType
<1>2. CASE ll = l /\ SS \subseteq S
  <2>1. Cardinality(SS) <= Cardinality(S)
    BY <1>2, FS_Subset
  <2> QED
    BY <1>1, <1>2, <2>1
<1>3. CASE ll = 0
  BY <1>1, <1>3
<1>4. ASSUME NEW r \in S, ll = l + 1, SS = S \ {r}
      PROVE  ll + Cardinality(SS) <= nn
  <2>1. Cardinality(SS) = Cardinality(S) - 1
    BY <1>4, FS_RemoveElement
  <2> QED
    BY <1>1, <1>4, <2>1
<1> QED
  BY <1>2, <1>3, <1>4

\* One more than either side of a comparison.
LEMMA OneMore ==
    ASSUME NEW a \in Nat, NEW b \in Nat, NEW aa \in Nat, NEW bb \in Nat, a + b <= aa + bb
    PROVE  1 + a + b \in Nat /\ 1 + aa + bb \in Nat /\ 1 + a + b <= 1 + aa + bb
OBVIOUS

-----------------------------------------------------------------------------
(* Second documents.                                                       *)

\* Requests that have missed the document of a thread and will insert one.
Inserting(t) == {r \in Requests : pc[r] = "insertThread" /\ ThreadOf[msg[r]] = t}

\* A request that is at work is one that the poller has not been answered.
Asked == \A r \in Requests : pc[r] # "idle" => r \in requests

\* Once a thread has a document nobody misses it any more, so the documents it has
\* and will get are those of requests that overlapped before.
DocsInv ==
    /\ TypeInv
    /\ PollerFacts!OverlapInv
    /\ Asked
    /\ \A t \in Threads : Len(threadDocs[t]) + Cardinality(Inserting(t)) <= 1 + timeouts + ends

\* Requests at work are few: they were asked for, and each but one was given up.
LEMMA FewAsked ==
    PollerFacts!OverlapInv /\ Asked =>
        /\ timeouts \in Nat /\ ends \in Nat
        /\ \A S \in SUBSET {r \in Requests : pc[r] # "idle"} :
              /\ IsFiniteSet(S)
              /\ Cardinality(S) \in Nat
              /\ Cardinality(S) <= 1 + timeouts + ends
<1> SUFFICES ASSUME PollerFacts!OverlapInv, Asked
             PROVE  /\ timeouts \in Nat /\ ends \in Nat
                    /\ \A S \in SUBSET {r \in Requests : pc[r] # "idle"} :
                          /\ IsFiniteSet(S)
                          /\ Cardinality(S) \in Nat
                          /\ Cardinality(S) <= 1 + timeouts + ends
  OBVIOUS
<1> DEFINE one == IF polling = None THEN 0 ELSE 1
<1>1. timeouts \in Nat /\ ends \in Nat /\ one \in {0, 1}
  BY PolledAssumption DEF PollerFacts!OverlapInv, PollerFacts!PollInv, PollerFacts!TypeOK
<1>2. IsFiniteSet(requests) /\ Cardinality(requests) <= timeouts + ends + one
  BY SameSets DEF PollerFacts!OverlapInv
<1>3. {r \in Requests : pc[r] # "idle"} \subseteq requests
  BY DEF Asked
<1> HIDE DEF one
<1>4. ASSUME NEW S \in SUBSET {r \in Requests : pc[r] # "idle"}
      PROVE  /\ IsFiniteSet(S)
             /\ Cardinality(S) \in Nat
             /\ Cardinality(S) <= 1 + timeouts + ends
  <2>1. S \in SUBSET requests
    BY <1>3
  <2> QED
    BY <1>1, <1>2, <2>1, FewAmong
<1> QED
  BY <1>1, <1>4

\* So they are after a step.
LEMMA FewAskedNext ==
    (PollerFacts!OverlapInv /\ Asked =>
        /\ timeouts \in Nat /\ ends \in Nat
        /\ \A S \in SUBSET {r \in Requests : pc[r] # "idle"} :
              /\ IsFiniteSet(S)
              /\ Cardinality(S) \in Nat
              /\ Cardinality(S) <= 1 + timeouts + ends)'
BY FewAsked, PTL

\* The poller asks before the email worker starts, and the email worker ends before
\* the poller is answered.
LEMMA AskedStep == DocsInv /\ [PolledNext]_polledVars => Asked'
<1> SUFFICES ASSUME DocsInv, [PolledNext]_polledVars
             PROVE  Asked'
  OBVIOUS
<1> USE DEF DocsInv, Asked
<1>1. ASSUME NEW r \in Requests, Poll(r)
      PROVE  Asked'
  <2>1. requests' = requests \cup {r}
    BY <1>1 DEF Poll, Poller!SendRequest
  <2>2. \A q \in Requests \ {r} : pc'[q] = pc[q]
    BY <1>1 DEF Poll, Fetch, Goto, vars, requestVars, TypeInv, TypeOK
  <2> QED
    BY <2>1, <2>2
<1>2. ASSUME NEW r \in Requests, Answer(r)
      PROVE  Asked'
  BY <1>2 DEF Answer, Poller!Answered, vars, requestVars
<1>3. CASE PollerStep
  BY <1>3 DEF PollerStep, vars, requestVars, Poller!Boot, Poller!StartPolling, Poller!PollAgain,
              Poller!PollTimesOut, Poller!EndPolling
<1>4. CASE MailStep
  BY <1>4 DEF MailStep, Arrive, requestVars, pollerVars
<1>5. CASE WorkerStep
  <2>1. UNCHANGED requests
    BY <1>5 DEF WorkerStep, pollerVars
  <2>2. \A q \in Requests : pc'[q] # "idle" => pc[q] # "idle"
    <3>1. ASSUME NEW r \in Requests, RequestStep(r) \/ RequestFails(r)
          PROVE  pc[r] # "idle" /\ \A q \in Requests \ {r} : pc'[q] = pc[q]
      BY <3>1 DEF RequestStep, RequestFails, ReadThreads, ReadEmails, SaveThread,
                  InsertThread, SaveEmails, InsertEmail, Publish, Recorded, End, Goto, TypeInv, TypeOK
    <3>2. CASE (\E e \in handlers : TriggerFails(e))
      BY <3>2 DEF TriggerFails, requestVars
    <3>3. CASE Crash
      BY <3>3 DEF Crash
    <3> QED
      BY <1>5, <3>1, <3>2, <3>3 DEF WorkerStep
  <2> QED
    BY <2>1, <2>2
<1>6. ASSUME NEW e \in handlers, Trigger(e)
      PROVE  Asked'
  BY <1>6 DEF Trigger, TriggerWorkflow, requestVars, pollerVars
<1>7. CASE UNCHANGED polledVars
  BY <1>7 DEF polledVars, pollerVars, vars, requestVars
<1> QED
  BY <1>1, <1>2, <1>3, <1>4, <1>5, <1>6, <1>7 DEF PolledNext

\* Timeouts and ended executions are never forgotten.
LEMMA TimeoutsGrow ==
    ASSUME DocsInv, [PolledNext]_polledVars
    PROVE  timeouts + ends <= timeouts' + ends'
<1>1. timeouts \in Nat /\ ends \in Nat
  BY PolledAssumption
  DEF DocsInv, PollerFacts!OverlapInv, PollerFacts!PollInv, PollerFacts!TypeOK
<1> QED
  BY <1>1
  DEF PolledNext, Poll, Answer, PollerStep, MailStep, WorkerStep, Trigger, polledVars,
      pollerVars, Poller!SendRequest, Poller!Answered, Poller!Boot, Poller!StartPolling,
      Poller!PollAgain, Poller!PollTimesOut, Poller!EndPolling

\* Only a request that misses the document of its thread goes to insert one, and
\* only an insert adds one.
LEMMA InsertsAreCounted ==
    ASSUME DocsInv, [Next]_vars, NEW t \in Threads
    PROVE  \/ Len(threadDocs'[t]) = Len(threadDocs[t]) /\ Inserting(t)' \subseteq Inserting(t)
           \/ Len(threadDocs'[t]) = 0
           \/ \E r \in Inserting(t) : /\ Len(threadDocs'[t]) = Len(threadDocs[t]) + 1
                                      /\ Inserting(t)' = Inserting(t) \ {r}
<1> USE IngestionAssumption
<1>1. ASSUME NEW r \in Requests, \A q \in Requests \ {r} : StandsStill(q),
             pc'[r] # "insertThread"
      PROVE  Inserting(t)' = Inserting(t) \ {r}
  BY <1>1 DEF Inserting, StandsStill
<1>2. ASSUME NEW r \in Requests, SaveThread(r)
      PROVE  \/ Len(threadDocs'[t]) = Len(threadDocs[t]) /\ Inserting(t)' \subseteq Inserting(t)
             \/ Len(threadDocs'[t]) = 0
  <2> DEFINE u == ThreadOf[msg[r]]
             docs == threadDocs[u]
             doc == [sid |-> StorageId(r), messageIds |-> AggregateIds(r)]
  <2>1. /\ pc[r] # "idle" /\ u \in Threads /\ docs \in Seq(ThreadDoc)
        /\ \A q \in Requests \ {r} : StandsStill(q)
    BY <1>2 DEF SaveThread, End, Goto, DocsInv, TypeInv, TypeOK, Busy, StandsStill
  <2>2. CASE docs = <<>> /\ Goto(r, "insertThread") /\ UNCHANGED <<threadDocs, msg>>
    <3>1. CASE t = u
      BY <2>2, <3>1
    <3>2. CASE t # u
      <4>1. Inserting(t)' \subseteq Inserting(t)
        BY <2>1, <2>2, <3>2 DEF Inserting, StandsStill
      <4> QED
        BY <2>2, <4>1
    <3> QED
      BY <3>1, <3>2
  <2>3. CASE /\ threadDocs' = [threadDocs EXCEPT ![u] = [docs EXCEPT ![1] = doc]]
             /\ Goto(r, "threadSaved")
    <3>1. pc'[r] # "insertThread"
      BY <2>3 DEF Goto, DocsInv, TypeInv, TypeOK
    <3>2. threadDocs'[t] = IF t = u THEN [docs EXCEPT ![1] = doc] ELSE threadDocs[t]
      BY <2>1, <2>3 DEF DocsInv, TypeInv, TypeOK
    <3>3. Len([docs EXCEPT ![1] = doc]) = Len(docs)
      <4> HIDE DEF docs, doc
      <4> QED
        BY <2>1
    <3>4. Len(threadDocs'[t]) = Len(threadDocs[t])
      BY <3>2, <3>3
    <3> QED
      BY <1>1, <2>1, <3>1, <3>4
  <2>4. CASE End(r) /\ UNCHANGED threadDocs
    <3>1. pc'[r] # "insertThread"
      BY <2>4 DEF End, Goto, DocsInv, TypeInv, TypeOK
    <3> QED
      BY <1>1, <2>1, <2>4, <3>1
  <2> QED
    BY <1>2, <2>2, <2>3, <2>4 DEF SaveThread
<1>3. ASSUME NEW r \in Requests, InsertThread(r)
      PROVE  \/ Len(threadDocs'[t]) = Len(threadDocs[t]) /\ Inserting(t)' \subseteq Inserting(t)
             \/ \E q \in Inserting(t) : /\ Len(threadDocs'[t]) = Len(threadDocs[t]) + 1
                                        /\ Inserting(t)' = Inserting(t) \ {q}
  <2> DEFINE u == ThreadOf[msg[r]]
             docs == threadDocs[u]
             doc == [sid |-> StorageId(r), messageIds |-> AggregateIds(r)]
  <2>1. /\ pc[r] = "insertThread" /\ pc[r] # "idle"
        /\ u \in Threads /\ docs \in Seq(ThreadDoc) /\ pc'[r] # "insertThread"
        /\ \A q \in Requests \ {r} : StandsStill(q)
    BY <1>3 DEF InsertThread, Goto, DocsInv, TypeInv, TypeOK, Busy, StandsStill
  <2>2. doc \in ThreadDoc
    BY <2>1, StorageIdIsId, AggregateIdsAreMessages DEF ThreadDoc, DocsInv
  <2>3. Inserting(t)' = Inserting(t) \ {r}
    BY <1>1, <2>1
  <2>4. threadDocs'[t] = IF t = u THEN Append(docs, doc) ELSE threadDocs[t]
    BY <1>3, <2>1 DEF InsertThread, DocsInv, TypeInv, TypeOK
  <2>5. Len(Append(docs, doc)) = Len(docs) + 1
    <3> HIDE DEF docs, doc
    <3> QED
      BY <2>1, <2>2
  <2>6. t = u => r \in Inserting(t)
    BY <2>1 DEF Inserting
  <2> HIDE DEF doc
  <2> QED
    BY <2>3, <2>4, <2>5, <2>6
<1>4. ASSUME NEW r \in Requests,
             \/ Fetch(r) \/ ReadThreads(r) \/ ReadEmails(r)
             \/ SaveEmails(r) \/ InsertEmail(r) \/ Publish(r) \/ RequestFails(r)
      PROVE  Len(threadDocs'[t]) = Len(threadDocs[t]) /\ Inserting(t)' \subseteq Inserting(t)
  <2>1. /\ pc'[r] # "insertThread"
        /\ \A q \in Requests \ {r} : StandsStill(q)
        /\ UNCHANGED threadDocs
    BY <1>4 DEF Fetch, ReadThreads, ReadEmails, SaveEmails, InsertEmail, Publish, Recorded,
                RequestFails, End, Goto, DocsInv, TypeInv, TypeOK, StandsStill
  <2> QED
    BY <1>1, <2>1
<1>5. CASE Crash
  BY <1>5 DEF Crash, Inserting
<1>6. CASE UNCHANGED <<threadDocs, requestVars>>
  BY <1>6 DEF requestVars, Inserting
<1> QED
  BY <1>2, <1>3, <1>4, <1>5, <1>6
  DEF Next, RequestStep, Arrive, TriggerWorkflow, TriggerFails, vars

\* Every step of the poller and of the email worker keeps documents accounted for.
LEMMA DocsInvStep == DocsInv /\ [PolledNext]_polledVars => DocsInv'
<1> SUFFICES ASSUME DocsInv, [PolledNext]_polledVars
             PROVE  DocsInv'
  OBVIOUS
<1>1. TypeInv' /\ [Next]_vars
  BY PolledSteps, TypeStep DEF DocsInv
<1>2. PollerFacts!OverlapInv' /\ Asked'
  BY OverlapSteps, AskedStep DEF DocsInv
<1>3. ASSUME NEW t \in Threads
      PROVE  Len(threadDocs'[t]) + Cardinality(Inserting(t)') <= 1 + timeouts' + ends'
  <2>1. IsFiniteSet(Inserting(t)) /\ timeouts \in Nat /\ ends \in Nat
    BY FewAsked DEF DocsInv, Inserting
  <2>2. /\ IsFiniteSet(Inserting(t)') /\ Cardinality(Inserting(t)') <= 1 + timeouts' + ends'
        /\ timeouts' \in Nat /\ ends' \in Nat
    BY <1>2, FewAskedNext DEF Inserting
  <2>3. Len(threadDocs[t]) \in Nat /\ Len(threadDocs'[t]) \in Nat
    BY <1>1, LenProperties DEF DocsInv, TypeInv, TypeOK
  <2>4. /\ 1 + timeouts + ends \in Nat /\ 1 + timeouts' + ends' \in Nat
        /\ 1 + timeouts + ends <= 1 + timeouts' + ends'
    BY <2>1, <2>2, TimeoutsGrow, OneMore
  <2> DEFINE l == Len(threadDocs[t])
             ll == Len(threadDocs'[t])
             S == Inserting(t)
             SS == Inserting(t)'
             n == 1 + timeouts + ends
             nn == 1 + timeouts' + ends'
  <2>5. /\ l \in Nat /\ ll \in Nat /\ n \in Nat /\ nn \in Nat /\ n <= nn
        /\ IsFiniteSet(S) /\ IsFiniteSet(SS) /\ Cardinality(SS) <= nn
    BY <2>1, <2>2, <2>3, <2>4
  <2>6. l + Cardinality(S) <= n
    BY DEF DocsInv
  <2>7. \/ ll = l /\ SS \subseteq S
        \/ ll = 0
        \/ \E r \in S : ll = l + 1 /\ SS = S \ {r}
    BY <1>1, InsertsAreCounted
  <2> HIDE DEF l, ll, S, SS, n, nn
  <2>8. ll + Cardinality(SS) <= nn
    BY <2>5, <2>6, <2>7, StillBounded
  <2> QED
    BY <2>8 DEF ll, SS, nn
<1> QED
  BY <1>1, <1>2, <1>3 DEF DocsInv

\* Initially there are no documents and no requests.
LEMMA DocsInvInit == PolledInit => DocsInv
<1> SUFFICES ASSUME PolledInit
             PROVE  DocsInv
  OBVIOUS
<1>1. TypeInv /\ PollerFacts!OverlapInv
  BY TypeInit, OverlapInit DEF PolledInit
<1>2. Asked /\ \A t \in Threads : Inserting(t) = {} /\ threadDocs[t] = <<>>
  BY DEF PolledInit, Init, Asked, Inserting
<1>3. timeouts = 0 /\ ends = 0
  BY DEF PolledInit, Poller!Init
<1>4. ASSUME NEW t \in Threads
      PROVE  Len(threadDocs[t]) + Cardinality(Inserting(t)) <= 1 + timeouts + ends
  <2>1. Cardinality(Inserting(t)) = 0
    BY <1>2, FS_EmptySet
  <2>2. Len(threadDocs[t]) = 0
    BY <1>2
  <2> QED
    BY <1>3, <2>1, <2>2
<1> QED
  BY <1>1, <1>2, <1>4 DEF DocsInv

\* For any number of requests, faults and restarts: a thread has one document, and
\* one more for each attempt that timed out and each execution that was ended.
THEOREM DocumentsNeedTimeouts == PolledSpec => []DocsNeedTimeouts
<1>1. DocsInv => DocsNeedTimeouts
  <2> SUFFICES ASSUME DocsInv, NEW t \in Threads
               PROVE  Len(threadDocs[t]) <= 1 + timeouts + ends
    BY DEF DocsNeedTimeouts
  <2>1. Cardinality(Inserting(t)) \in Nat /\ timeouts \in Nat /\ ends \in Nat
    BY FewAsked DEF DocsInv, Inserting
  <2>2. Len(threadDocs[t]) \in Nat
    BY LenProperties DEF DocsInv, TypeInv, TypeOK
  <2> QED
    BY <2>1, <2>2 DEF DocsInv
<1> QED
  BY <1>1, DocsInvInit, DocsInvStep, PTL DEF PolledSpec

-----------------------------------------------------------------------------
(* A thread with two documents is stuck.                                   *)

Arrived == {mailbox[i] : i \in DOMAIN mailbox}

\* What a request works on, and what is announced, has arrived.
Seen ==
    /\ \A r \in Requests : pc[r] # "idle" => msg[r] \in Arrived
    /\ \A e \in Announced : e.message \in Arrived

\* The thread of a late message still has the documents it had.
LateIsDoubled ==
    \A m \in late : /\ m \in Messages /\ m \in Arrived
                    /\ Len(threadDocs[ThreadOf[m]]) > 1

\* A request that works on a late message does not get past SaveThread: it finds
\* the last document of its thread and would replace the first.
Blocked(r) ==
    pc[r] # "idle" /\ msg[r] \in late =>
        /\ pc[r] \in {"fetched", "threadsRead", "built"}
        /\ pc[r] # "fetched" => sid[r] \notin {None, threadDocs[ThreadOf[msg[r]]][1].sid}

\* What is announced is never late.
StuckThread == \A e \in Announced : e.message \notin late

StuckInv ==
    /\ SidInv
    /\ Seen
    /\ LateIsDoubled
    /\ \A r \in Requests : Blocked(r)
    /\ StuckThread

\* No mail leaves the account.
LEMMA ArrivedGrow ==
    ASSUME TypeInv, [Next]_vars
    PROVE  Arrived \subseteq Arrived'
<1>1. CASE UNCHANGED mailbox
  BY <1>1 DEF Arrived
<1>2. ASSUME NEW m \in Messages, Arrive(m)
      PROVE  Arrived \subseteq Arrived'
  <2>1. mailbox \in Seq(Messages) /\ mailbox' = Append(mailbox, m)
    BY <1>2 DEF Arrive, TypeInv, TypeOK
  <2>2. \A i \in DOMAIN mailbox : i \in DOMAIN mailbox' /\ mailbox'[i] = mailbox[i]
    BY <2>1
  <2> QED
    BY <2>2 DEF Arrived
<1> QED
  BY <1>1, <1>2
  DEF Next, RequestStep, Fetch, ReadThreads, ReadEmails, SaveThread, InsertThread, SaveEmails,
      InsertEmail, Publish, Recorded, TriggerWorkflow, TriggerFails, RequestFails, Crash, vars

\* A thread with two documents keeps two, and its first keeps its storage id.
LEMMA DoubledStays ==
    ASSUME TypeInv, [Next]_vars, NEW t \in Threads, Len(threadDocs[t]) > 1
    PROVE  /\ Len(threadDocs'[t]) > 1
           /\ threadDocs'[t][1].sid = threadDocs[t][1].sid
<1>1. threadDocs[t] \in Seq(ThreadDoc) /\ threadDocs'[t] \in Seq(ThreadDoc)
  BY TypeStep DEF TypeInv, TypeOK
<1>2. 1 \in DOMAIN threadDocs[t] /\ 2 \in DOMAIN threadDocs[t]
  BY <1>1
<1>3. 2 \in DOMAIN threadDocs'[t] /\ threadDocs'[t][1].sid = threadDocs[t][1].sid
  BY <1>2, DocsStep DEF DocsKeepSids
<1> QED
  BY <1>1, <1>3

\* The newest message of the account has arrived.
LEMMA NewestHasArrived ==
    ASSUME TypeInv, mailbox # <<>>
    PROVE  mailbox[Len(mailbox)] \in Arrived
<1>1. mailbox \in Seq(Messages)
  BY DEF TypeInv, TypeOK
<1>2. Len(mailbox) \in DOMAIN mailbox
  BY <1>1, EmptySeq, LenProperties
<1> QED
  BY <1>2 DEF Arrived

\* Requests fetch what has arrived and announce what they fetched.
LEMMA SeenStep ==
    ASSUME TypeInv, Seen, [Next]_vars
    PROVE  Seen'
<1> USE DEF Seen
<1>1. Arrived \subseteq Arrived'
  BY ArrivedGrow
<1>2. ASSUME NEW r \in Requests, Fetch(r)
      PROVE  Seen'
  <2>1. mailbox[Len(mailbox)] \in Arrived
    BY <1>2, NewestHasArrived DEF Fetch
  <2>2. /\ \A q \in Requests \ {r} : pc'[q] = pc[q] /\ msg'[q] = msg[q]
        /\ msg'[r] = mailbox[Len(mailbox)]
        /\ Announced' = Announced
    BY <1>2 DEF Fetch, Goto, TypeInv, TypeOK, Announced
  <2> QED
    BY <1>1, <2>1, <2>2
<1>3. ASSUME NEW r \in Requests, RequestStep(r) \/ RequestFails(r)
      PROVE  Seen'
  <2>1. \A q \in Requests \ {r} : pc'[q] = pc[q] /\ msg'[q] = msg[q]
    BY <1>3, OneMoves DEF StandsStill
  <2>2. pc[r] # "idle" /\ (pc'[r] = "idle" \/ msg'[r] = msg[r])
    BY <1>3
    DEF RequestStep, ReadThreads, ReadEmails, SaveThread, InsertThread, SaveEmails,
        InsertEmail, Publish, Recorded, RequestFails, End, Goto, TypeInv, TypeOK
  <2>3. \A e \in Announced' : e \in Announced \/ e.message = msg[r]
    BY <1>3
    DEF RequestStep, ReadThreads, ReadEmails, SaveThread, InsertThread, SaveEmails,
        InsertEmail, Publish, Recorded, RequestFails, Announced, EventOf
  <2> QED
    BY <1>1, <2>1, <2>2, <2>3
<1>4. CASE Crash
  BY <1>1, <1>4 DEF Crash, Announced
<1>5. CASE UNCHANGED requestVars /\ Announced' \subseteq Announced
  BY <1>1, <1>5 DEF requestVars
<1>6. ASSUME NEW e \in handlers, TriggerWorkflow(e) \/ TriggerFails(e)
      PROVE  UNCHANGED requestVars /\ Announced' \subseteq Announced
  BY <1>6 DEF TriggerWorkflow, TriggerFails, Announced
<1> QED
  BY <1>2, <1>3, <1>4, <1>5, <1>6 DEF Next, Arrive, vars, Announced

\* Two documents of a thread have storage ids of their own.
LEMMA FirstIsNotLast ==
    ASSUME SidInv, NEW t \in Threads, Len(threadDocs[t]) > 1
    PROVE  /\ threadDocs[t] # <<>>
           /\ threadDocs[t][Len(threadDocs[t])].sid \in Ids
           /\ threadDocs[t][Len(threadDocs[t])].sid # threadDocs[t][1].sid
<1>1. threadDocs[t] \in Seq(ThreadDoc)
  BY DEF SidInv, TypeInv, TypeOK
<1>2. 1 \in DOMAIN threadDocs[t] /\ Len(threadDocs[t]) \in DOMAIN threadDocs[t]
  BY <1>1
<1>3. threadDocs[t][Len(threadDocs[t])].sid \in Ids
  BY <1>2, DocsAreDocs DEF SidInv
<1>4. threadDocs[t][Len(threadDocs[t])].sid # threadDocs[t][1].sid
  BY <1>2 DEF SidInv, DistinctSids
<1> QED
  BY <1>1, <1>2, <1>3, <1>4

\* Whatever the email worker does, a request for a late message stays blocked.
LEMMA BlockedStep ==
    ASSUME StuckInv, [Next]_vars, NEW r \in Requests, pc'[r] # "idle", msg'[r] \in late
    PROVE  /\ pc'[r] \in {"fetched", "threadsRead", "built"}
           /\ pc'[r] # "fetched" =>
                  sid'[r] \notin {None, threadDocs'[ThreadOf[msg'[r]]][1].sid}
<1> DEFINE t == ThreadOf[msg'[r]]
<1> USE IngestionAssumption
<1>1. t \in Threads /\ Len(threadDocs[t]) > 1 /\ SidInv /\ TypeInv
  BY DEF StuckInv, LateIsDoubled, SidInv
<1>2. threadDocs'[t][1].sid = threadDocs[t][1].sid
  BY <1>1, DoubledStays
<1>3. ASSUME pc'[r] = pc[r], sid'[r] = sid[r], msg'[r] = msg[r]
      PROVE  /\ pc'[r] \in {"fetched", "threadsRead", "built"}
             /\ pc'[r] # "fetched" => sid'[r] \notin {None, threadDocs'[t][1].sid}
  BY <1>2, <1>3 DEF StuckInv, Blocked
<1>4. CASE Fetch(r)
  BY <1>1, <1>4 DEF Fetch, Goto, TypeInv, TypeOK
<1>5. CASE ReadThreads(r)
  <2>1. msg'[r] = msg[r]
    BY <1>5 DEF ReadThreads
  <2>2. threadDocs[t] # <<>>
    BY <1>1, FirstIsNotLast
  <2>3. pc'[r] = "threadsRead" /\ sid'[r] = threadDocs[t][Len(threadDocs[t])].sid
    BY <1>1, <1>5, <2>1, <2>2 DEF ReadThreads, Goto, TypeInv, TypeOK
  <2>4. sid'[r] # None /\ sid'[r] # threadDocs[t][1].sid
    BY <1>1, <2>3, FirstIsNotLast
  <2> QED
    BY <1>2, <2>3, <2>4
<1>6. CASE ReadEmails(r)
  <2>1. msg'[r] = msg[r] /\ sid'[r] = sid[r] /\ pc[r] = "threadsRead" /\ pc'[r] = "built"
    BY <1>1, <1>6 DEF ReadEmails, Goto, TypeInv, TypeOK
  <2> QED
    BY <1>2, <2>1 DEF StuckInv, Blocked
<1>7. ASSUME RequestStep(r) \/ RequestFails(r), ~ReadThreads(r), ~ReadEmails(r)
      PROVE  FALSE
  <2>1. pc[r] # "idle" /\ msg'[r] = msg[r]
    BY <1>1, <1>7
    DEF RequestStep, SaveThread, InsertThread, SaveEmails, InsertEmail, Publish, Recorded,
        RequestFails, End, Goto, TypeInv, TypeOK
  <2>2. /\ pc[r] \in {"fetched", "threadsRead", "built"}
        /\ pc[r] = "built" => sid[r] \notin {None, threadDocs[t][1].sid}
    BY <2>1 DEF StuckInv, Blocked
  <2>3. threadDocs[t] # <<>>
    BY <1>1, FirstIsNotLast
  <2>4. ~End(r)
    BY <1>1 DEF End, Goto, TypeInv, TypeOK
  <2> QED
    BY <1>7, <2>1, <2>2, <2>3, <2>4
    DEF RequestStep, SaveThread, InsertThread, SaveEmails, InsertEmail, Publish, Recorded,
        RequestFails, StorageId
<1>8. ASSUME NEW q \in Requests, q # r, Fetch(q) \/ RequestStep(q) \/ RequestFails(q)
      PROVE  pc'[r] = pc[r] /\ sid'[r] = sid[r] /\ msg'[r] = msg[r]
  BY <1>1, <1>8, OneMoves DEF StandsStill
<1>9. ~Crash
  BY DEF Crash
<1>10. CASE UNCHANGED requestVars
  BY <1>3, <1>10 DEF requestVars
<1> QED
  BY <1>3, <1>4, <1>5, <1>6, <1>7, <1>8, <1>9, <1>10
  DEF Next, Arrive, TriggerWorkflow, TriggerFails, vars

\* A late message is not announced: its request never comes to Publish.
LEMMA StuckStep ==
    ASSUME StuckInv, [Next]_vars, NEW e \in Announced'
    PROVE  e.message \notin late
<1>1. CASE e \in Announced
  BY <1>1 DEF StuckInv, StuckThread
<1>2. ASSUME NEW r \in Requests, Publish(r), e = EventOf(r)
      PROVE  e.message \notin late
  <2>1. pc[r] = "saved" /\ e.message = msg[r]
    BY <1>2 DEF Publish, Recorded, EventOf
  <2> QED
    BY <2>1 DEF StuckInv, Blocked
<1>3. ASSUME NEW f \in handlers, TriggerWorkflow(f) \/ TriggerFails(f)
      PROVE  e \in Announced
  BY <1>3 DEF TriggerWorkflow, TriggerFails, Announced
<1> QED
  BY <1>1, <1>2, <1>3
  DEF Next, RequestStep, Arrive, Fetch, ReadThreads, ReadEmails, SaveThread, InsertThread,
      SaveEmails, InsertEmail, Publish, Recorded, RequestFails, Crash, vars, Announced

\* Only mail that arrives becomes late, and what has just arrived nobody has seen.
LEMMA LateStep ==
    ASSUME StuckInv, [PolledNext]_polledVars
    PROVE  \/ late' = late
           \/ \E m \in Messages \ Arrived :
                  /\ Arrive(m)
                  /\ late' = late \cup {m}
                  /\ Len(threadDocs[ThreadOf[m]]) > 1
BY DEF PolledNext, Poll, Answer, PollerStep, MailStep, WorkerStep, Trigger, polledVars,
       Arrive, Arrived

\* Every step of the poller and of the email worker leaves a stuck thread stuck.
LEMMA StuckInvStep == StuckInv /\ [PolledNext]_polledVars => StuckInv'
<1> SUFFICES ASSUME StuckInv, [PolledNext]_polledVars
             PROVE  StuckInv'
  OBVIOUS
<1> USE IngestionAssumption
<1>1. [Next]_vars /\ SidInv /\ TypeInv
  BY PolledSteps DEF StuckInv, SidInv
<1>2. SidInv' /\ Seen' /\ Arrived \subseteq Arrived'
  BY <1>1, SidStep, SeenStep, ArrivedGrow DEF StuckInv
<1>3. \A m \in late : /\ m \in Messages /\ m \in Arrived'
                      /\ Len(threadDocs'[ThreadOf[m]]) > 1
  BY <1>1, <1>2, DoubledStays DEF StuckInv, LateIsDoubled
<1>4. CASE late' = late
  <2>1. LateIsDoubled' /\ StuckThread'
    BY <1>1, <1>3, <1>4, StuckStep DEF LateIsDoubled, StuckThread
  <2>2. \A r \in Requests : Blocked(r)'
    BY <1>1, <1>4, BlockedStep DEF Blocked
  <2> QED
    BY <1>2, <2>1, <2>2 DEF StuckInv
<1>5. ASSUME NEW m \in Messages \ Arrived, Arrive(m), late' = late \cup {m},
             Len(threadDocs[ThreadOf[m]]) > 1
      PROVE  StuckInv'
  <2>1. m \in Arrived' /\ Len(threadDocs'[ThreadOf[m]]) > 1
    <3>1. mailbox \in Seq(Messages) /\ mailbox' = Append(mailbox, m) /\ threadDocs' = threadDocs
      BY <1>1, <1>5 DEF Arrive, TypeInv, TypeOK
    <3>2. Len(mailbox) + 1 \in DOMAIN mailbox' /\ mailbox'[Len(mailbox) + 1] = m
      BY <3>1
    <3> QED
      BY <1>5, <3>1, <3>2 DEF Arrived
  <2>2. LateIsDoubled'
    BY <1>3, <1>5, <2>1 DEF LateIsDoubled
  <2>3. \A r \in Requests : Blocked(r)'
    <3>1. \A r \in Requests : pc'[r] # "idle" => msg'[r] # m
      BY <1>5 DEF StuckInv, Seen, Arrive, requestVars
    <3> QED
      BY <1>1, <1>5, <3>1, BlockedStep DEF Blocked
  <2>4. StuckThread'
    <3>1. Announced' = Announced /\ \A e \in Announced : e.message # m
      BY <1>5 DEF StuckInv, Seen, Arrive, Announced
    <3> QED
      BY <1>5, <3>1 DEF StuckInv, StuckThread
  <2> QED
    BY <1>2, <2>2, <2>3, <2>4 DEF StuckInv
<1> QED
  BY <1>4, <1>5, LateStep

\* For any number of requests, messages and faults: a message that arrives when
\* its thread has two documents is never announced to any workflow.
THEOREM StuckThreadsStayStuck == PolledSpec => []StuckThread
<1>1. PolledInit => StuckInv
  <2> SUFFICES ASSUME PolledInit
               PROVE  StuckInv
    OBVIOUS
  <2>1. Init /\ late = {}
    BY DEF PolledInit
  <2>2. Seen
    BY <2>1 DEF Init, Seen, Announced
  <2> QED
    BY <2>1, <2>2, SidInit DEF StuckInv, LateIsDoubled, Blocked, StuckThread
<1>2. StuckInv => StuckThread
  BY DEF StuckInv
<1> QED
  BY <1>1, <1>2, StuckInvStep, PTL DEF PolledSpec

-----------------------------------------------------------------------------
(* One story per thread.                                                   *)

\* The poller that was always answered in time has asked for one request at most.
LEMMA AskedAlone == PollerFacts!OverlapInv /\ Asked /\ NeverOverlapped => Alone
<1> SUFFICES ASSUME PollerFacts!OverlapInv, Asked, NeverOverlapped, NEW q \in Requests, NEW r \in Requests,
                    q \in requests, r \in requests
             PROVE  q = r
  BY DEF Alone, Asked
<1>1. timeouts \in Nat /\ ends \in Nat
  BY PolledAssumption DEF PollerFacts!OverlapInv, PollerFacts!PollInv, PollerFacts!TypeOK
<1>2. timeouts + ends = 0 /\ 0 + 0 = 0
  BY DEF NeverOverlapped
<1>3. IsFiniteSet(requests) /\ Cardinality(requests) <= 1
  <2>1. /\ IsFiniteSet(requests)
        /\ Cardinality(requests) <= timeouts + ends + (IF polling = None THEN 0 ELSE 1)
    BY SameSets DEF PollerFacts!OverlapInv
  <2>2. Cardinality(requests) \in Nat
    BY <2>1, FS_CardinalityType
  <2>3. (IF polling = None THEN 0 ELSE 1) \in {0, 1}
    OBVIOUS
  <2> QED
    BY <1>2, <2>1, <2>2, <2>3
<1>4. CASE Cardinality(requests) = 0
  BY <1>3, <1>4, FS_EmptySet
<1>5. CASE Cardinality(requests) = 1
  BY <1>3, <1>5, FS_Singleton
<1>6. Cardinality(requests) = 0 \/ Cardinality(requests) = 1
  BY <1>3, FS_CardinalityType
<1> QED
  BY <1>4, <1>5, <1>6

\* So it has after a step.
LEMMA AskedAloneNext == (PollerFacts!OverlapInv /\ Asked /\ NeverOverlapped => Alone)'
BY AskedAlone, PTL

\* Timeouts and ended executions are not undone.
LEMMA OverlapsAreKept ==
    ASSUME DocsInv, [PolledNext]_polledVars, NeverOverlapped'
    PROVE  NeverOverlapped
<1>1. timeouts + ends <= timeouts' + ends'
  BY TimeoutsGrow
<1>2. timeouts \in Nat /\ ends \in Nat
  BY PolledAssumption
  DEF DocsInv, PollerFacts!OverlapInv, PollerFacts!PollInv, PollerFacts!TypeOK
<1> QED
  BY <1>1, <1>2 DEF NeverOverlapped

\* For any number of attempts and faults: while the poller was answered in time, the
\* email worker executes one request at a time.
THEOREM OneRequestAtATime == PolledSpec => [](NeverOverlapped => Alone)
<1>1. DocsInv => (NeverOverlapped => Alone)
  BY AskedAlone DEF DocsInv
<1> QED
  BY <1>1, DocsInvInit, DocsInvStep, PTL DEF PolledSpec

\* Documents are accounted for, and without an overlap the worker's snapshots are
\* up to date.
StoryInv == DocsInv /\ (NeverOverlapped => SoloInv)

LEMMA StoryInit == PolledInit => StoryInv
BY DocsInvInit, SoloInit DEF PolledInit, StoryInv

LEMMA StoryStep == StoryInv /\ [PolledNext]_polledVars => StoryInv'
<1> SUFFICES ASSUME StoryInv, [PolledNext]_polledVars
             PROVE  DocsInv' /\ (NeverOverlapped' => SoloInv')
  BY DEF StoryInv
<1>1. DocsInv' /\ [Next]_vars
  BY DocsInvStep, PolledSteps DEF StoryInv
<1>2. ASSUME NeverOverlapped'
      PROVE  SoloInv'
  <2>1. SoloInv
    BY <1>2, OverlapsAreKept DEF StoryInv
  <2>2. Alone'
    BY <1>1, <1>2, AskedAloneNext DEF DocsInv
  <2> QED
    BY <1>1, <2>1, <2>2, SoloStep
<1> QED
  BY <1>1, <1>2

\* For any number of messages, attempts and faults: while the poller was answered in
\* time, each message is announced once, each thread has one workflow, and every
\* stored message is listed by its thread.
THEOREM OneStory == PolledSpec => []OneStoryPerThread
<1>1. StoryInv => OneStoryPerThread
  BY SoloIsOneStory DEF StoryInv, OneStoryPerThread
<1> QED
  BY <1>1, StoryInit, StoryStep, PTL DEF PolledSpec

-----------------------------------------------------------------------------
(* No save is refused.                                                     *)

\* A sequence that is neither empty nor longer than one.
LEMMA OnlyOne ==
    ASSUME NEW S, NEW seq \in Seq(S), Len(seq) <= 1
    PROVE  seq # <<>> => Len(seq) = 1
<1>1. seq # <<>> => Len(seq) \in Nat \ {0}
  BY EmptySeq
<1>2. \A n \in Nat \ {0} : n <= 1 => n = 1
  OBVIOUS
<1> QED
  BY <1>1, <1>2

\* What a lone request holds of its thread and of its emails carries the _ids of the
\* first documents, which replaceOne finds.
Fits(r) ==
    LET t == ThreadOf[msg[r]] IN
    /\ pc[r] \in {"idle", "fetched", "threadsRead"} => known[r] = {}
    /\ pc[r] \in {"threadsRead", "built"} /\ threadDocs[t] # <<>> => threadDocs[t][1].sid = sid[r]
    /\ pc[r] \in {"built", "insertThread", "threadSaved"} => ~SnapshotHasTwins(r)
    /\ pc[r] = "threadSaved" /\ IsNew(r) => ~IsStored(msg[r])

FitInv == SoloInv /\ \A r \in Requests : Fits(r)

\* A step of a lone request keeps what it holds fitting.
LEMMA FitsStep ==
    ASSUME FitInv, [Next]_vars, Alone', NEW r \in Requests
    PROVE  Fits(r)'
<1> USE IngestionAssumption DEF FitInv, SoloInv
<1> DEFINE t == ThreadOf[msg[r]]
<1>1. CASE pc'[r] \in {"insertEmail", "saved"}
  BY <1>1 DEF Fits
<1>2. CASE End(r)
  BY <1>2 DEF Fits, End, Goto, StoredInv, TypeInv, TypeOK
<1>3. CASE Fetch(r)
  BY <1>3 DEF Fits, Fetch, Goto, StoredInv, TypeInv, TypeOK
<1>4. CASE ReadThreads(r)
  <2>1. /\ t \in Threads /\ threadDocs[t] \in Seq(ThreadDoc) /\ Len(threadDocs[t]) <= 1
    BY <1>4 DEF ReadThreads, StoredInv, TypeInv, TypeOK, Busy, SingleDocs
  <2>2. /\ msg' = msg /\ threadDocs' = threadDocs /\ known' = known /\ known[r] = {}
        /\ pc'[r] \in {"threadsRead", "built"}
    BY <1>4 DEF ReadThreads, Goto, Fits, StoredInv, TypeInv, TypeOK
  <2>3. threadDocs[t] # <<>> => sid'[r] = threadDocs[t][1].sid
    <3>1. threadDocs[t] # <<>> => Len(threadDocs[t]) = 1
      BY <2>1, OnlyOne
    <3> QED
      BY <1>4, <3>1 DEF ReadThreads, StoredInv, TypeInv, TypeOK
  <2> QED
    BY <2>2, <2>3 DEF Fits, SnapshotHasTwins
<1>5. CASE ReadEmails(r)
  <2>1. /\ msg' = msg /\ threadDocs' = threadDocs /\ emailDocs' = emailDocs /\ sid' = sid
        /\ pc[r] = "threadsRead" /\ pc'[r] = "built"
        /\ known'[r] = {p \in EmailEntity : p[1] \in listed[r] /\ p[2] \in EidsOf(p[1])}
    BY <1>5 DEF ReadEmails, Goto, StoredInv, TypeInv, TypeOK
  <2>2. ASSUME NEW p \in known'[r], emailDocs[p[1]] # <<>>
        PROVE  emailDocs[p[1]][1] = p[2]
    <3>1. p[1] \in Messages /\ p[2] \in EidsOf(p[1])
      BY <2>1, <2>2 DEF EmailEntity
    <3>2. emailDocs[p[1]] \in Seq(Ids) /\ Len(emailDocs[p[1]]) <= 1
      BY <3>1 DEF StoredInv, TypeInv, TypeOK, SingleDocs
    <3>3. \A i \in DOMAIN emailDocs[p[1]] : i = 1
      BY <3>2
    <3> QED
      BY <3>1, <3>3 DEF EidsOf
  <2> QED
    BY <2>1, <2>2 DEF Fits, SnapshotHasTwins
<1>6. CASE SaveThread(r)
  <2>1. /\ msg[r] \in Messages /\ pc[r] = "built" /\ emailDocs' = emailDocs
        /\ \/ End(r)
           \/ /\ pc'[r] \in {"insertThread", "threadSaved"}
              /\ UNCHANGED <<msg, known>>
    BY <1>6 DEF SaveThread, Goto, StoredInv, TypeInv, TypeOK, Busy
  <2>2. IsStored(msg[r]) => ~IsNew(r)
    BY <2>1 DEF UpToDate, StoredIsListed, IsNew
  <2>3. ~SnapshotHasTwins(r)
    BY <2>1 DEF Fits
  <2> QED
    BY <1>2, <2>1, <2>2, <2>3 DEF Fits, SnapshotHasTwins, IsNew, KnownMessages, IsStored
<1>7. CASE InsertThread(r)
  <2>1. /\ msg[r] \in Messages /\ pc[r] = "insertThread" /\ pc'[r] = "threadSaved"
        /\ UNCHANGED <<msg, known, emailDocs>>
    BY <1>7 DEF InsertThread, Goto, StoredInv, TypeInv, TypeOK, Busy
  <2>2. ListedIn(t) = {}
    BY <2>1 DEF UpToDate, ListedIn
  <2>3. ~IsStored(msg[r]) /\ ~SnapshotHasTwins(r)
    BY <2>1, <2>2 DEF StoredIsListed, Fits
  <2> QED
    BY <2>1, <2>3 DEF Fits, SnapshotHasTwins, IsStored
<1>8. CASE SaveEmails(r) \/ InsertEmail(r) \/ Publish(r) \/ RequestFails(r)
  <2>1. End(r) \/ pc'[r] \in {"insertEmail", "saved"}
    BY <1>8
    DEF SaveEmails, InsertEmail, Publish, RequestFails, Goto, StoredInv, TypeInv, TypeOK
  <2> QED
    BY <1>1, <1>2, <2>1
<1>9. ASSUME NEW q \in Requests, q # r, Fetch(q) \/ RequestStep(q) \/ RequestFails(q)
      PROVE  Fits(r)'
  <2>1. StandsStill(r)
    BY <1>9, OneMoves DEF StoredInv
  <2>2. pc[q] # "idle" \/ pc'[q] # "idle"
    BY <1>9
    DEF Fetch, RequestStep, ReadThreads, ReadEmails, SaveThread, InsertThread, SaveEmails,
        InsertEmail, Publish, Recorded, RequestFails, Goto, StoredInv, TypeInv, TypeOK
  <2>3. pc[r] = "idle"
    BY <1>9, <2>1, <2>2 DEF Alone, StandsStill
  <2> QED
    BY <2>1, <2>3 DEF StandsStill, Fits
<1>10. CASE Crash
  BY <1>10 DEF Crash, Fits
<1>11. CASE UNCHANGED <<threadDocs, emailDocs, requestVars>>
  BY <1>11 DEF requestVars, Fits, SnapshotHasTwins, IsNew, KnownMessages, IsStored
<1> QED
  BY <1>3, <1>4, <1>5, <1>6, <1>7, <1>8, <1>9, <1>10, <1>11
  DEF Next, RequestStep, Arrive, TriggerWorkflow, TriggerFails, vars

\* Documents are accounted for, and without an overlap what is held fits.
AcceptInv == DocsInv /\ (NeverOverlapped => FitInv)

LEMMA AcceptStep == AcceptInv /\ [PolledNext]_polledVars => AcceptInv'
<1> SUFFICES ASSUME AcceptInv, [PolledNext]_polledVars
             PROVE  DocsInv' /\ (NeverOverlapped' => FitInv')
  BY DEF AcceptInv
<1>1. DocsInv' /\ [Next]_vars
  BY DocsInvStep, PolledSteps DEF AcceptInv
<1>2. ASSUME NeverOverlapped'
      PROVE  FitInv'
  <2>1. FitInv
    BY <1>2, OverlapsAreKept DEF AcceptInv
  <2>2. Alone'
    BY <1>1, <1>2, AskedAloneNext DEF DocsInv
  <2>3. SoloInv'
    BY <1>1, <2>1, <2>2, SoloStep DEF FitInv
  <2> QED
    BY <1>1, <2>1, <2>2, <2>3, FitsStep DEF FitInv
<1> QED
  BY <1>1, <1>2

\* For any number of messages, attempts and faults: while the poller was answered in
\* time, MongoDB refuses no save, though calls fail between a thread and its emails.
THEOREM SavesFit == PolledSpec => []SavesAreAccepted
<1>1. PolledInit => AcceptInv
  BY DocsInvInit, SoloInit DEF PolledInit, Init, AcceptInv, FitInv, Fits, SnapshotHasTwins
<1>2. ASSUME FitInv, NEW r \in Requests
      PROVE  /\ pc[r] = "built" =>
                  LET docs == threadDocs[ThreadOf[msg[r]]] IN
                  docs # <<>> => docs[1].sid = StorageId(r)
             /\ pc[r] = "threadSaved" =>
                  ~SnapshotHasTwins(r) /\ (IsNew(r) => emailDocs[msg[r]] = <<>>)
  <2>1. TypeInv /\ Fits(r)
    BY <1>2 DEF FitInv, SoloInv, StoredInv
  <2>2. ASSUME pc[r] = "built", threadDocs[ThreadOf[msg[r]]] # <<>>
        PROVE  threadDocs[ThreadOf[msg[r]]][1].sid = StorageId(r)
    <3> DEFINE t == ThreadOf[msg[r]]
    <3>1. t \in Threads /\ threadDocs[t] \in Seq(ThreadDoc)
      BY <2>1, <2>2, IngestionAssumption DEF TypeInv, TypeOK, Busy
    <3>2. 1 \in DOMAIN threadDocs[t]
      BY <2>2, <3>1, EmptySeq
    <3>3. threadDocs[t][1].sid \in Ids /\ threadDocs[t][1].sid = sid[r]
      BY <2>1, <2>2, <3>1, <3>2, DocsAreDocs DEF Fits
    <3> QED
      BY <3>3, IngestionAssumption DEF StorageId
  <2>3. pc[r] = "threadSaved" =>
            ~SnapshotHasTwins(r) /\ (IsNew(r) => emailDocs[msg[r]] = <<>>)
    BY <2>1 DEF Fits, IsStored
  <2> QED
    BY <2>2, <2>3
<1>3. AcceptInv => SavesAreAccepted
  BY <1>2 DEF AcceptInv, SavesAreAccepted
<1> QED
  BY <1>1, <1>3, AcceptStep, PTL DEF PolledSpec

-----------------------------------------------------------------------------
(* Repeated announcements and second workflows.                            *)

\* Requests that have missed the email of a message and will insert one.
InsertingEmail(m) == {r \in Requests : pc[r] = "insertEmail" /\ msg[r] = m}

\* A message is announced at most once with each of its emails, and no request at
\* work has announced anything yet.
EventsAreOwn ==
    /\ \A e, f \in Announced : e.message = f.message /\ e.eid = f.eid => e = f
    /\ \A r \in Requests : pc[r] # "idle" => \A e \in Announced : e.eid # fresh[r]

\* Once a message has an email nobody misses it any more: as for DocsInv, its emails
\* are those of requests that overlapped before the first.
RepeatsInv ==
    /\ DocsInv
    /\ StoredInv
    /\ SidInv
    /\ EventsAreOwn
    /\ \A m \in Messages :
          Len(emailDocs[m]) + Cardinality(InsertingEmail(m)) <= 1 + timeouts + ends

\* Only a request that misses the email of its message goes to insert one, and only
\* an insert adds one.
LEMMA EmailsAreCounted ==
    ASSUME TypeInv, [Next]_vars, NEW m \in Messages
    PROVE  \/ /\ Len(emailDocs'[m]) = Len(emailDocs[m])
              /\ InsertingEmail(m)' \subseteq InsertingEmail(m)
           \/ Len(emailDocs'[m]) = 0
           \/ \E r \in InsertingEmail(m) :
                  /\ Len(emailDocs'[m]) = Len(emailDocs[m]) + 1
                  /\ InsertingEmail(m)' = InsertingEmail(m) \ {r}
<1>1. ASSUME NEW r \in Requests, \A q \in Requests \ {r} : StandsStill(q),
             pc'[r] # "insertEmail"
      PROVE  InsertingEmail(m)' = InsertingEmail(m) \ {r}
  BY <1>1 DEF InsertingEmail, StandsStill
<1>2. ASSUME NEW r \in Requests, SaveEmails(r)
      PROVE  \/ UNCHANGED emailDocs /\ InsertingEmail(m)' \subseteq InsertingEmail(m)
             \/ Len(emailDocs'[m]) = 0
  <2>1. UNCHANGED emailDocs /\ \A q \in Requests \ {r} : StandsStill(q)
    BY <1>2, OneMoves DEF SaveEmails, RequestStep
  <2>2. CASE pc'[r] # "insertEmail"
    BY <1>1, <2>1, <2>2
  <2>3. CASE pc'[r] = "insertEmail" /\ msg'[r] # m
    BY <2>1, <2>3 DEF InsertingEmail, StandsStill
  <2>4. CASE pc'[r] = "insertEmail" /\ msg'[r] = m
    <3>1. emailDocs[msg[r]] = <<>> /\ msg' = msg
      BY <1>2, <2>4 DEF SaveEmails, End, Goto, TypeInv, TypeOK
    <3> QED
      BY <2>1, <2>4, <3>1
  <2> QED
    BY <2>2, <2>3, <2>4
<1>3. ASSUME NEW r \in Requests, InsertEmail(r)
      PROVE  \/ UNCHANGED emailDocs[m] /\ InsertingEmail(m)' \subseteq InsertingEmail(m)
             \/ /\ r \in InsertingEmail(m)
                /\ Len(emailDocs'[m]) = Len(emailDocs[m]) + 1
                /\ InsertingEmail(m)' = InsertingEmail(m) \ {r}
  <2>1. InsertingEmail(m)' = InsertingEmail(m) \ {r}
    <3>1. pc'[r] # "insertEmail"
      BY <1>3 DEF InsertEmail, Goto, TypeInv, TypeOK
    <3> QED
      BY <1>1, <1>3, <3>1, OneMoves DEF RequestStep
  <2>2. CASE msg[r] # m
    BY <1>3, <2>1, <2>2 DEF InsertEmail, TypeInv, TypeOK
  <2>3. CASE msg[r] = m
    <3>1. r \in InsertingEmail(m)
      BY <1>3, <2>3 DEF InsertEmail, InsertingEmail
    <3>2. /\ emailDocs[m] \in Seq(Ids) /\ fresh[r] \in Ids
          /\ emailDocs'[m] = Append(emailDocs[m], fresh[r])
      BY <1>3, <2>3 DEF InsertEmail, TypeInv, TypeOK, Busy
    <3>3. Len(emailDocs'[m]) = Len(emailDocs[m]) + 1
      BY <3>2
    <3> QED
      BY <2>1, <3>1, <3>3
  <2> QED
    BY <2>2, <2>3
<1>4. ASSUME NEW r \in Requests,
             \/ Fetch(r) \/ ReadThreads(r) \/ ReadEmails(r) \/ SaveThread(r)
             \/ InsertThread(r) \/ Publish(r) \/ RequestFails(r)
      PROVE  UNCHANGED emailDocs /\ InsertingEmail(m)' \subseteq InsertingEmail(m)
  <2>1. /\ pc'[r] # "insertEmail"
        /\ UNCHANGED emailDocs
    BY <1>4 DEF Fetch, ReadThreads, ReadEmails, SaveThread, InsertThread, Publish, Recorded,
                RequestFails, End, Goto, TypeInv, TypeOK
  <2>2. \A q \in Requests \ {r} : StandsStill(q)
    BY <1>4, OneMoves DEF RequestStep
  <2> QED
    BY <1>1, <2>1, <2>2
<1>5. CASE Crash
  BY <1>5 DEF Crash, InsertingEmail
<1>6. CASE UNCHANGED <<emailDocs, requestVars>>
  BY <1>6 DEF requestVars, InsertingEmail
<1> QED
  BY <1>2, <1>3, <1>4, <1>5, <1>6
  DEF Next, RequestStep, Arrive, TriggerWorkflow, TriggerFails, vars

\* A request announces the email it inserted and ends; the UUID of another is none
\* that was announced before.
LEMMA EventsAreOwnStep ==
    ASSUME StoredInv, SidInv, EventsAreOwn, [Next]_vars
    PROVE  EventsAreOwn'
<1> USE DEF EventsAreOwn
<1>1. TypeInv
  BY DEF SidInv
<1>2. ASSUME NEW r \in Requests, Fetch(r)
      PROVE  EventsAreOwn'
  <2>1. \A m \in Messages : NewId \notin EidsOf(m)
    BY <1>2 DEF Fetch, NewId, Unused
  <2>2. \A e \in Announced : e.message \in Messages /\ e.eid \in EidsOf(e.message)
    BY <1>1 DEF StoredInv, AnnouncedIsStored, TypeInv, TypeOK, Announced, Event
  <2>3. Announced' = Announced /\ fresh'[r] = NewId
    BY <1>1, <1>2 DEF Fetch, Announced, TypeInv, TypeOK
  <2>4. \A q \in Requests \ {r} : pc'[q] = pc[q] /\ fresh'[q] = fresh[q]
    BY <1>1, <1>2, OneMoves DEF StandsStill
  <2> QED
    BY <2>1, <2>2, <2>3, <2>4
<1>3. ASSUME NEW r \in Requests, Publish(r)
      PROVE  EventsAreOwn'
  <2>1. pc[r] # "idle" /\ pc'[r] = "idle"
    BY <1>1, <1>3 DEF Publish, Recorded, End, Goto, TypeInv, TypeOK
  <2>2. Announced' \subseteq Announced \cup {EventOf(r)} /\ EventOf(r).eid = fresh[r]
    BY <1>3 DEF Publish, Recorded, Announced, EventOf
  <2>3. \A q \in Requests \ {r} : pc'[q] = pc[q] /\ fresh'[q] = fresh[q]
    BY <1>1, <1>3, OneMoves DEF RequestStep, StandsStill
  <2>4. \A q \in Requests \ {r} : pc[q] # "idle" => fresh[q] # fresh[r]
    BY DEF SidInv, DistinctFresh
  <2> QED
    BY <2>1, <2>2, <2>3, <2>4
<1>4. ASSUME NEW r \in Requests, RequestStep(r) \/ RequestFails(r), ~Publish(r)
      PROVE  EventsAreOwn'
  <2>1. UNCHANGED <<handlers, signalled>>
    BY <1>4 DEF RequestStep, ReadThreads, ReadEmails, SaveThread, InsertThread, SaveEmails,
                InsertEmail, RequestFails
  <2>2. pc[r] # "idle" /\ (pc'[r] = "idle" \/ fresh'[r] = fresh[r])
    BY <1>1, <1>4 DEF RequestStep, ReadThreads, ReadEmails, SaveThread, InsertThread, SaveEmails,
                InsertEmail, RequestFails, End, Goto, TypeInv, TypeOK
  <2>3. \A q \in Requests \ {r} : pc'[q] = pc[q] /\ fresh'[q] = fresh[q]
    BY <1>1, <1>4, OneMoves DEF StandsStill
  <2> QED
    BY <2>1, <2>2, <2>3 DEF Announced
<1>5. CASE Crash
  BY <1>5 DEF Crash, Announced
<1>6. ASSUME NEW e \in handlers, TriggerWorkflow(e) \/ TriggerFails(e)
      PROVE  UNCHANGED requestVars /\ Announced' \subseteq Announced
  BY <1>6 DEF TriggerWorkflow, TriggerFails, Announced
<1>7. CASE UNCHANGED requestVars /\ Announced' \subseteq Announced
  BY <1>7 DEF requestVars
<1> QED
  BY <1>2, <1>3, <1>4, <1>5, <1>6, <1>7 DEF Next, Arrive, vars, Announced

\* Every step of the poller and of the email worker keeps emails accounted for.
LEMMA RepeatsStep == RepeatsInv /\ [PolledNext]_polledVars => RepeatsInv'
<1> SUFFICES ASSUME RepeatsInv, [PolledNext]_polledVars
             PROVE  RepeatsInv'
  OBVIOUS
<1>1. [Next]_vars /\ TypeInv
  BY PolledSteps DEF RepeatsInv, SidInv
<1>2. DocsInv' /\ StoredInv' /\ SidInv' /\ EventsAreOwn'
  BY <1>1, DocsInvStep, StoredStep, SidStep, EventsAreOwnStep DEF RepeatsInv
<1>3. ASSUME NEW m \in Messages
      PROVE  Len(emailDocs'[m]) + Cardinality(InsertingEmail(m)') <= 1 + timeouts' + ends'
  <2>1. IsFiniteSet(InsertingEmail(m)) /\ timeouts \in Nat /\ ends \in Nat
    BY FewAsked DEF RepeatsInv, DocsInv, InsertingEmail
  <2>2. /\ IsFiniteSet(InsertingEmail(m)')
        /\ Cardinality(InsertingEmail(m)') <= 1 + timeouts' + ends'
        /\ timeouts' \in Nat /\ ends' \in Nat
    BY <1>2, FewAskedNext DEF DocsInv, InsertingEmail
  <2>3. Len(emailDocs[m]) \in Nat /\ Len(emailDocs'[m]) \in Nat
    BY <1>1, <1>2, LenProperties DEF SidInv, TypeInv, TypeOK
  <2>4. /\ 1 + timeouts + ends \in Nat /\ 1 + timeouts' + ends' \in Nat
        /\ 1 + timeouts + ends <= 1 + timeouts' + ends'
    BY <2>1, <2>2, TimeoutsGrow, OneMore DEF RepeatsInv
  <2> DEFINE l == Len(emailDocs[m])
             ll == Len(emailDocs'[m])
             S == InsertingEmail(m)
             SS == InsertingEmail(m)'
             n == 1 + timeouts + ends
             nn == 1 + timeouts' + ends'
  <2>5. /\ l \in Nat /\ ll \in Nat /\ n \in Nat /\ nn \in Nat /\ n <= nn
        /\ IsFiniteSet(S) /\ IsFiniteSet(SS) /\ Cardinality(SS) <= nn
    BY <2>1, <2>2, <2>3, <2>4
  <2>6. l + Cardinality(S) <= n
    BY DEF RepeatsInv
  <2>7. \/ ll = l /\ SS \subseteq S
        \/ ll = 0
        \/ \E r \in S : ll = l + 1 /\ SS = S \ {r}
    BY <1>1, EmailsAreCounted
  <2> HIDE DEF l, ll, S, SS, n, nn
  <2>8. ll + Cardinality(SS) <= nn
    BY <2>5, <2>6, <2>7, StillBounded
  <2> QED
    BY <2>8 DEF ll, SS, nn
<1> QED
  BY <1>2, <1>3 DEF RepeatsInv

LEMMA RepeatsInit == PolledInit => RepeatsInv
<1> SUFFICES ASSUME PolledInit
             PROVE  RepeatsInv
  OBVIOUS
<1>1. DocsInv /\ StoredInv /\ SidInv /\ Init
  BY DocsInvInit, StoredInit, SidInit DEF PolledInit
<1>2. EventsAreOwn /\ \A m \in Messages : InsertingEmail(m) = {} /\ emailDocs[m] = <<>>
  BY <1>1 DEF Init, EventsAreOwn, Announced, InsertingEmail
<1>3. timeouts = 0 /\ ends = 0 /\ Cardinality({}) = 0 /\ Len(<<>>) = 0
  BY FS_EmptySet DEF PolledInit, Poller!Init
<1> QED
  BY <1>1, <1>2, <1>3 DEF RepeatsInv

\* A sequence has at most as many elements as it is long.
LEMMA FewInSequence ==
    ASSUME NEW T, NEW s \in Seq(T)
    PROVE  /\ IsFiniteSet({s[i] : i \in DOMAIN s})
           /\ Cardinality({s[i] : i \in DOMAIN s}) \in Nat
           /\ Cardinality({s[i] : i \in DOMAIN s}) <= Len(s)
<1> DEFINE S == {s[i] : i \in DOMAIN s}
<1>1. Len(s) \in Nat /\ DOMAIN s = 1..Len(s) /\ s \in Surjection(1..Len(s), S)
  BY LenProperties DEF Surjection
<1>2. IsFiniteSet(1..Len(s)) /\ Cardinality(1..Len(s)) = Len(s)
  BY <1>1, FS_Interval
<1>3. IsFiniteSet(S) /\ Cardinality(S) <= Cardinality(1..Len(s))
  BY <1>1, <1>2, FS_Surjection
<1> QED
  BY <1>2, <1>3, FS_CardinalityType

\* A message has no more announcements than emails, and a thread no more workflows
\* than documents.
LEMMA FewRepeats ==
    RepeatsInv =>
        /\ RepeatsNeedTimeouts
        /\ \A m \in Messages : IsFiniteSet({e \in Announced : e.message = m})
        /\ \A t \in Threads :
              IsFiniteSet({e.sid : e \in {f \in Announced : ThreadOf[f.message] = t}})
<1> SUFFICES ASSUME RepeatsInv
             PROVE  /\ RepeatsNeedTimeouts
                    /\ \A m \in Messages : IsFiniteSet({e \in Announced : e.message = m})
                    /\ \A t \in Threads :
                          IsFiniteSet({e.sid : e \in {f \in Announced :
                                                         ThreadOf[f.message] = t}})
  OBVIOUS
<1>1. TypeInv /\ AnnouncedIsStored /\ EventsAreOwn /\ timeouts \in Nat /\ ends \in Nat
  BY FewAsked DEF RepeatsInv, StoredInv, DocsInv
<1>2. ASSUME NEW m \in Messages
      PROVE  /\ Cardinality({e \in Announced : e.message = m}) <= 1 + timeouts + ends
             /\ IsFiniteSet({e \in Announced : e.message = m})
  <2> DEFINE S == {e \in Announced : e.message = m}
             f == [e \in S |-> e.eid]
  <2>1. emailDocs[m] \in Seq(Ids)
    BY <1>1 DEF TypeInv, TypeOK
  <2>2. /\ IsFiniteSet(EidsOf(m)) /\ Cardinality(EidsOf(m)) \in Nat
        /\ Cardinality(EidsOf(m)) <= Len(emailDocs[m])
    BY <2>1, FewInSequence DEF EidsOf
  <2>3. f \in Injection(S, EidsOf(m))
    BY <1>1 DEF Injection, IsInjective, AnnouncedIsStored, EventsAreOwn
  <2>4. /\ IsFiniteSet(S)
        /\ Cardinality(S) <= Cardinality(EidsOf(m)) /\ Cardinality(S) \in Nat
    <3> HIDE DEF S, f
    <3> QED
      BY <2>2, <2>3, FS_Injection, FS_CardinalityType
  <2>5. /\ Cardinality(InsertingEmail(m)) \in Nat /\ Len(emailDocs[m]) \in Nat
        /\ Len(emailDocs[m]) + Cardinality(InsertingEmail(m)) <= 1 + timeouts + ends
    BY <2>1, FewAsked, LenProperties DEF RepeatsInv, DocsInv, InsertingEmail
  <2> HIDE DEF S
  <2>6. Cardinality(S) <= 1 + timeouts + ends
    BY <1>1, <2>2, <2>4, <2>5
  <2> QED
    BY <2>4, <2>6 DEF S
<1>3. ASSUME NEW t \in Threads
      PROVE  /\ Cardinality({e.sid : e \in {f \in Announced : ThreadOf[f.message] = t}})
                    <= 1 + timeouts + ends
             /\ IsFiniteSet({e.sid : e \in {f \in Announced : ThreadOf[f.message] = t}})
  <2> DEFINE S == {e.sid : e \in {f \in Announced : ThreadOf[f.message] = t}}
  <2>1. threadDocs[t] \in Seq(ThreadDoc)
    BY <1>1 DEF TypeInv, TypeOK
  <2>2. S \subseteq SidsOf(t)
    BY <1>1 DEF AnnouncedIsStored
  <2>3. /\ IsFiniteSet(SidsOf(t)) /\ Cardinality(SidsOf(t)) \in Nat
        /\ Cardinality(SidsOf(t)) <= Len(threadDocs[t])
    <3> DEFINE sids == [i \in 1..Len(threadDocs[t]) |-> threadDocs[t][i].sid]
    <3>1. Len(threadDocs[t]) \in Nat /\ DOMAIN threadDocs[t] = 1..Len(threadDocs[t])
      BY <2>1, LenProperties
    <3>2. sids \in Seq(Ids)
      BY <1>1, <3>1, DocsAreDocs, IsASeq
    <3>3. Len(sids) = Len(threadDocs[t]) /\ DOMAIN sids = DOMAIN threadDocs[t]
      BY <3>1, <3>2, LenProperties
    <3>4. SidsOf(t) = {sids[i] : i \in DOMAIN sids}
      BY <3>1, <3>3 DEF SidsOf
    <3> HIDE DEF sids
    <3> QED
      BY <3>2, <3>3, <3>4, FewInSequence
  <2>4. IsFiniteSet(S) /\ Cardinality(S) <= Cardinality(SidsOf(t)) /\ Cardinality(S) \in Nat
    <3> HIDE DEF S
    <3> QED
      BY <2>2, <2>3, FS_Subset, FS_CardinalityType
  <2>5. /\ Cardinality(Inserting(t)) \in Nat /\ Len(threadDocs[t]) \in Nat
        /\ Len(threadDocs[t]) + Cardinality(Inserting(t)) <= 1 + timeouts + ends
    BY <2>1, FewAsked, LenProperties DEF RepeatsInv, DocsInv, Inserting
  <2> HIDE DEF S
  <2>6. Cardinality(S) <= 1 + timeouts + ends
    BY <1>1, <2>3, <2>4, <2>5
  <2> QED
    BY <2>4, <2>6 DEF S
<1> QED
  BY <1>2, <1>3 DEF RepeatsNeedTimeouts

\* For any number of attempts, messages, faults and restarts: a message is announced
\* once and a thread has one workflow, and each attempt that timed out and each
\* execution that was ended allows for one more.
THEOREM RepeatedAnnouncementsNeedTimeouts == PolledSpec => []RepeatsNeedTimeouts
BY RepeatsInit, RepeatsStep, FewRepeats, PTL DEF PolledSpec

-----------------------------------------------------------------------------
(* The composition and its parts.                                          *)

\* Of a step of the pipeline, poller and email worker do their share.
LEMMA IngestionSteps == [PipelineNext]_pipelineVars => [PolledNext]_polledVars
<1> SUFFICES ASSUME [PipelineNext]_pipelineVars
             PROVE  PolledNext \/ UNCHANGED polledVars
  OBVIOUS
<1>1. ASSUME NEW e \in handlers, Signal(e)
      PROVE  PolledNext
  BY <1>1 DEF Signal, PolledNext
<1>2. CASE IngestionStep
  BY <1>2 DEF IngestionStep, PolledNext
<1>3. CASE UNCHANGED polledVars
  BY <1>3
<1> QED
  BY <1>1, <1>2, <1>3
  DEF PipelineNext, ExecutionStep, CoreAnswers, FindThread, FindEmails, OtherStep, pipelineVars

\* Every behaviour of the pipeline is one of poller and email worker, so that what is
\* proved of those holds here.
THEOREM PipelineIsPolled == PipelineSpec => PolledSpec
<1>1. PipelineInit => PolledInit
  BY DEF PipelineInit
<1> QED
  BY <1>1, IngestionSteps, PTL DEF PipelineSpec, PolledSpec

\* What an execution of the pipeline does is what one of EmailThreadWorkflow does.
LEMMA SameWorkflow ==
    ASSUME NEW w
    PROVE  /\ \A m : Workflow!SignalWithStart(w, m) => WorkflowFacts!SignalWithStart(w, m)
           /\ Workflow!MaySignal(w) => WorkflowFacts!MaySignal(w)
           /\ Workflow!CompleteThread(w) => WorkflowFacts!CompleteThread(w)
           /\ Workflow!WakeUp(w) => WorkflowFacts!WakeUp(w)
           /\ Workflow!Close(w) => WorkflowFacts!Close(w)
           /\ Workflow!StartAttempt(w) => WorkflowFacts!StartAttempt(w)
           /\ \A b : Workflow!Answer(w, b) => WorkflowFacts!Answer(w, b)
           /\ Workflow!AnswerError(w) => WorkflowFacts!AnswerError(w)
           /\ Workflow!FaultStep(w) => WorkflowFacts!FaultStep(w)
           /\ Workflow!LateAnswer(w) => WorkflowFacts!LateAnswer(w)
<1> USE DEF Workflow!Running, WorkflowFacts!Running, Workflow!Parsing, WorkflowFacts!Parsing,
            Workflow!Sleeping, WorkflowFacts!Sleeping,
            Workflow!CurrentCall, WorkflowFacts!CurrentCall,
            Workflow!Outcomes, WorkflowFacts!Outcomes, Workflow!InHand, WorkflowFacts!InHand,
            Workflow!Drain, WorkflowFacts!Drain, Workflow!Fault, WorkflowFacts!Fault
<1>1. /\ \A m : Workflow!SignalWithStart(w, m) => WorkflowFacts!SignalWithStart(w, m)
      /\ Workflow!MaySignal(w) => WorkflowFacts!MaySignal(w)
  BY DEF Workflow!SignalWithStart, WorkflowFacts!SignalWithStart, Workflow!SignalRunning,
         WorkflowFacts!SignalRunning, Workflow!SignalStarts, WorkflowFacts!SignalStarts,
         Workflow!MaySignal, WorkflowFacts!MaySignal
<1>2. Workflow!CompleteThread(w) => WorkflowFacts!CompleteThread(w)
  BY DEF Workflow!CompleteThread, WorkflowFacts!CompleteThread
<1>3. Workflow!WakeUp(w) => WorkflowFacts!WakeUp(w)
  BY DEF Workflow!WakeUp, WorkflowFacts!WakeUp
<1>4. Workflow!Close(w) => WorkflowFacts!Close(w)
  BY DEF Workflow!Close, WorkflowFacts!Close
<1>5. Workflow!StartAttempt(w) => WorkflowFacts!StartAttempt(w)
  BY DEF Workflow!StartAttempt, WorkflowFacts!StartAttempt
<1>6. \A b : Workflow!Answer(w, b) => WorkflowFacts!Answer(w, b)
  BY DEF Workflow!Answer, WorkflowFacts!Answer, Workflow!ActUpon, WorkflowFacts!ActUpon
<1>7. Workflow!FaultStep(w) => WorkflowFacts!FaultStep(w)
  BY DEF Workflow!FaultStep, WorkflowFacts!FaultStep, Workflow!AttemptTimesOut, WorkflowFacts!AttemptTimesOut,
         Workflow!EndExecution, WorkflowFacts!EndExecution, Workflow!Inbox, WorkflowFacts!Inbox
<1>8. Workflow!LateAnswer(w) => WorkflowFacts!LateAnswer(w)
  BY DEF Workflow!LateAnswer, WorkflowFacts!LateAnswer
<1>9. Workflow!AnswerError(w) => WorkflowFacts!AnswerError(w)
  BY DEF Workflow!AnswerError, WorkflowFacts!AnswerError
<1> QED
  BY <1>1, <1>2, <1>3, <1>4, <1>5, <1>6, <1>7, <1>8, <1>9

\* The workflows of the pipeline do nothing that EmailThreadWorkflow does not: the
\* email worker signals ids and messages.
LEMMA WorkflowSteps ==
    TypeInv /\ [PipelineNext]_pipelineVars => [WorkflowFacts!Next]_(WorkflowFacts!vars)
<1> SUFFICES ASSUME TypeInv, [PipelineNext]_pipelineVars
             PROVE  WorkflowFacts!Next \/ UNCHANGED WorkflowFacts!vars
  OBVIOUS
<1>1. ASSUME NEW e \in handlers, Signal(e)
      PROVE  WorkflowFacts!Next
  <2>1. e.sid \in Ids /\ e.message \in Messages
    BY DEF TypeInv, TypeOK, Event
  <2> QED
    BY <1>1, <2>1, SameWorkflow DEF Signal, WorkflowFacts!Next
<1>2. ASSUME NEW w \in Ids, ExecutionStep(w) \/ CoreAnswers(w)
      PROVE  WorkflowFacts!Next
  BY <1>2, SameWorkflow
  DEF ExecutionStep, CoreAnswers, WorkflowFacts!ExecutionStep, WorkflowFacts!Next
<1>3. CASE OtherStep
  BY <1>3, SameWorkflow DEF OtherStep, WorkflowFacts!Next
<1>4. CASE UNCHANGED workflowVars
  BY <1>4 DEF workflowVars, WorkflowFacts!vars
<1> QED
  BY <1>1, <1>2, <1>3, <1>4 DEF PipelineNext, IngestionStep, FindThread, FindEmails, pipelineVars

\* The empty pipeline has no workflow yet.
LEMMA WorkflowInit == PipelineInit => WorkflowFacts!Init
BY DEF PipelineInit, Workflow!Init, WorkflowFacts!Init

\* Every behaviour of the pipeline is one of the workflows.
THEOREM PipelineIsWorkflow == PipelineSpec => WorkflowFacts!Spec
<1>1. PipelineInit => TypeInv
  BY TypeInit DEF PipelineInit, PolledInit
<1>2. TypeInv /\ [PipelineNext]_pipelineVars => TypeInv'
  BY IngestionSteps, PolledSteps, TypeStep
<1> QED
  BY <1>1, <1>2, WorkflowInit, WorkflowSteps, PTL DEF PipelineSpec, WorkflowFacts!Spec

\* So the workflows of the pipeline keep the promise of the abstract inbox, the worker
\* loses announcements by faults only, and a Gmail thread has one story while the
\* poller is answered in time.
THEOREM PartsKeepTheirPromises ==
    PipelineSpec => WorkflowFacts!ImplementsInbox /\ LossesAreOwned /\ []OneStoryPerThread
<1>1. WorkflowFacts!Spec => WorkflowFacts!ImplementsInbox
  BY IngestionAssumption, PipelineAssumption, WorkflowFacts!WorkflowImplementsInbox
<1> QED
  BY <1>1, PolledEventsAreSound, OneStory, PipelineIsPolled, PipelineIsWorkflow, PTL

-----------------------------------------------------------------------------
(* What is accepted was signalled, and what is signalled is stored.        *)

\* What is accepted under a workflow id was signalled under it.
AcceptedIsSignalled ==
    \A w \in Ids : \A i \in DOMAIN accepted[w] :
        \E e \in signalled : e.sid = w /\ e.message = accepted[w][i]

\* What the two parts promise, and what relates them: inductive however the
\* requests of the email worker overlap.
SignalInv == StoredInv /\ WorkflowFacts!FifoInv /\ AcceptedIsSignalled

\* The types of the workflows' part.
LEMMA AcceptedType ==
    ASSUME SignalInv, NEW w \in Ids
    PROVE  accepted[w] \in Seq(Messages) /\ settled[w] \in Seq(WorkflowFacts!Settlement)
BY DEF SignalInv, WorkflowFacts!FifoInv, WorkflowFacts!TypeInv, WorkflowFacts!TypeOK

\* A trigger is the only step that has a message accepted, and the only one that
\* signals.
LEMMA AcceptedChange ==
    ASSUME SignalInv, [PipelineNext]_pipelineVars
    PROVE  \/ UNCHANGED <<accepted, signalled>>
           \/ \E e \in handlers : /\ e.sid \in Ids /\ e.message \in Messages
                                  /\ signalled' = signalled \cup {e}
                                  /\ accepted' = [accepted EXCEPT ![e.sid] = Append(@, e.message)]
                                  /\ UNCHANGED <<calls, reads>>
<1>1. ASSUME NEW e \in handlers, Signal(e)
      PROVE  /\ e.sid \in Ids /\ e.message \in Messages
             /\ signalled' = signalled \cup {e}
             /\ accepted' = [accepted EXCEPT ![e.sid] = Append(@, e.message)]
             /\ UNCHANGED <<calls, reads>>
  <2>1. e.sid \in Ids /\ e.message \in Messages
    BY DEF SignalInv, StoredInv, TypeInv,
           TypeOK, Event
  <2> QED
    BY <1>1, <2>1
    DEF Signal, Trigger, TriggerWorkflow, Workflow!SignalWithStart, Workflow!SignalRunning,
        Workflow!SignalStarts
<1>2. CASE IngestionStep
  <2>1. UNCHANGED signalled
    BY <1>2
    DEF IngestionStep, Poll, Answer, PollerStep, MailStep, WorkerStep, vars, Arrive, Fetch,
        RequestStep, ReadThreads, ReadEmails, SaveThread, InsertThread, SaveEmails,
        InsertEmail, Publish, Recorded, RequestFails, TriggerFails, Crash
  <2> QED
    BY <1>2, <2>1 DEF IngestionStep, workflowVars
<1>3. UNCHANGED polledVars => UNCHANGED signalled
  BY DEF polledVars, vars
<1>4. ASSUME NEW w \in Ids, ExecutionStep(w) \/ CoreAnswers(w)
      PROVE  UNCHANGED <<accepted, signalled>>
  BY <1>3, <1>4
  DEF ExecutionStep, CoreAnswers, Workflow!WakeUp, Workflow!Close, Workflow!StartAttempt,
      Workflow!Answer
<1>5. CASE OtherStep
  BY <1>3, <1>5
  DEF OtherStep, Workflow!FaultStep, Workflow!AnswerError, Workflow!AttemptTimesOut,
      Workflow!EndExecution, Workflow!CompleteThread, Workflow!LateAnswer
<1> QED
  BY <1>1, <1>2, <1>3, <1>4, <1>5
  DEF PipelineNext, FindThread, FindEmails, pipelineVars, workflowVars

\* Appending to what is accepted under an id.
LEMMA AcceptedAppended ==
    ASSUME SignalInv, NEW v \in Ids, NEW m \in Messages,
           accepted' = [accepted EXCEPT ![v] = Append(@, m)]
    PROVE  /\ \A w \in Ids \ {v} : accepted'[w] = accepted[w]
           /\ DOMAIN accepted'[v] = DOMAIN accepted[v] \cup {Len(accepted[v]) + 1}
           /\ accepted'[v][Len(accepted[v]) + 1] = m
           /\ \A i \in DOMAIN accepted[v] : accepted'[v][i] = accepted[v][i]
<1> DEFINE s == accepted[v]
<1>1. /\ s \in Seq(Messages)
      /\ accepted'[v] = Append(s, m)
      /\ \A w \in Ids \ {v} : accepted'[w] = accepted[w]
  BY AcceptedType
  DEF SignalInv, WorkflowFacts!FifoInv, WorkflowFacts!TypeInv, WorkflowFacts!TypeOK
<1>2. /\ DOMAIN Append(s, m) = DOMAIN s \cup {Len(s) + 1}
      /\ Append(s, m)[Len(s) + 1] = m
      /\ \A i \in DOMAIN s : Append(s, m)[i] = s[i]
  <2> HIDE DEF s
  <2> QED
    BY <1>1
<1> QED
  BY <1>1, <1>2

\* A message is accepted and signalled in one step.
LEMMA SignalledStep ==
    ASSUME SignalInv, [PipelineNext]_pipelineVars
    PROVE  AcceptedIsSignalled'
<1>1. CASE UNCHANGED <<accepted, signalled>>
  BY <1>1 DEF SignalInv, AcceptedIsSignalled
<1>2. ASSUME NEW e \in handlers, e.sid \in Ids, e.message \in Messages,
             signalled' = signalled \cup {e},
             accepted' = [accepted EXCEPT ![e.sid] = Append(@, e.message)]
      PROVE  AcceptedIsSignalled'
  <2>1. ASSUME NEW w \in Ids, NEW i \in DOMAIN accepted'[w]
        PROVE  \E f \in signalled' : f.sid = w /\ f.message = accepted'[w][i]
    <3>1. CASE w = e.sid /\ i = Len(accepted[w]) + 1
      BY <1>2, <3>1, AcceptedAppended
    <3>2. CASE i \in DOMAIN accepted[w]
      <4>1. accepted'[w][i] = accepted[w][i]
        BY <1>2, <3>2, AcceptedAppended
      <4> QED
        BY <1>2, <3>2, <4>1 DEF SignalInv, AcceptedIsSignalled
    <3> QED
      BY <1>2, <2>1, <3>1, <3>2, AcceptedAppended
  <2> QED
    BY <2>1 DEF AcceptedIsSignalled
<1> QED
  BY <1>1, <1>2, AcceptedChange

LEMMA SignalStep == SignalInv /\ [PipelineNext]_pipelineVars => SignalInv'
<1> SUFFICES ASSUME SignalInv, [PipelineNext]_pipelineVars
             PROVE  SignalInv'
  OBVIOUS
<1>1. StoredInv'
  BY IngestionSteps, PolledSteps, StoredStep DEF SignalInv
<1>2. TypeInv
  BY DEF SignalInv, StoredInv
<1>3. WorkflowFacts!FifoInv'
  BY <1>2, IngestionAssumption, PipelineAssumption, WorkflowSteps, WorkflowFacts!FifoStep
  DEF SignalInv
<1> QED
  BY <1>1, <1>3, SignalledStep DEF SignalInv

LEMMA SignalInit == PipelineInit => SignalInv
<1> SUFFICES ASSUME PipelineInit
             PROVE  SignalInv
  OBVIOUS
<1>1. StoredInv
  BY StoredInit DEF PipelineInit, PolledInit
<1>2. WorkflowFacts!FifoInv
  BY IngestionAssumption, PipelineAssumption, WorkflowInit, WorkflowFacts!FifoInit
<1>3. \A w \in Ids : accepted[w] = <<>>
  BY DEF PipelineInit, Workflow!Init
<1> QED
  BY <1>1, <1>2, <1>3 DEF SignalInv, AcceptedIsSignalled

\* What a workflow has settled, has in hand and has queued.
Handled(w) == WorkflowFacts!MessagesOf(settled[w]) \o WorkflowFacts!Inbox(w)

HandledIsStored ==
    \A w \in Ids : \A i \in DOMAIN Handled(w) :
        \E e \in signalled : /\ e.sid = w /\ e.message = Handled(w)[i]
                             /\ w \in SidsOf(ThreadOf[e.message])
                             /\ e.eid \in EidsOf(e.message)

\* From one end of the pipeline to the other, however requests overlap and whatever
\* fails: a message that a workflow settles, has in hand or queues was signalled
\* under its id, and is stored, in a thread document of its Gmail thread with that id.
THEOREM HandledMessagesAreStored == PipelineSpec => []HandledIsStored
<1>1. SignalInv => HandledIsStored
  <2> SUFFICES ASSUME SignalInv, NEW w \in Ids, NEW i \in DOMAIN Handled(w)
               PROVE  \E e \in signalled : /\ e.sid = w /\ e.message = Handled(w)[i]
                                           /\ w \in SidsOf(ThreadOf[e.message])
                                           /\ e.eid \in EidsOf(e.message)
    BY DEF HandledIsStored
  <2>1. Handled(w) = accepted[w]
    BY DEF SignalInv, WorkflowFacts!FifoInv, WorkflowFacts!FifoConserved, Handled
  <2>2. PICK e \in signalled : e.sid = w /\ e.message = Handled(w)[i]
    BY <2>1 DEF SignalInv, AcceptedIsSignalled
  <2>3. e.sid \in SidsOf(ThreadOf[e.message]) /\ e.eid \in EidsOf(e.message)
    BY DEF SignalInv, StoredInv, AnnouncedIsStored, Announced
  <2> QED
    BY <2>2, <2>3
<1> QED
  BY <1>1, SignalInit, SignalStep, PTL DEF PipelineSpec

-----------------------------------------------------------------------------
(* What is accepted twice.                                                 *)

\* The places of a message among what was accepted, under whatever id.
Acceptances(m) ==
    {p \in Ids \X Nat : p[2] \in DOMAIN accepted[p[1]] /\ accepted[p[1]][p[2]] = m}

SignalsOf(m) == {e \in signalled : e.message = m}

\* A message is accepted as often as it was signalled, and no event is signalled
\* twice.
AcceptedAsSignalled ==
    /\ handlers \cap signalled = {}
    /\ \A m \in Messages : /\ IsFiniteSet(Acceptances(m))
                           /\ IsFiniteSet(SignalsOf(m))
                           /\ Cardinality(Acceptances(m)) = Cardinality(SignalsOf(m))

AcceptedInv == RepeatsInv /\ SignalInv /\ AcceptedAsSignalled

\* However requests overlap: the workflows of a Gmail thread, and the times that one
\* of its messages is accepted by a workflow, are paid for by timeouts.
AcceptedNeedTimeouts ==
    /\ \A m \in Messages : Cardinality(Acceptances(m)) <= 1 + timeouts + ends
    /\ \A t \in Threads :
          Cardinality({w \in Ids : \E i \in DOMAIN accepted[w] : ThreadOf[accepted[w][i]] = t})
              <= 1 + timeouts + ends

\* An event that starts a handler is new.
LEMMA HandlersAreNew ==
    ASSUME AcceptedInv, [Next]_vars
    PROVE  (handlers \cap signalled)' = {}
<1>1. ASSUME NEW r \in Requests, Publish(r)
      PROVE  (handlers \cap signalled)' = {}
  <2>1. pc[r] # "idle" /\ EventOf(r).eid = fresh[r]
    BY <1>1 DEF Publish, Recorded, EventOf
  <2>2. EventOf(r) \notin Announced
    BY <2>1 DEF AcceptedInv, RepeatsInv, EventsAreOwn
  <2> QED
    BY <1>1, <2>2 DEF Publish, Recorded, Announced, AcceptedInv, AcceptedAsSignalled
<1>2. ASSUME NEW e \in handlers, TriggerWorkflow(e) \/ TriggerFails(e)
      PROVE  (handlers \cap signalled)' = {}
  BY <1>2 DEF TriggerWorkflow, TriggerFails, AcceptedInv, AcceptedAsSignalled
<1>3. CASE signalled' = signalled /\ handlers' \in {handlers, {}}
  BY <1>3 DEF AcceptedInv, AcceptedAsSignalled
<1> QED
  BY <1>1, <1>2, <1>3
  DEF Next, RequestStep, Arrive, Fetch, ReadThreads, ReadEmails, SaveThread, InsertThread,
      SaveEmails, InsertEmail, RequestFails, Crash, vars

\* A trigger adds a place to the message it signals, and an event to its signals.
LEMMA AcceptedAsSignalledStep ==
    ASSUME AcceptedInv, [PipelineNext]_pipelineVars
    PROVE  AcceptedAsSignalled'
<1>1. (handlers \cap signalled)' = {}
  BY IngestionSteps, PolledSteps, HandlersAreNew
<1>2. CASE UNCHANGED <<accepted, signalled>>
  BY <1>1, <1>2 DEF AcceptedInv, AcceptedAsSignalled, Acceptances, SignalsOf
<1>3. ASSUME NEW e \in handlers, e.sid \in Ids, e.message \in Messages,
             signalled' = signalled \cup {e},
             accepted' = [accepted EXCEPT ![e.sid] = Append(@, e.message)]
      PROVE  AcceptedAsSignalled'
  <2> DEFINE n == Len(accepted[e.sid]) + 1
  <2>1. /\ \A w \in Ids \ {e.sid} : accepted'[w] = accepted[w]
        /\ DOMAIN accepted'[e.sid] = DOMAIN accepted[e.sid] \cup {n}
        /\ accepted'[e.sid][n] = e.message
        /\ \A i \in DOMAIN accepted[e.sid] : accepted'[e.sid][i] = accepted[e.sid][i]
    BY <1>3, AcceptedAppended DEF AcceptedInv
  <2>2. n \in Nat /\ n \notin DOMAIN accepted[e.sid]
    BY <1>3, AcceptedType, LenProperties DEF AcceptedInv
  <2> HIDE DEF n
  <2>3. /\ <<e.sid, n>> \notin Acceptances(e.message)
        /\ Acceptances(e.message)' = Acceptances(e.message) \cup {<<e.sid, n>>}
    BY <1>3, <2>1, <2>2 DEF Acceptances
  <2>4. /\ e \notin SignalsOf(e.message)
        /\ SignalsOf(e.message)' = SignalsOf(e.message) \cup {e}
    BY <1>3 DEF SignalsOf, AcceptedInv, AcceptedAsSignalled
  <2>5. ASSUME NEW m \in Messages
        PROVE  /\ IsFiniteSet(Acceptances(m)')
               /\ IsFiniteSet(SignalsOf(m)')
               /\ Cardinality(Acceptances(m)') = Cardinality(SignalsOf(m)')
    <3>1. /\ IsFiniteSet(Acceptances(m)) /\ IsFiniteSet(SignalsOf(m))
          /\ Cardinality(Acceptances(m)) = Cardinality(SignalsOf(m))
      BY DEF AcceptedInv, AcceptedAsSignalled
    <3>2. CASE m = e.message
      <4>1. /\ IsFiniteSet(Acceptances(m)')
            /\ Cardinality(Acceptances(m)') = Cardinality(Acceptances(m)) + 1
        BY <2>3, <3>1, <3>2, FS_AddElement
      <4>2. /\ IsFiniteSet(SignalsOf(m)')
            /\ Cardinality(SignalsOf(m)') = Cardinality(SignalsOf(m)) + 1
        BY <2>4, <3>1, <3>2, FS_AddElement
      <4> QED
        BY <3>1, <4>1, <4>2
    <3>3. CASE m # e.message
      <4>1. Acceptances(m)' = Acceptances(m)
        BY <1>3, <2>1, <3>3 DEF Acceptances
      <4>2. SignalsOf(m)' = SignalsOf(m)
        BY <1>3, <3>3 DEF SignalsOf
      <4> QED
        BY <3>1, <4>1, <4>2
    <3> QED
      BY <3>2, <3>3
  <2> QED
    BY <1>1, <2>5 DEF AcceptedAsSignalled
<1> QED
  BY <1>2, <1>3, AcceptedChange DEF AcceptedInv

LEMMA AcceptedInit == PipelineInit => AcceptedInv
<1> SUFFICES ASSUME PipelineInit
             PROVE  AcceptedInv
  OBVIOUS
<1>1. RepeatsInv /\ SignalInv
  BY RepeatsInit, SignalInit DEF PipelineInit
<1>2. handlers = {} /\ signalled = {} /\ \A w \in Ids : accepted[w] = <<>>
  BY DEF PipelineInit, PolledInit, Init, Workflow!Init
<1>3. \A m \in Messages : Acceptances(m) = {} /\ SignalsOf(m) = {}
  BY <1>2 DEF Acceptances, SignalsOf
<1> QED
  BY <1>1, <1>2, <1>3, FS_EmptySet DEF AcceptedInv, AcceptedAsSignalled

\* For any number of messages, attempts, signals and faults: a message is accepted by
\* one workflow and once, and each timed-out attempt and each ended polling execution
\* allows for one more workflow of its thread, or for it to be accepted once more.
THEOREM AcceptedTwiceNeedsTimeout == PipelineSpec => []AcceptedNeedTimeouts
<1>1. AcceptedInv => AcceptedNeedTimeouts
  <2> SUFFICES ASSUME AcceptedInv
               PROVE  AcceptedNeedTimeouts
    OBVIOUS
  <2>1. /\ RepeatsNeedTimeouts /\ timeouts \in Nat /\ ends \in Nat
        /\ \A m \in Messages : IsFiniteSet({e \in Announced : e.message = m})
        /\ \A t \in Threads :
              IsFiniteSet({e.sid : e \in {f \in Announced : ThreadOf[f.message] = t}})
    BY FewRepeats, FewAsked DEF AcceptedInv, RepeatsInv, DocsInv
  <2>2. ASSUME NEW m \in Messages
        PROVE  Cardinality(Acceptances(m)) <= 1 + timeouts + ends
    <3> DEFINE S == {e \in Announced : e.message = m}
    <3>1. SignalsOf(m) \in SUBSET S
      BY DEF SignalsOf, Announced
    <3>2. IsFiniteSet(S) /\ Cardinality(S) <= 1 + timeouts + ends
      BY <2>1 DEF RepeatsNeedTimeouts
    <3>3. /\ Cardinality(Acceptances(m)) = Cardinality(SignalsOf(m))
          /\ IsFiniteSet(SignalsOf(m))
      BY DEF AcceptedInv, AcceptedAsSignalled
    <3> HIDE DEF S
    <3>4. Cardinality(SignalsOf(m)) <= Cardinality(S)
      BY <3>1, <3>2, FS_Subset
    <3>5. Cardinality(SignalsOf(m)) \in Nat /\ Cardinality(S) \in Nat
      BY <3>2, <3>3, FS_CardinalityType
    <3> QED
      BY <2>1, <3>2, <3>3, <3>4, <3>5
  <2>3. ASSUME NEW t \in Threads
        PROVE  Cardinality({w \in Ids :
                              \E i \in DOMAIN accepted[w] : ThreadOf[accepted[w][i]] = t})
                   <= 1 + timeouts + ends
    <3> DEFINE S == {e.sid : e \in {f \in Announced : ThreadOf[f.message] = t}}
               W == {w \in Ids : \E i \in DOMAIN accepted[w] : ThreadOf[accepted[w][i]] = t}
    <3>1. W \in SUBSET S
      BY DEF AcceptedInv, SignalInv, AcceptedIsSignalled, Announced
    <3>2. IsFiniteSet(S) /\ Cardinality(S) <= 1 + timeouts + ends
      BY <2>1 DEF RepeatsNeedTimeouts
    <3> HIDE DEF S, W
    <3>3. IsFiniteSet(W) /\ Cardinality(W) <= Cardinality(S)
      BY <3>1, <3>2, FS_Subset
    <3>4. Cardinality(W) \in Nat /\ Cardinality(S) \in Nat
      BY <3>2, <3>3, FS_CardinalityType
    <3>5. Cardinality(W) <= 1 + timeouts + ends
      BY <2>1, <3>2, <3>3, <3>4
    <3> QED
      BY <3>5 DEF W
  <2> QED
    BY <2>2, <2>3 DEF AcceptedNeedTimeouts
<1>2. AcceptedInv /\ [PipelineNext]_pipelineVars => AcceptedInv'
  BY IngestionSteps, RepeatsStep, SignalStep, AcceptedAsSignalledStep DEF AcceptedInv
<1> QED
  BY <1>1, <1>2, AcceptedInit, PTL DEF PipelineSpec

-----------------------------------------------------------------------------
(* What is read is there.                                                  *)

\* No message is accepted twice.
AcceptedOnce ==
    \A w \in Ids : \A i, j \in DOMAIN accepted[w] : accepted[w][i] = accepted[w][j] => i = j

\* A call is about a message that was accepted.
CallsCounted ==
    \A c \in calls : c.workflow \in Ids /\ c.number \in 1..Len(accepted[c.workflow])

\* A call has read what was accepted up to its message.
ReadsOfCalls ==
    \A x \in reads : /\ x.call \in calls
                     /\ UpTo(x.call) \subseteq x.listed
                     /\ x.found # None => UpTo(x.call) \subseteq x.found

PipelineInv ==
    /\ SoloInv
    /\ WorkflowFacts!FifoInv
    /\ AcceptedIsSignalled
    /\ AcceptedOnce
    /\ CallsCounted
    /\ ReadsOfCalls

LEMMA PipelineSignals == PipelineInv => SignalInv
BY DEF PipelineInv, SignalInv, SoloInv

\* UpTo by the numbers of the messages.
LEMMA UpToNumber ==
    ASSUME NEW c, NEW s \in Seq(Messages), s = accepted[c.workflow], c.number \in 1..Len(s)
    PROVE  UpTo(c) = {s[i] : i \in 1..c.number}
<1> DEFINE n == c.number
<1>1. n \in Int /\ 1 \in Int /\ \A i \in 1..n : s[i] \in Messages
  OBVIOUS
<1>2. /\ SubSeq(s, 1, n) \in Seq(Messages)
      /\ Len(SubSeq(s, 1, n)) = n
      /\ \A i \in 1..n : SubSeq(s, 1, n)[i] = s[i]
  <2> HIDE DEF n
  <2>1. /\ SubSeq(s, 1, n) \in Seq(Messages)
        /\ Len(SubSeq(s, 1, n)) = IF 1 <= n THEN n - 1 + 1 ELSE 0
        /\ \A i \in 1..n - 1 + 1 : SubSeq(s, 1, n)[i] = s[1 + i - 1]
    BY <1>1, SubSeqProperties
  <2>2. 1 <= n
    BY DEF n
  <2> QED
    BY <1>1, <2>1, <2>2
<1>3. DOMAIN SubSeq(s, 1, n) = 1..n
  BY <1>2
<1> HIDE DEF n
<1>4. {SubSeq(s, 1, n)[i] : i \in DOMAIN SubSeq(s, 1, n)} = {s[i] : i \in 1..n}
  BY <1>2, <1>3
<1> QED
  BY <1>4 DEF UpTo, MessagesIn, n

\* Every accepted message is in what the core service would read.
LEMMA AcceptedIsRead ==
    ASSUME PipelineInv, NEW w \in Ids, NEW i \in DOMAIN accepted[w]
    PROVE  accepted[w][i] \in ListedUnder(w) \cap Stored
<1> DEFINE m == accepted[w][i]
           t == ThreadOf[m]
<1> USE IngestionAssumption DEF PipelineInv, SoloInv, StoredInv
<1>1. m \in Messages /\ t \in Threads
  BY PipelineSignals, AcceptedType, ElementOfSeq
<1>2. w \in SidsOf(t) /\ \E k : k \in EidsOf(m)
  BY DEF AcceptedIsSignalled, AnnouncedIsStored, Announced
<1>3. emailDocs[m] # <<>>
  BY <1>2 DEF EidsOf
<1>4. m \in ListedIn(t)
  BY <1>1, <1>3 DEF StoredIsListed, IsStored
<1>5. PICK j \in DOMAIN threadDocs[t] : m \in threadDocs[t][j].messageIds
  BY <1>4 DEF ListedIn
<1>6. PICK k \in DOMAIN threadDocs[t] : threadDocs[t][k].sid = w
  BY <1>2 DEF SidsOf
<1>7. threadDocs[t] \in Seq(ThreadDoc) /\ Len(threadDocs[t]) <= 1
  BY <1>1 DEF SingleDocs, TypeInv, TypeOK
<1>8. j = k
  BY <1>5, <1>6, <1>7
<1>9. m \in ListedUnder(w)
  BY <1>1, <1>5, <1>6, <1>8 DEF ListedUnder
<1> QED
  BY <1>1, <1>3, <1>9 DEF Stored

\* So is everything up to the message of a call.
LEMMA UpToIsRead ==
    ASSUME PipelineInv, NEW c \in calls
    PROVE  UpTo(c) \subseteq ListedUnder(c.workflow) \cap Stored
<1>1. /\ c.workflow \in Ids
      /\ accepted[c.workflow] \in Seq(Messages)
      /\ c.number \in 1..Len(accepted[c.workflow])
  BY PipelineSignals, AcceptedType DEF PipelineInv, CallsCounted
<1>2. UpTo(c) = {accepted[c.workflow][i] : i \in 1..c.number}
  BY <1>1, UpToNumber
<1>3. \A i \in 1..c.number : i \in DOMAIN accepted[c.workflow]
  BY <1>1
<1> QED
  BY <1>1, <1>2, <1>3, AcceptedIsRead

\* No message is accepted twice: what a handler holds was not signalled before,
\* and a message has one event.
LEMMA AcceptedStep ==
    ASSUME PipelineInv, [PipelineNext]_pipelineVars
    PROVE  AcceptedOnce'
<1>1. CASE UNCHANGED accepted
  BY <1>1 DEF PipelineInv, AcceptedOnce
<1>2. ASSUME NEW e \in handlers, e.sid \in Ids, e.message \in Messages,
             accepted' = [accepted EXCEPT ![e.sid] = Append(@, e.message)]
      PROVE  AcceptedOnce'
  <2>1. /\ \A w \in Ids \ {e.sid} : accepted'[w] = accepted[w]
        /\ DOMAIN accepted'[e.sid] = DOMAIN accepted[e.sid] \cup {Len(accepted[e.sid]) + 1}
        /\ accepted'[e.sid][Len(accepted[e.sid]) + 1] = e.message
        /\ \A i \in DOMAIN accepted[e.sid] : accepted'[e.sid][i] = accepted[e.sid][i]
    BY <1>2, PipelineSignals, AcceptedAppended
  <2>2. \A i \in DOMAIN accepted[e.sid] : accepted[e.sid][i] # e.message
    <3> SUFFICES ASSUME NEW i \in DOMAIN accepted[e.sid], accepted[e.sid][i] = e.message
                 PROVE  FALSE
      OBVIOUS
    <3>1. PICK f \in signalled : f.message = e.message
      BY <1>2 DEF PipelineInv, AcceptedIsSignalled
    <3>2. AnnouncedOnce
      BY SoloIsOneStory DEF PipelineInv
    <3>3. e = f
      BY <3>1, <3>2 DEF AnnouncedOnce, Announced
    <3> QED
      BY <3>3 DEF PipelineInv, SoloInv
  <2>3. ASSUME NEW w \in Ids, NEW i \in DOMAIN accepted'[w], NEW j \in DOMAIN accepted'[w],
               accepted'[w][i] = accepted'[w][j]
        PROVE  i = j
    <3>1. \A k, l \in DOMAIN accepted[w] : accepted[w][k] = accepted[w][l] => k = l
      BY DEF PipelineInv, AcceptedOnce
    <3> QED
      BY <2>1, <2>2, <2>3, <3>1
  <2> QED
    BY <2>3 DEF AcceptedOnce
<1> QED
  BY <1>1, <1>2, PipelineSignals, AcceptedChange

\* What was accepted stays accepted, in its place.
LEMMA AcceptedGrows ==
    ASSUME PipelineInv, [PipelineNext]_pipelineVars, NEW w \in Ids
    PROVE  /\ accepted'[w] \in Seq(Messages)
           /\ Len(accepted[w]) <= Len(accepted'[w])
           /\ \A i \in 1..Len(accepted[w]) : accepted'[w][i] = accepted[w][i]
<1>1. accepted[w] \in Seq(Messages)
  BY PipelineSignals, AcceptedType
<1>2. CASE UNCHANGED accepted
  BY <1>1, <1>2
<1>3. ASSUME NEW e \in handlers, e.sid \in Ids, e.message \in Messages,
             accepted' = [accepted EXCEPT ![e.sid] = Append(@, e.message)]
      PROVE  /\ accepted'[w] \in Seq(Messages)
             /\ Len(accepted[w]) <= Len(accepted'[w])
             /\ \A i \in 1..Len(accepted[w]) : accepted'[w][i] = accepted[w][i]
  <2>1. accepted'[w] \in {accepted[w], Append(accepted[w], e.message)}
    BY <1>3 DEF PipelineInv, WorkflowFacts!FifoInv, WorkflowFacts!TypeInv, WorkflowFacts!TypeOK
  <2>2. CASE accepted'[w] = accepted[w]
    BY <1>1, <2>2
  <2>3. CASE accepted'[w] = Append(accepted[w], e.message)
    BY <1>1, <1>3, <2>3
  <2> QED
    BY <2>1, <2>2, <2>3
<1> QED
  BY <1>2, <1>3, PipelineSignals, AcceptedChange

\* Something follows what comes before it.
LEMMA NextInLine ==
    ASSUME NEW before \in Seq(Messages), NEW m \in Messages, NEW after \in Seq(Messages),
           NEW n \in Nat, Len(before) = n
    PROVE  n + 1 \in 1..Len(before \o (<<m>> \o after))
<1>1. <<m>> \o after \in Seq(Messages) /\ Len(<<m>> \o after) = 1 + Len(after)
  OBVIOUS
<1>2. Len(before \o (<<m>> \o after)) = n + (1 + Len(after)) /\ Len(after) \in Nat
  BY <1>1
<1> QED
  BY <1>2

\* The message in hand was accepted: it is the first that is not settled.
LEMMA CurrentIsAccepted ==
    ASSUME PipelineInv, NEW w \in Ids, Workflow!Parsing(w)
    PROVE  Len(settled[w]) + 1 \in 1..Len(accepted[w])
<1>1. WorkflowFacts!TypeInv /\ WorkflowFacts!FifoConserved
  BY DEF PipelineInv, WorkflowFacts!FifoInv
<1>2. /\ current[w] \in Messages /\ WorkflowFacts!InHand(w) = <<current[w]>>
      /\ queue[w] \in Seq(Messages)
  BY <1>1, IngestionAssumption
  DEF WorkflowFacts!TypeInv, WorkflowFacts!TypeOK, WorkflowFacts!Hands,
      WorkflowFacts!InHand, WorkflowFacts!Parsing, WorkflowFacts!Running,
      Workflow!Parsing, Workflow!Running
<1>3. accepted[w] = WorkflowFacts!MessagesOf(settled[w]) \o (<<current[w]>> \o queue[w])
  BY <1>1, <1>2 DEF WorkflowFacts!FifoConserved, WorkflowFacts!Inbox
<1>4. settled[w] \in Seq(WorkflowFacts!Settlement)
  BY PipelineSignals, AcceptedType
<1>5. /\ WorkflowFacts!MessagesOf(settled[w]) \in Seq(Messages)
      /\ Len(WorkflowFacts!MessagesOf(settled[w])) = Len(settled[w])
      /\ Len(settled[w]) \in Nat
  BY <1>4, IngestionAssumption, PipelineAssumption, WorkflowFacts!MessagesOfType
<1> QED
  BY <1>2, <1>3, <1>5, NextInLine

\* Only StartAttempt makes a call.
LEMMA CallsChange ==
    ASSUME [PipelineNext]_pipelineVars
    PROVE  \/ calls' \subseteq calls
           \/ \E w \in Ids : Workflow!Parsing(w) /\ calls' = calls \cup {Workflow!CurrentCall(w)}
BY DEF PipelineNext, Signal, IngestionStep, ExecutionStep, CoreAnswers, FindThread, FindEmails, OtherStep,
       Workflow!SignalWithStart, Workflow!SignalRunning, Workflow!SignalStarts,
       Workflow!WakeUp, Workflow!Close, Workflow!StartAttempt, Workflow!Answer,
       Workflow!FaultStep, Workflow!AnswerError, Workflow!AttemptTimesOut,
       Workflow!EndExecution, Workflow!CompleteThread, Workflow!LateAnswer,
       pipelineVars, workflowVars

\* Calls stay about accepted messages.
LEMMA CallsStep ==
    ASSUME PipelineInv, [PipelineNext]_pipelineVars
    PROVE  CallsCounted'
<1>1. ASSUME NEW c, c.workflow \in Ids, c.number \in 1..Len(accepted[c.workflow])
      PROVE  c.workflow \in Ids /\ c.number \in 1..Len(accepted'[c.workflow])
  <2>1. accepted[c.workflow] \in Seq(Messages)
    BY <1>1, PipelineSignals, AcceptedType
  <2>2. /\ accepted'[c.workflow] \in Seq(Messages)
        /\ Len(accepted[c.workflow]) <= Len(accepted'[c.workflow])
    BY <1>1, AcceptedGrows
  <2> QED
    BY <1>1, <2>1, <2>2
<1>2. ASSUME NEW w \in Ids, Workflow!Parsing(w)
      PROVE  LET c == Workflow!CurrentCall(w) IN
             c.workflow \in Ids /\ c.number \in 1..Len(accepted[c.workflow])
  BY <1>2, CurrentIsAccepted DEF Workflow!CurrentCall
<1> QED
  BY <1>1, <1>2, CallsChange DEF PipelineInv, CallsCounted

\* What a call has to read does not change under it.
LEMMA UpToStays ==
    ASSUME PipelineInv, [PipelineNext]_pipelineVars, NEW c \in calls
    PROVE  UpTo(c)' = UpTo(c)
<1> DEFINE s == accepted[c.workflow]
           ss == accepted'[c.workflow]
<1>1. c.workflow \in Ids /\ c.number \in 1..Len(s) /\ s \in Seq(Messages)
  BY PipelineSignals, AcceptedType DEF PipelineInv, CallsCounted
<1>2. /\ ss \in Seq(Messages) /\ Len(s) <= Len(ss)
      /\ \A i \in 1..Len(s) : ss[i] = s[i]
  BY <1>1, AcceptedGrows
<1> HIDE DEF s, ss
<1>3. SubSeq(ss, 1, c.number) = SubSeq(s, 1, c.number)
  BY <1>1, <1>2
<1> QED
  BY <1>3 DEF UpTo, s, ss

\* A call reads what is there, first the thread, then the emails.
LEMMA ReadsStep ==
    ASSUME PipelineInv, [PipelineNext]_pipelineVars
    PROVE  ReadsOfCalls'
<1> DEFINE Good(x) == /\ UpTo(x.call) \subseteq x.listed
                      /\ x.found # None => UpTo(x.call) \subseteq x.found
<1>1. \A x \in reads : x.call \in calls /\ Good(x)
  BY DEF PipelineInv, ReadsOfCalls
<1>2. ASSUME \A x \in reads' : x.call \in calls /\ x.call \in calls' /\ Good(x)
      PROVE  ReadsOfCalls'
  <2> SUFFICES ASSUME NEW x \in reads'
               PROVE  /\ x.call \in calls'
                      /\ UpTo(x.call)' \subseteq x.listed
                      /\ x.found # None => UpTo(x.call)' \subseteq x.found
    BY DEF ReadsOfCalls
  <2>1. x.call \in calls /\ x.call \in calls' /\ Good(x)
    BY <1>2
  <2>2. UpTo(x.call)' = UpTo(x.call)
    BY <2>1, UpToStays
  <2> QED
    BY <2>1, <2>2
<1>3. ASSUME NEW c \in calls, FindThread(c)
      PROVE  ReadsOfCalls'
  <2> DEFINE x == [call |-> c, listed |-> ListedUnder(c.workflow), found |-> None]
  <2>1. reads' = reads \cup {x} /\ calls' = calls
    BY <1>3 DEF FindThread, workflowVars
  <2>2. UpTo(c) \subseteq ListedUnder(c.workflow)
    BY UpToIsRead
  <2>3. x.call = c /\ Good(x)
    BY <2>2
  <2> HIDE DEF x, Good
  <2>4. \A y \in reads' : y.call \in calls /\ y.call \in calls' /\ Good(y)
    BY <1>1, <2>1, <2>3
  <2> QED
    BY <1>2, <2>4
<1>4. ASSUME NEW c \in calls, FindEmails(c)
      PROVE  ReadsOfCalls'
  <2>1. PICK x \in reads :
           /\ x.call = c
           /\ reads' = (reads \ {x}) \cup {[x EXCEPT !.found = x.listed \cap Stored]}
           /\ calls' = calls
    BY <1>4 DEF FindEmails, workflowVars
  <2> DEFINE y == [x EXCEPT !.found = x.listed \cap Stored]
  <2>2. UpTo(c) \subseteq x.listed \cap Stored
    BY <1>1, <2>1, UpToIsRead
  <2>3. y.call = c /\ y.listed = x.listed /\ (y.found = x.found \/ y.found = x.listed \cap Stored)
    BY <2>1
  <2>4. Good(y)
    BY <1>1, <2>1, <2>2, <2>3
  <2> HIDE DEF y, Good
  <2>5. \A z \in reads' : z.call \in calls /\ z.call \in calls' /\ Good(z)
    BY <1>1, <2>1, <2>3, <2>4 DEF y
  <2> QED
    BY <1>2, <2>5
<1> HIDE DEF Good
<1>5. CASE ForgetEnded
  BY <1>1, <1>2, <1>5 DEF ForgetEnded
<1>6. CASE UNCHANGED reads /\ calls \subseteq calls'
  BY <1>1, <1>2, <1>6
<1>7. ASSUME NEW w \in Ids, ExecutionStep(w)
      PROVE  UNCHANGED reads /\ calls \subseteq calls'
  BY <1>7 DEF ExecutionStep, Workflow!WakeUp, Workflow!Close, Workflow!StartAttempt
<1>8. ASSUME NEW e \in handlers, Signal(e)
      PROVE  UNCHANGED <<reads, calls>>
  BY <1>8 DEF Signal, Workflow!SignalWithStart, Workflow!SignalRunning, Workflow!SignalStarts
<1>9. CASE UNCHANGED <<reads, workflowVars>>
  BY <1>6, <1>9 DEF workflowVars
<1> QED
  BY <1>3, <1>4, <1>5, <1>6, <1>7, <1>8, <1>9
  DEF PipelineNext, IngestionStep, CoreAnswers, OtherStep, pipelineVars

\* All of it together: as long as requests do not overlap, it stays so.
LEMMA PipelineStep == PipelineInv /\ [PipelineNext]_pipelineVars /\ Alone' => PipelineInv'
<1> SUFFICES ASSUME PipelineInv, [PipelineNext]_pipelineVars, Alone'
             PROVE  PipelineInv'
  OBVIOUS
<1>1. SoloInv'
  BY IngestionSteps, PolledSteps, SoloStep DEF PipelineInv
<1>2. SignalInv'
  BY PipelineSignals, SignalStep
<1> QED
  BY <1>1, <1>2, AcceptedStep, CallsStep, ReadsStep DEF PipelineInv, SignalInv

\* In the empty pipeline nothing is accepted or read.
LEMMA PipelineInvInit == PipelineInit => PipelineInv
<1> SUFFICES ASSUME PipelineInit
             PROVE  PipelineInv
  OBVIOUS
<1>1. SoloInv
  BY SoloInit DEF PipelineInit, PolledInit
<1>2. SignalInv
  BY SignalInit
<1>3. calls = {} /\ reads = {} /\ \A w \in Ids : accepted[w] = <<>>
  BY DEF PipelineInit, Workflow!Init
<1> QED
  BY <1>1, <1>2, <1>3
  DEF PipelineInv, SignalInv, AcceptedOnce, CallsCounted, ReadsOfCalls

\* The pipeline as long as the poller is answered in time.
FlowInv == DocsInv /\ (NeverOverlapped => PipelineInv)

LEMMA FlowInit == PipelineInit => FlowInv
BY PipelineInvInit, DocsInvInit DEF PipelineInit, FlowInv

\* Then requests do not overlap.
LEMMA FlowStep == FlowInv /\ [PipelineNext]_pipelineVars => FlowInv'
<1> SUFFICES ASSUME FlowInv, [PipelineNext]_pipelineVars
             PROVE  DocsInv' /\ (NeverOverlapped' => PipelineInv')
  BY DEF FlowInv
<1>1. DocsInv /\ DocsInv' /\ [PolledNext]_polledVars
  BY IngestionSteps, DocsInvStep DEF FlowInv
<1>2. ASSUME NeverOverlapped'
      PROVE  PipelineInv'
  <2>1. PipelineInv
    BY <1>1, <1>2, OverlapsAreKept DEF FlowInv
  <2>2. Alone'
    BY <1>1, <1>2, AskedAloneNext DEF DocsInv
  <2> QED
    BY <2>1, <2>2, PipelineStep
<1> QED
  BY <1>1, <1>2

\* For any number of messages, threads, attempts, signals and faults: while the
\* poller is answered in time, a call that has read its thread has read its message
\* and all that were accepted before it.
THEOREM CallsReadTheirMessages == PipelineSpec => []ReadHasMessages
<1>1. FlowInv => ReadHasMessages
  BY DEF FlowInv, PipelineInv, ReadsOfCalls, ReadHasMessages
<1> QED
  BY <1>1, FlowInit, FlowStep, PTL DEF PipelineSpec

\* And the messages of a Gmail thread go through one workflow, each once.
THEOREM MessagesGoOneWay == PipelineSpec => []OneWayThrough
<1>1. FlowInv => OneWayThrough
  <2> SUFFICES ASSUME PipelineInv, NEW v \in Ids, NEW w \in Ids,
                      NEW i \in DOMAIN accepted[v], NEW j \in DOMAIN accepted[w]
               PROVE  /\ ThreadOf[accepted[v][i]] = ThreadOf[accepted[w][j]] => v = w
                      /\ accepted[v][i] = accepted[w][j] => i = j
    BY DEF FlowInv, OneWayThrough
  <2>1. OneWorkflowPerThread
    BY SoloIsOneStory DEF PipelineInv
  <2>2. PICK e \in signalled : e.sid = v /\ e.message = accepted[v][i]
    BY DEF PipelineInv, AcceptedIsSignalled
  <2>3. PICK f \in signalled : f.sid = w /\ f.message = accepted[w][j]
    BY DEF PipelineInv, AcceptedIsSignalled
  <2>4. ThreadOf[accepted[v][i]] = ThreadOf[accepted[w][j]] => v = w
    BY <2>1, <2>2, <2>3 DEF OneWorkflowPerThread, Announced
  <2>5. accepted[v][i] = accepted[w][j] => i = j
    BY <2>4 DEF PipelineInv, AcceptedOnce
  <2> QED
    BY <2>4, <2>5
<1> QED
  BY <1>1, FlowInit, FlowStep, PTL DEF PipelineSpec

\* What is read under a storage id does not shrink in a step.
ReadGrows ==
    \A w \in Ids : ListedUnder(w) \cap Stored \subseteq ListedUnder(w)' \cap Stored'

\* A save that replaces a document keeps its storage id and what it listed of the
\* stored messages.
LEMMA ReadGrowsStep == PipelineInv /\ [PipelineNext]_pipelineVars => ReadGrows
<1> SUFFICES ASSUME PipelineInv, [PipelineNext]_pipelineVars, NEW w \in Ids,
                    NEW m \in ListedUnder(w), m \in Stored
             PROVE  m \in ListedUnder(w)' /\ m \in Stored'
  BY DEF ReadGrows
<1>1. PICK t \in Threads :
         \E i \in DOMAIN threadDocs[t] : threadDocs[t][i].sid = w /\ m \in threadDocs[t][i].messageIds
  BY DEF ListedUnder
<1>2. PICK i \in DOMAIN threadDocs[t] :
         threadDocs[t][i].sid = w /\ m \in threadDocs[t][i].messageIds
  BY <1>1
<1>3. m \in Messages /\ IsStored(m)
  BY DEF Stored, IsStored
<1>4. SoloInv /\ [Next]_vars /\ TypeInv
  BY IngestionSteps, PolledSteps DEF PipelineInv, SoloInv, StoredInv
<1>5. /\ i \in DOMAIN threadDocs'[t]
      /\ threadDocs'[t][i].sid = threadDocs[t][i].sid
      /\ m \in threadDocs'[t][i].messageIds
  BY <1>2, <1>3, <1>4, ListedStaysListed
<1>6. m \in ListedUnder(w)'
  BY <1>2, <1>5 DEF ListedUnder
<1>7. EidsOf(m) # {}
  <2>1. emailDocs[m] \in Seq(Ids) /\ emailDocs[m] # <<>>
    BY <1>3, <1>4 DEF IsStored, TypeInv, TypeOK
  <2>2. 1 \in DOMAIN emailDocs[m]
    BY <2>1, EmptySeq
  <2> QED
    BY <2>2 DEF EidsOf
<1>8. emailDocs'[m] # <<>>
  <2>1. EidsOf(m)' # {}
    BY <1>3, <1>4, <1>7, EidsGrow
  <2> QED
    BY <2>1 DEF EidsOf
<1> QED
  BY <1>3, <1>6, <1>8 DEF Stored

\* So a later parse sees at least what an earlier one saw, as long as the poller is
\* answered in time.
THEOREM WhatIsReadGrows == PipelineSpec => ReadsGrow
<1>1. FlowInv /\ [PipelineNext]_pipelineVars => [NeverOverlapped => ReadGrows]_pipelineVars
  BY ReadGrowsStep DEF FlowInv
<1> QED
  BY <1>1, FlowInit, FlowStep, PTL DEF PipelineSpec, ReadsGrow, ReadGrows

=============================================================================
