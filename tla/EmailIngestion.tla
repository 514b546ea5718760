---------------------------- MODULE EmailIngestion ----------------------------
(***************************************************************************)
(* The email worker: how an unread Gmail message becomes a stored thread   *)
(* and email document, then a domain event, then a signal to the Temporal  *)
(* workflow of its thread.                                                 *)
(*                                                                         *)
(* A request is one execution of GetUnreadEmailsUseCase, started by        *)
(* GET /email-workers/unread-emails.  Requests overlap when the            *)
(* orchestrator's activity times out and is retried, or when the endpoint  *)
(* is called by hand.  Every await of the use case and of the repository   *)
(* is a point where another request may run, and is a step of its own.     *)
(***************************************************************************)
EXTENDS Naturals, Sequences, FiniteSets

CONSTANTS
    Messages,    \* Gmail messages
    Threads,     \* Gmail threads
    ThreadOf,    \* the Gmail thread of each message
    Requests,    \* slots for concurrent executions of the use case
    Ids,         \* UUIDs handed out by ID.create()
    None,        \* the value of a field that is not set
    MaxFaults    \* bound: crashes and failed calls in one behaviour

ASSUME IngestionAssumption ==
    /\ ThreadOf \in [Messages -> Threads]
    /\ None \notin Messages \cup Ids
    /\ MaxFaults \in Nat

VARIABLES
    mailbox,     \* messages in order of arrival (the Gmail account)
    threadDocs,  \* threads collection: per Gmail thread, documents in insertion order
    emailDocs,   \* emails collection: per message, the _id of each document, in insertion order
    pc,          \* where each request stands
    msg,         \* the message a request fetched
    fresh,       \* the UUID the factory created for the request's thread and email
    sid,         \* storage id of the thread found in the snapshot, or None
    listed,      \* messageIds of the thread documents found in the snapshot
    known,       \* emails found in the snapshot: pairs <<message, _id>>
    handlers,    \* TriggerWorkflowOnUnreadEmails handlers in flight
    signalled,   \* events whose signalWithStart has been accepted by Temporal
    faults       \* crashes and failed calls so far

requestVars == <<pc, msg, fresh, sid, listed, known>>
vars == <<mailbox, threadDocs, emailDocs, requestVars, handlers, signalled, faults>>

-----------------------------------------------------------------------------
(* Data.                                                                   *)

ThreadDoc == [sid : Ids, messageIds : SUBSET Messages]

\* EmailEntity: the message and the _id under which it is stored.
EmailEntity == Messages \X Ids

\* UnreadEmailMessageAppendedEvent: the storage id of the thread and the email entity.
Event == [sid : Ids, message : Messages, eid : Ids]

Steps == {"idle", "fetched", "threadsRead", "built", "insertThread",
          "threadSaved", "insertEmail", "saved"}

SidsOf(t) == {threadDocs[t][i].sid : i \in DOMAIN threadDocs[t]}
EidsOf(m) == {emailDocs[m][i] : i \in DOMAIN emailDocs[m]}

\* ID.create() is randomUUID(): it never returns an id that is stored or held
\* by a running request.  Ids are only compared, so any choice among the others
\* stands for all of them.
Unused(i) ==
    /\ \A t \in Threads : i \notin SidsOf(t)
    /\ \A m \in Messages : i \notin EidsOf(m)
    /\ \A r \in Requests : i # fresh[r]

NewId == CHOOSE i \in Ids : Unused(i)

\* Mistake: the factory's id is forgotten.
StorageIdOfSnapshot(r) == sid[r]

\* Mistake: the factory's id is taken for a thread that exists.
StorageIdAnew(r) == fresh[r]

\* extractThreadData: the existing thread's storage id, or the factory's.
StorageId(r) == IF sid[r] = None THEN fresh[r] ELSE sid[r]

KnownMessages(r) == {p[1] : p \in known[r]}

\* Mistake: a message is taken for known because its thread is.
IsNewThread(r) == sid[r] = None

\* filterNewMessages and addEmail: only a message absent from the snapshot is
\* appended, and only an appended message carries an event.
IsNew(r) == msg[r] \notin KnownMessages(r)

\* Mistake: only the new message is listed.
NewIdOnly(r) == {msg[r]}

\* toPersistenceThread: the ids of all emails of the aggregate.
AggregateIds(r) == KnownMessages(r) \cup {msg[r]}

\* The event that addEmail recorded.
EventOf(r) == [sid |-> StorageId(r), message |-> msg[r], eid |-> fresh[r]]

\* The events that the aggregate has collected when it is saved.
Recorded(r) == IF IsNew(r) THEN {EventOf(r)} ELSE {}

-----------------------------------------------------------------------------

Init ==
    /\ mailbox = <<>>
    /\ threadDocs = [t \in Threads |-> <<>>]
    /\ emailDocs = [m \in Messages |-> <<>>]
    /\ pc = [r \in Requests |-> "idle"]
    /\ msg = [r \in Requests |-> None]
    /\ fresh = [r \in Requests |-> None]
    /\ sid = [r \in Requests |-> None]
    /\ listed = [r \in Requests |-> {}]
    /\ known = [r \in Requests |-> {}]
    /\ handlers = {}
    /\ signalled = {}
    /\ faults = 0

\* A message reaches the Gmail account.
Arrive(m) ==
    /\ \A i \in DOMAIN mailbox : mailbox[i] # m
    /\ mailbox' = Append(mailbox, m)
    /\ UNCHANGED <<threadDocs, emailDocs, requestVars, handlers, signalled, faults>>

Goto(r, step) == pc' = [pc EXCEPT ![r] = step]

\* The request ends, answered or rejected: its aggregate is garbage.
End(r) ==
    /\ Goto(r, "idle")
    /\ msg' = [msg EXCEPT ![r] = None]
    /\ fresh' = [fresh EXCEPT ![r] = None]
    /\ sid' = [sid EXCEPT ![r] = None]
    /\ listed' = [listed EXCEPT ![r] = {}]
    /\ known' = [known EXCEPT ![r] = {}]

\* The list call asks for one message without the label agent-read and Gmail
\* answers with the newest.  Nothing ever sets the label, so every message
\* matches.  With no message the request answers [] and changes nothing.
Fetch(r) ==
    /\ pc[r] = "idle"
    /\ mailbox # <<>>
    /\ \E i \in Ids : Unused(i)
    /\ fresh' = [fresh EXCEPT ![r] = NewId]
    /\ msg' = [msg EXCEPT ![r] = mailbox[Len(mailbox)]]
    /\ Goto(r, "fetched")
    /\ UNCHANGED <<mailbox, threadDocs, emailDocs, sid, listed, known,
                   handlers, signalled, faults>>

\* findByThreadIds, first query.  With several documents for one Gmail thread
\* the result map keeps the last.
ReadThreads(r) ==
    LET docs == threadDocs[ThreadOf[msg[r]]] IN
    /\ pc[r] = "fetched"
    /\ \/ /\ docs = <<>>
          /\ Goto(r, "built")
          /\ UNCHANGED <<sid, listed>>
       \/ /\ docs # <<>>
          /\ Goto(r, "threadsRead")
          /\ sid' = [sid EXCEPT ![r] = docs[Len(docs)].sid]
          /\ listed' = [listed EXCEPT ![r] =
                            UNION {docs[i].messageIds : i \in DOMAIN docs}]
    /\ UNCHANGED <<mailbox, threadDocs, emailDocs, msg, fresh, known,
                   handlers, signalled, faults>>

\* findByThreadIds, second query, then createOrUpdateAggregate: the emails of
\* the aggregate are the stored emails among the listed messages.
ReadEmails(r) ==
    /\ pc[r] = "threadsRead"
    /\ known' = [known EXCEPT ![r] =
                    {p \in EmailEntity : p[1] \in listed[r] /\ p[2] \in EidsOf(p[1])}]
    /\ listed' = [listed EXCEPT ![r] = {}]
    /\ Goto(r, "built")
    /\ UNCHANGED <<mailbox, threadDocs, emailDocs, msg, fresh, sid,
                   handlers, signalled, faults>>

\* save, threadModel.replaceOne({threadId}, ...): the first document of the
\* Gmail thread is the one replaced.  MongoDB rejects a replacement that would
\* change _id.  With no document the upsert goes on to insert; the index on
\* threadId is not unique, so another insert may come in between.
SaveThread(r) ==
    LET t == ThreadOf[msg[r]]
        docs == threadDocs[t] IN
    /\ pc[r] = "built"
    /\ \/ /\ docs = <<>>
          /\ Goto(r, "insertThread")
          /\ UNCHANGED <<threadDocs, msg, fresh, sid, listed, known>>
       \/ /\ docs # <<>>
          /\ docs[1].sid = StorageId(r)
          /\ threadDocs' = [threadDocs EXCEPT ![t] =
                [docs EXCEPT ![1] = [sid |-> StorageId(r), messageIds |-> AggregateIds(r)]]]
          /\ Goto(r, "threadSaved")
          /\ UNCHANGED <<msg, fresh, sid, listed, known>>
       \/ /\ docs # <<>>
          /\ docs[1].sid # StorageId(r)
          /\ End(r)
          /\ UNCHANGED threadDocs
    /\ UNCHANGED <<mailbox, emailDocs, handlers, signalled, faults>>

InsertThread(r) ==
    /\ pc[r] = "insertThread"
    /\ threadDocs' = [threadDocs EXCEPT ![ThreadOf[msg[r]]] =
            Append(@, [sid |-> StorageId(r), messageIds |-> AggregateIds(r)])]
    /\ Goto(r, "threadSaved")
    /\ UNCHANGED <<mailbox, emailDocs, msg, fresh, sid, listed, known,
                   handlers, signalled, faults>>

\* The replacements of the emails that were already stored leave them as they
\* are, unless two documents hold the same message: replaceOne finds the first
\* and refuses the _id of the second.
SnapshotHasTwins(r) ==
    \E p \in known[r] : emailDocs[p[1]] # <<>> /\ emailDocs[p[1]][1] # p[2]

\* save, the loop of emailModel.replaceOne({messageId}, ...): stored emails
\* first, the new one last, as an upsert with the factory's _id.
SaveEmails(r) ==
    /\ pc[r] = "threadSaved"
    /\ \/ /\ ~SnapshotHasTwins(r)
          /\ ~IsNew(r)
          /\ Goto(r, "saved")
          /\ UNCHANGED <<msg, fresh, sid, listed, known>>
       \/ /\ ~SnapshotHasTwins(r)
          /\ IsNew(r)
          /\ emailDocs[msg[r]] = <<>>
          /\ Goto(r, "insertEmail")
          /\ UNCHANGED <<msg, fresh, sid, listed, known>>
       \/ /\ \/ SnapshotHasTwins(r)
             \/ IsNew(r) /\ emailDocs[msg[r]] # <<>>
          /\ End(r)
    /\ UNCHANGED <<mailbox, threadDocs, emailDocs, handlers, signalled, faults>>

InsertEmail(r) ==
    /\ pc[r] = "insertEmail"
    /\ emailDocs' = [emailDocs EXCEPT ![msg[r]] = Append(@, fresh[r])]
    /\ Goto(r, "saved")
    /\ UNCHANGED <<mailbox, threadDocs, msg, fresh, sid, listed, known,
                   handlers, signalled, faults>>

\* Mistake: every email of the aggregate carries an event.
PublishAlways(r) ==
    /\ pc[r] = "saved"
    /\ handlers' = handlers \cup {EventOf(r)}
    /\ End(r)
    /\ UNCHANGED <<mailbox, threadDocs, emailDocs, signalled, faults>>

\* Mistake: only the first message of a thread is announced.
PublishNewThread(r) ==
    /\ pc[r] = "saved"
    /\ handlers' = IF IsNewThread(r) THEN handlers \cup {EventOf(r)} ELSE handlers
    /\ End(r)
    /\ UNCHANGED <<mailbox, threadDocs, emailDocs, signalled, faults>>

\* Mistake: events are published before the aggregate is saved.
PublishUnsaved(r) ==
    /\ pc[r] = "built"
    /\ handlers' = handlers \cup Recorded(r)
    /\ End(r)
    /\ UNCHANGED <<mailbox, threadDocs, emailDocs, signalled, faults>>

\* publishAll: the event bus starts the handler and does not wait for it.
Publish(r) ==
    /\ pc[r] = "saved"
    /\ handlers' = handlers \cup Recorded(r)
    /\ End(r)
    /\ UNCHANGED <<mailbox, threadDocs, emailDocs, signalled, faults>>

\* The handler's signalWithStart is accepted.
TriggerWorkflow(e) ==
    /\ e \in handlers
    /\ handlers' = handlers \ {e}
    /\ signalled' = signalled \cup {e}
    /\ UNCHANGED <<mailbox, threadDocs, emailDocs, requestVars, faults>>

-----------------------------------------------------------------------------
(* Faults.                                                                 *)

Fault == faults < MaxFaults /\ faults' = faults + 1

\* The handler's signalWithStart fails: the error is logged and dropped.
TriggerFails(e) ==
    /\ e \in handlers
    /\ Fault
    /\ handlers' = handlers \ {e}
    /\ UNCHANGED <<mailbox, threadDocs, emailDocs, requestVars, signalled>>

\* An awaited call of the request rejects and nothing catches it.
RequestFails(r) ==
    /\ pc[r] \notin {"idle", "saved"}
    /\ Fault
    /\ End(r)
    /\ UNCHANGED <<mailbox, threadDocs, emailDocs, handlers, signalled>>

\* The process dies: requests and handlers in flight are gone.
Crash ==
    /\ \/ handlers # {}
       \/ \E r \in Requests : pc[r] # "idle"
    /\ Fault
    /\ pc' = [r \in Requests |-> "idle"]
    /\ msg' = [r \in Requests |-> None]
    /\ fresh' = [r \in Requests |-> None]
    /\ sid' = [r \in Requests |-> None]
    /\ listed' = [r \in Requests |-> {}]
    /\ known' = [r \in Requests |-> {}]
    /\ handlers' = {}
    /\ UNCHANGED <<mailbox, threadDocs, emailDocs, signalled>>

-----------------------------------------------------------------------------

RequestStep(r) ==
    \/ ReadThreads(r) \/ ReadEmails(r)
    \/ SaveThread(r) \/ InsertThread(r)
    \/ SaveEmails(r) \/ InsertEmail(r)
    \/ Publish(r)

Next ==
    \/ \E m \in Messages : Arrive(m)
    \/ \E r \in Requests : Fetch(r) \/ RequestStep(r) \/ RequestFails(r)
    \/ \E e \in handlers : TriggerWorkflow(e) \/ TriggerFails(e)
    \/ Crash

Spec == Init /\ [][Next]_vars

\* The polling workflow asks again every minute, a started request is answered
\* and a started handler gets an answer from Temporal.  Arrivals and faults are
\* not fair.
Fairness ==
    /\ \A r \in Requests : WF_vars(Fetch(r)) /\ WF_vars(RequestStep(r))
    /\ WF_vars(\E e \in handlers : TriggerWorkflow(e))

FairSpec == Spec /\ Fairness

-----------------------------------------------------------------------------
(* Properties.                                                             *)

\* Every variable stays within its type.
TypeOK ==
    /\ mailbox \in Seq(Messages)
    /\ threadDocs \in [Threads -> Seq(ThreadDoc)]
    /\ emailDocs \in [Messages -> Seq(Ids)]
    /\ pc \in [Requests -> Steps]
    /\ msg \in [Requests -> Messages \cup {None}]
    /\ fresh \in [Requests -> Ids \cup {None}]
    /\ sid \in [Requests -> Ids \cup {None}]
    /\ listed \in [Requests -> SUBSET Messages]
    /\ known \in [Requests -> SUBSET EmailEntity]
    /\ handlers \subseteq Event
    /\ signalled \subseteq Event
    /\ faults \in 0..MaxFaults

Announced == handlers \cup signalled

\* The workflow of a signal asks the email worker for the thread under the
\* signal's storage id and gets 404 if there is none.  Whatever overlaps or
\* fails, an announced event names a stored thread document of its Gmail thread
\* and a stored email: save comes before publishAll and nothing is deleted.
AnnouncedIsStored ==
    \A e \in Announced : /\ e.sid \in SidsOf(ThreadOf[e.message])
                         /\ e.eid \in EidsOf(e.message)

\* The stored messages whose event is gone: neither announced nor about to be.  A
\* stored message is not new to any later request, so nobody makes up for it.
Unannounced ==
    {m \in Messages : /\ emailDocs[m] # <<>>
                      /\ \A e \in Announced : e.message # m
                      /\ \A r \in Requests : pc[r] = "saved" /\ msg[r] = m => ~IsNew(r)}

\* A handler was refused, or the worker restarted, with the message's event in hand
\* or about to be published.
LostByFault(m) ==
    /\ faults' = faults + 1
    /\ \/ \E e \in handlers \ handlers' : e.message = m
       \/ \E r \in Requests : pc[r] = "saved" /\ msg[r] = m /\ pc'[r] = "idle"

\* Overlapping requests overwrite each other's documents and fail between two
\* saves, yet a stored message loses its announcement only by a fault that hits its
\* own event: a refused handler costs its own message and no other, and only a
\* restart can cost more than one.
LossesAreOwned ==
    [][LET lost == Unannounced' \ Unannounced IN
          /\ \A m \in lost : LostByFault(m)
          /\ \/ \A m, n \in lost : m = n
             \/ handlers' = {} /\ \A r \in Requests : pc'[r] = "idle"]_vars

\* A message whose email is stored is listed by a document of its thread, so
\* that the next snapshot finds it and the core service reads it.  Holds when
\* requests do not overlap, whatever fails between the two collections.
StoredEmailListed ==
    \A m \in Messages : emailDocs[m] # <<>> =>
        \E i \in DOMAIN threadDocs[ThreadOf[m]] :
            m \in threadDocs[ThreadOf[m]][i].messageIds

\* A message is announced once: neither the endless refetching of the newest
\* message nor a retry after a failed save announces it again.  Holds when
\* requests do not overlap.
AnnouncedOnce ==
    \A e, f \in Announced : e.message = f.message => e = f

\* systenDesign.md: "unread emails are fetched" and a workflow is started "for
\* each email thread".  Every message in the account is signalled some day.
EveryMessageIsSignalled ==
    \A m \in Messages :
        (\E i \in DOMAIN mailbox : mailbox[i] = m)
            ~> (\E e \in signalled : e.message = m)

\* One storage id, hence one workflow and one RFQ, per Gmail thread.
OneWorkflowPerThread ==
    \A e, f \in Announced : ThreadOf[e.message] = ThreadOf[f.message] => e.sid = f.sid

=============================================================================
