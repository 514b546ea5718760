---------------------------- MODULE PolledIngestion ----------------------------
(***************************************************************************)
(* The poller and the email worker together: UnreadEmailsWorkflow decides  *)
(* when a request is sent, EmailIngestion what the request does.  This is  *)
(* where it is decided whether executions of GetUnreadEmailsUseCase may    *)
(* overlap: nothing in the email worker keeps them apart, only the poller  *)
(* waiting for its answer does.                                            *)
(***************************************************************************)
EXTENDS EmailIngestion

CONSTANTS MaxAttempts, MaxTimeouts, MaxEnds, MaxBoots

ASSUME PolledAssumption ==
    /\ None \notin Requests
    /\ MaxAttempts \in Nat \ {0}
    /\ MaxTimeouts \in Nat
    /\ MaxEnds \in Nat
    /\ MaxBoots \in Nat

VARIABLES run, phase, tries, polling, requests, timeouts, ends, boots,
          late    \* history: messages that arrived when their thread had two documents

Poller == INSTANCE UnreadEmailsWorkflow

pollerVars == <<run, phase, tries, polling, requests, timeouts, ends, boots>>
polledVars == <<vars, pollerVars, late>>

PolledInit ==
    /\ Init
    /\ Poller!Init
    /\ late = {}

\* The activity's request reaches the email worker, which lists the mailbox.
\* With no message it has nothing to do and is answered at once.
Poll(r) ==
    /\ Poller!SendRequest(r)
    /\ \/ Fetch(r)
       \/ mailbox = <<>> /\ UNCHANGED vars
    /\ UNCHANGED late

\* Mistake: the controller does not await the use case.
AnswerAtOnce(r) ==
    /\ Poller!Answered(r)
    /\ UNCHANGED <<vars, late>>

\* The email worker answers when the use case has ended, well or badly.
Answer(r) ==
    /\ pc[r] = "idle"
    /\ Poller!Answered(r)
    /\ UNCHANGED <<vars, late>>

\* Whatever else the poller does, the email worker does not notice.
PollerStep ==
    /\ \/ Poller!Boot \/ Poller!PollAgain \/ Poller!PollTimesOut \/ Poller!EndPolling
    /\ UNCHANGED <<vars, late>>

\* Mail arrives.
MailStep ==
    \E m \in Messages :
        /\ Arrive(m)
        /\ late' = IF Len(threadDocs[ThreadOf[m]]) > 1 THEN late \cup {m} ELSE late
        /\ UNCHANGED pollerVars

\* The handler's signalWithStart is accepted.
Trigger(e) == TriggerWorkflow(e) /\ UNCHANGED <<pollerVars, late>>

\* Requests go on, handlers give up, the email worker fails or restarts.
WorkerStep ==
    /\ \/ \E r \in Requests : RequestStep(r) \/ RequestFails(r)
       \/ \E e \in handlers : TriggerFails(e)
       \/ Crash
    /\ UNCHANGED <<pollerVars, late>>

PolledNext ==
    \/ \E r \in Requests : Poll(r) \/ Answer(r)
    \/ PollerStep
    \/ MailStep
    \/ WorkerStep
    \/ \E e \in handlers : Trigger(e)

PolledSpec == PolledInit /\ [][PolledNext]_polledVars

-----------------------------------------------------------------------------
(* Properties.                                                             *)

\* The poller never gave up waiting for a request that may still be running.
NeverOverlapped == timeouts + ends = 0

\* Every thread document beyond the first was paid for by an attempt that timed
\* out or an execution ended under its activity.  Failed and crashed requests,
\* restarts of the orchestrator and of the email worker cost nothing.
DocsNeedTimeouts ==
    \A t \in Threads : Len(threadDocs[t]) <= 1 + timeouts + ends

\* Nor is a message announced once more, or a thread given a workflow more, than
\* timed-out attempts and ended executions account for.  Two overlapping requests
\* may both announce what they fetched, but a document lost to an overwrite, a
\* failure or a restart has no message announced again.
RepeatsNeedTimeouts ==
    /\ \A m \in Messages :
          Cardinality({e \in Announced : e.message = m}) <= 1 + timeouts + ends
    /\ \A t \in Threads :
          Cardinality({e.sid : e \in {f \in Announced : ThreadOf[f.message] = t}})
              <= 1 + timeouts + ends

\* While the poller was always answered in time, no message is announced twice,
\* no two storage ids (hence workflows) stand for one Gmail thread, and every
\* stored message is listed by its thread.
OneStoryPerThread ==
    NeverOverlapped =>
        /\ AnnouncedOnce
        /\ OneWorkflowPerThread
        /\ StoredEmailListed

\* MongoDB refuses to change an _id.  While the poller was always answered in time
\* no save is refused: the replacement of a thread carries the storage id of the
\* document it replaces, and the loop over the emails meets each under its own _id
\* and the new one nowhere, whatever failed between an earlier thread and its emails.
SavesAreAccepted ==
    NeverOverlapped =>
        \A r \in Requests :
            /\ pc[r] = "built" =>
                  LET docs == threadDocs[ThreadOf[msg[r]]] IN
                  docs # <<>> => docs[1].sid = StorageId(r)
            /\ pc[r] = "threadSaved" =>
                  ~SnapshotHasTwins(r) /\ (IsNew(r) => emailDocs[msg[r]] = <<>>)

\* emailMessageRepository.adapter.ts, of the upsert in save: "if the document does not
\* exist, it will be created and if it exists, it will be updated".  A request that
\* found its thread stored is not refused to update it.
ExistingThreadIsUpdated ==
    \A r \in Requests :
        pc[r] = "built" /\ sid[r] # None => threadDocs[ThreadOf[msg[r]]][1].sid = StorageId(r)

=============================================================================
