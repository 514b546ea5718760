----------------------------- MODULE EmailPipeline -----------------------------
(***************************************************************************)
(* From the mailbox to the core service: PolledIngestion composed with the *)
(* workflows it signals.  A handler's signalWithStart is one step of both: *)
(* the storage id of the event names the workflow.  Each call to the core  *)
(* service first asks the email worker for the thread under that storage   *)
(* id (findByStorageThreadId), which reads the thread document and then    *)
(* the emails it lists, while the worker goes on saving.                   *)
(***************************************************************************)
EXTENDS PolledIngestion

CONSTANTS MaxSignals, MaxCompletes, MaxWorkflowFaults

ASSUME PipelineAssumption ==
    /\ MaxSignals \in Nat
    /\ MaxCompletes \in Nat
    /\ MaxWorkflowFaults \in Nat

VARIABLES status, at, queue, current, isDone, rfqParsed, attempt, calls,
          accepted, settled, completes, workflowFaults,
          reads      \* what the calls in flight have read of their threads so far

workflowVars == <<status, at, queue, current, isDone, rfqParsed, attempt, calls,
                  accepted, settled, completes, workflowFaults>>
pipelineVars == <<polledVars, workflowVars, reads>>

Workflow == INSTANCE EmailThreadWorkflow
                WITH Workflows <- Ids,
                     MaxFaults <- MaxWorkflowFaults, faults <- workflowFaults

-----------------------------------------------------------------------------
(* What the core service is given.                                         *)

\* A call that has run the first query holds the messages its thread document
\* lists, none if there is no such document (404); after the second one it holds
\* the emails stored for them.  No code path stores an attachment, so the third
\* query, for attachments, finds nothing.
Read == [call : Workflow!Call, listed : SUBSET Messages,
         found : (SUBSET Messages) \cup {None}]

ListedUnder(w) ==
    UNION {UNION {threadDocs[t][i].messageIds :
                      i \in {j \in DOMAIN threadDocs[t] : threadDocs[t][j].sid = w}} :
               t \in Threads}

Stored == {m \in Messages : emailDocs[m] # <<>>}

MessagesIn(s) == {s[i] : i \in DOMAIN s}

-----------------------------------------------------------------------------

PipelineInit ==
    /\ PolledInit
    /\ Workflow!Init
    /\ reads = {}

\* TriggerEmailProcessingUseCase: the event's storage id and message id become
\* the workflow id and the payload of NEW_MESSAGE.
Signal(e) ==
    /\ Workflow!MaySignal(e.sid)
    /\ Trigger(e)
    /\ Workflow!SignalWithStart(e.sid, e.message)
    /\ UNCHANGED reads

\* Mail, polls, and what the email worker does with them.
IngestionStep ==
    /\ \/ \E r \in Requests : Poll(r) \/ Answer(r)
       \/ PollerStep \/ MailStep \/ WorkerStep
    /\ UNCHANGED <<workflowVars, reads>>

\* findByStorageThreadId, first query.
FindThread(c) ==
    /\ \A x \in reads : x.call # c
    /\ reads' = reads \cup {[call |-> c, listed |-> ListedUnder(c.workflow), found |-> None]}
    /\ UNCHANGED <<polledVars, workflowVars>>

\* findByStorageThreadId, second query.
FindEmails(c) ==
    \E x \in reads :
        /\ x.call = c
        /\ x.found = None
        /\ reads' = (reads \ {x}) \cup {[x EXCEPT !.found = x.listed \cap Stored]}
        /\ UNCHANGED <<polledVars, workflowVars>>

\* The calls that are over have no use for what they read.
ForgetEnded == reads' = {x \in reads : x.call \in calls'}

\* The core service has the thread and answers.  Its answer is never that of an
\* RFQ: buildRequestRFQ throws for every one.
CoreAnswers(w) ==
    /\ \E x \in reads : /\ x.call = Workflow!CurrentCall(w)
                        /\ x.listed # {}
                        /\ x.found # None
    /\ Workflow!Answer(w, FALSE)
    /\ ForgetEnded
    /\ UNCHANGED polledVars

\* What the execution does on its own.
ExecutionStep(w) ==
    /\ Workflow!WakeUp(w) \/ Workflow!Close(w) \/ Workflow!StartAttempt(w)
    /\ UNCHANGED <<polledVars, reads>>

\* Rejected calls, failures, completions, and answers nobody waits for.
OtherStep ==
    /\ \/ \E w \in Ids :
             Workflow!AnswerError(w) \/ Workflow!FaultStep(w) \/ Workflow!CompleteThread(w)
       \/ \E c \in calls : Workflow!LateAnswer(c)
    /\ ForgetEnded
    /\ UNCHANGED polledVars

PipelineNext ==
    \/ \E e \in handlers : Signal(e)
    \/ IngestionStep
    \/ \E w \in Ids : ExecutionStep(w) \/ CoreAnswers(w)
    \/ \E c \in calls : FindThread(c) \/ FindEmails(c)
    \/ OtherStep

PipelineSpec == PipelineInit /\ [][PipelineNext]_pipelineVars

\* As for the three parts: the orchestrator is started once, its timers fire,
\* requests and handlers go on and are answered; and MongoDB answers.
PipelineFairness ==
    /\ WF_pipelineVars(/\ (boots = 0 /\ Poller!Boot) \/ Poller!PollAgain
                       /\ UNCHANGED <<vars, late, workflowVars, reads>>)
    /\ WF_pipelineVars(\E r \in Requests : Poll(r) /\ UNCHANGED <<workflowVars, reads>>)
    /\ \A r \in Requests :
          /\ WF_pipelineVars(Answer(r) /\ UNCHANGED <<workflowVars, reads>>)
          /\ WF_pipelineVars(RequestStep(r) /\ UNCHANGED <<pollerVars, late, workflowVars, reads>>)
    /\ WF_pipelineVars(\E e \in handlers : Signal(e))
    /\ WF_pipelineVars(\E c \in calls : FindThread(c) \/ FindEmails(c))
    /\ \A w \in Ids : WF_pipelineVars(ExecutionStep(w) \/ CoreAnswers(w))

PipelineFairSpec == PipelineSpec /\ PipelineFairness

-----------------------------------------------------------------------------
(* Properties.                                                             *)

\* The messages accepted under a workflow id up to the one a call is about.
UpTo(c) == MessagesIn(SubSeq(accepted[c.workflow], 1, c.number))

\* The core service is told a message id but reads the whole thread, by two
\* queries with saves in between, and never looks for that message in it.  While
\* the poller was always answered in time, every read, of a retried or abandoned
\* call too, contains the message the call is about and all that were accepted
\* before it.
ReadHasMessages ==
    NeverOverlapped =>
        \A x \in reads : x.found # None => UpTo(x.call) \subseteq x.found

\* What the core service would read for a thread does not shrink while the poller
\* is answered in time, although every save replaces the whole document by one
\* built from an earlier snapshot: a later parse sees at least what an earlier one
\* saw.
ReadsGrow ==
    [][NeverOverlapped =>
          \A w \in Ids : ListedUnder(w) \cap Stored
                            \subseteq ListedUnder(w)' \cap Stored']_pipelineVars

\* While the poller was always answered in time, all messages of a Gmail thread go
\* through one workflow, each of them once, whatever fails in between.
OneWayThrough ==
    NeverOverlapped =>
        \A v, w \in Ids : \A i \in DOMAIN accepted[v] : \A j \in DOMAIN accepted[w] :
            /\ ThreadOf[accepted[v][i]] = ThreadOf[accepted[w][j]] => v = w
            /\ accepted[v][i] = accepted[w][j] => i = j

\* The core service rejects a message of the thread that m went to.
Rejects(m) ==
    \E w \in Ids : m \in MessagesIn(accepted[w]) /\ Workflow!AnswerError(w)

\* When nothing fails in the email worker, the poller is answered in time and mail
\* stops arriving, the newest message gets through to a workflow that acts on it or
\* ends with it, though Temporal loses attempts and ends executions; unless the core
\* service rejects its thread for ever, as it does if there is an RFQ.
NewestIsSettled ==
    \A m \in Messages :
        [](faults = 0 /\ NeverOverlapped) /\ <>[](mailbox # <<>> /\ mailbox[Len(mailbox)] = m)
            => \/ <>(\E w \in Ids : m \in MessagesIn(Workflow!MessagesOf(settled[w])))
               \/ []<><<Rejects(m)>>_pipelineVars

=============================================================================
