----------------------------- MODULE ThreadParsing -----------------------------
(***************************************************************************)
(* The thread workflows and the core service together: every attempt of    *)
(* parseEmailIntentActivity is a request of MessageIntent, and the end of  *)
(* that request is what the workflow is told, if it still waits for it.    *)
(* Here the verdicts that EmailThreadWorkflow takes as they come are the   *)
(* ones MessageIntent can give.  No part of the program sends the signal   *)
(* COMPLETE_THREAD, so it is left out.                                     *)
(***************************************************************************)
EXTENDS MessageIntent, FiniteSets, Sequences

CONSTANTS Messages, MaxSignals, MaxWorkflowFaults,
          MaxMails   \* bound: signals to all workflows together

VARIABLES status, at, queue, current, isDone, rfqParsed, attempt, calls,
          accepted, settled, completes, workflowFaults,
          serves     \* the call each request of the core service is about, or None

Workflow == INSTANCE EmailThreadWorkflow
                WITH Workflows <- Threads, MaxCompletes <- 0,
                     MaxFaults <- MaxWorkflowFaults, faults <- workflowFaults

workflowVars == <<status, at, queue, current, isDone, rfqParsed, attempt, calls,
                  accepted, settled, completes, workflowFaults>>
parsingVars == <<vars, workflowVars, serves>>

ParsingInit ==
    /\ Init
    /\ Workflow!Init
    /\ serves = [p \in Parses |-> None]

-----------------------------------------------------------------------------

\* The activity posts to the core service.
Post(p, w) ==
    /\ serves[p] = None
    /\ Workflow!StartAttempt(w)
    /\ Receive(p, w)
    /\ serves' = [serves EXCEPT ![p] = Workflow!CurrentCall(w)]

\* The core service works on a request without ending it.
Work(p) ==
    /\ \/ ThreadRead(p) \/ EnterNode(p) \/ RenderUserPrompt(p)
       \/ Summarized(p) \/ ClassifiedAsRFQ(p) \/ Extracted(p)
    /\ UNCHANGED <<workflowVars, serves>>

\* Mistake: an attempt of the same thread is as good as another.
AwaitedByAny(p, w) ==
    /\ serves[p].workflow = w
    /\ Workflow!Parsing(w)

\* Temporal still waits for the call that a request is about.
Awaited(p, w) ==
    /\ Workflow!Parsing(w)
    /\ serves[p] = Workflow!CurrentCall(w)

\* Nobody waits for it: its attempt timed out, or the execution is over.
ReplyToNobody(p) ==
    /\ ~Awaited(p, serves[p].workflow)
    /\ Workflow!LateAnswer(serves[p])

\* An answer is in the hands of the activity, and its result in those of the
\* workflow.  A rejected request is a failed activity: Temporal retries.
ReplyTo(w, result) ==
    \/ result # None /\ Workflow!Answer(w, result.isRFQ)
    \/ result = None /\ Workflow!AnswerError(w)

\* A request ends, answered or rejected.
Finish(p) ==
    /\ ClassifiedAsOther(p) \/ NotClassified(p) \/ ReadFails(p) \/ BuildRFQ(p)
    /\ \/ \E w \in Threads : Awaited(p, w) /\ ReplyTo(w, answer'[p])
       \/ ReplyToNobody(p)
    /\ serves' = [serves EXCEPT ![p] = None]

\* The signals so far, by workflow and number.
Mails == UNION {{w} \X DOMAIN accepted[w] : w \in Threads}

\* Signals, timers, timeouts and ended executions.  The core service does not
\* notice any of them.
WorkflowStep(w) ==
    /\ \/ \E m \in Messages : /\ Cardinality(Mails) < MaxMails
                             /\ Workflow!MaySignal(w)
                             /\ Workflow!SignalWithStart(w, m)
       \/ Workflow!WakeUp(w) \/ Workflow!Close(w)
       \/ Workflow!AttemptTimesOut(w) \/ Workflow!EndExecution(w)
    /\ UNCHANGED <<vars, serves>>

ParsingNext ==
    \/ \E p \in Parses : Work(p) \/ Finish(p)
    \/ \E p \in Parses, w \in Threads : Post(p, w)
    \/ \E w \in Threads : WorkflowStep(w)

ParsingSpec == ParsingInit /\ [][ParsingNext]_parsingVars

\* As in the parts: the email worker and the LLM answer in the end, timers fire and
\* activity tasks are dispatched.  What the LLM says of a message is its affair.
ParsingFairness ==
    /\ \A p \in Parses : WF_parsingVars(Work(p) \/ Finish(p))
    /\ \A w \in Threads :
          /\ WF_parsingVars(\E p \in Parses : Post(p, w))
          /\ WF_parsingVars((Workflow!WakeUp(w) \/ Workflow!Close(w))
                               /\ UNCHANGED <<vars, serves>>)

ParsingFairSpec == ParsingSpec /\ ParsingFairness

-----------------------------------------------------------------------------
(* Properties.                                                             *)

\* A thread is closed only by the answer to the attempt that is awaited, from a
\* request about that thread with a verdict of the LLM; and the verdict is on
\* another thread's messages only if another request disturbed the prompt.
\* Retries and late answers close nothing.
ClosedByOwnVerdict ==
    [][\A w \in Threads :
          ~isDone[w] /\ isDone'[w] =>
              \E p \in Parses : /\ serves[p] = Workflow!CurrentCall(w)
                                /\ answer'[p] # None
                                /\ answer'[p].thread = w
                                /\ answer'[p].verdictOf # None
                                /\ answer'[p].undisturbed => IsOwn(answer'[p])]_parsingVars

\* systenDesign.md: "If thread isDone, End".  It does not when a mail that the LLM
\* takes for an RFQ is behind the one that made it done: setCustomerDetail throws
\* on every attempt (BuildRFQ), the activity has no limit of attempts, and the
\* workflow awaits it for ever.
DoneThreadsEnd ==
    \A w \in Threads : (Workflow!Running(w) /\ isDone[w]) ~> ~Workflow!Running(w)

=============================================================================
