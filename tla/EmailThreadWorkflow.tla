------------------------- MODULE EmailThreadWorkflow -------------------------
(***************************************************************************)
(* processEmailThreadWorkflow: one Temporal workflow per stored e-mail     *)
(* thread.  signalWithStart queues a message in the running execution, or  *)
(* starts an execution when there is none.  The execution parses its       *)
(* messages one at a time through parseEmailIntentActivity, which posts to *)
(* the core service, and sleeps five seconds whenever its queue is empty.  *)
(*                                                                         *)
(* Between two awaits the workflow code runs as one activation, so each    *)
(* action below is everything the code does from one await to the next.    *)
(* Signal handlers run inside the execution and only between awaits.       *)
(***************************************************************************)
EXTENDS Naturals, Sequences, FiniteSets

CONSTANTS
    Workflows,    \* workflow ids: email-thread-<storage id>
    Messages,     \* message ids carried by the signals
    None,
    MaxSignals,   \* bound: signals sent to one workflow id
    MaxCompletes, \* bound: COMPLETE_THREAD signals
    MaxFaults     \* bound: timed-out attempts and ended executions

ASSUME WorkflowAssumption ==
    /\ None \notin Messages
    /\ MaxSignals \in Nat
    /\ MaxCompletes \in Nat
    /\ MaxFaults \in Nat

VARIABLES
    status,    \* of the latest execution: "none", "running", "closed", "ended"
    at,        \* the await the execution is suspended in: "parsing" or "sleeping"
    queue,     \* state.queue
    current,   \* the message shifted from the queue, or None
    isDone,    \* state.isDone
    rfqParsed, \* state.status = 'RFQ_PARSED' (latestRFQ and summary are set with it)
    attempt,   \* the attempt of the current activity that Temporal waits for, or 0
    calls,     \* executions of the core service's parse-message-intent in flight
    accepted,  \* messages accepted under each workflow id, in order
    settled,   \* what became of them, in order: parsed, or dropped with an execution
    completes, \* COMPLETE_THREAD signals sent so far
    faults     \* timed-out attempts and ended executions so far

vars == <<status, at, queue, current, isDone, rfqParsed, attempt, calls,
          accepted, settled, completes, faults>>

-----------------------------------------------------------------------------

\* One request to the core service: an attempt of the activity for the message
\* with that number, counted over all executions of the workflow id.
Call == [workflow : Workflows, number : Nat, attempt : Nat]

\* The call that Temporal is waiting for.
CurrentCall(w) ==
    [workflow |-> w, number |-> Len(settled[w]) + 1, attempt |-> attempt[w]]

Running(w) == status[w] = "running"
Parsing(w) == Running(w) /\ at[w] = "parsing"
Sleeping(w) == Running(w) /\ at[w] = "sleeping"

\* Mistake: nothing in hand counts as a message.
InHandAlways(w) == <<current[w]>>

InHand(w) == IF current[w] = None THEN <<>> ELSE <<current[w]>>

\* Messages accepted and not yet acted upon, oldest first.
Inbox(w) == InHand(w) \o queue[w]

\* The messages of a sequence, all with one outcome.
Outcomes(s, outcome) == [i \in DOMAIN s |-> [message |-> s[i], outcome |-> outcome]]

\* The messages of a sequence of outcomes.
MessagesOf(s) == [i \in DOMAIN s |-> s[i].message]

Init ==
    /\ status = [w \in Workflows |-> "none"]
    /\ at = [w \in Workflows |-> "sleeping"]
    /\ queue = [w \in Workflows |-> <<>>]
    /\ current = [w \in Workflows |-> None]
    /\ isDone = [w \in Workflows |-> FALSE]
    /\ rfqParsed = [w \in Workflows |-> FALSE]
    /\ attempt = [w \in Workflows |-> 0]
    /\ calls = {}
    /\ accepted = [w \in Workflows |-> <<>>]
    /\ settled = [w \in Workflows |-> <<>>]
    /\ completes = 0
    /\ faults = 0

Fault == faults < MaxFaults /\ faults' = faults + 1

-----------------------------------------------------------------------------
(* Signals.                                                                *)

\* The NEW_MESSAGE handler pushes the message.
SignalRunning(w, m) ==
    /\ Running(w)
    /\ queue' = [queue EXCEPT ![w] = Append(@, m)]
    /\ accepted' = [accepted EXCEPT ![w] = Append(@, m)]
    /\ UNCHANGED <<status, at, current, isDone, rfqParsed, attempt, calls,
                   settled, completes, faults>>

\* No execution is running: one starts with the initial state, and its first
\* activation handles the signal.  It has not looked at its queue yet, exactly
\* as if it woke from a sleep.
SignalStarts(w, m) ==
    /\ ~Running(w)
    /\ status' = [status EXCEPT ![w] = "running"]
    /\ at' = [at EXCEPT ![w] = "sleeping"]
    /\ queue' = [queue EXCEPT ![w] = <<m>>]
    /\ current' = [current EXCEPT ![w] = None]
    /\ isDone' = [isDone EXCEPT ![w] = FALSE]
    /\ rfqParsed' = [rfqParsed EXCEPT ![w] = FALSE]
    /\ attempt' = [attempt EXCEPT ![w] = 0]
    /\ accepted' = [accepted EXCEPT ![w] = Append(@, m)]
    /\ UNCHANGED <<calls, settled, completes, faults>>

SignalWithStart(w, m) == SignalRunning(w, m) \/ SignalStarts(w, m)

\* The COMPLETE_THREAD handler.
CompleteThread(w) ==
    /\ Running(w)
    /\ completes < MaxCompletes
    /\ completes' = completes + 1
    /\ isDone' = [isDone EXCEPT ![w] = TRUE]
    /\ UNCHANGED <<status, at, queue, current, rfqParsed, attempt, calls,
                   accepted, settled, faults>>

-----------------------------------------------------------------------------
(* The main loop.                                                          *)

\* Mistake: queue.pop() for queue.shift().
DrainNewest(w) ==
    \/ /\ queue[w] = <<>>
       /\ at' = [at EXCEPT ![w] = "sleeping"]
       /\ current' = [current EXCEPT ![w] = None]
       /\ attempt' = [attempt EXCEPT ![w] = 0]
       /\ UNCHANGED queue
    \/ /\ queue[w] # <<>>
       /\ at' = [at EXCEPT ![w] = "parsing"]
       /\ current' = [current EXCEPT ![w] = queue[w][Len(queue[w])]]
       /\ queue' = [queue EXCEPT ![w] = SubSeq(@, 1, Len(@) - 1)]
       /\ attempt' = [attempt EXCEPT ![w] = 1]

\* The inner loop up to its next await: take the oldest message and schedule
\* its activity, or sleep.  It does not look at isDone.
Drain(w) ==
    \/ /\ queue[w] = <<>>
       /\ at' = [at EXCEPT ![w] = "sleeping"]
       /\ current' = [current EXCEPT ![w] = None]
       /\ attempt' = [attempt EXCEPT ![w] = 0]
       /\ UNCHANGED queue
    \/ /\ queue[w] # <<>>
       /\ at' = [at EXCEPT ![w] = "parsing"]
       /\ current' = [current EXCEPT ![w] = Head(queue[w])]
       /\ queue' = [queue EXCEPT ![w] = Tail(@)]
       /\ attempt' = [attempt EXCEPT ![w] = 1]

\* The sleep is over and the outer loop goes round.
WakeUp(w) ==
    /\ Sleeping(w)
    /\ ~isDone[w]
    /\ Drain(w)
    /\ UNCHANGED <<status, isDone, rfqParsed, calls, accepted, settled,
                   completes, faults>>

\* Mistake: the outer loop also waits for an RFQ.
CloseOnceParsed(w) ==
    /\ Sleeping(w)
    /\ isDone[w] /\ rfqParsed[w]
    /\ status' = [status EXCEPT ![w] = "closed"]
    /\ settled' = [settled EXCEPT ![w] = @ \o Outcomes(queue[w], "dropped")]
    /\ queue' = [queue EXCEPT ![w] = <<>>]
    /\ UNCHANGED <<at, current, isDone, rfqParsed, attempt, calls, accepted,
                   completes, faults>>

\* The sleep is over and the outer loop ends: whatever is queued goes with it.
Close(w) ==
    /\ Sleeping(w)
    /\ isDone[w]
    /\ status' = [status EXCEPT ![w] = "closed"]
    /\ settled' = [settled EXCEPT ![w] = @ \o Outcomes(queue[w], "dropped")]
    /\ queue' = [queue EXCEPT ![w] = <<>>]
    /\ UNCHANGED <<at, current, isDone, rfqParsed, attempt, calls, accepted,
                   completes, faults>>

\* Mistake: the inner loop is left as soon as the thread is done.
ActUponAndStop(w, isRFQ) ==
    /\ settled' = [settled EXCEPT ![w] = @ \o Outcomes(InHand(w), "parsed")]
    /\ rfqParsed' = [rfqParsed EXCEPT ![w] = @ \/ isRFQ]
    /\ isDone' = [isDone EXCEPT ![w] = @ \/ ~isRFQ]
    /\ \/ isRFQ /\ Drain(w)
       \/ /\ ~isRFQ
          /\ at' = [at EXCEPT ![w] = "sleeping"]
          /\ current' = [current EXCEPT ![w] = None]
          /\ attempt' = [attempt EXCEPT ![w] = 0]
          /\ UNCHANGED queue

\* The activity's result reaches the workflow: parsed.isRFQ keeps the thread
\* open, anything else marks it done.  Then the inner loop goes on.
ActUpon(w, isRFQ) ==
    /\ settled' = [settled EXCEPT ![w] = @ \o Outcomes(InHand(w), "parsed")]
    /\ rfqParsed' = [rfqParsed EXCEPT ![w] = @ \/ isRFQ]
    /\ isDone' = [isDone EXCEPT ![w] = @ \/ ~isRFQ]
    /\ Drain(w)

-----------------------------------------------------------------------------
(* The activity: an HTTP request to the core service per attempt, attempts *)
(* without limit, five minutes each.                                       *)

\* Mistake: the loop does not await the activity.
StartUnawaited(w) ==
    /\ Parsing(w)
    /\ calls' = calls \cup {CurrentCall(w)}
    /\ ActUpon(w, TRUE)
    /\ UNCHANGED <<status, accepted, completes, faults>>

\* A worker takes the attempt and posts to the core service.
StartAttempt(w) ==
    /\ Parsing(w)
    /\ CurrentCall(w) \notin calls
    /\ calls' = calls \cup {CurrentCall(w)}
    /\ UNCHANGED <<status, at, queue, current, isDone, rfqParsed, attempt,
                   accepted, settled, completes, faults>>

\* The core service answers the attempt Temporal waits for.
Answer(w, isRFQ) ==
    /\ Parsing(w)
    /\ CurrentCall(w) \in calls
    /\ calls' = calls \ {CurrentCall(w)}
    /\ ActUpon(w, isRFQ)
    /\ UNCHANGED <<status, accepted, completes, faults>>

\* It answers with an error, which the activity rethrows, and Temporal retries.
\* Neither has a limit: an RFQ is rejected on every attempt.  The next attempt may
\* take the number of this one, which no call in flight has any more.
AnswerError(w) ==
    /\ Parsing(w)
    /\ CurrentCall(w) \in calls
    /\ calls' = calls \ {CurrentCall(w)}
    /\ UNCHANGED <<status, at, queue, current, isDone, rfqParsed, attempt,
                   accepted, settled, completes, faults>>

\* Five minutes pass, or the worker is gone: Temporal schedules the next
\* attempt.  The core service knows nothing of it and goes on with the old one.
AttemptTimesOut(w) ==
    /\ Parsing(w)
    /\ CurrentCall(w) \in calls
    /\ Fault
    /\ attempt' = [attempt EXCEPT ![w] = @ + 1]
    /\ UNCHANGED <<status, at, queue, current, isDone, rfqParsed, calls,
                   accepted, settled, completes>>

\* The core service finishes a request whose attempt is no longer waited for.
LateAnswer(c) ==
    /\ c \in calls
    /\ ~(Parsing(c.workflow) /\ c = CurrentCall(c.workflow))
    /\ calls' = calls \ {c}
    /\ UNCHANGED <<status, at, queue, current, isDone, rfqParsed, attempt,
                   accepted, settled, completes, faults>>

\* The server ends an execution whose history is too long.  The loop never
\* continues as new, and each sleep adds events to the history.
EndExecution(w) ==
    /\ Running(w)
    /\ Fault
    /\ status' = [status EXCEPT ![w] = "ended"]
    /\ settled' = [settled EXCEPT ![w] = @ \o Outcomes(Inbox(w), "dropped")]
    /\ queue' = [queue EXCEPT ![w] = <<>>]
    /\ current' = [current EXCEPT ![w] = None]
    /\ attempt' = [attempt EXCEPT ![w] = 0]
    /\ UNCHANGED <<at, isDone, rfqParsed, calls, accepted, completes>>

-----------------------------------------------------------------------------

\* The sender's bound on the signals of one workflow id.
MaySignal(w) ==
    Len(accepted[w]) < MaxSignals

ExecutionStep(w) ==
    \/ WakeUp(w) \/ Close(w)
    \/ StartAttempt(w)
    \/ \E isRFQ \in BOOLEAN : Answer(w, isRFQ)

FaultStep(w) == AttemptTimesOut(w) \/ EndExecution(w)

Next ==
    \/ \E w \in Workflows :
        \/ \E m \in Messages : MaySignal(w) /\ SignalWithStart(w, m)
        \/ CompleteThread(w)
        \/ ExecutionStep(w)
        \/ AnswerError(w)
        \/ FaultStep(w)
    \/ \E c \in calls : LateAnswer(c)

Spec == Init /\ [][Next]_vars

\* Temporal fires timers and dispatches activity tasks, and the core service
\* answers every request in the end, well or badly: it need not answer any well.
Fairness ==
    \A w \in Workflows : WF_vars(ExecutionStep(w))

FairSpec == Spec /\ Fairness

-----------------------------------------------------------------------------
(* Properties.                                                             *)

Settlement == [message : Messages, outcome : {"parsed", "dropped"}]

\* Every variable stays within its type.
TypeOK ==
    /\ status \in [Workflows -> {"none", "running", "closed", "ended"}]
    /\ at \in [Workflows -> {"parsing", "sleeping"}]
    /\ queue \in [Workflows -> Seq(Messages)]
    /\ current \in [Workflows -> Messages \cup {None}]
    /\ isDone \in [Workflows -> BOOLEAN]
    /\ rfqParsed \in [Workflows -> BOOLEAN]
    /\ attempt \in [Workflows -> Nat]
    /\ calls \subseteq Call
    /\ accepted \in [Workflows -> Seq(Messages)]
    /\ settled \in [Workflows -> Seq(Settlement)]
    /\ completes \in 0..MaxCompletes
    /\ faults \in 0..MaxFaults

\* Signals are neither lost silently, nor duplicated, nor reordered: across
\* executions, retries and late answers, the messages accepted under a workflow
\* id are those settled so far, then the one in hand, then the queue.
FifoConserved ==
    \A w \in Workflows : accepted[w] = MessagesOf(settled[w]) \o Inbox(w)

\* A verdict that closes the thread does not abandon what is already queued:
\* the inner loop ignores isDone, so when the execution goes to its last sleep
\* its queue is empty.  Only a message signalled during that sleep (or after a
\* COMPLETE_THREAD signal) can be dropped.
QueueEmptyAtVerdict ==
    [][\A w \in Workflows :
          Parsing(w) /\ Sleeping(w)' => queue'[w] = <<>>]_vars

\* The core service works on one message of a thread at a time unless an
\* attempt timed out or an execution was ended under it: at most one request
\* per workflow, plus one per fault.
OverlapNeedsFault ==
    \A w \in Workflows :
        Cardinality({c \in calls : c.workflow = w}) <= 1 + faults

Abstract == INSTANCE ThreadInbox

\* The workflow implements its inbox: executions, retries and late answers are
\* invisible to those who signal.
ImplementsInbox == Abstract!Spec

\* The core service rejects requests of w again and again, for ever: since the
\* inbox is bounded, requests about one message.
RejectedForEver(w) == []<><<AnswerError(w)>>_vars

\* No message that was accepted waits for ever: the workflow acts on its verdict
\* or ends with it, through timeouts, late answers and signals at any await.  The
\* one exception is a thread in which the core service rejects a message for ever,
\* as it does every RFQ: there, all that is queued behind it waits too.
SettledUnlessRejected ==
    \A w \in Workflows : Abstract!ServesFairly(w) \/ RejectedForEver(w)

\* A thread that is done, by a verdict or by COMPLETE_THREAD at whatever await, is
\* closed, with the same exception.
DoneClosesUnlessRejected ==
    \A w \in Workflows :
        ((Running(w) /\ isDone[w]) ~> ~Running(w)) \/ RejectedForEver(w)

\* agent-orchestrator/README.md: "Signals are durable and queued, even if the
\* workflow is busy or sleeping".  No accepted message is dropped.
NothingDropped ==
    \A w \in Workflows : \A i \in DOMAIN settled[w] :
        settled[w][i].outcome = "parsed"

=============================================================================
