------------------------- MODULE UnreadEmailsWorkflow -------------------------
(***************************************************************************)
(* getUnreadEmailsWorkflow: the one Temporal workflow that polls the email *)
(* worker, a minute after each answer.  The poll is an activity of at most *)
(* three attempts of five minutes each; it swallows every error, so only a *)
(* timeout makes Temporal try again, while the HTTP request of the attempt *)
(* that timed out goes on in the email worker.                             *)
(***************************************************************************)
EXTENDS Naturals, FiniteSets

CONSTANTS
    Requests,     \* HTTP requests GET /email-workers/unread-emails
    None,
    MaxAttempts,  \* retry.maximumAttempts, 3 in the code
    MaxTimeouts,  \* bound: attempts that time out
    MaxEnds,      \* bound: executions ended by the server
    MaxBoots      \* bound: starts of the orchestrator

ASSUME PollingAssumption ==
    /\ None \notin Requests
    /\ MaxAttempts \in Nat \ {0}
    /\ MaxTimeouts \in Nat
    /\ MaxEnds \in Nat
    /\ MaxBoots \in Nat

VARIABLES
    run,        \* the latest execution: "none", "running", "failed", "ended"
    phase,      \* the await it is suspended in: "polling" or "sleeping"
    tries,      \* attempts of the current activity so far
    polling,    \* the request of the attempt Temporal waits for, or None
    requests,   \* requests the email worker has not answered
    timeouts, ends, boots   \* counted for their bounds

vars == <<run, phase, tries, polling, requests, timeouts, ends, boots>>

Init ==
    /\ run = "none"
    /\ phase = "sleeping"
    /\ tries = 0
    /\ polling = None
    /\ requests = {}
    /\ timeouts = 0
    /\ ends = 0
    /\ boots = 0

\* Mistake: every start of the orchestrator begins another execution.
BootAnew ==
    /\ boots < MaxBoots
    /\ boots' = boots + 1
    /\ run' = "running"
    /\ phase' = "polling"
    /\ tries' = 1
    /\ polling' = None
    /\ UNCHANGED <<requests, timeouts, ends>>

\* signalWithStart on the fixed workflow id starts an execution if none is
\* running, and otherwise only signals, which prints a line.
StartPolling ==
    \/ /\ run = "running"
       /\ UNCHANGED <<run, phase, tries>>
    \/ /\ run # "running"
       /\ run' = "running"
       /\ phase' = "polling"
       /\ tries' = 1

\* The orchestrator starts: startUpWorkflows comes before the worker runs.
Boot ==
    /\ boots < MaxBoots
    /\ boots' = boots + 1
    /\ StartPolling
    /\ UNCHANGED <<polling, requests, timeouts, ends>>

\* The activity sends its request.
SendRequest(r) ==
    /\ run = "running"
    /\ phase = "polling"
    /\ polling = None
    /\ r \notin requests
    /\ requests' = requests \cup {r}
    /\ polling' = r
    /\ UNCHANGED <<run, phase, tries, timeouts, ends, boots>>

\* The email worker answers.  An error is as good as an answer.  The answer to
\* an attempt that timed out reaches nobody.
Answered(r) ==
    /\ r \in requests
    /\ requests' = requests \ {r}
    /\ \/ /\ polling = r
          /\ polling' = None
          /\ phase' = "sleeping"
          /\ tries' = 0
       \/ /\ polling # r
          /\ UNCHANGED <<polling, phase, tries>>
    /\ UNCHANGED <<run, timeouts, ends, boots>>

\* A minute later.
PollAgain ==
    /\ run = "running"
    /\ phase = "sleeping"
    /\ phase' = "polling"
    /\ tries' = 1
    /\ UNCHANGED <<run, polling, requests, timeouts, ends, boots>>

\* Mistake: one attempt too many.
TimesOutOnceMore ==
    /\ run = "running"
    /\ polling # None
    /\ timeouts < MaxTimeouts
    /\ timeouts' = timeouts + 1
    /\ polling' = None
    /\ \/ tries <= MaxAttempts /\ tries' = tries + 1 /\ UNCHANGED run
       \/ tries > MaxAttempts /\ tries' = 0 /\ run' = "failed"
    /\ UNCHANGED <<phase, requests, ends, boots>>

\* Mistake: no second attempt.
TimesOutForGood ==
    /\ run = "running"
    /\ polling # None
    /\ timeouts < MaxTimeouts
    /\ timeouts' = timeouts + 1
    /\ polling' = None
    /\ tries' = 0
    /\ run' = "failed"
    /\ UNCHANGED <<phase, requests, ends, boots>>

\* Five minutes without an answer.  After the last attempt the activity failure
\* is thrown out of the workflow function and the execution fails.
PollTimesOut ==
    /\ run = "running"
    /\ polling # None
    /\ timeouts < MaxTimeouts
    /\ timeouts' = timeouts + 1
    /\ polling' = None
    /\ \/ /\ tries < MaxAttempts
          /\ tries' = tries + 1
          /\ UNCHANGED run
       \/ /\ tries >= MaxAttempts
          /\ tries' = 0
          /\ run' = "failed"
    /\ UNCHANGED <<phase, requests, ends, boots>>

\* The server ends the execution: the loop never continues as new, and a
\* history has a largest size.
EndPolling ==
    /\ run = "running"
    /\ ends < MaxEnds
    /\ ends' = ends + 1
    /\ run' = "ended"
    /\ polling' = None
    /\ tries' = 0
    /\ UNCHANGED <<phase, requests, timeouts, boots>>

Next ==
    \/ Boot \/ PollAgain \/ PollTimesOut \/ EndPolling
    \/ \E r \in Requests : SendRequest(r) \/ Answered(r)

Spec == Init /\ [][Next]_vars

\* Temporal fires timers and dispatches activities; the email worker answers
\* every request; the orchestrator is started at least once.
Fairness ==
    /\ WF_vars(boots = 0 /\ Boot)
    /\ WF_vars(PollAgain)
    /\ WF_vars(\E r \in Requests : SendRequest(r))
    /\ \A r \in Requests : WF_vars(Answered(r))

FairSpec == Spec /\ Fairness

-----------------------------------------------------------------------------
(* Properties.                                                             *)

\* Every variable stays within its type.
TypeOK ==
    /\ run \in {"none", "running", "failed", "ended"}
    /\ phase \in {"polling", "sleeping"}
    /\ tries \in 0..MaxAttempts
    /\ polling \in Requests \cup {None}
    /\ requests \subseteq Requests
    /\ timeouts \in 0..MaxTimeouts
    /\ ends \in 0..MaxEnds
    /\ boots \in 0..MaxBoots

\* The use case is not written for overlapping requests.  The email worker has
\* at most one polling request at a time, plus one for every attempt that timed
\* out and every execution ended under its activity: restarts of the
\* orchestrator alone never make requests overlap.
OverlapNeedsTimeout == Cardinality(requests) <= 1 + timeouts + ends

\* In a behaviour where fewer attempts time out than one activity may have, and
\* the server never ends the execution, mail is polled for ever.
PollsForever ==
    [](timeouts < MaxAttempts /\ ends = 0) =>
        /\ []<>(run = "running" /\ phase = "polling")
        /\ []<>(run = "running" /\ phase = "sleeping")

=============================================================================
