# Quote Copilot in TLA+

Quote Copilot turns unread Gmail messages into quotes: an *email worker* stores
messages and announces them, an *agent orchestrator* (Temporal workflows) drives
one conversation per email thread, a *core service* asks an LLM what a thread
wants and builds a request for quotation (RFQ), and a few small workers and
shared libraries stand around them. This directory specifies the concurrent and
failure-prone core of that system in TLA+, model-checks it with TLC and proves
its central invariants with TLAPS.

Paths below are relative to the repository's sources; `PROJECT.json` maps every
definition to the lines it models.

## 1. Inventory

| Component | State | Operations | What makes it hard | What makes it correct |
|---|---|---|---|---|
| Email ingestion (`apps/email-workers`, `GetUnreadEmailsUseCase`, the Mongo repository, domain event and handler) | `threads` and `emails` collections; the aggregate a request holds; handlers in flight | fetch one unread message, read a snapshot (two queries), save (upserts, one document at a time), publish, `signalWithStart` | no transactions, upserts that race, a snapshot used after several awaits, handlers nobody awaits, restarts | one document and one storage id per Gmail thread; announced means stored; a message is announced once |
| Polling workflow (`getUnreadEmails.workflow.ts`, `orchestrator.service.ts`) | the Temporal execution, the attempt awaited, HTTP requests that go on in the email worker | start at boot, send, answer, time out, sleep | a timeout gives up waiting and not the work; restarts of the orchestrator | requests do not overlap unless an attempt timed out; polling goes on |
| Email thread workflow (`processEmailThread.workflow.ts`, its activity, the two signals) | `queue`, `isDone`, `status`, the activity attempt, calls in flight in the core service | NEW_MESSAGE, COMPLETE_THREAD, drain, act upon a verdict, sleep, close | signals handled at every await; unlimited attempts; late answers; executions ended by the server | messages are acted upon once each, in order; a done thread closes; nothing disappears silently |
| Message intent (`apps/core-service`, `MessageIntentUseCase`) | per request: thread, graph state | read thread, run graph, build and save RFQ, answer | concurrent requests in one process | an answer is about the thread it was asked about; a failure is never an answer |
| LLM graph and prompt builders (`libs/langchain`, `libs/prompts`) | one builder per node, shared by all requests | set context, render, call the LLM | a field read after an await; errors swallowed per node | no request's messages in another's prompt |
| Gmail client (`gmail.client.ts`, `gmailClient.mapper.ts`) | OAuth client, label ids | list and get, walk MIME trees, labels | recursion over trees; labels never set | which text is the body, which parts are attachments |
| RFQ aggregate, repository (`apps/core-service`) | RFQ document | build or update from an LLM answer, save, publish | read-then-write across awaits | one RFQ per thread (unreachable today, see §7) |
| Integration event publisher (`libs/common/eventPublishers`) | the subscription awaited, the dispatch of an emitted event | publish by rpc or emit, with validation, timeout and retry | two meanings of "retry" (send sends anew, emit does not); answers to attempts that were given up; lost messages | how often an event is delivered is bounded; the answer returned is the current one; `publish` ends |
| RFQ event handlers (`apps/core-service`) | none | publish integration events, send a confirmation | – | unreachable today (see §7) |
| Health checks (`libs/common/health`, five controllers) | connections opened by a check | NATS, Temporal, Gmail, Telegram, WhatsApp, MongoDB | a timer racing a dial, `finally` blocks, calls without deadline | connections are closed; probes are answered |
| Schema validation (`libs/schema-validation`) | metadata per handler | decorators, global interceptor, pipes | evaluation order, one slot per handler, framework rules on who is intercepted | a handler works on data its schema has accepted |
| Thread and attachment status, paginated queries, DTOs, configuration, document worker, Telegram and WhatsApp stubs, tooling CLI, tenants | – | – | – | not modelled, §8 |

How they interact: the polling workflow calls `GET /email-workers/unread-emails`
(HTTP, from a Temporal activity). The email worker's handler calls
`signalWithStart` on workflow id `email-thread-<storage id>`. That workflow's
activity posts to `parse-message-intent` of the core service, which reads the
thread back from the email worker over HTTP and calls an LLM up to three times.
The only shared state is MongoDB; everything else is calls and signals. Domain
events of an RFQ would be published as integration events over NATS, to the
document worker.

The hazards of this code, each at its line and with the properties that would
catch it, are listed in `PROJECT.json`.

## 2. Modules

| Module | Models | Composes |
|---|---|---|
| `EmailIngestion` | the email worker, one step per await, any number of overlapping requests | |
| `ThreadInbox` | abstract: what the workflows of threads promise to whoever signals them | |
| `EmailThreadWorkflow` | Temporal executions of `processEmailThreadWorkflow` and their activity | refines `ThreadInbox` |
| `UnreadEmailsWorkflow` | the polling execution, its activity and the orchestrator's starts | |
| `PolledIngestion` | poller and email worker together | `UnreadEmailsWorkflow`, `EmailIngestion` |
| `EmailPipeline` | poller, email worker and thread workflows together, and the reads of threads in between | `PolledIngestion`, `EmailThreadWorkflow` |
| `MessageIntent` | `parse-message-intent`: use case, graph, nodes, shared builders | |
| `ThreadParsing` | thread workflows and `parse-message-intent` together | `EmailThreadWorkflow`, `MessageIntent` |
| `IntegrationEvents` | `EventPublisher.publish`, NATS and a consumer | |
| `HealthChecks` | health endpoints and `CustomHealthIndicator` | |
| `GmailMapping` | `GmailClientMapper`'s two walks over a MIME tree | |
| `RequestValidation` | decorators, interceptor and pipes of one handler | |
| `MC*` | constants for TLC: threads of messages, kinds of MIME parts, symmetry | |
| `EmailThreadWorkflowProofs`, `UnreadEmailsWorkflowProofs`, `IntegrationEventsProofs`, `HealthChecksProofs`, `GmailMappingProofs`, `RequestValidationProofs` | theorems and proofs about one component | |
| `EmailPipelineProofs` | theorems and proofs about `EmailIngestion`, then about `PolledIngestion`, then about `EmailPipeline` | the proofs about poller and workflows |
| `ThreadParsingProofs` | theorems and proofs about `MessageIntent`, then about its composition with the workflows | |

Definitions headed "Mistake:" are plausible bugs of the definition that follows
them. No specification uses them; substituting one for its neighbour makes the
property it is paired with in `PROJECT.json` fail, which shows that the property
depends on that piece of code.

### State and actions against the code

**EmailIngestion.** `threadDocs[t]` is the sequence of documents a Gmail thread
has in the `threads` collection, in insertion order: the index on `threadId` is
not unique, so there may be several, and `find` and `replaceOne` pick different
ones. `emailDocs[m]` likewise. A request walks through `Fetch` (list and get:
the newest message of the account, as the query asks for one and nothing is ever
labelled), `ReadThreads` and `ReadEmails` (`findByThreadIds`), `SaveThread` and
`InsertThread` (the two halves of an upsert that misses), `SaveEmails` and
`InsertEmail`, `Publish`. `SaveThread`'s third disjunct is MongoDB refusing to
change `_id`. `TriggerWorkflow` is the domain event handler, which runs
concurrently with everything. `signalled` is the history of events that reached
a workflow. `RequestFails`, `TriggerFails` and `Crash` are a
rejected await, a refused signal and a restart of the process, counted in
`faults`.

**EmailThreadWorkflow.** Temporal runs workflow code without interruption from
one await to the next, so an action is exactly such a stretch: `Drain` is the
inner loop up to its next await, `WakeUp`, `Close` and `ActUpon` what leads to
it. `calls` is what the core service is working on, which may include attempts
Temporal has given up on. `AnswerError` is a rejected attempt, which Temporal
retries; as in the code it may happen any number of times. It keeps the attempt's
number: numbers only tell calls in flight apart, and the rejected call is in flight
no more. `accepted` and `settled` are histories. `EndExecution`
is the server ending an execution that never continues as new.

**UnreadEmailsWorkflow.** `polling` is the HTTP request the current attempt waits
for, `requests` all requests the email worker has not answered. `PollTimesOut`
forgets the first and leaves the second alone. `Boot` is a start of the orchestrator,
`StartPolling` the `signalWithStart` in it.

**PolledIngestion.** `Poll` is the poller's request and the worker's `Fetch` in one
step (or an answer at once, when there is no mail); a request is answered when
its use case is idle again. The worker is otherwise unaware of the poller.
`Trigger` is the worker's `TriggerWorkflow`, a step of its own because the pipeline
joins it. `late` is a history: the messages that arrived when their thread already
had two documents.

**EmailPipeline.** `PolledIngestion` as it is (`IngestionStep`), and the workflows.
`Signal` is the handler's `signalWithStart`, a step of worker and workflow. Each call
to the core service reads its thread through `findByStorageThreadId`, whose two
queries are two steps (`FindThread`, `FindEmails`) with saves of the worker in
between; `reads` holds what each call in flight has read. Late calls, which nobody
waits for, read as well. `CoreAnswers` needs a thread that was found: a 404 makes the
core service answer with an error (`AnswerError`, one of `OtherStep`), and so may
anything else, any number of times. An answer is always "not an RFQ", as an RFQ is
never answered (`MessageIntent`).

**MessageIntent.** `context[n]` is `this.context` of the one builder node `n` has.
`EnterNode` (setContext and the system template) and `RenderUserPrompt` (reads
the context after the await) are separate steps. A prompt is reduced to whose
messages it contains, an LLM answer to whose messages it was computed from.
`BuildRFQ` ends every RFQ in the `ReferenceError` of `RFQ.aggregate.ts:33`.

**ThreadParsing.** `Post` is the activity's HTTP request: an attempt of the workflow
and a request of the core service, tied together by `serves`. `Finish` is the end
of a request and what the workflow makes of it if it still waits for this very
attempt: an answer decides, a rejection is retried, anything late is dropped. The
verdicts, which `EmailThreadWorkflow` takes as they come, are here those that
`MessageIntent` can give. The workflows are named by threads, because a workflow
id is the storage id of a thread. `COMPLETE_THREAD` is left out: no code sends it.

**IntegrationEvents.** `options` is chosen once for each event: rpc or emit,
validated or not, valid or not. A request is `connecting`, then `asking`;
each attempt has an inbox of its own, so that a reply carries its attempt. For an
emitted event `dispatch` is the one dispatch that all subscriptions share, which
may still happen after `publish` has given up. `replies` may be lost, late,
errors, or empty: a handler that returns `undefined` completes the observable
without a value, for which `lastValueFrom` throws behind `catchError`. One
consumer is modelled; the document worker declares no NATS queue group, so each
of its replicas would get every message.

**HealthChecks.** A request runs all checks of its endpoint at once; `link` is the
connection or dial a check holds in its local variable. `RaceTimesOut` is the
timer of `Promise.race` winning: the check ends and its dial does not. The
endpoints are those the controllers declare; only the WhatsApp and Telegram
workers register theirs (§7), so the model allows more endpoints than run today
and what holds of it holds of any deployment that wires up some of them.

**GmailMapping.** A part is named by its path in the tree. The recursion of
`walkParts` is the list `at` of the indices of the loops under way, outermost first,
which is also the path of the part looked at: calling `walkParts` appends an index,
the end of a loop (`LoopEnds`) drops one and counts the one before it up. Each part is
a step. The properties define the expected result from document order alone.

**RequestValidation.** Decorators are evaluated from the bottom up and each
overwrites the one slot `metadata`. A value is `exact` (the schema returns it
unchanged), `loose` (changed) or `bad` (refused). A decorator records `for` the handler
or for something nobody looks up: one of a class records for the class, and for its
method `execute` too if there is one.

## 3. Runs

All passing runs check deadlock unless their `.cfg` says otherwise; it says so
where the system really may stop (bounds on signals and starts used up, or the
mapping finished).

| Run | Question | Bounds |
|---|---|---|
| `workflow` | order, conservation, overlap, refinement of the inbox, what can keep a message waiting or a thread open | 1 workflow id, 3 signals of 2 messages, 1 COMPLETE_THREAD, 3 timeouts or ended executions; rejected attempts unlimited |
| `polling` | overlap of requests, restarts, polling for ever | 4 request slots, 3 attempts (the code's number), 4 timeouts, 1 ended execution, 3 starts |
| `polled` | what holds of documents and events when requests overlap and fail at any await, and what overlap costs | 2 messages of one Gmail thread, 2 request slots, 1 fault, 2 attempts, 1 timeout, 1 ended execution, 2 starts, 9 UUIDs |
| `pipeline` | from mailbox to verdict: what torn reads contain, one workflow per thread, what can keep the newest message waiting | 2 messages, 1 request slot, 4 UUIDs, 1 attempt, no timeouts, 1 start, 2 faults of the worker, 1 timeout or end of a workflow, 2 signals per workflow, 1 completion; rejected attempts unlimited |
| `parsing` | mixed-up prompts, swallowed failures, and which verdicts close a thread | 2 threads, 2 request slots, 1 + 1 faults, 2 signals per thread and 3 in all (`MaxMails`) |
| `integration_events` | deliveries, answers and the end of `publish` | 1 event, all options, 3 retries (the code's default) |
| `health` | leaked connections, unanswered probes | 2 requests, 3 dials or connections at a time |
| `mapping` | body and attachments against a walk-free definition | every tree of up to 5 parts, 5 kinds of parts |
| `ingestion_starved` (violation) | is every message signalled? | 2 messages, 1 slot, no faults |
| `workflow_dropped` (violation) | is no accepted message dropped? | 2 signals, no faults |
| `done_threads` (violation) | does a thread that is done end? | 1 thread, 1 request slot, 2 signals, no faults |
| `stuck_thread` (violation) | is a thread that exists updated? | 2 messages, 2 request slots, 1 timeout, no faults |

The largest are `mapping` (1.6 million states), `parsing` (1.2 million), `polled` (1.0
million) and `pipeline` (0.19 million, with liveness).

Why these bounds are enough to mean something:

* Everything in the email worker is keyed by Gmail thread and threads share no
  document, so one thread suffices; two of its messages are needed for a message
  to overtake another, and two overlapping requests for an upsert to race. Nine
  UUIDs are never used up because an id returns to the pool when nothing refers
  to it any longer.
* Workflow ids share nothing but `faults` and `completes`. Three signals give one
  message in hand and two behind it, enough to reorder or to drop a tail; three
  faults allow a timeout, its late answer and an ended execution in one
  behaviour.
* Four timeouts against three attempts reach the failed execution and the start
  after it.
* `parsing`: two requests are the least that can mix prompts, and a third could only
  disturb one of the two in the same way. Two slots are also enough for an
  abandoned request and the retry beside it; they bound what the core service
  works on at a time, and a further attempt waits for a slot.
  Three signals in all give one thread a second message behind the first while the other
  thread has one too.
* `pipeline`: its properties speak of behaviours in which the poller was answered in
  time (`NeverOverlapped`), so timeouts and ended polling executions are bounded by 0,
  and one request slot is all the poller uses then (`OneRequestAtATime` proves it).
  Overlapping requests are the subject of `polled`, and the theorems cover both at
  once. Two messages and a save between the two queries of a read are what tears it.
* `integration_events`: events share nothing in the publisher, so one is enough. Four
  attempts allow three replies that come late beside the one awaited.
* In `health`, three connections let two requests hold one each while a third is
  leaked. A dial beyond the bound is not started (`Receive` waits).
* Five MIME parts contain every shape of two nested levels with siblings before
  and after, which is where the order of a walk can show.

### What the runs show

* **Threads and emails.** No event is published for something not stored
  (`AnnouncedIsStored`), with overlap and faults at any await. A stored message loses
  its announcement only by a fault that hits its own event (`LossesAreOwned`): a
  refused `signalWithStart` costs its message and no other, and only a restart, which
  takes all that is in flight, can cost several. Without overlap, a message is
  announced once, a thread has one storage id and lists all its emails
  (`OneStoryPerThread`), and MongoDB refuses no save, whatever failed in between
  before (`SavesAreAccepted`). A
  second document takes a timed-out poll or an ended execution
  (`DocsNeedTimeouts`, `OverlapNeedsTimeout`): restarts of the orchestrator and
  failures of the worker do not cause it. The same timeouts bound how often a message
  is announced and over how many workflows a thread is spread (`RepeatsNeedTimeouts`).
  Once there is a second document, saves of the thread are refused (`stuck_thread`), and
  no message that arrives later is ever announced (theorem `StuckThreadsStayStuck`).
* **The workflow** implements `ThreadInbox` (`ImplementsInbox`): every accepted message
  that is settled is settled in order, as parsed or as dropped with its execution.
  Each is settled some day, and a thread that is done closes, through timeouts and late
  answers, unless the core service rejects attempts of that thread for ever
  (`SettledUnlessRejected`, `DoneClosesUnlessRejected`). That is no theoretical
  exception: it does so for every RFQ (`done_threads`).
  `QueueEmptyAtVerdict` narrows when a message can be dropped: never by a verdict,
  only by a signal during the last sleep or by COMPLETE_THREAD.
* **Together.** Every read of a thread by the core service, retried, late or torn
  between its two queries, contains the message it is about and all that were
  accepted before (`ReadHasMessages`); what can be read never shrinks
  (`ReadsGrow`); all messages of a thread go through one workflow, each once
  (`OneWayThrough`); and the newest message reaches the end of its workflow if the
  email worker does not fail and the core service does not reject its thread for ever
  (`NewestIsSettled`).
* **Answers** may be computed from another thread's messages, exactly when another
  request enters the same node between `setContext` and the user template
  (`MixedOnlyIfDisturbed` is the tight form of what does hold). A failed
  classification is never answered (`FailureIsNoVerdict`), although the node
  swallows the error and the orchestrator would read a missing verdict as "not an
  RFQ": the graph has no edge for it and throws.
* **Verdicts.** Only the answer to the attempt that is awaited closes a thread, from a
  request about that thread with a verdict of the LLM (`ClosedByOwnVerdict`). A mail
  that the LLM takes for an RFQ is never answered: the attempt fails and is repeated
  without limit, the messages behind it wait, and a thread that an earlier message has
  made done does not end (`done_threads`).
* **Integration events.** An emitted event is delivered at most once whatever is
  retried, a requested one at most once per attempt, including attempts that were
  given up (`DeliveriesBounded`), so its consumers must be idempotent, without an
  event id to go by. What `publish` returns answers its last attempt
  (`AnswerIsCurrent`), and it ends though nobody listens (`PublishSettles`).
* **Health checks** leak nothing but NATS connections that opened after their race
  was lost, and always answer unless they wait for Gmail or Temporal.
* **Mapping.** The body is the *last* plain text in document order at any depth, else
  the last HTML; attachments are complete and in order.

## 4. Fairness

* *Polling*: Temporal fires timers and dispatches activities; the email worker
  answers every request (HTTP servers answer or the connection ends); the
  orchestrator is started once. Timeouts, ended executions and restarts are not
  fair. `PollsForever` is conditional on fewer timeouts than attempts.
* *Thread workflow*: weak fairness of an execution's next step: timers fire, activity
  tasks are dispatched, and the core service answers a request some day, well or badly.
  Timeouts and ended executions are bounded (`MaxFaults`), rejected attempts are not:
  the activity has no `maximumAttempts`, and an RFQ is rejected every time. So the
  liveness properties name the exception, attempts of the thread rejected for ever
  (`RejectedForEver`, `Rejects`), instead of assuming it away. A request that is answered
  at all ends the exception, because signals per workflow are bounded.
* *Email worker*: requests and handlers go on, and the worker is polled again
  (which `PollsForever` establishes for the poller). Arrivals and faults are
  not fair, and `NewestIsSettled` speaks of behaviours in which mail stops arriving.
* *Message intent and thread parsing*: the email worker and the LLM answer in the end,
  well or badly; attempts are posted and timers fire. `done_threads` fails under that
  fairness without any fault of the LLM, the email worker or Temporal.
* *Pipeline*: as for its parts: the orchestrator is started once and its timer fires
  (`Boot`, `PollAgain`), the poller's requests are sent and answered (`Poll`, `Answer`),
  requests, handlers and executions go on; and MongoDB answers queries (`FindThread`,
  `FindEmails`). The worker is asked again because the poller asks again, no longer by
  an assumption.
* *Integration events*: only the publisher's timers. Neither NATS nor a consumer is fair.
* *Health*: only timers, closing, and answering are fair. No remote service is.

## 5. Proofs

The proofs hold for every value of the constants that satisfies the modules' named
assumptions: `None` is not a message, id, thread, connection or set of checks,
bounds are natural numbers, `ThreadOf` maps messages to threads, MongoDB is configured,
and a MIME tree is a set of paths that has with a part those it lies in and those
numbered before it.

Where an argument is an induction over a position (which decorator is topmost, what of a
tree a walk has passed), it goes along the steps of the specification or takes the
first position at which a statement would fail, because the provers cannot instantiate
the induction theorems.

| Theorem | Statement | Argument |
|---|---|---|
| `EmailPipelineProofs!TypeCorrect` (of `EmailIngestion`) | `Spec => []TypeOK` | `TypeOK` is not inductive: a request that builds documents needs a message and a fresh id. `TypeInv` adds `Busy`, "a request that is not idle holds both". |
| `LossesNeedFaults` | `Spec => LossesAreOwned` | `LossInv` adds that a request inserts an email only if its snapshot lacked it, and so will announce it (`InsertsNew`). A message becomes unannounced only when the event or the request that had it in hand goes (`LostWasOwned`); steps other than a refused handler or a restart lose nothing (`NothingLost`, `InsertsLoseNothing`, `PublishesLoseNothing`) |
| `AnnouncedAreStored` | `Spec => []AnnouncedIsStored` | `StoredInv` adds what a request past each save has stored; sets of stored ids only grow (`SidsGrow`, `EidsGrow`), so what others do cannot undo it |
| `EmailThreadWorkflowProofs!TypeCorrect` | `Spec => []TypeOK` | `TypeInv` adds that a parsing execution has a message in hand and others none |
| `SignalsAreConserved` | `Spec => []FifoConserved` | `FifoInv`; sequence lemmas on `Outcomes`, `MessagesOf` and concatenation, proved by extensionality |
| `QueueIsEmptyAtVerdict` | `Spec => QueueEmptyAtVerdict` | from `TypeInv`, per action |
| `OverlapsNeedFaults` | `Spec => []OverlapNeedsFault` | `OverlapInv`: calls of an execution that it no longer awaits (`GivenUp`) are at most `faults`, a cardinality that only faults raise |
| `WorkflowImplementsInbox` | `Spec => ImplementsInbox` | step simulation: `ActUpon` is `Parse`, `Close` and `EndExecution` are `Abandon` or stutter, `FifoConserved` says the message settled is the one that stood next |
| `ThreadParsingProofs!TypeCorrect`, `FailuresAreNoVerdicts`, `AnswersAreOwnUnlessDisturbed` (of `MessageIntent`) | `TypeOK`, `FailureIsNoVerdict`, `MixedOnlyIfDisturbed` | `OwnInv` ties context, rendering and verdict of an undisturbed request to its thread at every stage |
| `UnreadEmailsWorkflowProofs!TypeCorrect` | `Spec => []TypeOK` | inductive as it is |
| `OverlapsNeedTimeouts` | `Spec => []OverlapNeedsTimeout` | `OverlapInv` counts exactly: requests nobody awaits are at most `timeouts + ends`, and an awaited one is in flight (`AwaitedInFlight`); the plain bound would let a poll start beside the awaited one |
| `PolledIsIngestion`, `PolledIsPolling` | `PolledSpec => Spec`, `PolledSpec => PollerFacts!Spec` | every step of the composition is one of the part or leaves it alone |
| `PolledEventsAreSound` | `PolledSpec => [](TypeOK /\ AnnouncedIsStored) /\ LossesAreOwned` | from `PolledIsIngestion` and the theorems about the worker |
| `DocumentsNeedTimeouts` | `PolledSpec => []DocsNeedTimeouts` | `DocsInv`: a thread's documents and the requests about to insert one (`Inserting`) are together at most `1 + timeouts + ends`. Once there is a document nobody misses it any more, so those who insert did so beside each other; they are requests the poller was not answered (`Asked`), and `OverlapInv` counts these |
| `RepeatedAnnouncementsNeedTimeouts` | `PolledSpec => []RepeatsNeedTimeouts` | `RepeatsInv`: as for documents, a message's stored emails and the requests about to insert one (`InsertingEmail`) are together at most `1 + timeouts + ends`. Each announcement names a stored email, and no two the same one (`EventsAreOwn`), which is an injection; the workflows of a thread are among its documents' storage ids |
| `StuckThreadsStayStuck` | `PolledSpec => []StuckThread` | `SidInv` tells storage ids apart: no two documents of a thread share one, and a fresh id is in no document until its own insert. `StuckInv`: a request that works on a late message gets as far as `SaveThread` and no further, as its snapshot has the last document and `replaceOne` finds the first, whose id is another (`Blocked`) |
| `OneStory` | `PolledSpec => []OneStoryPerThread` | `SoloInv`, inductive as long as at most one request is busy (`Alone`): one document per thread, stored messages listed in it, and a busy request's snapshot up to date with both collections, also after a fault between the two saves; it is used where `OneRequestAtATime` gives `Alone` |
| `OneRequestAtATime` | `PolledSpec => [](NeverOverlapped => Alone)` | a busy request is one the poller was not answered (`Asked`), and `OverlapInv` says that there is at most one of these while nothing timed out or ended |
| `SavesFit` | `PolledSpec => []SavesAreAccepted` | `FitInv` adds to `SoloInv` that what a request holds carries the ids of the first documents, which `replaceOne` finds, and that a message new to it is not stored (`Fits`); like `SoloInv` it is inductive while `Alone` |
| `PipelineIsPolled`, `PipelineIsWorkflow` | `PipelineSpec => PolledSpec`, `PipelineSpec => WorkflowFacts!Spec` | step simulation; the second needs the worker's types, so that it signals ids and messages |
| `PartsKeepTheirPromises` | in the pipeline the workflows implement the inbox, `LossesAreOwned` and `OneStoryPerThread` hold | from the two before |
| `HandledMessagesAreStored` | `PipelineSpec => []HandledIsStored` | `SignalInv`: what is accepted under an id was signalled under it. With `FifoConserved` (handled is accepted) and `AnnouncedIsStored` (signalled is stored) it ties both ends of the pipeline together, whatever overlaps or fails |
| `AcceptedTwiceNeedsTimeout` | `PipelineSpec => []AcceptedNeedTimeouts`: a message is accepted at most `1 + timeouts + ends` times, under whatever workflow ids, and a Gmail thread goes through no more workflows than that | `AcceptedInv`: a message is accepted as often as it was signalled (`AcceptedAsSignalled`: a signal adds one place and one event, the event is new); with `RepeatsNeedTimeouts` through `PipelineIsPolled` |
| `CallsReadTheirMessages`, `MessagesGoOneWay`, `WhatIsReadGrows` | `PipelineSpec => []ReadHasMessages`, `[]OneWayThrough`, `ReadsGrow` | `FlowInv`: `DocsInv` (with the poller's `OverlapInv`), and `PipelineInv` as long as `NeverOverlapped`. `PipelineInv` adds to `SoloInv` that a message is accepted once, a call is about an accepted one, and what a call has read so far contains all accepted up to its own. A read torn by a save is none the poorer because saves only add |
| `ThreadParsingProofs!ParsingIsIntent`, `ParsingIsWorkflow` | `ParsingSpec => Spec`, `ParsingSpec => Workflow!Spec` | step simulation: both parts keep their properties in the composition |
| `AnswersAreSound` | `ParsingSpec => [](TypeOK /\ FailureIsNoVerdict /\ MixedOnlyIfDisturbed)` | from `ParsingIsIntent` |
| `ThreadsAreClosedByTheirVerdict` | `ParsingSpec => ClosedByOwnVerdict` | `ParsingInv` ties each request to the call it serves and that call's thread, and says that no answer is about an RFQ |
| `IntegrationEventsProofs!TypeCorrect`, `AnswersAreCurrent` | `TypeOK`, `AnswerIsCurrent` | `Published` says which states, attempts and dispatches go together; `RepliesAreHandled` that a reply's message was handled |
| `DeliveriesAreBounded` | `Spec => []DeliveriesBounded` | `SendInv` bounds the attempt numbers a message in `messages` or `handled` may carry; the count follows from an injection into an interval |
| `HealthChecksProofs!TypeCorrect` | `Spec => []TypeOK` | not inductive alone: a NATS check that loses its race gives up the dial it holds, so `Dialed` says that it holds one |
| `ConnectionsAreOwned` | `Spec => []ConnectionsOwned` | `OwnedInv`: exactly the checks that dial, ask or close hold something (`Stages`), it is where their stage says, not lost and nobody else's (`Holding`), and every open connection that is not lost is held (`Pools`). The property counts holders of open connections; it is inductive only with the same said of dials |
| `GmailMappingProofs!TypeCorrect` | `Spec => []TypeOK` | `at` is always a place in the tree or one past a part's last part |
| `LastTextIsBody`, `FilesAreAttachments` | `Spec => []BodyIsLastText`, `Spec => []FilesInOrder` | a walk has behind it exactly the parts before `at` in document order (`Seen`): looking at a part adds that part, the end of a loop adds nothing. `BodyInv`: the texts held are the last ones seen; `FilesInv`: the attachments are the files seen, in order |
| `RequestValidationProofs!TypeCorrect` | `Spec => []TypeOK` | a schema is recorded only for a source the handler is given, so that looking it up in the request is defined |
| `HandlersAreGuarded` | `Spec => []HandlerIsGuarded` | `RecordedInv`: the topmost method decorator of those left to evaluate decides, else what is recorded already, so in the end `metadata = topmost`; `GuardInv` follows one request from there to its outcome |

`CallsReadTheirMessages`, `MessagesGoOneWay` and `WhatIsReadGrows` need no hypothesis on
the email worker: the poller is part of `EmailPipeline`, and their properties say "while
the poller was answered in time". The condition is not for convenience. Two requests that
overlap may store two documents for one thread, after which the thread's messages go
two ways and a snapshot shows only one of the documents. What is left then:
`DocumentsNeedTimeouts`, `RepeatedAnnouncementsNeedTimeouts` and
`AcceptedTwiceNeedsTimeout` bound by the timeouts how many ways a thread and how often
a message may go, `StuckThreadsStayStuck` says that later messages go no way at all, and
`HandledMessagesAreStored`,
`PipelineIsWorkflow` and `PartsKeepTheirPromises` hold regardless.

Where an invariant had to be found, TLC checked it on the run's instance before it was
proved.

Only model-checked is liveness, which the provers do not reach: `PollsForever`,
`SettledUnlessRejected`, `DoneClosesUnlessRejected`, `NewestIsSettled`, `PublishSettles`
and `AnsweredInTime`. Every invariant and every safety property of a step that a
passing run checks is also a theorem. The properties of the four runs that expect a
violation are false, each with the counterexample TLC finds. `RequestValidation` and
`StuckThread` are the other way round, proved and not among the runs: a handler and its
decorators are sequential, and a stuck thread is the subject of `stuck_thread`. What
`HandlerIsGuarded` says leaves out the handlers of commands and queries, whose schemas
nothing applies (§7).

## 6. Plan

Done, in this order: ingestion, thread workflow, poller, the two compositions, message
intent and the libraries around them; then the composition of thread workflows
and core service, the torn read of a thread, the publisher of integration events,
and the loss, overlap and document counts as theorems.

Then stuck threads, `OneStoryPerThread`, the properties of the pipeline and
`ConnectionsOwned` as theorems; the pipeline with the poller in it, so that its theorems
no longer assume what the poller provides; the mapping of a message of any shape, and
validation with any number of decorators. Last, what overlapping requests may repeat:
bounds on announcements, acceptances and workflows of a thread; which fault a lost
announcement is owed to; and that saves are accepted without overlap.

Next, most important first:

1. What a thread with two documents still guarantees to the core service: which
   properties of the pipeline survive for the threads that have one document.
2. If the code is repaired: the RFQ aggregate and repository once `setCustomerDetail`
   works (find, build, save and publish across awaits by two requests), with the
   RFQ's domain events feeding `IntegrationEvents`.

## 7. Where the code differs from what it says

Shown by runs (`PROJECT.json`, findings):

* A message overtaken by a newer one before it is fetched is never fetched
  (`gmail.client.ts:34`; `systenDesign.md:16`).
* A message signalled during an execution's last sleep is dropped
  (`processEmailThread.workflow.ts:69`; `apps/agent-orchestrator/README.md:40`).
* Every attempt to parse a message classified as RFQ fails before the RFQ is saved, and
  attempts have no limit: what is queued behind it waits for ever, and a thread that is
  done does not end (`RFQ.aggregate.ts:33`, `processEmailThread.workflow.ts:10-12`;
  `systenDesign.md:18` and `:48`).
* Two overlapping requests may leave two documents for one Gmail thread, after
  which every save of that thread is refused (`emailMessageRepository.adapter.ts:44`;
  its comment at `:37-39` promises that a document that exists is updated).

Modelled, and described here only:

* A refused `signalWithStart` is logged and forgotten
  (`triggerWorkflowOnUnreadEmails.handler.ts:20`).
* The third timeout of one poll ends polling until the orchestrator is restarted
  (`getUnreadEmails.workflow.ts:22`); `systenDesign.md:12` speaks of a schedule.
* Two requests in one LLM node may be answered from each other's messages
  (`promptBuilder.abstract.ts:53`).
* A query schema on a route rejects good queries: Express 5 has no setter for
  `request.query`, the assignment throws inside the `try` block, and the caller is told
  that validation failed (`schemaValidation.interceptor.ts:91-94`). Data a schema refuses
  is an internal server error, because `SchemaValidationException` is not an
  `HttpException`.
* Schemas on CQRS handlers are never applied, since interceptors do not run for buses;
  `libs/schema-validation/README.md:41-44` lists them as validation "via interceptors",
  and `useCaseValidation.decorators.ts:6` says "Validates command input".

Seen while modelling and not part of any model:

* `EventPublisher` is not provided by `EventPublishersModule`, and the handlers that
  would call it are registered nowhere and do not await `publish`. It publishes to
  `evtTopic`, an object, where the document worker listens to the string of
  `buildTopic`.
* No code sends `COMPLETE_THREAD`.
* The health controllers of the email worker, the core service and the orchestrator
  are registered by no module.
* No code stores attachments, so `Attachment` documents never exist.
* `messageIntent.useCase.ts:56` sorts by `DateTime.fromJSDate` of strings, which is
  `NaN` for all of them.
* `RFQ.aggregate.ts` imports `./rfq.entity` while the file is `RFQ.entity.ts`; the
  RFQ mapper writes `id` while `save` filters on `_id`.
* The Gmail client's list of labels is read before it creates the agent's label and
  not again; two workers that start at once may both create it. Its only user,
  `markMessagesAsAgentReadOrThrow`, is never called.

## 8. Not modelled, and why

* *RFQ persistence, RFQ events and their handlers*: no execution reaches them (§7).
  What the aggregate would do after `setCustomerDetail`, its line items, status
  changes and events, is code behind an exception.
* *Status value objects*: transition tables no operation applies.
* *Document worker*: its processing and its handlers' calls are commented out, and what
  is left logs or returns constants. As a consumer it is part of `IntegrationEvents`.
* *Telegram and WhatsApp workers, tenants*: generated stubs, apart from their health
  endpoints. *Tooling CLI*: an interactive OAuth exchange.
* *DTOs, schemas' contents, prompt texts, configuration, paginated query builder*:
  data the properties do not tell apart.
* *`executeWF`*: a helper with no caller in the running services.
* *Gmail labels and attachment download*: at start-up, where nothing depends on their
  outcome, and operations nobody calls.
* *The order of messages in a prompt*: prompts are reduced to whose messages they hold.
* *Attachments*: `save` writes threads and emails only, so none is ever stored.
* *MongoDB, Temporal, NATS and Gmail themselves*: modelled by the behaviour the code
  relies on (replace with upsert is find-then-insert without a unique index; signals
  are durable; activities are retried), marked external in the map.

## 9. Running

    tlc -workers 2 -config EmailThreadWorkflow.cfg EmailThreadWorkflow.tla
    tlapm EmailThreadWorkflowProofs.tla

Every run finishes in less than two minutes on two cores. The pairing of modules and
configurations is in `PROJECT.json`.
