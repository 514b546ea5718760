----------------------------- MODULE MessageIntent -----------------------------
(***************************************************************************)
(* The core service's parse-message-intent: MessageIntentUseCase reads a   *)
(* thread from the email worker and runs ParseEmailIntentGraph on it, up   *)
(* to three LLM nodes in a row.  A node asks its PromptBuilder for the     *)
(* prompt.  There is one builder per node for the whole process (transient *)
(* providers are created once per consumer, and the nodes are singletons), *)
(* and it keeps the messages to render in a field, across an await.        *)
(*                                                                         *)
(* Whose messages a prompt is made of is all that is kept of it.           *)
(***************************************************************************)
EXTENDS Naturals

CONSTANTS
    Parses,    \* slots for concurrent requests
    Threads,   \* storage ids of threads
    None,
    MaxFaults  \* bound: failed reads and failed LLM calls

ASSUME IntentAssumption ==
    /\ None \notin Threads
    /\ MaxFaults \in Nat

Nodes == {"summarize", "classify", "extract"}

VARIABLES
    pc,         \* where each request stands
    node,       \* the LLM node it is in
    thread,     \* the thread it is about
    context,    \* builder.context of each node: whose messages it would render
    rendering,  \* whose messages the user prompt is being rendered from
    summaryOf,  \* whose messages requestSummary was made from, or None
    verdictOf,  \* whose messages isRFQ was made from, or None
    undisturbed, \* history: nobody else entered the node while it rendered there
    answer,     \* the last answer of a slot, or None
    faults

vars == <<pc, node, thread, context, rendering, summaryOf, verdictOf,
          undisturbed, answer, faults>>

Stages == {"idle", "reading", "entering", "system", "llm", "saving"}

Init ==
    /\ pc = [p \in Parses |-> "idle"]
    /\ node = [p \in Parses |-> "summarize"]
    /\ thread = [p \in Parses |-> None]
    /\ context = [n \in Nodes |-> None]
    /\ rendering = [p \in Parses |-> None]
    /\ summaryOf = [p \in Parses |-> None]
    /\ verdictOf = [p \in Parses |-> None]
    /\ undisturbed = [p \in Parses |-> TRUE]
    /\ answer = [p \in Parses |-> None]
    /\ faults = 0

Fault == faults < MaxFaults /\ faults' = faults + 1

Goto(p, stage) == pc' = [pc EXCEPT ![p] = stage]

\* The request is answered or rejected, and what it held is garbage.
End(p) ==
    /\ Goto(p, "idle")
    /\ node' = [node EXCEPT ![p] = "summarize"]
    /\ thread' = [thread EXCEPT ![p] = None]
    /\ rendering' = [rendering EXCEPT ![p] = None]
    /\ summaryOf' = [summaryOf EXCEPT ![p] = None]
    /\ verdictOf' = [verdictOf EXCEPT ![p] = None]
    /\ undisturbed' = [undisturbed EXCEPT ![p] = TRUE]

\* A request for thread t arrives; it asks the email worker for the thread.
Receive(p, t) ==
    /\ pc[p] = "idle"
    /\ Goto(p, "reading")
    /\ thread' = [thread EXCEPT ![p] = t]
    /\ answer' = [answer EXCEPT ![p] = None]
    /\ UNCHANGED <<node, context, rendering, summaryOf, verdictOf, undisturbed, faults>>

\* The emails are there: the graph is built anew and its first node entered.
ThreadRead(p) ==
    /\ pc[p] = "reading"
    /\ Goto(p, "entering")
    /\ UNCHANGED <<node, thread, context, rendering, summaryOf, verdictOf,
                   undisturbed, answer, faults>>

\* The email worker does not know the thread, or does not answer.
ReadFails(p) ==
    /\ pc[p] = "reading"
    /\ Fault
    /\ End(p)
    /\ UNCHANGED <<context, answer>>

-----------------------------------------------------------------------------
(* A node.                                                                 *)

\* Mistake: the nodes share one builder.
EnterSharing(p) ==
    /\ pc[p] = "entering"
    /\ context' = [n \in Nodes |-> thread[p]]
    /\ Goto(p, "system")
    /\ undisturbed' = [q \in Parses |->
            undisturbed[q] /\ ~(q # p /\ pc[q] = "system" /\ node[q] = node[p])]
    /\ UNCHANGED <<node, thread, rendering, summaryOf, verdictOf, answer, faults>>

\* setContext, and build as far as its first await, the system template.
EnterNode(p) ==
    /\ pc[p] = "entering"
    /\ context' = [context EXCEPT ![node[p]] = thread[p]]
    /\ Goto(p, "system")
    /\ undisturbed' = [q \in Parses |->
            undisturbed[q] /\ ~(q # p /\ pc[q] = "system" /\ node[q] = node[p])]
    /\ UNCHANGED <<node, thread, rendering, summaryOf, verdictOf, answer, faults>>

\* setUserPrompt passes the builder's context of this moment to the template;
\* the prompt then goes to the LLM as it is.
RenderUserPrompt(p) ==
    /\ pc[p] = "system"
    /\ rendering' = [rendering EXCEPT ![p] = context[node[p]]]
    /\ Goto(p, "llm")
    /\ UNCHANGED <<node, thread, context, summaryOf, verdictOf, undisturbed,
                   answer, faults>>

\* NodesAbstract.run swallows every error: a node that fails has no result.
NodeResult(p, result) ==
    /\ pc[p] = "llm"
    /\ \/ result = rendering[p] /\ UNCHANGED faults
       \/ result = None /\ Fault

\* Whatever became of the summary, classification is next.
Summarized(p) ==
    /\ node[p] = "summarize"
    /\ \E result \in Threads \cup {None} :
          /\ NodeResult(p, result)
          /\ summaryOf' = [summaryOf EXCEPT ![p] = result]
    /\ node' = [node EXCEPT ![p] = "classify"]
    /\ Goto(p, "entering")
    /\ UNCHANGED <<thread, context, rendering, verdictOf, undisturbed, answer>>

\* The LLM says it is an RFQ.
ClassifiedAsRFQ(p) ==
    /\ node[p] = "classify"
    /\ \E result \in Threads :
          /\ NodeResult(p, result)
          /\ verdictOf' = [verdictOf EXCEPT ![p] = result]
    /\ node' = [node EXCEPT ![p] = "extract"]
    /\ Goto(p, "entering")
    /\ UNCHANGED <<thread, context, rendering, summaryOf, undisturbed, answer>>

\* Mistake: a missing verdict reads as "not an RFQ".
ClassifiedByDefault(p) ==
    /\ node[p] = "classify"
    /\ \E result \in Threads \cup {None} :
          /\ NodeResult(p, result)
          /\ answer' = [answer EXCEPT ![p] =
                [thread |-> thread[p], summaryOf |-> summaryOf[p], verdictOf |-> result,
                 undisturbed |-> undisturbed[p], isRFQ |-> FALSE]]
    /\ End(p)
    /\ UNCHANGED context

\* The LLM says it is none: the graph ends and the request is answered.
ClassifiedAsOther(p) ==
    /\ node[p] = "classify"
    /\ \E result \in Threads :
          /\ NodeResult(p, result)
          /\ answer' = [answer EXCEPT ![p] =
                [thread |-> thread[p], summaryOf |-> summaryOf[p], verdictOf |-> result,
                 undisturbed |-> undisturbed[p], isRFQ |-> FALSE]]
    /\ End(p)
    /\ UNCHANGED context

\* Mistake: the edge leads to the node for errors, which no request can leave.
NotClassifiedIsHandled(p) ==
    /\ node[p] = "classify"
    /\ NodeResult(p, None)
    /\ node' = [node EXCEPT ![p] = "handleError"]
    /\ Goto(p, "entering")
    /\ UNCHANGED <<thread, context, rendering, summaryOf, verdictOf, undisturbed, answer>>

\* No verdict: isRFQ is null, the edge has no destination and the graph throws.
NotClassified(p) ==
    /\ node[p] = "classify"
    /\ NodeResult(p, None)
    /\ End(p)
    /\ UNCHANGED <<context, answer>>

\* The details, or none at all: the graph ends either way, and the use case
\* looks for the RFQ of the thread.
Extracted(p) ==
    /\ node[p] = "extract"
    /\ \E result \in Threads \cup {None} : NodeResult(p, result)
    /\ Goto(p, "saving")
    /\ UNCHANGED <<node, thread, context, rendering, summaryOf, verdictOf,
                   undisturbed, answer>>

-----------------------------------------------------------------------------

\* The graph starts with a customerDetail and never drops it, so the factory
\* always calls setCustomerDetail, which tests `name`.  No such variable is in
\* scope and Node.js has no global of that name: the ReferenceError rejects the
\* request before the RFQ is saved.
BuildRFQ(p) ==
    /\ pc[p] = "saving"
    /\ End(p)
    /\ UNCHANGED <<context, answer, faults>>

ParseStep(p) ==
    \/ ThreadRead(p)
    \/ EnterNode(p) \/ RenderUserPrompt(p)
    \/ Summarized(p)
    \/ ClassifiedAsRFQ(p) \/ ClassifiedAsOther(p) \/ NotClassified(p)
    \/ Extracted(p)
    \/ BuildRFQ(p)

Next ==
    \E p \in Parses :
        \/ \E t \in Threads : Receive(p, t)
        \/ ParseStep(p)
        \/ ReadFails(p)

Spec == Init /\ [][Next]_vars

-----------------------------------------------------------------------------
(* Properties.                                                             *)

Answer == [thread : Threads, summaryOf : Threads \cup {None},
           verdictOf : Threads \cup {None}, undisturbed : BOOLEAN, isRFQ : BOOLEAN]

\* Every variable stays within its type.
TypeOK ==
    /\ pc \in [Parses -> Stages]
    /\ node \in [Parses -> Nodes]
    /\ thread \in [Parses -> Threads \cup {None}]
    /\ context \in [Nodes -> Threads \cup {None}]
    /\ rendering \in [Parses -> Threads \cup {None}]
    /\ summaryOf \in [Parses -> Threads \cup {None}]
    /\ verdictOf \in [Parses -> Threads \cup {None}]
    /\ undisturbed \in [Parses -> BOOLEAN]
    /\ answer \in [Parses -> Answer \cup {None}]
    /\ faults \in 0..MaxFaults

IsOwn(a) == a.verdictOf = a.thread /\ a.summaryOf \in {a.thread, None}

\* A "not an RFQ" closes the thread's workflow.  It was never computed from
\* another thread's messages unless another request entered the same node
\* between setContext and the user template of this one: requests in different
\* nodes do not disturb each other.
MixedOnlyIfDisturbed ==
    \A p \in Parses : answer[p] # None /\ answer[p].undisturbed => IsOwn(answer[p])

\* A failed classification (LLM down, no JSON, wrong schema) is swallowed by the
\* node, and the orchestrator reads a missing verdict as "not an RFQ"; but such
\* an answer is never given: the request is rejected and tried again.
FailureIsNoVerdict ==
    \A p \in Parses : answer[p] # None => answer[p].verdictOf # None

=============================================================================
