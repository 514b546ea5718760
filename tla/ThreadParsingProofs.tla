-------------------------- MODULE ThreadParsingProofs --------------------------
(***************************************************************************)
(* Theorems about MessageIntent, for any number of overlapping requests:   *)
(* types, that a failed classification is never answered, and that an      *)
(* undisturbed request is answered from its own thread's messages; and     *)
(* about ThreadParsing, for any number of threads, signals and faults      *)
(* besides: the composition is one of MessageIntent and of                 *)
(* EmailThreadWorkflow, and a thread is closed only by the verdict on it   *)
(* that is awaited.                                                        *)
(***************************************************************************)
EXTENDS ThreadParsing, TLAPS

\* A request that is past its first await is about a thread.
Busy == \A p \in Parses : pc[p] # "idle" => thread[p] \in Threads

TypeInv == TypeOK /\ Busy

-----------------------------------------------------------------------------
(* Type correctness.                                                       *)

\* An ended request is idle and holds nothing.
LEMMA EndType ==
    ASSUME TypeInv, NEW p \in Parses, End(p)
    PROVE  /\ pc' \in [Parses -> Stages]
           /\ node' \in [Parses -> Nodes]
           /\ thread' \in [Parses -> Threads \cup {None}]
           /\ rendering' \in [Parses -> Threads \cup {None}]
           /\ summaryOf' \in [Parses -> Threads \cup {None}]
           /\ verdictOf' \in [Parses -> Threads \cup {None}]
           /\ undisturbed' \in [Parses -> BOOLEAN]
           /\ Busy'
<1>1. pc' \in [Parses -> Stages] /\ node' \in [Parses -> Nodes]
  BY DEF TypeInv, TypeOK, End, Goto, Stages, Nodes
<1>2. /\ thread' \in [Parses -> Threads \cup {None}]
      /\ rendering' \in [Parses -> Threads \cup {None}]
      /\ summaryOf' \in [Parses -> Threads \cup {None}]
      /\ verdictOf' \in [Parses -> Threads \cup {None}]
      /\ undisturbed' \in [Parses -> BOOLEAN]
  BY DEF TypeInv, TypeOK, End
<1>3. Busy'
  BY DEF TypeInv, TypeOK, Busy, End, Goto
<1> QED
  BY <1>1, <1>2, <1>3

\* A fault is counted within its bound.
LEMMA FaultType ==
    ASSUME TypeInv, Fault
    PROVE  faults' \in 0..MaxFaults
BY IntentAssumption DEF TypeInv, TypeOK, Fault

\* A node's result is a thread or nothing, and counts a fault at most.
LEMMA ResultType ==
    ASSUME TypeInv, NEW p \in Parses, NEW result, NodeResult(p, result)
    PROVE  result \in Threads \cup {None} /\ faults' \in 0..MaxFaults
<1>1. CASE result = rendering[p] /\ UNCHANGED faults
  BY <1>1 DEF TypeInv, TypeOK
<1>2. CASE result = None /\ Fault
  BY <1>2, FaultType
<1> QED
  BY <1>1, <1>2 DEF NodeResult

\* Initially nobody asks for anything.
LEMMA TypeInit == Init => TypeInv
BY IntentAssumption DEF Init, TypeInv, TypeOK, Busy, Stages, Nodes

\* Every step of a request keeps the types.
LEMMA TypeStep == TypeInv /\ [Next]_vars => TypeInv'
<1> SUFFICES ASSUME TypeInv, [Next]_vars
             PROVE  TypeInv'
  OBVIOUS
<1> USE IntentAssumption
<1>1. ASSUME NEW p \in Parses, NEW t \in Threads, Receive(p, t)
      PROVE  TypeInv'
  BY <1>1 DEF Receive, TypeInv, TypeOK, Busy, Goto, Stages
<1>2. ASSUME NEW p \in Parses, ThreadRead(p)
      PROVE  TypeInv'
  BY <1>2 DEF ThreadRead, TypeInv, TypeOK, Busy, Goto, Stages
<1>3. ASSUME NEW p \in Parses, ReadFails(p)
      PROVE  TypeInv'
  BY <1>3, EndType, FaultType DEF ReadFails, TypeInv, TypeOK
<1>4. ASSUME NEW p \in Parses, EnterNode(p)
      PROVE  TypeInv'
  <2>1. thread[p] \in Threads
    BY <1>4 DEF EnterNode, TypeInv, Busy
  <2>2. context' \in [Nodes -> Threads \cup {None}]
    BY <1>4, <2>1 DEF EnterNode, TypeInv, TypeOK
  <2>3. undisturbed' \in [Parses -> BOOLEAN]
    BY <1>4, Zenon DEF EnterNode, TypeInv, TypeOK
  <2>4. pc' \in [Parses -> Stages] /\ Busy'
    BY <1>4 DEF EnterNode, TypeInv, TypeOK, Busy, Goto, Stages
  <2> QED
    BY <1>4, <2>2, <2>3, <2>4 DEF EnterNode, TypeInv, TypeOK
<1>5. ASSUME NEW p \in Parses, RenderUserPrompt(p)
      PROVE  TypeInv'
  <2>1. context[node[p]] \in Threads \cup {None}
    BY DEF TypeInv, TypeOK
  <2> QED
    BY <1>5, <2>1 DEF RenderUserPrompt, TypeInv, TypeOK, Busy, Goto, Stages
<1>6. ASSUME NEW p \in Parses, Summarized(p)
      PROVE  TypeInv'
  <2>1. PICK result \in Threads \cup {None} :
            /\ NodeResult(p, result)
            /\ summaryOf' = [summaryOf EXCEPT ![p] = result]
    BY <1>6 DEF Summarized
  <2>2. faults' \in 0..MaxFaults /\ pc[p] = "llm"
    BY <2>1, ResultType DEF NodeResult
  <2>3. summaryOf' \in [Parses -> Threads \cup {None}]
    BY <2>1 DEF TypeInv, TypeOK
  <2> QED
    BY <1>6, <2>2, <2>3 DEF Summarized, TypeInv, TypeOK, Busy, Goto, Stages, Nodes
<1>7. ASSUME NEW p \in Parses, ClassifiedAsRFQ(p)
      PROVE  TypeInv'
  <2>1. PICK result \in Threads :
            /\ NodeResult(p, result)
            /\ verdictOf' = [verdictOf EXCEPT ![p] = result]
    BY <1>7 DEF ClassifiedAsRFQ
  <2>2. faults' \in 0..MaxFaults /\ pc[p] = "llm"
    BY <2>1, ResultType DEF NodeResult
  <2>3. verdictOf' \in [Parses -> Threads \cup {None}]
    BY <2>1 DEF TypeInv, TypeOK
  <2> QED
    BY <1>7, <2>2, <2>3 DEF ClassifiedAsRFQ, TypeInv, TypeOK, Busy, Goto, Stages, Nodes
<1>8. ASSUME NEW p \in Parses, ClassifiedAsOther(p)
      PROVE  TypeInv'
  <2>1. PICK result \in Threads :
            /\ NodeResult(p, result)
            /\ answer' = [answer EXCEPT ![p] =
                  [thread |-> thread[p], summaryOf |-> summaryOf[p], verdictOf |-> result,
                   undisturbed |-> undisturbed[p], isRFQ |-> FALSE]]
    BY <1>8 DEF ClassifiedAsOther
  <2>2. faults' \in 0..MaxFaults /\ thread[p] \in Threads
    BY <2>1, ResultType DEF NodeResult, TypeInv, Busy
  <2>3. [thread |-> thread[p], summaryOf |-> summaryOf[p], verdictOf |-> result,
         undisturbed |-> undisturbed[p], isRFQ |-> FALSE] \in Answer
    BY <2>2 DEF TypeInv, TypeOK, Answer
  <2>4. answer' \in [Parses -> Answer \cup {None}]
    BY <2>1, <2>3 DEF TypeInv, TypeOK
  <2> QED
    BY <1>8, <2>2, <2>4, EndType DEF ClassifiedAsOther, TypeInv, TypeOK
<1>9. ASSUME NEW p \in Parses, NotClassified(p)
      PROVE  TypeInv'
  BY <1>9, EndType, ResultType DEF NotClassified, TypeInv, TypeOK
<1>10. ASSUME NEW p \in Parses, Extracted(p)
       PROVE  TypeInv'
  <2>1. faults' \in 0..MaxFaults /\ pc[p] = "llm"
    BY <1>10, ResultType DEF Extracted, NodeResult
  <2> QED
    BY <1>10, <2>1 DEF Extracted, TypeInv, TypeOK, Busy, Goto, Stages
<1>11. ASSUME NEW p \in Parses, BuildRFQ(p)
       PROVE  TypeInv'
  BY <1>11, EndType DEF BuildRFQ, TypeInv, TypeOK
<1>12. CASE UNCHANGED vars
  BY <1>12 DEF vars, TypeInv, TypeOK, Busy
<1> QED
  BY <1>1, <1>2, <1>3, <1>4, <1>5, <1>6, <1>7, <1>8, <1>9, <1>10, <1>11, <1>12
  DEF Next, ParseStep

\* Every variable of the core service's parse-message-intent stays within its
\* type, whatever reads and LLM calls fail.
THEOREM TypeCorrect == Spec => []TypeOK
<1>1. TypeInv => TypeOK
  BY DEF TypeInv
<1> QED
  BY <1>1, TypeInit, TypeStep, PTL DEF Spec

-----------------------------------------------------------------------------
(* Failed classifications.                                                 *)

\* Types, and no answer without a verdict.
VerdictInv == TypeInv /\ FailureIsNoVerdict

\* Only the classification answers a request, and from a verdict.
LEMMA VerdictStep == VerdictInv /\ [Next]_vars => VerdictInv'
<1> SUFFICES ASSUME VerdictInv, [Next]_vars
             PROVE  FailureIsNoVerdict'
  BY TypeStep DEF VerdictInv
<1>1. CASE UNCHANGED answer
  BY <1>1 DEF VerdictInv, FailureIsNoVerdict
<1>2. ASSUME NEW p \in Parses, NEW t \in Threads, Receive(p, t)
      PROVE  FailureIsNoVerdict'
  BY <1>2 DEF Receive, VerdictInv, TypeInv, TypeOK, FailureIsNoVerdict
<1>3. ASSUME NEW p \in Parses, ClassifiedAsOther(p)
      PROVE  FailureIsNoVerdict'
  <2>1. PICK result \in Threads :
            answer' = [answer EXCEPT ![p] =
                [thread |-> thread[p], summaryOf |-> summaryOf[p], verdictOf |-> result,
                 undisturbed |-> undisturbed[p], isRFQ |-> FALSE]]
    BY <1>3 DEF ClassifiedAsOther
  <2>2. \A q \in Parses :
            answer'[q] = IF q = p
                         THEN [thread |-> thread[p], summaryOf |-> summaryOf[p],
                               verdictOf |-> result, undisturbed |-> undisturbed[p],
                               isRFQ |-> FALSE]
                         ELSE answer[q]
    BY <2>1 DEF VerdictInv, TypeInv, TypeOK
  <2>3. answer'[p].verdictOf = result /\ result # None
    BY <2>2, IntentAssumption
  <2> QED
    BY <2>2, <2>3 DEF VerdictInv, FailureIsNoVerdict
<1>4. CASE UNCHANGED vars
  BY <1>1, <1>4 DEF vars
<1> QED
  BY <1>1, <1>2, <1>3, <1>4
  DEF Next, ParseStep, ThreadRead, ReadFails, EnterNode, RenderUserPrompt, Summarized,
      ClassifiedAsRFQ, NotClassified, Extracted, BuildRFQ

\* A request is never answered from a classification that failed, however many
\* fail and however the requests overlap.
THEOREM FailuresAreNoVerdicts == Spec => []FailureIsNoVerdict
<1>1. Init => VerdictInv
  BY TypeInit DEF VerdictInv, Init, FailureIsNoVerdict
<1>2. VerdictInv => FailureIsNoVerdict
  BY DEF VerdictInv
<1> QED
  BY <1>1, <1>2, VerdictStep, PTL DEF Spec

-----------------------------------------------------------------------------
(* Whose messages an answer is made of.                                    *)

\* What request p has of its own as long as nobody disturbed it: the builder's
\* context while it awaits the system template, the rendered prompt, and the
\* summary.
OwnOf(p) ==
    /\ pc[p] = "system" => context[node[p]] = thread[p]
    /\ pc[p] = "llm" => rendering[p] = thread[p]
    /\ summaryOf[p] \in {thread[p], None}

Own == \A p \in Parses : undisturbed[p] => OwnOf(p)

\* An idle request holds no summary.
Clean == \A p \in Parses : pc[p] = "idle" => summaryOf[p] = None

\* MixedOnlyIfDisturbed says nothing of requests on their way; this does.
OwnInv == TypeInv /\ Own /\ Clean /\ MixedOnlyIfDisturbed

\* A request that ends leaves the others their own.
LEMMA EndOwn ==
    ASSUME OwnInv, NEW p \in Parses, End(p), UNCHANGED context
    PROVE  Own' /\ Clean'
<1>1. /\ pc'[p] = "idle"
      /\ summaryOf'[p] = None
  BY DEF OwnInv, TypeInv, TypeOK, End, Goto
<1>2. ASSUME NEW q \in Parses, q # p
      PROVE  /\ pc'[q] = pc[q] /\ node'[q] = node[q] /\ thread'[q] = thread[q]
             /\ rendering'[q] = rendering[q] /\ summaryOf'[q] = summaryOf[q]
             /\ undisturbed'[q] = undisturbed[q]
  BY <1>2 DEF OwnInv, TypeInv, TypeOK, End, Goto
<1>3. Own'
  BY <1>1, <1>2 DEF OwnInv, Own, OwnOf
<1> QED
  BY <1>1, <1>2, <1>3 DEF OwnInv, Clean

\* An answer that is left alone stays what it is.
LEMMA SameAnswers ==
    ASSUME OwnInv, UNCHANGED answer
    PROVE  MixedOnlyIfDisturbed'
BY DEF OwnInv, MixedOnlyIfDisturbed, IsOwn

\* Every step of a request keeps what undisturbed requests have of their own.
LEMMA OwnStep == OwnInv /\ [Next]_vars => OwnInv'
<1> SUFFICES ASSUME OwnInv, [Next]_vars
             PROVE  Own' /\ Clean' /\ MixedOnlyIfDisturbed'
  BY TypeStep DEF OwnInv
<1>1. ASSUME NEW p \in Parses, NEW t \in Threads, Receive(p, t)
      PROVE  Own' /\ Clean' /\ MixedOnlyIfDisturbed'
  <2>1. Own' /\ Clean'
    BY <1>1 DEF Receive, OwnInv, TypeInv, TypeOK, Own, OwnOf, Clean, Goto
  <2>2. MixedOnlyIfDisturbed'
    BY <1>1 DEF Receive, OwnInv, TypeInv, TypeOK, MixedOnlyIfDisturbed, IsOwn
  <2> QED
    BY <2>1, <2>2
<1>2. ASSUME NEW p \in Parses, ThreadRead(p)
      PROVE  Own' /\ Clean' /\ MixedOnlyIfDisturbed'
  BY <1>2, SameAnswers DEF ThreadRead, OwnInv, TypeInv, TypeOK, Own, OwnOf, Clean, Goto
<1>3. ASSUME NEW p \in Parses, ReadFails(p)
      PROVE  Own' /\ Clean' /\ MixedOnlyIfDisturbed'
  BY <1>3, EndOwn, SameAnswers DEF ReadFails
<1>4. ASSUME NEW p \in Parses, EnterNode(p)
      PROVE  Own' /\ Clean' /\ MixedOnlyIfDisturbed'
  <2>1. MixedOnlyIfDisturbed' /\ Clean'
    BY <1>4, SameAnswers DEF EnterNode, OwnInv, TypeInv, TypeOK, Clean, Goto
  <2>2. ASSUME NEW q \in Parses, undisturbed'[q]
        PROVE  OwnOf(q)'
    <3>1. undisturbed[q] /\ ~(q # p /\ pc[q] = "system" /\ node[q] = node[p])
      BY <1>4, <2>2 DEF EnterNode
    <3>2. OwnOf(q) /\ node[p] \in Nodes /\ node[q] \in Nodes
      BY <3>1 DEF OwnInv, Own, TypeInv, TypeOK
    <3>3. CASE q = p
      BY <1>4, <3>2, <3>3 DEF EnterNode, OwnInv, TypeInv, TypeOK, OwnOf, Goto
    <3>4. CASE q # p
      BY <1>4, <3>1, <3>2, <3>4 DEF EnterNode, OwnInv, TypeInv, TypeOK, OwnOf, Goto
    <3> QED
      BY <3>3, <3>4
  <2> QED
    BY <2>1, <2>2 DEF Own
<1>5. ASSUME NEW p \in Parses, RenderUserPrompt(p)
      PROVE  Own' /\ Clean' /\ MixedOnlyIfDisturbed'
  BY <1>5, SameAnswers
  DEF RenderUserPrompt, OwnInv, TypeInv, TypeOK, Own, OwnOf, Clean, Goto
<1>6. ASSUME NEW p \in Parses, Summarized(p)
      PROVE  Own' /\ Clean' /\ MixedOnlyIfDisturbed'
  <2>1. PICK result \in Threads \cup {None} :
            /\ NodeResult(p, result)
            /\ summaryOf' = [summaryOf EXCEPT ![p] = result]
    BY <1>6 DEF Summarized
  <2>2. pc[p] = "llm" /\ result \in {rendering[p], None}
    BY <2>1 DEF NodeResult
  <2>3. undisturbed[p] => result \in {thread[p], None}
    BY <2>2 DEF OwnInv, Own, OwnOf
  <2>4. Own' /\ Clean'
    BY <1>6, <2>1, <2>3
    DEF Summarized, OwnInv, TypeInv, TypeOK, Own, OwnOf, Clean, Goto
  <2> QED
    BY <1>6, <2>4, SameAnswers DEF Summarized
<1>7. ASSUME NEW p \in Parses, ClassifiedAsRFQ(p)
      PROVE  Own' /\ Clean' /\ MixedOnlyIfDisturbed'
  BY <1>7, SameAnswers
  DEF ClassifiedAsRFQ, OwnInv, TypeInv, TypeOK, Own, OwnOf, Clean, Goto
<1>8. ASSUME NEW p \in Parses, ClassifiedAsOther(p)
      PROVE  Own' /\ Clean' /\ MixedOnlyIfDisturbed'
  <2>1. PICK result \in Threads :
            /\ NodeResult(p, result)
            /\ answer' = [answer EXCEPT ![p] =
                  [thread |-> thread[p], summaryOf |-> summaryOf[p], verdictOf |-> result,
                   undisturbed |-> undisturbed[p], isRFQ |-> FALSE]]
    BY <1>8 DEF ClassifiedAsOther
  <2>2. pc[p] = "llm" /\ result = rendering[p]
    BY <2>1, IntentAssumption DEF NodeResult
  <2>3. undisturbed[p] => result = thread[p] /\ summaryOf[p] \in {thread[p], None}
    BY <2>2 DEF OwnInv, Own, OwnOf
  <2>4. /\ answer'[p].undisturbed = undisturbed[p]
        /\ answer'[p].thread = thread[p]
        /\ answer'[p].verdictOf = result
        /\ answer'[p].summaryOf = summaryOf[p]
    BY <2>1 DEF OwnInv, TypeInv, TypeOK
  <2>5. \A q \in Parses : q # p => answer'[q] = answer[q]
    BY <2>1 DEF OwnInv, TypeInv, TypeOK
  <2>6. MixedOnlyIfDisturbed'
    BY <2>3, <2>4, <2>5 DEF OwnInv, MixedOnlyIfDisturbed, IsOwn
  <2> QED
    BY <1>8, <2>6, EndOwn DEF ClassifiedAsOther
<1>9. ASSUME NEW p \in Parses, NotClassified(p)
      PROVE  Own' /\ Clean' /\ MixedOnlyIfDisturbed'
  BY <1>9, EndOwn, SameAnswers DEF NotClassified
<1>10. ASSUME NEW p \in Parses, Extracted(p)
       PROVE  Own' /\ Clean' /\ MixedOnlyIfDisturbed'
  BY <1>10, SameAnswers
  DEF Extracted, OwnInv, TypeInv, TypeOK, Own, OwnOf, Clean, Goto
<1>11. ASSUME NEW p \in Parses, BuildRFQ(p)
       PROVE  Own' /\ Clean' /\ MixedOnlyIfDisturbed'
  BY <1>11, EndOwn, SameAnswers DEF BuildRFQ
<1>12. CASE UNCHANGED vars
  BY <1>12, SameAnswers DEF vars, OwnInv, Own, OwnOf, Clean
<1> QED
  BY <1>1, <1>2, <1>3, <1>4, <1>5, <1>6, <1>7, <1>8, <1>9, <1>10, <1>11, <1>12
  DEF Next, ParseStep

\* For any number of requests: a "not an RFQ" is computed from its own thread's
\* messages unless another request entered the node while this one rendered.
THEOREM AnswersAreOwnUnlessDisturbed == Spec => []MixedOnlyIfDisturbed
<1>1. Init => OwnInv
  BY TypeInit DEF OwnInv, Init, Own, OwnOf, Clean, MixedOnlyIfDisturbed
<1>2. OwnInv => MixedOnlyIfDisturbed
  BY DEF OwnInv
<1> QED
  BY <1>1, <1>2, OwnStep, PTL DEF Spec

-----------------------------------------------------------------------------
(* The composition and its parts.                                          *)

\* The core service of the composition does nothing that MessageIntent does not.
LEMMA ParsingSteps == [ParsingNext]_parsingVars => [Next]_vars
<1> SUFFICES ASSUME [ParsingNext]_parsingVars
             PROVE  [Next]_vars
  OBVIOUS
<1>1. ASSUME NEW p \in Parses, Work(p)
      PROVE  Next
  BY <1>1 DEF Work, Next, ParseStep
<1>2. ASSUME NEW p \in Parses, Finish(p)
      PROVE  Next
  BY <1>2 DEF Finish, Next, ParseStep
<1>3. ASSUME NEW p \in Parses, NEW w \in Threads, Post(p, w)
      PROVE  Next
  BY <1>3 DEF Post, Next
<1>4. ASSUME NEW w \in Threads, WorkflowStep(w)
      PROVE  UNCHANGED vars
  BY <1>4 DEF WorkflowStep
<1>5. CASE UNCHANGED parsingVars
  BY <1>5 DEF parsingVars
<1> QED
  BY <1>1, <1>2, <1>3, <1>4, <1>5 DEF ParsingNext

\* Every behaviour of the composition is one of parse-message-intent, so that
\* what is proved of MessageIntent holds here.
THEOREM ParsingIsIntent == ParsingSpec => Spec
<1>1. ParsingInit => Init
  BY DEF ParsingInit
<1> QED
  BY <1>1, ParsingSteps, PTL DEF ParsingSpec, Spec

\* In the composition too: types, no verdict from a failure, and no mixed answer
\* without a disturbance.
THEOREM AnswersAreSound ==
    ParsingSpec => [](TypeOK /\ FailureIsNoVerdict /\ MixedOnlyIfDisturbed)
BY ParsingIsIntent, TypeCorrect, FailuresAreNoVerdicts, AnswersAreOwnUnlessDisturbed, PTL

\* A reply is one the workflow may get.
LEMMA Replies ==
    ASSUME TypeOK', NEW p \in Parses, NEW w \in Threads, ReplyTo(w, answer'[p])
    PROVE  Workflow!Next
<1>1. CASE answer'[p] # None /\ Workflow!Answer(w, answer'[p].isRFQ)
  <2>1. answer'[p].isRFQ \in BOOLEAN
    BY <1>1 DEF TypeOK, Answer
  <2> QED
    BY <1>1, <2>1 DEF Workflow!Next, Workflow!ExecutionStep
<1>2. CASE Workflow!AnswerError(w)
  BY <1>2 DEF Workflow!Next
<1> QED
  BY <1>1, <1>2 DEF ReplyTo

\* The workflows of the composition do nothing that EmailThreadWorkflow does not.
LEMMA WorkflowSteps ==
    TypeOK' /\ [ParsingNext]_parsingVars => [Workflow!Next]_(Workflow!vars)
<1> SUFFICES ASSUME TypeOK', [ParsingNext]_parsingVars
             PROVE  Workflow!Next \/ UNCHANGED Workflow!vars
  OBVIOUS
<1>1. ASSUME NEW p \in Parses, Work(p)
      PROVE  UNCHANGED Workflow!vars
  BY <1>1 DEF Work, workflowVars, Workflow!vars
<1>2. ASSUME NEW p \in Parses, Finish(p)
      PROVE  Workflow!Next
  <2>1. CASE \E w \in Threads : Awaited(p, w) /\ ReplyTo(w, answer'[p])
    BY <2>1, Replies
  <2>2. CASE ReplyToNobody(p)
    <3>1. Workflow!LateAnswer(serves[p]) /\ serves[p] \in calls
      BY <2>2 DEF ReplyToNobody, Workflow!LateAnswer
    <3> QED
      BY <3>1 DEF Workflow!Next
  <2> QED
    BY <1>2, <2>1, <2>2 DEF Finish
<1>3. ASSUME NEW p \in Parses, NEW w \in Threads, Post(p, w)
      PROVE  Workflow!Next
  BY <1>3 DEF Post, Workflow!Next, Workflow!ExecutionStep
<1>4. ASSUME NEW w \in Threads, WorkflowStep(w)
      PROVE  Workflow!Next
  BY <1>4 DEF WorkflowStep, Workflow!Next, Workflow!ExecutionStep, Workflow!FaultStep
<1>5. CASE UNCHANGED parsingVars
  BY <1>5 DEF parsingVars, workflowVars, Workflow!vars
<1> QED
  BY <1>1, <1>2, <1>3, <1>4, <1>5 DEF ParsingNext

\* Every behaviour of the composition is one of the thread workflows: the core
\* service gives them no answer that EmailThreadWorkflow does not provide for.
THEOREM ParsingIsWorkflow == ParsingSpec => Workflow!Spec
<1>1. ParsingInit => Workflow!Init
  BY DEF ParsingInit
<1>2. TypeInv /\ [ParsingNext]_parsingVars => TypeInv'
  BY ParsingSteps, TypeStep
<1>3. ParsingInit => TypeInv
  BY TypeInit DEF ParsingInit
<1>4. TypeInv' => TypeOK'
  BY DEF TypeInv
<1> QED
  BY <1>1, <1>2, <1>3, <1>4, WorkflowSteps, PTL DEF ParsingSpec, Workflow!Spec

-----------------------------------------------------------------------------
(* What a workflow is told.                                                *)

\* A request that is being worked on is about the thread of its call, and is not
\* answered yet.  Nobody is answered with an RFQ.
RequestInv ==
    /\ TypeInv
    /\ serves = [p \in Parses |-> serves[p]]
    /\ \A p \in Parses : pc[p] # "idle" =>
            thread[p] = serves[p].workflow /\ answer[p] = None
    /\ \A p \in Parses : answer[p] # None => answer[p].isRFQ = FALSE

ParsingInv == RequestInv /\ isDone \in [Threads -> BOOLEAN]

\* A request is answered by ClassifiedAsOther, with the thread it was about.
LEMMA AnswersAreNoRFQ ==
    ASSUME RequestInv, NEW p \in Parses, ClassifiedAsOther(p)
    PROVE  /\ answer'[p].isRFQ = FALSE
           /\ answer'[p].thread = thread[p]
           /\ \A q \in Parses \ {p} : answer'[q] = answer[q]
<1>1. PICK result \in Threads :
          answer' = [answer EXCEPT ![p] =
              [thread |-> thread[p], summaryOf |-> summaryOf[p], verdictOf |-> result,
               undisturbed |-> undisturbed[p], isRFQ |-> FALSE]]
  BY DEF ClassifiedAsOther
<1> QED
  BY <1>1 DEF RequestInv, TypeInv, TypeOK

\* A request that ends leaves the others to their calls.
LEMMA EndKeepsOthers ==
    ASSUME TypeInv, NEW p \in Parses, End(p)
    PROVE  /\ pc'[p] = "idle"
           /\ \A q \in Parses \ {p} : pc'[q] = pc[q] /\ thread'[q] = thread[q]
BY DEF End, Goto, TypeInv, TypeOK

\* What ends a request: nobody is answered but by ClassifiedAsOther.
LEMMA FinishEnds ==
    ASSUME RequestInv, NEW p \in Parses, Finish(p)
    PROVE  /\ pc[p] # "idle" /\ End(p)
           /\ ClassifiedAsOther(p) \/ UNCHANGED answer
BY DEF Finish, ClassifiedAsOther, NotClassified, ReadFails, BuildRFQ, NodeResult

\* Requests keep to their calls.
LEMMA RequestStep == RequestInv /\ [ParsingNext]_parsingVars => RequestInv'
<1> SUFFICES ASSUME RequestInv, [ParsingNext]_parsingVars
             PROVE  RequestInv'
  OBVIOUS
<1>0. TypeInv /\ TypeInv'
  BY ParsingSteps, TypeStep DEF RequestInv
<1>1. ASSUME NEW p \in Parses, Work(p)
      PROVE  RequestInv'
  <2>1. /\ pc[p] # "idle"
        /\ \A q \in Parses \ {p} : pc'[q] = pc[q]
        /\ UNCHANGED <<thread, answer>>
    BY <1>0, <1>1 DEF Work, ThreadRead, EnterNode, RenderUserPrompt, Summarized,
                      ClassifiedAsRFQ, Extracted, NodeResult, Goto, TypeInv, TypeOK
  <2>2. UNCHANGED serves
    BY <1>1 DEF Work
  <2> QED
    BY <1>0, <2>1, <2>2 DEF RequestInv
<1>2. ASSUME NEW p \in Parses, Finish(p)
      PROVE  RequestInv'
  <2>1. /\ pc'[p] = "idle"
        /\ \A q \in Parses \ {p} : pc'[q] = pc[q] /\ thread'[q] = thread[q]
    BY <1>0, <1>2, FinishEnds, EndKeepsOthers
  <2>2. /\ serves' = [q \in Parses |-> serves'[q]]
        /\ \A q \in Parses \ {p} : serves'[q] = serves[q]
    BY <1>2 DEF Finish, RequestInv
  <2>3. /\ \A q \in Parses \ {p} : answer'[q] = answer[q]
        /\ answer'[p] # None => answer'[p].isRFQ = FALSE
    BY <1>2, FinishEnds, AnswersAreNoRFQ DEF RequestInv
  <2> QED
    BY <1>0, <2>1, <2>2, <2>3 DEF RequestInv
<1>3. ASSUME NEW p \in Parses, NEW w \in Threads, Post(p, w)
      PROVE  RequestInv'
  <2>1. /\ thread'[p] = w /\ answer'[p] = None
        /\ \A q \in Parses \ {p} :
               pc'[q] = pc[q] /\ thread'[q] = thread[q] /\ answer'[q] = answer[q]
    BY <1>0, <1>3 DEF Post, Receive, Goto, TypeInv, TypeOK
  <2>2. /\ serves' = [q \in Parses |-> serves'[q]]
        /\ serves'[p] = Workflow!CurrentCall(w)
        /\ \A q \in Parses \ {p} : serves'[q] = serves[q]
    BY <1>3 DEF Post, RequestInv
  <2>3. serves'[p].workflow = w
    BY <2>2 DEF Workflow!CurrentCall
  <2> QED
    BY <1>0, <2>1, <2>2, <2>3 DEF RequestInv
<1>4. ASSUME NEW w \in Threads, WorkflowStep(w)
      PROVE  RequestInv'
  BY <1>0, <1>4 DEF WorkflowStep, vars, RequestInv
<1>5. CASE UNCHANGED parsingVars
  BY <1>0, <1>5 DEF parsingVars, vars, RequestInv
<1> QED
  BY <1>1, <1>2, <1>3, <1>4, <1>5 DEF ParsingNext

-----------------------------------------------------------------------------
(* What the workflows make of it.                                          *)

\* Signals and verdicts change isDone in their own workflow, from a Boolean to one.
LEMMA SignalKeepsOthers ==
    ASSUME isDone \in [Threads -> BOOLEAN], NEW w \in Threads, NEW m \in Messages,
           Workflow!SignalWithStart(w, m)
    PROVE  isDone' = isDone \/ isDone' = [isDone EXCEPT ![w] = FALSE]
BY DEF Workflow!SignalWithStart, Workflow!SignalRunning, Workflow!SignalStarts

LEMMA AnswerKeepsOthers ==
    ASSUME isDone \in [Threads -> BOOLEAN], NEW w \in Threads, Workflow!Answer(w, FALSE)
    PROVE  /\ isDone' \in [Threads -> BOOLEAN]
           /\ \A v \in Threads \ {w} : isDone'[v] = isDone[v]
BY Zenon DEF Workflow!Answer, Workflow!ActUpon

\* Whoever is replied to is told "not an RFQ", or of a failure.
LEMMA ReplyKeeps ==
    ASSUME RequestInv, NEW p \in Parses, Finish(p),
           NEW w \in Threads, ReplyTo(w, answer'[p])
    PROVE  (answer'[p] # None /\ Workflow!Answer(w, FALSE)) \/ UNCHANGED isDone
<1>1. answer'[p] # None => answer'[p].isRFQ = FALSE
  BY FinishEnds, AnswersAreNoRFQ DEF RequestInv
<1>2. CASE answer'[p] # None /\ Workflow!Answer(w, answer'[p].isRFQ)
  BY <1>1, <1>2
<1>3. CASE Workflow!AnswerError(w)
  BY <1>3 DEF Workflow!AnswerError
<1> QED
  BY <1>2, <1>3 DEF ReplyTo

\* isDone stays a Boolean for each workflow.
LEMMA DoneStep == ParsingInv /\ [ParsingNext]_parsingVars => isDone' \in [Threads -> BOOLEAN]
<1> SUFFICES ASSUME RequestInv, isDone \in [Threads -> BOOLEAN], [ParsingNext]_parsingVars
             PROVE  isDone' \in [Threads -> BOOLEAN]
  BY DEF ParsingInv
<1>1. ASSUME NEW p \in Parses, Work(p)
      PROVE  UNCHANGED isDone
  BY <1>1 DEF Work, workflowVars
<1>2. ASSUME NEW p \in Parses, Finish(p)
      PROVE  isDone' \in [Threads -> BOOLEAN]
  <2>1. CASE ReplyToNobody(p)
    BY <2>1 DEF ReplyToNobody, Workflow!LateAnswer
  <2>2. ASSUME NEW w \in Threads, ReplyTo(w, answer'[p])
        PROVE  isDone' \in [Threads -> BOOLEAN]
    BY <1>2, <2>2, ReplyKeeps, AnswerKeepsOthers
  <2> QED
    BY <1>2, <2>1, <2>2 DEF Finish
<1>3. ASSUME NEW p \in Parses, NEW w \in Threads, Post(p, w)
      PROVE  UNCHANGED isDone
  BY <1>3 DEF Post, Workflow!StartAttempt
<1>4. ASSUME NEW w \in Threads, WorkflowStep(w)
      PROVE  isDone' \in [Threads -> BOOLEAN]
  <2>1. CASE \E m \in Messages : Workflow!SignalWithStart(w, m)
    BY <2>1, SignalKeepsOthers
  <2>2. CASE UNCHANGED isDone
    BY <2>2
  <2> QED
    BY <1>4, <2>1, <2>2
    DEF WorkflowStep, Workflow!WakeUp, Workflow!Close, Workflow!AttemptTimesOut,
        Workflow!EndExecution
<1>5. CASE UNCHANGED parsingVars
  BY <1>5 DEF parsingVars, workflowVars
<1> QED
  BY <1>1, <1>2, <1>3, <1>4, <1>5 DEF ParsingNext

\* Initially there is no request and no thread is done.
LEMMA ParsingInvInit == ParsingInit => ParsingInv
BY TypeInit DEF ParsingInit, Init, RequestInv, ParsingInv, Workflow!Init

-----------------------------------------------------------------------------
(* Who closes a thread.                                                    *)

ClosingStep ==
    \A w \in Threads :
        ~isDone[w] /\ isDone'[w] =>
            \E p \in Parses : /\ serves[p] = Workflow!CurrentCall(w)
                              /\ answer'[p] # None
                              /\ answer'[p].thread = w
                              /\ answer'[p].verdictOf # None
                              /\ answer'[p].undisturbed => IsOwn(answer'[p])

\* Only the end of a request that is awaited makes an execution done.
LEMMA ClosingSteps ==
    ParsingInv /\ FailureIsNoVerdict' /\ MixedOnlyIfDisturbed' /\ [ParsingNext]_parsingVars
        => ClosingStep
<1> SUFFICES ASSUME RequestInv, isDone \in [Threads -> BOOLEAN],
                    FailureIsNoVerdict', MixedOnlyIfDisturbed',
                    [ParsingNext]_parsingVars,
                    NEW w \in Threads, ~isDone[w], isDone'[w]
             PROVE  \E p \in Parses : /\ serves[p] = Workflow!CurrentCall(w)
                                      /\ answer'[p] # None
                                      /\ answer'[p].thread = w
                                      /\ answer'[p].verdictOf # None
                                      /\ answer'[p].undisturbed => IsOwn(answer'[p])
  BY DEF ClosingStep, ParsingInv
<1>1. isDone' # isDone
  OBVIOUS
<1>2. ASSUME NEW p \in Parses, Finish(p)
      PROVE  /\ serves[p] = Workflow!CurrentCall(w)
             /\ answer'[p] # None
             /\ answer'[p].thread = w
             /\ answer'[p].verdictOf # None
             /\ answer'[p].undisturbed => IsOwn(answer'[p])
  <2>1. ~ReplyToNobody(p)
    BY <1>1 DEF ReplyToNobody, Workflow!LateAnswer
  <2>2. PICK v \in Threads : Awaited(p, v) /\ ReplyTo(v, answer'[p])
    BY <1>2, <2>1 DEF Finish
  <2>3. answer'[p] # None /\ Workflow!Answer(v, FALSE)
    BY <1>1, <1>2, <2>2, ReplyKeeps
  <2>4. v = w
    BY <2>3, AnswerKeepsOthers
  <2>5. serves[p] = Workflow!CurrentCall(w) /\ serves[p].workflow = w
    BY <2>2, <2>4 DEF Awaited, Workflow!CurrentCall
  <2>6. pc[p] # "idle" /\ thread[p] = w /\ answer[p] = None
    BY <1>2, <2>5, FinishEnds DEF RequestInv
  <2>7. answer'[p].thread = w
    BY <1>2, <2>3, <2>6, FinishEnds, AnswersAreNoRFQ
  <2> QED
    BY <2>3, <2>5, <2>7 DEF FailureIsNoVerdict, MixedOnlyIfDisturbed
<1>3. ASSUME NEW p \in Parses, Work(p)
      PROVE  FALSE
  BY <1>1, <1>3 DEF Work, workflowVars
<1>4. ASSUME NEW p \in Parses, NEW v \in Threads, Post(p, v)
      PROVE  FALSE
  BY <1>1, <1>4 DEF Post, Workflow!StartAttempt
<1>5. ASSUME NEW v \in Threads, WorkflowStep(v)
      PROVE  FALSE
  <2>1. ASSUME NEW m \in Messages, Workflow!SignalWithStart(v, m)
        PROVE  FALSE
    <3>1. isDone' = isDone \/ isDone' = [isDone EXCEPT ![v] = FALSE]
      BY <2>1, SignalKeepsOthers
    <3> QED
      BY <1>1, <3>1
  <2> QED
    BY <1>1, <1>5, <2>1
    DEF WorkflowStep, Workflow!WakeUp, Workflow!Close, Workflow!AttemptTimesOut,
        Workflow!EndExecution
<1>6. CASE UNCHANGED parsingVars
  BY <1>1, <1>6 DEF parsingVars, workflowVars
<1> QED
  BY <1>2, <1>3, <1>4, <1>5, <1>6 DEF ParsingNext

\* A thread is closed by the end of the request that is awaited and by no other,
\* from an LLM's verdict on that thread, or a disturbed one.
THEOREM ThreadsAreClosedByTheirVerdict == ParsingSpec => ClosedByOwnVerdict
<1>1. ParsingInv /\ [ParsingNext]_parsingVars => ParsingInv'
  BY RequestStep, DoneStep DEF ParsingInv
<1>2. ParsingInv /\ FailureIsNoVerdict' /\ MixedOnlyIfDisturbed' /\ [ParsingNext]_parsingVars
          => [ClosingStep]_parsingVars
  BY ClosingSteps
<1> QED
  BY <1>1, <1>2, ParsingInvInit, AnswersAreSound, PTL
  DEF ParsingSpec, ClosedByOwnVerdict, ClosingStep

=============================================================================
