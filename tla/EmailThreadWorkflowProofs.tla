----------------------- MODULE EmailThreadWorkflowProofs -----------------------
(***************************************************************************)
(* Theorems about EmailThreadWorkflow, for any number of threads, messages *)
(* and signals and any bound on faults: the signals of a thread are        *)
(* conserved in order, requests overlap only after faults, and the         *)
(* workflow implements its ThreadInbox.                                    *)
(***************************************************************************)
EXTENDS EmailThreadWorkflow, SequenceTheorems, FiniteSetTheorems, TLAPS

-----------------------------------------------------------------------------
(* Sequences of outcomes.                                                  *)

\* Outcomes keeps the length of a sequence and its messages.
LEMMA OutcomesType ==
    ASSUME NEW s \in Seq(Messages), NEW outcome \in {"parsed", "dropped"}
    PROVE  /\ Outcomes(s, outcome) \in Seq(Settlement)
           /\ Len(Outcomes(s, outcome)) = Len(s)
           /\ \A i \in 1..Len(s) :
                Outcomes(s, outcome)[i] = [message |-> s[i], outcome |-> outcome]
<1>1. \A i \in 1..Len(s) : [message |-> s[i], outcome |-> outcome] \in Settlement
  BY DEF Settlement
<1>2. Outcomes(s, outcome) = [i \in 1..Len(s) |-> [message |-> s[i], outcome |-> outcome]]
  BY DEF Outcomes
<1>3. Outcomes(s, outcome) \in [1..Len(s) -> Settlement]
  BY <1>1, <1>2
<1>4. /\ Outcomes(s, outcome) \in Seq(Settlement)
      /\ Len(Outcomes(s, outcome)) = Len(s)
  BY <1>2, <1>3
<1> QED
  BY <1>2, <1>4

\* MessagesOf is a sequence of messages of the same length.
LEMMA MessagesOfType ==
    ASSUME NEW s \in Seq(Settlement)
    PROVE  /\ MessagesOf(s) \in Seq(Messages)
           /\ Len(MessagesOf(s)) = Len(s)
           /\ \A i \in 1..Len(s) : MessagesOf(s)[i] = s[i].message
<1>1. \A i \in 1..Len(s) : s[i] \in Settlement
  OBVIOUS
<1>2. \A i \in 1..Len(s) : s[i].message \in Messages
  BY <1>1 DEF Settlement
<1>3. MessagesOf(s) = [i \in 1..Len(s) |-> s[i].message]
  BY DEF MessagesOf
<1>4. MessagesOf(s) \in [1..Len(s) -> Messages]
  BY <1>2, <1>3
<1>5. /\ MessagesOf(s) \in Seq(Messages)
      /\ Len(MessagesOf(s)) = Len(s)
  BY <1>3, <1>4
<1> QED
  BY <1>3, <1>5

\* Settling messages moves them, in order, to the end of the settled ones.
LEMMA MessagesOfConcat ==
    ASSUME NEW s \in Seq(Settlement), NEW q \in Seq(Messages),
           NEW outcome \in {"parsed", "dropped"}
    PROVE  /\ s \o Outcomes(q, outcome) \in Seq(Settlement)
           /\ MessagesOf(s \o Outcomes(q, outcome)) = MessagesOf(s) \o q
<1> DEFINE o == Outcomes(q, outcome)
           both == s \o o
<1>1. /\ o \in Seq(Settlement)
      /\ Len(o) = Len(q)
      /\ \A i \in 1..Len(q) : o[i].message = q[i]
  <2>1. \A i \in 1..Len(q) : o[i] = [message |-> q[i], outcome |-> outcome]
    BY OutcomesType, Zenon
  <2>2. o \in Seq(Settlement) /\ Len(o) = Len(q)
    BY OutcomesType, Zenon
  <2>3. ASSUME NEW i \in 1..Len(q)
        PROVE  o[i].message = q[i]
    <3>1. o[i] = [message |-> q[i], outcome |-> outcome]
      BY <2>1
    <3> HIDE DEF o
    <3> QED
      BY <3>1
  <2> QED
    BY <2>2, <2>3
<1>2. /\ both \in Seq(Settlement)
      /\ Len(both) = Len(s) + Len(q)
      /\ \A i \in 1..Len(s) + Len(q) :
            both[i] = IF i <= Len(s) THEN s[i] ELSE o[i - Len(s)]
  <2> HIDE DEF o
  <2>1. /\ s \o o \in Seq(Settlement)
        /\ Len(s \o o) = Len(s) + Len(o)
        /\ \A i \in 1..Len(s) + Len(o) :
              (s \o o)[i] = IF i <= Len(s) THEN s[i] ELSE o[i - Len(s)]
    BY <1>1, ConcatProperties, Zenon
  <2> QED
    BY <1>1, <2>1, Zenon
<1>3. /\ MessagesOf(s) \in Seq(Messages)
      /\ Len(MessagesOf(s)) = Len(s)
      /\ \A i \in 1..Len(s) : MessagesOf(s)[i] = s[i].message
  BY MessagesOfType
<1>4. /\ MessagesOf(both) \in Seq(Messages)
      /\ Len(MessagesOf(both)) = Len(both)
      /\ \A i \in 1..Len(both) : MessagesOf(both)[i] = both[i].message
  <2> HIDE DEF both
  <2> QED
    BY <1>2, MessagesOfType
<1>5. /\ MessagesOf(s) \o q \in Seq(Messages)
      /\ Len(MessagesOf(s) \o q) = Len(s) + Len(q)
      /\ \A i \in 1..Len(s) + Len(q) :
            (MessagesOf(s) \o q)[i] =
                IF i <= Len(s) THEN MessagesOf(s)[i] ELSE q[i - Len(s)]
  <2> DEFINE m == MessagesOf(s)
  <2>1. /\ m \o q \in Seq(Messages)
        /\ Len(m \o q) = Len(m) + Len(q)
        /\ \A i \in 1..Len(m) + Len(q) :
              (m \o q)[i] = IF i <= Len(m) THEN m[i] ELSE q[i - Len(m)]
    <3> HIDE DEF m
    <3> QED
      BY <1>3, ConcatProperties, Zenon DEF m
  <2> QED
    BY <1>3, <2>1, Zenon
<1>6. \A i \in 1..Len(s) + Len(q) : MessagesOf(both)[i] = (MessagesOf(s) \o q)[i]
  <2> TAKE i \in 1..Len(s) + Len(q)
  <2>1. CASE i <= Len(s)
    <3>1. i \in 1..Len(s)
      BY <2>1
    <3> HIDE DEF both, o
    <3> QED
      BY <2>1, <3>1, <1>2, <1>3, <1>4, <1>5
  <2>2. CASE ~(i <= Len(s))
    <3>1. i - Len(s) \in 1..Len(q)
      BY <2>2
    <3> HIDE DEF both, o
    <3> QED
      BY <2>2, <3>1, <1>1, <1>2, <1>4, <1>5
  <2> QED
    BY <2>1, <2>2
<1> HIDE DEF both
<1>7. MessagesOf(both) = MessagesOf(s) \o q
  BY <1>2, <1>4, <1>5, <1>6, SeqEqual
<1> QED
  BY <1>2, <1>7 DEF both

\* A sequence is its head followed by its tail.
LEMMA HeadThenTail ==
    ASSUME NEW s \in Seq(Messages), s # <<>>
    PROVE  <<Head(s)>> \o Tail(s) = s
<1> DEFINE h == <<Head(s)>>
<1>1. /\ Head(s) \in Messages
      /\ Tail(s) \in Seq(Messages)
      /\ Len(Tail(s)) = Len(s) - 1
      /\ \A i \in 1..Len(Tail(s)) : Tail(s)[i] = s[i + 1]
      /\ Len(s) \in Nat \ {0}
  BY HeadTailProperties, EmptySeq
<1>2. h \in Seq(Messages) /\ Len(h) = 1 /\ h[1] = s[1]
  BY <1>1
<1>3. /\ h \o Tail(s) \in Seq(Messages)
      /\ Len(h \o Tail(s)) = Len(s)
      /\ \A i \in 1..Len(s) : (h \o Tail(s))[i] = s[i]
  <2> HIDE DEF h
  <2>1. /\ h \o Tail(s) \in Seq(Messages)
        /\ Len(h \o Tail(s)) = Len(h) + Len(Tail(s))
        /\ \A i \in 1..Len(h) + Len(Tail(s)) :
              (h \o Tail(s))[i] = IF i <= Len(h) THEN h[i] ELSE Tail(s)[i - Len(h)]
    BY <1>1, <1>2, ConcatProperties, Zenon
  <2>2. Len(h) + Len(Tail(s)) = Len(s)
    BY <1>1, <1>2
  <2>3. ASSUME NEW i \in 1..Len(s)
        PROVE  (h \o Tail(s))[i] = s[i]
    <3>1. CASE i = 1
      BY <1>1, <1>2, <2>1, <2>2, <3>1
    <3>2. CASE i # 1
      <4>1. i - 1 \in 1..Len(Tail(s)) /\ ~(i <= Len(h)) /\ Tail(s)[i - 1] = s[i]
        BY <1>1, <1>2, <3>2
      <4> QED
        BY <1>2, <2>1, <2>2, <4>1
    <3> QED
      BY <3>1, <3>2
  <2> QED
    BY <2>1, <2>2, <2>3
<1> HIDE DEF h
<1> QED
  BY <1>3, SeqEqual DEF h

-----------------------------------------------------------------------------
(* Type correctness.                                                       *)

\* A message is in hand exactly while its activity runs, and an execution that
\* is over holds nothing.
Hands == \A w \in Workflows :
    /\ Parsing(w) => current[w] \in Messages
    /\ ~Parsing(w) => current[w] = None
    /\ ~Running(w) => queue[w] = <<>>

TypeInv == TypeOK /\ Hands

\* What is waiting is a sequence of messages.
LEMMA InboxType ==
    ASSUME TypeInv, NEW w \in Workflows
    PROVE  InHand(w) \in Seq(Messages) /\ Inbox(w) \in Seq(Messages)
<1>1. InHand(w) \in Seq(Messages)
  BY DEF InHand, TypeInv, TypeOK
<1>2. queue[w] \in Seq(Messages)
  BY DEF TypeInv, TypeOK
<1> QED
  BY <1>1, <1>2, ConcatProperties DEF Inbox

\* The call waited for is a call.
LEMMA CurrentCallType ==
    ASSUME TypeInv, NEW w \in Workflows
    PROVE  CurrentCall(w) \in Call
<1>1. settled[w] \in Seq(Settlement) /\ attempt[w] \in Nat
  BY DEF TypeInv, TypeOK
<1>2. Len(settled[w]) + 1 \in Nat
  BY <1>1
<1> QED
  BY <1>1, <1>2 DEF CurrentCall, Call

\* Taking the next message leaves the variables it writes well typed.
LEMMA DrainType ==
    ASSUME TypeInv, NEW w \in Workflows, Drain(w)
    PROVE  /\ at' \in [Workflows -> {"parsing", "sleeping"}]
           /\ queue' \in [Workflows -> Seq(Messages)]
           /\ current' \in [Workflows -> Messages \cup {None}]
           /\ attempt' \in [Workflows -> Nat]
           /\ at'[w] = "parsing" => current'[w] \in Messages
           /\ at'[w] = "sleeping" => current'[w] = None
           /\ \A v \in Workflows \ {w} :
                /\ at'[v] = at[v]
                /\ queue'[v] = queue[v]
                /\ current'[v] = current[v]
<1>1. /\ at \in [Workflows -> {"parsing", "sleeping"}]
      /\ queue \in [Workflows -> Seq(Messages)]
      /\ current \in [Workflows -> Messages \cup {None}]
      /\ attempt \in [Workflows -> Nat]
  BY DEF TypeInv, TypeOK
<1>2. CASE queue[w] = <<>>
  <2>1. /\ at' = [at EXCEPT ![w] = "sleeping"]
        /\ current' = [current EXCEPT ![w] = None]
        /\ attempt' = [attempt EXCEPT ![w] = 0]
        /\ queue' = queue
    BY <1>2, Zenon DEF Drain
  <2> QED
    BY <1>1, <2>1
<1>3. CASE queue[w] # <<>>
  <2>1. Head(queue[w]) \in Messages /\ Tail(queue[w]) \in Seq(Messages)
    BY <1>1, <1>3, HeadTailProperties
  <2>2. /\ at' = [at EXCEPT ![w] = "parsing"]
        /\ current' = [current EXCEPT ![w] = Head(queue[w])]
        /\ attempt' = [attempt EXCEPT ![w] = 1]
        /\ queue' = [queue EXCEPT ![w] = Tail(queue[w])]
    BY <1>3, Zenon DEF Drain
  <2> QED
    BY <1>1, <2>1, <2>2
<1> QED
  BY <1>2, <1>3

\* Taking the next message takes it from what was queued.
LEMMA DrainKeepsQueue ==
    ASSUME TypeInv, NEW w \in Workflows, Drain(w)
    PROVE  Inbox(w)' = queue[w]
<1>1. queue[w] \in Seq(Messages)
  BY DEF TypeInv, TypeOK
<1>2. CASE queue[w] = <<>>
  <2>1. InHand(w)' = <<>> /\ queue'[w] = <<>>
    BY <1>2 DEF Drain, InHand, TypeInv, TypeOK
  <2> QED
    BY <1>2, <2>1, ConcatEmptySeq, EmptySeq DEF Inbox
<1>3. CASE queue[w] # <<>>
  <2>1. Head(queue[w]) \in Messages
    BY <1>1, <1>3, HeadTailProperties
  <2>2. current'[w] = Head(queue[w]) /\ queue'[w] = Tail(queue[w])
    BY <1>3 DEF Drain, TypeInv, TypeOK
  <2>3. InHand(w)' = <<Head(queue[w])>>
    BY <2>1, <2>2, WorkflowAssumption DEF InHand
  <2> QED
    BY <1>1, <1>3, <2>2, <2>3, HeadThenTail DEF Inbox
<1> QED
  BY <1>2, <1>3

\* Settling a sequence of messages leaves settled well typed.
LEMMA SettleType ==
    ASSUME TypeInv, NEW w \in Workflows, NEW q \in Seq(Messages),
           NEW outcome \in {"parsed", "dropped"},
           settled' = [settled EXCEPT ![w] = @ \o Outcomes(q, outcome)]
    PROVE  settled' \in [Workflows -> Seq(Settlement)]
<1>1. settled[w] \o Outcomes(q, outcome) \in Seq(Settlement)
  BY MessagesOfConcat DEF TypeInv, TypeOK
<1> QED
  BY <1>1 DEF TypeInv, TypeOK

\* A fault stays within its bound.
LEMMA FaultType ==
    ASSUME TypeInv, Fault
    PROVE  faults' \in 0..MaxFaults
BY WorkflowAssumption DEF TypeInv, TypeOK, Fault

\* A workflow id that was never signalled is well typed, with nothing in hand.
LEMMA TypeInit == Init => TypeInv
BY WorkflowAssumption, EmptySeq
DEF Init, TypeInv, TypeOK, Hands, Parsing, Running

\* Every step of an execution, a signal or a fault keeps the types.
LEMMA TypeStep == TypeInv /\ [Next]_vars => TypeInv'
<1> SUFFICES ASSUME TypeInv, [Next]_vars
             PROVE  TypeInv'
  OBVIOUS
<1> USE WorkflowAssumption
<1>1. ASSUME NEW w \in Workflows, NEW m \in Messages, SignalRunning(w, m)
      PROVE  TypeInv'
  <2>1. Append(queue[w], m) \in Seq(Messages) /\ Append(accepted[w], m) \in Seq(Messages)
    BY AppendProperties DEF TypeInv, TypeOK
  <2> QED
    BY <1>1, <2>1 DEF SignalRunning, TypeInv, TypeOK, Hands, Parsing, Running
<1>2. ASSUME NEW w \in Workflows, NEW m \in Messages, SignalStarts(w, m)
      PROVE  TypeInv'
  <2>1. <<m>> \in Seq(Messages) /\ Append(accepted[w], m) \in Seq(Messages)
    BY AppendProperties DEF TypeInv, TypeOK
  <2> QED
    BY <1>2, <2>1 DEF SignalStarts, TypeInv, TypeOK, Hands, Parsing, Running
<1>3. ASSUME NEW w \in Workflows, CompleteThread(w)
      PROVE  TypeInv'
  BY <1>3 DEF CompleteThread, TypeInv, TypeOK, Hands, Parsing, Running
<1>4. ASSUME NEW w \in Workflows, WakeUp(w)
      PROVE  TypeInv'
  <2>1. TypeOK'
    BY <1>4, DrainType DEF WakeUp, TypeInv, TypeOK
  <2>2. Hands'
    BY <1>4, <2>1, DrainType DEF WakeUp, Sleeping, TypeInv, TypeOK, Hands, Parsing, Running
  <2> QED
    BY <2>1, <2>2 DEF TypeInv
<1>5. ASSUME NEW w \in Workflows, Close(w)
      PROVE  TypeInv'
  <2>1. queue[w] \in Seq(Messages)
    BY DEF TypeInv, TypeOK
  <2>2. settled' \in [Workflows -> Seq(Settlement)]
    BY <1>5, <2>1, SettleType DEF Close
  <2>3. TypeOK'
    BY <1>5, <2>2, EmptySeq DEF Close, TypeInv, TypeOK
  <2>4. Hands'
    BY <1>5 DEF Close, Sleeping, TypeInv, TypeOK, Hands, Parsing, Running
  <2> QED
    BY <2>3, <2>4 DEF TypeInv
<1>6. ASSUME NEW w \in Workflows, StartAttempt(w)
      PROVE  TypeInv'
  BY <1>6, CurrentCallType DEF StartAttempt, TypeInv, TypeOK, Hands, Parsing, Running
<1>7. ASSUME NEW w \in Workflows, NEW isRFQ \in BOOLEAN, Answer(w, isRFQ)
      PROVE  TypeInv'
  <2>1. settled' \in [Workflows -> Seq(Settlement)]
    BY <1>7, InboxType, SettleType DEF Answer, ActUpon
  <2>2. Drain(w)
    BY <1>7 DEF Answer, ActUpon
  <2>3. /\ isDone' \in [Workflows -> BOOLEAN]
        /\ rfqParsed' \in [Workflows -> BOOLEAN]
    BY <1>7 DEF Answer, ActUpon, TypeInv, TypeOK
  <2>4. TypeOK'
    BY <1>7, <2>1, <2>2, <2>3, DrainType DEF Answer, TypeInv, TypeOK
  <2>5. Hands'
    <3>1. /\ status' = status
          /\ Running(w)
          /\ at'[w] \in {"parsing", "sleeping"}
          /\ at'[w] = "parsing" => current'[w] \in Messages
          /\ at'[w] = "sleeping" => current'[w] = None
      BY <1>7, <2>2, <2>4, DrainType DEF Answer, TypeOK, Parsing
    <3>2. \A v \in Workflows \ {w} :
            at'[v] = at[v] /\ queue'[v] = queue[v] /\ current'[v] = current[v]
      BY <2>2, DrainType
    <3> QED
      BY <3>1, <3>2 DEF TypeInv, Hands, Parsing, Running
  <2> QED
    BY <2>4, <2>5 DEF TypeInv
<1>8. ASSUME NEW w \in Workflows, AnswerError(w) \/ AttemptTimesOut(w)
      PROVE  TypeInv'
  <2>1. /\ calls' \subseteq Call
        /\ attempt' \in [Workflows -> Nat]
        /\ faults' \in 0..MaxFaults
    <3>1. CASE AnswerError(w)
      BY <3>1 DEF AnswerError, TypeInv, TypeOK
    <3>2. CASE AttemptTimesOut(w)
      <4>1. Fault /\ calls' = calls /\ attempt' = [attempt EXCEPT ![w] = @ + 1]
        BY <3>2 DEF AttemptTimesOut
      <4>2. attempt' \in [Workflows -> Nat]
        BY <4>1 DEF TypeInv, TypeOK
      <4> QED
        BY <4>1, <4>2, FaultType DEF TypeInv, TypeOK
    <3> QED
      BY <1>8, <3>1, <3>2
  <2>2. UNCHANGED <<status, at, queue, current, isDone, rfqParsed, accepted, settled, completes>>
    BY <1>8 DEF AnswerError, AttemptTimesOut
  <2>3. TypeOK'
    BY <2>1, <2>2 DEF TypeInv, TypeOK
  <2>4. Hands'
    BY <2>2 DEF TypeInv, Hands, Parsing, Running
  <2> QED
    BY <2>3, <2>4 DEF TypeInv
<1>9. ASSUME NEW w \in Workflows, EndExecution(w)
      PROVE  TypeInv'
  <2>1. settled' \in [Workflows -> Seq(Settlement)]
    BY <1>9, InboxType, SettleType DEF EndExecution
  <2>2. TypeOK'
    BY <1>9, <2>1, FaultType, EmptySeq DEF EndExecution, TypeInv, TypeOK
  <2>3. Hands'
    <3>1. /\ ~Running(w)'
          /\ queue'[w] = <<>>
          /\ current'[w] = None
      BY <1>9 DEF EndExecution, TypeInv, TypeOK, Running
    <3>2. \A v \in Workflows \ {w} :
            /\ status'[v] = status[v]
            /\ at'[v] = at[v]
            /\ queue'[v] = queue[v]
            /\ current'[v] = current[v]
      BY <1>9 DEF EndExecution, TypeInv, TypeOK
    <3> QED
      BY <3>1, <3>2 DEF TypeInv, Hands, Parsing, Running
  <2> QED
    BY <2>2, <2>3 DEF TypeInv
<1>10. ASSUME NEW c \in calls, LateAnswer(c)
       PROVE  TypeInv'
  <2>1. calls' \subseteq Call
    BY <1>10 DEF LateAnswer, TypeInv, TypeOK
  <2>2. TypeOK'
    BY <1>10, <2>1 DEF LateAnswer, TypeInv, TypeOK
  <2>3. Hands'
    BY <1>10 DEF LateAnswer, TypeInv, Hands, Parsing, Running
  <2> QED
    BY <2>2, <2>3 DEF TypeInv
<1>11. CASE UNCHANGED vars
  BY <1>11 DEF vars, TypeInv, TypeOK, Hands, Parsing, Running
<1> QED
  BY <1>1, <1>2, <1>3, <1>4, <1>5, <1>6, <1>7, <1>8, <1>9, <1>10, <1>11
  DEF Next, ExecutionStep, FaultStep, SignalWithStart

\* Every variable of the workflow stays within its type.
THEOREM TypeCorrect == Spec => []TypeOK
<1>1. TypeInv => TypeOK
  BY DEF TypeInv
<1> QED
  BY <1>1, TypeInit, TypeStep, PTL DEF Spec

-----------------------------------------------------------------------------
(* The signals of a workflow id are conserved, in order.                   *)

FifoInv == TypeInv /\ FifoConserved

\* A step that leaves a thread alone keeps its signals.
LEMMA OthersConserved ==
    ASSUME FifoInv, NEW v \in Workflows,
           accepted'[v] = accepted[v], settled'[v] = settled[v],
           queue'[v] = queue[v], current'[v] = current[v]
    PROVE  accepted'[v] = MessagesOf(settled'[v]) \o Inbox(v)'
<1>1. Inbox(v)' = Inbox(v)
  BY DEF Inbox, InHand
<1>2. accepted[v] = MessagesOf(settled[v]) \o Inbox(v)
  BY DEF FifoInv, FifoConserved
<1> QED
  BY <1>1, <1>2

\* Settling the first part of the inbox keeps the signals.
LEMMA SettlingConserves ==
    ASSUME FifoInv, NEW w \in Workflows,
           NEW q \in Seq(Messages), NEW rest \in Seq(Messages),
           NEW outcome \in {"parsed", "dropped"},
           Inbox(w) = q \o rest,
           settled'[w] = settled[w] \o Outcomes(q, outcome),
           accepted'[w] = accepted[w],
           Inbox(w)' = rest
    PROVE  accepted'[w] = MessagesOf(settled'[w]) \o Inbox(w)'
<1>1. settled[w] \in Seq(Settlement)
  BY DEF FifoInv, TypeInv, TypeOK
<1>2. MessagesOf(settled[w]) \in Seq(Messages)
  BY <1>1, MessagesOfType
<1>3. MessagesOf(settled'[w]) = MessagesOf(settled[w]) \o q
  BY <1>1, MessagesOfConcat
<1>4. (MessagesOf(settled[w]) \o q) \o rest = MessagesOf(settled[w]) \o (q \o rest)
  BY <1>2, ConcatAssociative
<1>5. accepted[w] = MessagesOf(settled[w]) \o (q \o rest)
  BY DEF FifoInv, FifoConserved
<1> QED
  BY <1>3, <1>4, <1>5

\* Accepting a message puts it at the end of the inbox.
LEMMA AcceptingConserves ==
    ASSUME FifoInv, NEW w \in Workflows, NEW m \in Messages,
           accepted'[w] = Append(accepted[w], m),
           settled'[w] = settled[w],
           Inbox(w)' = Append(Inbox(w), m)
    PROVE  accepted'[w] = MessagesOf(settled'[w]) \o Inbox(w)'
<1> DEFINE s == MessagesOf(settled[w])
           i == Inbox(w)
<1>1. s \in Seq(Messages)
  BY MessagesOfType DEF FifoInv, TypeInv, TypeOK
<1>2. i \in Seq(Messages) /\ <<m>> \in Seq(Messages)
  BY InboxType DEF FifoInv
<1>3. accepted[w] = s \o i /\ accepted[w] \in Seq(Messages)
  BY DEF FifoInv, FifoConserved, TypeInv, TypeOK
<1>4. Append(accepted[w], m) = (s \o i) \o <<m>>
  BY <1>3, AppendIsConcat
<1>5. Append(i, m) = i \o <<m>>
  BY <1>2, AppendIsConcat
<1> HIDE DEF s, i
<1>6. (s \o i) \o <<m>> = s \o (i \o <<m>>)
  BY <1>1, <1>2, ConcatAssociative
<1> QED
  BY <1>4, <1>5, <1>6 DEF s, i

\* With nothing in hand the inbox is the queue.
LEMMA EmptyHanded ==
    ASSUME TypeInv, NEW w \in Workflows, ~Parsing(w)
    PROVE  InHand(w) = <<>> /\ Inbox(w) = queue[w]
<1>1. InHand(w) = <<>> /\ queue[w] \in Seq(Messages)
  BY DEF TypeInv, TypeOK, Hands, InHand
<1> QED
  BY <1>1, ConcatEmptySeq DEF Inbox

\* Nothing accepted, nothing settled.
LEMMA FifoInit == Init => FifoInv
<1> SUFFICES ASSUME Init PROVE FifoConserved
  BY TypeInit DEF FifoInv
<1>1. TypeInv
  BY TypeInit
<1> SUFFICES ASSUME NEW w \in Workflows
             PROVE  accepted[w] = MessagesOf(settled[w]) \o Inbox(w)
  BY DEF FifoConserved
<1>2. Inbox(w) = <<>> /\ settled[w] = <<>> /\ accepted[w] = <<>>
  BY <1>1, EmptyHanded DEF Init, Parsing, Running
<1>3. MessagesOf(<<>>) \in Seq(Messages) /\ Len(MessagesOf(<<>>)) = 0
  BY MessagesOfType, EmptySeq
<1>4. MessagesOf(<<>>) = <<>>
  BY <1>3, EmptySeq
<1> QED
  BY <1>2, <1>3, <1>4, ConcatEmptySeq

\* Every step moves messages along the inbox in order.
LEMMA FifoStep == FifoInv /\ [Next]_vars => FifoInv'
<1> SUFFICES ASSUME FifoInv, [Next]_vars
             PROVE  FifoConserved'
  BY TypeStep DEF FifoInv
<1> USE WorkflowAssumption
<1>0. TypeInv
  BY DEF FifoInv
<1>1. ASSUME NEW w \in Workflows,
             \A v \in Workflows \ {w} :
                /\ accepted'[v] = accepted[v]
                /\ settled'[v] = settled[v]
                /\ queue'[v] = queue[v]
                /\ current'[v] = current[v],
             accepted'[w] = MessagesOf(settled'[w]) \o Inbox(w)'
      PROVE  FifoConserved'
  BY <1>1, OthersConserved DEF FifoConserved
<1>2. ASSUME NEW w \in Workflows, NEW m \in Messages, SignalRunning(w, m)
      PROVE  FifoConserved'
  <2>1. \A v \in Workflows \ {w} :
            /\ accepted'[v] = accepted[v]
            /\ settled'[v] = settled[v]
            /\ queue'[v] = queue[v]
            /\ current'[v] = current[v]
    BY <1>0, <1>2 DEF SignalRunning, TypeInv, TypeOK
  <2>2. /\ accepted'[w] = Append(accepted[w], m)
        /\ settled'[w] = settled[w]
        /\ queue'[w] = Append(queue[w], m)
        /\ InHand(w)' = InHand(w)
    BY <1>0, <1>2 DEF SignalRunning, TypeInv, TypeOK, InHand
  <2>3. /\ InHand(w) \in Seq(Messages)
        /\ queue[w] \in Seq(Messages)
        /\ <<m>> \in Seq(Messages)
    BY <1>0, InboxType DEF TypeInv, TypeOK
  <2>4. Append(queue[w], m) = queue[w] \o <<m>>
    BY <2>3, AppendIsConcat
  <2>5. Append(InHand(w) \o queue[w], m) = (InHand(w) \o queue[w]) \o <<m>>
    BY <1>0, InboxType, AppendIsConcat DEF Inbox
  <2>6. (InHand(w) \o queue[w]) \o <<m>> = InHand(w) \o (queue[w] \o <<m>>)
    <3> DEFINE h == InHand(w)
               q == queue[w]
               x == <<m>>
    <3>1. h \in Seq(Messages) /\ q \in Seq(Messages) /\ x \in Seq(Messages)
      BY <2>3
    <3> HIDE DEF h, q, x
    <3>2. (h \o q) \o x = h \o (q \o x)
      BY <3>1, ConcatAssociative
    <3> QED
      BY <3>2 DEF h, q, x
  <2>7. Inbox(w)' = Append(Inbox(w), m)
    BY <2>2, <2>4, <2>5, <2>6 DEF Inbox
  <2>8. accepted'[w] = MessagesOf(settled'[w]) \o Inbox(w)'
    BY <2>2, <2>7, AcceptingConserves
  <2> QED
    BY <1>1, <2>1, <2>8
<1>3. ASSUME NEW w \in Workflows, NEW m \in Messages, SignalStarts(w, m)
      PROVE  FifoConserved'
  <2>1. \A v \in Workflows \ {w} :
            /\ accepted'[v] = accepted[v]
            /\ settled'[v] = settled[v]
            /\ queue'[v] = queue[v]
            /\ current'[v] = current[v]
    BY <1>0, <1>3 DEF SignalStarts, TypeInv, TypeOK
  <2>2. /\ accepted'[w] = Append(accepted[w], m)
        /\ settled'[w] = settled[w]
        /\ queue'[w] = <<m>>
        /\ InHand(w)' = <<>>
    BY <1>0, <1>3 DEF SignalStarts, TypeInv, TypeOK, InHand
  <2>3. Inbox(w) = <<>>
    BY <1>0, <1>3, EmptyHanded DEF SignalStarts, TypeInv, Hands, Parsing
  <2>4. Inbox(w)' = <<m>>
    BY <2>2, ConcatEmptySeq DEF Inbox
  <2>5. Append(<<>>, m) = <<m>>
    OBVIOUS
  <2>6. accepted'[w] = MessagesOf(settled'[w]) \o Inbox(w)'
    BY <2>2, <2>3, <2>4, <2>5, AcceptingConserves
  <2> QED
    BY <1>1, <2>1, <2>6
<1>4. ASSUME NEW w \in Workflows, WakeUp(w)
      PROVE  FifoConserved'
  <2>1. \A v \in Workflows \ {w} :
            /\ accepted'[v] = accepted[v]
            /\ settled'[v] = settled[v]
            /\ queue'[v] = queue[v]
            /\ current'[v] = current[v]
    BY <1>0, <1>4, DrainType DEF WakeUp
  <2>2. Inbox(w)' = Inbox(w)
    BY <1>0, <1>4, DrainKeepsQueue, EmptyHanded DEF WakeUp, Sleeping, Parsing
  <2>3. accepted'[w] = MessagesOf(settled'[w]) \o Inbox(w)'
    BY <1>4, <2>2 DEF WakeUp, FifoInv, FifoConserved
  <2> QED
    BY <1>1, <2>1, <2>3
<1>5. ASSUME NEW w \in Workflows, Close(w)
      PROVE  FifoConserved'
  <2>1. \A v \in Workflows \ {w} :
            /\ accepted'[v] = accepted[v]
            /\ settled'[v] = settled[v]
            /\ queue'[v] = queue[v]
            /\ current'[v] = current[v]
    BY <1>0, <1>5 DEF Close, TypeInv, TypeOK
  <2>2. /\ settled'[w] = settled[w] \o Outcomes(queue[w], "dropped")
        /\ accepted'[w] = accepted[w]
        /\ queue'[w] = <<>>
        /\ InHand(w)' = InHand(w)
    BY <1>0, <1>5 DEF Close, TypeInv, TypeOK, InHand
  <2>3. InHand(w) = <<>> /\ Inbox(w) = queue[w]
    BY <1>0, <1>5, EmptyHanded DEF Close, Sleeping, Parsing
  <2>4. Inbox(w)' = <<>>
    BY <2>2, <2>3, ConcatEmptySeq, EmptySeq DEF Inbox
  <2>5. queue[w] \in Seq(Messages) /\ queue[w] \o <<>> = queue[w]
    BY <1>0, ConcatEmptySeq DEF TypeInv, TypeOK
  <2>6. accepted'[w] = MessagesOf(settled'[w]) \o Inbox(w)'
    BY <2>2, <2>3, <2>4, <2>5, EmptySeq, SettlingConserves
  <2> QED
    BY <1>1, <2>1, <2>6
<1>6. ASSUME NEW w \in Workflows, NEW isRFQ \in BOOLEAN, Answer(w, isRFQ)
      PROVE  FifoConserved'
  <2>1. Drain(w)
    BY <1>6 DEF Answer, ActUpon
  <2>2. \A v \in Workflows \ {w} :
            /\ accepted'[v] = accepted[v]
            /\ settled'[v] = settled[v]
            /\ queue'[v] = queue[v]
            /\ current'[v] = current[v]
    BY <1>0, <1>6, <2>1, DrainType DEF Answer, ActUpon, TypeInv, TypeOK
  <2>3. /\ settled'[w] = settled[w] \o Outcomes(InHand(w), "parsed")
        /\ accepted'[w] = accepted[w]
    BY <1>0, <1>6 DEF Answer, ActUpon, TypeInv, TypeOK
  <2>4. Inbox(w)' = queue[w]
    BY <1>0, <2>1, DrainKeepsQueue
  <2>5. InHand(w) \in Seq(Messages) /\ queue[w] \in Seq(Messages)
    BY <1>0, InboxType DEF TypeInv, TypeOK
  <2>6. accepted'[w] = MessagesOf(settled'[w]) \o Inbox(w)'
    BY <2>3, <2>4, <2>5, SettlingConserves DEF Inbox
  <2> QED
    BY <1>1, <2>2, <2>6
<1>7. ASSUME NEW w \in Workflows, EndExecution(w)
      PROVE  FifoConserved'
  <2>1. \A v \in Workflows \ {w} :
            /\ accepted'[v] = accepted[v]
            /\ settled'[v] = settled[v]
            /\ queue'[v] = queue[v]
            /\ current'[v] = current[v]
    BY <1>0, <1>7 DEF EndExecution, TypeInv, TypeOK
  <2>2. /\ settled'[w] = settled[w] \o Outcomes(Inbox(w), "dropped")
        /\ accepted'[w] = accepted[w]
        /\ queue'[w] = <<>>
        /\ InHand(w)' = <<>>
    BY <1>0, <1>7 DEF EndExecution, TypeInv, TypeOK, InHand
  <2>3. Inbox(w)' = <<>>
    BY <2>2, ConcatEmptySeq, EmptySeq DEF Inbox
  <2>4. Inbox(w) \in Seq(Messages) /\ Inbox(w) \o <<>> = Inbox(w)
    BY <1>0, InboxType, ConcatEmptySeq
  <2>5. accepted'[w] = MessagesOf(settled'[w]) \o Inbox(w)'
    BY <2>2, <2>3, <2>4, EmptySeq, SettlingConserves
  <2> QED
    BY <1>1, <2>1, <2>5
<1>8. CASE UNCHANGED <<queue, current, accepted, settled>>
  BY <1>8, OthersConserved DEF FifoConserved
<1> QED
  BY <1>2, <1>3, <1>4, <1>5, <1>6, <1>7, <1>8
  DEF Next, ExecutionStep, FaultStep, SignalWithStart, CompleteThread, StartAttempt,
      AnswerError, AttemptTimesOut, LateAnswer, vars

\* Signals are neither lost silently, nor duplicated, nor reordered, whatever
\* is retried, answered late or ended.
THEOREM SignalsAreConserved == Spec => []FifoConserved
<1>1. FifoInv => FifoConserved
  BY DEF FifoInv
<1> QED
  BY <1>1, FifoInit, FifoStep, PTL DEF Spec

-----------------------------------------------------------------------------
(* Overlapping requests.                                                   *)

\* The calls of a workflow that Temporal does not wait for, or not any more.
GivenUp(w) ==
    {c \in calls : c.workflow = w /\ ~(Parsing(w) /\ c = CurrentCall(w))}

\* Each of them was paid for by a fault.
OverlapInv ==
    /\ TypeInv
    /\ \A w \in Workflows : IsFiniteSet(GivenUp(w)) /\ Cardinality(GivenUp(w)) <= faults

\* A call that is not awaited counts for no step but a timeout and the end of an
\* execution; an answer, a retry and a new message leave no call behind.
LEMMA GivenUpByFault ==
    ASSUME TypeInv, [Next]_vars, NEW w \in Workflows
    PROVE  \/ GivenUp(w)' \subseteq GivenUp(w) /\ faults' \in {faults, faults + 1}
           \/ /\ GivenUp(w)' \subseteq GivenUp(w) \cup {CurrentCall(w)}
              /\ faults' = faults + 1
<1> DEFINE Kept == GivenUp(w)' \subseteq GivenUp(w) /\ faults' \in {faults, faults + 1}
<1>1. ASSUME calls' \subseteq calls, faults' = faults,
             status'[w] = status[w], at'[w] = at[w], settled'[w] = settled[w],
             attempt'[w] = attempt[w]
      PROVE  Kept
  BY <1>1 DEF GivenUp, Parsing, Running, CurrentCall
<1>2. ASSUME ~Parsing(w), calls' \subseteq calls, faults' \in {faults, faults + 1}
      PROVE  Kept
  BY <1>2 DEF GivenUp
<1>3. ASSUME calls' \subseteq calls \ {CurrentCall(w)}, faults' \in {faults, faults + 1}
      PROVE  Kept
  BY <1>3 DEF GivenUp
<1>4. ASSUME calls' = calls, faults' = faults + 1
      PROVE  /\ GivenUp(w)' \subseteq GivenUp(w) \cup {CurrentCall(w)}
             /\ faults' = faults + 1
  BY <1>4 DEF GivenUp
<1>5. ASSUME NEW v \in Workflows, v # w, calls' \subseteq calls \cup {CurrentCall(v)},
             faults' \in {faults, faults + 1},
             status'[w] = status[w], at'[w] = at[w], settled'[w] = settled[w],
             attempt'[w] = attempt[w]
      PROVE  Kept
  BY <1>5 DEF GivenUp, Parsing, Running, CurrentCall
<1> HIDE DEF Kept
<1>6. ASSUME NEW v \in Workflows, ExecutionStep(v) \/ AnswerError(v) \/ FaultStep(v), v # w
      PROVE  Kept
  <2>1. /\ status'[w] = status[w] /\ at'[w] = at[w] /\ settled'[w] = settled[w]
        /\ attempt'[w] = attempt[w]
    BY <1>6
    DEF ExecutionStep, FaultStep, WakeUp, Close, StartAttempt, Answer, ActUpon, Drain,
        AnswerError, AttemptTimesOut, EndExecution, TypeInv, TypeOK
  <2>2. calls' \subseteq calls \cup {CurrentCall(v)} /\ faults' \in {faults, faults + 1}
    BY <1>6
    DEF ExecutionStep, FaultStep, WakeUp, Close, StartAttempt, Answer,
        AnswerError, AttemptTimesOut, EndExecution, Fault
  <2> QED
    BY <1>5, <1>6, <2>1, <2>2
<1>7. ASSUME WakeUp(w) \/ Close(w)
      PROVE  Kept
  BY <1>2, <1>7 DEF WakeUp, Close, Sleeping, Parsing
<1>8. ASSUME StartAttempt(w)
      PROVE  Kept
  BY <1>8 DEF Kept, StartAttempt, GivenUp, Parsing, Running, CurrentCall
<1>9. ASSUME (\E isRFQ \in BOOLEAN : Answer(w, isRFQ)) \/ AnswerError(w)
      PROVE  Kept
  BY <1>3, <1>9 DEF Answer, AnswerError, Fault
<1>10. ASSUME AttemptTimesOut(w) \/ EndExecution(w)
       PROVE  /\ GivenUp(w)' \subseteq GivenUp(w) \cup {CurrentCall(w)}
              /\ faults' = faults + 1
  BY <1>4, <1>10 DEF AttemptTimesOut, EndExecution, Fault
<1>11. ASSUME NEW v \in Workflows, NEW m \in Messages, SignalRunning(v, m)
       PROVE  Kept
  BY <1>1, <1>11 DEF SignalRunning
<1>12. ASSUME NEW v \in Workflows, NEW m \in Messages, SignalStarts(v, m)
       PROVE  Kept
  <2>1. CASE v = w
    BY <1>2, <1>12, <2>1 DEF SignalStarts, Parsing
  <2>2. CASE v # w
    <3>1. /\ status'[w] = status[w] /\ at'[w] = at[w] /\ attempt'[w] = attempt[w]
          /\ UNCHANGED <<calls, settled, faults>>
      BY <1>12, <2>2 DEF SignalStarts, TypeInv, TypeOK
    <3> QED
      BY <1>1, <3>1
  <2> QED
    BY <2>1, <2>2
<1>13. ASSUME NEW v \in Workflows, CompleteThread(v)
       PROVE  Kept
  BY <1>1, <1>13 DEF CompleteThread
<1>14. ASSUME NEW c \in calls, LateAnswer(c)
       PROVE  Kept
  BY <1>1, <1>14 DEF LateAnswer
<1>15. ASSUME UNCHANGED vars
       PROVE  Kept
  BY <1>1, <1>15 DEF vars
<1> QED
  BY <1>6, <1>7, <1>8, <1>9, <1>10, <1>11, <1>12, <1>13, <1>14, <1>15
  DEF Kept, Next, ExecutionStep, FaultStep, SignalWithStart

\* Adding one element to a finite set makes it at most one larger.
LEMMA OneMoreElement ==
    ASSUME NEW S, IsFiniteSet(S), NEW x, NEW T \in SUBSET (S \cup {x})
    PROVE  /\ IsFiniteSet(T) /\ Cardinality(T) \in Nat
           /\ Cardinality(T) <= Cardinality(S) + 1
<1>1. /\ IsFiniteSet(S \cup {x})
      /\ Cardinality(S \cup {x}) <= Cardinality(S) + 1
  <2>1. Cardinality(S) \in Nat
    BY FS_CardinalityType
  <2>2. CASE x \in S
    <3>1. S \cup {x} = S
      BY <2>2
    <3>2. Cardinality(S) <= Cardinality(S) + 1
      BY <2>1
    <3> QED
      BY <3>1, <3>2
  <2>3. CASE x \notin S
    <3>1. IsFiniteSet(S \cup {x}) /\ Cardinality(S \cup {x}) = Cardinality(S) + 1
      BY <2>3, FS_AddElement
    <3> QED
      BY <2>1, <3>1
  <2> QED
    BY <2>2, <2>3
<1>2. IsFiniteSet(T) /\ Cardinality(T) <= Cardinality(S \cup {x})
  BY <1>1, FS_Subset
<1> QED
  BY <1>1, <1>2, FS_CardinalityType

\* The calls in flight for a workflow are at most one more than the faults: the
\* one that is awaited, and those given up.
THEOREM OverlapsNeedFaults == Spec => []OverlapNeedsFault
<1>1. Init => OverlapInv
  <2> SUFFICES ASSUME Init
               PROVE  \A w \in Workflows : IsFiniteSet(GivenUp(w)) /\ Cardinality(GivenUp(w)) <= faults
    BY TypeInit DEF OverlapInv
  <2>1. \A w \in Workflows : GivenUp(w) = {}
    BY DEF Init, GivenUp
  <2>2. IsFiniteSet({}) /\ Cardinality({}) = 0 /\ faults = 0
    BY FS_EmptySet DEF Init
  <2>3. Cardinality({}) <= faults
    BY <2>2
  <2> QED
    BY <2>1, <2>2, <2>3
<1>2. OverlapInv /\ [Next]_vars => OverlapInv'
  <2> SUFFICES ASSUME OverlapInv, [Next]_vars, NEW w \in Workflows
               PROVE  IsFiniteSet(GivenUp(w)') /\ Cardinality(GivenUp(w)') <= faults'
    BY TypeStep DEF OverlapInv
  <2>1. /\ IsFiniteSet(GivenUp(w)) /\ Cardinality(GivenUp(w)) \in Nat
        /\ Cardinality(GivenUp(w)) <= faults /\ faults \in Nat
    BY FS_CardinalityType, WorkflowAssumption DEF OverlapInv, TypeInv, TypeOK
  <2>2. CASE GivenUp(w)' \subseteq GivenUp(w) /\ faults' \in {faults, faults + 1}
    <3>1. IsFiniteSet(GivenUp(w)') /\ Cardinality(GivenUp(w)') <= Cardinality(GivenUp(w))
      BY <2>1, <2>2, FS_Subset
    <3>2. Cardinality(GivenUp(w)') \in Nat
      BY <3>1, FS_CardinalityType
    <3> QED
      BY <2>1, <2>2, <3>1, <3>2
  <2>3. CASE GivenUp(w)' \subseteq GivenUp(w) \cup {CurrentCall(w)} /\ faults' = faults + 1
    <3>1. /\ IsFiniteSet(GivenUp(w)') /\ Cardinality(GivenUp(w)') \in Nat
          /\ Cardinality(GivenUp(w)') <= Cardinality(GivenUp(w)) + 1
      BY <2>1, <2>3, OneMoreElement
    <3> QED
      BY <2>1, <2>3, <3>1
  <2> QED
    BY <2>2, <2>3, GivenUpByFault DEF OverlapInv
<1>3. OverlapInv => OverlapNeedsFault
  <2> SUFFICES ASSUME OverlapInv, NEW w \in Workflows
               PROVE  Cardinality({c \in calls : c.workflow = w}) <= 1 + faults
    BY DEF OverlapNeedsFault
  <2> DEFINE all == {c \in calls : c.workflow = w}
  <2>1. IsFiniteSet(GivenUp(w)) /\ Cardinality(GivenUp(w)) <= faults /\ faults \in Nat
    BY WorkflowAssumption DEF OverlapInv, TypeInv, TypeOK
  <2>2. all \in SUBSET (GivenUp(w) \cup {CurrentCall(w)})
    BY DEF GivenUp
  <2>3. Cardinality(GivenUp(w)) \in Nat
    BY <2>1, FS_CardinalityType
  <2> HIDE DEF all
  <2>4. Cardinality(all) \in Nat /\ Cardinality(all) <= Cardinality(GivenUp(w)) + 1
    BY <2>1, <2>2, OneMoreElement
  <2>5. Cardinality(all) <= 1 + faults
    BY <2>1, <2>3, <2>4
  <2> QED
    BY <2>5 DEF all
<1> QED
  BY <1>1, <1>2, <1>3, PTL DEF Spec

-----------------------------------------------------------------------------
(* The workflow implements its inbox.                                      *)

\* Where the first waiting message stands among the accepted ones.
LEMMA InboxIsWaiting ==
    ASSUME FifoInv, NEW w \in Workflows
    PROVE  /\ settled[w] \in Seq(Settlement)
           /\ accepted[w] \in Seq(Messages)
           /\ Inbox(w) \in Seq(Messages)
           /\ Len(accepted[w]) = Len(settled[w]) + Len(Inbox(w))
           /\ \A i \in 1..Len(Inbox(w)) : accepted[w][Len(settled[w]) + i] = Inbox(w)[i]
<1> DEFINE s == MessagesOf(settled[w])
           b == Inbox(w)
<1>1. settled[w] \in Seq(Settlement) /\ accepted[w] \in Seq(Messages)
  BY DEF FifoInv, TypeInv, TypeOK
<1>2. b \in Seq(Messages)
  BY InboxType DEF FifoInv
<1>3. s \in Seq(Messages) /\ Len(s) = Len(settled[w])
  BY <1>1, MessagesOfType
<1>4. accepted[w] = s \o b
  BY DEF FifoInv, FifoConserved
<1> HIDE DEF s, b
<1>5. /\ Len(s \o b) = Len(s) + Len(b)
      /\ \A i \in 1..Len(s) + Len(b) :
            (s \o b)[i] = IF i <= Len(s) THEN s[i] ELSE b[i - Len(s)]
  BY <1>2, <1>3, ConcatProperties, Zenon
<1>6. ASSUME NEW i \in 1..Len(b)
      PROVE  accepted[w][Len(settled[w]) + i] = b[i]
  <2>1. /\ Len(s) + i \in 1..Len(s) + Len(b)
        /\ ~(Len(s) + i <= Len(s))
        /\ (Len(s) + i) - Len(s) = i
    BY <1>2, <1>3
  <2> QED
    BY <1>3, <1>4, <1>5, <2>1
<1> QED
  BY <1>1, <1>2, <1>3, <1>4, <1>5, <1>6 DEF b

\* Settling the message in hand is a Parse of the inbox.
LEMMA AnswerParses ==
    ASSUME FifoInv, NEW w \in Workflows, NEW isRFQ \in BOOLEAN, Answer(w, isRFQ)
    PROVE  Abstract!Parse(w)
<1>1. current[w] \in Messages /\ InHand(w) = <<current[w]>> /\ queue[w] \in Seq(Messages)
  BY WorkflowAssumption DEF Answer, FifoInv, TypeInv, TypeOK, Hands, InHand
<1>2. /\ settled' = [settled EXCEPT ![w] = @ \o Outcomes(InHand(w), "parsed")]
      /\ UNCHANGED accepted
  BY DEF Answer, ActUpon
<1>3. Outcomes(InHand(w), "parsed") = <<[message |-> current[w], outcome |-> "parsed"]>>
  BY <1>1 DEF Outcomes
<1>4. [message |-> current[w], outcome |-> "parsed"] \in Settlement
  BY <1>1 DEF Settlement
<1>5. settled[w] \o Outcomes(InHand(w), "parsed")
        = Append(settled[w], [message |-> current[w], outcome |-> "parsed"])
  BY <1>3, <1>4, AppendIsConcat DEF FifoInv, TypeInv, TypeOK
<1>6. Len(Inbox(w)) \in Nat \ {0} /\ Inbox(w)[1] = current[w]
  BY <1>1 DEF Inbox
<1>7. /\ Abstract!Waiting(w) # {}
      /\ accepted[w][Len(settled[w]) + 1] = current[w]
  <2>1. /\ Len(settled[w]) \in Nat
        /\ Len(accepted[w]) = Len(settled[w]) + Len(Inbox(w))
        /\ \A i \in 1..Len(Inbox(w)) : accepted[w][Len(settled[w]) + i] = Inbox(w)[i]
    BY InboxIsWaiting
  <2>2. Len(settled[w]) + 1 \in Len(settled[w]) + 1 .. Len(accepted[w])
    BY <1>6, <2>1
  <2>3. 1 \in 1..Len(Inbox(w))
    BY <1>6
  <2> QED
    BY <1>6, <2>1, <2>2, <2>3 DEF Abstract!Waiting
<1> QED
  BY <1>2, <1>5, <1>7 DEF Abstract!Parse

\* Dropping the whole inbox is an Abandon, or nothing if it is empty.
LEMMA DroppingAbandons ==
    ASSUME FifoInv, NEW w \in Workflows,
           settled' = [settled EXCEPT ![w] = @ \o Outcomes(Inbox(w), "dropped")],
           UNCHANGED accepted
    PROVE  Abstract!Abandon(w) \/ UNCHANGED Abstract!vars
<1> DEFINE b == Inbox(w)
           o == Outcomes(b, "dropped")
           all == [i \in DOMAIN accepted[w] |->
                      IF i <= Len(settled[w]) THEN settled[w][i]
                      ELSE [message |-> accepted[w][i], outcome |-> "dropped"]]
<1>1. /\ settled[w] \in Seq(Settlement)
      /\ accepted[w] \in Seq(Messages)
      /\ b \in Seq(Messages)
      /\ Len(accepted[w]) = Len(settled[w]) + Len(b)
      /\ \A i \in 1..Len(b) : accepted[w][Len(settled[w]) + i] = b[i]
  BY InboxIsWaiting
<1>2. settled \in [Workflows -> Seq(Settlement)]
  BY DEF FifoInv, TypeInv, TypeOK
<1>3. /\ o \in Seq(Settlement)
      /\ Len(o) = Len(b)
      /\ \A i \in 1..Len(b) : o[i] = [message |-> b[i], outcome |-> "dropped"]
  <2> HIDE DEF b
  <2> QED
    BY <1>1, OutcomesType
<1>4. CASE b = <<>>
  <2>1. Len(o) = 0
    BY <1>3, <1>4, EmptySeq
  <2>2. o = <<>>
    <3> HIDE DEF o
    <3> QED
      BY <1>3, <2>1, EmptySeq
  <2>3. settled[w] \o o = settled[w]
    BY <1>1, <2>2, ConcatEmptySeq
  <2>4. settled' = settled
    BY <1>2, <2>3
  <2> QED
    BY <2>4 DEF Abstract!vars
<1>5. CASE b # <<>>
  <2>1. Abstract!Waiting(w) # {}
    <3>1. Len(b) \in Nat \ {0} /\ Len(settled[w]) \in Nat
      BY <1>1, <1>5, EmptySeq
    <3>2. Len(settled[w]) + 1 \in Len(settled[w]) + 1 .. Len(accepted[w])
      BY <1>1, <3>1
    <3> QED
      BY <3>2 DEF Abstract!Waiting
  <2>2. /\ settled[w] \o o \in Seq(Settlement)
        /\ Len(settled[w] \o o) = Len(settled[w]) + Len(o)
        /\ \A i \in 1..Len(settled[w]) + Len(o) :
              (settled[w] \o o)[i] =
                  IF i <= Len(settled[w]) THEN settled[w][i] ELSE o[i - Len(settled[w])]
    <3> DEFINE s == settled[w]
    <3>1. s \in Seq(Settlement) /\ o \in Seq(Settlement)
      BY <1>1, <1>3
    <3> HIDE DEF o, s
    <3>2. /\ s \o o \in Seq(Settlement)
          /\ Len(s \o o) = Len(s) + Len(o)
          /\ \A i \in 1..Len(s) + Len(o) :
                (s \o o)[i] = IF i <= Len(s) THEN s[i] ELSE o[i - Len(s)]
      BY <3>1, ConcatProperties, Zenon
    <3> QED
      BY <3>2 DEF s
  <2>3. DOMAIN (settled[w] \o o) = 1..Len(accepted[w]) /\ DOMAIN all = 1..Len(accepted[w])
    <3> HIDE DEF o, b
    <3> QED
      BY <1>1, <1>3, <2>2
  <2>4. ASSUME NEW i \in 1..Len(accepted[w])
        PROVE  (settled[w] \o o)[i] = all[i]
    <3>1. CASE i <= Len(settled[w])
      <4> HIDE DEF o, b
      <4> QED
        BY <1>1, <1>3, <2>2, <3>1
    <3>2. CASE ~(i <= Len(settled[w]))
      <4> HIDE DEF o, b
      <4>1. /\ i - Len(settled[w]) \in 1..Len(b)
            /\ Len(settled[w]) + (i - Len(settled[w])) = i
        BY <1>1, <3>2
      <4>2. b[i - Len(settled[w])] = accepted[w][i]
        BY <1>1, <4>1
      <4>3. o[i - Len(settled[w])] = [message |-> accepted[w][i], outcome |-> "dropped"]
        BY <1>3, <4>1, <4>2
      <4>4. i \in 1..Len(settled[w]) + Len(o)
        BY <1>1, <1>3
      <4>5. (settled[w] \o o)[i] = o[i - Len(settled[w])]
        BY <2>2, <3>2, <4>4
      <4> QED
        BY <3>2, <4>3, <4>5
    <3> QED
      BY <3>1, <3>2
  <2>5. settled[w] \o o = all
    <3> HIDE DEF all
    <3>1. all = [i \in DOMAIN all |-> all[i]]
      BY DEF all
    <3>2. settled[w] \o o = [i \in DOMAIN (settled[w] \o o) |-> (settled[w] \o o)[i]]
      BY <2>2
    <3> QED
      BY <2>3, <2>4, <3>1, <3>2, Zenon
  <2>6. settled' = [settled EXCEPT ![w] = all]
    BY <2>5
  <2> QED
    BY <2>1, <2>6 DEF Abstract!Abandon
<1> QED
  BY <1>4, <1>5

\* Every step is Accept, Parse or Abandon of the inbox, or a stutter.
LEMMA ImplementsStep ==
    ASSUME FifoInv, [Next]_vars
    PROVE  [Abstract!Next]_(Abstract!vars)
<1>0. TypeInv
  BY DEF FifoInv
<1>1. ASSUME NEW w \in Workflows, NEW m \in Messages, SignalWithStart(w, m)
      PROVE  Abstract!Accept(w)
  BY <1>1 DEF SignalWithStart, SignalRunning, SignalStarts, Abstract!Accept
<1>2. ASSUME NEW w \in Workflows, NEW isRFQ \in BOOLEAN, Answer(w, isRFQ)
      PROVE  Abstract!Parse(w)
  BY <1>2, AnswerParses
<1>3. ASSUME NEW w \in Workflows, Close(w)
      PROVE  Abstract!Abandon(w) \/ UNCHANGED Abstract!vars
  <2>1. Inbox(w) = queue[w]
    BY <1>0, <1>3, EmptyHanded DEF Close, Sleeping, Parsing
  <2> QED
    BY <1>3, <2>1, DroppingAbandons DEF Close
<1>4. ASSUME NEW w \in Workflows, EndExecution(w)
      PROVE  Abstract!Abandon(w) \/ UNCHANGED Abstract!vars
  BY <1>4, DroppingAbandons DEF EndExecution
<1>5. CASE UNCHANGED <<accepted, settled>>
  BY <1>5 DEF Abstract!vars
<1> QED
  BY <1>1, <1>2, <1>3, <1>4, <1>5
  DEF Next, ExecutionStep, FaultStep, CompleteThread, WakeUp, StartAttempt,
      AnswerError, AttemptTimesOut, LateAnswer, vars, Abstract!Next

\* The workflow implements its inbox: every step accepts one message, settles
\* the oldest one as parsed, drops all that wait, or is invisible.
THEOREM WorkflowImplementsInbox == Spec => ImplementsInbox
<1>1. Init => Abstract!Init
  BY DEF Init, Abstract!Init
<1>2. FifoInv /\ [Next]_vars => [Abstract!Next]_(Abstract!vars)
  BY ImplementsStep
<1> QED
  BY <1>1, <1>2, FifoInit, FifoStep, PTL DEF Spec, ImplementsInbox, Abstract!Spec

-----------------------------------------------------------------------------
(* A verdict leaves no message behind.                                     *)

NothingLeftBehind ==
    \A w \in Workflows : Parsing(w) /\ Sleeping(w)' => queue'[w] = <<>>

\* An execution goes from parsing to sleeping only with an empty queue.
LEMMA VerdictStep == TypeInv /\ [Next]_vars => NothingLeftBehind
<1> SUFFICES ASSUME TypeInv, [Next]_vars, NEW w \in Workflows, Parsing(w), Sleeping(w)'
             PROVE  queue'[w] = <<>>
  BY DEF NothingLeftBehind
<1>1. /\ at \in [Workflows -> {"parsing", "sleeping"}]
      /\ status \in [Workflows -> {"none", "running", "closed", "ended"}]
      /\ at[w] = "parsing" /\ status[w] = "running"
      /\ at'[w] = "sleeping" /\ status'[w] = "running"
  BY DEF TypeInv, TypeOK, Parsing, Sleeping, Running
<1>2. CASE UNCHANGED at
  BY <1>1, <1>2
<1>3. ASSUME NEW v \in Workflows, NEW m \in Messages, SignalStarts(v, m)
      PROVE  queue'[w] = <<>>
  BY <1>1, <1>3 DEF SignalStarts, Running
<1>4. ASSUME NEW v \in Workflows, Drain(v)
      PROVE  queue'[w] = <<>>
  <2>1. v = w
    BY <1>1, <1>4, DrainType
  <2>2. CASE queue[w] = <<>>
    BY <1>4, <2>1, <2>2 DEF Drain
  <2>3. CASE queue[w] # <<>>
    <3>1. at' = [at EXCEPT ![w] = "parsing"]
      BY <1>4, <2>1, <2>3, Zenon DEF Drain
    <3> QED
      BY <1>1, <3>1
  <2> QED
    BY <2>2, <2>3
<1> QED
  BY <1>2, <1>3, <1>4
  DEF Next, ExecutionStep, FaultStep, SignalWithStart, SignalRunning, CompleteThread, WakeUp,
      Close, StartAttempt, Answer, ActUpon, AnswerError, AttemptTimesOut, EndExecution,
      LateAnswer, vars

\* A verdict that closes a thread does not abandon what is already queued: the
\* last sleep of an execution begins with an empty queue.
THEOREM QueueIsEmptyAtVerdict == Spec => QueueEmptyAtVerdict
<1>1. TypeInv /\ [Next]_vars => [NothingLeftBehind]_vars
  BY VerdictStep
<1> QED
  BY <1>1, TypeInit, TypeStep, PTL DEF Spec, QueueEmptyAtVerdict, NothingLeftBehind

=============================================================================
