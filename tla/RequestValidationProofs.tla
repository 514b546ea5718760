------------------------ MODULE RequestValidationProofs ------------------------
(***************************************************************************)
(* Theorems about RequestValidation, for any number of decorators: which   *)
(* of a handler's declarations keep bad data from it, and what the caller  *)
(* of a handler is told.                                                   *)
(***************************************************************************)
EXTENDS RequestValidation, SequenceTheorems, WellFoundedInduction, TLAPS

-----------------------------------------------------------------------------
(* Decorators.                                                             *)

\* A set of natural numbers has a least one.
LEMMA LeastNumber ==
    ASSUME NEW S \in SUBSET Nat, S # {}
    PROVE  \E m \in S : \A n \in S : m <= n
<1> DEFINE less == {u \in Nat \X Nat : u[1] < u[2]}
<1>1. IsWellFoundedOn(less, Nat)
  BY NatLessThanWellFounded DEF OpToRel
<1>2. \A n, m \in Nat : n < m => <<n, m>> \in less
  OBVIOUS
<1> HIDE DEF less
<1>3. PICK m \in S : \A n \in S : <<n, m>> \notin less
  BY <1>1, WFMin
<1>4. ASSUME NEW n \in S
      PROVE  m <= n
  <2>1. n \in Nat /\ m \in Nat /\ ~(n < m)
    BY <1>2, <1>3
  <2> QED
    BY <2>1
<1> QED
  BY <1>4

\* Some decorator of s records for the handler.
HasOwn(s) == \E i \in DOMAIN s : s[i].for = "handler"

\* Where the topmost such decorator may be.
First(s) == {i \in DOMAIN s : /\ s[i].for = "handler"
                              /\ \A j \in 1..(i - 1) : s[j].for = "other"}

\* Decorators of a handler or its class, topmost first.
LEMMA DeclarationType ==
    ASSUME NEW k \in Kinds, NEW s \in Seq(Decorator(k))
    PROVE  /\ Len(s) \in Nat /\ DOMAIN s = 1..Len(s)
           /\ \A i \in 1..Len(s) : s[i].for \in {"handler", "other"} /\ s[i].source \in SourcesOf(k)
<1>1. \A d \in Decorator(k) : d.for \in {"handler", "other"} /\ d.source \in SourcesOf(k)
  BY DEF Decorator
<1> QED
  BY <1>1, ElementOfSeq, LenProperties

\* What is declared is a sequence of them.
LEMMA DeclaredIsSeq ==
    ASSUME NEW k \in Kinds, NEW s \in Declarations(k)
    PROVE  s \in Seq(Decorator(k))
<1>1. PICK n \in 0..MaxDecorators : s \in [1..n -> Decorator(k)]
  BY DEF Declarations
<1>2. n \in Nat
  BY <1>1
<1> QED
  BY <1>1, <1>2

\* A handler with a decorator has a topmost one, and only one.
LEMMA TopmostExists ==
    ASSUME NEW k \in Kinds, NEW s \in Seq(Decorator(k)), HasOwn(s)
    PROVE  \E i \in First(s) : SourceOfTopmost(s) = s[i].source
<1> DEFINE methods == {i \in DOMAIN s : s[i].for = "handler"}
<1>1. /\ Len(s) \in Nat /\ DOMAIN s = 1..Len(s)
      /\ \A i \in 1..Len(s) : s[i].for \in {"handler", "other"}
  BY DeclarationType
<1>2. methods \in SUBSET Nat /\ methods # {}
  BY <1>1 DEF HasOwn
<1>3. PICK m \in methods : \A n \in methods : m <= n
  BY <1>2, LeastNumber
<1>4. m \in First(s)
  BY <1>1, <1>3 DEF First
<1>5. SourceOfTopmost(s) = s[CHOOSE i \in DOMAIN s : i \in First(s)].source
  <2>1. (CHOOSE i \in DOMAIN s : i \in First(s)) =
           CHOOSE i \in DOMAIN s : /\ s[i].for = "handler"
                                   /\ \A j \in 1..(i - 1) : s[j].for = "other"
    BY DEF First
  <2> QED
    BY <2>1 DEF SourceOfTopmost, HasOwn
<1>6. (CHOOSE i \in DOMAIN s : i \in First(s)) \in First(s)
  BY <1>4 DEF First
<1> QED
  BY <1>5, <1>6

LEMMA TopmostIsFirst ==
    ASSUME NEW k \in Kinds, NEW s \in Seq(Decorator(k)), NEW i \in First(s)
    PROVE  SourceOfTopmost(s) = s[i].source
<1>1. Len(s) \in Nat /\ DOMAIN s = 1..Len(s)
  BY DeclarationType
<1>2. HasOwn(s)
  BY DEF HasOwn, First
<1>3. PICK j \in First(s) : SourceOfTopmost(s) = s[j].source
  BY <1>2, TopmostExists
<1>4. i \in 1..Len(s) /\ j \in 1..Len(s) /\ s[i].for = "handler" /\ s[j].for = "handler"
  BY <1>1 DEF First
<1>5. ~(i < j) /\ ~(j < i)
  BY <1>1, <1>4 DEF First
<1> QED
  BY <1>3, <1>4, <1>5

\* The source that decides in the end, when s is still to be evaluated and m is
\* recorded.
Decides(s, m) == IF HasOwn(s) THEN SourceOfTopmost(s) ELSE m

\* The decorator that is evaluated next is overwritten by every one above it.
LEMMA DecidesStep ==
    ASSUME NEW k \in Kinds, NEW s \in Seq(Decorator(k)), s # <<>>, NEW m
    PROVE  LET n == Len(s)
               rest == SubSeq(s, 1, n - 1)
           IN  /\ rest \in Seq(Decorator(k))
               /\ Decides(s, m) = Decides(rest, IF s[n].for = "handler" THEN s[n].source ELSE m)
<1> DEFINE n == Len(s)
           rest == SubSeq(s, 1, n - 1)
<1>1. /\ s \in Seq(Decorator(k)) /\ n \in Nat /\ DOMAIN s = 1..n
      /\ \A i \in 1..n : s[i].for \in {"handler", "other"} /\ s[i].source \in SourcesOf(k)
  BY DeclarationType
<1>2. n \in Nat \ {0}
  BY <1>1, EmptySeq
<1> HIDE DEF n
<1>3. /\ rest \in Seq(Decorator(k)) /\ Len(rest) = n - 1
      /\ DOMAIN rest = 1..(n - 1) /\ \A i \in 1..(n - 1) : rest[i] = s[i]
  <2>1. \A i \in 1..(n - 1) : s[i] \in Decorator(k)
    BY <1>1, <1>2, ElementOfSeq
  <2>2. n - 1 \in Int /\ (1 <= n - 1 \/ n - 1 = 0) /\ (n - 1) - 1 + 1 = n - 1
    BY <1>2
  <2>3. /\ rest \in Seq(Decorator(k))
        /\ Len(rest) = IF 1 <= n - 1 THEN (n - 1) - 1 + 1 ELSE 0
        /\ \A i \in 1..((n - 1) - 1 + 1) : rest[i] = s[1 + i - 1]
    BY <2>1, <2>2, SubSeqProperties
  <2>4. /\ rest \in Seq(Decorator(k)) /\ Len(rest) = n - 1
        /\ \A i \in 1..(n - 1) : rest[i] = s[i]
    BY <1>2, <2>2, <2>3
  <2> QED
    BY <2>4, LenProperties
<1> HIDE DEF rest
<1>4. rest \in Seq(Decorator(k))
  BY <1>3
<1>5. CASE HasOwn(rest)
  <2>1. PICK i \in First(rest) : SourceOfTopmost(rest) = rest[i].source
    BY <1>4, <1>5, TopmostExists
  <2>2. i \in 1..(n - 1) /\ i \in 1..n /\ rest[i] = s[i]
    BY <1>2, <1>3, <2>1 DEF First
  <2>3. i \in First(s)
    BY <1>1, <1>2, <1>3, <2>1, <2>2 DEF First
  <2>4. HasOwn(s) /\ SourceOfTopmost(s) = s[i].source
    BY <2>3, TopmostIsFirst DEF First, HasOwn
  <2> QED
    BY <1>4, <1>5, <2>1, <2>2, <2>4 DEF Decides, n, rest
<1>6. CASE ~HasOwn(rest)
  <2>1. \A i \in 1..(n - 1) : s[i].for = "other"
    BY <1>1, <1>2, <1>3, <1>6 DEF HasOwn
  <2>2. CASE s[n].for = "handler"
    <3>1. n \in First(s)
      BY <1>1, <1>2, <2>1, <2>2 DEF First
    <3>2. HasOwn(s) /\ SourceOfTopmost(s) = s[n].source
      BY <3>1, TopmostIsFirst DEF First, HasOwn
    <3> QED
      BY <1>4, <1>6, <2>2, <3>2 DEF Decides, n, rest
  <2>3. CASE s[n].for # "handler"
    <3>1. ~HasOwn(s)
      <4>1. \A i \in 1..n : i = n \/ i \in 1..(n - 1)
        BY <1>2
      <4> QED
        BY <1>1, <2>1, <2>3, <4>1 DEF HasOwn
    <3> QED
      BY <1>4, <1>6, <2>3, <3>1 DEF Decides, n, rest
  <2> QED
    BY <2>2, <2>3
<1> QED
  BY <1>5, <1>6

-----------------------------------------------------------------------------
(* Type correctness.                                                       *)

\* Types, and what is said of use cases: neither interceptor nor pipes are run for
\* them.
TypeInv ==
    /\ TypeOK
    /\ kind = "useCase" =>
          /\ pc \notin {"intercepting", "piping"}
          /\ \A s \in SourcesOf(kind) : pipes[s] = "none"

LEMMA Sources ==
    /\ SourcesOf("controller") = {"body", "query", "params"}
    /\ SourcesOf("event") = {"payload"}
    /\ SourcesOf("useCase") = {"command"}
    /\ \A k \in Kinds : None \notin SourcesOf(k)
BY DEF SourcesOf, Kinds, None

LEMMA TypeInit == Init => TypeInv
<1> SUFFICES ASSUME Init
             PROVE  TypeInv
  OBVIOUS
<1>1. kind \in Kinds /\ decorators \in Seq(Decorator(kind))
  BY DeclaredIsSeq DEF Init
<1>2. topmost \in SourcesOf(kind) \cup {None}
  <2>1. CASE HasOwn(decorators)
    <3>1. PICK i \in First(decorators) : SourceOfTopmost(decorators) = decorators[i].source
      BY <1>1, <2>1, TopmostExists
    <3> QED
      BY <1>1, <3>1, DeclarationType DEF First, Init
  <2>2. CASE ~HasOwn(decorators)
    BY <2>2 DEF Init, SourceOfTopmost, HasOwn
  <2> QED
    BY <2>1, <2>2
<1>4. received \in [SourcesOf(kind) -> Value] /\ data \in [SourcesOf(kind) -> Value]
  BY DEF Init, Value
<1>5. /\ pipes \in [SourcesOf(kind) -> {"none", "check", "transform"}]
      /\ kind = "useCase" => \A s \in SourcesOf(kind) : pipes[s] = "none"
  BY DEF Init
<1> QED
  BY <1>1, <1>2, <1>4, <1>5 DEF Init, TypeInv, TypeOK

\* Of each kind a decorator names a source of that kind.
LEMMA LastDecorator ==
    ASSUME TypeOK, decorators # <<>>
    PROVE  /\ decorators[Len(decorators)].source \in SourcesOf(kind)
           /\ SubSeq(decorators, 1, Len(decorators) - 1) \in Seq(Decorator(kind))
<1>1. kind \in Kinds /\ decorators \in Seq(Decorator(kind))
  BY DEF TypeOK
<1>2. /\ decorators \in Seq(Decorator(kind)) /\ Len(decorators) \in Nat \ {0}
      /\ \A i \in 1..Len(decorators) : decorators[i].source \in SourcesOf(kind)
  BY <1>1, DeclarationType, EmptySeq
<1>3. Len(decorators) \in 1..Len(decorators)
  BY <1>2
<1> QED
  BY <1>1, <1>2, <1>3, DecidesStep

\* What an interceptor or the pipes put into the request is typed.
LEMMA DataType ==
    ASSUME TypeOK, NEW s \in SourcesOf(kind)
    PROVE  AssignValidated(s) =>
              /\ data' \in [SourcesOf(kind) -> Value]
              /\ data' = data \/ data' = [data EXCEPT ![s] = "exact"]
BY DEF TypeOK, AssignValidated, Value

LEMMA TypeStep == TypeInv /\ [Next]_vars => TypeInv'
<1> SUFFICES ASSUME TypeInv, [Next]_vars
             PROVE  TypeInv'
  OBVIOUS
<1> USE DEF declaration
<1>1. CASE Decorate
  BY <1>1, LastDecorator DEF TypeInv, TypeOK, Decorate
<1>2. CASE Declared
  BY <1>2 DEF TypeInv, TypeOK, Declared
<1>3. CASE Receive
  BY <1>3 DEF TypeInv, TypeOK, Receive
<1>4. CASE PassThrough
  BY <1>4 DEF TypeInv, TypeOK, PassThrough
<1>5. CASE Validate
  <2>1. metadata \in SourcesOf(kind)
    BY <1>5 DEF TypeInv, TypeOK, Validate
  <2>2. data' \in [SourcesOf(kind) -> Value]
    BY <1>5, <2>1, DataType DEF TypeInv, Validate
  <2> QED
    BY <1>5, <2>2 DEF TypeInv, TypeOK, Validate
<1>6. CASE AssignQuery
  BY <1>6 DEF TypeInv, TypeOK, AssignQuery, End
<1>7. CASE Refuse
  BY <1>7 DEF TypeInv, TypeOK, Refuse, End
<1>8. CASE RunPipes
  <2>1. data' \in [SourcesOf(kind) -> Value]
    BY <1>8 DEF TypeInv, TypeOK, RunPipes, Value
  <2> QED
    BY <1>8, <2>1 DEF TypeInv, TypeOK, RunPipes, End
<1>9. CASE Handle
  BY <1>9 DEF TypeInv, TypeOK, Handle, End
<1>10. CASE UNCHANGED vars
  BY <1>10 DEF TypeInv, TypeOK, vars
<1> QED
  BY <1>1, <1>2, <1>3, <1>4, <1>5, <1>6, <1>7, <1>8, <1>9, <1>10 DEF Next

\* Every variable stays within its type: a request keeps the fields that handlers of
\* its kind are given, however it is validated.
THEOREM TypeCorrect == Spec => []TypeOK
<1>1. TypeInv => TypeOK
  BY DEF TypeInv
<1> QED
  BY <1>1, TypeInit, TypeStep, PTL DEF Spec

-----------------------------------------------------------------------------
(* What is recorded for a handler.                                         *)

\* Of the decorators for a handler the topmost is recorded in the end, as each
\* evaluated later overwrites those below it.
RecordedInv ==
    topmost = IF pc = "declaring" THEN Decides(decorators, metadata) ELSE metadata

LEMMA RecordedInit == Init => RecordedInv
BY DEF Init, RecordedInv, Decides, HasOwn, SourceOfTopmost

LEMMA RecordedStep == TypeInv /\ RecordedInv /\ [Next]_vars => RecordedInv'
<1> SUFFICES ASSUME TypeInv, RecordedInv, [Next]_vars
             PROVE  topmost' = IF pc' = "declaring" THEN Decides(decorators', metadata')
                               ELSE metadata'
  BY DEF RecordedInv
<1>1. CASE Decorate
  <2>1. kind \in Kinds /\ decorators \in Seq(Decorator(kind))
    BY <1>1 DEF TypeInv, TypeOK, Decorate, declaration
  <2>2. /\ decorators # <<>> /\ pc = "declaring" /\ pc' = "declaring" /\ topmost' = topmost
        /\ decorators' = SubSeq(decorators, 1, Len(decorators) - 1)
        /\ metadata' = IF decorators[Len(decorators)].for = "handler"
                       THEN decorators[Len(decorators)].source ELSE metadata
    BY <1>1, <2>1 DEF Decorate, declaration
  <2>3. Decides(decorators, metadata) = Decides(decorators', metadata')
    BY <2>1, <2>2, DecidesStep
  <2> QED
    BY <2>1, <2>2, <2>3 DEF RecordedInv
<1>2. CASE Declared
  <2>1. DOMAIN decorators = {}
    BY <1>2 DEF Declared
  <2>2. Decides(decorators, metadata) = metadata
    BY <2>1 DEF Decides, HasOwn
  <2> QED
    BY <1>2, <2>2 DEF Declared, declaration, RecordedInv
<1>3. CASE /\ UNCHANGED <<kind, topmost, decorators, metadata>>
           /\ pc = "declaring" <=> pc' = "declaring"
  BY <1>3 DEF RecordedInv
<1>4. \/ Decorate \/ Declared
      \/ UNCHANGED <<kind, topmost, decorators, metadata>> /\ (pc = "declaring" <=> pc' = "declaring")
  BY DEF Next, Receive, PassThrough, Validate, AssignQuery, Refuse, RunPipes, Handle, End,
         vars, declaration
<1> QED
  BY <1>1, <1>2, <1>3, <1>4

-----------------------------------------------------------------------------
(* What a handler is given.                                                *)

\* After the interceptor the topmost decorator's source is good, and in shape unless
\* it is the payload of an event without data; the query has not got that far.
\* After the pipes the sources of all pipes are good.
GuardInv ==
    /\ TypeInv /\ RecordedInv
    /\ outcome # None => pc = "idle"
    /\ pc = "intercepting" => data = received
    /\ pc \in {"piping", "handling"} /\ kind # "useCase" =>
          /\ topmost # "query"
          /\ topmost # None => /\ data[topmost] # "bad"
                               /\ data[topmost] = "loose" => topmost = "payload" /\ ~wrapped
    /\ pc = "handling" /\ kind # "useCase" => \A s \in SourcesOf(kind) :
          /\ pipes[s] # "none" => data[s] # "bad"
          /\ pipes[s] = "transform" => data[s] = "exact"
    /\ HandlerIsGuarded

\* The interceptor lets a request through only with a good value where the topmost
\* decorator looks, and the pipes only with good values where they look.
LEMMA GuardStep == GuardInv /\ [Next]_vars => GuardInv'
<1> SUFFICES ASSUME GuardInv, [Next]_vars
             PROVE  GuardInv'
  OBVIOUS
<1>0. TypeInv /\ TypeInv' /\ RecordedInv'
  BY TypeStep, RecordedStep DEF GuardInv
<1>1. /\ kind \in Kinds /\ data \in [SourcesOf(kind) -> Value] /\ topmost \in SourcesOf(kind) \cup {None}
      /\ None \notin SourcesOf(kind) /\ outcome \in {None, "handled", "refused", "badRequest"}
  BY <1>0, Sources DEF TypeInv, TypeOK
<1>2. pc \in {"intercepting", "piping"} => kind # "useCase" /\ topmost = metadata
  BY <1>0 DEF TypeInv, RecordedInv, GuardInv
<1> USE DEF declaration
<1>3. CASE Decorate \/ Declared
  BY <1>0, <1>3 DEF GuardInv, Decorate, Declared, HandlerIsGuarded
<1>4. CASE Receive
  <2>1. outcome' = None /\ None # "handled"
    BY <1>4 DEF Receive, None
  <2>2. pc' = "handling" => kind' = "useCase"
    BY <1>4 DEF Receive
  <2> QED
    BY <1>0, <1>1, <1>4, <2>1, <2>2 DEF GuardInv, Receive, HandlerIsGuarded
<1>5. CASE PassThrough
  <2>1. topmost = None /\ topmost # "query"
    BY <1>2, <1>5 DEF PassThrough, None
  <2> QED
    BY <1>0, <1>5, <2>1 DEF GuardInv, PassThrough, HandlerIsGuarded
<1>6. CASE Validate
  <2>1. topmost = metadata /\ topmost \in SourcesOf(kind) /\ topmost # "query" /\ data[topmost] # "bad"
    BY <1>1, <1>2, <1>6 DEF Validate
  <2>2. /\ data'[topmost] # "bad"
        /\ data'[topmost] = "loose" => topmost = "payload" /\ ~wrapped
    BY <1>1, <1>6, <2>1 DEF Validate, AssignValidated
  <2>3. outcome' = None /\ pc' = "piping"
    BY <1>6 DEF GuardInv, Validate
  <2>4. HandlerIsGuarded'
    BY <2>3 DEF HandlerIsGuarded, None
  <2> QED
    BY <1>0, <1>6, <2>1, <2>2, <2>3, <2>4 DEF GuardInv, Validate
<1>7. CASE AssignQuery
  BY <1>0, <1>1, <1>2, <1>7
  DEF GuardInv, AssignQuery, End, HandlerIsGuarded
<1>8. CASE Refuse
  BY <1>0, <1>1, <1>2, <1>8
  DEF GuardInv, Refuse, End, HandlerIsGuarded
<1>9. CASE RunPipes
  <2>1. CASE End("refused")
    BY <1>0, <1>1, <1>9, <2>1
    DEF GuardInv, RunPipes, End, HandlerIsGuarded
  <2>2. CASE /\ \A s \in Piped : data[s] # "bad"
             /\ data' = [s \in SourcesOf(kind) |->
                            IF pipes[s] = "transform" THEN "exact" ELSE data[s]]
             /\ pc' = "handling"
             /\ UNCHANGED <<declaration, decorators, metadata, wrapped, received, outcome>>
    <3>1. \A s \in SourcesOf(kind) :
             /\ data'[s] = IF pipes[s] = "transform" THEN "exact" ELSE data[s]
             /\ pipes[s] # "none" => data'[s] # "bad"
      BY <2>2 DEF Piped
    <3>2. topmost # None => /\ data'[topmost] # "bad"
                            /\ data'[topmost] = "loose" => topmost = "payload" /\ ~wrapped
      BY <1>1, <1>2, <1>9, <3>1 DEF GuardInv, RunPipes
    <3> QED
      BY <1>0, <1>9, <2>2, <3>1, <3>2
      DEF GuardInv, RunPipes, HandlerIsGuarded
  <2> QED
    BY <1>9, <2>1, <2>2 DEF RunPipes
<1>10. CASE Handle
  <2>1. HandlerIsGuarded'
    BY <1>1, <1>10 DEF GuardInv, Handle, End, HandlerIsGuarded
  <2> QED
    BY <1>0, <1>10, <2>1 DEF GuardInv, Handle, End
<1>11. CASE UNCHANGED vars
  BY <1>0, <1>11 DEF GuardInv, vars, HandlerIsGuarded
<1> QED
  BY <1>3, <1>4, <1>5, <1>6, <1>7, <1>8, <1>9, <1>10, <1>11 DEF Next

LEMMA GuardInit == Init => GuardInv
BY TypeInit, RecordedInit DEF Init, GuardInv, HandlerIsGuarded

\* For any number of decorators on a handler and its class: bad data reaches a handler
\* of requests or events only where neither a pipe nor the topmost decorator looks.
THEOREM HandlersAreGuarded == Spec => []HandlerIsGuarded
<1>1. GuardInv => HandlerIsGuarded
  BY DEF GuardInv
<1> QED
  BY <1>1, GuardInit, GuardStep, PTL DEF Spec

=============================================================================
