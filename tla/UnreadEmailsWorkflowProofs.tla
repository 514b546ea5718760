----------------------- MODULE UnreadEmailsWorkflowProofs -----------------------
(***************************************************************************)
(* Theorems about UnreadEmailsWorkflow, for any number of requests and     *)
(* attempts: types, and when polling requests may overlap.                 *)
(***************************************************************************)
EXTENDS UnreadEmailsWorkflow, FiniteSetTheorems, TLAPS

\* Whatever happens, the types are kept.
LEMMA TypeStep == TypeOK /\ [Next]_vars => TypeOK'
<1> SUFFICES ASSUME TypeOK, [Next]_vars
             PROVE  TypeOK'
  OBVIOUS
<1> USE PollingAssumption DEF TypeOK
<1>1. CASE Boot
  BY <1>1 DEF Boot, StartPolling
<1>2. CASE PollAgain
  BY <1>2 DEF PollAgain
<1>3. CASE PollTimesOut
  BY <1>3 DEF PollTimesOut
<1>4. CASE EndPolling
  BY <1>4 DEF EndPolling
<1>5. ASSUME NEW r \in Requests, SendRequest(r)
      PROVE  TypeOK'
  BY <1>5 DEF SendRequest
<1>6. ASSUME NEW r \in Requests, Answered(r)
      PROVE  TypeOK'
  BY <1>6 DEF Answered
<1>7. CASE UNCHANGED vars
  BY <1>7 DEF vars
<1> QED
  BY <1>1, <1>2, <1>3, <1>4, <1>5, <1>6, <1>7 DEF Next

\* Every variable of the polling workflow stays within its type: an activity
\* never has more than MaxAttempts attempts.
THEOREM TypeCorrect == Spec => []TypeOK
<1>1. Init => TypeOK
  BY PollingAssumption DEF Init, TypeOK
<1> QED
  BY <1>1, TypeStep, PTL DEF Spec

-----------------------------------------------------------------------------
(* The awaited request.                                                    *)

\* Types, and what is awaited is in flight: a sleeping or ended execution
\* awaits nothing, so a new poll or a new execution starts with no request.
AwaitedInFlight ==
    polling # None => polling \in requests /\ run = "running" /\ phase = "polling"

PollInv == TypeOK /\ AwaitedInFlight

\* A new poll starts only when none is awaited, and an answer to an attempt
\* that was given up leaves the awaited one alone.
LEMMA PollStep == PollInv /\ [Next]_vars => PollInv'
<1> SUFFICES ASSUME PollInv, [Next]_vars
             PROVE  AwaitedInFlight'
  BY TypeStep DEF PollInv
<1> USE PollingAssumption DEF PollInv, AwaitedInFlight
<1>1. CASE Boot
  BY <1>1 DEF Boot, StartPolling
<1>2. CASE PollAgain
  BY <1>2 DEF PollAgain
<1>3. CASE PollTimesOut
  BY <1>3 DEF PollTimesOut
<1>4. CASE EndPolling
  BY <1>4 DEF EndPolling
<1>5. ASSUME NEW r \in Requests, SendRequest(r)
      PROVE  AwaitedInFlight'
  BY <1>5 DEF SendRequest
<1>6. ASSUME NEW r \in Requests, Answered(r)
      PROVE  AwaitedInFlight'
  BY <1>6 DEF Answered
<1>7. CASE UNCHANGED vars
  BY <1>7 DEF vars
<1> QED
  BY <1>1, <1>2, <1>3, <1>4, <1>5, <1>6, <1>7 DEF Next

-----------------------------------------------------------------------------
(* Overlapping requests.                                                   *)

\* Requests nobody awaits were given up by a timeout or with their execution.
\* OverlapNeedsTimeout alone would let a new poll start beside the awaited one.
OverlapInv ==
    /\ PollInv
    /\ IsFiniteSet(requests)
    /\ Cardinality(requests) <= timeouts + ends + (IF polling = None THEN 0 ELSE 1)

\* A request is sent only when none is awaited, and giving one up is counted.
LEMMA OverlapStep == OverlapInv /\ [Next]_vars => OverlapInv'
<1> SUFFICES ASSUME OverlapInv, [Next]_vars
             PROVE  /\ IsFiniteSet(requests')
                    /\ Cardinality(requests') <=
                          timeouts' + ends' + (IF polling' = None THEN 0 ELSE 1)
  BY PollStep DEF OverlapInv
<1> USE PollingAssumption DEF OverlapInv, PollInv, TypeOK
<1>1. Cardinality(requests) \in Nat
  BY FS_CardinalityType
<1>2. CASE Boot
  BY <1>1, <1>2 DEF Boot, StartPolling
<1>3. CASE PollAgain
  BY <1>1, <1>3 DEF PollAgain
<1>4. CASE PollTimesOut
  BY <1>1, <1>4 DEF PollTimesOut
<1>5. CASE EndPolling
  BY <1>1, <1>5 DEF EndPolling
<1>6. ASSUME NEW r \in Requests, SendRequest(r)
      PROVE  /\ IsFiniteSet(requests')
             /\ Cardinality(requests') <=
                   timeouts' + ends' + (IF polling' = None THEN 0 ELSE 1)
  <2>1. IsFiniteSet(requests') /\ Cardinality(requests') = Cardinality(requests) + 1
    BY <1>6, FS_AddElement DEF SendRequest
  <2> QED
    BY <1>1, <1>6, <2>1 DEF SendRequest
<1>7. ASSUME NEW r \in Requests, Answered(r)
      PROVE  /\ IsFiniteSet(requests')
             /\ Cardinality(requests') <=
                   timeouts' + ends' + (IF polling' = None THEN 0 ELSE 1)
  <2>1. IsFiniteSet(requests') /\ Cardinality(requests') = Cardinality(requests) - 1
    BY <1>7, FS_RemoveElement DEF Answered
  <2> QED
    BY <1>1, <1>7, <2>1 DEF Answered
<1>8. CASE UNCHANGED vars
  BY <1>1, <1>8 DEF vars
<1> QED
  BY <1>2, <1>3, <1>4, <1>5, <1>6, <1>7, <1>8 DEF Next

\* The email worker never has more polling requests at a time than one, one for
\* every attempt that timed out and one for every execution that was ended.
THEOREM OverlapsNeedTimeouts == Spec => []OverlapNeedsTimeout
<1>1. Init => OverlapInv
  <2>1. IsFiniteSet({}) /\ Cardinality({}) = 0
    BY FS_EmptySet
  <2> QED
    BY <2>1, PollingAssumption
    DEF Init, OverlapInv, PollInv, TypeOK, AwaitedInFlight
<1>2. OverlapInv => OverlapNeedsTimeout
  BY FS_CardinalityType DEF OverlapInv, PollInv, TypeOK, OverlapNeedsTimeout
<1> QED
  BY <1>1, <1>2, OverlapStep, PTL DEF Spec

=============================================================================
