-------------------------- MODULE HealthChecksProofs --------------------------
(***************************************************************************)
(* Theorems about HealthChecks, for any number of concurrent requests and  *)
(* of connections, and any configuration: types, and that every open       *)
(* connection is held by the one check that will close it, or was dialed   *)
(* by a NATS check that had lost its race.                                 *)
(***************************************************************************)
EXTENDS HealthChecks, FiniteSetTheorems, TLAPS

\* A check that has dialed knows its dial.
Dialed == \A r \in Requests : \A k \in Kinds : stage[r][k] = "dialing" => link[r][k] # None

TypeInv == TypeOK /\ Dialed

-----------------------------------------------------------------------------
(* Type correctness.                                                       *)

\* The endpoints ask for checks that exist.
LEMMA EndpointsAreChecks ==
    ASSUME NEW s \in Services, NEW e \in {"check", "readiness", "liveness"}
    PROVE  s[e] \in SUBSET Kinds
BY DEF Services, EmailWorkers, CoreService, AgentOrchestrator, WhatsappWorkers,
       TelegramWorkers, Kinds

\* A check that returns has a verdict and no connection; the others go on.
LEMMA Returned ==
    ASSUME TypeOK, NEW r \in Requests, NEW k \in Kinds, NEW v \in {"up", "down"},
           Return(r, k, v)
    PROVE  /\ stage' \in [Requests -> [Kinds -> {"none", "dialing", "asking", "closing", "done"}]]
           /\ verdict' \in [Requests -> [Kinds -> {"none", "up", "down"}]]
           /\ link' \in [Requests -> [Kinds -> Conns \cup {None}]]
           /\ stage'[r][k] = "done" /\ verdict'[r][k] = v /\ link'[r][k] = None
           /\ \A q \in Requests : \A j \in Kinds : q # r \/ j # k =>
                  /\ stage'[q][j] = stage[q][j]
                  /\ verdict'[q][j] = verdict[q][j]
                  /\ link'[q][j] = link[q][j]
BY DEF TypeOK, Return

\* A check that returns keeps the types, if the pools of connections do.
LEMMA ReturnType ==
    ASSUME TypeInv, NEW r \in Requests, NEW k \in Kinds, NEW v \in {"up", "down"},
           Return(r, k, v), UNCHANGED checks,
           dialing' \subseteq Conns, open' \subseteq Conns, lost' \subseteq Conns
    PROVE  TypeInv'
<1>1. /\ stage' \in [Requests -> [Kinds -> {"none", "dialing", "asking", "closing", "done"}]]
      /\ verdict' \in [Requests -> [Kinds -> {"none", "up", "down"}]]
      /\ link' \in [Requests -> [Kinds -> Conns \cup {None}]]
      /\ stage'[r][k] = "done" /\ verdict'[r][k] = v
      /\ \A q \in Requests : \A j \in Kinds : q # r \/ j # k =>
             /\ stage'[q][j] = stage[q][j]
             /\ verdict'[q][j] = verdict[q][j]
             /\ link'[q][j] = link[q][j]
  BY Returned DEF TypeInv
<1>2. ASSUME NEW q \in Requests, NEW j \in Kinds
      PROVE  /\ stage'[q][j] = "done" <=> verdict'[q][j] # "none"
             /\ stage'[q][j] = "dialing" => link'[q][j] # None
  <2>1. CASE q = r /\ j = k
    BY <1>1, <2>1
  <2>2. CASE q # r \/ j # k
    <3>1. /\ stage'[q][j] = stage[q][j] /\ verdict'[q][j] = verdict[q][j]
          /\ link'[q][j] = link[q][j]
      BY <1>1, <2>2
    <3>2. /\ stage[q][j] = "done" <=> verdict[q][j] # "none"
          /\ stage[q][j] = "dialing" => link[q][j] # None
      BY DEF TypeInv, TypeOK, Dialed
    <3> QED
      BY <3>1, <3>2
  <2> QED
    BY <2>1, <2>2
<1>3. TypeOK'
  BY <1>1, <1>2 DEF TypeInv, TypeOK
<1>4. Dialed'
  BY <1>2 DEF Dialed
<1> QED
  BY <1>3, <1>4 DEF TypeInv

\* A request that arrives has the checks of its endpoint, each at its first stage.
LEMMA Received ==
    ASSUME TypeInv, NEW r \in Requests, NEW ks \in SUBSET Kinds, Receive(r, ks)
    PROVE  /\ TypeInv'
           /\ checks' = [checks EXCEPT ![r] = ks]
           /\ \A k \in Kinds : stage'[r][k] = IF k \in ks THEN FirstStage(k) ELSE "none"
           /\ \A q \in Requests \ {r} : stage'[q] = stage[q] /\ link'[q] = link[q]
<1> DEFINE dials == ks \cap Configured \cap Connecting
<1>1. checks' = [checks EXCEPT ![r] = ks] /\ open' = open /\ lost' = lost
  BY DEF Receive
<1>2. stage' = [stage EXCEPT ![r] = [k \in Kinds |-> IF k \in ks THEN FirstStage(k) ELSE "none"]]
  BY DEF Receive
<1>3. PICK v \in [ks \ Configured -> {"up", "down"}] :
          verdict' = [verdict EXCEPT ![r] =
              [k \in Kinds |-> IF k \in ks \ Configured THEN v[k] ELSE "none"]]
  BY DEF Receive
<1>4. PICK ids \in [dials -> Unused] :
          /\ link' = [link EXCEPT ![r] = [k \in Kinds |-> IF k \in dials THEN ids[k] ELSE None]]
          /\ dialing' = dialing \cup {ids[k] : k \in dials}
  BY DEF Receive
<1>5. \A k \in Kinds : FirstStage(k) \in {"done", "dialing", "asking"}
  BY DEF FirstStage
<1>6. /\ stage' \in [Requests -> [Kinds -> {"none", "dialing", "asking", "closing", "done"}]]
      /\ \A k \in Kinds : stage'[r][k] = IF k \in ks THEN FirstStage(k) ELSE "none"
      /\ \A q \in Requests \ {r} : stage'[q] = stage[q]
  BY <1>2, <1>5 DEF TypeInv, Dialed, TypeOK
<1>7. /\ verdict' \in [Requests -> [Kinds -> {"none", "up", "down"}]]
      /\ \A k \in Kinds : verdict'[r][k] = IF k \in ks \ Configured THEN v[k] ELSE "none"
      /\ \A q \in Requests \ {r} : verdict'[q] = verdict[q]
  BY <1>3 DEF TypeInv, Dialed, TypeOK
<1>8. /\ link' \in [Requests -> [Kinds -> Conns \cup {None}]]
      /\ \A q \in Requests \ {r} : link'[q] = link[q]
      /\ dialing' \subseteq Conns
  BY <1>4 DEF TypeInv, Dialed, TypeOK, Unused
<1>9. ASSUME NEW q \in Requests, NEW j \in Kinds
      PROVE  /\ stage'[q][j] = "done" <=> verdict'[q][j] # "none"
             /\ stage'[q][j] = "dialing" => link'[q][j] # None
  <2>1. CASE q = r /\ j \in ks \ Configured
    <3>1. v[j] \in {"up", "down"} /\ verdict'[r][j] = v[j]
      BY <1>7, <2>1
    <3>2. stage'[r][j] = "done"
      BY <1>6, <2>1 DEF FirstStage
    <3> QED
      BY <2>1, <3>1, <3>2
  <2>2. CASE q = r /\ j \notin ks \ Configured
    <3>1. verdict'[r][j] = "none"
      BY <1>7, <2>2
    <3>2. stage'[r][j] \in {"dialing", "asking", "none"}
      BY <1>6, <2>2 DEF FirstStage
    <3>3. stage'[r][j] = "dialing" => j \in dials
      BY <1>6, <2>2 DEF FirstStage
    <3>4. j \in dials => link'[r][j] = ids[j] /\ ids[j] \in Conns
      BY <1>4 DEF TypeInv, TypeOK, Unused
    <3> QED
      BY <2>2, <3>1, <3>2, <3>3, <3>4, HealthAssumption
  <2>3. CASE q # r
    BY <1>6, <1>7, <1>8, <2>3 DEF TypeInv, TypeOK, Dialed
  <2> QED
    BY <2>1, <2>2, <2>3
<1>10. checks' \in [Requests -> (SUBSET Kinds) \cup {None}]
  BY <1>1 DEF TypeInv, TypeOK
<1>11. TypeOK'
  BY <1>1, <1>6, <1>7, <1>8, <1>9, <1>10 DEF TypeInv, TypeOK
<1>12. Dialed'
  BY <1>9 DEF Dialed
<1> QED
  BY <1>1, <1>6, <1>8, <1>11, <1>12 DEF TypeInv

\* The steps that only move connections keep the types.
LEMMA PoolType ==
    ASSUME TypeInv, NEW c \in Conns, LateConnected(c) \/ LateNotConnected(c) \/ ServerDrops(c)
    PROVE  TypeInv'
BY DEF TypeInv, Dialed, TypeOK, LateConnected, LateNotConnected, ServerDrops

\* Every step of a request, of a timer and of a remote service keeps the types.
LEMMA TypeStep == TypeInv /\ [Next]_vars => TypeInv'
<1> SUFFICES ASSUME TypeInv, [Next]_vars
             PROVE  TypeInv'
  OBVIOUS
<1> "nats" \in Kinds /\ "temporal" \in Kinds /\ "up" \in {"up", "down"} /\ "down" \in {"up", "down"}
  BY DEF Kinds
<1>1. ASSUME NEW r \in Requests, NEW s \in Services,
             NEW e \in {"check", "readiness", "liveness"}, Receive(r, s[e])
      PROVE  TypeInv'
  BY <1>1, EndpointsAreChecks, Received
<1>2. ASSUME NEW r \in Requests, NEW k \in Connecting, Connected(r, k)
      PROVE  TypeInv'
  <2>1. k \in Kinds /\ stage[r][k] = "dialing"
    BY <1>2 DEF Connecting, Kinds, Connected
  <2>2. /\ stage' \in [Requests -> [Kinds -> {"none", "dialing", "asking", "closing", "done"}]]
        /\ stage'[r][k] # "done"
        /\ \A q \in Requests : \A j \in Kinds : q # r \/ j # k => stage'[q][j] = stage[q][j]
    BY <1>2 DEF Connected, TypeInv, Dialed, TypeOK
  <2>3. open' \subseteq Conns /\ dialing' \subseteq Conns
    <3>1. link[r][k] \in Conns
      BY <2>1 DEF TypeInv, Dialed, TypeOK
    <3> QED
      BY <1>2, <3>1 DEF Connected, TypeInv, TypeOK
  <2> QED
    BY <1>2, <2>1, <2>2, <2>3 DEF Connected, TypeInv, Dialed, TypeOK
<1>3. ASSUME NEW r \in Requests, NEW k \in Connecting, NotConnected(r, k)
      PROVE  TypeInv'
  <2>1. k \in Kinds
    BY DEF Connecting, Kinds
  <2> QED
    BY <1>3, <2>1, ReturnType DEF NotConnected, TypeInv, Dialed, TypeOK
<1>4. ASSUME NEW r \in Requests, NEW k \in Kinds, NEW v \in {"up", "down"}, Answered(r, k, v)
      PROVE  TypeInv'
  <2>1. dialing' \subseteq Conns /\ open' \subseteq Conns /\ lost' \subseteq Conns
    BY <1>4 DEF Answered, TypeInv, TypeOK
  <2> QED
    BY <1>4, <2>1, ReturnType DEF Answered
<1>5. ASSUME NEW r \in Requests, NatsClosed(r)
      PROVE  TypeInv'
  BY <1>5, ReturnType DEF NatsClosed, TypeInv, Dialed, TypeOK
<1>6. ASSUME NEW r \in Requests, TimesOut(r)
      PROVE  TypeInv'
  <2>1. CASE RaceTimesOut(r)
    <3>1. link[r]["nats"] \in Conns
      BY <2>1 DEF RaceTimesOut, TypeInv, Dialed, TypeOK
    <3> QED
      BY <2>1, <3>1, ReturnType DEF RaceTimesOut, TypeInv, Dialed, TypeOK
  <2>2. CASE DialTimesOut(r)
    BY <2>2, ReturnType DEF DialTimesOut, TypeInv, Dialed, TypeOK
  <2>3. ASSUME NEW k \in Kinds, AskingTimesOut(r, k)
        PROVE  TypeInv'
    BY <2>3, ReturnType DEF AskingTimesOut, TypeInv, Dialed, TypeOK
  <2> QED
    BY <1>6, <2>1, <2>2, <2>3 DEF TimesOut
<1>7. ASSUME NEW r \in Requests, Respond(r)
      PROVE  TypeInv'
  BY <1>7 DEF Respond, TypeInv, Dialed, TypeOK
<1>8. ASSUME NEW c \in Conns, LateConnected(c) \/ LateNotConnected(c) \/ ServerDrops(c)
      PROVE  TypeInv'
  BY <1>8, PoolType
<1>9. CASE UNCHANGED vars
  BY <1>9 DEF vars, TypeInv, Dialed, TypeOK
<1> QED
  BY <1>1, <1>2, <1>3, <1>4, <1>5, <1>6, <1>7, <1>8, <1>9 DEF Next

\* Initially nobody asks and nothing is connected.
LEMMA TypeInit == Init => TypeInv
BY DEF Init, TypeInv, TypeOK, Dialed

\* Every variable of the health checks stays within its type, and a check is done
\* exactly when it has a verdict, for any number of requests and connections.
THEOREM TypeCorrect == Spec => []TypeOK
<1>1. TypeInv => TypeOK
  BY DEF TypeInv
<1> QED
  BY <1>1, TypeInit, TypeStep, PTL DEF Spec

-----------------------------------------------------------------------------
(* Who holds a connection.                                                 *)

Busy == {"dialing", "asking", "closing"}

\* Exactly the checks that dial, ask or close over a connection of their own hold
\* one, and a slot has no checks but those of its request.
Stages ==
    \A r \in Requests : \A k \in Kinds :
        /\ checks[r] = None \/ k \notin checks[r] => stage[r][k] = "none"
        /\ link[r][k] # None <=> k \in Connecting /\ stage[r][k] \in Busy

\* What a check holds is under way or open, not lost, and nobody else's.
Holding ==
    \A r \in Requests : \A k \in Kinds : link[r][k] # None =>
        /\ link[r][k] \in (IF stage[r][k] = "dialing" THEN dialing ELSE open) \ lost
        /\ \A q \in Requests : \A j \in Kinds : link[q][j] = link[r][k] => q = r /\ j = k

IsHeld(c) == \E r \in Requests : \E k \in Kinds : link[r][k] = c

\* A lost dial is somewhere, and an open connection that is not lost is held.
Pools ==
    /\ dialing \cap open = {}
    /\ lost \subseteq dialing \cup open
    /\ \A c \in open \ lost : IsHeld(c)

\* ConnectionsOwned counts the holders of open connections; that a dial has one
\* holder too, and is new when it is made, is what makes that inductive.
OwnedInv == TypeInv /\ Stages /\ Holding /\ Pools

\* A step that leaves requests and links alone, and what the checks hold where
\* it is, keeps Stages and Holding.
LEMMA SameLinks ==
    ASSUME OwnedInv, UNCHANGED <<checks, stage, link>>,
           \A c \in dialing \ lost : c \in dialing' \ lost',
           \A c \in open \ lost : c \in open' \ lost'
    PROVE  Stages' /\ Holding'
BY DEF OwnedInv, Stages, Holding

\* A check that returns releases what it held.
LEMMA ReturnHolds ==
    ASSUME OwnedInv, NEW r \in Requests, NEW k \in Kinds, NEW v \in {"up", "down"},
           stage[r][k] \in Busy, Return(r, k, v), UNCHANGED checks
    PROVE  /\ Stages'
           /\ link'[r][k] = None
           /\ \A q \in Requests : \A j \in Kinds : link'[q][j] # None =>
                  /\ link'[q][j] = link[q][j] /\ stage'[q][j] = stage[q][j]
                  /\ link[q][j] # link[r][k]
                  /\ \A i \in Requests : \A l \in Kinds :
                         link'[i][l] = link'[q][j] => i = q /\ l = j
           /\ \A c \in Conns \ {link[r][k]} : IsHeld(c) => IsHeld(c)'
<1>1. /\ stage'[r][k] = "done" /\ link'[r][k] = None
      /\ \A q \in Requests : \A j \in Kinds : q # r \/ j # k =>
             stage'[q][j] = stage[q][j] /\ link'[q][j] = link[q][j]
  BY Returned DEF OwnedInv, TypeInv
<1>2. checks[r] # None /\ k \in checks[r]
  BY DEF OwnedInv, Stages, Busy
<1>3. ASSUME NEW q \in Requests, NEW j \in Kinds
      PROVE  /\ checks'[q] = None \/ j \notin checks'[q] => stage'[q][j] = "none"
             /\ link'[q][j] # None <=> j \in Connecting /\ stage'[q][j] \in Busy
  <2>1. CASE q = r /\ j = k
    BY <1>1, <1>2, <2>1 DEF Busy
  <2>2. CASE q # r \/ j # k
    BY <1>1, <2>2 DEF OwnedInv, Stages
  <2> QED
    BY <2>1, <2>2
<1>4. ASSUME NEW q \in Requests, NEW j \in Kinds, link'[q][j] # None
      PROVE  /\ q # r \/ j # k
             /\ link'[q][j] = link[q][j] /\ stage'[q][j] = stage[q][j]
             /\ link[q][j] # link[r][k]
             /\ \A i \in Requests : \A l \in Kinds :
                    link'[i][l] = link'[q][j] => i = q /\ l = j
  <2>1. q # r \/ j # k
    BY <1>1, <1>4
  <2>2. link'[q][j] = link[q][j] /\ stage'[q][j] = stage[q][j]
    BY <1>1, <2>1
  <2>3. \A i \in Requests : \A l \in Kinds : link[i][l] = link[q][j] => i = q /\ l = j
    BY <1>4, <2>2 DEF OwnedInv, Holding
  <2>4. link[q][j] # link[r][k]
    BY <2>1, <2>3
  <2> QED
    BY <1>1, <1>4, <2>1, <2>2, <2>3, <2>4
<1>5. ASSUME NEW c \in Conns \ {link[r][k]}, IsHeld(c)
      PROVE  IsHeld(c)'
  <2>1. PICK q \in Requests, j \in Kinds : link[q][j] = c
    BY <1>5 DEF IsHeld
  <2> QED
    BY <1>1, <2>1 DEF IsHeld
<1> QED
  BY <1>1, <1>3, <1>4, <1>5 DEF Stages

\* A check that returns and whose connection is closed, or never came about.
LEMMA Released ==
    ASSUME OwnedInv, NEW r \in Requests, NEW k \in Kinds, NEW v \in {"up", "down"},
           stage[r][k] \in Busy, Return(r, k, v), UNCHANGED <<checks, lost>>,
           dialing' = dialing \ {link[r][k]}, open' = open \ {link[r][k]}
    PROVE  OwnedInv'
<1>1. TypeInv'
  BY ReturnType DEF OwnedInv, TypeInv, TypeOK
<1>2. Holding'
  BY ReturnHolds DEF OwnedInv, Holding
<1>3. link[r][k] \notin lost
  BY HealthAssumption DEF OwnedInv, Holding, TypeInv, TypeOK
<1>4. Pools'
  BY <1>3, ReturnHolds DEF OwnedInv, Pools, TypeInv, TypeOK
<1> QED
  BY <1>1, <1>2, <1>4, ReturnHolds DEF OwnedInv

\* A NATS check that loses its race leaves its dial to itself.
LEMMA RaceLost ==
    ASSUME OwnedInv, NEW r \in Requests, RaceTimesOut(r)
    PROVE  OwnedInv'
<1> DEFINE c == link[r]["nats"]
<1>1. /\ "nats" \in Kinds /\ stage[r]["nats"] \in Busy /\ "down" \in {"up", "down"}
      /\ Return(r, "nats", "down") /\ UNCHANGED <<checks, dialing, open>>
      /\ lost' = lost \cup {c}
  BY DEF RaceTimesOut, Kinds, Busy
<1>2. c \in dialing /\ c \notin open
  BY DEF RaceTimesOut, OwnedInv, TypeInv, Dialed, Holding, Pools, Kinds
<1>3. TypeInv'
  BY <1>1, <1>2, ReturnType DEF OwnedInv, TypeInv, TypeOK
<1>4. /\ Stages'
      /\ \A q \in Requests : \A j \in Kinds : link'[q][j] # None =>
             /\ link'[q][j] = link[q][j] /\ stage'[q][j] = stage[q][j]
             /\ link[q][j] # c
             /\ \A i \in Requests : \A l \in Kinds :
                    link'[i][l] = link'[q][j] => i = q /\ l = j
      /\ \A d \in Conns \ {c} : IsHeld(d) => IsHeld(d)'
  BY <1>1, ReturnHolds
<1>5. Holding'
  BY <1>1, <1>4 DEF OwnedInv, Holding
<1>6. Pools'
  BY <1>1, <1>2, <1>4 DEF OwnedInv, Pools, TypeInv, TypeOK
<1> QED
  BY <1>3, <1>4, <1>5, <1>6 DEF OwnedInv

\* What the checks of a new request dial is new.
LEMMA ReceivedHolds ==
    ASSUME OwnedInv, NEW r \in Requests, NEW ks \in SUBSET Kinds, Receive(r, ks)
    PROVE  OwnedInv'
<1> DEFINE dials == ks \cap Configured \cap Connecting
<1>1. PICK ids \in [dials -> Unused] :
          /\ \A j, k \in dials : ids[j] = ids[k] => j = k
          /\ link' = [link EXCEPT ![r] = [k \in Kinds |-> IF k \in dials THEN ids[k] ELSE None]]
          /\ dialing' = dialing \cup {ids[k] : k \in dials}
  BY DEF Receive
<1>2. /\ TypeInv'
      /\ checks' = [checks EXCEPT ![r] = ks]
      /\ \A k \in Kinds : stage'[r][k] = IF k \in ks THEN FirstStage(k) ELSE "none"
      /\ \A q \in Requests \ {r} : stage'[q] = stage[q] /\ link'[q] = link[q]
  BY Received DEF OwnedInv
<1>3. open' = open /\ lost' = lost
  BY DEF Receive
<1>4. /\ checks'[r] = ks /\ checks'[r] # None
      /\ \A q \in Requests \ {r} : checks'[q] = checks[q]
  BY <1>2, HealthAssumption DEF OwnedInv, TypeInv, TypeOK
<1>5. /\ \A k \in dials : link'[r][k] = ids[k] /\ stage'[r][k] = "dialing"
      /\ \A k \in Kinds \ dials : link'[r][k] = None
      /\ \A k \in Kinds \ dials : k \in Connecting => stage'[r][k] \notin Busy
  <2>1. /\ \A k \in dials : link'[r][k] = ids[k]
        /\ \A k \in Kinds \ dials : link'[r][k] = None
    BY <1>1 DEF OwnedInv, TypeInv, TypeOK
  <2> QED
    BY <1>2, <2>1 DEF FirstStage, Busy
<1>6. \A k \in dials : /\ ids[k] # None /\ ids[k] \in dialing' /\ ids[k] \notin open
                        /\ ids[k] \notin dialing /\ ids[k] \notin lost
  BY <1>1, HealthAssumption DEF OwnedInv, Pools, Unused
<1>7. Stages'
  <2>1. ASSUME NEW q \in Requests, NEW k \in Kinds
        PROVE  /\ checks'[q] = None \/ k \notin checks'[q] => stage'[q][k] = "none"
               /\ link'[q][k] # None <=> k \in Connecting /\ stage'[q][k] \in Busy
    <3>1. CASE q = r
      <4>1. k \notin ks => stage'[q][k] = "none"
        BY <1>2, <3>1
      <4>2. link'[q][k] # None <=> k \in dials
        BY <1>5, <1>6, <3>1
      <4>3. k \in dials <=> k \in Connecting /\ stage'[q][k] \in Busy
        BY <1>5, <3>1 DEF Busy
      <4> QED
        BY <1>4, <3>1, <4>1, <4>2, <4>3
    <3>2. CASE q # r
      BY <1>2, <1>4, <3>2 DEF OwnedInv, Stages
    <3> QED
      BY <3>1, <3>2
  <2> QED
    BY <2>1 DEF Stages
<1>8. \A q \in Requests \ {r} : \A j \in Kinds : link'[q][j] # None =>
          /\ link'[q][j] \in dialing \cup open
          /\ link'[q][j] \in (IF stage'[q][j] = "dialing" THEN dialing ELSE open) \ lost
          /\ \A i \in Requests \ {r} : \A l \in Kinds :
                 link'[i][l] = link'[q][j] => i = q /\ l = j
  BY <1>2 DEF OwnedInv, Holding
<1>9. Holding'
  <2>1. ASSUME NEW q \in Requests, NEW j \in Kinds, link'[q][j] # None
        PROVE  /\ link'[q][j] \in (IF stage'[q][j] = "dialing" THEN dialing' ELSE open') \ lost'
               /\ \A i \in Requests : \A l \in Kinds :
                      link'[i][l] = link'[q][j] => i = q /\ l = j
    <3>1. CASE q = r
      <4>1. j \in dials /\ link'[r][j] = ids[j] /\ stage'[r][j] = "dialing"
        BY <1>5, <2>1, <3>1
      <4>2. ASSUME NEW i \in Requests, NEW l \in Kinds, link'[i][l] = link'[q][j]
            PROVE  i = q /\ l = j
        <5>1. CASE i = r
          <6>1. l \in dials
            BY <1>5, <2>1, <4>2, <5>1
          <6>2. ids[l] = ids[j]
            BY <1>5, <3>1, <4>1, <4>2, <5>1, <6>1
          <6>3. l = j
            BY <1>1, <4>1, <6>1, <6>2
          <6> QED
            BY <3>1, <5>1, <6>3
        <5>2. CASE i # r
          BY <1>6, <1>8, <2>1, <3>1, <4>1, <4>2, <5>2
        <5> QED
          BY <5>1, <5>2
      <4> QED
        BY <1>3, <1>6, <3>1, <4>1, <4>2
    <3>2. CASE q # r
      <4>1. ASSUME NEW l \in Kinds, link'[r][l] = link'[q][j]
            PROVE  FALSE
        BY <1>5, <1>6, <1>8, <2>1, <3>2, <4>1
      <4> QED
        BY <1>1, <1>3, <1>8, <2>1, <3>2, <4>1
    <3> QED
      BY <3>1, <3>2
  <2> QED
    BY <2>1 DEF Holding
<1>10. Pools'
  <2>1. \A c \in open : IsHeld(c) => IsHeld(c)'
    <3>1. ASSUME NEW c \in open, IsHeld(c)
          PROVE  IsHeld(c)'
      <4>1. PICK q \in Requests, j \in Kinds : link[q][j] = c
        BY <3>1 DEF IsHeld
      <4>2. c # None
        BY HealthAssumption DEF OwnedInv, TypeInv, TypeOK
      <4>3. q # r
        BY <4>1, <4>2 DEF Receive, OwnedInv, Stages, Busy
      <4> QED
        BY <1>2, <4>1, <4>3 DEF IsHeld
    <3> QED
      BY <3>1
  <2> QED
    BY <1>1, <1>3, <1>6, <2>1 DEF OwnedInv, Pools
<1> QED
  BY <1>2, <1>7, <1>9, <1>10 DEF OwnedInv

\* A connection that opens is held by the check that dialed it.
LEMMA ConnectedHolds ==
    ASSUME OwnedInv, TypeInv', NEW r \in Requests, NEW k \in Connecting, Connected(r, k)
    PROVE  OwnedInv'
<1>1. k \in Kinds /\ stage[r][k] = "dialing"
  BY DEF Connected, Connecting, Kinds
<1>2. /\ link[r][k] # None /\ link[r][k] \in dialing \ lost
      /\ \A q \in Requests : \A j \in Kinds : link[q][j] = link[r][k] => q = r /\ j = k
  BY <1>1 DEF OwnedInv, TypeInv, Dialed, Holding
<1>3. /\ stage'[r][k] \in {"asking", "closing"}
      /\ \A q \in Requests : \A j \in Kinds : q # r \/ j # k => stage'[q][j] = stage[q][j]
      /\ dialing' = dialing \ {link[r][k]} /\ open' = open \cup {link[r][k]}
      /\ UNCHANGED <<checks, link, lost>>
  BY <1>1 DEF Connected, OwnedInv, TypeInv, TypeOK
<1>4. Stages'
  BY <1>1, <1>3 DEF OwnedInv, Stages, Busy
<1>5. ASSUME NEW q \in Requests, NEW j \in Kinds, link[q][j] # None
      PROVE  link[q][j] \in (IF stage'[q][j] = "dialing" THEN dialing' ELSE open') \ lost
  <2>1. CASE q = r /\ j = k
    BY <1>2, <1>3, <2>1
  <2>2. CASE q # r \/ j # k
    BY <1>2, <1>3, <1>5, <2>2 DEF OwnedInv, Holding
  <2> QED
    BY <2>1, <2>2
<1>6. Holding'
  BY <1>3, <1>5 DEF OwnedInv, Holding
<1>7. Pools'
  BY <1>1, <1>2, <1>3 DEF OwnedInv, Pools, IsHeld
<1> QED
  BY <1>4, <1>6, <1>7 DEF OwnedInv

\* Every step of a request, of a timer and of a remote service keeps connections
\* to their checks.
LEMMA OwnedStep == OwnedInv /\ [Next]_vars => OwnedInv'
<1> SUFFICES ASSUME OwnedInv, [Next]_vars
             PROVE  OwnedInv'
  OBVIOUS
<1>0. TypeInv'
  BY TypeStep DEF OwnedInv
<1> "nats" \in Kinds /\ "temporal" \in Kinds /\ "up" \in {"up", "down"} /\ "down" \in {"up", "down"}
  BY DEF Kinds
<1>1. ASSUME NEW r \in Requests, NEW s \in Services,
             NEW e \in {"check", "readiness", "liveness"}, Receive(r, s[e])
      PROVE  OwnedInv'
  BY <1>1, EndpointsAreChecks, ReceivedHolds
<1>2. ASSUME NEW r \in Requests, NEW k \in Connecting, Connected(r, k)
      PROVE  OwnedInv'
  BY <1>0, <1>2, ConnectedHolds
<1>3. ASSUME NEW r \in Requests, NEW k \in Kinds, NotConnected(r, k) \/ (k = "temporal" /\ DialTimesOut(r))
      PROVE  OwnedInv'
  <2>1. /\ stage[r][k] = "dialing" /\ Return(r, k, "down")
        /\ dialing' = dialing \ {link[r][k]} /\ UNCHANGED <<checks, open, lost>>
    BY <1>3 DEF NotConnected, DialTimesOut
  <2>2. link[r][k] \notin open
    BY <2>1 DEF OwnedInv, TypeInv, Dialed, Holding, Pools
  <2>3. open' = open \ {link[r][k]} /\ stage[r][k] \in Busy
    BY <2>1, <2>2 DEF Busy
  <2> QED
    BY <2>1, <2>3, Released
<1>4. ASSUME NEW r \in Requests, NEW k \in Kinds, NEW v \in {"up", "down"},
             Answered(r, k, v) \/ (k = "nats" /\ v = "up" /\ NatsClosed(r))
      PROVE  OwnedInv'
  <2>1. /\ stage[r][k] \in {"asking", "closing"} /\ Return(r, k, v)
        /\ open' = open \ {link[r][k]} /\ UNCHANGED <<checks, dialing, lost>>
    BY <1>4 DEF Answered, NatsClosed
  <2>2. link[r][k] \notin dialing
    BY <2>1, HealthAssumption DEF OwnedInv, TypeInv, TypeOK, Holding, Pools
  <2>3. dialing' = dialing \ {link[r][k]} /\ stage[r][k] \in Busy
    BY <2>1, <2>2 DEF Busy
  <2> QED
    BY <2>1, <2>3, Released
<1>5. ASSUME NEW r \in Requests, NEW k \in Kinds, AskingTimesOut(r, k)
      PROVE  OwnedInv'
  <2>1. /\ k \notin Connecting /\ stage[r][k] = "asking" /\ Return(r, k, "down")
        /\ UNCHANGED <<checks, dialing, open, lost>>
    BY <1>5 DEF AskingTimesOut, Connecting
  <2>2. link[r][k] = None
    BY <2>1 DEF OwnedInv, Stages
  <2>3. /\ dialing' = dialing \ {link[r][k]} /\ open' = open \ {link[r][k]}
        /\ stage[r][k] \in Busy
    BY <2>1, <2>2, HealthAssumption DEF OwnedInv, TypeInv, TypeOK, Busy
  <2> QED
    BY <2>1, <2>3, Released
<1>6. ASSUME NEW r \in Requests, TimesOut(r)
      PROVE  OwnedInv'
  BY <1>3, <1>5, <1>6, RaceLost DEF TimesOut
<1>7. ASSUME NEW r \in Requests, Respond(r)
      PROVE  OwnedInv'
  <2>1. /\ checks[r] # None /\ \A k \in checks[r] : stage[r][k] = "done"
        /\ checks' = [checks EXCEPT ![r] = None]
        /\ stage' = [stage EXCEPT ![r] = [k \in Kinds |-> "none"]]
        /\ UNCHANGED <<link, dialing, open, lost>>
    BY <1>7 DEF Respond
  <2>2. \A k \in Kinds : stage[r][k] \in {"done", "none"}
    BY <2>1 DEF OwnedInv, Stages
  <2>3. \A k \in Kinds : link[r][k] = None /\ stage'[r][k] = "none"
    BY <2>1, <2>2 DEF OwnedInv, Stages, Busy, TypeInv, TypeOK
  <2>4. \A q \in Requests \ {r} : stage'[q] = stage[q] /\ checks'[q] = checks[q]
    BY <2>1 DEF OwnedInv, TypeInv, TypeOK
  <2>5. Stages'
    BY <2>1, <2>3, <2>4 DEF OwnedInv, Stages, Busy
  <2>6. Holding'
    BY <2>1, <2>3, <2>4 DEF OwnedInv, Holding
  <2>7. Pools'
    BY <2>1 DEF OwnedInv, Pools, IsHeld
  <2> QED
    BY <1>0, <2>5, <2>6, <2>7 DEF OwnedInv
<1>8. ASSUME NEW c \in Conns, LateConnected(c) \/ LateNotConnected(c) \/ ServerDrops(c)
      PROVE  OwnedInv'
  <2>1. UNCHANGED <<checks, stage, link>>
    BY <1>8 DEF LateConnected, LateNotConnected, ServerDrops
  <2>2. /\ \A d \in dialing \ lost : d \in dialing' \ lost'
        /\ \A d \in open \ lost : d \in open' \ lost'
    BY <1>8 DEF LateConnected, LateNotConnected, ServerDrops, OwnedInv, Pools
  <2>3. Pools'
    BY <1>8, <2>1 DEF LateConnected, LateNotConnected, ServerDrops, OwnedInv, Pools, IsHeld
  <2> QED
    BY <1>0, <2>1, <2>2, <2>3, SameLinks DEF OwnedInv
<1>9. CASE UNCHANGED vars
  BY <1>0, <1>9 DEF vars, OwnedInv, Stages, Holding, Pools, IsHeld
<1>10. ASSUME NEW r \in Requests, NEW k \in Connecting, NotConnected(r, k)
       PROVE  OwnedInv'
  BY <1>3, <1>10 DEF Connecting
<1>11. ASSUME NEW r \in Requests, NatsClosed(r)
       PROVE  OwnedInv'
  BY <1>4, <1>11
<1> QED
  BY <1>1, <1>2, <1>4, <1>6, <1>7, <1>8, <1>9, <1>10, <1>11 DEF Next

\* For any number of requests and connections: an open connection is held by
\* exactly one check, which will close it, or by none if the NATS check that
\* dialed it had lost its race.
THEOREM ConnectionsAreOwned == Spec => []ConnectionsOwned
<1>1. Init => OwnedInv
  BY TypeInit DEF OwnedInv, Init, Stages, Holding, Pools, Busy
<1>2. ASSUME OwnedInv
      PROVE  ConnectionsOwned
  <2> SUFFICES ASSUME NEW c \in open
               PROVE  IF c \in lost THEN Holders(c) = {} ELSE Cardinality(Holders(c)) = 1
    BY DEF ConnectionsOwned
  <2>1. c # None
    BY <1>2, HealthAssumption DEF OwnedInv, TypeInv, TypeOK
  <2>2. CASE c \in lost
    BY <1>2, <2>1, <2>2 DEF OwnedInv, Holding, Holders
  <2>3. CASE c \notin lost
    <3>1. PICK r \in Requests, k \in Kinds : link[r][k] = c
      BY <1>2, <2>3 DEF OwnedInv, Pools, IsHeld
    <3>2. Holders(c) = {<<r, k>>}
      BY <1>2, <2>1, <3>1 DEF OwnedInv, Holding, Holders
    <3> QED
      BY <2>3, <3>2, FS_Singleton
  <2> QED
    BY <2>2, <2>3
<1> QED
  BY <1>1, <1>2, OwnedStep, PTL DEF Spec

=============================================================================
