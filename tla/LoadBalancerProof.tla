------------------------- MODULE LoadBalancerProof -------------------------
(***************************************************************************)
(* Proofs about LoadBalancer for any number of backends and workers.       *)
(***************************************************************************)
EXTENDS LoadBalancer, FiniteSetTheorems, TLAPS

(* Types *)

\* An open connection leads to a configured backend, never to the empty node.
ConnectionsAreReal ==
  \A w \in Workers : pc[w] \in {"sending", "reading"} => backend[w] \in Backends

TypeInv == TypeOK /\ ConnectionsAreReal

\* The arithmetic of the rotation: candidates and next indexes are backends.
LEMMA RotationTypes ==
  ASSUME rrIndex \in Backends \cup {0}, NEW i \in Backends
  PROVE  /\ Candidate(i) = IF rrIndex + i < BackendCount
                           THEN rrIndex + i ELSE rrIndex + i - BackendCount
         /\ Candidate(i) \in Backends
         /\ NextIndex(i) = IF i + 1 < BackendCount THEN i + 1 ELSE 0
         /\ NextIndex(i) \in Backends
<1>1. BackendCount \in Nat \ {0} /\ rrIndex \in 0 .. BackendCount - 1
      /\ i \in 0 .. BackendCount - 1
  BY BackendCountAssumption DEF Backends
<1>2. Candidate(i) = IF rrIndex + i < BackendCount
                     THEN rrIndex + i ELSE rrIndex + i - BackendCount
  BY <1>1 DEF Candidate
<1>3. NextIndex(i) = IF i + 1 < BackendCount THEN i + 1 ELSE 0
  BY <1>1 DEF NextIndex
<1>4. QED BY <1>1, <1>2, <1>3 DEF Backends

LEMMA FailureCountType ==
  ASSUME TypeOK, NEW b \in Backends, NEW v \in BOOLEAN
  PROVE  FailureCountAfter(b, v) \in 0 .. FailureCountModulus - 1
<1>1. failureCount[b] \in Nat BY DEF TypeOK
<1>2. (failureCount[b] + 1) % FailureCountModulus \in 0 .. FailureCountModulus - 1
  BY <1>1, ModulusAssumption
<1>3. QED BY <1>2, ModulusAssumption DEF FailureCountAfter

\* TypeOK and the reality of the connections are inductive together.
THEOREM TypeCorrect == Spec => []TypeInv
<1>1. Init => TypeInv
  <2> SUFFICES ASSUME Init PROVE TypeInv OBVIOUS
  <2>1. healthy \in [Backends -> BOOLEAN] BY Zenon DEF Init
  <2>2. server \in [Backends -> {"up", "down", "hung"}] BY DEF Init
  <2>3. failureCount \in [Backends -> 0 .. FailureCountModulus - 1]
    BY ModulusAssumption DEF Init
  <2>4. backend \in [Workers -> Backends \cup {EmptyNode}] BY DEF Init
  <2>5. QED
    BY <2>1, <2>2, <2>3, <2>4 DEF Init, TypeInv, TypeOK, ConnectionsAreReal
<1>2. TypeInv /\ [Next]_vars => TypeInv'
  <2> SUFFICES ASSUME TypeInv, [Next]_vars PROVE TypeInv' OBVIOUS
  <2> USE DEF TypeInv, TypeOK, ConnectionsAreReal
  <2>1. ASSUME NEW w \in Workers, SelectBackend(w) PROVE TypeInv'
    <3>1. CASE \A b \in Backends : ~healthy[b]
      <4>1. /\ backend' = [backend EXCEPT ![w] = EmptyNode]
            /\ UNCHANGED <<rrIndex, bypassed>>
        BY <2>1, <3>1 DEF SelectBackend, IsFirstHealthy
      <4>2. QED BY <2>1, <4>1 DEF SelectBackend, EmptyNode, hcVars
    <3>2. CASE \E b \in Backends : healthy[b]
      <4>1. PICK index \in Backends :
                 /\ rrIndex' = NextIndex(index)
                 /\ backend' = [backend EXCEPT ![w] = index]
                 /\ bypassed' = [c \in Backends |-> IF c = index \/ ~healthy[c]
                                                    THEN 0 ELSE bypassed[c] + 1]
        BY <2>1, <3>2 DEF SelectBackend
      <4>2. rrIndex' \in Backends BY <4>1, RotationTypes
      <4>3. bypassed' \in [Backends -> Nat] BY <4>1
      <4>4. QED BY <2>1, <4>1, <4>2, <4>3 DEF SelectBackend, hcVars
    <3>3. QED BY <3>1, <3>2
  <2>2. ASSUME NEW w \in Workers, ConnectFails(w) PROVE TypeInv'
    BY <2>2 DEF ConnectFails, lbVars, hcVars
  <2>3. ASSUME NEW w \in Workers, ConnectSucceeds(w) PROVE TypeInv'
    BY <2>3 DEF ConnectSucceeds, IncrementActiveConnections, hcVars
  <2>4. ASSUME NEW w \in Workers, SendFails(w) PROVE TypeInv'
    BY <2>4 DEF SendFails, DecrementActiveConnections, hcVars
  <2>5. ASSUME NEW w \in Workers, SendSucceeds(w) PROVE TypeInv'
    BY <2>5 DEF SendSucceeds, lbVars, hcVars
  <2>6. ASSUME NEW w \in Workers, ReadResponse(w) PROVE TypeInv'
    BY <2>6 DEF ReadResponse, DecrementActiveConnections, hcVars
  <2>7. CASE HealthWake
    BY <2>7, BackendCountAssumption DEF HealthWake, Backends, lbVars, workerVars
  <2>8. CASE HealthConnect BY <2>8 DEF HealthConnect, lbVars, workerVars
  <2>9. CASE HealthRead BY <2>9 DEF HealthRead, lbVars, workerVars
  <2>10. CASE ApplyVerdict
    <3>1. hcIndex \in Backends /\ hcVerdict \in BOOLEAN BY <2>10 DEF ApplyVerdict
    <3>2. failureCount' \in [Backends -> 0 .. FailureCountModulus - 1]
      BY <2>10, <3>1, FailureCountType DEF ApplyVerdict
    <3>3. /\ hcIndex' \in Backends
          /\ hcPc' \in {"probing", "sleeping"}
      BY <2>10, <3>1, BackendCountAssumption DEF ApplyVerdict, MoreToProbe, Backends
    <3>4. QED BY <2>10, <3>1, <3>2, <3>3 DEF ApplyVerdict, workerVars
  <2>11. ASSUME NEW b \in Backends, ReplicatorMarksUnhealthy(b) PROVE TypeInv'
    <3>1. failureCount' \in [Backends -> 0 .. FailureCountModulus - 1]
      BY <2>11, FailureCountType DEF ReplicatorMarksUnhealthy
    <3>2. QED BY <2>11, <3>1 DEF ReplicatorMarksUnhealthy, workerVars, hcVars
  <2>12. ASSUME NEW b \in Backends, ServerChanges(b) PROVE TypeInv'
    BY <2>12 DEF ServerChanges, lbVars, workerVars
  <2>13. CASE UNCHANGED vars
    BY <2>13 DEF vars, lbVars, workerVars, hcVars
  <2>14. QED
    BY <2>1, <2>2, <2>3, <2>4, <2>5, <2>6, <2>7, <2>8, <2>9, <2>10, <2>11,
       <2>12, <2>13 DEF Next, Forward, HealthCheck
<1>3. QED BY <1>1, <1>2, PTL DEF Spec

\* The indices stay in their ranges and the counters in their widths, for any
\* number of backends and workers.
THEOREM TypesOfLoadBalancer == Spec => []TypeOK
<1>1. TypeInv => TypeOK BY DEF TypeInv
<1>2. QED BY <1>1, TypeCorrect, PTL

-----------------------------------------------------------------------------
(* The connection counters *)

LEMMA ConnectedIsFinite ==
  ASSUME NEW b
  PROVE  /\ IsFiniteSet(Connected(b))
         /\ Cardinality(Connected(b)) \in Nat
         /\ Cardinality(Connected(b)) <= Cardinality(Workers)
<1>1. Connected(b) \in SUBSET Workers BY DEF Connected
<1>2. QED BY <1>1, WorkersAssumption, FS_Subset, FS_CardinalityType

\* Opening a connection: the counter of its backend follows.
LEMMA ConnectionOpened ==
  ASSUME TypeInv, ActiveMatchesForwards, NEW w \in Workers,
         pc[w] = "connecting", backend[w] \in Backends,
         IncrementActiveConnections(backend[w]),
         pc' = [pc EXCEPT ![w] = "sending"], backend' = backend
  PROVE  ActiveMatchesForwards'
<1> SUFFICES ASSUME NEW b \in Backends
             PROVE  activeConnections'[b] = Cardinality(Connected(b)')
  BY DEF ActiveMatchesForwards
<1>1. activeConnections[b] = Cardinality(Connected(b)) BY DEF ActiveMatchesForwards
<1>2. CASE b = backend[w]
  <2>1. Connected(b)' = Connected(b) \cup {w}
    BY <1>2 DEF Connected, TypeInv, TypeOK
  <2>2. w \notin Connected(b) BY DEF Connected
  <2>3. activeConnections'[b] = activeConnections[b] + 1
    BY <1>2 DEF IncrementActiveConnections, TypeInv, TypeOK
  <2>4. QED BY <1>1, <2>1, <2>2, <2>3, ConnectedIsFinite, FS_AddElement
<1>3. CASE b # backend[w]
  <2>1. Connected(b)' = Connected(b)
    BY <1>3 DEF Connected, TypeInv, TypeOK
  <2>2. activeConnections'[b] = activeConnections[b]
    BY <1>3 DEF IncrementActiveConnections, TypeInv, TypeOK
  <2>3. QED BY <1>1, <2>1, <2>2
<1>4. QED BY <1>2, <1>3

\* Closing one: the counter is positive, so the guarded decrement happens.
LEMMA ConnectionClosed ==
  ASSUME TypeInv, ActiveMatchesForwards, NEW w \in Workers,
         pc[w] \in {"sending", "reading"},
         DecrementActiveConnections(backend[w]),
         pc' = [pc EXCEPT ![w] = "idle"], backend' = backend
  PROVE  ActiveMatchesForwards'
<1> SUFFICES ASSUME NEW b \in Backends
             PROVE  activeConnections'[b] = Cardinality(Connected(b)')
  BY DEF ActiveMatchesForwards
<1>1. activeConnections[b] = Cardinality(Connected(b)) BY DEF ActiveMatchesForwards
<1>2. CASE b = backend[w]
  <2>1. Connected(b)' = Connected(b) \ {w}
    BY <1>2 DEF Connected, TypeInv, TypeOK
  <2>2. w \in Connected(b) BY <1>2 DEF Connected
  <2>3. Cardinality(Connected(b)) # 0
    BY <2>2, ConnectedIsFinite, FS_EmptySet
  <2>4. activeConnections'[b] = activeConnections[b] - 1
    BY <1>1, <1>2, <2>3, ConnectedIsFinite
    DEF DecrementActiveConnections, TypeInv, TypeOK
  <2>5. QED BY <1>1, <2>1, <2>2, <2>4, ConnectedIsFinite, FS_RemoveElement
<1>3. CASE b # backend[w]
  <2>1. Connected(b)' = Connected(b)
    BY <1>3 DEF Connected, TypeInv, TypeOK
  <2>2. activeConnections'[b] = activeConnections[b]
    BY <1>3 DEF DecrementActiveConnections, TypeInv, TypeOK
  <2>3. QED BY <1>1, <2>1, <2>2
<1>4. QED BY <1>2, <1>3

\* Any other step: the same workers are connected to the same backends.
LEMMA ConnectionsUntouched ==
  ASSUME ActiveMatchesForwards, UNCHANGED activeConnections,
         \A b \in Backends : Connected(b)' = Connected(b)
  PROVE  ActiveMatchesForwards'
BY DEF ActiveMatchesForwards

\* ActiveConnections counts the open connections, on every path of
\* ConnectToBackendAndForward and whatever the other threads do.
THEOREM ActiveConnectionsCorrect == Spec => []ActiveMatchesForwards
<1>1. Init => ActiveMatchesForwards
  <2> SUFFICES ASSUME Init, NEW b \in Backends
               PROVE  activeConnections[b] = Cardinality(Connected(b))
    BY DEF ActiveMatchesForwards
  <2>1. Connected(b) = {} BY DEF Init, Connected
  <2>2. QED BY <2>1, FS_EmptySet DEF Init
<1>2. TypeInv /\ ActiveMatchesForwards /\ [Next]_vars => ActiveMatchesForwards'
  <2> SUFFICES ASSUME TypeInv, ActiveMatchesForwards, [Next]_vars
               PROVE  ActiveMatchesForwards'
    OBVIOUS
  <2>1. ASSUME NEW w \in Workers, SelectBackend(w) PROVE ActiveMatchesForwards'
    <3>1. ASSUME NEW b \in Backends PROVE Connected(b)' = Connected(b)
      BY <2>1 DEF SelectBackend, Connected, TypeInv, TypeOK
    <3>2. QED BY <2>1, <3>1, ConnectionsUntouched DEF SelectBackend
  <2>2. ASSUME NEW w \in Workers, ConnectFails(w) PROVE ActiveMatchesForwards'
    <3>1. ASSUME NEW b \in Backends PROVE Connected(b)' = Connected(b)
      BY <2>2 DEF ConnectFails, Connected, TypeInv, TypeOK
    <3>2. QED BY <2>2, <3>1, ConnectionsUntouched DEF ConnectFails, lbVars
  <2>3. ASSUME NEW w \in Workers, ConnectSucceeds(w) PROVE ActiveMatchesForwards'
    BY <2>3, ConnectionOpened DEF ConnectSucceeds
  <2>4. ASSUME NEW w \in Workers, SendFails(w) PROVE ActiveMatchesForwards'
    BY <2>4, ConnectionClosed DEF SendFails
  <2>5. ASSUME NEW w \in Workers, SendSucceeds(w) PROVE ActiveMatchesForwards'
    <3>1. ASSUME NEW b \in Backends PROVE Connected(b)' = Connected(b)
      BY <2>5 DEF SendSucceeds, Connected, TypeInv, TypeOK
    <3>2. QED BY <2>5, <3>1, ConnectionsUntouched DEF SendSucceeds, lbVars
  <2>6. ASSUME NEW w \in Workers, ReadResponse(w) PROVE ActiveMatchesForwards'
    BY <2>6, ConnectionClosed DEF ReadResponse
  <2>7. ASSUME \/ HealthCheck
               \/ \E b \in Backends : ReplicatorMarksUnhealthy(b) \/ ServerChanges(b)
               \/ UNCHANGED vars
        PROVE  ActiveMatchesForwards'
    <3>1. UNCHANGED activeConnections /\ UNCHANGED workerVars
      BY <2>7 DEF HealthCheck, HealthWake, HealthConnect, HealthRead, ApplyVerdict,
                  ReplicatorMarksUnhealthy, ServerChanges, lbVars, vars
    <3>2. ASSUME NEW b \in Backends PROVE Connected(b)' = Connected(b)
      BY <3>1 DEF Connected, workerVars
    <3>3. QED BY <3>1, <3>2, ConnectionsUntouched
  <2>8. QED
    BY <2>1, <2>2, <2>3, <2>4, <2>5, <2>6, <2>7 DEF Next, Forward
<1>3. QED BY <1>1, <1>2, TypeCorrect, PTL DEF Spec

\* The uint16_t that holds the counter never wraps: the model may count in Nat.
ConnectionsFitTheirWidth == \A b \in Backends : activeConnections[b] < 65536

THEOREM ConnectionsNeverWrap == Spec => []ConnectionsFitTheirWidth
<1>1. ActiveMatchesForwards => ConnectionsFitTheirWidth
  BY ConnectedIsFinite, WorkersAssumption, FS_CardinalityType
  DEF ActiveMatchesForwards, ConnectionsFitTheirWidth
<1>2. QED BY <1>1, ActiveConnectionsCorrect, PTL

-----------------------------------------------------------------------------
(* The rotation *)

\* The iteration of the selection loop that looks at b.
Distance(b) == IF rrIndex <= b THEN b - rrIndex ELSE b - rrIndex + BackendCount

\* Why nobody waits long: each time b is passed over, rrIndex comes closer to it.
RotationInv ==
  \A b \in Backends :
    /\ healthy[b] => bypassed[b] + Distance(b) <= BackendCount - 1
    /\ ~healthy[b] => bypassed[b] = 0

LEMMA DistanceType ==
  ASSUME rrIndex \in Backends \cup {0}, NEW b \in Backends
  PROVE  /\ Distance(b) \in Backends
         /\ Candidate(Distance(b)) = b
         /\ \A i \in Backends : Candidate(i) = b => i = Distance(b)
<1>1. Distance(b) \in Backends
  BY BackendCountAssumption DEF Distance, Backends
<1>2. Candidate(Distance(b)) = b
  BY <1>1, RotationTypes, BackendCountAssumption DEF Distance, Backends
<1>3. ASSUME NEW i \in Backends, Candidate(i) = b PROVE i = Distance(b)
  BY <1>3, RotationTypes, BackendCountAssumption DEF Distance, Backends
<1>4. QED BY <1>1, <1>2, <1>3

\* The selected backend is the nearest healthy one.
LEMMA SelectsNearest ==
  ASSUME TypeOK, NEW index \in Backends, IsFirstHealthy(index)
  PROVE  /\ healthy[index]
         /\ \A c \in Backends \ {index} : healthy[c] => Distance(index) < Distance(c)
<1>1. rrIndex \in Backends \cup {0} BY DEF TypeOK
<1>2. PICK i \in Backends : /\ index = Candidate(i)
                            /\ healthy[index]
                            /\ \A j \in 0 .. i - 1 : ~healthy[Candidate(j)]
  BY DEF IsFirstHealthy
<1>3. i = Distance(index) BY <1>1, <1>2, DistanceType
<1>4. ASSUME NEW c \in Backends, c # index, healthy[c]
      PROVE  Distance(index) < Distance(c)
  <2>1. Candidate(Distance(c)) = c /\ Distance(c) \in Backends
    BY <1>1, DistanceType
  <2>2. Distance(c) \notin 0 .. i - 1 BY <1>2, <1>4, <2>1
  <2>3. Distance(c) # i BY <1>2, <1>4, <2>1
  <2>4. QED BY <1>3, <2>1, <2>2, <2>3, BackendCountAssumption DEF Backends
<1>5. QED BY <1>2, <1>4

\* Where the others stand after the selection of index.
LEMMA DistanceAfterSelection ==
  ASSUME rrIndex \in Backends \cup {0}, NEW index \in Backends,
         rrIndex' = NextIndex(index), NEW c \in Backends
  PROVE  /\ Distance(c)' \in Backends
         /\ Distance(index) < Distance(c) =>
              Distance(c)' = Distance(c) - Distance(index) - 1
<1>1. rrIndex' = IF index + 1 < BackendCount THEN index + 1 ELSE 0
  BY RotationTypes
<1>2. rrIndex' \in Backends BY RotationTypes
<1>3. Distance(c)' = IF rrIndex' <= c THEN c - rrIndex' ELSE c - rrIndex' + BackendCount
  BY DEF Distance
<1>4. Distance(c)' \in Backends
  BY <1>2, <1>3, BackendCountAssumption DEF Backends
<1>5. ASSUME Distance(index) < Distance(c)
      PROVE  Distance(c)' = Distance(c) - Distance(index) - 1
  BY <1>1, <1>3, <1>5, BackendCountAssumption DEF Distance, Backends
<1>6. QED BY <1>4, <1>5

\* A selection keeps the invariant, and is a Pick of the abstract specification.
LEMMA SelectionStep ==
  ASSUME TypeOK, RotationInv, NEW w \in Workers, SelectBackend(w)
  PROVE  RotationInv' /\ [Selection!Next]_(Selection!vars)
<1>1. CASE \A b \in Backends : ~healthy[b]
  <2>1. UNCHANGED <<rrIndex, bypassed, healthy>>
    BY <1>1 DEF SelectBackend, IsFirstHealthy
  <2>2. QED BY <2>1 DEF RotationInv, Distance, Selection!vars
<1>2. CASE \E b \in Backends : healthy[b]
  <2>1. PICK index \in Backends :
          /\ IsFirstHealthy(index)
          /\ rrIndex' = NextIndex(index)
          /\ bypassed' = [c \in Backends |-> IF c = index \/ ~healthy[c]
                                             THEN 0 ELSE bypassed[c] + 1]
    BY <1>2 DEF SelectBackend
  <2>2. UNCHANGED healthy BY DEF SelectBackend
  <2>3. rrIndex \in Backends \cup {0} /\ bypassed \in [Backends -> Nat]
    BY DEF TypeOK
  <2>4. Distance(index) \in Backends BY <2>3, DistanceType
  <2>5. healthy[index] BY <2>1, SelectsNearest
  <2>6. ASSUME NEW c \in Backends, c # index, healthy[c]
        PROVE  /\ bypassed[c] < BackendCount - 1
               /\ bypassed'[c] + Distance(c)' <= BackendCount - 1
    <3>1. Distance(index) < Distance(c) /\ Distance(c) \in Backends
      BY <2>1, <2>3, <2>6, SelectsNearest, DistanceType
    <3>2. Distance(c)' = Distance(c) - Distance(index) - 1
      BY <2>1, <2>3, <3>1, DistanceAfterSelection
    <3>3. bypassed[c] + Distance(c) <= BackendCount - 1 /\ bypassed[c] \in Nat
      BY <2>3, <2>6 DEF RotationInv
    <3>4. bypassed'[c] = bypassed[c] + 1 BY <2>1, <2>6
    <3>5. QED
      BY <2>4, <3>1, <3>2, <3>3, <3>4, BackendCountAssumption DEF Backends
  <2>7. RotationInv'
    <3> SUFFICES ASSUME NEW c \in Backends
                 PROVE  /\ healthy'[c] => bypassed'[c] + Distance(c)' <= BackendCount - 1
                        /\ ~healthy'[c] => bypassed'[c] = 0
      BY DEF RotationInv
    <3>1. CASE c = index
      <4>1. bypassed'[c] = 0 BY <2>1, <3>1
      <4>2. Distance(c)' \in Backends BY <2>1, <2>3, DistanceAfterSelection
      <4>3. QED BY <2>2, <2>5, <3>1, <4>1, <4>2, BackendCountAssumption DEF Backends
    <3>2. CASE c # index /\ healthy[c] BY <2>2, <2>6, <3>2
    <3>3. CASE c # index /\ ~healthy[c] BY <2>1, <2>2, <3>3
    <3>4. QED BY <3>1, <3>2, <3>3
  <2>8. Selection!Pick(index)
    BY <2>1, <2>2, <2>5, <2>6
    DEF Selection!Pick, Selection!BypassedAfter, Selection!Backends, Backends
  <2>9. QED BY <2>7, <2>8 DEF Selection!Next, Selection!Backends, Backends
<1>3. QED BY <1>1, <1>2

\* A revision of the belief about b keeps it, and is a SetHealth.
LEMMA HealthStep ==
  ASSUME TypeOK, RotationInv, NEW b \in Backends, NEW h \in BOOLEAN,
         healthy' = [healthy EXCEPT ![b] = h],
         bypassed' = (IF h THEN bypassed ELSE [bypassed EXCEPT ![b] = 0]),
         UNCHANGED rrIndex
  PROVE  RotationInv' /\ [Selection!Next]_(Selection!vars)
<1>1. Selection!SetHealth(b, h) BY DEF Selection!SetHealth
<1>2. RotationInv'
  <2> SUFFICES ASSUME NEW c \in Backends
               PROVE  /\ healthy'[c] => bypassed'[c] + Distance(c)' <= BackendCount - 1
                      /\ ~healthy'[c] => bypassed'[c] = 0
    BY DEF RotationInv
  <2>1. Distance(c)' = Distance(c) /\ Distance(c) \in Backends
    BY DistanceType DEF Distance, TypeOK
  <2>2. bypassed[c] = 0 => bypassed[c] + Distance(c) <= BackendCount - 1
    BY <2>1, BackendCountAssumption DEF Backends
  <2>3. /\ healthy[c] => bypassed[c] + Distance(c) <= BackendCount - 1
        /\ ~healthy[c] => bypassed[c] = 0
    BY DEF RotationInv
  <2>4. CASE c = b /\ h
    <3>1. bypassed'[c] = bypassed[c] /\ healthy'[c] BY <2>4 DEF TypeOK
    <3>2. QED BY <2>1, <2>2, <2>3, <3>1
  <2>5. CASE c = b /\ ~h
    <3>1. bypassed'[c] = 0 /\ ~healthy'[c] BY <2>5 DEF TypeOK
    <3>2. QED BY <3>1
  <2>6. CASE c # b
    <3>1. bypassed'[c] = bypassed[c] /\ healthy'[c] = healthy[c]
      BY <2>6 DEF TypeOK
    <3>2. QED BY <2>1, <2>3, <3>1
  <2>7. QED BY <2>4, <2>5, <2>6
<1>3. QED BY <1>1, <1>2 DEF Selection!Next, Selection!Backends, Backends

\* Every step keeps the invariant and maps to a step of the abstract
\* specification or to a stutter.
LEMMA RotationStep ==
  ASSUME TypeInv, RotationInv, [Next]_vars
  PROVE  RotationInv' /\ [Selection!Next]_(Selection!vars)
<1>0. TypeOK BY DEF TypeInv
<1>1. ASSUME NEW w \in Workers, SelectBackend(w)
      PROVE  RotationInv' /\ [Selection!Next]_(Selection!vars)
  BY <1>0, <1>1, SelectionStep
<1>2. CASE ApplyVerdict
  <2>1. hcIndex \in Backends /\ hcVerdict \in BOOLEAN
    BY <1>0, <1>2 DEF ApplyVerdict, TypeOK
  <2>2. QED BY <1>0, <1>2, <2>1, HealthStep DEF ApplyVerdict
<1>3. ASSUME NEW b \in Backends, ReplicatorMarksUnhealthy(b)
      PROVE  RotationInv' /\ [Selection!Next]_(Selection!vars)
  BY <1>0, <1>3, HealthStep DEF ReplicatorMarksUnhealthy
<1>4. ASSUME UNCHANGED <<rrIndex, healthy, bypassed>>
      PROVE  RotationInv' /\ [Selection!Next]_(Selection!vars)
  BY <1>4 DEF RotationInv, Distance, Selection!vars
<1>5. ASSUME NEW w \in Workers, Forward(w), ~SelectBackend(w)
      PROVE  UNCHANGED <<rrIndex, healthy, bypassed>>
  BY <1>5 DEF Forward, ConnectFails, ConnectSucceeds, SendFails, SendSucceeds,
              ReadResponse, lbVars
<1>6. ASSUME \/ HealthWake \/ HealthConnect \/ HealthRead
             \/ \E b \in Backends : ServerChanges(b)
             \/ UNCHANGED vars
      PROVE  UNCHANGED <<rrIndex, healthy, bypassed>>
  BY <1>6 DEF HealthWake, HealthConnect, HealthRead, ServerChanges, lbVars, vars
<1>7. QED
  BY <1>1, <1>2, <1>3, <1>4, <1>5, <1>6 DEF Next, HealthCheck

LEMMA RotationInit == Init => RotationInv /\ Selection!Init
<1> SUFFICES ASSUME Init PROVE RotationInv /\ Selection!Init OBVIOUS
<1>1. Selection!Init
  <2>1. healthy \in [Backends -> BOOLEAN] BY Zenon DEF Init
  <2>2. QED BY <2>1 DEF Init, Selection!Init, Selection!Backends, Backends
<1>2. ASSUME NEW b \in Backends
      PROVE  bypassed[b] = 0 /\ Distance(b) <= BackendCount - 1
  <2>1. Distance(b) \in Backends BY DistanceType DEF Init
  <2>2. QED BY <2>1, BackendCountAssumption DEF Init, Backends
<1>3. ASSUME NEW b \in Backends
      PROVE  bypassed[b] + Distance(b) <= BackendCount - 1
  <2>1. Distance(b) \in Backends BY DistanceType DEF Init
  <2>2. QED BY <1>2, <2>1, BackendCountAssumption DEF Backends
<1>4. QED BY <1>1, <1>2, <1>3 DEF RotationInv

THEOREM RotationInvariant == Spec => []RotationInv
<1>1. TypeInv /\ RotationInv /\ [Next]_vars => RotationInv' BY RotationStep
<1>2. QED BY <1>1, RotationInit, TypeCorrect, PTL DEF Spec

\* A backend that stays healthy is passed over fewer than BackendCount times
\* in a row, whatever the health checks and the replicators do to the others.
BoundedBypass ==
  \A b \in Backends : BackendCount > 0 => bypassed[b] <= BackendCount - 1

\* The bound that FairSelection implies, by itself.
THEOREM BypassIsBounded == Spec => []BoundedBypass
<1>1. TypeInv /\ RotationInv => BoundedBypass
  <2> SUFFICES ASSUME TypeOK, RotationInv, NEW b \in Backends
               PROVE  bypassed[b] <= BackendCount - 1
    BY DEF BoundedBypass, TypeInv
  <2>1. bypassed[b] \in Nat /\ Distance(b) \in Backends
    BY DistanceType DEF TypeOK
  <2>2. CASE healthy[b]
    <3>1. bypassed[b] + Distance(b) <= BackendCount - 1 BY <2>2 DEF RotationInv
    <3>2. QED BY <2>1, <3>1, BackendCountAssumption DEF Backends
  <2>3. CASE ~healthy[b]
    <3>1. bypassed[b] = 0 BY <2>3 DEF RotationInv
    <3>2. QED BY <3>1, BackendCountAssumption DEF Backends
  <2>4. QED BY <2>2, <2>3
<1>2. QED BY <1>1, RotationInvariant, TypeCorrect, PTL

\* The load balancer implements the fair selection.
THEOREM ImplementsFairSelection == Spec => SelectionIsFair
<1>1. TypeInv /\ RotationInv /\ [Next]_vars => [Selection!Next]_(Selection!vars)
  BY RotationStep
<1>2. Init => Selection!Init BY RotationInit
<1>3. QED
  BY <1>1, <1>2, RotationInvariant, TypeCorrect, PTL
  DEF Spec, SelectionIsFair, Selection!Spec

-----------------------------------------------------------------------------
(* The failure counters *)

\* Whoever lets a backend back into the rotation clears its failures.
THEOREM HealthyBackendsAreClean == Spec => []HealthyHasNoFailures
<1>1. Init => HealthyHasNoFailures BY DEF Init, HealthyHasNoFailures
<1>2. TypeInv /\ HealthyHasNoFailures /\ [Next]_vars => HealthyHasNoFailures'
  <2> SUFFICES ASSUME TypeInv, HealthyHasNoFailures, [Next]_vars, NEW c \in Backends,
                      healthy'[c]
               PROVE  failureCount'[c] = 0
    BY DEF HealthyHasNoFailures
  <2> USE DEF TypeInv, TypeOK
  <2>1. CASE ApplyVerdict
    <3>1. CASE c = hcIndex
      BY <2>1, <3>1 DEF ApplyVerdict, FailureCountAfter
    <3>2. CASE c # hcIndex
      BY <2>1, <3>2 DEF ApplyVerdict, HealthyHasNoFailures
    <3>3. QED BY <3>1, <3>2
  <2>2. ASSUME NEW b \in Backends, ReplicatorMarksUnhealthy(b)
        PROVE  failureCount'[c] = 0
    <3>1. c # b BY <2>2 DEF ReplicatorMarksUnhealthy
    <3>2. QED BY <2>2, <3>1 DEF ReplicatorMarksUnhealthy, HealthyHasNoFailures
  <2>3. ASSUME UNCHANGED <<healthy, failureCount>> PROVE failureCount'[c] = 0
    BY <2>3 DEF HealthyHasNoFailures
  <2>4. QED
    BY <2>1, <2>2, <2>3
    DEF Next, Forward, HealthCheck, SelectBackend, ConnectFails, ConnectSucceeds,
        SendFails, SendSucceeds, ReadResponse, HealthWake, HealthConnect,
        HealthRead, ServerChanges, lbVars, vars
<1>3. QED BY <1>1, <1>2, TypeCorrect, PTL DEF Spec
=============================================================================
