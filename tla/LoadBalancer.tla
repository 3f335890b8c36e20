---------------------------- MODULE LoadBalancer ----------------------------
(***************************************************************************)
(* The load balancer of the proxy and the threads that share it:           *)
(*   - one client worker per connection, which selects a backend under     *)
(*     lb->lock and forwards its request to it without holding the lock    *)
(*     (ConnectToBackendAndForward);                                       *)
(*   - the health check thread, which probes one backend after the other   *)
(*     without the lock and then applies the verdict under it;             *)
(*   - replicator threads, which mark a backend unhealthy.  Here one may   *)
(*     do so at any time; module Replication says when they do.            *)
(* Each locked region is one action.  The backends are the environment:    *)
(* they are up, down, or hung (they accept connections and never answer).  *)
(***************************************************************************)
EXTENDS Integers, FiniteSets

CONSTANTS
  BackendCount,         \* lb->BackendCount, passed as uint8_t
  Workers,              \* the worker threads
  CanHang,              \* the backends that may stop answering
  FailureCountModulus   \* FailureCount is a uint8_t: 256 in the code

Backends == 0 .. BackendCount - 1

ASSUME BackendCountAssumption == BackendCount \in 0 .. 255
\* ActiveConnections is a uint16_t: as many threads as it counts cannot run.
ASSUME WorkersAssumption == IsFiniteSet(Workers) /\ Cardinality(Workers) < 65536
ASSUME CanHangAssumption == CanHang \subseteq Backends
ASSUME ModulusAssumption == FailureCountModulus \in Nat \ {0}

VARIABLES
  healthy, failureCount, activeConnections,  \* the fields of BackendNodes[b]
  rrIndex,                                   \* lb->rrIndex
  pc, backend,          \* of each worker: its position, its copy of the node
  hcPc, hcIndex, hcVerdict,   \* of the health check thread: i, Ishealthy
  server,               \* what each backend really does
  bypassed              \* history: selections of others since b was selected

lbVars == <<healthy, failureCount, activeConnections, rrIndex>>
workerVars == <<pc, backend>>
hcVars == <<hcPc, hcIndex, hcVerdict>>
vars == <<lbVars, workerVars, hcVars, server, bypassed>>

\* The node of all zeros returned when there is nobody to select. Its port is
\* 0, where nothing listens.
EmptyNode == BackendCount

TypeOK ==
  /\ healthy \in [Backends -> BOOLEAN]
  /\ failureCount \in [Backends -> 0 .. FailureCountModulus - 1]
  /\ activeConnections \in [Backends -> Nat]
  /\ rrIndex \in Backends \cup {0}
  /\ pc \in [Workers -> {"idle", "connecting", "sending", "reading"}]
  /\ backend \in [Workers -> Backends \cup {EmptyNode}]
  /\ hcPc \in {"sleeping", "probing", "reading", "applying"}
  /\ hcIndex \in Backends \cup {0}
  /\ hcPc # "sleeping" => hcIndex \in Backends
  /\ hcVerdict \in BOOLEAN
  /\ server \in [Backends -> {"up", "down", "hung"}]
  /\ bypassed \in [Backends -> Nat]

\* LoadBalancerCreate has probed every backend, one after the other: what it
\* saw of each may be outdated, or a probe that failed for another reason.
Init ==
  /\ server \in [Backends -> {"up", "down"}]
  /\ healthy \in [Backends -> BOOLEAN]
  /\ failureCount = [b \in Backends |-> 0]
  /\ activeConnections = [b \in Backends |-> 0]
  /\ rrIndex = 0
  /\ pc = [w \in Workers |-> "idle"]
  /\ backend = [w \in Workers |-> EmptyNode]
  /\ hcPc = "sleeping" /\ hcIndex = 0 /\ hcVerdict = FALSE
  /\ bypassed = [b \in Backends |-> 0]

-----------------------------------------------------------------------------
(* LoadBalancerSelectBackend *)

\* The backend probed by iteration i of the loop.
Candidate(i) == (rrIndex + i) % BackendCount

Fault_NextIndexStays(index) == index
Fault_NextIndexUnwrapped(index) == index + 1

\* The rrIndex that the selection of index leaves.
NextIndex(index) == (index + 1) % BackendCount

Fault_RestartsFromZero(index) ==
  healthy[index] /\ \A j \in 0 .. index - 1 : ~healthy[j]

\* index is the first healthy candidate.
IsFirstHealthy(index) ==
  \E i \in Backends : /\ index = Candidate(i)
                      /\ healthy[index]
                      /\ \A j \in 0 .. i - 1 : ~healthy[Candidate(j)]

SelectBackend(w) ==
  /\ pc[w] = "idle"
  /\ pc' = [pc EXCEPT ![w] = "connecting"]
  /\ \/ \E index \in Backends :
          /\ IsFirstHealthy(index)
          /\ rrIndex' = NextIndex(index)
          /\ backend' = [backend EXCEPT ![w] = index]
          /\ bypassed' = [c \in Backends |-> IF c = index \/ ~healthy[c]
                                             THEN 0 ELSE bypassed[c] + 1]
     \/ /\ \A b \in Backends : ~healthy[b]
        /\ backend' = [backend EXCEPT ![w] = EmptyNode]
        /\ UNCHANGED <<rrIndex, bypassed>>
  /\ UNCHANGED <<healthy, failureCount, activeConnections, hcVars, server>>

-----------------------------------------------------------------------------
(* The rest of ConnectToBackendAndForward *)

IncrementActiveConnections(b) ==
  activeConnections' = [activeConnections EXCEPT ![b] = @ + 1]

Fault_DecrementForgotten(b) == UNCHANGED activeConnections

DecrementActiveConnections(b) ==
  activeConnections' =
    [activeConnections EXCEPT ![b] = IF @ > 0 THEN @ - 1 ELSE @]

\* CreateClientSocket fails, because nobody listens, or not in time, or because
\* the process is out of descriptors: 502 to the client, the node stays healthy.
ConnectFails(w) ==
  /\ pc[w] = "connecting"
  /\ pc' = [pc EXCEPT ![w] = "idle"]
  /\ UNCHANGED <<lbVars, backend, hcVars, server, bypassed>>

ConnectSucceeds(w) ==
  /\ pc[w] = "connecting"
  /\ backend[w] \in Backends
  /\ server[backend[w]] # "down"
  /\ IncrementActiveConnections(backend[w])
  /\ pc' = [pc EXCEPT ![w] = "sending"]
  /\ UNCHANGED <<healthy, failureCount, rrIndex, backend, hcVars, server,
                 bypassed>>

\* A send may succeed into a connection that the backend has dropped, and fail
\* on one whose backend is back up.
SendSucceeds(w) ==
  /\ pc[w] = "sending"
  /\ pc' = [pc EXCEPT ![w] = "reading"]
  /\ UNCHANGED <<lbVars, backend, hcVars, server, bypassed>>

SendFails(w) ==
  /\ pc[w] = "sending"
  /\ DecrementActiveConnections(backend[w])
  /\ pc' = [pc EXCEPT ![w] = "idle"]
  /\ UNCHANGED <<healthy, failureCount, rrIndex, backend, hcVars, server,
                 bypassed>>

Fault_ReadEndsOnAnswer(b) == server[b] = "up"

\* ReadHTTPResponse is sure to return: the backend closes the connection after
\* its answer, or it is down. It sets no receive timeout.
ReadMustEnd(b) == server[b] # "hung"

\* The connection may also have broken earlier, whatever the backend does now.
ReadResponse(w) ==
  /\ pc[w] = "reading"
  /\ DecrementActiveConnections(backend[w])
  /\ pc' = [pc EXCEPT ![w] = "idle"]
  /\ UNCHANGED <<healthy, failureCount, rrIndex, backend, hcVars, server,
                 bypassed>>

-----------------------------------------------------------------------------
(* HealthCheckLoop and HealthCheckBackend *)

HealthWake ==
  /\ hcPc = "sleeping" /\ BackendCount > 0
  /\ hcPc' = "probing" /\ hcIndex' = 0
  /\ UNCHANGED <<lbVars, workerVars, hcVerdict, server, bypassed>>

\* HealthCheckBackend up to ReadHTTPResponse: the verdict is false when the
\* connection or the send fails, and they may although the backend is up.
HealthConnect ==
  /\ hcPc = "probing"
  /\ \/ /\ server[hcIndex] # "down"
        /\ hcPc' = "reading"
        /\ UNCHANGED hcVerdict
     \/ hcPc' = "applying" /\ hcVerdict' = FALSE
  /\ UNCHANGED <<lbVars, workerVars, hcIndex, server, bypassed>>

\* ReadHTTPResponse returns an answer: any status at all means healthy.
HealthRead ==
  /\ hcPc = "reading"
  /\ server[hcIndex] = "up"
  /\ hcPc' = "applying" /\ hcVerdict' = TRUE
  /\ UNCHANGED <<lbVars, workerVars, hcIndex, server, bypassed>>

Fault_CountNotReset(b, verdict) ==
  IF verdict THEN failureCount[b] ELSE (failureCount[b] + 1) % FailureCountModulus

FailureCountAfter(b, verdict) ==
  IF verdict THEN 0 ELSE (failureCount[b] + 1) % FailureCountModulus

Fault_SkipsLastBackend(i) == i + 2 < BackendCount

MoreToProbe(i) == i + 1 < BackendCount

\* The locked region of the loop, and the step to the next iteration.
ApplyVerdict ==
  /\ hcPc = "applying"
  /\ healthy' = [healthy EXCEPT ![hcIndex] = hcVerdict]
  /\ failureCount' =
       [failureCount EXCEPT ![hcIndex] = FailureCountAfter(hcIndex, hcVerdict)]
  /\ bypassed' = IF hcVerdict THEN bypassed
                               ELSE [bypassed EXCEPT ![hcIndex] = 0]
  /\ \/ /\ MoreToProbe(hcIndex)
        /\ hcPc' = "probing" /\ hcIndex' = hcIndex + 1
     \/ /\ ~MoreToProbe(hcIndex)
        /\ hcPc' = "sleeping" /\ UNCHANGED hcIndex
  /\ UNCHANGED <<activeConnections, rrIndex, workerVars, hcVerdict, server>>

-----------------------------------------------------------------------------
(* The end of replicatorWorker, and the environment *)

ReplicatorMarksUnhealthy(b) ==
  /\ healthy' = [healthy EXCEPT ![b] = FALSE]
  /\ failureCount' = [failureCount EXCEPT ![b] = FailureCountAfter(b, FALSE)]
  /\ bypassed' = [bypassed EXCEPT ![b] = 0]
  /\ UNCHANGED <<activeConnections, rrIndex, workerVars, hcVars, server>>

\* Going down ends the read of a probe without an answer: status 0.
ServerChanges(b) ==
  \E s \in {"up", "down"} \cup (IF b \in CanHang THEN {"hung"} ELSE {}) :
    /\ s # server[b]
    /\ server' = [server EXCEPT ![b] = s]
    /\ IF s = "down" /\ hcPc = "reading" /\ hcIndex = b
       THEN hcPc' = "applying" /\ hcVerdict' = FALSE
       ELSE UNCHANGED <<hcPc, hcVerdict>>
    /\ UNCHANGED <<lbVars, workerVars, hcIndex, bypassed>>

Forward(w) == \/ SelectBackend(w)
              \/ ConnectFails(w) \/ ConnectSucceeds(w)
              \/ SendFails(w) \/ SendSucceeds(w)
              \/ ReadResponse(w)

HealthCheck == HealthWake \/ HealthConnect \/ HealthRead \/ ApplyVerdict

Next == \/ \E w \in Workers : Forward(w)
        \/ HealthCheck
        \/ \E b \in Backends : ReplicatorMarksUnhealthy(b) \/ ServerChanges(b)

Spec == Init /\ [][Next]_vars

\* Threads are scheduled: a forward that can go on goes on, and so does the
\* health check. A new request is the client's choice. A backend that is up
\* does not refuse the connection of every probe.
Continue(w) == /\ pc[w] # "idle"
               /\ pc[w] = "reading" => ReadMustEnd(backend[w])
               /\ Forward(w)

ProbeReaches(b) == hcIndex = b /\ HealthConnect /\ hcPc' = "reading"

Fairness ==
  /\ \A w \in Workers : WF_vars(Continue(w))
  /\ WF_vars(HealthCheck)
  /\ \A b \in Backends : SF_vars(ProbeReaches(b))

FairSpec == Spec /\ Fairness

-----------------------------------------------------------------------------
(* Safety *)

\* The workers that hold an open connection to b.
Connected(b) == {w \in Workers : pc[w] \in {"sending", "reading"} /\ backend[w] = b}

\* ActiveConnections of a backend is the number of workers with an open
\* connection to it: on every path through ConnectToBackendAndForward each
\* increment has its decrement, and the guard "> 0" never hides a missing one.
ActiveMatchesForwards ==
  \A b \in Backends : activeConnections[b] = Cardinality(Connected(b))

\* A backend in rotation carries no failures: the counter is cleared by the
\* verdict that lets it back in, although two kinds of threads count failures.
HealthyHasNoFailures == \A b \in Backends : healthy[b] => failureCount[b] = 0

\* The abstract promise of the selection, implemented by the machine above.
Selection == INSTANCE FairSelection
SelectionIsFair == Selection!Spec

-----------------------------------------------------------------------------
(* Liveness *)

\* A backend that goes down for good leaves the rotation for good: a late
\* verdict of a probe that still saw it up is overwritten by the next round.
DownIsDetected ==
  \A b \in Backends : <>[](server[b] = "down") => <>[](~healthy[b])

\* A backend that is up for good is admitted again and again, however often
\* replicators mark it unhealthy.
UpIsReadmitted ==
  \A b \in Backends : <>[](server[b] = "up") => []<>(healthy[b])

\* Every forward ends, with an answer or with 502.
ForwardsEnd == \A w \in Workers : pc[w] # "idle" ~> pc[w] = "idle"

\* Every backend is probed again and again (the periodic health check).
PeriodicHealthCheck ==
  \A b \in Backends : []<>(hcPc = "applying" /\ hcIndex = b)
=============================================================================
