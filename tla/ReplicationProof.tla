-------------------------- MODULE ReplicationProof --------------------------
(***************************************************************************)
(* Proofs about Replication for any number of backends, POSTs and attempts *)
(* and any mix of failures.                                                *)
(***************************************************************************)
EXTENDS Replication, NaturalOrder, SequenceTheorems, TLAPS

-----------------------------------------------------------------------------
(* Types, and how far the loop and the threads have come *)

ForwardInv(p) ==
  /\ forward[p].pc \in {"waiting", "replicating"} => forward[p].origin \in Backends
  /\ forward[p].pc \in {"new", "waiting"} => forward[p].next = 0

\* A thread exists only for a backend that the loop has passed, and never for
\* the origin; one that may still try has an attempt left.
CopyInv(p, b) ==
  /\ copy[p][b].pc # "none" =>
       /\ forward[p].pc = "replicating" /\ b # forward[p].origin
       /\ forward[p].next > b
  /\ copy[p][b].pc = "none" => copy[p][b].attempts = 0
  /\ copy[p][b].pc = "trying" => copy[p][b].attempts < MaxAttempts
  /\ copy[p][b].pc \in {"waiting", "done"} => copy[p][b].attempts > 0

LoopInv == \A p \in Posts : ForwardInv(p) /\ \A b \in Backends : CopyInv(p, b)
TypeInv == TypeOK /\ LoopInv

LEMMA AttemptType ==
  ASSUME NEW p \in Posts, NEW b \in Backends, NEW n \in 0 .. MaxAttempts
  PROVE  /\ Attempt(p, b, n) \in Attempts
         /\ Attempt(p, b, n).post = p /\ Attempt(p, b, n).to = b
         /\ Attempt(p, b, n).number = n
BY DEF Attempt, Attempts

LEMMA AttemptIsItsParts ==
  ASSUME NEW a \in Attempts
  PROVE  a = Attempt(a.post, a.to, a.number)
BY DEF Attempt, Attempts

LEMMA ForwardParts ==
  ASSUME NEW f \in Forwards, NEW pc
  PROVE  /\ f.pc \in {"new", "waiting", "replicating", "ended"}
         /\ f.origin \in Backends \cup {Nowhere} /\ f.next \in 0 .. BackendCount
         /\ [f EXCEPT !.pc = pc] = [pc |-> pc, origin |-> f.origin, next |-> f.next]
BY DEF Forwards

LEMMA CopyParts ==
  ASSUME NEW c \in Copies, NEW pc
  PROVE  /\ c.pc \in {"none", "trying", "waiting", "marking", "done", "failed", "lost"}
         /\ c.attempts \in 0 .. MaxAttempts
         /\ [c EXCEPT !.pc = pc] = [pc |-> pc, attempts |-> c.attempts]
BY DEF Copies, Active

\* What a step of the thread of p for b leaves alone, and what it has to show.
LEMMA ThreadStep ==
  ASSUME TypeInv, NEW p \in Posts, NEW b \in Backends, forward' = forward,
         NEW pc \in {"trying", "waiting", "marking", "done", "failed"},
         NEW n \in 0 .. MaxAttempts,
         copy[p][b].pc # "none",
         copy' = [copy EXCEPT ![p][b] = [pc |-> pc, attempts |-> n]],
         pc = "trying" => n < MaxAttempts,
         pc \in {"waiting", "done"} => n > 0
  PROVE  /\ copy' \in [Posts -> [Backends -> Copies]]
         /\ LoopInv'
<1>0. copy \in [Posts -> [Backends -> Copies]] BY DEF TypeInv, TypeOK
<1>1. copy'[p][b] = [pc |-> pc, attempts |-> n] BY <1>0
<1>2. \A q \in Posts, c \in Backends : ~(q = p /\ c = b) => copy'[q][c] = copy[q][c]
  BY <1>0
<1>3. ASSUME NEW q \in Posts, NEW c \in Backends PROVE CopyInv(q, c)'
  <2>1. CASE q = p /\ c = b
    <3>1. q = p /\ c = b BY <2>1
    <3>2. QED BY <1>1, <3>1 DEF TypeInv, LoopInv, CopyInv
  <2>2. CASE ~(q = p /\ c = b)
    BY <1>2, <2>2 DEF TypeInv, LoopInv, CopyInv
  <2>3. QED BY <2>1, <2>2
<1>4. \A q \in Posts : ForwardInv(q)' BY DEF TypeInv, LoopInv, ForwardInv
<1>5. [pc |-> pc, attempts |-> n] \in Copies BY DEF Copies, Active
<1>6. copy' \in [Posts -> [Backends -> Copies]] BY <1>0, <1>5
<1>7. QED BY <1>3, <1>4, <1>6 DEF LoopInv

LEMMA AfterFailureType ==
  ASSUME NEW n \in 0 .. MaxAttempts
  PROVE  /\ AfterFailure(n) \in {"trying", "marking"}
         /\ AfterFailure(n) = "trying" => n < MaxAttempts
BY ReplicationConstants DEF AfterFailure, MayRetry

\* What a step of the worker of p leaves alone, and what it has to show.
LEMMA WorkerStep ==
  ASSUME TypeInv, NEW p \in Posts, copy' = copy,
         NEW f \in Forwards,
         forward' = [forward EXCEPT ![p] = f],
         f.pc \in {"waiting", "replicating"} => f.origin \in Backends,
         f.pc \in {"new", "waiting"} => f.next = 0,
         forward[p].pc # "replicating"
  PROVE  /\ forward' \in [Posts -> Forwards]
         /\ LoopInv'
<1>1. forward'[p] = f /\ \A q \in Posts : q # p => forward'[q] = forward[q]
  BY DEF TypeInv, TypeOK
<1>2. \A q \in Posts : ForwardInv(q)' BY <1>1 DEF TypeInv, LoopInv, ForwardInv
<1>3. \A b \in Backends : copy[p][b].pc = "none" BY DEF TypeInv, LoopInv, CopyInv
<1>4. \A q \in Posts, c \in Backends : CopyInv(q, c)'
  BY <1>1, <1>3 DEF TypeInv, LoopInv, CopyInv
<1>5. QED BY <1>2, <1>4 DEF LoopInv, TypeInv, TypeOK

\* What the death of the proxy leaves.
LEMMA Deaths ==
  ASSUME TypeInv, ProxyDies
  PROVE  /\ forward' \in [Posts -> Forwards] /\ copy' \in [Posts -> [Backends -> Copies]]
         /\ \A p \in Posts :
              /\ forward'[p].origin = forward[p].origin
              /\ forward'[p].pc = "new" <=> forward[p].pc = "new"
              /\ forward'[p].pc # "waiting"
              /\ forward'[p].pc = "replicating" <=> forward[p].pc = "replicating"
              /\ forward[p].pc = "replicating" => forward'[p].next = BackendCount
              /\ forward[p].pc # "replicating" => forward'[p].next = forward[p].next
         /\ \A p \in Posts, b \in Backends :
              /\ copy'[p][b].attempts = copy[p][b].attempts
              /\ copy[p][b].pc \notin Active => copy'[p][b] = copy[p][b]
              /\ copy[p][b].pc \in Active => copy'[p][b].pc = "lost"
<1>a. forward \in [Posts -> Forwards] /\ copy \in [Posts -> [Backends -> Copies]]
  BY DEF TypeInv, TypeOK
<1>1. ASSUME NEW p \in Posts
      PROVE  /\ forward'[p] \in Forwards
             /\ forward'[p].origin = forward[p].origin
             /\ forward'[p].pc = "new" <=> forward[p].pc = "new"
             /\ forward'[p].pc # "waiting"
             /\ forward'[p].pc = "replicating" <=> forward[p].pc = "replicating"
             /\ forward[p].pc = "replicating" => forward'[p].next = BackendCount
             /\ forward[p].pc # "replicating" => forward'[p].next = forward[p].next
  <2> DEFINE f == forward[p]
  <2>1. forward'[p] = CASE f.pc = "waiting" -> [f EXCEPT !.pc = "ended"]
                        [] f.pc = "replicating" -> [f EXCEPT !.next = BackendCount]
                        [] OTHER -> f
    BY DEF ProxyDies
  <2>2. f \in Forwards BY <1>a
  <2> HIDE DEF f
  <2>3. BackendCount \in 0 .. BackendCount BY ReplicationConstants
  <2>4. CASE f.pc = "waiting" BY <2>1, <2>2, <2>4 DEF Forwards, f
  <2>5. CASE f.pc = "replicating" BY <2>1, <2>2, <2>3, <2>5 DEF Forwards, f
  <2>6. CASE f.pc \notin {"waiting", "replicating"} BY <2>1, <2>2, <2>6 DEF Forwards, f
  <2>7. QED BY <2>4, <2>5, <2>6
<1>2. ASSUME NEW p \in Posts, NEW b \in Backends
      PROVE  /\ copy'[p][b] \in Copies
             /\ copy'[p][b].attempts = copy[p][b].attempts
             /\ copy[p][b].pc \notin Active => copy'[p][b] = copy[p][b]
             /\ copy[p][b].pc \in Active => copy'[p][b].pc = "lost"
  <2>1. copy'[p][b] = IF copy[p][b].pc \in Active THEN [copy[p][b] EXCEPT !.pc = "lost"]
                      ELSE copy[p][b]
    BY DEF ProxyDies
  <2>2. copy[p][b] \in Copies BY <1>a
  <2>3. QED BY <2>1, <2>2 DEF Copies
<1>3. forward' \in [Posts -> Forwards] BY <1>1 DEF ProxyDies
<1>4. copy' \in [Posts -> [Backends -> Copies]] BY <1>2 DEF ProxyDies
<1>5. QED BY <1>1, <1>2, <1>3, <1>4

THEOREM TypeInvariant == Spec => []TypeInv
<1>1. Init => TypeInv
  BY ReplicationConstants
  DEF Init, TypeInv, TypeOK, LoopInv, ForwardInv, CopyInv, Backends, Nowhere,
      Forwards, Copies, Active
<1>2. TypeInv /\ [Next]_vars => TypeInv'
  <2> SUFFICES ASSUME TypeInv, [Next]_vars PROVE TypeInv' OBVIOUS
  <2>a. TypeOK /\ LoopInv BY DEF TypeInv
  <2>b. \A p \in Posts :
          /\ forward[p] \in Forwards
          /\ ForwardInv(p)
    BY <2>a DEF TypeOK, LoopInv
  <2>c. \A p \in Posts, b \in Backends :
          /\ copy[p][b] \in Copies
          /\ CopyInv(p, b)
    BY <2>a DEF TypeOK, LoopInv
  <2>1. ASSUME NEW p \in Posts, NEW b \in Backends, ForwardSend(p, b) PROVE TypeInv'
    <3> DEFINE f == [pc |-> "waiting", origin |-> b, next |-> 0]
    <3>1. forward' = [forward EXCEPT ![p] = f] BY <2>1 DEF ForwardSend
    <3>2. f.next = 0 /\ forward[p].pc = "new" BY <2>1 DEF ForwardSend
    <3>3. Attempt(p, b, 0) \in Attempts BY ReplicationConstants, AttemptType
    <3>4. UNCHANGED copy BY <2>1 DEF ForwardSend
    <3>5. f \in Forwards BY ReplicationConstants DEF Forwards
    <3> HIDE DEF f
    <3>6. f.pc = "waiting" /\ f.origin = b BY DEF f
    <3>7. /\ LoopInv'
          /\ forward' \in [Posts -> Forwards]
      BY <3>1, <3>2, <3>4, <3>5, <3>6, WorkerStep
    <3>8. QED
      BY <2>1, <2>a, <3>3, <3>7 DEF ForwardSend, TypeInv, TypeOK
  <2>2. ASSUME NEW p \in Posts, ForwardFails(p) PROVE TypeInv'
    <3> DEFINE f == [forward[p] EXCEPT !.pc = "ended"]
    <3>1. forward' = [forward EXCEPT ![p] = f] /\ UNCHANGED copy
      BY <2>2 DEF ForwardFails
    <3>2. f \in Forwards
          /\ f.pc = "ended" /\ forward[p].pc # "replicating"
      BY <2>2, <2>b DEF ForwardFails, Forwards
    <3> HIDE DEF f
    <3>3. /\ LoopInv'
          /\ forward' \in [Posts -> Forwards]
      BY <3>1, <3>2, WorkerStep
    <3>4. QED BY <2>2, <2>a, <3>3 DEF ForwardFails, TypeInv, TypeOK, netVars, history
  <2>3. ASSUME NEW p \in Posts, forward[p].pc = "waiting",
               StartReplicating(p) \/ StopForward(p)
        PROVE  TypeInv'
    <3>1. PICK pc \in {"replicating", "ended"} :
            forward' = [forward EXCEPT ![p].pc = pc] /\ UNCHANGED copy
      BY <2>3 DEF StartReplicating, StopForward
    <3> DEFINE f == [forward[p] EXCEPT !.pc = pc]
    <3>2. forward' = [forward EXCEPT ![p] = f] BY <3>1
    <3>3. /\ f \in Forwards
          /\ f.pc = pc /\ f.origin \in Backends
      BY <2>3, <2>b, <3>1 DEF ForwardInv, Forwards
    <3> HIDE DEF f
    <3>4. /\ LoopInv'
          /\ forward' \in [Posts -> Forwards]
      BY <2>3, <3>1, <3>2, <3>3, WorkerStep
    <3>5. answers' \subseteq Attempts /\ excused' \subseteq Posts \X Backends
      BY <2>3, <2>a DEF StartReplicating, StopForward, TypeOK, Doubted, history
    <3>6. QED
      BY <2>3, <2>a, <3>4, <3>5
      DEF StartReplicating, StopForward, TypeInv, TypeOK, history
  <2>4. ASSUME NEW p \in Posts, NEW b \in Backends, ReplicateTo(p, b) PROVE TypeInv'
    <3>1. /\ forward[p].pc = "replicating" /\ forward[p].next = b
          /\ forward' = [forward EXCEPT ![p].next = b + 1]
          /\ UNCHANGED <<healthy, applied, netVars, precedes>>
      BY <2>4 DEF ReplicateTo, IsTarget
    <3>2. b + 1 \in 0 .. BackendCount BY ReplicationConstants DEF Backends
    <3>3. /\ forward'[p] = [forward[p] EXCEPT !.next = b + 1]
          /\ \A q \in Posts : q # p => forward'[q] = forward[q]
      BY <2>a, <3>1 DEF TypeOK
    <3>4. forward' \in [Posts -> Forwards]
      <4>1. [forward[p] EXCEPT !.next = b + 1] \in Forwards BY <2>b, <3>2 DEF Forwards
      <4>2. QED BY <2>a, <3>1, <4>1 DEF TypeOK
    <3>5. \A q \in Posts : ForwardInv(q)' BY <2>b, <3>1, <3>3 DEF ForwardInv
    <3>6. copy[p][b].pc = "none" /\ copy[p][b].attempts = 0
      BY <2>c, <3>1 DEF CopyInv, Backends
    <3>7. CASE UNCHANGED copy /\ excused' \subseteq Posts \X Backends
      <4>1. \A q \in Posts, c \in Backends : CopyInv(q, c)'
        BY <2>b, <2>c, <3>1, <3>3, <3>7 DEF CopyInv, Backends
      <4>2. QED BY <2>a, <3>1, <3>4, <3>5, <3>7, <4>1 DEF TypeInv, TypeOK, LoopInv, netVars
    <3>8. CASE b # forward[p].origin /\ UNCHANGED excused
               /\ copy' = [copy EXCEPT ![p][b].pc = "trying"]
      <4>1. /\ copy'[p][b] = [pc |-> "trying", attempts |-> 0]
            /\ \A q \in Posts, c \in Backends : ~(q = p /\ c = b) => copy'[q][c] = copy[q][c]
        <5>1. [copy[p][b] EXCEPT !.pc = "trying"] = [pc |-> "trying", attempts |-> 0]
          BY <2>c, <3>6, CopyParts
        <5>2. QED BY <2>a, <3>8, <5>1 DEF TypeOK
      <4>2. ASSUME NEW q \in Posts, NEW c \in Backends PROVE CopyInv(q, c)'
        <5>1. CASE q = p /\ c = b
          <6>1. copy'[q][c] = [pc |-> "trying", attempts |-> 0] BY <4>1, <5>1
          <6>2. forward'[q].pc = "replicating" /\ c # forward'[q].origin /\ forward'[q].next > c
            BY <2>b, <3>1, <3>3, <3>8, <5>1 DEF Backends, Forwards
          <6>3. QED BY <6>1, <6>2, ReplicationConstants DEF CopyInv
        <5>2. CASE ~(q = p /\ c = b)
          <6>1. CopyInv(q, c) /\ copy'[q][c] = copy[q][c] BY <2>c, <4>1, <5>2
          <6>2. /\ forward'[q].pc = forward[q].pc /\ forward'[q].origin = forward[q].origin
                /\ forward[q].next > c => forward'[q].next > c
            BY <2>b, <3>1, <3>3 DEF Backends
          <6>3. QED BY <6>1, <6>2 DEF CopyInv
        <5>3. QED BY <5>1, <5>2
      <4>3. copy' \in [Posts -> [Backends -> Copies]]
        <5>1. [copy[p][b] EXCEPT !.pc = "trying"] \in Copies BY <2>c DEF Copies, Active
        <5>2. QED BY <2>a, <3>8, <5>1 DEF TypeOK
      <4>4. QED BY <2>a, <3>1, <3>4, <3>5, <3>8, <4>2, <4>3 DEF TypeInv, TypeOK, LoopInv, netVars
    <3>9. QED BY <2>a, <2>4, <3>7, <3>8 DEF ReplicateTo, IsTarget, TypeOK
  <2>5. ASSUME NEW p \in Posts, NEW b \in Backends, TryFails(p, b) PROVE TypeInv'
    <3> DEFINE n == copy[p][b].attempts + 1
    <3>1. /\ copy[p][b].pc = "trying" /\ n \in 0 .. MaxAttempts
          /\ copy' = [copy EXCEPT ![p][b] = [pc |-> AfterFailure(n), attempts |-> n]]
      <4>1. copy[p][b].pc = "trying" /\ n \in 0 .. MaxAttempts
        <5>1. copy[p][b].pc = "trying" BY <2>5 DEF TryFails
        <5>2. copy[p][b].attempts \in 0 .. MaxAttempts BY <2>c, CopyParts
        <5>3. QED BY <2>c, <5>1, <5>2, ReplicationConstants DEF CopyInv
      <4>2. QED BY <2>5, <4>1 DEF TryFails
    <3> HIDE DEF n
    <3>2. UNCHANGED <<healthy, applied, netVars, forward, history>> BY <2>5 DEF TryFails
    <3>3. LoopInv' /\ copy' \in [Posts -> [Backends -> Copies]]
      BY <3>1, <3>2, AfterFailureType, ThreadStep
    <3>4. QED BY <2>a, <3>2, <3>3 DEF TypeInv, TypeOK, netVars, history
  <2>6. ASSUME NEW p \in Posts, NEW b \in Backends, TrySends(p, b) PROVE TypeInv'
    <3> DEFINE n == copy[p][b].attempts + 1
    <3>1. /\ copy[p][b].pc = "trying" /\ n \in 0 .. MaxAttempts /\ n > 0
          /\ copy' = [copy EXCEPT ![p][b] = [pc |-> "waiting", attempts |-> n]]
          /\ requests' = requests \cup {Attempt(p, b, n)}
      <4>1. copy[p][b].pc = "trying" /\ n \in 0 .. MaxAttempts /\ n > 0
        <5>1. copy[p][b].pc = "trying" BY <2>6 DEF TrySends
        <5>2. copy[p][b].attempts \in 0 .. MaxAttempts BY <2>c, CopyParts
        <5>3. QED BY <2>c, <5>1, <5>2, ReplicationConstants DEF CopyInv
      <4>2. QED BY <2>6, <4>1 DEF TrySends, AfterSend
    <3> HIDE DEF n
    <3>2. UNCHANGED <<healthy, applied, answers, forward, history>> BY <2>6 DEF TrySends
    <3>3. LoopInv' /\ copy' \in [Posts -> [Backends -> Copies]]
      BY <3>1, <3>2, ThreadStep
    <3>4. Attempt(p, b, n) \in Attempts BY <3>1, AttemptType
    <3>5. QED BY <2>a, <3>1, <3>2, <3>3, <3>4 DEF TypeInv, TypeOK, history
  <2>7. ASSUME NEW p \in Posts, NEW b \in Backends,
               ReadsSuccess(p, b) \/ ReadsNoSuccess(p, b)
        PROVE  TypeInv'
    <3> DEFINE n == copy[p][b].attempts
    <3>1. PICK pc \in {"done", AfterFailure(n)} :
            /\ copy' = [copy EXCEPT ![p][b] = [pc |-> pc, attempts |-> n]]
            /\ copy[p][b].pc = "waiting" /\ n \in 0 .. MaxAttempts /\ n > 0
      <4>1. copy[p][b].pc = "waiting" /\ n \in 0 .. MaxAttempts /\ n > 0
        BY <2>7, <2>c, CopyParts DEF ReadsSuccess, ReadsNoSuccess, CopyInv
      <4>2. \A pc : [copy[p][b] EXCEPT !.pc = pc] = [pc |-> pc, attempts |-> n]
        BY <2>c, CopyParts
      <4>3. CASE ReadsSuccess(p, b) BY <4>1, <4>2, <4>3 DEF ReadsSuccess
      <4>4. CASE ReadsNoSuccess(p, b) BY <4>1, <4>2, <4>4 DEF ReadsNoSuccess
      <4>5. QED BY <2>7, <4>3, <4>4
    <3>2. /\ UNCHANGED <<healthy, applied, requests, forward, history>>
          /\ answers' \subseteq answers
      BY <2>7 DEF ReadsSuccess, ReadsNoSuccess
    <3> HIDE DEF n
    <3>3. LoopInv' /\ copy' \in [Posts -> [Backends -> Copies]]
      BY <3>1, <3>2, AfterFailureType, ThreadStep
    <3>4. QED BY <2>a, <3>2, <3>3 DEF TypeInv, TypeOK, history
  <2>8. ASSUME NEW b \in Backends, SetUnhealthy(b)
        PROVE  healthy' \in [Backends -> BOOLEAN] /\ excused' \subseteq Posts \X Backends
    BY <2>8, <2>a DEF SetUnhealthy, DoubtedFrom, TypeOK
  <2>9. ASSUME NEW p \in Posts, NEW b \in Backends, GivesUp(p, b) PROVE TypeInv'
    <3> DEFINE n == copy[p][b].attempts
    <3>1. /\ copy' = [copy EXCEPT ![p][b] = [pc |-> "failed", attempts |-> n]]
          /\ copy[p][b].pc = "marking" /\ n \in 0 .. MaxAttempts
          /\ SetUnhealthy(b) /\ UNCHANGED <<applied, netVars, forward, precedes>>
      <4>1. [copy[p][b] EXCEPT !.pc = "failed"] = [pc |-> "failed", attempts |-> n]
        BY <2>c, CopyParts
      <4>2. n \in 0 .. MaxAttempts BY <2>c, CopyParts
      <4>3. QED BY <2>9, <4>1, <4>2 DEF GivesUp, MarkUnhealthy
    <3> HIDE DEF n
    <3>2. LoopInv' /\ copy' \in [Posts -> [Backends -> Copies]]
      BY <3>1, ThreadStep
    <3>3. QED BY <2>a, <2>8, <3>1, <3>2 DEF TypeInv, TypeOK, netVars
  <2>10. ASSUME NEW a \in requests, Serve(a) \/ Refuse(a) PROVE TypeInv'
    <3>1. a \in Attempts /\ a.to \in Backends BY <2>a DEF TypeOK, Attempts
    <3>2. applied' \in [Backends -> Seq(Attempts)]
      <4>1. applied \in [Backends -> Seq(Attempts)] BY <2>a DEF TypeOK
      <4>2. CASE Serve(a)
        <5>1. Append(applied[a.to], a) \in Seq(Attempts) BY <3>1, <4>1
        <5>2. QED BY <4>1, <4>2, <5>1 DEF Serve
      <4>3. CASE Refuse(a) BY <4>1, <4>3 DEF Refuse
      <4>4. QED BY <2>10, <4>2, <4>3
    <3>3. QED
      BY <2>10, <2>a, <3>1, <3>2
      DEF Serve, Taken, Refuse, TypeInv, TypeOK, LoopInv, ForwardInv, CopyInv, history
  <2>11. ASSUME NEW b \in Backends, Die(b) PROVE TypeInv'
    BY <2>11, <2>a DEF Die, TypeInv, TypeOK, LoopInv, ForwardInv, CopyInv, history
  <2>12. ASSUME NEW b \in Backends, HealthVerdict(b) PROVE TypeInv'
    <3>1. healthy' \in [Backends -> BOOLEAN] /\ excused' \subseteq Posts \X Backends
      BY <2>8, <2>12, <2>a DEF HealthVerdict, TypeOK
    <3>2. QED
      BY <2>12, <2>a, <3>1
      DEF HealthVerdict, TypeInv, TypeOK, LoopInv, ForwardInv, CopyInv, netVars
  <2>13. CASE UNCHANGED vars
    BY <2>13, <2>a DEF vars, TypeInv, TypeOK, LoopInv, ForwardInv, CopyInv, netVars, history
  <2>14. CASE ProxyDies
    <3>1. /\ healthy' \in [Backends -> BOOLEAN] /\ excused' \subseteq Posts \X Backends
          /\ answers' = {} /\ UNCHANGED <<applied, requests, precedes>>
      BY <2>14, <2>a DEF ProxyDies, DoubtedFrom, TypeOK
    <3>2. TypeOK' BY <2>14, <2>a, <3>1, Deaths DEF TypeOK
    <3>3. \A p \in Posts : ForwardInv(p)' BY <2>14, <2>b, Deaths DEF ForwardInv
    <3>4. ASSUME NEW p \in Posts, NEW b \in Backends PROVE CopyInv(p, b)'
      <4>1. CopyInv(p, b) BY <2>c
      <4>2. BackendCount > b BY ReplicationConstants DEF Backends
      <4>3. CASE copy[p][b].pc \in Active
        <5>1. copy[p][b].pc # "none" BY <4>3 DEF Active
        <5>2. QED BY <2>14, <4>1, <4>2, <4>3, <5>1, Deaths DEF CopyInv
      <4>4. CASE copy[p][b].pc \notin Active
        BY <2>14, <4>1, <4>2, <4>4, Deaths DEF CopyInv
      <4>5. QED BY <4>3, <4>4
    <3>5. QED BY <3>2, <3>3, <3>4 DEF TypeInv, LoopInv
  <2>15. QED
    BY <2>1, <2>2, <2>3, <2>4, <2>5, <2>6, <2>7, <2>9, <2>10, <2>11, <2>12, <2>13, <2>14
    DEF Next, Worker, ReplicatorWorker, Backend, ForwardAnswered, ForwardUnanswered,
        StopForward
<1>3. QED BY <1>1, <1>2, PTL DEF Spec

\* The types of the replication: no thread makes more attempts than the loop of
\* replicatorWorker allows, however its connections fail.
THEOREM TypesOfReplication == Spec => []TypeOK
<1>1. TypeInv => TypeOK BY DEF TypeInv
<1>2. QED BY <1>1, TypeInvariant, PTL

-----------------------------------------------------------------------------
(* How the positions of workers and threads change *)

\* No position is taken back; success is entered only upon an answer.
Advance ==
  /\ \A p \in Posts :
       /\ forward[p].pc # "new" => /\ forward'[p].pc # "new"
                                   /\ forward'[p].origin = forward[p].origin
       /\ forward'[p].pc = "replicating" =>
            \/ forward[p].pc = "replicating"
            \/ forward[p].pc = "waiting" /\ Attempt(p, forward[p].origin, 0) \in answers
  /\ \A p \in Posts, b \in Backends :
       /\ copy[p][b].pc # "none" => /\ copy'[p][b].pc # "none"
                                    /\ copy'[p][b].attempts >= copy[p][b].attempts
       /\ copy'[p][b].pc = "done" =>
            /\ copy'[p][b].attempts = copy[p][b].attempts
            /\ copy[p][b].pc = "done" \/ Current(p, b) \in answers

LEMMA AttemptsCounted ==
  ASSUME TypeInv, NEW p \in Posts, NEW b \in Backends
  PROVE  /\ copy[p][b] \in Copies /\ copy[p][b].attempts \in Nat
         /\ copy[p][b].attempts \in 0 .. MaxAttempts
         /\ CopyInv(p, b)
<1>1. copy[p][b] \in Copies BY DEF TypeInv, TypeOK
<1>2. copy[p][b].attempts \in 0 .. MaxAttempts BY <1>1, CopyParts
<1>3. QED BY <1>1, <1>2, ReplicationConstants DEF TypeInv, LoopInv

LEMMA WorkerAdvances ==
  ASSUME TypeInv, NEW p \in Posts, copy' = copy, NEW f \in Forwards,
         forward' = [forward EXCEPT ![p] = f],
         forward[p].pc # "new" => f.pc # "new" /\ f.origin = forward[p].origin,
         f.pc = "replicating" => \/ forward[p].pc = "replicating"
                                 \/ /\ forward[p].pc = "waiting"
                                    /\ Attempt(p, forward[p].origin, 0) \in answers
  PROVE  Advance
<1>1. forward'[p] = f /\ \A q \in Posts : q # p => forward'[q] = forward[q]
  BY DEF TypeInv, TypeOK
<1>2. \A q \in Posts, c \in Backends : copy[q][c].attempts \in Nat BY AttemptsCounted
<1>3. QED BY <1>1, <1>2 DEF Advance

LEMMA ThreadAdvances ==
  ASSUME TypeInv, NEW p \in Posts, NEW b \in Backends, forward' = forward,
         NEW c \in Copies, copy' = [copy EXCEPT ![p][b] = c],
         c.pc # "none", c.attempts >= copy[p][b].attempts,
         c.pc = "done" => /\ c.attempts = copy[p][b].attempts
                          /\ copy[p][b].pc = "done" \/ Current(p, b) \in answers
  PROVE  Advance
<1>2. \A q \in Posts, d \in Backends : copy[q][d].attempts \in Nat BY AttemptsCounted
<1>3. copy'[p][b] = c BY DEF TypeInv, TypeOK
<1>4. \A q \in Posts, d \in Backends : ~(q = p /\ d = b) => copy'[q][d] = copy[q][d]
  BY DEF TypeInv, TypeOK
<1>5. ASSUME NEW q \in Posts, NEW d \in Backends
      PROVE  /\ copy[q][d].pc # "none" => /\ copy'[q][d].pc # "none"
                                          /\ copy'[q][d].attempts >= copy[q][d].attempts
             /\ copy'[q][d].pc = "done" =>
                  /\ copy'[q][d].attempts = copy[q][d].attempts
                  /\ copy[q][d].pc = "done" \/ Current(q, d) \in answers
  BY <1>2, <1>3, <1>4
<1>6. QED BY <1>5 DEF Advance

LEMMA StepsAdvance ==
  ASSUME TypeInv, [Next]_vars
  PROVE  Advance
<1>a. \A p \in Posts : forward[p] \in Forwards BY DEF TypeInv, TypeOK
<1>b. \A p \in Posts, b \in Backends :
        /\ copy[p][b] \in Copies /\ copy[p][b].attempts \in Nat /\ CopyInv(p, b)
  BY AttemptsCounted
<1>1. ASSUME UNCHANGED <<forward, copy>> PROVE Advance
  BY <1>1, <1>b DEF Advance
<1>2. ASSUME NEW p \in Posts, NEW b \in Backends, ForwardSend(p, b) PROVE Advance
  <2>1. [pc |-> "waiting", origin |-> b, next |-> 0] \in Forwards
    BY ReplicationConstants DEF Forwards
  <2>2. QED BY <1>2, <2>1, WorkerAdvances DEF ForwardSend
<1>3. ASSUME NEW p \in Posts, ForwardFails(p) PROVE Advance
  <2> DEFINE f == [forward[p] EXCEPT !.pc = "ended"]
  <2>1. f \in Forwards /\ f.pc = "ended" /\ forward[p].pc = "new"
    BY <1>3, <1>a DEF Forwards, ForwardFails
  <2>2. forward' = [forward EXCEPT ![p] = f] /\ copy' = copy BY <1>3 DEF ForwardFails
  <2> HIDE DEF f
  <2>3. QED BY <2>1, <2>2, WorkerAdvances
<1>4. ASSUME NEW p \in Posts, ForwardAnswered(p) PROVE Advance
  <2> DEFINE f == [forward[p] EXCEPT !.pc = "replicating"]
  <2>1. /\ f \in Forwards /\ f.origin = forward[p].origin /\ f.pc = "replicating"
        /\ forward[p].pc = "waiting" /\ Attempt(p, forward[p].origin, 0) \in answers
    BY <1>4, <1>a DEF Forwards, ForwardAnswered
  <2>2. forward' = [forward EXCEPT ![p] = f] /\ copy' = copy
    BY <1>4 DEF ForwardAnswered, StartReplicating
  <2> HIDE DEF f
  <2>3. QED BY <2>1, <2>2, WorkerAdvances
<1>5. ASSUME NEW p \in Posts, ForwardUnanswered(p) PROVE Advance
  <2> DEFINE f == [forward[p] EXCEPT !.pc = "ended"]
  <2>1. f \in Forwards /\ f.origin = forward[p].origin /\ f.pc = "ended"
    BY <1>5, <1>a DEF Forwards
  <2>2. forward' = [forward EXCEPT ![p] = f] /\ copy' = copy
    BY <1>5 DEF ForwardUnanswered, StopForward
  <2> HIDE DEF f
  <2>3. QED BY <2>1, <2>2, WorkerAdvances
<1>6. ASSUME NEW p \in Posts, NEW b \in Backends, ReplicateTo(p, b) PROVE Advance
  <2>1. forward[p].next = b /\ forward' = [forward EXCEPT ![p].next = b + 1]
        /\ forward[p].pc = "replicating"
    BY <1>6 DEF ReplicateTo, IsTarget
  <2>2. /\ forward'[p].pc = forward[p].pc /\ forward'[p].origin = forward[p].origin
        /\ \A q \in Posts : q # p => forward'[q] = forward[q]
    BY <1>a, <2>1 DEF TypeInv, TypeOK
  <2>3. copy[p][b].pc = "none" BY <1>b, <2>1 DEF CopyInv, Backends
  <2>4. CASE copy' = copy BY <1>b, <2>1, <2>2, <2>4 DEF Advance
  <2>5. CASE copy' = [copy EXCEPT ![p][b].pc = "trying"]
    <3>1. copy'[p][b] = [copy[p][b] EXCEPT !.pc = "trying"] BY <2>5 DEF TypeInv, TypeOK
    <3>2. copy'[p][b].pc = "trying" BY <1>b, <3>1 DEF Copies, Active
    <3>3. \A q \in Posts, d \in Backends : ~(q = p /\ d = b) => copy'[q][d] = copy[q][d]
      BY <2>5 DEF TypeInv, TypeOK
    <3>4. QED BY <1>b, <2>1, <2>2, <2>3, <3>2, <3>3 DEF Advance
  <2>6. QED BY <1>6, <2>4, <2>5 DEF ReplicateTo, IsTarget
<1>7. ASSUME NEW p \in Posts, NEW b \in Backends, TryFails(p, b) \/ TrySends(p, b)
      PROVE  Advance
  <2> DEFINE n == copy[p][b].attempts + 1
  <2>1. n \in 0 .. MaxAttempts /\ n >= copy[p][b].attempts
    BY <1>7, <1>b, ReplicationConstants DEF TryFails, TrySends, CopyInv
  <2>2. PICK pc \in {AfterFailure(n), "waiting"} :
          copy' = [copy EXCEPT ![p][b] = [pc |-> pc, attempts |-> n]]
    BY <1>7 DEF TryFails, TrySends, AfterSend
  <2>3. forward' = forward BY <1>7 DEF TryFails, TrySends
  <2> HIDE DEF n
  <2>4. pc \in {"trying", "marking", "waiting"} BY <2>1, <2>2, AfterFailureType
  <2>5. [pc |-> pc, attempts |-> n] \in Copies BY <2>1, <2>4 DEF Copies, Active
  <2>6. QED BY <2>1, <2>2, <2>3, <2>4, <2>5, ThreadAdvances
<1>8. ASSUME NEW p \in Posts, NEW b \in Backends,
             ReadsSuccess(p, b) \/ ReadsNoSuccess(p, b) \/ GivesUp(p, b)
      PROVE  Advance
  <2> DEFINE n == copy[p][b].attempts
  <2>1. n \in 0 .. MaxAttempts /\ n >= n BY AttemptsCounted
  <2>2. PICK pc \in {"done", AfterFailure(n), "failed"} :
          /\ copy' = [copy EXCEPT ![p][b].pc = pc]
          /\ pc = "done" => Current(p, b) \in answers
    <3>1. AfterFailure(n) # "done" BY <2>1, AfterFailureType
    <3>2. QED BY <1>8, <3>1 DEF ReadsSuccess, ReadsNoSuccess, GivesUp
  <2>3. forward' = forward BY <1>8 DEF ReadsSuccess, ReadsNoSuccess, GivesUp
  <2>4. [copy[p][b] EXCEPT !.pc = pc] = [pc |-> pc, attempts |-> n] BY <1>b, CopyParts
  <2>5. copy' = [copy EXCEPT ![p][b] = [pc |-> pc, attempts |-> n]] BY <2>2, <2>4
  <2>6. pc \in {"done", "trying", "marking", "failed"} BY <2>1, <2>2, AfterFailureType
  <2>7. [pc |-> pc, attempts |-> n] \in Copies BY <2>1, <2>6 DEF Copies, Active
  <2> DEFINE c == [pc |-> pc, attempts |-> n]
  <2>8. c.pc = pc /\ c.attempts = n OBVIOUS
  <2> HIDE DEF c, n
  <2>9. /\ c.attempts >= copy[p][b].attempts
        /\ c.pc = "done" => /\ c.attempts = copy[p][b].attempts
                            /\ copy[p][b].pc = "done" \/ Current(p, b) \in answers
    BY <2>1, <2>2, <2>8 DEF n
  <2>10. c \in Copies /\ copy' = [copy EXCEPT ![p][b] = c] /\ c.pc # "none"
    BY <2>5, <2>6, <2>7, <2>8 DEF c
  <2>11. QED BY <2>3, <2>9, <2>10, ThreadAdvances
<1>9. CASE UNCHANGED vars BY <1>1, <1>9 DEF vars
<1>10. CASE \E b \in Backends : Backend(b) \/ Die(b) \/ HealthVerdict(b)
  BY <1>1, <1>10 DEF Backend, Serve, Refuse, Die, HealthVerdict
<1>11. CASE ProxyDies
  <2>1. \A p \in Posts, b \in Backends :
          copy[p][b].pc = "done" \/ copy[p][b].pc = "none" => copy[p][b].pc \notin Active
    BY DEF Active
  <2>2. \A p \in Posts, b \in Backends :
          /\ copy[p][b].pc # "none" => copy'[p][b].pc # "none"
          /\ copy'[p][b].pc = "done" => copy[p][b].pc = "done"
    BY <1>11, <2>1, Deaths
  <2>3. \A p \in Posts, b \in Backends :
          copy'[p][b].attempts = copy[p][b].attempts /\ copy[p][b].attempts \in Nat
    BY <1>11, <1>b, Deaths
  <2>4. \A p \in Posts :
          /\ forward'[p].origin = forward[p].origin
          /\ forward'[p].pc = "new" <=> forward[p].pc = "new"
          /\ forward'[p].pc = "replicating" <=> forward[p].pc = "replicating"
    BY <1>11, Deaths
  <2>5. QED BY <2>2, <2>3, <2>4 DEF Advance
<1>12. QED
  BY <1>2, <1>3, <1>4, <1>5, <1>6, <1>7, <1>8, <1>9, <1>10, <1>11
  DEF Next, Worker, ReplicatorWorker

-----------------------------------------------------------------------------
(* What is said to be applied was applied *)

\* The attempt a has been made.
Sent(a) ==
  IF a.number = 0
  THEN forward[a.post].pc # "new" /\ forward[a.post].origin = a.to
  ELSE copy[a.post][a.to].pc # "none" /\ a.number <= copy[a.post][a.to].attempts

\* An attempt is applied at most once, where it was sent, and answers tell the
\* truth.  It may be applied when nobody waits for it any more.
DeliveryInv ==
  /\ \A a \in requests : Sent(a) /\ a \notin Range(applied[a.to])
  /\ \A a \in answers : a \in Range(applied[a.to])
  /\ \A b \in Backends : \A a \in Range(applied[b]) : a.to = b /\ Sent(a)
  /\ SuccessIsApplied

LEMMA AppliedType ==
  ASSUME TypeInv, NEW b \in Backends
  PROVE  /\ applied[b] \in Seq(Attempts)
         /\ Range(applied[b]) \subseteq Attempts
<1>1. applied[b] \in Seq(Attempts) BY DEF TypeInv, TypeOK
<1>2. QED BY <1>1 DEF Range

LEMMA SentStaysSent ==
  ASSUME TypeInv, TypeInv', Advance, NEW a \in Attempts, Sent(a)
  PROVE  Sent(a)'
<1>1. a.post \in Posts /\ a.to \in Backends /\ a.number \in Nat
  BY ReplicationConstants DEF Attempts
<1>2. CASE a.number = 0 BY <1>1, <1>2 DEF Sent, Advance
<1>3. CASE a.number # 0
  <2>1. copy[a.post][a.to].attempts \in Nat BY <1>1, AttemptsCounted
  <2>2. /\ copy[a.post][a.to].pc # "none" /\ a.number <= copy[a.post][a.to].attempts
    BY <1>3 DEF Sent
  <2>3. copy'[a.post][a.to].pc # "none"
        /\ copy'[a.post][a.to].attempts >= copy[a.post][a.to].attempts
    BY <1>1, <2>2 DEF Advance
  <2>4. copy'[a.post][a.to] \in Copies BY <1>1 DEF TypeInv, TypeOK
  <2>5. copy'[a.post][a.to].attempts \in Nat
    <3>1. copy'[a.post][a.to].attempts \in 0 .. MaxAttempts BY <2>4, CopyParts
    <3>2. QED BY <3>1, ReplicationConstants
  <2>6. QED BY <1>1, <1>3, <2>1, <2>2, <2>3, <2>5 DEF Sent
<1>4. QED BY <1>2, <1>3

\* A step at the backends' end of a connection: what is appended, and where.
LEMMA ServeAppends ==
  ASSUME TypeInv, NEW a \in requests, Serve(a), NEW b \in Backends
  PROVE  /\ a \in Attempts /\ a.to \in Backends
         /\ Range(applied'[b]) = Range(applied[b]) \cup (IF b = a.to THEN {a} ELSE {})
<1>1. a \in Attempts /\ a.to \in Backends BY DEF TypeInv, TypeOK, Attempts
<1>2. applied \in [Backends -> Seq(Attempts)] BY DEF TypeInv, TypeOK
<1>3. CASE b = a.to
  <2>1. applied'[b] = Append(applied[b], a) BY <1>1, <1>2, <1>3 DEF Serve
  <2>2. applied[b] \in Seq(Attempts) BY <1>2
  <2>3. Range(Append(applied[b], a)) = Range(applied[b]) \cup {a}
    BY <1>1, <2>2 DEF Range
  <2>4. QED BY <1>1, <1>3, <2>1, <2>3
<1>4. CASE b # a.to
  <2>1. applied'[b] = applied[b] BY <1>1, <1>2, <1>4 DEF Serve
  <2>2. QED BY <1>1, <1>4, <2>1
<1>5. QED BY <1>3, <1>4

\* What every step but Serve, ForwardSend and TrySends shares.
LEMMA NothingSent ==
  ASSUME TypeInv, TypeInv', Advance, DeliveryInv,
         requests' \subseteq requests, answers' \subseteq answers, applied' = applied
  PROVE  /\ \A a \in requests' : Sent(a)' /\ a \notin Range(applied'[a.to])
         /\ \A a \in answers' : a \in Range(applied'[a.to])
         /\ \A b \in Backends : \A a \in Range(applied'[b]) : a.to = b /\ Sent(a)'
<1>1. \A a \in requests' : Sent(a)'
  <2>1. \A a \in requests' : a \in Attempts /\ Sent(a) BY DEF DeliveryInv, TypeInv, TypeOK
  <2>2. QED BY <2>1, SentStaysSent
<1>2. ASSUME NEW b \in Backends, NEW a \in Range(applied[b]) PROVE a.to = b /\ Sent(a)'
  <2>1. a \in Attempts /\ a.to = b /\ Sent(a) BY <1>2, AppliedType DEF DeliveryInv
  <2>2. QED BY <2>1, SentStaysSent
<1>3. QED BY <1>1, <1>2 DEF DeliveryInv

\* An attempt that is made for the first time.
LEMMA OneSent ==
  ASSUME TypeInv, TypeInv', Advance, DeliveryInv, NEW a \in Attempts,
         requests' = requests \cup {a}, answers' = answers, applied' = applied,
         ~Sent(a), Sent(a)'
  PROVE  /\ \A r \in requests' : Sent(r)' /\ r \notin Range(applied'[r.to])
         /\ \A r \in answers' : r \in Range(applied'[r.to])
         /\ \A b \in Backends : \A r \in Range(applied'[b]) : r.to = b /\ Sent(r)'
<1>1. \A r \in requests : r \in Attempts /\ Sent(r) BY DEF DeliveryInv, TypeInv, TypeOK
<1>2. \A r \in requests' : Sent(r)' BY <1>1, SentStaysSent
<1>3. a.to \in Backends BY DEF Attempts
<1>4. a \notin Range(applied[a.to]) BY <1>3 DEF DeliveryInv
<1>5. ASSUME NEW b \in Backends, NEW r \in Range(applied[b]) PROVE r.to = b /\ Sent(r)'
  <2>1. r \in Attempts /\ r.to = b /\ Sent(r) BY <1>5, AppliedType DEF DeliveryInv
  <2>2. QED BY <2>1, SentStaysSent
<1>6. QED BY <1>2, <1>4, <1>5 DEF DeliveryInv

\* Once Range(applied[b]) only grows, success is what was answered.
LEMMA SuccessStays ==
  ASSUME TypeInv, TypeInv', Advance, DeliveryInv,
         \A b \in Backends : Range(applied[b]) \subseteq Range(applied'[b])
  PROVE  SuccessIsApplied'
<1>1. ASSUME NEW p \in Posts, forward'[p].pc = "replicating"
      PROVE  Attempt(p, forward'[p].origin, 0) \in Range(applied'[forward'[p].origin])
  <2>1. forward[p].origin \in Backends /\ forward'[p].origin = forward[p].origin
    BY <1>1 DEF Advance, TypeInv, LoopInv, ForwardInv
  <2>2. Attempt(p, forward[p].origin, 0) \in Range(applied[forward[p].origin])
    BY <1>1, <2>1 DEF Advance, DeliveryInv, SuccessIsApplied, Attempt
  <2>3. QED BY <2>1, <2>2
<1>2. ASSUME NEW p \in Posts, NEW b \in Backends, copy'[p][b].pc = "done"
      PROVE  Attempt(p, b, copy'[p][b].attempts) \in Range(applied'[b])
  <2>1. copy'[p][b].attempts = copy[p][b].attempts
    BY <1>2 DEF Advance
  <2>2. Current(p, b) \in Range(applied[b])
    BY <1>2 DEF Advance, DeliveryInv, SuccessIsApplied, Attempt, Current
  <2>3. QED BY <2>1, <2>2 DEF Current
<1>3. QED BY <1>1, <1>2 DEF SuccessIsApplied, Current

LEMMA DeliverySteps ==
  ASSUME TypeInv, TypeInv', [Next]_vars, DeliveryInv
  PROVE  DeliveryInv'
<1>1. Advance BY StepsAdvance
<1>2. ASSUME requests' \subseteq requests, answers' \subseteq answers, applied' = applied
      PROVE  DeliveryInv'
  BY <1>1, <1>2, NothingSent, SuccessStays DEF DeliveryInv
<1>3. ASSUME NEW p \in Posts, NEW b \in Backends, ForwardSend(p, b) PROVE DeliveryInv'
  <2> DEFINE a == Attempt(p, b, 0)
  <2>1. a \in Attempts /\ a.post = p /\ a.to = b /\ a.number = 0
    BY ReplicationConstants, AttemptType
  <2>2. requests' = requests \cup {a} /\ answers' = answers /\ applied' = applied
    BY <1>3 DEF ForwardSend
  <2> HIDE DEF a
  <2>3. ~Sent(a) BY <1>3, <2>1 DEF ForwardSend, Sent
  <2>4. forward'[p] = [pc |-> "waiting", origin |-> b, next |-> 0]
    BY <1>3 DEF ForwardSend, TypeInv, TypeOK
  <2>5. Sent(a)' BY <2>1, <2>4 DEF Sent
  <2>6. SuccessIsApplied' BY <1>1, <2>2, SuccessStays
  <2>7. QED BY <1>1, <2>1, <2>2, <2>3, <2>5, <2>6, OneSent DEF DeliveryInv
<1>4. ASSUME NEW p \in Posts, NEW b \in Backends, TrySends(p, b) PROVE DeliveryInv'
  <2>0. copy[p][b].attempts \in Nat /\ copy[p][b].attempts + 1 \in 0 .. MaxAttempts
    BY <1>4, AttemptsCounted, ReplicationConstants DEF TrySends, CopyInv
  <2>1. PICK n \in 0 .. MaxAttempts : n = copy[p][b].attempts + 1 BY <2>0
  <2>2. n # 0 /\ n <= n /\ ~(n <= copy[p][b].attempts) BY <2>0, <2>1
  <2> DEFINE a == Attempt(p, b, n)
  <2>3. requests' = requests \cup {a} /\ answers' = answers /\ applied' = applied
    BY <1>4, <2>1 DEF TrySends
  <2>4. copy'[p][b] = [pc |-> "waiting", attempts |-> n]
    BY <1>4, <2>1 DEF TrySends, AfterSend, TypeInv, TypeOK
  <2>6. a \in Attempts /\ a.post = p /\ a.to = b /\ a.number = n BY AttemptType
  <2> HIDE DEF a
  <2>7. ~Sent(a) BY <2>2, <2>6 DEF Sent
  <2>8. Sent(a)' BY <2>2, <2>4, <2>6 DEF Sent
  <2>9. SuccessIsApplied' BY <1>1, <2>3, SuccessStays
  <2>10. QED BY <1>1, <2>3, <2>6, <2>7, <2>8, <2>9, OneSent DEF DeliveryInv
<1>5. ASSUME NEW a \in requests, Serve(a) PROVE DeliveryInv'
  <2>1. a \in Attempts /\ a.to \in Backends BY <1>5 DEF TypeInv, TypeOK, Attempts
  <2>2. \A b \in Backends :
          Range(applied'[b]) = Range(applied[b]) \cup (IF b = a.to THEN {a} ELSE {})
    BY <1>5, ServeAppends
  <2>3. requests' = requests \ {a} /\ answers' \subseteq answers \cup {a}
        /\ UNCHANGED <<forward, copy>>
    BY <1>5 DEF Serve, Taken
  <2>4. \A r : Sent(r)' <=> Sent(r) BY <2>3 DEF Sent
  <2>5. ASSUME NEW r \in requests' PROVE Sent(r)' /\ r \notin Range(applied'[r.to])
    <3>1. r \in requests /\ r # a /\ r.to \in Backends
      BY <2>3, <2>5 DEF TypeInv, TypeOK, Attempts
    <3>2. Sent(r) /\ r \notin Range(applied[r.to]) BY <3>1 DEF DeliveryInv
    <3>3. QED BY <2>2, <2>4, <3>1, <3>2
  <2>6. ASSUME NEW r \in answers' PROVE r \in Range(applied'[r.to])
    <3>1. CASE r = a BY <2>1, <2>2, <3>1
    <3>2. CASE r # a
      <4>1. r \in answers /\ r.to \in Backends BY <2>3, <2>6, <3>2 DEF TypeInv, TypeOK, Attempts
      <4>2. QED BY <2>2, <4>1 DEF DeliveryInv
    <3>3. QED BY <3>1, <3>2
  <2>7. ASSUME NEW b \in Backends, NEW r \in Range(applied'[b]) PROVE r.to = b /\ Sent(r)'
    <3>1. CASE r = a /\ b = a.to BY <2>4, <3>1 DEF DeliveryInv
    <3>2. CASE r \in Range(applied[b]) BY <2>4, <3>2 DEF DeliveryInv
    <3>3. QED BY <2>2, <2>7, <3>1, <3>2
  <2>8. SuccessIsApplied' BY <1>1, <2>2, SuccessStays
  <2>9. QED BY <2>5, <2>6, <2>7, <2>8 DEF DeliveryInv
<1>6. CASE UNCHANGED vars BY <1>2, <1>6 DEF vars, netVars
<1>7. ASSUME NEW p \in Posts, ForwardFails(p) \/ Worker(p) PROVE DeliveryInv'
  BY <1>2, <1>7
  DEF ForwardFails, Worker, ForwardAnswered, ForwardUnanswered, StartReplicating,
      StopForward, ReplicateTo, IsTarget, netVars
<1>8. ASSUME NEW p \in Posts, NEW b \in Backends,
             TryFails(p, b) \/ ReadsSuccess(p, b) \/ ReadsNoSuccess(p, b) \/ GivesUp(p, b)
      PROVE  DeliveryInv'
  BY <1>2, <1>8 DEF TryFails, ReadsSuccess, ReadsNoSuccess, GivesUp, netVars
<1>9. ASSUME NEW b \in Backends, Die(b) \/ HealthVerdict(b) PROVE DeliveryInv'
  BY <1>2, <1>9 DEF Die, HealthVerdict, netVars
<1>10. ASSUME NEW a \in requests, Refuse(a) PROVE DeliveryInv'
  BY <1>2, <1>10 DEF Refuse
<1>11. CASE ProxyDies
  BY <1>2, <1>11 DEF ProxyDies
<1>12. QED
  BY <1>3, <1>4, <1>5, <1>6, <1>7, <1>8, <1>9, <1>10, <1>11 DEF Next, ReplicatorWorker, Backend

LEMMA DeliveryInit == Init => DeliveryInv
BY DEF Init, DeliveryInv, SuccessIsApplied, Range

THEOREM DeliveryInvariant == Spec => [](TypeInv /\ DeliveryInv)
<1>1. Spec => []TypeInv BY TypeInvariant
<1>2. TypeInv /\ TypeInv' /\ DeliveryInv /\ [Next]_vars => DeliveryInv' BY DeliverySteps
<1>3. QED BY <1>1, <1>2, DeliveryInit, PTL DEF Spec

\* Whoever takes a backend for successful is right: the very attempt whose
\* answer it read has been applied, whatever connections broke before.
THEOREM SuccessMeansApplied == Spec => []SuccessIsApplied
<1>1. DeliveryInv => SuccessIsApplied BY DEF DeliveryInv
<1>2. QED BY <1>1, DeliveryInvariant, PTL

-----------------------------------------------------------------------------
(* Replication implements PostDelivery *)

Accepted(p) == \E b \in Backends : Attempt(p, b, 0) \in Range(applied[b])

LEMMA AcceptedAtOrigin ==
  ASSUME TypeInv, DeliveryInv, NEW p \in Posts, NEW b \in Backends,
         Attempt(p, b, 0) \in Range(applied[b])
  PROVE  forward[p].pc # "new" /\ forward[p].origin = b
<1>1. /\ Attempt(p, b, 0).number = 0 /\ Attempt(p, b, 0).post = p
      /\ Attempt(p, b, 0).to = b
  BY DEF Attempt
<1>2. QED BY <1>1 DEF DeliveryInv, Sent

\* Only what the backends do is visible to PostDelivery.
LEMMA Invisible ==
  ASSUME TypeInv, DeliveryInv, Advance, applied' = applied
  PROVE  UNCHANGED Delivery!vars
<1>1. Holdings' = Holdings BY DEF Holdings
<1>2. ASSUME NEW p \in Posts, Accepted(p) PROVE forward'[p].origin = forward[p].origin
  BY <1>2, AcceptedAtOrigin DEF Accepted, Advance
<1>3. Origins' = Origins BY <1>2 DEF Origins, Accepted
<1>4. QED BY <1>1, <1>3 DEF Delivery!vars

Entry(a) == <<a.post, a.number>>

LEMMA HoldingsOf ==
  ASSUME NEW q \in Seq(Attempts), NEW a \in Attempts
  PROVE  [i \in DOMAIN Append(q, a) |-> Entry(Append(q, a)[i])]
           = Append([i \in DOMAIN q |-> Entry(q[i])], Entry(a))
<1> DEFINE S == {Entry(r) : r \in Attempts}
           t == [i \in DOMAIN q |-> Entry(q[i])]
           u == [i \in DOMAIN Append(q, a) |-> Entry(Append(q, a)[i])]
<1>1. DOMAIN q = 1 .. Len(q) /\ Len(q) \in Nat /\ \A i \in 1 .. Len(q) : q[i] \in Attempts
  OBVIOUS
<1>2. t \in Seq(S) /\ Len(t) = Len(q) /\ \A i \in 1 .. Len(q) : t[i] = Entry(q[i])
  <2>1. \A i \in 1 .. Len(q) : Entry(q[i]) \in S BY <1>1
  <2> HIDE DEF S
  <2>2. QED BY <1>1, <2>1
<1>3. Entry(a) \in S OBVIOUS
<1>4. /\ DOMAIN Append(q, a) = 1 .. Len(q) + 1
      /\ \A i \in 1 .. Len(q) + 1 : Append(q, a)[i] = IF i = Len(q) + 1 THEN a ELSE q[i]
  BY <1>1
<1>5. /\ u \in Seq(S) /\ Len(u) = Len(q) + 1
      /\ \A i \in 1 .. Len(q) + 1 :
           u[i] = IF i = Len(q) + 1 THEN Entry(a) ELSE Entry(q[i])
  <2>1. \A i \in 1 .. Len(q) + 1 : Entry(Append(q, a)[i]) \in S BY <1>1, <1>4
  <2> HIDE DEF S
  <2>2. QED BY <1>1, <1>4, <2>1
<1> HIDE DEF S, t, u
<1>6. /\ Append(t, Entry(a)) \in Seq(S) /\ Len(Append(t, Entry(a))) = Len(t) + 1
      /\ \A i \in 1 .. Len(t) : Append(t, Entry(a))[i] = t[i]
      /\ Append(t, Entry(a))[Len(t) + 1] = Entry(a)
  BY <1>2, <1>3, AppendProperties
<1>7. \A i \in 1 .. Len(u) : u[i] = Append(t, Entry(a))[i]
  BY <1>1, <1>2, <1>5, <1>6
<1>8. u = Append(t, Entry(a)) BY <1>1, <1>2, <1>5, <1>6, <1>7, SeqEqual
<1>9. QED BY <1>8 DEF t, u

LEMMA HoldingsGrow ==
  ASSUME TypeInv, NEW a \in requests, Serve(a)
  PROVE  Holdings' = [Holdings EXCEPT ![a.to] = Append(@, <<a.post, a.number>>)]
<1>1. a \in Attempts /\ a.to \in Backends /\ applied \in [Backends -> Seq(Attempts)]
  BY DEF TypeInv, TypeOK, Attempts
<1>2. /\ Holdings = [b \in Backends |-> [i \in DOMAIN applied[b] |-> Entry(applied[b][i])]]
      /\ Holdings' = [b \in Backends |-> [i \in DOMAIN applied'[b] |-> Entry(applied'[b][i])]]
  BY DEF Holdings, Entry
<1>3. ASSUME NEW b \in Backends
      PROVE  Holdings'[b] = IF b = a.to THEN Append(Holdings[b], Entry(a)) ELSE Holdings[b]
  <2>1. CASE b = a.to
    <3>1. applied'[b] = Append(applied[b], a) BY <1>1, <2>1 DEF Serve
    <3>2. Holdings'[b] = [i \in DOMAIN Append(applied[b], a) |-> Entry(Append(applied[b], a)[i])]
      BY <1>2, <3>1
    <3>3. Holdings[b] = [i \in DOMAIN applied[b] |-> Entry(applied[b][i])] BY <1>2
    <3>4. applied[b] \in Seq(Attempts) BY <1>1
    <3>5. QED BY <1>1, <2>1, <3>2, <3>3, <3>4, HoldingsOf
  <2>2. CASE b # a.to
    <3>1. applied'[b] = applied[b] BY <1>1, <2>2 DEF Serve
    <3>2. QED BY <1>2, <2>2, <3>1
  <2>3. QED BY <2>1, <2>2
<1>4. Holdings' = [b \in Backends |-> Holdings'[b]] /\ Holdings = [b \in Backends |-> Holdings[b]]
  BY DEF Holdings
<1>5. QED BY <1>1, <1>3, <1>4 DEF Entry

LEMMA ServeIsDelivery ==
  ASSUME TypeInv, DeliveryInv, NEW a \in requests, Serve(a)
  PROVE  Delivery!Next
<1>1. /\ a \in Attempts /\ a.post \in Posts /\ a.to \in Backends
      /\ a.number \in 0 .. MaxAttempts /\ a = Attempt(a.post, a.to, a.number)
  <2>1. a \in Attempts BY DEF TypeInv, TypeOK
  <2>2. QED BY <2>1, AttemptIsItsParts DEF Attempts
<1>2. Sent(a) /\ a \notin Range(applied[a.to]) BY DEF DeliveryInv
<1>3. \A b \in Backends :
        Range(applied'[b]) = Range(applied[b]) \cup (IF b = a.to THEN {a} ELSE {})
  BY ServeAppends
<1>4. forward' = forward BY DEF Serve
<1>5. Origins = [p \in Posts |-> Origins[p]] /\ Origins' = [p \in Posts |-> Origins'[p]]
  BY DEF Origins
<1>6. Holdings' = [Holdings EXCEPT ![a.to] = Append(@, <<a.post, a.number>>)]
  BY HoldingsGrow
<1>7. CASE a.number = 0
  <2>1. forward[a.post].origin = a.to BY <1>2, <1>7 DEF Sent
  <2>2. ~Accepted(a.post)
    <3>1. ASSUME NEW b \in Backends, Attempt(a.post, b, 0) \in Range(applied[b]) PROVE FALSE
      BY <1>1, <1>2, <1>7, <2>1, <3>1, AcceptedAtOrigin
    <3>2. QED BY <3>1 DEF Accepted
  <2>3. Origins[a.post] = Nowhere BY <1>1, <2>2 DEF Origins, Accepted
  <2>4. Origins'[a.post] = a.to
    <3>1. a \in Range(applied'[a.to]) BY <1>1, <1>3
    <3>2. QED BY <1>1, <1>4, <1>7, <2>1, <3>1 DEF Origins
  <2>5. ASSUME NEW p \in Posts, p # a.post PROVE Origins'[p] = Origins[p]
    <3>1. \A b \in Backends : Attempt(p, b, 0) # a BY <2>5 DEF Attempt
    <3>2. \A b \in Backends : Attempt(p, b, 0) \in Range(applied'[b])
                              <=> Attempt(p, b, 0) \in Range(applied[b])
      BY <1>3, <3>1
    <3>3. QED BY <1>4, <3>2 DEF Origins
  <2>6. Origins' = [Origins EXCEPT ![a.post] = a.to] BY <1>1, <1>5, <2>4, <2>5
  <2>7. Delivery!Accept(a.post, a.to) BY <1>6, <1>7, <2>3, <2>6 DEF Delivery!Accept
  <2>8. QED BY <1>1, <2>7 DEF Delivery!Next
<1>8. CASE a.number # 0
  <2>1. copy[a.post][a.to].pc # "none" BY <1>2, <1>8 DEF Sent
  <2>2. forward[a.post].pc = "replicating" /\ a.to # forward[a.post].origin
    BY <1>1, <2>1 DEF TypeInv, LoopInv, CopyInv
  <2>3. forward[a.post].origin \in Backends
    BY <1>1, <2>2 DEF TypeInv, LoopInv, ForwardInv
  <2>4. Attempt(a.post, forward[a.post].origin, 0) \in Range(applied[forward[a.post].origin])
    BY <1>1, <2>2 DEF DeliveryInv, SuccessIsApplied
  <2>5. Origins[a.post] = forward[a.post].origin BY <1>1, <2>3, <2>4 DEF Origins
  <2>6. Nowhere \notin Backends BY ReplicationConstants DEF Nowhere, Backends
  <2>7. Origins[a.post] \notin {Nowhere, a.to} BY <2>2, <2>3, <2>5, <2>6
  <2>8. <<a.post, a.number>> \notin Delivery!Range(Holdings[a.to])
    <3>1. ASSUME NEW r \in Range(applied[a.to]), r.post = a.post, r.number = a.number
          PROVE  FALSE
      <4>1. r \in Attempts /\ r.to = a.to BY <1>1, <3>1, AppliedType DEF DeliveryInv
      <4>2. r = a BY <1>1, <3>1, <4>1, AttemptIsItsParts
      <4>3. QED BY <1>2, <3>1, <4>2
    <3>2. ASSUME NEW i \in DOMAIN applied[a.to],
                 <<applied[a.to][i].post, applied[a.to][i].number>> = <<a.post, a.number>>
          PROVE  FALSE
      <4>1. applied[a.to][i] \in Range(applied[a.to]) BY DEF Range
      <4>2. applied[a.to][i].post = a.post /\ applied[a.to][i].number = a.number BY <3>2
      <4>3. QED BY <3>1, <4>1, <4>2
    <3>3. Holdings[a.to] = [i \in DOMAIN applied[a.to] |->
                              <<applied[a.to][i].post, applied[a.to][i].number>>]
      BY <1>1 DEF Holdings
    <3>4. QED BY <3>2, <3>3 DEF Delivery!Range
  <2>9. UNCHANGED Origins
    <3>1. \A p \in Posts, b \in Backends : Attempt(p, b, 0) # a
      BY <1>8 DEF Attempt
    <3>2. \A p \in Posts, b \in Backends : Attempt(p, b, 0) \in Range(applied'[b])
                                           <=> Attempt(p, b, 0) \in Range(applied[b])
      BY <1>3, <3>1
    <3>3. QED BY <1>4, <3>2 DEF Origins
  <2>10. Delivery!Copy(a.post, a.to, a.number)
    BY <1>6, <2>7, <2>8, <2>9 DEF Delivery!Copy
  <2>11. a.number \in 1 .. MaxAttempts BY <1>1, <1>8, ReplicationConstants
  <2>12. QED BY <1>1, <2>10, <2>11 DEF Delivery!Next
<1>9. QED BY <1>7, <1>8

\* The content of the backends changes only as PostDelivery allows: at the
\* origin first and once, elsewhere at most once for each attempt.
THEOREM ReplicationDelivers == Spec => DeliveredAsPromised
<1>1. Init => Delivery!Init
  <2>1. SUFFICES ASSUME Init PROVE Delivery!Init OBVIOUS
  <2>1a. \A b \in Backends : applied[b] = <<>> BY <2>1 DEF Init
  <2>2. \A b \in Backends : Range(applied[b]) = {} BY <2>1a DEF Range
  <2>3. Holdings = [b \in Backends |-> <<>>] BY <2>1a DEF Holdings
  <2>4. Origins = [p \in Posts |-> Nowhere] BY <2>2 DEF Origins
  <2>5. QED BY <2>3, <2>4 DEF Delivery!Init
<1>2. TypeInv /\ DeliveryInv /\ [Next]_vars => [Delivery!Next]_Delivery!vars
  <2>1. SUFFICES ASSUME TypeInv, DeliveryInv, [Next]_vars
                 PROVE  Delivery!Next \/ UNCHANGED Delivery!vars
    OBVIOUS
  <2>2. ASSUME applied' = applied PROVE UNCHANGED Delivery!vars
    BY <2>1, <2>2, StepsAdvance, Invisible
  <2>3. CASE \E a \in requests : Serve(a) BY <2>1, <2>3, ServeIsDelivery
  <2>4. CASE UNCHANGED vars BY <2>2, <2>4 DEF vars
  <2>5. CASE \E p \in Posts : ForwardFails(p) \/ Worker(p)
    BY <2>2, <2>5
    DEF ForwardFails, Worker, ForwardAnswered, ForwardUnanswered, StartReplicating,
        StopForward, ReplicateTo, IsTarget
  <2>6. CASE \E p \in Posts, b \in Backends : ForwardSend(p, b) \/ ReplicatorWorker(p, b)
    BY <2>2, <2>6
    DEF ForwardSend, ReplicatorWorker, TryFails, TrySends, ReadsSuccess, ReadsNoSuccess, GivesUp
  <2>7. CASE \E b \in Backends : Die(b) \/ HealthVerdict(b)
    BY <2>2, <2>7 DEF Die, HealthVerdict
  <2>8. CASE \E a \in requests : Refuse(a) BY <2>2, <2>8 DEF Refuse
  <2>9. CASE ProxyDies BY <2>2, <2>9 DEF ProxyDies
  <2>10. QED BY <2>1, <2>3, <2>4, <2>5, <2>6, <2>7, <2>8, <2>9 DEF Next, Backend
<1>3. QED BY <1>1, <1>2, DeliveryInvariant, PTL DEF Spec, DeliveredAsPromised, Delivery!Spec

-----------------------------------------------------------------------------
(* A backend that lacks a POST had been doubted *)

Excuse(p, b) ==
  /\ forward[p].pc = "replicating" /\ b # forward[p].origin
  /\ \/ ~healthy[b]
     \/ copy[p][b].pc = "none" /\ forward[p].next > b
     \/ copy[p][b].pc \in {"failed", "lost"}
  => <<p, b>> \in excused

ExcuseInv == \A p \in Posts, b \in Backends : Excuse(p, b)

LEMMA ExcuseSteps ==
  ASSUME TypeInv, ExcuseInv, [Next]_vars
  PROVE  ExcuseInv'
<1>a. healthy \in [Backends -> BOOLEAN] /\ forward \in [Posts -> Forwards]
      /\ copy \in [Posts -> [Backends -> Copies]]
  BY DEF TypeInv, TypeOK
<1>b. \A p \in Posts, b \in Backends :
        copy[p][b] \in Copies /\ copy[p][b].attempts \in 0 .. MaxAttempts /\ CopyInv(p, b)
  BY AttemptsCounted
<1>1. ASSUME UNCHANGED <<healthy, forward, copy>>, excused' = excused PROVE ExcuseInv'
  BY <1>1 DEF ExcuseInv, Excuse
\* A worker that is not replicating owes no excuse.
<1>2. ASSUME NEW p \in Posts, forward'[p].pc # "replicating",
             \A q \in Posts : q # p => forward'[q] = forward[q],
             UNCHANGED <<healthy, copy, excused>>
      PROVE  ExcuseInv'
  BY <1>2 DEF ExcuseInv, Excuse
<1>3. ASSUME NEW p \in Posts, NEW b \in Backends, ForwardSend(p, b) PROVE ExcuseInv'
  <2>1. forward'[p].pc = "waiting" /\ \A q \in Posts : q # p => forward'[q] = forward[q]
    BY <1>3, <1>a DEF ForwardSend
  <2>2. QED BY <1>2, <1>3, <2>1 DEF ForwardSend
<1>4. ASSUME NEW p \in Posts, ForwardFails(p) \/ ForwardUnanswered(p) PROVE ExcuseInv'
  <2>1. forward' = [forward EXCEPT ![p].pc = "ended"] /\ UNCHANGED <<healthy, copy, excused>>
    BY <1>4 DEF ForwardFails, ForwardUnanswered, StopForward, history
  <2>2. forward'[p] = [forward[p] EXCEPT !.pc = "ended"]
        /\ \A q \in Posts : q # p => forward'[q] = forward[q]
    BY <1>a, <2>1
  <2>3. forward[p] \in Forwards BY <1>a
  <2>4. forward'[p].pc = "ended" BY <2>2, <2>3, ForwardParts
  <2>5. QED BY <1>2, <2>1, <2>2, <2>4
<1>5. ASSUME NEW p \in Posts, ForwardAnswered(p) PROVE ExcuseInv'
  <2>1. /\ forward[p].pc = "waiting" /\ forward' = [forward EXCEPT ![p].pc = "replicating"]
        /\ excused' = excused \cup Doubted(p) /\ UNCHANGED <<healthy, copy>>
    BY <1>5 DEF ForwardAnswered, StartReplicating
  <2>2. forward'[p] = [forward[p] EXCEPT !.pc = "replicating"]
        /\ \A q \in Posts : q # p => forward'[q] = forward[q]
    BY <1>a, <2>1
  <2>3. forward[p] \in Forwards BY <1>a
  <2>4. forward'[p].origin = forward[p].origin /\ forward'[p].next = forward[p].next
    BY <2>2, <2>3, ForwardParts
  <2>5. forward[p].next = 0 BY <2>1 DEF TypeInv, LoopInv, ForwardInv
  <2>6. ASSUME NEW b \in Backends PROVE Excuse(p, b)'
    <3>1. copy[p][b].pc = "none" BY <1>b, <2>1 DEF CopyInv
    <3>2. ~(forward'[p].next > b) BY <2>4, <2>5, ReplicationConstants DEF Backends
    <3>3. ~healthy[b] /\ b # forward[p].origin => <<p, b>> \in Doubted(p) BY DEF Doubted
    <3>4. QED BY <2>1, <2>4, <3>1, <3>2, <3>3 DEF Excuse
  <2>7. ASSUME NEW q \in Posts, q # p, NEW b \in Backends PROVE Excuse(q, b)'
    BY <2>1, <2>2, <2>7 DEF ExcuseInv, Excuse
  <2>8. QED BY <2>6, <2>7 DEF ExcuseInv
<1>6. ASSUME NEW p \in Posts, NEW b \in Backends, ReplicateTo(p, b) PROVE ExcuseInv'
  <2>1. /\ forward[p].pc = "replicating" /\ forward[p].next = b
        /\ forward' = [forward EXCEPT ![p].next = b + 1] /\ healthy' = healthy
    BY <1>6 DEF ReplicateTo, IsTarget
  <2>2. forward'[p] = [forward[p] EXCEPT !.next = b + 1]
        /\ \A q \in Posts : q # p => forward'[q] = forward[q]
    BY <1>a, <2>1
  <2>3. forward[p] \in Forwards BY <1>a
  <2>4. /\ forward'[p].origin = forward[p].origin /\ forward'[p].pc = forward[p].pc
        /\ forward'[p].next = b + 1
    BY <2>2, <2>3 DEF Forwards
  <2>5. /\ excused \subseteq excused'
        /\ \A q \in Posts, c \in Backends : ~(q = p /\ c = b) => copy'[q][c] = copy[q][c]
    BY <1>6, <1>a DEF ReplicateTo, IsTarget
  <2>6. Excuse(p, b)'
    <3>1. CASE b = forward[p].origin BY <2>4, <3>1 DEF Excuse
    <3>2. CASE b # forward[p].origin /\ ~healthy[b]
      BY <2>1, <2>5, <3>2 DEF ExcuseInv, Excuse
    <3>3. CASE healthy[b] /\ copy' = [copy EXCEPT ![p][b].pc = "trying"]
      <4>1. copy'[p][b] = [copy[p][b] EXCEPT !.pc = "trying"] BY <1>a, <3>3
      <4>2. copy'[p][b].pc = "trying" BY <1>b, <4>1, CopyParts
      <4>3. QED BY <2>1, <3>3, <4>2 DEF Excuse
    <3>4. CASE excused' = excused \cup {<<p, b>>} BY <3>4 DEF Excuse
    <3>5. QED BY <1>6, <3>1, <3>2, <3>3, <3>4 DEF ReplicateTo, IsTarget
  <2>7. ASSUME NEW c \in Backends, c # b PROVE Excuse(p, c)'
    <3>1. forward'[p].next > c <=> forward[p].next > c
      BY <2>1, <2>4, <2>7, ReplicationConstants DEF Backends
    <3>2. QED BY <2>1, <2>4, <2>5, <2>7, <3>1 DEF ExcuseInv, Excuse
  <2>8. ASSUME NEW q \in Posts, q # p, NEW c \in Backends PROVE Excuse(q, c)'
    BY <2>1, <2>2, <2>5, <2>8 DEF ExcuseInv, Excuse
  <2>9. QED BY <2>6, <2>7, <2>8 DEF ExcuseInv
\* A thread that goes on.
<1>7. ASSUME NEW p \in Posts, NEW b \in Backends, NEW pc \in {"trying", "waiting", "marking", "done"},
             NEW n \in 0 .. MaxAttempts, UNCHANGED <<healthy, forward, excused>>,
             copy' = [copy EXCEPT ![p][b] = [pc |-> pc, attempts |-> n]]
      PROVE  ExcuseInv'
  <2>1. copy'[p][b].pc = pc BY <1>a, <1>7
  <2>2. \A q \in Posts, c \in Backends : ~(q = p /\ c = b) => copy'[q][c] = copy[q][c]
    BY <1>a, <1>7
  <2>3. QED BY <1>7, <2>1, <2>2 DEF ExcuseInv, Excuse
<1>8. ASSUME NEW p \in Posts, NEW b \in Backends, TryFails(p, b) \/ TrySends(p, b)
      PROVE  ExcuseInv'
  <2> DEFINE n == copy[p][b].attempts + 1
  <2>1. copy[p][b].pc = "trying" BY <1>8 DEF TryFails, TrySends
  <2>2. n \in 0 .. MaxAttempts BY <1>b, <2>1, ReplicationConstants DEF CopyInv
  <2>3. PICK pc \in {AfterFailure(n), "waiting"} :
          copy' = [copy EXCEPT ![p][b] = [pc |-> pc, attempts |-> n]]
    BY <1>8 DEF TryFails, TrySends, AfterSend
  <2>4. UNCHANGED <<healthy, forward, excused>> BY <1>8 DEF TryFails, TrySends, history
  <2> HIDE DEF n
  <2>5. pc \in {"trying", "waiting", "marking", "done"} BY <2>2, <2>3, AfterFailureType
  <2>6. QED BY <1>7, <2>2, <2>3, <2>4, <2>5
<1>9. ASSUME NEW p \in Posts, NEW b \in Backends, ReadsSuccess(p, b) \/ ReadsNoSuccess(p, b)
      PROVE  ExcuseInv'
  <2> DEFINE n == copy[p][b].attempts
  <2>1. n \in 0 .. MaxAttempts BY <1>b
  <2>2. PICK pc \in {"done", AfterFailure(n)} : copy' = [copy EXCEPT ![p][b].pc = pc]
    BY <1>9 DEF ReadsSuccess, ReadsNoSuccess
  <2>3. [copy[p][b] EXCEPT !.pc = pc] = [pc |-> pc, attempts |-> n] BY <1>b, CopyParts
  <2>4. copy' = [copy EXCEPT ![p][b] = [pc |-> pc, attempts |-> n]] BY <2>2, <2>3
  <2>5. UNCHANGED <<healthy, forward, excused>> BY <1>9 DEF ReadsSuccess, ReadsNoSuccess, history
  <2> HIDE DEF n
  <2>6. pc \in {"trying", "waiting", "marking", "done"} BY <2>1, <2>2, AfterFailureType
  <2>7. QED BY <1>7, <2>1, <2>4, <2>5, <2>6
\* b is taken out of rotation.
<1>10. ASSUME NEW b \in Backends, SetUnhealthy(b), forward' = forward,
              \A q \in Posts, c \in Backends : c # b => copy'[q][c] = copy[q][c]
       PROVE  ExcuseInv'
  <2>1. excused' = excused \cup DoubtedFrom(b) BY <1>10 DEF SetUnhealthy
  <2>2. \A c \in Backends : c # b => healthy'[c] = healthy[c] BY <1>10, <1>a DEF SetUnhealthy
  <2>3. \A q \in Posts : Excuse(q, b)' BY <1>10, <2>1 DEF Excuse, DoubtedFrom
  <2>4. \A q \in Posts, c \in Backends : c # b => Excuse(q, c)'
    BY <1>10, <2>1, <2>2 DEF ExcuseInv, Excuse
  <2>5. QED BY <2>3, <2>4 DEF ExcuseInv
<1>11. ASSUME NEW p \in Posts, NEW b \in Backends, GivesUp(p, b) PROVE ExcuseInv'
  <2>1. \A q \in Posts, c \in Backends : c # b => copy'[q][c] = copy[q][c]
    BY <1>11, <1>a DEF GivesUp
  <2>2. QED BY <1>10, <1>11, <2>1 DEF GivesUp, MarkUnhealthy
<1>12. ASSUME NEW b \in Backends, HealthVerdict(b) PROVE ExcuseInv'
  <2>1. CASE SetUnhealthy(b) BY <1>10, <1>12, <2>1 DEF HealthVerdict
  <2>2. CASE healthy' = [healthy EXCEPT ![b] = TRUE] /\ UNCHANGED excused
    <3>1. \A c \in Backends : ~healthy'[c] => ~healthy[c] BY <1>a, <2>2
    <3>2. QED BY <1>12, <2>2, <3>1 DEF HealthVerdict, ExcuseInv, Excuse
  <2>3. QED BY <1>12, <2>1, <2>2 DEF HealthVerdict
<1>13. CASE UNCHANGED vars BY <1>1, <1>13 DEF vars, history
<1>14. CASE \E b \in Backends : Backend(b) \/ Die(b)
  BY <1>1, <1>14 DEF Backend, Serve, Refuse, Die, history
\* What the proxy had not done when it died is excused by its death.
<1>15. CASE ProxyDies
  <2> SUFFICES ASSUME NEW p \in Posts, NEW b \in Backends, forward'[p].pc = "replicating",
                      b # forward'[p].origin,
                      \/ ~healthy'[b]
                      \/ copy'[p][b].pc = "none" /\ forward'[p].next > b
                      \/ copy'[p][b].pc \in {"failed", "lost"}
               PROVE  <<p, b>> \in excused'
    BY DEF ExcuseInv, Excuse
  <2>1. forward[p].pc = "replicating" /\ b # forward[p].origin BY <1>15, Deaths
  <2>2. excused \subseteq excused' BY <1>15 DEF ProxyDies
  <2>3. Interrupted(p, b) => <<p, b>> \in excused' BY <1>15 DEF ProxyDies
  <2>4. CASE ~healthy'[b]
    <3>1. <<p, b>> \in DoubtedFrom(b) BY <2>1 DEF DoubtedFrom
    <3>2. QED BY <1>15, <2>4, <3>1 DEF ProxyDies
  <2>5. CASE copy[p][b].pc \in Active BY <2>3, <2>5 DEF Interrupted
  <2>6. CASE copy[p][b].pc \notin Active /\ copy'[p][b].pc = "none"
    <3>1. copy[p][b].pc = "none" BY <1>15, <2>6, Deaths
    <3>2. CASE forward[p].next > b BY <2>1, <2>2, <3>1, <3>2 DEF ExcuseInv, Excuse
    <3>3. CASE ~(forward[p].next > b)
      <4>1. forward[p].next \in Nat /\ b \in Nat
        BY <1>a, ReplicationConstants DEF Forwards, Backends
      <4>2. b >= forward[p].next BY <3>3, <4>1
      <4>3. QED BY <2>1, <2>3, <4>2 DEF Interrupted
    <3>4. QED BY <3>2, <3>3
  <2>7. CASE copy[p][b].pc \notin Active /\ copy'[p][b].pc \in {"failed", "lost"}
    BY <1>15, <2>1, <2>2, <2>7, Deaths DEF ExcuseInv, Excuse
  <2>8. QED BY <2>4, <2>5, <2>6, <2>7
<1>16. QED
  BY <1>3, <1>4, <1>5, <1>6, <1>8, <1>9, <1>11, <1>12, <1>13, <1>14, <1>15
  DEF Next, Worker, ReplicatorWorker

LEMMA ExcuseInit == Init => ExcuseInv
BY DEF Init, ExcuseInv, Excuse

\* A backend that lacks an accepted POST, although nobody is copying it there
\* any more, has been out of rotation since, or got no thread, or the proxy died
\* before it had copied the POST.
THEOREM LaggardsAreDoubted == Spec => []LaggardsWereDoubted
<1>1. TypeInv /\ ExcuseInv /\ [Next]_vars => ExcuseInv' BY ExcuseSteps
<1>2. TypeInv /\ DeliveryInv /\ ExcuseInv => LaggardsWereDoubted
  <2> SUFFICES ASSUME TypeInv, DeliveryInv, ExcuseInv, NEW p \in Posts, NEW b \in Backends,
                      forward[p].pc = "replicating", forward[p].next = BackendCount,
                      copy[p][b].pc \notin Active,
                      b # forward[p].origin, ~Applied(p, b)
               PROVE  <<p, b>> \in excused
    BY DEF LaggardsWereDoubted
  <2>1. CASE copy[p][b].pc = "done"
    <3>1. Current(p, b) \in Range(applied[b]) /\ Current(p, b).post = p
      BY <2>1 DEF DeliveryInv, SuccessIsApplied, Current, Attempt
    <3>2. QED BY <3>1 DEF Applied
  <2>2. CASE copy[p][b].pc \in {"none", "failed", "lost"}
    <3>1. forward[p].next > b BY ReplicationConstants DEF Backends
    <3>2. QED BY <2>2, <3>1 DEF ExcuseInv, Excuse
  <2>3. copy[p][b].pc \in {"none", "done", "failed", "lost"}
    BY AttemptsCounted DEF Copies
  <2>4. QED BY <2>1, <2>2, <2>3
<1>3. QED BY <1>1, <1>2, ExcuseInit, DeliveryInvariant, PTL DEF Spec

-----------------------------------------------------------------------------
(* The order of POSTs *)

\* What a POST that is Replicated leaves behind: nothing that could be applied.
LEMMA ReplicatedIsQuiet ==
  ASSUME TypeInv, DeliveryInv, NEW p \in Posts, Replicated(p), NEW a \in requests
  PROVE  a.post # p
<1>1. SUFFICES ASSUME a.post = p PROVE FALSE OBVIOUS
<1>2. a \in Attempts /\ a.to \in Backends /\ a.number \in Nat
  BY ReplicationConstants DEF TypeInv, TypeOK, Attempts
<1>3. Sent(a) /\ a \notin Range(applied[a.to]) /\ a = Attempt(p, a.to, a.number)
  BY <1>1, <1>2, AttemptIsItsParts DEF DeliveryInv
<1>4. forward[p].pc = "replicating" BY DEF Replicated
<1>5. CASE a.number = 0
  <2>1. forward[p].origin = a.to BY <1>1, <1>3, <1>5 DEF Sent
  <2>2. a \in Range(applied[a.to])
    BY <1>3, <1>4, <1>5, <2>1 DEF DeliveryInv, SuccessIsApplied
  <2>3. QED BY <1>3, <2>2
<1>6. CASE a.number # 0
  <2>1. copy[p][a.to].pc # "none" /\ a.number <= copy[p][a.to].attempts
    BY <1>1, <1>3, <1>6 DEF Sent
  <2>2. copy[p][a.to].pc = "done" /\ copy[p][a.to].attempts = 1
    BY <1>2, <2>1 DEF Replicated
  <2>3. a = Current(p, a.to)
    <3>1. a.number = 1 BY <1>2, <1>6, <2>1, <2>2
    <3>2. QED BY <1>3, <2>2, <3>1 DEF Current
  <2>4. QED BY <1>2, <1>3, <2>2, <2>3 DEF DeliveryInv, SuccessIsApplied
<1>7. QED BY <1>5, <1>6

LEMMA ReplicatedIsStable ==
  ASSUME TypeInv, [Next]_vars, NEW p \in Posts, Replicated(p)
  PROVE  Replicated(p)'
<1>a. forward \in [Posts -> Forwards] /\ copy \in [Posts -> [Backends -> Copies]]
  BY DEF TypeInv, TypeOK
<1>b. /\ forward[p].pc = "replicating" /\ forward[p].next = BackendCount
      /\ \A b \in Backends : copy[p][b].pc \in {"none", "done"}
  BY DEF Replicated
<1>1. ASSUME forward'[p] = forward[p], copy'[p] = copy[p] PROVE Replicated(p)'
  BY <1>1 DEF Replicated
<1>2. ASSUME NEW q \in Posts, ForwardFails(q) \/ Worker(q) PROVE Replicated(p)'
  <2>1. CASE ForwardFails(q) \/ ForwardAnswered(q) \/ ForwardUnanswered(q)
    <3>1. q # p BY <1>b, <2>1 DEF ForwardFails, ForwardAnswered, ForwardUnanswered
    <3>2. QED
      BY <1>1, <1>a, <2>1, <3>1
      DEF ForwardFails, ForwardAnswered, ForwardUnanswered, StartReplicating,
          StopForward
  <2>2. ASSUME NEW b \in Backends, ReplicateTo(q, b) PROVE Replicated(p)'
    <3>1. q # p BY <1>b, <2>2, ReplicationConstants DEF ReplicateTo, IsTarget, Backends
    <3>2. forward'[p] = forward[p] BY <1>a, <2>2, <3>1 DEF ReplicateTo, IsTarget
    <3>3. copy'[p] = copy[p] BY <1>a, <2>2, <3>1 DEF ReplicateTo, IsTarget
    <3>4. QED BY <1>1, <3>2, <3>3
  <2>3. QED BY <1>2, <2>1, <2>2 DEF Worker
<1>3. ASSUME NEW q \in Posts, NEW b \in Backends, ForwardSend(q, b) PROVE Replicated(p)'
  BY <1>1, <1>3, <1>a, <1>b DEF ForwardSend
<1>4. ASSUME NEW q \in Posts, NEW b \in Backends, ReplicatorWorker(q, b)
      PROVE  Replicated(p)'
  <2>1. copy[q][b].pc \in {"trying", "waiting", "marking"} /\ forward' = forward
    BY <1>4
    DEF ReplicatorWorker, TryFails, TrySends, ReadsSuccess, ReadsNoSuccess, GivesUp
  <2>2. q # p BY <1>b, <2>1
  <2>3. copy'[p] = copy[p]
    BY <1>4, <1>a, <2>2
    DEF ReplicatorWorker, TryFails, TrySends, ReadsSuccess, ReadsNoSuccess, GivesUp
  <2>4. QED BY <1>1, <2>1, <2>3
<1>5. CASE \E b \in Backends : Backend(b) \/ Die(b) \/ HealthVerdict(b)
  BY <1>1, <1>5 DEF Backend, Serve, Refuse, Die, HealthVerdict
<1>6. CASE UNCHANGED vars BY <1>1, <1>6 DEF vars
<1>7. CASE ProxyDies
  <2>1. \A b \in Backends : copy[p][b].pc \notin Active BY <1>b DEF Active
  <2>2. \A b \in Backends : copy'[p][b] = copy[p][b] BY <1>7, <2>1, Deaths
  <2>3. forward'[p].pc = "replicating" /\ forward'[p].next = BackendCount
    BY <1>7, <1>b, Deaths
  <2>4. QED BY <2>2, <2>3 DEF Replicated
<1>8. QED BY <1>2, <1>3, <1>4, <1>5, <1>6, <1>7 DEF Next

OrderInv ==
  /\ \A p, q \in Posts : <<p, q>> \in precedes => Replicated(p)
  /\ ReplicatedInOrder

LEMMA OrderSteps ==
  ASSUME TypeInv, DeliveryInv, OrderInv, [Next]_vars
  PROVE  OrderInv'
<1>1. ASSUME precedes' = precedes, applied' = applied PROVE OrderInv'
  BY <1>1, ReplicatedIsStable DEF OrderInv, ReplicatedInOrder
<1>2. ASSUME NEW p \in Posts, NEW b \in Backends, ForwardSend(p, b) PROVE OrderInv'
  <2>1. /\ forward[p].pc = "new" /\ applied' = applied
        /\ precedes' = precedes \cup {q \in Posts : Replicated(q)} \X {p}
    BY <1>2 DEF ForwardSend
  <2>2. \A q, r \in Posts : <<q, r>> \in precedes' => Replicated(q)'
    BY <2>1, ReplicatedIsStable DEF OrderInv
  <2>3. ASSUME NEW c \in Backends, NEW a \in Range(applied[c]) PROVE a.post # p
    <3>1. a \in Attempts /\ Sent(a) BY AppliedType DEF DeliveryInv
    <3>2. a.post \in Posts /\ a.to \in Backends BY <3>1 DEF Attempts
    <3>3. forward[a.post].pc # "new"
      BY <3>1, <3>2 DEF Sent, TypeInv, LoopInv, CopyInv
    <3>4. QED BY <2>1, <3>3
  <2>4. ASSUME NEW c \in Backends, NEW i \in DOMAIN applied[c], NEW j \in DOMAIN applied[c],
               <<applied[c][i].post, applied[c][j].post>> \in precedes'
        PROVE  i < j
    <3>1. applied[c][j].post # p BY <2>3 DEF Range
    <3>2. <<applied[c][i].post, applied[c][j].post>> \in precedes BY <2>1, <2>4, <3>1
    <3>3. QED BY <3>2 DEF OrderInv, ReplicatedInOrder
  <2>5. ReplicatedInOrder' BY <2>1, <2>4 DEF ReplicatedInOrder
  <2>6. QED BY <2>2, <2>5 DEF OrderInv
<1>3. ASSUME NEW a \in requests, Serve(a) PROVE OrderInv'
  <2>1. a \in Attempts /\ a.to \in Backends /\ a.post \in Posts
    BY <1>3 DEF TypeInv, TypeOK, Attempts
  <2>2. precedes' = precedes BY <1>3 DEF Serve, history
  <2>3. \A q \in Posts : <<a.post, q>> \notin precedes
    BY <2>1, ReplicatedIsQuiet DEF OrderInv
  <2>4. ASSUME NEW c \in Backends, NEW i \in DOMAIN applied'[c], NEW j \in DOMAIN applied'[c],
               <<applied'[c][i].post, applied'[c][j].post>> \in precedes
        PROVE  i < j
    <3>1. applied \in [Backends -> Seq(Attempts)] BY DEF TypeInv, TypeOK
    <3>2. CASE c # a.to
      <4>1. applied'[c] = applied[c] BY <1>3, <2>1, <3>1, <3>2 DEF Serve
      <4>2. QED BY <2>4, <4>1 DEF OrderInv, ReplicatedInOrder
    <3>3. CASE c = a.to
      <4> DEFINE s == applied[c]
      <4>1. applied'[c] = Append(s, a) /\ s \in Seq(Attempts)
        BY <1>3, <2>1, <3>1, <3>3 DEF Serve
      <4> HIDE DEF s
      <4>2. /\ DOMAIN applied'[c] = 1 .. Len(s) + 1 /\ DOMAIN s = 1 .. Len(s)
            /\ Len(s) \in Nat /\ applied'[c][Len(s) + 1] = a
            /\ \A k \in 1 .. Len(s) : applied'[c][k] = s[k]
        BY <2>1, <4>1
      <4>3. applied'[c][j].post \in Posts
        <5>1. \A k \in 1 .. Len(s) : s[k] \in Attempts BY <4>1, <4>2
        <5>2. applied'[c][j] \in Attempts BY <2>1, <4>2, <5>1
        <5>3. QED BY <5>2 DEF Attempts
      <4>4. i \in 1 .. Len(s) BY <2>3, <2>4, <4>2, <4>3
      <4>5. CASE j = Len(s) + 1 BY <4>2, <4>4, <4>5
      <4>6. CASE j \in 1 .. Len(s)
        <5>1. <<s[i].post, s[j].post>> \in precedes BY <2>4, <4>2, <4>4, <4>6
        <5>2. QED BY <4>2, <4>4, <4>6, <5>1 DEF OrderInv, ReplicatedInOrder, s
      <4>7. QED BY <4>2, <4>5, <4>6
    <3>4. QED BY <3>2, <3>3
  <2>5. ReplicatedInOrder' BY <2>2, <2>4 DEF ReplicatedInOrder
  <2>6. QED BY <2>2, <2>5, ReplicatedIsStable DEF OrderInv
<1>4. CASE \E p \in Posts : ForwardFails(p) \/ Worker(p)
  BY <1>1, <1>4
  DEF ForwardFails, Worker, ForwardAnswered, ForwardUnanswered, StartReplicating,
      StopForward, ReplicateTo, IsTarget, history
<1>5. CASE \E p \in Posts, b \in Backends : ReplicatorWorker(p, b)
  BY <1>1, <1>5
  DEF ReplicatorWorker, TryFails, TrySends, ReadsSuccess, ReadsNoSuccess, GivesUp, history
<1>6. CASE \E b \in Backends : Die(b) \/ HealthVerdict(b)
  BY <1>1, <1>6 DEF Die, HealthVerdict, history
<1>7. CASE \E a \in requests : Refuse(a) BY <1>1, <1>7 DEF Refuse, history
<1>8. CASE UNCHANGED vars BY <1>1, <1>8 DEF vars, history
<1>9. CASE ProxyDies BY <1>1, <1>9 DEF ProxyDies
<1>10. QED BY <1>2, <1>3, <1>4, <1>5, <1>6, <1>7, <1>8, <1>9 DEF Next, Backend

\* POSTs of which one was sent after the other had been replicated without a
\* retry have the same order on every backend that has both.
THEOREM PostsStayInOrder == Spec => []ReplicatedInOrder
<1>1. Init => OrderInv BY DEF Init, OrderInv, ReplicatedInOrder
<1>2. TypeInv /\ DeliveryInv /\ OrderInv /\ [Next]_vars => OrderInv' BY OrderSteps
<1>3. OrderInv => ReplicatedInOrder BY DEF OrderInv
<1>4. QED BY <1>1, <1>2, <1>3, DeliveryInvariant, PTL DEF Spec

-----------------------------------------------------------------------------
(* Once, and in agreement *)

\* No backend applies an attempt twice.
DistinctInv ==
  \A b \in Backends : \A i, j \in DOMAIN applied[b] :
    applied[b][i] = applied[b][j] => i = j

LEMMA DistinctSteps ==
  ASSUME TypeInv, DeliveryInv, DistinctInv, [Next]_vars
  PROVE  DistinctInv'
<1>1. ASSUME applied' = applied PROVE DistinctInv' BY <1>1 DEF DistinctInv
<1>2. ASSUME NEW a \in requests, Serve(a) PROVE DistinctInv'
  <2>1. /\ a \in Attempts /\ a.to \in Backends
        /\ applied \in [Backends -> Seq(Attempts)]
        /\ a \notin Range(applied[a.to])
    BY DEF TypeInv, TypeOK, DeliveryInv, Attempts
  <2>2. SUFFICES ASSUME NEW c \in Backends,
                        NEW i \in DOMAIN applied'[c], NEW j \in DOMAIN applied'[c],
                        applied'[c][i] = applied'[c][j]
                 PROVE  i = j
    BY DEF DistinctInv
  <2>3. CASE c # a.to
    <3>1. applied'[c] = applied[c] BY <1>2, <2>1, <2>3 DEF Serve
    <3>2. QED BY <2>2, <3>1 DEF DistinctInv
  <2>4. CASE c = a.to
    <3> DEFINE s == applied[c]
    <3>1. applied'[c] = Append(s, a) /\ s \in Seq(Attempts)
      BY <1>2, <2>1, <2>4 DEF Serve
    <3>2. \A k \in DOMAIN s : s[k] # a BY <2>1, <2>4 DEF Range
    <3>3. \A k, l \in DOMAIN s : s[k] = s[l] => k = l BY DEF DistinctInv
    <3> HIDE DEF s
    <3>4. QED BY <2>1, <2>2, <3>1, <3>2, <3>3
  <2>5. QED BY <2>3, <2>4
<1>3. CASE \E p \in Posts : ForwardFails(p) \/ Worker(p)
  BY <1>1, <1>3
  DEF ForwardFails, Worker, ForwardAnswered, ForwardUnanswered, StartReplicating,
      StopForward, ReplicateTo, IsTarget
<1>4. CASE \E p \in Posts, b \in Backends : ForwardSend(p, b) \/ ReplicatorWorker(p, b)
  BY <1>1, <1>4
  DEF ForwardSend, ReplicatorWorker, TryFails, TrySends, ReadsSuccess, ReadsNoSuccess, GivesUp
<1>5. CASE \E b \in Backends : Die(b) \/ HealthVerdict(b)
  BY <1>1, <1>5 DEF Die, HealthVerdict
<1>6. CASE \E a \in requests : Refuse(a) BY <1>1, <1>6 DEF Refuse
<1>7. CASE UNCHANGED vars BY <1>1, <1>7 DEF vars
<1>8. CASE ProxyDies BY <1>1, <1>8 DEF ProxyDies
<1>9. QED BY <1>2, <1>3, <1>4, <1>5, <1>6, <1>7, <1>8 DEF Next, Backend

\* Where the first attempt succeeded there is no other.
First(p, b) == IF b = forward[p].origin THEN Attempt(p, b, 0) ELSE Attempt(p, b, 1)

LEMMA OnlyTheFirst ==
  ASSUME TypeInv, DeliveryInv, NEW p \in Posts, NEW b \in Backends,
         forward[p].pc = "replicating",
         b = forward[p].origin \/ copy[p][b] = [pc |-> "done", attempts |-> 1]
  PROVE  /\ First(p, b) \in Range(applied[b])
         /\ \A a \in Range(applied[b]) : a.post = p <=> a = First(p, b)
<1>1. CopyInv(p, b) BY DEF TypeInv, LoopInv
<1>2. First(p, b) \in Range(applied[b])
  <2>1. CASE b = forward[p].origin BY <2>1 DEF First, DeliveryInv, SuccessIsApplied
  <2>2. CASE b # forward[p].origin
    <3>1. copy[p][b].pc = "done" /\ Current(p, b) = Attempt(p, b, 1)
      BY <2>2 DEF Current
    <3>2. QED BY <2>2, <3>1 DEF First, DeliveryInv, SuccessIsApplied
  <2>3. QED BY <2>1, <2>2
<1>3. ASSUME NEW a \in Range(applied[b]), a.post = p PROVE a = First(p, b)
  <2>1. /\ a \in Attempts /\ a.to = b /\ Sent(a) /\ a.number \in Nat
        /\ a = Attempt(p, b, a.number)
    BY <1>3, AppliedType, AttemptIsItsParts, ReplicationConstants
    DEF DeliveryInv, Attempts
  <2>2. CASE b = forward[p].origin
    <3>1. copy[p][b].pc = "none" BY <1>1, <2>2 DEF CopyInv
    <3>2. a.number = 0 BY <1>3, <2>1, <3>1 DEF Sent
    <3>3. QED BY <2>1, <2>2, <3>2 DEF First
  <2>3. CASE b # forward[p].origin
    <3>1. a.number # 0 BY <1>3, <2>1, <2>3 DEF Sent
    <3>2. a.number <= 1 BY <1>3, <2>1, <2>3, <3>1 DEF Sent
    <3>3. a.number = 1 BY <2>1, <3>1, <3>2
    <3>4. QED BY <2>1, <2>3, <3>3 DEF First
  <2>4. QED BY <2>2, <2>3
<1>4. First(p, b).post = p BY DEF First, Attempt
<1>5. QED BY <1>2, <1>3, <1>4

LEMMA OneIndex ==
  ASSUME TypeInv, DeliveryInv, DistinctInv, NEW p \in Posts, NEW b \in Backends,
         forward[p].pc = "replicating",
         b = forward[p].origin \/ copy[p][b] = [pc |-> "done", attempts |-> 1]
  PROVE  \E i \in DOMAIN applied[b] :
           \A j \in DOMAIN applied[b] : applied[b][j].post = p <=> j = i
<1>1. PICK i \in DOMAIN applied[b] : applied[b][i] = First(p, b)
  BY OnlyTheFirst DEF Range
<1>2. ASSUME NEW j \in DOMAIN applied[b] PROVE applied[b][j].post = p <=> j = i
  <2>1. applied[b][j] \in Range(applied[b]) BY DEF Range
  <2>2. applied[b][j].post = p <=> applied[b][j] = First(p, b) BY <2>1, OnlyTheFirst
  <2>3. applied[b][j] = applied[b][i] => j = i BY DEF DistinctInv
  <2>4. QED BY <1>1, <2>2, <2>3
<1>3. QED BY <1>2

THEOREM DistinctInvariant == Spec => [](TypeInv /\ DeliveryInv /\ DistinctInv)
<1>1. Init => DistinctInv BY DEF Init, DistinctInv
<1>2. TypeInv /\ DeliveryInv /\ DistinctInv /\ [Next]_vars => DistinctInv'
  BY DistinctSteps
<1>3. QED BY <1>1, <1>2, DeliveryInvariant, PTL DEF Spec

\* Only a retry repeats a POST: its origin, and a backend whose first attempt
\* was answered, have applied it once.
THEOREM PostsAppliedOnce == Spec => []AppliedOnce
<1>1. TypeInv /\ DeliveryInv /\ DistinctInv => AppliedOnce BY OneIndex DEF AppliedOnce
<1>2. QED BY <1>1, DistinctInvariant, PTL

\* A backend that has stayed in rotation has every replicated POST.
LEMMA NotExcusedHasIt ==
  ASSUME TypeInv, DeliveryInv, ExcuseInv, NEW p \in Posts, NEW b \in Backends,
         Replicated(p), <<p, b>> \notin excused
  PROVE  b = forward[p].origin \/ copy[p][b] = [pc |-> "done", attempts |-> 1]
<1>1. SUFFICES ASSUME b # forward[p].origin
               PROVE  copy[p][b] = [pc |-> "done", attempts |-> 1]
  OBVIOUS
<1>2. forward[p].pc = "replicating" /\ forward[p].next > b
  BY ReplicationConstants DEF Replicated, Backends
<1>3. copy[p][b].pc # "none" BY <1>1, <1>2 DEF ExcuseInv, Excuse
<1>4. copy[p][b].pc = "done" /\ copy[p][b].attempts = 1 BY <1>3 DEF Replicated
<1>5. copy[p][b] \in Copies BY DEF TypeInv, TypeOK
<1>6. QED BY <1>4, <1>5 DEF Copies, Active

LEMMA ContentFacts ==
  ASSUME TypeInv, NEW b \in Backends
  PROVE  /\ Len(applied[b]) \in Nat /\ DOMAIN applied[b] = 1 .. Len(applied[b])
         /\ DOMAIN Content(b) = 1 .. Len(applied[b])
         /\ \A i \in 1 .. Len(applied[b]) :
              /\ Content(b)[i] = applied[b][i].post
              /\ Content(b)[i] \in Posts /\ Applied(Content(b)[i], b)
<1>1. applied[b] \in Seq(Attempts) BY DEF TypeInv, TypeOK
<1>2. Len(applied[b]) \in Nat /\ DOMAIN applied[b] = 1 .. Len(applied[b]) BY <1>1
<1>3. \A i \in 1 .. Len(applied[b]) : applied[b][i] \in Attempts BY <1>1
<1>4. \A i \in 1 .. Len(applied[b]) : applied[b][i].post \in Posts BY <1>3 DEF Attempts
<1>5. QED BY <1>2, <1>4 DEF Content, Applied, Range

\* Under the conditions of Agreed each holds what the other holds, once.
LEMMA HeldOnce ==
  ASSUME TypeInv, DeliveryInv, DistinctInv, ExcuseInv,
         NEW b \in Backends, NEW c \in Backends, Agreed(b, c)
  PROVE  /\ \A i, j \in DOMAIN Content(b) : Content(b)[i] = Content(b)[j] => i = j
         /\ \A i \in DOMAIN Content(b) : \E j \in DOMAIN Content(c) :
              Content(c)[j] = Content(b)[i]
<1>1. ASSUME NEW i \in DOMAIN Content(b)
      PROVE  \A d \in {b, c} : \E k \in DOMAIN Content(d) :
               \A j \in DOMAIN Content(d) : Content(d)[j] = Content(b)[i] <=> j = k
  <2> DEFINE p == Content(b)[i]
  <2>1. p \in Posts /\ Applied(p, b) BY ContentFacts
  <2>2. Replicated(p) /\ {<<p, b>>, <<p, c>>} \cap excused = {} BY <2>1 DEF Agreed
  <2> HIDE DEF p
  <2>3. forward[p].pc = "replicating" BY <2>2 DEF Replicated
  <2>4. ASSUME NEW d \in {b, c}
        PROVE  \E k \in DOMAIN Content(d) :
                 \A j \in DOMAIN Content(d) : Content(d)[j] = p <=> j = k
    <3>1. d = forward[p].origin \/ copy[p][d] = [pc |-> "done", attempts |-> 1]
      BY <2>1, <2>2, NotExcusedHasIt
    <3>2. \E k \in DOMAIN applied[d] :
            \A j \in DOMAIN applied[d] : applied[d][j].post = p <=> j = k
      BY <2>1, <2>3, <3>1, OneIndex
    <3>3. d \in Backends OBVIOUS
    <3>4. /\ DOMAIN Content(d) = DOMAIN applied[d]
          /\ \A j \in DOMAIN applied[d] : Content(d)[j] = applied[d][j].post
      BY <3>3, ContentFacts
    <3>5. QED BY <3>2, <3>4
  <2>5. QED BY <2>4 DEF p
<1>2. \A i \in DOMAIN Content(b) : \E k \in DOMAIN Content(b) :
        \A j \in DOMAIN Content(b) : Content(b)[j] = Content(b)[i] <=> j = k
  BY <1>1
<1>3. QED BY <1>1, <1>2

\* precedes is the order of both.
LEMMA HeldInOrder ==
  ASSUME TypeInv, OrderInv, NEW b \in Backends,
         NEW i \in DOMAIN Content(b), NEW j \in DOMAIN Content(b),
         <<Content(b)[i], Content(b)[j]>> \in precedes
  PROVE  i < j
BY ContentFacts DEF OrderInv, ReplicatedInOrder

LEMMA AgreedMeansEqual ==
  ASSUME TypeInv, DeliveryInv, DistinctInv, ExcuseInv, OrderInv,
         NEW b \in Backends, NEW c \in Backends, Agreed(b, c)
  PROVE  Content(b) = Content(c)
<1>1. Agreed(c, b) BY DEF Agreed
<1> DEFINE m(d) == Len(applied[d])
<1>2. /\ m(b) \in Nat /\ DOMAIN Content(b) = 1 .. m(b)
      /\ m(c) \in Nat /\ DOMAIN Content(c) = 1 .. m(c)
  BY ContentFacts
<1> HIDE DEF m
<1>3. ASSUME NEW d \in {b, c}, NEW e \in {b, c}, d # e
      PROVE  \A i \in 1 .. m(d) : i \in 1 .. m(e) /\ Content(e)[i] = Content(d)[i]
  <2>1. Agreed(d, e) /\ Agreed(e, d) /\ m(d) \in Nat /\ m(e) \in Nat
    BY <1>1, <1>2, <1>3
  <2>2. /\ \A i, j \in 1 .. m(d) : Content(d)[i] = Content(d)[j] => i = j
        /\ \A i \in 1 .. m(d) : \E j \in 1 .. m(e) : Content(e)[j] = Content(d)[i]
    BY <1>2, <2>1, HeldOnce
  <2>3. /\ \A i, j \in 1 .. m(e) : Content(e)[i] = Content(e)[j] => i = j
        /\ \A j \in 1 .. m(e) : \E i \in 1 .. m(d) : Content(e)[j] = Content(d)[i]
    <3>1. \A j \in 1 .. m(e) : \E i \in 1 .. m(d) : Content(d)[i] = Content(e)[j]
      BY <1>2, <2>1, HeldOnce
    <3>2. \A i, j \in 1 .. m(e) : Content(e)[i] = Content(e)[j] => i = j
      BY <1>2, <2>1, HeldOnce
    <3>3. QED BY <3>1, <3>2
  <2>4. /\ \A i, j \in 1 .. m(d) : <<Content(d)[i], Content(d)[j]>> \in precedes => i < j
        /\ \A i, j \in 1 .. m(e) : <<Content(e)[i], Content(e)[j]>> \in precedes => i < j
    BY <1>2, HeldInOrder
  <2>5. ASSUME NEW i \in 1 .. m(d), NEW j \in 1 .. m(d), i # j
        PROVE  \/ <<Content(d)[i], Content(d)[j]>> \in precedes
               \/ <<Content(d)[j], Content(d)[i]>> \in precedes
    <3>1. Content(d)[i] # Content(d)[j] BY <2>2, <2>5
    <3>2. \A k \in {i, j} : Content(d)[k] \in Posts /\ Applied(Content(d)[k], d)
      BY ContentFacts DEF m
    <3>3. QED BY <2>1, <3>1, <3>2 DEF Agreed
  <2> DEFINE s == Content(d)
             t == Content(e)
             k == m(d)
             n == m(e)
  <2>6. k \in Nat /\ n \in Nat /\ SortedAlike(k, s, n, t, precedes)
    BY <2>1, <2>2, <2>3, <2>4, <2>5, Zenon DEF SortedAlike
  <2> HIDE DEF s, t, k, n
  <2>7. \A i \in 1 .. k : i \in 1 .. n /\ t[i] = s[i] BY <2>6, SameOrder
  <2>8. QED BY <2>7 DEF s, t, k, n
<1>4. CASE b # c
  <2>1. \A i \in 1 .. m(b) : i \in 1 .. m(c) /\ Content(c)[i] = Content(b)[i]
    BY <1>3, <1>4
  <2>2. \A i \in 1 .. m(c) : i \in 1 .. m(b) BY <1>3, <1>4
  <2>3. m(b) = m(c) BY <1>2, <2>1, <2>2
  <2>4. QED BY <1>2, <2>1, <2>3 DEF Content
<1>5. QED BY <1>4

\* What succeeds at the first attempt is applied once, and backends that stayed
\* in rotation while POSTs were replicated one after the other without a retry
\* hold the same POSTs in the same order.
THEOREM ReplicasEndEqual == Spec => []ReplicasAgree
<1>1. Init => ExcuseInv /\ OrderInv
  BY ExcuseInit DEF Init, OrderInv, ReplicatedInOrder
<1>2. TypeInv /\ ExcuseInv /\ [Next]_vars => ExcuseInv' BY ExcuseSteps
<1>3. TypeInv /\ DeliveryInv /\ OrderInv /\ [Next]_vars => OrderInv' BY OrderSteps
<1>4. TypeInv /\ DeliveryInv /\ DistinctInv /\ ExcuseInv /\ OrderInv => ReplicasAgree
  BY OneIndex, AgreedMeansEqual DEF ReplicasAgree, AppliedOnce
<1>5. QED BY <1>1, <1>2, <1>3, <1>4, DistinctInvariant, PTL DEF Spec

-----------------------------------------------------------------------------
(* The threads use up their attempts *)

\* A bound on the steps the thread of p for b has before it.
Left(p, b) ==
  LET c == copy[p][b] IN
    CASE c.pc = "none"    -> 2 * MaxAttempts + 2
      [] c.pc = "trying"  -> 2 * (MaxAttempts - c.attempts) + 1
      [] c.pc = "waiting" -> 2 * (MaxAttempts - c.attempts) + 2
      [] c.pc = "marking" -> 1
      [] OTHER            -> 0

Shortens(p, b) == copy'[p][b] # copy[p][b] => Left(p, b)' < Left(p, b)

LEMMA OneThreadShortens ==
  ASSUME TypeInv, NEW p \in Posts, NEW b \in Backends, NEW c \in Copies,
         copy' = [copy EXCEPT ![p][b] = c],
         \/ copy[p][b].pc = "none" /\ c.pc = "trying" /\ c.attempts = copy[p][b].attempts
         \/ /\ copy[p][b].pc = "trying" /\ c.attempts = copy[p][b].attempts + 1
            /\ c.pc \in {"trying", "waiting", "marking"}
         \/ /\ copy[p][b].pc = "waiting" /\ c.attempts = copy[p][b].attempts
            /\ c.pc \in {"trying", "marking", "done"}
         \/ copy[p][b].pc = "marking" /\ c.pc = "failed"
  PROVE  \A q \in Posts, d \in Backends : Shortens(q, d)
<1>1. copy \in [Posts -> [Backends -> Copies]] /\ CopyInv(p, b)
  BY DEF TypeInv, TypeOK, LoopInv
<1>2. copy'[p][b] = c BY <1>1
<1>3. \A q \in Posts, d \in Backends : ~(q = p /\ d = b) => copy'[q][d] = copy[q][d]
  BY <1>1
<1>4. /\ copy[p][b].attempts \in 0 .. MaxAttempts /\ c.attempts \in 0 .. MaxAttempts
      /\ MaxAttempts \in Nat
      /\ copy[p][b].pc = "none" => copy[p][b].attempts = 0
  BY <1>1, ReplicationConstants DEF Copies, Active, CopyInv
<1>5. Left(p, b)' < Left(p, b) BY <1>2, <1>4 DEF Left
<1>6. QED BY <1>3, <1>5 DEF Shortens

LEMMA ThreadsShorten ==
  ASSUME TypeInv, TypeInv', [Next]_vars
  PROVE  \A p \in Posts, b \in Backends : Shortens(p, b)
<1>a. \A p \in Posts, b \in Backends : copy[p][b] \in Copies /\ copy'[p][b] \in Copies
  BY DEF TypeInv, TypeOK
<1>b. copy \in [Posts -> [Backends -> Copies]] BY DEF TypeInv, TypeOK
<1>1. ASSUME copy' = copy PROVE \A p \in Posts, b \in Backends : Shortens(p, b)
  BY <1>1 DEF Shortens
<1>2. ASSUME NEW p \in Posts, NEW b \in Backends, ReplicateTo(p, b)
      PROVE  \A q \in Posts, d \in Backends : Shortens(q, d)
  <2>1. CASE copy' = copy BY <1>1, <2>1
  <2>2. CASE copy' = [copy EXCEPT ![p][b].pc = "trying"]
    <3> DEFINE c == [copy[p][b] EXCEPT !.pc = "trying"]
    <3>1. forward[p].next = b BY <1>2 DEF ReplicateTo
    <3>2. copy[p][b].pc = "none"
      BY <3>1 DEF TypeInv, LoopInv, CopyInv, Backends
    <3>3. /\ copy' = [copy EXCEPT ![p][b] = c]
          /\ c \in Copies /\ c.pc = "trying" /\ c.attempts = copy[p][b].attempts
      BY <1>a, <2>2 DEF Copies, Active
    <3>4. QED BY <3>2, <3>3, OneThreadShortens
  <2>3. QED BY <1>2, <2>1, <2>2 DEF ReplicateTo
<1>3. ASSUME NEW p \in Posts, NEW b \in Backends, ReplicatorWorker(p, b)
      PROVE  \A q \in Posts, d \in Backends : Shortens(q, d)
  <2> DEFINE c == copy'[p][b]
  <2>1. copy' = [copy EXCEPT ![p][b] = c]
    BY <1>3, <1>b
    DEF ReplicatorWorker, TryFails, TrySends, ReadsSuccess, ReadsNoSuccess, GivesUp
  <2>2. copy[p][b].attempts \in 0 .. MaxAttempts BY <1>a, CopyParts
  <2>3. \A n \in Int : AfterFailure(n) \in {"trying", "marking"} BY DEF AfterFailure
  <2>4. CASE TryFails(p, b) \/ TrySends(p, b)
    <3>1. /\ copy[p][b].pc = "trying" /\ c.attempts = copy[p][b].attempts + 1
          /\ c.pc \in {"trying", "waiting", "marking"}
      BY <1>b, <2>2, <2>3, <2>4 DEF TryFails, TrySends, AfterSend
    <3>2. QED BY <1>a, <2>1, <3>1, OneThreadShortens
  <2>5. CASE ReadsSuccess(p, b) \/ ReadsNoSuccess(p, b)
    <3>1. PICK l \in {"trying", "marking", "done"} :
            copy[p][b].pc = "waiting" /\ copy' = [copy EXCEPT ![p][b].pc = l]
      BY <2>2, <2>3, <2>5 DEF ReadsSuccess, ReadsNoSuccess
    <3>2. c.pc = l /\ c.attempts = copy[p][b].attempts
      BY <1>a, <1>b, <3>1 DEF Copies, Active
    <3>3. /\ c \in Copies /\ copy[p][b].pc = "waiting"
          /\ c.pc \in {"trying", "marking", "done"}
      BY <1>a, <3>1, <3>2
    <3> HIDE DEF c
    <3>4. QED BY <2>1, <3>2, <3>3, OneThreadShortens
  <2>6. CASE GivesUp(p, b)
    <3>1. copy[p][b].pc = "marking" /\ c.pc = "failed"
      BY <1>a, <1>b, <2>6 DEF GivesUp, Copies, Active
    <3>2. QED BY <1>a, <2>1, <3>1, OneThreadShortens
  <2>7. QED BY <1>3, <2>4, <2>5, <2>6 DEF ReplicatorWorker
<1>4. CASE \E p \in Posts :
             \/ ForwardFails(p) \/ ForwardAnswered(p) \/ ForwardUnanswered(p)
             \/ \E b \in Backends : ForwardSend(p, b)
  BY <1>1, <1>4
  DEF ForwardFails, ForwardAnswered, ForwardUnanswered, StartReplicating,
      StopForward, ForwardSend
<1>5. CASE \E b \in Backends : Backend(b) \/ Die(b) \/ HealthVerdict(b)
  BY <1>1, <1>5 DEF Backend, Serve, Refuse, Die, HealthVerdict
<1>6. CASE UNCHANGED vars BY <1>1, <1>6 DEF vars
<1>7. CASE ProxyDies
  <2> SUFFICES ASSUME NEW p \in Posts, NEW b \in Backends, copy'[p][b] # copy[p][b]
               PROVE  Left(p, b)' < Left(p, b)
    BY DEF Shortens
  <2>1. copy[p][b].pc \in {"trying", "waiting", "marking"} /\ copy'[p][b].pc = "lost"
    BY <1>7, Deaths DEF Active
  <2>2. copy[p][b].attempts \in 0 .. MaxAttempts /\ MaxAttempts \in Nat
    BY <1>a, CopyParts, ReplicationConstants
  <2>3. QED BY <2>1, <2>2 DEF Left
<1>8. QED BY <1>2, <1>3, <1>4, <1>5, <1>6, <1>7 DEF Next, Worker

\* Each step of a replicator thread brings it nearer to its end, whatever
\* happens to its connections, and nothing takes it back: of CopiesEnd, what
\* does not depend on fairness.
THEOREM EveryTryCounts ==
  Spec => [][\A p \in Posts, b \in Backends : Left(p, b) \in Nat /\ Shortens(p, b)]_vars
<1>1. TypeInv => \A p \in Posts, b \in Backends : Left(p, b) \in Nat
  <2> SUFFICES ASSUME TypeInv, NEW p \in Posts, NEW b \in Backends
               PROVE  Left(p, b) \in Nat
    OBVIOUS
  <2>1. copy[p][b] \in Copies BY DEF TypeInv, TypeOK
  <2>2. copy[p][b].attempts \in 0 .. MaxAttempts /\ MaxAttempts \in Nat
    BY <2>1, CopyParts, ReplicationConstants
  <2>3. QED BY <2>2 DEF Left
<1>2. TypeInv /\ TypeInv' /\ [Next]_vars =>
        [\A p \in Posts, b \in Backends : Left(p, b) \in Nat /\ Shortens(p, b)]_vars
  BY <1>1, ThreadsShorten
<1>3. QED BY <1>2, TypeInvariant, PTL DEF Spec
=============================================================================
