--------------------------- MODULE FairSelection ---------------------------
(***************************************************************************)
(* What the load balancer promises the clients of the proxy, without the   *)
(* round-robin index that keeps the promise: requests only go to backends  *)
(* believed healthy, and a backend that stays healthy is passed over fewer *)
(* than BackendCount times in a row.                                       *)
(***************************************************************************)
EXTENDS Integers

CONSTANT BackendCount          \* number of configured backends

VARIABLES healthy,             \* healthy[b]: b may be selected
          bypassed             \* bypassed[b]: selections of other backends
                               \* since b became healthy or was last selected
vars == <<healthy, bypassed>>

Backends == 0 .. BackendCount - 1

\* The counts after a selection of b.
BypassedAfter(b) ==
  [c \in Backends |-> IF c = b \/ ~healthy[c] THEN 0 ELSE bypassed[c] + 1]

Init == /\ healthy \in [Backends -> BOOLEAN]
        /\ bypassed = [b \in Backends |-> 0]

\* A request goes to b. No other healthy backend has run out of patience.
Pick(b) ==
  /\ healthy[b]
  /\ \A c \in Backends \ {b} : healthy[c] => bypassed[c] < BackendCount - 1
  /\ bypassed' = BypassedAfter(b)
  /\ UNCHANGED healthy

\* The belief about b is revised, by a health check or by a replicator.
SetHealth(b, h) ==
  /\ healthy' = [healthy EXCEPT ![b] = h]
  /\ bypassed' = IF h THEN bypassed ELSE [bypassed EXCEPT ![b] = 0]

Next == \E b \in Backends : Pick(b) \/ \E h \in BOOLEAN : SetHealth(b, h)

Spec == Init /\ [][Next]_vars
============================================================================
