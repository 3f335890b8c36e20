---------------------------- MODULE PostDelivery ----------------------------
(***************************************************************************)
(* What replication promises about the content of the backends, without    *)
(* the threads that bring it about: a POST takes effect at one backend     *)
(* first, its origin, and once; from then on it may take effect at the     *)
(* others, at most once for each attempt to copy it there.  Nothing is     *)
(* ever taken back.                                                        *)
(***************************************************************************)
EXTENDS Integers, Sequences, Functions

CONSTANTS Posts, Backends, MaxAttempts, Nowhere

VARIABLES origin,   \* where each POST took effect first, or Nowhere
          holds     \* holds[b]: the attempts, as <<post, number>>, that took
                    \* effect at b, in order; the forward of a POST is its
                    \* attempt 0
vars == <<origin, holds>>

Init == /\ origin = [p \in Posts |-> Nowhere]
        /\ holds = [b \in Backends |-> <<>>]

Accept(p, b) ==
  /\ origin[p] = Nowhere
  /\ origin' = [origin EXCEPT ![p] = b]
  /\ holds' = [holds EXCEPT ![b] = Append(@, <<p, 0>>)]

Copy(p, b, n) ==
  /\ origin[p] \notin {Nowhere, b}
  /\ <<p, n>> \notin Range(holds[b])
  /\ holds' = [holds EXCEPT ![b] = Append(@, <<p, n>>)]
  /\ UNCHANGED origin

Next == \E p \in Posts, b \in Backends :
          Accept(p, b) \/ \E n \in 1 .. MaxAttempts : Copy(p, b, n)

Spec == Init /\ [][Next]_vars
=============================================================================
