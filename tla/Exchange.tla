------------------------------ MODULE Exchange ------------------------------
(***************************************************************************)
(* What a client connection of the proxy promises, without streams,        *)
(* buffers and sockets: requests have their turn one at a time and in the  *)
(* order of the client, and none comes back.  In its turn a request is     *)
(* sent to a backend at most once and answered at most once.  What was     *)
(* sent has the answer of the backend; what was not sent is refused by the *)
(* proxy, or gets its 502, which only such a request can get: it may be    *)
(* sent again.  The other refusals have statuses that backends use, too.   *)
(***************************************************************************)
EXTENDS Integers, Sequences

CONSTANTS Requests,   \* numbered as the client sends them
          Refusals,   \* statuses of the requests that the proxy refuses
          Replies,    \* statuses of the answers of a backend
          BadGateway, \* status of a request that could not be sent
          Nobody      \* no request

VARIABLES turn,       \* the request that has its turn, or Nobody
          forwarded,  \* the requests that were sent to a backend
          answers     \* the answers that reached the client
vars == <<turn, forwarded, answers>>

Init == turn = Nobody /\ forwarded = <<>> /\ answers = <<>>

Fresh(r) == /\ \A i \in DOMAIN answers : answers[i].to < r
            /\ \A i \in DOMAIN forwarded : forwarded[i] < r

Sent(r) == \E i \in DOMAIN forwarded : forwarded[i] = r

Take(r) == /\ turn = Nobody /\ Fresh(r)
           /\ turn' = r
           /\ UNCHANGED <<forwarded, answers>>

Forward == /\ turn # Nobody /\ ~Sent(turn)
           /\ forwarded' = Append(forwarded, turn)
           /\ UNCHANGED <<turn, answers>>

Statuses(r) == IF Sent(r) THEN Replies ELSE Refusals \cup {BadGateway}

Reply == /\ turn # Nobody
         /\ \E s \in Statuses(turn) :
              answers' = Append(answers, [to |-> turn, status |-> s])
         /\ turn' = Nobody
         /\ UNCHANGED forwarded

\* The client has left.
GiveUp == /\ turn # Nobody
          /\ turn' = Nobody
          /\ UNCHANGED <<forwarded, answers>>

Next == \/ \E r \in Requests : Take(r)
        \/ Forward \/ Reply \/ GiveUp

Spec == Init /\ [][Next]_vars
=============================================================================
