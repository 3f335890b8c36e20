------------------------------ MODULE FileStore ------------------------------
(***************************************************************************)
(* What the origin server promises about its files, without the steps by   *)
(* which it gets there: a file comes into being empty and only ever grows, *)
(* by the whole body of one request at a time, or by the beginning of one  *)
(* when the disk is full; each request adds to one file, once; and what a  *)
(* request reads is what one file held at one moment.                      *)
(***************************************************************************)
EXTENDS Sequences, Functions

CONSTANTS Writers, Files, Original, Nothing

VARIABLES stored,   \* the files that exist
          content,  \* what each holds
          seen      \* what each request has read, or Nothing
vars == <<stored, content, seen>>

Blocks == [by : Writers \cup {Original}, whole : BOOLEAN]

Init == /\ stored \in SUBSET Files
        /\ content = [f \in Files |-> IF f \in stored
                                      THEN <<[by |-> Original, whole |-> TRUE]>>
                                      ELSE <<>>]
        /\ seen = [r \in Writers |-> Nothing]

Create(f) == /\ f \notin stored
             /\ stored' = stored \cup {f}
             /\ UNCHANGED <<content, seen>>

Extend(r, f, whole) ==
  /\ f \in stored
  /\ \A g \in Files : \A block \in Range(content[g]) : block.by # r
  /\ content' = [content EXCEPT ![f] = Append(@, [by |-> r, whole |-> whole])]
  /\ UNCHANGED <<stored, seen>>

Read(r, f) == /\ seen[r] = Nothing
              /\ f \in stored
              /\ seen' = [seen EXCEPT ![r] = content[f]]
              /\ UNCHANGED <<stored, content>>

\* What these requests have read will not be told to anybody.
Forget(lost) ==
  /\ seen' = [r \in Writers |-> IF r \in lost THEN Nothing ELSE seen[r]]
  /\ UNCHANGED <<stored, content>>

Next == \/ \E f \in Files : Create(f)
        \/ \E r \in Writers, f \in Files :
             Read(r, f) \/ \E whole \in BOOLEAN : Extend(r, f, whole)
        \/ \E lost \in SUBSET Writers : Forget(lost)

Spec == Init /\ [][Next]_vars
=============================================================================
