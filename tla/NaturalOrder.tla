---------------------------- MODULE NaturalOrder ----------------------------
(***************************************************************************)
(* Facts about the natural numbers that the proofs of other modules need:  *)
(* sets of them have a least element, induction in the form of a set, and  *)
(* a sequence without repetition is determined by the order of its         *)
(* elements.                                                               *)
(***************************************************************************)
EXTENDS Integers, WellFoundedInduction, TLAPS

LEMMA Minimum ==
  ASSUME NEW T, T \subseteq Nat, T # {}
  PROVE  \E x \in T : \A y \in T : x <= y
<1> DEFINE R == OpToRel(<, Nat)
<1>1. IsWellFoundedOn(R, Nat) BY NatLessThanWellFounded, Zenon
<1>2. \A x, y \in Nat : x < y => <<x, y>> \in R BY DEF OpToRel
<1> HIDE DEF R
<1>3. \E x \in T : \A y \in T : ~ (<<y, x>> \in R) BY <1>1, WFMin
<1>4. \A x \in T : x \in Nat OBVIOUS
<1>5. \A x, y \in T : ~(<<y, x>> \in R) => x <= y BY <1>2, <1>4, SMT
<1>6. QED BY <1>3, <1>5, Zenon

\* Induction, as a statement about the set of numbers for which something holds.
LEMMA EveryNumber ==
  ASSUME NEW T, 0 \in T, \A n \in Nat : n \in T => n + 1 \in T
  PROVE  \A n \in Nat : n \in T
<1> SUFFICES ASSUME NEW m \in Nat, m \notin T PROVE FALSE OBVIOUS
<1> DEFINE U == {n \in Nat : n \notin T}
<1>1. U \subseteq Nat /\ U # {} OBVIOUS
<1>2. PICK x \in U : \A y \in U : x <= y BY <1>1, Minimum, Zenon
<1>3. x \in Nat /\ x \notin T /\ x # 0 OBVIOUS
<1>4. x - 1 \in Nat /\ ~(x <= x - 1) /\ (x - 1) + 1 = x BY <1>3
<1>5. x - 1 \in T BY <1>2, <1>4
<1>6. QED BY <1>3, <1>4, <1>5

\* The functions s on 1 .. m and t on 1 .. n have the same values, each once,
\* and respect an order that compares any two of them.
SortedAlike(m, s, n, t, order) ==
  /\ \A i \in 1 .. m : \E j \in 1 .. n : t[j] = s[i]
  /\ \A j \in 1 .. n : \E i \in 1 .. m : t[j] = s[i]
  /\ \A i, j \in 1 .. m : s[i] = s[j] => i = j
  /\ \A i, j \in 1 .. n : t[i] = t[j] => i = j
  /\ \A i, j \in 1 .. m : <<s[i], s[j]>> \in order => i < j
  /\ \A i, j \in 1 .. n : <<t[i], t[j]>> \in order => i < j
  /\ \A i, j \in 1 .. m :
       i # j => <<s[i], s[j]>> \in order \/ <<s[j], s[i]>> \in order

LEMMA SameOrder ==
  ASSUME NEW m \in Nat, NEW n \in Nat, NEW s, NEW t, NEW order,
         SortedAlike(m, s, n, t, order)
  PROVE  \A i \in 1 .. m : i \in 1 .. n /\ t[i] = s[i]
<1> USE DEF SortedAlike
<1> DEFINE Agree(i) == i \in 1 .. n /\ t[i] = s[i]
           T == {i \in 1 .. m : ~Agree(i)}
<1>1. SUFFICES ASSUME T # {} PROVE FALSE OBVIOUS
<1>2. T \subseteq Nat OBVIOUS
<1>3. PICK i \in T : \A y \in T : i <= y BY <1>1, <1>2, Minimum
<1>4. /\ i \in 1 .. m /\ ~Agree(i)
      /\ \A k \in 1 .. m : k < i => Agree(k)
  BY <1>3
<1> HIDE DEF T
<1>5. PICK j \in 1 .. n : t[j] = s[i] BY <1>4
<1>6. j > i
  <2>1. CASE j < i
    <3>1. j \in 1 .. m /\ s[j] = s[i] BY <1>4, <1>5, <2>1
    <3>2. QED BY <1>4, <2>1, <3>1
  <2>2. j # i BY <1>4, <1>5
  <2>3. QED BY <1>4, <1>5, <2>1, <2>2
<1>7. i \in 1 .. n BY <1>4, <1>5, <1>6
<1>8. PICK k \in 1 .. m : t[i] = s[k] BY <1>7
<1>9. k > i
  <2>1. CASE k < i
    <3>1. k \in 1 .. n /\ t[k] = t[i] BY <1>4, <1>8, <2>1
    <3>2. QED BY <1>7, <2>1, <3>1
  <2>2. k # i BY <1>4, <1>7, <1>8
  <2>3. QED BY <1>4, <1>8, <2>1, <2>2
<1>10. CASE <<s[i], s[k]>> \in order
  <2>1. <<t[j], t[i]>> \in order BY <1>5, <1>8, <1>10
  <2>2. j < i BY <1>5, <1>7, <2>1
  <2>3. QED BY <1>4, <1>5, <1>6, <2>2
<1>11. CASE <<s[k], s[i]>> \in order
  <2>1. k < i BY <1>4, <1>8, <1>11
  <2>2. QED BY <1>4, <1>8, <1>9, <2>1
<1>12. i # k BY <1>4, <1>8, <1>9
<1>13. QED BY <1>4, <1>8, <1>10, <1>11, <1>12
=============================================================================
