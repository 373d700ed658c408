--------------------------- MODULE SequenceLemmas ---------------------------
(***************************************************************************)
(* Least numbers, and induction on the length of a sequence: where the     *)
(* library's induction theorems take an operator, these take a set.        *)
(***************************************************************************)
EXTENDS Integers, Sequences, SequenceTheorems, WellFoundedInduction, TLAPS

Below == {s \in Nat \X Nat : s[1] < s[2]}

\* A set of natural numbers has a least one.
LEMMA LeastExists ==
  ASSUME NEW T, T \subseteq Nat, T # {}
  PROVE  \E x \in T : \A y \in T : x <= y
<1>1. IsWellFoundedOn(Below, Nat)
  BY NatLessThanWellFounded, Zenon DEF OpToRel, Below
<1>2. PICK x \in T : \A y \in T : ~ (<<y, x>> \in Below)
  BY <1>1, WFMin, Zenon
<1>3. ASSUME NEW y \in T PROVE x <= y
  <2>1. x \in Nat /\ y \in Nat /\ ~ (<<y, x>> \in Below)
    BY <1>2
  <2>. QED
    BY <2>1 DEF Below
<1>. QED
  BY <1>3

\* What holds for no elements, and for one more if it does for some, holds for all.
LEMMA SeqInduction ==
  ASSUME NEW S, NEW T, <<>> \in T,
         \A s \in Seq(S) : \A x \in S : s \in T => Append(s, x) \in T
  PROVE  \A s \in Seq(S) : s \in T
<1>. DEFINE Bad == {n \in Nat : \E s \in Seq(S) : s \notin T /\ Len(s) = n}
<1>1. SUFFICES ASSUME NEW s \in Seq(S), s \notin T PROVE FALSE
  OBVIOUS
<1>2. PICK m \in Bad : \A k \in Bad : m <= k
  <2>1. Bad \subseteq Nat
    OBVIOUS
  <2>2. Len(s) \in Bad
    BY <1>1
  <2>. QED
    BY <2>1, <2>2, LeastExists
<1>3. PICK u \in Seq(S) : u \notin T /\ Len(u) = m
  BY <1>2
<1>4. PICK f \in Seq(S), x \in S : u = Append(f, x)
  <2>1. u # <<>>
    BY <1>3
  <2>. QED
    BY <2>1, SequenceEmptyOrAppend
<1>5. m = Len(f) + 1 /\ Len(f) \in Nat
  BY <1>3, <1>4
<1>6. f \in T
  <2>1. Len(f) \notin Bad
    BY <1>2, <1>5
  <2>. QED
    BY <1>5, <2>1
<1>. QED
  BY <1>3, <1>4, <1>6

=============================================================================
