----------------------------- MODULE QueueLemmas -----------------------------
(***************************************************************************)
(* Sequences without repetitions: what the queues of free slots, pending   *)
(* events, free blocks and task data are.  Numbers: a set has a least one. *)
(***************************************************************************)
EXTENDS Integers, Sequences, FiniteSetTheorems, WellFoundedInduction, TLAPS

\* An element that is not in the queue may be appended.
LEMMA AppendOnce ==
  ASSUME NEW S, NEW q \in Seq(S), NEW x \in S, IsInjective(q), x \notin Range(q)
  PROVE  /\ Append(q, x) \in Seq(S)
         /\ IsInjective(Append(q, x))
         /\ Range(Append(q, x)) = Range(q) \union {x}
<1> DEFINE r == Append(q, x)
<1>1. /\ Len(q) \in Nat /\ DOMAIN q = 1 .. Len(q) /\ DOMAIN r = 1 .. Len(q) + 1
      /\ \A i \in 1 .. Len(q) : r[i] = q[i]
      /\ r[Len(q) + 1] = x
  OBVIOUS
<1>2. IsInjective(r)
  BY <1>1 DEF IsInjective, Range
<1>3. Range(r) = Range(q) \union {x}
  <2>1. ASSUME NEW y \in Range(r) PROVE y \in Range(q) \union {x}
    BY <1>1, <2>1 DEF Range
  <2>2. ASSUME NEW y \in Range(q) PROVE y \in Range(r)
    BY <1>1, <2>2 DEF Range
  <2>3. x \in Range(r)
    <3>1. Len(q) + 1 \in DOMAIN r
      BY <1>1
    <3> QED
      BY <1>1, <3>1 DEF Range
  <2> QED
    BY <2>1, <2>2, <2>3
<1> QED
  BY <1>2, <1>3

\* The head of the queue is taken: it is not in the rest.
LEMMA TailOnce ==
  ASSUME NEW S, NEW q \in Seq(S), q # <<>>, IsInjective(q)
  PROVE  /\ Head(q) \in S /\ Head(q) \in Range(q)
         /\ Tail(q) \in Seq(S)
         /\ IsInjective(Tail(q))
         /\ Range(Tail(q)) = Range(q) \ {Head(q)}
<1> DEFINE r == Tail(q)
<1>1. /\ Len(q) \in Nat \ {0} /\ DOMAIN q = 1 .. Len(q) /\ DOMAIN r = 1 .. Len(q) - 1
      /\ \A i \in 1 .. Len(q) - 1 : r[i] = q[i + 1]
      /\ Head(q) = q[1] /\ q[1] \in S /\ r \in Seq(S)
  OBVIOUS
<1>2. IsInjective(r)
  BY <1>1 DEF IsInjective
<1>3. Head(q) \in Range(q)
  BY <1>1 DEF Range
<1>4. Range(r) = Range(q) \ {Head(q)}
  <2>1. ASSUME NEW y \in Range(r) PROVE y \in Range(q) /\ y # Head(q)
    <3>1. PICK i \in 1 .. Len(q) - 1 : y = q[i + 1]
      BY <1>1 DEF Range
    <3> QED
      BY <1>1, <3>1 DEF Range, IsInjective
  <2>2. ASSUME NEW y \in Range(q), y # Head(q) PROVE y \in Range(r)
    <3>1. PICK i \in 1 .. Len(q) : y = q[i]
      BY <1>1 DEF Range
    <3>2. i - 1 \in 1 .. Len(q) - 1 /\ r[i - 1] = y
      BY <1>1, <2>2, <3>1
    <3> QED
      BY <1>1, <3>2 DEF Range
  <2> QED
    BY <2>1, <2>2
<1> QED
  BY <1>1, <1>2, <1>3, <1>4

\* An element is in such a queue once or not at all.
LEMMA OccursOnce ==
  ASSUME NEW S, NEW q \in Seq(S), IsInjective(q), NEW x
  PROVE  Cardinality({i \in DOMAIN q : q[i] = x}) = IF x \in Range(q) THEN 1 ELSE 0
<1>1. CASE x \in Range(q)
  <2>1. PICK i \in DOMAIN q : x = q[i]
    BY <1>1 DEF Range
  <2>2. {j \in DOMAIN q : q[j] = x} = {i}
    BY <2>1 DEF IsInjective
  <2> QED
    BY <1>1, <2>2, FS_Singleton
<1>2. CASE x \notin Range(q)
  <2>1. {j \in DOMAIN q : q[j] = x} = {}
    BY <1>2 DEF Range
  <2> QED
    BY <1>2, <2>1, FS_EmptySet
<1> QED
  BY <1>1, <1>2

\* At most one of a finite number of candidates.
LEMMA OneAtMost ==
  ASSUME NEW S, IsFiniteSet(S), \A x, y \in S : x = y
  PROVE  Cardinality(S) = IF S = {} THEN 0 ELSE 1
<1>1. CASE S = {}
  BY <1>1, FS_EmptySet
<1>2. CASE S # {}
  <2>1. PICK x \in S : TRUE
    BY <1>2
  <2>2. S = {x}
    BY <2>1
  <2> QED
    BY <1>2, <2>2, FS_Singleton
<1> QED
  BY <1>1, <1>2

\* A set of numbers has a least one.
LEMMA Least ==
  ASSUME NEW T, T \subseteq Nat, T # {}
  PROVE  \E m \in T : \A n \in T : m <= n
<1>1. PICK R : IsWellFoundedOn(R, Nat) /\ \A x, y \in Nat : x < y => <<x, y>> \in R
  <2>1. \E R : R = OpToRel(<, Nat)
    OBVIOUS
  <2>2. \A x, y \in Nat : x < y => <<x, y>> \in OpToRel(<, Nat)
    BY DEF OpToRel
  <2>3. IsWellFoundedOn(OpToRel(<, Nat), Nat)
    BY NatLessThanWellFounded
  <2> QED
    BY <2>1, <2>2, <2>3
<1>2. \E x \in T : \A y \in T : ~ (<<y, x>> \in R)
  <2>1. IsWellFoundedOn(R, Nat)
    BY <1>1
  <2> QED
    BY <2>1, WFMin, ZenonT(60)
<1>3. PICK x \in T : \A y \in T : ~ (y < x)
  BY <1>1, <1>2
<1> QED
  BY <1>3
=============================================================================
