----------------------------- MODULE FoldLemmas -----------------------------
(***************************************************************************)
(* Lemmas about FoldLeft of SequencesExt, which folds over the sets of     *)
(* positions from the greatest one down: they turn a fold into a trace,    *)
(* whose value after a position is the operator applied to the value       *)
(* before it. Induction is by the least number of a set.                   *)
(***************************************************************************)
EXTENDS SequencesExt, Integers, WellFoundedInduction, TLAPS

(* A set of numbers has a least one: all induction here comes from this.   *)
LEMMA LeastNumber ==
    ASSUME NEW I, I \subseteq Nat, I # {}
    PROVE  \E m \in I : \A i \in I : m <= i
<1> DEFINE R == OpToRel(<, Nat)
<1>1. IsWellFoundedOn(R, Nat)
  BY NatLessThanWellFounded
<1>2. \A x \in Nat, y \in Nat : y < x => <<y, x>> \in R
  BY DEF OpToRel
<1> HIDE DEF R
<1>3. PICK m \in I : \A y \in I : ~(<<y, m>> \in R)
  BY <1>1, WFMin
<1>4. ASSUME NEW y \in I PROVE m <= y
  <2>1. y \in Nat /\ m \in Nat
    OBVIOUS
  <2>2. ~(y < m)
    BY <1>2, <1>3, <2>1
  <2> QED
    BY <2>1, <2>2
<1> QED
  BY <1>4

(* What holds of 0, and of m + 1 where it holds of m, holds up to n.       *)
LEMMA UpTo ==
    ASSUME NEW n \in Nat, NEW P, 0 \in P, \A m \in 1 .. n : m - 1 \in P => m \in P
    PROVE  0 .. n \subseteq P
<1> DEFINE Bad == {m \in 0 .. n : m \notin P}
<1> SUFFICES ASSUME Bad # {} PROVE FALSE
  OBVIOUS
<1>1. Bad \subseteq Nat
  OBVIOUS
<1>2. PICK m \in Bad : \A i \in Bad : m <= i
  BY <1>1, LeastNumber
<1>3. m \in 1 .. n /\ m - 1 \in 0 .. n
  BY <1>2
<1>4. m - 1 \in P
  BY <1>2, <1>3
<1> QED
  BY <1>2, <1>3, <1>4

(* A set of positions has a greatest one.                                  *)
LEMMA GreatestPosition ==
    ASSUME NEW n \in Nat, NEW s, s \subseteq 1 .. n, s # {}
    PROVE  Max(s) \in s /\ \A i \in s : i <= Max(s)
<1> DEFINE I == {n - x : x \in s}
<1>0. \A x \in s : x \in 1 .. n
  OBVIOUS
<1>1. I \subseteq Nat /\ I # {}
  <2>1. ASSUME NEW x \in s PROVE n - x \in Nat
    BY <1>0
  <2>2. PICK x \in s : TRUE
    OBVIOUS
  <2>3. n - x \in I
    BY <2>2
  <2> QED
    BY <2>1, <2>3
<1>2. PICK m \in I : \A i \in I : m <= i
  BY <1>1, LeastNumber
<1>3. PICK x \in s : m = n - x
  BY <1>2
<1>4. ASSUME NEW y \in s PROVE x >= y
  <2>1. n - y \in I
    OBVIOUS
  <2>2. n - x <= n - y
    BY <1>2, <1>3, <2>1
  <2> QED
    BY <1>0, <2>2
<1>5. \E y \in s : \A z \in s : y >= z
  BY <1>4
<1>6. Max(s) \in s /\ \A z \in s : Max(s) >= z
  BY <1>5 DEF Max
<1> QED
  BY <1>6

(* The greatest position of a prefix, and what is left without it.         *)
LEMMA PrefixMax ==
    ASSUME NEW n \in Nat, NEW m \in 1 .. n
    PROVE  Max(1 .. m) = m /\ (1 .. m) \ {m} = 1 .. (m - 1) /\ 1 .. m # {}
<1>1. 1 .. m \subseteq 1 .. n /\ m \in 1 .. m
  OBVIOUS
<1>2. Max(1 .. m) \in 1 .. m /\ m <= Max(1 .. m)
  BY <1>1, GreatestPosition
<1> QED
  BY <1>2

(* f is the function that a fold over n positions chooses. h is the        *)
(* operator, with the position in place of the element.                    *)
Folds(f, n, base, h) ==
    \A s \in SUBSET (1 .. n) :
        f[s] = IF s = {} THEN base ELSE h[<<Max(s), f[s \ {Max(s)}]>>]

(* That function exists.                                                   *)
LEMMA FoldExists ==
    ASSUME NEW n \in Nat, NEW V, NEW base \in V,
           NEW h \in [(1 .. n) \X V -> V]
    PROVE  \E f \in [SUBSET (1 .. n) -> V] : Folds(f, n, base, h)
<1> DEFINE P == {m \in 0 .. n :
                    \E f \in [SUBSET (1 .. m) -> V] : Folds(f, m, base, h)}
<1>1. 0 \in P
  <2> DEFINE g == [s \in SUBSET (1 .. 0) |-> base]
  <2>1. \A s \in SUBSET (1 .. 0) : s = {}
    OBVIOUS
  <2>2. g \in [SUBSET (1 .. 0) -> V] /\ Folds(g, 0, base, h)
    BY <2>1 DEF Folds
  <2> HIDE DEF g
  <2>3. \E f \in [SUBSET (1 .. 0) -> V] : Folds(f, 0, base, h)
    BY <2>2
  <2>4. 0 \in 0 .. n
    OBVIOUS
  <2> QED
    BY <2>3, <2>4
<1>2. ASSUME NEW m \in 1 .. n, m - 1 \in P PROVE m \in P
  <2>1. PICK f \in [SUBSET (1 .. (m - 1)) -> V] : Folds(f, m - 1, base, h)
    BY <1>2
  <2> DEFINE g == [s \in SUBSET (1 .. m) |->
                      IF m \in s THEN h[<<m, f[s \ {m}]>>] ELSE f[s]]
  <2>2. ASSUME NEW s \in SUBSET (1 .. m)
        PROVE  /\ s \ {m} \in SUBSET (1 .. (m - 1))
               /\ m \in s => Max(s) = m
               /\ m \notin s => s \in SUBSET (1 .. (m - 1))
    <3>1. m \in Nat /\ \A i \in s : i \in 1 .. m
      OBVIOUS
    <3>2. m \in s => Max(s) \in s /\ m <= Max(s)
      BY <3>1, GreatestPosition
    <3>3. \A i \in s \ {m} : i \in 1 .. (m - 1)
      BY <3>1
    <3>4. s \ {m} \subseteq 1 .. (m - 1)
      BY <3>3
    <3>5. ASSUME m \in s PROVE Max(s) = m
      <4>1. Max(s) \in 1 .. m
        BY <3>1, <3>2, <3>5
      <4>2. m <= Max(s)
        BY <3>2, <3>5
      <4> QED
        BY <4>1, <4>2
    <3>6. m \notin s => s \subseteq 1 .. (m - 1)
      BY <3>3
    <3> QED
      BY <3>4, <3>5, <3>6
  <2>3. g \in [SUBSET (1 .. m) -> V]
    <3> SUFFICES ASSUME NEW s \in SUBSET (1 .. m) PROVE g[s] \in V
      OBVIOUS
    <3>1. m \in s => f[s \ {m}] \in V
      BY <2>2
    <3>2. m \in s => <<m, f[s \ {m}]>> \in (1 .. n) \X V
      BY <3>1
    <3> QED
      BY <2>2, <3>2
  <2>4. ASSUME NEW s \in SUBSET (1 .. m)
        PROVE  g[s] = IF s = {} THEN base ELSE h[<<Max(s), g[s \ {Max(s)}]>>]
    <3>1. CASE m \in s
      <4>1. g[s \ {m}] = f[s \ {m}]
        BY <2>2
      <4> QED
        BY <2>2, <3>1, <4>1
    <3>2. CASE m \notin s
      <4>1. s \in SUBSET (1 .. (m - 1)) /\ g[s] = f[s]
        BY <2>2, <3>2
      <4>2. s # {} => Max(s) \in s
        <5>1. m \in Nat
          OBVIOUS
        <5> QED
          BY <5>1, GreatestPosition
      <4>3. s # {} => g[s \ {Max(s)}] = f[s \ {Max(s)}]
        BY <3>2, <4>1
      <4> QED
        BY <2>1, <4>1, <4>3 DEF Folds
    <3> QED
      BY <3>1, <3>2
  <2>5. Folds(g, m, base, h)
    BY <2>4 DEF Folds
  <2> HIDE DEF g
  <2> QED
    BY <2>3, <2>5
<1>3. n \in P
  <2> HIDE DEF P
  <2>1. 0 .. n \subseteq P
    BY <1>1, <1>2, UpTo
  <2> QED
    BY <2>1
<1> QED
  BY <1>3

(* Along the prefixes its values are a trace.                              *)
LEMMA FoldTrace ==
    ASSUME NEW n \in Nat, NEW V, NEW base \in V,
           NEW h \in [(1 .. n) \X V -> V], NEW f, f[{}] = base,
           \A m \in 1 .. n : f[1 .. (m - 1)] \in V =>
               f[1 .. m] = h[<<m, f[1 .. (m - 1)]>>]
    PROVE  \A m \in 0 .. n : f[1 .. m] \in V
<1> DEFINE P == {m \in 0 .. n : f[1 .. m] \in V}
<1>1. 0 \in P
  <2>1. 1 .. 0 = {}
    OBVIOUS
  <2> QED
    BY <2>1
<1>2. ASSUME NEW m \in 1 .. n, m - 1 \in P PROVE m \in P
  <2>1. f[1 .. (m - 1)] \in V /\ <<m, f[1 .. (m - 1)]>> \in (1 .. n) \X V
    BY <1>2
  <2>2. h[<<m, f[1 .. (m - 1)]>>] \in V
    BY <2>1
  <2> QED
    BY <2>1, <2>2
<1> HIDE DEF P
<1>3. 0 .. n \subseteq P
  BY <1>1, <1>2, UpTo
<1> QED
  BY <1>3 DEF P

(* f follows the operator h along the prefixes of n positions, as far as   *)
(* it is in V.                                                             *)
Follows(f, n, V, base, h) ==
    /\ h \in [(1 .. n) \X V -> V]
    /\ f[{}] = base
    /\ \A m \in 1 .. n : f[1 .. (m - 1)] \in V =>
           f[1 .. m] = h[<<m, f[1 .. (m - 1)]>>]

(* h has a trace over n positions, and it ends where f does.               *)
HasTrace(f, n, V, base, h) ==
    \E e \in [0 .. n -> V] :
        /\ e[0] = base /\ e[n] = f[1 .. n]
        /\ \A m \in 1 .. n : e[m] = h[<<m, e[m - 1]>>]

(* The trace, by number of elements folded.                                *)
LEMMA FoldPrefixes ==
    ASSUME NEW n \in Nat, NEW V, NEW base \in V, NEW h, NEW f,
           Follows(f, n, V, base, h)
    PROVE  HasTrace(f, n, V, base, h)
<1> DEFINE e == [m \in 0 .. n |-> f[1 .. m]]
<1>1. \A m \in 0 .. n : f[1 .. m] \in V
  <2>1. /\ h \in [(1 .. n) \X V -> V]
        /\ f[{}] = base
        /\ \A m \in 1 .. n : f[1 .. (m - 1)] \in V =>
               f[1 .. m] = h[<<m, f[1 .. (m - 1)]>>]
    BY DEF Follows
  <2> QED
    BY <2>1, FoldTrace, Zenon
<1>2. \A m \in 0 .. n : e[m] = f[1 .. m]
  OBVIOUS
<1>3. e \in [0 .. n -> V]
  BY <1>1
<1> HIDE DEF e
<1>4. 1 .. 0 = {} /\ 0 \in 0 .. n /\ n \in 0 .. n
  OBVIOUS
<1>5. e[0] = base /\ e[n] = f[1 .. n]
  BY <1>2, <1>4 DEF Follows
<1>6. ASSUME NEW m \in 1 .. n PROVE e[m] = h[<<m, e[m - 1]>>]
  <2>1. m \in 0 .. n /\ m - 1 \in 0 .. n
    OBVIOUS
  <2> QED
    BY <1>1, <1>2, <2>1 DEF Follows
<1> QED
  BY <1>3, <1>5, <1>6 DEF HasTrace
=============================================================================
