------------------------------ MODULE Induction ------------------------------
(***************************************************************************)
(* Induction and recursion over the naturals as facts about sets and       *)
(* functions, for the proofs about loops that the modules write as         *)
(* recursive functions.                                                    *)
(***************************************************************************)
EXTENDS Integers, Sequences, SequencesExt, TLAPS, WellFoundedInduction, NaturalsInduction

(* A set of naturals has a least element.                                  *)
LEMMA Least ==
  ASSUME NEW T, T \subseteq Nat, T # {}
  PROVE  \E x \in T : \A y \in T : x <= y
<1>1. PICK x \in T : \A y \in T : <<y, x>> \notin OpToRel(<, Nat)
  BY NatLessThanWellFounded, WFMin, Zenon
<1>2. \A y \in T : ~(y < x)
  BY <1>1, Zenon DEF OpToRel
<1> QED
  BY <1>2

(* What holds of 0 and is kept by each of n steps holds throughout.        *)
LEMMA UpTo ==
  ASSUME NEW n \in Nat, NEW T, 0 \in T, \A k \in 1 .. n : k - 1 \in T => k \in T
  PROVE  \A k \in 0 .. n : k \in T
<1> DEFINE Bad == {k \in 0 .. n : k \notin T}
<1>1. ASSUME Bad # {} PROVE FALSE
  <2>1. PICK x \in Bad : \A y \in Bad : x <= y
    <3>1. Bad \subseteq Nat
      OBVIOUS
    <3> HIDE DEF Bad
    <3> QED
      BY <1>1, <3>1, Least
  <2>2. x \in 1 .. n /\ x - 1 \in 0 .. n /\ x - 1 \notin Bad
    BY <2>1
  <2> QED
    BY <2>2
<1>2. \A k \in 0 .. n : k \in Bad \/ k \in T
  OBVIOUS
<1> QED
  BY <1>1, <1>2

(* A loop: from z, step k takes what step k - 1 left.                      *)
IsLoop(f, n, S, z, step) ==
  /\ f \in [0 .. n -> S] /\ f[0] = z
  /\ \A k \in 1 .. n : f[k] = step[k][f[k - 1]]
LEMMA Loop ==
  ASSUME NEW n \in Nat, NEW S, NEW z \in S, NEW step \in [1 .. n -> [S -> S]]
  PROVE  \E f : IsLoop(f, n, S, z, step)
<1> DEFINE Runs(m, f) == IsLoop(f, m, S, z, step)
           T == {m \in 0 .. n : \E f : Runs(m, f)}
<1>1. 0 \in T
  <2>1. Runs(0, [k \in 0 .. 0 |-> z])
    BY DEF IsLoop
  <2> HIDE DEF Runs
  <2> QED
    BY <2>1
<1>2. ASSUME NEW m \in 1 .. n, m - 1 \in T
      PROVE  m \in T
  <2>1. PICK f : Runs(m - 1, f)
    BY <1>2
  <2> DEFINE g == [k \in 0 .. m |-> IF k = m THEN step[m][f[m - 1]] ELSE f[k]]
  <2>2. f[m - 1] \in S /\ step[m][f[m - 1]] \in S
    BY <2>1 DEF IsLoop
  <2>3. g \in [0 .. m -> S] /\ g[0] = z
    BY <2>1, <2>2 DEF IsLoop
  <2>4. ASSUME NEW k \in 1 .. m PROVE g[k] = step[k][g[k - 1]]
    BY <2>1 DEF IsLoop
  <2>5. Runs(m, g)
    BY <2>3, <2>4 DEF IsLoop
  <2> HIDE DEF Runs, g
  <2> QED
    BY <2>5
<1> HIDE DEF T
<1>3. \A m \in 0 .. n : m \in T
  BY <1>1, <1>2, UpTo
<1>4. n \in T
  BY <1>3
<1> QED
  BY <1>4 DEF T

-----------------------------------------------------------------------------
(* Positions, in blocks and within them *)

LEMMA Quotient ==
  ASSUME NEW a \in Nat \ {0}, NEW q \in Nat, NEW r \in 0 .. a - 1
  PROVE  (q * a + r) \div a = q /\ (q * a + r) % a = r
OBVIOUS

LEMMA Split ==
  ASSUME NEW x \in Nat, NEW a \in Nat \ {0}
  PROVE  /\ x \div a \in Nat /\ x % a \in 0 .. a - 1
         /\ x = (x \div a) * a + (x % a)
OBVIOUS

LEMMA Product ==
  ASSUME NEW p \in Nat, NEW q \in Nat, NEW a \in Nat \ {0}, p < q
  PROVE  p * a + a <= q * a /\ p * a \in Nat /\ q * a \in Nat
<1>1. (q - p - 1) \in Nat /\ q * a = p * a + a + (q - p - 1) * a
  OBVIOUS
<1>2. \A d \in Nat : d * a \in Nat
  OBVIOUS
<1> QED
  BY <1>1, <1>2

-----------------------------------------------------------------------------
(* Sequences and what is in them *)

LEMMA Element ==
  ASSUME NEW S, NEW s \in Seq(S), NEW k \in 1 .. Len(s)
  PROVE  s[k] \in S
OBVIOUS

LEMMA ConcatSet ==
  ASSUME NEW T, NEW x \in Seq(T), NEW y \in Seq(T)
  PROVE  ToSet(x \o y) = ToSet(x) \cup ToSet(y)
<1> DEFINE z == x \o y
<1>1. /\ z \in Seq(T) /\ Len(z) = Len(x) + Len(y) /\ Len(x) \in Nat /\ Len(y) \in Nat
      /\ \A i \in 1 .. Len(x) : z[i] = x[i] /\ i \in 1 .. Len(z)
      /\ \A i \in 1 .. Len(y) : z[Len(x) + i] = y[i] /\ Len(x) + i \in 1 .. Len(z)
  OBVIOUS
<1>2. /\ DOMAIN z = 1 .. Len(z) /\ DOMAIN x = 1 .. Len(x) /\ DOMAIN y = 1 .. Len(y)
  BY <1>1
<1> HIDE DEF z
<1>3. ASSUME NEW i \in 1 .. Len(z) PROVE z[i] \in ToSet(x) \cup ToSet(y)
  <2>1. CASE i <= Len(x)
    BY <1>1, <1>2, <2>1 DEF ToSet
  <2>2. CASE ~(i <= Len(x))
    <3>1. i - Len(x) \in 1 .. Len(y) /\ Len(x) + (i - Len(x)) = i
      BY <1>1, <2>2
    <3>2. z[i] = y[i - Len(x)]
      BY <1>1, <3>1
    <3> QED
      BY <1>2, <3>1, <3>2 DEF ToSet
  <2> QED
    BY <2>1, <2>2
<1>4. ToSet(x) \cup ToSet(y) \subseteq ToSet(z)
  BY <1>1, <1>2 DEF ToSet
<1> QED
  BY <1>2, <1>3, <1>4 DEF ToSet, z

LEMMA Flattened ==
  ASSUME NEW n \in Nat, NEW T, NEW s \in [1 .. n -> Seq(T)]
  PROVE  /\ FlattenSeq(s) \in Seq(T)
         /\ ToSet(FlattenSeq(s)) = UNION {ToSet(s[k]) : k \in 1 .. n}
<1> DEFINE step == [k \in 1 .. n |-> [x \in Seq(T) |-> x \o s[k]]]
           Def(f) == f = [k \in 1 .. n |-> IF k = 1 THEN s[k] ELSE f[k - 1] \o s[k]]
<1>1. Len(s) = n
  OBVIOUS
<1>2. CASE n = 0
  <2>1. s = <<>>
    BY <1>2
  <2>2. FlattenSeq(s) = <<>> /\ ToSet(<<>>) = {} /\ 1 .. n = {}
    BY <1>1, <1>2, <2>1 DEF FlattenSeq, ToSet
  <2> QED
    BY <2>2
<1>3. CASE n # 0
  <2>1. step \in [1 .. n -> [Seq(T) -> Seq(T)]]
    OBVIOUS
  <2>2. <<>> \in Seq(T)
    OBVIOUS
  <2> HIDE DEF step
  <2>3. PICK f : IsLoop(f, n, Seq(T), <<>>, step)
    BY <2>1, <2>2, Loop
  <2>4. \A k \in 1 .. n : k - 1 \in 0 .. n /\ k \in 0 .. n
    OBVIOUS
  <2>5. \A k \in 0 .. n : f[k] \in Seq(T)
    BY <2>3 DEF IsLoop
  <2>6. \A k \in 1 .. n : f[k] = f[k - 1] \o s[k]
    BY <2>3, <2>4, <2>5 DEF IsLoop, step
  <2>7. f[1] = s[1]
    <3>1. 1 \in 1 .. n /\ 1 - 1 = 0
      BY <1>3
    <3>2. f[1] = <<>> \o s[1]
      BY <3>1, <2>3, <2>6 DEF IsLoop
    <3> QED
      BY <3>1, <3>2
  <2> DEFINE g == [k \in 1 .. n |-> f[k]]
  <2>8. g = [k \in 1 .. n |-> IF k = 1 THEN s[k] ELSE g[k - 1] \o s[k]]
    <3> SUFFICES ASSUME NEW k \in 1 .. n
                 PROVE  f[k] = IF k = 1 THEN s[k] ELSE g[k - 1] \o s[k]
      OBVIOUS
    <3>1. CASE k = 1
      BY <3>1, <2>7
    <3>2. CASE k # 1
      <4>1. k - 1 \in 1 .. n
        BY <3>2
      <4> QED
        BY <3>2, <4>1, <2>6
    <3> QED
      BY <3>1, <3>2
  <2>9. Def(g)
    BY <2>8
  <2> DEFINE h == CHOOSE x : Def(x)
  <2>10. Def(h)
    <3> HIDE DEF Def, g
    <3> QED
      BY <2>9
  <2>11. FlattenSeq(s) = h[n]
    BY <1>1, <1>3 DEF FlattenSeq
  <2> HIDE DEF h
  <2>12. h = [k \in 1 .. n |-> IF k = 1 THEN s[k] ELSE h[k - 1] \o s[k]]
    BY <2>10
  <2> HIDE DEF Def
  <2> DEFINE All(k) == UNION {ToSet(s[i]) : i \in 1 .. k}
             U == {k \in 0 .. n : k = 0 \/ (h[k] \in Seq(T) /\ ToSet(h[k]) = All(k))}
  <2>13. 0 \in U
    OBVIOUS
  <2>14. ASSUME NEW k \in 1 .. n, k - 1 \in U PROVE k \in U
    <3>1. CASE k = 1
      <4>1. h[k] = s[1] /\ 1 .. k = {1} /\ s[1] \in Seq(T)
        BY <3>1, <2>12
      <4> QED
        BY <3>1, <4>1
    <3>2. CASE k # 1
      <4>1. h[k - 1] \in Seq(T) /\ s[k] \in Seq(T) /\ ToSet(h[k - 1]) = All(k - 1)
        BY <2>14, <3>2
      <4>2. h[k] = h[k - 1] \o s[k]
        BY <2>12, <3>2
      <4>3. h[k - 1] \o s[k] \in Seq(T)
        BY <4>1
      <4>4. h[k] \in Seq(T)
        BY <4>2, <4>3, Zenon
      <4>5. k \in 0 .. n /\ 1 .. k = (1 .. (k - 1)) \cup {k}
        OBVIOUS
      <4>6. ToSet(h[k]) = ToSet(h[k - 1]) \cup ToSet(s[k])
        BY <4>1, <4>2, ConcatSet
      <4>7. ToSet(h[k]) = All(k)
        BY <4>1, <4>5, <4>6
      <4> QED
        BY <4>4, <4>5, <4>7
    <3> QED
      BY <3>1, <3>2
  <2> HIDE DEF U
  <2>15. \A k \in 0 .. n : k \in U
    BY <2>13, <2>14, UpTo
  <2>16. n \in U
    BY <2>15
  <2> QED
    BY <2>11, <2>16, <1>3 DEF U
<1> QED
  BY <1>2, <1>3
=============================================================================
