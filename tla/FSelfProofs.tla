----------------------------- MODULE FSelfProofs -----------------------------
(***************************************************************************)
(* Proofs about wrapping and unwrapping, for any executables, alignment,   *)
(* block and digest size: the layout of a SELF is sound, and what it       *)
(* carries comes back.                                                     *)
(***************************************************************************)
EXTENDS FSelfProps, Induction, SequenceTheorems

-----------------------------------------------------------------------------
(* Multiples of the alignment *)

Multiple(x) == \E q \in Nat : x = q * Align

LEMMA WholeSteps ==
  ASSUME NEW x \in Nat, NEW a \in Nat \ {0}
  PROVE  x \div a \in Nat /\ (x \div a) * a <= x /\ x < (x \div a) * a + a
OBVIOUS

LEMMA RoundedUp ==
  ASSUME NEW n \in Nat, NEW a \in Nat \ {0}
  PROVE  /\ AlignUp(n, a) \in Nat /\ AlignUp(n, a) >= n
         /\ \E q \in Nat : AlignUp(n, a) = q * a
<1> DEFINE q == (n + a - 1) \div a
<1>1. n + a - 1 \in Nat
  OBVIOUS
<1>2. q \in Nat /\ n + a - 1 < q * a + a
  BY <1>1, WholeSteps
<1>3. AlignUp(n, a) = q * a
  BY DEF AlignUp
<1> HIDE DEF q
<1>4. q * a \in Nat
  BY <1>2
<1> QED
  BY <1>2, <1>3, <1>4

LEMMA MultipleOfAlign ==
  ASSUME NEW x, Multiple(x)
  PROVE  x \in Nat /\ x % Align = 0
<1>1. PICK q \in Nat : x = q * Align
  BY DEF Multiple
<1>2. \A a \in Nat \ {0} : (q * a) \in Nat /\ (q * a) % a = 0
  OBVIOUS
<1> QED
  BY <1>1, <1>2, SizesArePositive

LEMMA MultipleSum ==
  ASSUME NEW x, NEW n \in Nat, Multiple(x)
  PROVE  Multiple(x + n * Align)
<1>1. PICK q \in Nat : x = q * Align
  BY DEF Multiple
<1>2. q + n \in Nat /\ x + n * Align = (q + n) * Align
  BY <1>1, SizesArePositive
<1> QED
  BY <1>2 DEF Multiple

LEMMA Aligned ==
  ASSUME NEW n \in Nat
  PROVE  AlignUp(n, Align) \in Nat /\ AlignUp(n, Align) >= n /\ Multiple(AlignUp(n, Align))
BY RoundedUp, SizesArePositive DEF Multiple

-----------------------------------------------------------------------------
(* The program headers that get an entry *)

LEMMA WrappedDef ==
  ASSUME NEW e \in Elfs
  PROVE  /\ Wrapped(e) \in [0 .. Len(e.phdrs) -> Seq(PhdrRecords)]
         /\ Wrapped(e)[0] = <<>>
         /\ \A n \in 1 .. Len(e.phdrs) :
              Wrapped(e)[n] = IF GetsEntry(e.phdrs[n])
                              THEN Append(Wrapped(e)[n - 1], e.phdrs[n])
                              ELSE Wrapped(e)[n - 1]
<1> DEFINE N == Len(e.phdrs)
           S == Seq(PhdrRecords)
           z == <<>>
           with(n, w) == IF GetsEntry(e.phdrs[n]) THEN Append(w, e.phdrs[n]) ELSE w
           step == [n \in 1 .. N |-> [w \in S |-> with(n, w)]]
           Def(g) == g = [n \in 0 .. N |-> IF n = 0 THEN <<>>
                                           ELSE IF GetsEntry(e.phdrs[n])
                                           THEN Append(g[n - 1], e.phdrs[n])
                                           ELSE g[n - 1]]
<1>1. N \in Nat /\ z \in S /\ \A n \in 1 .. N : e.phdrs[n] \in PhdrRecords
  BY ElfsAreElfs
<1>2. step \in [1 .. N -> [S -> S]]
  <2>1. ASSUME NEW n \in 1 .. N, NEW w \in S PROVE with(n, w) \in S
    BY <1>1
  <2> HIDE DEF with, S
  <2> QED
    BY <2>1
<1>3. \E f : IsLoop(f, N, S, z, step)
  <2> HIDE DEF N, S, z, step
  <2> QED
    BY <1>1, <1>2, Loop
<1>4. PICK f : IsLoop(f, N, S, z, step)
  BY <1>3
<1>5. Def(f)
  <2>1. f \in [0 .. N -> S] /\ f[0] = <<>>
        /\ \A n \in 1 .. N : f[n] = step[n][f[n - 1]] /\ f[n - 1] \in S
    <3> HIDE DEF N, S, step
    <3> QED
      BY <1>1, <1>4 DEF IsLoop
  <2>2. ASSUME NEW n \in 1 .. N PROVE f[n] = with(n, f[n - 1])
    <3>1. f[n] = step[n][f[n - 1]] /\ f[n - 1] \in S
      BY <2>1
    <3>2. step[n] = [w \in S |-> with(n, w)]
      OBVIOUS
    <3> HIDE DEF S, with, step
    <3> QED
      BY <3>1, <3>2
  <2>3. \A n \in 0 .. N : f[n] = IF n = 0 THEN <<>>
                                 ELSE IF GetsEntry(e.phdrs[n])
                                 THEN Append(f[n - 1], e.phdrs[n])
                                 ELSE f[n - 1]
    BY <2>1, <2>2, <1>1
  <2> HIDE DEF N, S
  <2> QED
    BY <2>1, <2>3
<1>6. Wrapped(e) = CHOOSE g : Def(g)
  BY DEF Wrapped
<1>7. Def(Wrapped(e))
  <2> HIDE DEF Def
  <2> QED
    BY <1>5, <1>6, Zenon
<1> DEFINE W == Wrapped(e)
<1>8. W = [n \in 0 .. N |-> IF n = 0 THEN <<>>
                             ELSE IF GetsEntry(e.phdrs[n]) THEN Append(W[n - 1], e.phdrs[n])
                             ELSE W[n - 1]]
  BY <1>7
<1> HIDE DEF W, Def
<1>9. W[0] = <<>>
  BY <1>8, <1>1
<1>10. ASSUME NEW n \in 1 .. N PROVE W[n] = with(n, W[n - 1])
  <2>1. n \in 0 .. N /\ n # 0
    BY <1>1
  <2> QED
    BY <2>1, <1>8, Zenon
<1>11. ASSUME NEW n \in 0 .. N PROVE W[n] \in S
  <2> DEFINE T == {k \in 0 .. N : W[k] \in S}
  <2>1. 0 \in T
    <3>1. 0 \in 0 .. N /\ W[0] \in S
      <4> HIDE DEF S, N
      <4> QED
        BY <1>9, <1>1
    <3> HIDE DEF N, S
    <3> QED
      BY <3>1
  <2>2. ASSUME NEW k \in 1 .. N, k - 1 \in T PROVE k \in T
    <3>1. W[k] = with(k, W[k - 1]) /\ W[k - 1] \in S
      BY <1>10, <2>2
    <3>2. with(k, W[k - 1]) \in S
      BY <3>1, <1>1
    <3> HIDE DEF with, S
    <3> QED
      BY <3>1, <3>2
  <2>3. \A k \in 0 .. N : k \in T
    <3> HIDE DEF T
    <3> QED
      BY <1>1, <2>1, <2>2, UpTo
  <2> QED
    BY <2>3
<1>12. W \in [0 .. N -> S]
  <2> HIDE DEF N, S, with
  <2> QED
    BY <1>8, <1>11
<1> QED
  BY <1>9, <1>10, <1>12 DEF W

(* They are found in order: those among the first n program headers are    *)
(* the first of all of them.                                               *)
LEMMA WrappedPrefix ==
  ASSUME NEW e \in Elfs, NEW n \in 0 .. Len(e.phdrs)
  PROVE  /\ Segments(e) \in Seq(PhdrRecords)
         /\ Wrapped(e)[n] \in Seq(PhdrRecords)
         /\ Len(Wrapped(e)[n]) <= Len(Segments(e))
         /\ \A m \in 1 .. Len(Wrapped(e)[n]) : Segments(e)[m] = Wrapped(e)[n][m]
<1> DEFINE N == Len(e.phdrs)
           W == Wrapped(e)
           Keeps(k) == /\ Len(W[n]) <= Len(W[n + k])
                       /\ \A m \in 1 .. Len(W[n]) : W[n + k][m] = W[n][m]
           T == {k \in 0 .. N - n : Keeps(k)}
<1>1. N \in Nat /\ n \in Nat /\ N - n \in Nat /\ \A k \in 0 .. N - n : n + k \in 0 .. N
      /\ \A i \in 1 .. N : e.phdrs[i] \in PhdrRecords
  BY ElfsAreElfs
<1>2. /\ \A i \in 0 .. N : W[i] \in Seq(PhdrRecords)
      /\ \A i \in 1 .. N : W[i] = IF GetsEntry(e.phdrs[i])
                                  THEN Append(W[i - 1], e.phdrs[i]) ELSE W[i - 1]
  BY WrappedDef
<1> HIDE DEF W, N
<1>3. 0 \in T
  BY <1>1, <1>2
<1>4. ASSUME NEW k \in 1 .. N - n, k - 1 \in T PROVE k \in T
  <2>1. n + k \in 1 .. N /\ n + (k - 1) \in 0 .. N /\ n + k - 1 = n + (k - 1)
    BY <1>1
  <2> DEFINE u == W[n]
             v == W[n + (k - 1)]
             x == W[n + k]
             h == e.phdrs[n + k]
  <2>2. u \in Seq(PhdrRecords) /\ v \in Seq(PhdrRecords) /\ h \in PhdrRecords
    <3>1. n \in 0 .. N
      BY DEF N
    <3>2. u \in Seq(PhdrRecords) /\ v \in Seq(PhdrRecords)
      BY <3>1, <1>2, <2>1
    <3>3. h \in PhdrRecords
      BY <1>1, <2>1
    <3> QED
      BY <3>2, <3>3
  <2>3. Len(u) <= Len(v) /\ \A m \in 1 .. Len(u) : v[m] = u[m]
    BY <1>4
  <2>4. x = v \/ x = Append(v, h)
    <3>1. W[n + k] = IF GetsEntry(e.phdrs[n + k])
                     THEN Append(W[n + k - 1], e.phdrs[n + k]) ELSE W[n + k - 1]
      BY <1>2, <2>1
    <3> QED
      BY <2>1, <3>1, Zenon
  <2> HIDE DEF u, v, x, h
  <2>5. ASSUME x = v
        PROVE  Len(u) <= Len(x) /\ \A m \in 1 .. Len(u) : x[m] = u[m]
    BY <2>3, <2>5
  <2>6. ASSUME x = Append(v, h)
        PROVE  Len(u) <= Len(x) /\ \A m \in 1 .. Len(u) : x[m] = u[m]
    <3>1. Len(u) \in Nat /\ Len(v) \in Nat /\ Len(x) = Len(v) + 1
          /\ \A m \in 1 .. Len(v) : x[m] = v[m]
      BY <2>2, <2>6
    <3> QED
      BY <2>3, <3>1
  <2>7. Len(u) <= Len(x) /\ \A m \in 1 .. Len(u) : x[m] = u[m]
    BY <2>4, <2>5, <2>6
  <2> QED
    BY <2>7, <1>1 DEF u, x
<1>5. \A k \in 0 .. N - n : k \in T
  <2> HIDE DEF T
  <2> QED
    BY <1>1, <1>3, <1>4, UpTo
<1>6. Keeps(N - n) /\ n + (N - n) = N
  BY <1>1, <1>5
<1>7. Segments(e) = W[N]
  BY DEF Segments, W, N
<1> QED
  BY <1>1, <1>2, <1>6, <1>7 DEF W


-----------------------------------------------------------------------------
(* Where the entries go *)

DataAt(e, k) == AlignUp(Offsets(e)[k - 1] + DigestLen(Segments(e)[k]), Align)

LEMMA SegmentTypes ==
  ASSUME NEW e \in Elfs
  PROVE  /\ Len(Segments(e)) \in Nat /\ NumEntries(e) \in Nat
         /\ Start(e) \in Nat /\ Start(e) >= e.hdr /\ Multiple(Start(e))
         /\ \A k \in 1 .. Len(Segments(e)) : /\ Segments(e)[k] \in PhdrRecords
                                             /\ Segments(e)[k].size \in Nat
                                             /\ DigestLen(Segments(e)[k]) \in Nat
<1>1. Segments(e) \in Seq(PhdrRecords)
  <2>1. Len(e.phdrs) \in 0 .. Len(e.phdrs)
    BY ElfsAreElfs
  <2> QED
    BY <2>1, WrappedPrefix
<1>2. NumEntries(e) \in Nat /\ Len(Segments(e)) \in Nat
  BY <1>1 DEF NumEntries
<1>3. e.hdr \in Nat
  BY ElfsAreElfs
<1>4. /\ AlignUp(e.hdr, Align) \in Nat /\ AlignUp(e.hdr, Align) >= e.hdr
      /\ Multiple(AlignUp(e.hdr, Align))
  BY <1>3, Aligned
<1>5. Multiple(Start(e))
  BY <1>2, <1>4, MultipleSum DEF Start
<1>6. Start(e) \in Nat /\ Start(e) >= e.hdr
  <2>1. NumEntries(e) * Align \in Nat
    BY <1>2, SizesArePositive
  <2> QED
    BY <1>3, <1>4, <2>1 DEF Start
<1>7. ASSUME NEW k \in 1 .. Len(Segments(e))
      PROVE  /\ Segments(e)[k] \in PhdrRecords
             /\ Segments(e)[k].size \in Nat
             /\ DigestLen(Segments(e)[k]) \in Nat
  <2> DEFINE ph == Segments(e)[k]
  <2>1. ph \in PhdrRecords
    BY <1>1
  <2>2. ph.size \in Nat
    BY <2>1 DEF PhdrRecords
  <2>3. AlignUp(ph.size, Block) \in Nat
    BY <2>2, RoundedUp, SizesArePositive
  <2>4. AlignUp(ph.size, Block) \div Block \in Nat
    BY <2>3, WholeSteps, SizesArePositive
  <2> HIDE DEF ph
  <2>5. DigestLen(ph) \in Nat
    BY <2>4, SizesArePositive DEF DigestLen
  <2> QED
    BY <2>1, <2>2, <2>5 DEF ph
<1> QED
  BY <1>2, <1>5, <1>6, <1>7

(* One step of the loop over the segments *)
LEMMA OneSegment ==
  ASSUME NEW a \in Nat, NEW d \in Nat, NEW n \in Nat
  PROVE  /\ AlignUp(a + d, Align) \in Nat /\ a + d <= AlignUp(a + d, Align)
         /\ Multiple(AlignUp(a + d, Align))
         /\ AlignUp(AlignUp(a + d, Align) + n, Align) \in Nat
         /\ AlignUp(a + d, Align) + n <= AlignUp(AlignUp(a + d, Align) + n, Align)
         /\ Multiple(AlignUp(AlignUp(a + d, Align) + n, Align))
<1> DEFINE x == AlignUp(a + d, Align)
<1>1. a + d \in Nat
  OBVIOUS
<1>2. x \in Nat /\ x >= a + d /\ Multiple(x)
  BY <1>1, Aligned
<1> HIDE DEF x
<1>3. x + n \in Nat
  BY <1>2
<1>4. /\ AlignUp(x + n, Align) \in Nat /\ AlignUp(x + n, Align) >= x + n
      /\ Multiple(AlignUp(x + n, Align))
  BY <1>3, Aligned
<1>5. /\ x + n <= AlignUp(x + n, Align) /\ a + d <= x
  BY <1>1, <1>2, <1>3, <1>4
<1> QED
  BY <1>2, <1>4, <1>5 DEF x

LEMMA OffsetsDef ==
  ASSUME NEW e \in Elfs
  PROVE  /\ Offsets(e) \in [0 .. Len(Segments(e)) -> Nat]
         /\ Offsets(e)[0] = Start(e)
         /\ \A k \in 1 .. Len(Segments(e)) :
              Offsets(e)[k] = AlignUp(DataAt(e, k) + Segments(e)[k].size, Align)
<1> DEFINE s == Segments(e)
           N == Len(s)
           z == Start(e)
           with(k, a) == AlignUp(AlignUp(a + DigestLen(s[k]), Align) + s[k].size, Align)
           step == [k \in 1 .. N |-> [a \in Nat |-> with(k, a)]]
           Def(g) == g = [k \in 0 .. N |->
                            IF k = 0 THEN z
                            ELSE AlignUp(AlignUp(g[k - 1] + DigestLen(s[k]), Align) + s[k].size,
                                         Align)]
<1>1. N \in Nat /\ z \in Nat
      /\ \A k \in 1 .. N : s[k].size \in Nat /\ DigestLen(s[k]) \in Nat
  BY SegmentTypes
<1>2. \A k \in 1 .. N : \A a \in Nat : with(k, a) \in Nat
  BY <1>1, OneSegment
<1>3. step \in [1 .. N -> [Nat -> Nat]]
  <2> HIDE DEF with, N
  <2> QED
    BY <1>2
<1>4. \E f : IsLoop(f, N, Nat, z, step)
  <2> HIDE DEF N, z, step
  <2> QED
    BY <1>1, <1>3, Loop
<1>5. PICK f : IsLoop(f, N, Nat, z, step)
  BY <1>4
<1>6. f \in [0 .. N -> Nat] /\ f[0] = z
      /\ \A k \in 1 .. N : f[k] = step[k][f[k - 1]] /\ f[k - 1] \in Nat
  <2> HIDE DEF N, step, z
  <2> QED
    BY <1>1, <1>5 DEF IsLoop
<1>7. ASSUME NEW k \in 1 .. N PROVE f[k] = with(k, f[k - 1])
  <2>1. f[k] = step[k][f[k - 1]] /\ f[k - 1] \in Nat
    BY <1>6
  <2>2. step[k] = [a \in Nat |-> with(k, a)]
    OBVIOUS
  <2> HIDE DEF with, step
  <2> QED
    BY <2>1, <2>2
<1>8. Def(f)
  <2>1. \A k \in 0 .. N : f[k] = IF k = 0 THEN z ELSE with(k, f[k - 1])
    <3> HIDE DEF with, N, z
    <3> QED
      BY <1>1, <1>6, <1>7
  <2>2. f = [k \in 0 .. N |-> IF k = 0 THEN z ELSE with(k, f[k - 1])]
    <3> HIDE DEF with, N, z
    <3> QED
      BY <1>6, <2>1
  <2> QED
    BY <2>2
<1>9. Offsets(e) = CHOOSE g : Def(g)
  BY DEF Offsets
<1>10. Def(Offsets(e))
  <2> HIDE DEF Def
  <2> QED
    BY <1>8, <1>9, Zenon
<1> DEFINE at == Offsets(e)
<1>11. at = [k \in 0 .. N |-> IF k = 0 THEN z ELSE with(k, at[k - 1])]
  BY <1>10
<1> HIDE DEF at, Def, with, N, z
<1>12. at[0] = z
  BY <1>1, <1>11
<1>13. ASSUME NEW k \in 1 .. N PROVE at[k] = with(k, at[k - 1])
  <2>1. k \in 0 .. N /\ k # 0
    BY <1>1
  <2> QED
    BY <2>1, <1>11, Zenon
<1>14. ASSUME NEW k \in 0 .. N PROVE at[k] \in Nat
  <2> DEFINE T == {m \in 0 .. N : at[m] \in Nat}
  <2>1. 0 \in T
    BY <1>1, <1>12
  <2>2. ASSUME NEW m \in 1 .. N, m - 1 \in T PROVE m \in T
    <3>1. at[m] = with(m, at[m - 1]) /\ at[m - 1] \in Nat
      BY <1>13, <2>2
    <3> QED
      BY <1>2, <3>1
  <2>3. \A m \in 0 .. N : m \in T
    <3> HIDE DEF T
    <3> QED
      BY <1>1, <2>1, <2>2, UpTo
  <2> QED
    BY <2>3
<1>15. at \in [0 .. N -> Nat]
  BY <1>11, <1>14
<1>16. \A k \in 1 .. N : at[k] = AlignUp(DataAt(e, k) + s[k].size, Align)
  BY <1>13 DEF with, DataAt, at
<1> QED
  BY <1>12, <1>15, <1>16 DEF at, N, z


(* The segments lie one behind the other: the digests of one, its data,    *)
(* the digests of the next.                                                *)
LEMMA SegmentPlaces ==
  ASSUME NEW e \in Elfs, NEW k \in 1 .. Len(Segments(e))
  PROVE  /\ Offsets(e)[k - 1] \in Nat /\ Offsets(e)[k] \in Nat /\ DataAt(e, k) \in Nat
         /\ Multiple(Offsets(e)[k - 1]) /\ Multiple(DataAt(e, k))
         /\ Offsets(e)[k - 1] + DigestLen(Segments(e)[k]) <= DataAt(e, k)
         /\ DataAt(e, k) + Segments(e)[k].size <= Offsets(e)[k]
<1> DEFINE s == Segments(e)
           at == Offsets(e)
<1>1. /\ Len(s) \in Nat /\ k - 1 \in 0 .. Len(s) /\ k \in 0 .. Len(s)
      /\ s[k].size \in Nat /\ DigestLen(s[k]) \in Nat /\ Multiple(Start(e))
  BY SegmentTypes
<1>2. /\ at \in [0 .. Len(s) -> Nat] /\ at[0] = Start(e)
      /\ \A m \in 1 .. Len(s) : at[m] = AlignUp(DataAt(e, m) + s[m].size, Align)
  BY OffsetsDef
<1> HIDE DEF at, s
<1>3. at[k - 1] \in Nat /\ at[k] \in Nat
  BY <1>1, <1>2
<1>4. DataAt(e, k) = AlignUp(at[k - 1] + DigestLen(s[k]), Align)
  BY DEF DataAt, at, s
<1>5. /\ DataAt(e, k) \in Nat /\ Multiple(DataAt(e, k))
      /\ at[k - 1] + DigestLen(s[k]) <= DataAt(e, k)
      /\ DataAt(e, k) + s[k].size <= AlignUp(DataAt(e, k) + s[k].size, Align)
  <2> DEFINE a == at[k - 1]
             d == DigestLen(s[k])
             n == s[k].size
  <2>1. a \in Nat /\ d \in Nat /\ n \in Nat /\ DataAt(e, k) = AlignUp(a + d, Align)
    BY <1>1, <1>3, <1>4
  <2> HIDE DEF a, d, n
  <2>2. /\ DataAt(e, k) \in Nat /\ Multiple(DataAt(e, k)) /\ a + d <= DataAt(e, k)
        /\ DataAt(e, k) + n <= AlignUp(DataAt(e, k) + n, Align)
    BY <2>1, OneSegment
  <2> QED
    BY <2>2 DEF a, d, n
<1>6. k \in 1 .. Len(s) /\ at[k] = AlignUp(DataAt(e, k) + s[k].size, Align)
  BY <1>2 DEF s
<1>7. Multiple(at[k - 1])
  <2>1. CASE k = 1
    BY <1>1, <1>2, <2>1
  <2>2. CASE k # 1
    <3> DEFINE j == k - 1
               a == at[j - 1]
               d == DigestLen(s[j])
               n == s[j].size
    <3>1. j \in 1 .. Len(s) /\ j - 1 \in 0 .. Len(s)
      BY <1>1, <1>6, <2>2
    <3>2. a \in Nat /\ n \in Nat /\ d \in Nat
      BY <1>2, <3>1, SegmentTypes DEF s
    <3>3. at[j] = AlignUp(AlignUp(a + d, Align) + n, Align)
      BY <1>2, <3>1 DEF DataAt, s, at
    <3> HIDE DEF j, a, d, n
    <3>4. Multiple(at[j])
      BY <3>2, <3>3, OneSegment
    <3> QED
      BY <3>4 DEF j
  <2> QED
    BY <2>1, <2>2
<1>8. DataAt(e, k) + s[k].size <= at[k]
  BY <1>5, <1>6
<1> QED
  BY <1>3, <1>5, <1>7, <1>8 DEF at, s

LEMMA OffsetsGrow ==
  ASSUME NEW e \in Elfs, NEW j \in 0 .. Len(Segments(e)), NEW k \in j .. Len(Segments(e))
  PROVE  Offsets(e)[j] <= Offsets(e)[k]
<1> DEFINE N == Len(Segments(e))
           at == Offsets(e)
           T == {m \in 0 .. N - j : at[j] <= at[j + m]}
<1>1. N \in Nat /\ j \in Nat /\ N - j \in Nat /\ k \in Nat /\ j + 0 = j
      /\ k - j \in 0 .. N - j /\ j + (k - j) = k
  BY SegmentTypes
<1>2. /\ \A i \in 0 .. N : at[i] \in Nat
      /\ \A i \in 1 .. N : at[i - 1] <= at[i]
  <2>1. \A i \in 0 .. N : at[i] \in Nat
    BY OffsetsDef
  <2>2. ASSUME NEW i \in 1 .. N PROVE at[i - 1] <= at[i]
    <3>1. /\ at[i - 1] \in Nat /\ at[i] \in Nat /\ DataAt(e, i) \in Nat
          /\ at[i - 1] + DigestLen(Segments(e)[i]) <= DataAt(e, i)
          /\ DataAt(e, i) + Segments(e)[i].size <= at[i]
      BY SegmentPlaces
    <3>2. Segments(e)[i].size \in Nat /\ DigestLen(Segments(e)[i]) \in Nat
      BY SegmentTypes
    <3> HIDE DEF at
    <3> QED
      BY <3>1, <3>2
  <2> QED
    BY <2>1, <2>2
<1>3. j \in 0 .. N
  OBVIOUS
<1> HIDE DEF N, at
<1>4. 0 \in T
  BY <1>1, <1>2, <1>3
<1>5. ASSUME NEW m \in 1 .. N - j, m - 1 \in T PROVE m \in T
  <2>1. /\ j + m \in 1 .. N /\ j + (m - 1) \in 0 .. N /\ (j + m) - 1 = j + (m - 1)
        /\ j + m \in 0 .. N
    BY <1>1
  <2>2. at[j] <= at[j + (m - 1)] /\ at[j + (m - 1)] <= at[j + m]
    <3>1. at[(j + m) - 1] <= at[j + m]
      BY <1>2, <2>1
    <3> QED
      BY <1>5, <2>1, <3>1
  <2>3. at[j] \in Nat /\ at[j + (m - 1)] \in Nat /\ at[j + m] \in Nat
    BY <1>2, <1>3, <2>1
  <2>4. at[j] <= at[j + m]
    BY <2>2, <2>3
  <2> QED
    BY <2>4, <1>1
<1>6. \A m \in 0 .. N - j : m \in T
  <2> HIDE DEF T
  <2> QED
    BY <1>1, <1>4, <1>5, UpTo
<1>7. at[j] <= at[j + (k - j)]
  BY <1>1, <1>6
<1> QED
  BY <1>1, <1>7 DEF at

LEMMA EntriesDef ==
  ASSUME NEW e \in Elfs
  PROVE  /\ Len(Entries(e)) = 2 * Len(Segments(e))
         /\ DOMAIN Entries(e) = 1 .. 2 * Len(Segments(e))
         /\ \A k \in 1 .. Len(Segments(e)) :
              /\ 2 * k \in 1 .. 2 * Len(Segments(e))
              /\ 2 * k - 1 \in 1 .. 2 * Len(Segments(e))
              /\ Entries(e)[2 * k - 1] = [off |-> Offsets(e)[k - 1],
                                          len |-> DigestLen(Segments(e)[k])]
              /\ Entries(e)[2 * k] = [off |-> DataAt(e, k), len |-> Segments(e)[k].size]
<1> DEFINE N == Len(Segments(e))
           M == NumEntries(e)
           entry(i, k) == IF i % 2 = 1
                          THEN [off |-> Offsets(e)[k - 1], len |-> DigestLen(Segments(e)[k])]
                          ELSE [off |-> DataAt(e, k), len |-> Segments(e)[k].size]
<1>1. N \in Nat /\ M = 2 * N
  BY SegmentTypes DEF NumEntries
<1>2. Entries(e) = [i \in 1 .. M |-> entry(i, (i + 1) \div 2)]
  BY DEF Entries, DataAt
<1> HIDE DEF N, M, entry
<1>3. Len(Entries(e)) = M /\ DOMAIN Entries(e) = 1 .. M
  <2> DEFINE E == Entries(e)
             V == {E[i] : i \in 1 .. M}
  <2>1. E \in [1 .. M -> V]
    BY <1>2
  <2> HIDE DEF E, V
  <2>2. E \in Seq(V) /\ Len(E) = M
    BY <1>1, <2>1
  <2> QED
    BY <1>2, <2>2 DEF E
<1>4. ASSUME NEW k \in 1 .. N
      PROVE  /\ 2 * k \in 1 .. M /\ 2 * k - 1 \in 1 .. M
             /\ (2 * k + 1) \div 2 = k /\ (2 * k - 1 + 1) \div 2 = k
             /\ (2 * k) % 2 = 0 /\ (2 * k - 1) % 2 = 1
  BY <1>1
<1>5. ASSUME NEW k \in 1 .. N
      PROVE  /\ Entries(e)[2 * k] = entry(2 * k, k)
             /\ Entries(e)[2 * k - 1] = entry(2 * k - 1, k)
  <2>1. Entries(e)[2 * k] = entry(2 * k, (2 * k + 1) \div 2)
    BY <1>2, <1>4
  <2>2. Entries(e)[2 * k - 1] = entry(2 * k - 1, (2 * k - 1 + 1) \div 2)
    BY <1>2, <1>4
  <2> QED
    BY <1>4, <2>1, <2>2
<1>6. ASSUME NEW k \in 1 .. N
      PROVE  /\ entry(2 * k, k) = [off |-> DataAt(e, k), len |-> Segments(e)[k].size]
             /\ entry(2 * k - 1, k) = [off |-> Offsets(e)[k - 1],
                                       len |-> DigestLen(Segments(e)[k])]
  <2>1. (2 * k) % 2 # 1 /\ (2 * k - 1) % 2 = 1
    BY <1>4
  <2> QED
    BY <2>1, Zenon DEF entry
<1> QED
  BY <1>1, <1>3, <1>4, <1>5, <1>6 DEF N


LEMMA EntryOfSegment ==
  ASSUME NEW e \in Elfs, NEW i \in 1 .. 2 * Len(Segments(e))
  PROVE  \E k \in 1 .. Len(Segments(e)) : i = 2 * k \/ i = 2 * k - 1
<1> DEFINE N == Len(Segments(e))
           k == (i + 1) \div 2
<1>1. N \in Nat /\ i \in 1 .. 2 * N
  BY SegmentTypes
<1> HIDE DEF N
<1>2. k \in 1 .. N /\ (i = 2 * k \/ i = 2 * k - 1)
  BY <1>1
<1> QED
  BY <1>2 DEF N

(* The entry of a segment lies between where the segment before it ends    *)
(* and where the one after it begins.                                      *)
LEMMA EntryPlace ==
  ASSUME NEW e \in Elfs, NEW k \in 1 .. Len(Segments(e)),
         NEW i, i = 2 * k \/ i = 2 * k - 1
  PROVE  /\ Entries(e)[i].off \in Nat /\ Entries(e)[i].len \in Nat
         /\ Multiple(Entries(e)[i].off)
         /\ Offsets(e)[k - 1] <= Entries(e)[i].off
         /\ Entries(e)[i].off + Entries(e)[i].len <= Offsets(e)[k]
<1> DEFINE a == Offsets(e)[k - 1]
           b == Offsets(e)[k]
           d == DataAt(e, k)
           n == Segments(e)[k].size
           l == DigestLen(Segments(e)[k])
<1>1. /\ a \in Nat /\ b \in Nat /\ d \in Nat /\ n \in Nat /\ l \in Nat
      /\ Multiple(a) /\ Multiple(d) /\ a + l <= d /\ d + n <= b
  BY SegmentPlaces, SegmentTypes
<1>2. /\ Entries(e)[2 * k - 1] = [off |-> a, len |-> l]
      /\ Entries(e)[2 * k] = [off |-> d, len |-> n]
  BY EntriesDef
<1> HIDE DEF a, b, d, n, l
<1>3. a <= d /\ a <= a /\ a + l <= b
  BY <1>1
<1>4. CASE i = 2 * k
  BY <1>1, <1>2, <1>3, <1>4 DEF a, b
<1>5. CASE i = 2 * k - 1
  BY <1>1, <1>2, <1>3, <1>5 DEF a, b
<1> QED
  BY <1>4, <1>5

LEMMA EntriesApart ==
  ASSUME NEW e \in Elfs
  PROVE  /\ \A i \in 1 .. 2 * Len(Segments(e)) :
              /\ Entries(e)[i].off \in Nat /\ Entries(e)[i].len \in Nat
              /\ Multiple(Entries(e)[i].off)
              /\ Entries(e)[i].off >= e.hdr
              /\ Entries(e)[i].off + Entries(e)[i].len <= Offsets(e)[Len(Segments(e))]
         /\ \A i, j \in 1 .. 2 * Len(Segments(e)) :
              i < j => Entries(e)[i].off + Entries(e)[i].len <= Entries(e)[j].off
<1> DEFINE N == Len(Segments(e))
           E == Entries(e)
           at == Offsets(e)
<1>1. N \in Nat /\ Start(e) \in Nat /\ Start(e) >= e.hdr /\ e.hdr \in Nat
      /\ at \in [0 .. N -> Nat] /\ at[0] = Start(e)
  BY SegmentTypes, OffsetsDef, ElfsAreElfs
<1>2. \A j \in 0 .. N, k \in 0 .. N : j <= k => at[j] <= at[k]
  BY <1>1, OffsetsGrow
<1>3. \A i \in 1 .. 2 * N : \E k \in 1 .. N : i = 2 * k \/ i = 2 * k - 1
  BY EntryOfSegment
<1>4. \A k \in 1 .. N : \A i : i = 2 * k \/ i = 2 * k - 1 =>
        /\ E[i].off \in Nat /\ E[i].len \in Nat /\ Multiple(E[i].off)
        /\ at[k - 1] <= E[i].off /\ E[i].off + E[i].len <= at[k]
  BY EntryPlace
<1>5. \A k \in 1 .. N : E[2 * k - 1].off + E[2 * k - 1].len <= E[2 * k].off
  <2>1. ASSUME NEW k \in 1 .. N
        PROVE  E[2 * k - 1].off + E[2 * k - 1].len <= E[2 * k].off
    <3>1. /\ E[2 * k - 1] = [off |-> at[k - 1], len |-> DigestLen(Segments(e)[k])]
          /\ E[2 * k] = [off |-> DataAt(e, k), len |-> Segments(e)[k].size]
      BY EntriesDef
    <3>2. at[k - 1] + DigestLen(Segments(e)[k]) <= DataAt(e, k)
      BY SegmentPlaces
    <3> HIDE DEF E, at
    <3> QED
      BY <3>1, <3>2
  <2> QED
    BY <2>1
<1> HIDE DEF N, E, at
<1>6. ASSUME NEW i \in 1 .. 2 * N
      PROVE  /\ E[i].off \in Nat /\ E[i].len \in Nat /\ Multiple(E[i].off)
             /\ E[i].off >= e.hdr /\ E[i].off + E[i].len <= at[N]
  <2>1. PICK k \in 1 .. N : i = 2 * k \/ i = 2 * k - 1
    BY <1>3
  <2>2. /\ E[i].off \in Nat /\ E[i].len \in Nat /\ Multiple(E[i].off)
        /\ at[k - 1] <= E[i].off /\ E[i].off + E[i].len <= at[k]
    BY <1>4, <2>1
  <2>3. 0 \in 0 .. N /\ k - 1 \in 0 .. N /\ k \in 0 .. N /\ N \in 0 .. N /\ 0 <= k - 1 /\ k <= N
    BY <1>1
  <2>4. /\ at[0] <= at[k - 1] /\ at[k] <= at[N]
        /\ at[k - 1] \in Nat /\ at[k] \in Nat /\ at[N] \in Nat
    BY <1>1, <1>2, <2>3
  <2>5. E[i].off >= e.hdr /\ E[i].off + E[i].len <= at[N]
    BY <1>1, <2>2, <2>4
  <2> QED
    BY <2>2, <2>5
<1>7. ASSUME NEW i \in 1 .. 2 * N, NEW j \in 1 .. 2 * N, i < j
      PROVE  E[i].off + E[i].len <= E[j].off
  <2>1. PICK k \in 1 .. N : i = 2 * k \/ i = 2 * k - 1
    BY <1>3
  <2>2. PICK m \in 1 .. N : j = 2 * m \/ j = 2 * m - 1
    BY <1>3
  <2>3. /\ E[i].off \in Nat /\ E[i].len \in Nat /\ E[i].off + E[i].len <= at[k]
        /\ E[j].off \in Nat /\ at[m - 1] <= E[j].off
    BY <1>4, <2>1, <2>2
  <2>4. k = m \/ k <= m - 1
    BY <1>7, <2>1, <2>2
  <2>5. ASSUME k <= m - 1 PROVE E[i].off + E[i].len <= E[j].off
    <3>1. k \in 0 .. N /\ m - 1 \in 0 .. N
      BY <1>1
    <3>2. at[k] <= at[m - 1] /\ at[k] \in Nat /\ at[m - 1] \in Nat
      BY <1>1, <1>2, <2>5, <3>1
    <3> QED
      BY <2>3, <3>2
  <2>6. ASSUME k = m PROVE E[i].off + E[i].len <= E[j].off
    <3>1. i = 2 * k - 1 /\ j = 2 * k
      BY <1>7, <2>1, <2>2, <2>6
    <3> QED
      BY <1>5, <3>1
  <2> QED
    BY <2>4, <2>5, <2>6
<1> QED
  BY <1>6, <1>7 DEF N, E, at

-----------------------------------------------------------------------------
(* The version body *)

LEMMA VersionIsLast ==
  ASSUME NEW e \in Elfs, Versions(e) # {}
  PROVE  /\ Version(e) \in PhdrRecords /\ Version(e).size \in Nat
         /\ Version(e).type = "VERSION"
         /\ \E i \in DOMAIN e.phdrs : e.phdrs[i] = Version(e)
<1> DEFINE V == Versions(e)
           N == Len(e.phdrs)
           T == {N - i : i \in V}
<1>1. /\ N \in Nat /\ DOMAIN e.phdrs = 1 .. N /\ V \subseteq 1 .. N
      /\ \A i \in 1 .. N : e.phdrs[i] \in PhdrRecords
  BY ElfsAreElfs DEF Versions
<1> HIDE DEF V, N
<1>2. T \subseteq Nat /\ T # {}
  BY <1>1 DEF V
<1>3. \E x \in T : \A y \in T : x <= y
  <2> HIDE DEF T
  <2> QED
    BY <1>2, Least
<1>4. \E i \in V : \A j \in V : j <= i
  <2>1. PICK x \in T : \A y \in T : x <= y
    BY <1>3
  <2>2. PICK i \in V : x = N - i
    BY <2>1
  <2>3. \A j \in V : N - i <= N - j
    BY <2>1, <2>2
  <2>4. \A j \in V : j \in Int
    BY <1>1
  <2>5. \A j \in V : j <= i
    BY <1>1, <2>2, <2>3, <2>4
  <2> QED
    BY <2>5
<1> DEFINE l == CHOOSE i \in V : \A j \in V : j <= i
<1>6. l \in V
  BY <1>4, Zenon
<1>7. Version(e) = e.phdrs[l] /\ e.phdrs[l].type = "VERSION"
  BY <1>6 DEF Version, Versions, V
<1> HIDE DEF l
<1>8. l \in 1 .. N /\ Version(e) \in PhdrRecords
  BY <1>1, <1>6, <1>7
<1>9. Version(e).size \in Nat
  BY <1>8 DEF PhdrRecords
<1> QED
  BY <1>1, <1>7, <1>8, <1>9

LEMMA SizeOfSelf ==
  ASSUME NEW e \in Elfs
  PROVE  /\ SelfSize(e) \in Nat /\ VersionAt(e) \in Nat
         /\ Offsets(e)[Len(Segments(e))] \in Nat
         /\ Offsets(e)[Len(Segments(e))] <= SelfSize(e)
         /\ VersionAt(e) <= Offsets(e)[Len(Segments(e))]
         /\ Versions(e) # {} => VersionAt(e) + Version(e).size <= SelfSize(e)
<1> DEFINE N == Len(Segments(e))
           E == Entries(e)
           end == Offsets(e)[N]
<1>1. /\ N \in Nat /\ end \in Nat /\ Offsets(e)[0] = Start(e) /\ Len(E) = 2 * N
      /\ Start(e) \in Nat
      /\ \A i \in 1 .. 2 * N : /\ E[i].off \in Nat /\ E[i].len \in Nat
                               /\ E[i].off + E[i].len <= end
  <2>1. N \in Nat /\ Start(e) \in Nat
    BY SegmentTypes
  <2>2. Offsets(e) \in [0 .. N -> Nat] /\ Offsets(e)[0] = Start(e)
    BY OffsetsDef
  <2>3. N \in 0 .. N
    BY <2>1
  <2>4. end \in Nat
    <3> HIDE DEF N
    <3> QED
      BY <2>2, <2>3
  <2>5. Len(E) = 2 * N
    BY EntriesDef
  <2> QED
    BY <2>1, <2>2, <2>4, <2>5, EntriesApart
<1>2. E = <<>> => N = 0
  <2> HIDE DEF E, N
  <2> QED
    BY <1>1
<1>3. VersionAt(e) = IF E = <<>> THEN Start(e) ELSE E[2 * N].off + E[2 * N].len
  BY <1>1 DEF VersionAt, EndOf
<1>4. E # <<>> => 2 * N \in 1 .. 2 * N
  <2>1. E # <<>> => N # 0
    BY EntriesDef
  <2> HIDE DEF N
  <2> QED
    BY <1>1, <2>1
<1>5. VersionAt(e) \in Nat /\ VersionAt(e) <= end
  <2>1. CASE E = <<>>
    BY <1>1, <1>2, <1>3, <2>1
  <2>2. CASE E # <<>>
    <3> HIDE DEF E, N, end
    <3> QED
      BY <1>1, <1>3, <1>4, <2>2
  <2> QED
    BY <2>1, <2>2
<1>6. SelfSize(e) = IF Versions(e) = {} THEN end
                    ELSE IF end > VersionAt(e) + Version(e).size THEN end
                    ELSE VersionAt(e) + Version(e).size
  BY DEF SelfSize, Higher
<1> HIDE DEF end, E
<1>7. /\ SelfSize(e) \in Nat /\ end <= SelfSize(e)
      /\ Versions(e) # {} => VersionAt(e) + Version(e).size <= SelfSize(e)
  <2>1. CASE Versions(e) = {}
    BY <1>1, <1>5, <1>6, <2>1
  <2>2. CASE Versions(e) # {}
    <3>1. Version(e).size \in Nat
      BY <2>2, VersionIsLast
    <3> QED
      BY <1>1, <1>5, <1>6, <2>2, <3>1
  <2> QED
    BY <2>1, <2>2
<1> QED
  BY <1>1, <1>5, <1>7 DEF end


-----------------------------------------------------------------------------
(* The SELF that is taken apart is the one that was made *)

LEMMA MadeInit == Init => Made
  BY DEF Init, Made

LEMMA MadeStep == Made /\ [Next]_vars => Made'
<1>. SUFFICES ASSUME Made, [Next]_vars PROVE Made'
  OBVIOUS
<1>1. CASE MakeFself
  BY <1>1 DEF MakeFself, Made
<1>2. CASE Overflow
  BY <1>2 DEF Overflow, Made
<1>3. CASE BeginUnfself
  BY <1>3 DEF BeginUnfself, Made
<1>4. CASE Place
  BY <1>4 DEF Place, Made
<1>5. CASE EndUnfself
  BY <1>5 DEF EndUnfself, Made
<1>6. CASE UNCHANGED vars
  BY <1>6 DEF vars, Made
<1>. QED
  BY <1>1, <1>2, <1>3, <1>4, <1>5, <1>6 DEF Next

LEMMA MadeLayout == Made => LayoutSound
<1>. SUFFICES ASSUME Made, pc \in {"self", "place", "done"} PROVE LayoutSound
  BY DEF LayoutSound
<1>1. elf \in Elfs /\ self = Fself(elf)
  BY DEF Made
<1>2. self.entries = Entries(elf) /\ self.hdr = elf.hdr /\ self.size = SelfSize(elf)
  BY <1>1 DEF Fself
<1> DEFINE n == Len(self.entries)
           E == self.entries
<1>3. /\ n = 2 * Len(Segments(elf)) /\ n \in Nat /\ SelfSize(elf) \in Nat
      /\ Offsets(elf)[Len(Segments(elf))] \in Nat
      /\ Offsets(elf)[Len(Segments(elf))] <= SelfSize(elf)
      /\ Versions(elf) # {} => VersionAt(elf) + Version(elf).size <= self.size
  BY <1>1, <1>2, EntriesDef, SizeOfSelf, SegmentTypes
<1>4. /\ \A i \in 1 .. n : /\ E[i].off \in Nat /\ E[i].len \in Nat /\ Multiple(E[i].off)
                           /\ E[i].off >= elf.hdr
                           /\ E[i].off + E[i].len <= Offsets(elf)[Len(Segments(elf))]
      /\ \A i, j \in 1 .. n : i < j => E[i].off + E[i].len <= E[j].off
  BY <1>1, <1>2, <1>3, EntriesApart
<1> HIDE DEF n, E
<1>5. ASSUME NEW i \in 1 .. n
      PROVE  /\ E[i].off % Align = 0 /\ E[i].off >= self.hdr
             /\ E[i].off + E[i].len <= self.size
  <2>1. E[i].off % Align = 0
    BY <1>4, MultipleOfAlign
  <2>2. E[i].off + E[i].len <= self.size
    BY <1>2, <1>3, <1>4
  <2> QED
    BY <1>2, <1>4, <2>1, <2>2
<1> QED
  BY <1>3, <1>4, <1>5 DEF LayoutSound, n, E

(* makefself.c 138-176: whatever the program headers, the entries of a     *)
(* SELF do not overlap, start at multiples of 16 behind the headers and    *)
(* end inside the file, and so does the version body.                      *)
THEOREM SoundLayout == Spec => []LayoutSound
BY MadeInit, MadeStep, MadeLayout, PTL DEF Spec

-----------------------------------------------------------------------------
(* What is in a SELF at the place of a segment, and of the version body *)

LEMMA DataEntries ==
  ASSUME NEW e \in Elfs
  PROVE  /\ Len(Entries(e)) = 2 * Len(Segments(e)) /\ Len(Segments(e)) \in Nat
         /\ \A m \in 1 .. Len(Segments(e)) :
              /\ 2 * m \in 1 .. 2 * Len(Segments(e)) /\ Segments(e)[m].size \in Nat
              /\ Entries(e)[2 * m].len = Segments(e)[m].size
         /\ \A i \in 1 .. 2 * Len(Segments(e)) :
              /\ Entries(e)[i].off \in Nat /\ Entries(e)[i].len \in Nat
              /\ Entries(e)[i].off + Entries(e)[i].len <= Offsets(e)[Len(Segments(e))]
         /\ \A i, j \in 1 .. 2 * Len(Segments(e)) :
              i < j => Entries(e)[i].off + Entries(e)[i].len <= Entries(e)[j].off
<1>1. ASSUME NEW m \in 1 .. Len(Segments(e))
      PROVE  /\ 2 * m \in 1 .. 2 * Len(Segments(e)) /\ Segments(e)[m].size \in Nat
             /\ Entries(e)[2 * m].len = Segments(e)[m].size
  <2>1. /\ 2 * m \in 1 .. 2 * Len(Segments(e))
        /\ Entries(e)[2 * m] = [off |-> DataAt(e, m), len |-> Segments(e)[m].size]
    BY EntriesDef
  <2>2. Segments(e)[m].size \in Nat
    BY SegmentTypes
  <2> QED
    BY <2>1, <2>2
<1>2. Len(Entries(e)) = 2 * Len(Segments(e)) /\ Len(Segments(e)) \in Nat
  BY EntriesDef, SegmentTypes
<1> QED
  BY <1>1, <1>2, EntriesApart

LEMMA SegmentData ==
  ASSUME NEW e \in Elfs, NEW k \in 1 .. Len(Segments(e)), NEW u \in Int,
         Covers(Segments(e)[k].off, Segments(e)[k].size, u)
  PROVE  Fself(e).data[Entries(e)[2 * k].off + u - Segments(e)[k].off] = e.data[u]
<1> DEFINE s == Segments(e)
           E == Entries(e)
           N == Len(s)
           v == E[2 * k].off + u - s[k].off
           in(w) == {m \in 1 .. N : Covers(E[2 * m].off, s[m].size, w)}
<1>1. /\ \A m \in 1 .. N : /\ 2 * m \in 1 .. 2 * N /\ E[2 * m].len = s[m].size
                           /\ s[m].size \in Nat
      /\ \A i \in 1 .. 2 * N : /\ E[i].off \in Nat /\ E[i].len \in Nat
                               /\ E[i].off + E[i].len <= Offsets(e)[N]
      /\ \A i, j \in 1 .. 2 * N : i < j => E[i].off + E[i].len <= E[j].off
  BY DataEntries
<1>2. /\ SelfSize(e) \in Nat /\ Offsets(e)[N] \in Nat /\ Offsets(e)[N] <= SelfSize(e)
      /\ N \in Nat
  BY SizeOfSelf, SegmentTypes
<1>3. s[k].off \in Nat /\ s[k].size \in Nat
  BY SegmentTypes DEF PhdrRecords
<1> HIDE DEF s, E, N
<1>4. k \in 1 .. N
  BY DEF N, s
<1>5. s[k].off <= u /\ u < s[k].off + s[k].size
  BY DEF Covers, s
<1>6. /\ v \in Int /\ E[2 * k].off <= v /\ v < E[2 * k].off + s[k].size
      /\ v \in 0 .. SelfSize(e) - 1 /\ s[k].off + v - E[2 * k].off = u
  <2>1. /\ E[2 * k].off \in Nat /\ E[2 * k].len = s[k].size
        /\ E[2 * k].off + E[2 * k].len <= Offsets(e)[N]
    BY <1>1, <1>4
  <2> DEFINE a == E[2 * k].off
             b == s[k].off
             c == s[k].size
  <2>2. a \in Nat /\ a + c <= SelfSize(e) /\ b \in Nat /\ c \in Nat
        /\ b <= u /\ u < b + c /\ v = a + u - b
    <3>1. a + c <= Offsets(e)[N] /\ a \in Nat /\ c \in Nat
      BY <1>3, <2>1
    <3> HIDE DEF a, c
    <3>2. a + c <= SelfSize(e)
      BY <1>2, <3>1
    <3> QED
      BY <1>3, <1>5, <3>1, <3>2 DEF a, c
  <2> HIDE DEF a, b, c, v
  <2>3. /\ v \in Int /\ a <= v /\ v < a + c
        /\ v \in 0 .. SelfSize(e) - 1 /\ b + v - a = u
    BY <1>2, <2>2
  <2> QED
    BY <2>3 DEF a, b, c
<1> HIDE DEF v
<1>7. k \in in(v)
  BY <1>4, <1>6 DEF Covers
<1>8. ASSUME NEW m \in in(v) PROVE m = k
  <2>1. m \in 1 .. N /\ E[2 * m].off <= v /\ v < E[2 * m].off + s[m].size
    BY DEF Covers
  <2>2. /\ 2 * m \in 1 .. 2 * N /\ 2 * k \in 1 .. 2 * N
        /\ E[2 * m].off \in Nat /\ E[2 * k].off \in Nat
        /\ E[2 * m].len = s[m].size /\ E[2 * k].len = s[k].size
        /\ s[m].size \in Nat /\ s[k].size \in Nat
    BY <1>1, <1>4, <2>1
  <2>3. /\ 2 * m < 2 * k => E[2 * m].off + s[m].size <= E[2 * k].off
        /\ 2 * k < 2 * m => E[2 * k].off + s[k].size <= E[2 * m].off
    BY <1>1, <2>2
  <2>4. ~(2 * m < 2 * k) /\ ~(2 * k < 2 * m)
    <3> DEFINE a == E[2 * m].off
               b == E[2 * k].off
               c == s[m].size
               d == s[k].size
    <3>1. /\ a \in Nat /\ b \in Nat /\ c \in Nat /\ d \in Nat /\ v \in Int
          /\ a <= v /\ v < a + c /\ b <= v /\ v < b + d
          /\ 2 * m < 2 * k => a + c <= b
          /\ 2 * k < 2 * m => b + d <= a
      BY <1>6, <2>1, <2>2, <2>3
    <3> HIDE DEF a, b, c, d
    <3> QED
      BY <3>1
  <2>5. m \in Int /\ k \in Int
    BY <1>4, <2>1
  <2> QED
    BY <2>4, <2>5
<1>9. in(v) # {} /\ (CHOOSE m \in in(v) : TRUE) = k
  BY <1>7, <1>8
<1>10. SelfUnit(e, E, v) = e.data[s[k].off + v - E[2 * k].off]
  <2>1. SelfUnit(e, E, v) = LET m == CHOOSE m \in in(v) : TRUE
                            IN e.data[s[m].off + v - E[2 * m].off]
    BY <1>9 DEF SelfUnit, s, N
  <2> HIDE DEF in
  <2> QED
    BY <1>9, <2>1
<1>11. Fself(e).data[v] = SelfUnit(e, E, v)
  BY <1>6 DEF Fself, E
<1> QED
  BY <1>6, <1>10, <1>11 DEF v, s, E

LEMMA VersionData ==
  ASSUME NEW e \in Elfs, Versions(e) # {}, Trail(e) = Version(e).size,
         NEW u \in Int, Covers(Version(e).off, Version(e).size, u)
  PROVE  Fself(e).data[EndOf(Entries(e), 0) + u - Version(e).off] = e.data[u]
<1> DEFINE s == Segments(e)
           E == Entries(e)
           N == Len(s)
           end == VersionAt(e)
           size == Version(e).size
           off == Version(e).off
           v == end + u - off
           in(w) == {m \in 1 .. N : Covers(E[2 * m].off, s[m].size, w)}
<1>1. /\ Len(E) = 2 * N /\ N \in Nat
      /\ \A m \in 1 .. N : /\ 2 * m \in 1 .. 2 * N /\ E[2 * m].len = s[m].size
                           /\ s[m].size \in Nat
      /\ \A i \in 1 .. 2 * N : E[i].off \in Nat /\ E[i].len \in Nat
      /\ \A i, j \in 1 .. 2 * N : i < j => E[i].off + E[i].len <= E[j].off
  BY DataEntries
<1>2. /\ SelfSize(e) \in Nat /\ end \in Nat /\ end + size <= SelfSize(e)
      /\ size \in Nat /\ off \in Nat
  BY SizeOfSelf, VersionIsLast DEF PhdrRecords
<1>3. E = <<>> => end = Start(e) /\ EndOf(E, 0) = 0
  BY DEF VersionAt, EndOf
<1>4. E # <<>> => end = E[Len(E)].off + E[Len(E)].len /\ EndOf(E, 0) = end
  BY DEF VersionAt, EndOf
(* Without an entry the body is found at 0, and by its size only if it is  *)
(* there.                                                                  *)
<1>5. EndOf(E, 0) = end
  <2>1. CASE E = <<>>
    <3>1. SelfSize(e) - 0 = size
      BY <1>3, <2>1 DEF Trail
    <3> QED
      BY <1>2, <1>3, <2>1, <3>1
  <2>2. CASE E # <<>>
    BY <1>4, <2>2
  <2> QED
    BY <2>1, <2>2
<1>6. off <= u /\ u < off + size
  BY DEF Covers
<1> HIDE DEF s, E, N, end, size, off
<1>7. /\ v \in Int /\ end <= v /\ v < end + size
      /\ v \in 0 .. SelfSize(e) - 1 /\ off + v - end = u
  BY <1>2, <1>6
<1> HIDE DEF v
<1>8. in(v) = {}
  <2>1. ASSUME NEW m \in in(v) PROVE FALSE
    <3>1. m \in 1 .. N /\ v < E[2 * m].off + s[m].size
      BY DEF Covers
    <3>2. /\ 2 * m \in 1 .. 2 * N /\ 2 * N \in 1 .. 2 * N /\ E # <<>>
          /\ E[2 * m].len = s[m].size
          /\ E[2 * m].off \in Nat /\ s[m].size \in Nat
          /\ E[2 * N].off \in Nat /\ E[2 * N].len \in Nat
      <4>1. m \in 1 .. N /\ N >= 1 /\ 2 * N \in 1 .. 2 * N
        BY <1>1, <3>1
      <4>2. E # <<>>
        BY <1>1, <4>1
      <4> QED
        BY <1>1, <4>1, <4>2
    <3>3. E[2 * m].off + s[m].size <= E[2 * N].off + E[2 * N].len
      <4>1. CASE m = N
        BY <3>2, <4>1
      <4>2. CASE m # N
        <5>1. 2 * m < 2 * N
          BY <1>1, <3>1, <4>2
        <5>2. E[2 * m].off + E[2 * m].len <= E[2 * N].off
          BY <1>1, <3>2, <5>1
        <5> DEFINE a == E[2 * m].off
                   b == E[2 * N].off
                   c == s[m].size
                   d == E[2 * N].len
        <5>3. a \in Nat /\ b \in Nat /\ c \in Nat /\ d \in Nat /\ a + c <= b
          BY <3>2, <5>2
        <5> HIDE DEF a, b, c, d
        <5>4. a + c <= b + d
          BY <5>3
        <5> QED
          BY <5>4 DEF a, b, c, d
      <4> QED
        BY <4>1, <4>2
    <3>4. end = E[2 * N].off + E[2 * N].len
      BY <1>1, <1>4, <3>2
    <3> DEFINE a == E[2 * m].off + s[m].size
    <3>5. a \in Nat
      BY <3>2
    <3>6. v < a
      BY <3>1
    <3>7. a <= end
      BY <3>3, <3>4
    <3>8. end <= v /\ v \in Int
      BY <1>7
    <3> HIDE DEF a
    <3> QED
      BY <1>2, <3>5, <3>6, <3>7, <3>8
  <2> HIDE DEF in
  <2> QED
    BY <2>1
<1>9. SelfUnit(e, E, v) = e.data[off + v - end]
  <2>1. EndOf(E, Start(e)) = end
    BY DEF VersionAt, E, end
  <2>2. Covers(end, size, v)
    BY <1>7 DEF Covers
  <2>3. SelfUnit(e, E, v) = e.data[off + v - EndOf(E, Start(e))]
    BY <1>8, <2>1, <2>2 DEF SelfUnit, s, N, size, off
  <2> QED
    BY <2>1, <2>3
<1>10. Fself(e).data[v] = SelfUnit(e, E, v)
  BY <1>7 DEF Fself, E
<1> QED
  BY <1>5, <1>7, <1>9, <1>10 DEF v, E, off


-----------------------------------------------------------------------------
(* Which blob a program header finds *)

LEMMA EntriesSeq ==
  ASSUME NEW e \in Elfs
  PROVE  Entries(e) \in Seq({Entries(e)[i] : i \in 1 .. NumEntries(e)})
<1> DEFINE E == Entries(e)
           M == NumEntries(e)
           V == {E[i] : i \in 1 .. M}
<1>1. M \in Nat
  BY SegmentTypes
<1>2. E = [i \in 1 .. M |-> E[i]]
  BY DEF Entries
<1>3. E \in [1 .. M -> V]
  <2> HIDE DEF M, E
  <2> QED
    BY <1>2
<1> HIDE DEF E, M, V
<1>4. E \in Seq(V)
  BY <1>1, <1>3
<1> QED
  BY <1>4 DEF E, M, V

LEMMA BlobsDef ==
  ASSUME Made, pc \in {"self", "place", "done"}
  PROVE  /\ Trailing = [off |-> EndOf(Entries(elf), 0), len |-> Trail(elf)]
         /\ DOMAIN Blobs = IF Trail(elf) > 0 THEN 1 .. NumEntries(elf) + 1
                           ELSE 1 .. NumEntries(elf)
         /\ \A i \in 1 .. NumEntries(elf) : Blobs[i] = Entries(elf)[i]
         /\ Trail(elf) > 0 => Blobs[NumEntries(elf) + 1] = Trailing
<1> DEFINE E == Entries(elf)
           M == NumEntries(elf)
           V == {E[i] : i \in 1 .. M}
<1>1. elf \in Elfs /\ self = Fself(elf)
  BY DEF Made
<1>2. self.entries = E /\ self.size = SelfSize(elf)
  BY <1>1 DEF Fself
<1>3. M \in Nat /\ Len(E) = M /\ DOMAIN E = 1 .. M /\ E \in Seq(V)
  BY <1>1, SegmentTypes, EntriesDef, EntriesSeq DEF NumEntries
<1>4. Trailing = [off |-> EndOf(E, 0), len |-> Trail(elf)]
  BY <1>2 DEF Trailing, Trail
<1>5. Blobs = IF Trail(elf) > 0 THEN Append(E, Trailing) ELSE E
  BY <1>2, <1>4 DEF Blobs
<1> HIDE DEF E, M, V
<1>6. CASE Trail(elf) > 0
  <2> DEFINE t == Trailing
             B == Append(E, t)
  <2>1. E \in Seq(V \cup {t}) /\ t \in V \cup {t}
    BY <1>3
  <2> HIDE DEF t
  <2>2. /\ DOMAIN B = 1 .. M + 1 /\ B[M + 1] = t
        /\ \A i \in 1 .. M : B[i] = E[i]
    BY <1>3, <2>1
  <2> QED
    BY <1>4, <1>5, <1>6, <2>2 DEF E, M, t
<1>7. CASE ~(Trail(elf) > 0)
  BY <1>3, <1>4, <1>5, <1>7 DEF E, M
<1> QED
  BY <1>6, <1>7

LEMMA DistinctSizes ==
  ASSUME NEW e \in Elfs, Distinct(e), NEW i \in DOMAIN e.phdrs, e.phdrs[i].size # 0
  PROVE  /\ GetsEntry(e.phdrs[i]) =>
              e.phdrs[i].size \notin DigestLens(e) /\ e.phdrs[i].size # Trail(e)
         /\ e.phdrs[i].type = "VERSION" /\ e.phdrs[i] = Version(e) =>
              e.phdrs[i].size \notin Lengths(e) /\ e.phdrs[i].size = Trail(e)
         /\ ~HasBlob(e, e.phdrs[i]) => e.phdrs[i].size \notin Lengths(e) \cup {Trail(e)}
<1> DEFINE ph == e.phdrs[i]
           seg == GetsEntry(ph)
           ver == ph.type = "VERSION" /\ ph = Version(e)
           A == ph.size \notin DigestLens(e) /\ ph.size # Trail(e)
           B == ph.size \notin Lengths(e) /\ ph.size = Trail(e)
           C == ph.size \notin Lengths(e) \cup {Trail(e)}
<1>1. (CASE seg -> A [] ver -> B [] OTHER -> C)
  BY DEF Distinct
<1>2. ~(seg /\ ver)
  BY DEF GetsEntry, EntryTypes
<1>3. HasBlob(e, ph) <=> seg \/ ver
  BY DEF HasBlob
<1> HIDE DEF seg, ver, A, B, C
<1>4. (seg => A) /\ (ver => B) /\ (~seg /\ ~ver => C)
  BY <1>1, <1>2
<1> QED
  BY <1>3, <1>4 DEF seg, ver, A, B, C, ph

(* What the next program header adds to the ones with an entry *)
LEMMA NextWrapped ==
  ASSUME NEW e \in Elfs, NEW n \in 1 .. Len(e.phdrs)
  PROVE  /\ Len(Wrapped(e)[n - 1]) \in Nat
         /\ Len(Wrapped(e)[n - 1]) <= Len(Segments(e))
         /\ ~GetsEntry(e.phdrs[n]) => Wrapped(e)[n] = Wrapped(e)[n - 1]
         /\ GetsEntry(e.phdrs[n]) =>
              /\ Len(Wrapped(e)[n]) = Len(Wrapped(e)[n - 1]) + 1
              /\ Len(Wrapped(e)[n]) \in 1 .. Len(Segments(e))
              /\ Segments(e)[Len(Wrapped(e)[n])] = e.phdrs[n]
<1> DEFINE N == Len(e.phdrs)
           W == Wrapped(e)
           v == W[n - 1]
           w == W[n]
           h == e.phdrs[n]
           s == Segments(e)
<1>1. N \in Nat /\ n \in 0 .. N /\ n - 1 \in 0 .. N /\ n \in 1 .. N /\ h \in PhdrRecords
  BY ElfsAreElfs
<1>2. w = IF GetsEntry(h) THEN Append(v, h) ELSE v
  BY WrappedDef
<1>3. v \in Seq(PhdrRecords) /\ Len(v) <= Len(s) /\ s \in Seq(PhdrRecords)
  BY <1>1, WrappedPrefix
<1>4. Len(w) <= Len(s) /\ \A m \in 1 .. Len(w) : s[m] = w[m]
  BY <1>1, WrappedPrefix
<1> HIDE DEF N, W, v, w, h, s
<1>5. ASSUME GetsEntry(h)
      PROVE  Len(w) = Len(v) + 1 /\ Len(w) \in 1 .. Len(s) /\ s[Len(w)] = h
  <2>1. w = Append(v, h)
    BY <1>2, <1>5
  <2>2. Len(v) \in Nat /\ Len(w) = Len(v) + 1 /\ w[Len(w)] = h
    BY <1>1, <1>3, <2>1
  <2>3. Len(w) \in 1 .. Len(w) /\ Len(s) \in Nat
    BY <1>3, <2>2
  <2> QED
    BY <1>4, <2>2, <2>3
<1>6. Len(v) \in Nat
  BY <1>3
<1> QED
  BY <1>2, <1>3, <1>5, <1>6 DEF v, w, h, s, W

(* A segment finds its own blob: the digest tables have other lengths, and *)
(* earlier segments of its length have taken theirs.                       *)
LEMMA SegmentFindsBlob ==
  ASSUME Made, pc = "place", NEW n \in 1 .. Len(elf.phdrs), Distinct(elf),
         used = PlacedBlobs(elf, n - 1),
         GetsEntry(elf.phdrs[n]), elf.phdrs[n].size # 0
  PROVE  Chosen(elf.phdrs[n]) = {2 * Len(Wrapped(elf)[n])}
<1> DEFINE ph == elf.phdrs[n]
           k == Len(Wrapped(elf)[n])
           N == Len(Segments(elf))
           M == NumEntries(elf)
           s == Segments(elf)
           E == Entries(elf)
<1>1. elf \in Elfs /\ M = 2 * N /\ N \in Nat
  BY SegmentTypes DEF Made, NumEntries
<1>2. k = Len(Wrapped(elf)[n - 1]) + 1 /\ k \in 1 .. N /\ s[k] = ph
  BY <1>1, NextWrapped
<1>3. /\ \A m \in 1 .. N : 2 * m \in 1 .. M /\ E[2 * m].len = s[m].size
      /\ \A m \in 1 .. N : s[m].size \in Nat
  BY <1>1, DataEntries
<1>4. n \in DOMAIN elf.phdrs /\ ph.size \notin DigestLens(elf) /\ ph.size # Trail(elf)
  <2>1. n \in DOMAIN elf.phdrs
    BY <1>1, ElfsAreElfs
  <2> QED
    BY <1>1, <2>1, DistinctSizes
<1>5. /\ 1 .. M \subseteq DOMAIN Blobs
      /\ DOMAIN Blobs \subseteq 1 .. M + 1
      /\ \A i \in 1 .. M : Blobs[i] = E[i]
  <2> HIDE DEF M, E
  <2> QED
    BY <1>1, BlobsDef DEF M, E
<1>6. \A b \in used : b = M + 1 \/ \E m \in 1 .. k - 1 : b = 2 * m
  BY <1>1, <1>2 DEF PlacedBlobs
<1>7. \A m \in 1 .. k - 1 : s[m].size # 0 => 2 * m \in used
  BY <1>1, <1>2 DEF PlacedBlobs
<1>8. \A i \in 1 .. M : i % 2 = 1 => E[i].len # ph.size
  BY <1>4 DEF DigestLens
<1> HIDE DEF s, E, k, N, M, ph
<1>9. 2 * k \in 1 .. M /\ 2 * k \notin used
  <2>1. 2 * k \in 1 .. M
    BY <1>2, <1>3
  <2>2. 2 * k # M + 1 /\ \A m \in 1 .. k - 1 : 2 * k # 2 * m
    BY <1>1, <1>2
  <2> QED
    BY <1>6, <2>1, <2>2
<1>10. 2 * k \in DOMAIN Blobs /\ Fits(2 * k, ph.size)
  BY <1>2, <1>3, <1>5, <1>9 DEF Fits
<1>11. ASSUME NEW j \in 1 .. 2 * k - 1 PROVE ~Fits(j, ph.size)
  <2>1. j \in 1 .. M /\ Blobs[j] = E[j]
    BY <1>1, <1>2, <1>5
  <2>2. CASE j % 2 = 1
    BY <1>8, <2>1, <2>2 DEF Fits
  <2>3. CASE j % 2 # 1
    <3> DEFINE m == j \div 2
    <3>1. m \in 1 .. k - 1 /\ m \in 1 .. N /\ j = 2 * m
      BY <1>1, <1>2, <2>3
    <3> HIDE DEF m
    <3>2. E[j].len = s[m].size /\ (s[m].size # 0 => j \in used)
      BY <1>3, <1>7, <3>1
    <3>3. ph.size # 0
      BY DEF ph
    <3> QED
      BY <2>1, <3>2, <3>3 DEF Fits
  <2> QED
    BY <2>2, <2>3
<1>12. ASSUME NEW i \in DOMAIN Blobs, Fits(i, ph.size),
              \A j \in 1 .. i - 1 : ~Fits(j, ph.size)
       PROVE  i = 2 * k
  <2>1. i \in Int /\ 1 <= i /\ k \in Int /\ 1 <= k
    BY <1>1, <1>2, <1>5
  <2>2. ~(i < 2 * k)
    BY <1>11, <1>12, <2>1
  <2>3. ~(2 * k < i)
    BY <1>10, <1>12, <2>1
  <2> QED
    BY <2>1, <2>2, <2>3
<1>13. Chosen(ph) = {2 * k}
  BY <1>10, <1>11, <1>12 DEF Chosen
<1> QED
  BY <1>13 DEF ph, k

(* The last version header finds the trailing blob, unless an equal header *)
(* has; no other header finds any.                                         *)
LEMMA VersionFindsBlob ==
  ASSUME Made, pc = "place", NEW n \in 1 .. Len(elf.phdrs), Distinct(elf),
         elf.phdrs[n].type = "VERSION", elf.phdrs[n] = Version(elf), elf.phdrs[n].size # 0
  PROVE  Chosen(elf.phdrs[n]) = {NumEntries(elf) + 1} \ used
<1> DEFINE ph == elf.phdrs[n]
           M == NumEntries(elf)
<1>1. elf \in Elfs /\ M \in Nat
  BY SegmentTypes DEF Made
<1>2. n \in DOMAIN elf.phdrs /\ elf.phdrs[n] \in PhdrRecords
  BY <1>1, ElfsAreElfs
<1>3. ph.size \notin Lengths(elf) /\ ph.size = Trail(elf)
  BY <1>1, <1>2, DistinctSizes
<1>4. Trail(elf) > 0
  BY <1>2, <1>3 DEF PhdrRecords
<1>5. /\ DOMAIN Blobs = 1 .. M + 1 /\ Blobs[M + 1].len = Trail(elf)
      /\ \A i \in 1 .. M : Blobs[i] = Entries(elf)[i]
  BY <1>4, BlobsDef
<1>6. \A i \in 1 .. M : Blobs[i].len # ph.size
  BY <1>3, <1>5 DEF Lengths
<1> HIDE DEF ph, M
<1>7. \A i \in DOMAIN Blobs : Fits(i, ph.size) <=> i = M + 1 /\ M + 1 \notin used
  <2>1. \A i \in 1 .. M + 1 : i \in 1 .. M \/ i = M + 1
    BY <1>1
  <2> QED
    BY <1>3, <1>5, <1>6, <2>1 DEF Fits
<1>8. \A i \in DOMAIN Blobs : \A j \in 1 .. i - 1 : j \in DOMAIN Blobs /\ j # M + 1
  BY <1>1, <1>5
<1>9. M + 1 \in DOMAIN Blobs
  BY <1>1, <1>5
<1>10. Chosen(ph) = {M + 1} \ used
  BY <1>7, <1>8, <1>9 DEF Chosen
<1> QED
  BY <1>10 DEF ph, M

LEMMA OthersFindNone ==
  ASSUME Made, pc = "place", NEW n \in 1 .. Len(elf.phdrs), Distinct(elf),
         ~HasBlob(elf, elf.phdrs[n]), elf.phdrs[n].size # 0
  PROVE  Chosen(elf.phdrs[n]) = {}
<1> DEFINE ph == elf.phdrs[n]
           M == NumEntries(elf)
<1>1. elf \in Elfs /\ M \in Nat
  BY SegmentTypes DEF Made
<1>2. n \in DOMAIN elf.phdrs
  BY <1>1, ElfsAreElfs
<1>3. ph.size \notin Lengths(elf) /\ ph.size # Trail(elf)
  BY <1>1, <1>2, DistinctSizes
<1>4. /\ \A i \in DOMAIN Blobs : i \in 1 .. M \/ (i = M + 1 /\ Trail(elf) > 0)
      /\ \A i \in 1 .. M : Blobs[i] = Entries(elf)[i]
      /\ Trail(elf) > 0 => Blobs[M + 1].len = Trail(elf)
  <2> HIDE DEF M
  <2>1. \A i \in 1 .. M + 1 : i \in 1 .. M \/ i = M + 1
    BY <1>1
  <2> QED
    BY <2>1, BlobsDef DEF M
<1>5. \A i \in 1 .. M : Entries(elf)[i].len # ph.size
  BY <1>3 DEF Lengths
<1> QED
  BY <1>3, <1>4, <1>5 DEF Chosen, Fits


-----------------------------------------------------------------------------
(* Serving one program header after the other *)

(* The blobs in use after one more header *)
LEMMA NextPlaced ==
  ASSUME NEW e \in Elfs, NEW n \in 1 .. Len(e.phdrs)
  PROVE  /\ GetsEntry(e.phdrs[n]) =>
              PlacedBlobs(e, n) = PlacedBlobs(e, n - 1) \cup
                IF e.phdrs[n].size = 0 THEN {} ELSE {2 * Len(Wrapped(e)[n])}
         /\ ~GetsEntry(e.phdrs[n]) =>
              PlacedBlobs(e, n) = PlacedBlobs(e, n - 1) \cup
                IF /\ e.phdrs[n].type = "VERSION" /\ e.phdrs[n] = Version(e)
                   /\ e.phdrs[n].size # 0
                THEN {NumEntries(e) + 1} ELSE {}
<1> DEFINE W == Wrapped(e)
           s == Segments(e)
           k == Len(W[n])
           j == Len(W[n - 1])
           IsLast(i) == /\ e.phdrs[i].type = "VERSION" /\ e.phdrs[i] = Version(e)
                        /\ e.phdrs[i].size # 0
           Segs(l) == {2 * m : m \in {m \in 1 .. l : s[m].size # 0}}
           Body(l) == {NumEntries(e) + 1 : i \in {i \in 1 .. l : IsLast(i)}}
<1>1. \A l : PlacedBlobs(e, l) = Segs(Len(W[l])) \cup Body(l)
  BY DEF PlacedBlobs
<1>2. n \in Nat /\ n >= 1 /\ Len(e.phdrs) \in Nat
  BY ElfsAreElfs
<1>3. Body(n) = Body(n - 1) \cup IF IsLast(n) THEN {NumEntries(e) + 1} ELSE {}
  <2>1. \A i : i \in 1 .. n <=> i \in 1 .. n - 1 \/ i = n
    BY <1>2
  <2> HIDE DEF IsLast
  <2> QED
    BY <2>1
<1>4. /\ j \in Nat
      /\ ~GetsEntry(e.phdrs[n]) => W[n] = W[n - 1]
      /\ GetsEntry(e.phdrs[n]) => k = j + 1 /\ s[k] = e.phdrs[n]
  BY NextWrapped
<1> HIDE DEF Segs, Body, IsLast, k, j, W
<1>5. ASSUME GetsEntry(e.phdrs[n])
      PROVE  /\ Segs(k) = Segs(j) \cup IF e.phdrs[n].size = 0 THEN {} ELSE {2 * k}
             /\ ~IsLast(n)
  <2>1. \A m : m \in 1 .. k <=> m \in 1 .. j \/ m = k
    BY <1>4, <1>5
  <2>2. s[k] = e.phdrs[n]
    BY <1>4, <1>5
  <2>3. ~IsLast(n)
    BY <1>5 DEF IsLast, GetsEntry, EntryTypes
  <2> HIDE DEF s
  <2> QED
    BY <2>1, <2>2, <2>3 DEF Segs
<1>6. PlacedBlobs(e, n) = Segs(k) \cup Body(n) /\ PlacedBlobs(e, n - 1) = Segs(j) \cup Body(n - 1)
  BY <1>1 DEF k, j
<1>7. CASE GetsEntry(e.phdrs[n])
  <2>1. PlacedBlobs(e, n) = PlacedBlobs(e, n - 1) \cup
          IF e.phdrs[n].size = 0 THEN {} ELSE {2 * k}
    BY <1>3, <1>5, <1>6, <1>7
  <2> QED
    BY <1>7, <2>1 DEF k, W
<1>8. CASE ~GetsEntry(e.phdrs[n])
  <2>1. k = j
    BY <1>4, <1>8 DEF k, j
  <2>2. PlacedBlobs(e, n) = PlacedBlobs(e, n - 1) \cup
          IF IsLast(n) THEN {NumEntries(e) + 1} ELSE {}
    BY <1>3, <1>6, <2>1
  <2> QED
    BY <1>8, <2>2 DEF IsLast
<1> QED
  BY <1>7, <1>8

LEMMA NoneCarried ==
  ASSUME Made
  PROVE  /\ PlacedBlobs(elf, 0) = {}
         /\ \A u : CarriedBy(elf, u, 1 .. 0) <=> u < elf.hdr
<1>1. Wrapped(elf)[0] = <<>>
  BY WrappedDef DEF Made
<1>2. Len(Wrapped(elf)[0]) = 0
  BY <1>1
<1>3. 1 .. 0 = {}
  OBVIOUS
<1> QED
  BY <1>2, <1>3 DEF PlacedBlobs, CarriedBy

LEMMA BeginServed ==
  ASSUME Made, BeginUnfself
  PROVE  Served'
<1>1. /\ elf \in Elfs /\ self = Fself(elf) /\ elf' = elf /\ next' = 1 /\ pc' = "place"
      /\ used' = {} /\ elf.hdr \in Nat /\ Len(elf.phdrs) \in Nat
      /\ out' = [u \in 0 .. Total - 1 |-> IF u < self.hdr THEN self.head[u] ELSE Zero]
  BY ElfsAreElfs DEF Made, BeginUnfself
<1>2. self.hdr = elf.hdr /\ self.head = [u \in 0 .. elf.hdr - 1 |-> elf.data[u]]
  BY <1>1 DEF Fself
<1>3. ASSUME NEW u \in DOMAIN out', u < elf.hdr
      PROVE  out'[u] = elf.data[u]
  <2>1. u \in 0 .. Total - 1 /\ u \in 0 .. elf.hdr - 1
    BY <1>1, <1>3
  <2>2. out'[u] = self.head[u]
    BY <1>1, <1>2, <1>3, <2>1
  <2> QED
    BY <1>2, <2>1, <2>2
<1>4. next' \in 1 .. Len(elf'.phdrs) + 1 /\ pc' # "done" /\ next' - 1 = 0
  BY <1>1
<1>6. DOMAIN out' = 0 .. Total' - 1
  <2>1. self' = self
    BY DEF BeginUnfself
  <2>2. Total' = Total
    BY <2>1 DEF Total
  <2> QED
    BY <1>1, <2>2
<1>5. /\ PlacedBlobs(elf', next' - 1) = {}
      /\ \A u : CarriedBy(elf', u, 1 .. next' - 1) <=> u < elf.hdr
  BY <1>1, <1>4, NoneCarried
<1> QED
  BY <1>1, <1>3, <1>4, <1>5, <1>6 DEF Served

(* What one step of the loop takes and writes *)
LEMMA PlaceOne ==
  ASSUME Made, Served, Place, Distinct(elf)
  PROVE  /\ used' = PlacedBlobs(elf, next)
         /\ \A u \in DOMAIN out' : CarriedBy(elf, u, 1 .. next) => out'[u] = elf.data[u]
<1> DEFINE ph == elf.phdrs[next]
           found == IF ph.size = 0 THEN {} ELSE Chosen(ph)
           b == Blobs[CHOOSE i \in found : TRUE]
           n == next
<1>1. /\ elf \in Elfs /\ self = Fself(elf) /\ pc = "place"
      /\ Len(elf.phdrs) \in Nat /\ DOMAIN elf.phdrs = 1 .. Len(elf.phdrs)
      /\ self.phdrs = elf.phdrs
  BY ElfsAreElfs DEF Made, Place, Fself
<1>2. /\ n \in 1 .. Len(elf.phdrs) /\ used = PlacedBlobs(elf, n - 1)
      /\ \A u \in DOMAIN out : CarriedBy(elf, u, 1 .. n - 1) => out[u] = elf.data[u]
  BY <1>1 DEF Served, Place
<1>3. /\ used' = used \cup found
      /\ out' = IF found = {} THEN out
                ELSE [u \in DOMAIN out |->
                        IF Covers(ph.off, ph.size, u)
                        THEN self.data[b.off + u - ph.off] ELSE out[u]]
  BY <1>1 DEF Place
<1>4. ph \in PhdrRecords /\ ph.size \in Nat /\ ph.off \in Nat
  <2>1. elf.phdrs \in Seq(PhdrRecords)
    BY <1>1, ElfsAreElfs
  <2>2. ph \in PhdrRecords
    BY <1>2, <2>1
  <2> HIDE DEF ph
  <2> QED
    BY <2>2 DEF PhdrRecords
<1>5. \A u : CarriedBy(elf, u, 1 .. n) <=>
               \/ CarriedBy(elf, u, 1 .. n - 1)
               \/ HasBlob(elf, ph) /\ Covers(ph.off, ph.size, u)
  <2>1. \A i : i \in 1 .. n <=> i \in 1 .. n - 1 \/ i = n
    BY <1>1, <1>2
  <2> QED
    BY <2>1 DEF CarriedBy
<1>6. \A u \in DOMAIN out : u \in Int
  <2>1. DOMAIN out = 0 .. Total - 1
    BY <1>1 DEF Served
  <2> QED
    BY <2>1
<1> HIDE DEF ph, found, b, n
<1>7. ASSUME found = {}, PlacedBlobs(elf, n) = used,
             \A u \in DOMAIN out : HasBlob(elf, ph) /\ Covers(ph.off, ph.size, u) =>
                                     CarriedBy(elf, u, 1 .. n - 1)
      PROVE  /\ used' = PlacedBlobs(elf, n)
             /\ \A u \in DOMAIN out' : CarriedBy(elf, u, 1 .. n) => out'[u] = elf.data[u]
  BY <1>2, <1>3, <1>5, <1>7
<1>8. ASSUME found # {}, PlacedBlobs(elf, n) = used \cup found,
             \A u \in DOMAIN out : Covers(ph.off, ph.size, u) =>
                                     self.data[b.off + u - ph.off] = elf.data[u]
      PROVE  /\ used' = PlacedBlobs(elf, n)
             /\ \A u \in DOMAIN out' : CarriedBy(elf, u, 1 .. n) => out'[u] = elf.data[u]
  <2>1. used' = PlacedBlobs(elf, n)
    BY <1>3, <1>8
  <2>2. ASSUME NEW u \in DOMAIN out', CarriedBy(elf, u, 1 .. n)
        PROVE  out'[u] = elf.data[u]
    <3>1. u \in DOMAIN out
      BY <1>3, <1>8
    <3>2. CASE Covers(ph.off, ph.size, u)
      <4>1. out'[u] = self.data[b.off + u - ph.off]
        BY <1>3, <1>8, <3>1, <3>2
      <4> QED
        BY <1>8, <3>1, <3>2, <4>1
    <3>3. CASE ~Covers(ph.off, ph.size, u)
      <4>1. out'[u] = out[u]
        BY <1>3, <1>8, <3>1, <3>3
      <4>2. CarriedBy(elf, u, 1 .. n - 1)
        BY <1>5, <2>2, <3>3
      <4> QED
        BY <1>2, <3>1, <4>1, <4>2
    <3> QED
      BY <3>2, <3>3
  <2> QED
    BY <2>1, <2>2
(* An empty program header covers nothing *)
<1>9. CASE ph.size = 0
  <2>1. found = {}
    BY <1>9 DEF found
  <2>2. PlacedBlobs(elf, n) = used
    <3>1. CASE GetsEntry(ph)
      <4>1. PlacedBlobs(elf, n) = PlacedBlobs(elf, n - 1) \cup
              IF ph.size = 0 THEN {} ELSE {2 * Len(Wrapped(elf)[n])}
        BY <1>1, <1>2, <3>1, NextPlaced, Zenon DEF ph, n
      <4> QED
        BY <1>2, <1>9, <4>1
    <3>2. CASE ~GetsEntry(ph)
      <4>1. PlacedBlobs(elf, n) = PlacedBlobs(elf, n - 1) \cup
              IF ph.type = "VERSION" /\ ph = Version(elf) /\ ph.size # 0
              THEN {NumEntries(elf) + 1} ELSE {}
        BY <1>1, <1>2, <3>2, NextPlaced, Zenon DEF ph, n
      <4> QED
        BY <1>2, <1>9, <4>1
    <3> QED
      BY <3>1, <3>2
  <2>3. \A u \in DOMAIN out : ~Covers(ph.off, ph.size, u)
    <3>1. SUFFICES ASSUME NEW u \in DOMAIN out, Covers(ph.off, ph.size, u) PROVE FALSE
      OBVIOUS
    <3>2. u \in Int
      BY <1>6
    <3> QED
      BY <1>4, <1>9, <3>1, <3>2 DEF Covers
  <2> QED
    BY <1>7, <2>1, <2>2, <2>3 DEF n
<1>10. CASE ph.size # 0 /\ GetsEntry(ph)
  <2> DEFINE k == Len(Wrapped(elf)[n])
  <2>1. k \in 1 .. Len(Segments(elf)) /\ Segments(elf)[k] = ph
    BY <1>1, <1>2, <1>10, NextWrapped DEF ph, n
  <2>2. Chosen(ph) = {2 * k}
    BY <1>1, <1>2, <1>10, SegmentFindsBlob DEF ph, n
  <2>3. PlacedBlobs(elf, n) = used \cup {2 * k}
    BY <1>1, <1>2, <1>10, NextPlaced DEF ph, n
  <2> HIDE DEF k
  <2>4. found = {2 * k} /\ b = Blobs[2 * k]
    BY <1>10, <2>2 DEF found, b
  <2>5. b = Entries(elf)[2 * k]
    <3>1. 2 * k \in 1 .. NumEntries(elf)
      BY <1>1, <2>1, DataEntries DEF NumEntries
    <3> QED
      BY <1>1, <2>4, <3>1, BlobsDef
  <2>6. ASSUME NEW u \in DOMAIN out, Covers(ph.off, ph.size, u)
        PROVE  self.data[b.off + u - ph.off] = elf.data[u]
    <3>1. u \in Int
      BY <1>6
    <3>2. Fself(elf).data[Entries(elf)[2 * k].off + u - Segments(elf)[k].off] = elf.data[u]
      BY <1>1, <2>1, <2>6, <3>1, SegmentData
    <3> QED
      BY <1>1, <2>1, <2>5, <3>2
  <2> QED
    BY <1>8, <2>3, <2>4, <2>6 DEF n
<1>11. CASE ph.size # 0 /\ ph.type = "VERSION" /\ ph = Version(elf)
  <2> DEFINE M == NumEntries(elf)
  <2>1. Chosen(ph) = {M + 1} \ used
    BY <1>1, <1>2, <1>11, VersionFindsBlob DEF ph, n
  <2>2. PlacedBlobs(elf, n) = used \cup {M + 1}
    <3>1. ~GetsEntry(ph)
      BY <1>11 DEF GetsEntry, EntryTypes
    <3> QED
      BY <1>1, <1>2, <1>11, <3>1, NextPlaced DEF ph, n
  <2>3. found = {M + 1} \ used
    BY <1>11, <2>1 DEF found
  <2>4. CASE M + 1 \notin used
    <3>1. found = {M + 1} /\ b = Blobs[M + 1]
      BY <2>3, <2>4 DEF b
    <3>2. Versions(elf) # {} /\ n \in DOMAIN elf.phdrs
      BY <1>1, <1>2, <1>11 DEF Versions, ph, n
    <3>3. Trail(elf) = Version(elf).size
      BY <1>1, <1>11, <3>2, DistinctSizes DEF ph, n
    <3>4. Trail(elf) > 0
      BY <1>4, <1>11, <3>3
    <3>5. b.off = EndOf(Entries(elf), 0)
      BY <1>1, <3>1, <3>4, BlobsDef
    <3>6. ASSUME NEW u \in DOMAIN out, Covers(ph.off, ph.size, u)
          PROVE  self.data[b.off + u - ph.off] = elf.data[u]
      <4>1. u \in Int /\ Covers(Version(elf).off, Version(elf).size, u)
        BY <1>6, <1>11, <3>6
      <4>2. Fself(elf).data[EndOf(Entries(elf), 0) + u - Version(elf).off] = elf.data[u]
        BY <1>1, <3>2, <3>3, <4>1, VersionData
      <4> QED
        BY <1>1, <1>11, <3>5, <4>2
    <3> QED
      BY <1>8, <2>2, <3>1, <3>6 DEF n
  <2>5. CASE M + 1 \in used
    <3>1. found = {} /\ PlacedBlobs(elf, n) = used
      BY <2>2, <2>3, <2>5
    <3>2. PICK i \in 1 .. n - 1 : elf.phdrs[i].type = "VERSION" /\ elf.phdrs[i] = Version(elf)
      <4>1. \A m \in Nat : M + 1 # 2 * m
        BY <1>1, SegmentTypes DEF NumEntries
      <4> HIDE DEF M
      <4>2. \A m \in 1 .. Len(Wrapped(elf)[n - 1]) : M + 1 # 2 * m
        <5>1. \A m \in 1 .. Len(Wrapped(elf)[n - 1]) : m \in Nat
          BY <1>1, <1>2, NextWrapped
        <5> QED
          BY <4>1, <5>1
      <4> QED
        BY <1>2, <2>5, <4>2 DEF PlacedBlobs
    <3>3. \A u : Covers(ph.off, ph.size, u) => CarriedBy(elf, u, 1 .. n - 1)
      BY <1>11, <3>2 DEF CarriedBy, HasBlob
    <3> QED
      BY <1>7, <3>1, <3>3 DEF n
  <2> QED
    BY <2>4, <2>5
<1>12. CASE ph.size # 0 /\ ~HasBlob(elf, ph)
  <2>1. found = {}
    BY <1>1, <1>2, <1>12, OthersFindNone DEF found, ph, n
  <2>2. PlacedBlobs(elf, n) = used
    <3>1. /\ ~GetsEntry(ph)
          /\ ~(ph.type = "VERSION" /\ ph = Version(elf) /\ ph.size # 0)
      BY <1>12 DEF HasBlob
    <3>2. PlacedBlobs(elf, n) = PlacedBlobs(elf, n - 1) \cup
            IF ph.type = "VERSION" /\ ph = Version(elf) /\ ph.size # 0
            THEN {NumEntries(elf) + 1} ELSE {}
      BY <1>1, <1>2, <3>1, NextPlaced, Zenon DEF ph, n
    <3> QED
      BY <1>2, <3>1, <3>2
  <2> QED
    BY <1>7, <1>12, <2>1, <2>2 DEF n
<1> QED
  BY <1>9, <1>10, <1>11, <1>12 DEF HasBlob

LEMMA PlaceServed ==
  ASSUME Made, Served, Place
  PROVE  Served'
<1>1. /\ elf' = elf /\ self' = self /\ pc' = pc /\ pc = "place" /\ next' = next + 1
      /\ next <= Len(elf.phdrs) /\ Len(elf.phdrs) \in Nat /\ next \in 1 .. Len(elf.phdrs) + 1
  <2>1. self.phdrs = elf.phdrs /\ elf \in Elfs
    BY DEF Made, Fself, Place
  <2> QED
    BY <2>1, ElfsAreElfs DEF Place, Served
<1>2. next' \in 1 .. Len(elf.phdrs) + 1 /\ next' - 1 = next
  BY <1>1
<1>3. DOMAIN out' = DOMAIN out
  BY DEF Place
<1>4. Total' = Total
  BY <1>1 DEF Total
<1>5. Distinct(elf)' <=> Distinct(elf)
  BY <1>1
<1>6. Distinct(elf) => /\ used' = PlacedBlobs(elf, next)
                       /\ \A u \in DOMAIN out' :
                            CarriedBy(elf, u, 1 .. next) => out'[u] = elf.data[u]
  BY PlaceOne
<1>7. DOMAIN out = 0 .. Total - 1
  BY <1>1 DEF Served
<1> QED
  BY <1>1, <1>2, <1>3, <1>4, <1>6, <1>7 DEF Served

LEMMA RInit == Init => RInv
  BY MadeInit DEF RInv, Served, Init

LEMMA RStep == RInv /\ [Next]_vars => RInv'
<1>. SUFFICES ASSUME RInv, [Next]_vars PROVE RInv'
  OBVIOUS
<1>1. Made /\ Served /\ Made'
  BY MadeStep DEF RInv
<1>2. CASE MakeFself \/ Overflow
  BY <1>1, <1>2 DEF MakeFself, Overflow, RInv, Served
<1>3. CASE BeginUnfself
  BY <1>1, <1>3, BeginServed DEF RInv
<1>4. CASE Place
  BY <1>1, <1>4, PlaceServed DEF RInv
<1>5. CASE EndUnfself
  <2>1. /\ pc = "place" /\ pc' = "done" /\ UNCHANGED <<elf, self, out, used, next>>
        /\ next > Len(elf.phdrs) /\ elf \in Elfs
    BY <1>1, <1>5 DEF EndUnfself, Made, Fself
  <2>2. next \in 1 .. Len(elf.phdrs) + 1 /\ Len(elf.phdrs) \in Nat
    BY <1>1, <2>1, ElfsAreElfs DEF Served
  <2>3. next = Len(elf.phdrs) + 1
    BY <2>1, <2>2
  <2>4. Total' = Total
    BY <2>1 DEF Total
  <2> QED
    BY <1>1, <2>1, <2>2, <2>3, <2>4 DEF RInv, Served
<1>6. CASE UNCHANGED vars
  <2>1. UNCHANGED <<elf, self, out, used, next, pc>>
    BY <1>6 DEF vars
  <2>2. Total' = Total
    BY <2>1 DEF Total
  <2> QED
    BY <1>1, <2>1, <2>2 DEF RInv, Served
<1>. QED
  BY <1>2, <1>3, <1>4, <1>5, <1>6 DEF Next

LEMMA ServedAll == RInv => RoundTrip
<1>. SUFFICES ASSUME RInv, pc = "done", Distinct(elf), NEW u \in DOMAIN out, Carried(u)
              PROVE  out[u] = elf.data[u]
  BY DEF RoundTrip, Restored
<1>1. /\ elf \in Elfs /\ next = Len(elf.phdrs) + 1
      /\ \A w \in DOMAIN out : CarriedBy(elf, w, 1 .. next - 1) => out[w] = elf.data[w]
  BY DEF RInv, Made, Served
<1>2. DOMAIN elf.phdrs = 1 .. next - 1
  BY <1>1, ElfsAreElfs
<1> QED
  BY <1>1, <1>2 DEF Carried

(* makefself.c and unfself.c, one after the other: an executable whose     *)
(* sizes do not collide comes back as it was, as far as a SELF carries it, *)
(* although unfself finds each part by its size alone.                     *)
THEOREM ComesBack == Spec => []RoundTrip
BY RInit, RStep, ServedAll, PTL DEF Spec
=============================================================================
