--------------------------- MODULE UnpackTreeProofs ---------------------------
(***************************************************************************)
(* For every image and command line: the comparison with a mask decides as *)
(* the meaning of the mask does, an unpacking is complete, and an          *)
(* enumeration tells of all that its stops do not cut off.                 *)
(***************************************************************************)
EXTENDS UnpackTreeProps, Induction, SequenceTheorems, FiniteSetTheorems

-----------------------------------------------------------------------------
(* The meaning of a mask, row by row *)

LEMMA Rows ==
  ASSUME NEW name, Len(name) \in Nat, NEW p, Len(p) \in Nat
  PROVE  LET fits == Fits(name, p)
         IN /\ fits[0] = {0}
            /\ \A j \in 1 .. Len(p) : fits[j] = Reach(name, p[j], fits[j - 1])
            /\ \A j \in 0 .. Len(p) : fits[j] \subseteq 0 .. Len(name)
<1> DEFINE S == SUBSET (0 .. Len(name))
           step == [j \in 1 .. Len(p) |-> [from \in S |-> Reach(name, p[j], from)]]
           Def(f) == f = [j \in 0 .. Len(p) |->
                            IF j = 0 THEN {0} ELSE Reach(name, p[j], f[j - 1])]
<1>1. step \in [1 .. Len(p) -> [S -> S]]
  <2>1. \A j \in 1 .. Len(p) : \A from \in S : Reach(name, p[j], from) \in S
    BY DEF Reach
  <2> QED
    BY <2>1
<1>2. {0} \in S
  OBVIOUS
<1> HIDE DEF S, step
<1>3. \E f : IsLoop(f, Len(p), S, {0}, step)
  BY <1>1, <1>2, Loop
<1>4. PICK f : IsLoop(f, Len(p), S, {0}, step)
  BY <1>3
<1>5. \A k \in 1 .. Len(p) : k - 1 \in 0 .. Len(p) /\ k # 0
  OBVIOUS
<1>6. \A k \in 1 .. Len(p) : f[k] = Reach(name, p[k], f[k - 1])
  BY <1>4, <1>5 DEF step, IsLoop
<1>7. Def(f)
  <2>1. \A k \in 0 .. Len(p) : k = 0 \/ k \in 1 .. Len(p)
    OBVIOUS
  <2> QED
    BY <1>6, <2>1, <1>4 DEF IsLoop
<1>8. Fits(name, p) = CHOOSE g : Def(g)
  BY DEF Fits
<1>9. Def(Fits(name, p))
  <2> HIDE DEF Def
  <2> QED
    BY <1>7, <1>8, Zenon
<1> DEFINE F == Fits(name, p)
<1>10. F = [j \in 0 .. Len(p) |-> IF j = 0 THEN {0} ELSE Reach(name, p[j], F[j - 1])]
  BY <1>9
<1> HIDE DEF F, Def
<1>11. F[0] = {0}
  BY <1>10
<1>12. ASSUME NEW j \in 1 .. Len(p) PROVE F[j] = Reach(name, p[j], F[j - 1])
  <2>1. j \in 0 .. Len(p) /\ j # 0
    OBVIOUS
  <2> QED
    BY <2>1, <1>10, Zenon
<1>13. ASSUME NEW j \in 0 .. Len(p) PROVE F[j] \subseteq 0 .. Len(name)
  <2>1. CASE j = 0
    BY <2>1, <1>11
  <2>2. CASE j # 0
    <3>1. F[j] = Reach(name, p[j], F[j - 1])
      BY <2>2, <1>12
    <3> QED
      BY <3>1 DEF Reach
  <2> QED
    BY <2>1, <2>2
<1> QED
  BY <1>11, <1>12, <1>13 DEF F

LEMMA StarsBefore ==
  ASSUME NEW p, NEW k \in Nat
  PROVE  LET b == BeforeStars(p, k)
         IN /\ b \in 0 .. k /\ \A i \in b + 1 .. k : p[i] = AnyRun
            /\ b = 0 \/ p[b] # AnyRun
<1> DEFINE Good(j) == /\ \A i \in j + 1 .. k : p[i] = AnyRun
                      /\ j = 0 \/ p[j] # AnyRun
           T == {j \in 0 .. k : \A i \in j + 1 .. k : p[i] = AnyRun}
<1>1. k \in T /\ T \subseteq Nat
  OBVIOUS
<1>2. PICK j \in T : \A i \in T : j <= i
  <2> HIDE DEF T
  <2> QED
    BY <1>1, Least
<1>3. ASSUME j # 0, p[j] = AnyRun PROVE FALSE
  <2>1. j - 1 \in T
    BY <1>3
  <2> QED
    BY <2>1, <1>2
<1>4. j \in 0 .. k /\ Good(j)
  BY <1>2, <1>3
<1>5. BeforeStars(p, k) = CHOOSE i \in 0 .. k : Good(i)
  BY DEF BeforeStars
<1> HIDE DEF Good
<1>6. BeforeStars(p, k) \in 0 .. k /\ Good(BeforeStars(p, k))
  BY <1>4, <1>5
<1> QED
  BY <1>6 DEF Good

(* A run of * in a mask takes what one takes.                              *)
LEMMA StarRun ==
  ASSUME NEW name, Len(name) \in Nat, NEW p, Len(p) \in Nat,
         NEW k \in 0 .. Len(p), NEW m \in k + 1 .. Len(p),
         \A i \in k + 1 .. m : p[i] = AnyRun
  PROVE  \A i \in 0 .. Len(name) :
           i \in Fits(name, p)[m] <=> \E j \in Fits(name, p)[k] : j <= i
<1> DEFINE F == Fits(name, p)
           Spread(d) == \A i \in 0 .. Len(name) : i \in F[d] <=> \E j \in F[k] : j <= i
           n == m - (k + 1)
           T == {d \in 0 .. n : Spread(k + 1 + d)}
<1>1. ASSUME NEW d \in 0 .. n
      PROVE  F[k + 1 + d] = {i \in 0 .. Len(name) : \E j \in F[k + d] : j <= i}
  <2>1. k + 1 + d \in 1 .. Len(p) /\ p[k + 1 + d] = AnyRun /\ (k + 1 + d) - 1 = k + d
    OBVIOUS
  <2>2. F[k + 1 + d] = Reach(name, p[k + 1 + d], F[k + d])
    BY <2>1, Rows
  <2> QED
    BY <2>1, <2>2 DEF Reach
<1>2. \A d \in 0 .. Len(p) : F[d] \subseteq 0 .. Len(name)
  BY Rows
<1> HIDE DEF F
<1>3. 0 \in T
  <2>1. 0 \in 0 .. n /\ k + 0 = k
    OBVIOUS
  <2>2. Spread(k + 1 + 0)
    BY <1>1, <2>1
  <2> QED
    BY <2>1, <2>2
<1>4. ASSUME NEW d \in 1 .. n, d - 1 \in T PROVE d \in T
  <2>1. k + 1 + (d - 1) = k + d /\ d \in 0 .. n /\ k + d \in 0 .. Len(p)
    OBVIOUS
  <2>2. Spread(k + d)
    BY <1>4, <2>1
  <2>3. F[k + 1 + d] = {i \in 0 .. Len(name) : \E j \in F[k + d] : j <= i}
    BY <1>1, <2>1
  <2>4. F[k] \subseteq 0 .. Len(name) /\ F[k + d] \subseteq 0 .. Len(name)
    BY <1>2, <2>1
  <2>5. Spread(k + 1 + d)
    BY <2>2, <2>3, <2>4
  <2> QED
    BY <2>1, <2>5
<1>5. n \in Nat
  OBVIOUS
<1>6. \A d \in 0 .. n : d \in T
  <2>1. \A d \in 1 .. n : d - 1 \in T => d \in T
    BY <1>4
  <2> HIDE DEF T, n
  <2> QED
    BY <1>3, <2>1, <1>5, UpTo
<1>7. Spread(m)
  <2>1. n \in T
    <3> HIDE DEF T, n
    <3>1. n \in 0 .. n
      BY <1>5
    <3> QED
      BY <3>1, <1>6
  <2>2. k + 1 + n = m
    OBVIOUS
  <2> QED
    BY <2>1, <2>2
<1> QED
  BY <1>7 DEF F

-----------------------------------------------------------------------------
(* One step of the comparison *)

Running(m) == m \in Comparisons /\ m.result = "run" /\ MatchSound(m)

LEMMA RunningDef ==
  ASSUME NEW m, Running(m)
  PROVE  LET F == Fits(m.name, m.pattern)
         IN /\ m \in Comparisons /\ m.result = "run"
            /\ Len(m.name) \in Nat /\ Len(m.pattern) \in Nat
            /\ m.name # <<>> /\ m.pattern # <<>>
            /\ m.data \in 0 .. Len(m.name) /\ m.mask \in 0 .. Len(m.pattern)
            /\ m.lsm \in Int /\ m.lsn \in Int
            /\ m.lsm # NoPlace => CanResume(m, F)
            /\ Glob(m.name, m.pattern) <=>
                 \/ m.data \in F[m.mask]
                 \/ m.lsm # NoPlace /\ \E i \in F[m.lsm] : i < m.lsn
            /\ \A j \in 0 .. Len(m.pattern) : F[j] \subseteq 0 .. Len(m.name)
<1> DEFINE F == Fits(m.name, m.pattern)
<1>1. m \in Comparisons /\ m.result = "run" /\ MatchSound(m)
  BY DEF Running
<1>2. /\ Len(m.name) \in Nat /\ Len(m.pattern) \in Nat
      /\ m.lsm \in Int /\ m.lsn \in Int
  BY <1>1 DEF Comparisons, Text
<1>3. \A j \in 0 .. Len(m.pattern) : F[j] \subseteq 0 .. Len(m.name)
  BY <1>2, Rows
<1>4. /\ m.name # <<>> /\ m.pattern # <<>>
      /\ m.data \in 0 .. Len(m.name) /\ m.mask \in 0 .. Len(m.pattern)
      /\ m.lsm # NoPlace => CanResume(m, F)
      /\ Glob(m.name, m.pattern) <=>
           \/ m.data \in F[m.mask]
           \/ m.lsm # NoPlace /\ \E i \in F[m.lsm] : i < m.lsn
  BY <1>1 DEF MatchSound
<1> QED
  BY <1>1, <1>2, <1>3, <1>4

(* How the place to fall back to is kept when both cursors move.           *)
LEMMA StillResumes ==
  ASSUME NEW f, NEW g, NEW taken \in Int,
         f \subseteq Int,
         \A i \in f : i >= taken /\ i - taken \in g,
         NEW h, \A i \in g : i >= 1 /\ i - 1 \in h
  PROVE  \A i \in f : i >= taken + 1 /\ i - (taken + 1) \in h
<1> TAKE i \in f
<1>1. i \in Int /\ i - taken >= 1 /\ (i - taken) - 1 \in h
  OBVIOUS
<1>2. (i - taken) - 1 = i - (taken + 1)
  BY <1>1
<1> QED
  BY <1>1, <1>2

LEMMA FinishSound ==
  ASSUME NEW m, Running(m), NEW yes \in BOOLEAN, yes <=> Glob(m.name, m.pattern)
  PROVE  Finish(m, yes) \in Comparisons /\ MatchSound(Finish(m, yes))
<1>1. m \in Comparisons
  BY DEF Running
<1>2. /\ Finish(m, yes) \in Comparisons
      /\ Finish(m, yes).name = m.name /\ Finish(m, yes).pattern = m.pattern
      /\ Finish(m, yes).result = IF yes THEN "yes" ELSE "no"
  BY <1>1 DEF Finish, Comparisons
<1> QED
  BY <1>2 DEF MatchSound

(* The characters agree, or the mask takes any.                            *)
LEMMA BothSound ==
  ASSUME NEW m, Running(m), m.data # 0, m.mask # 0,
         m.pattern[m.mask] # AnyRun,
         m.pattern[m.mask] \in {AnyChar, m.name[m.data]}
  PROVE  Running(Both(m))
<1> DEFINE F == Fits(m.name, m.pattern)
           n == Both(m)
<1>0. /\ m \in Comparisons /\ m.result = "run"
      /\ Len(m.name) \in Nat /\ Len(m.pattern) \in Nat
      /\ m.name # <<>> /\ m.pattern # <<>>
      /\ m.data \in 1 .. Len(m.name) /\ m.mask \in 1 .. Len(m.pattern)
      /\ m.lsm \in Int /\ m.lsn \in Int
      /\ m.lsm # NoPlace => CanResume(m, F)
      /\ Glob(m.name, m.pattern) <=>
           \/ m.data \in F[m.mask]
           \/ m.lsm # NoPlace /\ \E i \in F[m.lsm] : i < m.lsn
      /\ \A j \in 0 .. Len(m.pattern) : F[j] \subseteq 0 .. Len(m.name)
  <2>1. m.data \in 0 .. Len(m.name) /\ m.mask \in 0 .. Len(m.pattern)
    BY RunningDef
  <2>2. m.data \in 1 .. Len(m.name) /\ m.mask \in 1 .. Len(m.pattern)
    BY <2>1, RunningDef
  <2> HIDE DEF F
  <2> QED
    BY <2>2, RunningDef DEF F
<1>1. /\ n \in Comparisons /\ n.name = m.name /\ n.pattern = m.pattern
      /\ n.data = m.data - 1 /\ n.mask = m.mask - 1
      /\ n.lsm = m.lsm /\ n.lsn = m.lsn /\ n.result = "run"
  <2>1. m \in Comparisons /\ m.result = "run"
    BY <1>0
  <2> DEFINE a == [m EXCEPT !.data = m.data - 1]
  <2>2. n = [a EXCEPT !.mask = m.mask - 1]
    BY DEF Both
  <2>3. /\ a \in Comparisons /\ a.name = m.name /\ a.pattern = m.pattern
        /\ a.data = m.data - 1 /\ a.mask = m.mask
        /\ a.lsm = m.lsm /\ a.lsn = m.lsn /\ a.result = "run"
    BY <2>1 DEF Comparisons
  <2> HIDE DEF a, n
  <2> QED
    BY <2>1, <2>2, <2>3 DEF Comparisons
<1>2. F[m.mask] = Reach(m.name, m.pattern[m.mask], F[m.mask - 1])
  BY <1>0, Rows
<1> HIDE DEF F, n
<1>3. F[m.mask] = {i \in 1 .. Len(m.name) : /\ m.pattern[m.mask] \in {AnyChar, m.name[i]}
                                           /\ i - 1 \in F[m.mask - 1]}
  BY <1>2 DEF Reach
<1>4. m.data \in F[m.mask] <=> m.data - 1 \in F[m.mask - 1]
  BY <1>3, <1>0
<1>5. ASSUME m.lsm # NoPlace PROVE CanResume(n, F)
  <2>1. /\ m.lsn \in 1 .. Len(m.name) /\ m.lsm \in m.mask .. Len(m.pattern)
        /\ m.lsn - m.data = m.lsm - m.mask
        /\ \A i \in F[m.lsm] : i >= m.lsm - m.mask /\ i - (m.lsm - m.mask) \in F[m.mask]
    BY <1>5, <1>0 DEF CanResume
  <2>2. F[m.lsm] \subseteq Int /\ m.lsm - m.mask \in Int
    BY <2>1, <1>0
  <2>3. \A i \in F[m.mask] : i >= 1 /\ i - 1 \in F[m.mask - 1]
    BY <1>3
  <2>4. \A i \in F[m.lsm] : i >= (m.lsm - m.mask) + 1
                            /\ i - ((m.lsm - m.mask) + 1) \in F[m.mask - 1]
    <3> DEFINE f == F[m.lsm]
               g == F[m.mask]
               h == F[m.mask - 1]
               t == m.lsm - m.mask
    <3>1. /\ t \in Int /\ f \subseteq Int
          /\ \A i \in f : i >= t /\ i - t \in g
          /\ \A i \in g : i >= 1 /\ i - 1 \in h
      BY <2>1, <2>2, <2>3
    <3> HIDE DEF f, g, h, t
    <3>2. \A i \in f : i >= t + 1 /\ i - (t + 1) \in h
      BY <3>1, StillResumes
    <3> QED
      BY <3>2 DEF f, g, h, t
  <2>5. /\ m.lsm \in Int /\ m.mask \in Int /\ m.lsn \in Int /\ m.data \in Int
        /\ m.lsm \in m.mask .. Len(m.pattern) /\ m.lsn - m.data = m.lsm - m.mask
        /\ Len(m.pattern) \in Nat
    BY <1>0, <2>1
  <2>6. /\ m.lsm \in m.mask - 1 .. Len(m.pattern)
        /\ m.lsn - (m.data - 1) = m.lsm - (m.mask - 1)
        /\ (m.lsm - m.mask) + 1 = m.lsm - (m.mask - 1)
    BY <2>5
  <2>7. \A i \in F[m.lsm] : i >= m.lsm - (m.mask - 1)
                            /\ i - (m.lsm - (m.mask - 1)) \in F[m.mask - 1]
    BY <2>4, <2>6
  <2> QED
    BY <2>1, <2>6, <2>7, <1>1 DEF CanResume
<1>6. n.data \in 0 .. Len(n.name) /\ n.mask \in 0 .. Len(n.pattern)
  BY <1>0, <1>1
<1>7. MatchSound(n)
  BY <1>0, <1>1, <1>4, <1>5, <1>6 DEF MatchSound, F
<1> QED
  BY <1>1, <1>7 DEF Running, n

Moved(m, d, t, a, s) == [m EXCEPT !.data = d, !.lsn = t, !.mask = a, !.lsm = s]
LEMMA MovedFields ==
  ASSUME NEW m \in Comparisons, NEW d \in Int, NEW t \in Int, NEW a \in Int, NEW s \in Int
  PROVE  LET n == Moved(m, d, t, a, s)
         IN /\ n \in Comparisons /\ n.name = m.name /\ n.pattern = m.pattern
            /\ n.data = d /\ n.mask = a /\ n.lsm = s /\ n.lsn = t
            /\ n.result = m.result
<1> DEFINE x == [m EXCEPT !.data = d]
           y == [x EXCEPT !.lsn = t]
           z == [y EXCEPT !.mask = a]
<1>1. /\ x \in Comparisons /\ x.name = m.name /\ x.pattern = m.pattern
      /\ x.data = d /\ x.result = m.result
  BY DEF Comparisons
<1>2. Moved(m, d, t, a, s) = [z EXCEPT !.lsm = s]
  BY DEF Moved
<1> HIDE DEF x
<1>3. /\ y \in Comparisons /\ y.name = m.name /\ y.pattern = m.pattern
      /\ y.data = d /\ y.lsn = t /\ y.result = m.result
  BY <1>1 DEF Comparisons
<1> HIDE DEF y
<1>4. /\ z \in Comparisons /\ z.name = m.name /\ z.pattern = m.pattern
      /\ z.data = d /\ z.lsn = t /\ z.mask = a /\ z.result = m.result
  BY <1>3 DEF Comparisons
<1> HIDE DEF z
<1> QED
  BY <1>2, <1>4 DEF Comparisons

(* Where they disagree there is the place to resume at, one character of   *)
(* the name earlier than before.                                           *)
LEMMA FallBackSound ==
  ASSUME NEW m, Running(m), m.lsm # NoPlace, m.data \notin Fits(m.name, m.pattern)[m.mask]
  PROVE  /\ Running(FallBack(m))
         /\ FallBack(m).data = m.lsn - 1 /\ FallBack(m).mask = m.lsm
<1> DEFINE F == Fits(m.name, m.pattern)
           n == FallBack(m)
<1>1. /\ m \in Comparisons /\ m.result = "run"
      /\ Len(m.name) \in Nat /\ Len(m.pattern) \in Nat
      /\ m.name # <<>> /\ m.pattern # <<>>
      /\ m.mask \in 0 .. Len(m.pattern) /\ CanResume(m, F)
      /\ m.lsm \in Int /\ m.lsn \in Int
      /\ Glob(m.name, m.pattern) <=> \E i \in F[m.lsm] : i < m.lsn
      /\ \A j \in 0 .. Len(m.pattern) : F[j] \subseteq 0 .. Len(m.name)
  BY RunningDef
<1>2. m.lsn \in 1 .. Len(m.name) /\ m.lsm \in m.mask .. Len(m.pattern)
  BY <1>1 DEF CanResume
<1>3. /\ n \in Comparisons /\ n.name = m.name /\ n.pattern = m.pattern
      /\ n.data = m.lsn - 1 /\ n.mask = m.lsm /\ n.lsn = m.lsn - 1
      /\ n.lsm = (IF m.lsn - 1 < 1 THEN NoPlace ELSE m.lsm) /\ n.result = "run"
  <2> DEFINE s == IF m.lsn - 1 < 1 THEN NoPlace ELSE m.lsm
  <2>1. m \in Comparisons /\ s \in Int /\ m.lsn - 1 \in Int /\ m.lsm \in Int
    BY <1>1 DEF NoPlace
  <2>2. n = Moved(m, m.lsn - 1, m.lsn - 1, m.lsm, s)
    BY DEF FallBack, Moved
  <2> HIDE DEF n, s
  <2>3. /\ n \in Comparisons /\ n.name = m.name /\ n.pattern = m.pattern
        /\ n.data = m.lsn - 1 /\ n.mask = m.lsm /\ n.lsn = m.lsn - 1
        /\ n.lsm = s /\ n.result = m.result
    BY <2>1, <2>2, MovedFields
  <2> QED
    BY <2>3, <1>1 DEF s
<1> HIDE DEF F, n
<1>4. F[m.lsm] \subseteq 0 .. Len(m.name)
  BY <1>1, <1>2
<1>5. Glob(n.name, n.pattern) <=>
        \/ n.data \in F[n.mask]
        \/ n.lsm # NoPlace /\ \E i \in F[n.lsm] : i < n.lsn
  BY <1>1, <1>2, <1>3, <1>4
<1>6. n.lsm # NoPlace => CanResume(n, F)
  <2> SUFFICES ASSUME n.lsm # NoPlace PROVE CanResume(n, F)
    OBVIOUS
  <2>1. /\ n.lsm = m.lsm /\ n.mask = m.lsm /\ n.lsn \in 1 .. Len(n.name)
        /\ m.lsm \in m.lsm .. Len(m.pattern) /\ n.lsn = n.data /\ n.lsn \in Int
        /\ m.lsm - m.lsm = 0 /\ n.lsn - n.data = 0
    BY <1>2, <1>3, <1>1
  <2>2. \A i \in F[m.lsm] : i >= 0 /\ i - 0 \in F[m.lsm]
    BY <1>4
  <2> QED
    BY <2>1, <2>2, <1>3 DEF CanResume
<1>7. MatchSound(n)
  <2>1. n.data \in 0 .. Len(n.name) /\ n.mask \in 0 .. Len(n.pattern)
    BY <1>1, <1>2, <1>3
  <2> QED
    BY <1>1, <1>3, <1>5, <1>6, <2>1 DEF MatchSound, F
<1> QED
  BY <1>3, <1>7 DEF Running, n

(* A * takes what it needs: the place to resume at is in front of it.      *)
LEMMA StarSound ==
  ASSUME NEW m, Running(m), m.data # 0, m.mask # 0, m.pattern[m.mask] = AnyRun
  PROVE  Star(m) \in Comparisons /\ MatchSound(Star(m))
<1> DEFINE F == Fits(m.name, m.pattern)
           k == BeforeStars(m.pattern, m.mask)
           n == [m EXCEPT !.mask = k, !.lsm = k, !.lsn = m.data]
<1>1. /\ m \in Comparisons /\ m.result = "run"
      /\ Len(m.name) \in Nat /\ Len(m.pattern) \in Nat
      /\ m.name # <<>> /\ m.pattern # <<>>
      /\ m.data \in 0 .. Len(m.name) /\ m.mask \in 0 .. Len(m.pattern)
      /\ m.lsm \in Int /\ m.lsn \in Int
      /\ m.lsm # NoPlace => CanResume(m, F)
      /\ Glob(m.name, m.pattern) <=>
           \/ m.data \in F[m.mask]
           \/ m.lsm # NoPlace /\ \E i \in F[m.lsm] : i < m.lsn
      /\ \A j \in 0 .. Len(m.pattern) : F[j] \subseteq 0 .. Len(m.name)
  BY RunningDef
<1>2. m.data \in 1 .. Len(m.name) /\ m.mask \in 1 .. Len(m.pattern)
  <2>1. m.data \in Nat /\ m.data <= Len(m.name) /\ m.mask \in Nat /\ m.mask <= Len(m.pattern)
    BY <1>1
  <2> QED
    BY <2>1, <1>1
<1>3. /\ k \in 0 .. m.mask /\ \A i \in k + 1 .. m.mask : m.pattern[i] = AnyRun
      /\ k = 0 \/ m.pattern[k] # AnyRun
  <2>1. m.mask \in Nat
    BY <1>2, <1>1
  <2> QED
    BY <2>1, StarsBefore
<1> HIDE DEF k
<1>4. k \in 0 .. Len(m.pattern) /\ k # m.mask /\ m.mask \in k + 1 .. Len(m.pattern)
  BY <1>1, <1>2, <1>3
<1>5. \A i \in 0 .. Len(m.name) : i \in F[m.mask] <=> \E j \in F[k] : j <= i
  BY <1>1, <1>3, <1>4, StarRun
<1>6. Star(m) = IF k = 0 THEN Finish(n, TRUE) ELSE n
  BY DEF Star, k
<1>7. /\ n \in Comparisons /\ n.name = m.name /\ n.pattern = m.pattern
      /\ n.data = m.data /\ n.mask = k /\ n.lsm = k /\ n.lsn = m.data
      /\ n.result = "run"
  <2> DEFINE x == [m EXCEPT !.mask = k]
             y == [x EXCEPT !.lsm = k]
  <2>0. m \in Comparisons /\ m.result = "run" /\ k \in Int /\ m.data \in Int
    BY <1>1, <1>4
  <2>1. /\ x \in Comparisons /\ x.name = m.name /\ x.pattern = m.pattern
        /\ x.data = m.data /\ x.mask = k /\ x.result = "run"
    BY <2>0 DEF Comparisons
  <2>2. n = [y EXCEPT !.lsn = m.data]
    OBVIOUS
  <2> HIDE DEF x, n
  <2>3. /\ y \in Comparisons /\ y.name = m.name /\ y.pattern = m.pattern
        /\ y.data = m.data /\ y.mask = k /\ y.lsm = k /\ y.result = "run"
    BY <2>0, <2>1 DEF Comparisons
  <2> HIDE DEF y
  <2> QED
    BY <2>0, <2>2, <2>3 DEF Comparisons
<1> HIDE DEF n
<1>8. F[0] = {0}
  BY <1>1, Rows
<1> HIDE DEF F
<1>9. Glob(m.name, m.pattern) <=> \E j \in F[k] : j <= m.data
  <2>1. ASSUME m.lsm # NoPlace, NEW i \in F[m.lsm], i < m.lsn
        PROVE  m.data \in F[m.mask]
    <3>1. /\ m.lsm \in m.mask .. Len(m.pattern) /\ m.lsn - m.data = m.lsm - m.mask
          /\ i - (m.lsm - m.mask) \in F[m.mask]
      <4>1. CanResume(m, F)
        BY <1>1, <2>1
      <4> QED
        BY <4>1, <2>1 DEF CanResume
    <3>2. F[m.mask] \subseteq 0 .. Len(m.name) /\ F[m.lsm] \subseteq 0 .. Len(m.name)
          /\ F[k] \subseteq 0 .. Len(m.name)
      <4>1. m.lsm \in 0 .. Len(m.pattern)
        BY <1>1, <3>1
      <4> QED
        BY <1>1, <1>4, <4>1
    <3>3. i \in Int /\ m.lsm \in Int /\ m.mask \in Int /\ m.lsn \in Int /\ m.data \in Int
      BY <3>2, <1>1
    <3>4. i - (m.lsm - m.mask) < m.data
      BY <3>1, <3>3, <2>1
    <3>5. PICK j \in F[k] : j <= i - (m.lsm - m.mask)
      BY <1>5, <3>1, <3>2
    <3>6. j \in Int
      BY <3>2
    <3>7. j <= m.data
      BY <3>3, <3>4, <3>5, <3>6
    <3> QED
      BY <3>7, <1>5, <1>1
  <2>2. Glob(m.name, m.pattern) <=> m.data \in F[m.mask]
    BY <2>1, <1>1
  <2> QED
    BY <2>2, <1>5, <1>1
<1>10. CASE k = 0
  <2>1. Glob(m.name, m.pattern)
    BY <1>10, <1>9, <1>8, <1>2
  <2>2. Star(m) = [n EXCEPT !.result = "yes"]
    BY <1>10, <1>6 DEF Finish
  <2>3. /\ Star(m) \in Comparisons
        /\ Star(m).name = m.name /\ Star(m).pattern = m.pattern /\ Star(m).result = "yes"
    BY <2>2, <1>7 DEF Comparisons
  <2> QED
    BY <2>1, <2>3 DEF MatchSound
<1>11. CASE k # 0
  <2>1. Star(m) = n
    BY <1>11, <1>6
  <2>2. F[k] \subseteq 0 .. Len(m.name)
    BY <1>1, <1>4
  <2>3. CanResume(n, F)
    <3>1. /\ n.lsn \in 1 .. Len(n.name) /\ n.lsm \in n.mask .. Len(n.pattern)
          /\ n.lsm - n.mask = 0 /\ n.lsn - n.data = 0
      BY <1>1, <1>2, <1>4, <1>7
    <3>2. \A i \in F[n.lsm] : i >= 0 /\ i - 0 \in F[n.mask]
      BY <2>2, <1>7
    <3> QED
      BY <3>1, <3>2 DEF CanResume
  <2>4. Glob(n.name, n.pattern) <=> \/ n.data \in F[n.mask]
                                    \/ n.lsm # NoPlace /\ \E i \in F[n.lsm] : i < n.lsn
    <3>1. (\E j \in F[k] : j <= m.data)
          <=> m.data \in F[k] \/ \E i \in F[k] : i < m.data
      BY <2>2, <1>2
    <3> QED
      BY <3>1, <1>9, <1>7, <1>11 DEF NoPlace
  <2>5. n.data \in 0 .. Len(n.name) /\ n.mask \in 0 .. Len(n.pattern)
    BY <1>1, <1>4, <1>7
  <2>6. MatchSound(n)
    BY <1>1, <1>7, <2>3, <2>4, <2>5 DEF MatchSound, F
  <2> QED
    BY <2>1, <2>6, <1>7
<1> QED
  BY <1>10, <1>11

SoundMatch(m) == m \in Comparisons /\ MatchSound(m)

LEMMA CompareSound ==
  ASSUME NEW m, Running(m), m.data # 0, m.mask # 0
  PROVE  SoundMatch(Compare(m))
<1> DEFINE F == Fits(m.name, m.pattern)
           c == m.pattern[m.mask]
<1>1. CASE c = AnyRun
  BY <1>1, StarSound DEF Compare, SoundMatch
<1>2. CASE c # AnyRun /\ c \in {AnyChar, m.name[m.data]}
  <2>1. Compare(m) = Both(m)
    BY <1>2 DEF Compare
  <2>2. Running(Both(m))
    BY <1>2, BothSound
  <2> QED
    BY <2>1, <2>2 DEF Running, SoundMatch
<1>3. CASE c # AnyRun /\ c \notin {AnyChar, m.name[m.data]}
  <2>1. m.data \notin F[m.mask]
    <3>1. /\ Len(m.name) \in Nat /\ Len(m.pattern) \in Nat
          /\ m.data \in 0 .. Len(m.name) /\ m.mask \in 0 .. Len(m.pattern)
      BY RunningDef
    <3>2. F[m.mask] = Reach(m.name, c, F[m.mask - 1])
      <4>1. m.mask \in 1 .. Len(m.pattern)
        BY <3>1
      <4> QED
        BY <3>1, <4>1, Rows
    <3> HIDE DEF F, c
    <3> QED
      BY <1>3, <3>2 DEF Reach
  <2>2. CASE m.lsm # NoPlace
    <3>1. Compare(m) = FallBack(m)
      BY <1>3, <2>2 DEF Compare
    <3>2. Running(FallBack(m))
      BY <2>1, <2>2, FallBackSound
    <3> QED
      BY <3>1, <3>2 DEF Running, SoundMatch
  <2>3. CASE m.lsm = NoPlace
    <3>1. Compare(m) = Finish(m, FALSE)
      BY <1>3, <2>3 DEF Compare
    <3>2. ~Glob(m.name, m.pattern)
      BY <2>1, <2>3, RunningDef
    <3>3. FALSE <=> Glob(m.name, m.pattern)
      BY <3>2
    <3>4. Finish(m, FALSE) \in Comparisons /\ MatchSound(Finish(m, FALSE))
      <4> DEFINE o == FALSE
      <4>1. o \in BOOLEAN /\ (o <=> Glob(m.name, m.pattern))
        BY <3>3
      <4> HIDE DEF o
      <4>2. Finish(m, o) \in Comparisons /\ MatchSound(Finish(m, o))
        BY <4>1, FinishSound
      <4> QED
        BY <4>2 DEF o
    <3> QED
      BY <3>1, <3>4 DEF SoundMatch
  <2> QED
    BY <2>2, <2>3
<1> QED
  BY <1>1, <1>2, <1>3

(* When the name is used up, what is left of the mask must be stars.       *)
LEMMA EndOfName ==
  ASSUME NEW m, Running(m), m.data = 0
  PROVE  (BeforeStars(m.pattern, m.mask) = 0) <=> Glob(m.name, m.pattern)
<1> DEFINE F == Fits(m.name, m.pattern)
           k == BeforeStars(m.pattern, m.mask)
<1>1. /\ Len(m.name) \in Nat /\ Len(m.pattern) \in Nat
      /\ m.mask \in 0 .. Len(m.pattern) /\ m.mask \in Nat
      /\ m.lsm \in Int /\ m.lsn \in Int
      /\ m.lsm # NoPlace => CanResume(m, F)
      /\ Glob(m.name, m.pattern) <=>
           \/ 0 \in F[m.mask]
           \/ m.lsm # NoPlace /\ \E i \in F[m.lsm] : i < m.lsn
  BY RunningDef
<1>2. /\ F[0] = {0}
      /\ \A j \in 1 .. Len(m.pattern) : F[j] = Reach(m.name, m.pattern[j], F[j - 1])
      /\ \A j \in 0 .. Len(m.pattern) : F[j] \subseteq 0 .. Len(m.name)
  BY <1>1, Rows
<1>3. ASSUME m.lsm # NoPlace, NEW i \in F[m.lsm], i < m.lsn PROVE FALSE
  <2>1. CanResume(m, F)
    BY <1>1, <1>3
  <2> HIDE DEF F
  <2>2. /\ m.lsm \in m.mask .. Len(m.pattern) /\ m.lsn - m.data = m.lsm - m.mask
        /\ i >= m.lsm - m.mask
    BY <2>1, <1>3 DEF CanResume
  <2>3. m.lsm \in 0 .. Len(m.pattern)
    BY <1>1, <2>2
  <2>4. i \in Int
    BY <2>3, <1>2
  <2> QED
    BY <1>1, <1>3, <2>2, <2>4
<1>4. /\ k \in 0 .. m.mask /\ \A i \in k + 1 .. m.mask : m.pattern[i] = AnyRun
      /\ k = 0 \/ m.pattern[k] # AnyRun
  BY <1>1, StarsBefore
<1> HIDE DEF k
<1>5. k \in 0 .. Len(m.pattern)
  BY <1>1, <1>4
<1>6. ASSUME k # 0 PROVE 0 \notin F[k]
  <2>1. k \in 1 .. Len(m.pattern)
    BY <1>5, <1>6
  <2>2. F[k] = Reach(m.name, m.pattern[k], F[k - 1])
    BY <2>1, <1>2
  <2> HIDE DEF F
  <2> QED
    BY <2>2, <1>4, <1>6 DEF Reach
<1>7. 0 \in F[m.mask] <=> 0 \in F[k]
  <2>1. CASE k = m.mask
    BY <2>1
  <2>2. CASE k # m.mask
    <3>1. m.mask \in k + 1 .. Len(m.pattern)
      BY <1>1, <1>4, <2>2
    <3>2. 0 \in F[m.mask] <=> \E j \in F[k] : j <= 0
      <4>1. /\ Len(m.name) \in Nat /\ Len(m.pattern) \in Nat /\ 0 \in 0 .. Len(m.name)
            /\ \A i \in k + 1 .. m.mask : m.pattern[i] = AnyRun
        BY <1>1, <1>4
      <4>2. \A i \in 0 .. Len(m.name) : i \in F[m.mask] <=> \E j \in F[k] : j <= i
        BY <1>5, <3>1, <4>1, StarRun
      <4> QED
        BY <4>1, <4>2
    <3>3. F[k] \subseteq 0 .. Len(m.name)
      BY <1>2, <1>5
    <3> HIDE DEF F
    <3> QED
      BY <3>2, <3>3
  <2> QED
    BY <2>1, <2>2
<1>8. Glob(m.name, m.pattern) <=> 0 \in F[k]
  BY <1>1, <1>3, <1>7
<1>9. 0 \in F[k] <=> k = 0
  BY <1>2, <1>6
<1> QED
  BY <1>8, <1>9 DEF k

LEMMA StepSound ==
  ASSUME NEW m, Running(m)
  PROVE  SoundMatch(MatchStep(m))
<1>1. /\ m \in Comparisons /\ Len(m.name) \in Nat /\ Len(m.pattern) \in Nat
      /\ m.data \in 0 .. Len(m.name) /\ m.mask \in 0 .. Len(m.pattern)
      /\ m.lsm \in Int /\ m.lsn \in Int
  BY RunningDef
<1>2. CASE m.data = 0
  <2> DEFINE o == BeforeStars(m.pattern, m.mask) = 0
  <2>1. MatchStep(m) = Finish(m, o)
    BY <1>2 DEF MatchStep
  <2>2. o \in BOOLEAN /\ (o <=> Glob(m.name, m.pattern))
    BY <1>2, EndOfName
  <2> HIDE DEF o
  <2> QED
    BY <2>1, <2>2, FinishSound DEF SoundMatch
<1>3. CASE m.data # 0 /\ m.mask # 0
  <2>1. m.mask > 0
    BY <1>1, <1>3
  <2>2. MatchStep(m) = Compare(m)
    BY <1>3, <2>1 DEF MatchStep
  <2> QED
    BY <1>3, <2>2, CompareSound
<1>4. CASE m.data # 0 /\ m.mask = 0
  <2>1. m.data \notin Fits(m.name, m.pattern)[m.mask]
    BY <1>1, <1>4, Rows
  <2>2. CASE m.lsm # NoPlace
    <3>1. MatchStep(m) = Compare(FallBack(m))
      BY <1>4, <2>2 DEF MatchStep
    <3>2. /\ Running(FallBack(m))
          /\ FallBack(m).data = m.lsn - 1 /\ FallBack(m).mask = m.lsm
      BY <2>1, <2>2, FallBackSound
    <3>3. m.lsn - m.data = m.lsm - m.mask /\ m.lsm >= 0
      <4>1. CanResume(m, Fits(m.name, m.pattern))
        BY <2>2, RunningDef
      <4> QED
        BY <4>1, <1>1, <1>4 DEF CanResume
    <3>4. m.lsn - 1 # 0 /\ m.lsm # 0
      BY <3>3, <1>1, <1>4, <2>2 DEF NoPlace
    <3> QED
      BY <3>1, <3>2, <3>4, CompareSound
  <2>3. CASE m.lsm = NoPlace
    <3> DEFINE o == FALSE
    <3>1. MatchStep(m) = Finish(m, o)
      BY <1>4, <2>3 DEF MatchStep
    <3>2. ~Glob(m.name, m.pattern)
      BY <2>1, <2>3, RunningDef
    <3>3. o \in BOOLEAN /\ (o <=> Glob(m.name, m.pattern))
      BY <3>2
    <3> HIDE DEF o
    <3> QED
      BY <3>1, <3>3, FinishSound DEF SoundMatch
  <2> QED
    BY <2>2, <2>3
<1> QED
  BY <1>2, <1>3, <1>4

LEMMA StartSound ==
  ASSUME NEW name \in Text, NEW pattern \in Text
  PROVE  SoundMatch(Start(name, pattern))
<1> DEFINE m == Start(name, pattern)
<1>1. Len(name) \in Nat /\ Len(pattern) \in Nat
  BY DEF Text
<1>2. /\ m \in Comparisons /\ m.name = name /\ m.pattern = pattern
      /\ m.data = Len(name) /\ m.mask = Len(pattern) /\ m.lsm = NoPlace
      /\ m.result = IF name = <<>> \/ pattern = <<>> THEN "no" ELSE "run"
  BY <1>1 DEF Start, Comparisons, NoPlace
<1> HIDE DEF m
<1>3. CASE name = <<>> \/ pattern = <<>>
  <2>1. ~Glob(name, pattern)
    BY <1>3 DEF Glob
  <2> QED
    BY <1>2, <1>3, <2>1 DEF MatchSound, SoundMatch, m
<1>4. CASE name # <<>> /\ pattern # <<>>
  <2>1. Glob(name, pattern) <=> Len(name) \in Fits(name, pattern)[Len(pattern)]
    BY <1>4 DEF Glob
  <2>2. MatchSound(m)
    BY <1>1, <1>2, <1>4, <2>1 DEF MatchSound
  <2> QED
    BY <1>2, <2>2 DEF SoundMatch, m
<1> QED
  BY <1>3, <1>4

-----------------------------------------------------------------------------
(* What is compared is text *)

LEMMA PrefixText ==
  ASSUME NEW s \in Text, NEW i \in 1 .. Len(s)
  PROVE  SubSeq(s, 1, i) \in Text
<1>1. Len(s) \in Nat /\ 1 \in 1 .. Len(s) + 1 /\ i \in 1 - 1 .. Len(s)
  BY DEF Text
<1> QED
  BY <1>1, SubSeqProperties DEF Text

LEMMA BaseNameText ==
  ASSUME NEW path \in Text
  PROVE  BaseName(path) \in Text
<1> DEFINE n == Len(path)
           C == Cuts(path) \cup {0}
           T == {n - i : i \in C}
           Last_(i) == \A j \in Cuts(path) : j <= i
<1>1. n \in Nat /\ C \subseteq 0 .. n /\ 0 \in C
  <2>1. n \in Nat /\ Cuts(path) \subseteq 1 .. n
    BY DEF Text, Cuts
  <2> QED
    BY <2>1
<1>2. T \subseteq Nat /\ T # {}
  BY <1>1
<1>3. PICK x \in T : \A y \in T : x <= y
  <2> HIDE DEF T
  <2> QED
    BY <1>2, Least
<1>4. PICK i \in C : x = n - i
  BY <1>3
<1>5. ASSUME NEW j \in C PROVE j <= i
  <2>1. n - j \in T /\ i \in 0 .. n /\ j \in 0 .. n
    BY <1>1
  <2>2. n - i <= n - j
    BY <2>1, <1>3, <1>4
  <2> QED
    BY <1>1, <2>1, <2>2
<1>6. Last_(i)
  BY <1>5
<1>7. LastCut(path) = CHOOSE k \in C : Last_(k)
  BY DEF LastCut
<1>8. LastCut(path) \in C
  <2> HIDE DEF C, Last_
  <2> QED
    BY <1>4, <1>6, <1>7
<1>9. LastCut(path) \in 0 .. n
  BY <1>1, <1>8
<1> DEFINE m == LastCut(path) + 1
<1>10. m \in 1 .. n + 1 /\ n \in m - 1 .. n
  BY <1>1, <1>9
<1> HIDE DEF m
<1>11. SubSeq(path, m, n) \in Text
  BY <1>10, SubSeqProperties DEF Text
<1> QED
  BY <1>11 DEF BaseName, m, Text

LEMMA PatternsText ==
  ASSUME NEW arg \in Text
  PROVE  Patterns(arg) \in Seq(Text)
<1> DEFINE ends(i) == arg[i] # Slash /\ (i = Len(arg) \/ arg[i + 1] = Slash)
           s == [i \in DOMAIN arg |-> IF ends(i) THEN <<SubSeq(arg, 1, i)>> ELSE <<>>]
<1>1. Len(arg) \in Nat /\ DOMAIN arg = 1 .. Len(arg)
  BY DEF Text
<1>2. \A i \in 1 .. Len(arg) : SubSeq(arg, 1, i) \in Text
  BY PrefixText
<1> HIDE DEF ends
<1>3. s \in [1 .. Len(arg) -> Seq(Text)]
  BY <1>1, <1>2
<1> HIDE DEF s
<1>4. FlattenSeq(s) \in Seq(Text)
  BY <1>1, <1>3, Flattened
<1>5. Patterns(arg) = FlattenSeq(s)
  BY DEF Patterns, s, ends
<1> QED
  BY <1>4, <1>5

LEMMA ToCompareText ==
  ASSUME NEW path \in Text, NEW type, filter \in Seq(Text)
  PROVE  ToCompare(path, type) \in Seq(Text \X Text)
<1> DEFINE names == IF type = "file" /\ Cuts(path) # {}
                    THEN <<path, BaseName(path)>> ELSE <<path>>
           against(p) == [j \in DOMAIN names |-> <<names[j], p>>]
           s == [i \in DOMAIN filter |-> against(filter[i])]
<1>1. names \in Seq(Text)
  BY BaseNameText
<1> HIDE DEF names
<1>2. \A p \in Text : against(p) \in Seq(Text \X Text)
  BY <1>1
<1>3. Len(filter) \in Nat /\ DOMAIN filter = 1 .. Len(filter)
  OBVIOUS
<1> HIDE DEF against
<1>4. s \in [1 .. Len(filter) -> Seq(Text \X Text)]
  BY <1>2, <1>3
<1> HIDE DEF s
<1>5. FlattenSeq(s) \in Seq(Text \X Text)
  BY <1>3, <1>4, Flattened
<1>6. ToCompare(path, type) = FlattenSeq(s)
  BY DEF ToCompare, s, against, names
<1> QED
  BY <1>5, <1>6

LEMMA NextFrame ==
  ASSUME Walking, stack # <<>>
  PROVE  NextEntry(stack) \in Seq(Frames)
<1>1. top \in Frames
  BY DEF Walking, top
<1>2. top.next \in Nat \ {0}
  BY <1>1 DEF Frames
<1> DEFINE t == [top EXCEPT !.next = @ + 1]
<1>3. t \in Frames
  BY <1>1, <1>2 DEF Frames
<1>4. NextEntry(stack) = [stack EXCEPT ![Len(stack)] = t]
  BY DEF NextEntry, top
<1> HIDE DEF t
<1> QED
  BY <1>3, <1>4 DEF Walking

LEMMA EntryText ==
  ASSUME Walking, AtEntry
  PROVE  /\ current.name \in Text /\ current.ino \in Nat \cup DOMAIN image.ents
         /\ current.type = "dir" => current.ino \in DOMAIN image.ents
         /\ path_ \in Text
         /\ NextEntry(stack) \in Seq(Frames)
<1>1. top \in Frames /\ Len(stack) \in 1 .. Len(stack)
  BY DEF Walking, AtEntry, top
<1>2. /\ top.dir \in DOMAIN image.ents /\ top.next \in Nat \ {0} /\ top.path \in Text
  BY <1>1 DEF Frames
<1>3. image.ents[top.dir] \in
        Seq([name : Text, ino : DOMAIN image.ents, type : {"dir"}]
            \cup [name : Text, ino : Nat, type : {"file"}])
  BY <1>2, JobsAreText DEF Walking, image
<1>4. current \in [name : Text, ino : DOMAIN image.ents, type : {"dir"}]
                  \cup [name : Text, ino : Nat, type : {"file"}]
  <2> DEFINE d == image.ents[top.dir]
             S == [name : Text, ino : DOMAIN image.ents, type : {"dir"}]
                  \cup [name : Text, ino : Nat, type : {"file"}]
  <2>1. top.next <= Len(d) /\ current = d[top.next]
    BY DEF AtEntry, current
  <2>2. d \in Seq(S)
    BY <1>3
  <2> HIDE DEF d, S
  <2>3. top.next \in 1 .. Len(d)
    <3>1. top.next \in Nat /\ top.next # 0 /\ Len(d) \in Nat
      BY <1>2, <2>2
    <3> QED
      BY <3>1, <2>1
  <2>4. current \in S
    BY <2>1, <2>2, <2>3
  <2> QED
    BY <2>4 DEF S
<1>5. /\ current.name \in Text /\ current.ino \in Nat \cup DOMAIN image.ents
      /\ current.type = "dir" => current.ino \in DOMAIN image.ents
  BY <1>4
<1>6. path_ \in Text
  <2> DEFINE a == top.path
             b == current.name
             C == DOMAIN Fold \cup {Slash, AnyRun, AnyChar, "-"}
  <2>1. a \in Seq(C) /\ b \in Seq(C)
    BY <1>2, <1>5 DEF Text
  <2>2. Slash \in C
    OBVIOUS
  <2> HIDE DEF a, b, C
  <2>3. <<Slash>> \in Seq(C)
    BY <2>2
  <2>4. a \o <<Slash>> \in Seq(C)
    BY <2>1, <2>3
  <2>5. a \o <<Slash>> \o b \in Seq(C)
    BY <2>1, <2>4
  <2> QED
    BY <2>1, <2>5 DEF C, path_, Join, a, b, Text
<1>7. NextEntry(stack) \in Seq(Frames)
  BY NextFrame DEF AtEntry
<1> QED
  BY <1>5, <1>6, <1>7

-----------------------------------------------------------------------------
(* The invariant *)

LEMMA InitMatched == Init => MInv
<1> SUFFICES ASSUME Init PROVE MInv
  OBVIOUS
<1>1. Walking
  BY DEF Init, Walking, NoFilter
<1>2. pc # "match"
  BY DEF Init
<1> QED
  BY <1>1, <1>2 DEF MInv

LEMMA NextWalking ==
  ASSUME MInv, Next
  PROVE  Walking'
<1>0. /\ Walking /\ job' = job
      /\ Frames' = Frames
  BY DEF MInv, Next, walkVars, Settled, Ask, ParseArgs, Begin, PassOver, Leave, End,
         UnpackDir, UnpackFile, TryMask, Comparing, NotNeeded, EnterDir, FoundDir,
         CopyFile, HostFails, Deliver, DeliverStop, Frames, image
<1>1. ASSUME UNCHANGED <<filter, tries>>, stack' \in Seq(Frames) PROVE Walking'
  BY <1>0, <1>1 DEF Walking
<1>2. ASSUME UNCHANGED filter, tries' = <<>>, stack' \in Seq(Frames) PROVE Walking'
  BY <1>0, <1>2 DEF Walking
<1>3. CASE ParseArgs
  <2> DEFINE s == [i \in DOMAIN job.args |->
                     IF Named(job.args[i]) THEN Patterns(job.args[i]) ELSE <<>>]
  <2>1. job.args \in Seq(Text)
    BY <1>0, JobsAreText DEF Walking
  <2>2. Len(job.args) \in Nat /\ DOMAIN job.args = 1 .. Len(job.args)
    BY <2>1
  <2>3. s \in [1 .. Len(job.args) -> Seq(Text)]
    BY <2>1, <2>2, PatternsText
  <2>4. filter' = FlattenSeq(s)
    BY <1>3 DEF ParseArgs
  <2> HIDE DEF s
  <2>5. filter' \in Seq(Text)
    BY <2>2, <2>3, <2>4, Flattened
  <2> QED
    BY <1>0, <1>3, <2>5 DEF ParseArgs, Walking
<1>4. CASE Begin
  <2>1. Readable(image.root) => <<Frame(image.root, <<>>)>> \in Seq(Frames)
    BY DEF Readable, Frame, Frames, Text
  <2> QED
    BY <1>0, <1>1, <1>4, <2>1 DEF Begin, walkVars, Walking
<1>5. CASE PassOver
  BY <1>0, <1>1, <1>5, EntryText DEF PassOver, walkVars
<1>6. CASE Leave
  <2>1. Front(stack) \in Seq(Frames)
    <3>1. stack \in Seq(Frames) /\ Len(stack) \in Nat \ {0}
      BY <1>0, <1>6 DEF Leave, Walking
    <3>2. 1 \in 1 .. Len(stack) + 1 /\ Len(stack) - 1 \in 1 - 1 .. Len(stack)
      BY <3>1
    <3> QED
      BY <3>1, <3>2, SubSeqProperties DEF Front
  <2> QED
    BY <1>1, <1>6, <2>1 DEF Leave, walkVars
<1>7. CASE End
  BY <1>0, <1>1, <1>7 DEF End, walkVars, Walking
<1>8. ASSUME NEW ino, NEW type, AtEntry, Ask(path_, ino, type),
             UNCHANGED <<job, filter, stack>>
      PROVE  Walking'
  <2>1. path_ \in Text
    BY <1>0, <1>8, EntryText
  <2>2. ToCompare(path_, type) \in Seq(Text \X Text)
    BY <1>0, <2>1, ToCompareText DEF Walking
  <2> QED
    BY <1>0, <1>8, <2>2 DEF Walking, Ask
<1>9. CASE UnpackDir
  BY <1>8, <1>9 DEF UnpackDir
<1>10. CASE UnpackFile
  <2>1. CASE \E ino : \E type : Ask(path_, ino, type) /\ UNCHANGED <<job, filter, stack>>
    BY <1>8, <1>10, <2>1 DEF UnpackFile
  <2>2. CASE UNCHANGED <<job, stack, entry, walkVars>>
    BY <1>0, <1>1, <2>2 DEF walkVars, Walking
  <2> QED
    BY <1>10, <2>1, <2>2 DEF UnpackFile
<1>11. CASE TryMask
  <2>1. Tail(tries) \in Seq(Text \X Text)
    BY <1>0, <1>11 DEF TryMask, Walking
  <2> QED
    BY <1>0, <1>11, <2>1 DEF TryMask, Walking
<1>12. CASE Comparing
  BY <1>0, <1>1, <1>12 DEF Comparing, Walking
<1>13. CASE NotNeeded
  BY <1>0, <1>2, <1>13, NextFrame DEF NotNeeded, Settled, MInv, Asked
<1>14. CASE EnterDir
  <2>1. entry.path \in Text /\ entry.ino \in DOMAIN image.ents
    BY <1>14 DEF EnterDir, MInv, Asked
  <2>2. Frame(entry.ino, entry.path) \in Frames
    BY <2>1 DEF Frame, Frames
  <2>3. NextEntry(stack) \in Seq(Frames)
    BY <1>0, <1>14, NextFrame DEF EnterDir, MInv, Asked
  <2>4. stack' \in Seq(Frames)
    BY <1>14, <2>2, <2>3 DEF EnterDir
  <2> QED
    BY <1>2, <1>14, <2>4 DEF EnterDir, Settled
<1>15. CASE FoundDir
  BY <1>0, <1>2, <1>15, NextFrame DEF FoundDir, Settled, MInv, Asked
<1>16. CASE CopyFile
  BY <1>0, <1>2, <1>16, NextFrame DEF CopyFile, Settled, MInv, Asked
<1>17. CASE HostFails
  BY <1>0, <1>2, <1>17 DEF HostFails, Settled, Walking
<1>18. CASE Deliver
  <2>1. current.ino \notin image.torn /\ current.type = "dir"
        => Frame(current.ino, path_) \in Frames
    BY <1>0, <1>18, EntryText DEF Deliver, Frame, Frames
  <2>2. NextEntry(stack) \in Seq(Frames)
    BY <1>0, <1>18, EntryText DEF Deliver
  <2>3. stack' \in Seq(Frames)
    BY <1>18, <2>1, <2>2 DEF Deliver
  <2> QED
    BY <1>1, <1>18, <2>3 DEF Deliver
<1>19. CASE DeliverStop
  <2>1. stack \in Seq(Frames) /\ Len(stack) \in Nat \ {0}
    BY <1>0, <1>19 DEF DeliverStop, AtEntry, Walking
  <2>2. 1 \in 1 .. Len(stack) + 1 /\ Len(stack) - 1 \in 1 - 1 .. Len(stack)
    BY <2>1
  <2>3. Front(stack) \in Seq(Frames)
    BY <2>1, <2>2, SubSeqProperties DEF Front
  <2> QED
    BY <1>1, <1>19, <2>3 DEF DeliverStop, AfterStop
<1> QED
  BY <1>3, <1>4, <1>5, <1>6, <1>7, <1>9, <1>10, <1>11, <1>12, <1>13, <1>14, <1>15,
     <1>16, <1>17, <1>18, <1>19 DEF Next

LEMMA NextMatched ==
  ASSUME MInv, Next, pc' = "match"
  PROVE  Asked' /\ Compared'
<1>1. \/ UnpackDir \/ TryMask \/ Comparing
      \/ UnpackFile /\ \E ino : \E type \in {"dir", "file"} :
           /\ Ask(path_, ino, type)
           /\ type = "dir" => ino \in DOMAIN image.ents
           /\ UNCHANGED <<job, filter, stack, host, refused, calls, stops>>
  BY DEF Next, ParseArgs, Begin, PassOver, Leave, End, UnpackFile, NotNeeded, EnterDir,
         FoundDir, CopyFile, HostFails, Deliver, DeliverStop, AtEntry
<1>2. Walking
  BY DEF MInv
<1>3. ASSUME NEW ino, NEW type, AtEntry, Ask(path_, ino, type),
             type = "dir" => ino \in DOMAIN image.ents, UNCHANGED <<job, filter, stack>>
      PROVE  Asked' /\ Compared'
  <2>1. path_ \in Text /\ stack # <<>>
    BY <1>2, <1>3, EntryText DEF AtEntry
  <2>2. Asked'
    BY <1>3, <2>1 DEF Ask, Asked, image
  <2>3. Compared'
    BY <1>3 DEF Ask, Compared
  <2> QED
    BY <2>2, <2>3
<1>4. CASE UnpackDir
  BY <1>2, <1>3, <1>4, EntryText DEF UnpackDir
<1>5. CASE UnpackFile /\ \E ino : \E type \in {"dir", "file"} :
             /\ Ask(path_, ino, type)
             /\ type = "dir" => ino \in DOMAIN image.ents
             /\ UNCHANGED <<job, filter, stack, host, refused, calls, stops>>
  <2>1. AtEntry
    BY <1>5 DEF UnpackFile
  <2> QED
    BY <1>3, <1>5, <2>1
<1>6. CASE TryMask
  <2>1. Asked'
    BY <1>6 DEF TryMask, MInv, Asked, image
  <2>2. Head(tries)[1] \in Text /\ Head(tries)[2] \in Text
    BY <1>2, <1>6 DEF TryMask, Walking
  <2>3. SoundMatch(match')
    BY <1>6, <2>2, StartSound DEF TryMask
  <2> QED
    BY <2>1, <2>3 DEF SoundMatch, Compared
<1>7. CASE Comparing
  <2>1. Asked'
    BY <1>7 DEF Comparing, MInv, Asked, image
  <2>2. Running(match)
    <3>1. Compared /\ match.result = "run"
      BY <1>7 DEF Comparing, MInv
    <3>2. Idle.result = "no" /\ [Idle EXCEPT !.result = "yes"].result = "yes"
      BY DEF Idle, Start
    <3> QED
      BY <3>1, <3>2 DEF Compared, Running
  <2>3. SoundMatch(match')
    BY <1>7, <2>2, StepSound DEF Comparing
  <2> QED
    BY <2>1, <2>3 DEF SoundMatch, Compared
<1> QED
  BY <1>1, <1>4, <1>5, <1>6, <1>7

LEMMA StutterMatched == MInv /\ UNCHANGED vars => MInv'
BY DEF vars, MInv, Walking, Asked, Compared, Frames, image, MatchSound, CanResume

LEMMA MatchSettled == MInv => MatchIsGlob
BY DEF MInv, Compared, MatchIsGlob, MatchSound, Comparisons

(* Every comparison decides as the meaning of the mask does, whatever the  *)
(* names, masks and trees: one place to fall back to is enough.            *)
THEOREM MatchesAsMeant == Spec => []MatchIsGlob
<1>1. Init => MInv
  BY InitMatched
<1>2. MInv /\ [Next]_vars => MInv'
  <2>1. ASSUME MInv, Next PROVE MInv'
    BY <2>1, NextWalking, NextMatched DEF MInv
  <2> QED
    BY <2>1, StutterMatched
<1> QED
  BY <1>1, <1>2, MatchSettled, PTL DEF Spec

-----------------------------------------------------------------------------
(* The tree *)

LEMMA EntryFacts ==
  ASSUME job \in Jobs, NEW d \in DOMAIN image.ents, NEW i \in DOMAIN image.ents[d]
  PROVE  LET e == image.ents[d][i]
         IN /\ i \in 1 .. Len(image.ents[d])
            /\ e.name \in Text /\ e.name # <<>>
            /\ \A k \in 1 .. Len(e.name) : e.name[k] # Slash
            /\ e.type \in {"dir", "file"}
            /\ e.type = "dir" => e.ino \in DOMAIN image.ents
            /\ e.type = "file" => e.ino \in Nat /\ e.ino \notin DOMAIN image.ents
<1> DEFINE s == image.ents[d]
           E == [name : Text, ino : DOMAIN image.ents, type : {"dir"}]
                \cup [name : Text, ino : Nat, type : {"file"}]
<1>1. s \in Seq(E)
  BY JobsAreText DEF image
<1>2. i \in 1 .. Len(s) /\ s[i] \in E
  <2> HIDE DEF s, E
  <2> QED
    BY <1>1 DEF s
<1>3. s[i] \in ToSet(s)
  BY <1>2 DEF ToSet
<1>4. /\ s[i].name # <<>> /\ Slash \notin ToSet(s[i].name)
      /\ s[i].type = "file" => s[i].ino \notin DOMAIN image.ents
  <2>1. \A x \in ToSet(s) : /\ x.name # <<>> /\ Slash \notin ToSet(x.name)
                            /\ x.type = "file" => x.ino \notin DOMAIN image.ents
    BY ImagesAreTrees DEF image
  <2> HIDE DEF s
  <2> QED
    BY <1>3, <2>1
<1> HIDE DEF s
<1>5. s[i].name \in Text
  BY <1>2
<1>6. \A k \in 1 .. Len(s[i].name) : s[i].name[k] # Slash
  BY <1>4, <1>5 DEF ToSet, Text
<1> QED
  BY <1>2, <1>4, <1>5, <1>6 DEF s

LEMMA JoinText ==
  ASSUME NEW a \in Text, NEW b \in Text
  PROVE  Join(a, b) \in Text
<1> DEFINE C == DOMAIN Fold \cup {Slash, AnyRun, AnyChar, "-"}
<1>1. a \in Seq(C) /\ b \in Seq(C) /\ Slash \in C
  BY DEF Text
<1> HIDE DEF C
<1>2. <<Slash>> \in Seq(C)
  BY <1>1
<1>3. a \o <<Slash>> \in Seq(C)
  BY <1>1, <1>2
<1>4. a \o <<Slash>> \o b \in Seq(C)
  BY <1>1, <1>3
<1> QED
  BY <1>1, <1>4 DEF C, Join, Text

(* An entry of the tree, and where it is.                                  *)
Nodes == [path : Text, ino : Nat \cup DOMAIN image.ents, type : {"dir", "file"}]
LEMMA BelowFacts ==
  ASSUME job \in Jobs, NEW d, d.path \in Text, NEW n \in Below(d)
  PROVE  /\ d.type = "dir" /\ Readable(d.ino) /\ d.ino \in DOMAIN image.ents
         /\ \E i \in DOMAIN image.ents[d.ino] :
              LET e == image.ents[d.ino][i]
              IN Sound(e) /\ n = Node(d, e)
         /\ n \in Nodes
<1>1. d.type = "dir" /\ Readable(d.ino) /\ d.ino \in DOMAIN image.ents
  BY DEF Below, Readable
<1>2. PICK e \in ToSet(image.ents[d.ino]) : Sound(e) /\ n = Node(d, e)
  BY <1>1 DEF Below
<1>3. PICK i \in DOMAIN image.ents[d.ino] : image.ents[d.ino][i] = e
  BY <1>2 DEF ToSet
<1>4. /\ e.name \in Text /\ e.ino \in Nat \cup DOMAIN image.ents
      /\ e.type \in {"dir", "file"}
  BY <1>1, <1>3, EntryFacts
<1>5. n \in Nodes
  BY <1>2, <1>4, JoinText DEF Node, Nodes
<1> QED
  BY <1>1, <1>2, <1>3, <1>5

(* The levels of the tree *)
Deepest == Cardinality(DOMAIN image.ents)
IsLevels(f) ==
  /\ f[0] = {Root} /\ \A i \in 1 .. Deepest : f[i] = UNION {Below(d) : d \in f[i - 1]}
  /\ Tree = UNION {f[i] : i \in 1 .. Deepest}
  /\ \A i \in 0 .. Deepest : f[i] \subseteq Nodes
LEMMA Levels ==
  ASSUME job \in Jobs
  PROVE  Deepest \in Nat /\ \E f : IsLevels(f)
<1> DEFINE N == Deepest
           S == SUBSET Nodes
           step == [i \in 1 .. N |-> [ds \in S |-> UNION {Below(d) : d \in ds}]]
           Def(f) == f = [i \in 0 .. N |->
                            IF i = 0 THEN {[path |-> <<>>, ino |-> image.root, type |-> "dir"]}
                            ELSE UNION {Below(d) : d \in f[i - 1]}]
<1>1. N \in Nat /\ image.root \in DOMAIN image.ents
  <2>1. IsFiniteSet(DOMAIN image.ents) /\ image.root \in DOMAIN image.ents
    BY ImagesAreTrees DEF image
  <2> QED
    BY <2>1, FS_CardinalityType DEF Deepest
<1>2. {Root} \in S
  BY <1>1 DEF Root, Nodes, Text
<1>3. \A ds \in S : UNION {Below(d) : d \in ds} \in S
  <2> SUFFICES ASSUME NEW d \in Nodes, NEW n \in Below(d) PROVE n \in Nodes
    OBVIOUS
  <2>1. d.path \in Text
    BY DEF Nodes
  <2> QED
    BY <2>1, BelowFacts
<1>4. step \in [1 .. N -> [S -> S]]
  BY <1>3
<1> HIDE DEF N, S, step
<1>5. PICK f : IsLoop(f, N, S, {Root}, step)
  BY <1>1, <1>2, <1>4, Loop
<1>6. \A i \in 1 .. N : i - 1 \in 0 .. N /\ i \in 0 .. N /\ i # 0
  BY <1>1
<1>7. \A i \in 0 .. N : f[i] \in S
  BY <1>5 DEF IsLoop
<1>8. \A i \in 1 .. N : f[i] = UNION {Below(d) : d \in f[i - 1]}
  BY <1>5, <1>6, <1>7 DEF IsLoop, step
<1>9. Def(f)
  <2>1. \A i \in 0 .. N : i = 0 \/ i \in 1 .. N
    BY <1>1
  <2>2. f \in [0 .. N -> S] /\ f[0] = {Root}
    BY <1>5 DEF IsLoop
  <2> QED
    BY <1>8, <2>1, <2>2 DEF Root
<1> DEFINE L == CHOOSE g : Def(g)
<1>10. Tree = UNION {L[i] : i \in 1 .. N}
  BY DEF Tree, N, Deepest
<1>11. Def(L)
  <2> HIDE DEF Def
  <2> QED
    BY <1>9
<1> HIDE DEF L
<1>12. L = [i \in 0 .. N |-> IF i = 0 THEN {Root} ELSE UNION {Below(d) : d \in L[i - 1]}]
  BY <1>11 DEF Root
<1> HIDE DEF Def
<1>13. 0 \in 0 .. N /\ L[0] = {Root}
  BY <1>1, <1>12
<1>14. \A i \in 1 .. N : L[i] = UNION {Below(d) : d \in L[i - 1]}
  BY <1>6, <1>12
<1> DEFINE T == {i \in 0 .. N : L[i] \in S}
<1>15. \A i \in 0 .. N : i \in T
  <2>1. 0 \in T
    BY <1>2, <1>13
  <2>2. ASSUME NEW i \in 1 .. N, i - 1 \in T PROVE i \in T
    BY <2>2, <1>3, <1>6, <1>14
  <2> HIDE DEF T
  <2> QED
    BY <1>1, <2>1, <2>2, UpTo
<1>16. \A i \in 0 .. N : L[i] \subseteq Nodes
  BY <1>15 DEF S
<1>17. IsLevels(L)
  BY <1>10, <1>13, <1>14, <1>16 DEF IsLevels, N
<1> QED
  BY <1>1, <1>17 DEF N

(* Whatever is below something of the tree is of the tree, since no path   *)
(* is longer than there are directories.                                   *)
LEMMA TreeGrows ==
  ASSUME job \in Jobs
  PROVE  \A d \in Tree \cup {Root} : Below(d) \subseteq Tree
<1> DEFINE N == Deepest
<1>1. PICK L : IsLevels(L)
  BY Levels
<1>2. N \in Nat
  BY Levels
<1>3. PICK depth \in [DOMAIN image.ents -> 0 .. N - 1] :
        \A d \in DOMAIN image.ents : \A e \in ToSet(image.ents[d]) :
          e.type = "dir" /\ ~Special(e.name) => depth[d] < depth[e.ino]
  BY ImagesAreTrees DEF image, Deepest
<1> HIDE DEF N
<1> DEFINE Low(i) == \A d \in L[i] : d.type = "dir" => d.ino \in DOMAIN image.ents /\ depth[d.ino] >= i
           T == {i \in 0 .. N : Low(i)}
<1>4. \A i \in 0 .. N : i \in T
  <2>1. 0 \in T
    <3>1. image.root \in DOMAIN image.ents /\ depth[image.root] \in 0 .. N - 1
      BY <1>3, ImagesAreTrees DEF image
    <3>2. \A d \in L[0] : d.ino = image.root
      BY <1>1 DEF IsLevels, Root
    <3>3. Low(0)
      BY <1>2, <3>1, <3>2
    <3> QED
      BY <1>2, <3>3
  <2>2. ASSUME NEW i \in 1 .. N, i - 1 \in T PROVE i \in T
    <3> SUFFICES ASSUME NEW n \in L[i], n.type = "dir"
                 PROVE  n.ino \in DOMAIN image.ents /\ depth[n.ino] >= i
      BY <1>2
    <3>1. PICK d \in L[i - 1] : n \in Below(d)
      BY <1>1 DEF IsLevels, N
    <3>2. d.path \in Text /\ i - 1 \in 0 .. N
      BY <1>1, <1>2 DEF IsLevels, N, Nodes
    <3>3. d.type = "dir" /\ d.ino \in DOMAIN image.ents
      BY <3>1, <3>2, BelowFacts
    <3>4. PICK j \in DOMAIN image.ents[d.ino] :
            Sound(image.ents[d.ino][j]) /\ n = Node(d, image.ents[d.ino][j])
      BY <3>1, <3>2, BelowFacts
    <3> DEFINE e == image.ents[d.ino][j]
    <3>5. e \in ToSet(image.ents[d.ino])
      BY DEF ToSet
    <3>6. e.type = "dir" /\ ~Special(e.name) /\ n.ino = e.ino
      BY <3>4 DEF Node, Sound
    <3>7. e.ino \in DOMAIN image.ents
      BY <3>3, <3>6, EntryFacts
    <3> HIDE DEF e
    <3>8. depth[d.ino] < depth[e.ino] /\ depth[d.ino] >= i - 1
      BY <1>3, <2>2, <3>3, <3>5, <3>6
    <3>9. depth[d.ino] \in Int /\ depth[e.ino] \in Int
      BY <1>3, <3>3, <3>7
    <3> QED
      BY <3>6, <3>7, <3>8, <3>9
  <2> HIDE DEF T
  <2> QED
    BY <1>2, <2>1, <2>2, UpTo
<1> SUFFICES ASSUME NEW d \in Tree \cup {Root}, NEW n \in Below(d) PROVE n \in Tree
  OBVIOUS
<1>5. PICK i \in 0 .. N : d \in L[i]
  BY <1>1, <1>2 DEF IsLevels, N
<1>6. d.path \in Text
  BY <1>1, <1>5 DEF IsLevels, N, Nodes
<1>7. d.type = "dir" /\ d.ino \in DOMAIN image.ents
  BY <1>6, BelowFacts
<1>8. depth[d.ino] >= i /\ depth[d.ino] \in 0 .. N - 1
  BY <1>3, <1>4, <1>5, <1>7
<1>9. i + 1 \in 1 .. N /\ (i + 1) - 1 = i
  BY <1>2, <1>8
<1>10. n \in L[i + 1]
  BY <1>1, <1>5, <1>9 DEF IsLevels, N
<1> QED
  BY <1>1, <1>9, <1>10 DEF IsLevels, N

LEMMA TreeRooted ==
  ASSUME job \in Jobs
  PROVE  \A n \in Tree : \E d \in Tree \cup {Root} : n \in Below(d)
<1>1. PICK L : IsLevels(L)
  BY Levels
<1>2. Deepest \in Nat
  BY Levels
<1> SUFFICES ASSUME NEW i \in 1 .. Deepest, NEW n \in L[i]
             PROVE  \E d \in Tree \cup {Root} : n \in Below(d)
  BY <1>1 DEF IsLevels
<1>3. PICK d \in L[i - 1] : n \in Below(d)
  BY <1>1 DEF IsLevels
<1>4. i = 1 \/ i - 1 \in 1 .. Deepest
  BY <1>2
<1>5. d \in Tree \cup {Root}
  <2>1. CASE i = 1
    BY <1>1, <1>3, <2>1 DEF IsLevels
  <2>2. CASE i - 1 \in 1 .. Deepest
    BY <1>1, <1>3, <2>2 DEF IsLevels
  <2> QED
    BY <1>4, <2>1, <2>2
<1> QED
  BY <1>3, <1>5

(* What holds of the root and passes on to what is below holds of the tree.*)
LEMMA TreeInduction ==
  ASSUME job \in Jobs, NEW S, Root \in S,
         \A d \in Tree \cup {Root} : d \in S => Below(d) \subseteq S
  PROVE  Tree \subseteq S
<1>1. PICK L : IsLevels(L)
  BY Levels
<1>2. Deepest \in Nat
  BY Levels
<1> DEFINE T == {i \in 0 .. Deepest : L[i] \subseteq S /\ L[i] \subseteq Tree \cup {Root}}
<1>3. \A i \in 0 .. Deepest : i \in T
  <2>1. 0 \in T
    BY <1>1, <1>2 DEF IsLevels
  <2>2. ASSUME NEW i \in 1 .. Deepest, i - 1 \in T PROVE i \in T
    <3>1. L[i] = UNION {Below(d) : d \in L[i - 1]} /\ L[i] \subseteq Tree
      BY <1>1 DEF IsLevels
    <3>2. L[i] \subseteq S
      BY <2>2, <3>1
    <3> QED
      BY <1>2, <3>1, <3>2
  <2> HIDE DEF T
  <2> QED
    BY <1>2, <2>1, <2>2, UpTo
<1>4. \A i \in 1 .. Deepest : L[i] \subseteq S
  BY <1>2, <1>3
<1> QED
  BY <1>1, <1>4 DEF IsLevels

-----------------------------------------------------------------------------
(* Paths of the tree *)

IsName(a) == a \in Text /\ a # <<>> /\ \A k \in 1 .. Len(a) : a[k] # Slash

LEMMA JoinShape ==
  ASSUME NEW p \in Text, p # <<>>, NEW a, IsName(a)
  PROVE  LET j == Join(p, a)
         IN /\ j \in Text /\ Len(p) \in Nat \ {0} /\ Len(a) \in Nat \ {0}
            /\ Len(j) = Len(p) + 1 + Len(a)
            /\ \A i \in 1 .. Len(p) : j[i] = p[i]
            /\ j[Len(p) + 1] = Slash
            /\ \A i \in 1 .. Len(a) : j[Len(p) + 1 + i] = a[i]
<1> DEFINE C == DOMAIN Fold \cup {Slash, AnyRun, AnyChar, "-"}
<1>1. p \in Seq(C) /\ a \in Seq(C) /\ Slash \in C /\ Text = Seq(C) /\ a # <<>>
  BY DEF Text, IsName
<1>2. Join(p, a) = p \o <<Slash>> \o a
  BY DEF Join
<1> HIDE DEF C
<1> DEFINE q == p \o <<Slash>>
<1>3. /\ q \in Seq(C) /\ Len(q) = Len(p) + 1 /\ q[Len(p) + 1] = Slash
      /\ \A i \in 1 .. Len(p) : q[i] = p[i]
  BY <1>1
<1>4. Len(p) \in Nat \ {0} /\ Len(a) \in Nat \ {0}
  BY <1>1, EmptySeq
<1> HIDE DEF q
<1>5. /\ q \o a \in Seq(C) /\ Len(q \o a) = Len(q) + Len(a)
      /\ \A i \in 1 .. Len(q) : (q \o a)[i] = q[i]
      /\ \A i \in 1 .. Len(a) : (q \o a)[Len(q) + i] = a[i]
  BY <1>1, <1>3
<1>6. \A i \in 1 .. Len(p) : i \in 1 .. Len(q)
  BY <1>3, <1>4
<1>7. Len(p) + 1 \in 1 .. Len(q)
  BY <1>3, <1>4
<1> QED
  BY <1>1, <1>2, <1>3, <1>4, <1>5, <1>6, <1>7 DEF q

LEMMA LastCutIs ==
  ASSUME NEW path, NEW c \in Cuts(path) \cup {0}, Cuts(path) \subseteq Nat,
         \A i \in Cuts(path) : i <= c
  PROVE  LastCut(path) = c
<1> DEFINE Last_(i) == \A j \in Cuts(path) : j <= i
<1>1. LastCut(path) = CHOOSE i \in Cuts(path) \cup {0} : Last_(i)
  BY DEF LastCut
<1>2. \A i \in Cuts(path) \cup {0} : Last_(i) => i = c
  OBVIOUS
<1>3. Last_(c)
  OBVIOUS
<1> HIDE DEF Last_
<1> QED
  BY <1>1, <1>2, <1>3

(* A path and its last name give each other.                               *)
LEMMA JoinFacts ==
  ASSUME NEW p \in Text, NEW a, IsName(a)
  PROVE  LET j == Join(p, a)
         IN /\ j \in Text /\ j # <<>> /\ j[Len(j)] # Slash
            /\ Len(j) = IF p = <<>> THEN Len(a) ELSE Len(p) + 1 + Len(a)
            /\ Cuts(j) = IF p = <<>> THEN {} ELSE Cuts(p) \cup {Len(p) + 1}
            /\ BaseName(j) = a /\ Parent(j) = p
<1>1. a \in Text /\ Len(a) \in Nat \ {0} /\ Len(p) \in Nat
  BY EmptySeq DEF IsName, Text
<1>2. CASE p = <<>>
  <2>1. Join(p, a) = a
    BY <1>2 DEF Join
  <2>2. Cuts(a) = {}
    BY <1>1 DEF Cuts, IsName
  <2>3. LastCut(a) = 0
    BY <2>2, LastCutIs
  <2>4. SubSeq(a, 1, Len(a)) = a /\ SubSeq(a, 1, -1) = <<>>
    BY <1>1 DEF Text
  <2>5. BaseName(a) = a /\ Parent(a) = <<>>
    BY <2>3, <2>4 DEF BaseName, Parent
  <2> QED
    BY <1>1, <1>2, <2>1, <2>2, <2>5 DEF IsName
<1>3. CASE p # <<>>
  <2> DEFINE j == Join(p, a)
             c == Len(p) + 1
  <2>1. /\ j \in Text /\ Len(p) \in Nat \ {0} /\ Len(j) = c + Len(a)
        /\ \A i \in 1 .. Len(p) : j[i] = p[i]
        /\ j[c] = Slash /\ \A i \in 1 .. Len(a) : j[c + i] = a[i]
    BY <1>3, JoinShape
  <2> HIDE DEF j
  <2>2. \A i \in 1 .. Len(j) : i \in 1 .. Len(p) \/ i = c \/ i - c \in 1 .. Len(a)
    BY <1>1, <2>1
  <2>3. \A i \in c + 1 .. Len(j) : j[i] # Slash
    <3> SUFFICES ASSUME NEW i \in c + 1 .. Len(j) PROVE j[i] # Slash
      OBVIOUS
    <3>1. i - c \in 1 .. Len(a) /\ c + (i - c) = i
      BY <1>1, <2>1
    <3>2. j[c + (i - c)] = a[i - c]
      BY <2>1, <3>1
    <3> QED
      BY <3>1, <3>2 DEF IsName
  <2>4. Cuts(j) = Cuts(p) \cup {c}
    <3>1. \A i : i \in Cuts(j) => i \in Cuts(p) \cup {c}
      <4> SUFFICES ASSUME NEW i \in 1 .. Len(j), j[i] = Slash, i # c PROVE i \in Cuts(p)
        BY DEF Cuts
      <4>1. i \in 1 .. Len(p)
        BY <1>1, <2>1, <2>3
      <4> QED
        BY <2>1, <4>1 DEF Cuts
    <3>2. \A i : i \in Cuts(p) \cup {c} => i \in Cuts(j)
      BY <1>1, <2>1 DEF Cuts
    <3> QED
      BY <3>1, <3>2
  <2>5. LastCut(j) = c
    <3>1. Cuts(j) \subseteq Nat /\ c \in Cuts(j)
      BY <1>1, <2>1, <2>4 DEF Cuts
    <3>2. \A i \in Cuts(j) : i <= c
      BY <2>1, <2>4 DEF Cuts
    <3> QED
      BY <3>1, <3>2, LastCutIs
  <2>6. SubSeq(j, 1, Len(p)) = p
    <3> DEFINE s == SubSeq(j, 1, Len(p))
    <3>1. 1 \in 1 .. Len(j) + 1 /\ Len(p) \in 1 - 1 .. Len(j)
      BY <1>1, <2>1
    <3>2. s \in Text /\ Len(s) = Len(p) /\ \A i \in 1 .. Len(p) : s[i] = j[i]
      BY <2>1, <3>1, SubSeqProperties DEF Text
    <3> HIDE DEF s
    <3>3. s = p
      BY <2>1, <3>2, SeqEqual DEF Text
    <3> QED
      BY <3>3 DEF s
  <2>7. SubSeq(j, c + 1, Len(j)) = a
    <3> DEFINE s == SubSeq(j, c + 1, Len(j))
    <3>1. c + 1 \in 1 .. Len(j) + 1 /\ Len(j) \in (c + 1) - 1 .. Len(j)
      BY <1>1, <2>1
    <3>2. /\ s \in Text /\ Len(s) = Len(j) - (c + 1) + 1
          /\ \A i \in 1 .. Len(j) - (c + 1) + 1 : s[i] = j[c + 1 + i - 1]
      BY <2>1, <3>1, SubSeqProperties DEF Text
    <3>3. Len(s) = Len(a) /\ \A i \in 1 .. Len(a) : s[i] = a[i]
      BY <1>1, <2>1, <3>2
    <3> HIDE DEF s
    <3>4. s = a
      BY <1>1, <3>2, <3>3, SeqEqual DEF Text
    <3> QED
      BY <3>4 DEF s
  <2>8. c - 1 = Len(p)
    BY <2>1
  <2>9. BaseName(j) = a /\ Parent(j) = p
    BY <2>5, <2>6, <2>7, <2>8 DEF BaseName, Parent
  <2>10. j # <<>> /\ j[Len(j)] # Slash
    <3>1. Len(j) \in c + 1 .. Len(j)
      BY <1>1, <2>1
    <3> QED
      BY <2>1, <2>3, <3>1
  <2> QED
    BY <1>3, <2>1, <2>4, <2>9, <2>10 DEF j
<1> QED
  BY <1>2, <1>3

LEMMA JoinPrefix ==
  ASSUME NEW p \in Text, p # <<>>, NEW a, IsName(a), NEW i \in 0 .. Len(p)
  PROVE  SubSeq(Join(p, a), 1, i) = SubSeq(p, 1, i)
<1> DEFINE j == Join(p, a)
           s == SubSeq(j, 1, i)
           t == SubSeq(p, 1, i)
<1>1. /\ j \in Text /\ Len(p) \in Nat \ {0} /\ Len(a) \in Nat
      /\ Len(j) = Len(p) + 1 + Len(a) /\ \A k \in 1 .. Len(p) : j[k] = p[k]
  BY JoinShape
<1> HIDE DEF j
<1>2. i \in 0 .. Len(j) /\ i \in Int
  BY <1>1
<1>3. s \in Text /\ Len(s) = i /\ \A k \in 1 .. i : s[k] = j[k]
  BY <1>1, <1>2, SubSeqProperties DEF Text
<1>4. t \in Text /\ Len(t) = i /\ \A k \in 1 .. i : t[k] = p[k]
  BY <1>1, <1>2, SubSeqProperties DEF Text
<1> HIDE DEF s, t
<1>5. \A k \in 1 .. i : s[k] = t[k]
  BY <1>1, <1>3, <1>4
<1>6. s = t
  BY <1>3, <1>4, <1>5, SeqEqual DEF Text
<1> QED
  BY <1>6 DEF s, t, j

LEMMA JoinAncestors ==
  ASSUME NEW p \in Text, NEW a, IsName(a)
  PROVE  Ancestors(Join(p, a)) \ {<<>>} = {Join(p, a)} \cup (Ancestors(p) \ {<<>>})
<1> DEFINE j == Join(p, a)
<1>1. j # <<>> /\ Cuts(j) = IF p = <<>> THEN {} ELSE Cuts(p) \cup {Len(p) + 1}
  BY JoinFacts
<1>2. CASE p = <<>>
  <2>1. Cuts(p) = {}
    BY <1>2 DEF Cuts
  <2> HIDE DEF j
  <2> QED
    BY <1>1, <1>2, <2>1 DEF Ancestors, j
<1>3. CASE p # <<>>
  <2>1. Cuts(p) \subseteq 1 .. Len(p) /\ Len(p) \in Nat
    BY DEF Cuts, Text
  <2>2. SubSeq(j, 1, (Len(p) + 1) - 1) = p
    <3>1. (Len(p) + 1) - 1 = Len(p) /\ Len(p) \in 0 .. Len(p) /\ SubSeq(p, 1, Len(p)) = p
      BY <2>1 DEF Text
    <3> QED
      BY <1>3, <3>1, JoinPrefix
  <2>3. \A i \in Cuts(p) : SubSeq(j, 1, i - 1) = SubSeq(p, 1, i - 1)
    <3>1. \A i \in Cuts(p) : i - 1 \in 0 .. Len(p)
      BY <2>1
    <3> QED
      BY <1>3, <3>1, JoinPrefix
  <2> HIDE DEF j
  <2>4. {SubSeq(j, 1, i - 1) : i \in Cuts(j)} = {SubSeq(p, 1, i - 1) : i \in Cuts(p)} \cup {p}
    BY <1>1, <1>3, <2>2, <2>3
  <2> QED
    BY <1>1, <2>4 DEF Ancestors, j
<1> QED
  BY <1>2, <1>3

-----------------------------------------------------------------------------
(* One path, one entry *)

LEMMA TreeNodes ==
  ASSUME job \in Jobs
  PROVE  Tree \cup {Root} \subseteq Nodes
<1>1. PICK L : IsLevels(L)
  BY Levels
<1>2. Deepest \in Nat
  BY Levels
<1> QED
  BY <1>1, <1>2 DEF IsLevels

LEMMA TreeEntry ==
  ASSUME job \in Jobs, NEW n \in Tree
  PROVE  \E d \in Dirs : \E i \in DOMAIN image.ents[d.ino] :
           LET e == image.ents[d.ino][i]
           IN /\ Sound(e) /\ n = Node(d, e) /\ n \in Below(d)
              /\ n.path = Join(d.path, e.name) /\ n.ino = e.ino /\ n.type = e.type
              /\ IsName(e.name) /\ d.path \in Text
<1>1. PICK d \in Tree \cup {Root} : n \in Below(d)
  BY TreeRooted
<1>2. d.path \in Text
  BY TreeNodes DEF Nodes
<1>3. d.type = "dir" /\ Readable(d.ino) /\ d.ino \in DOMAIN image.ents
  BY <1>1, <1>2, BelowFacts
<1>4. PICK i \in DOMAIN image.ents[d.ino] :
        Sound(image.ents[d.ino][i]) /\ n = Node(d, image.ents[d.ino][i])
  BY <1>1, <1>2, BelowFacts
<1> DEFINE e == image.ents[d.ino][i]
<1>5. IsName(e.name)
  BY <1>3, EntryFacts DEF IsName
<1> HIDE DEF e
<1>6. Sound(e) /\ n = Node(d, e)
  BY <1>4 DEF e
<1>7. n.path = Join(d.path, e.name) /\ n.ino = e.ino /\ n.type = e.type
  BY <1>6 DEF Node
<1>8. d \in Dirs
  BY <1>3 DEF Dirs
<1> QED
  BY <1>1, <1>2, <1>5, <1>6, <1>7, <1>8 DEF e

LEMMA DirFacts ==
  ASSUME job \in Jobs, NEW d \in Dirs, NEW i \in DOMAIN image.ents[d.ino]
  PROVE  LET e == image.ents[d.ino][i]
         IN /\ d.path \in Text /\ IsName(e.name) /\ d.ino \in DOMAIN image.ents
            /\ Sound(e) => Node(d, e) \in Tree
<1> DEFINE e == image.ents[d.ino][i]
<1>1. d \in Tree \cup {Root} /\ d.type = "dir" /\ Readable(d.ino) /\ d.ino \in DOMAIN image.ents
  BY DEF Dirs, Readable
<1>2. IsName(e.name)
  BY <1>1, EntryFacts DEF IsName
<1>3. e \in ToSet(image.ents[d.ino])
  BY DEF ToSet
<1> HIDE DEF e
<1>4. Sound(e) => Node(d, e) \in Below(d)
  BY <1>1, <1>3 DEF Below
<1>5. Sound(e) => Node(d, e) \in Tree
  BY <1>1, <1>4, TreeGrows
<1>6. d.path \in Text
  BY <1>1, TreeNodes DEF Nodes
<1> QED
  BY <1>1, <1>2, <1>5, <1>6 DEF e

LEMMA TreePath ==
  ASSUME job \in Jobs, NEW n \in Tree
  PROVE  /\ n.path \in Text /\ n.path # <<>> /\ n.path[Len(n.path)] # Slash
         /\ n \in Nodes
<1>1. PICK d \in Dirs : \E i \in DOMAIN image.ents[d.ino] :
           LET e == image.ents[d.ino][i]
           IN /\ n.path = Join(d.path, e.name)
              /\ IsName(e.name) /\ d.path \in Text
  BY TreeEntry
<1>2. PICK a : n.path = Join(d.path, a) /\ IsName(a) /\ d.path \in Text
  BY <1>1
<1>3. Join(d.path, a) # <<>> /\ Join(d.path, a)[Len(Join(d.path, a))] # Slash
      /\ Join(d.path, a) \in Text
  BY <1>2, JoinFacts
<1> QED
  BY <1>2, <1>3, TreeNodes

LEMMA OnePath ==
  ASSUME job \in Jobs, CaseDistinct,
         NEW n \in Tree \cup {Root}, NEW m \in Tree \cup {Root}, n.path = m.path
  PROVE  n = m
<1> DEFINE S == {x \in Nodes : \A y \in Tree \cup {Root} : y.path = x.path => y = x}
<1>1. Root \in S
  <2>1. Root.path = <<>>
    BY DEF Root
  <2> QED
    BY <2>1, TreeNodes, TreePath
<1>2. ASSUME NEW d \in Tree \cup {Root}, d \in S, NEW x \in Below(d) PROVE x \in S
  <2>1. x \in Tree /\ x \in Nodes
    BY <1>2, TreeGrows, TreeNodes
  <2>2. d.path \in Text
    BY TreeNodes DEF Nodes
  <2>3. /\ d.type = "dir" /\ d.ino \in DOMAIN image.ents
        /\ \E i \in DOMAIN image.ents[d.ino] :
             Sound(image.ents[d.ino][i]) /\ x = Node(d, image.ents[d.ino][i])
    BY <2>2, BelowFacts
  <2>4. PICK i \in DOMAIN image.ents[d.ino] : x = Node(d, image.ents[d.ino][i])
    BY <2>3
  <2>5. IsName(image.ents[d.ino][i].name)
    BY <2>3, EntryFacts DEF IsName
  <2> SUFFICES ASSUME NEW y \in Tree \cup {Root}, y.path = x.path PROVE y = x
    BY <2>1
  <2>6. x.path # <<>>
    BY <2>1, TreePath
  <2>7. y \in Tree
    BY <2>6 DEF Root
  <2>8. PICK c \in Dirs : \E j \in DOMAIN image.ents[c.ino] :
           LET e == image.ents[c.ino][j]
           IN /\ Sound(e) /\ y = Node(c, e) /\ y \in Below(c)
              /\ y.path = Join(c.path, e.name) /\ y.ino = e.ino /\ y.type = e.type
              /\ IsName(e.name) /\ c.path \in Text
    BY <2>7, TreeEntry
  <2>9. PICK j \in DOMAIN image.ents[c.ino] :
           /\ y = Node(c, image.ents[c.ino][j])
           /\ y.path = Join(c.path, image.ents[c.ino][j].name)
           /\ IsName(image.ents[c.ino][j].name) /\ c.path \in Text
    BY <2>8
  <2> DEFINE a == image.ents[d.ino][i].name
             b == image.ents[c.ino][j].name
  <2>10. x.path = Join(d.path, a)
    BY <2>4 DEF Node
  <2>11. Parent(x.path) = d.path /\ BaseName(x.path) = a
    BY <2>2, <2>5, <2>10, JoinFacts
  <2>12. Parent(y.path) = c.path /\ BaseName(y.path) = b
    BY <2>9, JoinFacts
  <2>13. c.path = d.path /\ a = b
    BY <2>11, <2>12
  <2>14. c \in Tree \cup {Root}
    BY DEF Dirs
  <2>15. c = d
    BY <1>2, <2>13, <2>14
  <2>16. Same(image.ents[d.ino][i].name, image.ents[d.ino][j].name)
    BY <2>13, <2>15 DEF Same
  <2>17. i = j
    BY <2>3, <2>9, <2>15, <2>16 DEF CaseDistinct
  <2> QED
    BY <2>4, <2>9, <2>15, <2>17
<1>3. Tree \subseteq S
  <2> HIDE DEF S
  <2> QED
    BY <1>1, <1>2, TreeInduction
<1>4. n \in S
  BY <1>1, <1>3
<1> QED
  BY <1>4

-----------------------------------------------------------------------------
(* Looking up a path of the tree finds its entry *)

LEMMA FirstHit ==
  ASSUME job \in Jobs, NEW d \in DOMAIN image.ents, NEW name, Hits(d, name) # {}
  PROVE  Min(Hits(d, name)) \in Hits(d, name)
<1> DEFINE H == Hits(d, name)
           First(i) == \A k \in H : i =< k
<1>1. H \subseteq Nat
  <2>1. \A i \in DOMAIN image.ents[d] : i \in 1 .. Len(image.ents[d])
    BY EntryFacts
  <2> QED
    BY <2>1 DEF Hits
<1> HIDE DEF H
<1>2. PICK i \in H : \A k \in H : i <= k
  BY <1>1, Least DEF H
<1>3. Min(H) = CHOOSE k \in H : First(k)
  BY DEF Min
<1>4. First(i)
  BY <1>2
<1> HIDE DEF First
<1>5. Min(H) \in H
  BY <1>2, <1>3, <1>4
<1> QED
  BY <1>5 DEF H

Found == Nat \cup DOMAIN image.ents
LEMMA FindFound ==
  ASSUME job \in Jobs, NEW dirs, NEW name
  PROVE  Find(dirs, name) \subseteq Found
<1> SUFFICES ASSUME NEW d \in dirs, Readable(d), Hits(d, name) # {}
             PROVE  image.ents[d][Min(Hits(d, name))].ino \in Found
  BY DEF Find
<1>1. d \in DOMAIN image.ents
  BY DEF Readable
<1>2. Min(Hits(d, name)) \in DOMAIN image.ents[d]
  BY <1>1, FirstHit DEF Hits
<1> QED
  BY <1>1, <1>2, EntryFacts DEF Found

(* The loop over the parts of a path, position by position                 *)
IsSearch(f, path) ==
  /\ f[0] = {image.root}
  /\ \A i \in 1 .. Len(path) + 1 :
       f[i] = IF i <= Len(path) /\ path[i] # Slash THEN f[i - 1]
              ELSE Find(f[i - 1], BaseName(SubSeq(path, 1, i - 1)))
LEMMA SearchDef ==
  ASSUME job \in Jobs, NEW path \in Text
  PROVE  \E f : IsSearch(f, path) /\ Lookup(path) = f[Len(path) + 1]
<1> DEFINE N == Len(path) + 1
           S == SUBSET Found
           On(i) == i <= Len(path) /\ path[i] # Slash
           B(i) == BaseName(SubSeq(path, 1, i - 1))
           step == [i \in 1 .. N |-> [ds \in S |-> IF On(i) THEN ds ELSE Find(ds, B(i))]]
           Def(f) == f = [i \in 0 .. N |->
                            IF i = 0 THEN {image.root}
                            ELSE IF On(i) THEN f[i - 1] ELSE Find(f[i - 1], B(i))]
<1>1. N \in Nat
  BY DEF Text
<1>2. {image.root} \in S
  <2>1. image.root \in DOMAIN image.ents
    BY ImagesAreTrees DEF image
  <2> QED
    BY <2>1 DEF Found
<1> DEFINE L == CHOOSE g : Def(g)
<1>3. Lookup(path) = L[N]
  BY DEF Lookup
<1> HIDE DEF On, B, N
<1>4. step \in [1 .. N -> [S -> S]]
  <2>1. \A i \in 1 .. N : \A ds \in S : (IF On(i) THEN ds ELSE Find(ds, B(i))) \in S
    BY FindFound
  <2> QED
    BY <2>1
<1> HIDE DEF S, step
<1>5. PICK f : IsLoop(f, N, S, {image.root}, step)
  BY <1>1, <1>2, <1>4, Loop
<1>6. \A i \in 1 .. N : i - 1 \in 0 .. N /\ i \in 0 .. N /\ i # 0
  BY <1>1
<1>7. f \in [0 .. N -> S] /\ f[0] = {image.root}
  BY <1>5 DEF IsLoop
<1>8. \A i \in 1 .. N : f[i] = IF On(i) THEN f[i - 1] ELSE Find(f[i - 1], B(i))
  BY <1>5, <1>6, <1>7 DEF IsLoop, step
<1>9. Def(f)
  <2>1. \A i \in 0 .. N : i = 0 \/ i \in 1 .. N
    BY <1>1
  <2> QED
    BY <1>7, <1>8, <2>1
<1>10. Def(L)
  <2> HIDE DEF Def
  <2> QED
    BY <1>9
<1> HIDE DEF L
<1>11. L = [i \in 0 .. N |-> IF i = 0 THEN {image.root}
                             ELSE IF On(i) THEN L[i - 1] ELSE Find(L[i - 1], B(i))]
  BY <1>10
<1> HIDE DEF Def
<1>12. 0 \in 0 .. N /\ L[0] = {image.root}
  BY <1>1, <1>11
<1>13. \A i \in 1 .. N : L[i] = IF On(i) THEN L[i - 1] ELSE Find(L[i - 1], B(i))
  BY <1>6, <1>11
<1>14. IsSearch(L, path)
  BY <1>12, <1>13 DEF IsSearch, N, On, B
<1> QED
  BY <1>3, <1>14 DEF N

(* While there is no slash nothing is looked up.                           *)
LEMMA SearchOn ==
  ASSUME NEW path \in Text, NEW f, IsSearch(f, path), NEW c \in 0 .. Len(path),
         \A i \in c + 1 .. Len(path) : path[i] # Slash
  PROVE  Lookup(path) = f[Len(path) + 1] => Lookup(path) = Find(f[c], BaseName(path))
<1>1. Len(path) \in Nat
  BY DEF Text
<1> DEFINE m == Len(path) - c
           T == {k \in 0 .. m : f[c + k] = f[c]}
<1>2. \A k \in 0 .. m : k \in T
  <2>1. 0 \in T
    BY <1>1
  <2>2. ASSUME NEW k \in 1 .. m, k - 1 \in T PROVE k \in T
    <3>1. /\ c + k \in 1 .. Len(path) + 1 /\ c + k \in c + 1 .. Len(path)
          /\ (c + k) - 1 = c + (k - 1) /\ c + k <= Len(path)
      BY <1>1
    <3>2. f[c + k] = f[(c + k) - 1]
      BY <3>1 DEF IsSearch
    <3>3. f[c + (k - 1)] = f[c]
      BY <2>2
    <3> QED
      BY <3>1, <3>2, <3>3
  <2> HIDE DEF T
  <2>3. m \in Nat
    BY <1>1
  <2> HIDE DEF m
  <2> QED
    BY <2>1, <2>2, <2>3, UpTo
<1>3. f[Len(path)] = f[c]
  <2>1. m \in T /\ c + m = Len(path)
    BY <1>1, <1>2
  <2> QED
    BY <2>1
<1>4. /\ Len(path) + 1 \in 1 .. Len(path) + 1 /\ ~(Len(path) + 1 <= Len(path))
      /\ (Len(path) + 1) - 1 = Len(path)
  BY <1>1
<1>5. f[Len(path) + 1] = Find(f[Len(path)], BaseName(SubSeq(path, 1, Len(path))))
  BY <1>4 DEF IsSearch
<1>6. SubSeq(path, 1, Len(path)) = path
  BY DEF Text
<1> QED
  BY <1>3, <1>5, <1>6

LEMMA LookupJoin ==
  ASSUME job \in Jobs, NEW p \in Text, NEW a, IsName(a)
  PROVE  Lookup(Join(p, a)) = Find(IF p = <<>> THEN {image.root} ELSE Lookup(p), a)
<1> DEFINE j == Join(p, a)
<1>1. j \in Text /\ BaseName(j) = a /\ Len(a) \in Nat /\ Len(p) \in Nat
  BY JoinFacts DEF IsName, Text
<1>2. PICK f : IsSearch(f, j) /\ Lookup(j) = f[Len(j) + 1]
  BY <1>1, SearchDef
<1>3. CASE p = <<>>
  <2>1. j = a
    BY <1>3 DEF Join
  <2>2. 0 \in 0 .. Len(j) /\ \A i \in 0 + 1 .. Len(j) : j[i] # Slash
    BY <1>1, <2>1 DEF IsName
  <2> HIDE DEF j
  <2>3. Lookup(j) = Find(f[0], BaseName(j))
    BY <1>1, <1>2, <2>2, SearchOn
  <2> QED
    BY <1>1, <1>2, <1>3, <2>3 DEF IsSearch, j
<1>4. CASE p # <<>>
  <2> DEFINE c == Len(p) + 1
  <2>1. /\ Len(j) = c + Len(a) /\ \A i \in 1 .. Len(p) : j[i] = p[i]
        /\ j[c] = Slash /\ \A i \in 1 .. Len(a) : j[c + i] = a[i]
    BY <1>4, JoinShape
  <2>2. \A i \in 0 .. Len(p) : SubSeq(j, 1, i) = SubSeq(p, 1, i)
    BY <1>4, JoinPrefix
  <2>3. PICK g : IsSearch(g, p) /\ Lookup(p) = g[Len(p) + 1]
    BY SearchDef
  <2> HIDE DEF j
  <2> DEFINE T == {i \in 0 .. Len(p) : f[i] = g[i]}
  <2>4. \A i \in 0 .. Len(p) : i \in T
    <3>1. 0 \in T
      <4>1. f[0] = {image.root} /\ g[0] = {image.root}
        BY <1>2, <2>3, Zenon DEF IsSearch
      <4>2. 0 \in 0 .. Len(p)
        BY <1>1
      <4> QED
        BY <4>1, <4>2
    <3>2. ASSUME NEW i \in 1 .. Len(p), i - 1 \in T PROVE i \in T
      <4>1. /\ i \in 1 .. Len(p) + 1 /\ i \in 1 .. Len(j) + 1 /\ i - 1 \in 0 .. Len(p)
            /\ i <= Len(p) /\ i <= Len(j) /\ i \in 0 .. Len(p)
        BY <1>1, <2>1
      <4>2. f[i] = IF j[i] # Slash THEN f[i - 1]
                   ELSE Find(f[i - 1], BaseName(SubSeq(j, 1, i - 1)))
        BY <1>2, <4>1 DEF IsSearch
      <4>3. g[i] = IF p[i] # Slash THEN g[i - 1]
                   ELSE Find(g[i - 1], BaseName(SubSeq(p, 1, i - 1)))
        BY <2>3, <4>1 DEF IsSearch
      <4>4. j[i] = p[i] /\ SubSeq(j, 1, i - 1) = SubSeq(p, 1, i - 1) /\ f[i - 1] = g[i - 1]
        BY <2>1, <2>2, <3>2, <4>1
      <4> QED
        BY <4>1, <4>2, <4>3, <4>4
    <3> HIDE DEF T
    <3> QED
      BY <1>1, <3>1, <3>2, UpTo
  <2>5. f[Len(p)] = g[Len(p)]
    <3>1. Len(p) \in T
      BY <1>1, <2>4
    <3> QED
      BY <3>1
  <2>6. SubSeq(j, 1, Len(p)) = p /\ c - 1 = Len(p)
    <3>1. Len(p) \in 0 .. Len(p) /\ SubSeq(p, 1, Len(p)) = p
      BY <1>1 DEF Text
    <3> QED
      BY <1>1, <2>2, <3>1
  <2>7. f[c] = Find(f[Len(p)], BaseName(p))
    <3>1. c \in 1 .. Len(j) + 1
      BY <1>1, <2>1
    <3> QED
      BY <1>2, <2>1, <2>6, <3>1 DEF IsSearch
  <2>8. g[c] = Find(g[Len(p)], BaseName(p))
    <3>1. c \in 1 .. Len(p) + 1 /\ ~(c <= Len(p)) /\ SubSeq(p, 1, c - 1) = p
      BY <1>1, <2>6 DEF Text
    <3> QED
      BY <2>3, <2>6, <3>1 DEF IsSearch
  <2>9. c \in 0 .. Len(j) /\ \A i \in c + 1 .. Len(j) : j[i] # Slash
    <3>1. \A i \in c + 1 .. Len(j) : i - c \in 1 .. Len(a) /\ c + (i - c) = i
      BY <1>1, <2>1
    <3>2. ASSUME NEW i \in c + 1 .. Len(j) PROVE j[i] # Slash
      <4>1. j[c + (i - c)] = a[i - c] /\ a[i - c] # Slash
        BY <2>1, <3>1 DEF IsName
      <4> QED
        BY <3>1, <4>1
    <3> QED
      BY <1>1, <2>1, <3>2
  <2> HIDE DEF c
  <2>10. Lookup(j) = Find(f[c], BaseName(j))
    BY <1>1, <1>2, <2>9, SearchOn
  <2>11. f[c] = Lookup(p)
    BY <2>3, <2>5, <2>7, <2>8 DEF c
  <2> QED
    BY <1>1, <1>4, <2>10, <2>11 DEF j
<1> QED
  BY <1>3, <1>4

LEMMA FindEntry ==
  ASSUME job \in Jobs, CaseDistinct, NEW d \in DOMAIN image.ents, Readable(d),
         NEW i \in DOMAIN image.ents[d]
  PROVE  Find({d}, image.ents[d][i].name) = {image.ents[d][i].ino}
<1> DEFINE e == image.ents[d][i]
           H == Hits(d, e.name)
<1>1. i \in H
  BY DEF Hits, Same
<1>2. \A k \in H : k = i
  BY DEF Hits, CaseDistinct
<1>3. Min(H) = i
  <2> HIDE DEF e
  <2>1. Min(H) \in H
    BY <1>1, FirstHit
  <2> QED
    BY <1>2, <2>1
<1> HIDE DEF e
<1>4. Find({d}, e.name) = {image.ents[d][Min(H)].ino}
  BY <1>1 DEF Find
<1> QED
  BY <1>3, <1>4 DEF e

LEMMA LookupRight ==
  ASSUME job \in Jobs, CaseDistinct
  PROVE  \A n \in Tree : Lookup(n.path) = {n.ino}
<1> DEFINE S == {n \in Nodes : IF n = Root THEN TRUE ELSE Lookup(n.path) = {n.ino}}
<1>1. Root \in S
  BY TreeNodes
<1>2. ASSUME NEW d \in Tree \cup {Root}, d \in S, NEW n \in Below(d) PROVE n \in S
  <2>1. n \in Nodes /\ d.path \in Text /\ d \in Nodes
    BY <1>2, TreeGrows, TreeNodes DEF Nodes
  <2>2. /\ d.type = "dir" /\ d.ino \in DOMAIN image.ents /\ Readable(d.ino)
        /\ \E i \in DOMAIN image.ents[d.ino] :
             Sound(image.ents[d.ino][i]) /\ n = Node(d, image.ents[d.ino][i])
    BY <2>1, BelowFacts
  <2>3. PICK i \in DOMAIN image.ents[d.ino] : n = Node(d, image.ents[d.ino][i])
    BY <2>2
  <2> DEFINE e == image.ents[d.ino][i]
  <2>4. IsName(e.name)
    BY <2>2, EntryFacts DEF IsName
  <2>5. Find({d.ino}, e.name) = {e.ino}
    BY <2>2, FindEntry
  <2>6. n.path = Join(d.path, e.name) /\ n.ino = e.ino
    BY <2>3 DEF Node
  <2> HIDE DEF e
  <2>7. Lookup(n.path) = Find(IF d.path = <<>> THEN {image.root} ELSE Lookup(d.path), e.name)
    BY <2>1, <2>4, <2>6, LookupJoin
  <2>8. (IF d.path = <<>> THEN {image.root} ELSE Lookup(d.path)) = {d.ino}
    <3>1. CASE d = Root
      BY <3>1 DEF Root
    <3>2. CASE d # Root
      BY <1>2, <3>2, TreePath
    <3> QED
      BY <3>1, <3>2
  <2> QED
    BY <2>1, <2>5, <2>6, <2>7, <2>8
<1>3. Tree \subseteq S
  <2> HIDE DEF S
  <2> QED
    BY <1>1, <1>2, TreeInduction
<1>4. \A n \in Tree : n # Root
  BY TreePath DEF Root
<1> QED
  BY <1>3, <1>4

-----------------------------------------------------------------------------
(* Where a mask that is the path itself leads to                           *)

Keeps(n, m) == n \in Comparisons /\ n.name = m.name /\ n.pattern = m.pattern

LEMMA FinishKeeps ==
  ASSUME NEW m \in Comparisons, NEW yes \in BOOLEAN
  PROVE  Keeps(Finish(m, yes), m)
BY DEF Keeps, Finish, Comparisons

LEMMA FallBackKeeps ==
  ASSUME NEW m \in Comparisons
  PROVE  Keeps(FallBack(m), m)
<1> DEFINE s == IF m.lsn - 1 < 1 THEN NoPlace ELSE m.lsm
<1>1. s \in Int /\ m.lsn - 1 \in Int /\ m.lsm \in Int
  BY DEF NoPlace, Comparisons
<1>2. FallBack(m) = Moved(m, m.lsn - 1, m.lsn - 1, m.lsm, s)
  BY DEF FallBack, Moved
<1> HIDE DEF s
<1> QED
  BY <1>1, <1>2, MovedFields DEF Keeps

LEMMA CompareKeeps ==
  ASSUME NEW m \in Comparisons, m.mask \in Nat
  PROVE  Keeps(Compare(m), m)
<1>1. Keeps(Star(m), m)
  <2> DEFINE k == BeforeStars(m.pattern, m.mask)
             star == [m EXCEPT !.mask = k, !.lsm = k, !.lsn = m.data]
  <2>1. k \in Int
    BY StarsBefore
  <2>2. Star(m) = IF k = 0 THEN Finish(star, TRUE) ELSE star
    BY DEF Star
  <2> HIDE DEF k
  <2>3. Keeps(star, m)
    BY <2>1 DEF Keeps, Comparisons
  <2> HIDE DEF star
  <2>4. Keeps(Finish(star, TRUE), star)
    BY <2>3, FinishKeeps DEF Keeps
  <2> QED
    BY <2>2, <2>3, <2>4 DEF Keeps
<1>2. Keeps(Both(m), m)
  <2> DEFINE a == [m EXCEPT !.data = m.data - 1]
  <2>1. Both(m) = [a EXCEPT !.mask = m.mask - 1]
    BY DEF Both
  <2>2. a \in Comparisons /\ a.name = m.name /\ a.pattern = m.pattern
    BY DEF Comparisons
  <2> HIDE DEF a
  <2> QED
    BY <2>1, <2>2 DEF Comparisons, Keeps
<1> QED
  BY <1>1, <1>2, FinishKeeps, FallBackKeeps DEF Compare

LEMMA StepKeeps ==
  ASSUME NEW m, Running(m)
  PROVE  MatchStep(m).name = m.name /\ MatchStep(m).pattern = m.pattern
<1>1. /\ m \in Comparisons /\ m.mask \in Nat /\ m.lsm \in Int
      /\ m.lsm # NoPlace => m.lsm \in Nat
  <2>1. m \in Comparisons /\ m.mask \in Nat /\ m.lsm \in Int
    BY RunningDef
  <2>2. m.lsm # NoPlace => CanResume(m, Fits(m.name, m.pattern))
    BY RunningDef
  <2>3. m.lsm # NoPlace => m.lsm >= m.mask
    BY <2>2 DEF CanResume
  <2> QED
    BY <2>1, <2>3
<1>2. Keeps(Compare(m), m)
  BY <1>1, CompareKeeps
<1>3. m.lsm # NoPlace => FallBack(m).mask = m.lsm /\ Keeps(FallBack(m), m)
  <2> DEFINE s == IF m.lsn - 1 < 1 THEN NoPlace ELSE m.lsm
  <2>1. s \in Int /\ m.lsn - 1 \in Int /\ m.lsm \in Int
    BY <1>1 DEF NoPlace, Comparisons
  <2>2. FallBack(m) = Moved(m, m.lsn - 1, m.lsn - 1, m.lsm, s)
    BY DEF FallBack, Moved
  <2> HIDE DEF s
  <2> QED
    BY <1>1, <2>1, <2>2, MovedFields, FallBackKeeps
<1>4. m.lsm # NoPlace => Keeps(Compare(FallBack(m)), m)
  <2> SUFFICES ASSUME m.lsm # NoPlace PROVE Keeps(Compare(FallBack(m)), m)
    OBVIOUS
  <2> DEFINE n == FallBack(m)
  <2>1. n \in Comparisons /\ n.mask \in Nat /\ n.name = m.name /\ n.pattern = m.pattern
    BY <1>1, <1>3 DEF Keeps
  <2> HIDE DEF n
  <2>2. Keeps(Compare(n), n)
    BY <2>1, CompareKeeps
  <2> QED
    BY <2>1, <2>2 DEF Keeps, n
<1>5. \A yes \in BOOLEAN : Keeps(Finish(m, yes), m)
  BY <1>1, FinishKeeps
<1>6. \/ MatchStep(m) = Compare(m)
      \/ \E yes \in BOOLEAN : MatchStep(m) = Finish(m, yes)
      \/ (m.lsm # NoPlace /\ MatchStep(m) = Compare(FallBack(m)))
  <2>1. (BeforeStars(m.pattern, m.mask) = 0) \in BOOLEAN
    OBVIOUS
  <2>2. CASE m.data = 0
    BY <2>1, <2>2, Zenon DEF MatchStep
  <2>3. CASE m.data # 0
    BY <2>3, Zenon DEF MatchStep
  <2> QED
    BY <2>2, <2>3
<1> QED
  BY <1>2, <1>4, <1>5, <1>6 DEF Keeps

(* A path without * and ? matches itself.                                  *)
LEMMA GlobSelf ==
  ASSUME NEW p \in Text, IsPath(p)
  PROVE  Glob(p, p)
<1>1. Len(p) \in Nat /\ p # <<>>
  BY DEF Text, IsPath
<1>2. \A j \in 1 .. Len(p) : p[j] # AnyRun
  <2>1. \A j \in 1 .. Len(p) : p[j] \in ToSet(p)
    BY DEF ToSet, Text
  <2> QED
    BY <2>1 DEF IsPath
<1> DEFINE F == Fits(p, p)
           T == {j \in 0 .. Len(p) : j \in F[j]}
<1>3. /\ F[0] = {0}
      /\ \A j \in 1 .. Len(p) : F[j] = Reach(p, p[j], F[j - 1])
  BY <1>1, Rows
<1> HIDE DEF F
<1>4. \A j \in 0 .. Len(p) : j \in T
  <2>1. 0 \in T
    BY <1>1, <1>3
  <2>2. ASSUME NEW j \in 1 .. Len(p), j - 1 \in T PROVE j \in T
    <3>1. F[j] = {i \in 1 .. Len(p) : p[j] \in {AnyChar, p[i]} /\ i - 1 \in F[j - 1]}
      BY <1>2, <1>3 DEF Reach
    <3>2. j - 1 \in F[j - 1]
      BY <2>2
    <3> QED
      BY <1>1, <3>1, <3>2
  <2> HIDE DEF T
  <2> QED
    BY <1>1, <2>1, <2>2, UpTo
<1>5. Len(p) \in T
  BY <1>1, <1>4
<1> QED
  BY <1>1, <1>5 DEF Glob, F

(* The filter is made of the names given and the directories they are in.  *)
LEMMA PatternsAre ==
  ASSUME NEW arg \in Text
  PROVE  \A p : p \in ToSet(Patterns(arg)) <=>
           \E i \in 1 .. Len(arg) : /\ arg[i] # Slash
                                    /\ i = Len(arg) \/ arg[i + 1] = Slash
                                    /\ p = SubSeq(arg, 1, i)
<1> DEFINE ends(i) == arg[i] # Slash /\ (i = Len(arg) \/ arg[i + 1] = Slash)
           s == [i \in DOMAIN arg |-> IF ends(i) THEN <<SubSeq(arg, 1, i)>> ELSE <<>>]
<1>1. Len(arg) \in Nat /\ DOMAIN arg = 1 .. Len(arg)
  BY DEF Text
<1>2. \A i \in 1 .. Len(arg) : SubSeq(arg, 1, i) \in Text
  BY PrefixText
<1>3. \A i \in 1 .. Len(arg) :
        ToSet(s[i]) = IF ends(i) THEN {SubSeq(arg, 1, i)} ELSE {}
  <2> HIDE DEF ends
  <2> SUFFICES ASSUME NEW i \in 1 .. Len(arg)
               PROVE  ToSet(s[i]) = IF ends(i) THEN {SubSeq(arg, 1, i)} ELSE {}
    OBVIOUS
  <2> DEFINE q == SubSeq(arg, 1, i)
  <2>1. s[i] = IF ends(i) THEN <<q>> ELSE <<>>
    BY <1>1
  <2> HIDE DEF q
  <2>2. ToSet(<<q>>) = {q}
    BY DEF ToSet
  <2>3. ToSet(<<>>) = {}
    BY DEF ToSet
  <2> QED
    BY <2>1, <2>2, <2>3 DEF q
<1>4. Patterns(arg) = FlattenSeq(s)
  BY DEF Patterns
<1> HIDE DEF ends
<1>5. s \in [1 .. Len(arg) -> Seq(Text)]
  BY <1>1, <1>2
<1> HIDE DEF s
<1>6. ToSet(Patterns(arg)) = UNION {ToSet(s[k]) : k \in 1 .. Len(arg)}
  BY <1>1, <1>4, <1>5, Flattened
<1>7. \A p : p \in ToSet(Patterns(arg)) <=>
        \E i \in 1 .. Len(arg) : ends(i) /\ p = SubSeq(arg, 1, i)
  <2> DEFINE A(i) == {SubSeq(arg, 1, i)}
             D == 1 .. Len(arg)
             B(i) == ToSet(s[i])
  <2>1. \A i \in D : B(i) = IF ends(i) THEN A(i) ELSE {}
    BY <1>3
  <2>2. ToSet(Patterns(arg)) = UNION {B(k) : k \in D}
    BY <1>6
  <2>3. \A p, i : p \in A(i) <=> p = SubSeq(arg, 1, i)
    OBVIOUS
  <2> HIDE DEF A, B, D
  <2>4. \A p : p \in ToSet(Patterns(arg)) <=> \E i \in D : ends(i) /\ p \in A(i)
    BY <2>1, <2>2
  <2> QED
    BY <2>3, <2>4 DEF D
<1> QED
  BY <1>7 DEF ends


LEMMA PrefixOfPrefix ==
  ASSUME NEW p \in Text, NEW i \in 1 .. Len(p), NEW k \in 0 .. i
  PROVE  SubSeq(SubSeq(p, 1, i), 1, k) = SubSeq(p, 1, k)
<1> DEFINE q == SubSeq(p, 1, i)
           s == SubSeq(q, 1, k)
           t == SubSeq(p, 1, k)
<1>1. Len(p) \in Nat /\ i \in Int /\ k \in Int /\ i <= Len(p) /\ k <= i /\ k <= Len(p)
  BY DEF Text
<1>2. q \in Text /\ Len(q) = i /\ \A x \in 1 .. i : q[x] = p[x]
  BY <1>1, SubSeqProperties DEF Text
<1> HIDE DEF q
<1>3. s \in Text /\ Len(s) = k /\ \A x \in 1 .. k : s[x] = q[x]
  BY <1>1, <1>2, SubSeqProperties DEF Text
<1>4. t \in Text /\ Len(t) = k /\ \A x \in 1 .. k : t[x] = p[x]
  BY <1>1, <1>2, SubSeqProperties DEF Text
<1> HIDE DEF s, t
<1>5. \A x \in 1 .. k : s[x] = t[x]
  BY <1>1, <1>2, <1>3, <1>4
<1>6. s = t
  BY <1>3, <1>4, <1>5, SeqEqual DEF Text
<1> QED
  BY <1>6 DEF s, t, q

LEMMA FilterParsed ==
  ASSUME Walking, ParseArgs
  PROVE  FilterMade'
<1> DEFINE args == job.args
           n == Len(args)
           Part(arg) == IF Named(arg) THEN Patterns(arg) ELSE <<>>
           s == [i \in DOMAIN args |-> Part(args[i])]
<1>1. /\ args \in Seq(Text) /\ n \in Nat /\ DOMAIN args = 1 .. n
      /\ \A i \in 1 .. n : args[i] \in Text
  <2>1. args \in Seq(Text)
    BY JobsAreText DEF Walking
  <2> HIDE DEF args
  <2> QED
    BY <2>1
<1>2. filter' = FlattenSeq(s) /\ job' = job
  BY DEF ParseArgs
<1>3. s \in [1 .. n -> Seq(Text)] /\ \A i \in 1 .. n : s[i] = Part(args[i])
  BY <1>1, PatternsText
<1>4. ToSet(args) = {args[i] : i \in 1 .. n}
  BY <1>1 DEF ToSet
<1> HIDE DEF s
<1>5. filter' \in Seq(Text) /\ ToSet(filter') = UNION {ToSet(s[k]) : k \in 1 .. n}
  BY <1>1, <1>2, <1>3, Flattened
<1> DEFINE F == ToSet(filter')
<1>6. \A p \in F : \E i \in 1 .. n : p \in ToSet(s[i])
  BY <1>5
<1>7. \A i \in 1 .. n : ToSet(s[i]) \subseteq F
  BY <1>5
<1>8. ToSet(<<>>) = {}
  BY DEF ToSet
<1>9. args = <<>> => filter' = <<>>
  <2> SUFFICES ASSUME args = <<>> PROVE filter' = <<>>
    OBVIOUS
  <2>1. F = {}
    BY <1>6
  <2>2. Len(filter') \in Nat /\ DOMAIN filter' = 1 .. Len(filter')
    BY <1>5
  <2>3. ASSUME Len(filter') # 0 PROVE FALSE
    <3>1. 1 \in DOMAIN filter'
      BY <2>2, <2>3
    <3>2. filter'[1] \in F
      BY <3>1 DEF ToSet
    <3> QED
      BY <2>1, <3>2
  <2> QED
    BY <1>5, <2>3, EmptySeq
<1> HIDE DEF F
<1>10. ASSUME NEW arg \in ToSet(args), IsPath(arg), arg[Len(arg)] # Slash PROVE arg \in F
  <2>1. PICK i \in 1 .. n : arg = args[i]
    BY <1>4
  <2>2. arg \in Text /\ Named(arg) /\ ToSet(s[i]) = ToSet(Patterns(arg))
    BY <1>1, <1>3, <1>10, <2>1 DEF IsPath, Named
  <2>3. Len(arg) \in 1 .. Len(arg) /\ SubSeq(arg, 1, Len(arg)) = arg
    BY <1>10, <2>2, EmptySeq DEF IsPath, Text
  <2>4. arg \in ToSet(Patterns(arg))
    BY <1>10, <2>2, <2>3, PatternsAre
  <2> QED
    BY <1>7, <2>2, <2>4
<1>11. ASSUME NEW p \in F, NEW c \in Cuts(p), c > 1, p[c - 1] # Slash
       PROVE  SubSeq(p, 1, c - 1) \in F
  <2>1. PICK i \in 1 .. n : p \in ToSet(s[i])
    BY <1>6 DEF F
  <2> DEFINE arg == args[i]
  <2>2. arg \in Text
    BY <1>1
  <2>3. s[i] = Part(arg)
    BY <1>3
  <2> HIDE DEF arg
  <2>4. Named(arg) /\ ToSet(s[i]) = ToSet(Patterns(arg))
    BY <1>8, <2>1, <2>3
  <2>5. PICK k \in 1 .. Len(arg) : p = SubSeq(arg, 1, k)
    BY <2>1, <2>2, <2>4, PatternsAre
  <2>6. Len(arg) \in Nat /\ k \in Int
    BY <2>2 DEF Text
  <2>7. Len(p) = k /\ \A x \in 1 .. k : p[x] = arg[x]
    BY <2>2, <2>5, <2>6, SubSeqProperties DEF Text
  <2>8. /\ c \in 1 .. k /\ c - 1 \in 1 .. k /\ c - 1 \in 0 .. k /\ c - 1 \in 1 .. Len(arg)
        /\ (c - 1) + 1 = c /\ p[c] = Slash
    BY <1>11, <2>6, <2>7 DEF Cuts
  <2>9. arg[c - 1] # Slash /\ arg[(c - 1) + 1] = Slash
    BY <1>11, <2>7, <2>8
  <2>10. SubSeq(p, 1, c - 1) = SubSeq(arg, 1, c - 1)
    BY <2>2, <2>5, <2>8, PrefixOfPrefix
  <2>11. SubSeq(arg, 1, c - 1) \in ToSet(Patterns(arg))
    <3> DEFINE d == c - 1
    <3>1. d \in 1 .. Len(arg) /\ arg[d] # Slash /\ arg[d + 1] = Slash
      BY <2>8, <2>9
    <3> HIDE DEF d
    <3>2. SubSeq(arg, 1, d) \in ToSet(Patterns(arg))
      BY <2>2, <3>1, PatternsAre
    <3> QED
      BY <3>2 DEF d
  <2> QED
    BY <1>7, <2>4, <2>10, <2>11
<1>12. NoFilter' = <<>>
  BY DEF NoFilter
<1> QED
  BY <1>2, <1>9, <1>10, <1>11, <1>12 DEF FilterMade, F, IsPath, Cuts


-----------------------------------------------------------------------------
(* The walk *)

(* The tree is that of the image, which does not change.                   *)
LEMMA SameTree ==
  ASSUME job' = job
  PROVE  /\ image' = image /\ CaseDistinct' = CaseDistinct
         /\ Tree' = Tree /\ Root' = Root /\ Dirs' = Dirs /\ Reached' = Reached
<1>1. image' = image
  BY DEF image
<1>2. Tree' = Tree
  BY DEF Tree, Below, Node, Sound, Readable, image
<1>3. Root' = Root /\ CaseDistinct' = CaseDistinct
  BY <1>1 DEF Root, CaseDistinct, Same, Folded
<1>4. Dirs' = Dirs /\ Reached' = Reached
  BY <1>1, <1>2, <1>3 DEF Dirs, Reached, Readable
<1> QED
  BY <1>1, <1>2, <1>3, <1>4

LEMMA NextKeeps ==
  ASSUME Walking, stack # <<>>
  PROVE  LET s == NextEntry(stack)
         IN /\ s \in Seq(Frames) /\ Len(s) = Len(stack)
            /\ \A k \in 1 .. Len(stack) :
                 /\ s[k].path = stack[k].path /\ s[k].dir = stack[k].dir
                 /\ s[k].next = IF k = Len(stack) THEN stack[k].next + 1 ELSE stack[k].next
<1> DEFINE t == [top EXCEPT !.next = @ + 1]
           s == [stack EXCEPT ![Len(stack)] = t]
<1>1. stack \in Seq(Frames) /\ Len(stack) \in 1 .. Len(stack)
  BY DEF Walking
<1>2. top = stack[Len(stack)] /\ top \in Frames
  BY <1>1 DEF top
<1>3. top.next \in Nat
  BY <1>2 DEF Frames
<1>4. t \in Frames /\ t.path = top.path /\ t.dir = top.dir /\ t.next = top.next + 1
  BY <1>2, <1>3 DEF Frames
<1>5. NextEntry(stack) = s
  BY DEF NextEntry, top
<1> HIDE DEF t
<1>6. s \in Seq(Frames) /\ Len(s) = Len(stack)
  BY <1>1, <1>4
<1>7. ASSUME NEW k \in 1 .. Len(stack)
      PROVE  s[k] = IF k = Len(stack) THEN t ELSE stack[k]
  BY <1>1
<1> HIDE DEF s
<1> QED
  BY <1>2, <1>4, <1>5, <1>6, <1>7

(* The directory at hand, and the entry of it.                             *)
EntryLeft == stack # <<>> /\ top.next <= Len(image.ents[top.dir])
AtHand == [path |-> top.path, ino |-> top.dir, type |-> "dir"]
LEMMA TopFacts ==
  ASSUME Walking, InTree, stack # <<>>
  PROVE  /\ Len(stack) \in Nat /\ Len(stack) \in DOMAIN stack
         /\ DOMAIN stack = 1 .. Len(stack)
         /\ top = stack[Len(stack)] /\ top.next \in Nat \ {0}
         /\ AtHand \in Dirs /\ top.path \in Text
         /\ Ancestors(top.path) \ {<<>>} \subseteq Entered
<1>1. stack \in Seq(Frames) /\ Len(stack) \in 1 .. Len(stack) /\ Len(stack) \in Nat
  BY DEF Walking
<1>2. top = stack[Len(stack)] /\ top \in Frames /\ Len(stack) \in DOMAIN stack
  BY <1>1 DEF top
<1> QED
  BY <1>1, <1>2 DEF Frames, InTree, AtHand

LEMMA TopEntry ==
  ASSUME Walking, AtHand \in Dirs, EntryLeft
  PROVE  LET n == Node(AtHand, current)
         IN /\ AtHand.ino \in DOMAIN image.ents /\ top.next \in DOMAIN image.ents[AtHand.ino]
            /\ current = image.ents[AtHand.ino][top.next]
            /\ IsName(current.name) /\ path_ \in Text
            /\ n.path = path_ /\ n.ino = current.ino /\ n.type = current.type
            /\ current.type \in {"dir", "file"}
            /\ current.type = "dir" => current.ino \in DOMAIN image.ents
            /\ current.type = "file" => current.ino \notin DOMAIN image.ents
            /\ job.mode = "unpack" /\ ~PassedOver(current) =>
                 Sound(current) /\ n \in Reached
            /\ PassedOver(current) => ~(Sound(current) /\ n \in Reached)
            /\ Sound(current) => n \in Tree
            /\ job.mode = "enum" => (PassedOver(current) <=> ~Sound(current))
<1>1. /\ AtHand \in Dirs /\ top.next \in Nat \ {0} /\ top.path \in Text
      /\ top.next <= Len(image.ents[top.dir]) /\ job \in Jobs
  <2>1. stack \in Seq(Frames) /\ Len(stack) \in 1 .. Len(stack)
    BY DEF Walking, EntryLeft
  <2>2. top \in Frames
    BY <2>1 DEF top
  <2> QED
    BY <2>2 DEF EntryLeft, Walking, Frames
<1>2. AtHand.ino = top.dir /\ AtHand.path = top.path /\ top.dir \in DOMAIN image.ents
  BY <1>1 DEF AtHand, Dirs, Readable
<1>3. top.next \in DOMAIN image.ents[top.dir]
  <2> DEFINE d == image.ents[top.dir]
             E == [name : Text, ino : DOMAIN image.ents, type : {"dir"}]
                  \cup [name : Text, ino : Nat, type : {"file"}]
  <2>1. d \in Seq(E)
    BY <1>1, <1>2, JobsAreText DEF image
  <2> HIDE DEF d, E
  <2>2. top.next <= Len(d)
    BY <1>1 DEF d
  <2>3. top.next \in DOMAIN d
    BY <1>1, <2>1, <2>2
  <2> QED
    BY <2>3 DEF d
<1>4. current = image.ents[AtHand.ino][top.next]
  BY <1>2 DEF current
<1>5. /\ IsName(current.name) /\ current.type \in {"dir", "file"}
      /\ current.type = "dir" => current.ino \in DOMAIN image.ents
      /\ current.type = "file" => current.ino \notin DOMAIN image.ents
  BY <1>1, <1>2, <1>3, <1>4, EntryFacts DEF IsName
<1> DEFINE n == Node(AtHand, current)
<1>6. n.path = path_ /\ n.ino = current.ino /\ n.type = current.type
  BY <1>2 DEF Node, path_
<1>7. path_ \in Text
  BY <1>1, <1>5, JoinFacts DEF path_
<1>8. Sound(current) => n \in Tree
  BY <1>1, <1>2, <1>3, <1>4, DirFacts
<1>9. Sound(current) <=> ~Special(current.name) /\ current.ino \notin image.bad
  BY DEF Sound
<1>10. PassedOver(current) <=>
         \/ ~Sound(current)
         \/ job.mode = "unpack" /\ current.type = "dir" /\ current.ino \in image.torn
  BY <1>9 DEF PassedOver
<1> HIDE DEF n
<1>11. job.mode = "unpack" /\ ~PassedOver(current) => Sound(current) /\ n \in Reached
  BY <1>5, <1>6, <1>8, <1>9, <1>10 DEF Reached, Readable
<1>12. PassedOver(current) => ~(Sound(current) /\ n \in Reached)
  BY <1>6, <1>10 DEF Reached, Readable
<1>13. job.mode = "enum" => (PassedOver(current) <=> ~Sound(current))
  BY <1>10
<1> QED
  BY <1>2, <1>3, <1>4, <1>5, <1>6, <1>7, <1>8, <1>11, <1>12, <1>13 DEF n

LEMMA EntryAtHand ==
  ASSUME Walking, InTree, EntryLeft
  PROVE  LET n == Node(AtHand, current)
         IN /\ AtHand.ino \in DOMAIN image.ents /\ top.next \in DOMAIN image.ents[AtHand.ino]
            /\ current = image.ents[AtHand.ino][top.next]
            /\ IsName(current.name) /\ path_ \in Text
            /\ n.path = path_ /\ n.ino = current.ino /\ n.type = current.type
            /\ current.type \in {"dir", "file"}
            /\ current.type = "dir" => current.ino \in DOMAIN image.ents
            /\ current.type = "file" => current.ino \notin DOMAIN image.ents
            /\ job.mode = "unpack" /\ ~PassedOver(current) =>
                 Sound(current) /\ n \in Reached
            /\ PassedOver(current) => ~(Sound(current) /\ n \in Reached)
<1>1. AtHand \in Dirs
  BY TopFacts DEF EntryLeft
<1> QED
  BY <1>1, TopEntry


(* A step past the entry at hand, which may ask the host for it: nothing   *)
(* is missed if the entry was asked for or is not wanted, and is ahead if  *)
(* it is a directory.                                                      *)
LEMMA StepMissesNothing ==
  ASSUME Walking, CaseDistinct, InTree, NothingMissed, EntryLeft,
         UNCHANGED <<job, filter>>,
         NEW X, X \subseteq {path_}, Entered' = Entered \cup X,
         \A k \in DOMAIN stack :
           /\ k \in DOMAIN stack' /\ stack'[k].path = stack[k].path
           /\ stack'[k].next = IF k = Len(stack) THEN stack[k].next + 1 ELSE stack[k].next,
         \/ path_ \in Entered'
         \/ ~(Sound(current) /\ Node(AtHand, current) \in Reached /\ Wanted(path_)),
         X # {} => Sound(current) /\ Node(AtHand, current) \in Reached,
         X # {} /\ current.type = "dir" =>
           \E k \in DOMAIN stack' : stack'[k].path = path_ /\ stack'[k].next = 1
  PROVE  NothingMissed'
<1>1. image' = image /\ Root' = Root /\ Dirs' = Dirs /\ Reached' = Reached
  BY SameTree
<1>2. job \in Jobs /\ Dirs \subseteq Tree \cup {Root} /\ Reached \subseteq Tree
  BY DEF Walking, Dirs, Reached
<1>3. /\ AtHand \in Dirs /\ AtHand.path = top.path
      /\ Len(stack) \in DOMAIN stack /\ top = stack[Len(stack)] /\ top.next \in Nat
  BY TopFacts DEF EntryLeft, AtHand
<1>4. /\ current = image.ents[AtHand.ino][top.next]
      /\ Node(AtHand, current).path = path_ /\ Node(AtHand, current).type = current.type
  BY EntryAtHand
<1>5. ASSUME NEW d \in Dirs, d = Root \/ d.path \in Entered',
             NEW i \in DOMAIN image.ents[d.ino], Sound(image.ents[d.ino][i]),
             Node(d, image.ents[d.ino][i]) \in Reached,
             Wanted(Node(d, image.ents[d.ino][i]).path)
      PROVE  \/ Node(d, image.ents[d.ino][i]).path \in Entered'
             \/ \E k \in DOMAIN stack' : stack'[k].path = d.path /\ stack'[k].next <= i
  <2> DEFINE e == image.ents[d.ino][i]
             n == Node(d, e)
  <2>0. i \in Nat /\ i >= 1
    <3>1. d.ino \in DOMAIN image.ents
      BY DEF Dirs, Readable
    <3>2. i \in 1 .. Len(image.ents[d.ino])
      BY <1>2, <3>1, EntryFacts
    <3> QED
      BY <3>2
  <2>1. CASE d = Root \/ d.path \in Entered
    <3>1. n.path \in Entered \/ Ahead(d, i)
      BY <1>5, <2>1 DEF NothingMissed
    <3>2. ASSUME NEW k \in DOMAIN stack, stack[k].path = d.path, stack[k].next <= i
          PROVE  n.path \in Entered' \/ \E x \in DOMAIN stack' :
                   stack'[x].path = d.path /\ stack'[x].next <= i
      <4>1. CASE k = Len(stack) /\ i = top.next
        <5>1. d.path = AtHand.path
          BY <1>3, <3>2, <4>1
        <5>2. d = AtHand
          BY <1>2, <1>3, <5>1, OnePath
        <5>3. e = current
          BY <1>4, <4>1, <5>2
        <5>4. n = Node(AtHand, current)
          BY <5>2, <5>3
        <5> QED
          BY <1>4, <1>5, <5>3, <5>4
      <4>2. CASE k # Len(stack)
        BY <3>2, <4>2
      <4>3. CASE k = Len(stack) /\ i # top.next
        <5>1. stack[k].next + 1 <= i
          BY <1>3, <2>0, <3>2, <4>3
        <5> QED
          BY <3>2, <4>3, <5>1
      <4> QED
        BY <4>1, <4>2, <4>3
    <3> QED
      BY <3>1, <3>2 DEF Ahead
  <2>2. CASE d # Root /\ d.path \notin Entered
    <3>1. d.path = path_ /\ X # {}
      BY <1>5, <2>2
    <3>2. d = Node(AtHand, current)
      BY <1>2, <1>4, <3>1, OnePath
    <3>3. current.type = "dir"
      BY <1>4, <3>2 DEF Dirs
    <3> QED
      BY <2>0, <3>1, <3>3
  <2> QED
    BY <2>1, <2>2
<1>6. \A e : Sound(e)' = Sound(e)
  BY <1>1 DEF Sound
<1>7. \A d, e : Node(d, e)' = Node(d, e)
  BY DEF Node
<1>8. \A p : Wanted(p)' = Wanted(p)
  BY DEF Wanted, IsPath
<1> QED
  BY <1>1, <1>5, <1>6, <1>7, <1>8 DEF NothingMissed, Ahead

(* What a step adds to the host is the entry at hand, with what it should  *)
(* hold, and directories that were refused before.                         *)
LEMMA StepRight ==
  ASSUME Walking, CaseDistinct, InTree, HostRight, RefusedDirs, EntryLeft,
         job.mode = "unpack", ~PassedOver(current), job' = job,
         refused' \subseteq refused \cup {path_},
         current.type = "dir" \/ refused' = refused,
         DOMAIN host' \subseteq Entered \cup {path_},
         \A p \in DOMAIN host' : p # path_ =>
           host'[p] = IF p \in DOMAIN host THEN host[p] ELSE Directory,
         path_ \in DOMAIN host' => host'[path_] = Unpacked(Node(AtHand, current)),
         \A p \in DOMAIN host' : Ancestors(p) \ {<<>>} \subseteq DOMAIN host'
  PROVE  HostRight' /\ RefusedDirs'
<1> DEFINE n == Node(AtHand, current)
<1>1. Reached' = Reached /\ Reached \subseteq Tree /\ job \in Jobs
  BY SameTree DEF Reached, Walking
<1>2. n \in Reached /\ n.path = path_ /\ n.type = current.type
  BY EntryAtHand
<1>3. \A x \in Reached : x.path = path_ => x = n
  BY <1>1, <1>2, OnePath
<1>4. /\ \A x : Unpacked(x)' = Unpacked(x)
      /\ \A p : Ancestors(p)' = Ancestors(p)
  BY DEF Unpacked
<1>5. host'[path_] = Unpacked(n) \/ path_ \notin DOMAIN host'
  OBVIOUS
<1> HIDE DEF n
<1>6. \A p \in DOMAIN host' : \E x \in Reached : x.path = p
  BY <1>2 DEF HostRight, RefusedDirs, Entered
<1>7. ASSUME NEW x \in Reached, x.path \in DOMAIN host' PROVE host'[x.path] = Unpacked(x)
  <2>1. CASE x.path = path_
    BY <1>3, <1>5, <1>7, <2>1
  <2>2. CASE x.path # path_ /\ x.path \in DOMAIN host
    BY <1>7, <2>2 DEF HostRight
  <2>3. CASE x.path # path_ /\ x.path \notin DOMAIN host
    <3>1. host'[x.path] = Directory /\ x.path \in refused
      BY <1>7, <2>3 DEF Entered
    <3>2. PICK y \in Reached : y.path = x.path /\ y.type = "dir"
      BY <3>1 DEF RefusedDirs
    <3>3. y = x
      BY <1>1, <3>2, OnePath
    <3> QED
      BY <3>1, <3>2, <3>3 DEF Unpacked
  <2> QED
    BY <2>1, <2>2, <2>3
<1>8. HostRight'
  BY <1>1, <1>4, <1>6, <1>7 DEF HostRight
<1>9. ASSUME NEW p \in refused' PROVE \E x \in Reached : x.path = p /\ x.type = "dir"
  BY <1>2, <1>9 DEF RefusedDirs
<1> QED
  BY <1>1, <1>8, <1>9 DEF RefusedDirs

(* The directories being read stay where they are.                         *)
LEMMA StepInTree ==
  ASSUME InTree, job' = job, Entered \subseteq Entered',
         \A k \in DOMAIN stack' :
           \/ /\ [path |-> stack'[k].path, ino |-> stack'[k].dir, type |-> "dir"] \in Dirs
              /\ Ancestors(stack'[k].path) \ {<<>>} \subseteq Entered'
           \/ /\ k \in DOMAIN stack
              /\ stack'[k].path = stack[k].path /\ stack'[k].dir = stack[k].dir
  PROVE  InTree'
<1>1. Dirs' = Dirs
  BY SameTree
<1>2. \A p : Ancestors(p)' = Ancestors(p)
  OBVIOUS
<1> QED
  BY <1>1, <1>2 DEF InTree


Walked == InTree /\ HostRight /\ RefusedDirs /\ NothingMissed

LEMMA HostKept ==
  ASSUME HostRight, RefusedDirs, UNCHANGED <<job, host, refused>>
  PROVE  HostRight' /\ RefusedDirs'
<1>1. Reached' = Reached
  BY SameTree
<1>2. /\ \A n : Unpacked(n)' = Unpacked(n)
      /\ \A p : Ancestors(p)' = Ancestors(p)
  BY DEF Unpacked
<1>3. HostRight'
  BY <1>1, <1>2 DEF HostRight
<1> QED
  BY <1>1, <1>3 DEF RefusedDirs

LEMMA SameWalk ==
  ASSUME Walked, UNCHANGED <<job, filter, stack, host, refused>>
  PROVE  Walked'
<1>1. image' = image /\ Root' = Root /\ Dirs' = Dirs /\ Reached' = Reached
  BY SameTree
<1>2. InTree'
  BY <1>1 DEF Walked, InTree, Entered, Ancestors, Cuts
<1>3. HostRight' /\ RefusedDirs'
  BY <1>1, HostKept DEF Walked
<1>4. /\ \A e : Sound(e)' = Sound(e)
      /\ \A d, e : Node(d, e)' = Node(d, e)
      /\ \A p : Wanted(p)' = Wanted(p)
      /\ \A d, i : Ahead(d, i)' = Ahead(d, i)
  BY <1>1 DEF Sound, Node, Wanted, IsPath, Ahead
<1>5. NothingMissed'
  BY <1>1, <1>4 DEF Walked, NothingMissed, Entered
<1> QED
  BY <1>2, <1>3, <1>5 DEF Walked

(* To the next entry, with nothing made of this one                        *)
LEMMA NextWalked ==
  ASSUME Walking, CaseDistinct, Walked, EntryLeft, UNCHANGED <<job, filter, host, refused>>,
         stack' = NextEntry(stack),
         ~(Sound(current) /\ Node(AtHand, current) \in Reached /\ Wanted(path_))
  PROVE  Walked'
<1>1. stack # <<>> /\ Walking
  BY DEF EntryLeft
<1>2. /\ stack' \in Seq(Frames) /\ Len(stack') = Len(stack)
      /\ \A k \in 1 .. Len(stack) :
           /\ stack'[k].path = stack[k].path /\ stack'[k].dir = stack[k].dir
           /\ stack'[k].next = IF k = Len(stack) THEN stack[k].next + 1 ELSE stack[k].next
  BY <1>1, NextKeeps
<1>3. DOMAIN stack' = 1 .. Len(stack) /\ DOMAIN stack = 1 .. Len(stack)
  BY <1>2 DEF Walking
<1>4. InTree'
  BY <1>2, <1>3, StepInTree DEF Walked, Entered
<1>5. HostRight' /\ RefusedDirs'
  BY HostKept DEF Walked
<1>6. NothingMissed'
  <2> DEFINE X == {}
  <2>1. X \subseteq {path_} /\ Entered' = Entered \cup X /\ ~(X # {})
    BY DEF Entered
  <2>2. \A k \in DOMAIN stack :
          /\ k \in DOMAIN stack' /\ stack'[k].path = stack[k].path
          /\ stack'[k].next = IF k = Len(stack) THEN stack[k].next + 1 ELSE stack[k].next
    BY <1>2, <1>3
  <2> HIDE DEF X
  <2> QED
    BY <2>1, <2>2, StepMissesNothing DEF Walked
<1> QED
  BY <1>4, <1>5, <1>6 DEF Walked

LEMMA LeaveWalked ==
  ASSUME Walking, CaseDistinct, Walked, Leave
  PROVE  Walked'
<1>1. /\ stack # <<>> /\ stack' = Front(stack) /\ UNCHANGED <<job, filter, host, refused>>
      /\ top.next > Len(image.ents[top.dir]) /\ job \in Jobs
  BY DEF Leave, walkVars, Walking
<1>2. stack \in Seq(Frames) /\ Len(stack) \in Nat \ {0}
  BY <1>1 DEF Walking
<1>3. Len(stack) - 1 \in Int /\ 1 \in Int /\ Len(stack) - 1 <= Len(stack)
  BY <1>2
<1>4. /\ stack' \in Seq(Frames) /\ Len(stack') = Len(stack) - 1
      /\ \A k \in 1 .. Len(stack) - 1 : stack'[k] = stack[k]
  <2> DEFINE m == Len(stack) - 1
  <2>1. \A i \in 1 .. m : stack[i] \in Frames
    BY <1>2
  <2>2. m \in Int /\ stack' = SubSeq(stack, 1, m) /\ m >= 0
    BY <1>1, <1>2 DEF Front
  <2> HIDE DEF m
  <2>3. /\ stack' \in Seq(Frames) /\ Len(stack') = m
        /\ \A k \in 1 .. m : stack'[k] = stack[k]
    BY <2>1, <2>2, SubSeqProperties
  <2> QED
    BY <2>3 DEF m
<1>5. DOMAIN stack' = 1 .. Len(stack) - 1 /\ DOMAIN stack = 1 .. Len(stack)
  BY <1>2, <1>4
<1>6. image' = image /\ Root' = Root /\ Dirs' = Dirs /\ Reached' = Reached
  BY <1>1, SameTree
<1>7. InTree'
  <2>1. \A k \in DOMAIN stack' : k \in DOMAIN stack /\ stack'[k] = stack[k]
    BY <1>2, <1>4, <1>5
  <2> QED
    BY <1>1, <2>1, StepInTree DEF Walked, Entered
<1>8. HostRight' /\ RefusedDirs'
  BY <1>1, HostKept DEF Walked
<1>9. NothingMissed'
  <2>1. ASSUME NEW d \in Dirs, NEW i \in DOMAIN image.ents[d.ino], Ahead(d, i)
        PROVE  Ahead(d, i)'
    <3>1. PICK k \in DOMAIN stack : stack[k].path = d.path /\ stack[k].next <= i
      BY <2>1 DEF Ahead
    <3>2. CASE k = Len(stack)
      <4>1. /\ AtHand \in Dirs /\ AtHand.path = d.path /\ AtHand.ino = top.dir
            /\ top.next \in Nat /\ top.next <= i
        BY <1>1, <3>1, <3>2, TopFacts DEF AtHand, Walked
      <4>2. d = AtHand
        BY <1>1, <4>1, OnePath DEF Dirs
      <4>3. top.dir \in DOMAIN image.ents
        BY <4>1, <4>2 DEF Dirs, Readable
      <4>4. i \in 1 .. Len(image.ents[top.dir])
        BY <1>1, <4>1, <4>2, <4>3, EntryFacts
      <4> DEFINE e == image.ents[top.dir]
      <4>5. Len(e) \in Nat
        <5>1. e \in Seq([name : Text, ino : DOMAIN image.ents, type : {"dir"}]
                        \cup [name : Text, ino : Nat, type : {"file"}])
          BY <1>1, <4>3, JobsAreText DEF image
        <5> HIDE DEF e
        <5> QED
          BY <5>1
      <4> HIDE DEF e
      <4>6. i \in 1 .. Len(e) /\ top.next > Len(e)
        BY <1>1, <4>4 DEF e
      <4> QED
        BY <4>1, <4>5, <4>6
    <3>3. CASE k # Len(stack)
      <4>1. k \in 1 .. Len(stack) - 1
        BY <1>2, <1>5, <3>3
      <4> QED
        BY <1>4, <1>5, <3>1, <4>1 DEF Ahead
    <3> QED
      BY <3>2, <3>3
  <2>2. /\ \A e : Sound(e)' = Sound(e)
        /\ \A d, e : Node(d, e)' = Node(d, e)
        /\ \A p : Wanted(p)' = Wanted(p)
    BY <1>1, <1>6 DEF Sound, Node, Wanted, IsPath
  <2> QED
    BY <1>1, <1>6, <2>1, <2>2 DEF Walked, NothingMissed, Entered
<1> QED
  BY <1>7, <1>8, <1>9 DEF Walked


(* What lies above a directory above a path lies above the path.           *)
LEMMA AncestorsAbove ==
  ASSUME NEW p \in Text, NEW q \in Ancestors(p)
  PROVE  Ancestors(q) \subseteq Ancestors(p)
<1>1. CASE q = p
  BY <1>1
<1>2. ASSUME NEW i \in Cuts(p), q = SubSeq(p, 1, i - 1) PROVE Ancestors(q) \subseteq Ancestors(p)
  <2>1. Len(p) \in Nat /\ i \in 1 .. Len(p)
    BY DEF Cuts, Text
  <2>2. Len(q) = i - 1 /\ \A x \in 1 .. i - 1 : q[x] = p[x]
    <3>1. 1 \in Int /\ i - 1 \in Int /\ i - 1 <= Len(p)
      BY <2>1
    <3> QED
      BY <1>2, <2>1, <3>1, SubSeqProperties DEF Text
  <2>3. ASSUME NEW j \in Cuts(q) PROVE SubSeq(q, 1, j - 1) \in Ancestors(p)
    <3>1. j \in 1 .. i - 1 /\ q[j] = Slash
      BY <2>2 DEF Cuts
    <3>2. j \in Cuts(p)
      BY <2>1, <2>2, <3>1 DEF Cuts
    <3>3. i - 1 \in 1 .. Len(p) /\ j - 1 \in 0 .. i - 1
      BY <2>1, <3>1
    <3>4. SubSeq(q, 1, j - 1) = SubSeq(p, 1, j - 1)
      BY <1>2, <3>3, PrefixOfPrefix
    <3> QED
      BY <3>2, <3>4 DEF Ancestors
  <2> QED
    BY <2>3 DEF Ancestors
<1> QED
  BY <1>1, <1>2 DEF Ancestors

LEMMA MadeFacts ==
  ASSUME NEW dir
  PROVE  LET new == Ancestors(dir) \ {<<>>}
         IN /\ DOMAIN Made(dir) = DOMAIN host \cup new
            /\ \A p \in DOMAIN host : Made(dir)[p] = host[p]
            /\ \A p \in new \ DOMAIN host : Made(dir)[p] = Directory
BY DEF Made

(* However far the host lets the walk make the directories of a path, what *)
(* is new was asked for and lies in what is there.                         *)
LEMMA MadeHere ==
  ASSUME Walking, InTree, HostRight, EntryLeft,
         NEW last \in Ancestors(path_) \cup {<<>>}
  PROVE  /\ DOMAIN host \subseteq DOMAIN Made(last)
         /\ DOMAIN Made(last) \subseteq Entered \cup {path_}
         /\ \A p \in DOMAIN Made(last) :
              /\ Made(last)[p] = IF p \in DOMAIN host THEN host[p] ELSE Directory
              /\ Ancestors(p) \ {<<>>} \subseteq DOMAIN Made(last)
<1>1. /\ top.path \in Text /\ Ancestors(top.path) \ {<<>>} \subseteq Entered
  BY TopFacts DEF EntryLeft
<1>2. IsName(current.name) /\ path_ \in Text
  BY EntryAtHand
<1>3. Ancestors(path_) \ {<<>>} = {path_} \cup (Ancestors(top.path) \ {<<>>})
  BY <1>1, <1>2, JoinAncestors DEF path_
<1>4. last \in Text /\ Ancestors(last) \subseteq Ancestors(path_) \cup {<<>>}
  <2>1. CASE last = <<>>
    <3>1. Cuts(<<>>) = {}
      BY DEF Cuts
    <3>2. Ancestors(<<>>) = {<<>>}
      BY <3>1 DEF Ancestors
    <3> QED
      BY <2>1, <3>2, EmptySeq DEF Text
  <2>2. CASE last \in Ancestors(path_)
    <3>1. last \in Text
      <4>1. ASSUME NEW i \in Cuts(path_) PROVE SubSeq(path_, 1, i - 1) \in Text
        <5>1. i \in 1 .. Len(path_) /\ Len(path_) \in Nat
          BY <1>2 DEF Cuts, Text
        <5>2. 1 \in Int /\ i - 1 \in Int /\ i - 1 <= Len(path_)
          BY <5>1
        <5> QED
          BY <1>2, <5>1, <5>2, SubSeqProperties DEF Text
      <4> QED
        BY <1>2, <2>2, <4>1 DEF Ancestors
    <3> QED
      BY <1>2, <2>2, <3>1, AncestorsAbove
  <2> QED
    BY <2>1, <2>2
<1> DEFINE new == Ancestors(last) \ {<<>>}
           m == Made(last)
<1>5. /\ DOMAIN m = DOMAIN host \cup new
      /\ \A p \in DOMAIN host : m[p] = host[p]
      /\ \A p \in new \ DOMAIN host : m[p] = Directory
  BY MadeFacts
<1> HIDE DEF m
<1>6. new \subseteq Entered \cup {path_}
  BY <1>1, <1>3, <1>4
<1>7. \A p \in new : Ancestors(p) \ {<<>>} \subseteq new
  BY <1>4, AncestorsAbove
<1>8. \A p \in DOMAIN host : Ancestors(p) \ {<<>>} \subseteq DOMAIN host
  BY DEF HostRight
<1> HIDE DEF new
<1>9. DOMAIN host \subseteq DOMAIN m /\ DOMAIN m \subseteq Entered \cup {path_}
  BY <1>5, <1>6 DEF Entered
<1>10. \A p \in DOMAIN m :
         /\ m[p] = IF p \in DOMAIN host THEN host[p] ELSE Directory
         /\ Ancestors(p) \ {<<>>} \subseteq DOMAIN m
  BY <1>5, <1>7, <1>8
<1> QED
  BY <1>9, <1>10 DEF m

LEMMA EnterWalked ==
  ASSUME Walking, CaseDistinct, Walked, AtCursor, stack # <<>>, job.mode = "unpack",
         EnterDir
  PROVE  Walked'
<1>1. /\ EntryLeft /\ ~PassedOver(current) /\ current.type = "dir"
      /\ entry.path = path_ /\ entry.ino = current.ino /\ UNCHANGED <<job, filter>>
      /\ \E last \in Ancestors(path_) \cup {<<>>} :
           host' = Made(last) /\ refused' = refused \cup ({path_} \ DOMAIN Made(last))
      /\ stack' = Append(NextEntry(stack), Frame(current.ino, path_))
  BY DEF AtCursor, EntryLeft, EnterDir, MakeDirectories, Settled
<1> DEFINE n == Node(AtHand, current)
           s == NextEntry(stack)
           f == Frame(current.ino, path_)
<1>2. /\ n.path = path_ /\ n.ino = current.ino /\ n.type = "dir" /\ path_ \in Text
      /\ current.ino \in DOMAIN image.ents /\ Sound(current) /\ n \in Reached
  BY <1>1, EntryAtHand DEF Walked
<1>3. /\ DOMAIN host \subseteq DOMAIN host' /\ DOMAIN host' \subseteq Entered \cup {path_}
      /\ \A p \in DOMAIN host' :
           /\ host'[p] = IF p \in DOMAIN host THEN host[p] ELSE Directory
           /\ Ancestors(p) \ {<<>>} \subseteq DOMAIN host'
      /\ refused' = refused \cup ({path_} \ DOMAIN host')
  <2>1. PICK last \in Ancestors(path_) \cup {<<>>} :
          host' = Made(last) /\ refused' = refused \cup ({path_} \ DOMAIN Made(last))
    BY <1>1
  <2> QED
    BY <1>1, <2>1, MadeHere DEF Walked
<1>4. /\ s \in Seq(Frames) /\ Len(s) = Len(stack)
      /\ \A k \in 1 .. Len(stack) :
           /\ s[k].path = stack[k].path /\ s[k].dir = stack[k].dir
           /\ s[k].next = IF k = Len(stack) THEN stack[k].next + 1 ELSE stack[k].next
  BY NextKeeps
<1>5. f \in Frames /\ f.path = path_ /\ f.dir = current.ino /\ f.next = 1
  BY <1>2 DEF Frame, Frames
<1> HIDE DEF s, f
<1>6. DOMAIN stack = 1 .. Len(stack) /\ Len(stack) \in Nat
  BY DEF Walking
<1>7. /\ DOMAIN stack' = 1 .. Len(stack) + 1 /\ stack'[Len(stack) + 1] = f
      /\ \A k \in 1 .. Len(stack) : stack'[k] = s[k]
  <2>1. stack' = Append(s, f)
    BY <1>1 DEF s, f
  <2> QED
    BY <1>4, <1>5, <1>6, <2>1
<1>8. HostRight' /\ RefusedDirs'
  <2>1. path_ \in DOMAIN host' => host'[path_] = Unpacked(n)
    <3>1. CASE path_ \in DOMAIN host
      BY <1>2, <1>3, <3>1 DEF Walked, HostRight
    <3>2. CASE path_ \notin DOMAIN host
      BY <1>2, <1>3, <3>2 DEF Unpacked
    <3> QED
      BY <3>1, <3>2
  <2> HIDE DEF n
  <2>2. /\ refused' \subseteq refused \cup {path_} /\ current.type = "dir"
        /\ \A p \in DOMAIN host' : p # path_ =>
             host'[p] = IF p \in DOMAIN host THEN host[p] ELSE Directory
        /\ \A p \in DOMAIN host' : Ancestors(p) \ {<<>>} \subseteq DOMAIN host'
    BY <1>1, <1>3
  <2> USE DEF n
  <2> QED
    BY <1>1, <1>3, <2>1, <2>2, StepRight DEF Walked
<1>9. Entered' = Entered \cup {path_}
  BY <1>3 DEF Entered
<1>10. InTree'
  <2>1. [path |-> f.path, ino |-> f.dir, type |-> "dir"] \in Dirs
    <3>1. n \in Nodes /\ n \in Tree /\ Readable(n.ino)
      BY <1>2, TreePath DEF Reached, Walking
    <3>2. [path |-> f.path, ino |-> f.dir, type |-> "dir"] = n
      <4> HIDE DEF n
      <4> QED
        BY <1>2, <1>5, <3>1 DEF Nodes
    <3> QED
      BY <1>2, <3>1, <3>2 DEF Dirs
  <2>2. Ancestors(path_) \ {<<>>} \subseteq Entered'
    <3>1. Ancestors(top.path) \ {<<>>} \subseteq Entered /\ top.path \in Text
      BY TopFacts DEF Walked
    <3>2. IsName(current.name)
      BY <1>1, EntryAtHand DEF Walked
    <3>3. Ancestors(path_) \ {<<>>} = {path_} \cup (Ancestors(top.path) \ {<<>>})
      BY <3>1, <3>2, JoinAncestors DEF path_
    <3> QED
      BY <1>9, <3>1, <3>3
  <2>3. \A k \in DOMAIN stack' : k \in 1 .. Len(stack) \/ k = Len(stack) + 1
    BY <1>6, <1>7
  <2> QED
    BY <1>1, <1>4, <1>5, <1>6, <1>7, <1>9, <2>1, <2>2, <2>3, StepInTree DEF Walked
<1>11. NothingMissed'
  <2>1. /\ \A k \in DOMAIN stack :
             /\ k \in DOMAIN stack' /\ stack'[k].path = stack[k].path
             /\ stack'[k].next = IF k = Len(stack) THEN stack[k].next + 1 ELSE stack[k].next
        /\ \E k \in DOMAIN stack' : stack'[k].path = path_ /\ stack'[k].next = 1
    <3>1. Len(stack) + 1 \in DOMAIN stack' /\ \A k \in DOMAIN stack : k \in DOMAIN stack'
      BY <1>6, <1>7
    <3> QED
      BY <1>4, <1>5, <1>6, <1>7, <3>1
  <2> DEFINE X == {path_}
  <2>2. X \subseteq {path_} /\ Entered' = Entered \cup X /\ path_ \in Entered'
    BY <1>9
  <2> HIDE DEF X
  <2> QED
    BY <1>1, <1>2, <2>1, <2>2, StepMissesNothing DEF Walked
<1> QED
  BY <1>8, <1>10, <1>11 DEF Walked

LEMMA CopyWalked ==
  ASSUME Walking, CaseDistinct, Walked, AtCursor, stack # <<>>, job.mode = "unpack",
         CopyFile, pc' = "walk"
  PROVE  Walked'
<1>1. /\ EntryLeft /\ ~PassedOver(current) /\ current.type = "file"
      /\ entry.path = path_ /\ entry.ino = current.ino
      /\ UNCHANGED <<job, filter, refused>>
      /\ host' = Copied(current.ino)
      /\ stack' = NextEntry(stack)
  BY DEF AtCursor, EntryLeft, CopyFile, Settled
<1> DEFINE n == Node(AtHand, current)
           m == Made(Parent(path_))
<1>2. n.path = path_ /\ n.ino = current.ino /\ n.type = "file" /\ Sound(current) /\ n \in Reached
  BY <1>1, EntryAtHand DEF Walked
<1>3. /\ DOMAIN host \subseteq DOMAIN m /\ DOMAIN m \subseteq Entered \cup {path_}
      /\ \A p \in DOMAIN m :
           /\ m[p] = IF p \in DOMAIN host THEN host[p] ELSE Directory
           /\ Ancestors(p) \ {<<>>} \subseteq DOMAIN m
      /\ Ancestors(path_) \ {<<>>} \subseteq {path_} \cup DOMAIN m
  <2>1. top.path \in Text
    BY <1>1, TopFacts DEF Walked, EntryLeft
  <2>2. IsName(current.name)
    BY <1>1, EntryAtHand DEF Walked
  <2>3. Ancestors(path_) \ {<<>>} = {path_} \cup (Ancestors(top.path) \ {<<>>})
    BY <2>1, <2>2, JoinAncestors DEF path_
  <2>4. Parent(path_) = top.path
    BY <2>1, <2>2, JoinFacts DEF path_
  <2>5. top.path \in Ancestors(path_) \cup {<<>>}
    BY <2>3 DEF Ancestors
  <2>6. Ancestors(top.path) \ {<<>>} \subseteq DOMAIN m
    BY <2>4, MadeFacts
  <2> HIDE DEF m
  <2> QED
    BY <1>1, <2>3, <2>4, <2>5, <2>6, MadeHere DEF Walked, m
<1> HIDE DEF m
<1>4. host' = [p \in {path_} \cup DOMAIN m |-> IF p = path_ THEN current.ino ELSE m[p]]
  BY <1>1 DEF Copied, m
<1>5. /\ DOMAIN host' = DOMAIN m \cup {path_} /\ host'[path_] = current.ino
      /\ \A p \in DOMAIN host' : p # path_ =>
           host'[p] = IF p \in DOMAIN host THEN host[p] ELSE Directory
      /\ \A p \in DOMAIN host' : Ancestors(p) \ {<<>>} \subseteq DOMAIN host'
  BY <1>3, <1>4
<1>6. /\ stack' \in Seq(Frames) /\ Len(stack') = Len(stack)
      /\ \A k \in 1 .. Len(stack) :
           /\ stack'[k].path = stack[k].path /\ stack'[k].dir = stack[k].dir
           /\ stack'[k].next = IF k = Len(stack) THEN stack[k].next + 1 ELSE stack[k].next
  BY <1>1, NextKeeps
<1>7. DOMAIN stack' = 1 .. Len(stack) /\ DOMAIN stack = 1 .. Len(stack)
  BY <1>6 DEF Walking
<1>8. HostRight' /\ RefusedDirs'
  <2>1. host'[path_] = Unpacked(n)
    BY <1>2, <1>5 DEF Unpacked
  <2>2. DOMAIN host' \subseteq Entered \cup {path_} /\ refused' = refused
    BY <1>1, <1>3, <1>5
  <2> QED
    BY <1>1, <1>5, <2>1, <2>2, StepRight DEF Walked
<1>9. Entered' = Entered \cup {path_}
  BY <1>1, <1>3, <1>5 DEF Entered
<1>10. InTree'
  BY <1>1, <1>6, <1>7, <1>9, StepInTree DEF Walked
<1>11. NothingMissed'
  <2>1. \A k \in DOMAIN stack :
          /\ k \in DOMAIN stack' /\ stack'[k].path = stack[k].path
          /\ stack'[k].next = IF k = Len(stack) THEN stack[k].next + 1 ELSE stack[k].next
    BY <1>6, <1>7
  <2> DEFINE X == {path_}
  <2>2. X \subseteq {path_} /\ Entered' = Entered \cup X /\ path_ \in Entered'
    BY <1>9
  <2>3. ~(current.type = "dir")
    BY <1>1
  <2> HIDE DEF X
  <2> QED
    BY <1>1, <1>2, <2>1, <2>2, <2>3, StepMissesNothing DEF Walked
<1> QED
  BY <1>8, <1>10, <1>11 DEF Walked


LEMMA BeginWalked ==
  ASSUME Walking, host = <<>>, refused = {}, Begin, pc' = "walk"
  PROVE  Walked'
<1>1. /\ Readable(image.root) /\ UNCHANGED <<job, filter, host, refused>>
      /\ stack' = <<Frame(image.root, <<>>)>>
  BY DEF Begin, walkVars
<1>2. image' = image /\ Root' = Root /\ Dirs' = Dirs /\ Reached' = Reached
  BY <1>1, SameTree
<1>3. /\ DOMAIN stack' = {1} /\ stack'[1].path = <<>> /\ stack'[1].dir = image.root
      /\ stack'[1].next = 1
  <2>1. stack' = <<[dir |-> image.root, next |-> 1, path |-> <<>>]>>
    BY <1>1 DEF Frame
  <2> QED
    BY <2>1
<1>4. DOMAIN host = {} /\ Entered = {} /\ Entered' = {}
  BY <1>1 DEF Entered
<1>5. InTree'
  <2>1. Root \in Dirs /\ Root = [path |-> <<>>, ino |-> image.root, type |-> "dir"]
    BY <1>1 DEF Root, Dirs
  <2>2. Ancestors(<<>>) \ {<<>>} = {}
    <3>1. Cuts(<<>>) = {}
      BY DEF Cuts
    <3> QED
      BY <3>1 DEF Ancestors
  <2> QED
    BY <1>1, <1>2, <1>3, <2>1, <2>2 DEF InTree
<1>6. HostRight' /\ RefusedDirs'
  BY <1>1, <1>2, <1>4 DEF HostRight, RefusedDirs
<1>7. NothingMissed'
  <2>1. ASSUME NEW d \in Dirs, NEW i \in DOMAIN image.ents[d.ino], d = Root
        PROVE  Ahead(d, i)'
    <3>1. i \in Nat /\ i >= 1
      <4>1. d.ino \in DOMAIN image.ents
        BY DEF Dirs, Readable
      <4>2. i \in 1 .. Len(image.ents[d.ino])
        BY <4>1, EntryFacts DEF Walking
      <4> QED
        BY <4>2
    <3> QED
      BY <1>3, <2>1, <3>1 DEF Ahead, Root
  <2> QED
    BY <1>1, <1>2, <1>4, <2>1 DEF NothingMissed
<1> QED
  BY <1>5, <1>6, <1>7 DEF Walked

-----------------------------------------------------------------------------
(* The question asked of an entry: what is named is compared with itself   *)

LEMMA ToCompareAll ==
  ASSUME NEW path \in Text, NEW type, filter \in Seq(Text), NEW p \in ToSet(filter)
  PROVE  <<path, p>> \in ToSet(ToCompare(path, type))
<1> DEFINE names == IF type = "file" /\ Cuts(path) # {}
                    THEN <<path, BaseName(path)>> ELSE <<path>>
           against(q) == [j \in DOMAIN names |-> <<names[j], q>>]
           s == [i \in DOMAIN filter |-> against(filter[i])]
<1>1. names \in Seq(Text) /\ 1 \in DOMAIN names /\ names[1] = path
  BY BaseNameText
<1> HIDE DEF names
<1>2. \A q \in Text : against(q) \in Seq(Text \X Text) /\ <<path, q>> \in ToSet(against(q))
  <2> SUFFICES ASSUME NEW q \in Text
               PROVE  against(q) \in Seq(Text \X Text) /\ <<path, q>> \in ToSet(against(q))
    OBVIOUS
  <2> DEFINE a == against(q)
  <2>1. a \in Seq(Text \X Text)
    BY <1>1
  <2>2. 1 \in DOMAIN a /\ a[1] = <<path, q>>
    BY <1>1
  <2> HIDE DEF a
  <2>3. a[1] \in ToSet(a)
    BY <2>2 DEF ToSet
  <2> QED
    BY <2>1, <2>2, <2>3 DEF a
<1>3. /\ Len(filter) \in Nat /\ DOMAIN filter = 1 .. Len(filter)
      /\ \A i \in DOMAIN filter : filter[i] \in Text
  OBVIOUS
<1>4. PICK i \in 1 .. Len(filter) : p = filter[i]
  BY <1>3 DEF ToSet
<1>5. ToCompare(path, type) = FlattenSeq(s)
  BY DEF ToCompare, names
<1> HIDE DEF against
<1>6. s \in [1 .. Len(filter) -> Seq(Text \X Text)]
  <2>1. \A k \in DOMAIN filter : against(filter[k]) \in Seq(Text \X Text)
    BY <1>2, <1>3
  <2> QED
    BY <1>3, <2>1
<1>7. s[i] = against(p) /\ p \in Text
  BY <1>3, <1>4
<1> HIDE DEF s
<1>8. ToSet(FlattenSeq(s)) = UNION {ToSet(s[k]) : k \in 1 .. Len(filter)}
  BY <1>3, <1>6, Flattened
<1>9. <<path, p>> \in ToSet(s[i])
  BY <1>2, <1>7
<1>10. ToSet(s[i]) \subseteq ToSet(FlattenSeq(s))
  BY <1>4, <1>8
<1> QED
  BY <1>5, <1>9, <1>10

LEMMA AskWill ==
  ASSUME Walking, Walked, AtEntry, ~PassedOver(current),
         Ask(path_, current.ino, current.type), UNCHANGED <<job, filter, stack>>
  PROVE  AtCursor' /\ WillMatch'
<1>1. path_ \in Text
  BY EntryAtHand DEF AtEntry, EntryLeft, Walked
<1>2. image' = image /\ top' = top /\ current' = current /\ path_' = path_
  BY DEF image, top, current, path_
<1>3. PassedOver(current)' = PassedOver(current)
  BY <1>2 DEF PassedOver
<1>4. AtCursor'
  BY <1>2, <1>3 DEF AtCursor, AtEntry, Ask
<1>5. filter = NoFilter => match'.result = "yes"
  BY DEF Ask, Idle, Start
<1>6. path_ \in ToSet(filter) => <<path_, path_>> \in ToSet(tries')
  BY <1>1, ToCompareAll DEF Ask, Walking
<1>7. entry'.path = path_
  BY DEF Ask
<1> QED
  BY <1>4, <1>5, <1>6, <1>7 DEF WillMatch, NoFilter

LEMMA FileFound ==
  ASSUME Walking, CaseDistinct, Walked, UnpackFile
  PROVE  \/ pc' = "exit"
         \/ Ask(path_, current.ino, current.type) /\ UNCHANGED <<job, filter, stack, host, refused>>
<1>1. /\ AtEntry /\ EntryLeft /\ job.mode = "unpack" /\ ~PassedOver(current)
      /\ current.type = "file" /\ job \in Jobs
  BY DEF UnpackFile, AtEntry, EntryLeft, Walking
<1> DEFINE n == Node(AtHand, current)
<1>2. /\ n.path = path_ /\ n.ino = current.ino /\ n \in Reached
      /\ current.ino \notin DOMAIN image.ents
  BY <1>1, EntryAtHand DEF Walked
<1> HIDE DEF n
<1>3. Lookup(path_) = {current.ino}
  BY <1>1, <1>2, LookupRight DEF Reached
<1> QED
  BY <1>1, <1>2, <1>3 DEF UnpackFile

LEMMA TryWill ==
  ASSUME Walking, Asked, WillMatch, TryMask
  PROVE  WillMatch'
<1>1. /\ match.result = "no" /\ tries # <<>> /\ UNCHANGED <<filter, entry>>
      /\ match' = Start(Head(tries)[1], Head(tries)[2]) /\ tries' = Tail(tries)
  BY DEF TryMask
<1>2. filter # NoFilter
  BY <1>1 DEF WillMatch
<1> DEFINE p == entry.path
<1>3. ASSUME p \in ToSet(filter), IsPath(p)
      PROVE  \/ match'.result = "run" /\ match'.name = p /\ match'.pattern = p
             \/ <<p, p>> \in ToSet(tries')
  <2>1. <<p, p>> \in ToSet(tries)
    BY <1>1, <1>3 DEF WillMatch
  <2>2. CASE <<p, p>> = Head(tries)
    <3>1. match' = Start(p, p)
      BY <1>1, <2>2
    <3>2. p # <<>>
      BY <1>3 DEF IsPath
    <3> QED
      BY <3>1, <3>2 DEF Start
  <2>3. CASE <<p, p>> # Head(tries)
    <3>1. tries \in Seq(Text \X Text)
      BY DEF Walking
    <3>2. PICK i \in 1 .. Len(tries) : tries[i] = <<p, p>>
      BY <2>1, <3>1 DEF ToSet
    <3>3. i # 1 /\ Len(tries) \in Nat
      BY <2>3, <3>1, <3>2
    <3> DEFINE all == tries
               rest == tries'
    <3>4. /\ rest \in Seq(Text \X Text) /\ Len(rest) = Len(all) - 1
          /\ \A k \in 1 .. Len(all) - 1 : rest[k] = all[k + 1]
      <4>1. rest = Tail(all) /\ all # <<>> /\ all \in Seq(Text \X Text)
        BY <1>1, <3>1
      <4> HIDE DEF rest, all
      <4> QED
        BY <4>1, HeadTailProperties
    <3> DEFINE k == i - 1
    <3>5. k \in 1 .. Len(all) - 1 /\ all[k + 1] = <<p, p>>
      BY <3>2, <3>3
    <3> HIDE DEF all, k, p
    <3>6. DOMAIN rest = 1 .. Len(rest)
      BY <3>4
    <3> HIDE DEF rest
    <3>7. rest[k] = <<p, p>> /\ k \in DOMAIN rest
      BY <3>4, <3>5, <3>6
    <3>8. <<p, p>> \in ToSet(rest)
      BY <3>7 DEF ToSet
    <3> QED
      BY <3>8 DEF rest
  <2> QED
    BY <2>2, <2>3
<1> QED
  BY <1>1, <1>2, <1>3 DEF WillMatch, IsPath, NoFilter

LEMMA CompareWill ==
  ASSUME Walking, Asked, Compared, WillMatch, Comparing
  PROVE  WillMatch'
<1>1. /\ match.result = "run" /\ match' = MatchStep(match)
      /\ UNCHANGED <<filter, entry, tries>>
  BY DEF Comparing
<1>2. filter # NoFilter
  BY <1>1 DEF WillMatch
<1>3. Running(match)
  <2>1. Idle.result = "no" /\ [Idle EXCEPT !.result = "yes"].result = "yes"
    BY DEF Idle, Start
  <2> QED
    BY <1>1, <2>1 DEF Compared, Running
<1> DEFINE p == entry.path
<1>4. ASSUME p \in ToSet(filter), IsPath(p), match.name = p, match.pattern = p
      PROVE  \/ match'.result = "yes"
             \/ match'.result = "run" /\ match'.name = p /\ match'.pattern = p
  <2>1. match'.name = p /\ match'.pattern = p
    BY <1>1, <1>3, <1>4, StepKeeps
  <2>2. SoundMatch(match')
    BY <1>1, <1>3, StepSound
  <2>3. Glob(p, p)
    BY <1>4, GlobSelf DEF Asked
  <2>4. match' \in Comparisons /\ MatchSound(match')
    BY <2>2 DEF SoundMatch
  <2>5. match'.result # "run" => match'.result = "yes"
    BY <2>1, <2>3, <2>4 DEF MatchSound
  <2> QED
    BY <2>1, <2>5
<1> QED
  BY <1>1, <1>2, <1>4 DEF WillMatch, IsPath, NoFilter


-----------------------------------------------------------------------------
(* Every step keeps it *)

LEMMA FilterKept ==
  ASSUME FilterMade, UNCHANGED <<job, filter>>
  PROVE  FilterMade'
BY DEF FilterMade, NoFilter, IsPath, Cuts

LEMMA InitTree == Init => TreeInv
BY DEF Init, TreeInv

LEMMA StepSame ==
  ASSUME Next
  PROVE  /\ job' = job /\ pc' # "args"
         /\ ParseArgs \/ (pc # "args" /\ pc' # "begin" /\ UNCHANGED filter)
BY DEF Next, walkVars, Settled, Ask, ParseArgs, Begin, PassOver, Leave, End,
       UnpackDir, UnpackFile, TryMask, Comparing, NotNeeded, EnterDir, FoundDir,
       CopyFile, HostFails, Deliver, DeliverStop, AtEntry

LEMMA StepWalked ==
  ASSUME MInv, TreeInv, Next, job.mode = "unpack", CaseDistinct,
         pc' \in {"walk", "match", "done"}
  PROVE  Walked'
<1>1. Walking /\ job' = job
  BY StepSame DEF MInv
<1>2. /\ pc \in {"walk", "match", "done"} => Walked
      /\ pc = "match" => AtCursor /\ WillMatch /\ Asked
      /\ pc = "begin" => host = <<>> /\ refused = {}
  BY DEF TreeInv, Walked, MInv
<1>3. CASE Begin
  BY <1>1, <1>2, <1>3, BeginWalked DEF Begin
<1>4. CASE PassOver
  <2>1. /\ AtEntry /\ EntryLeft /\ Walked /\ PassedOver(current)
        /\ stack' = NextEntry(stack) /\ UNCHANGED <<job, filter, host, refused>>
    BY <1>2, <1>4 DEF PassOver, AtEntry, EntryLeft, walkVars
  <2>2. ~(Sound(current) /\ Node(AtHand, current) \in Reached)
    BY <1>1, <2>1, EntryAtHand DEF Walked
  <2> QED
    BY <1>1, <2>1, <2>2, NextWalked
<1>5. CASE Leave
  BY <1>1, <1>2, <1>5, LeaveWalked DEF Leave
<1>6. CASE End
  BY <1>2, <1>6, SameWalk DEF End, walkVars
<1>7. CASE UnpackDir
  BY <1>2, <1>7, SameWalk DEF UnpackDir, AtEntry
<1>8. CASE UnpackFile
  <2>1. pc = "walk"
    BY <1>8 DEF UnpackFile, AtEntry
  <2>2. UNCHANGED <<job, filter, stack, host, refused>>
    BY <1>1, <1>2, <1>8, <2>1, FileFound
  <2> QED
    BY <1>2, <2>1, <2>2, SameWalk
<1>9. CASE TryMask
  BY <1>2, <1>9, SameWalk DEF TryMask
<1>10. CASE Comparing
  BY <1>2, <1>10, SameWalk DEF Comparing
<1>11. CASE NotNeeded
  <2>1. /\ Walked /\ AtCursor /\ EntryLeft /\ WillMatch
        /\ stack' = NextEntry(stack) /\ UNCHANGED <<job, filter, host, refused>>
        /\ match.result = "no" /\ tries = <<>>
    BY <1>2, <1>11 DEF NotNeeded, Settled, AtCursor, EntryLeft, Asked
  <2>2. ~Wanted(path_)
    <3>1. entry.path = path_ /\ ToSet(tries) = {}
      BY <2>1 DEF AtCursor, ToSet
    <3> QED
      BY <2>1, <3>1 DEF WillMatch, Wanted
  <2> QED
    BY <1>1, <2>1, <2>2, NextWalked
<1>12. CASE EnterDir
  BY <1>1, <1>2, <1>12, EnterWalked DEF EnterDir, Asked
<1>13. CASE FoundDir
  BY <1>2, <1>13 DEF FoundDir, AtCursor
<1>14. CASE CopyFile
  <2>1. pc' = "walk"
    BY <1>14 DEF CopyFile
  <2> QED
    BY <1>1, <1>2, <1>14, <2>1, CopyWalked DEF CopyFile, Asked
<1>15. ~ParseArgs /\ ~HostFails /\ ~Deliver /\ ~DeliverStop
  BY DEF ParseArgs, HostFails, Deliver, DeliverStop
<1> QED
  BY <1>3, <1>4, <1>5, <1>6, <1>7, <1>8, <1>9, <1>10, <1>11, <1>12, <1>13, <1>14,
     <1>15 DEF Next

LEMMA StepAsked ==
  ASSUME MInv, TreeInv, Next, job.mode = "unpack", CaseDistinct, pc' = "match"
  PROVE  AtCursor' /\ WillMatch'
<1>1. Walking /\ job' = job
  BY StepSame DEF MInv
<1>2. /\ pc \in {"walk", "match", "done"} => Walked
      /\ pc = "match" => AtCursor /\ WillMatch /\ Asked /\ Compared
  BY DEF TreeInv, Walked, MInv
<1>3. UnpackDir \/ UnpackFile \/ TryMask \/ Comparing
  BY DEF Next, ParseArgs, Begin, PassOver, Leave, End, NotNeeded, EnterDir,
         FoundDir, CopyFile, HostFails, Deliver, DeliverStop, AtEntry
<1>4. CASE UnpackDir
  <2>1. /\ AtEntry /\ ~PassedOver(current) /\ Ask(path_, current.ino, current.type)
        /\ UNCHANGED <<job, filter, stack>> /\ Walked
    BY <1>2, <1>4 DEF UnpackDir, AtEntry
  <2> QED
    BY <1>1, <2>1, AskWill
<1>5. CASE UnpackFile
  <2>1. AtEntry /\ ~PassedOver(current) /\ Walked
    BY <1>2, <1>5 DEF UnpackFile, AtEntry
  <2>2. Ask(path_, current.ino, current.type) /\ UNCHANGED <<job, filter, stack>>
    BY <1>1, <1>5, <2>1, FileFound
  <2> QED
    BY <1>1, <2>1, <2>2, AskWill
<1>6. ASSUME pc = "match", UNCHANGED <<job, stack, entry>>
      PROVE  AtCursor'
  <2>1. image' = image /\ top' = top /\ current' = current /\ path_' = path_
    BY <1>6 DEF image, top, current, path_
  <2>2. PassedOver(current)' = PassedOver(current)
    BY <1>6, <2>1 DEF PassedOver
  <2> QED
    BY <1>2, <1>6, <2>1, <2>2 DEF AtCursor
<1>7. CASE TryMask
  BY <1>1, <1>2, <1>6, <1>7, TryWill DEF TryMask
<1>8. CASE Comparing
  BY <1>1, <1>2, <1>6, <1>8, CompareWill DEF Comparing
<1> QED
  BY <1>3, <1>4, <1>5, <1>7, <1>8

LEMMA NextTree ==
  ASSUME MInv, TreeInv, Next
  PROVE  TreeInv'
<1> SUFFICES ASSUME job'.mode = "unpack", CaseDistinct'
             PROVE  /\ pc' = "args" => filter' = NoFilter'
                    /\ pc' # "args" => FilterMade'
                    /\ pc' \in {"args", "begin"} => host' = <<>> /\ refused' = {} /\ stack' = <<>>
                    /\ pc' \in {"walk", "match", "done"} =>
                         InTree' /\ HostRight' /\ RefusedDirs' /\ NothingMissed'
                    /\ pc' = "match" => AtCursor' /\ WillMatch'
                    /\ pc' = "done" => stack' = <<>>
  BY DEF TreeInv
<1>1. job' = job /\ Walking /\ job.mode = "unpack" /\ CaseDistinct
  BY StepSame, SameTree DEF MInv
<1>2. FilterMade'
  BY <1>1, StepSame, FilterKept, FilterParsed DEF TreeInv
<1>3. pc' = "begin" => host' = <<>> /\ refused' = {} /\ stack' = <<>>
  BY <1>1, StepSame DEF TreeInv, ParseArgs
<1>4. pc' \in {"walk", "match", "done"} =>
        InTree' /\ HostRight' /\ RefusedDirs' /\ NothingMissed'
  BY <1>1, StepWalked DEF Walked
<1>5. pc' = "match" => AtCursor' /\ WillMatch'
  BY <1>1, StepAsked
<1>6. pc' = "done" => stack' = <<>>
  <2>1. pc' = "done" => End
    BY DEF Next, ParseArgs, Begin, PassOver, Leave, UnpackDir, UnpackFile, Ask, TryMask,
           Comparing, NotNeeded, EnterDir, FoundDir, CopyFile, HostFails, Deliver,
           DeliverStop, AtEntry
  <2> QED
    BY <2>1 DEF End
<1> QED
  BY <1>2, <1>3, <1>4, <1>5, <1>6, StepSame

LEMMA StutterTree ==
  ASSUME TreeInv, UNCHANGED vars
  PROVE  TreeInv'
<1>1. UNCHANGED <<job, filter, stack, entry, tries, match, host, refused, calls, stops, pc>>
  BY DEF vars
<1>2. image' = image /\ CaseDistinct' = CaseDistinct /\ top' = top /\ current' = current
      /\ path_' = path_
  BY <1>1, SameTree DEF top, current, path_, image
<1>3. Walked => InTree' /\ HostRight' /\ RefusedDirs' /\ NothingMissed'
  BY <1>1, SameWalk DEF Walked
<1>4. AtCursor => AtCursor'
  BY <1>1, <1>2 DEF AtCursor, PassedOver
<1>5. WillMatch => WillMatch'
  BY <1>1 DEF WillMatch, IsPath, NoFilter
<1>6. FilterMade => FilterMade'
  BY <1>1, FilterKept
<1> QED
  BY <1>1, <1>2, <1>3, <1>4, <1>5, <1>6 DEF TreeInv, Walked, NoFilter


-----------------------------------------------------------------------------
(* What the invariant says of a walk that came to its end                  *)

(* What is wanted lies in directories that are wanted.                     *)
LEMMA WantedAbove ==
  ASSUME FilterMade, job \in Jobs, NEW p \in Text, p # <<>>, p[Len(p)] # Slash,
         NEW a, IsName(a), Wanted(Join(p, a))
  PROVE  Wanted(p)
<1> DEFINE j == Join(p, a)
           c == Len(p) + 1
<1>1. /\ j \in Text /\ Len(p) \in Nat \ {0} /\ Len(a) \in Nat
      /\ Len(j) = Len(p) + 1 + Len(a) /\ \A i \in 1 .. Len(p) : j[i] = p[i]
  BY JoinShape
<1>2. Cuts(j) = Cuts(p) \cup {c}
  BY JoinFacts
<1>3. SubSeq(j, 1, Len(p)) = p
  <2>1. Len(p) \in 0 .. Len(p) /\ SubSeq(p, 1, Len(p)) = p
    BY <1>1 DEF Text
  <2> QED
    BY <2>1, JoinPrefix
<1> HIDE DEF j
<1>4. SUFFICES ASSUME j \in ToSet(filter), IsPath(j)
               PROVE  p \in ToSet(filter) /\ IsPath(p)
  BY DEF Wanted, j
<1>5. c \in Cuts(j) /\ c > 1 /\ c - 1 = Len(p) /\ j[Len(p)] # Slash
  BY <1>1, <1>2
<1>6. p \in ToSet(filter)
  BY <1>3, <1>4, <1>5 DEF FilterMade
<1>7. ToSet(p) \subseteq ToSet(j)
  <2>1. DOMAIN p = 1 .. Len(p) /\ DOMAIN j = 1 .. Len(j)
    BY <1>1 DEF Text
  <2>2. \A i \in DOMAIN p : i \in DOMAIN j /\ p[i] = j[i]
    BY <1>1, <2>1
  <2> QED
    BY <2>2 DEF ToSet
<1>8. p[1] = j[1]
  BY <1>1
<1> QED
  BY <1>4, <1>6, <1>7, <1>8 DEF IsPath

LEMMA AllThere ==
  ASSUME MInv, TreeInv, job.mode = "unpack", CaseDistinct, pc = "done"
  PROVE  \A n \in Reached : Wanted(n.path) => n.path \in Entered
<1>1. job \in Jobs /\ FilterMade /\ InTree /\ NothingMissed /\ stack = <<>>
  BY DEF MInv, Walking, TreeInv
<1> DEFINE Fine(n) == n = Root \/ (n \in Reached /\ Wanted(n.path) => n.path \in Entered)
           S == {n \in Nodes : Fine(n)}
<1>2. Root \in S
  BY <1>1, TreeNodes
<1>3. ASSUME NEW d \in Tree \cup {Root}, d \in S, NEW n \in Below(d) PROVE n \in S
  <2>1. n \in Tree /\ n \in Nodes /\ d \in Nodes /\ d.path \in Text
    BY <1>1, <1>3, TreeGrows, TreeNodes DEF Nodes
  <2>2. /\ d.type = "dir" /\ Readable(d.ino) /\ d.ino \in DOMAIN image.ents
        /\ \E i \in DOMAIN image.ents[d.ino] :
             Sound(image.ents[d.ino][i]) /\ n = Node(d, image.ents[d.ino][i])
    BY <1>1, <2>1, BelowFacts
  <2>3. PICK i \in DOMAIN image.ents[d.ino] :
          Sound(image.ents[d.ino][i]) /\ n = Node(d, image.ents[d.ino][i])
    BY <2>2
  <2> DEFINE a == image.ents[d.ino][i].name
  <2>4. IsName(a) /\ n.path = Join(d.path, a)
    BY <1>1, <2>2, <2>3, EntryFacts DEF IsName, Node
  <2> HIDE DEF a
  <2>5. d \in Dirs
    BY <2>2 DEF Dirs
  <2>6. ASSUME n \in Reached, Wanted(n.path) PROVE n.path \in Entered
    <3>1. d = Root \/ d.path \in Entered
      <4>1. CASE d # Root
        <5>1. d.path # <<>> /\ d.path[Len(d.path)] # Slash
          BY <1>1, <4>1, TreePath
        <5>2. Wanted(d.path)
          BY <1>1, <2>1, <2>4, <2>6, <5>1, WantedAbove
        <5>3. d \in Reached
          BY <2>2, <4>1 DEF Reached
        <5> QED
          BY <1>3, <4>1, <5>2, <5>3
      <4> QED
        BY <4>1
    <3>2. ~Ahead(d, i)
      BY <1>1 DEF Ahead
    <3> QED
      BY <1>1, <2>3, <2>5, <2>6, <3>1, <3>2 DEF NothingMissed
  <2> QED
    BY <2>1, <2>6
<1> HIDE DEF S
<1>4. Tree \subseteq S
  BY <1>1, <1>2, <1>3, TreeInduction
<1>5. \A n \in Tree : n # Root
  BY <1>1, TreePath DEF Root
<1> QED
  BY <1>4, <1>5 DEF S, Reached

(* What was asked for and is not there was refused. *)
LEMMA MissingRefused ==
  ASSUME job \in Jobs, CaseDistinct, RefusedDirs,
         NEW n \in Reached, n.path \in Entered
  PROVE  n.path \in DOMAIN host \/ MayLack(n)
<1>1. CASE n.path \in refused
  <2>1. PICK y \in Reached : y.path = n.path /\ y.type = "dir"
    BY <1>1 DEF RefusedDirs
  <2>2. y = n
    BY <2>1, OnePath DEF Reached
  <2> QED
    BY <1>1, <2>1, <2>2 DEF MayLack
<1> QED
  BY <1>1 DEF Entered

LEMMA TreeWhole == MInv /\ TreeInv => WholeTree
<1> SUFFICES ASSUME MInv, TreeInv, job.mode = "unpack", job.args = <<>>, CaseDistinct,
                    pc = "done"
             PROVE  /\ HostRight
                    /\ \A n \in Reached : n.path \in DOMAIN host \/ MayLack(n)
  BY DEF WholeTree
<1>1. HostRight /\ RefusedDirs /\ filter = NoFilter /\ job \in Jobs
  BY DEF TreeInv, FilterMade, MInv, Walking
<1>2. \A n \in Reached : n.path \in Entered
  BY <1>1, AllThere DEF Wanted
<1> QED
  BY <1>1, <1>2, MissingRefused

LEMMA TreeNamed == MInv /\ TreeInv => NamedUnpacked
<1> SUFFICES ASSUME MInv, TreeInv, job.mode = "unpack", CaseDistinct, pc = "done",
                    NEW n \in Reached, n.path \in ToSet(job.args), IsPath(n.path)
             PROVE  \/ n.path \in DOMAIN host /\ host[n.path] = Unpacked(n)
                    \/ n.path \notin DOMAIN host /\ MayLack(n)
  BY DEF NamedUnpacked
<1>1. HostRight /\ RefusedDirs /\ FilterMade /\ job \in Jobs
  BY DEF TreeInv, MInv, Walking
<1>2. n.path[Len(n.path)] # Slash
  BY <1>1, TreePath DEF Reached
<1>3. Wanted(n.path)
  BY <1>1, <1>2 DEF FilterMade, Wanted
<1>4. n.path \in DOMAIN host \/ MayLack(n)
  BY <1>1, <1>3, AllThere, MissingRefused
<1> QED
  BY <1>1, <1>4 DEF HostRight

(* What makes an unpacking complete holds in every state of every one.     *)
THEOREM TreeInvariant == Spec => [](MInv /\ TreeInv)
<1>1. Init => MInv /\ TreeInv
  BY InitMatched, InitTree
<1>2. MInv /\ TreeInv /\ [Next]_vars => (MInv /\ TreeInv)'
  <2>1. ASSUME MInv, TreeInv, Next PROVE MInv' /\ TreeInv'
    BY <2>1, NextWalking, NextMatched, NextTree DEF MInv
  <2>2. ASSUME MInv, TreeInv, UNCHANGED vars PROVE MInv' /\ TreeInv'
    BY <2>2, StutterMatched, StutterTree
  <2> QED
    BY <2>1, <2>2
<1> QED
  BY <1>1, <1>2, PTL DEF Spec

(* Without a filter an unpacking that comes to its end has created every   *)
(* file that can be reached, with the data of its own inode although       *)
(* pfs_unpack_single looks it up a second time by path, and every          *)
(* directory but empty ones the host refused, and nothing else: whatever   *)
(* the tree, its depth, what is unreadable and where the host gives up.    *)
THEOREM UnpacksAll == Spec => []WholeTree
BY TreeInvariant, TreeWhole, PTL

(* What is named on the command line by its path is unpacked, however deep *)
(* it lies, whatever other names and masks are given with it: the filter   *)
(* that the parsing of the arguments makes holds all the directories the   *)
(* walk must go through.  Only a directory the host refused may be missing. *)
THEOREM UnpacksNamed == Spec => []NamedUnpacked
BY TreeInvariant, TreeNamed, PTL

-----------------------------------------------------------------------------
(* An enumeration: what the callback is told of                            *)

Visited == BeingRead /\ InTurn /\ NoneLost /\ NoneEarly

LEMMA SameVisit ==
  ASSUME Visited, UNCHANGED <<job, stack, calls, stops>>
  PROVE  Visited'
<1>1. image' = image /\ Root' = Root /\ Dirs' = Dirs /\ Tree' = Tree
  BY SameTree
<1>2. /\ \A e : Sound(e)' = Sound(e)
      /\ \A d, e : Node(d, e)' = Node(d, e)
      /\ \A d, i : Ahead(d, i)' = Ahead(d, i)
      /\ \A d, i : StopsBefore(d, i)' = StopsBefore(d, i)
      /\ \A d : Told(d)' = Told(d)
  BY <1>1 DEF Sound, Node, Ahead, StopsBefore, Place, Told
<1>3. BeingRead'
  BY <1>1 DEF Visited, BeingRead
<1>4. InTurn'
  BY <1>1 DEF Visited, InTurn, IsInjective
<1>5. NoneLost' /\ NoneEarly'
  BY <1>1, <1>2 DEF Visited, NoneLost, NoneEarly
<1> QED
  BY <1>3, <1>4, <1>5 DEF Visited

(* No two entries of a directory have one name.                            *)
LEMMA PlaceIs ==
  ASSUME job \in Jobs, CaseDistinct, NEW d \in DOMAIN image.ents,
         NEW i \in DOMAIN image.ents[d]
  PROVE  /\ Place(d, image.ents[d][i].name) = i
         /\ \A j \in DOMAIN image.ents[d] :
              image.ents[d][j].name = image.ents[d][i].name => j = i
<1>1. \A j \in DOMAIN image.ents[d] :
        image.ents[d][j].name = image.ents[d][i].name => j = i
  BY DEF CaseDistinct, Same
<1> QED
  BY <1>1 DEF Place

LEMMA Numbers ==
  ASSUME job \in Jobs, NEW d \in Dirs, NEW i \in DOMAIN image.ents[d.ino]
  PROVE  i \in Nat /\ i >= 1 /\ i \in 1 .. Len(image.ents[d.ino])
<1>1. d.ino \in DOMAIN image.ents
  BY DEF Dirs, Readable
<1>2. i \in 1 .. Len(image.ents[d.ino])
  BY <1>1, EntryFacts
<1> QED
  BY <1>2

(* What was told of lies in what was told of.                              *)
LEMMA ToldAbove ==
  ASSUME Walking, InTurn, NoneEarly, NEW p \in ToSet(calls)
  PROVE  /\ p # <<>>
         /\ \E d \in Dirs : \E i \in DOMAIN image.ents[d.ino] :
              LET e == image.ents[d.ino][i]
              IN /\ Sound(e) /\ Node(d, e) \in Tree /\ p = Node(d, e).path
                 /\ p = Join(d.path, e.name)
                 /\ Parent(p) = d.path /\ BaseName(p) = e.name
                 /\ Told(d) /\ d.path \notin stops /\ ~StopsBefore(d, i)
<1>1. job \in Jobs
  BY DEF Walking
<1>2. PICK n \in Tree : n.path = p
  BY DEF InTurn
<1>a. PICK d \in Dirs : \E i \in DOMAIN image.ents[d.ino] :
        LET e == image.ents[d.ino][i]
        IN /\ Sound(e) /\ n = Node(d, e) /\ n.path = Join(d.path, e.name)
           /\ IsName(e.name) /\ d.path \in Text
  BY <1>1, <1>2, TreeEntry
<1>3. PICK i \in DOMAIN image.ents[d.ino] :
        LET e == image.ents[d.ino][i]
        IN /\ Sound(e) /\ n = Node(d, e) /\ n.path = Join(d.path, e.name)
           /\ IsName(e.name) /\ d.path \in Text
  BY <1>a
<1> DEFINE e == image.ents[d.ino][i]
<1>4. /\ Sound(e) /\ n = Node(d, e) /\ n.path = Join(d.path, e.name)
      /\ IsName(e.name) /\ d.path \in Text
  BY <1>3
<1>5. /\ Parent(p) = d.path /\ BaseName(p) = e.name /\ p # <<>>
  <2> HIDE DEF e
  <2> QED
    BY <1>2, <1>4, JoinFacts
<1>6. Told(d) /\ d.path \notin stops /\ ~StopsBefore(d, i)
  BY <1>2, <1>4 DEF NoneEarly
<1> QED
  BY <1>2, <1>4, <1>5, <1>6

(* The entry the callback is about to be told of                           *)
LEMMA AboutToTell ==
  ASSUME Walking, CaseDistinct, Visited, EntryLeft
  PROVE  /\ AtHand \in Dirs /\ AtHand.path = top.path /\ AtHand.ino = top.dir
         /\ AtHand.path \in Text /\ AtHand.ino \in DOMAIN image.ents
         /\ Len(stack) \in DOMAIN stack /\ DOMAIN stack = 1 .. Len(stack)
         /\ Len(stack) \in Nat \ {0} /\ top = stack[Len(stack)]
         /\ top.next \in Nat /\ top.next \in DOMAIN image.ents[AtHand.ino]
         /\ current = image.ents[AtHand.ino][top.next]
         /\ Node(AtHand, current).path = path_
         /\ path_ \in Text /\ path_ # <<>> /\ Parent(path_) = top.path
         /\ BaseName(path_) = current.name /\ Told(AtHand)
         /\ Place(AtHand.ino, current.name) = top.next
         /\ \A k \in DOMAIN stack : stack[k].path = top.path => k = Len(stack)
         /\ \A s \in stops : top.path \notin {s, Parent(s)}
         /\ \A d \in Dirs : d.path = top.path => d = AtHand
<1>1. stack \in Seq(Frames) /\ Len(stack) \in 1 .. Len(stack) /\ Len(stack) \in Nat
      /\ job \in Jobs
  BY DEF Walking, EntryLeft
<1>2. top = stack[Len(stack)] /\ top \in Frames /\ Len(stack) \in DOMAIN stack
      /\ DOMAIN stack = 1 .. Len(stack)
  BY <1>1 DEF top
<1>3. /\ AtHand \in Dirs /\ AtHand.path = top.path /\ AtHand.ino = top.dir
      /\ \A s \in stops : top.path \notin {s, Parent(s)}
      /\ \A k \in DOMAIN stack : stack[k].path = top.path => k = Len(stack)
      /\ top.path = <<>> \/ top.path \in ToSet(calls)
  BY <1>2 DEF AtHand, Visited, BeingRead
<1>4. /\ AtHand.ino \in DOMAIN image.ents /\ top.next \in DOMAIN image.ents[AtHand.ino]
      /\ current = image.ents[AtHand.ino][top.next]
      /\ IsName(current.name) /\ path_ \in Text
      /\ Node(AtHand, current).path = path_
  BY <1>3, TopEntry
<1>5. top.path \in Text /\ path_ = Join(top.path, current.name) /\ top.next \in Nat
  BY <1>2 DEF Frames, path_
<1>6. path_ # <<>> /\ Parent(path_) = top.path /\ BaseName(path_) = current.name
  BY <1>4, <1>5, JoinFacts
<1>7. Place(AtHand.ino, current.name) = top.next
  BY <1>1, <1>4, PlaceIs
<1>8. \A d \in Dirs : d.path = top.path => d = AtHand
  BY <1>1, <1>3, OnePath DEF Dirs
<1>9. Told(AtHand)
  <2>1. CASE top.path = <<>>
    <3>1. \A n \in Tree : n.path # <<>>
      BY <1>1, TreePath
    <3> QED
      BY <1>3, <2>1, <3>1 DEF Told, Dirs
  <2>2. CASE top.path \in ToSet(calls)
    BY <1>3, <2>2 DEF Told
  <2> QED
    BY <1>3, <2>1, <2>2
<1>10. AtHand.path \in Text /\ Len(stack) \in Nat \ {0}
  BY <1>1, <1>3, <1>5
<1> QED
  BY <1>2, <1>3, <1>4, <1>5, <1>6, <1>7, <1>8, <1>9, <1>10

LEMMA NotToldYet ==
  ASSUME Walking, CaseDistinct, Visited, EntryLeft, Sound(current)
  PROVE  /\ path_ \notin ToSet(calls)
         /\ \A s \in stops : Parent(s) # path_
         /\ \A k \in DOMAIN stack : stack[k].path # path_
         /\ \A d \in Dirs : Told(d) => d.path # path_
<1>1. /\ AtHand \in Dirs /\ Len(stack) \in DOMAIN stack /\ top = stack[Len(stack)]
      /\ top.next \in Nat /\ top.next \in DOMAIN image.ents[AtHand.ino]
      /\ current = image.ents[AtHand.ino][top.next] /\ AtHand.path = top.path
      /\ Node(AtHand, current).path = path_ /\ path_ # <<>>
  BY AboutToTell
<1>2. Ahead(AtHand, top.next)
  BY <1>1 DEF Ahead
<1>3. path_ \notin ToSet(calls)
  BY <1>1, <1>2 DEF Visited, NoneEarly
<1>4. \A d : Told(d) => d.path # path_
  BY <1>1, <1>3 DEF Told, Root
<1>5. \A s \in stops : Parent(s) # path_
  <2>1. ASSUME NEW s \in stops PROVE \E d : Told(d) /\ Parent(s) = d.path
    <3>1. s \in ToSet(calls)
      BY DEF Visited, InTurn
    <3> QED
      BY <3>1, ToldAbove DEF Visited
  <2> QED
    BY <1>4, <2>1
<1>6. \A k \in DOMAIN stack : stack[k].path # path_
  BY <1>1, <1>3 DEF Visited, BeingRead
<1> QED
  BY <1>3, <1>4, <1>5, <1>6
(* A step that tells of nothing, past an entry that is not told of or out  *)
(* of a directory                                                          *)
LEMMA QuietVisited ==
  ASSUME Visited, UNCHANGED <<job, calls, stops>>,
         \A k \in DOMAIN stack' :
           /\ k \in DOMAIN stack
           /\ stack'[k].path = stack[k].path /\ stack'[k].dir = stack[k].dir
           /\ \A i \in Nat : stack'[k].next <= i => stack[k].next <= i,
         \A d \in Dirs : \A i \in DOMAIN image.ents[d.ino] :
           Sound(image.ents[d.ino][i]) /\ Ahead(d, i) => Ahead(d, i)',
         Walking
  PROVE  Visited'
<1>1. image' = image /\ Root' = Root /\ Dirs' = Dirs /\ Tree' = Tree
  BY SameTree
<1>2. /\ \A e : Sound(e)' = Sound(e)
      /\ \A d, e : Node(d, e)' = Node(d, e)
      /\ \A d, i : StopsBefore(d, i)' = StopsBefore(d, i)
      /\ \A d : Told(d)' = Told(d)
  BY <1>1 DEF Sound, Node, StopsBefore, Place, Told
<1>3. BeingRead'
  BY <1>1 DEF Visited, BeingRead
<1>4. InTurn'
  BY <1>1 DEF Visited, InTurn, IsInjective
<1>5. NoneLost'
  BY <1>1, <1>2 DEF Visited, NoneLost
<1>6. NoneEarly'
  <2>1. ASSUME NEW d \in Dirs, NEW i \in DOMAIN image.ents[d.ino], Ahead(d, i)'
        PROVE  Ahead(d, i)
    <3>1. i \in Nat
      BY Numbers DEF Walking
    <3> QED
      BY <2>1, <3>1 DEF Ahead
  <2> QED
    BY <1>1, <1>2, <2>1 DEF Visited, NoneEarly
<1> QED
  BY <1>3, <1>4, <1>5, <1>6 DEF Visited

LEMMA PassVisited ==
  ASSUME Walking, CaseDistinct, Visited, EntryLeft, ~Sound(current),
         UNCHANGED <<job, calls, stops>>, stack' = NextEntry(stack)
  PROVE  Visited'
<1>1. /\ Len(stack') = Len(stack) /\ stack' \in Seq(Frames) /\ stack \in Seq(Frames)
      /\ \A k \in 1 .. Len(stack) :
           /\ stack'[k].path = stack[k].path /\ stack'[k].dir = stack[k].dir
           /\ stack'[k].next = IF k = Len(stack) THEN stack[k].next + 1 ELSE stack[k].next
  BY NextKeeps DEF EntryLeft, Walking
<1>2a. DOMAIN stack' = 1 .. Len(stack) /\ DOMAIN stack = 1 .. Len(stack)
  BY <1>1
<1>2b. ASSUME NEW k \in 1 .. Len(stack) PROVE stack[k].next \in Nat
  <2>1. stack[k] \in Frames
    BY <1>1
  <2> QED
    BY <2>1 DEF Frames
<1>2. DOMAIN stack' = 1 .. Len(stack) /\ DOMAIN stack = 1 .. Len(stack)
      /\ \A k \in 1 .. Len(stack) : stack[k].next \in Nat
  BY <1>2a, <1>2b
<1>3. ASSUME NEW d \in Dirs, NEW i \in DOMAIN image.ents[d.ino],
             Sound(image.ents[d.ino][i]), Ahead(d, i)
      PROVE  Ahead(d, i)'
  <2>1. PICK k \in DOMAIN stack : stack[k].path = d.path /\ stack[k].next <= i
    BY <1>3 DEF Ahead
  <2>2. CASE k = Len(stack)
    <3>1. d = AtHand /\ top = stack[k]
      BY <2>1, <2>2, AboutToTell
    <3>2. i # top.next
      BY <1>3, <3>1, AboutToTell
    <3>3. i \in Nat
      BY Numbers DEF Walking
    <3>4. stack[k].next + 1 <= i
      BY <1>2, <2>1, <3>1, <3>2, <3>3
    <3> QED
      BY <1>1, <1>2, <2>1, <2>2, <3>4 DEF Ahead
  <2>3. CASE k # Len(stack)
    BY <1>1, <1>2, <2>1, <2>3 DEF Ahead
  <2> QED
    BY <2>2, <2>3
<1>4. ASSUME NEW k \in DOMAIN stack'
      PROVE  /\ k \in DOMAIN stack
             /\ stack'[k].path = stack[k].path /\ stack'[k].dir = stack[k].dir
             /\ \A i \in Nat : stack'[k].next <= i => stack[k].next <= i
  <2>1. k \in 1 .. Len(stack) /\ stack[k].next \in Nat
    BY <1>2
  <2>2. stack'[k].next \in {stack[k].next, stack[k].next + 1}
    BY <1>1, <2>1
  <2>3. \A i \in Nat : stack'[k].next <= i => stack[k].next <= i
    BY <2>1, <2>2
  <2> QED
    BY <1>1, <1>2, <2>1, <2>3
<1> QED
  BY <1>3, <1>4, QuietVisited

LEMMA FrontStack ==
  ASSUME Walking, stack # <<>>
  PROVE  LET s == Front(stack)
         IN /\ s \in Seq(Frames) /\ DOMAIN s = 1 .. Len(stack) - 1
            /\ Len(stack) \in Nat \ {0} /\ DOMAIN stack = 1 .. Len(stack)
            /\ \A k \in DOMAIN s : k \in DOMAIN stack /\ s[k] = stack[k]
<1> DEFINE m == Len(stack) - 1
           s == Front(stack)
<1>1. stack \in Seq(Frames) /\ Len(stack) \in Nat \ {0}
  BY DEF Walking
<1>2. DOMAIN stack = 1 .. Len(stack) /\ m \in Int /\ m >= 0
      /\ \A i \in 1 .. m : i \in DOMAIN stack
  BY <1>1
<1>3. \A i \in 1 .. m : stack[i] \in Frames
  BY <1>1, <1>2
<1>4. s = SubSeq(stack, 1, m)
  BY DEF Front
<1> HIDE DEF m, s
<1>5. s \in Seq(Frames) /\ Len(s) = m /\ \A k \in 1 .. m : s[k] = stack[k]
  BY <1>2, <1>3, <1>4, SubSeqProperties
<1>6. DOMAIN s = 1 .. m
  BY <1>5
<1> QED
  BY <1>1, <1>2, <1>5, <1>6 DEF m, s

LEMMA LeaveVisited ==
  ASSUME Walking, CaseDistinct, Visited, stack # <<>>, ~EntryLeft,
         UNCHANGED <<job, calls, stops>>, stack' = Front(stack)
  PROVE  Visited'
<1>1. /\ DOMAIN stack' = 1 .. Len(stack) - 1 /\ Len(stack) \in Nat \ {0}
      /\ DOMAIN stack = 1 .. Len(stack)
      /\ \A k \in DOMAIN stack' : k \in DOMAIN stack /\ stack'[k] = stack[k]
  BY FrontStack
<1>2. stack \in Seq(Frames) /\ job \in Jobs
  BY DEF Walking
<1>3. ASSUME NEW d \in Dirs, NEW i \in DOMAIN image.ents[d.ino], Ahead(d, i)
      PROVE  Ahead(d, i)'
  <2>1. PICK k \in DOMAIN stack : stack[k].path = d.path /\ stack[k].next <= i
    BY <1>3 DEF Ahead
  <2>2. k # Len(stack)
    <3> SUFFICES ASSUME k = Len(stack) PROVE FALSE
      OBVIOUS
    <3>1. top = stack[k] /\ AtHand \in Dirs /\ AtHand.path = d.path /\ AtHand.ino = top.dir
      BY <2>1 DEF top, AtHand, Visited, BeingRead
    <3>2. d = AtHand
      BY <1>2, <3>1, OnePath DEF Dirs
    <3>3. i \in Nat /\ i \in 1 .. Len(image.ents[top.dir])
      BY <1>2, <3>1, <3>2, Numbers
    <3>4. top.next \in Nat
      <4>1. top \in Frames
        BY <1>2, <3>1
      <4> QED
        BY <4>1 DEF Frames
    <3>5. i <= Len(image.ents[top.dir]) /\ top.next <= i
      BY <2>1, <3>1, <3>3
    <3>6. Len(image.ents[top.dir]) \in Int
      <4> DEFINE e == image.ents[top.dir]
      <4>1. top.dir \in DOMAIN image.ents
        BY <3>1 DEF Dirs, Readable
      <4>2. e \in Seq([name : Text, ino : DOMAIN image.ents, type : {"dir"}]
                      \cup [name : Text, ino : Nat, type : {"file"}])
        BY <1>2, <4>1, JobsAreText DEF image
      <4> HIDE DEF e
      <4>3. Len(e) \in Int
        BY <4>2
      <4> QED
        BY <4>3 DEF e
    <3>7. top.next <= Len(image.ents[top.dir])
      BY <3>3, <3>4, <3>5, <3>6
    <3> QED
      BY <3>7 DEF EntryLeft
  <2>3. k \in DOMAIN stack'
    BY <1>1, <2>2
  <2> QED
    BY <1>1, <2>1, <2>3 DEF Ahead
<1>4. \A k \in DOMAIN stack' :
        /\ k \in DOMAIN stack
        /\ stack'[k].path = stack[k].path /\ stack'[k].dir = stack[k].dir
        /\ \A i \in Nat : stack'[k].next <= i => stack[k].next <= i
  BY <1>1
<1> QED
  BY <1>3, <1>4, QuietVisited
(* The callback is told of the entry at hand.  The walk goes on behind it, *)
(* and in it if it is a directory; or, at a stop, out of the directory.    *)
Onwards ==
  /\ stops' = stops
  /\ \A k \in DOMAIN stack : k \in DOMAIN stack'
  /\ Node(AtHand, current) \in Dirs =>
       \E k \in DOMAIN stack' : stack'[k].path = path_ /\ stack'[k].next = 1
Stopped ==
  /\ stops' = stops \cup {path_}
  /\ DOMAIN stack' = 1 .. Len(stack) - 1
Heard ==
  /\ job' = job /\ calls' = Append(calls, path_)
  /\ Onwards \/ Stopped
  /\ \A k \in DOMAIN stack' :
       \/ /\ k \in DOMAIN stack
          /\ stack'[k].path = stack[k].path /\ stack'[k].dir = stack[k].dir
          /\ stack'[k].next = IF k = Len(stack) THEN stack[k].next + 1 ELSE stack[k].next
       \/ /\ k = Len(stack) + 1
          /\ [path |-> stack'[k].path, ino |-> stack'[k].dir, type |-> "dir"] \in Dirs
          /\ stack'[k].path = path_ /\ Onwards
Hearing == Walking /\ CaseDistinct /\ Visited /\ EntryLeft /\ Sound(current) /\ Heard

LEMMA HeardCalls ==
  ASSUME Hearing
  PROVE  /\ ToSet(calls') = ToSet(calls) \cup {path_}
         /\ calls \in Seq(Text) /\ path_ \in Text
         /\ DOMAIN calls' = 1 .. Len(calls) + 1 /\ DOMAIN calls = 1 .. Len(calls)
         /\ Len(calls) \in Nat /\ calls' \in Seq(Text)
         /\ calls'[Len(calls) + 1] = path_
         /\ \A i \in DOMAIN calls : calls'[i] = calls[i]
<1>1. calls \in Seq(Text) /\ path_ \in Text /\ calls' = Append(calls, path_)
  BY AboutToTell DEF Hearing, Visited, InTurn, Heard
<1> DEFINE x == path_
<1>2. /\ DOMAIN Append(calls, x) = 1 .. Len(calls) + 1 /\ DOMAIN calls = 1 .. Len(calls)
      /\ Len(calls) \in Nat /\ Append(calls, x) \in Seq(Text)
      /\ Append(calls, x)[Len(calls) + 1] = x
      /\ \A i \in DOMAIN calls : Append(calls, x)[i] = calls[i]
  <2> HIDE DEF x
  <2>1. calls \in Seq(Text) /\ x \in Text
    BY <1>1 DEF x
  <2> QED
    BY <2>1
<1> HIDE DEF x
<1>3. ToSet(Append(calls, x)) = ToSet(calls) \cup {x}
  <2>1. \A i \in DOMAIN Append(calls, x) : i \in DOMAIN calls \/ i = Len(calls) + 1
    BY <1>2
  <2>2. \A i \in DOMAIN calls : i \in DOMAIN Append(calls, x)
    BY <1>2
  <2>3. Len(calls) + 1 \in DOMAIN Append(calls, x)
    BY <1>2
  <2> QED
    BY <1>2, <2>1, <2>2, <2>3 DEF ToSet
<1> QED
  BY <1>1, <1>2, <1>3 DEF x

LEMMA HeardInTurn ==
  ASSUME Hearing
  PROVE  InTurn'
<1> DEFINE n == Len(calls)
<1>1. /\ ToSet(calls') = ToSet(calls) \cup {path_} /\ calls' \in Seq(Text)
      /\ DOMAIN calls' = 1 .. n + 1 /\ DOMAIN calls = 1 .. n /\ n \in Nat
      /\ calls'[n + 1] = path_
      /\ \A i \in DOMAIN calls : calls'[i] = calls[i]
  BY HeardCalls
<1> HIDE DEF n
<1>2. Tree' = Tree /\ stops' \subseteq stops \cup {path_}
  BY SameTree DEF Hearing, Heard, Onwards, Stopped
<1>3. /\ InTurn /\ path_ \notin ToSet(calls) /\ Parent(path_) = top.path
      /\ top.path = <<>> \/ top.path \in ToSet(calls)
  BY NotToldYet, AboutToTell DEF Hearing, Visited, BeingRead
<1>4. path_ \in {m.path : m \in Tree}
  BY AboutToTell, TopEntry DEF Hearing
<1>5. stops' \subseteq ToSet(calls') /\ ToSet(calls') \subseteq {m.path : m \in Tree}
  BY <1>1, <1>2, <1>3, <1>4 DEF InTurn
<1>6. \A i \in DOMAIN calls : calls[i] # path_
  BY <1>3 DEF ToSet
<1>7. \A i \in DOMAIN calls' : i \in DOMAIN calls \/ i = n + 1
  BY <1>1
<1>8. \A i, j \in DOMAIN calls' : calls'[i] = calls'[j] => i = j
  BY <1>1, <1>3, <1>6, <1>7 DEF InTurn, IsInjective
<1>9. ASSUME NEW i \in DOMAIN calls'
      PROVE  Parent(calls'[i]) = <<>> \/ Parent(calls'[i]) \in {calls'[j] : j \in 1 .. i - 1}
  <2>1. CASE i \in DOMAIN calls
    <3>1. \A j \in 1 .. i - 1 : j \in DOMAIN calls
      BY <1>1, <2>1
    <3> QED
      BY <1>1, <1>3, <2>1, <3>1 DEF InTurn
  <2>2. CASE i = n + 1
    <3>1. 1 .. i - 1 = DOMAIN calls
      BY <1>1, <2>2
    <3>2. \A p \in ToSet(calls) : p \in {calls'[j] : j \in 1 .. i - 1}
      BY <1>1, <3>1 DEF ToSet
    <3> QED
      BY <1>1, <1>3, <2>2, <3>2
  <2> QED
    BY <1>7, <2>1, <2>2
<1>10. \A p : Parent(p)' = Parent(p)
  OBVIOUS
<1> QED
  BY <1>1, <1>2, <1>5, <1>8, <1>9 DEF InTurn, IsInjective

LEMMA HeardReading ==
  ASSUME Hearing
  PROVE  BeingRead'
<1>1. /\ ToSet(calls') = ToSet(calls) \cup {path_} /\ Dirs' = Dirs
      /\ DOMAIN stack = 1 .. Len(stack) /\ Len(stack) \in Nat \ {0}
  BY HeardCalls, SameTree, AboutToTell DEF Hearing, Heard
<1>2. /\ BeingRead /\ InTurn /\ path_ \notin ToSet(calls) /\ Parent(path_) = top.path
      /\ \A s \in stops : Parent(s) # path_
      /\ \A k \in DOMAIN stack : stack[k].path # path_
      /\ \A k \in DOMAIN stack : stack[k].path = top.path => k = Len(stack)
  BY NotToldYet, AboutToTell DEF Hearing, Visited
<1>3. path_ \notin stops
  BY <1>2 DEF InTurn
<1>4. \A k \in DOMAIN stack' :
        \/ /\ k \in DOMAIN stack
           /\ stack'[k].path = stack[k].path /\ stack'[k].dir = stack[k].dir
        \/ /\ k = Len(stack) + 1
           /\ [path |-> stack'[k].path, ino |-> stack'[k].dir, type |-> "dir"] \in Dirs
           /\ stack'[k].path = path_ /\ Onwards
  BY DEF Hearing, Heard
<1>5. Onwards \/ Stopped
  BY DEF Hearing, Heard
<1>6. ASSUME NEW k \in DOMAIN stack'
      PROVE  /\ [path |-> stack'[k].path, ino |-> stack'[k].dir, type |-> "dir"] \in Dirs
             /\ stack'[k].path = <<>> \/ stack'[k].path \in ToSet(calls')
             /\ \A s \in stops' : stack'[k].path \notin {s, Parent(s)}
  <2>1. CASE k \in DOMAIN stack /\ stack'[k].path = stack[k].path /\ stack'[k].dir = stack[k].dir
    <3>1. \A s \in stops : stack[k].path \notin {s, Parent(s)}
      BY <1>2, <2>1 DEF BeingRead
    <3>2. Stopped => k # Len(stack)
      BY <1>1, <1>6 DEF Stopped
    <3>3. Stopped => stack[k].path # top.path
      BY <1>2, <2>1, <3>2
    <3>4. \A s \in stops' : stack[k].path \notin {s, Parent(s)}
      BY <1>2, <1>5, <2>1, <3>1, <3>3 DEF Onwards, Stopped
    <3> QED
      BY <1>1, <1>2, <2>1, <3>4 DEF BeingRead
  <2>2. CASE ~(k \in DOMAIN stack /\ stack'[k].path = stack[k].path /\ stack'[k].dir = stack[k].dir)
    <3>1. /\ [path |-> stack'[k].path, ino |-> stack'[k].dir, type |-> "dir"] \in Dirs
          /\ stack'[k].path = path_ /\ stops' = stops
      BY <1>4, <2>2 DEF Onwards
    <3> QED
      BY <1>1, <1>2, <1>3, <3>1
  <2> QED
    BY <2>1, <2>2
<1>7. ASSUME NEW j \in DOMAIN stack', NEW k \in DOMAIN stack', stack'[j].path = stack'[k].path
      PROVE  j = k
  BY <1>2, <1>4, <1>7 DEF BeingRead
<1> QED
  BY <1>1, <1>6, <1>7 DEF BeingRead
LEMMA HeardNoneEarly ==
  ASSUME Hearing
  PROVE  NoneEarly'
<1>1. /\ ToSet(calls') = ToSet(calls) \cup {path_} /\ image' = image /\ Dirs' = Dirs
      /\ Root' = Root /\ job \in Jobs /\ CaseDistinct /\ Dirs \subseteq Tree \cup {Root}
  BY HeardCalls, SameTree DEF Hearing, Heard, Walking, Dirs
<1>2. /\ BeingRead /\ NoneEarly /\ path_ \notin ToSet(calls) /\ Parent(path_) = top.path
      /\ \A s \in stops : Parent(s) # path_
      /\ \A d \in Dirs : Told(d) => d.path # path_
      /\ \A k \in DOMAIN stack : stack[k].path = top.path => k = Len(stack)
      /\ \A s \in stops : top.path \notin {s, Parent(s)}
      /\ \A d \in Dirs : d.path = top.path => d = AtHand
  BY NotToldYet, AboutToTell DEF Hearing, Visited
<1>3. /\ AtHand \in Dirs /\ AtHand.path = top.path /\ Len(stack) \in DOMAIN stack
      /\ top = stack[Len(stack)] /\ top.next \in Nat /\ Told(AtHand)
      /\ top.next \in DOMAIN image.ents[AtHand.ino] /\ AtHand.ino \in DOMAIN image.ents
      /\ current = image.ents[AtHand.ino][top.next]
      /\ BaseName(path_) = current.name
      /\ Place(AtHand.ino, current.name) = top.next
  BY AboutToTell DEF Hearing
<1>4. /\ \A e : Sound(e)' = Sound(e)
      /\ \A d, e : Node(d, e)' = Node(d, e)
      /\ \A d, a : Place(d, a)' = Place(d, a)
  BY <1>1 DEF Sound, Node, Place
<1>5. /\ \A s \in stops' : s \in stops \/ s = path_
      /\ \A k \in DOMAIN stack' :
           \/ /\ k \in DOMAIN stack /\ stack'[k].path = stack[k].path
              /\ stack'[k].next = IF k = Len(stack) THEN stack[k].next + 1 ELSE stack[k].next
           \/ stack'[k].path = path_
  BY DEF Hearing, Heard, Onwards, Stopped
<1>6. ASSUME NEW d \in Dirs, NEW i \in DOMAIN image.ents[d.ino],
             Sound(image.ents[d.ino][i]),
             Node(d, image.ents[d.ino][i]).path \in ToSet(calls')
      PROVE  /\ d = Root \/ d.path \in ToSet(calls')
             /\ ~\E k \in DOMAIN stack' : stack'[k].path = d.path /\ stack'[k].next <= i
             /\ d.path \notin stops'
             /\ ~\E s \in stops' : Parent(s) = d.path /\ Place(d.ino, BaseName(s)) < i
  <2> DEFINE e == image.ents[d.ino][i]
             p == Node(d, e).path
  <2>0. i \in Nat
    BY <1>1, Numbers
  <2>1. CASE p \in ToSet(calls)
    <3>1. Told(d) /\ ~Ahead(d, i) /\ d.path \notin stops /\ ~StopsBefore(d, i)
      BY <1>2, <1>6, <2>1 DEF NoneEarly
    <3>2. d.path # path_
      BY <1>2, <3>1
    <3>3. ASSUME NEW k \in DOMAIN stack', stack'[k].path = d.path, stack'[k].next <= i
          PROVE  FALSE
      <4>1. k \in DOMAIN stack /\ stack[k].path = d.path
        BY <1>5, <3>2, <3>3
      <4>2. CASE k = Len(stack)
        <5>1. stack'[k].next = top.next + 1 /\ stack[k].next = top.next
          BY <1>3, <1>5, <3>2, <3>3, <4>1, <4>2
        <5>2. stack[k].next <= i
          BY <1>3, <2>0, <3>3, <5>1
        <5> QED
          BY <3>1, <4>1, <5>2 DEF Ahead
      <4>3. CASE k # Len(stack)
        BY <1>5, <3>1, <3>2, <3>3, <4>1, <4>3 DEF Ahead
      <4> QED
        BY <4>2, <4>3
    <3>4. ASSUME NEW s \in stops', Parent(s) = d.path, Place(d.ino, BaseName(s)) < i
          PROVE  FALSE
      <4>1. CASE s \in stops
        BY <3>1, <3>4, <4>1 DEF StopsBefore
      <4>2. CASE s = path_
        <5>1. d = AtHand
          BY <1>2, <3>4, <4>2
        <5>2. top.next < i
          BY <1>3, <3>4, <4>2, <5>1
        <5>3. top.next <= i
          BY <1>3, <2>0, <5>2
        <5>4. Ahead(d, i)
          BY <1>3, <5>1, <5>3 DEF Ahead
        <5> QED
          BY <3>1, <5>4
      <4> QED
        BY <1>5, <4>1, <4>2
    <3>5. d.path \notin stops'
      BY <1>5, <3>1, <3>2
    <3> QED
      BY <1>1, <3>1, <3>3, <3>4, <3>5 DEF Told
  <2>2. CASE p = path_
    <3>1. d.path \in Text /\ IsName(e.name) /\ d.ino \in DOMAIN image.ents
      BY <1>1, DirFacts
    <3>2. Parent(p) = d.path /\ BaseName(p) = e.name
      <4>1. p = Join(d.path, e.name)
        BY DEF Node
      <4> HIDE DEF p, e
      <4> QED
        BY <3>1, <4>1, JoinFacts
    <3>3. d = AtHand
      BY <1>2, <2>2, <3>2
    <3>4. i = top.next
      <4>1. image.ents[AtHand.ino][i].name = image.ents[AtHand.ino][top.next].name
        BY <1>3, <2>2, <3>2, <3>3
      <4> QED
        BY <1>1, <1>3, <3>3, <4>1, PlaceIs
    <3>5. d.path # path_
      BY <1>2, <1>3, <3>3
    <3>6. ASSUME NEW k \in DOMAIN stack', stack'[k].path = d.path, stack'[k].next <= i
          PROVE  FALSE
      <4>1. k \in DOMAIN stack /\ stack[k].path = d.path
        BY <1>5, <3>5, <3>6
      <4>2. k = Len(stack)
        BY <1>2, <1>3, <3>3, <4>1
      <4>3. stack'[k].next = top.next + 1
        BY <1>3, <1>5, <3>5, <3>6, <4>2
      <4> QED
        BY <1>3, <3>4, <3>6, <4>3
    <3>7. ASSUME NEW s \in stops', Parent(s) = d.path, Place(d.ino, BaseName(s)) < i
          PROVE  FALSE
      <4>1. s = path_
        BY <1>2, <1>3, <1>5, <3>3, <3>7
      <4>2. top.next < top.next
        BY <1>3, <3>3, <3>4, <3>7, <4>1
      <4> QED
        BY <1>3, <4>2
    <3>8. d.path \notin stops'
      BY <1>2, <1>3, <1>5, <3>3, <3>5
    <3> QED
      BY <1>1, <1>3, <3>3, <3>6, <3>7, <3>8 DEF Told
  <2> QED
    BY <1>1, <1>6, <2>1, <2>2
<1>7. \A a : Parent(a)' = Parent(a) /\ BaseName(a)' = BaseName(a)
  OBVIOUS
<1> QED
  BY <1>1, <1>4, <1>6 DEF NoneEarly, Told, Ahead, StopsBefore

LEMMA HeardNoneLost ==
  ASSUME Hearing
  PROVE  NoneLost'
<1>1. /\ ToSet(calls') = ToSet(calls) \cup {path_} /\ image' = image /\ Dirs' = Dirs
      /\ Root' = Root /\ job \in Jobs /\ CaseDistinct /\ Dirs \subseteq Tree \cup {Root}
  BY HeardCalls, SameTree DEF Hearing, Heard, Walking, Dirs
<1>2. /\ NoneLost /\ Parent(path_) = top.path
      /\ \A d \in Dirs : d.path = top.path => d = AtHand
  BY AboutToTell DEF Hearing, Visited
<1>3. /\ AtHand \in Dirs /\ AtHand.path = top.path /\ Len(stack) \in DOMAIN stack
      /\ top = stack[Len(stack)] /\ top.next \in Nat
      /\ current = image.ents[AtHand.ino][top.next]
      /\ BaseName(path_) = current.name /\ Node(AtHand, current).path = path_
      /\ Place(AtHand.ino, current.name) = top.next
      /\ DOMAIN stack = 1 .. Len(stack) /\ Len(stack) \in Nat \ {0}
  BY AboutToTell DEF Hearing
<1>4. /\ \A e : Sound(e)' = Sound(e)
      /\ \A d, e : Node(d, e)' = Node(d, e)
      /\ \A d, a : Place(d, a)' = Place(d, a)
  BY <1>1 DEF Sound, Node, Place
<1>5. /\ Onwards \/ Stopped
      /\ \A k \in DOMAIN stack' : k \in DOMAIN stack =>
           /\ stack'[k].path = stack[k].path
           /\ stack'[k].next = IF k = Len(stack) THEN stack[k].next + 1 ELSE stack[k].next
  <2>1. \A k \in DOMAIN stack : k # Len(stack) + 1
    BY <1>3
  <2> QED
    BY <2>1 DEF Hearing, Heard
<1>6. stops \subseteq stops' /\ Node(AtHand, current) \in Tree
  BY <1>3, TopEntry, <1>5 DEF Hearing, Onwards, Stopped
<1>7. ASSUME NEW d \in Dirs, NEW i \in DOMAIN image.ents[d.ino],
             d = Root \/ d.path \in ToSet(calls'), Sound(image.ents[d.ino][i]),
             Node(d, image.ents[d.ino][i]).path \notin ToSet(calls'),
             d.path \notin stops'
      PROVE  \/ \E k \in DOMAIN stack' : stack'[k].path = d.path /\ stack'[k].next <= i
             \/ \E s \in stops' : Parent(s) = d.path /\ Place(d.ino, BaseName(s)) < i
  <2> DEFINE e == image.ents[d.ino][i]
             p == Node(d, e).path
  <2>0. i \in Nat /\ i >= 1
    BY <1>1, Numbers
  <2>1. CASE Told(d)
    <3>1. Ahead(d, i) \/ StopsBefore(d, i)
      BY <1>1, <1>2, <1>6, <1>7, <2>1 DEF NoneLost
    <3>2. CASE StopsBefore(d, i)
      BY <1>6, <3>2 DEF StopsBefore
    <3>3. ASSUME NEW k \in DOMAIN stack, stack[k].path = d.path, stack[k].next <= i
          PROVE  \/ \E x \in DOMAIN stack' : stack'[x].path = d.path /\ stack'[x].next <= i
                 \/ \E s \in stops' : Parent(s) = d.path /\ Place(d.ino, BaseName(s)) < i
      <4>1. CASE k # Len(stack)
        <5>1. k \in DOMAIN stack'
          BY <1>3, <1>5, <4>1 DEF Onwards, Stopped
        <5> QED
          BY <1>5, <3>3, <4>1, <5>1
      <4>2. CASE k = Len(stack)
        <5>1. d = AtHand /\ top.next <= i
          BY <1>2, <1>3, <3>3, <4>2
        <5>2. i # top.next
          BY <1>1, <1>3, <1>7, <5>1
        <5>3. top.next + 1 <= i /\ top.next < i
          BY <1>3, <2>0, <5>1, <5>2
        <5>4. CASE Onwards
          <6>1. k \in DOMAIN stack' /\ stack'[k].path = d.path /\ stack'[k].next = top.next + 1
            BY <1>3, <1>5, <3>3, <4>2, <5>4 DEF Onwards
          <6> QED
            BY <5>3, <6>1
        <5>5. CASE Stopped
          <6>1. path_ \in stops' /\ Parent(path_) = d.path /\ Place(d.ino, BaseName(path_)) < i
            BY <1>2, <1>3, <5>1, <5>3, <5>5 DEF Stopped
          <6> QED
            BY <6>1
        <5> QED
          BY <1>5, <5>4, <5>5
      <4> QED
        BY <4>1, <4>2
    <3> QED
      BY <3>1, <3>2, <3>3 DEF Ahead
  <2>2. CASE ~Told(d)
    <3>1. d.path = path_
      BY <1>1, <1>7, <2>2 DEF Told
    <3>2. d = Node(AtHand, current)
      BY <1>1, <1>3, <1>6, <3>1, OnePath
    <3>3. Onwards
      BY <1>5, <1>7, <3>1 DEF Stopped
    <3> QED
      BY <2>0, <3>1, <3>2, <3>3 DEF Onwards
  <2> QED
    BY <2>1, <2>2
<1>8. \A a : Parent(a)' = Parent(a) /\ BaseName(a)' = BaseName(a)
  OBVIOUS
<1> QED
  BY <1>1, <1>4, <1>7 DEF NoneLost, Told, Ahead, StopsBefore

LEMMA HeardVisited == Hearing => Visited'
BY HeardReading, HeardInTurn, HeardNoneLost, HeardNoneEarly DEF Visited
LEMMA BeginVisited ==
  ASSUME Walking, calls = <<>>, stops = {}, Begin, pc' = "walk"
  PROVE  Visited'
<1>1. /\ Readable(image.root) /\ UNCHANGED <<job, calls, stops>> /\ job \in Jobs
      /\ stack' = <<Frame(image.root, <<>>)>>
  BY DEF Begin, walkVars, Walking
<1>2. image' = image /\ Root' = Root /\ Dirs' = Dirs /\ Tree' = Tree
  BY <1>1, SameTree
<1>3. /\ DOMAIN stack' = {1} /\ stack'[1].path = <<>> /\ stack'[1].dir = image.root
      /\ stack'[1].next = 1
  <2>1. stack' = <<[dir |-> image.root, next |-> 1, path |-> <<>>]>>
    BY <1>1 DEF Frame
  <2> QED
    BY <2>1
<1>4. calls' = <<>> /\ DOMAIN calls' = {} /\ ToSet(calls') = {} /\ stops' = {}
      /\ calls' \in Seq(Text)
  BY <1>1 DEF ToSet
<1>5. BeingRead'
  <2>1. Root \in Dirs /\ Root = [path |-> <<>>, ino |-> image.root, type |-> "dir"]
    BY <1>1 DEF Root, Dirs
  <2> QED
    BY <1>2, <1>3, <1>4, <2>1 DEF BeingRead
<1>6. InTurn'
  BY <1>4 DEF InTurn, IsInjective
<1>7. NoneEarly'
  BY <1>4 DEF NoneEarly
<1>8. NoneLost'
  <2>1. ASSUME NEW i \in DOMAIN image.ents[Root.ino], Root \in Dirs
        PROVE  Ahead(Root, i)'
    <3>1. i \in Nat /\ i >= 1
      BY <1>1, <2>1, Numbers
    <3> QED
      BY <1>2, <1>3, <3>1 DEF Ahead, Root
  <2>2. \A d \in Dirs : Told(d)' => d = Root
    BY <1>2, <1>4 DEF Told
  <2> QED
    BY <1>2, <2>1, <2>2 DEF NoneLost
<1> QED
  BY <1>5, <1>6, <1>7, <1>8 DEF Visited

LEMMA DeliverHeard ==
  ASSUME Walking, CaseDistinct, Visited, Deliver
  PROVE  Hearing
<1>1. /\ EntryLeft /\ job' = job /\ calls' = Append(calls, path_) /\ stops' = stops
      /\ job.mode = "enum" /\ ~PassedOver(current)
  BY DEF Deliver, AtEntry, EntryLeft
<1>2. /\ AtHand \in Dirs /\ DOMAIN stack = 1 .. Len(stack) /\ Len(stack) \in Nat \ {0}
  BY <1>1, AboutToTell
<1>3. /\ Sound(current) /\ Node(AtHand, current) \in Tree
      /\ Node(AtHand, current).path = path_ /\ Node(AtHand, current).ino = current.ino
      /\ Node(AtHand, current).type = current.type
      /\ current.type = "dir" => current.ino \in DOMAIN image.ents
  BY <1>1, <1>2, TopEntry
<1>3a. current.ino \notin image.bad
  BY <1>3 DEF Sound
<1>3b. Node(AtHand, current) = [path |-> path_, ino |-> current.ino, type |-> current.type]
  BY DEF Node, AtHand, path_
<1> DEFINE n == Node(AtHand, current)
<1>3c. n \in Dirs <=> current.type = "dir" /\ current.ino \notin image.torn
  <2> HIDE DEF n
  <2>1. /\ n \in Tree /\ n.ino = current.ino /\ n.type = current.type
        /\ current.type = "dir" => current.ino \in DOMAIN image.ents
    BY <1>3 DEF n
  <2> QED
    BY <1>3a, <2>1 DEF Dirs, Readable
<1> DEFINE m == Len(stack)
           s == NextEntry(stack)
           f == Frame(current.ino, path_)
           in == current.type = "dir" /\ current.ino \notin image.torn
<1>4. stack' = IF in THEN Append(s, f) ELSE s
  BY DEF Deliver
<1>5. /\ s \in Seq(Frames) /\ Len(s) = m
      /\ \A k \in 1 .. m :
           /\ s[k].path = stack[k].path /\ s[k].dir = stack[k].dir
           /\ s[k].next = IF k = m THEN stack[k].next + 1 ELSE stack[k].next
  BY <1>1, NextKeeps DEF EntryLeft
<1>6. f.path = path_ /\ f.dir = current.ino /\ f.next = 1
  BY DEF Frame
<1>7. Node(AtHand, current) \in Dirs <=> in
  BY <1>3c
<1> HIDE DEF m, s, f
<1>9. m \in Nat /\ m # 0
  BY <1>2 DEF m
<1>10. CASE in
  <2>1. stack' = Append(s, f)
    BY <1>4, <1>10
  <2>2. /\ DOMAIN stack' = 1 .. m + 1
        /\ \A k \in 1 .. m : stack'[k] = s[k]
        /\ stack'[m + 1] = f
    BY <1>5, <1>9, <2>1
  <2>3. \A k \in DOMAIN stack' : k \in 1 .. m \/ k = m + 1
    BY <1>9, <2>2
  <2>4. Onwards
    <3>1. m + 1 \in DOMAIN stack' /\ \A k \in 1 .. m : k \in DOMAIN stack'
      BY <1>9, <2>2
    <3> QED
      BY <1>1, <1>2, <1>6, <2>2, <3>1 DEF Onwards, m
  <2>5. [path |-> f.path, ino |-> f.dir, type |-> "dir"] \in Dirs
    BY <1>3b, <1>6, <1>7, <1>10
  <2>6. ASSUME NEW k \in DOMAIN stack'
        PROVE  \/ /\ k \in DOMAIN stack
                  /\ stack'[k].path = stack[k].path /\ stack'[k].dir = stack[k].dir
                  /\ stack'[k].next = IF k = m THEN stack[k].next + 1 ELSE stack[k].next
               \/ /\ k = m + 1
                  /\ [path |-> stack'[k].path, ino |-> stack'[k].dir, type |-> "dir"] \in Dirs
                  /\ stack'[k].path = path_ /\ Onwards
    <3>1. CASE k \in 1 .. m
      BY <1>2, <1>5, <2>2, <3>1 DEF m
    <3>2. CASE k = m + 1
      BY <1>6, <2>2, <2>4, <2>5, <3>2
    <3> QED
      BY <2>3, <3>1, <3>2
  <2>7. Heard
    BY <1>1, <2>4, <2>6 DEF Heard, m
  <2> QED
    BY <1>1, <1>3, <2>7 DEF Hearing
<1>11. CASE ~in
  <2>1. stack' = s
    BY <1>4, <1>11
  <2>2. DOMAIN stack' = 1 .. m
    BY <1>5, <1>9, <2>1
  <2>3. Onwards
    BY <1>1, <1>2, <1>7, <1>11, <2>2 DEF Onwards, m
  <2>4. ASSUME NEW k \in DOMAIN stack'
        PROVE  /\ k \in DOMAIN stack
               /\ stack'[k].path = stack[k].path /\ stack'[k].dir = stack[k].dir
               /\ stack'[k].next = IF k = m THEN stack[k].next + 1 ELSE stack[k].next
    BY <1>2, <1>5, <2>1, <2>2 DEF m
  <2>5. Heard
    BY <1>1, <2>3, <2>4 DEF Heard, m
  <2> QED
    BY <1>1, <1>3, <2>5 DEF Hearing
<1> QED
  BY <1>10, <1>11

LEMMA StopHeard ==
  ASSUME Walking, CaseDistinct, Visited, DeliverStop
  PROVE  Hearing
<1>1. /\ EntryLeft /\ job' = job /\ calls' = Append(calls, path_)
      /\ stops' = stops \cup {path_} /\ stack' = Front(stack)
      /\ job.mode = "enum" /\ ~PassedOver(current) /\ stack # <<>>
  BY DEF DeliverStop, AfterStop, AtEntry, EntryLeft
<1>2. Sound(current)
  BY <1>1, AboutToTell, TopEntry
<1>3. /\ DOMAIN stack' = 1 .. Len(stack) - 1 /\ Len(stack) \in Nat \ {0}
      /\ DOMAIN stack = 1 .. Len(stack)
      /\ \A k \in DOMAIN stack' : k \in DOMAIN stack /\ stack'[k] = stack[k]
  BY <1>1, FrontStack
<1>4. \A k \in DOMAIN stack' : k # Len(stack)
  BY <1>3
<1>5. Stopped
  BY <1>1, <1>3 DEF Stopped
<1> QED
  BY <1>1, <1>2, <1>3, <1>4, <1>5 DEF Hearing, Heard

LEMMA InitEnum == Init => EnumInv
BY DEF Init, EnumInv

LEMMA StepVisited ==
  ASSUME MInv, EnumInv, Next, job.mode = "enum", CaseDistinct, pc' \in {"walk", "done"}
  PROVE  Visited'
<1>1. Walking /\ (pc \in {"walk", "done"} => Visited) /\ pc # "match"
      /\ (pc = "begin" => calls = <<>> /\ stops = {})
  BY DEF MInv, EnumInv, Visited
<1>2. CASE Begin
  BY <1>1, <1>2, BeginVisited DEF Begin
<1>3. CASE PassOver
  <2>1. /\ EntryLeft /\ PassedOver(current) /\ Visited
        /\ stack' = NextEntry(stack) /\ UNCHANGED <<job, calls, stops>>
    BY <1>1, <1>3 DEF PassOver, AtEntry, EntryLeft, walkVars
  <2>2. ~Sound(current)
    BY <1>1, <2>1, AboutToTell, TopEntry
  <2> QED
    BY <1>1, <2>1, <2>2, PassVisited
<1>4. CASE Leave
  <2>1. /\ stack # <<>> /\ Visited /\ stack' = Front(stack) /\ UNCHANGED <<job, calls, stops>>
        /\ top.next > Len(image.ents[top.dir])
    BY <1>1, <1>4 DEF Leave, walkVars
  <2>2. ~EntryLeft
    <3>1. stack \in Seq(Frames) /\ Len(stack) \in DOMAIN stack
      BY <1>1, <2>1 DEF Walking
    <3>2. top \in Frames /\ job \in Jobs
      BY <1>1, <3>1 DEF top, Walking
    <3>3. top.next \in Nat /\ top.dir \in DOMAIN image.ents
      BY <3>2 DEF Frames
    <3> DEFINE e == image.ents[top.dir]
    <3>4. e \in Seq([name : Text, ino : DOMAIN image.ents, type : {"dir"}]
                    \cup [name : Text, ino : Nat, type : {"file"}])
      BY <3>2, <3>3, JobsAreText DEF image
    <3> HIDE DEF e
    <3>5. Len(e) \in Nat
      BY <3>4
    <3> QED
      BY <2>1, <3>3, <3>5 DEF EntryLeft, e
  <2> QED
    BY <1>1, <2>1, <2>2, LeaveVisited
<1>5. CASE End
  BY <1>1, <1>5, SameVisit DEF End, walkVars
<1>6. CASE Deliver
  BY <1>1, <1>6, DeliverHeard, HeardVisited DEF Deliver, AtEntry
<1>7. CASE DeliverStop
  BY <1>1, <1>7, StopHeard, HeardVisited DEF DeliverStop, AtEntry
<1>8. /\ ~ParseArgs /\ ~UnpackDir /\ ~UnpackFile /\ ~TryMask /\ ~Comparing /\ ~NotNeeded
      /\ ~EnterDir /\ ~FoundDir /\ ~CopyFile /\ ~HostFails
  BY <1>1 DEF ParseArgs, UnpackDir, UnpackFile, TryMask, Comparing, NotNeeded, EnterDir,
              FoundDir, CopyFile, HostFails
<1> QED
  BY <1>2, <1>3, <1>4, <1>5, <1>6, <1>7, <1>8 DEF Next

LEMMA NextEnum ==
  ASSUME MInv, EnumInv, Next
  PROVE  EnumInv'
<1> SUFFICES ASSUME job'.mode = "enum", CaseDistinct'
             PROVE  /\ pc' \in {"args", "begin", "walk", "done", "exit"}
                    /\ pc' \in {"args", "begin", "exit"} =>
                         stack' = <<>> /\ calls' = <<>> /\ stops' = {}
                    /\ pc' \in {"walk", "done"} => Visited'
                    /\ pc' = "done" => stack' = <<>>
  BY DEF EnumInv, Visited
<1>1. job' = job /\ job.mode = "enum" /\ CaseDistinct
  BY StepSame, SameTree
<1>2. /\ pc \in {"args", "begin", "walk", "done", "exit"}
      /\ (pc \in {"args", "begin"} => stack = <<>> /\ calls = <<>> /\ stops = {})
  BY <1>1 DEF EnumInv
<1>3. ParseArgs \/ Begin \/ PassOver \/ Leave \/ End \/ Deliver \/ DeliverStop
  BY <1>1, <1>2 DEF Next, UnpackDir, UnpackFile, TryMask, Comparing, NotNeeded, EnterDir,
                    FoundDir, CopyFile, HostFails
<1>4. /\ pc' \in {"args", "begin", "walk", "done", "exit"}
      /\ pc' \in {"args", "begin", "exit"} => stack' = <<>> /\ calls' = <<>> /\ stops' = {}
      /\ pc' = "done" => stack' = <<>>
  BY <1>2, <1>3 DEF ParseArgs, Begin, PassOver, Leave, End, Deliver, DeliverStop, AtEntry,
                    walkVars
<1> QED
  BY <1>1, <1>4, StepVisited

LEMMA StutterEnum ==
  ASSUME EnumInv, UNCHANGED vars
  PROVE  EnumInv'
<1>1. UNCHANGED <<job, stack, calls, stops, pc>>
  BY DEF vars
<1>2. CaseDistinct' = CaseDistinct /\ (Visited => Visited')
  BY <1>1, SameTree, SameVisit
<1> QED
  BY <1>1, <1>2 DEF EnumInv, Visited
-----------------------------------------------------------------------------
(* What the invariant says of the enumeration                              *)

(* What was told of was told of through all the directories above it, and  *)
(* none of those was stopped at.                                           *)
LEMMA ToldThrough ==
  ASSUME Walking, Visited, CaseDistinct
  PROVE  \A n \in Tree : n.path \in ToSet(calls) =>
           \A q \in Ancestors(n.path) \ {<<>>} :
             q \in ToSet(calls) /\ (q # n.path => q \notin stops)
<1> DEFINE Fine(n) == n.path \in ToSet(calls) =>
             \A q \in Ancestors(n.path) \ {<<>>} :
               q \in ToSet(calls) /\ (q # n.path => q \notin stops)
           S == {n \in Nodes : n = Root \/ Fine(n)}
<1>1. job \in Jobs /\ Root \in Nodes /\ NoneEarly
  BY TreeNodes DEF Walking, Visited
<1>2. Ancestors(<<>>) \ {<<>>} = {}
  <2>1. Cuts(<<>>) = {}
    BY DEF Cuts
  <2> QED
    BY <2>1 DEF Ancestors
<1>3. ASSUME NEW d \in Tree \cup {Root}, d \in S, NEW n \in Below(d) PROVE n \in S
  <2>1. n \in Nodes /\ d \in Nodes /\ d.path \in Text
    BY <1>1, <1>3, TreeGrows, TreeNodes DEF Nodes
  <2>2. d.type = "dir" /\ Readable(d.ino)
        /\ \E i \in DOMAIN image.ents[d.ino] :
             Sound(image.ents[d.ino][i]) /\ n = Node(d, image.ents[d.ino][i])
    BY <1>1, <2>1, BelowFacts
  <2>3. PICK i \in DOMAIN image.ents[d.ino] :
          Sound(image.ents[d.ino][i]) /\ n = Node(d, image.ents[d.ino][i])
    BY <2>2
  <2> DEFINE a == image.ents[d.ino][i].name
  <2>4. d \in Dirs
    BY <2>2 DEF Dirs
  <2>5. IsName(a) /\ n.path = Join(d.path, a)
    BY <1>1, <2>3, <2>4, DirFacts DEF Node
  <2> HIDE DEF a
  <2>6. Ancestors(n.path) \ {<<>>} = {n.path} \cup (Ancestors(d.path) \ {<<>>})
    BY <2>1, <2>5, JoinAncestors
  <2>7. ASSUME n.path \in ToSet(calls), NEW q \in Ancestors(n.path) \ {<<>>}, q # n.path
        PROVE  q \in ToSet(calls) /\ q \notin stops
    <3>1. Told(d) /\ d.path \notin stops
      BY <2>3, <2>4, <2>7 DEF Visited, NoneEarly
    <3>2. q \in Ancestors(d.path) \ {<<>>}
      BY <2>6, <2>7
    <3>3. d # Root
      BY <1>2, <3>2 DEF Root
    <3>4. d.path \in ToSet(calls) /\ Fine(d)
      BY <1>3, <3>1, <3>3 DEF Told
    <3> QED
      BY <3>1, <3>2, <3>4
  <2> QED
    BY <2>1, <2>7
<1>4. Root \in S
  BY <1>1
<1> HIDE DEF S
<1>5. Tree \subseteq S
  BY <1>1, <1>3, <1>4, TreeInduction
<1>6. \A n \in Tree : n # Root
  BY <1>1, TreePath DEF Root
<1> QED
  BY <1>5, <1>6 DEF S

LEMMA InoIs ==
  ASSUME job \in Jobs, CaseDistinct, NEW d \in Dirs
  PROVE  InoAt(d.path) = d.ino
<1>1. CASE d = Root
  BY <1>1 DEF InoAt, Root
<1>2. CASE d # Root
  <2>1. d \in Tree /\ d.path # <<>>
    BY <1>2, TreePath DEF Dirs
  <2>2. \A n \in Tree : n.path = d.path => n = d
    BY <2>1, OnePath
  <2> QED
    BY <2>1, <2>2 DEF InoAt
<1> QED
  BY <1>1, <1>2

(* Where the entry of a stop stands                                        *)
LEMMA StopPlace ==
  ASSUME Walking, CaseDistinct, Visited, NEW s \in stops, NEW d \in Dirs, Parent(s) = d.path
  PROVE  /\ s # <<>> /\ s \in ToSet(calls)
         /\ Place(d.ino, BaseName(s)) \in Nat
         /\ InoAt(Parent(s)) = d.ino
<1>1. s \in ToSet(calls) /\ job \in Jobs
  BY DEF Visited, InTurn, Walking
<1>2. s # <<>> /\ \E c \in Dirs : \E j \in DOMAIN image.ents[c.ino] :
                    Parent(s) = c.path /\ BaseName(s) = image.ents[c.ino][j].name
  BY <1>1, ToldAbove DEF Visited
<1>3. PICK c \in Dirs : \E j \in DOMAIN image.ents[c.ino] :
                    Parent(s) = c.path /\ BaseName(s) = image.ents[c.ino][j].name
  BY <1>2
<1>4. c = d
  BY <1>1, <1>3, OnePath DEF Dirs
<1>5. PICK j \in DOMAIN image.ents[d.ino] : BaseName(s) = image.ents[d.ino][j].name
  BY <1>3, <1>4
<1>6. j \in Nat /\ d.ino \in DOMAIN image.ents
  BY <1>1, Numbers DEF Dirs, Readable
<1>7. Place(d.ino, BaseName(s)) = j
  BY <1>1, <1>5, <1>6, PlaceIs
<1> QED
  BY <1>1, <1>2, <1>6, <1>7, InoIs

LEMMA ToldNotCut ==
  ASSUME Walking, CaseDistinct, Visited, NEW n \in Tree, n.path \in ToSet(calls),
         NEW s \in stops
  PROVE  ~CutBy(s, n.path)
<1>1. s # <<>> /\ s \in ToSet(calls)
  <2>1. s \in ToSet(calls)
    BY DEF Visited, InTurn
  <2> QED
    BY <2>1, ToldAbove DEF Visited
<1>2. ~(n.path # s /\ s \in Ancestors(n.path))
  BY <1>1, ToldThrough
<1>3. ASSUME NEW m \in Tree, Parent(m.path) = Parent(s), Within(n.path, m.path),
             Place(InoAt(Parent(s)), BaseName(m.path)) > Place(InoAt(Parent(s)), BaseName(s))
      PROVE  FALSE
  <2>1. m.path # <<>> /\ m.path \in Ancestors(n.path) /\ job \in Jobs
    BY <1>3, TreePath DEF Within, Ancestors, Walking
  <2>2. m.path \in ToSet(calls)
    BY <2>1, ToldThrough
  <2>3. PICK d \in Dirs : \E i \in DOMAIN image.ents[d.ino] :
          /\ Parent(m.path) = d.path /\ BaseName(m.path) = image.ents[d.ino][i].name
          /\ ~StopsBefore(d, i)
    BY <2>2, ToldAbove DEF Visited
  <2>4. PICK i \in DOMAIN image.ents[d.ino] :
          /\ Parent(m.path) = d.path /\ BaseName(m.path) = image.ents[d.ino][i].name
          /\ ~StopsBefore(d, i)
    BY <2>3
  <2>5. Parent(s) = d.path /\ InoAt(Parent(s)) = d.ino
        /\ Place(d.ino, BaseName(s)) \in Nat
    BY <1>3, <2>4, StopPlace
  <2>6. i \in Nat /\ d.ino \in DOMAIN image.ents
    BY <2>1, Numbers DEF Dirs, Readable
  <2>7. Place(d.ino, BaseName(m.path)) = i
    BY <2>1, <2>4, <2>6, PlaceIs
  <2>8. Place(d.ino, BaseName(s)) < i
    BY <1>3, <2>5, <2>6, <2>7
  <2> QED
    BY <2>4, <2>5, <2>8 DEF StopsBefore
<1> QED
  BY <1>2, <1>3 DEF CutBy

LEMMA AllTold ==
  ASSUME Walking, CaseDistinct, Visited, stack = <<>>
  PROVE  \A n \in Tree : (\A s \in stops : ~CutBy(s, n.path)) => n.path \in ToSet(calls)
<1> DEFINE Fine(n) == (\A s \in stops : ~CutBy(s, n.path)) => n.path \in ToSet(calls)
           S == {n \in Nodes : n = Root \/ Fine(n)}
<1>1. job \in Jobs /\ Root \in Nodes /\ NoneLost
  BY TreeNodes DEF Walking, Visited
<1>2. \A s \in stops : s \in ToSet(calls) /\ s # <<>>
  <2>1. \A s \in stops : s \in ToSet(calls)
    BY DEF Visited, InTurn
  <2> QED
    BY <2>1, ToldAbove DEF Visited
<1>3. ASSUME NEW d \in Tree \cup {Root}, d \in S, NEW n \in Below(d) PROVE n \in S
  <2>1. n \in Nodes /\ n \in Tree /\ d \in Nodes /\ d.path \in Text
    BY <1>1, <1>3, TreeGrows, TreeNodes DEF Nodes
  <2>2. d.type = "dir" /\ Readable(d.ino)
        /\ \E i \in DOMAIN image.ents[d.ino] :
             Sound(image.ents[d.ino][i]) /\ n = Node(d, image.ents[d.ino][i])
    BY <1>1, <2>1, BelowFacts
  <2>3. PICK i \in DOMAIN image.ents[d.ino] :
          Sound(image.ents[d.ino][i]) /\ n = Node(d, image.ents[d.ino][i])
    BY <2>2
  <2> DEFINE a == image.ents[d.ino][i].name
  <2>4. d \in Dirs /\ d.ino \in DOMAIN image.ents
    BY <2>2 DEF Dirs, Readable
  <2>5. IsName(a) /\ n.path = Join(d.path, a) /\ Place(d.ino, a) = i /\ i \in Nat
    BY <1>1, <2>3, <2>4, DirFacts, PlaceIs, Numbers DEF Node
  <2> HIDE DEF a
  <2>6. /\ Ancestors(n.path) \ {<<>>} = {n.path} \cup (Ancestors(d.path) \ {<<>>})
        /\ Parent(n.path) = d.path /\ BaseName(n.path) = a
    BY <2>1, <2>5, JoinAncestors, JoinFacts
  <2>7. SUFFICES ASSUME \A s \in stops : ~CutBy(s, n.path), n.path \notin ToSet(calls)
                 PROVE  FALSE
    BY <2>1
  <2>8. \A s \in stops : s # n.path
    BY <1>2, <2>7
  <2>9. Told(d)
    <3>1. CASE d # Root
      <4>1. ASSUME NEW s \in stops, CutBy(s, d.path) PROVE FALSE
        <5>1. CASE d.path # s /\ s \in Ancestors(d.path)
          BY <1>2, <2>6, <2>7, <2>8, <4>1, <5>1 DEF CutBy
        <5>2. ASSUME NEW m \in Tree, Parent(m.path) = Parent(s), Within(d.path, m.path),
                     Place(InoAt(Parent(s)), BaseName(m.path))
                       > Place(InoAt(Parent(s)), BaseName(s))
              PROVE  FALSE
          <6>1. m.path # <<>> /\ m.path \in Ancestors(d.path)
            BY <1>1, <5>2, TreePath DEF Within, Ancestors
          <6>2. Within(n.path, m.path)
            BY <2>6, <6>1 DEF Within
          <6>3. CutBy(s, n.path)
            BY <5>2, <6>2 DEF CutBy
          <6> QED
            BY <2>7, <6>3
        <5> QED
          BY <4>1, <5>1, <5>2 DEF CutBy
      <4> QED
        BY <1>3, <3>1, <4>1 DEF Told
    <3> QED
      BY <3>1 DEF Told
  <2>10. d.path \in stops \/ StopsBefore(d, i)
    <3>1. ~Ahead(d, i)
      BY DEF Ahead
    <3> QED
      BY <1>1, <2>3, <2>4, <2>7, <2>9, <3>1 DEF NoneLost
  <2>11. CASE d.path \in stops
    <3>1. d.path \in Ancestors(n.path)
      BY <1>2, <2>6, <2>11 DEF Ancestors
    <3>2. CutBy(d.path, n.path)
      BY <2>8, <2>11, <3>1 DEF CutBy
    <3> QED
      BY <2>7, <2>11, <3>2
  <2>12. ASSUME NEW s \in stops, Parent(s) = d.path, Place(d.ino, BaseName(s)) < i
         PROVE  FALSE
    <3>1. InoAt(Parent(s)) = d.ino /\ Place(d.ino, BaseName(s)) \in Nat
      BY <2>4, <2>12, StopPlace
    <3>2. Place(InoAt(Parent(s)), BaseName(n.path)) > Place(InoAt(Parent(s)), BaseName(s))
      BY <2>5, <2>6, <2>12, <3>1
    <3>3. Within(n.path, n.path)
      BY DEF Within
    <3>4. CutBy(s, n.path)
      BY <2>1, <2>6, <2>12, <3>2, <3>3 DEF CutBy
    <3> QED
      BY <2>7, <3>4
  <2> QED
    BY <2>10, <2>11, <2>12 DEF StopsBefore
<1>4. Root \in S
  BY <1>1
<1> HIDE DEF S
<1>5. Tree \subseteq S
  BY <1>1, <1>3, <1>4, TreeInduction
<1>6. \A n \in Tree : n # Root
  BY <1>1, TreePath DEF Root
<1> QED
  BY <1>5, <1>6 DEF S

LEMMA EnumTold == MInv /\ EnumInv => StopCutsDirectory
<1> SUFFICES ASSUME MInv, EnumInv, job.mode = "enum", CaseDistinct
             PROVE  /\ \A i \in DOMAIN calls :
                         Parent(calls[i]) = <<>> \/ Parent(calls[i]) \in {calls[j] : j \in 1 .. i - 1}
                    /\ IsInjective(calls)
                    /\ pc = "done" =>
                         ToSet(calls) = {n.path : n \in {t \in Tree :
                                           \A s \in stops : ~CutBy(s, t.path)}}
  BY DEF StopCutsDirectory
<1>1. CASE pc \in {"args", "begin", "exit"}
  <2>1. calls = <<>> /\ DOMAIN calls = {}
    BY <1>1 DEF EnumInv
  <2> QED
    BY <1>1, <2>1 DEF IsInjective
<1>2. CASE pc \in {"walk", "done"}
  <2>1. Visited /\ Walking /\ InTurn
    BY <1>2 DEF EnumInv, Visited, MInv
  <2>2. ASSUME pc = "done"
        PROVE  ToSet(calls) = {n.path : n \in {t \in Tree : \A s \in stops : ~CutBy(s, t.path)}}
    <3>1. stack = <<>>
      BY <2>2 DEF EnumInv
    <3>2. \A n \in Tree : (\A s \in stops : ~CutBy(s, n.path)) => n.path \in ToSet(calls)
      BY <2>1, <3>1, AllTold
    <3>3. \A n \in Tree : n.path \in ToSet(calls) => \A s \in stops : ~CutBy(s, n.path)
      BY <2>1, ToldNotCut
    <3>4. \A p \in ToSet(calls) : \E n \in Tree : n.path = p
      BY <2>1 DEF InTurn
    <3> QED
      BY <3>2, <3>3, <3>4
  <2> QED
    BY <2>1, <2>2 DEF InTurn
<1>3. pc \in {"args", "begin", "exit", "walk", "done"}
  BY DEF EnumInv
<1> QED
  BY <1>1, <1>2, <1>3

(* The callback of an enumeration is told of every directory before what   *)
(* is in it and of nothing twice, and at the end of everything that the    *)
(* places where it asked to stop do not cut off (pfs_parsers.c:57,         *)
(* pfs_lookup.c:127): whatever the tree and wherever it stops.             *)
THEOREM TellsAll == Spec => []StopCutsDirectory
<1>1. Init => MInv /\ EnumInv
  BY InitMatched, InitEnum
<1>2. MInv /\ EnumInv /\ [Next]_vars => (MInv /\ EnumInv)'
  <2>1. ASSUME MInv, EnumInv, Next PROVE MInv' /\ EnumInv'
    BY <2>1, NextWalking, NextMatched, NextEnum DEF MInv
  <2>2. ASSUME MInv, EnumInv, UNCHANGED vars PROVE MInv' /\ EnumInv'
    BY <2>2, StutterMatched, StutterEnum
  <2> QED
    BY <2>1, <2>2
<1> QED
  BY <1>1, <1>2, EnumTold, PTL DEF Spec
=============================================================================
