--------------------------- MODULE UnpackPostProofs ---------------------------
(***************************************************************************)
(* Proofs about the conversion of an unpacked directory, for any files,    *)
(* images, options, and any number of faults, restarts and names returned  *)
(* twice.  IInv of UnpackPostProps is inductive.                           *)
(***************************************************************************)
EXTENDS UnpackPostProps, TLAPS

USE DEF Outside, Replacing

-----------------------------------------------------------------------------
(* Names: a name and its temporary *)

LEMMA TmpName ==
  ASSUME NEW c \in Names, NEW x \in Suffixes
  PROVE  /\ Append(c, x) \in Names /\ Append(c, x) # c /\ Append(c, x)[1] = c[1]
         /\ Above(c, Append(c, x))
         /\ \A m \in Names : Above(m, Append(c, x)) => m = c \/ Above(m, c)
<1> DEFINE t == Append(c, x)
<1>1. /\ c \in Seq(Files \cup Suffixes) /\ Len(c) \in Nat /\ Len(c) >= 1
      /\ t \in Seq(Files \cup Suffixes) /\ Len(t) = Len(c) + 1
      /\ \A i \in 1 .. Len(c) : t[i] = c[i]
  BY DEF Names
<1> HIDE DEF t
<1>2. t \in Names /\ t # c /\ t[1] = c[1]
  <2>1. t # c /\ t # <<>>
    BY <1>1
  <2>2. t[1] = c[1] /\ c[1] \in Files
    BY <1>1 DEF Names
  <2> QED
    BY <1>1, <2>1, <2>2 DEF Names
<1>3. Above(c, t)
  BY <1>1 DEF Above
<1>4. ASSUME NEW m \in Names, Above(m, t)
      PROVE  m = c \/ Above(m, c)
  <2>1. /\ m \in Seq(Files \cup Suffixes) /\ Len(m) \in Nat /\ Len(m) <= Len(c)
        /\ \A i \in 1 .. Len(m) : m[i] = c[i]
    BY <1>1, <1>4 DEF Names, Above
  <2>2. CASE Len(m) < Len(c)
    BY <2>1, <2>2 DEF Above
  <2>3. CASE Len(m) = Len(c)
    BY <1>1, <2>1, <2>3
  <2> QED
    BY <1>1, <2>1, <2>2, <2>3
<1> QED
  BY <1>2, <1>3, <1>4 DEF t

LEMMA Longer ==
  ASSUME NEW m \in Names, NEW n \in Names, Above(m, n)
  PROVE  m # n /\ m[1] = n[1] /\ ~Above(n, m)
BY DEF Names, Above

LEMMA AboveTransitive ==
  ASSUME NEW l \in Names, NEW m \in Names, NEW n \in Names, Above(l, m), Above(m, n)
  PROVE  Above(l, n)
BY DEF Names, Above

-----------------------------------------------------------------------------
(* The steps of a conversion as changes of the sets of names and of sound  *)
(* names: c is the name the callback was called with, t its temporary.     *)

LEMMA MoreSound ==
  ASSUME NEW names, NEW sound, NEW names2, NEW sound2, NEW f,
         Guarded(names, sound, f), sound \subseteq sound2,
         \A n \in names2 : n \in names \/ n \in sound2
  PROVE  Guarded(names2, sound2, f)
BY DEF Guarded

(* The temporary is cut to nothing, or goes.                               *)
LEMMA TmpLost ==
  ASSUME NEW names \in SUBSET Names, NEW sound \in SUBSET names, NEW f,
         NEW c \in names, NEW x \in Suffixes, Guarded(names, sound, f),
         NEW names2 \in SUBSET Names, NEW sound2,
         sound2 = sound \ {Append(c, x)}, names2 \subseteq names \cup {Append(c, x)}
  PROVE  Guarded(names2, sound2, f)
<1> DEFINE t == Append(c, x)
<1>1. /\ t \in Names /\ t # c /\ t[1] = c[1] /\ Above(c, t)
      /\ \A m \in Names : Above(m, t) => m = c \/ Above(m, c)
  BY TmpName
<1>2. PICK n \in sound : n[1] = f /\ \A m \in names : Above(m, n) => m \in sound
  BY DEF Guarded
<1>3. CASE c \in sound
  <2>1. CASE n = t
    <3>1. c \in sound2 /\ c[1] = f
      BY <1>1, <1>2, <1>3, <2>1
    <3>2. ASSUME NEW m \in names2, Above(m, c) PROVE m \in sound2
      <4>1. Above(m, t) /\ m # t
        BY <1>1, <3>2, AboveTransitive DEF Above, Names
      <4> QED
        BY <1>2, <2>1, <3>2, <4>1
    <3> QED
      BY <3>1, <3>2 DEF Guarded
  <2>2. CASE n # t /\ Above(t, n)
    <3>1. c[1] = f
      BY <1>1, <1>2, <2>2 DEF Above, Names
    <3>2. ASSUME NEW m \in names2, Above(m, c) PROVE m \in sound2
      <4>1. Above(m, t) /\ m # t
        BY <1>1, <3>2, AboveTransitive DEF Above, Names
      <4>2. Above(m, n)
        BY <1>1, <2>2, <4>1, AboveTransitive
      <4> QED
        BY <1>2, <3>2, <4>1, <4>2
    <3> QED
      BY <1>1, <1>3, <3>1, <3>2 DEF Guarded
  <2>3. CASE n # t /\ ~Above(t, n)
    BY <1>2, <2>3 DEF Guarded
  <2> QED
    BY <2>1, <2>2, <2>3
<1>4. CASE c \notin sound
  <2>1. n # t
    BY <1>1, <1>2, <1>4
  <2>2. ~Above(t, n)
    BY <1>1, <1>2, <1>4, AboveTransitive
  <2> QED
    BY <1>2, <2>1, <2>2 DEF Guarded
<1> QED
  BY <1>3, <1>4

(* The name goes while its temporary is complete.                          *)
LEMMA NameLost ==
  ASSUME NEW names \in SUBSET Names, NEW sound \in SUBSET names, NEW f,
         NEW c \in names, NEW x \in Suffixes, Guarded(names, sound, f),
         Append(c, x) \in sound
  PROVE  Guarded(names \ {c}, sound \ {c}, f)
<1> DEFINE t == Append(c, x)
<1>1. /\ t \in Names /\ t # c /\ t[1] = c[1] /\ Above(c, t)
      /\ \A m \in Names : Above(m, t) => m = c \/ Above(m, c)
  BY TmpName
<1>2. PICK n \in sound : n[1] = f /\ \A m \in names : Above(m, n) => m \in sound
  BY DEF Guarded
<1>3. CASE n = c
  BY <1>1, <1>2, <1>3 DEF Guarded
<1>4. CASE n # c
  BY <1>2, <1>4 DEF Guarded
<1> QED
  BY <1>3, <1>4

(* The temporary takes the name.                                           *)
LEMMA NameBack ==
  ASSUME NEW names \in SUBSET Names, NEW sound \in SUBSET names, NEW f,
         NEW c \in Names, NEW x \in Suffixes, Guarded(names, sound, f),
         Append(c, x) \in sound
  PROVE  Guarded((names \ {Append(c, x)}) \cup {c}, (sound \ {Append(c, x)}) \cup {c}, f)
<1> DEFINE t == Append(c, x)
<1>1. /\ t \in Names /\ t # c /\ t[1] = c[1] /\ Above(c, t)
      /\ \A m \in Names : Above(m, t) => m = c \/ Above(m, c)
  BY TmpName
<1>2. PICK n \in sound : n[1] = f /\ \A m \in names : Above(m, n) => m \in sound
  BY DEF Guarded
<1>3. CASE n = t
  <2>1. ASSUME NEW m \in names \cup {c}, Above(m, c) PROVE m \in sound \ {t}
    <3>1. Above(m, t) /\ m # t /\ m # c
      BY <1>1, <2>1, AboveTransitive DEF Above, Names
    <3> QED
      BY <1>2, <1>3, <2>1, <3>1
  <2> QED
    BY <1>1, <1>2, <1>3, <2>1 DEF Guarded
<1>4. CASE n # t
  BY <1>2, <1>4 DEF Guarded
<1> QED
  BY <1>3, <1>4

(* A name of which a fault took what was there: another file is not        *)
(* concerned.                                                              *)
LEMMA OtherFile ==
  ASSUME NEW names \in SUBSET Names, NEW sound \in SUBSET names, NEW f,
         NEW c \in Names, c[1] # f, Guarded(names, sound, f)
  PROVE  /\ Guarded(names, sound \ {c}, f)
         /\ Guarded(names \ {c}, sound \ {c}, f)
<1>1. PICK n \in sound : n[1] = f /\ \A m \in names : Above(m, n) => m \in sound
  BY DEF Guarded
<1>2. n # c /\ ~Above(c, n)
  BY <1>1 DEF Above, Names
<1> QED
  BY <1>1, <1>2 DEF Guarded

-----------------------------------------------------------------------------
(* The directory as a function *)

LEMMA Gone ==
  ASSUME NEW d, NEW n
  PROVE  /\ DOMAIN Unlink(d, n) = DOMAIN d \ {n}
         /\ \A m \in DOMAIN d \ {n} : Unlink(d, n)[m] = d[m]
BY DEF Unlink, Restrict

LEMMA Made ==
  ASSUME NEW stage, cur \in DOMAIN dir, dir[cur] \in Contents
  PROVE  /\ Result(stage) \in Contents /\ Torn(Result(stage)) \in Contents
         /\ Result(stage).of = dir[cur].of /\ Torn(Result(stage)).of = dir[cur].of
         /\ Result(stage).whole = dir[cur].whole /\ ~Torn(Result(stage)).whole
BY DEF Result, Torn, Contents, Forms

LEMMA TmpOf ==
  ASSUME NEW stage \in Replacing
  PROVE  \E x \in Suffixes : Tmp(stage) = Append(cur, x)
BY DEF Tmp, Suffixes

(* What runs between the file operations, and where the pass is then.      *)
Quiet == Outside \cup {"decrypt", "unfself", "downgrade", "rewrap", "backport"}
LEMMA AfterQuiet ==
  ASSUME NEW stage \in Replacing \cup {"downgrade", "backport"}
  PROVE  After(stage) \in Quiet
<1> DEFINE at == CHOOSE i \in 1 .. 5 : Stages[i] = stage
<1>1. at \in 1 .. 5 /\ Stages[at] = stage
  <2>1. \E i \in 1 .. 5 : Stages[i] = stage
    <3>1. /\ Stages[1] = "decrypt" /\ Stages[2] = "unfself" /\ Stages[3] = "downgrade"
          /\ Stages[4] = "rewrap" /\ Stages[5] = "backport"
      BY DEF Stages
    <3> QED
      BY <3>1
  <2> QED
    BY <2>1
<1>2. \A i \in 2 .. 6 : Stages[i] \in Quiet
  BY DEF Stages, Quiet
<1> HIDE DEF at
<1>3. 1 + at \in 2 .. 6
  BY <1>1
<1> QED
  BY <1>2, <1>3 DEF After, at

LEMMA QuietSteps ==
  ASSUME pc' \in Quiet
  PROVE  Steps' /\ ~Rewriting' /\ Returning' = {}
<1>1. /\ ~Rewriting'
      /\ \A stage \in Replacing : pc' \notin {Writing(stage), Removing(stage), Renaming(stage)}
  BY DEF Quiet, Rewriting, Writing, Removing, Renaming
<1>2. Steps'
  BY <1>1 DEF Steps
<1> QED
  BY <1>1, <1>2 DEF Returning

(* When no torn temporary is about to be renamed, the names are those of   *)
(* the directory.                                                          *)
LEMMA GuardedNow ==
  ASSUME IInv, NEW f \in Files \ hurt
  PROVE  Guarded(DOMAIN dir, SoundNames, f)
<1>1. Guarded(DOMAIN dir \cup Returning, SoundNames, f)
  BY DEF IInv
<1> QED
  BY <1>1, MoreSound

LEMMA GuardedThen ==
  ASSUME Named', Steps', Returning' = {},
         \A f \in Files \ hurt' : Guarded(DOMAIN dir', SoundNames', f)
  PROVE  IInv'
<1>1. (DOMAIN dir \cup Returning)' = DOMAIN dir'
  OBVIOUS
<1> QED
  BY <1>1 DEF IInv

(* A step that leaves the directory, or clears the temporary.              *)
LEMMA Leaves ==
  ASSUME IInv, UNCHANGED <<image, dir>>, hurt \subseteq hurt', pc' \in Quiet,
         Rewriting => dir[cur].of \in hurt',
         pc' \notin Outside => cur' \in Names
  PROVE  IInv'
<1>1. Named' /\ Steps' /\ ~Rewriting' /\ Returning' = {}
  BY QuietSteps DEF IInv, Named
<1>2. ASSUME NEW f \in Files \ hurt'
      PROVE  Guarded(DOMAIN dir, SoundNames', f)
  <2>1. Guarded(DOMAIN dir, SoundNames, f)
    BY <1>2, GuardedNow
  <2>2. CASE ~Rewriting
    BY <1>1, <2>1, <2>2 DEF SoundNames
  <2>3. CASE Rewriting
    <3>1. cur \in Names /\ cur[1] # f
      BY <1>2, <2>3 DEF IInv, Named, Steps
    <3>2. Guarded(DOMAIN dir, SoundNames \ {cur}, f)
      BY <2>1, <3>1, OtherFile DEF IInv, Named, SoundNames
    <3>3. SoundNames \ {cur} \subseteq SoundNames'
      BY DEF SoundNames
    <3> HIDE DEF Rewriting
    <3>4. \A n \in SoundNames' : n \in SoundNames
      BY <1>1 DEF SoundNames
    <3> QED
      BY <3>2, <3>3, <3>4, MoreSound
  <2> QED
    BY <2>2, <2>3
<1> QED
  BY <1>1, <1>2, GuardedThen

LEMMA Clears ==
  ASSUME IInv, NEW stage \in Replacing, image' = image, cur' = cur, hurt' = hurt,
         cur \in DOMAIN dir, ~Rewriting, dir' = Unlink(dir, Tmp(stage)), pc' \in Quiet
  PROVE  IInv'
<1>1. PICK x \in Suffixes : Tmp(stage) = Append(cur, x)
  BY TmpOf
<1>2. cur \in Names
  BY DEF IInv, Named
<1>3. /\ DOMAIN dir' = DOMAIN dir \ {Append(cur, x)}
      /\ \A m \in DOMAIN dir' : dir'[m] = dir[m]
  BY <1>1, Gone
<1>4. Named' /\ Steps' /\ ~Rewriting' /\ Returning' = {}
  BY <1>2, <1>3, QuietSteps DEF IInv, Named
<1>5. SoundNames' = SoundNames \ {Append(cur, x)}
  BY <1>3, <1>4 DEF SoundNames
<1>6. DOMAIN dir \in SUBSET Names /\ DOMAIN dir' \in SUBSET Names /\ SoundNames \in SUBSET DOMAIN dir
  BY <1>3 DEF IInv, Named, SoundNames
<1>7. ASSUME NEW f \in Files \ hurt
      PROVE  Guarded(DOMAIN dir', SoundNames', f)
  <2>1. Guarded(DOMAIN dir, SoundNames, f)
    BY <1>7, GuardedNow
  <2> QED
    BY <1>3, <1>5, <1>6, <2>1, TmpLost
<1> QED
  BY <1>4, <1>7, GuardedThen


(* Where the pass is within a conversion *)
LEMMA Within ==
  ASSUME NEW stage \in Replacing,
         pc' \in {Writing(stage), Removing(stage), Renaming(stage)}
  PROVE  /\ ~Rewriting' /\ pc' \notin Outside
         /\ \A u \in Replacing : pc' \in {Writing(u), Removing(u), Renaming(u)} => u = stage
BY DEF Rewriting, Writing, Removing, Renaming

LEMMA WithinNow ==
  ASSUME NEW stage \in Replacing,
         pc \in {Writing(stage), Removing(stage), Renaming(stage)}
  PROVE  ~Rewriting /\ pc \notin Outside
BY DEF Rewriting, Writing, Removing, Renaming

LEMMA Three ==
  ASSUME NEW stage \in Replacing
  PROVE  /\ Writing(stage) # Removing(stage) /\ Writing(stage) # Renaming(stage)
         /\ Removing(stage) # Renaming(stage)
BY DEF Writing, Removing, Renaming

LEMMA NowQuiet ==
  ASSUME pc \in Quiet PROVE ~Rewriting
BY DEF Quiet, Rewriting, Writing

LEMMA OpenTmpInv ==
  ASSUME IInv, NEW stage \in Replacing, OpenTmp(stage)
  PROVE  IInv'
<1>1. PICK x \in Suffixes : Tmp(stage) = Append(cur, x)
  BY TmpOf
<1> DEFINE t == Append(cur, x)
<1>2. /\ pc = stage /\ cur \in DOMAIN dir
      /\ dir' = With(dir, t, Torn(Result(stage))) /\ pc' = Writing(stage)
      /\ UNCHANGED <<image, cur, hurt>>
  BY <1>1 DEF OpenTmp, Applies, Here, world
<1>3. /\ ~Rewriting /\ ~Rewriting' /\ pc' \notin Outside
      /\ \A u \in Replacing : pc' \in {Writing(u), Removing(u), Renaming(u)} => u = stage
      /\ pc' # Removing(stage) /\ pc' # Renaming(stage)
  BY <1>2, Within, Three, NowQuiet DEF Quiet
<1>4. /\ cur \in Names /\ t \in Names /\ t # cur /\ t[1] = cur[1]
  BY <1>2, TmpName DEF IInv, Named
<1> HIDE DEF t
<1>5. /\ DOMAIN dir' = DOMAIN dir \cup {t} /\ dir'[t] = Torn(Result(stage))
      /\ \A m \in DOMAIN dir \ {t} : dir'[m] = dir[m]
  BY <1>2 DEF With
<1>6. dir'[t] \in Contents /\ dir'[t].of = t[1] /\ ~dir'[t].whole
  <2>1. dir[cur] \in Contents /\ dir[cur].of = cur[1]
    BY <1>2 DEF IInv, Named
  <2>2. /\ Torn(Result(stage)) \in Contents /\ Torn(Result(stage)).of = dir[cur].of
        /\ ~Torn(Result(stage)).whole
    BY <1>2, <2>1, Made
  <2> QED
    BY <1>4, <1>5, <2>1, <2>2
<1>7. Named'
  BY <1>2, <1>4, <1>5, <1>6 DEF IInv, Named
<1>8. Tmp(stage)' = t
  BY <1>1, <1>2 DEF Tmp, t
<1>9. Steps'
  BY <1>2, <1>3, <1>4, <1>5, <1>6, <1>8 DEF Steps, Whole
<1>10. SoundNames' = SoundNames \ {t} /\ Returning' = {}
  BY <1>3, <1>5, <1>6 DEF SoundNames, Returning
<1>11. /\ DOMAIN dir \in SUBSET Names /\ DOMAIN dir' \in SUBSET Names
       /\ SoundNames \in SUBSET DOMAIN dir
  BY <1>2, <1>7 DEF IInv, Named, SoundNames
<1>12. ASSUME NEW f \in Files \ hurt
       PROVE  Guarded(DOMAIN dir', SoundNames', f)
  <2>1. Guarded(DOMAIN dir, SoundNames, f)
    BY <1>12, GuardedNow
  <2> QED
    BY <1>2, <1>5, <1>10, <1>11, <2>1, TmpLost DEF t
<1> QED
  BY <1>2, <1>7, <1>9, <1>10, <1>12, GuardedThen

LEMMA WriteTmpInv ==
  ASSUME IInv, NEW stage \in Replacing, WriteTmp(stage)
  PROVE  IInv'
<1>1. PICK x \in Suffixes : Tmp(stage) = Append(cur, x)
  BY TmpOf
<1> DEFINE t == Append(cur, x)
<1>2. /\ pc = Writing(stage) /\ cur \in DOMAIN dir /\ t \in DOMAIN dir
      /\ dir' = [dir EXCEPT ![t] = Result(stage)] /\ pc' = Removing(stage)
      /\ UNCHANGED <<image, cur, hurt>>
  BY <1>1 DEF WriteTmp, IInv, Steps, world
<1>3. /\ ~Rewriting /\ ~Rewriting' /\ pc' \notin Outside
      /\ \A u \in Replacing : pc' \in {Writing(u), Removing(u), Renaming(u)} => u = stage
      /\ pc' # Writing(stage) /\ pc' # Renaming(stage)
  BY <1>2, Within, WithinNow, Three
<1>4. cur \in Names /\ t # cur /\ t[1] = cur[1]
  BY <1>2, TmpName DEF IInv, Named
<1>5. /\ DOMAIN dir' = DOMAIN dir /\ dir'[t] = Result(stage)
      /\ \A m \in DOMAIN dir \ {t} : dir'[m] = dir[m]
  BY <1>2
<1>6. dir'[t] \in Contents /\ dir'[t].of = t[1] /\ dir'[t].whole = dir[cur].whole
  BY <1>2, <1>4, <1>5, Made DEF IInv, Named
<1> HIDE DEF t
<1>7. Named'
  BY <1>2, <1>4, <1>5, <1>6 DEF IInv, Named
<1>8. Tmp(stage)' = t
  BY <1>1, <1>2 DEF Tmp, t
<1>9. Steps'
  BY <1>2, <1>3, <1>4, <1>5, <1>6, <1>8 DEF Steps, Whole
<1>10. \/ SoundNames \subseteq SoundNames'
       \/ ~dir[cur].whole /\ SoundNames' = SoundNames \ {t}
  BY <1>2, <1>3, <1>4, <1>5, <1>6 DEF SoundNames
<1>12. Returning' = {}
  BY <1>3 DEF Returning
<1>13. /\ DOMAIN dir \in SUBSET Names /\ DOMAIN dir' \in SUBSET Names
       /\ SoundNames \in SUBSET DOMAIN dir
  BY <1>5 DEF IInv, Named, SoundNames
<1>11. ASSUME NEW f \in Files \ hurt
       PROVE  Guarded(DOMAIN dir', SoundNames', f)
  <2>1. Guarded(DOMAIN dir, SoundNames, f)
    BY <1>11, GuardedNow
  <2>2. CASE SoundNames \subseteq SoundNames'
    BY <1>5, <2>1, <2>2, MoreSound
  <2>3. CASE SoundNames' = SoundNames \ {t}
    BY <1>2, <1>5, <1>13, <2>1, <2>3, TmpLost DEF t
  <2> QED
    BY <1>10, <2>2, <2>3
<1> QED
  BY <1>2, <1>7, <1>9, <1>11, <1>12, GuardedThen

LEMMA RemovePathInv ==
  ASSUME IInv, NEW stage \in Replacing, RemovePath(stage)
  PROVE  IInv'
<1>1. PICK x \in Suffixes : Tmp(stage) = Append(cur, x)
  BY TmpOf
<1> DEFINE t == Append(cur, x)
<1>2. /\ pc = Removing(stage) /\ cur \in DOMAIN dir /\ t \in DOMAIN dir
      /\ dir' = Unlink(dir, cur) /\ pc' = Renaming(stage)
      /\ UNCHANGED <<image, cur, hurt>>
  BY <1>1 DEF RemovePath, IInv, Steps, world
<1>3. /\ ~Rewriting /\ ~Rewriting' /\ pc' \notin Outside
      /\ \A u \in Replacing : pc' \in {Writing(u), Removing(u), Renaming(u)} => u = stage
      /\ pc' # Writing(stage) /\ pc' # Removing(stage)
  BY <1>2, Within, WithinNow, Three
<1>4. cur \in Names /\ t # cur
  BY <1>2, TmpName DEF IInv, Named
<1>5. /\ DOMAIN dir' = DOMAIN dir \ {cur}
      /\ \A m \in DOMAIN dir \ {cur} : dir'[m] = dir[m]
  BY <1>2, Gone
<1> HIDE DEF t
<1>7. Named'
  BY <1>2, <1>4, <1>5 DEF IInv, Named
<1>8. Tmp(stage)' = t
  BY <1>1, <1>2 DEF Tmp, t
<1>9. Steps'
  BY <1>2, <1>3, <1>4, <1>5, <1>8 DEF Steps
<1>10. SoundNames' = SoundNames \ {cur}
  BY <1>3, <1>5 DEF SoundNames
<1>11. /\ DOMAIN dir \in SUBSET Names /\ SoundNames \in SUBSET DOMAIN dir
       /\ DOMAIN dir' \cup Returning' \subseteq DOMAIN dir
  BY <1>2, <1>5 DEF IInv, Named, SoundNames, Returning
<1>12. ASSUME NEW f \in Files \ hurt
       PROVE  Guarded(DOMAIN dir' \cup Returning', SoundNames', f)
  <2>1. Guarded(DOMAIN dir, SoundNames, f)
    BY <1>12, GuardedNow
  <2>2. CASE dir[t].whole
    <3>1. t \in SoundNames /\ Returning' = {}
      BY <1>2, <1>3, <1>4, <1>5, <1>8, <2>2 DEF SoundNames, Returning, Whole
    <3>2. Guarded(DOMAIN dir \ {cur}, SoundNames \ {cur}, f)
      BY <1>2, <1>11, <2>1, <3>1, NameLost DEF t
    <3> QED
      BY <1>5, <1>10, <3>1, <3>2, MoreSound
  <2>3. CASE ~dir[t].whole /\ dir[cur].whole
    <3>1. dir[cur].of \in hurt /\ dir[cur].of = cur[1]
      BY <1>1, <1>2, <2>3 DEF IInv, Named, Steps, Whole, t
    <3>2. Guarded(DOMAIN dir, SoundNames \ {cur}, f)
      BY <1>4, <1>11, <1>12, <2>1, <3>1, OtherFile
    <3> QED
      BY <1>10, <1>11, <3>2, MoreSound
  <2>4. CASE ~dir[t].whole /\ ~dir[cur].whole
    <3>1. SoundNames' = SoundNames
      BY <1>3, <1>10, <2>4 DEF SoundNames
    <3> QED
      BY <1>11, <2>1, <3>1, MoreSound
  <2> QED
    BY <2>2, <2>3, <2>4
<1> QED
  BY <1>2, <1>7, <1>9, <1>12 DEF IInv

LEMMA RenameTmpInv ==
  ASSUME IInv, NEW stage \in Replacing, RenameTmp(stage)
  PROVE  IInv'
<1>1. PICK x \in Suffixes : Tmp(stage) = Append(cur, x)
  BY TmpOf
<1> DEFINE t == Append(cur, x)
           d == Unlink(dir, t)
<1>2. /\ pc = Renaming(stage) /\ t \in DOMAIN dir /\ cur \notin DOMAIN dir
      /\ dir' = With(d, cur, dir[t]) /\ pc' \in Quiet
      /\ UNCHANGED <<image, cur, hurt>>
  BY <1>1, AfterQuiet DEF RenameTmp, IInv, Steps, world, Quiet
<1>3. ~Rewriting /\ ~Rewriting' /\ Steps' /\ Returning' = {} /\ pc \notin Outside
  BY <1>2, WithinNow, QuietSteps
<1>4. cur \in Names /\ t # cur /\ t[1] = cur[1]
  BY <1>3, TmpName DEF IInv, Named
<1>5. /\ DOMAIN dir' = (DOMAIN dir \ {t}) \cup {cur} /\ dir'[cur] = dir[t]
      /\ \A m \in DOMAIN dir \ {t, cur} : dir'[m] = dir[m]
  <2>1. /\ DOMAIN d = DOMAIN dir \ {t} /\ \A m \in DOMAIN dir \ {t} : d[m] = dir[m]
    BY Gone
  <2> HIDE DEF t, d
  <2>2. /\ DOMAIN dir' = DOMAIN d \cup {cur} /\ dir'[cur] = dir[t]
        /\ \A m \in DOMAIN d \ {cur} : dir'[m] = d[m]
    BY <1>2 DEF With
  <2> QED
    BY <2>1, <2>2
<1> HIDE DEF t, d
<1>6. Named'
  BY <1>2, <1>4, <1>5 DEF IInv, Named
<1>7. DOMAIN dir \in SUBSET Names /\ SoundNames \in SUBSET DOMAIN dir
  BY DEF IInv, Named, SoundNames
<1>8. ASSUME NEW f \in Files \ hurt
      PROVE  Guarded(DOMAIN dir', SoundNames', f)
  <2>1. CASE dir[t].whole
    <3>1. SoundNames' = (SoundNames \ {t}) \cup {cur} /\ t \in SoundNames
      BY <1>2, <1>3, <1>4, <1>5, <2>1 DEF SoundNames
    <3>2. Guarded(DOMAIN dir, SoundNames, f)
      BY <1>8, GuardedNow
    <3>3. Guarded((DOMAIN dir \ {t}) \cup {cur}, (SoundNames \ {t}) \cup {cur}, f)
      BY <1>4, <1>7, <3>1, <3>2, NameBack DEF t
    <3> QED
      BY <1>5, <3>1, <3>3
  <2>2. CASE ~dir[t].whole
    <3>1. SoundNames' = SoundNames
      BY <1>2, <1>3, <1>4, <1>5, <2>2 DEF SoundNames
    <3>2. Returning = {cur}
      BY <1>1, <1>2, <2>2 DEF Returning, Whole, t
    <3>3. Guarded(DOMAIN dir \cup {cur}, SoundNames, f)
      BY <1>8, <3>2 DEF IInv
    <3> QED
      BY <1>5, <3>1, <3>3, MoreSound
  <2> QED
    BY <2>1, <2>2
<1> QED
  BY <1>2, <1>3, <1>6, <1>8, GuardedThen

LEMMA OpenInPlaceInv ==
  ASSUME IInv, NEW stage \in {"downgrade", "backport"}, OpenInPlace(stage)
  PROVE  IInv'
<1>1. /\ pc = stage /\ cur \in DOMAIN dir /\ dir[cur].whole /\ pc' = Writing(stage)
      /\ dir' = [dir EXCEPT ![cur] = Torn(Result(stage))]
      /\ UNCHANGED <<image, cur, hurt>>
  BY DEF OpenInPlace, Applies, Here, world
<1>2. cur \in Names /\ ~Rewriting
  BY <1>1, NowQuiet DEF IInv, Named, Quiet
<1>3. /\ Rewriting' /\ pc' \notin Outside
      /\ \A u \in Replacing : pc' \notin {Writing(u), Removing(u), Renaming(u)}
  BY <1>1 DEF Rewriting, Writing, Removing, Renaming
<1>4. /\ Torn(Result(stage)) \in Contents /\ Torn(Result(stage)).of = cur[1]
  BY <1>1, Made DEF IInv, Named
<1>5. Named' /\ Steps'
  BY <1>1, <1>2, <1>3, <1>4 DEF IInv, Named, Steps
<1>6. SoundNames \subseteq SoundNames' /\ DOMAIN dir' = DOMAIN dir /\ Returning' = {}
  <2> HIDE DEF Rewriting
  <2> QED
    BY <1>1, <1>2, <1>3 DEF SoundNames, Returning
<1>7. ASSUME NEW f \in Files \ hurt
      PROVE  Guarded(DOMAIN dir', SoundNames', f)
  BY <1>6, <1>7, GuardedNow, MoreSound
<1> QED
  BY <1>1, <1>5, <1>6, <1>7, GuardedThen

LEMMA WriteInPlaceInv ==
  ASSUME IInv, NEW stage \in {"downgrade", "backport"}, WriteInPlace(stage)
  PROVE  IInv'
<1>1. /\ pc = Writing(stage) /\ pc' = After(stage) /\ dir' = [dir EXCEPT ![cur].whole = TRUE]
      /\ UNCHANGED <<image, cur, hurt>>
  BY DEF WriteInPlace, world
<1>2. Rewriting /\ pc \notin Outside
  BY <1>1 DEF Rewriting, Writing
<1>3. pc' \in Quiet
  BY <1>1, AfterQuiet
<1>4. Steps' /\ ~Rewriting' /\ Returning' = {}
  BY <1>3, QuietSteps
<1>5. cur \in DOMAIN dir /\ cur \in Names /\ dir[cur] \in Contents
  BY <1>2 DEF IInv, Named, Steps
<1>6. /\ DOMAIN dir' = DOMAIN dir /\ dir'[cur] = [dir[cur] EXCEPT !.whole = TRUE]
      /\ \A m \in DOMAIN dir \ {cur} : dir'[m] = dir[m]
  BY <1>1, <1>5
<1>7. dir'[cur] \in Contents /\ dir'[cur].of = dir[cur].of /\ dir'[cur].whole
  BY <1>5, <1>6 DEF Contents
<1>8. Named'
  BY <1>1, <1>5, <1>6, <1>7 DEF IInv, Named
<1>9. SoundNames \subseteq SoundNames'
  <2> HIDE DEF Rewriting
  <2> QED
    BY <1>6, <1>7 DEF SoundNames
<1>10. ASSUME NEW f \in Files \ hurt
       PROVE  Guarded(DOMAIN dir', SoundNames', f)
  BY <1>6, <1>9, <1>10, GuardedNow, MoreSound
<1> QED
  BY <1>1, <1>4, <1>8, <1>10, GuardedThen

(* A file that was cut short is rewritten in place, and stays so.          *)
LEMMA PatchesTorn ==
  ASSUME IInv, NEW stage \in {"downgrade", "backport"}, pc = stage, pc' \in Quiet,
         cur \in DOMAIN dir, ~dir[cur].whole, dir' = [dir EXCEPT ![cur] = Result(stage)],
         UNCHANGED <<image, cur, hurt>>
  PROVE  IInv'
<1>1. cur \in Names /\ ~Rewriting
  BY NowQuiet DEF IInv, Named, Quiet
<1>2. Steps' /\ ~Rewriting' /\ Returning' = {}
  BY QuietSteps
<1>3. /\ Result(stage) \in Contents /\ Result(stage).of = cur[1] /\ ~Result(stage).whole
  BY Made DEF IInv, Named
<1>4. /\ DOMAIN dir' = DOMAIN dir /\ dir'[cur] = Result(stage)
      /\ \A m \in DOMAIN dir \ {cur} : dir'[m] = dir[m]
  OBVIOUS
<1>5. Named'
  BY <1>1, <1>3, <1>4 DEF IInv, Named
<1>6. SoundNames' = SoundNames
  BY <1>1, <1>2, <1>3, <1>4 DEF SoundNames
<1>7. ASSUME NEW f \in Files \ hurt
      PROVE  Guarded(DOMAIN dir', SoundNames', f)
  BY <1>4, <1>6, <1>7, GuardedNow
<1> QED
  BY <1>2, <1>5, <1>7, GuardedThen

LEMMA RenameFailsInv ==
  ASSUME IInv, NEW stage \in Replacing, RenameFails(stage)
  PROVE  IInv'
<1>1. PICK x \in Suffixes : Tmp(stage) = Append(cur, x)
  BY TmpOf
<1> DEFINE t == Append(cur, x)
<1>2. /\ pc = Renaming(stage) /\ t \in DOMAIN dir /\ dir' = Unlink(dir, t)
      /\ pc' \in Quiet /\ UNCHANGED <<image, cur>>
      /\ hurt' = hurt \cup Lost(t)
  BY <1>1, AfterQuiet DEF RenameFails, Fault, IInv, Steps, world, Quiet
<1>3. ~Rewriting /\ ~Rewriting' /\ Steps' /\ Returning' = {} /\ pc \notin Outside
  BY <1>2, WithinNow, QuietSteps
<1>4. cur \in Names /\ t \in Names /\ dir[t].of = t[1]
  BY <1>2, <1>3 DEF IInv, Named
<1>5. /\ DOMAIN dir' = DOMAIN dir \ {t} /\ \A m \in DOMAIN dir \ {t} : dir'[m] = dir[m]
  BY <1>2, Gone
<1> HIDE DEF t
<1>6. Named'
  BY <1>2, <1>4, <1>5 DEF IInv, Named
<1>7. /\ SoundNames' = SoundNames \ {t}
      /\ DOMAIN dir \in SUBSET Names /\ SoundNames \in SUBSET DOMAIN dir
  BY <1>3, <1>5 DEF SoundNames, IInv, Named
<1>8. ASSUME NEW f \in Files \ hurt'
      PROVE  Guarded(DOMAIN dir', SoundNames', f)
  <2>1. Guarded(DOMAIN dir, SoundNames, f)
    BY <1>2, <1>8, GuardedNow
  <2>2. CASE dir[t].whole
    <3>1. t[1] # f
      BY <1>2, <1>4, <1>8, <2>2 DEF Lost
    <3> QED
      BY <1>4, <1>5, <1>7, <2>1, <3>1, OtherFile
  <2>3. CASE ~dir[t].whole
    <3>1. SoundNames' = SoundNames
      BY <1>3, <1>7, <2>3 DEF SoundNames
    <3> QED
      BY <1>5, <2>1, <3>1, MoreSound
  <2> QED
    BY <2>2, <2>3
<1> QED
  BY <1>2, <1>3, <1>6, <1>8, GuardedThen

(* Only fclose would have told that the temporary is cut short.            *)
LEMMA TmpCloseFailsInv ==
  ASSUME IInv, NEW stage \in Replacing, TmpCloseFails(stage)
  PROVE  IInv'
<1>1. /\ pc = Writing(stage) /\ pc' = Removing(stage) /\ hurt' = hurt \cup Lost(cur)
      /\ UNCHANGED <<image, dir, cur>> /\ ~calm'
  BY DEF TmpCloseFails, Fault, world
<1>2. /\ ~Rewriting /\ ~Rewriting' /\ pc \notin Outside /\ pc' \notin Outside
      /\ \A u \in Replacing : pc' \in {Writing(u), Removing(u), Renaming(u)} => u = stage
      /\ pc' # Writing(stage) /\ pc' # Renaming(stage)
  BY <1>1, Within, WithinNow, Three
<1>3. Named' /\ Returning' = {} /\ SoundNames' = SoundNames
  BY <1>1, <1>2 DEF IInv, Named, Returning, SoundNames
<1>4. cur \in DOMAIN dir /\ Tmp(stage) \in DOMAIN dir /\ Tmp(stage)' = Tmp(stage)
  BY <1>1 DEF IInv, Steps, Tmp
<1>5. Steps'
  BY <1>1, <1>2, <1>4 DEF Steps, Whole, Lost
<1> QED
  BY <1>1, <1>3, <1>5, GuardedNow, GuardedThen

(* What unpacking writes *)
LEMMA Unpacked ==
  ASSUME NEW d, image \in Originals, DOMAIN d \subseteq Names,
         \A n \in DOMAIN d : d[n] \in Contents /\ d[n].of = n[1]
  PROVE  LET u == UnpackedOver(d)
         IN /\ DOMAIN u \subseteq Names
            /\ \A n \in DOMAIN u : u[n] \in Contents /\ u[n].of = n[1]
            /\ \A f \in Files : /\ <<f>> \in DOMAIN u /\ u[<<f>>].whole
                                /\ \A m \in Names : ~Above(m, <<f>>)
<1> DEFINE u == UnpackedOver(d)
<1>1. /\ image \in [Files -> Contents]
      /\ \A f \in Files : image[f].whole /\ image[f].of = f
  BY ImagesAreWhole
<1>2. \A n \in Own : n \in Names /\ n[1] \in Files
  <2>1. ASSUME NEW f \in Files
        PROVE  <<f>> \in Names /\ <<f>>[1] = f
    <3>1. <<f>> \in Seq(Files \cup Suffixes) /\ <<f>> # <<>> /\ <<f>>[1] = f
      OBVIOUS
    <3> QED
      BY <3>1 DEF Names
  <2> QED
    BY <2>1 DEF Own
<1>3. /\ DOMAIN u = Own \cup DOMAIN d
      /\ \A n \in Own : u[n] = image[n[1]]
      /\ \A n \in DOMAIN d \ Own : u[n] = d[n]
  BY DEF UnpackedOver
<1> HIDE DEF u
<1>4. \A f \in Files : <<f>> \in Own /\ <<f>>[1] = f
  BY DEF Own
<1>5. \A f \in Files, m \in Names : ~Above(m, <<f>>)
  BY DEF Above, Names
<1>6. DOMAIN u \subseteq Names /\ \A n \in DOMAIN u : u[n] \in Contents /\ u[n].of = n[1]
  BY <1>1, <1>2, <1>3
<1>7. \A f \in Files : <<f>> \in DOMAIN u /\ u[<<f>>].whole
  BY <1>1, <1>3, <1>4
<1> QED
  BY <1>5, <1>6, <1>7 DEF u

LEMMA RestartInv ==
  ASSUME IInv, Restart
  PROVE  IInv'
<1>1. /\ pc \in Outside /\ pc' = "walk" /\ image' = image
      /\ \/ dir' = UnpackedOver(dir)
         \/ UNCHANGED <<dir, hurt>>
  BY DEF Restart
<1>2. Steps' /\ ~Rewriting' /\ Returning' = {} /\ ~Rewriting
  BY <1>1, QuietSteps, NowQuiet DEF Quiet
<1>3. CASE dir' = UnpackedOver(dir)
  <2>1. /\ DOMAIN dir' \subseteq Names
        /\ \A n \in DOMAIN dir' : dir'[n] \in Contents /\ dir'[n].of = n[1]
        /\ \A f \in Files : /\ <<f>> \in DOMAIN dir' /\ dir'[<<f>>].whole
                            /\ \A m \in Names : ~Above(m, <<f>>)
    BY <1>3, Unpacked DEF IInv, Named
  <2>2. Named'
    BY <1>1, <2>1 DEF IInv, Named
  <2>3. ASSUME NEW f \in Files
        PROVE  Guarded(DOMAIN dir', SoundNames', f)
    <3>1. <<f>> \in SoundNames' /\ <<f>>[1] = f
      BY <2>1 DEF SoundNames
    <3> QED
      BY <2>1, <3>1 DEF Guarded
  <2> QED
    BY <1>2, <2>2, <2>3, GuardedThen
<1>4. CASE UNCHANGED <<dir, hurt>>
  BY <1>1, <1>2, <1>4, Leaves DEF Quiet
<1> QED
  BY <1>1, <1>3, <1>4

LEMMA InitInv == Init => IInv
<1> SUFFICES ASSUME Init PROVE IInv
  OBVIOUS
<1>1. image \in Originals /\ dir = UnpackedOver(<<>>) /\ pc = "walk"
  BY DEF Init
<1>2. Steps /\ ~Rewriting /\ Returning = {}
  BY <1>1 DEF Steps, Rewriting, Returning, Writing, Removing, Renaming
<1>3. DOMAIN <<>> = {}
  OBVIOUS
<1>4. /\ DOMAIN dir \subseteq Names
      /\ \A n \in DOMAIN dir : dir[n] \in Contents /\ dir[n].of = n[1]
      /\ \A f \in Files : /\ <<f>> \in DOMAIN dir /\ dir[<<f>>].whole
                          /\ \A m \in Names : ~Above(m, <<f>>)
  BY <1>1, <1>3, Unpacked
<1>5. ASSUME NEW f \in Files
      PROVE  Guarded(DOMAIN dir \cup Returning, SoundNames, f)
  <2>1. <<f>> \in SoundNames /\ <<f>>[1] = f
    BY <1>4 DEF SoundNames
  <2> QED
    BY <1>2, <1>4, <2>1 DEF Guarded
<1> QED
  BY <1>1, <1>2, <1>4, <1>5 DEF IInv, Named


-----------------------------------------------------------------------------
LEMMA NextInv ==
  ASSUME IInv, [Next]_vars
  PROVE  IInv'
<1>1. CASE UNCHANGED vars
  BY <1>1 DEF vars, IInv, Named, Steps, Returning, Whole, Tmp, SoundNames, Rewriting
<1>2. ASSUME NEW n, Visit(n) \/ Revisit(n) PROVE IInv'
  <2>1. n \in Names /\ ~Rewriting
    BY <1>2, NowQuiet DEF Visit, Revisit, IInv, Named, Quiet
  <2> QED
    BY <1>2, <2>1, Leaves DEF Visit, Revisit, world, Quiet
<1>3. ASSUME NEW n, Vanished(n) PROVE IInv'
  <2>1. ~Rewriting
    BY <1>3, NowQuiet DEF Vanished, Quiet
  <2> QED
    BY <1>3, <2>1, Leaves DEF Vanished, world, Quiet
<1>4. CASE EndOfDirectory
  <2>1. ~Rewriting
    BY <1>4, NowQuiet DEF EndOfDirectory, Quiet
  <2> QED
    BY <1>4, <2>1, Leaves DEF EndOfDirectory, world, Quiet
<1>5. CASE Crash
  BY <1>5, Leaves DEF Crash, Fault, world, Quiet
<1>6. CASE Restart
  BY <1>6, RestartInv
<1>7. ASSUME NEW stage \in Replacing, TmpWriteFails(stage) PROVE IInv'
  <2>1. /\ pc = Writing(stage) /\ pc' \in Quiet /\ dir' = Clear(stage)
        /\ UNCHANGED <<image, cur, hurt>>
    BY <1>7, AfterQuiet DEF TmpWriteFails, Fault, world
  <2>2. ~Rewriting /\ cur \in DOMAIN dir /\ cur \in Names
    BY <2>1, WithinNow DEF IInv, Named, Steps
  <2> QED
    BY <2>1, <2>2, Leaves, Clears DEF Clear
<1>8. ASSUME NEW stage \in Replacing, Replace(stage) PROVE IInv'
  BY <1>7, <1>8, OpenTmpInv, WriteTmpInv, RemovePathInv, RenameTmpInv, RenameFailsInv,
     TmpCloseFailsInv
     DEF Replace
<1>9. ASSUME NEW stage \in {"downgrade", "backport"}, InPlaceWriteFails(stage) PROVE IInv'
  <2>1. /\ pc = Writing(stage) /\ pc' \in Quiet
        /\ UNCHANGED <<image, dir, cur>> /\ hurt' = hurt \cup {dir[cur].of}
    BY <1>9, AfterQuiet DEF InPlaceWriteFails, Fault, world
  <2>2. cur \in Names
    BY <2>1 DEF IInv, Named, Writing
  <2> QED
    BY <2>1, <2>2, Leaves
<1>10. ASSUME NEW stage \in {"downgrade", "backport"}, Rewrite(stage) PROVE IInv'
  BY <1>9, <1>10, OpenInPlaceInv, WriteInPlaceInv DEF Rewrite
<1>11. ASSUME NEW stage \in Replacing \cup {"downgrade", "backport"},
              Declined(stage) \/ Garbled(stage)
       PROVE  IInv'
  <2>1. /\ pc = stage /\ pc' \in Quiet /\ UNCHANGED <<image, cur, hurt>>
        /\ \/ dir' = dir
           \/ /\ cur \in DOMAIN dir /\ stage \in {"unfself", "rewrap"}
              /\ dir' = Unlink(dir, Tmp(stage))
           \/ /\ cur \in DOMAIN dir /\ stage \in {"downgrade", "backport"}
              /\ ~dir[cur].whole /\ dir' = [dir EXCEPT ![cur] = Result(stage)]
    BY <1>11, AfterQuiet DEF Declined, Garbled, Applies, Here, Clear, world, Quiet
  <2>2. ~Rewriting /\ cur \in Names
    BY <2>1, NowQuiet DEF IInv, Named, Quiet
  <2> QED
    BY <2>1, <2>2, Leaves, Clears, PatchesTorn
<1> QED
  BY <1>1, <1>2, <1>3, <1>4, <1>5, <1>6, <1>8, <1>10, <1>11 DEF Next

(* Wherever the process is stopped, however often, and whatever was left   *)
(* over: a complete copy of every file is there under some name, but for   *)
(* the files a fault caught without protection (main.c:533-716).           *)
THEOREM PayloadsSurvive == Spec => []PayloadKept
<1>1. Init => IInv
  BY InitInv
<1>2. IInv /\ [Next]_vars => IInv'
  BY NextInv
<1>3. IInv => PayloadKept
  <2> SUFFICES ASSUME IInv, NEW f \in Files \ hurt
               PROVE  Kept(f)
    BY DEF PayloadKept
  <2>1. PICK n \in SoundNames : n[1] = f
    BY GuardedNow DEF Guarded
  <2>2. n \in DOMAIN dir /\ dir[n].of = f /\ (dir[n].whole \/ (Rewriting /\ n = cur))
    BY <2>1 DEF SoundNames, IInv, Named
  <2> QED
    BY <2>2 DEF Kept
<1> QED
  BY <1>1, <1>2, <1>3, PTL DEF Spec

-----------------------------------------------------------------------------
(* A conversion touches the file it was called with and the temporaries of *)
(* that file, whatever fails.                                              *)
Mine(n) == n \in {cur, Append(cur, "elf"), Append(cur, "fself")}
OthersStay ==
  \A n \in DOMAIN dir \cup DOMAIN dir' :
    ~Mine(n) => n \in DOMAIN dir /\ n \in DOMAIN dir' /\ dir'[n] = dir[n]

LEMMA NextOwn ==
  ASSUME [Next]_vars, cur # <<>>, cur' = cur
  PROVE  OthersStay
<1>1. \A stage : Mine(Tmp(stage))
  BY DEF Mine, Tmp
<1>2. Mine(cur)
  BY DEF Mine
<1>3. CASE dir' = dir
  BY <1>3 DEF OthersStay
<1>4. ASSUME NEW t, Mine(t), dir' = Unlink(dir, t) PROVE OthersStay
  BY <1>4, Gone DEF OthersStay
<1>5. ASSUME NEW t, Mine(t), NEW v, dir' = With(dir, t, v) PROVE OthersStay
  BY <1>5 DEF OthersStay, With
<1>6. ASSUME NEW t, Mine(t), NEW v, dir' = [dir EXCEPT ![t] = v] PROVE OthersStay
  BY <1>6 DEF OthersStay
<1>7. ASSUME NEW t, Mine(t), NEW v, dir' = With(Unlink(dir, t), cur, v) PROVE OthersStay
  <2> DEFINE d == Unlink(dir, t)
  <2>1. DOMAIN d = DOMAIN dir \ {t} /\ \A m \in DOMAIN dir \ {t} : d[m] = dir[m]
    BY Gone
  <2> HIDE DEF d
  <2>2. /\ DOMAIN dir' = DOMAIN d \cup {cur}
        /\ \A m \in DOMAIN d \ {cur} : dir'[m] = d[m]
    BY <1>7 DEF With, d
  <2> HIDE DEF Mine
  <2> QED
    BY <1>2, <1>7, <2>1, <2>2 DEF OthersStay
<1>8. ASSUME NEW stage, dir' = Clear(stage) PROVE OthersStay
  BY <1>1, <1>3, <1>4, <1>8 DEF Clear
<1>9. CASE UNCHANGED vars \/ EndOfDirectory \/ Crash
  BY <1>3, <1>9 DEF vars, EndOfDirectory, Crash
<1>10. ASSUME NEW n, Visit(n) \/ Vanished(n) \/ Revisit(n) PROVE OthersStay
  BY <1>3, <1>10 DEF Visit, Vanished, Revisit
<1>11. ~Restart
  BY DEF Restart
<1>12. ASSUME NEW stage \in Replacing, Replace(stage) PROVE OthersStay
  <2>1. CASE OpenTmp(stage)
    BY <1>1, <1>5, <2>1 DEF OpenTmp
  <2>2. CASE WriteTmp(stage)
    BY <1>1, <1>6, <2>2 DEF WriteTmp
  <2>3. CASE RemovePath(stage)
    BY <1>2, <1>4, <2>3 DEF RemovePath
  <2>4. CASE RenameTmp(stage)
    BY <1>1, <1>7, <2>4 DEF RenameTmp
  <2>5. CASE TmpWriteFails(stage)
    BY <1>8, <2>5 DEF TmpWriteFails
  <2>6. CASE RenameFails(stage)
    BY <1>1, <1>4, <2>6 DEF RenameFails
  <2>7. CASE TmpCloseFails(stage)
    BY <1>3, <2>7 DEF TmpCloseFails
  <2> QED
    BY <1>12, <2>1, <2>2, <2>3, <2>4, <2>5, <2>6, <2>7 DEF Replace
<1>13. ASSUME NEW stage \in {"downgrade", "backport"}, Rewrite(stage) PROVE OthersStay
  <2>1. CASE OpenInPlace(stage)
    BY <1>2, <1>6, <2>1 DEF OpenInPlace
  <2>2. CASE WriteInPlace(stage)
    BY <1>2, <1>6, <2>2 DEF WriteInPlace
  <2>3. CASE InPlaceWriteFails(stage)
    BY <1>3, <2>3 DEF InPlaceWriteFails
  <2> QED
    BY <1>13, <2>1, <2>2, <2>3 DEF Rewrite
<1>14. ASSUME NEW stage, Declined(stage) \/ Garbled(stage) PROVE OthersStay
  BY <1>2, <1>3, <1>6, <1>8, <1>14 DEF Declined, Garbled, Clear
<1> QED
  BY <1>9, <1>10, <1>11, <1>12, <1>13, <1>14 DEF Next

(* unpack_postproc_cb changes no other path than the one it was called     *)
(* with and that path's temporaries, whatever fails.                       *)
THEOREM OthersUntouched == Spec => OnlyOwnFile
<1>1. [Next]_vars => [cur # <<>> /\ cur' = cur =>
                        \A n \in DOMAIN dir \cup DOMAIN dir' :
                          n \notin {cur, Append(cur, "elf"), Append(cur, "fself")} =>
                            /\ n \in DOMAIN dir /\ n \in DOMAIN dir'
                            /\ dir'[n] = dir[n]]_vars
  BY NextOwn DEF OthersStay, Mine
<1> QED
  BY <1>1, PTL DEF Spec, OnlyOwnFile


-----------------------------------------------------------------------------
(***************************************************************************)
(* A pass without a fault leaves every file in its final form, for any     *)
(* files, images and options, and whatever earlier runs were stopped at.   *)
(* FInv of UnpackPostProps is inductive on top of IInv.                    *)
(***************************************************************************)
-----------------------------------------------------------------------------
(* The stages one by one *)

LEMMA StageOrder ==
  /\ After("decrypt") = "unfself" /\ After("unfself") = "downgrade"
  /\ After("downgrade") = "rewrap" /\ After("rewrap") = "backport"
  /\ After("backport") = "walk"
<1>1. /\ Stages[1] = "decrypt" /\ Stages[2] = "unfself" /\ Stages[3] = "downgrade"
      /\ Stages[4] = "rewrap" /\ Stages[5] = "backport" /\ Stages[6] = "walk"
  BY DEF Stages
<1>2. ASSUME NEW s, NEW i \in 1 .. 5, Stages[i] = s,
             \A j \in 1 .. 5 : Stages[j] = s => j = i
      PROVE  After(s) = Stages[1 + i]
  <2>1. (CHOOSE j \in 1 .. 5 : Stages[j] = s) = i
    BY <1>2
  <2> QED
    BY <2>1 DEF After
<1>3. \A j \in 1 .. 5 : j = 1 \/ j = 2 \/ j = 3 \/ j = 4 \/ j = 5
  OBVIOUS
<1>4. After("decrypt") = Stages[1 + 1]
  BY <1>1, <1>2, <1>3
<1>5. After("unfself") = Stages[1 + 2]
  BY <1>1, <1>2, <1>3
<1>6. After("downgrade") = Stages[1 + 3]
  BY <1>1, <1>2, <1>3
<1>7. After("rewrap") = Stages[1 + 4]
  BY <1>1, <1>2, <1>3
<1>8. After("backport") = Stages[1 + 5]
  BY <1>1, <1>2, <1>3
<1> QED
  BY <1>1, <1>4, <1>5, <1>6, <1>7, <1>8

(* Whether stage s applies to c under options o and converts it, and what  *)
(* it makes of it                                                          *)
Takes(o, s, c, plain) ==
  CASE s = "decrypt" -> o.decrypt /\ c.form = "self" /\ c.of \notin Locked
    [] s = "unfself" -> o.decrypt /\ c.form = "fself"
    [] s = "downgrade" -> o.downgrade /\ c.form = "elf" /\ c.sdk # "none"
    [] s = "rewrap" -> o.rewrap /\ c.form = "elf" /\ c.of \notin Foreign
    [] OTHER -> o.backport /\ plain /\ c.form = "sfo" /\ c.sdk # "none"
Makes(s, c) ==
  CASE s \in {"decrypt", "unfself"} -> [c EXCEPT !.form = "elf"]
    [] s = "rewrap"                 -> [c EXCEPT !.form = "fself"]
    [] OTHER                        -> [c EXCEPT !.sdk = "at"]

LEMMA TakesIt ==
  ASSUME NEW s \in AllStages, opts \in Options, Applies(s) /\ Converts(s)
  PROVE  Here /\ Takes(opts, s, dir[cur], Len(cur) = 1)
<1> USE DEF Takes, Applies, Converts
<1>1. CASE s = "decrypt"
  BY <1>1
<1>2. CASE s = "unfself"
  BY <1>2
<1>3. CASE s = "downgrade"
  BY <1>3
<1>4. CASE s = "rewrap"
  BY <1>4
<1>5. CASE s = "backport"
  BY <1>5
<1> HIDE DEF Takes, Applies, Converts
<1> QED
  BY <1>1, <1>2, <1>3, <1>4, <1>5 DEF AllStages

LEMMA TakesNot ==
  ASSUME NEW s \in AllStages, opts \in Options, ~(Applies(s) /\ Converts(s)), Here
  PROVE  ~Takes(opts, s, dir[cur], Len(cur) = 1)
<1> USE DEF Takes, Applies, Converts
<1>1. CASE s = "decrypt"
  BY <1>1
<1>2. CASE s = "unfself"
  BY <1>2
<1>3. CASE s = "downgrade"
  BY <1>3
<1>4. CASE s = "rewrap"
  BY <1>4
<1>5. CASE s = "backport"
  BY <1>5
<1> HIDE DEF Takes, Applies, Converts
<1> QED
  BY <1>1, <1>2, <1>3, <1>4, <1>5 DEF AllStages

LEMMA MakesIt ==
  ASSUME NEW s
  PROVE  Result(s) = Makes(s, dir[cur])
BY DEF Makes, Result

-----------------------------------------------------------------------------
(* What the conversions do to a content                                    *)

LEMMA Made2 ==
  ASSUME NEW c \in Contents, NEW s \in AllStages
  PROVE  LET m == Makes(s, c)
         IN /\ m \in Contents /\ m.of = c.of /\ m.whole = c.whole
            /\ s \in {"decrypt", "unfself"} => m.form = "elf" /\ m.sdk = c.sdk
            /\ s = "rewrap" => m.form = "fself" /\ m.sdk = c.sdk
            /\ s \in {"downgrade", "backport"} => m.form = c.form /\ m.sdk = "at"
BY DEF Contents, Forms, Makes, AllStages

(* A stage that takes the file moves it on                                 *)
LEMMA Advance ==
  ASSUME NEW o \in Options, NEW quiet, NEW c \in Contents, NEW want,
         NEW s \in AllStages, NEW p, Takes(o, s, c, p), WillBe(o, quiet, c, s, want)
  PROVE  WillBe(o, quiet, Makes(s, c), Followed(s), want)
<1> DEFINE m == Makes(s, c)
<1>1. /\ m \in Contents /\ m.of = c.of /\ m.whole = c.whole
      /\ s \in {"decrypt", "unfself"} => m.form = "elf" /\ m.sdk = c.sdk
      /\ s = "rewrap" => m.form = "fself" /\ m.sdk = c.sdk
      /\ s \in {"downgrade", "backport"} => m.form = c.form /\ m.sdk = "at"
  BY Made2
<1>2. Converted(o, c) = want
  BY DEF WillBe
<1> HIDE DEF m
<1>3. CASE s \in {"decrypt", "unfself"}
  <2>1. Plain(o, c) = m /\ Plain(o, m) = m
    <3>1. m = [c EXCEPT !.form = "elf"]
      BY <1>3 DEF m, Makes
    <3>2. o.decrypt /\ (c.form = "fself" \/ (c.form = "self" /\ c.of \notin Locked))
      BY <1>3 DEF Takes
    <3> QED
      BY <1>1, <1>3, <3>1, <3>2 DEF Plain
  <2>2. Followed(s) = "downgrade"
    BY <1>3, StageOrder DEF Followed
  <2>3. Converted(o, m) = want /\ Rest(o, "downgrade", m) = want
    BY <1>2, <2>1 DEF Converted, Rest
  <2> QED
    BY <2>2, <2>3 DEF WillBe, m
<1>4. CASE s = "downgrade"
  <2>1. o.downgrade /\ c.form = "elf" /\ c.sdk # "none"
    BY <1>4 DEF Takes
  <2>2. m = [c EXCEPT !.sdk = "at"]
    BY <1>4 DEF m, Makes
  <2>3. Plain(o, c) = c /\ Plain(o, m) = m
    BY <1>1, <1>4, <2>1 DEF Plain
  <2>4. Lowered(o, c) = m
    BY <2>1, <2>2 DEF Lowered
  <2>5. Lowered(o, m) = m
    <3>1. [m EXCEPT !.sdk = "at"] = m
      BY <1>1, <1>4 DEF Contents
    <3> QED
      BY <3>1 DEF Lowered
  <2>6. Converted(o, m) = want /\ Rest(o, "rewrap", m) = want /\ Low(o, m)
    BY <1>1, <1>2, <1>4, <2>1, <2>3, <2>4, <2>5 DEF Converted, Rest, Low
  <2> QED
    BY <1>4, <2>6, StageOrder DEF WillBe, Followed, m
<1>5. CASE s = "rewrap"
  <2>1. o.rewrap /\ c.form = "elf" /\ c.of \notin Foreign /\ Low(o, c)
    BY <1>5 DEF Takes, WillBe
  <2>2. m = [c EXCEPT !.form = "fself"] /\ [m EXCEPT !.form = "elf"] = c
    BY <1>1, <1>5, <2>1 DEF m, Makes, Contents
  <2>3. Lowered(o, c) = c
    <3>1. c.sdk = "at" => [c EXCEPT !.sdk = "at"] = c
      BY DEF Contents
    <3>2. ~(o.downgrade /\ c.sdk = "hi") /\ c.sdk \in {"hi", "at", "none"}
      BY <2>1 DEF Low, Contents
    <3> QED
      BY <2>1, <3>1, <3>2 DEF Lowered
  <2>4. Plain(o, c) = c /\ Plain(o, m) \in {c, m}
    BY <1>1, <1>5, <2>1, <2>2 DEF Plain
  <2>5. Wrapped(o, c) = m /\ Wrapped(o, m) = m /\ Lowered(o, m) = m
    BY <1>1, <1>5, <2>1, <2>2 DEF Wrapped, Lowered
  <2>6. Converted(o, m) = want /\ Rest(o, "backport", m) = want /\ Low(o, m)
    BY <1>1, <1>2, <1>5, <2>3, <2>4, <2>5 DEF Converted, Rest, Low
  <2> QED
    BY <1>5, <2>6, StageOrder DEF WillBe, Followed, m
<1>6. CASE s = "backport"
  <2>1. o.backport /\ c.form = "sfo" /\ c.sdk # "none"
    BY <1>6 DEF Takes
  <2>2. m = [c EXCEPT !.sdk = "at"] /\ [m EXCEPT !.sdk = "at"] = m
    BY <1>1, <1>6 DEF m, Makes, Contents
  <2>3. Plain(o, c) = c /\ Plain(o, m) = m /\ Wrapped(o, m) = m
    BY <1>1, <1>6, <2>1 DEF Plain, Wrapped
  <2>4. Lowered(o, c) = m /\ Lowered(o, m) = m
    BY <2>1, <2>2 DEF Lowered
  <2>5. Converted(o, m) = want /\ Rest(o, "walk", m) = want
    BY <1>2, <2>3, <2>4 DEF Converted, Rest
  <2> QED
    BY <1>6, <2>5, StageOrder DEF WillBe, Followed, m
<1> QED
  BY <1>3, <1>4, <1>5, <1>6 DEF AllStages

(* A stage that does not leaves it to those after it                       *)
LEMMA PassOver ==
  ASSUME NEW o \in Options, NEW quiet, NEW c \in Contents, NEW want,
         NEW s \in AllStages, ~Takes(o, s, c, TRUE), WillBe(o, quiet, c, s, want)
  PROVE  WillBe(o, quiet, c, After(s), want)
<1>1. Converted(o, c) = want
  BY DEF WillBe
<1>2. CASE s = "decrypt"
  <2>1. c.form = "self" => Plain(o, c) = c
    BY <1>2 DEF Takes, Plain
  <2>2. Rest(o, "unfself", c) = want
    BY <1>1, <2>1 DEF Rest, Converted
  <2> QED
    BY <1>1, <1>2, <2>2, StageOrder DEF WillBe
<1>3. CASE s = "unfself"
  <2>1. quiet => Rest(o, "unfself", c) = want
    BY <1>3 DEF WillBe
  <2>2. c.form # "self" => Plain(o, c) = c
    BY <1>3 DEF Takes, Plain
  <2>3. quiet => Rest(o, "downgrade", c) = want
    BY <2>1, <2>2 DEF Rest
  <2> QED
    BY <1>1, <1>3, <2>3, StageOrder DEF WillBe
<1>4. CASE s = "downgrade"
  <2>1. quiet => Wrapped(o, Lowered(o, c)) = want
    BY <1>4 DEF WillBe, Rest
  <2>2. Low(o, c) /\ (c.form = "elf" => Lowered(o, c) = c)
    BY <1>4 DEF Takes, Low, Lowered
  <2>3. c.form # "elf" => Wrapped(o, Lowered(o, c)) = Lowered(o, c)
    <3>1. c.form # "elf" => Lowered(o, c).form # "elf"
      BY DEF Lowered, Contents
    <3> QED
      BY <3>1 DEF Wrapped
  <2>4. quiet => Rest(o, "rewrap", c) = want
    BY <2>1, <2>2, <2>3 DEF Rest
  <2> QED
    BY <1>1, <1>4, <2>2, <2>4, StageOrder DEF WillBe
<1>5. CASE s = "rewrap"
  <2>1. Low(o, c) /\ (quiet => Rest(o, "rewrap", c) = want)
    BY <1>5 DEF WillBe
  <2>2. c.form = "elf" => Wrapped(o, c) = c
    BY <1>5 DEF Takes, Wrapped
  <2>3. c.form \notin {"elf", "sfo"} => Lowered(o, c) = c
    BY DEF Lowered
  <2>4. quiet => Rest(o, "backport", c) = want
    BY <2>1, <2>2, <2>3 DEF Rest
  <2> QED
    BY <1>1, <1>5, <2>1, <2>4, StageOrder DEF WillBe
<1>6. CASE s = "backport"
  <2>1. quiet => Rest(o, "backport", c) = want
    BY <1>6 DEF WillBe
  <2>2. c.form = "sfo" => Lowered(o, c) = c
    BY <1>6 DEF Takes, Lowered
  <2>3. quiet => Rest(o, "walk", c) = want
    BY <2>1, <2>2 DEF Rest
  <2> QED
    BY <1>1, <1>6, <2>3, StageOrder DEF WillBe
<1> QED
  BY <1>2, <1>3, <1>4, <1>5, <1>6 DEF AllStages

-----------------------------------------------------------------------------
(* A file whose turn it is not                                             *)
LEMMA OtherFiles ==
  ASSUME [Next]_vars, cur \in Names, cur' = cur, NEW f \in Files, cur # <<f>>
  PROVE  /\ Whole(<<f>>)' <=> Whole(<<f>>)
         /\ Whole(<<f>>) => dir'[<<f>>] = dir[<<f>>]
<1>1. OthersStay
  BY NextOwn DEF Names
<1>2. ~Mine(<<f>>)
  <2>1. ASSUME NEW x \in Suffixes PROVE Append(cur, x) # <<f>>
    <3>1. cur \in Seq(Files \cup Suffixes) /\ Len(cur) >= 1
      BY DEF Names
    <3>2. Len(Append(cur, x)) = Len(cur) + 1 /\ Len(<<f>>) = 1
      BY <3>1
    <3> QED
      BY <3>1, <3>2
  <2> QED
    BY <2>1 DEF Mine, Suffixes
<1>3. <<f>> \in DOMAIN dir \cup DOMAIN dir' =>
        <<f>> \in DOMAIN dir /\ <<f>> \in DOMAIN dir' /\ dir'[<<f>>] = dir[<<f>>]
  BY <1>1, <1>2 DEF OthersStay
<1> QED
  BY <1>3 DEF Whole

(* A step of the callback: the other files are as they were                *)
LEMMA Callback ==
  ASSUME FInv, Next, pc \notin Outside, pc' # "done",
         UNCHANGED <<image, opts, cur, pending>>, calm' => calm,
         \A f \in Files : cur = <<f>> =>
           /\ Turn(f)'
           /\ Whole(cur)' => Converted(opts, dir'[cur]) = Final(f)
           /\ calm' /\ pc' = "walk" /\ Whole(cur)' => dir'[cur] = Final(f)
  PROVE  FInv'
<1>1. IInv' /\ opts' \in Options
  BY NextInv DEF FInv
<1>2. cur \in Names /\ cur # <<>>
  BY DEF FInv, IInv, Named, Names
<1>4. ASSUME NEW f \in Files, cur # <<f>>
      PROVE  /\ Whole(<<f>>)' <=> Whole(<<f>>)
             /\ Whole(<<f>>) => dir'[<<f>>] = dir[<<f>>]
  BY <1>2, <1>4, OtherFiles
<1>5. \A f \in Files : Final(f)' = Final(f)
  BY DEF Final
<1>6. Convertible'
  BY <1>4, <1>5 DEF FInv, Convertible
<1>7. Behind'
  BY <1>4, <1>5 DEF FInv, Behind, Done
<1> QED
  BY <1>1, <1>6, <1>7 DEF FInv

(* ... that ends a stage                                                   *)
LEMMA Settles ==
  ASSUME FInv, Next, pc \notin Outside, pc' \in AllStages \cup {"walk"},
         UNCHANGED <<image, opts, cur, pending>>, calm' => calm,
         \A f \in Files : cur = <<f>> /\ Whole(cur)' =>
           WillBe(opts, calm', dir'[cur], pc', Final(f))
  PROVE  FInv'
<1>1. \A f \in Files : Final(f)' = Final(f)
  BY DEF Final
<1>2. \A stage \in AllStages :
        pc' \notin {Writing(stage), Removing(stage), Renaming(stage)}
  BY DEF AllStages, Writing, Removing, Renaming
<1>3. ASSUME NEW f \in Files, cur = <<f>>
      PROVE  Turn(f)'
  BY <1>1, <1>2, <1>3 DEF Turn, AllStages
<1>4. ASSUME NEW f \in Files, cur = <<f>>, Whole(cur)'
      PROVE  /\ Converted(opts, dir'[cur]) = Final(f)
             /\ calm' /\ pc' = "walk" => dir'[cur] = Final(f)
  BY <1>4 DEF WillBe, Rest
<1>5. pc' # "done"
  BY DEF AllStages
<1> QED
  BY <1>3, <1>4, <1>5, Callback

(* ... or the process                                                      *)
LEMMA Stops ==
  ASSUME FInv, Next, pc \notin Outside, pc' \in {"exited", "crashed"},
         UNCHANGED <<image, opts, cur, pending>>, calm' => calm,
         \A f \in Files : cur = <<f>> /\ Whole(cur)' =>
           Converted(opts, dir'[cur]) = Final(f)
  PROVE  FInv'
<1>1. ASSUME NEW f \in Files
      PROVE  Turn(f)'
  BY DEF Turn, AllStages, Writing, Removing, Renaming
<1> QED
  BY <1>1, Callback

(* A change of the temporary leaves the file                               *)
LEMMA TmpOnly ==
  ASSUME NEW stage \in Replacing, cur \in Names, cur' = cur,
         \/ dir' = dir
         \/ dir' = Clear(stage)
         \/ dir' = Unlink(dir, Tmp(stage))
         \/ \E v : dir' = With(dir, Tmp(stage), v)
         \/ \E v : dir' = [dir EXCEPT ![Tmp(stage)] = v]
  PROVE  /\ Tmp(stage) # cur /\ Tmp(stage)' = Tmp(stage)
         /\ cur \in DOMAIN dir' <=> cur \in DOMAIN dir
         /\ cur \in DOMAIN dir => dir'[cur] = dir[cur]
<1>1. PICK x \in Suffixes : Tmp(stage) = Append(cur, x)
  BY TmpOf
<1>2. Tmp(stage) # cur
  BY <1>1, TmpName
<1>3. Tmp(stage)' = Tmp(stage)
  BY DEF Tmp
<1> DEFINE t == Tmp(stage)
<1> HIDE DEF t
<1>4. CASE dir' = Unlink(dir, t)
  BY <1>2, <1>3, <1>4, Gone DEF t
<1>5. CASE dir' = dir
  BY <1>2, <1>3, <1>5
<1>6. CASE \E v : dir' = With(dir, t, v)
  BY <1>2, <1>3, <1>6 DEF With, t
<1>7. CASE \E v : dir' = [dir EXCEPT ![t] = v]
  BY <1>2, <1>3, <1>7 DEF t
<1> QED
  BY <1>4, <1>5, <1>6, <1>7 DEF t, Clear

(* The file in its turn                                                    *)
LEMMA InTurn ==
  ASSUME FInv, pc \notin Outside
  PROVE  /\ cur \in Names /\ opts \in Options
         /\ cur \in DOMAIN dir => dir[cur] \in Contents
         /\ \A f \in Files : cur = <<f>> =>
              /\ Turn(f) /\ Len(cur) = 1
              /\ Whole(cur) => Converted(opts, dir[cur]) = Final(f)
BY DEF FInv, IInv, Named, Convertible

LEMMA Unmoved ==
  ASSUME FInv, NEW stage \in AllStages, pc = stage, ~(Applies(stage) /\ Converts(stage)),
         NEW f \in Files, cur = <<f>>, Whole(cur)
  PROVE  WillBe(opts, calm, dir[cur], After(stage), Final(f))
<1>1. pc \notin Outside
  BY DEF AllStages
<1>2. WillBe(opts, calm, dir[cur], stage, Final(f))
  BY <1>1, InTurn DEF Turn
<1>3. dir[cur] \in Contents /\ opts \in Options /\ Len(cur) = 1 /\ Here
  BY <1>1, InTurn DEF Whole, Here
<1>4. ~Takes(opts, stage, dir[cur], Len(cur) = 1)
  BY <1>3, TakesNot
<1>5. (Len(cur) = 1) = TRUE
  BY <1>3
<1> QED
  BY <1>2, <1>3, <1>4, <1>5, PassOver

LEMMA Moved ==
  ASSUME opts \in Options, NEW stage \in AllStages, Applies(stage) /\ Converts(stage),
         cur \in DOMAIN dir => dir[cur] \in Contents,
         NEW f, WillBe(opts, calm, dir[cur], stage, Final(f))
  PROVE  WillBe(opts, calm, Result(stage), Followed(stage), Final(f))
<1>1. Here /\ Takes(opts, stage, dir[cur], Len(cur) = 1) /\ dir[cur] \in Contents
  BY TakesIt DEF Here
<1> QED
  BY <1>1, MakesIt, Advance

LEMMA DeclinedForm ==
  ASSUME FInv, Next, NEW stage \in AllStages, Declined(stage)
  PROVE  FInv'
<1>1. /\ pc = stage /\ pc' = After(stage) /\ UNCHANGED <<image, opts, cur, pending, calm>>
      /\ \/ ~Applies(stage) /\ dir' = dir
         \/ ~Converts(stage) /\ dir' = dir
         \/ ~Converts(stage) /\ stage \in Replacing /\ dir' = Clear(stage)
  BY DEF Declined, world
<1>2. pc \notin Outside /\ pc' \in AllStages \cup {"walk"}
  BY <1>1, StageOrder DEF AllStages
<1>3. (cur \in DOMAIN dir' <=> cur \in DOMAIN dir) /\ (cur \in DOMAIN dir => dir'[cur] = dir[cur])
  BY <1>1, <1>2, InTurn, TmpOnly
<1>4. ASSUME NEW f \in Files, cur = <<f>>, Whole(cur)'
      PROVE  WillBe(opts, calm', dir'[cur], pc', Final(f))
  <2>1. Whole(cur) /\ dir'[cur] = dir[cur]
    BY <1>1, <1>3, <1>4 DEF Whole
  <2> QED
    BY <1>1, <1>4, <2>1, Unmoved
<1> QED
  BY <1>1, <1>2, <1>4, Settles

LEMMA GarbledForm ==
  ASSUME FInv, Next, NEW stage \in AllStages, Garbled(stage)
  PROVE  FInv'
<1>1. /\ pc = stage /\ pc' \in {After(stage), "exited"}
      /\ UNCHANGED <<image, opts, cur, pending, calm>>
      /\ cur \in DOMAIN dir /\ ~dir[cur].whole
      /\ \/ dir' = dir
         \/ stage \in Replacing /\ dir' = Clear(stage)
         \/ dir' = [dir EXCEPT ![cur] = Result(stage)]
  BY DEF Garbled, Applies, Here, world
<1>2. pc \notin Outside /\ pc' \in AllStages \cup {"walk", "exited"}
  BY <1>1, StageOrder DEF AllStages
<1>3. ~Result(stage).whole
  BY <1>1, <1>2, InTurn, Made
<1>4. ~Whole(cur)'
  BY <1>1, <1>2, <1>3, InTurn, TmpOnly DEF Whole
<1> QED
  BY <1>1, <1>2, <1>4, Settles, Stops

LEMMA OpenTmpForm ==
  ASSUME FInv, Next, NEW stage \in Replacing, OpenTmp(stage)
  PROVE  FInv'
<1>1. /\ pc = stage /\ pc' = Writing(stage) /\ UNCHANGED <<image, opts, cur, pending, calm>>
      /\ cur \in DOMAIN dir /\ Applies(stage) /\ Converts(stage)
      /\ dir' = With(dir, Tmp(stage), Torn(Result(stage)))
  BY DEF OpenTmp, Applies, Here, world
<1>2. pc \notin Outside
  BY <1>1
<1>3. /\ cur \in DOMAIN dir' /\ dir'[cur] = dir[cur] /\ (Whole(cur)' <=> Whole(cur))
  BY <1>1, <1>2, InTurn, TmpOnly DEF Whole
<1>4. Applies(stage)' /\ Converts(stage)'
  BY <1>1, <1>3 DEF Applies, Converts, Here
<1>5. /\ pc' # "done" /\ pc' # "walk" /\ pc' \notin AllStages
      /\ \A u \in Replacing : pc' # Removing(u) /\ pc' # Renaming(u)
      /\ \A u \in Replacing : pc' = Writing(u) => u = stage
      /\ pc' # Writing("downgrade") /\ pc' # Writing("backport")
  BY <1>1 DEF AllStages, Writing, Removing, Renaming
<1>6. ASSUME NEW f \in Files, cur = <<f>>
      PROVE  Turn(f)' /\ (Whole(cur) => Converted(opts, dir'[cur]) = Final(f))
  <2>1. /\ Whole(cur) => WillBe(opts, calm, dir[cur], stage, Final(f))
        /\ Final(f)' = Final(f)
    BY <1>1, <1>2, <1>6, InTurn DEF Turn, AllStages, Final
  <2> QED
    BY <1>1, <1>3, <1>4, <1>5, <2>1 DEF Turn, WillBe
<1> QED
  BY <1>1, <1>2, <1>3, <1>5, <1>6, Callback

LEMMA WriteTmpForm ==
  ASSUME FInv, Next, NEW stage \in Replacing, WriteTmp(stage)
  PROVE  FInv'
<1>1. /\ pc = Writing(stage) /\ pc' = Removing(stage)
      /\ UNCHANGED <<image, opts, cur, pending, calm>>
      /\ cur \in DOMAIN dir /\ Tmp(stage) \in DOMAIN dir
      /\ dir' = [dir EXCEPT ![Tmp(stage)] = Result(stage)]
  BY DEF WriteTmp, FInv, IInv, Steps, world
<1>2. pc \notin Outside
  BY <1>1, WithinNow
<1>3. /\ cur \in DOMAIN dir' /\ dir'[cur] = dir[cur] /\ Tmp(stage)' = Tmp(stage)
      /\ dir'[Tmp(stage)] = Result(stage) /\ (Whole(cur)' <=> Whole(cur))
  BY <1>1, <1>2, InTurn, TmpOnly DEF Whole
<1>4. /\ Applies(stage) <=> Applies(stage)'
      /\ Converts(stage) <=> Converts(stage)'
      /\ Result(stage)' = Result(stage)
  BY <1>1, <1>3 DEF Applies, Converts, Here, Result
<1>5. /\ pc' # "done" /\ pc' # "walk" /\ pc' \notin AllStages
      /\ \A u \in Replacing : pc' # Writing(u) /\ pc' # Renaming(u)
      /\ \A u \in Replacing : pc' = Removing(u) => u = stage
      /\ pc' # Writing("downgrade") /\ pc' # Writing("backport")
  BY <1>1 DEF AllStages, Writing, Removing, Renaming
<1>6. ASSUME NEW f \in Files, cur = <<f>>
      PROVE  Turn(f)' /\ (Whole(cur) => Converted(opts, dir'[cur]) = Final(f))
  <2>1. /\ Applies(stage) /\ Converts(stage) /\ Final(f)' = Final(f)
        /\ Whole(cur) => WillBe(opts, calm, dir[cur], stage, Final(f))
    BY <1>1, <1>2, <1>6, InTurn DEF Turn, Final
  <2> QED
    BY <1>1, <1>3, <1>4, <1>5, <2>1 DEF Turn, WillBe
<1> QED
  BY <1>1, <1>2, <1>3, <1>5, <1>6, Callback

LEMMA RemovePathForm ==
  ASSUME FInv, Next, NEW stage \in Replacing, RemovePath(stage)
  PROVE  FInv'
<1>1. /\ pc = Removing(stage) /\ pc' = Renaming(stage)
      /\ UNCHANGED <<image, opts, cur, pending, calm>>
      /\ cur \in DOMAIN dir /\ Tmp(stage) \in DOMAIN dir
      /\ dir' = Unlink(dir, cur)
  BY DEF RemovePath, FInv, IInv, Steps, world
<1>2. pc \notin Outside
  BY <1>1, WithinNow
<1>3. Tmp(stage) # cur /\ Tmp(stage)' = Tmp(stage)
  <2>1. PICK x \in Suffixes : Tmp(stage) = Append(cur, x)
    BY TmpOf
  <2> QED
    BY <1>1, <1>2, <2>1, InTurn, TmpName DEF Tmp
<1>4. /\ cur \notin DOMAIN dir' /\ dir'[Tmp(stage)] = dir[Tmp(stage)]
      /\ Whole(Tmp(stage))' <=> Whole(Tmp(stage))
  <2>1. /\ cur \notin DOMAIN dir' /\ Tmp(stage) \in DOMAIN dir'
        /\ dir'[Tmp(stage)] = dir[Tmp(stage)]
    BY <1>1, <1>3, Gone
  <2> QED
    BY <1>1, <1>3, <2>1 DEF Whole
<1>5. /\ pc' # "done" /\ pc' # "walk" /\ pc' \notin AllStages
      /\ \A u \in Replacing : pc' # Writing(u) /\ pc' # Removing(u)
      /\ \A u \in Replacing : pc' = Renaming(u) => u = stage
      /\ pc' # Writing("downgrade") /\ pc' # Writing("backport")
  BY <1>1 DEF AllStages, Writing, Removing, Renaming
<1>6. ASSUME NEW f \in Files, cur = <<f>>
      PROVE  Turn(f)'
  <2>1. /\ Applies(stage) /\ Converts(stage) /\ Final(f)' = Final(f)
        /\ Whole(cur) => WillBe(opts, calm, dir[cur], stage, Final(f))
        /\ Whole(Tmp(stage)) => dir[Tmp(stage)] = Result(stage)
    BY <1>1, <1>2, <1>6, InTurn DEF Turn, Final
  <2>2. ASSUME Whole(Tmp(stage))
        PROVE  WillBe(opts, calm, dir[Tmp(stage)], Followed(stage), Final(f))
    <3>1. Whole(cur)
      BY <1>1, <1>2, <2>1, <2>2, InTurn, Made DEF Whole
    <3> QED
      BY <1>2, <2>1, <2>2, <3>1, InTurn, Moved DEF AllStages
  <2> QED
    BY <1>1, <1>3, <1>4, <1>5, <2>1, <2>2 DEF Turn
<1> QED
  BY <1>1, <1>2, <1>4, <1>5, <1>6, Callback DEF Whole

LEMMA RenameTmpForm ==
  ASSUME FInv, Next, NEW stage \in Replacing, RenameTmp(stage)
  PROVE  FInv'
<1>1. /\ pc = Renaming(stage) /\ pc' = Followed(stage)
      /\ UNCHANGED <<image, opts, cur, pending, calm>>
      /\ dir'[cur] = dir[Tmp(stage)] /\ Tmp(stage) \in DOMAIN dir
  BY DEF RenameTmp, Followed, With, world, FInv, IInv, Steps
<1>2. pc \notin Outside /\ pc' \in AllStages
  BY <1>1, WithinNow, StageOrder DEF Followed, AllStages
<1>3. ASSUME NEW f \in Files, cur = <<f>>, Whole(cur)'
      PROVE  WillBe(opts, calm', dir'[cur], pc', Final(f))
  <2>1. Whole(Tmp(stage))
    BY <1>1, <1>3 DEF Whole
  <2> QED
    BY <1>1, <1>2, <1>3, <2>1, InTurn DEF Turn
<1> QED
  BY <1>1, <1>2, <1>3, Settles

(* A failed write of the temporary: the file stays as it was, and the pass *)
(* is no longer one without a fault                                        *)
LEMMA TmpWriteFailsForm ==
  ASSUME FInv, Next, NEW stage \in Replacing, TmpWriteFails(stage)
  PROVE  FInv'
<1>1. /\ pc = Writing(stage) /\ pc' = After(stage)
      /\ UNCHANGED <<image, opts, cur, pending>> /\ ~calm'
      /\ cur \in DOMAIN dir /\ dir' = Clear(stage)
  BY DEF TmpWriteFails, Fault, FInv, IInv, Steps, world
<1>2. pc \notin Outside /\ pc' \in AllStages
  BY <1>1, WithinNow, StageOrder DEF AllStages
<1>3. dir'[cur] = dir[cur]
  BY <1>1, <1>2, InTurn, TmpOnly
<1>4. ASSUME NEW f \in Files, cur = <<f>>, Whole(cur)'
      PROVE  WillBe(opts, calm', dir'[cur], pc', Final(f))
  <2>1. WillBe(opts, calm, dir[cur], stage, Final(f))
    BY <1>1, <1>2, <1>3, <1>4, InTurn DEF Turn, Whole
  <2>2. pc' = "backport" => stage = "rewrap"
    BY <1>1, StageOrder
  <2>3. pc' # "rewrap"
    BY <1>1, StageOrder
  <2> QED
    BY <1>1, <1>3, <2>1, <2>2, <2>3 DEF WillBe
<1> QED
  BY <1>1, <1>2, <1>4, Settles

LEMMA TmpCloseFailsForm ==
  ASSUME FInv, Next, NEW stage \in Replacing, TmpCloseFails(stage)
  PROVE  FInv'
<1>1. /\ pc = Writing(stage) /\ pc' = Removing(stage)
      /\ UNCHANGED <<image, opts, cur, pending, dir>> /\ ~calm'
      /\ cur \in DOMAIN dir /\ ~Whole(Tmp(stage))
  BY DEF TmpCloseFails, Fault, FInv, IInv, Steps, world
<1>2. pc \notin Outside
  BY <1>1, WithinNow
<1>3. /\ Applies(stage) <=> Applies(stage)'
      /\ Converts(stage) <=> Converts(stage)'
      /\ Whole(cur)' <=> Whole(cur)
      /\ ~Whole(Tmp(stage))'
  BY <1>1 DEF Applies, Converts, Here, Whole, Tmp
<1>4. /\ pc' # "done" /\ pc' # "walk" /\ pc' \notin AllStages
      /\ \A u \in Replacing : pc' # Writing(u) /\ pc' # Renaming(u)
      /\ \A u \in Replacing : pc' = Removing(u) => u = stage
      /\ pc' # Writing("downgrade") /\ pc' # Writing("backport")
  BY <1>1 DEF AllStages, Writing, Removing, Renaming
<1>5. ASSUME NEW f \in Files, cur = <<f>>
      PROVE  Turn(f)' /\ (Whole(cur) => Converted(opts, dir'[cur]) = Final(f))
  <2>1. /\ Applies(stage) /\ Converts(stage) /\ Final(f)' = Final(f)
        /\ Whole(cur) => WillBe(opts, calm, dir[cur], stage, Final(f))
    BY <1>1, <1>2, <1>5, InTurn DEF Turn, Final
  <2>2. Whole(cur) => WillBe(opts, FALSE, dir[cur], stage, Final(f))
    BY <2>1 DEF WillBe
  <2>3. calm' = FALSE
    BY DEF TmpCloseFails, Fault
  <2> QED
    BY <1>1, <1>3, <1>4, <2>1, <2>2, <2>3 DEF Turn, WillBe
<1> QED
  BY <1>1, <1>2, <1>3, <1>4, <1>5, Callback

LEMMA RenameFailsForm ==
  ASSUME FInv, Next, NEW stage \in Replacing, RenameFails(stage)
  PROVE  FInv'
<1>1. /\ pc = Renaming(stage) /\ pc' = After(stage)
      /\ UNCHANGED <<image, opts, cur, pending>> /\ ~calm'
      /\ dir' = Unlink(dir, Tmp(stage))
  BY DEF RenameFails, Fault, world
<1>2. pc \notin Outside /\ pc' \in AllStages
  BY <1>1, WithinNow, StageOrder DEF AllStages
<1>3. ASSUME NEW f \in Files, cur = <<f>>
      PROVE  ~Whole(cur)'
  <2>1. cur \notin DOMAIN dir
    BY <1>1 DEF FInv, IInv, Steps
  <2> QED
    BY <1>1, <2>1, Gone DEF Whole
<1> QED
  BY <1>1, <1>2, <1>3, Settles

LEMMA OpenInPlaceForm ==
  ASSUME FInv, Next, NEW stage \in {"downgrade", "backport"}, OpenInPlace(stage)
  PROVE  FInv'
<1>1. /\ pc = stage /\ pc' = Writing(stage) /\ UNCHANGED <<image, opts, cur, pending, calm>>
      /\ cur \in DOMAIN dir /\ dir[cur].whole /\ Applies(stage) /\ Converts(stage)
      /\ dir' = [dir EXCEPT ![cur] = Torn(Result(stage))]
  BY DEF OpenInPlace, Applies, Here, world
<1>2. pc \notin Outside /\ stage \in AllStages
  BY <1>1 DEF AllStages
<1>3. dir[cur] \in Contents
  BY <1>1, <1>2, InTurn
<1>4. /\ dir'[cur] = Torn(Result(stage)) /\ ~dir'[cur].whole
      /\ Mended(dir'[cur]) = Result(stage)
  <2>1. /\ Result(stage) \in Contents /\ Result(stage).whole = TRUE
        /\ ~Torn(Result(stage)).whole
    <3>1. dir[cur].whole = TRUE
      BY <1>1, <1>3 DEF Contents
    <3> QED
      BY <1>1, <1>3, <3>1, Made
  <2>2. dir'[cur] = Torn(Result(stage))
    BY <1>1
  <2>3. Mended(Torn(Result(stage))) = Result(stage)
    BY <2>1 DEF Mended, Torn, Contents
  <2> QED
    BY <2>1, <2>2, <2>3
<1>5. /\ pc' # "done" /\ pc' # "walk" /\ pc' \notin AllStages
      /\ \A u \in Replacing : pc' \notin {Writing(u), Removing(u), Renaming(u)}
      /\ \A u \in {"downgrade", "backport"} : pc' = Writing(u) => u = stage
  BY <1>1 DEF AllStages, Writing, Removing, Renaming
<1>6. ASSUME NEW f \in Files, cur = <<f>>
      PROVE  Turn(f)'
  <2>1. WillBe(opts, calm, dir[cur], stage, Final(f)) /\ Final(f)' = Final(f)
    BY <1>1, <1>2, <1>6, InTurn DEF Turn, Whole, Final
  <2>2. WillBe(opts, calm, Result(stage), After(stage), Final(f))
    BY <1>1, <1>2, <1>3, <2>1, InTurn, Moved DEF Followed
  <2> QED
    BY <1>1, <1>4, <1>5, <2>1, <2>2 DEF Turn
<1> QED
  BY <1>1, <1>2, <1>4, <1>5, <1>6, Callback DEF Whole

LEMMA WriteInPlaceForm ==
  ASSUME FInv, Next, NEW stage \in {"downgrade", "backport"}, WriteInPlace(stage)
  PROVE  FInv'
<1>1. /\ pc = Writing(stage) /\ pc' = After(stage)
      /\ UNCHANGED <<image, opts, cur, pending, calm>>
      /\ dir' = [dir EXCEPT ![cur].whole = TRUE]
  BY DEF WriteInPlace, world
<1>2. pc \notin Outside /\ Rewriting /\ pc' \in AllStages \cup {"walk"}
  BY <1>1, StageOrder DEF Writing, Rewriting, AllStages
<1>3. cur \in DOMAIN dir
  BY <1>2 DEF FInv, IInv, Steps
<1>4. dir'[cur] = Mended(dir[cur])
  BY <1>1, <1>3 DEF Mended
<1>5. ASSUME NEW f \in Files, cur = <<f>>
      PROVE  WillBe(opts, calm', dir'[cur], pc', Final(f))
  BY <1>1, <1>2, <1>4, <1>5, InTurn DEF Turn
<1> QED
  BY <1>1, <1>2, <1>5, Settles

LEMMA InPlaceWriteFailsForm ==
  ASSUME FInv, Next, NEW stage \in {"downgrade", "backport"}, InPlaceWriteFails(stage)
  PROVE  FInv'
<1>1. /\ pc = Writing(stage) /\ pc' = After(stage)
      /\ UNCHANGED <<image, opts, cur, pending, dir>> /\ ~calm'
  BY DEF InPlaceWriteFails, Fault, world
<1>2. pc \notin Outside /\ Rewriting /\ pc' \in AllStages \cup {"walk"}
  BY <1>1, StageOrder DEF Writing, Rewriting, AllStages
<1>3. cur \in DOMAIN dir /\ dir[cur] \in Contents
  BY <1>2, InTurn DEF FInv, IInv, Steps
<1>4. dir[cur].whole => Mended(dir[cur]) = dir[cur]
  BY <1>3 DEF Mended, Contents
<1>5. ASSUME NEW f \in Files, cur = <<f>>, Whole(cur)'
      PROVE  WillBe(opts, calm', dir'[cur], pc', Final(f))
  <2>1. WillBe(opts, calm, dir[cur], pc', Final(f))
    BY <1>1, <1>2, <1>4, <1>5, InTurn DEF Turn, Whole
  <2> QED
    BY <1>1, <2>1 DEF WillBe
<1> QED
  BY <1>1, <1>2, <1>5, Settles

-----------------------------------------------------------------------------
(* The walk: a name is returned, or is gone, or there is none left         *)

LEMMA VisitForm ==
  ASSUME FInv, Next, NEW n, Visit(n) \/ Revisit(n)
  PROVE  FInv'
<1>1. /\ pc = "walk" /\ pc' = "decrypt" /\ UNCHANGED <<image, opts, dir, calm>>
      /\ n \in DOMAIN dir /\ cur' = n /\ pending' \subseteq pending
      /\ pending \subseteq pending' \cup {n}
  BY DEF Visit, Revisit, world
<1>2. IInv' /\ opts' \in Options
  BY <1>1, NextInv DEF FInv
<1>3. \A f \in Files : Final(f)' = Final(f)
  BY <1>1 DEF Final
<1>4. \A stage \in AllStages :
        "decrypt" \notin {Writing(stage), Removing(stage), Renaming(stage)}
  BY DEF AllStages, Writing, Removing, Renaming
<1>5. ASSUME NEW f \in Files, n = <<f>>
      PROVE  Turn(f)'
  <2>1. Whole(n) => WillBe(opts, calm, dir[n], "decrypt", Final(f))
    BY <1>5 DEF FInv, Convertible, WillBe, Rest
  <2> QED
    BY <1>1, <1>3, <1>4, <2>1 DEF Turn, AllStages, Whole
<1>6. Convertible'
  BY <1>1, <1>3, <1>5 DEF FInv, Convertible, Whole
<1>7. Behind'
  BY <1>1, <1>3 DEF FInv, Behind, Done, Whole
<1> QED
  BY <1>2, <1>6, <1>7 DEF FInv

(* A step of the walk or of the system that leaves the directory           *)
LEMMA Idle ==
  ASSUME FInv, Next, UNCHANGED <<image, opts, dir>>, calm' => calm,
         pc' \in {"walk", "cut", "done", "exited", "crashed"},
         \/ pc' \in {"cut", "exited", "crashed"}
         \/ pc = "walk" /\ \A n \in pending : n \in pending' \/ n \notin DOMAIN dir,
         pc' = "done" => pending' = {}
  PROVE  FInv'
<1>1. IInv' /\ opts' \in Options
  BY NextInv DEF FInv
<1>2. \A f \in Files : Final(f)' = Final(f)
  BY DEF Final
<1>3. \A f \in Files : Turn(f)'
  BY DEF Turn, AllStages, Writing, Removing, Renaming
<1>4. Convertible'
  BY <1>2, <1>3 DEF FInv, Convertible, Whole
<1>5. Behind'
  BY <1>2 DEF FInv, Behind, Done, Whole
<1> QED
  BY <1>1, <1>4, <1>5 DEF FInv

LEMMA RestartForm ==
  ASSUME FInv, Next, Restart
  PROVE  FInv'
<1>1. /\ pc' = "walk" /\ UNCHANGED <<image, opts>> /\ cur' = <<>> /\ pending' = DOMAIN dir'
      /\ dir' = UnpackedOver(dir) \/ dir' = dir
  BY DEF Restart
<1>2. IInv' /\ opts' \in Options
  BY <1>1, NextInv DEF FInv
<1>3. \A f \in Files : Final(f)' = Final(f)
  BY <1>1 DEF Final
<1>4. ASSUME NEW f \in Files, Whole(<<f>>)'
      PROVE  Converted(opts, dir'[<<f>>]) = Final(f)
  <2>1. CASE dir' = UnpackedOver(dir)
    <3>1. <<f>> \in Own /\ <<f>>[1] = f
      BY DEF Own
    <3>2. dir'[<<f>>] = image[f]
      BY <2>1, <3>1 DEF UnpackedOver
    <3> QED
      BY <3>2 DEF Final
  <2>2. CASE dir' = dir
    BY <1>4, <2>2 DEF FInv, Convertible, Whole
  <2> QED
    BY <1>1, <2>1, <2>2
<1>5. \A f \in Files : cur' # <<f>>
  BY <1>1
<1>6. Convertible'
  BY <1>1, <1>3, <1>4, <1>5 DEF Convertible
<1>7. Behind'
  BY <1>1 DEF Behind, Done, Whole
<1> QED
  BY <1>2, <1>6, <1>7 DEF FInv

LEMMA InitForm == Init => FInv
<1> SUFFICES ASSUME Init PROVE FInv
  OBVIOUS
<1>1. /\ opts \in Options /\ dir = UnpackedOver(<<>>) /\ pending = DOMAIN dir
      /\ pc = "walk" /\ cur = <<>>
  BY DEF Init
<1>2. ASSUME NEW f \in Files
      PROVE  Converted(opts, dir[<<f>>]) = Final(f) /\ cur # <<f>>
  <2>1. <<f>> \in Own /\ <<f>>[1] = f
    BY DEF Own
  <2>2. dir[<<f>>] = image[f]
    BY <1>1, <2>1 DEF UnpackedOver
  <2> QED
    BY <1>1, <2>2 DEF Final
<1>3. Convertible
  BY <1>2 DEF Convertible
<1>4. Behind
  BY <1>1 DEF Behind, Done, Whole
<1> QED
  BY <1>1, <1>3, <1>4, InitInv DEF FInv

LEMMA NextForm ==
  ASSUME FInv, [Next]_vars
  PROVE  FInv'
<1>1. CASE UNCHANGED vars
  <2>1. IInv'
    BY <1>1, NextInv DEF FInv
  <2>2. \A f \in Files : (Turn(f) <=> Turn(f)') /\ Final(f)' = Final(f)
    BY <1>1 DEF vars, Turn, WillBe, Final, Whole, Applies, Converts, Here, Result, Tmp
  <2> QED
    BY <1>1, <2>1, <2>2 DEF FInv, vars, Convertible, Behind, Done, Whole
<1>2. CASE Next
  <2>1. ASSUME NEW n, Vanished(n) PROVE FInv'
    BY <1>2, <2>1, Idle DEF Vanished, world
  <2>2. CASE EndOfDirectory
    BY <1>2, <2>2, Idle DEF EndOfDirectory, world
  <2>3. CASE Crash
    BY <1>2, <2>3, Idle DEF Crash, Fault, world
  <2>4. ASSUME NEW stage \in Replacing, Replace(stage) PROVE FInv'
    BY <1>2, <2>4, OpenTmpForm, WriteTmpForm, RemovePathForm, RenameTmpForm,
       TmpWriteFailsForm, TmpCloseFailsForm, RenameFailsForm DEF Replace
  <2>5. ASSUME NEW stage \in {"downgrade", "backport"}, Rewrite(stage) PROVE FInv'
    BY <1>2, <2>5, OpenInPlaceForm, WriteInPlaceForm, InPlaceWriteFailsForm DEF Rewrite
  <2>6. ASSUME NEW stage \in AllStages, Declined(stage) \/ Garbled(stage) PROVE FInv'
    BY <1>2, <2>6, DeclinedForm, GarbledForm
  <2> QED
    BY <1>2, <2>1, <2>2, <2>3, <2>4, <2>5, <2>6, VisitForm, RestartForm DEF Next, AllStages
<1> QED
  BY <1>1, <1>2

(* A pass that met no fault leaves every file in its final form, whatever  *)
(* the files, options and images, and however often earlier runs were      *)
(* stopped and readdir returned a file again (main.c:533-716).             *)
THEOREM AllConverted == Spec => []FinalForm
<1>1. Init => FInv
  BY InitForm
<1>2. FInv /\ [Next]_vars => FInv'
  BY NextForm
<1>3. FInv => FinalForm
  BY DEF FInv, Behind, Done, Whole, FinalForm
<1> QED
  BY <1>1, <1>2, <1>3, PTL DEF Spec

-----------------------------------------------------------------------------
(* The files of the image in a pass without a fault                        *)

LEMMA TurnIntact ==
  ASSUME TInv, Next, pc \notin Outside, cur' = cur, calm' => calm, fresh' = fresh,
         \A f \in Files :
           cur = <<f>> =>
             \/ Whole(cur) /\ Whole(cur)'
             \/ /\ ~Whole(cur) /\ ~Rewriting
                /\ \A stage \in Replacing : pc # Renaming(stage) \/ ~Whole(Tmp(stage))
             \/ Whole(cur)' \/ Rewriting'
             \/ \E stage \in Replacing : pc' = Renaming(stage) /\ Whole(Tmp(stage))'
  PROVE  Intact'
<1>1. cur \in Names
  BY DEF TInv, IInv, Named
<1> QED
  BY <1>1, OtherFiles DEF TInv, Intact

LEMMA StageNow ==
  ASSUME NEW stage \in AllStages, pc = stage
  PROVE  /\ pc \notin Outside /\ ~Rewriting
         /\ \A u \in Replacing : pc \notin {Writing(u), Removing(u), Renaming(u)}
BY DEF AllStages, Rewriting, Writing, Removing, Renaming

LEMMA ReplaceIntact ==
  ASSUME TInv, Next, NEW stage \in Replacing, Replace(stage)
  PROVE  Intact'
<1>1. pc \notin Outside /\ cur \in Names /\ cur' = cur /\ fresh' = fresh /\ (calm' => calm)
  <2>1. pc \in {stage, Writing(stage), Removing(stage), Renaming(stage)}
    BY DEF Replace, OpenTmp, WriteTmp, RemovePath, RenameTmp, TmpWriteFails,
       TmpCloseFails, RenameFails
  <2>2. pc \notin Outside
    BY <2>1, WithinNow
  <2> QED
    BY <2>2 DEF Replace, OpenTmp, WriteTmp, RemovePath, RenameTmp, TmpWriteFails,
       TmpCloseFails, RenameFails, Fault, world, TInv, IInv, Named
<1>2. CASE OpenTmp(stage)
  <2>1. /\ pc = stage /\ cur \in DOMAIN dir
        /\ dir' = With(dir, Tmp(stage), Torn(Result(stage)))
    BY <1>2 DEF OpenTmp, Applies, Here
  <2>2. Whole(cur) => Whole(cur)'
    BY <1>1, <2>1, TmpOnly DEF Whole
  <2>3. ~Rewriting /\ \A u \in Replacing : pc # Renaming(u)
    BY <2>1, StageNow DEF AllStages
  <2> QED
    BY <1>1, <2>2, <2>3, TurnIntact
<1>3. CASE WriteTmp(stage)
  <2>1. pc = Writing(stage) /\ dir' = [dir EXCEPT ![Tmp(stage)] = Result(stage)]
    BY <1>3 DEF WriteTmp
  <2>2. Whole(cur) => Whole(cur)'
    BY <1>1, <2>1, TmpOnly DEF Whole
  <2>3. ~Rewriting /\ \A u \in Replacing : pc # Renaming(u)
    BY <2>1 DEF Rewriting, Writing, Renaming
  <2> QED
    BY <1>1, <2>2, <2>3, TurnIntact
<1>4. CASE RemovePath(stage)
  <2>1. /\ pc = Removing(stage) /\ pc' = Renaming(stage) /\ dir' = Unlink(dir, cur)
        /\ Tmp(stage)' = Tmp(stage) /\ calm' = calm
    BY <1>4 DEF RemovePath, Tmp
  <2>2. CASE Whole(Tmp(stage))
    <3>1. PICK x \in Suffixes : Tmp(stage) = Append(cur, x)
      BY <1>1, TmpOf
    <3>2. Append(cur, x) # cur
      BY <1>1, TmpName
    <3>3. /\ Tmp(stage) \in DOMAIN dir \ {cur} /\ dir[Tmp(stage)].whole
      BY <2>2, <3>1, <3>2 DEF Whole
    <3>4. Tmp(stage) \in DOMAIN dir' /\ dir'[Tmp(stage)].whole
      BY <2>1, <3>3, Gone
    <3>5. Whole(Tmp(stage))'
      BY <2>1, <3>4 DEF Whole
    <3> QED
      BY <1>1, <2>1, <3>5, TurnIntact
  <2>3. CASE ~Whole(Tmp(stage)) /\ Whole(cur)
    BY <2>1, <2>3 DEF TInv, IInv, Steps, Intact
  <2>4. CASE ~Whole(cur)
    <3>1. ~Rewriting /\ \A u \in Replacing : pc # Renaming(u)
      BY <2>1 DEF Rewriting, Writing, Removing, Renaming
    <3> QED
      BY <1>1, <2>4, <3>1, TurnIntact
  <2> QED
    BY <2>2, <2>3, <2>4
<1>5. CASE RenameTmp(stage)
  <2>1. /\ pc = Renaming(stage) /\ cur \notin DOMAIN dir /\ Tmp(stage) \in DOMAIN dir
        /\ dir' = With(Unlink(dir, Tmp(stage)), cur, dir[Tmp(stage)])
    BY <1>5 DEF RenameTmp, TInv, IInv, Steps
  <2>2. CASE Whole(Tmp(stage))
    <3>1. Whole(cur)'
      BY <1>1, <2>1, <2>2 DEF Whole, With
    <3> QED
      BY <1>1, <3>1, TurnIntact
  <2>3. CASE ~Whole(Tmp(stage))
    <3>1. ~Whole(cur) /\ ~Rewriting
      BY <2>1 DEF Whole, Rewriting, Writing, Renaming
    <3>2. \A u \in Replacing : pc # Renaming(u) \/ u = stage
      BY <2>1 DEF Renaming
    <3> QED
      BY <1>1, <2>3, <3>1, <3>2, TurnIntact
  <2> QED
    BY <2>2, <2>3
<1>6. CASE TmpWriteFails(stage) \/ TmpCloseFails(stage) \/ RenameFails(stage)
  BY <1>6 DEF TmpWriteFails, TmpCloseFails, RenameFails, Fault, Intact
<1> QED
  BY <1>2, <1>3, <1>4, <1>5, <1>6 DEF Replace

LEMMA RewriteIntact ==
  ASSUME TInv, Next, NEW stage \in {"downgrade", "backport"}, Rewrite(stage)
  PROVE  Intact'
<1>1. CASE OpenInPlace(stage)
  <2>1. pc \notin Outside /\ Rewriting' /\ cur' = cur /\ fresh' = fresh /\ calm' = calm
    BY <1>1 DEF OpenInPlace, Rewriting, world
  <2> QED
    BY <2>1, TurnIntact
<1>2. CASE WriteInPlace(stage)
  <2>1. /\ pc \notin Outside /\ Rewriting /\ cur' = cur /\ fresh' = fresh /\ calm' = calm
        /\ dir' = [dir EXCEPT ![cur].whole = TRUE]
    BY <1>2 DEF WriteInPlace, Rewriting, Writing, world
  <2>2. cur \in DOMAIN dir /\ dir[cur] \in Contents
    BY <2>1 DEF TInv, IInv, Named, Steps
  <2>3. Whole(cur)'
    BY <2>1, <2>2 DEF Whole, Contents
  <2> QED
    BY <2>1, <2>3, TurnIntact
<1>3. CASE InPlaceWriteFails(stage)
  BY <1>3 DEF InPlaceWriteFails, Fault, Intact
<1> QED
  BY <1>1, <1>2, <1>3 DEF Rewrite

LEMMA PassIntact ==
  ASSUME TInv, Next, NEW stage \in AllStages, Declined(stage) \/ Garbled(stage)
  PROVE  Intact'
<1>1. /\ pc = stage /\ cur' = cur /\ fresh' = fresh /\ calm' = calm
      /\ \/ dir' = dir
         \/ stage \in Replacing /\ dir' = Clear(stage)
         \/ ~Whole(cur)
  BY DEF Declined, Garbled, world, Whole
<1>2. /\ pc \notin Outside /\ ~Rewriting /\ cur \in Names
      /\ \A u \in Replacing : pc # Renaming(u)
  BY <1>1, StageNow DEF TInv, IInv, Named
<1>3. Whole(cur) => Whole(cur)'
  BY <1>1, <1>2, TmpOnly DEF Whole
<1> QED
  BY <1>1, <1>2, <1>3, TurnIntact

LEMMA RestartIntact ==
  ASSUME TInv, Restart
  PROVE  Intact'
<1>1. fresh' => dir' = UnpackedOver(dir)
  BY DEF Restart
<1>2. ASSUME dir' = UnpackedOver(dir), NEW f \in Files
      PROVE  Whole(<<f>>)'
  BY <1>2, Unpacked DEF TInv, IInv, Named, Whole
<1> QED
  BY <1>1, <1>2 DEF Intact

LEMMA NextIntact ==
  ASSUME TInv, [Next]_vars
  PROVE  Intact'
<1>1. CASE UNCHANGED vars
  BY <1>1 DEF vars, TInv, Intact, Whole, Rewriting, Tmp
<1>2. ASSUME pc = "walk", UNCHANGED <<dir, calm, fresh>>
      PROVE  Intact'
  BY <1>2 DEF TInv, Intact, Whole, Rewriting, Writing, Renaming
<1>3. ASSUME NEW n, Visit(n) \/ Revisit(n) \/ Vanished(n) PROVE Intact'
  BY <1>2, <1>3 DEF Visit, Revisit, Vanished, world
<1>4. CASE EndOfDirectory
  BY <1>2, <1>4 DEF EndOfDirectory, world
<1>5. CASE Crash
  BY <1>5 DEF Crash, Fault, Intact
<1>6. CASE Next
  BY <1>3, <1>4, <1>5, <1>6, RestartIntact, ReplaceIntact, RewriteIntact, PassIntact
     DEF Next, AllStages
<1> QED
  BY <1>1, <1>6

-----------------------------------------------------------------------------
(* The temporaries of the first run                                        *)

AllFiles(d) == \A n \in DOMAIN d : Len(n) = 1

LEMMA NoneLeft ==
  ASSUME NoStray, runs = 1, pc \in Quiet \ Stopped,
         pc = "unfself" => ~Applies("unfself") \/ ~Whole(cur)
  PROVE  AllFiles(dir)
<1>1. ASSUME NEW stage \in Replacing PROVE ~LeftAt(stage)
  BY DEF LeftAt, Quiet, Writing, Removing, Renaming
<1> QED
  BY <1>1 DEF NoStray, AllFiles

(* Where the pass has nothing of its own in the directory                  *)
LEMMA SetsDown ==
  ASSUME AllFiles(dir)', pc' \in Quiet, pc' \in AllStages => Len(cur') = 1
  PROVE  NoStray'
BY DEF AllFiles, NoStray, Quiet, AllStages, Writing

(* ... and where it has its temporary                                      *)
LEMMA Holds ==
  ASSUME NEW stage \in Replacing, Len(cur) = 1, cur' = cur,
         LeftAt(stage)',
         pc' = Writing("decrypt") => Applies("decrypt")' /\ Whole(cur)',
         \A n \in DOMAIN dir' : Len(n) = 1 \/ n = Tmp(stage)
  PROVE  NoStray'
<1>1. Tmp(stage)' = Tmp(stage)
  BY DEF Tmp
<1> QED
  BY <1>1 DEF NoStray

LEMMA Held ==
  ASSUME NoStray, runs = 1, NEW stage \in Replacing,
         pc \in {Writing(stage), Removing(stage), Renaming(stage)}
  PROVE  /\ Len(cur) = 1 /\ \A n \in DOMAIN dir : Len(n) = 1 \/ n = Tmp(stage)
         /\ pc = Writing("decrypt") => Applies("decrypt") /\ Whole(cur)
<1>1. pc \notin Stopped /\ pc \notin Outside
  BY WithinNow DEF Stopped
<1>2. ASSUME NEW u \in Replacing, LeftAt(u) PROVE u = stage
  BY <1>2 DEF LeftAt, Writing, Removing, Renaming
<1> QED
  BY <1>1, <1>2 DEF NoStray

LEMMA SameStage == Applies("decrypt") <=> Applies("unfself")
BY DEF Applies

LEMMA ReplaceStray ==
  ASSUME TInv, runs = 1, NEW stage \in Replacing, Replace(stage)
  PROVE  NoStray'
<1>1. CASE OpenTmp(stage)
  <2>1. /\ pc = stage /\ pc' = Writing(stage) /\ cur' = cur /\ opts' = opts
        /\ Applies(stage) /\ Converts(stage) /\ cur \in DOMAIN dir
        /\ dir' = With(dir, Tmp(stage), Torn(Result(stage)))
    BY <1>1 DEF OpenTmp, Applies, Here, world
  <2>2. pc \notin Outside /\ cur \in Names
    BY <2>1 DEF TInv, IInv, Named
  <2>3. Len(cur) = 1
    BY <2>1, <2>2 DEF TInv, NoStray, Stopped
  <2>4. DOMAIN dir' = DOMAIN dir \cup {Tmp(stage)}
    BY <2>1 DEF With
  <2>5. ASSUME NEW n \in DOMAIN dir PROVE Len(n) = 1 \/ n = Tmp(stage)
    <3>1. ASSUME NEW u \in Replacing, LeftAt(u) PROVE u = stage
      BY <2>1, <3>1 DEF LeftAt, Writing, Removing, Renaming
    <3> QED
      BY <2>1, <2>5, <3>1 DEF TInv, NoStray, Stopped
  <2>6. LeftAt(stage)'
    BY <2>1 DEF LeftAt
  <2>7. pc' = Writing("decrypt") => Applies("decrypt")' /\ Whole(cur)'
    <3>1. (cur \in DOMAIN dir') <=> (cur \in DOMAIN dir)
      BY <2>1, <2>2, TmpOnly
    <3>2. cur \in DOMAIN dir => dir'[cur] = dir[cur]
      BY <2>1, <2>2, TmpOnly
    <3>3. pc' = Writing("decrypt") => stage = "decrypt"
      BY <2>1 DEF Writing
    <3>4. stage = "decrypt" => dir[cur].whole
      BY <2>1 DEF Converts, TInv, SelfsWhole
    <3> QED
      BY <2>1, <3>1, <3>2, <3>3, <3>4 DEF Applies, Here, Whole
  <2> QED
    BY <2>1, <2>3, <2>4, <2>5, <2>6, <2>7, Holds
<1>2. CASE WriteTmp(stage) \/ TmpCloseFails(stage)
  <2>1. /\ pc = Writing(stage) /\ pc' = Removing(stage) /\ cur' = cur
        /\ DOMAIN dir' = DOMAIN dir
    BY <1>2 DEF WriteTmp, TmpCloseFails, Fault
  <2>2. LeftAt(stage)' /\ pc' # Writing("decrypt")
    BY <2>1 DEF LeftAt, Removing, Writing
  <2> QED
    BY <2>1, <2>2, Held, Holds DEF TInv
<1>3. CASE RemovePath(stage)
  <2>1. /\ pc = Removing(stage) /\ pc' = Renaming(stage) /\ cur' = cur
        /\ DOMAIN dir' \subseteq DOMAIN dir
    BY <1>3, Gone DEF RemovePath
  <2>2. LeftAt(stage)' /\ pc' # Writing("decrypt")
    BY <2>1 DEF LeftAt, Renaming, Writing
  <2> QED
    BY <2>1, <2>2, Held, Holds DEF TInv
<1>4. CASE RenameTmp(stage)
  <2>1. /\ pc = Renaming(stage) /\ pc' = Followed(stage) /\ cur' = cur
        /\ DOMAIN dir' = (DOMAIN dir \ {Tmp(stage)}) \cup {cur}
    BY <1>4, Gone DEF RenameTmp, With, Followed
  <2>2. pc' \in Quiet
    BY <2>1, StageOrder DEF Followed, Quiet
  <2>3. AllFiles(dir)' /\ Len(cur) = 1
    BY <2>1, Held DEF AllFiles, TInv
  <2> QED
    BY <2>1, <2>2, <2>3, SetsDown
<1>5. CASE TmpWriteFails(stage)
  <2>1. /\ pc = Writing(stage) /\ pc' = After(stage) /\ cur' = cur /\ opts' = opts
        /\ dir' = Clear(stage)
    BY <1>5 DEF TmpWriteFails, Fault, world
  <2>2. Len(cur) = 1 /\ \A n \in DOMAIN dir : Len(n) = 1 \/ n = Tmp(stage)
    BY <2>1, Held DEF TInv
  <2>3. CASE stage = "decrypt"
    <3>1. dir' = dir /\ pc' = "unfself" /\ Tmp("unfself") = Tmp("decrypt")
      BY <2>1, <2>3, StageOrder DEF Clear, Tmp
    <3>2. Applies("unfself") /\ Whole(cur)
      BY <2>1, <2>3, Held, SameStage DEF TInv
    <3>3. Applies("unfself")' /\ Whole(cur)'
      BY <2>1, <3>1, <3>2 DEF Applies, Here, Whole
    <3>4. LeftAt("unfself")' /\ pc' # Writing("decrypt")
      BY <3>1, <3>3 DEF LeftAt, Writing
    <3> QED
      BY <2>1, <2>2, <2>3, <3>1, <3>4, Holds
  <2>4. CASE stage # "decrypt"
    <3>1. DOMAIN dir' = DOMAIN dir \ {Tmp(stage)}
      BY <2>1, <2>4, Gone DEF Clear
    <3>2. AllFiles(dir)'
      BY <2>2, <3>1 DEF AllFiles
    <3> QED
      BY <2>1, <2>2, <3>2, AfterQuiet, SetsDown
  <2> QED
    BY <2>3, <2>4
<1>6. CASE RenameFails(stage)
  <2>1. /\ pc = Renaming(stage) /\ pc' = After(stage) /\ cur' = cur
        /\ dir' = Unlink(dir, Tmp(stage))
    BY <1>6 DEF RenameFails, Fault
  <2>2. Len(cur) = 1 /\ \A n \in DOMAIN dir : Len(n) = 1 \/ n = Tmp(stage)
    BY <2>1, Held DEF TInv
  <2>3. DOMAIN dir' = DOMAIN dir \ {Tmp(stage)}
    BY <2>1, Gone
  <2>4. AllFiles(dir)'
    BY <2>2, <2>3 DEF AllFiles
  <2> QED
    BY <2>1, <2>2, <2>4, AfterQuiet, SetsDown
<1> QED
  BY <1>1, <1>2, <1>3, <1>4, <1>5, <1>6 DEF Replace

LEMMA RewriteStray ==
  ASSUME TInv, runs = 1, NEW stage \in {"downgrade", "backport"}, Rewrite(stage)
  PROVE  NoStray'
<1>1. /\ pc \in {stage, Writing(stage)} /\ pc' \in {Writing(stage), After(stage)}
      /\ cur' = cur /\ DOMAIN dir' = DOMAIN dir
  BY DEF Rewrite, OpenInPlace, WriteInPlace, InPlaceWriteFails, Fault
<1>2. /\ pc \notin Outside /\ pc \notin Stopped
      /\ \A u \in Replacing : ~LeftAt(u)
  BY <1>1 DEF LeftAt, Writing, Removing, Renaming, Stopped
<1>3. Len(cur) = 1 /\ AllFiles(dir)
  BY <1>2 DEF TInv, NoStray, AllFiles
<1>4. pc' # Writing("decrypt")
  <2>1. After(stage) # Writing("decrypt") /\ Writing(stage) # Writing("decrypt")
    BY StageOrder DEF Writing
  <2> QED
    BY <1>1, <2>1
<1> QED
  BY <1>1, <1>3, <1>4 DEF NoStray, AllFiles

LEMMA PassStray ==
  ASSUME TInv, runs = 1, NEW stage \in AllStages, Declined(stage) \/ Garbled(stage)
  PROVE  NoStray'
<1>1. /\ pc = stage /\ pc' \in {After(stage), "exited"} /\ cur' = cur
      /\ \/ dir' = dir
         \/ dir' = Unlink(dir, Tmp(stage))
         \/ dir' = [dir EXCEPT ![cur] = Result(stage)]
      /\ stage = "unfself" /\ Applies(stage) /\ Whole(cur) => dir' = Unlink(dir, Tmp(stage))
  BY DEF Declined, Garbled, Clear, Whole
<1>2. pc \notin Outside /\ pc \notin Stopped /\ pc \in Quiet
  BY <1>1 DEF AllStages, Stopped, Quiet
<1>3. Len(cur) = 1
  BY <1>2 DEF TInv, NoStray
<1>4. AllFiles(dir)'
  <2>1. DOMAIN Unlink(dir, Tmp(stage)) = DOMAIN dir \ {Tmp(stage)}
    BY Gone
  <2>2. CASE stage = "unfself" /\ Applies(stage) /\ Whole(cur)
    <3>1. ASSUME NEW u \in Replacing, LeftAt(u) PROVE u = stage
      BY <1>1, <2>2, <3>1 DEF LeftAt, Writing, Removing, Renaming
    <3>2. \A n \in DOMAIN dir : Len(n) = 1 \/ n = Tmp(stage)
      BY <1>2, <3>1 DEF TInv, NoStray
    <3>3. DOMAIN dir' = DOMAIN dir \ {Tmp(stage)}
      BY <1>1, <2>1, <2>2
    <3> QED
      BY <3>2, <3>3 DEF AllFiles
  <2>3. CASE ~(stage = "unfself" /\ Applies(stage) /\ Whole(cur))
    <3>1. AllFiles(dir)
      BY <1>1, <1>2, <2>3, NoneLeft DEF TInv
    <3>2. DOMAIN dir' \subseteq DOMAIN dir
      BY <1>1, <2>1
    <3> QED
      BY <3>1, <3>2 DEF AllFiles
  <2> QED
    BY <2>2, <2>3
<1>5. pc' \in Quiet
  BY <1>1, StageOrder DEF AllStages, Quiet
<1> QED
  BY <1>1, <1>3, <1>4, <1>5, SetsDown

(* No stage writes a SELF, so none is cut short.                           *)
LEMMA NextSelfs ==
  ASSUME TInv, [Next]_vars
  PROVE  SelfsWhole'
<1> DEFINE Fine(c) == c.form = "self" => c.whole
<1>1. \A n \in DOMAIN dir : Fine(dir[n])
  BY DEF TInv, SelfsWhole
<1> SUFFICES \A n \in DOMAIN dir' : Fine(dir'[n])
  BY DEF SelfsWhole
<1>2. \A n \in DOMAIN dir : dir[n] \in Contents
  BY DEF TInv, IInv, Named
<1>3. ASSUME NEW stage \in Replacing, cur \in DOMAIN dir
      PROVE  Fine(Result(stage)) /\ Fine(Torn(Result(stage)))
  BY <1>2, <1>3 DEF Result, Torn, Contents
<1>4. ASSUME NEW stage \in {"downgrade", "backport"}, Applies(stage)
      PROVE  cur \in DOMAIN dir /\ Fine(Result(stage)) /\ Fine(Torn(Result(stage)))
  BY <1>2, <1>4 DEF Result, Torn, Contents, Applies, Here
<1> HIDE DEF Fine
<1>5. CASE dir' = dir
  BY <1>1, <1>5
<1>6. ASSUME NEW t, dir' = Unlink(dir, t) PROVE \A n \in DOMAIN dir' : Fine(dir'[n])
  BY <1>1, <1>6, Gone
<1>7. ASSUME NEW t, NEW v, Fine(v), dir' = With(dir, t, v)
      PROVE  \A n \in DOMAIN dir' : Fine(dir'[n])
  BY <1>1, <1>7 DEF With
<1>8. ASSUME NEW t, NEW v, Fine(v), dir' = [dir EXCEPT ![t] = v]
      PROVE  \A n \in DOMAIN dir' : Fine(dir'[n])
  BY <1>1, <1>8
<1>9. CASE UNCHANGED vars \/ EndOfDirectory \/ Crash
  BY <1>5, <1>9 DEF vars, EndOfDirectory, Crash
<1>10. ASSUME NEW n, Visit(n) \/ Vanished(n) \/ Revisit(n)
       PROVE  \A m \in DOMAIN dir' : Fine(dir'[m])
  BY <1>5, <1>10 DEF Visit, Vanished, Revisit
<1>11. CASE Restart
  <2>1. CASE dir' = UnpackedOver(dir)
    <3>1. \A f \in Files : Fine(image[f])
      BY ImagesAreWhole DEF TInv, IInv, Named, Fine
    <3>2. \A n \in Own : n[1] \in Files
      BY DEF Own
    <3> QED
      BY <1>1, <2>1, <3>1, <3>2 DEF UnpackedOver
  <2> QED
    BY <1>5, <1>11, <2>1 DEF Restart
<1>12. ASSUME NEW stage \in Replacing, Replace(stage)
       PROVE  \A n \in DOMAIN dir' : Fine(dir'[n])
  <2>1. CASE OpenTmp(stage)
    BY <1>3, <1>7, <2>1 DEF OpenTmp, Applies, Here
  <2>2. CASE WriteTmp(stage)
    <3>1. cur \in DOMAIN dir
      BY <2>2 DEF WriteTmp, TInv, IInv, Steps
    <3> QED
      BY <1>3, <1>8, <2>2, <3>1 DEF WriteTmp
  <2>3. CASE RemovePath(stage)
    BY <1>6, <2>3 DEF RemovePath
  <2>4. CASE RenameTmp(stage)
    <3> DEFINE d == Unlink(dir, Tmp(stage))
    <3>1. /\ Tmp(stage) \in DOMAIN dir /\ dir' = With(d, cur, dir[Tmp(stage)])
      BY <2>4 DEF RenameTmp, TInv, IInv, Steps
    <3>2. /\ DOMAIN d = DOMAIN dir \ {Tmp(stage)}
          /\ \A m \in DOMAIN dir \ {Tmp(stage)} : d[m] = dir[m]
      BY Gone
    <3> HIDE DEF d
    <3>3. \A n \in DOMAIN d : Fine(d[n])
      BY <1>1, <3>2
    <3> QED
      BY <1>1, <3>1, <3>3 DEF With
  <2>5. CASE TmpWriteFails(stage)
    BY <1>5, <1>6, <2>5 DEF TmpWriteFails, Clear
  <2>6. CASE RenameFails(stage)
    BY <1>6, <2>6 DEF RenameFails
  <2>7. CASE TmpCloseFails(stage)
    BY <1>5, <2>7 DEF TmpCloseFails
  <2> QED
    BY <1>12, <2>1, <2>2, <2>3, <2>4, <2>5, <2>6, <2>7 DEF Replace
<1>13. ASSUME NEW stage \in {"downgrade", "backport"}, Rewrite(stage)
       PROVE  \A n \in DOMAIN dir' : Fine(dir'[n])
  <2>1. CASE OpenInPlace(stage)
    BY <1>4, <1>8, <2>1 DEF OpenInPlace
  <2>2. CASE WriteInPlace(stage)
    <3>1. cur \in DOMAIN dir /\ dir[cur] \in Contents
      BY <1>2, <2>2 DEF WriteInPlace, TInv, IInv, Steps, Rewriting
    <3>2. Fine([dir[cur] EXCEPT !.whole = TRUE])
      BY <3>1 DEF Fine, Contents
    <3>3. dir' = [dir EXCEPT ![cur] = [dir[cur] EXCEPT !.whole = TRUE]]
      BY <2>2, <3>1 DEF WriteInPlace
    <3> QED
      BY <1>8, <3>2, <3>3
  <2>3. CASE InPlaceWriteFails(stage)
    BY <1>5, <2>3 DEF InPlaceWriteFails
  <2> QED
    BY <1>13, <2>1, <2>2, <2>3 DEF Rewrite
<1>14. ASSUME NEW stage, Declined(stage) \/ Garbled(stage)
       PROVE  \A n \in DOMAIN dir' : Fine(dir'[n])
  BY <1>4, <1>5, <1>6, <1>8, <1>14 DEF Declined, Garbled, Clear
<1> QED
  BY <1>9, <1>10, <1>11, <1>12, <1>13, <1>14 DEF Next

LEMMA NextStray ==
  ASSUME TInv, [Next]_vars
  PROVE  NoStray' /\ runs' \in Nat \ {0}
<1>1. CASE UNCHANGED vars
  BY <1>1 DEF vars, TInv, NoStray, LeftAt, Applies, Here, Tmp, Whole
<1>2. CASE Restart
  <2>1. runs' = runs + 1
    BY <1>2 DEF Restart
  <2> QED
    BY <2>1 DEF TInv, NoStray
<1>3. CASE Next /\ ~Restart
  <2>1. runs' = runs
    BY <1>3 DEF Next, Visit, Vanished, Revisit, EndOfDirectory, Crash, Fault, Replace,
       OpenTmp, WriteTmp, RemovePath, RenameTmp, TmpWriteFails, TmpCloseFails,
       RenameFails, Rewrite, OpenInPlace, WriteInPlace, InPlaceWriteFails, Declined, Garbled, world
  <2>2. CASE runs # 1
    BY <2>1, <2>2 DEF TInv, NoStray
  <2>3. CASE runs = 1
    <3>1. ASSUME pc = "walk", dir' = dir, pc' \in Quiet,
                 pc' \in AllStages => cur' \in DOMAIN dir
          PROVE  NoStray'
      <4>1. AllFiles(dir)
        BY <2>3, <3>1, NoneLeft DEF TInv, Quiet, Stopped
      <4> QED
        BY <3>1, <4>1, SetsDown DEF AllFiles
    <3>2. ASSUME NEW n, Visit(n) \/ Revisit(n) PROVE NoStray'
      BY <3>1, <3>2 DEF Visit, Revisit, Quiet
    <3>3. ASSUME NEW n, Vanished(n) PROVE NoStray'
      BY <3>1, <3>3 DEF Vanished, Quiet, AllStages
    <3>4. ASSUME EndOfDirectory PROVE NoStray'
      BY <3>1, <3>4 DEF EndOfDirectory, Quiet, AllStages
    <3>5. ASSUME Crash PROVE NoStray'
      BY <3>5 DEF Crash, NoStray, Stopped
    <3>6. NoStray'
      BY <1>3, <2>3, <3>2, <3>3, <3>4, <3>5, ReplaceStray, RewriteStray, PassStray
         DEF Next, AllStages
    <3> QED
      BY <2>1, <3>6 DEF TInv
  <2> QED
    BY <2>2, <2>3
<1> QED
  BY <1>1, <1>2, <1>3

LEMMA InitTidy == Init => TInv
<1> SUFFICES ASSUME Init PROVE TInv
  OBVIOUS
<1>1. image \in Originals /\ dir = UnpackedOver(<<>>) /\ pc = "walk" /\ runs = 1
  BY DEF Init
<1>2. DOMAIN <<>> = {}
  OBVIOUS
<1>3. \A f \in Files : Whole(<<f>>)
  BY <1>1, <1>2, Unpacked DEF Whole
<1>4. AllFiles(dir)
  BY <1>1, <1>2 DEF UnpackedOver, Own, AllFiles
<1>5. SelfsWhole
  <2>1. ASSUME NEW n \in DOMAIN dir PROVE n[1] \in Files /\ dir[n] = image[n[1]]
    BY <1>1, <1>2, <2>1 DEF UnpackedOver, Own
  <2> QED
    BY <1>1, <2>1, ImagesAreWhole DEF SelfsWhole
<1> QED
  BY <1>1, <1>3, <1>4, <1>5, InitInv DEF TInv, Intact, NoStray, AllFiles, Writing

(* A pass without a fault leaves every file of a freshly unpacked image    *)
(* under its name, and the first run, if nothing stopped it, leaves no     *)
(* temporary, whatever writes and renames failed (main.c:533-716).         *)
THEOREM NothingLeft == Spec => []Tidy
<1>1. Init => TInv
  BY InitTidy
<1>2. TInv /\ [Next]_vars => TInv'
  BY NextInv, NextIntact, NextStray, NextSelfs DEF TInv
<1>3. TInv => Tidy
  <2>1. pc = "done" => ~Rewriting /\ \A stage \in Replacing : pc # Renaming(stage)
    BY DEF Rewriting, Writing, Renaming
  <2>2. ASSUME TInv, pc = "done", runs = 1 PROVE AllFiles(dir)
    BY <2>2, NoneLeft DEF TInv, Quiet, Stopped
  <2> QED
    BY <2>1, <2>2 DEF TInv, Intact, Tidy, Whole, AllFiles
<1> QED
  BY <1>1, <1>2, <1>3, PTL DEF Spec
=============================================================================
