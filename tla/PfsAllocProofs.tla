--------------------------- MODULE PfsAllocProofs ---------------------------
(***************************************************************************)
(* Proofs about the block allocator, for every number of blocks and files. *)
(* IInv of PfsAllocProps is inductive: one lemma per action.               *)
(***************************************************************************)
EXTENDS PfsAllocProps, TLAPS

(* What the provers need to know of the constants *)
LEMMA Constants ==
  /\ NoFile \notin Files /\ Files \subseteq Nat
  /\ NBlocks \in Nat /\ NDirect \in Nat /\ 0 \in Blocks /\ Blocks \subseteq Nat
  /\ IndSlot \in Slots /\ Slots \subseteq Nat /\ 0 \in Counts
  /\ \A n \in Counts : SlotsOf(n) \subseteq Slots
  /\ \A n \in Counts : (IndSlot \in SlotsOf(n)) <=> n > NDirect
  /\ \A n \in Counts : \A k \in SlotsOf(n) : k # IndSlot /\ k >= NDirect => n > NDirect
  /\ SlotsOf(0) = {}
  /\ NoBlocks \in [Slots -> Blocks]
BY AllocConstants DEF NoFile, Blocks, Slots, IndSlot, Counts, SlotsOf, NoBlocks, NoBlock

(* Between two operations every file is settled *)
LEMMA IdleFacts ==
  ASSUME IInv, phase = "idle"
  PROVE  /\ ino = NoFile /\ Settled = Files
         /\ new = NoBlocks /\ old = NoBlocks
         /\ \A b \in Blocks \ {0} :
              Claimed(b) <=> \E i \in Files, k \in Slots : ptr[i][k] = b
<1>1. ino = NoFile /\ new = NoBlocks /\ old = NoBlocks
  BY DEF IInv, OperationShape
<1>2. Settled = Files
  BY <1>1, Constants DEF Settled
<1>3. \A k \in Slots : new[k] = 0 /\ old[k] = 0
  BY <1>1 DEF NoBlocks, NoBlock
<1> QED
  BY <1>1, <1>2, <1>3 DEF Claimed

(* A sound image read into the variables satisfies the invariant *)
LEMMA LoadStep ==
  ASSUME Sound(src)',
         bitmap' = src'.bitmap, bat' = src'.bat, ptr' = src'.ptr, cnt' = src'.cnt,
         phase' = "idle", ino' = NoFile, goal' = 0,
         new' = NoBlocks, old' = NoBlocks
  PROVE  IInv'
<1>0. /\ Settled' = Files
      /\ \A k \in Slots : new'[k] = 0 /\ old'[k] = 0
  BY Constants DEF Settled, NoBlocks, NoBlock
<1>1. \A b \in Blocks \ {0} :
        Claimed(b)' <=> \E i \in Files, k \in Slots : ptr'[i][k] = b
  BY <1>0 DEF Claimed
<1>2. TypeOK'
  BY Constants DEF TypeOK, Sound
<1>3. NoSharing'
  BY <1>0, Constants DEF NoSharing, Sound, NoBlock
<1>4. Accounted'
  BY <1>1 DEF Accounted, Sound
<1>5. BackupMarked'
  BY <1>1 DEF BackupMarked, Sound
<1>6. OwnersNamed'
  BY <1>0 DEF OwnersNamed, Sound, NoBlock
<1>7. Complete'
  BY <1>0 DEF Complete, Sound
<1>8. OperationShape'
  BY <1>0 DEF OperationShape, NoBlock
<1> QED
  BY <1>2, <1>3, <1>4, <1>5, <1>6, <1>7, <1>8 DEF IInv

LEMMA InitIInv == Init => IInv
<1> SUFFICES ASSUME Init PROVE IInv
  OBVIOUS
<1>1. Sound(src)
  BY ImagesSound DEF Init
<1>2. /\ bitmap = src.bitmap /\ bat = src.bat /\ ptr = src.ptr /\ cnt = src.cnt
      /\ phase = "idle" /\ ino = NoFile /\ goal = 0
      /\ new = NoBlocks /\ old = NoBlocks
  BY DEF Init
<1>0. /\ Settled = Files
      /\ \A k \in Slots : new[k] = 0 /\ old[k] = 0
  BY <1>2, Constants DEF Settled, NoBlocks, NoBlock
<1>3. \A b \in Blocks \ {0} :
        Claimed(b) <=> \E i \in Files, k \in Slots : ptr[i][k] = b
  BY <1>0 DEF Claimed
<1>4. TypeOK
  BY <1>1, <1>2, Constants DEF TypeOK, Sound
<1>5. NoSharing
  BY <1>0, <1>1, <1>2, Constants DEF NoSharing, Sound, NoBlock
<1>6. Accounted /\ BackupMarked
  BY <1>1, <1>2, <1>3 DEF Accounted, BackupMarked, Sound
<1>7. OwnersNamed /\ Complete
  BY <1>0, <1>1, <1>2 DEF OwnersNamed, Complete, Sound, NoBlock
<1>8. OperationShape
  BY <1>0, <1>2 DEF OperationShape, NoBlock
<1> QED
  BY <1>1, <1>4, <1>5, <1>6, <1>7, <1>8 DEF IInv

-----------------------------------------------------------------------------
LEMMA BeginStep ==
  ASSUME IInv, NEW i \in Files, NEW n \in Counts, Begin(i, n)
  PROVE  IInv'
<1>0. /\ ino = NoFile /\ Settled = Files /\ Settled' = Files \ {i}
      /\ \A b \in Blocks \ {0} :
           Claimed(b) <=> \E j \in Files, k \in Slots : ptr[j][k] = b
      /\ TypeOK
  BY IdleFacts, Constants DEF Begin, Settled, IInv
<1>1. /\ \A k \in Slots : new'[k] = IF k \in SlotsOf(n) THEN ptr[i][k] ELSE 0
      /\ \A k \in Slots : old'[k] = IF k \in SlotsOf(n) THEN 0 ELSE ptr[i][k]
      /\ phase' = "reserve" /\ ino' = i /\ goal' = n
      /\ UNCHANGED <<bitmap, bat, ptr, cnt, src>>
  BY DEF Begin, NoBlock
<1>2. \A b \in Blocks \ {0} : Claimed(b)' <=> Claimed(b)
  BY <1>0, <1>1 DEF Claimed
<1>3. TypeOK'
  <2>1. new' \in [Slots -> Blocks] /\ old' \in [Slots -> Blocks]
    BY <1>0, Constants DEF Begin, TypeOK, NoBlock
  <2> QED
    BY <1>0, <1>1, <2>1 DEF TypeOK
<1>4. NoSharing'
  BY <1>0, <1>1 DEF IInv, NoSharing, NoBlock
<1>5. Accounted'
  BY <1>1, <1>2 DEF IInv, Accounted, Busy
<1>6. BackupMarked'
  BY <1>1, <1>2 DEF IInv, BackupMarked, Sound
<1>10. \A k \in Slots :
        new'[k] # 0 /\ k # IndSlot /\ k >= NDirect
          => new'[IndSlot] = ptr[i][IndSlot] /\ new'[IndSlot] # 0
  <2> SUFFICES ASSUME NEW k \in Slots, new'[k] # 0, k # IndSlot, k >= NDirect
               PROVE  new'[IndSlot] = ptr[i][IndSlot] /\ new'[IndSlot] # 0
    OBVIOUS
  <2>1. k \in SlotsOf(n) /\ ptr[i][k] # 0
    BY <1>1
  <2>2. n > NDirect /\ IndSlot \in SlotsOf(n)
    BY <2>1, Constants
  <2>3. k \in SlotsOf(cnt[i]) /\ cnt[i] \in Counts
    BY <1>0, <2>1 DEF IInv, Complete, NoBlock, TypeOK
  <2>4. IndSlot \in SlotsOf(cnt[i])
    BY <2>3, Constants
  <2>5. ptr[i][IndSlot] # 0
    BY <1>0, <2>4, Constants DEF IInv, Complete, NoBlock
  <2> QED
    BY <1>1, <2>2, <2>5, Constants
<1>7. OwnersNamed'
  <2>1. \A k \in Slots :
          new'[k] # 0 => bat[new'[k]] = IF k < NDirect \/ k = IndSlot THEN i
                                        ELSE IndFlag + new'[IndSlot]
    <3> SUFFICES ASSUME NEW k \in Slots, new'[k] # 0
                 PROVE  bat[new'[k]] = IF k < NDirect \/ k = IndSlot THEN i
                                       ELSE IndFlag + new'[IndSlot]
      OBVIOUS
    <3>1. new'[k] = ptr[i][k]
      BY <1>1
    <3>2. bat[ptr[i][k]] = IF k < NDirect \/ k = IndSlot THEN i
                           ELSE IndFlag + ptr[i][IndSlot]
      BY <1>0, <3>1 DEF IInv, OwnersNamed, NoBlock
    <3>3. k < NDirect \/ k >= NDirect
      BY Constants
    <3> QED
      BY <1>10, <3>1, <3>2, <3>3
  <2> QED
    BY <1>0, <1>1, <2>1 DEF IInv, OwnersNamed, NoBlock
<1>8. Complete'
  BY <1>0, <1>1 DEF IInv, Complete
<1>9. OperationShape'
  BY <1>0, <1>1, <1>10, Constants DEF OperationShape, NoBlock
<1> QED
  BY <1>1, <1>3, <1>4, <1>5, <1>6, <1>7, <1>8, <1>9 DEF IInv, Sound

-----------------------------------------------------------------------------
(* What is known when a block b is taken for slot k: nobody claims b, the  *)
(* slot is one of the file to be, and a slot behind the indirect block is  *)
(* only filled when the indirect block is there.                           *)
LEMMA ReserveFacts ==
  ASSUME IInv, NEW k \in Slots, NEW b \in Blocks, Reserve(k, b)
  PROVE  /\ ino \in Files /\ goal \in Counts
         /\ b # 0 /\ ~Busy(bitmap, bat, b) /\ ~Claimed(b) /\ b \notin src.kept
         /\ k \in SlotsOf(goal) /\ new[k] = 0
         /\ k # IndSlot /\ k >= NDirect => new[IndSlot] # 0
<1>1. ino \in Files /\ goal \in Counts
  BY DEF IInv, OperationShape, TypeOK, Reserve
<1>2. b # 0 /\ ~Busy(bitmap, bat, b)
  BY DEF Reserve, Lowest, Pool
<1>3. ~Claimed(b) /\ b \notin src.kept
  BY <1>2 DEF IInv, Accounted
<1>4. k \in Missing
  BY DEF Reserve, NextMissing, Lowest
<1>5. k \in SlotsOf(goal) /\ new[k] = 0
  BY <1>4 DEF Missing, NoBlock
<1>6. ASSUME k # IndSlot, k >= NDirect
      PROVE  new[IndSlot] # 0
  <2>1. IndSlot \in SlotsOf(goal)
    BY <1>1, <1>5, <1>6, Constants
  <2>2. IndSlot \notin Missing
    BY <1>6 DEF Reserve, NextMissing
  <2> QED
    BY <2>1, <2>2 DEF Missing, NoBlock
<1> QED
  BY <1>1, <1>2, <1>3, <1>5, <1>6

LEMMA ReserveStep ==
  ASSUME IInv, NEW k \in Slots, NEW b \in Blocks, Reserve(k, b)
  PROVE  IInv'
<1> DEFINE o == OwnerOf(ino, k, new[IndSlot])
<1>0. /\ phase = "reserve" /\ phase' = "reserve"
      /\ bitmap' = [bitmap EXCEPT ![b] = TRUE]
      /\ bat' = [bat EXCEPT ![b] = o]
      /\ new' = [new EXCEPT ![k] = b]
      /\ UNCHANGED <<ptr, cnt, src, ino, goal, old>>
  BY DEF Reserve
<1>1. /\ ino \in Files /\ goal \in Counts
      /\ b # 0 /\ ~Busy(bitmap, bat, b) /\ ~Claimed(b) /\ b \notin src.kept
      /\ k \in SlotsOf(goal) /\ new[k] = 0
      /\ k # IndSlot /\ k >= NDirect => new[IndSlot] # 0
  BY ReserveFacts
<1>2. TypeOK
  BY DEF IInv
<1>3. Settled' = Settled
  BY <1>0 DEF Settled
<1>4. /\ \A m \in Slots : new'[m] = IF m = k THEN b ELSE new[m]
      /\ \A c \in Blocks : bat'[c] = IF c = b THEN o ELSE bat[c]
      /\ \A c \in Blocks : bitmap'[c] = IF c = b THEN TRUE ELSE bitmap[c]
  BY <1>0, <1>2 DEF TypeOK
<1>5. o \in Owners /\ o # NoOwner
  <2>1. new[IndSlot] \in Blocks
    BY <1>2, Constants DEF TypeOK
  <2>2. IndFlag + new[IndSlot] # 0
    <3>1. new[IndSlot] \in Nat
      BY <2>1, Constants
    <3>2. IndFlag \in Nat /\ IndFlag > 0
      BY AllocConstants
    <3> QED
      BY <3>1, <3>2
  <2>3. o = ino \/ o = IndFlag + new[IndSlot]
    BY DEF OwnerOf
  <2>4. ino # 0
    BY <1>1, Constants DEF NoFile
  <2> HIDE DEF o
  <2> QED
    BY <1>1, <2>1, <2>2, <2>3, <2>4 DEF Owners, NoOwner
<1>6. /\ \A i \in Settled, m \in Slots : ptr[i][m] # b
      /\ \A m \in Slots : new[m] # b /\ old[m] # b
  BY <1>1 DEF Claimed
<1>7. \A c \in Blocks \ {0} : Claimed(c)' <=> (Claimed(c) \/ c = b)
  BY <1>0, <1>1, <1>3, <1>4 DEF Claimed
<1>8. TypeOK'
  BY <1>0, <1>2, <1>5 DEF TypeOK
<1>9. NoSharing'
  BY <1>0, <1>1, <1>3, <1>4, <1>6 DEF IInv, NoSharing, NoBlock
<1>10. Accounted'
  BY <1>0, <1>1, <1>4, <1>5, <1>7 DEF IInv, Accounted, Busy
<1>11. BackupMarked'
  <2>1. src.kept \subseteq Blocks \ {0}
    BY DEF IInv, Sound
  <2> QED
    BY <1>0, <1>1, <1>4, <1>7, <2>1 DEF IInv, BackupMarked
<1>12. OwnersNamed'
  <2>1. \A i \in Settled, m \in Slots : bat'[ptr[i][m]] = bat[ptr[i][m]]
    BY <1>2, <1>4, <1>6 DEF TypeOK, Settled
  <2>a. \A m \in Slots : new[m] # 0 /\ m # IndSlot /\ m >= NDirect => new[IndSlot] # 0
    BY DEF IInv, OperationShape, NoBlock
  <2>2. ASSUME NEW m \in Slots, new'[m] # 0
        PROVE  bat'[new'[m]] = IF m < NDirect \/ m = IndSlot THEN ino
                               ELSE IndFlag + new'[IndSlot]
    <3>1. CASE m = k
      <4>1. new'[m] = b /\ bat'[b] = o
        BY <1>4, <3>1
      <4>2. k < NDirect \/ k = IndSlot \/ new'[IndSlot] = new[IndSlot]
        BY <1>4, Constants
      <4> QED
        BY <3>1, <4>1, <4>2 DEF OwnerOf
    <3>2. CASE m # k
      <4>1. new'[m] = new[m] /\ bat'[new[m]] = bat[new[m]]
        BY <1>2, <1>4, <1>6, <3>2 DEF TypeOK
      <4>2. bat[new[m]] = IF m < NDirect \/ m = IndSlot THEN ino
                          ELSE IndFlag + new[IndSlot]
        BY <2>2, <4>1 DEF IInv, OwnersNamed, NoBlock
      <4>3. m < NDirect \/ m = IndSlot \/ new[IndSlot] # 0
        <5>1. m \in Int /\ NDirect \in Int
          BY AllocConstants, Constants DEF Slots
        <5>2. m < NDirect \/ m >= NDirect
          BY <5>1
        <5> QED
          BY <2>2, <2>a, <4>1, <5>2
      <4>4. m < NDirect \/ m = IndSlot \/ new'[IndSlot] = new[IndSlot]
        BY <1>1, <1>4, <4>3, Constants
      <4> QED
        BY <4>1, <4>2, <4>4
    <3> QED
      BY <3>1, <3>2
  <2> QED
    BY <1>0, <1>3, <2>1, <2>2 DEF IInv, OwnersNamed, NoBlock
<1>13. Complete'
  BY <1>0, <1>3 DEF IInv, Complete
<1>14. OperationShape'
  BY <1>0, <1>1, <1>4, Constants DEF IInv, OperationShape, NoBlock
<1> QED
  BY <1>0, <1>8, <1>9, <1>10, <1>11, <1>12, <1>13, <1>14 DEF IInv, Sound

-----------------------------------------------------------------------------
LEMMA ReservedStep ==
  ASSUME IInv, Reserved \/ Exhausted
  PROVE  IInv'
<1>1. /\ phase = "reserve" /\ phase' \in {"release", "failed"}
      /\ UNCHANGED <<bitmap, bat, ptr, cnt, src, ino, goal, new, old>>
  BY DEF Reserved, Exhausted
<1>2. Settled' = Settled /\ \A b \in Blocks : Claimed(b)' <=> Claimed(b)
  BY <1>1 DEF Settled, Claimed
<1>3. ASSUME phase' = "release"
      PROVE  \A k \in Slots : new[k] # NoBlock <=> k \in SlotsOf(goal)
  BY <1>3, <1>1 DEF Reserved, Exhausted, Missing, IInv, OperationShape
<1>4. TypeOK' /\ NoSharing' /\ OwnersNamed'
  BY <1>1, <1>2 DEF IInv, TypeOK, NoSharing, OwnersNamed
<1>5. Accounted' /\ BackupMarked'
  BY <1>1, <1>2 DEF IInv, Accounted, BackupMarked, Busy, Sound
<1>6. Complete' /\ OperationShape'
  BY <1>1, <1>2, <1>3 DEF IInv, Complete, OperationShape
<1> QED
  BY <1>1, <1>4, <1>5, <1>6 DEF IInv, Sound

(* Releasing takes away one claim, and the only one there is on the block *)
LEMMA ReleaseStep ==
  ASSUME IInv, NEW k \in Slots, Release(k)
  PROVE  IInv'
<1> DEFINE b == old[k]
<1>0. /\ phase = "release" /\ b # 0
      /\ bitmap' = [bitmap EXCEPT ![b] = FALSE]
      /\ bat' = [bat EXCEPT ![b] = NoOwner]
      /\ old' = [old EXCEPT ![k] = 0]
      /\ UNCHANGED <<ptr, cnt, src, phase, ino, goal, new>>
  BY DEF Release, Lowest, Surplus, NoBlock
<1>1. TypeOK /\ b \in Blocks
  BY DEF IInv, TypeOK
<1>2. Settled' = Settled
  BY <1>0 DEF Settled
<1>3. Claimed(b)
  BY DEF Claimed
<1> HIDE DEF b
<1>4. /\ \A m \in Slots : old'[m] = IF m = k THEN 0 ELSE old[m]
      /\ \A c \in Blocks : bat'[c] = IF c = b THEN NoOwner ELSE bat[c]
      /\ \A c \in Blocks : bitmap'[c] = IF c = b THEN FALSE ELSE bitmap[c]
  BY <1>0, <1>1 DEF TypeOK
<1>5. /\ \A i \in Settled, m \in Slots : ptr[i][m] # b
      /\ \A m \in Slots : new[m] # b
      /\ \A m \in Slots : old[m] = b => m = k
  BY <1>0 DEF IInv, NoSharing, NoBlock, b
<1>6. \A c \in Blocks \ {0} : Claimed(c)' <=> Claimed(c) /\ c # b
  BY <1>0, <1>2, <1>4, <1>5 DEF Claimed, b
<1>7. TypeOK'
  BY <1>0, <1>1, Constants DEF TypeOK, Owners, NoOwner
<1>8. NoSharing'
  BY <1>0, <1>2, <1>4 DEF IInv, NoSharing, NoBlock
<1>9. Accounted'
  <2>1. b \notin src.kept
    BY <1>3 DEF IInv, BackupMarked
  <2> QED
    BY <1>0, <1>4, <1>6, <2>1 DEF IInv, Accounted, Busy
<1>10. BackupMarked'
  <2>1. src.kept \subseteq Blocks \ {0}
    BY DEF IInv, Sound
  <2>2. b \notin src.kept
    BY <1>3 DEF IInv, BackupMarked
  <2> QED
    BY <1>0, <1>4, <1>6, <2>1, <2>2 DEF IInv, BackupMarked
<1>11. OwnersNamed'
  BY <1>0, <1>1, <1>2, <1>4, <1>5 DEF IInv, OwnersNamed, TypeOK, Settled
<1>12. Complete' /\ OperationShape'
  BY <1>0, <1>2 DEF IInv, Complete, OperationShape
<1> QED
  BY <1>0, <1>7, <1>8, <1>9, <1>10, <1>11, <1>12 DEF IInv, Sound

(* The operation's blocks become those of the file *)
LEMMA CommitStep ==
  ASSUME IInv, Commit
  PROVE  IInv'
<1>0. /\ phase = "release" /\ Surplus = {}
      /\ ptr' = [ptr EXCEPT ![ino] = new]
      /\ cnt' = [cnt EXCEPT ![ino] = goal]
      /\ phase' = "idle" /\ ino' = NoFile /\ goal' = 0 /\ new' = NoBlocks
      /\ UNCHANGED <<bitmap, bat, src, old>>
  BY DEF Commit
<1>1. TypeOK /\ ino \in Files
  BY <1>0 DEF IInv, OperationShape
<1>2. Settled' = Files /\ Settled = Files \ {ino}
  BY <1>0, Constants DEF Settled
<1>3. \A k \in Slots : old[k] = 0
  BY <1>0 DEF Surplus, NoBlock
<1>4. /\ \A i \in Files : ptr'[i] = IF i = ino THEN new ELSE ptr[i]
      /\ \A i \in Files : cnt'[i] = IF i = ino THEN goal ELSE cnt[i]
      /\ \A k \in Slots : new'[k] = 0
      /\ old' = old /\ old = NoBlocks
  BY <1>0, <1>1, <1>3 DEF TypeOK, NoBlocks, NoBlock
<1>5. \A b \in Blocks \ {0} : Claimed(b)' <=> Claimed(b)
  BY <1>1, <1>2, <1>3, <1>4 DEF Claimed
<1>6. TypeOK'
  BY <1>0, <1>1, Constants DEF TypeOK
<1>7. NoSharing'
  BY <1>1, <1>2, <1>3, <1>4 DEF IInv, NoSharing, NoBlock
<1>8. Accounted' /\ BackupMarked'
  BY <1>0, <1>5 DEF IInv, Accounted, BackupMarked, Busy, Sound
<1>9. OwnersNamed'
  BY <1>0, <1>1, <1>2, <1>4 DEF IInv, OwnersNamed, NoBlock
<1>10. Complete'
  BY <1>0, <1>1, <1>2, <1>4 DEF IInv, Complete
<1>11. OperationShape'
  BY <1>0, <1>4 DEF OperationShape, NoBlock
<1> QED
  BY <1>0, <1>6, <1>7, <1>8, <1>9, <1>10, <1>11 DEF IInv, Sound

-----------------------------------------------------------------------------
(* The output of a finished run is a sound source image again *)
LEMMA EndRunStep ==
  ASSUME IInv, EndRun
  PROVE  IInv'
<1>1. /\ phase = "idle"
      /\ src' = [bitmap |-> bitmap, bat |-> bat, ptr |-> ptr, cnt |-> cnt,
                 kept |-> src.kept]
      /\ UNCHANGED <<bitmap, bat, ptr, cnt, phase, ino, goal, new, old>>
  BY DEF EndRun, op
<1>2. /\ ino = NoFile /\ Settled = Files
      /\ \A b \in Blocks \ {0} :
           Claimed(b) <=> \E i \in Files, k \in Slots : ptr[i][k] = b
  BY <1>1, IdleFacts
<1>3. Settled' = Settled /\ \A b \in Blocks : Claimed(b)' <=> Claimed(b)
  BY <1>1 DEF Settled, Claimed
<1>4. /\ src'.bitmap = bitmap /\ src'.bat = bat /\ src'.ptr = ptr
      /\ src'.cnt = cnt /\ src'.kept = src.kept
  BY <1>1
<1>5. Sound(src)'
  <2>1. /\ bitmap \in [Blocks -> BOOLEAN] /\ bat \in [Blocks -> Owners]
        /\ ptr \in [Files -> [Slots -> Blocks]] /\ cnt \in [Files -> Counts]
        /\ src.kept \in SUBSET (Blocks \ {0})
    BY DEF IInv, TypeOK, Sound
  <2>2. /\ \A i \in Files, k \in Slots :
             ptr[i][k] # NoBlock <=> k \in SlotsOf(cnt[i])
        /\ \A i, j \in Files, k, m \in Slots :
             ptr[i][k] = ptr[j][m] /\ ptr[i][k] # NoBlock => i = j /\ k = m
    BY <1>2 DEF IInv, Complete, NoSharing
  <2>3. \A i \in Files, k \in Slots : ptr[i][k] \notin src.kept
    BY <1>2, <2>1 DEF IInv, BackupMarked, Claimed
  <2>4. \A i \in Files, k \in Slots :
          ptr[i][k] # NoBlock =>
            bat[ptr[i][k]] = IF k < NDirect \/ k = IndSlot THEN i
                             ELSE IndFlag + ptr[i][IndSlot]
    BY <1>2 DEF IInv, OwnersNamed
  <2>5. \A b \in Blocks \ {0} :
          Busy(bitmap, bat, b)
            <=> b \in src.kept \/ \E i \in Files, k \in Slots : ptr[i][k] = b
    BY <1>2 DEF IInv, Accounted
  <2> QED
    BY <1>4, <2>1, <2>2, <2>3, <2>4, <2>5 DEF Sound
<1>6. TypeOK' /\ NoSharing' /\ OwnersNamed' /\ Complete' /\ OperationShape'
  BY <1>1, <1>3 DEF IInv, TypeOK, NoSharing, OwnersNamed, Complete, OperationShape
<1>7. Accounted' /\ BackupMarked'
  BY <1>1, <1>3, <1>4 DEF IInv, Accounted, BackupMarked, Busy, Sound
<1> QED
  BY <1>5, <1>6, <1>7 DEF IInv

LEMMA RestartStep ==
  ASSUME IInv, Restart
  PROVE  IInv'
<1>1. Sound(src)'
  BY DEF IInv, Restart, Sound
<1> QED
  BY <1>1, LoadStep DEF Restart

LEMMA StutterStep ==
  ASSUME IInv, UNCHANGED vars
  PROVE  IInv'
<1>1. UNCHANGED <<bitmap, bat, ptr, cnt, src, phase, ino, goal, new, old>>
  BY DEF vars, op
<1>2. Settled' = Settled /\ \A b \in Blocks : Claimed(b)' <=> Claimed(b)
  BY <1>1 DEF Settled, Claimed
<1>3. TypeOK' /\ NoSharing' /\ OwnersNamed' /\ Complete' /\ OperationShape'
  BY <1>1, <1>2 DEF IInv, TypeOK, NoSharing, OwnersNamed, Complete, OperationShape
<1>4. Accounted' /\ BackupMarked'
  BY <1>1, <1>2 DEF IInv, Accounted, BackupMarked, Busy, Sound
<1> QED
  BY <1>1, <1>3, <1>4 DEF IInv, Sound

-----------------------------------------------------------------------------
(* The invariant holds throughout: every image the allocator starts from   *)
(* being sound, so is every state of every run, and every run's output.    *)
THEOREM InvariantHolds == Spec => []IInv
<1>1. IInv /\ [Next]_vars => IInv'
  <2> SUFFICES ASSUME IInv, [Next]_vars PROVE IInv'
    OBVIOUS
  <2>1. ASSUME NEW i \in Files, NEW n \in Counts, Begin(i, n) PROVE IInv'
    BY <2>1, BeginStep
  <2>2. ASSUME NEW k \in Slots, NEW b \in Blocks, Reserve(k, b) PROVE IInv'
    BY <2>2, ReserveStep
  <2>3. CASE Exhausted \/ Reserved
    BY <2>3, ReservedStep
  <2>4. ASSUME NEW k \in Slots, Release(k) PROVE IInv'
    BY <2>4, ReleaseStep
  <2>5. CASE Commit
    BY <2>5, CommitStep
  <2>6. CASE EndRun
    BY <2>6, EndRunStep
  <2>7. CASE Restart
    BY <2>7, RestartStep
  <2>8. CASE UNCHANGED vars
    BY <2>8, StutterStep
  <2> QED
    BY <2>1, <2>2, <2>3, <2>4, <2>5, <2>6, <2>7, <2>8 DEF Next
<1> QED
  BY InitIInv, <1>1, PTL DEF Spec

(* The variables keep their types, whatever the number of blocks *)
THEOREM TypeCorrect == Spec => []TypeOK
<1>1. IInv => TypeOK
  BY DEF IInv
<1> QED
  BY InvariantHolds, <1>1, PTL

(* No block is ever handed out twice *)
THEOREM NeverShared == Spec => []NoSharing
<1>1. IInv => NoSharing
  BY DEF IInv
<1> QED
  BY InvariantHolds, <1>1, PTL

(* Nothing leaks and nothing in use is free, in the middle of an operation *)
(* as little as between two                                                *)
THEOREM SpaceBalance == Spec => []Accounted
<1>1. IInv => Accounted
  BY DEF IInv
<1> QED
  BY InvariantHolds, <1>1, PTL

(* A file between two resizes has a block in exactly the slots its count   *)
(* asks for, and the BAT entry of every block of a file names its owner.   *)
THEOREM StaysWhole == Spec => []WellPlaced
<1>1. IInv => WellPlaced
  BY DEF IInv, WellPlaced
<1> QED
  BY InvariantHolds, <1>1, PTL

(* No step touches the marks of a block of the backup generation: what is  *)
(* reserved was free, what is released was claimed, and a restart brings   *)
(* back the marks there are.                                               *)
THEOREM BackupSafe == Spec => BackupUntouched
<1>1. IInv /\ IInv' /\ [Next]_vars => [BackupStep]_vars
  <2> SUFFICES ASSUME IInv, [Next]_vars PROVE BackupStep \/ UNCHANGED vars
    OBVIOUS
  <2>0. /\ TypeOK /\ src.kept \subseteq Blocks \ {0}
        /\ \A b \in src.kept : /\ ~Claimed(b)
                               /\ bitmap[b] = src.bitmap[b] /\ bat[b] = src.bat[b]
    BY DEF IInv, Sound, BackupMarked
  <2>1. ASSUME NEW i \in Files, NEW n \in Counts, Begin(i, n) PROVE BackupStep
    BY <2>1 DEF Begin, BackupStep
  <2>2. ASSUME NEW k \in Slots, NEW b \in Blocks, Reserve(k, b) PROVE BackupStep
    <3>1. b \notin src.kept
      BY <2>2, ReserveFacts
    <3> QED
      BY <2>0, <2>2, <3>1 DEF Reserve, BackupStep, TypeOK
  <2>3. CASE Exhausted \/ Reserved
    BY <2>3 DEF Exhausted, Reserved, BackupStep
  <2>4. ASSUME NEW k \in Slots, Release(k) PROVE BackupStep
    <3>1. old[k] \notin src.kept
      BY <2>0 DEF Claimed
    <3> QED
      BY <2>0, <2>4, <3>1 DEF Release, BackupStep, TypeOK
  <2>5. CASE Commit
    BY <2>5 DEF Commit, BackupStep
  <2>6. CASE EndRun
    BY <2>6 DEF EndRun, BackupStep
  <2>7. CASE Restart
    BY <2>0, <2>7 DEF Restart, BackupStep
  <2>8. CASE UNCHANGED vars
    BY <2>8
  <2> QED
    BY <2>1, <2>2, <2>3, <2>4, <2>5, <2>6, <2>7, <2>8 DEF Next
<1> QED
  BY InvariantHolds, <1>1, PTL DEF Spec, BackupUntouched

-----------------------------------------------------------------------------
(* The allocator implements the ledger.  Each lemma says what a step is    *)
(* there.                                                                  *)

LEMMA LoadedLedger ==
  ASSUME Sound(src)
  PROVE  /\ Unmarked(src.bitmap, src.bat) \subseteq Blocks \ {0}
         /\ \A i \in Files : Pointed(src.ptr[i]) \subseteq Blocks \ {0}
         /\ \A i \in Files : Pointed(src.ptr[i]) \cap Unmarked(src.bitmap, src.bat) = {}
         /\ \A i, j \in Files : i # j => Pointed(src.ptr[i]) \cap Pointed(src.ptr[j]) = {}
<1>1. \A i \in Files, k \in Slots : src.ptr[i][k] \in Blocks
  BY DEF Sound
<1>2. \A i \in Files : \A b \in Pointed(src.ptr[i]) :
        b \in Blocks \ {0} /\ \E k \in Slots : src.ptr[i][k] = b
  BY <1>1 DEF Pointed, NoBlock
<1>3. ASSUME NEW i \in Files, NEW b \in Pointed(src.ptr[i])
      PROVE  Busy(src.bitmap, src.bat, b)
  BY <1>2 DEF Sound
<1>4. ASSUME NEW i \in Files, NEW j \in Files, NEW b,
             b \in Pointed(src.ptr[i]), b \in Pointed(src.ptr[j])
      PROVE  i = j
  <2>1. PICK k \in Slots : src.ptr[i][k] = b
    BY <1>2, <1>4
  <2>2. PICK m \in Slots : src.ptr[j][m] = b
    BY <1>2, <1>4
  <2>3. b # NoBlock
    BY <1>4 DEF Pointed
  <2> QED
    BY <2>1, <2>2, <2>3 DEF Sound
<1> QED
  BY <1>2, <1>3, <1>4 DEF Unmarked

Of == [i \in Files |-> IF i = ino THEN {} ELSE Pointed(ptr[i])]
InHand == Pointed(new) \cup Pointed(old)

LEMMA NothingPointed == Pointed(NoBlocks) = {}
BY DEF Pointed, NoBlocks

LEMMA LedgerBegins == Init => Ledger!LedgerInit
<1> SUFFICES ASSUME Init PROVE Ledger!LedgerInit
  OBVIOUS
<1>1. /\ Sound(src) /\ bitmap = src.bitmap /\ bat = src.bat /\ ptr = src.ptr
      /\ phase = "idle" /\ ino = NoFile /\ new = NoBlocks /\ old = NoBlocks
  BY ImagesSound DEF Init
<1> DEFINE s == [free |-> Unmarked(src.bitmap, src.bat),
                 of |-> [i \in Files |-> Pointed(src.ptr[i])]]
<1>2. Ledger!Parted(s)
  <2>1. s.free \subseteq Blocks \ {0} /\ s.of \in [Files -> SUBSET (Blocks \ {0})]
    BY <1>1, LoadedLedger
  <2> QED
    BY <1>1, <2>1, LoadedLedger DEF Ledger!Parted
<1>3. Of = s.of /\ InHand = {}
  BY <1>1, Constants, NothingPointed DEF Of, InHand
<1>4. Unmarked(bitmap, bat) = s.free
  BY <1>1
<1> QED
  BY <1>1, <1>2, <1>3, <1>4 DEF Ledger!LedgerInit, Of, InHand

LEMMA BeginOpens ==
  ASSUME IInv, NEW i \in Files, NEW n \in Counts, Begin(i, n)
  PROVE  Ledger!Open(i)
<1>1. ino = NoFile /\ new = NoBlocks /\ old = NoBlocks /\ TypeOK
  BY IdleFacts DEF Begin, IInv
<1>2. /\ phase = "idle" /\ phase' = "reserve" /\ ino' = i
      /\ new' = [k \in Slots |-> IF k \in SlotsOf(n) THEN ptr[i][k] ELSE NoBlock]
      /\ old' = [k \in Slots |-> IF k \in SlotsOf(n) THEN NoBlock ELSE ptr[i][k]]
      /\ UNCHANGED <<bitmap, bat, ptr, cnt, src>>
  BY DEF Begin
<1>3. InHand' = Pointed(ptr[i])
  BY <1>2 DEF InHand, Pointed
<1>4. Of[i] = Pointed(ptr[i]) /\ Of' = [Of EXCEPT ![i] = {}]
  BY <1>1, <1>2, Constants DEF Of, Pointed
<1> QED
  BY <1>2, <1>3, <1>4 DEF Ledger!Open, Of, InHand, Unmarked

LEMMA ReserveTakes ==
  ASSUME IInv, NEW k \in Slots, NEW b \in Blocks, Reserve(k, b)
  PROVE  Ledger!Take(b)
<1> DEFINE o == OwnerOf(ino, k, new[IndSlot])
<1>1. /\ phase = "reserve" /\ bitmap' = [bitmap EXCEPT ![b] = TRUE]
      /\ bat' = [bat EXCEPT ![b] = o] /\ new' = [new EXCEPT ![k] = b]
      /\ UNCHANGED <<ptr, cnt, src, phase, ino, goal, old>>
  BY DEF Reserve
<1> HIDE DEF o
<1>2. b # 0 /\ ~Busy(bitmap, bat, b) /\ new[k] = 0 /\ TypeOK
  BY ReserveFacts DEF IInv
<1>3. \A c \in Blocks : Busy(bitmap', bat', c) <=> c = b \/ Busy(bitmap, bat, c)
  BY <1>1, <1>2 DEF Busy, TypeOK
<1>4. Unmarked(bitmap', bat') = Unmarked(bitmap, bat) \ {b} /\ b \in Unmarked(bitmap, bat)
  BY <1>2, <1>3 DEF Unmarked
<1>5. \A m \in Slots : new'[m] = IF m = k THEN b ELSE new[m]
  BY <1>1, <1>2 DEF TypeOK
<1>6. Pointed(new') = Pointed(new) \cup {b}
  BY <1>2, <1>5 DEF Pointed, NoBlock
<1>7. InHand' = InHand \cup {b} /\ Of' = Of
  BY <1>1, <1>6 DEF InHand, Of, Pointed
<1> QED
  BY <1>1, <1>4, <1>7 DEF Ledger!Take, Of, InHand

LEMMA ReleaseGives ==
  ASSUME IInv, NEW k \in Slots, Release(k)
  PROVE  old[k] \in Blocks \ {0} /\ Ledger!Give(old[k])
<1> DEFINE b == old[k]
<1>1. /\ phase = "release" /\ b # 0 /\ bitmap' = [bitmap EXCEPT ![b] = FALSE]
      /\ bat' = [bat EXCEPT ![b] = NoOwner] /\ old' = [old EXCEPT ![k] = 0]
      /\ UNCHANGED <<ptr, cnt, src, phase, ino, goal, new>>
  BY DEF Release, Lowest, Surplus, NoBlock
<1>2. TypeOK /\ b \in Blocks \ {0}
  BY <1>1 DEF IInv, TypeOK
<1>3. \A m \in Slots : (m # k => old[m] # b) /\ new[m] # b
  BY <1>1 DEF IInv, NoSharing, NoBlock
<1> HIDE DEF b
<1>4. \A c \in Blocks : Busy(bitmap', bat', c) <=> c # b /\ Busy(bitmap, bat, c)
  BY <1>1, <1>2 DEF Busy, TypeOK
<1>5. Unmarked(bitmap', bat') = Unmarked(bitmap, bat) \cup {b}
  BY <1>2, <1>4 DEF Unmarked
<1>6. \A m \in Slots : old'[m] = IF m = k THEN 0 ELSE old[m]
  BY <1>1, <1>2 DEF TypeOK
<1>7. Pointed(old') = Pointed(old) \ {b} /\ b \in Pointed(old) /\ b \notin Pointed(new)
  BY <1>1, <1>3, <1>6 DEF Pointed, NoBlock, b
<1>8. InHand' = InHand \ {b} /\ b \in InHand /\ Of' = Of
  BY <1>1, <1>7 DEF InHand, Of, Pointed
<1> QED
  BY <1>1, <1>2, <1>5, <1>8 DEF Ledger!Give, Of, InHand, b

LEMMA ReservedFull ==
  ASSUME Reserved PROVE Ledger!Full
BY DEF Reserved, Ledger!Full, Unmarked, Pointed

LEMMA ExhaustedStuck ==
  ASSUME Exhausted PROVE Ledger!Stuck
BY DEF Exhausted, Ledger!Stuck, Unmarked, Pool, Pointed

LEMMA CommitCloses ==
  ASSUME IInv, Commit
  PROVE  Ledger!Close
<1>1. /\ phase = "release" /\ Surplus = {} /\ ptr' = [ptr EXCEPT ![ino] = new]
      /\ phase' = "idle" /\ ino' = NoFile /\ new' = NoBlocks
      /\ UNCHANGED <<bitmap, bat, src, old>>
  BY DEF Commit
<1>2. ino \in Files /\ TypeOK
  BY <1>1 DEF IInv, OperationShape
<1>3. Pointed(old) = {}
  BY <1>1 DEF Surplus, Pointed
<1>4. InHand = Pointed(new) /\ InHand' = {}
  BY <1>1, <1>3, NothingPointed DEF InHand, Pointed
<1>5. \A i \in Files : ptr'[i] = IF i = ino THEN new ELSE ptr[i]
  BY <1>1, <1>2 DEF TypeOK
<1>6. Of' = [Of EXCEPT ![ino] = InHand]
  <2>1. /\ Of' = [i \in Files |-> IF i = ino' THEN {} ELSE Pointed(ptr'[i])]
        /\ [Of EXCEPT ![ino] = InHand] = [i \in Files |-> IF i = ino THEN InHand ELSE Of[i]]
    BY DEF Of, Pointed
  <2>2. ASSUME NEW i \in Files
        PROVE  (IF i = ino' THEN {} ELSE Pointed(ptr'[i])) = (IF i = ino THEN InHand ELSE Of[i])
    <3>1. i # ino' /\ (i # ino => Of[i] = Pointed(ptr[i]))
      BY <1>1, Constants DEF Of
    <3> QED
      BY <1>4, <1>5, <3>1
  <2> QED
    BY <2>1, <2>2
<1> QED
  BY <1>1, <1>4, <1>6 DEF Ledger!Close, Of, InHand, Unmarked

LEMMA EndRunSaves ==
  ASSUME IInv, EndRun
  PROVE  Ledger!Save
<1>1. /\ phase = "idle"
      /\ src' = [bitmap |-> bitmap, bat |-> bat, ptr |-> ptr, cnt |-> cnt,
                 kept |-> src.kept]
      /\ UNCHANGED <<bitmap, bat, ptr, cnt, phase, ino, goal, new, old>>
  BY DEF EndRun, op
<1>2. ino = NoFile
  BY <1>1, IdleFacts
<1>3. Of = [i \in Files |-> Pointed(src'.ptr[i])]
  BY <1>1, <1>2, Constants DEF Of, Pointed
<1>4. Of' = Of /\ InHand' = InHand /\ Unmarked(bitmap', bat') = Unmarked(bitmap, bat)
      /\ Unmarked(src'.bitmap, src'.bat) = Unmarked(bitmap, bat)
  BY <1>1 DEF Of, InHand, Pointed, Unmarked
<1> QED
  BY <1>1, <1>3, <1>4 DEF Ledger!Save, Of, InHand

LEMMA RestartResets ==
  ASSUME Restart
  PROVE  Ledger!Reset
<1>1. /\ phase \in {"idle", "failed"} /\ phase' = "idle" /\ ino' = NoFile
      /\ bitmap' = src.bitmap /\ bat' = src.bat /\ ptr' = src.ptr
      /\ new' = NoBlocks /\ old' = NoBlocks /\ UNCHANGED src
  BY DEF Restart
<1>2. Of' = [i \in Files |-> Pointed(src.ptr[i])]
  BY <1>1, Constants DEF Of, Pointed
<1>3. InHand' = {}
  BY <1>1, NothingPointed DEF InHand, Pointed
<1>4. Unmarked(bitmap', bat') = Unmarked(src.bitmap, src.bat)
  BY <1>1
<1> QED
  BY <1>1, <1>2, <1>3, <1>4 DEF Ledger!Reset, Of, InHand, Pointed, Unmarked

(* Every step of the allocator is one of the ledger, or changes nothing    *)
(* there: single calls move single blocks, nothing is released before all  *)
(* is reserved, only an empty pool makes a run fail, and a restart brings  *)
(* back the source.                                                        *)
THEOREM ImplementsLedger == Spec => LedgerKept
<1>1. Init => Ledger!LedgerInit
  BY LedgerBegins
<1>2. IInv /\ [Next]_vars => [Ledger!LedgerNext]_(Ledger!ledger)
  <2> SUFFICES ASSUME IInv, [Next]_vars
               PROVE  Ledger!LedgerNext \/ UNCHANGED Ledger!ledger
    OBVIOUS
  <2>1. ASSUME NEW i \in Files, NEW n \in Counts, Begin(i, n) PROVE Ledger!LedgerNext
    BY <2>1, BeginOpens DEF Ledger!LedgerNext
  <2>2. ASSUME NEW k \in Slots, NEW b \in Blocks, Reserve(k, b) PROVE Ledger!LedgerNext
    <3>1. Ledger!Take(b) /\ b \in Blocks \ {0}
      BY <2>2, ReserveTakes, ReserveFacts
    <3> QED
      BY <3>1 DEF Ledger!LedgerNext
  <2>3. ASSUME NEW k \in Slots, Release(k) PROVE Ledger!LedgerNext
    BY <2>3, ReleaseGives DEF Ledger!LedgerNext
  <2>4. CASE Exhausted
    BY <2>4, ExhaustedStuck DEF Ledger!LedgerNext
  <2>5. CASE Reserved
    BY <2>5, ReservedFull DEF Ledger!LedgerNext
  <2>6. CASE Commit
    BY <2>6, CommitCloses DEF Ledger!LedgerNext
  <2>7. CASE EndRun
    BY <2>7, EndRunSaves DEF Ledger!LedgerNext
  <2>8. CASE Restart
    BY <2>8, RestartResets DEF Ledger!LedgerNext
  <2>9. CASE UNCHANGED vars
    BY <2>9 DEF vars, op, Ledger!ledger, Unmarked, Pointed
  <2> QED
    BY <2>1, <2>2, <2>3, <2>4, <2>5, <2>6, <2>7, <2>8, <2>9 DEF Next
<1> QED
  BY InvariantHolds, <1>1, <1>2, PTL DEF Spec, LedgerKept, Ledger!LedgerSpec
=============================================================================
