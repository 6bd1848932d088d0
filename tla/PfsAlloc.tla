------------------------------ MODULE PfsAlloc ------------------------------
(***************************************************************************)
(* The block allocator of the repack code, one call at a time: blk_bitmap, *)
(* block_addr_table (BAT) and the block pointers of the dinodes, while     *)
(* files are resized one after the other (main.c: grow_file, shrink_file,  *)
(* put_content, and the two functions meta_alloc_block and meta_free_block *)
(* they share).  Where PfsWrite has a whole handler in one step, this      *)
(* module has each block reserved, each block released and the dinode's    *)
(* update as steps of their own, and no bound on the number of blocks,     *)
(* files or operations.                                                    *)
(*                                                                         *)
(* A file has a pointer per slot: slots 0..NDirect-1 are direct, the next  *)
(* ones lie in the indirect block, whose own pointer is IndSlot.  Files    *)
(* are within single-level indirection.  A resize starts from block_count  *)
(* blocks; the file of size 0 whose block list is read as <<0>> is in      *)
(* PfsWrite only.                                                          *)
(***************************************************************************)
EXTENDS Integers, FiniteSets

CONSTANTS
  NBlocks,      \* physical blocks; block 0 is the header
  Files,        \* the inodes that may have blocks
  NDirect,      \* PFS_DIRECT_BLOCK_MAX_COUNT
  MaxCount,     \* NDirect + pfs->indirect_ptrs_per_block
  IndFlag,      \* bit 31 of a BAT entry
  Images        \* source images, with the blocks of the backup generation

NoOwner == 0
NoBlock == 0
NoFile == 0

Blocks == 0..(NBlocks - 1)
IndSlot == MaxCount
Slots == 0..IndSlot
Counts == 0..MaxCount

(* The slots in use of a file of n blocks *)
SlotsOf(n) == {k \in Slots : k < n \/ (k = IndSlot /\ n > NDirect)}

Owners == {NoOwner} \cup Files \cup {IndFlag + b : b \in Blocks}

(* The BAT entry of the block in slot k of file i, whose indirect block is *)
(* ib.  Faulty variant: an off-by-one at the boundary                      *)
OwnerOfOffByOne(i, k, ib) ==
  IF k <= NDirect \/ k = IndSlot THEN i ELSE IndFlag + ib
OwnerOf(i, k, ib) == IF k < NDirect \/ k = IndSlot THEN i ELSE IndFlag + ib

Busy(bm, bt, b) == bm[b] \/ bt[b] # NoOwner

(* A source image: every file has the blocks its count asks for, no two    *)
(* pointers share one, the BAT names the owners, and what is busy without  *)
(* being pointed at is the backup generation's.                            *)
Sound(im) ==
  /\ im.bitmap \in [Blocks -> BOOLEAN]
  /\ im.bat \in [Blocks -> Owners]
  /\ im.ptr \in [Files -> [Slots -> Blocks]]
  /\ im.cnt \in [Files -> Counts]
  /\ im.kept \in SUBSET (Blocks \ {0})
  /\ \A i \in Files, k \in Slots :
       im.ptr[i][k] # NoBlock <=> k \in SlotsOf(im.cnt[i])
  /\ \A i, j \in Files, k, m \in Slots :
       im.ptr[i][k] = im.ptr[j][m] /\ im.ptr[i][k] # NoBlock => i = j /\ k = m
  /\ \A i \in Files, k \in Slots : im.ptr[i][k] \notin im.kept
  /\ \A i \in Files, k \in Slots :
       im.ptr[i][k] # NoBlock =>
         im.bat[im.ptr[i][k]] = IF k < NDirect \/ k = IndSlot THEN i
                                ELSE IndFlag + im.ptr[i][IndSlot]
  /\ \A b \in Blocks \ {0} :
       Busy(im.bitmap, im.bat, b)
         <=> b \in im.kept \/ \E i \in Files, k \in Slots : im.ptr[i][k] = b

ASSUME AllocConstants ==
  /\ NBlocks \in Nat \ {0} /\ NDirect \in Nat \ {0} /\ IndFlag \in Nat \ {0}
  /\ MaxCount \in Nat /\ MaxCount > NDirect
  /\ Files \subseteq 1..(IndFlag - 1)
ASSUME ImagesSound == \A im \in Images : Sound(im)

VARIABLES
  bitmap, bat,    \* the decrypted metadata of struct pfs_repack_mod_ctx
  ptr, cnt,       \* pointers and block_count of the output's dinodes
  src,            \* the source image
  phase,          \* "idle", or the stage of the operation
  ino, goal,      \* the file being resized, and its block count to be
  new,            \* newphys and ind_block_no of the operation, by slot
  old             \* blocks the operation has yet to release, by slot

op == <<phase, ino, goal, new, old>>
vars == <<bitmap, bat, ptr, cnt, src, op>>

NoBlocks == [k \in Slots |-> NoBlock]

Init ==
  /\ src \in Images
  /\ bitmap = src.bitmap /\ bat = src.bat /\ ptr = src.ptr /\ cnt = src.cnt
  /\ phase = "idle" /\ ino = NoFile /\ goal = 0
  /\ new = NoBlocks /\ old = NoBlocks

-----------------------------------------------------------------------------
(* Faulty variants: one of the two metadata files trusted alone *)
PoolByBitmap == {b \in Blocks \ {0} : ~bitmap[b]}
PoolByBat == {b \in Blocks \ {0} : bat[b] = NoOwner}
(* pfs_repack_meta_alloc_block takes the first block both call free *)
Pool == {b \in Blocks \ {0} : ~Busy(bitmap, bat, b)}

Lowest(S, x) == x \in S /\ \A y \in S : x <= y

(* Blocks in the slots the file keeps stay; the others are to be released *)
Begin(i, n) ==
  /\ phase = "idle"
  /\ phase' = "reserve" /\ ino' = i /\ goal' = n
  /\ new' = [k \in Slots |-> IF k \in SlotsOf(n) THEN ptr[i][k] ELSE NoBlock]
  /\ old' = [k \in Slots |-> IF k \in SlotsOf(n) THEN NoBlock ELSE ptr[i][k]]
  /\ UNCHANGED <<bitmap, bat, ptr, cnt, src>>

(* Slots still without a block; the indirect block is reserved first *)
Missing == {k \in SlotsOf(goal) : new[k] = NoBlock}
NextMissing(k) ==
  IF IndSlot \in Missing THEN k = IndSlot ELSE Lowest(Missing, k)

Reserve(k, b) ==
  /\ phase = "reserve"
  /\ NextMissing(k)
  /\ Lowest(Pool, b)
  /\ bitmap' = [bitmap EXCEPT ![b] = TRUE]
  /\ bat' = [bat EXCEPT ![b] = OwnerOf(ino, k, new[IndSlot])]
  /\ new' = [new EXCEPT ![k] = b]
  /\ UNCHANGED <<ptr, cnt, src, phase, ino, goal, old>>

(* "free pool exhausted": what was reserved stays marked, the run fails *)
Exhausted ==
  /\ phase = "reserve" /\ Missing # {} /\ Pool = {}
  /\ phase' = "failed"
  /\ UNCHANGED <<bitmap, bat, ptr, cnt, src, ino, goal, new, old>>

Reserved ==
  /\ phase = "reserve" /\ Missing = {}
  /\ phase' = "release"
  /\ UNCHANGED <<bitmap, bat, ptr, cnt, src, ino, goal, new, old>>

(* pfs_repack_meta_free_block on each surplus block, the indirect one last *)
Surplus == {k \in Slots : old[k] # NoBlock}
(* Faulty variant: the BAT entry left behind *)
ReleaseBitmapOnly(k) ==
  /\ phase = "release"
  /\ Lowest(Surplus, k)
  /\ bitmap' = [bitmap EXCEPT ![old[k]] = FALSE]
  /\ old' = [old EXCEPT ![k] = NoBlock]
  /\ UNCHANGED <<bat, ptr, cnt, src, phase, ino, goal, new>>
(* Faulty variant: surplus blocks released before all others are reserved  *)
ReleaseEarly(k) ==
  /\ phase \in {"reserve", "release"}
  /\ Lowest(Surplus, k)
  /\ bitmap' = [bitmap EXCEPT ![old[k]] = FALSE]
  /\ bat' = [bat EXCEPT ![old[k]] = NoOwner]
  /\ old' = [old EXCEPT ![k] = NoBlock]
  /\ UNCHANGED <<ptr, cnt, src, phase, ino, goal, new>>
Release(k) ==
  /\ phase = "release"
  /\ Lowest(Surplus, k)
  /\ bitmap' = [bitmap EXCEPT ![old[k]] = FALSE]
  /\ bat' = [bat EXCEPT ![old[k]] = NoOwner]
  /\ old' = [old EXCEPT ![k] = NoBlock]
  /\ UNCHANGED <<ptr, cnt, src, phase, ino, goal, new>>

(* The dinode is written with the new pointers and block_count *)
Commit ==
  /\ phase = "release" /\ Surplus = {}
  /\ ptr' = [ptr EXCEPT ![ino] = new]
  /\ cnt' = [cnt EXCEPT ![ino] = goal]
  /\ phase' = "idle" /\ ino' = NoFile /\ goal' = 0
  /\ new' = NoBlocks
  /\ UNCHANGED <<bitmap, bat, src, old>>

(* The run flushes the metadata; its output may be the next source *)
EndRun ==
  /\ phase = "idle"
  /\ src' = [bitmap |-> bitmap, bat |-> bat, ptr |-> ptr, cnt |-> cnt,
             kept |-> src.kept]
  /\ UNCHANGED <<bitmap, bat, ptr, cnt, op>>

(* A run that failed, here or in a step between two resizes, is started    *)
(* again from the source image                                             *)
Restart ==
  /\ phase \in {"idle", "failed"}
  /\ bitmap' = src.bitmap /\ bat' = src.bat /\ ptr' = src.ptr /\ cnt' = src.cnt
  /\ phase' = "idle" /\ ino' = NoFile /\ goal' = 0
  /\ new' = NoBlocks /\ old' = NoBlocks
  /\ UNCHANGED src

Next ==
  \/ \E i \in Files, n \in Counts : Begin(i, n)
  \/ \E k \in Slots, b \in Blocks : Reserve(k, b)
  \/ Exhausted \/ Reserved
  \/ \E k \in Slots : Release(k)
  \/ Commit
  \/ EndRun \/ Restart

Spec == Init /\ [][Next]_vars
=============================================================================
