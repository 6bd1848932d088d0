---------------------------- MODULE PfsAllocProps ----------------------------
(***************************************************************************)
(* Correctness of the block allocator, in every state, in the middle of an *)
(* operation as well as between two, and the inductive invariant that      *)
(* proves it (PfsAllocProofs).                                             *)
(***************************************************************************)
EXTENDS PfsAlloc

(* While a file is resized its dinode is out of date: what counts are the  *)
(* blocks of the operation, kept, reserved (new) or not yet released (old) *)
Settled == Files \ {ino}
Claimed(b) ==
  \/ \E i \in Settled, k \in Slots : ptr[i][k] = b
  \/ \E k \in Slots : new[k] = b \/ old[k] = b

(* The variables have their types (struct pfs_repack_mod_ctx); no BAT      *)
(* entry is anything but free, an inode, or a flagged block number.        *)
TypeOK ==
  /\ bitmap \in [Blocks -> BOOLEAN] /\ bat \in [Blocks -> Owners]
  /\ ptr \in [Files -> [Slots -> Blocks]] /\ cnt \in [Files -> Counts]
  /\ phase \in {"idle", "reserve", "release", "failed"}
  /\ ino \in Files \cup {NoFile} /\ goal \in Counts
  /\ new \in [Slots -> Blocks] /\ old \in [Slots -> Blocks]

(* main.c:1315, the safe free pool: a block is handed out at most once.    *)
(* No two slots of settled files, of the operation's reserved blocks or of *)
(* those it has yet to release name the same block.                        *)
NoSharing ==
  /\ \A i, j \in Settled, k, m \in Slots :
       ptr[i][k] = ptr[j][m] /\ ptr[i][k] # NoBlock => i = j /\ k = m
  /\ \A k, m \in Slots :
       /\ new[k] = new[m] /\ new[k] # NoBlock => k = m
       /\ old[k] = old[m] /\ old[k] # NoBlock => k = m
       /\ new[k] = old[m] => new[k] = NoBlock
  /\ \A i \in Settled, k, m \in Slots :
       ptr[i][k] # NoBlock => ptr[i][k] # new[m] /\ ptr[i][k] # old[m]

(* At every moment of every operation a block is marked in bitmap or BAT   *)
(* exactly if something claims it: no leak, nothing in use up for grabs.   *)
Accounted ==
  \A b \in Blocks \ {0} :
    Busy(bitmap, bat, b) <=> b \in src.kept \/ Claimed(b)

(* Blocks of the backup generation are claimed by nothing, and bitmap and  *)
(* BAT say of them what the source says (main.c:1316, nbackup=1).          *)
BackupMarked ==
  \A b \in src.kept :
    ~Claimed(b) /\ bitmap[b] = src.bitmap[b] /\ bat[b] = src.bat[b]

(* The BAT names the owner of every block of a file: its inode, or for the *)
(* slots behind the indirect block that block, with the flag.              *)
OwnersNamed ==
  /\ \A i \in Settled, k \in Slots :
       ptr[i][k] # NoBlock =>
         bat[ptr[i][k]] = IF k < NDirect \/ k = IndSlot THEN i
                          ELSE IndFlag + ptr[i][IndSlot]
  /\ \A k \in Slots :
       new[k] # NoBlock =>
         bat[new[k]] = IF k < NDirect \/ k = IndSlot THEN ino
                       ELSE IndFlag + new[IndSlot]

(* A settled file has a block in exactly the slots its block_count asks    *)
(* for, and so has an operation once it starts to release blocks.          *)
Complete ==
  /\ \A i \in Settled, k \in Slots :
       ptr[i][k] # NoBlock <=> k \in SlotsOf(cnt[i])
  /\ phase = "release" =>
       \A k \in Slots : new[k] # NoBlock <=> k \in SlotsOf(goal)

(* Files stay whole across the boundary between direct and indirect blocks *)
(* (main.c:1555): a block in every slot that block_count asks for, none    *)
(* besides, and the BAT names for each the file, or the indirect block     *)
(* that leads to it.                                                       *)
WellPlaced == OwnersNamed /\ Complete

-----------------------------------------------------------------------------
(* What else is needed for induction: what an operation holds lies in the  *)
(* slots it says, nothing is held between operations, and the source is as *)
(* sound as the first one was.                                             *)
OperationShape ==
  /\ \A k \in Slots : new[k] # NoBlock => k \in SlotsOf(goal)
  /\ \A k \in Slots :
       new[k] # NoBlock /\ k # IndSlot /\ k >= NDirect => new[IndSlot] # NoBlock
  /\ phase = "idle" => ino = NoFile /\ new = NoBlocks /\ old = NoBlocks
  /\ phase # "idle" => ino \in Files

IInv ==
  /\ TypeOK /\ NoSharing /\ Accounted /\ BackupMarked /\ OwnersNamed
  /\ Complete /\ OperationShape /\ Sound(src)

(* No step of any run, and no restart, touches the marks of a block that   *)
(* belongs to the backup generation.                                       *)
BackupStep ==
  /\ src'.kept = src.kept
  /\ \A b \in src.kept : bitmap'[b] = bitmap[b] /\ bat'[b] = bat[b]
BackupUntouched == [][BackupStep]_vars

-----------------------------------------------------------------------------
(* The allocator implements PfsLedger: bitmap and BAT together are the     *)
(* pool, and with them the pointers say whose each block is, after every   *)
(* single call.                                                            *)
Unmarked(bm, bt) == {b \in Blocks \ {0} : ~Busy(bm, bt, b)}
Pointed(p) == {p[k] : k \in Slots} \ {NoBlock}
Ledger == INSTANCE PfsLedger WITH
  Blocks <- Blocks \ {0},
  free <- Unmarked(bitmap, bat),
  of <- [i \in Files |-> IF i = ino THEN {} ELSE Pointed(ptr[i])],
  stage <- phase,
  for <- ino,
  held <- Pointed(new) \cup Pointed(old),
  saved <- [free |-> Unmarked(src.bitmap, src.bat),
            of |-> [i \in Files |-> Pointed(src.ptr[i])]]
(* main.c:1303-1340 and the writers that call it: every call moves one     *)
(* block between pool and operation, everything is reserved before         *)
(* anything is released, a run fails only with an empty pool, and a        *)
(* restart brings back what the source had.                                *)
LedgerKept == Ledger!LedgerSpec
=============================================================================
