------------------------------ MODULE PfsWrite ------------------------------
(***************************************************************************)
(* The write half of the repack code of main.c: allocator, the four        *)
(* content writers (patch, shrink, grow, put_content) and the directory    *)
(* and inode operations built on put_content.                              *)
(*                                                                         *)
(* Every operator takes and returns the working context c, a record with   *)
(*   out     the output image (the mmap'ed output file)                    *)
(*   root    the super root pointers in memory (pfs->hdr)                  *)
(*   bitmap  blk_bitmap, bat: block_addr_table, inob: ino_bitmap, the      *)
(*           decrypted copies in struct pfs_repack_mod_ctx                 *)
(*   dirty   meta_dirty                                                    *)
(* A result is [ok, c]: the C function's status and what it left behind,   *)
(* also when it fails half-way.  Failing mallocs are left out.             *)
(***************************************************************************)
EXTENDS PfsImage

CONSTANT IndFlag      \* bit 31 of a BAT entry: owned by an indirect block

ASSUME IndFlagAboveInodes == IndFlag \in Nat /\ IndFlag >= NInodes

Ok(c) == [ok |-> TRUE, c |-> c]
Failed(c) == [ok |-> FALSE, c |-> c]
(* The next call of a chain of calls, each made only if the last was ok *)
Then(r, Op(_)) == IF r.ok THEN Op(r.c) ELSE r

NoOwner == 0
IndOwner(no) == IndFlag + no
(* Faulty variant: the first slot behind the indirect block taken as direct *)
OwnerOfSlotOffByOne(i, k, ib) == IF k <= NDirect THEN i ELSE IndOwner(ib)
OwnerOfSlot(i, k, ib) == IF k < NDirect THEN i ELSE IndOwner(ib)

-----------------------------------------------------------------------------
(* Block allocator *)

(* Faulty variant: the bitmap trusted alone *)
FreePoolByBitmap(c) == {b \in 1..(NBlocks - 1) : ~c.bitmap[b]}
(* Bitmap and BAT both say free; block 0 is the header *)
FreePool(c) == {b \in 1..(NBlocks - 1) : ~c.bitmap[b] /\ c.bat[b] = NoOwner}

AllocBlock(c, owner) ==
  IF FreePool(c) = {} THEN [no |-> 0, c |-> c]
  ELSE LET b == CHOOSE x \in FreePool(c) : \A y \in FreePool(c) : x <= y
       IN [no |-> b,
           c |-> [c EXCEPT !.bitmap[b] = TRUE, !.bat[b] = owner,
                           !.dirty = TRUE]]

FreeBlock(c, b) ==
  [c EXCEPT !.bitmap[b] = FALSE, !.bat[b] = NoOwner, !.dirty = TRUE]
FreeBlocks(c, bs) == FoldLeft(FreeBlock, c, bs)

(* A file with the blocks `old` that is to have `to` blocks: does it lack  *)
(* an indirect block, and which blocks does it no longer need?             *)
(* Faulty variant: the indirect block is never given back.                 *)
LacksInd(old, to) == to > NDirect /\ Len(old) <= NDirect
SurplusKeepsInd(old, ib, to) == SubSeq(old, to + 1, Len(old))
Surplus(old, ib, to) ==
  SubSeq(old, to + 1, Len(old))
    \o (IF Len(old) > NDirect /\ to <= NDirect THEN <<ib>> ELSE <<>>)

(* Reserve what inode i needs to have `to` blocks where it had `old`: an   *)
(* indirect block first if it had none (else ib0 stays), then data blocks. *)
(* Blocks taken before the pool runs dry stay taken.                       *)
Reserve(c, i, ib0, old, to) ==
  LET a == IF LacksInd(old, to) THEN AllocBlock(c, i) ELSE [no |-> ib0, c |-> c]
      kept == SubSeq(old, 1, IF Len(old) < to THEN Len(old) ELSE to)
      Step(r, k) ==
        LET b == AllocBlock(r.c, OwnerOfSlot(i, k, a.no))
        IN IF ~r.ok THEN r
           ELSE [r EXCEPT !.ok = b.no # 0, !.c = b.c, !.phys = Append(@, b.no)]
  IN FoldLeft(Step,
       [ok |-> ~LacksInd(old, to) \/ a.no # 0, c |-> a.c, ib |-> a.no, phys |-> kept],
       [j \in 1..(to - Len(kept)) |-> Len(old) + j - 1])

-----------------------------------------------------------------------------
(* Faulty variant: the super root keeps the old digest of the block *)
SignDinodeUnrooted(c, i, di) ==
  LET b == c.root[i \div IPB].no
  IN Ok([c EXCEPT !.out[b] =
           Dinodes([DinodesOf(c.out[b]) EXCEPT ![i % IPB] = di])])

(* Write dinode `di` of inode i into its block of the output image and     *)
(* record the block's new digest in the super root.                        *)
SignDinode(c, i, di) ==
  LET s == i \div IPB
      b == c.root[s].no
      x == Dinodes([DinodesOf(c.out[b]) EXCEPT ![i % IPB] = di])
      written == [c EXCEPT !.out[b] = x]
  IN IF s < NSuper THEN Ok([written EXCEPT !.root[s].dig = Digest(b, x)])
                   ELSE Failed(written)

(* Write `content` to the blocks phys[0], phys[1], ...; then the indirect  *)
(* block ib (its entries start as `base`) when it is needed; then the      *)
(* dinode `di` with its pointers set.                                      *)
StoreContent(c, i, di, phys, ib, base, content) ==
  LET n == Len(phys)
      ptr(k) == [no |-> phys[k + 1],
                 dig |-> Digest(phys[k + 1], Chunk(content, k))]
      data == FoldLeft(LAMBDA img, k : [img EXCEPT ![phys[k]] = Chunk(content, k - 1)],
                       c.out, [k \in 1..n |-> k])
      entries == Indirect(SubSeq([e \in 1..NPtr |->
                   IF NDirect + e <= n THEN ptr(NDirect + e - 1) ELSE base[e]], 1, NPtr))
      direct == SubSeq([k \in 1..NDirect |->
                  IF k <= n THEN ptr(k - 1) ELSE di.direct[k]], 1, NDirect)
  IN IF n <= NDirect
       THEN SignDinode([c EXCEPT !.out = data], i, [di EXCEPT !.direct = direct])
       ELSE SignDinode([c EXCEPT !.out = [data EXCEPT ![ib] = entries]], i,
              [di EXCEPT !.direct = direct,
                         !.ind = [no |-> ib, dig |-> Digest(ib, entries)]])

(* pfs_repack_patch_file: same-size rewrite; dinode and block list come    *)
(* from the source image, the indirect block from the output image.        *)
PatchFile(c, src, i, content) ==
  LET di == DinodeAt(src, c.root, i)
      phys == ListedBlocks(src, di)
      skip == di.comp \/ Len(content) # di.size \/ Len(phys) > MaxSingle
  IN IF skip THEN Ok(c)
     ELSE StoreContent(c, i, di, phys, di.ind.no,
                       EntriesOf(c.out[di.ind.no]), content)

(* pfs_repack_shrink_file *)
ShrinkFile(c, src, i, content) ==
  LET di == DinodeAt(src, c.root, i)
      old == ListedBlocks(src, di)
      n == CeilDiv(Len(content), BBS)
      skip == \/ di.comp
              \/ Len(content) = 0
              \/ Len(content) >= di.size
              \/ Len(old) > MaxSingle
      kept == [k \in 1..NDirect |-> IF k <= n THEN di.direct[k] ELSE NoPtr]
      cut == [di EXCEPT !.direct = kept, !.ind = IF Len(old) > NDirect /\ n <= NDirect THEN NoPtr ELSE @,
                        !.size = Len(content), !.count = n]
  IN IF skip THEN Ok(c)
     ELSE StoreContent(FreeBlocks(c, Surplus(old, di.ind.no, n)), i, cut, SubSeq(old, 1, n),
                       di.ind.no, NoEntries, content)

(* pfs_repack_grow_file: all blocks are reserved before any is written *)
GrowFile(c, src, i, content) ==
  LET di == DinodeAt(src, c.root, i)
      n == CeilDiv(Len(content), BBS)
      skip == di.comp \/ Len(content) <= di.size \/ n > MaxSingle
      r == Reserve(c, i, di.ind.no, ListedBlocks(src, di), n)
  IN IF skip THEN Ok(c)
     ELSE IF ~r.ok THEN Failed(r.c)
     ELSE StoreContent(r.c, i, [di EXCEPT !.size = Len(content), !.count = n],
                       r.phys, r.ib, NoEntries, content)

(* pfs_repack_put_content: the general writer.  Old blocks are those of    *)
(* the dinode now in the output image; `meta` becomes the dinode.          *)
PutContent(c, i, meta, content) ==
  LET was == DinodeAt(c.out, c.root, i)
      old == CollectedBlocks(c.out, was)
      n == CeilDiv(Len(content), BBS)
      unsupported == n > MaxSingle \/ i \div IPB >= NSuper
      r == Reserve(c, i, was.ind.no, old, n)
      di == [meta EXCEPT !.direct = ZeroDinode.direct, !.ind = NoPtr,
                         !.ind2 = NoPtr, !.size = Len(content), !.count = n]
  IN IF unsupported THEN Failed(c)
     ELSE IF ~r.ok THEN Failed(r.c)
     ELSE StoreContent(FreeBlocks(r.c, Surplus(old, was.ind.no, n)), i, di, r.phys, r.ib,
                       NoEntries, content)

-----------------------------------------------------------------------------
(* Inodes *)

(* ino_bitmap clear and dinode empty; inode 0 is the super root *)
FreeInodes(c) ==
  {i \in 1..(NInodes - 1) :
     /\ ~c.inob[i]
     /\ i \div IPB < NSuper
     /\ LET di == DinodeAt(c.out, c.root, i)
        IN di.mode = "none" /\ di.count = 0}

(* pfs_repack_meta_alloc_inode; 0 when there is none *)
AllocInode(c) ==
  IF FreeInodes(c) = {} THEN [ino |-> 0, c |-> c]
  ELSE LET i == CHOOSE x \in FreeInodes(c) : \A y \in FreeInodes(c) : x <= y
       IN [ino |-> i, c |-> [c EXCEPT !.inob[i] = TRUE, !.dirty = TRUE]]

FreeInode(c, i) == [c EXCEPT !.inob[i] = FALSE, !.dirty = TRUE]

(* pfs_repack_free_inode_data *)
FreeInodeData(c, i) == PutContent(c, i, ZeroDinode, <<>>)

-----------------------------------------------------------------------------
(* Directory entries *)

DirContent(c, dir) == ReadContent(c.out, DinodeAt(c.out, c.root, dir))
Unreadable(c, dir) == ~Collectable(DinodeAt(c.out, c.root, dir))

(* pfs_repack_dir_insert: after the last entry; one more block when the    *)
(* zero terminator would no longer fit.                                    *)
DirInsert(c, dir, name, i, type, delta) ==
  LET buf == DirContent(c, dir)
      used == UsedEntries(buf)
      size == IF used + 2 > Len(buf) THEN CeilDiv(used + 2, BBS) * BBS
                                     ELSE Len(buf)
      di == DinodeAt(c.out, c.root, dir)
  IN IF Unreadable(c, dir) \/ DirFind(buf, name) # 0 \/ size > Len(buf) + BBS
       THEN Failed(c)
     ELSE PutContent(c, dir, [di EXCEPT !.link = @ + delta],
            ReplaceAt(SubSeq(buf \o ZeroBlock, 1, size), used + 1,
                      Dirent(i, type, name)))

(* Faulty variant: the entries behind the removed one lost *)
DirRemoveEntryCutsTail(c, dir, name, delta) ==
  LET buf == DirContent(c, dir)
      di == DinodeAt(c.out, c.root, dir)
      at == DirFind(buf, name)
  IN PutContent(c, dir, [di EXCEPT !.link = @ + delta],
                [j \in 1..Len(buf) |-> IF j < at THEN buf[j] ELSE Zero])

(* pfs_repack_dir_remove_entry: the tail moves down, the size stays *)
DirRemoveEntry(c, dir, name, delta) ==
  LET buf == DirContent(c, dir)
      at == DirFind(buf, name)
      di == DinodeAt(c.out, c.root, dir)
  IN IF Unreadable(c, dir) \/ at = 0 THEN Failed(c)
     ELSE PutContent(c, dir, [di EXCEPT !.link = @ + delta],
                     Append(RemoveAt(buf, at), Zero))

-----------------------------------------------------------------------------
(* Files and directories *)

(* pfs_repack_add_file *)
AddFile(c, parent, name, content) ==
  LET a == AllocInode(c)
      di == [ZeroDinode EXCEPT !.mode = "reg", !.link = 1]
  IN IF a.ino = 0 THEN Failed(c)
     ELSE Then(PutContent(a.c, a.ino, di, content),
               LAMBDA d : DirInsert(d, parent, name, a.ino, "file", 0))

(* pfs_repack_add_dir *)
AddDir(c, parent, name) ==
  LET a == AllocInode(c)
      di == [ZeroDinode EXCEPT !.mode = "dir", !.link = 2]
      buf == SubSeq(<<Dirent(a.ino, "this", "."), Dirent(parent, "parent", "..")>>
                    \o ZeroBlock, 1, BBS)
  IN IF a.ino = 0 THEN Failed(c)
     ELSE Then(PutContent(a.c, a.ino, di, buf),
               LAMBDA d : DirInsert(d, parent, name, a.ino, "dir", 1))

FreeOne(c, i) ==
  Then(FreeInodeData(c, i), LAMBDA d : Ok(FreeInode(d, i)))

(* Faulty variant: the children of a removed directory forgotten *)
FreeDirShallow(c, dir) == Ok(c)

(* pfs_repack_free_dir_recursive: everything below a directory, the        *)
(* children of a subdirectory before the subdirectory itself.  A directory *)
(* that cannot be read ends it.                                            *)
FreeEntry(c, e) ==
  IF e.type = "dir" /\ Unreadable(c, e.ino) THEN Failed(c) ELSE FreeOne(c, e.ino)
FreeDirRecursive(c, dir) ==
  LET kids(e) == IF e.type = "dir" /\ ~Unreadable(c, e.ino)
                 THEN Children(c.out, c.root, e.ino) ELSE {}
      below[d \in 0..MaxDepth] ==
        IF d = 0 THEN Children(c.out, c.root, dir)
                 ELSE UNION {kids(e) : e \in below[d - 1]}
      deepestFirst == [d \in 1..(MaxDepth + 1) |-> SetToSeq(below[MaxDepth + 1 - d])]
  IN FoldLeft(LAMBDA r, e : Then(r, LAMBDA x : FreeEntry(x, e)),
              IF Unreadable(c, dir) THEN Failed(c) ELSE Ok(c), FlattenSeq(deepestFirst))

(* pfs_repack_remove_path, for a path that resolves *)
RemovePath(c, path) ==
  LET parent == LookupPath(c.out, c.root, Front(path))
      child == LookupChild(c.out, c.root, parent.ino, Last(path))
      isDir == child.type = "dir"
      emptied == IF isDir THEN FreeDirRecursive(c, child.ino) ELSE Ok(c)
  IN IF path = <<>> \/ ~Found(parent) \/ ~Found(child) THEN Failed(c)
     ELSE Then(Then(emptied, LAMBDA d : FreeOne(d, child.ino)),
               LAMBDA d : DirRemoveEntry(d, parent.ino, Last(path),
                                         IF isDir THEN -1 ELSE 0))
=============================================================================
