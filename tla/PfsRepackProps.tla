--------------------------- MODULE PfsRepackProps ---------------------------
(***************************************************************************)
(* Correctness of the repack command.  Most properties are invariants of   *)
(* every state between two handlers of a run that has not failed; the      *)
(* output of a failed run is not meant to be used.                         *)
(***************************************************************************)
EXTENDS PfsRepack

Alive == phase # "failed"

OutDinode(i) == DinodeAt(ctx.out, ctx.root, i)
OutLinks == Links(ctx.out, ctx.root)
OutTree == TreeOf(ctx.out, ctx.root)

Free(c, b) == b # 0 /\ ~c.bitmap[b] /\ c.bat[b] = NoOwner

(* Blocks the allocator metadata of the source keeps back although nothing *)
(* in the image points at them: they belong to the backup generation.      *)
BackupBlocks ==
  {b \in Blocks \ {0} : ~Free(Load(src), b)} \ LinkedBlocks(src, RootOf(src))

-----------------------------------------------------------------------------
(* main.c:1320: "block 0 is the header, never a valid data block".  The    *)
(* header of the output is only ever replaced by a header.                 *)
HeaderNeverData == IsHeader(ctx.out[0])

(* What a removed file beyond single-level indirection leaves allocated:   *)
(* collect_blocks gives up on it without an error (main.c:1697)            *)
Lost ==
  LET bigOnce(i) == DinodeAt(src, RootOf(src), i).count > MaxSingle
  IN {l.ptr.no : l \in {l \in Links(src, RootOf(src)) :
                          bigOnce(l.ino) /\ OutDinode(l.ino).count <= MaxSingle}}

(* Every block has exactly one purpose or is free: it is named by one      *)
(* pointer of the output image, of any inode, direct or indirect, or it is *)
(* the header, or it belongs to the backup generation, or it is lost; and  *)
(* no other block is kept from allocation.  So nothing else leaks, and     *)
(* nothing is shared (pfs_repack_meta_alloc_block, shrink, grow and        *)
(* put_content together).  The backup generation survives whatever the run *)
(* does, also when it fails (main.c:1289: the intersection is the only     *)
(* safe pool).                                                             *)
OnePurpose ==
  /\ Alive => \A b \in Blocks :
       Cardinality({l \in OutLinks : l.ptr.no = b})
         + Cardinality({b} \cap (BackupBlocks \cup Lost \cup {0}))
       = IF Free(ctx, b) THEN 0 ELSE 1
  /\ \A b \in BackupBlocks : ctx.out[b] = src[b]

(* The BAT names the owner of every block of a file: the inode for direct  *)
(* data and indirect blocks, 0x80000000 | indirect block for the rest.     *)
BatNamesOwner ==
  Alive => \A l \in OutLinks :
    /\ l.kind = "data" /\ l.slot < MaxSingle =>
         ctx.bat[l.ptr.no] = IF l.slot < NDirect THEN l.ino
                             ELSE IndFlag + OutDinode(l.ino).ind.no
    /\ l.kind = "ind" => ctx.bat[l.ptr.no] = l.ino

(* The Merkle tree below the in-memory super root is intact after every    *)
(* handler: every stored digest is that of the block it is stored for.     *)
MerkleIntact == Alive => \A l \in OutLinks : Verifies(ctx.out, l.ptr)

(* Every name leads to a live inode of its kind that ino_bitmap knows, and *)
(* every live inode of the user tree has exactly one name.  Link counts    *)
(* are what a file system check computes: 1 for a file, 2 plus the number  *)
(* of subdirectories for a directory.                                      *)
TreeSound ==
  Alive =>
    LET W == Walk(ctx.out, ctx.root)
        root == [path |-> <<>>, ino |-> URootIno, type |-> "dir"]
        mode == [file |-> "reg", dir |-> "dir"]
    IN /\ \A v \in W : OutDinode(v.ino).mode = mode[v.type] /\ ctx.inob[v.ino]
       /\ \A i \in Inos \ (SysInos \cup {0, URootIno}) :
            Cardinality({v \in W : v.ino = i})
              = IF OutDinode(i).mode = "none" THEN 0 ELSE 1
       /\ \A v \in W \cup {root} :
            OutDinode(v.ino).link =
              IF v.type = "file" THEN 1
              ELSE 2 + Cardinality({e \in Children(ctx.out, ctx.root, v.ino) :
                                      e.type = "dir"})

-----------------------------------------------------------------------------
(* The abstract specification: what the run looks like from outside *)
Tree == INSTANCE PfsTree WITH
  base <- TreeOf(src, RootOf(src)),
  tree <- IF phase = "failed" THEN TreeOf(src, RootOf(src)) ELSE OutTree

-----------------------------------------------------------------------------
(* What a run that reports success has delivered *)

(* The output is a source image again: opening it yields the super root,   *)
(* bitmaps and BAT the run ended with, so none of the three flushes and    *)
(* the header update may be lost or done in the wrong order.               *)
OutputReloads ==
  phase = "done" => /\ IsHeader(ctx.out[0])
                    /\ Load(ctx.out) = [ctx EXCEPT !.dirty = FALSE]

(* The header's signatures are those of the final super root: the hash     *)
(* always, the SD signature when sd_key_ver > 2, the auth code's copy when *)
(* the user has its key.                                                   *)
HeaderSigned ==
  phase = "done" /\ changed =>
    LET h == ctx.out[0][2]
    IN /\ h.hash = HeaderHash(h.root)
       /\ SdKeyVer > 2 => h.rest.sig = h.hash
       /\ "auth" \in keys => h.rest.auth = h.hash

(* main.c:2432: with nothing changed, "output is a verbatim copy of the    *)
(* source image".                                                          *)
VerbatimIfUnchanged == phase = "done" /\ ~changed => ctx.out = src

Removes(p) == \E q \in ToSet(manifest) : IsPrefix(q, p)
(* What the three writers decline with a warning and leave as it is *)
Declined(p) ==
  LET di == SrcDinode(p)
  IN \/ di.comp
     \/ Len(host[p].content) = 0
     \/ CeilDiv(Len(host[p].content), BBS) > MaxSingle
     \/ di.count > MaxSingle

(* main.c:2192: "Don't re-add anything the manifest removed (removals      *)
(* win)".  They do as far as the additions remember the manifest, which is *)
(* its first MaxRemoves lines (main.c:2246): of these no path is in the    *)
(* output.  Everything the modification directory holds has arrived,       *)
(* except what these lines remove and what is declined with a warning: a   *)
(* path on a later line is removed and comes back if the directory has it, *)
(* and is gone if it does not.                                             *)
Remembered == {manifest[n] : n \in 1 .. Min({MaxRemoves, Len(manifest)})}
Delivered ==
  phase = "done" =>
    /\ \A e \in OutTree : e.path \notin Remembered
    /\ \A p \in ToSet(manifest) \ DOMAIN host : \A e \in OutTree : e.path # p
    /\ \A p \in DOMAIN host :
         \/ \E q \in Remembered : IsPrefix(q, p)
         \/ Found(SrcEntry(p)) /\ (host[p].kind # SrcEntry(p).type \/ Declined(p))
         \/ Tree!Entry(p, host[p]) \in OutTree

(* main.c:2293: "not provided -> keep original".  A file the directory does *)
(* not provide and the manifest does not remove is as it was.              *)
NotProvidedKept ==
  phase = "done" =>
    \A e \in TreeOf(src, RootOf(src)) :
      e.kind = "file" /\ ~Removes(e.path)
        /\ (e.path \in DOMAIN host => host[e.path].kind # "file")
      => e \in OutTree

-----------------------------------------------------------------------------
(* Seen from outside the run is PfsTree: each step changes the one path it *)
(* was asked to change, to what was asked for, and no other file notices,  *)
(* whatever blocks and inodes are shared, freed or reused underneath.      *)
TreeRefined == Tree!TreeSpec
=============================================================================
