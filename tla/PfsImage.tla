------------------------------ MODULE PfsImage ------------------------------
(***************************************************************************)
(* The on-disk structure of a signed (32-bit) savedata PFS image and the   *)
(* ways the tool reads it: dinodes, block pointers, indirect blocks,       *)
(* directories and path lookup (pfs.hpp, pfs_dinode.c, pfs_block.c and the *)
(* read half of the repack code in main.c).                                *)
(*                                                                         *)
(* An image is a function from physical block numbers to block contents.   *)
(* Every content is a pair <<tag, value>>.  A block is BBS units long; a   *)
(* unit is a piece of payload, one directory entry, or Zero (what padding, *)
(* the directory terminator and a zeroed buffer read as).                  *)
(*                                                                         *)
(* A signed digest is HMAC(key, ciphertext) and the ciphertext depends on  *)
(* the block's position, so a digest is the pair <<position, content>>:    *)
(* two digests are equal exactly when position and plaintext are.          *)
(***************************************************************************)
EXTENDS Integers, Sequences, FiniteSets, SequencesExt

CONSTANTS
  NBlocks,        \* physical blocks of the image; block 0 is the header
  BBS,            \* units per basic block (pfs->basic_block_size)
  NDirect,        \* PFS_DIRECT_BLOCK_MAX_COUNT (12)
  NPtr,           \* pfs->indirect_ptrs_per_block
  NInodes,        \* pfs->hdr.dinode_count
  IPB,            \* pfs->inodes_per_block
  NSuper,         \* direct pointers of the super root dinode (12)
  BitmapIno,      \* inode of blk_bitmap
  BatIno,         \* inode of block_addr_table
  InoBitmapIno,   \* inode of ino_bitmap
  URootIno,       \* inode of uroot
  MaxDepth        \* bound: the deepest path of the user tree

ASSUME SizesPositive ==
  /\ {NBlocks, BBS, NDirect, NPtr, NInodes, IPB, NSuper, MaxDepth}
       \subseteq Nat \ {0}
  /\ {BitmapIno, BatIno, InoBitmapIno, URootIno} \subseteq 1..(NInodes - 1)

Blocks == 0..(NBlocks - 1)
Inos == 0..(NInodes - 1)
DinodeBlocks == 0..((NInodes - 1) \div IPB)
SysInos == {BitmapIno, BatIno, InoBitmapIno}

ASSUME SpecialInodes ==
  /\ BitmapIno # BatIno /\ BitmapIno # InoBitmapIno /\ BatIno # InoBitmapIno
  /\ URootIno \notin SysInos

CeilDiv(n, m) == (n + m - 1) \div m

-----------------------------------------------------------------------------
(* Units and block contents *)

Zero == <<"z", 0>>
Dirent(ino, type, name) ==
  <<"e", [ino |-> ino, type |-> type, name |-> name]>>
IsDirent(u) == u[1] = "e"

Data(units) == <<"data", units>>

NoDigest == <<0, <<"none", 0>>>>
Digest(no, content) == <<no, content>>
NoPtr == [no |-> 0, dig |-> NoDigest]

NoEntries == [e \in 1..NPtr |-> NoPtr]
Indirect(entries) == <<"ind", entries>>
EntriesOf(content) == IF content[1] = "ind" THEN content[2] ELSE NoEntries

ZeroDinode ==
  [mode |-> "none", comp |-> FALSE, link |-> 0, size |-> 0, count |-> 0,
   direct |-> [k \in 1..NDirect |-> NoPtr], ind |-> NoPtr, ind2 |-> NoPtr]

Dinodes(table) == <<"ino", table>>
DinodesOf(content) ==
  IF content[1] = "ino" THEN content[2]
                        ELSE [s \in 0..(IPB - 1) |-> ZeroDinode]

Header(root, hash, rest) ==
  <<"hdr", [root |-> root, hash |-> hash, rest |-> rest]>>
IsHeader(content) == content[1] = "hdr"

-----------------------------------------------------------------------------
(* Block k of a file that holds `content`, the last block zero-padded *)
ZeroBlock == [j \in 1..BBS |-> Zero]
Chunk(content, k) ==
  Data(SubSeq(content \o ZeroBlock, k * BBS + 1, (k + 1) * BBS))

(* pfs_get_dinode / pfs_repack_read_dinode *)
DinodeAt(img, root, i) == DinodesOf(img[root[i \div IPB].no])[i % IPB]

(* The pointer in logical slot k of a dinode: direct, single or double     *)
(* indirect.                                                               *)
PtrAt(img, di, k) ==
  IF k < NDirect THEN di.direct[k + 1]
  ELSE IF k < NDirect + NPtr
    THEN EntriesOf(img[di.ind.no])[k - NDirect + 1]
    ELSE LET j == k - NDirect - NPtr
             leaf == EntriesOf(img[di.ind2.no])[(j \div NPtr) + 1].no
         IN EntriesOf(img[leaf])[(j % NPtr) + 1]

MaxSingle == NDirect + NPtr

(* pfs_get_block_list: driven by the SIZE; the first pointer is listed     *)
(* before the size is looked at, so an empty file has one block as well.   *)
ListedBlocks(img, di) ==
  LET n == IF di.size = 0 THEN 1 ELSE CeilDiv(di.size, BBS)
  IN SubSeq([k \in 1..n |-> PtrAt(img, di, k - 1).no], 1, n)

(* pfs_repack_collect_blocks: driven by block_count, single-level only.  A *)
(* larger count makes it return NULL, with *count already set to 0.        *)
CollectedBlocks(img, di) ==
  LET n == IF di.count > MaxSingle THEN 0 ELSE di.count
  IN SubSeq([k \in 1..n |-> PtrAt(img, di, k - 1).no], 1, n)

(* The content of a file: size units.  pfs_file_read takes it from the     *)
(* block list, pfs_repack_read_content from the collected blocks: it reads *)
(* no file that they cannot be collected of.                               *)
Collectable(di) == di.count <= MaxSingle
ReadContent(img, di) ==
  LET unit(j) == LET c == img[PtrAt(img, di, (j - 1) \div BBS).no]
                 IN IF c[1] = "data" THEN c[2][((j - 1) % BBS) + 1] ELSE Zero
  IN SubSeq([j \in 1..di.size |-> unit(j)], 1, di.size)

-----------------------------------------------------------------------------
(* Directories.  A scan stops at the first unit that is no entry.          *)
UsedEntries(buf) ==
  LET stops == {j \in 1..Len(buf) : ~IsDirent(buf[j])}
  IN IF stops = {} THEN Len(buf)
     ELSE (CHOOSE j \in stops : \A m \in stops : j <= m) - 1

(* pfs_repack_dir_find: position of `name`, 0 when absent *)
DirFind(buf, name) ==
  LET at == {j \in 1..UsedEntries(buf) : buf[j][2].name = name}
  IN IF at = {} THEN 0 ELSE CHOOSE j \in at : \A m \in at : j <= m

NotFound == [ino |-> -1, type |-> "none", name |-> "none"]
Found(e) == e.ino # -1

LookupChild(img, root, dir, name) ==
  LET di == DinodeAt(img, root, dir)
      buf == ReadContent(img, di)
      j == DirFind(buf, name)
  IN IF j = 0 \/ ~Collectable(di) THEN NotFound ELSE buf[j][2]

(* pfs_repack_lookup_path: the empty path is the user root *)
LookupPath(img, root, path) ==
  FoldLeft(LAMBDA e, name : IF Found(e) THEN LookupChild(img, root, e.ino, name)
                                        ELSE NotFound,
           [ino |-> URootIno, type |-> "dir", name |-> "uroot"], path)

(* The children a directory walk visits: "." and ".." left out *)
Children(img, root, dir) ==
  LET buf == ReadContent(img, DinodeAt(img, root, dir))
  IN {buf[j][2] : j \in {m \in 1..UsedEntries(buf) :
                           buf[m][2].type \in {"file", "dir"}}}

(* pfs_enum_user_root_directory: every path of the user tree with the      *)
(* entry it leads to                                                       *)
Walk(img, root) ==
  LET level[d \in 0..MaxDepth] ==
        IF d = 0
          THEN {[path |-> <<>>, ino |-> URootIno, type |-> "dir"]}
          ELSE UNION {
            {[path |-> Append(v.path, c.name), ino |-> c.ino, type |-> c.type] :
               c \in Children(img, root, v.ino)} :
            v \in {u \in level[d - 1] : u.type = "dir"}}
  IN UNION {level[d] : d \in 1..MaxDepth}

(* What the enumeration finds at a path *)
Enumerated(img, path) ==
  LET at == {v \in Walk(img, img[0][2].root) : v.path = path}
  IN IF at = {} THEN NotFound ELSE CHOOSE v \in at : TRUE

(* The tree as its user sees it *)
TreeOf(img, root) ==
  {[path |-> v.path, kind |-> v.type,
    content |-> IF v.type = "file" THEN ReadContent(img, DinodeAt(img, root, v.ino))
                                   ELSE <<>>] : v \in Walk(img, root)}

-----------------------------------------------------------------------------
(* Everything a dinode points at, one record per pointer *)
DataLinks(img, i, di) ==
  {[kind |-> "data", ino |-> i, slot |-> k, ptr |-> PtrAt(img, di, k)] :
     k \in 0..(di.count - 1)}
IndirectLinks(img, i, di) ==
  LET leaves == IF di.count > MaxSingle
                  THEN 0..((di.count - MaxSingle - 1) \div NPtr) ELSE {}
      top(n, p) == [kind |-> "ind", ino |-> i, slot |-> n, ptr |-> p]
  IN (IF di.count > NDirect THEN {top(-1, di.ind)} ELSE {})
     \cup (IF leaves # {} THEN {top(-2, di.ind2)} ELSE {})
     \cup {top(n, EntriesOf(img[di.ind2.no])[n + 1]) : n \in leaves}

Links(img, root) ==
  LET own(i) == LET di == DinodeAt(img, root, i)
                IN DataLinks(img, i, di) \cup IndirectLinks(img, i, di)
  IN (UNION {own(i) : i \in Inos})
     \cup {[kind |-> "dinodes", ino |-> 0, slot |-> s, ptr |-> root[s]] :
             s \in DinodeBlocks}

LinkedBlocks(img, root) == {l.ptr.no : l \in Links(img, root)}

(* A digest matches the block it is stored for *)
Verifies(img, ptr) == ptr.dig = Digest(ptr.no, img[ptr.no])
=============================================================================
