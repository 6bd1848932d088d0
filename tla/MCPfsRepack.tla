---------------------------- MODULE MCPfsRepack ----------------------------
(***************************************************************************)
(* Small images, modification directories and manifests for PfsRepack.     *)
(* Blocks of five units, two direct pointers and an indirect block of two, *)
(* ten inodes in two dinode blocks:                                        *)
(*                                                                         *)
(*   block 0      header         inode 1..3  blk_bitmap, BAT, ino_bitmap   *)
(*   blocks 1, 2  dinodes        inode 4     uroot                         *)
(*   blocks 3..5  metadata       inode 5     a                             *)
(*   block 6      uroot          inode 6     d                             *)
(*   block 8      d              inode 7     d/x                           *)
(*   blocks 10, 11   kept back by one of bitmap and BAT only               *)
(***************************************************************************)
EXTENDS PfsSound

Fill(v, n) == [j \in 1..n |-> <<"b", v>>]
File(v, n) == [kind |-> "file", content |-> Fill(v, n)]
Dir == [kind |-> "dir", content |-> <<>>]

A == <<"a">>
B == <<"b">>
D == <<"d">>
DX == <<"d", "x">>
E == <<"e">>
EY == <<"e", "y">>

-----------------------------------------------------------------------------
(* One inode of an image to be made: its dinode fields, its content, its   *)
(* data blocks, its indirect block, and for a file beyond single-level     *)
(* indirection the double-indirect block and its one leaf.                 *)
Node(mode, comp, link, content, data, ind) ==
  [mode |-> mode, comp |-> comp, link |-> link, content |-> content,
   data |-> data, ind |-> ind, deep |-> <<>>]
Deep(node, ind2, leaf) == [node EXCEPT !.deep = <<ind2, leaf>>]

Absent == Node("none", FALSE, 0, <<>>, <<>>, 0)
Dots(i, parent) == <<Dirent(i, "this", "."), Dirent(parent, "parent", "..")>>
Pad(units, n) == units \o [j \in 1..(n - Len(units)) |-> Zero]

(* The files of layout L written to blocks, digests computed bottom up.    *)
(* Blocks of `unmapped` have their bitmap bit clear, those of `mapped` and *)
(* `owned` belong to the backup generation.                                *)
Format(L, unmapped, mapped, owned) ==
  LET inds(i) == ({L[i].ind} \ {0}) \cup ToSet(L[i].deep)
      used == {0, 1, 2} \cup UNION {ToSet(L[i].data) \cup inds(i) : i \in Inos}
      holder(b) == {i \in Inos : b \in ToSet(L[i].data)}
      indHolder(b) == {i \in Inos : b \in inds(i)}
      slot(i, b) == (CHOOSE k \in 1..Len(L[i].data) : L[i].data[k] = b) - 1
      dataOwner(i, k) == IF k < NDirect THEN i
                         ELSE IndFlag + (IF k < MaxSingle THEN L[i].ind ELSE L[i].deep[2])
      bat == [b \in Blocks |->
                IF b \in owned THEN NInodes - 1
                ELSE IF indHolder(b) # {} THEN CHOOSE i \in indHolder(b) : TRUE
                ELSE IF holder(b) # {} THEN LET i == CHOOSE i \in holder(b) : TRUE
                                            IN dataOwner(i, slot(i, b))
                ELSE NoOwner]
      bitmap == [b \in Blocks |-> b \in (used \cup mapped) \ unmapped]
      inob == [i \in Inos |-> i = 0 \/ L[i].mode # "none"]
      content(i) == CASE i = BitmapIno -> <<<<"m", bitmap>>>>
                      [] i = BatIno -> <<<<"m", bat>>>>
                      [] i = InoBitmapIno -> <<<<"m", inob>>>>
                      [] OTHER -> L[i].content
      ptr(i, k) == IF k >= Len(L[i].data) THEN NoPtr
                   ELSE [no |-> L[i].data[k + 1],
                         dig |-> Digest(L[i].data[k + 1], Chunk(content(i), k))]
      ptrs(i, from, n) == [e \in 1..n |-> ptr(i, from + e - 1)]
      to(b, c) == [no |-> b, dig |-> Digest(b, c)]
      single(i) == Indirect(ptrs(i, NDirect, NPtr))
      leaf(i) == Indirect(ptrs(i, MaxSingle, NPtr))
      double(i) == Indirect([NoEntries EXCEPT ![1] = to(L[i].deep[2], leaf(i))])
      dinode(i) ==
        [mode |-> L[i].mode, comp |-> L[i].comp, link |-> L[i].link,
         size |-> Len(content(i)), count |-> Len(L[i].data),
         direct |-> ptrs(i, 0, NDirect),
         ind |-> IF L[i].ind = 0 THEN NoPtr ELSE to(L[i].ind, single(i)),
         ind2 |-> IF L[i].deep = <<>> THEN NoPtr ELSE to(L[i].deep[1], double(i))]
      table(s) == Dinodes([n \in 0..(IPB - 1) |->
                     IF s * IPB + n \in Inos THEN dinode(s * IPB + n) ELSE ZeroDinode])
      root == [s \in DinodeBlocks |-> to(s + 1, table(s))]
      hash == HeaderHash(root)
      block(b) ==
        IF b = 0 THEN Header(root, hash, [sig |-> hash, auth |-> hash, authMagic |-> TRUE])
        ELSE IF b \in {1, 2} THEN table(b - 1)
        ELSE IF indHolder(b) # {}
          THEN LET i == CHOOSE i \in indHolder(b) : TRUE
               IN IF b = L[i].ind THEN single(i)
                  ELSE IF b = L[i].deep[1] THEN double(i) ELSE leaf(i)
        ELSE IF holder(b) # {}
          THEN LET i == CHOOSE i \in holder(b) : TRUE
               IN Chunk(content(i), slot(i, b))
        ELSE Chunk(<<<<"old", b>>>>, 0)
  IN [b \in Blocks |-> block(b)]

Layout(a, x) ==
  [i \in Inos |->
     CASE i = 1 -> Node("reg", FALSE, 1, <<>>, <<3>>, 0)
       [] i = 2 -> Node("reg", FALSE, 1, <<>>, <<4>>, 0)
       [] i = 3 -> Node("reg", FALSE, 1, <<>>, <<5>>, 0)
       [] i = 4 -> Node("dir", FALSE, 3,
                        Pad(Dots(4, 4) \o <<Dirent(5, "file", "a"), Dirent(6, "dir", "d")>>, 5),
                        <<6>>, 0)
       [] i = 5 -> a
       [] i = 6 -> Node("dir", FALSE, 2,
                        Pad(Dots(6, 4) \o <<Dirent(7, "file", "x")>>, 5), <<8>>, 0)
       [] i = 7 -> x
       [] OTHER -> Absent]

X1 == Node("reg", FALSE, 1, Fill("x", 4), <<9>>, 0)
(* a in one block, a behind an indirect block, a compressed *)
SmallImage == Format(Layout(Node("reg", FALSE, 1, Fill("a", 3), <<7>>, 0), X1),
                     {8}, {10}, {11})
IndImage == Format(Layout(Node("reg", FALSE, 1, Fill("a", 12), <<7, 13, 12>>, 14), X1),
                   {7, 14}, {10}, {11})
CompImage == Format(Layout(Node("reg", TRUE, 1, Fill("a", 8), <<7, 12>>, 0), X1),
                    {}, {10}, {11})

(* a beyond single-level indirection *)
BigImage == Format(Layout(Deep(Node("reg", FALSE, 1, Fill("a", 22), <<7, 12, 13, 14, 15>>, 16),
                               17, 18), X1),
                   {}, {10}, {11})

MCImages == {SmallImage, IndImage, CompImage, BigImage}
OneImage == {SmallImage}

-----------------------------------------------------------------------------
None == <<>>
Maybe(p, es) == {None} \cup {[q \in {p} |-> e] : e \in es}
Join(f, g) == [q \in DOMAIN f \cup DOMAIN g |-> IF q \in DOMAIN f THEN f[q] ELSE g[q]]

NewDir(sub) == [q \in {E} \cup DOMAIN sub |-> IF q = E THEN Dir ELSE sub[q]]

WideHosts ==
  {Join(f, Join(g, n)) :
     f \in Maybe(A, {File("A", 3), File("a", 8), File("A", 12), File("A", 0)}),
     g \in Maybe(DX, {File("X", 9)}),
     n \in {None, [q \in {B} |-> File("B", 4)], NewDir(None),
            NewDir([q \in {EY} |-> File("Y", 8)])}}
  \cup {[q \in {A} |-> File("A", 21)], [q \in {DX} |-> File("x", 4)],
        [q \in {B, D} |-> IF q = D THEN Dir ELSE File("B", 14)]}
WideManifests == {<<>>, <<A>>, <<DX, B>>, <<EY, D, A>>}

NarrowHosts ==
  {Join(f, n) :
     f \in Maybe(A, {File("A", 2), File("A", 12)}),
     n \in {None, [q \in {B} |-> File("B", 7)], NewDir([q \in {EY} |-> File("Y", 4)])}}
(* The longest has a line more than the additions remember *)
NarrowManifests == {<<>>, <<A>>, <<D, A>>}

AllKeys == {{"sig", "auth"}}
SomeKeys == {{"sig", "auth"}, {"sig"}, {"auth"}}

-----------------------------------------------------------------------------
(* The inputs of the runs that refute a claim of the code's comments *)
EmptyFileHost == {[q \in {B} |-> File("B", 0)]}
UnderFileHost == {[q \in {A, <<"a", "y">>} |-> IF q = A THEN Dir ELSE File("Y", 2)]}
NoManifest == {<<>>}
=============================================================================
