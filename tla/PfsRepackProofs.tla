-------------------------- MODULE PfsRepackProofs --------------------------
(***************************************************************************)
(* What a repack run does to a sound image, for all images, modification   *)
(* directories, manifests, keys and sizes.                                 *)
(*                                                                         *)
(* First, a run that changes nothing delivers the source image; that is    *)
(* about the one flag, ctx->changed, by which pfs_repack_handler decides   *)
(* whether the output is touched at all after the modifications.           *)
(*                                                                         *)
(* Then the inductive invariant RunInv of PfsSound, from the bottom up:    *)
(* sizes and positions; dinodes in their tables; the pointers of an inode; *)
(* the loops that write blocks, reserve blocks and free blocks; what       *)
(* StoreContent leaves; what a change of one inode does to a sound image   *)
(* (Moved, Touched); the four writers; the directory and inode operations; *)
(* the handlers of a run.  The theorems are at the end.                    *)
(***************************************************************************)
EXTENDS PfsSound, Induction, FiniteSetTheorems

(* As long as no writer has reported a change the working context is still *)
(* the copy the run began with, and the two phases that write whatever the *)
(* modifications did, flush and sign, are reached only with a change.      *)
VInv ==
  /\ changed \in BOOLEAN
  /\ phase # "failed" /\ ~changed => ctx = Load(src)
  /\ phase \in {"flush", "sign"} => changed

-----------------------------------------------------------------------------
(* A handler that returns leaves the flag set or the run given up *)
LEMMA Returned ==
  ASSUME VInv, NEW r, NEW next, NEW rest, Return(r, next, rest)
  PROVE  /\ changed' \in BOOLEAN
         /\ phase' = "failed" \/ changed' = TRUE
  BY DEF VInv, Return

LEMMA ReturnedInv ==
  ASSUME VInv, NEW r, NEW next, NEW rest, Return(r, next, rest)
  PROVE  VInv'
<1>1. changed' \in BOOLEAN /\ (phase' = "failed" \/ changed' = TRUE)
  BY Returned
<1>2. CASE phase' = "failed"
  BY <1>1, <1>2 DEF VInv
<1>3. CASE changed' = TRUE
  BY <1>1, <1>3 DEF VInv
<1>. QED
  BY <1>1, <1>2, <1>3

LEMMA VerbatimInit == Init => VInv
  BY DEF Init, VInv

LEMMA VerbatimStep == VInv /\ [Next]_vars => VInv'
<1>. SUFFICES ASSUME VInv, [Next]_vars PROVE VInv'
  OBVIOUS
<1>1. CASE \E h \in HostDirs, m \in Manifests, k \in KeySets : StartRun(h, m, k)
  BY <1>1 DEF StartRun, VInv
<1>2. ASSUME NEW p \in todo, GrowMod(p) \/ ShrinkMod(p) \/ PatchMod(p)
      PROVE  VInv'
  BY <1>2, ReturnedInv DEF GrowMod, ShrinkMod, PatchMod
<1>3. ASSUME NEW p \in todo, KeepMod(p) PROVE VInv'
  BY <1>3 DEF KeepMod, ModStep, VInv
<1>4. CASE EndMods
  BY <1>4 DEF EndMods, VInv
<1>5. CASE RemoveLine
  BY <1>5, ReturnedInv DEF RemoveLine
<1>6. CASE RemoveAbsent
  BY <1>6 DEF RemoveAbsent, VInv
<1>7. CASE EndRemoves
  BY <1>7 DEF EndRemoves, VInv
<1>8. ASSUME NEW p \in todo, AddNewFile(p) \/ AddNewDir(p) PROVE VInv'
  BY <1>8, ReturnedInv DEF AddNewFile, AddNewDir
<1>9. ASSUME NEW p \in todo, SkipOrphan(p) PROVE VInv'
  BY <1>9 DEF SkipOrphan, AddStep, VInv
<1>10. CASE EndAdds
  BY <1>10 DEF EndAdds, VInv
<1>11. CASE Flush
  BY <1>11, ReturnedInv DEF Flush
<1>12. CASE SignHeader
  BY <1>12 DEF SignHeader, VInv
<1>13. CASE UNCHANGED vars
  BY <1>13 DEF vars, VInv
<1>. QED
  BY <1>1, <1>2, <1>3, <1>4, <1>5, <1>6, <1>7, <1>8, <1>9, <1>10, <1>11,
     <1>12, <1>13 DEF Next, Finished

(* main.c:2432: a run that ends with nothing changed has written a         *)
(* verbatim copy of its source, whatever the image, the modification       *)
(* directory, the manifest and the keys, and however many runs came        *)
(* before.                                                                 *)
THEOREM Verbatim == Spec => []VerbatimIfUnchanged
<1>1. VInv => VerbatimIfUnchanged
  BY DEF VInv, VerbatimIfUnchanged, Load
<1>. QED
  BY VerbatimInit, VerbatimStep, <1>1, PTL DEF Spec

-----------------------------------------------------------------------------
(* Sizes and positions *)

LEMMA Sizes ==
  /\ NBlocks \in Nat \ {0} /\ BBS \in Nat \ {0} /\ NDirect \in Nat \ {0}
  /\ NPtr \in Nat \ {0} /\ NInodes \in Nat \ {0} /\ IPB \in Nat \ {0}
  /\ NSuper \in Nat \ {0} /\ MaxDepth \in Nat \ {0}
  /\ BitmapIno \in 1 .. NInodes - 1 /\ BatIno \in 1 .. NInodes - 1
  /\ InoBitmapIno \in 1 .. NInodes - 1 /\ URootIno \in 1 .. NInodes - 1
  /\ IndFlag \in Nat /\ MaxSingle \in Nat /\ MaxSingle > NDirect
BY SizesPositive, IndFlagAboveInodes DEF MaxSingle

(* Quotients follow the order of what is divided.                          *)
LEMMA QuotientGrows ==
  ASSUME NEW x \in Nat, NEW y \in Nat, x <= y, NEW a \in Nat \ {0}
  PROVE  x \div a <= y \div a
<1> DEFINE p == x \div a
           q == y \div a
<1>1. p \in Nat /\ q \in Nat /\ p * a <= x /\ y < q * a + a
  <2>1. p \in Nat /\ x % a \in 0 .. a - 1 /\ x = p * a + (x % a)
    BY Split
  <2>2. q \in Nat /\ y % a \in 0 .. a - 1 /\ y = q * a + (y % a)
    BY Split
  <2> HIDE DEF p, q
  <2>3. p * a \in Nat /\ q * a \in Nat
    BY <2>1, <2>2
  <2> QED
    BY <2>1, <2>2, <2>3
<1> HIDE DEF p, q
<1>2. ASSUME q < p PROVE FALSE
  <2>1. q * a + a <= p * a /\ q * a \in Nat /\ p * a \in Nat
    BY <1>1, <1>2, Product
  <2> QED
    BY <1>1, <2>1
<1>3. p <= q
  BY <1>1, <1>2
<1> QED
  BY <1>3 DEF p, q

LEMMA BlocksOf ==
  ASSUME NEW n \in Nat
  PROVE  /\ CeilDiv(n, BBS) \in Nat
         /\ CeilDiv(n, BBS) = 0 <=> n = 0
         /\ \A j \in 1 .. n : (j - 1) \div BBS \in 0 .. CeilDiv(n, BBS) - 1
         /\ \A k \in 0 .. CeilDiv(n, BBS) - 1 : k * BBS \in Nat /\ k * BBS < n
<1> DEFINE x == n + BBS - 1
           q == x \div BBS
<1>1. BBS \in Nat \ {0} /\ x \in Nat
  BY Sizes
<1>2. q \in Nat /\ x % BBS \in 0 .. BBS - 1 /\ x = q * BBS + (x % BBS)
  <2> HIDE DEF x
  <2> QED
    BY <1>1, Split
<1>3. CeilDiv(n, BBS) = q
  BY DEF CeilDiv
<1> HIDE DEF q
<1>4. q * BBS \in Nat /\ n <= q * BBS /\ q * BBS < n + BBS
  <2>1. q * BBS \in Nat
    BY <1>1, <1>2
  <2> QED
    BY <1>1, <1>2, <2>1
<1>5. q = 0 <=> n = 0
  <2>1. q = 0 => q * BBS = 0
    BY <1>1
  <2>2. ASSUME q # 0 PROVE BBS <= q * BBS
    <3>1. 0 * BBS + BBS <= q * BBS
      BY <1>1, <1>2, <2>2, Product
    <3> QED
      BY <1>1, <3>1
  <2>3. q = 0 => n = 0
    BY <1>4, <2>1
  <2>4. n = 0 => q = 0
    BY <1>1, <1>4, <2>2
  <2> QED
    BY <2>3, <2>4
<1>6. ASSUME NEW j \in 1 .. n PROVE (j - 1) \div BBS \in 0 .. q - 1
  <2> DEFINE k == (j - 1) \div BBS
  <2>1. k \in Nat /\ (j - 1) % BBS \in 0 .. BBS - 1 /\ j - 1 = k * BBS + ((j - 1) % BBS)
    <3>1. j - 1 \in Nat
      OBVIOUS
    <3> QED
      BY <1>1, <3>1, Split
  <2> HIDE DEF k
  <2>2. ASSUME q <= k PROVE FALSE
    <3>1. k * BBS \in Nat
      BY <1>1, <2>1
    <3>2. q * BBS <= k * BBS
      <4>1. q = k \/ q < k
        BY <1>2, <2>1, <2>2
      <4>2. q < k => q * BBS + BBS <= k * BBS
        BY <1>1, <1>2, <2>1, Product
      <4> QED
        BY <1>1, <1>4, <3>1, <4>1, <4>2
    <3> QED
      BY <1>1, <1>4, <2>1, <3>1, <3>2
  <2>3. k \in 0 .. q - 1
    BY <1>2, <2>1, <2>2
  <2> QED
    BY <2>3 DEF k
<1>7. ASSUME NEW k \in 0 .. q - 1 PROVE k * BBS \in Nat /\ k * BBS < n
  <2>1. k * BBS + BBS <= q * BBS /\ k * BBS \in Nat
    BY <1>1, <1>2, Product
  <2> QED
    BY <1>1, <1>4, <2>1
<1> QED
  BY <1>2, <1>3, <1>5, <1>6, <1>7

LEMMA BlocksGrow ==
  ASSUME NEW m \in Nat, NEW n \in Nat, m <= n
  PROVE  CeilDiv(m, BBS) <= CeilDiv(n, BBS)
<1>1. m + BBS - 1 \in Nat /\ n + BBS - 1 \in Nat /\ m + BBS - 1 <= n + BBS - 1
      /\ BBS \in Nat \ {0}
  BY Sizes
<1> QED
  BY <1>1, QuotientGrows DEF CeilDiv

(* An inode has its place in one of the tables of dinodes, of its own.     *)
LEMMA InodePlace ==
  ASSUME NEW i \in Inos
  PROVE  i \div IPB \in DinodeBlocks /\ i % IPB \in 0 .. IPB - 1
<1>1. i \in Nat /\ NInodes - 1 \in Nat /\ i <= NInodes - 1 /\ IPB \in Nat \ {0}
  BY Sizes DEF Inos
<1>2. i \div IPB \in Nat /\ i % IPB \in 0 .. IPB - 1
  BY <1>1, Split
<1>3. i \div IPB <= (NInodes - 1) \div IPB /\ (NInodes - 1) \div IPB \in Nat
  BY <1>1, QuotientGrows, Split
<1> QED
  BY <1>2, <1>3 DEF DinodeBlocks

LEMMA OwnPlace ==
  ASSUME NEW i \in Inos, NEW j \in Inos, i \div IPB = j \div IPB, i % IPB = j % IPB
  PROVE  i = j
<1>1. i \in Nat /\ j \in Nat /\ IPB \in Nat \ {0}
  BY Sizes DEF Inos
<1>2. i = (i \div IPB) * IPB + (i % IPB)
  BY <1>1, Split
<1>3. j = (j \div IPB) * IPB + (j % IPB)
  BY <1>1, Split
<1> QED
  BY <1>2, <1>3

(* The whole of a sequence cut at its length *)
LEMMA WholeCut ==
  ASSUME NEW n \in Nat, NEW f, f = [k \in 1 .. n |-> f[k]]
  PROVE  SubSeq(f, 1, n) = f /\ Len(f) = n /\ f \in Seq(ToSet(f))
<1>1. f \in [1 .. n -> ToSet(f)]
  <2>1. DOMAIN f = 1 .. n
    OBVIOUS
  <2> QED
    BY <2>1 DEF ToSet
<1>2. f \in Seq(ToSet(f)) /\ Len(f) = n
  BY <1>1
<1>3. SubSeq(f, 1, n) = [k \in 1 .. n |-> f[k]]
  BY <1>2
<1> QED
  BY <1>2, <1>3

-----------------------------------------------------------------------------
(* Tables of dinodes *)

(* The super root points at one block for each table.                      *)
TablesPlaced(c) ==
  /\ \A s \in DinodeBlocks : c.root[s].no \in Blocks \ {0}
  /\ \A s, t \in DinodeBlocks : c.root[s].no = c.root[t].no => s = t

(* The block of the table with inode i *)
TableBlock(c, i) == c.root[i \div IPB].no

LEMMA TableSet ==
  ASSUME NEW x, IsTable(x), NEW n \in 0 .. IPB - 1, NEW d, IsDinode(d)
  PROVE  LET y == Dinodes([DinodesOf(x) EXCEPT ![n] = d])
         IN /\ IsTable(y) /\ DinodesOf(x) = x[2] /\ DinodesOf(y)[n] = d
            /\ \A m \in 0 .. IPB - 1 : m # n => DinodesOf(y)[m] = DinodesOf(x)[m]
<1> DEFINE t == [DinodesOf(x) EXCEPT ![n] = d]
           y == Dinodes(t)
<1>1. DinodesOf(x) = x[2] /\ x[2] = [m \in 0 .. IPB - 1 |-> x[2][m]]
  BY DEF IsTable, Dinodes, DinodesOf
<1>2. /\ t = [m \in 0 .. IPB - 1 |-> t[m]] /\ t[n] = d
      /\ \A m \in 0 .. IPB - 1 : m # n => t[m] = x[2][m]
  BY <1>1
<1> HIDE DEF t
<1>3. y[2] = t /\ DinodesOf(y) = t
  BY DEF Dinodes, DinodesOf
<1>4. \A m \in 0 .. IPB - 1 : IsDinode(t[m])
  BY <1>2 DEF IsTable
<1>5. IsTable(y)
  BY <1>2, <1>3, <1>4 DEF IsTable
<1> QED
  BY <1>1, <1>2, <1>3, <1>5 DEF t

LEMMA DinodeShape ==
  ASSUME NEW c, Shape(c), NEW i \in Inos
  PROVE  /\ IsDinode(Dinode(c, i)) /\ IsTable(c.out[TableBlock(c, i)])
         /\ Dinode(c, i) = DinodesOf(c.out[TableBlock(c, i)])[i % IPB]
         /\ DinodesOf(c.out[TableBlock(c, i)]) = c.out[TableBlock(c, i)][2]
<1>1. i \div IPB \in DinodeBlocks /\ i % IPB \in 0 .. IPB - 1
  BY InodePlace
<1>2. IsTable(c.out[TableBlock(c, i)])
  BY <1>1 DEF Shape, TableBlock
<1>3. DinodesOf(c.out[TableBlock(c, i)]) = c.out[TableBlock(c, i)][2]
  BY <1>2 DEF IsTable, Dinodes, DinodesOf
<1>4. Dinode(c, i) = DinodesOf(c.out[TableBlock(c, i)])[i % IPB]
  BY DEF Dinode, DinodeAt, TableBlock
<1>5. IsDinode(c.out[TableBlock(c, i)][2][i % IPB])
  BY <1>1, <1>2 DEF IsTable
<1> QED
  BY <1>2, <1>3, <1>4, <1>5

(* Where dinodes are read from does not depend on more than the blocks of  *)
(* the tables.                                                             *)
LEMMA DinodeFrom ==
  ASSUME NEW c, NEW d, NEW i \in Inos, d.root[i \div IPB].no = c.root[i \div IPB].no,
         d.out[TableBlock(c, i)] = c.out[TableBlock(c, i)]
  PROVE  Dinode(d, i) = Dinode(c, i)
BY DEF Dinode, DinodeAt, TableBlock

(* What writing a dinode does *)
Signed(c, d, i, di) ==
  LET b == TableBlock(c, i)
  IN /\ Shape(d)
     /\ d.bitmap = c.bitmap /\ d.bat = c.bat /\ d.inob = c.inob /\ d.dirty = c.dirty
     /\ \A a \in Blocks : a # b => d.out[a] = c.out[a]
     /\ \A s \in DinodeBlocks : d.root[s].no = c.root[s].no
     /\ \A s \in DinodeBlocks : s # i \div IPB => d.root[s] = c.root[s]
     /\ d.root[i \div IPB] = [no |-> b, dig |-> Digest(b, d.out[b])]
     /\ Dinode(d, i) = di
     /\ \A j \in Inos : j # i => Dinode(d, j) = Dinode(c, j)

LEMMA SignDinodeResult ==
  ASSUME NEW c, Shape(c), TablesPlaced(c), NEW i \in Inos, NEW di, IsDinode(di)
  PROVE  LET r == SignDinode(c, i, di)
         IN /\ r.ok \in BOOLEAN /\ (r.ok <=> i \div IPB < NSuper)
            /\ r.ok => Signed(c, r.c, i, di)
            /\ \A a \in Blocks : a # TableBlock(c, i) => r.c.out[a] = c.out[a]
<1> DEFINE s == i \div IPB
           b == c.root[s].no
           x == Dinodes([DinodesOf(c.out[b]) EXCEPT ![i % IPB] = di])
           w == [c EXCEPT !.out[b] = x]
           d == [w EXCEPT !.root[s].dig = Digest(b, x)]
<1>1. s \in DinodeBlocks /\ i % IPB \in 0 .. IPB - 1
  BY InodePlace
<1>2. b \in Blocks /\ b = TableBlock(c, i)
  BY <1>1 DEF TablesPlaced, TableBlock
<1>3. IsTable(c.out[b])
  BY <1>1 DEF Shape
<1>4. /\ IsTable(x) /\ DinodesOf(x)[i % IPB] = di
      /\ \A m \in 0 .. IPB - 1 : m # i % IPB => DinodesOf(x)[m] = DinodesOf(c.out[b])[m]
  <2> HIDE DEF b
  <2>1. i % IPB \in 0 .. IPB - 1
    BY <1>1
  <2> DEFINE n == i % IPB
  <2> HIDE DEF n
  <2>2. n \in 0 .. IPB - 1
    BY <2>1 DEF n
  <2>3. LET y == Dinodes([DinodesOf(c.out[b]) EXCEPT ![n] = di])
        IN /\ IsTable(y) /\ DinodesOf(y)[n] = di
           /\ \A m \in 0 .. IPB - 1 : m # n => DinodesOf(y)[m] = DinodesOf(c.out[b])[m]
    BY <1>3, <2>2, TableSet
  <2> QED
    BY <2>3 DEF n
<1> HIDE DEF x
<1>5. /\ w = [out |-> w.out, root |-> w.root, bitmap |-> w.bitmap, bat |-> w.bat,
              inob |-> w.inob, dirty |-> w.dirty]
      /\ w.root = c.root /\ w.bitmap = c.bitmap /\ w.bat = c.bat /\ w.inob = c.inob
      /\ w.dirty = c.dirty
      /\ w.out = [c.out EXCEPT ![b] = x]
  <2>1. c = [out |-> c.out, root |-> c.root, bitmap |-> c.bitmap, bat |-> c.bat,
             inob |-> c.inob, dirty |-> c.dirty]
    BY DEF Shape
  <2> HIDE DEF b
  <2> QED
    BY <2>1
<1>6. /\ w.out = [a \in Blocks |-> w.out[a]] /\ w.out[b] = x
      /\ \A a \in Blocks : a # b => w.out[a] = c.out[a]
  <2>1. c.out = [a \in Blocks |-> c.out[a]]
    BY DEF Shape
  <2> HIDE DEF w
  <2> QED
    BY <1>2, <1>5, <2>1
<1> HIDE DEF w
<1>7. /\ d = [out |-> d.out, root |-> d.root, bitmap |-> d.bitmap, bat |-> d.bat,
              inob |-> d.inob, dirty |-> d.dirty]
      /\ d.out = w.out /\ d.bitmap = c.bitmap /\ d.bat = c.bat /\ d.inob = c.inob
      /\ d.dirty = c.dirty
      /\ d.root = [c.root EXCEPT ![s].dig = Digest(b, x)]
  BY <1>5
<1>8. /\ d.root = [t \in DinodeBlocks |-> [no |-> d.root[t].no, dig |-> d.root[t].dig]]
      /\ \A t \in DinodeBlocks : d.root[t].no = c.root[t].no
      /\ \A t \in DinodeBlocks : t # s => d.root[t] = c.root[t]
      /\ d.root[s] = [no |-> b, dig |-> Digest(b, x)]
  <2>1. c.root = [t \in DinodeBlocks |-> [no |-> c.root[t].no, dig |-> c.root[t].dig]]
    BY DEF Shape
  <2> HIDE DEF d
  <2>2. d.root = [t \in DinodeBlocks |->
                    IF t = s THEN [c.root[s] EXCEPT !.dig = Digest(b, x)] ELSE c.root[t]]
    BY <1>7, <2>1
  <2>3. c.root[s] = [no |-> c.root[s].no, dig |-> c.root[s].dig]
    BY <1>1, <2>1
  <2>4. [c.root[s] EXCEPT !.dig = Digest(b, x)] = [no |-> b, dig |-> Digest(b, x)]
    BY <2>3
  <2>5. \A t \in DinodeBlocks : c.root[t] = [no |-> c.root[t].no, dig |-> c.root[t].dig]
    BY <2>1
  <2> HIDE DEF b
  <2>6. d.root[s] = [no |-> b, dig |-> Digest(b, x)]
    BY <1>1, <2>2, <2>4
  <2>7. \A t \in DinodeBlocks : t # s => d.root[t] = c.root[t]
    BY <2>2
  <2>8. \A t \in DinodeBlocks : d.root[t].no = c.root[t].no
    BY <2>6, <2>7 DEF b
  <2>9. \A t \in DinodeBlocks : d.root[t] = [no |-> d.root[t].no, dig |-> d.root[t].dig]
    BY <2>5, <2>6, <2>7
  <2>10. DOMAIN d.root = DinodeBlocks
    BY <2>2
  <2>11. d.root = [t \in DinodeBlocks |-> d.root[t]]
    BY <2>2
  <2> QED
    BY <2>6, <2>7, <2>8, <2>9, <2>11
<1> HIDE DEF d
<1>9. \A t \in DinodeBlocks : IsTable(d.out[d.root[t].no])
  <2>1. ASSUME NEW t \in DinodeBlocks PROVE IsTable(d.out[d.root[t].no])
    <3>1. CASE t = s
      BY <1>4, <1>6, <1>7, <1>8, <3>1
    <3>2. CASE t # s
      <4>1. c.root[t].no # b /\ c.root[t].no \in Blocks
        BY <1>1, <3>2 DEF TablesPlaced
      <4>2. d.out[d.root[t].no] = c.out[c.root[t].no]
        BY <1>6, <1>7, <1>8, <4>1
      <4> QED
        BY <4>2 DEF Shape
    <3> QED
      BY <3>1, <3>2
  <2> QED
    BY <2>1
<1>10. Shape(d)
  BY <1>6, <1>7, <1>8, <1>9 DEF Shape
<1>11. Dinode(d, i) = di
  <2>1. d.out[d.root[s].no] = x
    BY <1>6, <1>7, <1>8
  <2> QED
    BY <1>4, <2>1 DEF Dinode, DinodeAt
<1>12. ASSUME NEW j \in Inos, j # i PROVE Dinode(d, j) = Dinode(c, j)
  <2>1. j \div IPB \in DinodeBlocks /\ j % IPB \in 0 .. IPB - 1
    BY InodePlace
  <2>2. CASE j \div IPB = s
    <3>1. j % IPB # i % IPB
      BY <1>12, <2>2, OwnPlace
    <3>2. DinodesOf(x)[j % IPB] = DinodesOf(c.out[b])[j % IPB]
      BY <1>4, <2>1, <3>1
    <3>3. d.out[d.root[j \div IPB].no] = x /\ c.root[j \div IPB].no = b
      BY <1>6, <1>7, <1>8, <2>2
    <3> HIDE DEF b
    <3> QED
      BY <3>2, <3>3 DEF Dinode, DinodeAt
  <2>3. CASE j \div IPB # s
    <3>1. TableBlock(c, j) # b /\ TableBlock(c, j) \in Blocks
      BY <1>1, <2>1, <2>3 DEF TablesPlaced, TableBlock
    <3>2. d.out[TableBlock(c, j)] = c.out[TableBlock(c, j)]
      BY <1>6, <1>7, <3>1
    <3>3. d.root[j \div IPB].no = c.root[j \div IPB].no
      BY <1>8, <2>1
    <3> QED
      BY <3>2, <3>3, DinodeFrom
  <2> QED
    BY <2>2, <2>3
<1>13. Signed(c, d, i, di)
  <2>1. d.out[b] = x /\ \A a \in Blocks : a # b => d.out[a] = c.out[a]
    BY <1>6, <1>7
  <2> HIDE DEF b, s
  <2> QED
    BY <1>2, <1>7, <1>8, <1>10, <1>11, <1>12, <2>1 DEF Signed, s
<1>14. SignDinode(c, i, di) = IF s < NSuper THEN Ok(d) ELSE Failed(w)
  BY DEF SignDinode, d, w, x
<1>15. \A a \in Blocks : a # b => d.out[a] = c.out[a] /\ w.out[a] = c.out[a]
  BY <1>6, <1>7
<1>16. SignDinode(c, i, di).ok \in BOOLEAN /\ (SignDinode(c, i, di).ok <=> s < NSuper)
       /\ (s < NSuper => SignDinode(c, i, di).c = d)
       /\ SignDinode(c, i, di).c \in {d, w}
  <2> HIDE DEF s
  <2>1. CASE s < NSuper
    BY <1>14, <2>1 DEF Ok
  <2>2. CASE ~(s < NSuper)
    BY <1>14, <2>2 DEF Failed
  <2> QED
    BY <2>1, <2>2
<1> HIDE DEF b
<1> QED
  BY <1>2, <1>13, <1>15, <1>16

-----------------------------------------------------------------------------
(* The pointers of an inode *)

Pointer(c, i, k) == PtrAt(c.out, Dinode(c, i), k)
DataLink(c, i, k) == [kind |-> "data", ino |-> i, slot |-> k, ptr |-> Pointer(c, i, k)]
IndLink(i, n, p) == [kind |-> "ind", ino |-> i, slot |-> n, ptr |-> p]
Leaves(c, i) ==
  IF Dinode(c, i).count > MaxSingle
    THEN 0 .. ((Dinode(c, i).count - MaxSingle - 1) \div NPtr) ELSE {}
Leaf(c, i, n) == EntriesOf(c.out[Dinode(c, i).ind2.no])[n + 1]

LEMMA OwnIs ==
  ASSUME NEW c, NEW i, Dinode(c, i).count \in Nat
  PROVE  \A l : l \in Own(c, i) <=>
           \/ \E k \in 0 .. Dinode(c, i).count - 1 : l = DataLink(c, i, k)
           \/ Dinode(c, i).count > NDirect /\ l = IndLink(i, -1, Dinode(c, i).ind)
           \/ Dinode(c, i).count > MaxSingle /\ l = IndLink(i, -2, Dinode(c, i).ind2)
           \/ \E n \in Leaves(c, i) : l = IndLink(i, n, Leaf(c, i, n))
<1> DEFINE di == Dinode(c, i)
           data == DataLinks(c.out, i, di)
           ind == IndirectLinks(c.out, i, di)
<1>1. \A l : l \in data <=> \E k \in 0 .. di.count - 1 : l = DataLink(c, i, k)
  BY DEF DataLinks, DataLink, Pointer
<1>2. Leaves(c, i) # {} <=> di.count > MaxSingle
  <2>1. CASE di.count > MaxSingle
    <3>1. di.count - MaxSingle - 1 \in Nat /\ NPtr \in Nat \ {0}
      BY <2>1, Sizes
    <3>2. (di.count - MaxSingle - 1) \div NPtr \in Nat
      BY <3>1, Split
    <3>3. 0 \in Leaves(c, i)
      BY <2>1, <3>2 DEF Leaves
    <3> QED
      BY <2>1, <3>3
  <2>2. CASE ~(di.count > MaxSingle)
    BY <2>2 DEF Leaves
  <2> QED
    BY <2>1, <2>2
<1>3. ind = (IF di.count > NDirect THEN {IndLink(i, -1, di.ind)} ELSE {})
            \cup (IF Leaves(c, i) # {} THEN {IndLink(i, -2, di.ind2)} ELSE {})
            \cup {IndLink(i, n, Leaf(c, i, n)) : n \in Leaves(c, i)}
  BY DEF IndirectLinks, IndLink, Leaves, Leaf
<1>4. Own(c, i) = data \cup ind
  BY DEF Own
<1> HIDE DEF data, ind, di
<1>5. \A l : l \in ind <=>
           \/ di.count > NDirect /\ l = IndLink(i, -1, di.ind)
           \/ di.count > MaxSingle /\ l = IndLink(i, -2, di.ind2)
           \/ \E n \in Leaves(c, i) : l = IndLink(i, n, Leaf(c, i, n))
  BY <1>2, <1>3
<1> QED
  BY <1>1, <1>4, <1>5 DEF di

LEMMA OwnFields ==
  ASSUME NEW c, NEW i, Dinode(c, i).count \in Nat, NEW l \in Own(c, i)
  PROVE  l.ino = i /\ l.kind \in {"data", "ind"}
BY OwnIs DEF DataLink, IndLink

(* Every pointer is one of the inodes' or one of the super root's.         *)
LEMMA LinksAre ==
  ASSUME NEW c
  PROVE  AllLinks(c) = (UNION {Own(c, i) : i \in Inos}) \cup Tables(c)
BY DEF AllLinks, Links, Own, Tables, Dinode

(* Pointers and content of an inode depend on its dinode and on the blocks *)
(* that are its own, and on nothing else.                                  *)
LEMMA SameOwn ==
  ASSUME NEW c, NEW d, NEW i, IsDinode(Dinode(c, i)), Same(c, d, i)
  PROVE  /\ Own(d, i) = Own(c, i)
         /\ \A k \in 0 .. Dinode(c, i).count - 1 : Pointer(d, i, k) = Pointer(c, i, k)
         /\ ReadContent(d.out, Dinode(d, i)) = ReadContent(c.out, Dinode(c, i))
<1> DEFINE di == Dinode(c, i)
<1>1. di.size \in Nat /\ di.count \in Nat /\ di.count = CeilDiv(di.size, BBS)
  BY BlocksOf DEF IsDinode
<1>2. Dinode(d, i) = di /\ \A l \in Own(c, i) : d.out[l.ptr.no] = c.out[l.ptr.no]
  BY DEF Same
<1>3. ASSUME di.count > NDirect PROVE d.out[di.ind.no] = c.out[di.ind.no]
  <2>1. IndLink(i, -1, di.ind) \in Own(c, i)
    BY <1>1, <1>3, OwnIs
  <2>2. IndLink(i, -1, di.ind).ptr.no = di.ind.no
    BY DEF IndLink
  <2> QED
    BY <1>2, <2>1, <2>2
<1>4. ASSUME di.count > MaxSingle PROVE d.out[di.ind2.no] = c.out[di.ind2.no]
  <2>1. IndLink(i, -2, di.ind2) \in Own(c, i)
    BY <1>1, <1>4, OwnIs
  <2>2. IndLink(i, -2, di.ind2).ptr.no = di.ind2.no
    BY DEF IndLink
  <2> QED
    BY <1>2, <2>1, <2>2
<1>5. \A n : n \in Leaves(c, i) =>
        d.out[Leaf(c, i, n).no] = c.out[Leaf(c, i, n).no] /\ Leaf(d, i, n) = Leaf(c, i, n)
  <2> SUFFICES ASSUME NEW n, n \in Leaves(c, i)
               PROVE  d.out[Leaf(c, i, n).no] = c.out[Leaf(c, i, n).no]
                      /\ Leaf(d, i, n) = Leaf(c, i, n)
    OBVIOUS
  <2>1. di.count > MaxSingle
    BY DEF Leaves
  <2>2. IndLink(i, n, Leaf(c, i, n)) \in Own(c, i)
    BY <1>1, OwnIs
  <2>3. IndLink(i, n, Leaf(c, i, n)).ptr.no = Leaf(c, i, n).no
    BY DEF IndLink
  <2>4. Leaf(d, i, n) = Leaf(c, i, n)
    BY <1>2, <1>4, <2>1 DEF Leaf
  <2> QED
    BY <1>2, <2>2, <2>3, <2>4
<1>6. \A k \in 0 .. di.count - 1 : Pointer(d, i, k) = Pointer(c, i, k)
  <2> SUFFICES ASSUME NEW k \in 0 .. di.count - 1 PROVE Pointer(d, i, k) = Pointer(c, i, k)
    OBVIOUS
  <2>1. k \in Nat /\ NDirect \in Nat /\ NPtr \in Nat \ {0} /\ MaxSingle = NDirect + NPtr
    BY Sizes, <1>1 DEF MaxSingle
  <2>2. CASE k < NDirect
    BY <1>2, <2>2 DEF Pointer, PtrAt
  <2>3. CASE ~(k < NDirect) /\ k < NDirect + NPtr
    <3>1. di.count > NDirect
      BY <1>1, <2>1, <2>3
    <3> HIDE DEF di
    <3> QED
      BY <1>2, <1>3, <2>3, <3>1 DEF Pointer, PtrAt, di
  <2>4. CASE ~(k < NDirect + NPtr)
    <3> DEFINE j == k - NDirect - NPtr
               n == j \div NPtr
    <3>1. j \in Nat /\ di.count > MaxSingle /\ di.count - MaxSingle - 1 \in Nat
          /\ j <= di.count - MaxSingle - 1
      BY <1>1, <2>1, <2>4
    <3>2. n \in 0 .. ((di.count - MaxSingle - 1) \div NPtr)
      <4> DEFINE m == di.count - MaxSingle - 1
      <4>1. m \in Nat /\ j <= m /\ j \in Nat
        BY <3>1
      <4> HIDE DEF j, m
      <4>2. j \div NPtr <= m \div NPtr /\ j \div NPtr \in Nat /\ m \div NPtr \in Nat
        BY <2>1, <4>1, QuotientGrows, Split
      <4> QED
        BY <4>2 DEF m
    <3>3. n \in Leaves(c, i)
      BY <3>1, <3>2 DEF Leaves
    <3>4. ~(k < NDirect)
      BY <2>1, <2>4
    <3>5. Pointer(c, i, k) = EntriesOf(c.out[Leaf(c, i, n).no])[(j % NPtr) + 1]
      BY <2>4, <3>4 DEF Pointer, PtrAt, Leaf
    <3>6. Pointer(d, i, k) = EntriesOf(d.out[Leaf(d, i, n).no])[(j % NPtr) + 1]
      BY <2>4, <3>4 DEF Pointer, PtrAt, Leaf
    <3> HIDE DEF j, n
    <3> QED
      BY <1>5, <3>3, <3>5, <3>6
  <2> QED
    BY <2>2, <2>3, <2>4
<1>7. Leaves(d, i) = Leaves(c, i)
  BY <1>2 DEF Leaves
<1>8. \A k \in 0 .. di.count - 1 : DataLink(d, i, k) = DataLink(c, i, k)
  BY <1>6 DEF DataLink
<1>9. Own(d, i) = Own(c, i)
  <2>1. \A l : l \in Own(d, i) <=> l \in Own(c, i)
    BY <1>1, <1>2, <1>5, <1>7, <1>8, OwnIs
  <2> QED
    BY <2>1
<1>10. ReadContent(d.out, Dinode(d, i)) = ReadContent(c.out, Dinode(c, i))
  <2> DEFINE unit(e, j) == LET x == e.out[PtrAt(e.out, di, (j - 1) \div BBS).no]
                           IN IF x[1] = "data" THEN x[2][((j - 1) % BBS) + 1] ELSE Zero
  <2>1. ReadContent(d.out, Dinode(d, i)) = SubSeq([j \in 1 .. di.size |-> unit(d, j)], 1, di.size)
    BY <1>2 DEF ReadContent
  <2>2. ReadContent(c.out, Dinode(c, i)) = SubSeq([j \in 1 .. di.size |-> unit(c, j)], 1, di.size)
    BY DEF ReadContent
  <2>3. ASSUME NEW j \in 1 .. di.size PROVE unit(d, j) = unit(c, j)
    <3> DEFINE k == (j - 1) \div BBS
    <3>1. k \in 0 .. di.count - 1
      BY <1>1, BlocksOf
    <3>2. Pointer(d, i, k) = Pointer(c, i, k)
      BY <1>6, <3>1
    <3>3. DataLink(c, i, k) \in Own(c, i) /\ DataLink(c, i, k).ptr = Pointer(c, i, k)
      BY <1>1, <3>1, OwnIs DEF DataLink
    <3>4. d.out[Pointer(c, i, k).no] = c.out[Pointer(c, i, k).no]
      BY <1>2, <3>3
    <3>5. PtrAt(d.out, di, k) = Pointer(c, i, k) /\ PtrAt(c.out, di, k) = Pointer(c, i, k)
      BY <1>2, <3>2 DEF Pointer
    <3> HIDE DEF k
    <3>6. d.out[PtrAt(d.out, di, k).no] = c.out[PtrAt(c.out, di, k).no]
      BY <3>4, <3>5
    <3> QED
      BY <3>6 DEF k
  <2>4. [j \in 1 .. di.size |-> unit(d, j)] = [j \in 1 .. di.size |-> unit(c, j)]
    <3> HIDE DEF unit
    <3> QED
      BY <2>3
  <2> QED
    BY <2>1, <2>2, <2>4
<1> QED
  BY <1>6, <1>9, <1>10

-----------------------------------------------------------------------------
(* Folds, one step at a time *)

LEMMA Greatest ==
  ASSUME NEW n \in Nat, NEW s \in SUBSET (1 .. n), s # {}
  PROVE  Max(s) \in s /\ \A x \in s : x <= Max(s)
<1> DEFINE T == {n - x : x \in s}
<1>1. T \subseteq Nat /\ T # {}
  <2>1. \A x \in s : x \in 1 .. n
    OBVIOUS
  <2>2. \A x \in s : n - x \in Nat
    BY <2>1
  <2>3. PICK x \in s : TRUE
    OBVIOUS
  <2>4. n - x \in T
    BY <2>3
  <2> QED
    BY <2>2, <2>4
<1> HIDE DEF T
<1>2. PICK t \in T : \A u \in T : t <= u
  BY <1>1, Least
<1> USE DEF T
<1>3. PICK m \in s : t = n - m
  BY <1>2
<1>4. \A x \in s : m >= x
  BY <1>2, <1>3
<1>5. \E x \in s : \A y \in s : x >= y
  BY <1>4
<1>6. Max(s) \in s /\ \A y \in s : Max(s) >= y
  BY <1>5 DEF Max
<1> QED
  BY <1>6

LEMMA FirstOnes ==
  ASSUME NEW n \in Nat, NEW k \in 1 .. n
  PROVE  /\ 1 .. k \in SUBSET (1 .. n) /\ 1 .. (k - 1) \in SUBSET (1 .. n)
         /\ 1 .. k # {} /\ Max(1 .. k) = k /\ (1 .. k) \ {k} = 1 .. (k - 1)
<1>1. k \in 1 .. k /\ 1 .. k \in SUBSET (1 .. k) /\ k \in Nat
  OBVIOUS
<1>2. Max(1 .. k) \in 1 .. k /\ k <= Max(1 .. k)
  BY <1>1, Greatest
<1> QED
  BY <1>1, <1>2

(* Writing the chunks of a content to its blocks, first to last *)
Put(img, b, x) == [img EXCEPT ![b] = x]
Written(img, phys, n, content) ==
  FoldLeft(LAMBDA m, k : [m EXCEPT ![phys[k]] = Chunk(content, k - 1)],
           img, [k \in 1 .. n |-> k])

LEMMA WriteFold ==
  ASSUME NEW img, NEW n \in Nat, NEW phys, NEW content
  PROVE  \E f : /\ f[0] = img
                /\ \A k \in 1 .. n : f[k] = Put(f[k - 1], phys[k], Chunk(content, k - 1))
                /\ Written(img, phys, n, content) = f[n]
<1> DEFINE seq == [k \in 1 .. n |-> k]
           Op(x, k) == [x EXCEPT ![phys[seq[k]]] = Chunk(content, seq[k] - 1)]
           Iter(m, g) == g = [s \in SUBSET (1 .. m) |->
                                IF s = {} THEN img ELSE Op(g[s \ {Max(s)}], Max(s))]
           T == {m \in 0 .. n : \E g : Iter(m, g)}
<1> HIDE DEF Op
<1>1. 0 \in T
  <2> DEFINE h == [s \in SUBSET (1 .. 0) |-> img]
  <2>1. \A s \in SUBSET (1 .. 0) : s = {}
    OBVIOUS
  <2>2. \A s \in SUBSET (1 .. 0) :
          h[s] = IF s = {} THEN img ELSE Op(h[s \ {Max(s)}], Max(s))
    BY <2>1
  <2>3. h = [s \in SUBSET (1 .. 0) |-> h[s]]
    OBVIOUS
  <2> HIDE DEF h
  <2>4. Iter(0, h)
    BY <2>2, <2>3
  <2>5. 0 \in 0 .. n
    OBVIOUS
  <2> HIDE DEF Iter
  <2> QED
    BY <2>4, <2>5
<1>2. ASSUME NEW m \in 1 .. n, m - 1 \in T PROVE m \in T
  <2>1. PICK g : Iter(m - 1, g)
    BY <1>2
  <2> DEFINE h == [s \in SUBSET (1 .. m) |-> IF m \in s THEN Op(g[s \ {m}], m) ELSE g[s]]
  <2>2. ASSUME NEW s \in SUBSET (1 .. m)
        PROVE  h[s] = IF s = {} THEN img ELSE Op(h[s \ {Max(s)}], Max(s))
    <3>1. CASE m \in s
      <4>1. Max(s) = m
        <5>1. m \in Nat /\ s # {} /\ \A x \in s : x \in 1 .. m
          BY <3>1
        <5>2. Max(s) \in s /\ m <= Max(s)
          BY <3>1, <5>1, Greatest
        <5>3. Max(s) \in 1 .. m
          BY <5>1, <5>2
        <5> QED
          BY <5>1, <5>2, <5>3
      <4>2. s \ {m} \in SUBSET (1 .. m) /\ m \notin s \ {m}
        OBVIOUS
      <4> QED
        BY <3>1, <4>1, <4>2
    <3>2. CASE m \notin s
      <4>1. s \in SUBSET (1 .. m - 1)
        BY <3>2
      <4>2. s # {} => s \ {Max(s)} \in SUBSET (1 .. m) /\ m \notin s \ {Max(s)}
        BY <3>2
      <4>3. g[s] = IF s = {} THEN img ELSE Op(g[s \ {Max(s)}], Max(s))
        BY <2>1, <4>1
      <4> QED
        BY <3>2, <4>2, <4>3
    <3> QED
      BY <3>1, <3>2
  <2>3. h = [s \in SUBSET (1 .. m) |-> h[s]]
    OBVIOUS
  <2> HIDE DEF h
  <2>4. Iter(m, h)
    BY <2>2, <2>3
  <2> QED
    BY <2>4
<1> HIDE DEF T
<1>3. \A m \in 0 .. n : m \in T
  BY <1>1, <1>2, UpTo
<1>4. \E g : Iter(n, g)
  <2>1. n \in T
    BY <1>3
  <2> HIDE DEF Iter
  <2> QED
    BY <2>1 DEF T
<1> DEFINE g == CHOOSE g : Iter(n, g)
           f == [k \in 0 .. n |-> g[1 .. k]]
<1>5. Iter(n, g)
  BY <1>4
<1>6. Written(img, phys, n, content) = g[1 .. n]
  BY DEF Written, FoldLeft, MapThenFoldSet, Op
<1> HIDE DEF g
<1>7. f[0] = img
  <2>1. {} \in SUBSET (1 .. n)
    OBVIOUS
  <2>2. g[{}] = img
    BY <1>5, <2>1
  <2>3. 1 .. 0 = {} /\ 0 \in 0 .. n
    OBVIOUS
  <2> QED
    BY <2>2, <2>3
<1>8. ASSUME NEW k \in 1 .. n PROVE f[k] = Op(f[k - 1], k)
  <2>1. g[1 .. k] = Op(g[1 .. (k - 1)], k)
    <3>1. /\ 1 .. k \in SUBSET (1 .. n) /\ 1 .. k # {} /\ Max(1 .. k) = k
          /\ (1 .. k) \ {k} = 1 .. (k - 1)
      BY FirstOnes
    <3>2. \A s \in SUBSET (1 .. n) :
            g[s] = IF s = {} THEN img ELSE Op(g[s \ {Max(s)}], Max(s))
      BY <1>5
    <3> QED
      BY <3>1, <3>2
  <2>2. k \in 0 .. n /\ k - 1 \in 0 .. n
    OBVIOUS
  <2> QED
    BY <2>1, <2>2
<1>9. \A k \in 1 .. n : Op(f[k - 1], k) = Put(f[k - 1], phys[k], Chunk(content, k - 1))
  BY DEF Op, Put
<1>10. f[n] = g[1 .. n]
  OBVIOUS
<1> HIDE DEF f, seq
<1>11. \A k \in 1 .. n : f[k] = Put(f[k - 1], phys[k], Chunk(content, k - 1))
  BY <1>8, <1>9
<1>12. Written(img, phys, n, content) = f[n]
  BY <1>6, <1>10
<1> QED
  BY <1>7, <1>11, <1>12 DEF seq

Distinct(phys) == \A j, k \in DOMAIN phys : phys[j] = phys[k] => j = k

LEMMA DataWritten ==
  ASSUME NEW img, img = [b \in Blocks |-> img[b]],
         NEW phys \in Seq(Blocks), Distinct(phys), NEW content
  PROVE  LET data == Written(img, phys, Len(phys), content)
         IN /\ data = [b \in Blocks |-> data[b]]
            /\ \A k \in 1 .. Len(phys) : data[phys[k]] = Chunk(content, k - 1)
            /\ \A b \in Blocks : b \notin ToSet(phys) => data[b] = img[b]
<1> DEFINE n == Len(phys)
           data == Written(img, phys, n, content)
<1>1. /\ n \in Nat /\ DOMAIN phys = 1 .. n /\ \A k \in 1 .. n : phys[k] \in Blocks
      /\ \A j, k \in 1 .. n : phys[j] = phys[k] => j = k
  BY DEF Distinct
<1> HIDE DEF n
<1>2. PICK f : /\ f[0] = img
               /\ \A k \in 1 .. n : f[k] = Put(f[k - 1], phys[k], Chunk(content, k - 1))
               /\ data = f[n]
  BY <1>1, WriteFold
<1> HIDE DEF data
<1> DEFINE Good(k) == /\ f[k] = [b \in Blocks |-> f[k][b]]
                      /\ \A j \in 1 .. k : f[k][phys[j]] = Chunk(content, j - 1)
                      /\ \A b \in Blocks : b \notin ToSet(phys) => f[k][b] = img[b]
           T == {k \in 0 .. n : Good(k)}
<1>3. 0 \in T
  BY <1>1, <1>2
<1>4. ASSUME NEW k \in 1 .. n, k - 1 \in T PROVE k \in T
  <2>1. Good(k - 1)
    BY <1>4
  <2>2. f[k] = [f[k - 1] EXCEPT ![phys[k]] = Chunk(content, k - 1)]
    BY <1>2 DEF Put
  <2>3. phys[k] \in Blocks /\ phys[k] \in ToSet(phys)
    BY <1>1 DEF ToSet
  <2>4. /\ f[k] = [b \in Blocks |-> f[k][b]] /\ f[k][phys[k]] = Chunk(content, k - 1)
        /\ \A b \in Blocks : b # phys[k] => f[k][b] = f[k - 1][b]
    BY <2>1, <2>2, <2>3
  <2>5. ASSUME NEW j \in 1 .. k PROVE f[k][phys[j]] = Chunk(content, j - 1)
    <3>1. CASE j = k
      BY <2>4, <3>1
    <3>2. CASE j # k
      <4>1. j \in 1 .. n /\ j \in 1 .. (k - 1)
        BY <1>1, <3>2
      <4>2. phys[j] # phys[k] /\ phys[j] \in Blocks
        BY <1>1, <3>2, <4>1
      <4> QED
        BY <2>1, <2>4, <4>1, <4>2
    <3> QED
      BY <3>1, <3>2
  <2>6. \A b \in Blocks : b \notin ToSet(phys) => f[k][b] = img[b]
    BY <2>1, <2>3, <2>4
  <2>7. Good(k)
    BY <2>4, <2>5, <2>6
  <2>8. k \in 0 .. n
    OBVIOUS
  <2> HIDE DEF Good
  <2> QED
    BY <2>7, <2>8
<1> HIDE DEF T
<1>5. \A k \in 0 .. n : k \in T
  BY <1>1, <1>3, <1>4, UpTo
<1>6. Good(n)
  <2>1. n \in T
    BY <1>1, <1>5
  <2> HIDE DEF Good
  <2> QED
    BY <2>1 DEF T
<1> QED
  BY <1>2, <1>6 DEF data, n

-----------------------------------------------------------------------------
(* Units of a content, in the chunks it is written in *)

LEMMA ChunkUnit ==
  ASSUME NEW content, IsSeq(content), NEW j \in 1 .. Len(content)
  PROVE  LET x == Chunk(content, (j - 1) \div BBS)
         IN x[1] = "data" /\ x[2][((j - 1) % BBS) + 1] = content[j]
<1> DEFINE k == (j - 1) \div BBS
           m == (j - 1) % BBS
           S == ToSet(content) \cup {Zero}
           z == content \o ZeroBlock
<1>1. BBS \in Nat \ {0} /\ Len(content) \in Nat /\ j - 1 \in Nat
  BY Sizes DEF IsSeq
<1>2. k \in Nat /\ m \in 0 .. BBS - 1 /\ j - 1 = k * BBS + m
  BY <1>1, Split
<1>3. content \in Seq(S) /\ ZeroBlock \in Seq(S) /\ Len(ZeroBlock) = BBS
  BY <1>1 DEF IsSeq, ZeroBlock
<1>4. /\ z \in Seq(S) /\ Len(z) = Len(content) + BBS
      /\ \A a \in 1 .. Len(content) : z[a] = content[a]
  <2> HIDE DEF S
  <2> QED
    BY <1>1, <1>3
<1>5. k * BBS \in Nat /\ (k + 1) * BBS = k * BBS + BBS
  BY <1>1, <1>2
<1> HIDE DEF k, m, z, S
<1> DEFINE p == k * BBS
<1>6. p \in Nat /\ p + m + 1 = j /\ p + BBS <= Len(z) /\ (k + 1) * BBS = p + BBS
  BY <1>1, <1>2, <1>4, <1>5
<1> HIDE DEF p
<1>7. m + 1 \in 1 .. BBS /\ p + (m + 1) = j
  BY <1>1, <1>2, <1>6
<1>8. SubSeq(z, p + 1, p + BBS)[m + 1] = content[j]
  <2> DEFINE lo == p + 1
             hi == p + BBS
  <2>1. lo \in 1 .. Len(z) + 1 /\ hi \in 0 .. Len(z) /\ hi - lo + 1 = BBS /\ lo + m = j
    BY <1>1, <1>2, <1>4, <1>6
  <2> HIDE DEF lo, hi
  <2>2. SubSeq(z, lo, hi)[m + 1] = z[lo + m]
    BY <1>2, <1>4, <1>7, <2>1
  <2>3. SubSeq(z, lo, hi)[m + 1] = content[j]
    BY <1>4, <2>1, <2>2
  <2> QED
    BY <2>3 DEF lo, hi
<1>9. Chunk(content, k) = <<"data", SubSeq(z, p + 1, p + BBS)>>
  BY <1>6 DEF Chunk, Data, z, p
<1>10. Chunk(content, k)[1] = "data" /\ Chunk(content, k)[2] = SubSeq(z, p + 1, p + BBS)
  <2> DEFINE u == SubSeq(z, p + 1, p + BBS)
             x == Chunk(content, k)
  <2>1. x = <<"data", u>>
    BY <1>9
  <2> HIDE DEF u, x
  <2>2. x[1] = "data" /\ x[2] = u
    BY <2>1
  <2> QED
    BY <2>2 DEF u, x
<1>11. Chunk(content, k)[1] = "data" /\ Chunk(content, k)[2][m + 1] = content[j]
  BY <1>8, <1>10
<1> QED
  BY <1>11 DEF k, m

(* Reading yields a sequence of as many units as the size says.            *)
LEMMA ContentIs ==
  ASSUME NEW img, NEW di, di.size \in Nat
  PROVE  /\ IsSeq(ReadContent(img, di)) /\ Len(ReadContent(img, di)) = di.size
         /\ \A j \in 1 .. di.size :
              ReadContent(img, di)[j] =
                LET x == img[PtrAt(img, di, (j - 1) \div BBS).no]
                IN IF x[1] = "data" THEN x[2][((j - 1) % BBS) + 1] ELSE Zero
<1> DEFINE unit(j) == LET x == img[PtrAt(img, di, (j - 1) \div BBS).no]
                      IN IF x[1] = "data" THEN x[2][((j - 1) % BBS) + 1] ELSE Zero
           f == [j \in 1 .. di.size |-> unit(j)]
<1>1. ReadContent(img, di) = SubSeq(f, 1, di.size)
  BY DEF ReadContent
<1>2. \A j \in 1 .. di.size : f[j] = unit(j)
  OBVIOUS
<1>3. f = [j \in 1 .. di.size |-> f[j]]
  OBVIOUS
<1> HIDE DEF f, unit
<1>4. SubSeq(f, 1, di.size) = f /\ Len(f) = di.size /\ f \in Seq(ToSet(f))
  BY <1>3, WholeCut
<1> QED
  BY <1>1, <1>2, <1>4 DEF IsSeq, unit

(* A file whose pointers name the blocks its chunks were written to reads  *)
(* as what was written.                                                    *)
LEMMA ReadBack ==
  ASSUME NEW img, NEW di, NEW content, IsSeq(content), di.size = Len(content),
         \A k \in 0 .. CeilDiv(Len(content), BBS) - 1 :
           img[PtrAt(img, di, k).no] = Chunk(content, k)
  PROVE  ReadContent(img, di) = content
<1> DEFINE r == ReadContent(img, di)
<1>1. Len(content) \in Nat /\ content \in Seq(ToSet(content)) /\ di.size \in Nat
  BY DEF IsSeq
<1>2. r \in Seq(ToSet(r)) /\ Len(r) = Len(content)
  BY <1>1, ContentIs DEF IsSeq
<1>3. ASSUME NEW j \in 1 .. Len(content) PROVE r[j] = content[j]
  <2> DEFINE k == (j - 1) \div BBS
             x == img[PtrAt(img, di, k).no]
  <2>1. k \in 0 .. CeilDiv(Len(content), BBS) - 1
    BY <1>1, BlocksOf
  <2>2. r[j] = IF x[1] = "data" THEN x[2][((j - 1) % BBS) + 1] ELSE Zero
    BY <1>1, ContentIs
  <2>3. x = Chunk(content, k)
    BY <2>1
  <2>4. Chunk(content, k)[1] = "data"
        /\ Chunk(content, k)[2][((j - 1) % BBS) + 1] = content[j]
    BY ChunkUnit
  <2> HIDE DEF x, k
  <2> QED
    BY <2>2, <2>3, <2>4
<1> HIDE DEF r
<1>4. r = content
  BY <1>1, <1>2, <1>3
<1> QED
  BY <1>4 DEF r

-----------------------------------------------------------------------------
(* What writing a content to its blocks does *)

(* The blocks of a file: data blocks, and the indirect block if it has one *)
Held(phys, ib) == ToSet(phys) \cup (IF Len(phys) > NDirect THEN {ib} ELSE {})

(* Blocks a file may be written to *)
Placeable(c, phys, ib) ==
  /\ phys \in Seq(Blocks) /\ Distinct(phys) /\ Len(phys) <= MaxSingle
  /\ Len(phys) > NDirect => ib \in Blocks /\ ib \notin ToSet(phys)
  /\ \A s \in DinodeBlocks : c.root[s].no \notin Held(phys, ib)

(* What the dinode says but for its pointers *)
SameFile(d, e) ==
  /\ d.mode = e.mode /\ d.comp = e.comp /\ d.link = e.link
  /\ d.size = e.size /\ d.count = e.count

Elsewhere(c, d, i, phys, ib) ==
  \A b \in Blocks : b \notin Held(phys, ib) /\ b # TableBlock(c, i) => d.out[b] = c.out[b]

Stored(c, d, i, di, phys, ib, content) ==
  /\ Shape(d)
  /\ d.bitmap = c.bitmap /\ d.bat = c.bat /\ d.inob = c.inob /\ d.dirty = c.dirty
  /\ \A s \in DinodeBlocks : d.root[s].no = c.root[s].no
  /\ \A s \in DinodeBlocks : s # i \div IPB => d.root[s] = c.root[s]
  /\ d.root[i \div IPB] = [no |-> TableBlock(c, i),
                           dig |-> Digest(TableBlock(c, i), d.out[TableBlock(c, i)])]
  /\ \A j \in Inos : j # i => Dinode(d, j) = Dinode(c, j)
  /\ SameFile(Dinode(d, i), di)
  /\ \A k \in 0 .. Len(phys) - 1 :
       Pointer(d, i, k) = [no |-> phys[k + 1],
                           dig |-> Digest(phys[k + 1], d.out[phys[k + 1]])]
  /\ Len(phys) > NDirect => Dinode(d, i).ind = [no |-> ib, dig |-> Digest(ib, d.out[ib])]
  /\ ReadContent(d.out, Dinode(d, i)) = content

LEMMA HeldIs ==
  ASSUME NEW phys, NEW ib
  PROVE  /\ ToSet(phys) \subseteq Held(phys, ib)
         /\ Len(phys) > NDirect => ib \in Held(phys, ib)
         /\ \A b : b \in Held(phys, ib) => b \in ToSet(phys) \/ (Len(phys) > NDirect /\ b = ib)
BY DEF Held

LEMMA StoreResult ==
  ASSUME NEW c, Shape(c), TablesPlaced(c), NEW i \in Inos, NEW di, IsDinode(di),
         NEW content, IsSeq(content), di.size = Len(content),
         NEW phys, NEW ib, Placeable(c, phys, ib), Len(phys) = di.count, NEW base
  PROVE  LET r == StoreContent(c, i, di, phys, ib, base, content)
         IN /\ r.ok \in BOOLEAN /\ (r.ok <=> i \div IPB < NSuper)
            /\ r.ok => Stored(c, r.c, i, di, phys, ib, content)
            /\ Elsewhere(c, r.c, i, phys, ib)
<1> DEFINE n == Len(phys)
           ptr(k) == [no |-> phys[k + 1], dig |-> Digest(phys[k + 1], Chunk(content, k))]
           data == Written(c.out, phys, n, content)
           entry(e) == IF NDirect + e <= n THEN ptr(NDirect + e - 1) ELSE base[e]
           table == SubSeq([e \in 1 .. NPtr |-> entry(e)], 1, NPtr)
           entries == Indirect(table)
           slot(k) == IF k <= n THEN ptr(k - 1) ELSE di.direct[k]
           direct == SubSeq([k \in 1 .. NDirect |-> slot(k)], 1, NDirect)
           img == IF n <= NDirect THEN data ELSE [data EXCEPT ![ib] = entries]
           e == [c EXCEPT !.out = img]
           dj == IF n <= NDirect THEN [di EXCEPT !.direct = direct]
                 ELSE [di EXCEPT !.direct = direct,
                                 !.ind = [no |-> ib, dig |-> Digest(ib, entries)]]
           r == StoreContent(c, i, di, phys, ib, base, content)
<1>1. /\ n \in Nat /\ NDirect \in Nat \ {0} /\ NPtr \in Nat \ {0} /\ n <= NDirect + NPtr
      /\ phys \in Seq(Blocks) /\ \A k \in 0 .. n - 1 : phys[k + 1] \in ToSet(phys) \cap Blocks
      /\ n = CeilDiv(Len(content), BBS) /\ Len(content) \in Nat
  <2>1. phys \in Seq(Blocks) /\ DOMAIN phys = 1 .. Len(phys)
    BY DEF Placeable
  <2>2. \A k \in 0 .. n - 1 : k + 1 \in 1 .. n
    OBVIOUS
  <2>3. \A k \in 1 .. n : phys[k] \in ToSet(phys) \cap Blocks
    BY <2>1 DEF ToSet
  <2>4. n <= NDirect + NPtr /\ NDirect \in Nat \ {0} /\ NPtr \in Nat \ {0}
    BY Sizes DEF Placeable, MaxSingle
  <2>5. Len(content) \in Nat
    BY DEF IsSeq
  <2>6. n = CeilDiv(Len(content), BBS)
    BY DEF IsDinode
  <2>7. n \in Nat
    BY <2>1
  <2>8. \A k \in 0 .. n - 1 : phys[k + 1] \in ToSet(phys) \cap Blocks
    <3> HIDE DEF n
    <3> QED
      BY <2>2, <2>3
  <2> HIDE DEF n
  <2> QED
    BY <2>1, <2>4, <2>5, <2>6, <2>7, <2>8
<1>2. r = SignDinode(e, i, dj)
  <2>1. CASE n <= NDirect
    BY <2>1 DEF StoreContent, Written
  <2>2. CASE ~(n <= NDirect)
    BY <2>2 DEF StoreContent, Written
  <2> QED
    BY <2>1, <2>2
<1>3. /\ data = [b \in Blocks |-> data[b]]
      /\ \A k \in 1 .. n : data[phys[k]] = Chunk(content, k - 1)
      /\ \A b \in Blocks : b \notin ToSet(phys) => data[b] = c.out[b]
  <2>1. c.out = [b \in Blocks |-> c.out[b]] /\ phys \in Seq(Blocks) /\ Distinct(phys)
    BY DEF Shape, Placeable
  <2> QED
    BY <2>1, DataWritten
<1> HIDE DEF r, data
<1>4. /\ img = [b \in Blocks |-> img[b]]
      /\ \A k \in 1 .. n : img[phys[k]] = Chunk(content, k - 1)
      /\ n > NDirect => img[ib] = entries
      /\ \A b \in Blocks : b \notin Held(phys, ib) => img[b] = c.out[b]
  <2> HIDE DEF entries
  <2>1. CASE n <= NDirect
    <3>1. img = data
      BY <2>1
    <3>2. Held(phys, ib) = ToSet(phys) /\ ~(n > NDirect)
      BY <1>1, <2>1 DEF Held
    <3> HIDE DEF img
    <3> QED
      BY <1>3, <3>1, <3>2
  <2>2. CASE ~(n <= NDirect)
    <3>1. ib \in Blocks /\ ib \notin ToSet(phys) /\ img = [data EXCEPT ![ib] = entries]
      BY <1>1, <2>2 DEF Placeable
    <3>2. \A k \in 1 .. n : phys[k] # ib /\ phys[k] \in Blocks
      BY <1>1, <3>1 DEF ToSet
    <3>3. \A b \in Blocks : b \notin Held(phys, ib) => b \notin ToSet(phys) /\ b # ib
      BY <1>1, <2>2 DEF Held
    <3> HIDE DEF img
    <3> QED
      BY <1>3, <3>1, <3>2, <3>3
  <2> QED
    BY <2>1, <2>2
<1> HIDE DEF img
<1>5. /\ e = [out |-> e.out, root |-> e.root, bitmap |-> e.bitmap, bat |-> e.bat,
              inob |-> e.inob, dirty |-> e.dirty]
      /\ e.out = img /\ e.root = c.root /\ e.bitmap = c.bitmap /\ e.bat = c.bat
      /\ e.inob = c.inob /\ e.dirty = c.dirty
  <2>1. c = [out |-> c.out, root |-> c.root, bitmap |-> c.bitmap, bat |-> c.bat,
             inob |-> c.inob, dirty |-> c.dirty]
    BY DEF Shape
  <2> QED
    BY <2>1
<1> HIDE DEF e
<1>6. \A s \in DinodeBlocks : e.out[e.root[s].no] = c.out[c.root[s].no]
  BY <1>4, <1>5 DEF Placeable, TablesPlaced
<1>7. Shape(e) /\ TablesPlaced(e) /\ TableBlock(e, i) = TableBlock(c, i)
  <2>1. /\ c.root = [s \in DinodeBlocks |-> [no |-> c.root[s].no, dig |-> c.root[s].dig]]
        /\ c.bitmap \in [Blocks -> BOOLEAN] /\ c.bat = [b \in Blocks |-> c.bat[b]]
        /\ c.inob \in [Inos -> BOOLEAN] /\ c.dirty \in BOOLEAN
        /\ \A s \in DinodeBlocks : IsTable(c.out[c.root[s].no])
    BY DEF Shape
  <2>2. e.out = [b \in Blocks |-> e.out[b]]
    BY <1>4, <1>5
  <2>3. \A s \in DinodeBlocks : IsTable(e.out[e.root[s].no])
    BY <1>6, <2>1
  <2>4. Shape(e)
    BY <1>5, <2>1, <2>2, <2>3 DEF Shape
  <2> QED
    BY <1>5, <2>4 DEF TablesPlaced, TableBlock
<1>8. \A j \in Inos : Dinode(e, j) = Dinode(c, j)
  <2>1. ASSUME NEW j \in Inos PROVE Dinode(e, j) = Dinode(c, j)
    <3>1. j \div IPB \in DinodeBlocks
      BY InodePlace
    <3>2. e.out[TableBlock(c, j)] = c.out[TableBlock(c, j)]
      BY <1>5, <1>6, <3>1 DEF TableBlock
    <3> QED
      BY <1>5, <3>2, DinodeFrom
  <2> QED
    BY <2>1
<1>9. direct = [k \in 1 .. NDirect |-> slot(k)]
  <2> DEFINE f == [k \in 1 .. NDirect |-> slot(k)]
  <2>1. f = [k \in 1 .. NDirect |-> f[k]]
    OBVIOUS
  <2> HIDE DEF f
  <2>2. SubSeq(f, 1, NDirect) = f
    BY <1>1, <2>1, WholeCut
  <2> QED
    BY <2>2 DEF f
<1>10. table = [x \in 1 .. NPtr |-> entry(x)]
  <2> DEFINE f == [x \in 1 .. NPtr |-> entry(x)]
  <2>1. f = [x \in 1 .. NPtr |-> f[x]]
    OBVIOUS
  <2> HIDE DEF f
  <2>2. SubSeq(f, 1, NPtr) = f
    BY <1>1, <2>1, WholeCut
  <2> QED
    BY <2>2 DEF f
<1> HIDE DEF direct, table
<1>11. EntriesOf(entries) = table
  BY DEF EntriesOf, Indirect
<1> HIDE DEF entries
<1>12. /\ IsDinode(dj) /\ SameFile(dj, di) /\ dj.direct = direct
       /\ n > NDirect => dj.ind = [no |-> ib, dig |-> Digest(ib, entries)]
  <2>1. /\ di = [mode |-> di.mode, comp |-> di.comp, link |-> di.link, size |-> di.size,
                 count |-> di.count, direct |-> di.direct, ind |-> di.ind, ind2 |-> di.ind2]
        /\ di.size \in Nat /\ di.count = CeilDiv(di.size, BBS)
    BY DEF IsDinode
  <2>2. direct = [k \in 1 .. NDirect |-> direct[k]]
    BY <1>9
  <2>3. CASE n <= NDirect
    <3>1. dj = [di EXCEPT !.direct = direct]
      BY <2>3
    <3> HIDE DEF dj
    <3>2. /\ dj = [mode |-> dj.mode, comp |-> dj.comp, link |-> dj.link, size |-> dj.size,
                 count |-> dj.count, direct |-> dj.direct, ind |-> dj.ind, ind2 |-> dj.ind2]
          /\ SameFile(dj, di) /\ dj.direct = direct
      BY <2>1, <3>1 DEF SameFile
    <3> QED
      BY <1>1, <2>1, <2>2, <2>3, <3>2 DEF IsDinode, SameFile
  <2>4. CASE ~(n <= NDirect)
    <3> DEFINE p == [no |-> ib, dig |-> Digest(ib, entries)]
    <3>1. dj = [di EXCEPT !.direct = direct, !.ind = p]
      BY <2>4
    <3> HIDE DEF dj, p
    <3>2. /\ dj = [mode |-> dj.mode, comp |-> dj.comp, link |-> dj.link, size |-> dj.size,
                 count |-> dj.count, direct |-> dj.direct, ind |-> dj.ind, ind2 |-> dj.ind2]
          /\ SameFile(dj, di) /\ dj.direct = direct /\ dj.ind = p
      BY <2>1, <3>1 DEF SameFile
    <3> QED
      BY <2>1, <2>2, <3>2 DEF IsDinode, SameFile, p
  <2> QED
    BY <2>3, <2>4
<1> HIDE DEF dj
<1> DEFINE d == r.c
<1>13. /\ r.ok \in BOOLEAN /\ (r.ok <=> i \div IPB < NSuper)
       /\ r.ok => Signed(e, d, i, dj)
       /\ \A b \in Blocks : b # TableBlock(c, i) => d.out[b] = img[b]
  BY <1>2, <1>5, <1>7, <1>12, SignDinodeResult
<1> HIDE DEF d
<1>14. Elsewhere(c, d, i, phys, ib)
  BY <1>4, <1>13 DEF Elsewhere
<1>15. TableBlock(c, i) \notin Held(phys, ib)
  BY InodePlace DEF Placeable, TableBlock
<1>16. /\ \A k \in 0 .. n - 1 : d.out[phys[k + 1]] = Chunk(content, k)
       /\ n > NDirect => d.out[ib] = entries
  <2>1. ASSUME NEW k \in 0 .. n - 1 PROVE d.out[phys[k + 1]] = Chunk(content, k)
    <3>1. k + 1 \in 1 .. n /\ k + 1 - 1 = k
      BY <1>1
    <3>2. phys[k + 1] \in Blocks /\ phys[k + 1] # TableBlock(c, i)
      BY <1>1, <1>15, HeldIs
    <3>3. img[phys[k + 1]] = Chunk(content, k + 1 - 1)
      BY <1>4, <3>1
    <3> QED
      BY <1>13, <3>1, <3>2, <3>3
  <2>2. ASSUME n > NDirect PROVE d.out[ib] = entries
    <3>1. ib \in Blocks /\ ib # TableBlock(c, i)
      BY <1>1, <1>15, <2>2, HeldIs DEF Placeable
    <3> QED
      BY <1>4, <1>13, <2>2, <3>1
  <2> QED
    BY <2>1, <2>2
<1>17. ASSUME r.ok PROVE Stored(c, d, i, di, phys, ib, content)
  <2>1. Signed(e, d, i, dj)
    BY <1>13, <1>17
  <2>2. Dinode(d, i) = dj
    BY <2>1 DEF Signed
  <2>3. ASSUME NEW k \in 0 .. n - 1 PROVE Pointer(d, i, k) = ptr(k)
    <3>1. CASE k < NDirect
      <4>1. Pointer(d, i, k) = dj.direct[k + 1]
        BY <2>2, <3>1 DEF Pointer, PtrAt
      <4>2. k + 1 \in 1 .. NDirect /\ k + 1 <= n /\ k + 1 - 1 = k
        BY <1>1, <3>1
      <4> HIDE DEF ptr
      <4>3. direct[k + 1] = ptr(k)
        BY <1>9, <4>2
      <4> QED
        BY <1>12, <4>1, <4>3
    <3>2. CASE ~(k < NDirect)
      <4>1. k < NDirect + NPtr /\ n > NDirect
        BY <1>1, <3>2
      <4>2. Pointer(d, i, k) = EntriesOf(d.out[dj.ind.no])[k - NDirect + 1]
        BY <2>2, <3>2, <4>1 DEF Pointer, PtrAt
      <4>3. d.out[dj.ind.no] = entries
        BY <1>12, <1>16, <4>1
      <4> DEFINE x == k - NDirect + 1
      <4>4. x \in 1 .. NPtr /\ NDirect + x <= n /\ NDirect + x - 1 = k
        BY <1>1, <3>2, <4>1
      <4> HIDE DEF ptr, x
      <4>5. table[x] = ptr(k)
        BY <1>10, <4>4
      <4> QED
        BY <1>11, <4>2, <4>3, <4>5 DEF x
    <3> QED
      BY <3>1, <3>2
  <2>4. \A k \in 0 .. n - 1 :
          Pointer(d, i, k) = [no |-> phys[k + 1], dig |-> Digest(phys[k + 1], d.out[phys[k + 1]])]
    BY <1>16, <2>3
  <2>5. ReadContent(d.out, Dinode(d, i)) = content
    <3>1. Dinode(d, i).size = Len(content)
      BY <1>12, <2>2 DEF SameFile
    <3>2. ASSUME NEW k \in 0 .. n - 1
          PROVE d.out[PtrAt(d.out, Dinode(d, i), k).no] = Chunk(content, k)
      <4>1. PtrAt(d.out, Dinode(d, i), k) = ptr(k)
        BY <2>3 DEF Pointer
      <4>2. ptr(k).no = phys[k + 1]
        OBVIOUS
      <4> HIDE DEF ptr
      <4> QED
        BY <1>16, <4>1, <4>2
    <3>3. \A k \in 0 .. CeilDiv(Len(content), BBS) - 1 :
            d.out[PtrAt(d.out, Dinode(d, i), k).no] = Chunk(content, k)
      BY <1>1, <3>2
    <3> QED
      BY <3>1, <3>3, ReadBack
  <2>6. \A j \in Inos : j # i => Dinode(d, j) = Dinode(c, j)
    BY <1>8, <2>1 DEF Signed
  <2>7. n > NDirect => Dinode(d, i).ind = [no |-> ib, dig |-> Digest(ib, d.out[ib])]
    BY <1>12, <1>16, <2>2
  <2>8. SameFile(Dinode(d, i), di)
    BY <1>12, <2>2
  <2>9. /\ Shape(d)
        /\ d.bitmap = c.bitmap /\ d.bat = c.bat /\ d.inob = c.inob /\ d.dirty = c.dirty
        /\ \A s \in DinodeBlocks : d.root[s].no = c.root[s].no
        /\ \A s \in DinodeBlocks : s # i \div IPB => d.root[s] = c.root[s]
        /\ d.root[i \div IPB] = [no |-> TableBlock(c, i),
                                 dig |-> Digest(TableBlock(c, i), d.out[TableBlock(c, i)])]
    <3> HIDE DEF n, ptr, entry, slot
    <3> QED
      BY <1>5, <1>7, <2>1 DEF Signed
  <2> HIDE DEF ptr
  <2> QED
    BY <2>4, <2>5, <2>6, <2>7, <2>8, <2>9 DEF Stored
<1> QED
  BY <1>13, <1>14, <1>17 DEF d, r

-----------------------------------------------------------------------------
(* The allocator, on the way from c: the blocks P are not its business, H  *)
(* are the blocks the file at hand has by now, and all others are free     *)

Mid(c, P, e, H) ==
  /\ e = [out |-> c.out, root |-> c.root, bitmap |-> e.bitmap, bat |-> e.bat,
          inob |-> c.inob, dirty |-> e.dirty]
  /\ e.bitmap \in [Blocks -> BOOLEAN] /\ e.bat = [b \in Blocks |-> e.bat[b]]
  /\ e.dirty \in BOOLEAN
  /\ P \subseteq Blocks \ {0} /\ H \subseteq Blocks \ {0} /\ P \cap H = {}
  /\ \A b \in Blocks \ {0} : Free(e, b) <=> b \notin P \cup H
  /\ \A b \in P : e.bat[b] = c.bat[b]
  /\ ~e.dirty => ~c.dirty /\ e.bitmap = c.bitmap /\ e.bat = c.bat

SameBat(d, e, H) == \A b \in Blocks \ H : e.bat[b] = d.bat[b]

(* A call of the allocator: no block, or a free one with its owner         *)
Took(c, P, e, H, owner, r) ==
  \/ r.no = 0 /\ r.c = e
  \/ /\ r.no \in (Blocks \ {0}) \ (P \cup H)
     /\ Mid(c, P, r.c, H \cup {r.no}) /\ r.c.bat[r.no] = owner
     /\ SameBat(e, r.c, {r.no})

LEMMA Allocated ==
  ASSUME NEW c, NEW P, NEW e, NEW H, Mid(c, P, e, H), NEW owner
  PROVE  Took(c, P, e, H, owner, AllocBlock(e, owner))
<1> DEFINE pool == FreePool(e)
           b == CHOOSE x \in pool : \A y \in pool : x <= y
           r == AllocBlock(e, owner)
           d == [e EXCEPT !.bitmap[b] = TRUE, !.bat[b] = owner, !.dirty = TRUE]
<1>1. pool = {x \in Blocks \ {0} : Free(e, x)}
  BY Sizes DEF FreePool, Free, Blocks
<1>2. CASE pool = {}
  <2>1. r = [no |-> 0, c |-> e]
    BY <1>2 DEF AllocBlock
  <2> HIDE DEF r
  <2>2. r.no = 0 /\ r.c = e
    BY <2>1
  <2> QED
    BY <2>2 DEF Took, r
<1>3. CASE pool # {}
  <2>1. b \in pool
    <3>1. pool \subseteq Nat
      BY <1>1 DEF Blocks
    <3>2. \E x \in pool : \A y \in pool : x <= y
      BY <1>3, <3>1, Least
    <3> QED
      BY <3>2
  <2>2. r = [no |-> b, c |-> d]
    BY <1>3 DEF AllocBlock
  <2> HIDE DEF b, r
  <2>3. r.no = b /\ r.c = d
    BY <2>2
  <2>4. b \in Blocks \ {0} /\ Free(e, b) /\ b \notin P \cup H
    BY <1>1, <2>1 DEF Mid
  <2>5. /\ e = [out |-> c.out, root |-> c.root, bitmap |-> e.bitmap, bat |-> e.bat,
                inob |-> c.inob, dirty |-> e.dirty]
        /\ e.bitmap \in [Blocks -> BOOLEAN] /\ e.bat = [a \in Blocks |-> e.bat[a]]
    BY DEF Mid
  <2> DEFINE bm == [e.bitmap EXCEPT ![b] = TRUE]
             bt == [e.bat EXCEPT ![b] = owner]
  <2>0. d = [e EXCEPT !.bitmap = bm, !.bat = bt, !.dirty = TRUE]
    OBVIOUS
  <2> HIDE DEF bm, bt
  <2> HIDE DEF d
  <2>11. e = [out |-> c.out, root |-> c.root, bitmap |-> e.bitmap, bat |-> e.bat,
                inob |-> c.inob, dirty |-> e.dirty]
    BY <2>5
  <2>12. d = [out |-> d.out, root |-> d.root, bitmap |-> d.bitmap, bat |-> d.bat,
                inob |-> d.inob, dirty |-> d.dirty]
    BY <2>0, <2>11
  <2>6. /\ d.out = c.out /\ d.root = c.root /\ d.inob = c.inob /\ d.dirty = TRUE
        /\ d.bitmap = bm /\ d.bat = bt
    BY <2>0, <2>11
  <2> USE DEF bm, bt
  <2> HIDE DEF d
  <2>7. /\ d.bitmap \in [Blocks -> BOOLEAN] /\ d.bat = [a \in Blocks |-> d.bat[a]]
        /\ d.bitmap[b] = TRUE /\ d.bat[b] = owner /\ d.dirty = TRUE
        /\ \A a \in Blocks : a # b => d.bitmap[a] = e.bitmap[a] /\ d.bat[a] = e.bat[a]
    BY <2>4, <2>5, <2>6
  <2>8. \A a \in Blocks \ {0} : Free(d, a) <=> Free(e, a) /\ a # b
    BY <2>7 DEF Free
  <2>9. Mid(c, P, d, H \cup {b})
    <3>1. P \cap (H \cup {b}) = {} /\ H \cup {b} \subseteq Blocks \ {0}
      BY <2>4 DEF Mid
    <3>2. \A a \in Blocks \ {0} : Free(d, a) <=> a \notin P \cup (H \cup {b})
      BY <2>8 DEF Mid
    <3>3. \A a \in P : d.bat[a] = c.bat[a]
      BY <2>4, <2>7 DEF Mid
    <3> QED
      BY <2>12, <2>6, <2>7, <3>1, <3>2, <3>3 DEF Mid
  <2>10. SameBat(e, d, {b})
    BY <2>7 DEF SameBat
  <2> QED
    BY <2>3, <2>4, <2>7, <2>9, <2>10 DEF r, Took
<1> QED
  BY <1>2, <1>3

LEMMA Released ==
  ASSUME NEW c, NEW P, NEW e, NEW H, Mid(c, P, e, H), NEW b \in (Blocks \ {0}) \ P
  PROVE  LET d == FreeBlock(e, b)
         IN Mid(c, P, d, H \ {b}) /\ SameBat(e, d, {b})
<1> DEFINE d == FreeBlock(e, b)
<1>1. /\ e = [out |-> c.out, root |-> c.root, bitmap |-> e.bitmap, bat |-> e.bat,
              inob |-> c.inob, dirty |-> e.dirty]
      /\ e.bitmap \in [Blocks -> BOOLEAN] /\ e.bat = [a \in Blocks |-> e.bat[a]]
  BY DEF Mid
<1>2. d = [e EXCEPT !.bitmap[b] = FALSE, !.bat[b] = NoOwner, !.dirty = TRUE]
  BY DEF FreeBlock
<1> HIDE DEF d
<1> DEFINE bm == [e.bitmap EXCEPT ![b] = FALSE]
           bt == [e.bat EXCEPT ![b] = NoOwner]
<1>9. d = [e EXCEPT !.bitmap = bm, !.bat = bt, !.dirty = TRUE]
  BY <1>2
<1> HIDE DEF bm, bt
<1>11. e = [out |-> c.out, root |-> c.root, bitmap |-> e.bitmap, bat |-> e.bat,
              inob |-> c.inob, dirty |-> e.dirty]
  BY <1>1
<1>12. d = [out |-> d.out, root |-> d.root, bitmap |-> d.bitmap, bat |-> d.bat,
              inob |-> d.inob, dirty |-> d.dirty]
  BY <1>9, <1>11
<1>3. /\ d.out = c.out /\ d.root = c.root /\ d.inob = c.inob /\ d.dirty = TRUE
      /\ d.bitmap = bm /\ d.bat = bt
  BY <1>9, <1>11
<1> USE DEF bm, bt
<1>4. /\ d.bitmap \in [Blocks -> BOOLEAN] /\ d.bat = [a \in Blocks |-> d.bat[a]]
      /\ d.bitmap[b] = FALSE /\ d.bat[b] = NoOwner /\ d.dirty = TRUE
      /\ \A a \in Blocks : a # b => d.bitmap[a] = e.bitmap[a] /\ d.bat[a] = e.bat[a]
  BY <1>1, <1>3
<1>5. \A a \in Blocks \ {0} : Free(d, a) <=> Free(e, a) \/ a = b
  BY <1>4 DEF Free
<1>6. Mid(c, P, d, H \ {b})
  <2>1. P \cap (H \ {b}) = {} /\ H \ {b} \subseteq Blocks \ {0}
    BY DEF Mid
  <2>2. \A a \in Blocks \ {0} : Free(d, a) <=> a \notin P \cup (H \ {b})
    BY <1>5 DEF Mid
  <2>3. \A a \in P : d.bat[a] = c.bat[a]
    BY <1>4 DEF Mid
  <2> QED
    BY <1>3, <1>4, <1>12, <2>1, <2>2, <2>3 DEF Mid
<1>7. SameBat(e, d, {b})
  BY <1>4 DEF SameBat
<1> QED
  BY <1>6, <1>7 DEF d

(* Blocks are given back one after the other.                             *)
Frees(f, base, n, seq) ==
  /\ f[0] = base
  /\ \A k \in 1 .. n : f[k] = FreeBlock(f[k - 1], seq[k])

LEMMA FreeFold ==
  ASSUME NEW base, NEW n \in Nat, NEW seq, DOMAIN seq = 1 .. n
  PROVE  \E f : Frees(f, base, n, seq) /\ FreeBlocks(base, seq) = f[n]
<1> DEFINE Op(x, k) == FreeBlock(x, seq[k])
           Iter(m, g) == g = [s \in SUBSET (1 .. m) |->
                                IF s = {} THEN base ELSE Op(g[s \ {Max(s)}], Max(s))]
           T == {m \in 0 .. n : \E g : Iter(m, g)}
<1> HIDE DEF Op
<1>1. 0 \in T
  <2> DEFINE h == [s \in SUBSET (1 .. 0) |-> base]
  <2>1. \A s \in SUBSET (1 .. 0) : s = {}
    OBVIOUS
  <2>2. \A s \in SUBSET (1 .. 0) :
          h[s] = IF s = {} THEN base ELSE Op(h[s \ {Max(s)}], Max(s))
    BY <2>1
  <2>3. h = [s \in SUBSET (1 .. 0) |-> h[s]]
    OBVIOUS
  <2> HIDE DEF h
  <2>4. Iter(0, h)
    BY <2>2, <2>3
  <2>5. 0 \in 0 .. n
    OBVIOUS
  <2> HIDE DEF Iter
  <2> QED
    BY <2>4, <2>5
<1>2. ASSUME NEW m \in 1 .. n, m - 1 \in T PROVE m \in T
  <2>1. PICK g : Iter(m - 1, g)
    BY <1>2
  <2> DEFINE h == [s \in SUBSET (1 .. m) |-> IF m \in s THEN Op(g[s \ {m}], m) ELSE g[s]]
  <2>2. ASSUME NEW s \in SUBSET (1 .. m)
        PROVE  h[s] = IF s = {} THEN base ELSE Op(h[s \ {Max(s)}], Max(s))
    <3>1. CASE m \in s
      <4>1. Max(s) = m
        <5>1. m \in Nat /\ s # {} /\ \A x \in s : x \in 1 .. m
          BY <3>1
        <5>2. Max(s) \in s /\ m <= Max(s)
          BY <3>1, <5>1, Greatest
        <5>3. Max(s) \in 1 .. m
          BY <5>1, <5>2
        <5> QED
          BY <5>1, <5>2, <5>3
      <4>2. s \ {m} \in SUBSET (1 .. m) /\ m \notin s \ {m}
        OBVIOUS
      <4> QED
        BY <3>1, <4>1, <4>2
    <3>2. CASE m \notin s
      <4>1. s \in SUBSET (1 .. m - 1)
        BY <3>2
      <4>2. s # {} => s \ {Max(s)} \in SUBSET (1 .. m) /\ m \notin s \ {Max(s)}
        BY <3>2
      <4>3. g[s] = IF s = {} THEN base ELSE Op(g[s \ {Max(s)}], Max(s))
        BY <2>1, <4>1
      <4> QED
        BY <3>2, <4>2, <4>3
    <3> QED
      BY <3>1, <3>2
  <2>3. h = [s \in SUBSET (1 .. m) |-> h[s]]
    OBVIOUS
  <2> HIDE DEF h
  <2>4. Iter(m, h)
    BY <2>2, <2>3
  <2>5. m \in 0 .. n
    OBVIOUS
  <2> HIDE DEF Iter
  <2> QED
    BY <2>4, <2>5
<1> HIDE DEF T
<1>3. \A m \in 0 .. n : m \in T
  BY <1>1, <1>2, UpTo
<1>4. \E g : Iter(n, g)
  <2>1. n \in T
    BY <1>3
  <2> HIDE DEF Iter
  <2> QED
    BY <2>1 DEF T
<1> DEFINE g == CHOOSE g : Iter(n, g)
           f == [k \in 0 .. n |-> g[1 .. k]]
<1>5. Iter(n, g)
  BY <1>4
<1>6. FreeBlocks(base, seq) = g[1 .. n]
  BY DEF FoldLeft, MapThenFoldSet, Op, FreeBlocks
<1> HIDE DEF g
<1>7. f[0] = base
  <2>1. {} \in SUBSET (1 .. n)
    OBVIOUS
  <2>2. g[{}] = base
    BY <1>5, <2>1
  <2>3. 1 .. 0 = {} /\ 0 \in 0 .. n
    OBVIOUS
  <2> QED
    BY <2>2, <2>3
<1>8. ASSUME NEW k \in 1 .. n PROVE f[k] = Op(f[k - 1], k)
  <2>1. g[1 .. k] = Op(g[1 .. (k - 1)], k)
    <3>1. /\ 1 .. k \in SUBSET (1 .. n) /\ 1 .. k # {} /\ Max(1 .. k) = k
          /\ (1 .. k) \ {k} = 1 .. (k - 1)
      BY FirstOnes
    <3>2. \A s \in SUBSET (1 .. n) :
            g[s] = IF s = {} THEN base ELSE Op(g[s \ {Max(s)}], Max(s))
      BY <1>5
    <3> QED
      BY <3>1, <3>2
  <2>2. k \in 0 .. n /\ k - 1 \in 0 .. n
    OBVIOUS
  <2> QED
    BY <2>1, <2>2
<1>9. \A k \in 1 .. n : Op(f[k - 1], k) = FreeBlock(f[k - 1], seq[k])
  BY DEF Op
<1>10. f[n] = g[1 .. n]
  OBVIOUS
<1> HIDE DEF f
<1>11. \A k \in 1 .. n : f[k] = FreeBlock(f[k - 1], seq[k])
  BY <1>8, <1>9
<1>12. Frees(f, base, n, seq)
  BY <1>7, <1>11 DEF Frees
<1> QED
  BY <1>6, <1>10, <1>12

LEMMA Freed ==
  ASSUME NEW c, NEW P, NEW e, NEW H, Mid(c, P, e, H), NEW bs \in Seq((Blocks \ {0}) \ P)
  PROVE  LET d == FreeBlocks(e, bs)
         IN Mid(c, P, d, H \ ToSet(bs)) /\ SameBat(e, d, ToSet(bs))
<1> DEFINE n == Len(bs)
           B == (Blocks \ {0}) \ P
           Upto(k) == {bs[j] : j \in 1 .. k}
           d == FreeBlocks(e, bs)
<1>1. n \in Nat /\ DOMAIN bs = 1 .. n /\ \A k \in 1 .. n : bs[k] \in B
  OBVIOUS
<1> HIDE DEF n, B
<1>2. PICK f : Frees(f, e, n, bs) /\ FreeBlocks(e, bs) = f[n]
  BY <1>1, FreeFold
<1> HIDE DEF d
<1> DEFINE Good(k) == Mid(c, P, f[k], H \ Upto(k)) /\ SameBat(e, f[k], Upto(k))
           T == {k \in 0 .. n : Good(k)}
<1>3. 0 \in T
  <2>1. Upto(0) = {} /\ H \ Upto(0) = H
    OBVIOUS
  <2>2. Mid(c, P, f[0], H \ Upto(0))
    BY <1>2, <2>1 DEF Frees
  <2>3. SameBat(e, f[0], Upto(0))
    BY <1>2 DEF SameBat, Frees
  <2> QED
    BY <1>1, <2>2, <2>3
<1>4. ASSUME NEW k \in 1 .. n, k - 1 \in T PROVE k \in T
  <2>1. Good(k - 1) /\ k \in 0 .. n
    <3> HIDE DEF Good
    <3> QED
      BY <1>1, <1>4
  <2>2. bs[k] \in (Blocks \ {0}) \ P
    BY <1>1 DEF B
  <2>3. Upto(k) = Upto(k - 1) \cup {bs[k]}
    <3>1. 1 .. k = (1 .. (k - 1)) \cup {k}
      BY <1>1
    <3> QED
      BY <3>1
  <2> HIDE DEF Upto
  <2>4. /\ Mid(c, P, f[k], (H \ Upto(k - 1)) \ {bs[k]})
        /\ SameBat(f[k - 1], f[k], {bs[k]})
    <3>1. f[k] = FreeBlock(f[k - 1], bs[k])
      BY <1>2 DEF Frees
    <3> DEFINE g == f[k - 1]
               b == bs[k]
               G == H \ Upto(k - 1)
    <3>2. Mid(c, P, g, G) /\ b \in (Blocks \ {0}) \ P
      BY <2>1, <2>2
    <3>3. f[k] = FreeBlock(g, b)
      BY <3>1
    <3> HIDE DEF g, b, G
    <3>4. Mid(c, P, FreeBlock(g, b), G \ {b}) /\ SameBat(g, FreeBlock(g, b), {b})
      BY <3>2, Released
    <3>5. Mid(c, P, f[k], G \ {b}) /\ SameBat(g, f[k], {b})
      BY <3>3, <3>4
    <3> QED
      BY <3>5 DEF g, b, G
  <2>5. (H \ Upto(k - 1)) \ {bs[k]} = H \ Upto(k)
    BY <2>3
  <2>6. SameBat(e, f[k], Upto(k))
    BY <2>1, <2>3, <2>4 DEF SameBat
  <2> QED
    BY <2>1, <2>4, <2>5, <2>6
<1> HIDE DEF T
<1>5. \A k \in 0 .. n : k \in T
  BY <1>1, <1>3, <1>4, UpTo
<1>6. Good(n)
  <2>1. n \in T
    BY <1>1, <1>5
  <2> HIDE DEF Good
  <2> QED
    BY <2>1 DEF T
<1>7. Upto(n) = ToSet(bs)
  BY <1>1 DEF ToSet
<1> QED
  BY <1>2, <1>6, <1>7 DEF d

-----------------------------------------------------------------------------
(* The blocks of inode i, on the way from c: data blocks phys and, in K,   *)
(* the indirect block ib if it has one, each with its entry in the BAT     *)
IndOf(n, ib) == IF n > NDirect THEN {ib} ELSE {}

Has(c, P, e, i, phys, ib, K) ==
  /\ phys \in Seq(Blocks) /\ Distinct(phys)
  /\ K \in {{}, {ib}} /\ K \cap ToSet(phys) = {}
  /\ Mid(c, P, e, ToSet(phys) \cup K)
  /\ \A k \in 1 .. Len(phys) : e.bat[phys[k]] = OwnerOfSlot(i, k - 1, ib)
  /\ \A b \in K : e.bat[b] = i

LEMMA SeqSet ==
  ASSUME NEW S, NEW s \in Seq(S)
  PROVE  /\ Len(s) \in Nat /\ DOMAIN s = 1 .. Len(s) /\ ToSet(s) \subseteq S
         /\ ToSet(s) = {s[k] : k \in 1 .. Len(s)}
         /\ \A k \in 1 .. Len(s) : s[k] \in S /\ s[k] \in ToSet(s)
<1>1. Len(s) \in Nat /\ DOMAIN s = 1 .. Len(s) /\ \A k \in 1 .. Len(s) : s[k] \in S
  OBVIOUS
<1>2. ToSet(s) = {s[k] : k \in 1 .. Len(s)}
  BY <1>1 DEF ToSet
<1> QED
  BY <1>1, <1>2

LEMMA AppendSet ==
  ASSUME NEW S, NEW s \in Seq(S), NEW x \in S
  PROVE  /\ Append(s, x) \in Seq(S) /\ Len(Append(s, x)) = Len(s) + 1
         /\ \A k \in 1 .. Len(s) : Append(s, x)[k] = s[k]
         /\ Append(s, x)[Len(s) + 1] = x
         /\ ToSet(Append(s, x)) = ToSet(s) \cup {x}
<1> DEFINE t == Append(s, x)
           n == Len(s)
<1>1. /\ t \in Seq(S) /\ Len(t) = n + 1 /\ n \in Nat
      /\ \A k \in 1 .. n : t[k] = s[k]
      /\ t[n + 1] = x
  OBVIOUS
<1>2. DOMAIN s = 1 .. n /\ DOMAIN t = 1 .. n + 1
  BY <1>1
<1> HIDE DEF t, n
<1>3. 1 .. n + 1 = (1 .. n) \cup {n + 1}
  BY <1>1
<1>4. ToSet(t) = ToSet(s) \cup {x}
  BY <1>1, <1>2, <1>3 DEF ToSet
<1> QED
  BY <1>1, <1>4 DEF t, n

LEMMA Extended ==
  ASSUME NEW c, NEW P, NEW e, NEW i, NEW phys, NEW ib, NEW K, Has(c, P, e, i, phys, ib, K),
         NEW d, NEW b \in (Blocks \ {0}) \ (P \cup (ToSet(phys) \cup K)),
         Mid(c, P, d, (ToSet(phys) \cup K) \cup {b}),
         d.bat[b] = OwnerOfSlot(i, Len(phys), ib), SameBat(e, d, {b})
  PROVE  Has(c, P, d, i, Append(phys, b), ib, K)
<1> DEFINE q == Append(phys, b)
           n == Len(phys)
<1>1. phys \in Seq(Blocks) /\ b \in Blocks /\ Distinct(phys) /\ K \in {{}, {ib}}
      /\ K \cap ToSet(phys) = {}
  BY DEF Has
<1>2. /\ n \in Nat /\ DOMAIN phys = 1 .. n
      /\ \A k \in 1 .. n : phys[k] \in Blocks /\ phys[k] \in ToSet(phys)
  BY <1>1, SeqSet
<1>3. /\ q \in Seq(Blocks) /\ Len(q) = n + 1 /\ q[n + 1] = b
      /\ \A k \in 1 .. n : q[k] = phys[k]
      /\ ToSet(q) = ToSet(phys) \cup {b}
  BY <1>1, AppendSet
<1>4. DOMAIN q = 1 .. n + 1
  BY <1>3
<1> HIDE DEF q, n
<1>5. \A k \in 1 .. n + 1 : k \in 1 .. n \/ k = n + 1
  BY <1>2
<1>6. Distinct(q)
  <2>1. \A j, k \in 1 .. n : phys[j] = phys[k] => j = k
    BY <1>1, <1>2 DEF Distinct
  <2>2. \A k \in 1 .. n : phys[k] # b
    BY <1>2
  <2> QED
    BY <1>3, <1>4, <1>5, <2>1, <2>2 DEF Distinct
<1>7. Mid(c, P, d, ToSet(q) \cup K)
  <2>1. (ToSet(phys) \cup K) \cup {b} = ToSet(q) \cup K
    BY <1>3
  <2> QED
    BY <2>1
<1>8. \A k \in 1 .. n + 1 : d.bat[q[k]] = OwnerOfSlot(i, k - 1, ib)
  <2>1. ASSUME NEW k \in 1 .. n PROVE d.bat[q[k]] = OwnerOfSlot(i, k - 1, ib)
    <3>1. e.bat[phys[k]] = OwnerOfSlot(i, k - 1, ib)
      BY DEF Has, n
    <3>2. phys[k] \in Blocks /\ phys[k] # b
      BY <1>2
    <3> QED
      BY <1>3, <3>1, <3>2 DEF SameBat
  <2>2. d.bat[q[n + 1]] = OwnerOfSlot(i, n, ib)
    BY <1>3 DEF n
  <2>3. ASSUME NEW k \in 1 .. n + 1 PROVE d.bat[q[k]] = OwnerOfSlot(i, k - 1, ib)
    <3>1. CASE k \in 1 .. n
      BY <2>1, <3>1
    <3>2. CASE k = n + 1
      <4>1. k - 1 = n
        BY <1>2, <3>2
      <4> QED
        BY <2>2, <3>2, <4>1
    <3> QED
      BY <1>5, <3>1, <3>2
  <2> QED
    BY <2>3
<1>9. \A a \in K : d.bat[a] = i
  <2>1. \A a \in K : a # b /\ a \in Blocks /\ e.bat[a] = i
    BY DEF Has, Mid
  <2> QED
    BY <2>1 DEF SameBat
<1>10. K \cap ToSet(q) = {}
  BY <1>1, <1>3
<1>11. Has(c, P, d, i, q, ib, K)
  BY <1>1, <1>3, <1>6, <1>7, <1>8, <1>9, <1>10 DEF Has
<1> QED
  BY <1>11 DEF q

(* One more block for a file                                               *)
TakeBlock(r, i, ib, k) ==
  LET b == AllocBlock(r.c, OwnerOfSlot(i, k, ib))
  IN IF ~r.ok THEN r ELSE [r EXCEPT !.ok = b.no # 0, !.c = b.c, !.phys = Append(@, b.no)]
TakeBlocks(i, ib, base, seq) == FoldLeft(LAMBDA r, k : TakeBlock(r, i, ib, k), base, seq)

Takes(f, i, ib, base, n, seq) ==
  /\ f[0] = base
  /\ \A k \in 1 .. n : f[k] = TakeBlock(f[k - 1], i, ib, seq[k])

LEMMA TakeFold ==
  ASSUME NEW i, NEW ib, NEW base, NEW n \in Nat, NEW seq, DOMAIN seq = 1 .. n
  PROVE  \E f : Takes(f, i, ib, base, n, seq) /\ TakeBlocks(i, ib, base, seq) = f[n]
<1> DEFINE Op(x, k) == TakeBlock(x, i, ib, seq[k])
           Iter(m, g) == g = [s \in SUBSET (1 .. m) |->
                                IF s = {} THEN base ELSE Op(g[s \ {Max(s)}], Max(s))]
           T == {m \in 0 .. n : \E g : Iter(m, g)}
<1> HIDE DEF Op
<1>1. 0 \in T
  <2> DEFINE h == [s \in SUBSET (1 .. 0) |-> base]
  <2>1. \A s \in SUBSET (1 .. 0) : s = {}
    OBVIOUS
  <2>2. \A s \in SUBSET (1 .. 0) :
          h[s] = IF s = {} THEN base ELSE Op(h[s \ {Max(s)}], Max(s))
    BY <2>1
  <2>3. h = [s \in SUBSET (1 .. 0) |-> h[s]]
    OBVIOUS
  <2> HIDE DEF h
  <2>4. Iter(0, h)
    BY <2>2, <2>3
  <2>5. 0 \in 0 .. n
    OBVIOUS
  <2> HIDE DEF Iter
  <2> QED
    BY <2>4, <2>5
<1>2. ASSUME NEW m \in 1 .. n, m - 1 \in T PROVE m \in T
  <2>1. PICK g : Iter(m - 1, g)
    BY <1>2
  <2> DEFINE h == [s \in SUBSET (1 .. m) |-> IF m \in s THEN Op(g[s \ {m}], m) ELSE g[s]]
  <2>2. ASSUME NEW s \in SUBSET (1 .. m)
        PROVE  h[s] = IF s = {} THEN base ELSE Op(h[s \ {Max(s)}], Max(s))
    <3>1. CASE m \in s
      <4>1. Max(s) = m
        <5>1. m \in Nat /\ s # {} /\ \A x \in s : x \in 1 .. m
          BY <3>1
        <5>2. Max(s) \in s /\ m <= Max(s)
          BY <3>1, <5>1, Greatest
        <5>3. Max(s) \in 1 .. m
          BY <5>1, <5>2
        <5> QED
          BY <5>1, <5>2, <5>3
      <4>2. s \ {m} \in SUBSET (1 .. m) /\ m \notin s \ {m}
        OBVIOUS
      <4> QED
        BY <3>1, <4>1, <4>2
    <3>2. CASE m \notin s
      <4>1. s \in SUBSET (1 .. m - 1)
        BY <3>2
      <4>2. s # {} => s \ {Max(s)} \in SUBSET (1 .. m) /\ m \notin s \ {Max(s)}
        BY <3>2
      <4>3. g[s] = IF s = {} THEN base ELSE Op(g[s \ {Max(s)}], Max(s))
        BY <2>1, <4>1
      <4> QED
        BY <3>2, <4>2, <4>3
    <3> QED
      BY <3>1, <3>2
  <2>3. h = [s \in SUBSET (1 .. m) |-> h[s]]
    OBVIOUS
  <2> HIDE DEF h
  <2>4. Iter(m, h)
    BY <2>2, <2>3
  <2>5. m \in 0 .. n
    OBVIOUS
  <2> HIDE DEF Iter
  <2> QED
    BY <2>4, <2>5
<1> HIDE DEF T
<1>3. \A m \in 0 .. n : m \in T
  BY <1>1, <1>2, UpTo
<1>4. \E g : Iter(n, g)
  <2>1. n \in T
    BY <1>3
  <2> HIDE DEF Iter
  <2> QED
    BY <2>1 DEF T
<1> DEFINE g == CHOOSE g : Iter(n, g)
           f == [k \in 0 .. n |-> g[1 .. k]]
<1>5. Iter(n, g)
  BY <1>4
<1>6. TakeBlocks(i, ib, base, seq) = g[1 .. n]
  BY DEF FoldLeft, MapThenFoldSet, Op, TakeBlocks
<1> HIDE DEF g
<1>7. f[0] = base
  <2>1. {} \in SUBSET (1 .. n)
    OBVIOUS
  <2>2. g[{}] = base
    BY <1>5, <2>1
  <2>3. 1 .. 0 = {} /\ 0 \in 0 .. n
    OBVIOUS
  <2> QED
    BY <2>2, <2>3
<1>8. ASSUME NEW k \in 1 .. n PROVE f[k] = Op(f[k - 1], k)
  <2>1. g[1 .. k] = Op(g[1 .. (k - 1)], k)
    <3>1. /\ 1 .. k \in SUBSET (1 .. n) /\ 1 .. k # {} /\ Max(1 .. k) = k
          /\ (1 .. k) \ {k} = 1 .. (k - 1)
      BY FirstOnes
    <3>2. \A s \in SUBSET (1 .. n) :
            g[s] = IF s = {} THEN base ELSE Op(g[s \ {Max(s)}], Max(s))
      BY <1>5
    <3> QED
      BY <3>1, <3>2
  <2>2. k \in 0 .. n /\ k - 1 \in 0 .. n
    OBVIOUS
  <2> QED
    BY <2>1, <2>2
<1>9. \A k \in 1 .. n : Op(f[k - 1], k) = TakeBlock(f[k - 1], i, ib, seq[k])
  BY DEF Op
<1>10. f[n] = g[1 .. n]
  OBVIOUS
<1> HIDE DEF f
<1>11. \A k \in 1 .. n : f[k] = TakeBlock(f[k - 1], i, ib, seq[k])
  BY <1>8, <1>9
<1>12. Takes(f, i, ib, base, n, seq)
  BY <1>7, <1>11 DEF Takes
<1> QED
  BY <1>6, <1>10, <1>12

(* Where the taking stands: the blocks so far, unless the pool ran dry     *)
Taken(c, P, i, ib, K, r, n) ==
  /\ r = [ok |-> r.ok, c |-> r.c, ib |-> r.ib, phys |-> r.phys]
  /\ r.ok \in BOOLEAN /\ r.ib = ib
  /\ \E H : Mid(c, P, r.c, H)
  /\ r.ok => Has(c, P, r.c, i, r.phys, ib, K) /\ Len(r.phys) = n

LEMMA TakenMore ==
  ASSUME NEW c, NEW P, NEW i, NEW ib, NEW K, NEW r, NEW n \in Nat, Taken(c, P, i, ib, K, r, n)
  PROVE  Taken(c, P, i, ib, K, TakeBlock(r, i, ib, n), n + 1)
<1> DEFINE b == AllocBlock(r.c, OwnerOfSlot(i, n, ib))
           t == TakeBlock(r, i, ib, n)
<1>1. CASE ~r.ok
  <2>1. t = r
    BY <1>1 DEF TakeBlock
  <2> QED
    BY <1>1, <2>1 DEF Taken
<1>2. CASE r.ok
  <2>1. t = [r EXCEPT !.ok = b.no # 0, !.c = b.c, !.phys = Append(@, b.no)]
    BY <1>2 DEF TakeBlock
  <2>2. r = [ok |-> r.ok, c |-> r.c, ib |-> r.ib, phys |-> r.phys] /\ r.ib = ib
    BY DEF Taken
  <2> DEFINE e == r.c
             phys == r.phys
             okay == b.no # 0
             q == Append(phys, b.no)
  <2>3. Has(c, P, e, i, phys, ib, K) /\ Len(phys) = n
    BY <1>2 DEF Taken
  <2>4. Mid(c, P, e, ToSet(phys) \cup K)
    BY <2>3 DEF Has
  <2>5. \/ b.no = 0 /\ b.c = e
        \/ /\ b.no \in (Blocks \ {0}) \ (P \cup (ToSet(phys) \cup K))
           /\ Mid(c, P, b.c, (ToSet(phys) \cup K) \cup {b.no})
           /\ b.c.bat[b.no] = OwnerOfSlot(i, n, ib)
           /\ SameBat(e, b.c, {b.no})
    <3>1. Took(c, P, e, ToSet(phys) \cup K, OwnerOfSlot(i, n, ib), b)
      BY <2>4, Allocated
    <3> HIDE DEF b, e, phys
    <3> QED
      BY <3>1 DEF Took
  <2>6. /\ t = [ok |-> t.ok, c |-> t.c, ib |-> t.ib, phys |-> t.phys]
        /\ t.ok = okay /\ t.c = b.c /\ t.ib = ib /\ t.phys = q
    <3>1. t = [r EXCEPT !.ok = okay, !.c = b.c, !.phys = q]
      BY <2>1
    <3> HIDE DEF okay, b, q, t
    <3> QED
      BY <2>2, <3>1
  <2>7. okay \in BOOLEAN
    OBVIOUS
  <2> HIDE DEF b, t
  <2>8. CASE b.no = 0
    <3>1. ~okay /\ Mid(c, P, b.c, ToSet(phys) \cup K)
      BY <2>4, <2>5, <2>8
    <3> HIDE DEF okay, q
    <3> QED
      BY <2>6, <2>7, <3>1 DEF Taken, t
  <2>9. CASE b.no # 0
    <3>1. Has(c, P, b.c, i, q, ib, K)
      BY <2>3, <2>5, <2>9, Extended
    <3>2. Len(q) = n + 1
      <4>1. phys \in Seq(Blocks) /\ b.no \in Blocks
        BY <2>3, <2>5, <2>9 DEF Has
      <4> QED
        BY <2>3, <4>1, AppendSet
    <3>3. Mid(c, P, b.c, (ToSet(phys) \cup K) \cup {b.no})
      BY <2>5, <2>9
    <3> HIDE DEF okay, q
    <3> QED
      BY <2>6, <2>7, <3>1, <3>2, <3>3 DEF Taken, t
  <2> QED
    BY <2>8, <2>9
<1> QED
  BY <1>1, <1>2 DEF Taken

(* Reserving is taking block after block, for the slots still without one. *)
FirstOf(c, i, ib0, old, to) ==
  IF LacksInd(old, to) THEN AllocBlock(c, i) ELSE [no |-> ib0, c |-> c]
KeptOf(old, to) == SubSeq(old, 1, IF Len(old) < to THEN Len(old) ELSE to)
Begun(a, old, to) ==
  [ok |-> ~LacksInd(old, to) \/ a.no # 0, c |-> a.c, ib |-> a.no, phys |-> KeptOf(old, to)]

LEMMA ReserveIs ==
  ASSUME NEW c, NEW i, NEW ib0, NEW old, NEW to
  PROVE  LET a == FirstOf(c, i, ib0, old, to)
         IN Reserve(c, i, ib0, old, to)
              = TakeBlocks(i, a.no, Begun(a, old, to),
                           [j \in 1 .. (to - Len(KeptOf(old, to))) |-> Len(old) + j - 1])
BY DEF Reserve, Begun, FirstOf, KeptOf, TakeBlocks, TakeBlock

LEMMA Grown ==
  ASSUME NEW c, NEW P, NEW i, NEW old, NEW ib0, NEW to \in Nat, Len(old) <= to,
         Has(c, P, c, i, old, ib0, IndOf(Len(old), ib0))
  PROVE  LET r == Reserve(c, i, ib0, old, to)
         IN /\ r.ok \in BOOLEAN /\ \E H : Mid(c, P, r.c, H)
            /\ r.ok => Has(c, P, r.c, i, r.phys, r.ib, IndOf(to, r.ib)) /\ Len(r.phys) = to
<1> DEFINE r == Reserve(c, i, ib0, old, to)
           a == FirstOf(c, i, ib0, old, to)
           b == Begun(a, old, to)
           n == Len(old)
           H0 == ToSet(old) \cup IndOf(n, ib0)
           m == to - n
           K == IndOf(to, b.ib)
<1>1. /\ old \in Seq(Blocks) /\ n \in Nat /\ NDirect \in Nat /\ m \in Nat
      /\ \A k \in 1 .. n : old[k] \in Blocks /\ old[k] \in ToSet(old)
  <2>1. old \in Seq(Blocks)
    BY DEF Has
  <2> QED
    BY <2>1, SeqSet, Sizes
<1>2. Mid(c, P, c, H0)
  BY DEF Has
<1>3. KeptOf(old, to) = old
  <2>1. (IF n < to THEN n ELSE to) = n
    BY <1>1
  <2>2. SubSeq(old, 1, n) = old
    BY <1>1
  <2> QED
    BY <2>1, <2>2 DEF KeptOf
<1>4. Taken(c, P, i, b.ib, K, b, n)
  <2>1. CASE LacksInd(old, to)
    <3> DEFINE okay == a.no # 0
    <3>0. a = AllocBlock(c, i)
      BY <2>1 DEF FirstOf
    <3> HIDE DEF a
    <3>1. b = [ok |-> okay, c |-> a.c, ib |-> a.no, phys |-> old]
      BY <1>3, <2>1 DEF Begun
    <3>2. \/ a.no = 0 /\ a.c = c
          \/ /\ a.no \in (Blocks \ {0}) \ (P \cup H0) /\ Mid(c, P, a.c, H0 \cup {a.no})
             /\ a.c.bat[a.no] = i /\ SameBat(c, a.c, {a.no})
      <4> HIDE DEF H0
      <4>1. Took(c, P, c, H0, i, a)
        BY <1>2, <3>0, Allocated
      <4> QED
        BY <4>1 DEF Took
    <3>3. okay \in BOOLEAN
      OBVIOUS
    <3>4. n <= NDirect /\ to > NDirect
      BY <1>1, <2>1 DEF LacksInd
    <3>5. IndOf(n, ib0) = {} /\ H0 = ToSet(old)
      BY <1>1, <3>4 DEF IndOf
    <3> HIDE DEF b, H0
    <3>6. CASE a.no = 0
      <4>1. ~okay /\ Mid(c, P, a.c, H0)
        BY <1>2, <3>2, <3>6
      <4> HIDE DEF okay
      <4> QED
        BY <3>1, <3>3, <4>1 DEF Taken
    <3>7. CASE a.no # 0
      <4>1. /\ a.no \in (Blocks \ {0}) \ (P \cup H0) /\ Mid(c, P, a.c, H0 \cup {a.no})
            /\ a.c.bat[a.no] = i /\ SameBat(c, a.c, {a.no})
        BY <3>2, <3>7
      <4>2. Has(c, P, a.c, i, old, a.no, {a.no})
        <5>1. \A k \in 1 .. n : a.c.bat[old[k]] = OwnerOfSlot(i, k - 1, a.no)
          <6>1. ASSUME NEW k \in 1 .. n PROVE a.c.bat[old[k]] = OwnerOfSlot(i, k - 1, a.no)
            <7>1. c.bat[old[k]] = OwnerOfSlot(i, k - 1, ib0)
              BY DEF Has
            <7>2. k - 1 < NDirect
              BY <1>1, <3>4
            <7>3. a.c.bat[old[k]] = c.bat[old[k]]
              BY <1>1, <3>5, <4>1 DEF SameBat
            <7> QED
              BY <7>1, <7>2, <7>3 DEF OwnerOfSlot
          <6> QED
            BY <6>1
        <5>2. {a.no} \cap ToSet(old) = {}
          BY <3>5, <4>1
        <5>3. Distinct(old)
          BY DEF Has
        <5>4. Mid(c, P, a.c, ToSet(old) \cup {a.no})
          BY <3>5, <4>1
        <5> QED
          BY <1>1, <4>1, <5>1, <5>2, <5>3, <5>4 DEF Has
      <4>3. IndOf(to, a.no) = {a.no}
        BY <3>4 DEF IndOf
      <4>4. K = {a.no} /\ b.ib = a.no
        BY <3>1, <4>3
      <4> HIDE DEF okay, K
      <4> QED
        BY <3>1, <3>3, <4>1, <4>2, <4>4 DEF Taken
    <3> QED
      BY <3>6, <3>7
  <2>2. CASE ~LacksInd(old, to)
    <3>0. a = [no |-> ib0, c |-> c]
      BY <2>2 DEF FirstOf
    <3> HIDE DEF a
    <3>1. b = [ok |-> TRUE, c |-> c, ib |-> ib0, phys |-> old]
      BY <1>3, <2>2, <3>0 DEF Begun
    <3> HIDE DEF b
    <3>2. IndOf(to, ib0) = IndOf(n, ib0)
      BY <1>1, <2>2 DEF LacksInd, IndOf
    <3>3. Has(c, P, c, i, old, ib0, IndOf(to, ib0))
      BY <3>2
    <3> QED
      BY <1>2, <3>1, <3>3 DEF Taken
  <2> QED
    BY <2>1, <2>2
<1> DEFINE seq == [j \in 1 .. m |-> n + j - 1]
<1>5. r = TakeBlocks(i, b.ib, b, seq)
  <2>1. b.ib = a.no
    BY DEF Begun
  <2>2. r = TakeBlocks(i, a.no, b, [j \in 1 .. (to - Len(KeptOf(old, to))) |-> Len(old) + j - 1])
    BY ReserveIs
  <2> HIDE DEF r, b, a
  <2> QED
    BY <1>3, <2>1, <2>2
<1>6. DOMAIN seq = 1 .. m /\ \A j \in 1 .. m : seq[j] = n + (j - 1)
  BY <1>1
<1> HIDE DEF r, a, b, seq, n, m, K
<1>7. PICK f : Takes(f, i, b.ib, b, m, seq) /\ TakeBlocks(i, b.ib, b, seq) = f[m]
  BY <1>1, <1>6, TakeFold
<1> DEFINE Good(k) == Taken(c, P, i, b.ib, K, f[k], n + k)
           T == {k \in 0 .. m : Good(k)}
<1>8. 0 \in T
  <2>1. n + 0 = n /\ 0 \in 0 .. m
    BY <1>1
  <2> QED
    BY <1>4, <1>7, <2>1 DEF Takes
<1>9. ASSUME NEW k \in 1 .. m, k - 1 \in T PROVE k \in T
  <2>1. Good(k - 1)
    <3> HIDE DEF Good
    <3> QED
      BY <1>9
  <2>2. f[k] = TakeBlock(f[k - 1], i, b.ib, n + (k - 1))
    BY <1>6, <1>7 DEF Takes
  <2> DEFINE x == n + (k - 1)
  <2>3. x \in Nat /\ x + 1 = n + k /\ k \in 0 .. m
    BY <1>1
  <2>4. Taken(c, P, i, b.ib, K, f[k - 1], x)
    BY <2>1
  <2> HIDE DEF x
  <2>5. Taken(c, P, i, b.ib, K, TakeBlock(f[k - 1], i, b.ib, x), x + 1)
    BY <2>3, <2>4, TakenMore
  <2>6. Good(k)
    BY <2>2, <2>3, <2>5 DEF x
  <2> HIDE DEF Good
  <2> QED
    BY <2>3, <2>6
<1> HIDE DEF T
<1>10. \A k \in 0 .. m : k \in T
  BY <1>1, <1>8, <1>9, UpTo
<1>11. Taken(c, P, i, b.ib, K, r, to)
  <2>1. m \in T
    BY <1>1, <1>10
  <2>2. Good(m)
    <3> HIDE DEF Good
    <3> QED
      BY <2>1 DEF T
  <2>3. n + m = to
    BY <1>1 DEF m
  <2> QED
    BY <1>5, <1>7, <2>2, <2>3
<1>12. r.ib = b.ib /\ K = IndOf(to, r.ib)
  BY <1>11 DEF Taken, K
<1> QED
  BY <1>11, <1>12 DEF Taken, r

LEMMA Cut ==
  ASSUME NEW c, NEW P, NEW i, NEW old, NEW ib, NEW to \in Nat, to <= Len(old),
         Has(c, P, c, i, old, ib, IndOf(Len(old), ib))
  PROVE  LET q == SubSeq(old, 1, to)
             e == FreeBlocks(c, Surplus(old, ib, to))
         IN Has(c, P, e, i, q, ib, IndOf(to, ib)) /\ Len(q) = to
<1> DEFINE q == SubSeq(old, 1, to)
           n == Len(old)
           K == IndOf(n, ib)
           J == IndOf(to, ib)
           tail == SubSeq(old, to + 1, n)
           last == IF n > NDirect /\ to <= NDirect THEN <<ib>> ELSE <<>>
           bs == Surplus(old, ib, to)
           e == FreeBlocks(c, bs)
           B == (Blocks \ {0}) \ P
<1>1. /\ old \in Seq(Blocks) /\ Distinct(old) /\ n \in Nat /\ NDirect \in Nat
      /\ DOMAIN old = 1 .. n /\ ToSet(old) = {old[k] : k \in 1 .. n}
      /\ \A k \in 1 .. n : old[k] \in Blocks /\ old[k] \in ToSet(old)
  <2>1. old \in Seq(Blocks)
    BY DEF Has
  <2> QED
    BY <2>1, SeqSet, Sizes DEF Has
<1>2. /\ Mid(c, P, c, ToSet(old) \cup K) /\ K \cap ToSet(old) = {}
      /\ \A k \in 1 .. n : c.bat[old[k]] = OwnerOfSlot(i, k - 1, ib)
      /\ \A b \in K : c.bat[b] = i
  BY DEF Has
<1>3. ToSet(old) \cup K \subseteq B /\ B \subseteq Blocks
  BY <1>2 DEF Mid
<1>4. q \in Seq(Blocks) /\ Len(q) = to /\ \A k \in 1 .. to : q[k] = old[k]
  BY <1>1
<1>5. /\ tail \in Seq(Blocks) /\ Len(tail) = n - to
      /\ \A k \in 1 .. n - to : tail[k] = old[to + k]
  <2> DEFINE lo == to + 1
  <2>1. lo \in 1 .. n + 1 /\ n - lo + 1 = n - to /\ \A k \in 1 .. n - to : lo + k - 1 = to + k
    BY <1>1
  <2>2. tail = SubSeq(old, lo, n)
    OBVIOUS
  <2> HIDE DEF lo, tail
  <2>3. /\ tail \in Seq(Blocks) /\ Len(tail) = n - lo + 1
        /\ \A k \in 1 .. n - lo + 1 : tail[k] = old[lo + k - 1]
    BY <1>1, <2>1, <2>2
  <2> QED
    BY <2>1, <2>3
<1>6. J \subseteq K /\ J \in {{}, {ib}} /\ last \in Seq(K) /\ ToSet(last) = K \ J
  <2>1. CASE n > NDirect /\ to <= NDirect
    <3>1. K = {ib} /\ J = {} /\ last = <<ib>>
      BY <1>1, <2>1 DEF IndOf
    <3>2. <<ib>> \in Seq({ib}) /\ Len(<<ib>>) = 1 /\ <<ib>>[1] = ib
      OBVIOUS
    <3>3. ToSet(<<ib>>) = {ib}
      <4> DEFINE x == <<ib>>
      <4>1. x \in Seq({ib}) /\ Len(x) = 1 /\ x[1] = ib /\ 1 .. 1 = {1}
        OBVIOUS
      <4> HIDE DEF x
      <4>2. ToSet(x) = {x[k] : k \in 1 .. Len(x)}
        BY <4>1, SeqSet
      <4>3. ToSet(x) = {ib}
        BY <4>1, <4>2
      <4> QED
        BY <4>3 DEF x
    <3> QED
      BY <3>1, <3>2, <3>3
  <2>2. CASE ~(n > NDirect /\ to <= NDirect)
    <3>1. J = K /\ last = <<>>
      BY <1>1, <2>2 DEF IndOf
    <3>2. J \in {{}, {ib}}
      BY DEF IndOf
    <3>3. <<>> \in Seq(K) /\ ToSet(<<>>) = {}
      BY DEF ToSet
    <3> QED
      BY <3>1, <3>2, <3>3
  <2> QED
    BY <2>1, <2>2
<1>7. bs = tail \o last
  BY DEF Surplus
<1> HIDE DEF q, tail, last, bs, e, K, J, B, n
<1>8. ToSet(tail) = {old[k] : k \in to + 1 .. n}
  <2>1. ToSet(tail) = {tail[k] : k \in 1 .. n - to}
    BY <1>5, SeqSet
  <2>2. \A k \in 1 .. n - to : to + k \in to + 1 .. n
    BY <1>1
  <2>3. \A k \in to + 1 .. n : k - to \in 1 .. n - to /\ to + (k - to) = k
    BY <1>1
  <2> QED
    BY <1>5, <2>1, <2>2, <2>3
<1>9. ToSet(q) = {old[k] : k \in 1 .. to}
  <2>1. ToSet(q) = {q[k] : k \in 1 .. to}
    BY <1>4, SeqSet
  <2> QED
    BY <1>4, <2>1
<1>10. bs \in Seq(B) /\ ToSet(bs) = ToSet(tail) \cup (K \ J)
  <2>1. tail \in Seq(B)
    <3>1. \A k \in 1 .. n - to : tail[k] \in B
      <4>1. \A k \in 1 .. n - to : to + k \in 1 .. n
        BY <1>1
      <4> QED
        BY <1>1, <1>3, <1>5, <4>1
    <3>2. n - to \in Nat
      BY <1>1 DEF n
    <3>3. tail = [k \in 1 .. n - to |-> tail[k]]
      BY <1>5
    <3> QED
      BY <3>1, <3>2, <3>3
  <2>2. last \in Seq(B)
    <3>1. K \subseteq B
      BY <1>3
    <3> QED
      BY <1>6, <3>1
  <2>3. ToSet(tail \o last) = ToSet(tail) \cup ToSet(last) /\ tail \o last \in Seq(B)
    BY <2>1, <2>2, ConcatSet
  <2> QED
    BY <1>6, <1>7, <2>3
<1>11. Mid(c, P, e, (ToSet(old) \cup K) \ ToSet(bs)) /\ SameBat(c, e, ToSet(bs))
  BY <1>2, <1>10, Freed DEF B, e
<1>12. \A k \in 1 .. to : k \in 1 .. n /\ old[k] \notin ToSet(tail)
  <2>1. \A k \in 1 .. to : k \in 1 .. n
    BY <1>1 DEF n
  <2>2. \A k \in to + 1 .. n : k \in 1 .. n
    BY <1>1
  <2>3. \A k \in 1 .. to : \A j \in to + 1 .. n : old[k] = old[j] => FALSE
    <3>1. \A k \in 1 .. to : \A j \in to + 1 .. n : k # j
      BY <1>1
    <3> QED
      BY <1>1, <2>1, <2>2, <3>1 DEF Distinct
  <2> QED
    BY <1>8, <2>1, <2>3
<1>13. (ToSet(old) \cup K) \ ToSet(bs) = ToSet(q) \cup J
  <2>1. ToSet(old) = ToSet(q) \cup ToSet(tail)
    <3>1. \A k \in 1 .. n : k \in 1 .. to \/ k \in to + 1 .. n
      BY <1>1
    <3>2. \A k \in to + 1 .. n : k \in 1 .. n
      BY <1>1
    <3> QED
      BY <1>1, <1>8, <1>9, <1>12, <3>1, <3>2
  <2>2. ToSet(q) \cap ToSet(tail) = {}
    BY <1>9, <1>12
  <2> QED
    BY <1>2, <1>6, <1>10, <2>1, <2>2
<1>14. \A k \in 1 .. to : e.bat[q[k]] = OwnerOfSlot(i, k - 1, ib)
  <2>1. ASSUME NEW k \in 1 .. to PROVE e.bat[q[k]] = OwnerOfSlot(i, k - 1, ib)
    <3>1. q[k] = old[k] /\ k \in 1 .. n /\ old[k] \in Blocks /\ old[k] \in ToSet(old)
      BY <1>1, <1>4, <1>12
    <3>2. old[k] \notin ToSet(bs)
      BY <1>2, <1>10, <1>12, <3>1
    <3> QED
      BY <1>2, <1>11, <3>1, <3>2 DEF SameBat
  <2> QED
    BY <2>1
<1>15. \A b \in J : e.bat[b] = i
  <2>1. ASSUME NEW b \in J PROVE e.bat[b] = i
    <3>1. b \in K /\ b \in Blocks /\ b \notin ToSet(old)
      BY <1>2, <1>3, <1>6
    <3>2. b \notin ToSet(tail)
      <4>1. \A k \in to + 1 .. n : k \in 1 .. n
        BY <1>1
      <4> QED
        BY <1>1, <1>8, <3>1, <4>1
    <3>3. b \notin ToSet(bs)
      BY <1>10, <3>2
    <3> QED
      BY <1>2, <1>11, <3>1, <3>3 DEF SameBat
  <2> QED
    BY <2>1
<1>16. Distinct(q)
  <2>1. DOMAIN q = 1 .. to
    BY <1>4
  <2> QED
    BY <1>1, <1>4, <1>12, <2>1 DEF Distinct
<1>17. J \cap ToSet(q) = {}
  <2>1. \A k \in 1 .. to : old[k] \in ToSet(old)
    BY <1>1, <1>12
  <2> QED
    BY <1>2, <1>6, <1>9, <2>1
<1>18. Has(c, P, e, i, q, ib, J)
  <2>1. Mid(c, P, e, ToSet(q) \cup J)
    BY <1>11, <1>13
  <2> QED
    BY <1>4, <1>6, <1>14, <1>15, <1>16, <1>17, <2>1 DEF Has
<1> QED
  BY <1>4, <1>18 DEF q, e, J, bs

LEMMA NoFrees ==
  ASSUME NEW e
  PROVE  FreeBlocks(e, <<>>) = e
<1> DEFINE x == <<>>
<1>1. DOMAIN x = 1 .. 0 /\ 0 \in Nat
  OBVIOUS
<1> HIDE DEF x
<1>2. PICK f : Frees(f, e, 0, x) /\ FreeBlocks(e, x) = f[0]
  BY <1>1, FreeFold
<1>3. FreeBlocks(e, x) = e
  BY <1>2 DEF Frees
<1> QED
  BY <1>3 DEF x

(* A shrinking file needs no block reserved.                               *)
LEMMA NoReserve ==
  ASSUME NEW c, NEW i, NEW old, NEW ib0, NEW to \in Nat, to <= Len(old),
         old \in Seq(Blocks)
  PROVE  Reserve(c, i, ib0, old, to)
           = [ok |-> TRUE, c |-> c, ib |-> ib0, phys |-> SubSeq(old, 1, to)]
<1> DEFINE r == Reserve(c, i, ib0, old, to)
           a == FirstOf(c, i, ib0, old, to)
           b == Begun(a, old, to)
           q == SubSeq(old, 1, to)
           seq == [j \in 1 .. (to - Len(KeptOf(old, to))) |-> Len(old) + j - 1]
<1>1. Len(old) \in Nat /\ NDirect \in Nat
  BY SeqSet, Sizes
<1>2. ~LacksInd(old, to)
  BY <1>1 DEF LacksInd
<1>3. KeptOf(old, to) = q /\ Len(q) = to
  <2>1. (IF Len(old) < to THEN Len(old) ELSE to) = to
    BY <1>1
  <2>2. Len(q) = to
    BY <1>1
  <2> QED
    BY <2>1, <2>2 DEF KeptOf
<1>4. a = [no |-> ib0, c |-> c]
  BY <1>2 DEF FirstOf
<1>5. DOMAIN seq = 1 .. 0
  BY <1>3
<1>6. r = TakeBlocks(i, a.no, b, seq)
  BY ReserveIs
<1> HIDE DEF r, a, seq, q
<1>7. b = [ok |-> TRUE, c |-> c, ib |-> ib0, phys |-> q]
  BY <1>2, <1>3, <1>4 DEF Begun
<1> HIDE DEF b
<1>8. PICK f : Takes(f, i, a.no, b, 0, seq) /\ TakeBlocks(i, a.no, b, seq) = f[0]
  <2>1. 0 \in Nat
    OBVIOUS
  <2> QED
    BY <1>5, <2>1, TakeFold
<1>9. r = b
  BY <1>6, <1>8 DEF Takes
<1> QED
  BY <1>7, <1>9 DEF r, q

(* The general case: what is lacking is reserved, what is too much is      *)
(* given back.                                                             *)
LEMMA Refitted ==
  ASSUME NEW c, NEW P, NEW i, NEW old, NEW ib0, NEW to \in Nat,
         Has(c, P, c, i, old, ib0, IndOf(Len(old), ib0))
  PROVE  LET r == Reserve(c, i, ib0, old, to)
             e == FreeBlocks(r.c, Surplus(old, ib0, to))
         IN /\ r.ok \in BOOLEAN /\ \E H : Mid(c, P, r.c, H)
            /\ r.ok => Has(c, P, e, i, r.phys, r.ib, IndOf(to, r.ib)) /\ Len(r.phys) = to
<1> DEFINE r == Reserve(c, i, ib0, old, to)
           bs == Surplus(old, ib0, to)
           e == FreeBlocks(r.c, bs)
<1>1. old \in Seq(Blocks) /\ Len(old) \in Nat /\ NDirect \in Nat
      /\ \E H : Mid(c, P, c, H)
  <2>1. old \in Seq(Blocks) /\ \E H : Mid(c, P, c, H)
    BY DEF Has
  <2> QED
    BY <2>1, SeqSet, Sizes
<1>2. CASE Len(old) <= to
  <2>1. bs = <<>>
    <3>1. SubSeq(old, to + 1, Len(old)) = <<>>
      BY <1>1, <1>2
    <3>2. ~(Len(old) > NDirect /\ to <= NDirect)
      BY <1>1, <1>2
    <3>3. bs = SubSeq(old, to + 1, Len(old)) \o <<>>
      BY <3>2 DEF Surplus
    <3> QED
      BY <3>1, <3>3
  <2>2. e = r.c
    BY <2>1, NoFrees
  <2>3. /\ r.ok \in BOOLEAN /\ \E H : Mid(c, P, r.c, H)
        /\ r.ok => Has(c, P, r.c, i, r.phys, r.ib, IndOf(to, r.ib)) /\ Len(r.phys) = to
    BY <1>2, Grown
  <2> HIDE DEF e, r
  <2> QED
    BY <2>2, <2>3 DEF e, r
<1>3. CASE to <= Len(old)
  <2>1. r.ok = TRUE /\ r.c = c /\ r.ib = ib0 /\ r.phys = SubSeq(old, 1, to)
    <3>1. r = [ok |-> TRUE, c |-> c, ib |-> ib0, phys |-> SubSeq(old, 1, to)]
      BY <1>1, <1>3, NoReserve
    <3> HIDE DEF r
    <3> QED
      BY <3>1
  <2>2. LET q == SubSeq(old, 1, to)
             x == FreeBlocks(c, bs)
        IN Has(c, P, x, i, q, ib0, IndOf(to, ib0)) /\ Len(q) = to
    BY <1>3, Cut
  <2>3. e = FreeBlocks(c, bs)
    BY <2>1
  <2> HIDE DEF r, bs, e
  <2>4. Has(c, P, e, i, r.phys, r.ib, IndOf(to, r.ib)) /\ Len(r.phys) = to
    BY <2>1, <2>2, <2>3
  <2>5. \E H : Mid(c, P, r.c, H)
    BY <1>1, <2>1
  <2> QED
    BY <2>1, <2>4, <2>5 DEF r, bs, e
<1> QED
  BY <1>1, <1>2, <1>3

-----------------------------------------------------------------------------
(* The pointers of a sound context *)

LEMMA LinkParts ==
  ASSUME NEW c
  PROVE  /\ Tables(c) \subseteq AllLinks(c)
         /\ \A i \in Inos : Own(c, i) \subseteq AllLinks(c)
         /\ \A l \in AllLinks(c) : l \in Tables(c) \/ \E i \in Inos : l \in Own(c, i)
<1> DEFINE A == AllLinks(c)
           T == Tables(c)
           O(i) == Own(c, i)
<1>1. A = (UNION {O(i) : i \in Inos}) \cup T
  BY LinksAre
<1> HIDE DEF A, T, O
<1>2. T \subseteq A
  BY <1>1, Zenon
<1>3. \A i \in Inos : O(i) \subseteq A
  BY <1>1, Zenon
<1>4. \A l \in A : l \in T \/ \E i \in Inos : l \in O(i)
  BY <1>1, Zenon
<1> QED
  BY <1>2, <1>3, <1>4 DEF A, T, O

LEMMA OwnSound ==
  ASSUME NEW c, LinksSound(c), NEW i \in Inos, NEW l \in Own(c, i)
  PROVE  l \in AllLinks(c) /\ LinkSound(c, l)
BY LinkParts DEF LinksSound

LEMMA TableSound ==
  ASSUME NEW c, LinksSound(c)
  PROVE  /\ TablesPlaced(c)
         /\ \A s \in DinodeBlocks :
              [kind |-> "dinodes", ino |-> 0, slot |-> s, ptr |-> c.root[s]] \in AllLinks(c)
<1> DEFINE link(s) == [kind |-> "dinodes", ino |-> 0, slot |-> s, ptr |-> c.root[s]]
<1>1. \A s \in DinodeBlocks : link(s) \in AllLinks(c) /\ link(s).ptr.no = c.root[s].no
                              /\ link(s).slot = s
  <2>1. ASSUME NEW s \in DinodeBlocks PROVE link(s) \in AllLinks(c)
    <3>1. link(s) \in Tables(c)
      BY DEF Tables
    <3>2. Tables(c) \subseteq AllLinks(c)
      BY LinkParts
    <3> QED
      BY <3>1, <3>2
  <2> QED
    BY <2>1
<1> HIDE DEF link
<1>2. \A s \in DinodeBlocks : c.root[s].no \in Blocks \ {0}
  BY <1>1 DEF LinksSound, LinkSound
<1>3. \A s, t \in DinodeBlocks : c.root[s].no = c.root[t].no => s = t
  BY <1>1 DEF LinksSound
<1> QED
  BY <1>1, <1>2, <1>3 DEF TablesPlaced, link

(* The blocks the writers take for the file's own                          *)
OldBlocks(c, i) == CollectedBlocks(c.out, Dinode(c, i))
OldInd(c, i) == Dinode(c, i).ind.no
Mine(c, i) == ToSet(OldBlocks(c, i)) \cup IndOf(Len(OldBlocks(c, i)), OldInd(c, i))
Others(c, i) == {b \in Blocks \ {0} : ~Free(c, b)} \ Mine(c, i)

LEMMA OldBlocksAre ==
  ASSUME NEW c, Shape(c), NEW i \in Inos
  PROVE  /\ Dinode(c, i).count \in Nat
         /\ Len(OldBlocks(c, i)) =
              IF Dinode(c, i).count > MaxSingle THEN 0 ELSE Dinode(c, i).count
         /\ IsSeq(OldBlocks(c, i))
         /\ \A k \in 1 .. Len(OldBlocks(c, i)) : OldBlocks(c, i)[k] = Pointer(c, i, k - 1).no
<1> DEFINE n == IF Dinode(c, i).count > MaxSingle THEN 0 ELSE Dinode(c, i).count
           f == [k \in 1 .. n |-> Pointer(c, i, k - 1).no]
<1>1. Dinode(c, i).count \in Nat
  <2>1. IsDinode(Dinode(c, i))
    BY DinodeShape
  <2> DEFINE di == Dinode(c, i)
  <2> HIDE DEF di
  <2>2. di.size \in Nat /\ di.count = CeilDiv(di.size, BBS)
    BY <2>1 DEF IsDinode, di
  <2>3. di.count \in Nat
    BY <2>2, BlocksOf
  <2> QED
    BY <2>3 DEF di
<1>2. n \in Nat
  BY <1>1
<1>3. OldBlocks(c, i) = SubSeq(f, 1, n)
  BY DEF OldBlocks, CollectedBlocks, Pointer
<1>4. f = [k \in 1 .. n |-> f[k]] /\ \A k \in 1 .. n : f[k] = Pointer(c, i, k - 1).no
  OBVIOUS
<1> HIDE DEF n, f
<1>5. SubSeq(f, 1, n) = f /\ Len(f) = n /\ f \in Seq(ToSet(f))
  BY <1>2, <1>4, WholeCut
<1> QED
  BY <1>1, <1>3, <1>4, <1>5 DEF n, IsSeq

LEMMA OldBlocksHeld ==
  ASSUME NEW c, Shape(c), LinksSound(c), NEW i \in Inos
  PROVE  /\ Has(c, Others(c, i), c, i, OldBlocks(c, i), OldInd(c, i),
                IndOf(Len(OldBlocks(c, i)), OldInd(c, i)))
         /\ \A l \in Own(c, i) : Dinode(c, i).count <= MaxSingle => l.ptr.no \in Mine(c, i)
         /\ \A b \in Mine(c, i) : Dinode(c, i).count <= MaxSingle
                                  /\ \E l \in Own(c, i) : l.ptr.no = b
<1> DEFINE old == OldBlocks(c, i)
           ib == OldInd(c, i)
           n == Len(old)
           di == Dinode(c, i)
           K == IndOf(n, ib)
           P == Others(c, i)
<1>1. /\ di.count \in Nat /\ n = IF di.count > MaxSingle THEN 0 ELSE di.count
      /\ \A k \in 1 .. n : old[k] = Pointer(c, i, k - 1).no
      /\ old \in Seq(ToSet(old))
  BY OldBlocksAre DEF IsSeq
<1>2. n \in Nat /\ DOMAIN old = 1 .. n /\ ToSet(old) = {old[k] : k \in 1 .. n}
  BY <1>1, SeqSet
<1>3. NDirect \in Nat /\ MaxSingle \in Nat /\ MaxSingle > NDirect
  BY Sizes
<1>4. n # 0 => di.count = n /\ di.count <= MaxSingle
  BY <1>1, <1>3
<1> DEFINE dl(k) == DataLink(c, i, k - 1)
           il == IndLink(i, -1, di.ind)
<1>5. ASSUME NEW k \in 1 .. n
      PROVE  /\ dl(k) \in AllLinks(c) /\ dl(k) \in Own(c, i) /\ LinkSound(c, dl(k))
             /\ dl(k).ptr.no = old[k]
             /\ dl(k).slot = k - 1 /\ dl(k).kind = "data" /\ dl(k).ino = i
  <2>1. k - 1 \in 0 .. di.count - 1
    BY <1>1, <1>2, <1>4
  <2>2. dl(k) \in Own(c, i)
    <3> HIDE DEF old, n, di
    <3> QED
      BY <1>1, <2>1, OwnIs DEF di
  <2>3. dl(k).ptr = Pointer(c, i, k - 1) /\ dl(k).slot = k - 1 /\ dl(k).kind = "data"
        /\ dl(k).ino = i
    BY DEF DataLink
  <2> HIDE DEF dl
  <2> QED
    BY <1>1, <2>2, <2>3, OwnSound
<1>6. ASSUME n > NDirect
      PROVE  /\ il \in AllLinks(c) /\ il \in Own(c, i) /\ LinkSound(c, il)
             /\ il.ptr.no = ib /\ il.kind = "ind" /\ il.ino = i
  <2>1. di.count > NDirect
    BY <1>2, <1>3, <1>4, <1>6
  <2>2. il \in Own(c, i)
    <3> HIDE DEF old, n
    <3> QED
      BY <1>1, <2>1, OwnIs
  <2>3. il.ptr.no = ib /\ il.kind = "ind" /\ il.ino = i
    BY DEF IndLink, OldInd
  <2> HIDE DEF il
  <2> QED
    BY <2>2, <2>3, OwnSound
<1> HIDE DEF old, ib, n, di, K, P, dl, il
<1>7. \A k \in 1 .. n : old[k] \in Blocks \ {0} /\ ~Free(c, old[k])
  BY <1>5 DEF LinkSound
<1>8. K = IF n > NDirect THEN {ib} ELSE {}
  BY DEF K, IndOf
<1>9. \A b \in K : n > NDirect /\ b = ib /\ b \in Blocks \ {0} /\ ~Free(c, b)
  BY <1>6, <1>8 DEF LinkSound
<1>10. old \in Seq(Blocks)
  <2>1. ToSet(old) \subseteq Blocks
    BY <1>2, <1>7
  <2> QED
    BY <1>1, <2>1
<1>11. Distinct(old)
  <2>1. ASSUME NEW j \in 1 .. n, NEW k \in 1 .. n, old[j] = old[k] PROVE j = k
    <3>1. dl(j) = dl(k)
      BY <1>5, <2>1 DEF LinksSound
    <3>2. j - 1 = k - 1
      BY <1>5, <3>1
    <3> QED
      BY <3>2
  <2> QED
    BY <1>2, <2>1 DEF Distinct
<1>12. K \cap ToSet(old) = {}
  <2>1. ASSUME NEW k \in 1 .. n, n > NDirect, old[k] = ib PROVE FALSE
    <3>1. dl(k) = il
      BY <1>5, <1>6, <2>1 DEF LinksSound
    <3>2. "data" = "ind"
      BY <1>5, <1>6, <2>1, <3>1
    <3> QED
      BY <3>2
  <2> QED
    BY <1>2, <1>9, <2>1
<1>13. Mine(c, i) = ToSet(old) \cup K
  BY DEF Mine, old, K, n, ib
<1>14. Mine(c, i) \subseteq {b \in Blocks \ {0} : ~Free(c, b)}
  BY <1>2, <1>7, <1>9, <1>13
<1>15. Mid(c, P, c, ToSet(old) \cup K)
  <2>1. /\ c = [out |-> c.out, root |-> c.root, bitmap |-> c.bitmap, bat |-> c.bat,
                inob |-> c.inob, dirty |-> c.dirty]
        /\ c.bitmap \in [Blocks -> BOOLEAN] /\ c.bat = [b \in Blocks |-> c.bat[b]]
        /\ c.dirty \in BOOLEAN
    BY DEF Shape
  <2>2. P = {b \in Blocks \ {0} : ~Free(c, b)} \ Mine(c, i)
    BY DEF P, Others
  <2>3. \A b \in Blocks \ {0} : Free(c, b) <=> b \notin P \cup Mine(c, i)
    BY <1>14, <2>2
  <2>4. P \subseteq Blocks \ {0} /\ Mine(c, i) \subseteq Blocks \ {0} /\ P \cap Mine(c, i) = {}
    BY <1>14, <2>2
  <2> QED
    BY <1>13, <2>1, <2>3, <2>4 DEF Mid
<1>16. \A k \in 1 .. n : c.bat[old[k]] = OwnerOfSlot(i, k - 1, ib)
  <2>1. ASSUME NEW k \in 1 .. n PROVE c.bat[old[k]] = OwnerOfSlot(i, k - 1, ib)
    <3>1. BatRight(c, dl(k)) /\ k - 1 < MaxSingle
      BY <1>1, <1>2, <1>3, <1>4, <1>5 DEF LinkSound
    <3>2. dl(k).slot = k - 1 /\ dl(k).ino = i /\ dl(k).ptr.no = old[k] /\ dl(k).kind = "data"
      BY <1>5
    <3>3. c.bat[old[k]] = IF k - 1 < NDirect THEN i ELSE IndFlag + Dinode(c, i).ind.no
      BY <3>1, <3>2 DEF BatRight
    <3> QED
      BY <3>3 DEF OwnerOfSlot, IndOwner, ib, OldInd
  <2> QED
    BY <2>1
<1>17. \A b \in K : c.bat[b] = i
  <2>1. ASSUME n > NDirect PROVE c.bat[ib] = i
    BY <1>6, <2>1 DEF LinkSound, BatRight
  <2> QED
    BY <1>9, <2>1
<1>18. K \in {{}, {ib}}
  BY <1>8
<1>19. Has(c, P, c, i, old, ib, K)
  BY <1>10, <1>11, <1>12, <1>15, <1>16, <1>17, <1>18 DEF Has, n
<1>20. ASSUME NEW l \in Own(c, i), di.count <= MaxSingle PROVE l.ptr.no \in Mine(c, i)
  <2>1. n = di.count
    BY <1>1, <1>3, <1>20
  <2>2. Leaves(c, i) = {} /\ ~(di.count > MaxSingle)
    BY <1>1, <1>3, <1>20 DEF Leaves, di
  <2>3. \/ \E k \in 0 .. di.count - 1 : l = DataLink(c, i, k)
        \/ di.count > NDirect /\ l = IndLink(i, -1, di.ind)
    BY <1>1, <2>2, OwnIs DEF di
  <2>4. ASSUME NEW k \in 0 .. di.count - 1, l = DataLink(c, i, k) PROVE l.ptr.no \in ToSet(old)
    <3>1. k + 1 \in 1 .. n /\ k + 1 - 1 = k
      BY <1>1, <2>1
    <3>2. dl(k + 1) = l
      BY <2>4, <3>1 DEF dl
    <3>3. l.ptr.no = old[k + 1]
      BY <1>5, <3>1, <3>2
    <3> QED
      BY <1>2, <3>1, <3>3
  <2>5. ASSUME di.count > NDirect, l = IndLink(i, -1, di.ind) PROVE l.ptr.no \in K
    <3>1. l = il /\ n > NDirect
      BY <2>1, <2>5 DEF il
    <3> QED
      BY <1>6, <1>8, <3>1
  <2> QED
    BY <1>13, <2>3, <2>4, <2>5
<1>21. ASSUME NEW b \in Mine(c, i)
       PROVE  di.count <= MaxSingle /\ \E l \in Own(c, i) : l.ptr.no = b
  <2>1. CASE b \in ToSet(old)
    <3>1. PICK k \in 1 .. n : b = old[k]
      BY <1>2, <2>1
    <3>2. n # 0
      BY <1>2, <3>1
    <3> QED
      BY <1>4, <1>5, <3>1, <3>2
  <2>2. CASE b \in K
    <3>1. n > NDirect /\ b = ib
      BY <1>9, <2>2
    <3>2. n # 0
      BY <1>2, <1>3, <3>1
    <3> QED
      BY <1>4, <1>6, <3>1, <3>2
  <2> QED
    BY <1>13, <2>1, <2>2
<1> QED
  BY <1>19, <1>20, <1>21 DEF P, old, ib, K, n, di

-----------------------------------------------------------------------------
(* What rewriting one file leaves of the others *)

LEMMA SameSelf ==
  ASSUME NEW c, NEW i
  PROVE  Same(c, c, i)
BY DEF Same

LEMMA SameTwice ==
  ASSUME NEW a, NEW c, NEW d, NEW i, IsDinode(Dinode(a, i)), Same(a, c, i), Same(c, d, i)
  PROVE  Same(a, d, i)
<1>1. Own(c, i) = Own(a, i) /\ Dinode(c, i) = Dinode(a, i)
  BY SameOwn DEF Same
<1>2. ASSUME NEW l \in Own(a, i) PROVE d.out[l.ptr.no] = a.out[l.ptr.no]
  <2>1. c.out[l.ptr.no] = a.out[l.ptr.no]
    BY DEF Same
  <2>2. d.out[l.ptr.no] = c.out[l.ptr.no]
    BY <1>1 DEF Same
  <2> QED
    BY <2>1, <2>2
<1>3. Dinode(d, i) = Dinode(a, i)
  BY <1>1 DEF Same
<1> QED
  BY <1>2, <1>3 DEF Same

TableLink(c, s) == [kind |-> "dinodes", ino |-> 0, slot |-> s, ptr |-> c.root[s]]

(* No block of another inode, nor one of the tables, is among those of i.  *)
LEMMA OthersApart ==
  ASSUME NEW c, Shape(c), LinksSound(c), NEW i \in Inos
  PROVE  /\ \A j \in Inos : j # i =>
              \A l \in Own(c, j) : l.ptr.no \in Others(c, i)
         /\ \A s \in DinodeBlocks : c.root[s].no \in Others(c, i)
         /\ \A j \in Inos : \A l \in Own(c, j) : \A s \in DinodeBlocks :
              l.ptr.no # c.root[s].no
<1> DEFINE P == {b \in Blocks \ {0} : ~Free(c, b)} \ Mine(c, i)
<1>1. \A j \in Inos : Dinode(c, j).count \in Nat
  BY OldBlocksAre
<1>2. ASSUME NEW j \in Inos, NEW l \in Own(c, j)
      PROVE  /\ l.ino = j /\ l.kind \in {"data", "ind"} /\ l \in AllLinks(c)
             /\ l.ptr.no \in Blocks \ {0} /\ ~Free(c, l.ptr.no)
  <2>1. l.ino = j /\ l.kind \in {"data", "ind"}
    BY <1>1, OwnFields
  <2>2. l \in AllLinks(c) /\ LinkSound(c, l)
    BY OwnSound
  <2> QED
    BY <2>1, <2>2 DEF LinkSound
<1>3. ASSUME NEW s \in DinodeBlocks
      PROVE  /\ TableLink(c, s).kind = "dinodes" /\ TableLink(c, s) \in AllLinks(c)
             /\ TableLink(c, s).ptr.no = c.root[s].no
             /\ c.root[s].no \in Blocks \ {0} /\ ~Free(c, c.root[s].no)
  <2>1. TableLink(c, s) \in AllLinks(c)
    BY TableSound DEF TableLink
  <2>2. TableLink(c, s).kind = "dinodes" /\ TableLink(c, s).ptr.no = c.root[s].no
    BY DEF TableLink
  <2>3. LinkSound(c, TableLink(c, s))
    BY <2>1 DEF LinksSound
  <2> HIDE DEF TableLink
  <2> QED
    BY <2>1, <2>2, <2>3 DEF LinkSound
<1>4. \A b \in Mine(c, i) : \E l \in Own(c, i) : l.ptr.no = b
  BY OldBlocksHeld
<1>5. \A l, m \in AllLinks(c) : l.ptr.no = m.ptr.no => l = m
  BY DEF LinksSound
<1>6. ASSUME NEW j \in Inos, j # i, NEW l \in Own(c, j) PROVE l.ptr.no \in P
  <2>1. SUFFICES ASSUME l.ptr.no \in Mine(c, i) PROVE FALSE
    BY <1>2, <1>6
  <2>2. PICK m \in Own(c, i) : m.ptr.no = l.ptr.no
    BY <1>4, <2>1
  <2>3. m = l
    BY <1>2, <1>5, <1>6, <2>2
  <2> QED
    BY <1>2, <1>6, <2>2, <2>3
<1>7. ASSUME NEW j \in Inos, NEW l \in Own(c, j), NEW s \in DinodeBlocks
      PROVE  l.ptr.no # c.root[s].no
  <2>1. l.ptr.no = c.root[s].no => l = TableLink(c, s)
    BY <1>2, <1>3, <1>5, <1>7
  <2>2. l.kind # TableLink(c, s).kind
    BY <1>2, <1>3, <1>7
  <2> QED
    BY <2>1, <2>2
<1>8. ASSUME NEW s \in DinodeBlocks PROVE c.root[s].no \in P
  <2>1. c.root[s].no \notin Mine(c, i)
    BY <1>4, <1>7, <1>8
  <2> QED
    BY <1>3, <2>1
<1> QED
  BY <1>6, <1>7, <1>8 DEF Others

-----------------------------------------------------------------------------
(* From c to d inode i was rewritten, on the blocks H.                     *)
EntriesIn(content) ==
  \A j \in 1 .. Len(content) : IsDirent(content[j]) => content[j][2].ino \in UserInos

Moved(c, d, i, H) ==
  /\ Shape(d)
  /\ H \subseteq Blocks \ {0} /\ Others(c, i) \cap H = {}
  /\ \A b \in Blocks \ {0} : Free(d, b) <=> b \notin Others(c, i) \cup H
  /\ \A b \in Others(c, i) : d.bat[b] = c.bat[b]
  /\ \A b \in Blocks : b \notin H /\ b # TableBlock(c, i) => d.out[b] = c.out[b]
  /\ \A s \in DinodeBlocks : d.root[s].no = c.root[s].no
  /\ \A s \in DinodeBlocks : s # i \div IPB => d.root[s] = c.root[s]
  /\ d.root[i \div IPB] = [no |-> TableBlock(c, i),
                           dig |-> Digest(TableBlock(c, i), d.out[TableBlock(c, i)])]
  /\ \A j \in Inos : j # i => Dinode(d, j) = Dinode(c, j)
  /\ Dinode(d, i).count \in Nat /\ Dinode(d, i).count <= MaxSingle
  /\ \A l \in Own(d, i) : LinkSound(d, l) /\ l.ptr.no \in H
  /\ \A l, m \in Own(d, i) : l.ptr.no = m.ptr.no => l = m
  /\ \A b \in H : \E l \in Own(d, i) : l.ptr.no = b
  /\ EntriesIn(ReadContent(d.out, Dinode(d, i)))

LEMMA OthersSame ==
  ASSUME NEW c, Shape(c), LinksSound(c), NEW i \in Inos, NEW d, NEW H, Moved(c, d, i, H)
  PROVE  \A j \in Inos : j # i => Same(c, d, j) /\ Own(d, j) = Own(c, j)
<1> SUFFICES ASSUME NEW j \in Inos, j # i
             PROVE  Same(c, d, j) /\ Own(d, j) = Own(c, j)
  OBVIOUS
<1>1. ASSUME NEW l \in Own(c, j) PROVE d.out[l.ptr.no] = c.out[l.ptr.no]
  <2>1. l.ptr.no \in Others(c, i)
    BY OthersApart
  <2>2. i \div IPB \in DinodeBlocks
    BY InodePlace
  <2>3. l.ptr.no # TableBlock(c, i)
    BY <2>2, OthersApart DEF TableBlock
  <2>4. l.ptr.no \in Blocks
    BY <2>1 DEF Others
  <2> QED
    BY <2>1, <2>3, <2>4 DEF Moved
<1>2. Same(c, d, j)
  BY <1>1 DEF Same, Moved
<1>3. IsDinode(Dinode(c, j))
  BY DinodeShape
<1> QED
  BY <1>2, <1>3, SameOwn

(* The pointers of d are those of c but for i's own.                       *)
LEMMA MovedLinks ==
  ASSUME NEW c, Shape(c), LinksSound(c), NEW i \in Inos, NEW d, NEW H, Moved(c, d, i, H),
         NEW l \in AllLinks(d)
  PROVE  \/ l \in Own(d, i)
         \/ \E j \in Inos : j # i /\ l \in Own(c, j)
         \/ \E s \in DinodeBlocks : l = TableLink(d, s)
<1>1. l \in Tables(d) \/ \E j \in Inos : l \in Own(d, j)
  BY LinkParts
<1>2. l \in Tables(d) => \E s \in DinodeBlocks : l = TableLink(d, s)
  BY DEF Tables, TableLink
<1> QED
  BY <1>1, <1>2, OthersSame

LEMMA MovedSound ==
  ASSUME NEW c, Shape(c), LinksSound(c), NEW i \in Inos, NEW d, NEW H, Moved(c, d, i, H)
  PROVE  LinksSound(d)
<1> DEFINE t(s) == TableLink(d, s)
<1>1. ASSUME NEW j \in Inos, j # i, NEW l \in Own(c, j)
      PROVE  l \in AllLinks(c) /\ l.ptr.no \in Others(c, i) /\ LinkSound(d, l)
  <2>1. l \in AllLinks(c) /\ LinkSound(c, l) /\ l.ino = j /\ Dinode(c, j).count \in Nat
    BY <1>1, OwnSound, OwnFields, OldBlocksAre
  <2>2. l.ptr.no \in Others(c, i) /\ l.ptr.no \in Blocks \ {0}
    BY <1>1, OthersApart DEF Others
  <2>3. Same(c, d, j)
    BY <1>1, OthersSame
  <2>4. d.out[l.ptr.no] = c.out[l.ptr.no] /\ Dinode(d, j) = Dinode(c, j)
    BY <1>1, <2>3 DEF Same
  <2>5. ~Free(d, l.ptr.no) /\ d.bat[l.ptr.no] = c.bat[l.ptr.no]
    BY <2>2 DEF Moved
  <2>6. Verifies(d.out, l.ptr)
    BY <2>1, <2>4 DEF LinkSound, Verifies
  <2>7. BatRight(d, l)
    BY <2>1, <2>4, <2>5 DEF LinkSound, BatRight
  <2> QED
    BY <2>1, <2>2, <2>5, <2>6, <2>7 DEF LinkSound
<1>2. ASSUME NEW s \in DinodeBlocks
      PROVE  /\ t(s).ptr.no = c.root[s].no /\ t(s).kind = "dinodes"
             /\ t(s).ptr.no \in Others(c, i)
             /\ LinkSound(d, t(s))
  <2>1. t(s).ptr = d.root[s] /\ t(s).kind = "dinodes"
    BY DEF TableLink
  <2>2. d.root[s].no = c.root[s].no /\ c.root[s].no \in Others(c, i)
    BY OthersApart DEF Moved
  <2>3. c.root[s].no \in Blocks \ {0} /\ ~Free(d, c.root[s].no)
    BY <2>2 DEF Others, Moved
  <2>4. Verifies(d.out, d.root[s])
    <3>1. CASE s = i \div IPB
      <4>1. d.root[s] = [no |-> TableBlock(c, i),
                         dig |-> Digest(TableBlock(c, i), d.out[TableBlock(c, i)])]
        BY <3>1 DEF Moved
      <4>2. /\ d.root[s].no = TableBlock(c, i)
            /\ d.root[s].dig = Digest(TableBlock(c, i), d.out[TableBlock(c, i)])
        BY <4>1
      <4> QED
        BY <4>2 DEF Verifies
    <3>2. CASE s # i \div IPB
      <4>1. d.root[s] = c.root[s]
        BY <3>2 DEF Moved
      <4>2. c.root[s].no # TableBlock(c, i)
        BY <3>2, TableSound, InodePlace DEF TablesPlaced, TableBlock
      <4>3. c.root[s].no \notin H
        BY <2>2 DEF Moved
      <4>4. d.out[c.root[s].no] = c.out[c.root[s].no]
        BY <2>3, <4>2, <4>3 DEF Moved
      <4>5. TableLink(c, s) \in AllLinks(c) /\ TableLink(c, s).ptr = c.root[s]
        BY TableSound DEF TableLink
      <4>6. Verifies(c.out, c.root[s])
        BY <4>5 DEF LinksSound, LinkSound
      <4> QED
        BY <4>1, <4>4, <4>6 DEF Verifies
    <3> QED
      BY <3>1, <3>2
  <2>5. BatRight(d, t(s))
    BY <2>1 DEF BatRight
  <2> HIDE DEF t
  <2> QED
    BY <2>1, <2>2, <2>3, <2>4, <2>5 DEF LinkSound
<1>3. ASSUME NEW l \in Own(d, i) PROVE LinkSound(d, l) /\ l.ptr.no \in H
  BY DEF Moved
<1> HIDE DEF t
<1>4. ASSUME NEW l \in AllLinks(d)
      PROVE  \/ l \in Own(d, i)
             \/ \E j \in Inos : j # i /\ l \in Own(c, j)
             \/ \E s \in DinodeBlocks : l = t(s)
  BY MovedLinks DEF t
<1>5. \A l \in AllLinks(d) : LinkSound(d, l)
  BY <1>1, <1>2, <1>3, <1>4
<1>6. \A b \in Others(c, i) : b \notin H
  BY DEF Moved
<1>7. ASSUME NEW l \in AllLinks(d), NEW m \in AllLinks(d), l.ptr.no = m.ptr.no
      PROVE  l = m
  <2>1. CASE l \in Own(d, i)
    <3>1. l.ptr.no \in H
      BY <1>3, <2>1
    <3>2. m \in Own(d, i)
      BY <1>1, <1>2, <1>4, <1>6, <1>7, <3>1
    <3> QED
      BY <1>7, <2>1, <3>2 DEF Moved
  <2>2. CASE \E j \in Inos : j # i /\ l \in Own(c, j)
    <3>1. PICK j \in Inos : j # i /\ l \in Own(c, j)
      BY <2>2
    <3>2. l \in AllLinks(c) /\ l.ptr.no \in Others(c, i)
      BY <1>1, <3>1
    <3>3. m \notin Own(d, i)
      BY <1>3, <1>6, <1>7, <3>2
    <3>4. ASSUME NEW s \in DinodeBlocks, m = t(s) PROVE FALSE
      BY <1>2, <1>7, <3>1, <3>4, OthersApart
    <3>5. m \in AllLinks(c)
      BY <1>1, <1>4, <3>3, <3>4
    <3> QED
      BY <1>7, <3>2, <3>5 DEF LinksSound
  <2>3. CASE \E s \in DinodeBlocks : l = t(s)
    <3>1. PICK s \in DinodeBlocks : l = t(s)
      BY <2>3
    <3>2. l.ptr.no = c.root[s].no /\ l.ptr.no \in Others(c, i)
      BY <1>2, <3>1
    <3>3. m \notin Own(d, i)
      BY <1>3, <1>6, <1>7, <3>2
    <3>4. ASSUME NEW j \in Inos, j # i, m \in Own(c, j) PROVE FALSE
      BY <1>7, <3>2, <3>4, OthersApart
    <3>5. PICK z \in DinodeBlocks : m = t(z)
      BY <1>4, <3>3, <3>4
    <3>6. c.root[s].no = c.root[z].no
      BY <1>2, <1>7, <3>2, <3>5
    <3>7. s = z
      BY <3>6, TableSound DEF TablesPlaced
    <3> QED
      BY <3>1, <3>5, <3>7
  <2> QED
    BY <1>4, <2>1, <2>2, <2>3
<1> QED
  BY <1>5, <1>7 DEF LinksSound

LEMMA EntriesAre ==
  ASSUME NEW c, Shape(c)
  PROVE  EntriesSound(c) <=> \A i \in Inos : EntriesIn(ReadContent(c.out, Dinode(c, i)))
<1>1. ASSUME NEW i \in Inos
      PROVE  Len(ReadContent(c.out, Dinode(c, i))) = Dinode(c, i).size
  <2>1. Dinode(c, i).size \in Nat
    BY DinodeShape DEF IsDinode
  <2> QED
    BY <2>1, ContentIs
<1> DEFINE x(i) == ReadContent(c.out, Dinode(c, i))
<1>2. EntriesSound(c) <=>
        \A i \in Inos : \A j \in 1 .. Dinode(c, i).size :
          IsDirent(x(i)[j]) => x(i)[j][2].ino \in UserInos
  BY DEF EntriesSound
<1>3. \A i \in Inos : Len(x(i)) = Dinode(c, i).size
  BY <1>1
<1>4. \A i \in Inos : EntriesIn(x(i)) <=>
        \A j \in 1 .. Len(x(i)) : IsDirent(x(i)[j]) => x(i)[j][2].ino \in UserInos
  BY DEF EntriesIn
<1> HIDE DEF x
<1>5. EntriesSound(c) <=> \A i \in Inos : EntriesIn(x(i))
  BY <1>2, <1>3, <1>4
<1> QED
  BY <1>5 DEF x

LEMMA MovedEntries ==
  ASSUME NEW c, Shape(c), LinksSound(c), EntriesSound(c), NEW i \in Inos,
         NEW d, NEW H, Moved(c, d, i, H)
  PROVE  EntriesSound(d)
<1>1. Shape(d)
  BY DEF Moved
<1>2. ASSUME NEW j \in Inos PROVE EntriesIn(ReadContent(d.out, Dinode(d, j)))
  <2>1. CASE j = i
    BY <2>1 DEF Moved
  <2>2. CASE j # i
    <3>1. Same(c, d, j) /\ IsDinode(Dinode(c, j))
      BY <2>2, OthersSame, DinodeShape
    <3>2. ReadContent(d.out, Dinode(d, j)) = ReadContent(c.out, Dinode(c, j))
      BY <3>1, SameOwn
    <3>3. EntriesIn(ReadContent(c.out, Dinode(c, j)))
      BY EntriesAre
    <3> QED
      BY <3>2, <3>3
  <2> QED
    BY <2>1, <2>2
<1> QED
  BY <1>1, <1>2, EntriesAre

-----------------------------------------------------------------------------
(* Blocks that no file has and that are not free, on the way               *)

LEMMA Source ==
  ASSUME NEW s, SoundImage(s)
  PROVE  /\ Shape(Load(s)) /\ LinksSound(Load(s)) /\ EntriesSound(Load(s))
         /\ MetaSound(Load(s)) /\ HeaderShape(s[0])
         /\ AllLinks(Load(s)) = Links(s, RootOf(s))
         /\ \A i : Dinode(Load(s), i) = DinodeAt(s, RootOf(s), i)
         /\ \A t \in DinodeBlocks : Load(s).root[t].no = RootOf(s)[t].no
         /\ Load(s).out = s /\ Load(s).root = RootOf(s)
<1>1. Load(s).out = s /\ Load(s).root = RootOf(s)
  BY DEF Load
<1>2. /\ Shape(Load(s)) /\ LinksSound(Load(s)) /\ EntriesSound(Load(s))
      /\ MetaSound(Load(s)) /\ HeaderShape(s[0])
  BY DEF SoundImage
<1> QED
  BY <1>1, <1>2 DEF AllLinks, Dinode

(* A pointer is of the inode it says, those of the super root of inode 0.  *)
LEMMA LinkOwner ==
  ASSUME NEW c, Shape(c), NEW l \in AllLinks(c)
  PROVE  l.ino \in Inos /\ (l.ino # 0 => l \in Own(c, l.ino))
<1>1. l \in Tables(c) \/ \E i \in Inos : l \in Own(c, i)
  BY LinkParts
<1>2. ASSUME l \in Tables(c) PROVE l.ino = 0
  BY <1>2 DEF Tables
<1>3. 0 \in Inos
  BY Sizes DEF Inos
<1>4. ASSUME NEW i \in Inos, l \in Own(c, i) PROVE l.ino = i
  BY <1>4, OwnFields, OldBlocksAre
<1> QED
  BY <1>1, <1>2, <1>3, <1>4

LEMMA LostIs ==
  ASSUME NEW s, SoundImage(s), NEW c
  PROVE  \A b : b \in LostIn(s, c) <=>
           \E l \in AllLinks(Load(s)) :
             /\ l.ptr.no = b
             /\ Dinode(Load(s), l.ino).count > MaxSingle
             /\ Dinode(c, l.ino).count <= MaxSingle
BY Source DEF LostIn

LEMMA OutOfPlayApart ==
  ASSUME NEW s, SoundImage(s), NEW c, Sound(s, c), NEW i \in Inos
  PROVE  OutOfPlay(s, c) \subseteq Others(c, i)
<1>1. ASSUME NEW b \in OutOfPlay(s, c) PROVE b \in Others(c, i)
  <2>1. b \in Blocks \ {0} /\ ~Free(c, b) /\ b \notin Linked(c)
    BY DEF Sound
  <2>2. ASSUME b \in Mine(c, i) PROVE FALSE
    <3>1. PICK l \in Own(c, i) : l.ptr.no = b
      BY <2>2, OldBlocksHeld DEF Sound
    <3>2. l \in AllLinks(c)
      BY OwnSound DEF Sound
    <3> QED
      BY <2>1, <3>1, <3>2 DEF Linked
  <2> QED
    BY <2>1, <2>2 DEF Others
<1> QED
  BY <1>1

LEMMA MovedLost ==
  ASSUME NEW s, SoundImage(s), NEW c, Sound(s, c), NEW i \in Inos, i # 0,
         NEW d, NEW H, Moved(c, d, i, H)
  PROVE  /\ OutOfPlay(s, c) \subseteq OutOfPlay(s, d)
         /\ \A b \in OutOfPlay(s, d) : 
              \/ b \in OutOfPlay(s, c)
              \/ Dinode(c, i).count > MaxSingle /\ \E l \in Own(c, i) : l.ptr.no = b
         /\ Dinode(c, i).count > MaxSingle =>
              \A l \in Own(c, i) : l.ptr.no \in OutOfPlay(s, d)
<1>1. /\ Shape(c) /\ LinksSound(c) /\ Shape(Load(s))
      /\ \A j \in Inos : Dinode(c, j).count > MaxSingle => Same(Load(s), c, j)
  BY Source DEF Sound
<1>2. /\ \A j \in Inos : j # i => Dinode(d, j) = Dinode(c, j)
      /\ Dinode(d, i).count \in Nat /\ Dinode(d, i).count <= MaxSingle
  BY DEF Moved
<1>3. \A j \in Inos : Dinode(c, j).count \in Nat /\ MaxSingle \in Nat
  BY <1>1, OldBlocksAre, Sizes
<1>4. \A l \in AllLinks(Load(s)) : l.ino \in Inos /\ (l.ino = i => l \in Own(Load(s), i))
  BY <1>1, LinkOwner
<1>5. ASSUME Dinode(c, i).count > MaxSingle
      PROVE  Own(c, i) = Own(Load(s), i) /\ Dinode(Load(s), i) = Dinode(c, i)
  <2>1. Same(Load(s), c, i) /\ IsDinode(Dinode(Load(s), i))
    BY <1>1, <1>5, DinodeShape
  <2> QED
    BY <2>1, SameOwn DEF Same
<1>6. LostIn(s, c) \subseteq LostIn(s, d)
  <2>1. ASSUME NEW b \in LostIn(s, c) PROVE b \in LostIn(s, d)
    <3>1. PICK l \in AllLinks(Load(s)) :
            /\ l.ptr.no = b
            /\ Dinode(Load(s), l.ino).count > MaxSingle
            /\ Dinode(c, l.ino).count <= MaxSingle
      BY LostIs
    <3>2. Dinode(d, l.ino).count <= MaxSingle
      BY <1>2, <1>4, <3>1
    <3> QED
      BY <3>1, <3>2, LostIs
  <2> QED
    BY <2>1
<1>7. ASSUME NEW b \in LostIn(s, d)
      PROVE  \/ b \in LostIn(s, c)
             \/ Dinode(c, i).count > MaxSingle /\ \E l \in Own(c, i) : l.ptr.no = b
  <2>1. PICK l \in AllLinks(Load(s)) :
          /\ l.ptr.no = b
          /\ Dinode(Load(s), l.ino).count > MaxSingle
          /\ Dinode(d, l.ino).count <= MaxSingle
    BY <1>7, LostIs
  <2>2. CASE Dinode(c, l.ino).count <= MaxSingle
    BY <2>1, <2>2, LostIs
  <2>3. CASE ~(Dinode(c, l.ino).count <= MaxSingle)
    <3>1. l.ino = i
      BY <1>2, <1>4, <2>1, <2>3
    <3>2. Dinode(c, i).count > MaxSingle
      BY <1>3, <2>3, <3>1
    <3> QED
      BY <1>4, <1>5, <2>1, <3>1, <3>2
  <2> QED
    BY <2>2, <2>3
<1>8. ASSUME Dinode(c, i).count > MaxSingle, NEW l \in Own(c, i) PROVE l.ptr.no \in LostIn(s, d)
  <2>1. l \in Own(Load(s), i) /\ Dinode(Load(s), i) = Dinode(c, i)
    BY <1>5, <1>8
  <2>2. l \in AllLinks(Load(s)) /\ l.ino = i
    BY <1>1, <1>3, <2>1, LinkParts, OwnFields
  <2> QED
    BY <1>2, <1>8, <2>1, <2>2, LostIs
<1> QED
  BY <1>6, <1>7, <1>8 DEF OutOfPlay

(* Rewriting one inode keeps a context sound.                              *)
LEMMA MovedKeeps ==
  ASSUME NEW s, SoundImage(s), NEW c, Sound(s, c), NEW i \in Inos, i # 0,
         NEW d, NEW H, Moved(c, d, i, H)
  PROVE  Sound(s, d)
<1>1. /\ Shape(c) /\ LinksSound(c) /\ EntriesSound(c)
      /\ \A t \in DinodeBlocks : c.root[t].no = RootOf(s)[t].no
      /\ BackupKept(s, c)
  BY DEF Sound
<1>2. Shape(d) /\ LinksSound(d) /\ EntriesSound(d)
  <2>1. Shape(d)
    BY DEF Moved
  <2>2. LinksSound(d)
    BY <1>1, MovedSound
  <2>3. EntriesSound(d)
    BY <1>1, MovedEntries
  <2> QED
    BY <2>1, <2>2, <2>3
<1>3. OutOfPlay(s, c) \subseteq Others(c, i)
  BY OutOfPlayApart
<1>4. /\ Others(c, i) \cap H = {} /\ H \subseteq Blocks \ {0}
      /\ \A b \in Blocks \ {0} : Free(d, b) <=> b \notin Others(c, i) \cup H
      /\ \A b \in H : \E l \in Own(d, i) : l.ptr.no = b
      /\ \A l \in Own(d, i) : l.ptr.no \in H
      /\ \A b \in Blocks : b \notin H /\ b # TableBlock(c, i) => d.out[b] = c.out[b]
      /\ \A t \in DinodeBlocks : d.root[t].no = c.root[t].no
      /\ Dinode(d, i).count <= MaxSingle /\ Dinode(d, i).count \in Nat
  BY DEF Moved
<1>5. \A b \in Others(c, i) : b \in Blocks \ {0} /\ ~Free(c, b) /\ b \notin Mine(c, i)
  BY DEF Others
<1>6. /\ \A j \in Inos : Own(d, j) \subseteq AllLinks(d)
      /\ \A j \in Inos : Own(c, j) \subseteq AllLinks(c)
      /\ \A t \in DinodeBlocks : TableLink(d, t) \in AllLinks(d) /\ TableLink(c, t) \in AllLinks(c)
  BY <1>1, <1>2, LinkParts, TableSound DEF TableLink
<1>7. \A e : \A t \in DinodeBlocks : TableLink(e, t).ptr.no = e.root[t].no
  BY DEF TableLink
<1>8. ASSUME NEW b \in Blocks \ {0}, ~Free(d, b) PROVE b \in Linked(d) \cup OutOfPlay(s, d)
  <2>1. CASE b \in H
    <3>1. PICK l \in Own(d, i) : l.ptr.no = b
      BY <1>4, <2>1
    <3> QED
      BY <1>6, <3>1 DEF Linked
  <2>2. CASE b \in Others(c, i)
    <3>1. b \in Linked(c) \/ b \in OutOfPlay(s, c)
      BY <1>5, <2>2 DEF Sound
    <3>2. CASE b \in OutOfPlay(s, c)
      BY <3>2, MovedLost
    <3>3. CASE b \in Linked(c)
      <4>1. PICK l \in AllLinks(c) : l.ptr.no = b
        BY <3>3 DEF Linked
      <4>2. l \in Tables(c) \/ \E j \in Inos : l \in Own(c, j)
        BY LinkParts
      <4>3. CASE l \in Tables(c)
        <5>1. PICK t \in DinodeBlocks : l = TableLink(c, t)
          BY <4>3 DEF Tables, TableLink
        <5>2. TableLink(d, t).ptr.no = b
          BY <1>4, <1>7, <4>1, <5>1
        <5> QED
          BY <1>6, <5>2 DEF Linked
      <4>4. CASE \E j \in Inos : j # i /\ l \in Own(c, j)
        <5>1. l \in AllLinks(d)
          BY <1>1, <1>6, <4>4, OthersSame
        <5> QED
          BY <4>1, <5>1 DEF Linked
      <4>5. CASE l \in Own(c, i)
        <5>1. ~(Dinode(c, i).count <= MaxSingle)
          BY <1>1, <1>5, <2>2, <4>1, <4>5, OldBlocksHeld
        <5>2. Dinode(c, i).count > MaxSingle
          BY <1>1, <5>1, OldBlocksAre, Sizes
        <5> QED
          BY <4>1, <4>5, <5>2, MovedLost
      <4> QED
        BY <4>2, <4>3, <4>4, <4>5
    <3> QED
      BY <3>1, <3>2, <3>3
  <2> QED
    BY <1>4, <1>8, <2>1, <2>2
<1>9. ASSUME NEW b \in Others(c, i), b \in Linked(d)
      PROVE  \/ \E s1 \in DinodeBlocks : c.root[s1].no = b
             \/ \E j \in Inos : j # i /\ \E l \in Own(c, j) : l.ptr.no = b
  <2>1. PICK l \in AllLinks(d) : l.ptr.no = b
    BY <1>9 DEF Linked
  <2>2. l \notin Own(d, i)
    BY <1>4, <2>1
  <2>3. CASE \E j \in Inos : j # i /\ l \in Own(c, j)
    BY <2>1, <2>3
  <2>4. CASE \E t \in DinodeBlocks : l = TableLink(d, t)
    BY <1>4, <1>7, <2>1, <2>4
  <2> QED
    BY <1>1, <2>2, <2>3, <2>4, MovedLinks
<1>10. ASSUME NEW b \in OutOfPlay(s, d) PROVE b \in Blocks \ {0} /\ ~Free(d, b) /\ b \notin Linked(d)
  <2>1. CASE b \in OutOfPlay(s, c)
    <3>1. b \in Others(c, i) /\ b \notin Linked(c) /\ b \in Blocks \ {0}
      BY <1>3, <1>5, <2>1 DEF Sound
    <3>2. ~Free(d, b)
      BY <1>4, <3>1
    <3>3. b \notin Linked(d)
      BY <1>6, <1>7, <1>9, <3>1 DEF Linked
    <3> QED
      BY <3>1, <3>2, <3>3
  <2>2. CASE Dinode(c, i).count > MaxSingle /\ \E l \in Own(c, i) : l.ptr.no = b
    <3>1. PICK l \in Own(c, i) : l.ptr.no = b
      BY <2>2
    <3>2. l \in AllLinks(c) /\ b \in Blocks \ {0} /\ ~Free(c, b) /\ l.ino = i
      BY <1>1, <3>1, OwnSound, OwnFields, OldBlocksAre DEF LinkSound
    <3>3. b \notin Mine(c, i)
      <4>1. Dinode(c, i).count \in Nat /\ MaxSingle \in Nat
        BY <1>1, OldBlocksAre, Sizes
      <4>2. ~(Dinode(c, i).count <= MaxSingle)
        BY <2>2, <4>1
      <4> QED
        BY <1>1, <4>2, OldBlocksHeld
    <3>4. b \in Others(c, i)
      BY <3>2, <3>3 DEF Others
    <3>5. b \notin Linked(d)
      <4>1. \A t \in DinodeBlocks : c.root[t].no # b
        BY <1>1, <3>1, OthersApart
      <4>2. ASSUME NEW j \in Inos, j # i, NEW m \in Own(c, j), m.ptr.no = b PROVE FALSE
        <5>1. m \in AllLinks(c) /\ m.ino = j
          BY <1>1, <4>2, OwnSound, OwnFields, OldBlocksAre
        <5>2. m = l
          BY <1>1, <3>1, <3>2, <4>2, <5>1 DEF LinksSound
        <5> QED
          BY <3>2, <4>2, <5>1, <5>2
      <4> QED
        BY <1>9, <3>4, <4>1, <4>2
    <3> QED
      BY <1>4, <3>2, <3>4, <3>5
  <2> QED
    BY <2>1, <2>2, MovedLost
<1>11. BackupKept(s, d)
  <2>1. ASSUME NEW b \in Backup(s) PROVE d.out[b] = s[b]
    <3>1. b \in Others(c, i)
      BY <1>3 DEF OutOfPlay
    <3>2. b \in OutOfPlay(s, c) /\ b \notin Linked(c)
      BY DEF OutOfPlay, Sound
    <3>3. b # TableBlock(c, i)
      <4>1. i \div IPB \in DinodeBlocks
        BY InodePlace
      <4> QED
        BY <1>6, <1>7, <3>2, <4>1 DEF Linked, TableBlock
    <3>4. d.out[b] = c.out[b]
      BY <1>4, <1>5, <3>1, <3>3
    <3> QED
      BY <1>1, <3>4 DEF BackupKept
  <2> QED
    BY <2>1 DEF BackupKept
<1>12. ASSUME NEW j \in Inos, Dinode(d, j).count > MaxSingle PROVE Same(Load(s), d, j)
  <2>1. j # i
    BY <1>4, <1>12, Sizes
  <2>2. Dinode(d, j) = Dinode(c, j) /\ Same(c, d, j)
    BY <1>1, <2>1, OthersSame DEF Moved
  <2>3. Same(Load(s), c, j)
    BY <1>12, <2>2 DEF Sound
  <2>4. IsDinode(Dinode(Load(s), j))
    BY Source, DinodeShape
  <2> QED
    BY <2>2, <2>3, <2>4, SameTwice
<1>13. \A t \in DinodeBlocks : d.root[t].no = RootOf(s)[t].no
  BY <1>1, <1>4
<1> QED
  BY <1>2, <1>8, <1>10, <1>11, <1>12, <1>13 DEF Sound

-----------------------------------------------------------------------------
(* Writing an inode's content to blocks it has by now is such a rewriting. *)

LEMMA Placed ==
  ASSUME NEW c, Shape(c), LinksSound(c), NEW i \in Inos, NEW e, NEW phys, NEW ib,
         Has(c, Others(c, i), e, i, phys, ib, IndOf(Len(phys), ib)), Len(phys) <= MaxSingle
  PROVE  /\ Shape(e) /\ TablesPlaced(e) /\ Placeable(e, phys, ib)
         /\ Held(phys, ib) = ToSet(phys) \cup IndOf(Len(phys), ib)
         /\ e.out = c.out /\ e.root = c.root /\ e.inob = c.inob
         /\ Mid(c, Others(c, i), e, Held(phys, ib))
         /\ Len(phys) \in Nat
<1>1. Held(phys, ib) = ToSet(phys) \cup IndOf(Len(phys), ib)
  BY DEF Held, IndOf
<1>2. /\ phys \in Seq(Blocks) /\ Distinct(phys)
      /\ IndOf(Len(phys), ib) \cap ToSet(phys) = {}
      /\ Mid(c, Others(c, i), e, Held(phys, ib))
  BY <1>1 DEF Has
<1>3. /\ e = [out |-> c.out, root |-> c.root, bitmap |-> e.bitmap, bat |-> e.bat,
              inob |-> c.inob, dirty |-> e.dirty]
      /\ e.bitmap \in [Blocks -> BOOLEAN] /\ e.bat = [b \in Blocks |-> e.bat[b]]
      /\ e.dirty \in BOOLEAN
      /\ Held(phys, ib) \subseteq Blocks \ {0} /\ Others(c, i) \cap Held(phys, ib) = {}
  BY <1>2 DEF Mid
<1>4. e.out = c.out /\ e.root = c.root /\ e.inob = c.inob
  BY <1>3
<1>5. Shape(e)
  <2>1. e = [out |-> e.out, root |-> e.root, bitmap |-> e.bitmap, bat |-> e.bat,
             inob |-> e.inob, dirty |-> e.dirty]
    BY <1>3, <1>4
  <2> QED
    BY <1>3, <1>4, <2>1 DEF Shape
<1>6. TablesPlaced(e)
  BY <1>4, TableSound DEF TablesPlaced
<1>7. Placeable(e, phys, ib)
  <2>1. Len(phys) > NDirect => ib \in Blocks /\ ib \notin ToSet(phys)
    <3>1. ASSUME Len(phys) > NDirect PROVE ib \in Blocks /\ ib \notin ToSet(phys)
      <4>1. IndOf(Len(phys), ib) = {ib}
        BY <3>1 DEF IndOf
      <4> QED
        BY <1>1, <1>2, <1>3, <4>1
    <3> QED
      BY <3>1
  <2>2. \A s \in DinodeBlocks : e.root[s].no \notin Held(phys, ib)
    BY <1>3, <1>4, OthersApart
  <2> QED
    BY <1>2, <2>1, <2>2 DEF Placeable
<1>8. Len(phys) \in Nat
  BY <1>2
<1> QED
  BY <1>1, <1>2, <1>4, <1>5, <1>6, <1>7, <1>8

LEMMA StoredMoved ==
  ASSUME NEW c, Shape(c), LinksSound(c), NEW i \in Inos, NEW e, NEW phys, NEW ib,
         Has(c, Others(c, i), e, i, phys, ib, IndOf(Len(phys), ib)), Len(phys) <= MaxSingle,
         NEW di, di.count = Len(phys), NEW content, EntriesIn(content),
         NEW d, Stored(e, d, i, di, phys, ib, content), Elsewhere(e, d, i, phys, ib)
  PROVE  Moved(c, d, i, Held(phys, ib))
<1> DEFINE H == Held(phys, ib)
           n == Len(phys)
           P == Others(c, i)
           b0 == TableBlock(c, i)
           dl(k) == DataLink(d, i, k)
           il == IndLink(i, -1, Dinode(d, i).ind)
<1>1. /\ e.out = c.out /\ e.root = c.root /\ Mid(c, P, e, H) /\ n \in Nat
      /\ H = ToSet(phys) \cup IndOf(n, ib)
  BY Placed
<1>2. /\ H \subseteq Blocks \ {0} /\ P \cap H = {}
      /\ \A b \in Blocks \ {0} : Free(e, b) <=> b \notin P \cup H
      /\ \A b \in P : e.bat[b] = c.bat[b]
  BY <1>1 DEF Mid
<1>3. TableBlock(e, i) = b0
  BY <1>1 DEF TableBlock
<1>4. d.bitmap = e.bitmap /\ d.bat = e.bat
  BY DEF Stored
<1>5. \A b : Free(d, b) <=> Free(e, b)
  BY <1>4 DEF Free
<1>6. \A b \in Blocks : b \notin H /\ b # b0 => d.out[b] = c.out[b]
  BY <1>1, <1>3 DEF Elsewhere
<1>7. /\ \A s \in DinodeBlocks : d.root[s].no = c.root[s].no
      /\ \A s \in DinodeBlocks : s # i \div IPB => d.root[s] = c.root[s]
      /\ d.root[i \div IPB] = [no |-> b0, dig |-> Digest(b0, d.out[b0])]
  BY <1>1, <1>3 DEF Stored
<1>8. \A j \in Inos : j # i => Dinode(d, j) = Dinode(c, j)
  <2>1. \A j : Dinode(e, j) = Dinode(c, j)
    BY <1>1 DEF Dinode
  <2> QED
    BY <2>1 DEF Stored
<1>9. Dinode(d, i).count = n /\ n <= MaxSingle
  BY DEF Stored, SameFile
<1>10. /\ \A k \in 0 .. n - 1 :
            Pointer(d, i, k) = [no |-> phys[k + 1], dig |-> Digest(phys[k + 1], d.out[phys[k + 1]])]
       /\ n > NDirect => Dinode(d, i).ind = [no |-> ib, dig |-> Digest(ib, d.out[ib])]
       /\ ReadContent(d.out, Dinode(d, i)) = content
       /\ Shape(d)
  BY DEF Stored
<1>11. /\ phys \in Seq(Blocks) /\ Distinct(phys) /\ IndOf(n, ib) \cap ToSet(phys) = {}
       /\ \A k \in 1 .. n : e.bat[phys[k]] = OwnerOfSlot(i, k - 1, ib)
       /\ \A b \in IndOf(n, ib) : e.bat[b] = i
  BY DEF Has
<1>12. /\ DOMAIN phys = 1 .. n /\ ToSet(phys) = {phys[k] : k \in 1 .. n}
       /\ \A k \in 1 .. n : phys[k] \in ToSet(phys)
  BY <1>11, SeqSet
<1>13. NDirect \in Nat /\ MaxSingle \in Nat /\ MaxSingle > NDirect
  BY Sizes
<1>14. \A l : l \in Own(d, i) <=> \/ \E k \in 0 .. n - 1 : l = dl(k)
                                  \/ n > NDirect /\ l = il
  <2>1. Leaves(d, i) = {} /\ ~(Dinode(d, i).count > MaxSingle)
    BY <1>1, <1>9, <1>13 DEF Leaves
  <2>2. Dinode(d, i).count \in Nat
    BY <1>1, <1>9
  <2> HIDE DEF n
  <2> QED
    BY <1>9, <2>1, <2>2, OwnIs
<1>15. ASSUME NEW k \in 0 .. n - 1
       PROVE  /\ dl(k).ptr = [no |-> phys[k + 1], dig |-> Digest(phys[k + 1], d.out[phys[k + 1]])]
              /\ dl(k).kind = "data" /\ dl(k).ino = i /\ dl(k).slot = k
              /\ phys[k + 1] \in H /\ k + 1 \in 1 .. n
              /\ d.bat[phys[k + 1]] = OwnerOfSlot(i, k, ib)
  <2>1. k + 1 \in 1 .. n /\ k + 1 - 1 = k
    BY <1>1
  <2>2. phys[k + 1] \in H
    BY <1>1, <1>12, <2>1
  <2>3. d.bat[phys[k + 1]] = OwnerOfSlot(i, k, ib)
    BY <1>4, <1>11, <2>1
  <2>4. /\ dl(k).ptr = Pointer(d, i, k) /\ dl(k).kind = "data" /\ dl(k).ino = i
        /\ dl(k).slot = k
    BY DEF DataLink
  <2> HIDE DEF dl, H, n
  <2> QED
    BY <1>10, <2>1, <2>2, <2>3, <2>4
<1>16. ASSUME n > NDirect
       PROVE  /\ il.ptr = [no |-> ib, dig |-> Digest(ib, d.out[ib])]
              /\ il.kind = "ind" /\ il.ino = i /\ ib \in IndOf(n, ib) /\ ib \in H
              /\ d.bat[ib] = i
  <2>1. ib \in IndOf(n, ib) /\ ib \in H
    BY <1>1, <1>16 DEF IndOf
  <2>2. d.bat[ib] = i
    BY <1>4, <1>11, <2>1
  <2>3. il.ptr = Dinode(d, i).ind /\ il.kind = "ind" /\ il.ino = i
    BY DEF IndLink
  <2> HIDE DEF il, H
  <2> QED
    BY <1>10, <1>16, <2>1, <2>2, <2>3
<1>17. \A b \in H : b \in Blocks \ {0} /\ ~Free(d, b)
  BY <1>2, <1>5
<1>18. n > NDirect => Dinode(d, i).ind.no = ib
  BY <1>10
<1> HIDE DEF H, n, P, b0, dl, il
<1>19. ASSUME NEW k \in 0 .. n - 1 PROVE LinkSound(d, dl(k)) /\ dl(k).ptr.no = phys[k + 1]
  <2>1. /\ dl(k).ptr.no = phys[k + 1]
        /\ dl(k).ptr.dig = Digest(phys[k + 1], d.out[phys[k + 1]])
    <3> DEFINE b == phys[k + 1]
               p == dl(k).ptr
    <3>1. p = [no |-> b, dig |-> Digest(b, d.out[b])]
      BY <1>15
    <3> HIDE DEF b, p
    <3>2. p.no = b /\ p.dig = Digest(b, d.out[b])
      BY <3>1
    <3> QED
      BY <3>2 DEF b, p
  <2>2. Verifies(d.out, dl(k).ptr)
    BY <2>1 DEF Verifies
  <2>3. BatRight(d, dl(k))
    <3>1. d.bat[dl(k).ptr.no] = IF dl(k).slot < NDirect THEN dl(k).ino
                                ELSE IndFlag + Dinode(d, i).ind.no
      <4>1. CASE k < NDirect
        BY <1>15, <2>1, <4>1 DEF OwnerOfSlot
      <4>2. CASE ~(k < NDirect)
        <5>1. n > NDirect
          BY <1>1, <1>13, <4>2
        <5> QED
          BY <1>15, <1>18, <2>1, <4>2, <5>1 DEF OwnerOfSlot, IndOwner
      <4> QED
        BY <4>1, <4>2
    <3> QED
      BY <1>15, <3>1 DEF BatRight
  <2> QED
    BY <1>15, <1>17, <2>1, <2>2, <2>3 DEF LinkSound
<1>20. ASSUME n > NDirect PROVE LinkSound(d, il) /\ il.ptr.no = ib
  <2>1. il.ptr.no = ib /\ il.ptr.dig = Digest(ib, d.out[ib])
    BY <1>16, <1>20
  <2>2. Verifies(d.out, il.ptr)
    BY <2>1 DEF Verifies
  <2>3. BatRight(d, il)
    BY <1>16, <1>20, <2>1 DEF BatRight
  <2> QED
    BY <1>16, <1>17, <1>20, <2>1, <2>2, <2>3 DEF LinkSound
<1>21. ASSUME NEW l \in Own(d, i) PROVE LinkSound(d, l) /\ l.ptr.no \in H
  <2>1. ASSUME NEW k \in 0 .. n - 1, l = dl(k) PROVE LinkSound(d, l) /\ l.ptr.no \in H
    BY <1>15, <1>19, <2>1
  <2>2. ASSUME n > NDirect, l = il PROVE LinkSound(d, l) /\ l.ptr.no \in H
    BY <1>16, <1>20, <2>2
  <2> QED
    BY <1>14, <2>1, <2>2
<1>22. ASSUME NEW l \in Own(d, i), NEW m \in Own(d, i), l.ptr.no = m.ptr.no PROVE l = m
  <2>1. ASSUME NEW j \in 0 .. n - 1, NEW k \in 0 .. n - 1, dl(j).ptr.no = dl(k).ptr.no
        PROVE  j = k
    <3>1. phys[j + 1] = phys[k + 1] /\ j + 1 \in DOMAIN phys /\ k + 1 \in DOMAIN phys
      BY <1>12, <1>15, <1>19, <2>1
    <3>2. j + 1 = k + 1
      BY <1>11, <3>1 DEF Distinct
    <3> QED
      BY <3>2
  <2>2. ASSUME NEW k \in 0 .. n - 1, n > NDirect PROVE dl(k).ptr.no # il.ptr.no
    <3>1. phys[k + 1] \in ToSet(phys) /\ ib \in IndOf(n, ib)
      BY <1>12, <1>15, <1>16, <2>2
    <3>2. phys[k + 1] # ib
      BY <1>11, <3>1
    <3> QED
      BY <1>19, <1>20, <2>2, <3>2
  <2>3. CASE n > NDirect /\ l = il
    BY <1>14, <1>22, <2>2, <2>3
  <2>4. CASE \E k \in 0 .. n - 1 : l = dl(k)
    BY <1>14, <1>22, <2>1, <2>2, <2>4
  <2> QED
    BY <1>14, <2>3, <2>4
<1>23. ASSUME NEW b \in H PROVE \E l \in Own(d, i) : l.ptr.no = b
  <2>1. CASE b \in ToSet(phys)
    <3>1. PICK k \in 1 .. n : b = phys[k]
      BY <1>12, <2>1
    <3>2. k - 1 \in 0 .. n - 1 /\ k - 1 + 1 = k
      BY <1>1
    <3>3. dl(k - 1).ptr.no = b
      BY <1>19, <3>1, <3>2
    <3> QED
      BY <1>14, <3>2, <3>3
  <2>2. CASE b \in IndOf(n, ib)
    <3>1. n > NDirect /\ b = ib
      BY <2>2 DEF IndOf
    <3> QED
      BY <1>14, <1>20, <3>1
  <2> QED
    BY <1>1, <2>1, <2>2
<1>24. \A b \in Blocks \ {0} : Free(d, b) <=> b \notin P \cup H
  BY <1>2, <1>5
<1>25. \A b \in P : d.bat[b] = c.bat[b]
  BY <1>2, <1>4
<1>26. Dinode(d, i).count \in Nat /\ Dinode(d, i).count <= MaxSingle
  BY <1>1, <1>9
<1>27. EntriesIn(ReadContent(d.out, Dinode(d, i)))
  BY <1>10
<1>28. Shape(d)
  BY <1>10
<1> QED
  BY <1>2, <1>6, <1>7, <1>8, <1>21, <1>22, <1>23, <1>24, <1>25, <1>26, <1>27, <1>28
  DEF Moved, H, n, P, b0

-----------------------------------------------------------------------------
(* What a writer of inode i may do to c: if it succeeds, the context is    *)
(* sound and all other inodes are as they were; and in any case the backup *)
(* generation and the header are.                                          *)
Touched(s, c, i, r) ==
  /\ r.ok \in BOOLEAN
  /\ BackupKept(s, r.c) /\ r.c.out[0] = c.out[0]
  /\ r.ok => /\ Sound(s, r.c)
             /\ \A j \in Inos : j # i => Same(c, r.c, j)
             /\ r.c.inob = c.inob
             /\ ~r.c.dirty => ~c.dirty /\ r.c.bitmap = c.bitmap /\ r.c.bat = c.bat

(* The file it wrote *)
Rewrote(s, c, i, di, content, r) ==
  /\ Touched(s, c, i, r)
  /\ r.ok => /\ SameFile(Dinode(r.c, i), di)
             /\ ReadContent(r.c.out, Dinode(r.c, i)) = content

LEMMA Rewritten ==
  ASSUME NEW s, SoundImage(s), NEW c, Sound(s, c), NEW i \in Inos, i # 0,
         NEW e, NEW phys, NEW ib,
         Has(c, Others(c, i), e, i, phys, ib, IndOf(Len(phys), ib)),
         NEW di, IsDinode(di), NEW content, IsSeq(content), EntriesIn(content),
         di.size = Len(content), Len(phys) = di.count, Len(phys) <= MaxSingle, NEW base
  PROVE  LET r == StoreContent(e, i, di, phys, ib, base, content)
         IN /\ Rewrote(s, c, i, di, content, r)
            /\ r.ok => r.c.bitmap = e.bitmap /\ r.c.bat = e.bat /\ r.c.dirty = e.dirty
<1> DEFINE r == StoreContent(e, i, di, phys, ib, base, content)
           d == r.c
           H == Held(phys, ib)
<1>1. Shape(c) /\ LinksSound(c) /\ BackupKept(s, c)
  BY DEF Sound
<1>2. /\ Shape(e) /\ TablesPlaced(e) /\ Placeable(e, phys, ib)
      /\ e.out = c.out /\ e.root = c.root /\ e.inob = c.inob
      /\ Mid(c, Others(c, i), e, H)
  BY <1>1, Placed
<1>3. /\ r.ok \in BOOLEAN
      /\ r.ok => Stored(e, r.c, i, di, phys, ib, content)
      /\ Elsewhere(e, r.c, i, phys, ib)
  BY <1>2, StoreResult
<1> HIDE DEF r
<1>4. H \subseteq Blocks \ {0} /\ Others(c, i) \cap H = {}
      /\ (~e.dirty => ~c.dirty /\ e.bitmap = c.bitmap /\ e.bat = c.bat)
  BY <1>2 DEF Mid
<1>5. TableBlock(e, i) = TableBlock(c, i)
  BY <1>2 DEF TableBlock
<1>7. \A b \in Blocks : b \notin H /\ b # TableBlock(c, i) => d.out[b] = c.out[b]
  BY <1>2, <1>3, <1>5 DEF Elsewhere
<1>8. i \div IPB \in DinodeBlocks /\ TableBlock(c, i) \in Blocks \ {0}
  BY <1>1, InodePlace, TableSound DEF TablesPlaced, TableBlock
<1>9. BackupKept(s, d)
  <2>1. ASSUME NEW b \in Backup(s) PROVE d.out[b] = s[b]
    <3>1. b \in OutOfPlay(s, c)
      BY DEF OutOfPlay
    <3>2. b \in Others(c, i) /\ b \in Blocks /\ b \notin Linked(c)
      BY <3>1, OutOfPlayApart DEF Sound
    <3>3. b # TableBlock(c, i)
      <4>1. TableLink(c, i \div IPB) \in AllLinks(c)
        BY <1>1, <1>8, TableSound DEF TableLink
      <4>2. TableLink(c, i \div IPB).ptr.no = TableBlock(c, i)
        BY DEF TableLink, TableBlock
      <4> QED
        BY <3>2, <4>1, <4>2 DEF Linked
    <3>4. d.out[b] = c.out[b]
      BY <1>4, <1>7, <3>2, <3>3
    <3> QED
      BY <1>1, <3>4 DEF BackupKept
  <2> QED
    BY <2>1 DEF BackupKept
<1>10. d.out[0] = c.out[0]
  <2>1. 0 \in Blocks
    BY Sizes DEF Blocks
  <2> QED
    BY <1>4, <1>7, <1>8, <2>1
<1>11. ASSUME r.ok
       PROVE  /\ Sound(s, d)
              /\ \A j \in Inos : j # i => Same(c, d, j)
              /\ d.inob = c.inob
              /\ d.bitmap = e.bitmap /\ d.bat = e.bat /\ d.dirty = e.dirty
              /\ SameFile(Dinode(d, i), di)
              /\ ReadContent(d.out, Dinode(d, i)) = content
  <2>1. Stored(e, d, i, di, phys, ib, content)
    BY <1>3, <1>11
  <2>2. Moved(c, d, i, H)
    BY <1>1, <1>3, <2>1, StoredMoved
  <2>3. Sound(s, d)
    BY <2>2, MovedKeeps
  <2>4. \A j \in Inos : j # i => Same(c, d, j)
    BY <1>1, <2>2, OthersSame
  <2>5. d.inob = c.inob /\ d.bitmap = e.bitmap /\ d.bat = e.bat /\ d.dirty = e.dirty
    BY <1>2, <2>1 DEF Stored
  <2>6. SameFile(Dinode(d, i), di) /\ ReadContent(d.out, Dinode(d, i)) = content
    BY <2>1 DEF Stored
  <2> QED
    BY <2>3, <2>4, <2>5, <2>6
<1>12. r.ok => (~d.dirty => ~c.dirty /\ d.bitmap = c.bitmap /\ d.bat = c.bat)
  BY <1>4, <1>11
<1>13. Rewrote(s, c, i, di, content, r)
  BY <1>3, <1>9, <1>10, <1>11, <1>12 DEF Rewrote, Touched
<1> QED
  BY <1>11, <1>13 DEF r

-----------------------------------------------------------------------------
(* The four writers *)

LEMMA Untouched ==
  ASSUME NEW s, NEW c, Sound(s, c), NEW i, NEW r, r.c = c, r.ok \in BOOLEAN
  PROVE  Touched(s, c, i, r)
<1>1. BackupKept(s, c)
  BY DEF Sound
<1> QED
  BY <1>1, SameSelf DEF Touched

(* A writer that gave up while it was reserving blocks has written none.   *)
LEMMA GaveUp ==
  ASSUME NEW s, NEW c, Sound(s, c), NEW i, NEW P, NEW e, \E H : Mid(c, P, e, H)
  PROVE  Touched(s, c, i, Failed(e))
<1>1. e.out = c.out
  BY DEF Mid
<1>2. BackupKept(s, e)
  BY <1>1 DEF Sound, BackupKept
<1>3. Failed(e).ok = FALSE /\ Failed(e).c = e
  BY DEF Failed
<1> HIDE DEF Failed
<1> QED
  BY <1>1, <1>2, <1>3 DEF Touched

Filled(meta, content) ==
  [meta EXCEPT !.direct = ZeroDinode.direct, !.ind = NoPtr, !.ind2 = NoPtr,
               !.size = Len(content), !.count = CeilDiv(Len(content), BBS)]

LEMMA FilledDinode ==
  ASSUME NEW meta, IsDinode(meta), NEW content, IsSeq(content)
  PROVE  /\ IsDinode(Filled(meta, content))
         /\ Filled(meta, content).size = Len(content)
         /\ Filled(meta, content).count = CeilDiv(Len(content), BBS)
         /\ Filled(meta, content).mode = meta.mode
         /\ Filled(meta, content).comp = meta.comp
         /\ Filled(meta, content).link = meta.link
<1> DEFINE f == Filled(meta, content)
           dir == ZeroDinode.direct
           n == CeilDiv(Len(content), BBS)
<1>1. meta = [mode |-> meta.mode, comp |-> meta.comp, link |-> meta.link,
              size |-> meta.size, count |-> meta.count, direct |-> meta.direct,
              ind |-> meta.ind, ind2 |-> meta.ind2]
  BY DEF IsDinode
<1>2. dir = [k \in 1 .. NDirect |-> dir[k]]
  BY DEF ZeroDinode
<1>3. Len(content) \in Nat
  BY DEF IsSeq
<1> HIDE DEF dir, n
<1>4. f = [mode |-> meta.mode, comp |-> meta.comp, link |-> meta.link,
           size |-> Len(content), count |-> n, direct |-> dir,
           ind |-> NoPtr, ind2 |-> NoPtr]
  <2>1. f = [meta EXCEPT !.direct = dir, !.ind = NoPtr, !.ind2 = NoPtr,
                         !.size = Len(content), !.count = n]
    BY DEF Filled, dir, n
  <2> HIDE DEF f
  <2> QED
    BY <1>1, <2>1
<1> HIDE DEF f
<1>5. /\ f.mode = meta.mode /\ f.comp = meta.comp /\ f.link = meta.link
      /\ f.size = Len(content) /\ f.count = n /\ f.direct = dir
      /\ f.ind = NoPtr /\ f.ind2 = NoPtr
  BY <1>4
<1>6. f = [mode |-> f.mode, comp |-> f.comp, link |-> f.link, size |-> f.size,
           count |-> f.count, direct |-> f.direct, ind |-> f.ind, ind2 |-> f.ind2]
  BY <1>4, <1>5
<1>7. f.count = CeilDiv(f.size, BBS) /\ f.size \in Nat
  BY <1>3, <1>5 DEF n
<1>8. IsDinode(f)
  BY <1>2, <1>5, <1>6, <1>7 DEF IsDinode
<1> QED
  BY <1>5, <1>8 DEF f, n

(* pfs_repack_put_content replaces an inode's dinode and content.          *)
LEMMA PutContentDone ==
  ASSUME NEW s, SoundImage(s), NEW c, Sound(s, c), NEW i \in Inos, i # 0,
         NEW meta, IsDinode(meta), NEW content, IsSeq(content), EntriesIn(content)
  PROVE  Rewrote(s, c, i, Filled(meta, content), content, PutContent(c, i, meta, content))
<1> DEFINE was == Dinode(c, i)
           old == OldBlocks(c, i)
           ib == OldInd(c, i)
           n == CeilDiv(Len(content), BBS)
           r == Reserve(c, i, ib, old, n)
           e == FreeBlocks(r.c, Surplus(old, ib, n))
           di == Filled(meta, content)
           x == PutContent(c, i, meta, content)
           y == StoreContent(e, i, di, r.phys, r.ib, NoEntries, content)
           P == Others(c, i)
<1>1. /\ x = IF n > MaxSingle \/ i \div IPB >= NSuper THEN Failed(c)
             ELSE IF ~r.ok THEN Failed(r.c) ELSE y
  BY DEF PutContent, Filled, OldBlocks, OldInd, Dinode
<1>2. Has(c, P, c, i, old, ib, IndOf(Len(old), ib))
  BY OldBlocksHeld DEF Sound
<1>3. Len(content) \in Nat /\ n \in Nat
  BY BlocksOf DEF IsSeq
<1>4. /\ IsDinode(di) /\ di.size = Len(content) /\ di.count = n
  BY FilledDinode
<1> HIDE DEF n, old, ib, x, y, di
<1>5. /\ r.ok \in BOOLEAN /\ \E H : Mid(c, P, r.c, H)
      /\ r.ok => Has(c, P, e, i, r.phys, r.ib, IndOf(n, r.ib)) /\ Len(r.phys) = n
  BY <1>2, <1>3, Refitted
<1> HIDE DEF r, e, P
<1>6. CASE n > MaxSingle \/ i \div IPB >= NSuper
  <2>1. x = Failed(c) /\ x.c = c /\ x.ok = FALSE
    BY <1>1, <1>6 DEF Failed
  <2>2. Touched(s, c, i, x)
    BY <2>1, Untouched
  <2> QED
    BY <2>1, <2>2 DEF Rewrote, x, di
<1>7. CASE ~(n > MaxSingle \/ i \div IPB >= NSuper) /\ ~r.ok
  <2>1. x = Failed(r.c)
    BY <1>1, <1>7
  <2>2. Touched(s, c, i, x)
    BY <1>5, <2>1, GaveUp
  <2>3. x.ok = FALSE
    BY <2>1 DEF Failed
  <2> QED
    BY <2>2, <2>3 DEF Rewrote, x, di
<1>8. CASE ~(n > MaxSingle \/ i \div IPB >= NSuper) /\ r.ok
  <2>1. x = y
    BY <1>1, <1>8
  <2>2. n <= MaxSingle
    BY <1>3, <1>8, Sizes
  <2>3. Has(c, Others(c, i), e, i, r.phys, r.ib, IndOf(Len(r.phys), r.ib)) /\ Len(r.phys) = n
    BY <1>5, <1>8 DEF P
  <2>4. Rewrote(s, c, i, di, content, y)
    BY <1>4, <2>2, <2>3, Rewritten DEF y
  <2> QED
    BY <2>1, <2>4 DEF x, di
<1> QED
  BY <1>6, <1>7, <1>8

-----------------------------------------------------------------------------
(* What the other three take from the source is what is in the output.     *)

LEMMA Listed ==
  ASSUME NEW s, SoundImage(s), NEW c, Sound(s, c), NEW i \in Inos,
         Same(Load(s), c, i), Dinode(c, i).size # 0
  PROVE  /\ DinodeAt(s, c.root, i) = Dinode(c, i)
         /\ Len(ListedBlocks(s, Dinode(c, i))) = Dinode(c, i).count
         /\ Dinode(c, i).count <= MaxSingle => ListedBlocks(s, Dinode(c, i)) = OldBlocks(c, i)
<1> DEFINE di == Dinode(c, i)
           n == IF di.size = 0 THEN 1 ELSE CeilDiv(di.size, BBS)
           m == IF di.count > MaxSingle THEN 0 ELSE di.count
           f == [k \in 1 .. n |-> PtrAt(s, di, k - 1).no]
           g == [k \in 1 .. m |-> PtrAt(c.out, di, k - 1).no]
<1>1. IsDinode(di) /\ Shape(c) /\ IsDinode(Dinode(Load(s), i)) /\ Shape(Load(s))
  BY DinodeShape, Source DEF Sound
<1>2. DinodeAt(s, c.root, i) = di
  <2>1. i \div IPB \in DinodeBlocks
    BY InodePlace
  <2>2. c.root[i \div IPB].no = RootOf(s)[i \div IPB].no
    BY <2>1 DEF Sound
  <2>3. DinodeAt(s, c.root, i) = DinodeAt(s, RootOf(s), i)
    BY <2>2 DEF DinodeAt
  <2>4. DinodeAt(s, RootOf(s), i) = Dinode(Load(s), i)
    BY Source
  <2>5. Dinode(Load(s), i) = di
    BY DEF Same
  <2> QED
    BY <2>3, <2>4, <2>5
<1>3. /\ di.size \in Nat /\ di.count = CeilDiv(di.size, BBS) /\ di.count \in Nat
      /\ di.size # 0
  <2>1. di.size \in Nat /\ di.count = CeilDiv(di.size, BBS)
    BY <1>1 DEF IsDinode
  <2> QED
    BY <2>1, BlocksOf
<1>4. n = di.count
  BY <1>3
<1>5. ListedBlocks(s, di) = SubSeq(f, 1, n)
  BY DEF ListedBlocks
<1>6. OldBlocks(c, i) = SubSeq(g, 1, m)
  BY DEF OldBlocks, CollectedBlocks
<1>7. ASSUME NEW k \in 0 .. di.count - 1 PROVE PtrAt(s, di, k) = PtrAt(c.out, di, k)
  <2>1. Dinode(Load(s), i) = di /\ Load(s).out = s
    BY Source DEF Same
  <2>2. k \in 0 .. Dinode(Load(s), i).count - 1
    BY <2>1
  <2>3. Pointer(c, i, k) = Pointer(Load(s), i, k)
    BY <1>1, <2>2, SameOwn
  <2> QED
    BY <2>1, <2>3 DEF Pointer
<1>8. f = [k \in 1 .. n |-> f[k]]
  OBVIOUS
<1>9. SubSeq(f, 1, n) = f /\ Len(f) = n
  <2>1. n \in Nat
    BY <1>3, <1>4
  <2> HIDE DEF f, n
  <2> QED
    BY <1>8, <2>1, WholeCut
<1>10. ASSUME di.count <= MaxSingle PROVE SubSeq(f, 1, n) = SubSeq(g, 1, m)
  <2>1. m = n /\ m = di.count
    BY <1>3, <1>4, <1>10, Sizes
  <2>2. ASSUME NEW k \in 1 .. n PROVE PtrAt(s, di, k - 1).no = PtrAt(c.out, di, k - 1).no
    <3>1. k - 1 \in 0 .. di.count - 1
      BY <1>3, <1>4
    <3> QED
      BY <1>7, <3>1
  <2>3. f = g
    <3> HIDE DEF n, m, di
    <3> QED
      BY <2>1, <2>2
  <2> QED
    BY <2>1, <2>3
<1> HIDE DEF f, g, n, m, di
<1> QED
  BY <1>2, <1>4, <1>5, <1>6, <1>9, <1>10 DEF di

(* pfs_repack_patch_file *)
LEMMA PatchFileDone ==
  ASSUME NEW s, SoundImage(s), NEW c, Sound(s, c), NEW i \in Inos, i # 0,
         Same(Load(s), c, i), Dinode(c, i).size # 0,
         NEW content, IsSeq(content), EntriesIn(content)
  PROVE  LET r == PatchFile(c, s, i, content)
         IN /\ Touched(s, c, i, r)
            /\ r.ok => r.c.bitmap = c.bitmap /\ r.c.bat = c.bat /\ r.c.dirty = c.dirty
            /\ /\ ~Dinode(c, i).comp /\ Len(content) = Dinode(c, i).size
               /\ Dinode(c, i).count <= MaxSingle
               => Rewrote(s, c, i, Dinode(c, i), content, r)
<1> DEFINE di == Dinode(c, i)
           phys == ListedBlocks(s, di)
           r == PatchFile(c, s, i, content)
           skip == di.comp \/ Len(content) # di.size \/ Len(phys) > MaxSingle
           y == StoreContent(c, i, di, phys, di.ind.no, EntriesOf(c.out[di.ind.no]), content)
<1>1. /\ DinodeAt(s, c.root, i) = di /\ Len(phys) = di.count
      /\ di.count <= MaxSingle => phys = OldBlocks(c, i)
  BY Listed
<1>2. r = IF skip THEN Ok(c) ELSE y
  BY <1>1 DEF PatchFile
<1>3. IsDinode(di) /\ di.count \in Nat /\ MaxSingle \in Nat
  BY DinodeShape, OldBlocksAre, Sizes DEF Sound
<1> HIDE DEF r, y, phys, di
<1>4. CASE skip
  <2>1. r.ok = TRUE /\ r.c = c
    BY <1>2, <1>4 DEF Ok
  <2>2. Touched(s, c, i, r)
    BY <2>1, Untouched
  <2>3. ~(~di.comp /\ Len(content) = di.size /\ di.count <= MaxSingle)
    BY <1>1, <1>3, <1>4
  <2> QED
    BY <2>1, <2>2, <2>3 DEF r, di
<1>5. CASE ~skip
  <2>1. Len(phys) = di.count /\ di.count <= MaxSingle /\ di.size = Len(content)
    BY <1>1, <1>3, <1>5
  <2>2. Has(c, Others(c, i), c, i, phys, di.ind.no, IndOf(Len(phys), di.ind.no))
    <3>1. Has(c, Others(c, i), c, i, OldBlocks(c, i), OldInd(c, i),
              IndOf(Len(OldBlocks(c, i)), OldInd(c, i)))
      BY OldBlocksHeld DEF Sound
    <3>2. phys = OldBlocks(c, i) /\ OldInd(c, i) = di.ind.no
      BY <1>1, <2>1 DEF OldInd, di
    <3> QED
      BY <3>1, <3>2
  <2>3. Rewrote(s, c, i, di, content, y)
        /\ (y.ok => y.c.bitmap = c.bitmap /\ y.c.bat = c.bat /\ y.c.dirty = c.dirty)
    BY <1>3, <2>1, <2>2, Rewritten DEF y
  <2>4. r = y
    BY <1>2, <1>5
  <2>5. Touched(s, c, i, y)
    BY <2>3 DEF Rewrote
  <2> QED
    BY <2>3, <2>4, <2>5 DEF r, di
<1> QED
  BY <1>4, <1>5

(* A dinode with another size and other pointers *)
Slots(direct) == direct = [k \in 1 .. NDirect |-> direct[k]]
Resize(di, size, direct, ind) ==
  [di EXCEPT !.direct = direct, !.ind = ind, !.size = size, !.count = CeilDiv(size, BBS)]

LEMMA Resized ==
  ASSUME NEW di, IsDinode(di), NEW size \in Nat, NEW direct, NEW ind, Slots(direct)
  PROVE  LET d == Resize(di, size, direct, ind)
         IN IsDinode(d) /\ d.size = size /\ d.count = CeilDiv(size, BBS)
<1> DEFINE n == CeilDiv(size, BBS)
           d == Resize(di, size, direct, ind)
<1>1. di = [mode |-> di.mode, comp |-> di.comp, link |-> di.link, size |-> di.size,
            count |-> di.count, direct |-> di.direct, ind |-> di.ind, ind2 |-> di.ind2]
  BY DEF IsDinode
<1> HIDE DEF n
<1>2. d = [mode |-> di.mode, comp |-> di.comp, link |-> di.link, size |-> size,
           count |-> n, direct |-> direct, ind |-> ind, ind2 |-> di.ind2]
  <2>1. d = [di EXCEPT !.direct = direct, !.ind = ind, !.size = size, !.count = n]
    BY DEF Resize, n
  <2> HIDE DEF d
  <2> QED
    BY <1>1, <2>1
<1> HIDE DEF d
<1>3. /\ d.mode = di.mode /\ d.comp = di.comp /\ d.link = di.link /\ d.size = size
      /\ d.count = n /\ d.direct = direct /\ d.ind = ind /\ d.ind2 = di.ind2
  BY <1>2
<1>4. d = [mode |-> d.mode, comp |-> d.comp, link |-> d.link, size |-> d.size,
           count |-> d.count, direct |-> d.direct, ind |-> d.ind, ind2 |-> d.ind2]
  BY <1>2, <1>3
<1>5. IsDinode(d)
  BY <1>3, <1>4 DEF IsDinode, n, Slots
<1> QED
  BY <1>3, <1>5 DEF d, n

(* pfs_repack_grow_file *)
LEMMA GrowFileDone ==
  ASSUME NEW s, SoundImage(s), NEW c, Sound(s, c), NEW i \in Inos, i # 0,
         Same(Load(s), c, i), Dinode(c, i).size # 0,
         NEW content, IsSeq(content), EntriesIn(content)
  PROVE  Touched(s, c, i, GrowFile(c, s, i, content))
<1> DEFINE di == Dinode(c, i)
           n == CeilDiv(Len(content), BBS)
           old == ListedBlocks(s, di)
           ib == di.ind.no
           r == Reserve(c, i, ib, old, n)
           x == GrowFile(c, s, i, content)
           skip == di.comp \/ Len(content) <= di.size \/ n > MaxSingle
           g == [di EXCEPT !.size = Len(content), !.count = n]
           y == StoreContent(r.c, i, g, r.phys, r.ib, NoEntries, content)
           P == Others(c, i)
<1>1. /\ DinodeAt(s, c.root, i) = di /\ Len(old) = di.count
      /\ di.count <= MaxSingle => old = OldBlocks(c, i)
  BY Listed
<1>2. x = IF skip THEN Ok(c) ELSE IF ~r.ok THEN Failed(r.c) ELSE y
  BY <1>1 DEF GrowFile
<1>3. IsDinode(di) /\ di.count \in Nat /\ MaxSingle \in Nat
  BY DinodeShape, OldBlocksAre, Sizes DEF Sound
<1>4. Len(content) \in Nat /\ n \in Nat
  BY BlocksOf DEF IsSeq
<1>5. IsDinode(g) /\ g.size = Len(content) /\ g.count = n
  <2>1. Slots(di.direct)
    BY <1>3 DEF IsDinode, Slots
  <2>2. di = [mode |-> di.mode, comp |-> di.comp, link |-> di.link, size |-> di.size,
              count |-> di.count, direct |-> di.direct, ind |-> di.ind, ind2 |-> di.ind2]
    BY <1>3 DEF IsDinode
  <2> DEFINE h == Resize(di, Len(content), di.direct, di.ind)
  <2>3. IsDinode(h) /\ h.size = Len(content) /\ h.count = n
    BY <1>3, <1>4, <2>1, Resized
  <2>4. g = h
    <3>1. h = [di EXCEPT !.direct = di.direct, !.ind = di.ind, !.size = Len(content),
                         !.count = n]
      BY DEF Resize
    <3> HIDE DEF h, di, n
    <3> QED
      BY <2>2, <3>1
  <2> HIDE DEF g, h
  <2> QED
    BY <2>3, <2>4
<1> HIDE DEF x, y, g, old
<1>6. CASE skip
  <2>1. x.ok = TRUE /\ x.c = c
    BY <1>2, <1>6 DEF Ok
  <2>2. Touched(s, c, i, x)
    BY <2>1, Untouched
  <2> QED
    BY <2>2 DEF x
<1>7. CASE ~skip
  <2>1. n <= MaxSingle /\ di.count <= n
    <3>1. di.size \in Nat /\ di.count = CeilDiv(di.size, BBS)
      BY <1>3 DEF IsDinode
    <3>2. di.size <= Len(content)
      BY <1>4, <1>7, <3>1
    <3>3. di.count <= n
      BY <1>4, <3>1, <3>2, BlocksGrow
    <3>4. n <= MaxSingle
      BY <1>3, <1>4, <1>7
    <3> QED
      BY <3>3, <3>4
  <2>2. Has(c, P, c, i, old, ib, IndOf(Len(old), ib))
    <3>1. Has(c, Others(c, i), c, i, OldBlocks(c, i), OldInd(c, i),
              IndOf(Len(OldBlocks(c, i)), OldInd(c, i)))
      BY OldBlocksHeld DEF Sound
    <3>2. old = OldBlocks(c, i) /\ OldInd(c, i) = ib
      BY <1>1, <1>3, <1>4, <2>1 DEF OldInd
    <3> QED
      BY <3>1, <3>2
  <2>3. Len(old) <= n
    BY <1>1, <2>1
  <2> HIDE DEF n, P, ib, di
  <2>4. /\ r.ok \in BOOLEAN /\ \E H : Mid(c, P, r.c, H)
        /\ r.ok => Has(c, P, r.c, i, r.phys, r.ib, IndOf(n, r.ib)) /\ Len(r.phys) = n
    BY <1>4, <2>2, <2>3, Grown
  <2> HIDE DEF r
  <2>5. CASE ~r.ok
    <3>1. x = Failed(r.c)
      BY <1>2, <1>7, <2>5
    <3> QED
      BY <2>4, <3>1, GaveUp DEF x
  <2>6. CASE r.ok
    <3>1. x = y
      BY <1>2, <1>7, <2>6
    <3>2. Has(c, Others(c, i), r.c, i, r.phys, r.ib, IndOf(Len(r.phys), r.ib)) /\ Len(r.phys) = n
      BY <2>4, <2>6 DEF P
    <3>3. Rewrote(s, c, i, g, content, y)
      BY <1>5, <2>1, <3>2, Rewritten DEF y
    <3> QED
      BY <3>1, <3>3 DEF Rewrote, x
  <2> QED
    BY <2>4, <2>5, <2>6
<1> QED
  BY <1>6, <1>7

(* pfs_repack_shrink_file *)
LEMMA ShrinkFileDone ==
  ASSUME NEW s, SoundImage(s), NEW c, Sound(s, c), NEW i \in Inos, i # 0,
         Same(Load(s), c, i), Dinode(c, i).size # 0,
         NEW content, IsSeq(content), EntriesIn(content)
  PROVE  Touched(s, c, i, ShrinkFile(c, s, i, content))
<1> DEFINE di == Dinode(c, i)
           n == CeilDiv(Len(content), BBS)
           old == ListedBlocks(s, di)
           ib == di.ind.no
           x == ShrinkFile(c, s, i, content)
           skip == \/ di.comp
                   \/ Len(content) = 0
                   \/ Len(content) >= di.size
                   \/ Len(old) > MaxSingle
           kept == [k \in 1 .. NDirect |-> IF k <= n THEN di.direct[k] ELSE NoPtr]
           ind == IF Len(old) > NDirect /\ n <= NDirect THEN NoPtr ELSE di.ind
           g == [di EXCEPT !.direct = kept, !.ind = ind, !.size = Len(content), !.count = n]
           e == FreeBlocks(c, Surplus(old, ib, n))
           q == SubSeq(old, 1, n)
           y == StoreContent(e, i, g, q, ib, NoEntries, content)
           P == Others(c, i)
<1>1. /\ DinodeAt(s, c.root, i) = di /\ Len(old) = di.count
      /\ di.count <= MaxSingle => old = OldBlocks(c, i)
  BY Listed
<1>2. x = IF skip THEN Ok(c) ELSE y
  <2>1. [di EXCEPT !.direct = kept,
                   !.ind = IF Len(old) > NDirect /\ n <= NDirect THEN NoPtr ELSE @,
                   !.size = Len(content), !.count = n] = g
    OBVIOUS
  <2> QED
    BY <1>1, <2>1 DEF ShrinkFile
<1>3. IsDinode(di) /\ di.count \in Nat /\ MaxSingle \in Nat
  BY DinodeShape, OldBlocksAre, Sizes DEF Sound
<1>4. Len(content) \in Nat /\ n \in Nat
  BY BlocksOf DEF IsSeq
<1>5. IsDinode(g) /\ g.size = Len(content) /\ g.count = n
  <2>1. Slots(kept)
    BY DEF Slots
  <2>2. g = Resize(di, Len(content), kept, ind)
    BY DEF Resize
  <2> HIDE DEF kept, ind, di, g
  <2> QED
    BY <1>3, <1>4, <2>1, <2>2, Resized
<1> HIDE DEF x, y, g, old
<1>6. CASE skip
  <2>1. x.ok = TRUE /\ x.c = c
    BY <1>2, <1>6 DEF Ok
  <2>2. Touched(s, c, i, x)
    BY <2>1, Untouched
  <2> QED
    BY <2>2 DEF x
<1>7. CASE ~skip
  <2>1. n <= di.count /\ di.count <= MaxSingle
    <3>1. di.size \in Nat /\ di.count = CeilDiv(di.size, BBS)
      BY <1>3 DEF IsDinode
    <3>2. Len(content) <= di.size
      BY <1>4, <1>7, <3>1
    <3>3. n <= di.count
      BY <1>4, <3>1, <3>2, BlocksGrow
    <3>4. di.count <= MaxSingle
      BY <1>1, <1>3, <1>7
    <3> QED
      BY <3>3, <3>4
  <2>2. Has(c, P, c, i, old, ib, IndOf(Len(old), ib))
    <3>1. Has(c, Others(c, i), c, i, OldBlocks(c, i), OldInd(c, i),
              IndOf(Len(OldBlocks(c, i)), OldInd(c, i)))
      BY OldBlocksHeld DEF Sound
    <3>2. old = OldBlocks(c, i) /\ OldInd(c, i) = ib
      BY <1>1, <2>1 DEF OldInd
    <3> QED
      BY <3>1, <3>2
  <2>3. n <= Len(old)
    BY <1>1, <2>1
  <2>4. n <= MaxSingle
    BY <1>3, <1>4, <2>1
  <2> HIDE DEF n, P, ib, di
  <2>5. Has(c, P, e, i, q, ib, IndOf(n, ib)) /\ Len(q) = n
    BY <1>4, <2>2, <2>3, Cut
  <2> HIDE DEF e, q
  <2>6. x = y
    BY <1>2, <1>7
  <2>7. Has(c, Others(c, i), e, i, q, ib, IndOf(Len(q), ib))
    BY <2>5 DEF P
  <2>8. Rewrote(s, c, i, g, content, y)
    BY <1>5, <2>4, <2>5, <2>7, Rewritten DEF y
  <2> QED
    BY <2>6, <2>8 DEF Rewrote, x
<1> QED
  BY <1>6, <1>7

-----------------------------------------------------------------------------
(* Block 0 and what is not about blocks do not matter to the pointers.     *)

Alike(c, d) ==
  /\ Shape(d)
  /\ d.root = c.root /\ d.bitmap = c.bitmap /\ d.bat = c.bat
  /\ \A b \in Blocks \ {0} : d.out[b] = c.out[b]

LEMMA AlikeFiles ==
  ASSUME NEW c, Shape(c), LinksSound(c), NEW d, Alike(c, d)
  PROVE  /\ \A i \in Inos : Same(c, d, i) /\ Own(d, i) = Own(c, i)
                            /\ Dinode(d, i) = Dinode(c, i)
                            /\ ReadContent(d.out, Dinode(d, i))
                                 = ReadContent(c.out, Dinode(c, i))
         /\ AllLinks(d) = AllLinks(c)
<1>1. ASSUME NEW i \in Inos
      PROVE  /\ Same(c, d, i) /\ Own(d, i) = Own(c, i) /\ Dinode(d, i) = Dinode(c, i)
             /\ ReadContent(d.out, Dinode(d, i)) = ReadContent(c.out, Dinode(c, i))
  <2>1. i \div IPB \in DinodeBlocks /\ TableBlock(c, i) \in Blocks \ {0}
    BY InodePlace, TableSound DEF TablesPlaced, TableBlock
  <2>2. d.out[TableBlock(c, i)] = c.out[TableBlock(c, i)]
        /\ d.root[i \div IPB].no = c.root[i \div IPB].no
    BY <2>1 DEF Alike
  <2>3. Dinode(d, i) = Dinode(c, i)
    BY <2>2, DinodeFrom
  <2>4. \A l \in Own(c, i) : l.ptr.no \in Blocks \ {0}
    BY OwnSound DEF LinkSound
  <2>5. \A l \in Own(c, i) : d.out[l.ptr.no] = c.out[l.ptr.no]
    BY <2>4 DEF Alike
  <2>6. Same(c, d, i)
    BY <2>3, <2>5 DEF Same
  <2>7. IsDinode(Dinode(c, i))
    BY DinodeShape
  <2> QED
    BY <2>3, <2>6, <2>7, SameOwn
<1>2. Tables(d) = Tables(c)
  BY DEF Tables, Alike
<1>3. AllLinks(d) = AllLinks(c)
  <2>1. \A l : l \in AllLinks(d) => l \in AllLinks(c)
    BY <1>1, <1>2, LinkParts
  <2>2. \A l : l \in AllLinks(c) => l \in AllLinks(d)
    BY <1>1, <1>2, LinkParts
  <2>3. AllLinks(d) \subseteq AllLinks(c) /\ AllLinks(c) \subseteq AllLinks(d)
    BY <2>1, <2>2
  <2> QED
    BY <2>3
<1> QED
  BY <1>1, <1>3

LEMMA AlikeSound ==
  ASSUME NEW c, Shape(c), LinksSound(c), EntriesSound(c), NEW d, Alike(c, d)
  PROVE  Shape(d) /\ LinksSound(d) /\ EntriesSound(d)
<1>1. \A b : Free(d, b) <=> Free(c, b)
  BY DEF Free, Alike
<1>2. AllLinks(d) = AllLinks(c)
  BY AlikeFiles
<1>3. ASSUME NEW l \in AllLinks(c) PROVE LinkSound(d, l)
  <2>1. LinkSound(c, l)
    BY DEF LinksSound
  <2>2. l.ptr.no \in Blocks \ {0} /\ ~Free(d, l.ptr.no)
    BY <1>1, <2>1 DEF LinkSound
  <2>3. d.out[l.ptr.no] = c.out[l.ptr.no] /\ d.bat[l.ptr.no] = c.bat[l.ptr.no]
    BY <2>2 DEF Alike
  <2>4. Verifies(d.out, l.ptr)
    BY <2>1, <2>3 DEF LinkSound, Verifies
  <2>5. l.ino \in Inos
    BY LinkOwner
  <2>6. Dinode(d, l.ino) = Dinode(c, l.ino)
    BY <2>5, AlikeFiles
  <2>7. BatRight(d, l)
    BY <2>1, <2>3, <2>6 DEF LinkSound, BatRight
  <2> QED
    BY <2>2, <2>4, <2>7 DEF LinkSound
<1>4. LinksSound(d)
  <2>1. \A l, m \in AllLinks(c) : l.ptr.no = m.ptr.no => l = m
    BY DEF LinksSound
  <2> QED
    BY <1>2, <1>3, <2>1 DEF LinksSound
<1>5. Shape(d)
  BY DEF Alike
<1>6. EntriesSound(d)
  <2>1. \A i \in Inos : EntriesIn(ReadContent(d.out, Dinode(d, i)))
    BY AlikeFiles, EntriesAre
  <2> QED
    BY <1>5, <2>1, EntriesAre
<1> QED
  BY <1>4, <1>5, <1>6

LEMMA AlikeKeeps ==
  ASSUME NEW s, SoundImage(s), NEW c, Sound(s, c), NEW d, Alike(c, d)
  PROVE  Sound(s, d)
<1>1. /\ Shape(c) /\ LinksSound(c) /\ EntriesSound(c)
      /\ \A b \in Blocks \ {0} : ~Free(c, b) => b \in Linked(c) \cup OutOfPlay(s, c)
      /\ \A b \in OutOfPlay(s, c) : b \in Blocks \ {0} /\ ~Free(c, b) /\ b \notin Linked(c)
      /\ BackupKept(s, c)
      /\ \A t \in DinodeBlocks : c.root[t].no = RootOf(s)[t].no
      /\ \A i \in Inos : Dinode(c, i).count > MaxSingle => Same(Load(s), c, i)
  BY DEF Sound
<1>2. Shape(d) /\ LinksSound(d) /\ EntriesSound(d)
  BY <1>1, AlikeSound
<1>3. /\ AllLinks(d) = AllLinks(c)
      /\ \A i \in Inos : Dinode(d, i) = Dinode(c, i) /\ Same(c, d, i)
  BY <1>1, AlikeFiles
<1>4. Linked(d) = Linked(c)
  BY <1>3 DEF Linked
<1>5. \A b : Free(d, b) <=> Free(c, b)
  BY DEF Free, Alike
<1>6. LostIn(s, d) = LostIn(s, c)
  <2>1. \A l \in AllLinks(Load(s)) : l.ino \in Inos
    BY Source, LinkOwner
  <2>2. \A b : b \in LostIn(s, d) <=> b \in LostIn(s, c)
    <3>1. ASSUME NEW l \in AllLinks(Load(s)) PROVE Dinode(d, l.ino) = Dinode(c, l.ino)
      BY <1>3, <2>1
    <3> QED
      BY <3>1, LostIs
  <2>3. LostIn(s, d) \subseteq LostIn(s, c) /\ LostIn(s, c) \subseteq LostIn(s, d)
    BY <2>2
  <2> QED
    BY <2>3
<1>7. OutOfPlay(s, d) = OutOfPlay(s, c)
  BY <1>6 DEF OutOfPlay
<1>8. BackupKept(s, d)
  <2>1. \A b \in Backup(s) : b \in Blocks \ {0}
    BY DEF Backup
  <2> QED
    BY <1>1, <2>1 DEF BackupKept, Alike
<1>9. \A t \in DinodeBlocks : d.root[t].no = RootOf(s)[t].no
  BY <1>1 DEF Alike
<1>10. ASSUME NEW i \in Inos, Dinode(d, i).count > MaxSingle PROVE Same(Load(s), d, i)
  <2>1. Same(Load(s), c, i) /\ Same(c, d, i)
    BY <1>1, <1>3, <1>10
  <2>2. IsDinode(Dinode(Load(s), i))
    BY Source, DinodeShape
  <2> QED
    BY <2>1, <2>2, SameTwice
<1> QED
  BY <1>1, <1>2, <1>4, <1>5, <1>7, <1>8, <1>9, <1>10 DEF Sound

-----------------------------------------------------------------------------
(* Between the handlers that change the user tree *)

Good(s, c) == Sound(s, c) /\ MetaSame(s, c) /\ c.out[0] = s[0]
GoodResult(s, r) ==
  /\ r.ok \in BOOLEAN /\ BackupKept(s, r.c) /\ r.c.out[0] = s[0]
  /\ r.ok => Good(s, r.c)

(* A run begins well. *)
LEMMA Fresh ==
  ASSUME NEW s, SoundImage(s)
  PROVE  Good(s, Load(s))
<1> DEFINE c == Load(s)
<1>1. /\ Shape(c) /\ LinksSound(c) /\ EntriesSound(c)
      /\ AllLinks(c) = Links(s, RootOf(s)) /\ c.out = s /\ c.root = RootOf(s)
  BY Source
<1> HIDE DEF c
<1>2. Linked(c) = LinkedBlocks(s, RootOf(s))
  BY <1>1 DEF Linked, LinkedBlocks
<1>3. Backup(s) = {b \in Blocks \ {0} : ~Free(c, b)} \ Linked(c)
  BY <1>2 DEF Backup, c
<1>4. LostIn(s, c) = {}
  <2>1. \A l \in AllLinks(c) : Dinode(c, l.ino).count \in Nat
    BY <1>1, LinkOwner, OldBlocksAre
  <2>2. ASSUME NEW b \in LostIn(s, c) PROVE FALSE
    <3>1. PICK l \in AllLinks(c) : /\ Dinode(c, l.ino).count > MaxSingle
                                   /\ Dinode(c, l.ino).count <= MaxSingle
      BY <2>2, LostIs DEF c
    <3> QED
      BY <2>1, <3>1, Sizes
  <2> QED
    BY <2>2
<1>5. OutOfPlay(s, c) = Backup(s)
  BY <1>4 DEF OutOfPlay
<1>6. BackupKept(s, c)
  BY <1>1 DEF BackupKept
<1>7. \A i : Same(Load(s), c, i)
  BY SameSelf DEF c
<1>8. Sound(s, c)
  BY <1>1, <1>3, <1>5, <1>6, <1>7 DEF Sound
<1>9. MetaSame(s, c)
  BY <1>7 DEF MetaSame, c
<1> QED
  BY <1>1, <1>8, <1>9 DEF Good, c

(* A call that may have written inode i is good, if i is of the user tree. *)
LEMMA TouchedGood ==
  ASSUME NEW s, SoundImage(s), NEW c, Good(s, c), NEW i \in UserInos,
         NEW r, Touched(s, c, i, r)
  PROVE  GoodResult(s, r)
<1>1. r.ok \in BOOLEAN /\ BackupKept(s, r.c) /\ r.c.out[0] = s[0]
  BY DEF Touched, Good
<1>2. ASSUME r.ok PROVE Good(s, r.c)
  <2>1. /\ Sound(s, r.c) /\ \A j \in Inos : j # i => Same(c, r.c, j)
        /\ r.c.inob = c.inob
        /\ ~r.c.dirty => ~c.dirty /\ r.c.bitmap = c.bitmap /\ r.c.bat = c.bat
    BY <1>2 DEF Touched
  <2>2. ASSUME NEW j \in SysInos PROVE Same(Load(s), r.c, j)
    <3>1. j \in Inos /\ j # i
      BY Sizes DEF UserInos, SysInos, Inos
    <3>2. Same(Load(s), c, j) /\ Same(c, r.c, j)
      BY <2>1, <3>1 DEF Good, MetaSame
    <3>3. IsDinode(Dinode(Load(s), j))
      BY <3>1, Source, DinodeShape
    <3> QED
      BY <3>2, <3>3, SameTwice
  <2>3. ~r.c.dirty => /\ r.c.bitmap = Load(s).bitmap /\ r.c.bat = Load(s).bat
                      /\ r.c.inob = Load(s).inob
    BY <2>1 DEF Good, MetaSame
  <2>4. MetaSame(s, r.c)
    BY <2>2, <2>3 DEF MetaSame
  <2> QED
    BY <1>1, <2>1, <2>4 DEF Good
<1> QED
  BY <1>1, <1>2 DEF GoodResult

LEMMA UserIno ==
  ASSUME NEW i \in UserInos
  PROVE  i \in Inos /\ i # 0 /\ i \notin SysInos /\ i # -1
BY Sizes DEF UserInos, Inos

LEMMA PutGood ==
  ASSUME NEW s, SoundImage(s), NEW c, Good(s, c), NEW i \in UserInos,
         NEW meta, IsDinode(meta), NEW content, IsSeq(content), EntriesIn(content)
  PROVE  GoodResult(s, PutContent(c, i, meta, content))
<1>1. i \in Inos /\ i # 0 /\ Sound(s, c)
  BY UserIno DEF Good
<1>2. Touched(s, c, i, PutContent(c, i, meta, content))
  BY <1>1, PutContentDone DEF Rewrote
<1> QED
  BY <1>2, TouchedGood

LEMMA NothingDone ==
  ASSUME NEW s, NEW c, Good(s, c)
  PROVE  GoodResult(s, Ok(c)) /\ GoodResult(s, Failed(c))
<1>1. BackupKept(s, c) /\ c.out[0] = s[0]
  BY DEF Good, Sound
<1>2. Ok(c).ok = TRUE /\ Ok(c).c = c /\ Failed(c).ok = FALSE /\ Failed(c).c = c
  BY DEF Ok, Failed
<1> HIDE DEF Ok, Failed
<1> QED
  BY <1>1, <1>2 DEF GoodResult

(* ino_bitmap alone changed *)
LEMMA Relabelled ==
  ASSUME NEW s, SoundImage(s), NEW c, Good(s, c), NEW i \in Inos, NEW x \in BOOLEAN
  PROVE  Good(s, [c EXCEPT !.inob[i] = x, !.dirty = TRUE])
<1> DEFINE d == [c EXCEPT !.inob[i] = x, !.dirty = TRUE]
           z == [c.inob EXCEPT ![i] = x]
<1>1. Shape(c) /\ LinksSound(c)
  BY DEF Good, Sound
<1>2. /\ c = [out |-> c.out, root |-> c.root, bitmap |-> c.bitmap, bat |-> c.bat,
              inob |-> c.inob, dirty |-> c.dirty]
      /\ c.inob \in [Inos -> BOOLEAN]
  BY <1>1 DEF Shape
<1>3. z \in [Inos -> BOOLEAN]
  BY <1>2
<1>4. d = [c EXCEPT !.inob = z, !.dirty = TRUE]
  BY <1>2
<1> HIDE DEF d, z
<1>5. d = [out |-> c.out, root |-> c.root, bitmap |-> c.bitmap, bat |-> c.bat,
           inob |-> z, dirty |-> TRUE]
  BY <1>2, <1>4
<1>6. /\ d.out = c.out /\ d.root = c.root /\ d.bitmap = c.bitmap /\ d.bat = c.bat
      /\ d.inob = z /\ d.dirty = TRUE
  BY <1>5
<1>7. d = [out |-> d.out, root |-> d.root, bitmap |-> d.bitmap, bat |-> d.bat,
           inob |-> d.inob, dirty |-> d.dirty]
  BY <1>5, <1>6
<1>8. Shape(d)
  BY <1>1, <1>3, <1>6, <1>7 DEF Shape
<1>9. Alike(c, d)
  BY <1>6, <1>8 DEF Alike
<1>10. Sound(s, d)
  BY <1>9, AlikeKeeps DEF Good
<1>11. ASSUME NEW j \in SysInos PROVE Same(Load(s), d, j)
  <2>1. j \in Inos
    BY Sizes DEF SysInos, Inos
  <2>2. Same(Load(s), c, j) /\ Same(c, d, j)
    BY <1>1, <1>9, <2>1, AlikeFiles DEF Good, MetaSame
  <2>3. IsDinode(Dinode(Load(s), j))
    BY <2>1, Source, DinodeShape
  <2> QED
    BY <2>2, <2>3, SameTwice
<1>12. MetaSame(s, d)
  BY <1>6, <1>11 DEF MetaSame
<1>13. d.out[0] = s[0]
  BY <1>6 DEF Good
<1>14. Good(s, d)
  BY <1>10, <1>12, <1>13 DEF Good
<1> QED
  BY <1>14 DEF d

-----------------------------------------------------------------------------
(* Directories *)

CleanUnit(u) == IsDirent(u) => u[2].ino \in UserInos

LEMMA CleanSeq ==
  ASSUME NEW S, \A u \in S : CleanUnit(u), NEW x \in Seq(S)
  PROVE  IsSeq(x) /\ EntriesIn(x)
<1>1. Len(x) \in Nat /\ DOMAIN x = 1 .. Len(x) /\ \A k \in 1 .. Len(x) : x[k] \in S /\ x[k] \in ToSet(x)
  BY SeqSet
<1>2. x \in Seq(ToSet(x))
  BY <1>1
<1>3. EntriesIn(x)
  BY <1>1 DEF EntriesIn, CleanUnit
<1> QED
  BY <1>2, <1>3 DEF IsSeq

LEMMA SeqClean ==
  ASSUME NEW x, IsSeq(x), EntriesIn(x)
  PROVE  x \in Seq(ToSet(x)) /\ \A u \in ToSet(x) : CleanUnit(u)
<1>1. x \in Seq(ToSet(x))
  BY DEF IsSeq
<1>2. ToSet(x) = {x[k] : k \in 1 .. Len(x)}
  BY <1>1, SeqSet
<1>3. \A k \in 1 .. Len(x) : CleanUnit(x[k])
  BY DEF EntriesIn, CleanUnit
<1> QED
  BY <1>1, <1>2, <1>3

LEMMA ZeroClean ==
  /\ CleanUnit(Zero) /\ ZeroBlock \in Seq({Zero}) /\ Len(ZeroBlock) = BBS
  /\ \A k \in 1 .. BBS : ZeroBlock[k] = Zero
<1>1. Zero[1] = "z"
  BY DEF Zero
<1>2. CleanUnit(Zero)
  BY <1>1 DEF CleanUnit, IsDirent
<1>3. ZeroBlock = [j \in 1 .. BBS |-> Zero] /\ BBS \in Nat
  BY Sizes DEF ZeroBlock
<1> HIDE DEF Zero
<1> QED
  BY <1>2, <1>3

LEMMA DirentIs ==
  ASSUME NEW i, NEW type, NEW name
  PROVE  /\ IsDirent(Dirent(i, type, name)) /\ Dirent(i, type, name)[2].ino = i
         /\ Dirent(i, type, name)[2].type = type
BY DEF Dirent, IsDirent

LEMMA Used ==
  ASSUME NEW buf, IsSeq(buf)
  PROVE  /\ UsedEntries(buf) \in 0 .. Len(buf)
         /\ \A j \in 1 .. UsedEntries(buf) : IsDirent(buf[j])
<1> DEFINE stops == {j \in 1 .. Len(buf) : ~IsDirent(buf[j])}
           x == CHOOSE j \in stops : \A m \in stops : j <= m
<1>1. Len(buf) \in Nat
  BY DEF IsSeq
<1>2. UsedEntries(buf) = IF stops = {} THEN Len(buf) ELSE x - 1
  BY DEF UsedEntries
<1>3. CASE stops = {}
  BY <1>1, <1>2, <1>3
<1>4. CASE stops # {}
  <2>1. x \in stops /\ \A m \in stops : x <= m
    <3>1. stops \subseteq Nat
      OBVIOUS
    <3> HIDE DEF stops
    <3>2. \E j \in stops : \A m \in stops : j <= m
      BY <1>4, <3>1, Least
    <3> QED
      BY <3>2
  <2>2. x \in 1 .. Len(buf)
    BY <2>1
  <2>3. UsedEntries(buf) = x - 1
    BY <1>2, <1>4
  <2>4. ASSUME NEW j \in 1 .. x - 1 PROVE IsDirent(buf[j])
    <3>1. j \in 1 .. Len(buf) /\ ~(x <= j)
      BY <1>1, <2>2
    <3> QED
      BY <2>1, <3>1
  <2> HIDE DEF x
  <2>5. x - 1 \in 0 .. Len(buf)
    BY <1>1, <2>2
  <2> QED
    BY <2>3, <2>4, <2>5
<1> QED
  BY <1>3, <1>4

LEMMA FindIs ==
  ASSUME NEW buf, IsSeq(buf), NEW name
  PROVE  DirFind(buf, name) = 0 \/ DirFind(buf, name) \in 1 .. UsedEntries(buf)
<1> DEFINE at == {j \in 1 .. UsedEntries(buf) : buf[j][2].name = name}
           x == CHOOSE j \in at : \A m \in at : j <= m
<1>1. DirFind(buf, name) = IF at = {} THEN 0 ELSE x
  BY DEF DirFind
<1>2. ASSUME at # {} PROVE x \in at
  <2>1. at \subseteq Nat
    OBVIOUS
  <2> HIDE DEF at
  <2>2. \E j \in at : \A m \in at : j <= m
    BY <1>2, <2>1, Least
  <2> QED
    BY <2>2
<1> HIDE DEF x
<1> QED
  BY <1>1, <1>2

(* A directory of a sound context *)
LEMMA DirBuf ==
  ASSUME NEW c, Shape(c), EntriesSound(c), NEW dir \in Inos
  PROVE  /\ IsSeq(DirContent(c, dir)) /\ EntriesIn(DirContent(c, dir))
         /\ DirContent(c, dir) = ReadContent(c.out, Dinode(c, dir))
         /\ IsDinode(Dinode(c, dir))
<1>1. DirContent(c, dir) = ReadContent(c.out, Dinode(c, dir))
  BY DEF DirContent, Dinode
<1>2. IsDinode(Dinode(c, dir))
  BY DinodeShape
<1>3. EntriesIn(ReadContent(c.out, Dinode(c, dir)))
  BY EntriesAre
<1>4. IsSeq(ReadContent(c.out, Dinode(c, dir)))
  <2>1. Dinode(c, dir).size \in Nat
    BY <1>2 DEF IsDinode
  <2> QED
    BY <2>1, ContentIs
<1> QED
  BY <1>1, <1>2, <1>3, <1>4

LEMMA EntryIno ==
  ASSUME NEW buf, IsSeq(buf), EntriesIn(buf), NEW j \in 1 .. UsedEntries(buf)
  PROVE  buf[j][2].ino \in UserInos
<1>1. j \in 1 .. Len(buf) /\ IsDirent(buf[j])
  BY Used
<1> QED
  BY <1>1 DEF EntriesIn

(* A name leads nowhere or to an inode of the user tree.                   *)
Leads(e) == e.ino = -1 \/ e.ino \in UserInos

LEMMA ChildLeads ==
  ASSUME NEW c, Shape(c), EntriesSound(c), NEW dir \in Inos, NEW name
  PROVE  Leads(LookupChild(c.out, c.root, dir, name))
<1> DEFINE buf == DirContent(c, dir)
           j == DirFind(buf, name)
<1>1. \/ LookupChild(c.out, c.root, dir, name) = NotFound
      \/ j # 0 /\ LookupChild(c.out, c.root, dir, name) = buf[j][2]
  BY DEF LookupChild, DirContent
<1>2. IsSeq(buf) /\ EntriesIn(buf)
  BY DirBuf
<1> HIDE DEF buf
<1>3. j = 0 \/ j \in 1 .. UsedEntries(buf)
  BY <1>2, FindIs
<1> HIDE DEF j
<1>4. NotFound.ino = -1
  BY DEF NotFound
<1>5. j # 0 => buf[j][2].ino \in UserInos
  BY <1>2, <1>3, EntryIno
<1> QED
  BY <1>1, <1>4, <1>5 DEF Leads

LEMMA FiniteImage ==
  ASSUME NEW S, IsFiniteSet(S), NEW f
  PROVE  IsFiniteSet({f[x] : x \in S})
<1> DEFINE g == [x \in S |-> f[x]]
           T == {f[x] : x \in S}
<1>1. g \in [S -> T] /\ \A t \in T : \E x \in S : g[x] = t
  OBVIOUS
<1> HIDE DEF g, T
<1>2. g \in Surjection(S, T)
  BY <1>1 DEF Surjection
<1>3. IsFiniteSet(T)
  BY <1>2, FS_Surjection
<1> QED
  BY <1>3 DEF T

LEMMA ChildrenLead ==
  ASSUME NEW c, Shape(c), EntriesSound(c), NEW dir \in Inos
  PROVE  /\ \A e \in Children(c.out, c.root, dir) : e.ino \in UserInos
         /\ IsFiniteSet(Children(c.out, c.root, dir))
<1> DEFINE buf == DirContent(c, dir)
           at == {m \in 1 .. UsedEntries(buf) : buf[m][2].type \in {"file", "dir"}}
           entry(j) == buf[j][2]
<1>1. Children(c.out, c.root, dir) = {entry(j) : j \in at}
  BY DEF Children, DirContent
<1>2. IsSeq(buf) /\ EntriesIn(buf)
  BY DirBuf
<1>3. UsedEntries(buf) \in Nat
  BY <1>2, Used DEF IsSeq
<1>4. \A j \in at : entry(j).ino \in UserInos
  BY <1>2, EntryIno
<1>5. IsFiniteSet(at)
  <2>1. IsFiniteSet(1 .. UsedEntries(buf))
    BY <1>3, FS_Interval
  <2>2. at \subseteq 1 .. UsedEntries(buf)
    OBVIOUS
  <2> HIDE DEF at
  <2> QED
    BY <2>1, <2>2, FS_Subset
<1> DEFINE f == [j \in at |-> entry(j)]
<1>6. IsFiniteSet({entry(j) : j \in at})
  <2>1. {f[j] : j \in at} = {entry(j) : j \in at}
    <3> HIDE DEF at, entry
    <3> QED
      OBVIOUS
  <2> HIDE DEF at, f, entry
  <2>2. IsFiniteSet({f[j] : j \in at})
    BY <1>5, FiniteImage
  <2> QED
    BY <2>1, <2>2
<1> HIDE DEF at, entry
<1> QED
  BY <1>1, <1>4, <1>6

(* Path lookup, one name at a time                                         *)
NextEntry(img, root, e, name) ==
  IF Found(e) THEN LookupChild(img, root, e.ino, name) ELSE NotFound
LookedUp(img, root, base, path) ==
  FoldLeft(LAMBDA e, name : IF Found(e) THEN LookupChild(img, root, e.ino, name)
                                        ELSE NotFound, base, path)
UserRoot == [ino |-> URootIno, type |-> "dir", name |-> "uroot"]

Looks(f, img, root, base, n, seq) ==
  /\ f[0] = base
  /\ \A k \in 1 .. n : f[k] = NextEntry(img, root, f[k - 1], seq[k])

LEMMA LookupFold ==
  ASSUME NEW img, NEW root, NEW base, NEW n \in Nat, NEW seq, DOMAIN seq = 1 .. n
  PROVE  \E f : Looks(f, img, root, base, n, seq) /\ LookedUp(img, root, base, seq) = f[n]
<1> DEFINE Op(x, k) == NextEntry(img, root, x, seq[k])
           Iter(m, g) == g = [s \in SUBSET (1 .. m) |->
                                IF s = {} THEN base ELSE Op(g[s \ {Max(s)}], Max(s))]
           T == {m \in 0 .. n : \E g : Iter(m, g)}
<1> HIDE DEF Op
<1>1. 0 \in T
  <2> DEFINE h == [s \in SUBSET (1 .. 0) |-> base]
  <2>1. \A s \in SUBSET (1 .. 0) : s = {}
    OBVIOUS
  <2>2. \A s \in SUBSET (1 .. 0) :
          h[s] = IF s = {} THEN base ELSE Op(h[s \ {Max(s)}], Max(s))
    BY <2>1
  <2>3. h = [s \in SUBSET (1 .. 0) |-> h[s]]
    OBVIOUS
  <2> HIDE DEF h
  <2>4. Iter(0, h)
    BY <2>2, <2>3
  <2>5. 0 \in 0 .. n
    OBVIOUS
  <2> HIDE DEF Iter
  <2> QED
    BY <2>4, <2>5
<1>2. ASSUME NEW m \in 1 .. n, m - 1 \in T PROVE m \in T
  <2>1. PICK g : Iter(m - 1, g)
    BY <1>2
  <2> DEFINE h == [s \in SUBSET (1 .. m) |-> IF m \in s THEN Op(g[s \ {m}], m) ELSE g[s]]
  <2>2. ASSUME NEW s \in SUBSET (1 .. m)
        PROVE  h[s] = IF s = {} THEN base ELSE Op(h[s \ {Max(s)}], Max(s))
    <3>1. CASE m \in s
      <4>1. Max(s) = m
        <5>1. m \in Nat /\ s # {} /\ \A x \in s : x \in 1 .. m
          BY <3>1
        <5>2. Max(s) \in s /\ m <= Max(s)
          BY <3>1, <5>1, Greatest
        <5>3. Max(s) \in 1 .. m
          BY <5>1, <5>2
        <5> QED
          BY <5>1, <5>2, <5>3
      <4>2. s \ {m} \in SUBSET (1 .. m) /\ m \notin s \ {m}
        OBVIOUS
      <4> QED
        BY <3>1, <4>1, <4>2
    <3>2. CASE m \notin s
      <4>1. s \in SUBSET (1 .. m - 1)
        BY <3>2
      <4>2. s # {} => s \ {Max(s)} \in SUBSET (1 .. m) /\ m \notin s \ {Max(s)}
        BY <3>2
      <4>3. g[s] = IF s = {} THEN base ELSE Op(g[s \ {Max(s)}], Max(s))
        BY <2>1, <4>1
      <4> QED
        BY <3>2, <4>2, <4>3
    <3> QED
      BY <3>1, <3>2
  <2>3. h = [s \in SUBSET (1 .. m) |-> h[s]]
    OBVIOUS
  <2> HIDE DEF h
  <2>4. Iter(m, h)
    BY <2>2, <2>3
  <2>5. m \in 0 .. n
    OBVIOUS
  <2> HIDE DEF Iter
  <2> QED
    BY <2>4, <2>5
<1> HIDE DEF T
<1>3. \A m \in 0 .. n : m \in T
  BY <1>1, <1>2, UpTo
<1>4. \E g : Iter(n, g)
  <2>1. n \in T
    BY <1>3
  <2> HIDE DEF Iter
  <2> QED
    BY <2>1 DEF T
<1> DEFINE g == CHOOSE g : Iter(n, g)
           f == [k \in 0 .. n |-> g[1 .. k]]
<1>5. Iter(n, g)
  BY <1>4
<1>6. LookedUp(img, root, base, seq) = g[1 .. n]
  BY DEF FoldLeft, MapThenFoldSet, Op, LookedUp, NextEntry
<1> HIDE DEF g
<1>7. f[0] = base
  <2>1. {} \in SUBSET (1 .. n)
    OBVIOUS
  <2>2. g[{}] = base
    BY <1>5, <2>1
  <2>3. 1 .. 0 = {} /\ 0 \in 0 .. n
    OBVIOUS
  <2> QED
    BY <2>2, <2>3
<1>8. ASSUME NEW k \in 1 .. n PROVE f[k] = Op(f[k - 1], k)
  <2>1. g[1 .. k] = Op(g[1 .. (k - 1)], k)
    <3>1. /\ 1 .. k \in SUBSET (1 .. n) /\ 1 .. k # {} /\ Max(1 .. k) = k
          /\ (1 .. k) \ {k} = 1 .. (k - 1)
      BY FirstOnes
    <3>2. \A s \in SUBSET (1 .. n) :
            g[s] = IF s = {} THEN base ELSE Op(g[s \ {Max(s)}], Max(s))
      BY <1>5
    <3> QED
      BY <3>1, <3>2
  <2>2. k \in 0 .. n /\ k - 1 \in 0 .. n
    OBVIOUS
  <2> QED
    BY <2>1, <2>2
<1>9. \A k \in 1 .. n : Op(f[k - 1], k) = NextEntry(img, root, f[k - 1], seq[k])
  BY DEF Op
<1>10. f[n] = g[1 .. n]
  OBVIOUS
<1> HIDE DEF f
<1>11. \A k \in 1 .. n : f[k] = NextEntry(img, root, f[k - 1], seq[k])
  BY <1>8, <1>9
<1>12. Looks(f, img, root, base, n, seq)
  BY <1>7, <1>11 DEF Looks
<1> QED
  BY <1>6, <1>10, <1>12

LEMMA PathLeads ==
  ASSUME NEW c, Shape(c), EntriesSound(c), NEW n \in Nat, NEW path, DOMAIN path = 1 .. n
  PROVE  Leads(LookupPath(c.out, c.root, path))
<1>1. LookupPath(c.out, c.root, path) = LookedUp(c.out, c.root, UserRoot, path)
  BY DEF LookupPath, LookedUp, UserRoot
<1>2. PICK f : /\ Looks(f, c.out, c.root, UserRoot, n, path)
               /\ LookedUp(c.out, c.root, UserRoot, path) = f[n]
  BY LookupFold
<1>3. /\ f[0] = UserRoot
      /\ \A k \in 1 .. n : f[k] = NextEntry(c.out, c.root, f[k - 1], path[k])
  BY <1>2 DEF Looks
<1>4. Leads(UserRoot)
  <2>1. UserRoot.ino = URootIno
    BY DEF UserRoot
  <2>2. URootIno \in UserInos
    BY Sizes, SpecialInodes DEF UserInos
  <2> QED
    BY <2>1, <2>2 DEF Leads
<1>5. NotFound.ino = -1
  BY DEF NotFound
<1> DEFINE G == {k \in 0 .. n : Leads(f[k])}
<1>6. 0 \in G
  BY <1>3, <1>4
<1>7. ASSUME NEW k \in 1 .. n, k - 1 \in G PROVE k \in G
  <2>1. Leads(f[k - 1])
    BY <1>7
  <2>2. CASE Found(f[k - 1])
    <3>1. f[k - 1].ino \in Inos
      BY <2>1, <2>2, UserIno DEF Leads, Found
    <3>2. f[k] = LookupChild(c.out, c.root, f[k - 1].ino, path[k])
      BY <1>3, <2>2 DEF NextEntry
    <3>3. Leads(f[k])
      BY <3>1, <3>2, ChildLeads
    <3> QED
      BY <3>3
  <2>3. CASE ~Found(f[k - 1])
    <3>1. f[k] = NotFound
      BY <1>3, <2>3 DEF NextEntry
    <3>2. Leads(f[k])
      BY <1>5, <3>1 DEF Leads
    <3> QED
      BY <3>2
  <2> QED
    BY <2>2, <2>3
<1> HIDE DEF G
<1>8. \A k \in 0 .. n : k \in G
  BY <1>6, <1>7, UpTo
<1>9. Leads(f[n])
  BY <1>8 DEF G
<1> QED
  BY <1>1, <1>2, <1>9

-----------------------------------------------------------------------------
(* The operations on directories and inodes, built on put_content          *)

Relinked(di, delta) == [di EXCEPT !.link = @ + delta]

LEMMA RelinkedDinode ==
  ASSUME NEW di, IsDinode(di), NEW delta
  PROVE  IsDinode(Relinked(di, delta))
<1> DEFINE d == Relinked(di, delta)
           x == di.link + delta
<1>1. /\ di = [mode |-> di.mode, comp |-> di.comp, link |-> di.link, size |-> di.size,
               count |-> di.count, direct |-> di.direct, ind |-> di.ind, ind2 |-> di.ind2]
      /\ di.size \in Nat /\ di.count = CeilDiv(di.size, BBS)
      /\ di.direct = [k \in 1 .. NDirect |-> di.direct[k]]
  BY DEF IsDinode
<1>2. d = [di EXCEPT !.link = x]
  BY DEF Relinked
<1> HIDE DEF d, x
<1>3. d = [mode |-> di.mode, comp |-> di.comp, link |-> x, size |-> di.size,
           count |-> di.count, direct |-> di.direct, ind |-> di.ind, ind2 |-> di.ind2]
  BY <1>1, <1>2
<1>4. /\ d.mode = di.mode /\ d.comp = di.comp /\ d.link = x /\ d.size = di.size
      /\ d.count = di.count /\ d.direct = di.direct /\ d.ind = di.ind /\ d.ind2 = di.ind2
  BY <1>3
<1>5. d = [mode |-> d.mode, comp |-> d.comp, link |-> d.link, size |-> d.size,
           count |-> d.count, direct |-> d.direct, ind |-> d.ind, ind2 |-> d.ind2]
  BY <1>3, <1>4
<1>6. IsDinode(d)
  BY <1>1, <1>4, <1>5 DEF IsDinode
<1> QED
  BY <1>6 DEF d

NewDinode(mode, link) == [ZeroDinode EXCEPT !.mode = mode, !.link = link]

LEMMA ZeroIsDinode == IsDinode(ZeroDinode)
<1> DEFINE d == ZeroDinode
           dir == [k \in 1 .. NDirect |-> NoPtr]
<1>1. dir = [k \in 1 .. NDirect |-> dir[k]]
  OBVIOUS
<1> HIDE DEF dir
<1>2. d = [mode |-> "none", comp |-> FALSE, link |-> 0, size |-> 0, count |-> 0,
           direct |-> dir, ind |-> NoPtr, ind2 |-> NoPtr]
  BY DEF ZeroDinode, dir
<1> HIDE DEF d
<1>3. /\ d.mode = "none" /\ d.comp = FALSE /\ d.link = 0 /\ d.size = 0 /\ d.count = 0
      /\ d.direct = dir /\ d.ind = NoPtr /\ d.ind2 = NoPtr
  BY <1>2
<1>4. d = [mode |-> d.mode, comp |-> d.comp, link |-> d.link, size |-> d.size,
           count |-> d.count, direct |-> d.direct, ind |-> d.ind, ind2 |-> d.ind2]
  BY <1>2, <1>3
<1>5. d.count = CeilDiv(d.size, BBS)
  BY <1>3, BlocksOf
<1>6. IsDinode(d)
  BY <1>1, <1>3, <1>4, <1>5 DEF IsDinode
<1> QED
  BY <1>6 DEF d

LEMMA FreshIsDinode ==
  ASSUME NEW mode, NEW link
  PROVE  IsDinode(NewDinode(mode, link))
<1> DEFINE z == ZeroDinode
           d == NewDinode(mode, link)
<1>1. IsDinode(z)
  BY ZeroIsDinode
<1>2. d = [z EXCEPT !.mode = mode, !.link = link]
  BY DEF NewDinode
<1> HIDE DEF d, z
<1>3. /\ z = [mode |-> z.mode, comp |-> z.comp, link |-> z.link, size |-> z.size,
              count |-> z.count, direct |-> z.direct, ind |-> z.ind, ind2 |-> z.ind2]
      /\ z.size \in Nat /\ z.count = CeilDiv(z.size, BBS)
      /\ z.direct = [k \in 1 .. NDirect |-> z.direct[k]]
  BY <1>1 DEF IsDinode
<1>4. d = [mode |-> mode, comp |-> z.comp, link |-> link, size |-> z.size,
           count |-> z.count, direct |-> z.direct, ind |-> z.ind, ind2 |-> z.ind2]
  BY <1>2, <1>3
<1>5. /\ d.mode = mode /\ d.comp = z.comp /\ d.link = link /\ d.size = z.size
      /\ d.count = z.count /\ d.direct = z.direct /\ d.ind = z.ind /\ d.ind2 = z.ind2
  BY <1>4
<1>6. d = [mode |-> d.mode, comp |-> d.comp, link |-> d.link, size |-> d.size,
           count |-> d.count, direct |-> d.direct, ind |-> d.ind, ind2 |-> d.ind2]
  BY <1>4, <1>5
<1>7. IsDinode(d)
  BY <1>3, <1>5, <1>6 DEF IsDinode
<1> QED
  BY <1>7 DEF d

(* The content of a directory with an entry more                           *)
LEMMA InsertClean ==
  ASSUME NEW buf, IsSeq(buf), EntriesIn(buf), NEW size \in Nat, size <= Len(buf) + BBS,
         NEW at, NEW e, CleanUnit(e)
  PROVE  LET x == ReplaceAt(SubSeq(buf \o ZeroBlock, 1, size), at, e)
         IN IsSeq(x) /\ EntriesIn(x)
<1> DEFINE S == ToSet(buf) \cup {Zero, e}
           w == SubSeq(buf \o ZeroBlock, 1, size)
           x == ReplaceAt(w, at, e)
<1>1. buf \in Seq(ToSet(buf)) /\ \A u \in ToSet(buf) : CleanUnit(u)
  BY SeqClean
<1>2. \A u \in S : CleanUnit(u)
  BY <1>1, ZeroClean
<1>3. buf \in Seq(S) /\ ZeroBlock \in Seq(S) /\ Len(ZeroBlock) = BBS
  <2>1. ToSet(buf) \subseteq S /\ {Zero} \subseteq S
    OBVIOUS
  <2> HIDE DEF S
  <2>2. buf \in Seq(S)
    BY <1>1, <2>1
  <2>3. ZeroBlock \in Seq({Zero}) /\ Len(ZeroBlock) = BBS
    BY ZeroClean
  <2>4. ZeroBlock \in Seq(S)
    BY <2>1, <2>3
  <2> QED
    BY <2>2, <2>3, <2>4
<1>4. e \in S
  OBVIOUS
<1> HIDE DEF S
<1>5. w \in Seq(S)
  <2> DEFINE z == buf \o ZeroBlock
  <2>1. z \in Seq(S) /\ Len(z) = Len(buf) + BBS
    BY <1>3
  <2> HIDE DEF z
  <2>2. size <= Len(z)
    BY <2>1
  <2>3. SubSeq(z, 1, size) \in Seq(S)
    BY <2>1, <2>2
  <2> QED
    BY <2>3 DEF z
<1>6. x = [w EXCEPT ![at] = e]
  BY DEF ReplaceAt
<1> HIDE DEF x, w
<1>7. x \in Seq(S)
  <2>1. w \in [1 .. Len(w) -> S] /\ Len(w) \in Nat
    BY <1>5
  <2>2. x \in [1 .. Len(w) -> S]
    BY <1>4, <1>6, <2>1
  <2> QED
    BY <2>1, <2>2
<1>8. IsSeq(x) /\ EntriesIn(x)
  BY <1>2, <1>7, CleanSeq
<1> QED
  BY <1>8 DEF x, w

LEMMA DirInsertGood ==
  ASSUME NEW s, SoundImage(s), NEW c, Good(s, c), NEW dir \in UserInos, NEW name,
         NEW i \in UserInos, NEW type, NEW delta
  PROVE  GoodResult(s, DirInsert(c, dir, name, i, type, delta))
<1> DEFINE buf == DirContent(c, dir)
           used == UsedEntries(buf)
           size == IF used + 2 > Len(buf) THEN CeilDiv(used + 2, BBS) * BBS ELSE Len(buf)
           di == Dinode(c, dir)
           x == ReplaceAt(SubSeq(buf \o ZeroBlock, 1, size), used + 1, Dirent(i, type, name))
           r == DirInsert(c, dir, name, i, type, delta)
           y == PutContent(c, dir, Relinked(di, delta), x)
           full == Unreadable(c, dir) \/ DirFind(buf, name) # 0 \/ size > Len(buf) + BBS
<1>1. r = IF full THEN Failed(c) ELSE y
  BY DEF DirInsert, Relinked, Dinode
<1>2. Shape(c) /\ EntriesSound(c) /\ dir \in Inos
  BY UserIno DEF Good, Sound
<1>3. IsSeq(buf) /\ EntriesIn(buf) /\ IsDinode(di)
  BY <1>2, DirBuf
<1> HIDE DEF buf, r, y, di
<1>4. used \in Nat /\ Len(buf) \in Nat
  BY <1>3, Used DEF IsSeq
<1> HIDE DEF used
<1>5. size \in Nat
  <2>1. CeilDiv(used + 2, BBS) \in Nat /\ BBS \in Nat
    BY <1>4, BlocksOf, Sizes
  <2>2. CeilDiv(used + 2, BBS) * BBS \in Nat
    BY <2>1
  <2> QED
    BY <1>4, <2>2
<1> HIDE DEF size
<1>6. CASE full
  <2>1. r = Failed(c)
    BY <1>1, <1>6
  <2> QED
    BY <2>1, NothingDone DEF r
<1>7. CASE ~full
  <2>1. r = y
    BY <1>1, <1>7
  <2>2. size <= Len(buf) + BBS
    BY <1>4, <1>5, <1>7, Sizes
  <2>3. CleanUnit(Dirent(i, type, name))
    BY DirentIs DEF CleanUnit
  <2>4. IsSeq(x) /\ EntriesIn(x)
    BY <1>3, <1>5, <2>2, <2>3, InsertClean
  <2>5. IsDinode(Relinked(di, delta))
    BY <1>3, RelinkedDinode
  <2> HIDE DEF x
  <2>6. GoodResult(s, y)
    BY <2>4, <2>5, PutGood DEF y
  <2> QED
    BY <2>1, <2>6 DEF r
<1> QED
  BY <1>6, <1>7

LEMMA DirRemoveEntryGood ==
  ASSUME NEW s, SoundImage(s), NEW c, Good(s, c), NEW dir \in UserInos, NEW name, NEW delta
  PROVE  GoodResult(s, DirRemoveEntry(c, dir, name, delta))
<1> DEFINE buf == DirContent(c, dir)
           at == DirFind(buf, name)
           di == Dinode(c, dir)
           x == Append(RemoveAt(buf, at), Zero)
           r == DirRemoveEntry(c, dir, name, delta)
           y == PutContent(c, dir, Relinked(di, delta), x)
<1>1. r = IF Unreadable(c, dir) \/ at = 0 THEN Failed(c) ELSE y
  BY DEF DirRemoveEntry, Relinked, Dinode
<1>2. Shape(c) /\ EntriesSound(c) /\ dir \in Inos
  BY UserIno DEF Good, Sound
<1>3. IsSeq(buf) /\ EntriesIn(buf) /\ IsDinode(di)
  BY <1>2, DirBuf
<1> HIDE DEF buf, r, y, di
<1>4. (at = 0 \/ at \in 1 .. Len(buf)) /\ Len(buf) \in Nat
  <2>1. at = 0 \/ at \in 1 .. UsedEntries(buf)
    BY <1>3, FindIs
  <2>2. UsedEntries(buf) \in 0 .. Len(buf) /\ Len(buf) \in Nat
    BY <1>3, Used DEF IsSeq
  <2> HIDE DEF at
  <2> QED
    BY <2>1, <2>2
<1> HIDE DEF at
<1>5. CASE Unreadable(c, dir) \/ at = 0
  <2>1. r = Failed(c)
    BY <1>1, <1>5
  <2> QED
    BY <2>1, NothingDone DEF r
<1>6. CASE ~(Unreadable(c, dir) \/ at = 0)
  <2> DEFINE S == ToSet(buf) \cup {Zero}
  <2>1. buf \in Seq(ToSet(buf)) /\ \A u \in ToSet(buf) : CleanUnit(u)
    BY <1>3, SeqClean
  <2>2. \A u \in S : CleanUnit(u)
    BY <2>1, ZeroClean
  <2>3. ToSet(buf) \subseteq S /\ Zero \in S
    OBVIOUS
  <2> HIDE DEF S
  <2>4. buf \in Seq(S) /\ at \in 1 .. Len(buf)
    BY <1>4, <1>6, <2>1, <2>3
  <2>5. SubSeq(buf, 1, at - 1) \in Seq(S) /\ SubSeq(buf, at + 1, Len(buf)) \in Seq(S)
    BY <2>4
  <2>6. RemoveAt(buf, at) \in Seq(S)
    BY <2>5 DEF RemoveAt
  <2>7. x \in Seq(S)
    BY <2>3, <2>6
  <2>8. IsSeq(x) /\ EntriesIn(x)
    BY <2>2, <2>7, CleanSeq
  <2>9. IsDinode(Relinked(di, delta))
    BY <1>3, RelinkedDinode
  <2> HIDE DEF x
  <2>10. GoodResult(s, y)
    BY <2>8, <2>9, PutGood DEF y
  <2>11. r = y
    BY <1>1, <1>6
  <2> QED
    BY <2>10, <2>11 DEF r
<1> QED
  BY <1>5, <1>6

(* pfs_repack_meta_alloc_inode finds no inode, or one of the user tree.    *)
LEMMA InodeAllocated ==
  ASSUME NEW s, SoundImage(s), NEW c, Good(s, c)
  PROVE  LET a == AllocInode(c)
         IN a.ino = 0 \/ (a.ino \in UserInos /\ Good(s, a.c))
<1> DEFINE a == AllocInode(c)
           F == FreeInodes(c)
           i == CHOOSE x \in F : \A y \in F : x <= y
           d == [c EXCEPT !.inob[i] = TRUE, !.dirty = TRUE]
<1>1. a = IF F = {} THEN [ino |-> 0, c |-> c] ELSE [ino |-> i, c |-> d]
  BY DEF AllocInode
<1>2. CASE F = {}
  BY <1>1, <1>2
<1>3. CASE F # {}
  <2>1. i \in F
    <3>1. F \subseteq Nat
      BY Sizes DEF FreeInodes
    <3> HIDE DEF F
    <3>2. \E j \in F : \A m \in F : j <= m
      BY <1>3, <3>1, Least
    <3> QED
      BY <3>2
  <2> HIDE DEF i
  <2>2. i \in 1 .. NInodes - 1 /\ Dinode(c, i).mode = "none"
    BY <2>1 DEF FreeInodes, Dinode
  <2>3. ASSUME i \in SysInos PROVE FALSE
    <3>1. Dinode(c, i) = Dinode(Load(s), i)
      BY <2>3 DEF Good, MetaSame, Same
    <3>2. Dinode(Load(s), i).mode # "none"
      BY <2>3, Source DEF MetaSound
    <3> QED
      BY <2>2, <3>1, <3>2
  <2>4. i \in UserInos
    BY <2>2, <2>3 DEF UserInos
  <2>5. Good(s, d)
    BY <2>4, UserIno, Relabelled
  <2> HIDE DEF d, F
  <2>6. a.ino = i /\ a.c = d
    BY <1>1, <1>3
  <2> QED
    BY <2>4, <2>5, <2>6
<1> QED
  BY <1>2, <1>3

LEMMA EmptyClean == IsSeq(<<>>) /\ EntriesIn(<<>>)
<1>1. <<>> \in Seq({})
  OBVIOUS
<1> QED
  BY <1>1, CleanSeq

LEMMA FreeOneGood ==
  ASSUME NEW s, SoundImage(s), NEW c, Good(s, c), NEW i \in UserInos
  PROVE  GoodResult(s, FreeOne(c, i))
<1> DEFINE q == FreeInodeData(c, i)
           r == FreeOne(c, i)
<1>1. GoodResult(s, q)
  BY ZeroIsDinode, EmptyClean, PutGood DEF FreeInodeData
<1>2. r = IF q.ok THEN Ok(FreeInode(q.c, i)) ELSE q
  BY DEF FreeOne, Then
<1> HIDE DEF q, r
<1>3. CASE q.ok
  <2>1. Good(s, q.c) /\ i \in Inos
    BY <1>1, <1>3, UserIno DEF GoodResult
  <2>2. Good(s, FreeInode(q.c, i))
    BY <2>1, Relabelled DEF FreeInode
  <2>3. GoodResult(s, Ok(FreeInode(q.c, i)))
    BY <2>2, NothingDone
  <2> QED
    BY <1>2, <1>3, <2>3 DEF r
<1>4. CASE ~q.ok
  BY <1>1, <1>2, <1>4 DEF r
<1> QED
  BY <1>3, <1>4

LEMMA AddFileGood ==
  ASSUME NEW s, SoundImage(s), NEW c, Good(s, c), NEW parent \in UserInos, NEW name,
         NEW content, Payload(content)
  PROVE  GoodResult(s, AddFile(c, parent, name, content))
<1> DEFINE a == AllocInode(c)
           di == NewDinode("reg", 1)
           q == PutContent(a.c, a.ino, di, content)
           r == AddFile(c, parent, name, content)
<1>1. r = IF a.ino = 0 THEN Failed(c)
          ELSE IF q.ok THEN DirInsert(q.c, parent, name, a.ino, "file", 0) ELSE q
  BY DEF AddFile, Then, NewDinode
<1>2. a.ino = 0 \/ (a.ino \in UserInos /\ Good(s, a.c))
  BY InodeAllocated
<1>3. IsSeq(content) /\ EntriesIn(content)
  <2>1. IsSeq(content) /\ \A u \in ToSet(content) : ~IsDirent(u)
    BY DEF Payload
  <2>2. content \in Seq(ToSet(content)) /\ \A u \in ToSet(content) : CleanUnit(u)
    BY <2>1 DEF CleanUnit, IsSeq
  <2> QED
    BY <2>2, CleanSeq
<1>4. IsDinode(di)
  BY FreshIsDinode
<1> HIDE DEF r, a, di
<1>5. CASE a.ino = 0
  BY <1>1, <1>5, NothingDone DEF r
<1>6. CASE a.ino # 0
  <2>1. GoodResult(s, q)
    BY <1>2, <1>3, <1>4, <1>6, PutGood
  <2> HIDE DEF q
  <2>2. CASE q.ok
    <3>1. GoodResult(s, DirInsert(q.c, parent, name, a.ino, "file", 0))
      BY <1>2, <1>6, <2>1, <2>2, DirInsertGood DEF GoodResult
    <3> QED
      BY <1>1, <1>6, <2>2, <3>1 DEF r
  <2>3. CASE ~q.ok
    BY <1>1, <1>6, <2>1, <2>3 DEF r
  <2> QED
    BY <2>2, <2>3
<1> QED
  BY <1>5, <1>6

LEMMA AddDirGood ==
  ASSUME NEW s, SoundImage(s), NEW c, Good(s, c), NEW parent \in UserInos, NEW name
  PROVE  GoodResult(s, AddDir(c, parent, name))
<1> DEFINE a == AllocInode(c)
           di == NewDinode("dir", 2)
           this == Dirent(a.ino, "this", ".")
           up == Dirent(parent, "parent", "..")
           content == SubSeq(<<this, up>> \o ZeroBlock, 1, BBS)
           q == PutContent(a.c, a.ino, di, content)
           r == AddDir(c, parent, name)
<1>1. r = IF a.ino = 0 THEN Failed(c)
          ELSE IF q.ok THEN DirInsert(q.c, parent, name, a.ino, "dir", 1) ELSE q
  BY DEF AddDir, Then, NewDinode
<1>2. a.ino = 0 \/ (a.ino \in UserInos /\ Good(s, a.c))
  BY InodeAllocated
<1>3. IsDinode(di)
  BY FreshIsDinode
<1>4. ASSUME a.ino \in UserInos PROVE IsSeq(content) /\ EntriesIn(content)
  <2> DEFINE S == {this, up, Zero}
  <2>1. CleanUnit(this) /\ CleanUnit(up) /\ CleanUnit(Zero)
    <3> HIDE DEF a
    <3> QED
      BY <1>4, DirentIs, ZeroClean DEF CleanUnit
  <2>2. ZeroBlock \in Seq({Zero}) /\ Len(ZeroBlock) = BBS /\ BBS \in Nat
    BY ZeroClean, Sizes
  <2> HIDE DEF this, up
  <2>3. /\ \A u \in S : CleanUnit(u)
        /\ this \in S /\ up \in S /\ {Zero} \subseteq S
    BY <2>1
  <2> HIDE DEF S
  <2>4. ZeroBlock \in Seq(S) /\ <<this, up>> \in Seq(S) /\ Len(<<this, up>>) = 2
    BY <2>2, <2>3
  <2> DEFINE z == <<this, up>> \o ZeroBlock
  <2>5. z \in Seq(S) /\ Len(z) = 2 + BBS
    BY <2>2, <2>4
  <2> HIDE DEF z
  <2>6. SubSeq(z, 1, BBS) \in Seq(S)
    BY <2>2, <2>5
  <2>7. content = SubSeq(z, 1, BBS)
    BY DEF z
  <2> HIDE DEF content
  <2> QED
    BY <2>3, <2>6, <2>7, CleanSeq
<1> HIDE DEF r, a, di, content
<1>5. CASE a.ino = 0
  BY <1>1, <1>5, NothingDone DEF r
<1>6. CASE a.ino # 0
  <2>1. GoodResult(s, q)
    BY <1>2, <1>3, <1>4, <1>6, PutGood
  <2> HIDE DEF q
  <2>2. CASE q.ok
    <3>1. GoodResult(s, DirInsert(q.c, parent, name, a.ino, "dir", 1))
      BY <1>2, <1>6, <2>1, <2>2, DirInsertGood DEF GoodResult
    <3> QED
      BY <1>1, <1>6, <2>2, <3>1 DEF r
  <2>3. CASE ~q.ok
    BY <1>1, <1>6, <2>1, <2>3 DEF r
  <2> QED
    BY <2>2, <2>3
<1> QED
  BY <1>5, <1>6

-----------------------------------------------------------------------------
(* Removing what is below a directory                                      *)

LEMMA SetSeq ==
  ASSUME NEW S, IsFiniteSet(S)
  PROVE  SetToSeq(S) \in Seq(S)
<1> DEFINE n == Cardinality(S)
           F == [1 .. n -> S]
           p(f) == IsInjective(f)
<1>1. n \in Nat /\ ExistsBijection(1 .. n, S)
  BY FS_CardinalityType
<1>2. PICK f \in Bijection(1 .. n, S) : TRUE
  BY <1>1 DEF ExistsBijection
<1>3. f \in [1 .. n -> S] /\ \A a, b \in 1 .. n : f[a] = f[b] => a = b
  BY <1>2 DEF Bijection, Injection, IsInjective
<1>4. f \in F /\ p(f)
  BY <1>3 DEF IsInjective
<1>5. SetToSeq(S) = CHOOSE x \in F : p(x)
  BY DEF SetToSeq
<1> HIDE DEF F, p
<1>6. SetToSeq(S) \in F
  BY <1>4, <1>5
<1> QED
  BY <1>1, <1>6 DEF F

Reachable(c) == UNION {Children(c.out, c.root, i) : i \in Inos}
Kids(c, e) == IF e.type = "dir" /\ ~Unreadable(c, e.ino)
              THEN Children(c.out, c.root, e.ino) ELSE {}

LEMMA ReachableIs ==
  ASSUME NEW c, Shape(c), EntriesSound(c)
  PROVE  /\ \A e \in Reachable(c) : e.ino \in UserInos /\ Kids(c, e) \subseteq Reachable(c)
         /\ \A i \in Inos : Children(c.out, c.root, i) \subseteq Reachable(c)
         /\ IsFiniteSet(Reachable(c))
<1>1. \A i \in Inos : Children(c.out, c.root, i) \subseteq Reachable(c)
  BY DEF Reachable
<1>2. ASSUME NEW e \in Reachable(c) PROVE e.ino \in UserInos /\ Kids(c, e) \subseteq Reachable(c)
  <2>1. PICK i \in Inos : e \in Children(c.out, c.root, i)
    BY DEF Reachable
  <2>2. e.ino \in UserInos /\ e.ino \in Inos
    BY <2>1, ChildrenLead, UserIno
  <2> QED
    BY <1>1, <2>2 DEF Kids
<1>3. IsFiniteSet(Reachable(c))
  <2> DEFINE f == [i \in Inos |-> Children(c.out, c.root, i)]
             R == {f[i] : i \in Inos}
  <2>1. IsFiniteSet(Inos)
    <3>1. 0 \in Int /\ NInodes - 1 \in Int
      BY Sizes
    <3> QED
      BY <3>1, FS_Interval DEF Inos
  <2>2. \A T \in R : IsFiniteSet(T)
    BY ChildrenLead
  <2>3. R = {Children(c.out, c.root, i) : i \in Inos}
    OBVIOUS
  <2> HIDE DEF f
  <2>4. IsFiniteSet(R)
    BY <2>1, FiniteImage
  <2>5. Reachable(c) = UNION R
    BY <2>3 DEF Reachable
  <2> HIDE DEF R
  <2> QED
    BY <2>2, <2>4, <2>5, FS_UNION
<1> QED
  BY <1>1, <1>2, <1>3

(* One inode after the other                                               *)
ThenFree(r, e) == Then(r, LAMBDA x : FreeEntry(x, e))
FreeAll(base, es) == FoldLeft(LAMBDA r, e : Then(r, LAMBDA x : FreeEntry(x, e)), base, es)

FreesInodes(f, base, n, seq) ==
  /\ f[0] = base
  /\ \A k \in 1 .. n : f[k] = ThenFree(f[k - 1], seq[k])

LEMMA FreeAllFold ==
  ASSUME NEW base, NEW n \in Nat, NEW seq, DOMAIN seq = 1 .. n
  PROVE  \E f : FreesInodes(f, base, n, seq) /\ FreeAll(base, seq) = f[n]
<1> DEFINE Op(x, k) == ThenFree(x, seq[k])
           Iter(m, g) == g = [s \in SUBSET (1 .. m) |->
                                IF s = {} THEN base ELSE Op(g[s \ {Max(s)}], Max(s))]
           T == {m \in 0 .. n : \E g : Iter(m, g)}
<1> HIDE DEF Op
<1>1. 0 \in T
  <2> DEFINE h == [s \in SUBSET (1 .. 0) |-> base]
  <2>1. \A s \in SUBSET (1 .. 0) : s = {}
    OBVIOUS
  <2>2. \A s \in SUBSET (1 .. 0) :
          h[s] = IF s = {} THEN base ELSE Op(h[s \ {Max(s)}], Max(s))
    BY <2>1
  <2>3. h = [s \in SUBSET (1 .. 0) |-> h[s]]
    OBVIOUS
  <2> HIDE DEF h
  <2>4. Iter(0, h)
    BY <2>2, <2>3
  <2>5. 0 \in 0 .. n
    OBVIOUS
  <2> HIDE DEF Iter
  <2> QED
    BY <2>4, <2>5
<1>2. ASSUME NEW m \in 1 .. n, m - 1 \in T PROVE m \in T
  <2>1. PICK g : Iter(m - 1, g)
    BY <1>2
  <2> DEFINE h == [s \in SUBSET (1 .. m) |-> IF m \in s THEN Op(g[s \ {m}], m) ELSE g[s]]
  <2>2. ASSUME NEW s \in SUBSET (1 .. m)
        PROVE  h[s] = IF s = {} THEN base ELSE Op(h[s \ {Max(s)}], Max(s))
    <3>1. CASE m \in s
      <4>1. Max(s) = m
        <5>1. m \in Nat /\ s # {} /\ \A x \in s : x \in 1 .. m
          BY <3>1
        <5>2. Max(s) \in s /\ m <= Max(s)
          BY <3>1, <5>1, Greatest
        <5>3. Max(s) \in 1 .. m
          BY <5>1, <5>2
        <5> QED
          BY <5>1, <5>2, <5>3
      <4>2. s \ {m} \in SUBSET (1 .. m) /\ m \notin s \ {m}
        OBVIOUS
      <4> QED
        BY <3>1, <4>1, <4>2
    <3>2. CASE m \notin s
      <4>1. s \in SUBSET (1 .. m - 1)
        BY <3>2
      <4>2. s # {} => s \ {Max(s)} \in SUBSET (1 .. m) /\ m \notin s \ {Max(s)}
        BY <3>2
      <4>3. g[s] = IF s = {} THEN base ELSE Op(g[s \ {Max(s)}], Max(s))
        BY <2>1, <4>1
      <4> QED
        BY <3>2, <4>2, <4>3
    <3> QED
      BY <3>1, <3>2
  <2>3. h = [s \in SUBSET (1 .. m) |-> h[s]]
    OBVIOUS
  <2> HIDE DEF h
  <2>4. Iter(m, h)
    BY <2>2, <2>3
  <2>5. m \in 0 .. n
    OBVIOUS
  <2> HIDE DEF Iter
  <2> QED
    BY <2>4, <2>5
<1> HIDE DEF T
<1>3. \A m \in 0 .. n : m \in T
  BY <1>1, <1>2, UpTo
<1>4. \E g : Iter(n, g)
  <2>1. n \in T
    BY <1>3
  <2> HIDE DEF Iter
  <2> QED
    BY <2>1 DEF T
<1> DEFINE g == CHOOSE g : Iter(n, g)
           f == [k \in 0 .. n |-> g[1 .. k]]
<1>5. Iter(n, g)
  BY <1>4
<1>6. FreeAll(base, seq) = g[1 .. n]
  BY DEF FoldLeft, MapThenFoldSet, Op, FreeAll, ThenFree
<1> HIDE DEF g
<1>7. f[0] = base
  <2>1. {} \in SUBSET (1 .. n)
    OBVIOUS
  <2>2. g[{}] = base
    BY <1>5, <2>1
  <2>3. 1 .. 0 = {} /\ 0 \in 0 .. n
    OBVIOUS
  <2> QED
    BY <2>2, <2>3
<1>8. ASSUME NEW k \in 1 .. n PROVE f[k] = Op(f[k - 1], k)
  <2>1. g[1 .. k] = Op(g[1 .. (k - 1)], k)
    <3>1. /\ 1 .. k \in SUBSET (1 .. n) /\ 1 .. k # {} /\ Max(1 .. k) = k
          /\ (1 .. k) \ {k} = 1 .. (k - 1)
      BY FirstOnes
    <3>2. \A s \in SUBSET (1 .. n) :
            g[s] = IF s = {} THEN base ELSE Op(g[s \ {Max(s)}], Max(s))
      BY <1>5
    <3> QED
      BY <3>1, <3>2
  <2>2. k \in 0 .. n /\ k - 1 \in 0 .. n
    OBVIOUS
  <2> QED
    BY <2>1, <2>2
<1>9. \A k \in 1 .. n : Op(f[k - 1], k) = ThenFree(f[k - 1], seq[k])
  BY DEF Op
<1>10. f[n] = g[1 .. n]
  OBVIOUS
<1> HIDE DEF f
<1>11. \A k \in 1 .. n : f[k] = ThenFree(f[k - 1], seq[k])
  BY <1>8, <1>9
<1>12. FreesInodes(f, base, n, seq)
  BY <1>7, <1>11 DEF FreesInodes
<1> QED
  BY <1>6, <1>10, <1>12

LEMMA FreeEntryGood ==
  ASSUME NEW s, SoundImage(s), NEW c, Good(s, c), NEW e, e.ino \in UserInos
  PROVE  GoodResult(s, FreeEntry(c, e))
<1>1. GoodResult(s, Failed(c)) /\ GoodResult(s, FreeOne(c, e.ino))
  BY NothingDone, FreeOneGood
<1> QED
  BY <1>1 DEF FreeEntry

LEMMA FreeAllGood ==
  ASSUME NEW s, SoundImage(s), NEW base, GoodResult(s, base),
         NEW S, \A e \in S : e.ino \in UserInos, NEW es \in Seq(S)
  PROVE  GoodResult(s, FreeAll(base, es))
<1> DEFINE n == Len(es)
<1>1. n \in Nat /\ DOMAIN es = 1 .. n /\ \A k \in 1 .. n : es[k] \in S
  BY SeqSet
<1> HIDE DEF n
<1>2. PICK f : FreesInodes(f, base, n, es) /\ FreeAll(base, es) = f[n]
  BY <1>1, FreeAllFold
<1>3. f[0] = base /\ \A k \in 1 .. n : f[k] = ThenFree(f[k - 1], es[k])
  BY <1>2 DEF FreesInodes
<1> DEFINE G == {k \in 0 .. n : GoodResult(s, f[k])}
<1>4. 0 \in G
  BY <1>1, <1>3
<1>5. ASSUME NEW k \in 1 .. n, k - 1 \in G PROVE k \in G
  <2>1. GoodResult(s, f[k - 1]) /\ es[k].ino \in UserInos /\ k \in 0 .. n
    BY <1>1, <1>5
  <2>2. f[k] = IF f[k - 1].ok THEN FreeEntry(f[k - 1].c, es[k]) ELSE f[k - 1]
    BY <1>3 DEF ThenFree, Then
  <2>3. CASE f[k - 1].ok
    <3>1. Good(s, f[k - 1].c)
      BY <2>1, <2>3 DEF GoodResult
    <3>2. GoodResult(s, FreeEntry(f[k - 1].c, es[k]))
      BY <2>1, <3>1, FreeEntryGood
    <3> QED
      BY <2>1, <2>2, <2>3, <3>2
  <2>4. CASE ~f[k - 1].ok
    BY <2>1, <2>2, <2>4
  <2> QED
    BY <2>3, <2>4
<1> HIDE DEF G
<1>6. \A k \in 0 .. n : k \in G
  BY <1>1, <1>4, <1>5, UpTo
<1>7. n \in G
  BY <1>1, <1>6
<1> QED
  BY <1>2, <1>7 DEF G

LEMMA FreeDirIs ==
  ASSUME NEW c, Shape(c), EntriesSound(c), NEW dir \in Inos
  PROVE  \E es \in Seq(Reachable(c)) :
           FreeDirRecursive(c, dir) = FreeAll(IF Unreadable(c, dir) THEN Failed(c) ELSE Ok(c), es)
<1> DEFINE N == MaxDepth
           R == Reachable(c)
           S == SUBSET R
           Step(z) == UNION {Kids(c, e) : e \in z}
           step == [i \in 1 .. N |-> [z \in S |-> Step(z)]]
           top == Children(c.out, c.root, dir)
           Def(f) == f = [d \in 0 .. MaxDepth |->
                            IF d = 0 THEN Children(c.out, c.root, dir)
                            ELSE UNION {IF e.type = "dir" /\ ~Unreadable(c, e.ino)
                                        THEN Children(c.out, c.root, e.ino)
                                        ELSE {} : e \in f[d - 1]}]
           begin == IF Unreadable(c, dir) THEN Failed(c) ELSE Ok(c)
           L == CHOOSE f : Def(f)
           seqs == [d \in 1 .. (N + 1) |-> SetToSeq(L[N + 1 - d])]
<1>1. N \in Nat
  BY Sizes
<1>2. top \in S /\ \A e \in R : Kids(c, e) \subseteq R
  BY ReachableIs
<1>3. \A z \in S : Step(z) \in S
  BY <1>2
<1>4. step \in [1 .. N -> [S -> S]]
  BY <1>3
<1> HIDE DEF Step, step, S, top
<1>5. PICK f : IsLoop(f, N, S, top, step)
  BY <1>1, <1>2, <1>4, Loop
<1>6. \A i \in 1 .. N : i - 1 \in 0 .. N /\ i \in 0 .. N /\ i # 0
  BY <1>1
<1>7. \A i \in 0 .. N : f[i] \in S
  BY <1>5 DEF IsLoop
<1>8. \A i \in 1 .. N : f[i] = Step(f[i - 1])
  BY <1>5, <1>6, <1>7 DEF IsLoop, step
<1>9. Def(f)
  <2>1. \A i \in 0 .. N : i = 0 \/ i \in 1 .. N
    BY <1>1
  <2>2. f \in [0 .. N -> S] /\ f[0] = top
    BY <1>5 DEF IsLoop
  <2>3. f = [d \in 0 .. N |-> IF d = 0 THEN top ELSE Step(f[d - 1])]
    BY <1>8, <2>1, <2>2
  <2> QED
    BY <2>3 DEF Step, Kids, top
<1>10. FreeDirRecursive(c, dir) = FreeAll(begin, FlattenSeq(seqs))
  BY DEF FreeDirRecursive, FreeAll
<1>11. Def(L)
  <2> HIDE DEF Def
  <2> QED
    BY <1>9
<1> HIDE DEF L
<1>12. L = [d \in 0 .. N |-> IF d = 0 THEN top ELSE Step(L[d - 1])]
  BY <1>11 DEF Step, Kids, top
<1> HIDE DEF Def
<1> DEFINE T == {i \in 0 .. N : L[i] \in S}
<1>13. 0 \in T
  BY <1>1, <1>2, <1>12
<1>14. ASSUME NEW i \in 1 .. N, i - 1 \in T PROVE i \in T
  <2>1. L[i] = Step(L[i - 1])
    BY <1>6, <1>12
  <2> QED
    BY <1>3, <1>6, <1>14, <2>1
<1>15. \A i \in 0 .. N : L[i] \in S
  <2> HIDE DEF T
  <2>1. \A i \in 0 .. N : i \in T
    BY <1>1, <1>13, <1>14, UpTo
  <2> QED
    BY <2>1 DEF T
<1>16. IsFiniteSet(R)
  BY ReachableIs
<1>17. ASSUME NEW d \in 1 .. (N + 1) PROVE SetToSeq(L[N + 1 - d]) \in Seq(R)
  <2>1. N + 1 - d \in 0 .. N
    BY <1>1
  <2>2. L[N + 1 - d] \subseteq R
    BY <1>15, <2>1 DEF S
  <2> DEFINE z == L[N + 1 - d]
  <2> HIDE DEF z, R
  <2>3. IsFiniteSet(z)
    BY <1>16, <2>2, FS_Subset DEF z
  <2>4. SetToSeq(z) \in Seq(z)
    BY <2>3, SetSeq
  <2>5. SetToSeq(z) \in Seq(R)
    BY <2>2, <2>4 DEF z
  <2> QED
    BY <2>5 DEF z
<1> HIDE DEF R, N
<1>18. seqs \in [1 .. (N + 1) -> Seq(R)] /\ N + 1 \in Nat
  BY <1>1, <1>17
<1> HIDE DEF seqs
<1>19. FlattenSeq(seqs) \in Seq(R)
  BY <1>18, Flattened
<1> QED
  BY <1>10, <1>19 DEF R

LEMMA FreeDirGood ==
  ASSUME NEW s, SoundImage(s), NEW c, Good(s, c), NEW dir \in UserInos
  PROVE  GoodResult(s, FreeDirRecursive(c, dir))
<1>1. Shape(c) /\ EntriesSound(c) /\ dir \in Inos
  BY UserIno DEF Good, Sound
<1> DEFINE begin == IF Unreadable(c, dir) THEN Failed(c) ELSE Ok(c)
<1>2. PICK es \in Seq(Reachable(c)) : FreeDirRecursive(c, dir) = FreeAll(begin, es)
  BY <1>1, FreeDirIs
<1>3. GoodResult(s, begin) /\ \A e \in Reachable(c) : e.ino \in UserInos
  BY <1>1, NothingDone, ReachableIs
<1> HIDE DEF begin
<1>4. GoodResult(s, FreeAll(begin, es))
  BY <1>3, FreeAllGood
<1> QED
  BY <1>2, <1>4

LEMMA FrontIs ==
  ASSUME NEW s, IsSeq(s), s # <<>>
  PROVE  Len(s) - 1 \in Nat /\ DOMAIN Front(s) = 1 .. (Len(s) - 1)
<1> DEFINE S == ToSet(s)
           hi == Len(s) - 1
           f == SubSeq(s, 1, hi)
<1>1. s \in Seq(S)
  BY DEF IsSeq
<1> HIDE DEF S
<1>2. hi \in Nat /\ hi <= Len(s)
  BY <1>1
<1>3. f = Front(s)
  BY DEF Front
<1> HIDE DEF hi
<1>4. Len(f) = hi /\ f \in Seq(S)
  BY <1>1, <1>2
<1>5. DOMAIN f = 1 .. hi
  BY <1>4
<1> HIDE DEF f
<1> QED
  BY <1>2, <1>3, <1>5 DEF hi

(* pfs_repack_remove_path *)
LEMMA RemovePathGood ==
  ASSUME NEW s, SoundImage(s), NEW c, Good(s, c), NEW path, IsSeq(path)
  PROVE  GoodResult(s, RemovePath(c, path))
<1> DEFINE parent == LookupPath(c.out, c.root, Front(path))
           child == LookupChild(c.out, c.root, parent.ino, Last(path))
           delta == IF child.type = "dir" THEN -1 ELSE 0
           x == IF child.type = "dir" THEN FreeDirRecursive(c, child.ino) ELSE Ok(c)
           y == IF x.ok THEN FreeOne(x.c, child.ino) ELSE x
           z == IF y.ok THEN DirRemoveEntry(y.c, parent.ino, Last(path), delta) ELSE y
           r == RemovePath(c, path)
<1>1. r = IF path = <<>> \/ ~Found(parent) \/ ~Found(child) THEN Failed(c) ELSE z
  BY DEF RemovePath, Then
<1> HIDE DEF r
<1>2. CASE path = <<>> \/ ~Found(parent) \/ ~Found(child)
  <2>1. r = Failed(c)
    <3> HIDE DEF z, child, parent
    <3> QED
      BY <1>1, <1>2
  <2> QED
    BY <2>1, NothingDone DEF r
<1>3. CASE ~(path = <<>> \/ ~Found(parent) \/ ~Found(child))
  <2>1. Shape(c) /\ EntriesSound(c)
    BY DEF Good, Sound
  <2>2. parent.ino \in UserInos
    <3>1. Len(path) - 1 \in Nat /\ DOMAIN Front(path) = 1 .. (Len(path) - 1)
      BY <1>3, FrontIs
    <3>5. Leads(parent)
      BY <2>1, <3>1, PathLeads
    <3> QED
      BY <1>3, <3>5 DEF Leads, Found
  <2> HIDE DEF parent
  <2>3. child.ino \in UserInos
    <3>1. parent.ino \in Inos
      BY <2>2, UserIno
    <3>2. Leads(child)
      BY <2>1, <3>1, ChildLeads
    <3> QED
      BY <1>3, <3>2 DEF Leads, Found
  <2> HIDE DEF child, delta
  <2>4. GoodResult(s, x)
    BY <2>3, FreeDirGood, NothingDone
  <2> HIDE DEF x
  <2>5. GoodResult(s, y)
    <3>1. ASSUME x.ok PROVE GoodResult(s, FreeOne(x.c, child.ino))
      <4>1. Good(s, x.c)
        BY <2>4, <3>1 DEF GoodResult
      <4> QED
        BY <2>3, <4>1, FreeOneGood
    <3> QED
      BY <2>4, <3>1
  <2> HIDE DEF y
  <2>6. GoodResult(s, z)
    <3>1. ASSUME y.ok PROVE GoodResult(s, DirRemoveEntry(y.c, parent.ino, Last(path), delta))
      <4>1. Good(s, y.c)
        BY <2>5, <3>1 DEF GoodResult
      <4> QED
        BY <2>2, <4>1, DirRemoveEntryGood
    <3> QED
      BY <2>5, <3>1
  <2>7. r = z
    <3> HIDE DEF z
    <3> QED
      BY <1>1, <1>3
  <2> QED
    BY <2>6, <2>7 DEF r
<1> QED
  BY <1>2, <1>3

-----------------------------------------------------------------------------
(* The inductive invariant, one handler after the other.  While the user   *)
(* tree is worked on the context is a good one for the source.             *)

LEMMA WorkingGood ==
  ASSUME RunInv, phase \in Working
  PROVE  SoundImage(src) /\ Good(src, ctx)
<1>1. phase # "failed"
  BY DEF Working
<1> QED
  BY <1>1 DEF RunInv, Good, Alive

LEMMA SourceHeader ==
  ASSUME NEW s, SoundImage(s)
  PROVE  IsHeader(s[0])
<1>1. s[0] = Header(s[0][2].root, s[0][2].hash, s[0][2].rest)
  BY Source DEF HeaderShape
<1>2. \A a, b, x : Header(a, b, x)[1] = "hdr"
  BY DEF Header
<1> QED
  BY <1>1, <1>2 DEF IsHeader

(* A handler of the working phases keeps the invariant, when its result is *)
(* good and the targets still to visit are as they were.                   *)
LEMMA StillGood ==
  ASSUME RunInv, phase' \in Working, src' = src, Good(src, ctx'), Inputs', TargetsSame'
  PROVE  RunInv'
<1>1. phase' # "failed" /\ phase' # "sign" /\ phase' # "done"
  BY DEF Working
<1>2. SoundImage(src) /\ Sound(src, ctx') /\ MetaSame(src, ctx') /\ ctx'.out[0] = src[0]
  BY DEF RunInv, Good
<1>3. BackupKept(src, ctx') /\ IsHeader(ctx'.out[0])
  BY <1>2, SourceHeader DEF Sound
<1>4. HeaderSigned'
  BY <1>1 DEF HeaderSigned
<1> QED
  BY <1>1, <1>2, <1>3, <1>4 DEF RunInv, Alive

LEMMA GivenUp ==
  ASSUME RunInv, phase' = "failed", src' = src, Inputs',
         BackupKept(src, ctx'), IsHeader(ctx'.out[0])
  PROVE  RunInv'
<1>1. phase' \notin Working /\ phase' # "sign" /\ phase' # "done" /\ phase' # "mods"
  BY DEF Working
<1>2. HeaderSigned' /\ TargetsSame'
  BY <1>1 DEF HeaderSigned, TargetsSame
<1> QED
  BY <1>1, <1>2 DEF RunInv, Alive

LEMMA ReturnedGood ==
  ASSUME RunInv, UNCHANGED <<src, inputs>>,
         NEW r, GoodResult(src, r), NEW next \in Working, NEW rest, Return(r, next, rest),
         rest \subseteq todo, line' \in {line, line + 1}, r.ok => TargetsSame'
  PROVE  RunInv'
<1>1. SoundImage(src)
  BY DEF RunInv
<1>2. src' = src /\ host' = host /\ manifest' = manifest /\ todo' \subseteq todo
  BY DEF inputs, Return
<1>3. Inputs'
  BY <1>2 DEF RunInv, Inputs
<1>4. CASE r.ok
  <2>1. phase' \in Working /\ ctx' = r.c /\ TargetsSame'
    BY <1>4 DEF Return
  <2>2. Good(src, ctx')
    BY <1>4, <2>1 DEF GoodResult
  <2> QED
    BY <1>2, <1>3, <2>1, <2>2, StillGood
<1>5. CASE ~r.ok
  <2>1. phase' = "failed" /\ ctx' = r.c
    BY <1>5 DEF Return
  <2>2. BackupKept(src, ctx') /\ ctx'.out[0] = src[0]
    BY <2>1 DEF GoodResult
  <2>3. IsHeader(ctx'.out[0])
    BY <1>1, <2>2, SourceHeader
  <2> QED
    BY <1>2, <1>3, <2>1, <2>2, <2>3, GivenUp
<1> QED
  BY <1>4, <1>5

-----------------------------------------------------------------------------
LEMMA RunInit == Init => RunInv
<1> SUFFICES ASSUME Init PROVE RunInv
  OBVIOUS
<1>1. SoundImage(src) /\ ctx = Load(src)
  BY ImagesSound DEF Init
<1>2. Good(src, ctx)
  BY <1>1, Fresh
<1>3. IsHeader(ctx.out[0]) /\ BackupKept(src, ctx) /\ Sound(src, ctx)
  BY <1>1, <1>2, SourceHeader DEF Good, Sound
<1>4. phase = "idle" /\ phase \notin Working
  BY DEF Init, Working
<1>5. Inputs
  BY DEF Init, Inputs
<1>6. TargetsSame /\ HeaderSigned
  BY <1>4 DEF TargetsSame, HeaderSigned
<1> QED
  BY <1>1, <1>3, <1>4, <1>5, <1>6 DEF RunInv

LEMMA StartRunKeeps ==
  ASSUME RunInv, RequestApart', NEW h \in HostDirs, NEW m \in Manifests, NEW k,
         StartRun(h, m, k)
  PROVE  RunInv'
<1> DEFINE s == NextSource
<1>1. SoundImage(s)
  BY DEF RunInv, NextSource
<1>2. src' = s /\ ctx' = Load(s) /\ host' = h /\ manifest' = m /\ phase' = "mods"
      /\ line' = 1 /\ todo' = Targets(s, h)
  BY DEF StartRun, Targets
<1> HIDE DEF s
<1>3. Good(s, ctx')
  BY <1>1, <1>2, Fresh
<1>4. /\ Sound(s, ctx') /\ MetaSame(s, ctx') /\ ctx'.out[0] = s[0]
      /\ BackupKept(s, ctx') /\ IsHeader(ctx'.out[0])
  BY <1>1, <1>3, SourceHeader DEF Good, Sound
<1>5. Inputs'
  BY <1>2 DEF Inputs, Targets
<1>6. TargetsSame'
  BY <1>2, SameSelf DEF TargetsSame
<1>7. HeaderSigned'
  BY <1>2 DEF HeaderSigned
<1> QED
  BY <1>1, <1>2, <1>4, <1>5, <1>6, <1>7 DEF RunInv, Working, Alive

-----------------------------------------------------------------------------
(* The three writers of the first walk                                     *)

LEMMA TargetIs ==
  ASSUME RunInv, RequestApart, phase = "mods", NEW p \in todo
  PROVE  /\ SrcEntry(p).ino \in UserInos
         /\ Same(Load(src), ctx, SrcEntry(p).ino)
         /\ SrcDinode(p) = Dinode(Load(src), SrcEntry(p).ino)
         /\ Dinode(ctx, SrcEntry(p).ino).size # 0
         /\ IsSeq(host[p].content) /\ EntriesIn(host[p].content)
         /\ \A q \in todo : SrcEntry(q).ino = SrcEntry(p).ino => q = p
<1>1. p \in Targets(src, host) /\ todo \subseteq Targets(src, host)
  BY DEF RunInv, TargetsSame
<1>2. /\ SrcEntry(p).ino \in UserInos /\ SrcDinode(p).size > 0
      /\ \A q \in todo : SrcEntry(q).ino = SrcEntry(p).ino => q = p
  BY <1>1 DEF RequestApart, TargetsApart, SrcEntry, SrcDinode
<1>3. Same(Load(src), ctx, SrcEntry(p).ino)
  BY DEF RunInv, TargetsSame
<1>4. SrcDinode(p) = Dinode(Load(src), SrcEntry(p).ino)
  BY Source DEF RunInv, SrcDinode
<1>5. Dinode(ctx, SrcEntry(p).ino).size # 0
  BY <1>2, <1>3, <1>4 DEF Same
<1>6. Payload(host[p].content)
  <2>1. p \in DOMAIN host /\ host \in HostDirs \cup {<<>>}
    BY DEF RunInv, Inputs
  <2>2. DOMAIN <<>> = {}
    OBVIOUS
  <2> QED
    BY <2>1, <2>2, InputsPlain
<1>7. IsSeq(host[p].content) /\ EntriesIn(host[p].content)
  <2> DEFINE x == host[p].content
  <2>1. IsSeq(x) /\ \A u \in ToSet(x) : ~IsDirent(u)
    BY <1>6 DEF Payload
  <2> HIDE DEF x
  <2>2. \A j \in 1 .. Len(x) : x[j] \in ToSet(x)
    BY <2>1 DEF IsSeq, ToSet
  <2> QED
    BY <2>1, <2>2 DEF EntriesIn, x
<1> QED
  BY <1>2, <1>3, <1>4, <1>5, <1>7

LEMMA WriterGood ==
  ASSUME RunInv, RequestApart, NEW p \in todo, ModStep(p),
         NEW r, Touched(src, ctx, SrcEntry(p).ino, r), Return(r, "mods", todo \ {p})
  PROVE  RunInv'
<1> DEFINE i == SrcEntry(p).ino
<1>1. phase = "mods" /\ UNCHANGED <<src, inputs>> /\ line' = line /\ "mods" \in Working
  BY DEF ModStep, Working
<1>2. SoundImage(src) /\ Good(src, ctx)
  BY <1>1, WorkingGood
<1>3. i \in UserInos
  BY <1>1, TargetIs
<1>4. GoodResult(src, r)
  BY <1>2, <1>3, TouchedGood
<1>5. ASSUME r.ok PROVE TargetsSame'
  <2>1. todo' = todo \ {p} /\ ctx' = r.c /\ src' = src /\ host' = host
    BY <1>1, <1>5 DEF Return, inputs
  <2>2. todo \subseteq Targets(src, host)
    BY <1>1 DEF RunInv, TargetsSame
  <2>3. ASSUME NEW q \in todo \ {p} PROVE Same(Load(src), ctx', SrcEntry(q).ino)
    <3> DEFINE j == SrcEntry(q).ino
    <3>1. j \in UserInos /\ Same(Load(src), ctx, j) /\ j # i
      BY <1>1, TargetIs
    <3>2. j \in Inos
      BY <3>1, UserIno
    <3>3. Same(ctx, ctx', j)
      BY <1>5, <2>1, <3>1, <3>2 DEF Touched
    <3>4. IsDinode(Dinode(Load(src), j))
      BY <1>2, <3>2, Source, DinodeShape
    <3> QED
      BY <3>1, <3>3, <3>4, SameTwice
  <2>4. \A q : SrcEntry(q)' = SrcEntry(q)
    BY <2>1 DEF SrcEntry
  <2> QED
    BY <2>1, <2>2, <2>3, <2>4 DEF TargetsSame
<1> HIDE DEF i
<1>6. todo \ {p} \subseteq todo
  OBVIOUS
<1> QED
  BY <1>1, <1>4, <1>5, <1>6, ReturnedGood

LEMMA ModKeeps ==
  ASSUME RunInv, RequestApart, NEW p \in todo, GrowMod(p) \/ ShrinkMod(p) \/ PatchMod(p)
  PROVE  RunInv'
<1> DEFINE i == SrcEntry(p).ino
           x == host[p].content
<1>1. ModStep(p) /\ phase = "mods"
  BY DEF GrowMod, ShrinkMod, PatchMod, ModStep
<1>2. /\ i \in UserInos /\ Same(Load(src), ctx, i) /\ Dinode(ctx, i).size # 0
      /\ IsSeq(x) /\ EntriesIn(x)
  BY <1>1, TargetIs
<1>3. i \in Inos /\ i # 0
  BY <1>2, UserIno
<1>4. SoundImage(src) /\ Sound(src, ctx)
  BY <1>1, WorkingGood DEF Good, Working
<1>5. CASE GrowMod(p)
  <2>1. Return(GrowFile(ctx, src, i, x), "mods", todo \ {p})
    BY <1>5 DEF GrowMod
  <2>2. Touched(src, ctx, i, GrowFile(ctx, src, i, x))
    BY <1>2, <1>3, <1>4, GrowFileDone
  <2> QED
    BY <1>1, <2>1, <2>2, WriterGood
<1>6. CASE ShrinkMod(p)
  <2>1. Return(ShrinkFile(ctx, src, i, x), "mods", todo \ {p})
    BY <1>6 DEF ShrinkMod
  <2>2. Touched(src, ctx, i, ShrinkFile(ctx, src, i, x))
    BY <1>2, <1>3, <1>4, ShrinkFileDone
  <2> QED
    BY <1>1, <2>1, <2>2, WriterGood
<1>7. CASE PatchMod(p)
  <2>1. Return(PatchFile(ctx, src, i, x), "mods", todo \ {p})
    BY <1>7 DEF PatchMod
  <2>2. Touched(src, ctx, i, PatchFile(ctx, src, i, x))
    BY <1>2, <1>3, <1>4, PatchFileDone
  <2> QED
    BY <1>1, <2>1, <2>2, WriterGood
<1> QED
  BY <1>5, <1>6, <1>7

-----------------------------------------------------------------------------
(* The steps that leave the context alone                                  *)

LEMMA QuietKeeps ==
  ASSUME RunInv, phase \in Working, phase' \in Working,
         UNCHANGED <<src, ctx, host, manifest>>,
         Inputs', TargetsSame'
  PROVE  RunInv'
<1>1. SoundImage(src) /\ Good(src, ctx')
  BY WorkingGood
<1> QED
  BY <1>1, StillGood

LEMMA KeepKeeps ==
  ASSUME RunInv, NEW p \in todo, KeepMod(p)
  PROVE  RunInv'
<1>1. /\ phase = "mods" /\ phase' = "mods" /\ todo' \subseteq todo
      /\ UNCHANGED <<src, ctx, host, manifest>> /\ line' \in {line, line + 1}
  BY DEF KeepMod, ModStep, inputs
<1>2. Inputs'
  BY <1>1 DEF RunInv, Inputs
<1>3. \A q : SrcEntry(q)' = SrcEntry(q)
  BY <1>1 DEF SrcEntry
<1>4. TargetsSame'
  BY <1>1, <1>3 DEF RunInv, TargetsSame
<1> QED
  BY <1>1, <1>2, <1>4, QuietKeeps DEF Working

LEMMA EndModsKeeps ==
  ASSUME RunInv, EndMods
  PROVE  RunInv'
<1>1. /\ phase = "mods" /\ phase' = "removes" /\ todo' = todo
      /\ UNCHANGED <<src, ctx, host, manifest>> /\ line' \in {line, line + 1}
  BY DEF EndMods, inputs
<1>2. Inputs' /\ TargetsSame'
  BY <1>1 DEF RunInv, Inputs, TargetsSame
<1> QED
  BY <1>1, <1>2, QuietKeeps DEF Working

LEMMA RemoveAbsentKeeps ==
  ASSUME RunInv, RemoveAbsent
  PROVE  RunInv'
<1>1. /\ phase = "removes" /\ phase' = "removes" /\ todo' = todo
      /\ UNCHANGED <<src, ctx, host, manifest>> /\ line' \in {line, line + 1}
  BY DEF RemoveAbsent, inputs
<1>2. Inputs' /\ TargetsSame'
  BY <1>1 DEF RunInv, Inputs, TargetsSame
<1> QED
  BY <1>1, <1>2, QuietKeeps DEF Working

LEMMA EndRemovesKeeps ==
  ASSUME RunInv, EndRemoves
  PROVE  RunInv'
<1>1. /\ phase = "removes" /\ phase' = "adds" /\ todo' \subseteq DOMAIN host
      /\ UNCHANGED <<src, ctx, host, manifest>> /\ line' \in {line, line + 1}
  BY DEF EndRemoves, inputs
<1>2. Inputs' /\ TargetsSame'
  BY <1>1 DEF RunInv, Inputs, TargetsSame
<1> QED
  BY <1>1, <1>2, QuietKeeps DEF Working

LEMMA SkipOrphanKeeps ==
  ASSUME RunInv, NEW p \in todo, SkipOrphan(p)
  PROVE  RunInv'
<1>1. /\ phase = "adds" /\ phase' = "adds" /\ todo' \subseteq todo
      /\ UNCHANGED <<src, ctx, host, manifest>> /\ line' \in {line, line + 1}
  BY DEF SkipOrphan, AddStep, inputs
<1>2. Inputs' /\ TargetsSame'
  BY <1>1 DEF RunInv, Inputs, TargetsSame
<1> QED
  BY <1>1, <1>2, QuietKeeps DEF Working

-----------------------------------------------------------------------------
(* Removing and adding                                                     *)

LEMMA RemoveLineKeeps ==
  ASSUME RunInv, RemoveLine
  PROVE  RunInv'
<1> DEFINE p == manifest[line]
           r == RemovePath(ctx, p)
<1>1. /\ phase = "removes" /\ line <= Len(manifest) /\ Return(r, "removes", todo)
      /\ UNCHANGED <<src, inputs>> /\ line' = line + 1
  BY DEF RemoveLine
<1>2. IsSeq(p)
  <2>1. manifest \in Manifests \cup {<<>>} /\ line \in Nat \ {0}
    BY DEF RunInv, Inputs
  <2>2. manifest \in Manifests
    BY <1>1, <2>1
  <2>3. IsSeq(manifest) /\ \A n \in DOMAIN manifest : IsSeq(manifest[n])
    BY <2>2, InputsPlain
  <2>4. line \in DOMAIN manifest
    BY <1>1, <2>1, <2>3 DEF IsSeq
  <2> QED
    BY <2>3, <2>4
<1>3. SoundImage(src) /\ Good(src, ctx)
  BY <1>1, WorkingGood DEF Working
<1>4. GoodResult(src, r)
  BY <1>2, <1>3, RemovePathGood
<1>5. r.ok => TargetsSame'
  BY <1>1 DEF Return, TargetsSame
<1> HIDE DEF r
<1> QED
  BY <1>1, <1>4, <1>5, ReturnedGood DEF Working

LEMMA AddKeeps ==
  ASSUME RunInv, NEW p \in todo, AddNewFile(p) \/ AddNewDir(p)
  PROVE  RunInv'
<1> DEFINE i == Parent(p).ino
           f == AddFile(ctx, i, Last(p), host[p].content)
           d == AddDir(ctx, i, Last(p))
<1>1. phase = "adds" /\ Found(Parent(p)) /\ UNCHANGED <<src, inputs>> /\ line' = line
  BY DEF AddNewFile, AddNewDir, AddStep
<1>2. SoundImage(src) /\ Good(src, ctx)
  BY <1>1, WorkingGood DEF Working
<1>3. IsSeq(p) /\ p # <<>> /\ Payload(host[p].content)
  <2>1. p \in DOMAIN host /\ host \in HostDirs \cup {<<>>}
    BY DEF RunInv, Inputs
  <2>2. DOMAIN <<>> = {}
    OBVIOUS
  <2> QED
    BY <2>1, <2>2, InputsPlain
<1>4. i \in UserInos
  <2>1. Shape(ctx) /\ EntriesSound(ctx)
    BY <1>2 DEF Good, Sound
  <2>2. Len(p) - 1 \in Nat /\ DOMAIN Front(p) = 1 .. (Len(p) - 1)
    BY <1>3, FrontIs
  <2>3. Leads(Parent(p))
    BY <2>1, <2>2, PathLeads DEF Parent
  <2> QED
    BY <1>1, <2>3 DEF Leads, Found
<1>5. "adds" \in Working /\ todo \ {p} \subseteq todo
  BY DEF Working
<1>6. CASE AddNewFile(p)
  <2>1. Return(f, "adds", todo \ {p})
    BY <1>6 DEF AddNewFile
  <2>2. GoodResult(src, f)
    BY <1>2, <1>3, <1>4, AddFileGood
  <2>3. f.ok => TargetsSame'
    BY <2>1 DEF Return, TargetsSame
  <2> HIDE DEF f
  <2> QED
    BY <1>1, <1>5, <2>1, <2>2, <2>3, ReturnedGood
<1>7. CASE AddNewDir(p)
  <2>1. Return(d, "adds", todo \ {p})
    BY <1>7 DEF AddNewDir
  <2>2. GoodResult(src, d)
    BY <1>2, <1>4, AddDirGood
  <2>3. d.ok => TargetsSame'
    BY <2>1 DEF Return, TargetsSame
  <2> HIDE DEF d
  <2> QED
    BY <1>1, <1>5, <2>1, <2>2, <2>3, ReturnedGood
<1> QED
  BY <1>6, <1>7

-----------------------------------------------------------------------------
(* Writing the metadata back                                               *)

Meta(v) == <<<<"m", v>>>>

(* Metadata file i holds v: it is as plain as in a sound image, and its    *)
(* single unit is v.                                                       *)
Holds(c, i, v) ==
  /\ Dinode(c, i).mode # "none" /\ ~Dinode(c, i).comp /\ Dinode(c, i).size = 1
  /\ ReadContent(c.out, Dinode(c, i))[1][2] = v

LEMMA SysIno ==
  ASSUME NEW i \in SysInos
  PROVE  i \in Inos /\ i # 0
BY Sizes DEF SysInos, Inos

LEMMA HoldsAll ==
  ASSUME NEW c, Holds(c, BitmapIno, c.bitmap), Holds(c, BatIno, c.bat),
         Holds(c, InoBitmapIno, c.inob)
  PROVE  MetaStored(c) /\ MetaSound(c)
BY DEF Holds, MetaStored, MetaSound, SysInos

LEMMA StillHolds ==
  ASSUME NEW c, NEW d, NEW i, IsDinode(Dinode(c, i)), Same(c, d, i), NEW v, Holds(c, i, v)
  PROVE  Holds(d, i, v)
<1>1. Dinode(d, i) = Dinode(c, i)
  BY DEF Same
<1>2. ReadContent(d.out, Dinode(d, i)) = ReadContent(c.out, Dinode(c, i))
  BY SameOwn
<1> QED
  BY <1>1, <1>2 DEF Holds

(* What the source holds in its metadata files is what Load reads.         *)
LEMMA SourceHolds ==
  ASSUME NEW s, SoundImage(s)
  PROVE  /\ Holds(Load(s), BitmapIno, Load(s).bitmap)
         /\ Holds(Load(s), BatIno, Load(s).bat)
         /\ Holds(Load(s), InoBitmapIno, Load(s).inob)
<1>1. \A i \in SysInos : Holds(Load(s), i, MetaFile(s, i))
  <2>1. /\ MetaSound(Load(s)) /\ Load(s).out = s
        /\ \A i : Dinode(Load(s), i) = DinodeAt(s, RootOf(s), i)
    BY Source
  <2> QED
    BY <2>1 DEF MetaSound, Holds, MetaFile
<1>2. /\ Load(s).bitmap = MetaFile(s, BitmapIno) /\ Load(s).bat = MetaFile(s, BatIno)
      /\ Load(s).inob = MetaFile(s, InoBitmapIno)
  BY DEF Load
<1> QED
  BY <1>1, <1>2 DEF SysInos

LEMMA OneUnit ==
  ASSUME NEW v
  PROVE  /\ IsSeq(Meta(v)) /\ EntriesIn(Meta(v)) /\ Len(Meta(v)) = 1
         /\ Meta(v)[1][2] = v /\ CeilDiv(1, BBS) <= MaxSingle
<1> DEFINE u == <<"m", v>>
           x == <<u>>
<1>1. u[1] = "m" /\ u[2] = v
  OBVIOUS
<1>2. ~IsDirent(u)
  BY <1>1 DEF IsDirent
<1> HIDE DEF u
<1>3. Len(x) = 1 /\ x[1] = u /\ x \in Seq({u}) /\ DOMAIN x = {1}
  OBVIOUS
<1>4. x = Meta(v)
  BY DEF Meta, u
<1> HIDE DEF x
<1>5. ToSet(x) = {u}
  BY <1>3 DEF ToSet
<1>6. IsSeq(x)
  BY <1>3, <1>5 DEF IsSeq
<1>7. EntriesIn(x)
  BY <1>2, <1>3 DEF EntriesIn
<1>8. CeilDiv(1, BBS) = 1
  <2>1. BBS \in Nat \ {0} /\ 1 + BBS - 1 = BBS
    BY Sizes
  <2>2. BBS \div BBS = 1
    BY <2>1
  <2> QED
    BY <2>1, <2>2 DEF CeilDiv
<1>9. CeilDiv(1, BBS) <= MaxSingle
  BY <1>8, Sizes
<1> QED
  BY <1>1, <1>3, <1>4, <1>6, <1>7, <1>9

(* One metadata file: it holds what it was given, and the others are       *)
(* untouched, in memory as in the image.                                   *)
MetaDone(s, c, i, v, r) ==
  /\ r.ok \in BOOLEAN /\ BackupKept(s, r.c) /\ r.c.out[0] = c.out[0]
  /\ r.ok => /\ Sound(s, r.c)
             /\ \A j \in SysInos : j # i => Same(c, r.c, j)
             /\ r.c.bitmap = c.bitmap /\ r.c.bat = c.bat /\ r.c.inob = c.inob
             /\ Holds(r.c, i, v)

LEMMA MetaPut ==
  ASSUME NEW s, SoundImage(s), NEW c, Sound(s, c), NEW i \in SysInos,
         Same(Load(s), c, i), NEW v
  PROVE  MetaDone(s, c, i, v, PatchFile(c, s, i, Meta(v)))
<1> DEFINE r == PatchFile(c, s, i, Meta(v))
           x == Meta(v)
<1>1. i \in Inos /\ i # 0
  BY SysIno
<1>2. Dinode(c, i).mode # "none" /\ ~Dinode(c, i).comp /\ Dinode(c, i).size = 1
  BY Source DEF Same, MetaSound
<1>3. IsDinode(Dinode(c, i))
  BY <1>1, DinodeShape DEF Sound
<1>4. Dinode(c, i).count = CeilDiv(1, BBS)
  BY <1>2, <1>3 DEF IsDinode
<1>5. IsSeq(x) /\ EntriesIn(x) /\ Len(x) = 1 /\ x[1][2] = v /\ CeilDiv(1, BBS) <= MaxSingle
  BY OneUnit
<1> HIDE DEF x
<1>6. /\ Touched(s, c, i, PatchFile(c, s, i, x))
      /\ PatchFile(c, s, i, x).ok =>
           PatchFile(c, s, i, x).c.bitmap = c.bitmap /\ PatchFile(c, s, i, x).c.bat = c.bat
      /\ Rewrote(s, c, i, Dinode(c, i), x, PatchFile(c, s, i, x))
  <2>1. Len(x) = Dinode(c, i).size /\ Dinode(c, i).size # 0
        /\ Dinode(c, i).count <= MaxSingle /\ IsSeq(x) /\ EntriesIn(x)
    BY <1>2, <1>4, <1>5
  <2>2. LET y == PatchFile(c, s, i, x)
        IN /\ Touched(s, c, i, y)
           /\ y.ok => y.c.bitmap = c.bitmap /\ y.c.bat = c.bat /\ y.c.dirty = c.dirty
           /\ /\ ~Dinode(c, i).comp /\ Len(x) = Dinode(c, i).size
              /\ Dinode(c, i).count <= MaxSingle
              => Rewrote(s, c, i, Dinode(c, i), x, y)
    BY <1>1, <2>1, PatchFileDone
  <2> QED
    BY <1>2, <2>1, <2>2
<1>7. /\ Touched(s, c, i, r) /\ (r.ok => r.c.bitmap = c.bitmap /\ r.c.bat = c.bat)
      /\ Rewrote(s, c, i, Dinode(c, i), x, r)
  BY <1>6 DEF x
<1> HIDE DEF r
<1>8. ASSUME r.ok PROVE Holds(r.c, i, v)
  <2>1. /\ SameFile(Dinode(r.c, i), Dinode(c, i))
        /\ ReadContent(r.c.out, Dinode(r.c, i)) = x
    BY <1>7, <1>8 DEF Rewrote
  <2> QED
    BY <1>2, <1>5, <2>1 DEF Holds, SameFile
<1>9. \A j \in SysInos : j \in Inos
  BY SysIno
<1>10. MetaDone(s, c, i, v, r)
  BY <1>7, <1>8, <1>9 DEF MetaDone, Touched
<1> QED
  BY <1>10 DEF r

Flushed(s, c, r) ==
  /\ r.ok \in BOOLEAN /\ BackupKept(s, r.c) /\ r.c.out[0] = c.out[0]
  /\ r.ok => Sound(s, r.c) /\ MetaStored(r.c) /\ MetaSound(r.c)

LEMMA FlushMetaDone ==
  ASSUME RunInv, phase = "flush"
  PROVE  Flushed(src, ctx, FlushMeta(ctx))
<1> DEFINE s == src
           c == ctx
           r1 == PatchFile(c, s, BitmapIno, Meta(c.bitmap))
           P2 == PatchFile(r1.c, s, BatIno, Meta(r1.c.bat))
           r2 == IF r1.ok THEN P2 ELSE r1
           P3 == PatchFile(r2.c, s, InoBitmapIno, Meta(r2.c.inob))
           r3 == IF r2.ok THEN P3 ELSE r2
<1>1. SoundImage(s) /\ Sound(s, c) /\ \A i \in SysInos : Same(Load(s), c, i)
  BY WorkingGood DEF Good, MetaSame, Working
<1>2. FlushMeta(c) = r3
  BY DEF FlushMeta, Then, Meta
<1>3. /\ BitmapIno \in SysInos /\ BatIno \in SysInos /\ InoBitmapIno \in SysInos
      /\ BitmapIno # BatIno /\ BitmapIno # InoBitmapIno /\ BatIno # InoBitmapIno
  BY SpecialInodes DEF SysInos
<1>4. \A i \in SysInos : IsDinode(Dinode(Load(s), i))
  BY <1>1, SysIno, Source, DinodeShape
<1>5. BackupKept(s, c)
  BY <1>1 DEF Sound
<1> HIDE DEF s, c
<1>6. MetaDone(s, c, BitmapIno, c.bitmap, r1)
  BY <1>1, <1>3, MetaPut
<1> HIDE DEF r1
<1>7. CASE ~r1.ok
  <2>1. r3 = r1
    BY <1>7
  <2>2. Flushed(s, c, r1)
    BY <1>6, <1>7 DEF Flushed, MetaDone
  <2> QED
    BY <1>2, <2>1, <2>2 DEF s, c
<1>8. CASE r1.ok
  <2>1. r2 = P2
    BY <1>8
  <2>2. /\ Sound(s, r1.c) /\ Same(c, r1.c, BatIno) /\ Same(c, r1.c, InoBitmapIno)
        /\ r1.c.bitmap = c.bitmap /\ r1.c.bat = c.bat /\ r1.c.inob = c.inob
        /\ Holds(r1.c, BitmapIno, c.bitmap) /\ r1.c.out[0] = c.out[0]
    BY <1>3, <1>6, <1>8 DEF MetaDone
  <2>3. Same(Load(s), r1.c, BatIno) /\ Same(Load(s), r1.c, InoBitmapIno)
    BY <1>1, <1>3, <1>4, <2>2, SameTwice
  <2>4. MetaDone(s, r1.c, BatIno, r1.c.bat, P2)
    BY <1>1, <1>3, <2>2, <2>3, MetaPut
  <2>5. MetaDone(s, r1.c, BatIno, c.bat, r2)
    BY <2>1, <2>2, <2>4
  <2> HIDE DEF r2, P2
  <2>6. CASE ~r2.ok
    <3>1. r3 = r2
      BY <2>6
    <3>2. Flushed(s, c, r2)
      BY <2>2, <2>5, <2>6 DEF Flushed, MetaDone
    <3> QED
      BY <1>2, <3>1, <3>2 DEF s, c
  <2>7. CASE r2.ok
    <3>1. r3 = P3
      BY <2>7
    <3>2. /\ Sound(s, r2.c) /\ Same(r1.c, r2.c, BitmapIno) /\ Same(r1.c, r2.c, InoBitmapIno)
          /\ r2.c.bitmap = c.bitmap /\ r2.c.bat = c.bat /\ r2.c.inob = c.inob
          /\ Holds(r2.c, BatIno, c.bat) /\ r2.c.out[0] = c.out[0]
      BY <1>3, <2>2, <2>5, <2>7 DEF MetaDone
    <3>3. Same(Load(s), r2.c, InoBitmapIno)
      BY <1>3, <1>4, <2>3, <3>2, SameTwice
    <3>4. \A i \in SysInos : /\ IsDinode(Dinode(r1.c, i)) /\ IsDinode(Dinode(r2.c, i))
      BY <2>2, <3>2, SysIno, DinodeShape DEF Sound
    <3>5. Holds(r2.c, BitmapIno, c.bitmap)
      BY <1>3, <2>2, <3>2, <3>4, StillHolds
    <3>6. MetaDone(s, r2.c, InoBitmapIno, r2.c.inob, P3)
      BY <1>1, <1>3, <3>2, <3>3, MetaPut
    <3>7. MetaDone(s, r2.c, InoBitmapIno, c.inob, r3)
      BY <3>1, <3>2, <3>6
    <3> HIDE DEF r3, P3
    <3>8. ASSUME r3.ok PROVE Sound(s, r3.c) /\ MetaStored(r3.c) /\ MetaSound(r3.c)
      <4>1. /\ Sound(s, r3.c) /\ Same(r2.c, r3.c, BitmapIno) /\ Same(r2.c, r3.c, BatIno)
            /\ r3.c.bitmap = c.bitmap /\ r3.c.bat = c.bat /\ r3.c.inob = c.inob
            /\ Holds(r3.c, InoBitmapIno, r3.c.inob)
        BY <1>3, <3>2, <3>7, <3>8 DEF MetaDone
      <4>2. Holds(r3.c, BitmapIno, r3.c.bitmap) /\ Holds(r3.c, BatIno, r3.c.bat)
        BY <1>3, <3>2, <3>4, <3>5, <4>1, StillHolds
      <4> QED
        BY <4>1, <4>2, HoldsAll
    <3>9. Flushed(s, c, r3)
      BY <3>2, <3>7, <3>8 DEF Flushed, MetaDone
    <3> QED
      BY <1>2, <3>9 DEF s, c
  <2> QED
    BY <2>6, <2>7
<1> QED
  BY <1>7, <1>8

(* To the signing of the header, with everything in memory in the image    *)
LEMMA ToSign ==
  ASSUME RunInv, phase' = "sign", src' = src, Inputs', Sound(src, ctx'),
         ctx'.out[0] = src[0], MetaStored(ctx'), MetaSound(ctx')
  PROVE  RunInv'
<1>1. SoundImage(src) /\ BackupKept(src, ctx') /\ IsHeader(ctx'.out[0])
  BY SourceHeader DEF RunInv, Sound
<1>2. HeaderSigned' /\ TargetsSame' /\ phase' \notin Working
  BY DEF HeaderSigned, TargetsSame, Working
<1> QED
  BY <1>1, <1>2 DEF RunInv, Alive

LEMMA FlushKeeps ==
  ASSUME RunInv, Flush
  PROVE  RunInv'
<1> DEFINE r == FlushMeta(ctx)
<1>1. /\ phase = "flush" /\ Return(r, "sign", todo) /\ src' = src
      /\ host' = host /\ manifest' = manifest /\ line' = line /\ todo' \subseteq todo
  BY DEF Flush, Return, inputs
<1>2. Flushed(src, ctx, r)
  BY <1>1, FlushMetaDone
<1> HIDE DEF r
<1>3. Inputs'
  BY <1>1 DEF RunInv, Inputs
<1>4. ctx.out[0] = src[0] /\ SoundImage(src)
  BY <1>1 DEF RunInv, Working
<1>5. CASE r.ok
  <2>1. phase' = "sign" /\ ctx' = r.c
    BY <1>1, <1>5 DEF Return
  <2> QED
    BY <1>1, <1>2, <1>3, <1>4, <1>5, <2>1, ToSign DEF Flushed
<1>6. CASE ~r.ok
  <2>1. phase' = "failed" /\ ctx' = r.c
    BY <1>1, <1>6 DEF Return
  <2>2. BackupKept(src, ctx') /\ ctx'.out[0] = src[0]
    BY <1>2, <1>4, <2>1 DEF Flushed
  <2> QED
    BY <1>1, <1>3, <1>4, <2>1, <2>2, SourceHeader, GivenUp
<1> QED
  BY <1>5, <1>6

-----------------------------------------------------------------------------
(* The end of a run                                                        *)

LEMMA EndAddsKeeps ==
  ASSUME RunInv, VInv, EndAdds
  PROVE  RunInv'
<1>1. /\ phase = "adds" /\ phase' = (IF ~changed THEN "done" ELSE IF ctx.dirty THEN "flush" ELSE "sign")
      /\ UNCHANGED <<src, ctx, host, manifest, changed>> /\ line' = line /\ todo' = todo
  BY DEF EndAdds, inputs
<1>2. SoundImage(src) /\ Good(src, ctx)
  BY <1>1, WorkingGood DEF Working
<1>3. Inputs'
  BY <1>1 DEF RunInv, Inputs
<1>4. CASE changed /\ ctx.dirty
  <2>1. phase' = "flush"
    BY <1>1, <1>4
  <2>2. TargetsSame'
    BY <2>1 DEF TargetsSame
  <2> QED
    BY <1>1, <1>3, <2>1, <2>2, QuietKeeps DEF Working
<1>5. CASE changed /\ ~ctx.dirty
  <2>1. phase' = "sign"
    BY <1>1, <1>5
  <2>2. \A i \in SysInos : IsDinode(Dinode(Load(src), i)) /\ Same(Load(src), ctx, i)
    BY <1>2, Source, DinodeShape, SysIno DEF Good, MetaSame
  <2>3. ctx.bitmap = Load(src).bitmap /\ ctx.bat = Load(src).bat /\ ctx.inob = Load(src).inob
    BY <1>2, <1>5 DEF Good, MetaSame
  <2>4. BitmapIno \in SysInos /\ BatIno \in SysInos /\ InoBitmapIno \in SysInos
    BY DEF SysInos
  <2>5. /\ Holds(Load(src), BitmapIno, ctx.bitmap) /\ Holds(Load(src), BatIno, ctx.bat)
        /\ Holds(Load(src), InoBitmapIno, ctx.inob)
    BY <1>2, <2>3, SourceHolds
  <2>6. /\ Holds(ctx, BitmapIno, ctx.bitmap) /\ Holds(ctx, BatIno, ctx.bat)
        /\ Holds(ctx, InoBitmapIno, ctx.inob)
    BY <2>2, <2>4, <2>5, StillHolds
  <2>7. MetaStored(ctx) /\ MetaSound(ctx)
    BY <2>6, HoldsAll
  <2>8. Sound(src, ctx) /\ ctx.out[0] = src[0]
    BY <1>2 DEF Good
  <2>9. /\ Sound(src, ctx') /\ ctx'.out[0] = src[0] /\ MetaStored(ctx') /\ MetaSound(ctx')
        /\ src' = src
    BY <1>1, <2>7, <2>8
  <2> QED
    BY <1>3, <2>1, <2>9, ToSign
<1>6. CASE ~changed
  <2>1. phase' = "done" /\ ctx' = ctx /\ src' = src /\ ~changed'
    BY <1>1, <1>6
  <2>2. ctx = Load(src)
    BY <1>1, <1>6 DEF VInv
  <2>3. ctx.out = src
    BY <2>2 DEF Load
  <2>4. Load(src) = [Load(src) EXCEPT !.dirty = FALSE]
    <3> DEFINE x == Load(src)
    <3>1. /\ x = [out |-> x.out, root |-> x.root, bitmap |-> x.bitmap, bat |-> x.bat,
                  inob |-> x.inob, dirty |-> x.dirty]
          /\ x.dirty = FALSE
      BY DEF Load
    <3> HIDE DEF x
    <3>2. [x EXCEPT !.dirty = FALSE]
            = [out |-> x.out, root |-> x.root, bitmap |-> x.bitmap, bat |-> x.bat,
               inob |-> x.inob, dirty |-> FALSE]
      BY <3>1
    <3> QED
      BY <3>1, <3>2 DEF x
  <2>5. SoundImage(ctx'.out) /\ Load(ctx'.out) = [ctx' EXCEPT !.dirty = FALSE]
    BY <1>2, <2>1, <2>2, <2>3, <2>4
  <2>6. Sound(src, ctx') /\ BackupKept(src, ctx') /\ IsHeader(ctx'.out[0])
    BY <1>2, <2>1, SourceHeader DEF Good, Sound
  <2>7. HeaderSigned' /\ TargetsSame' /\ phase' \notin Working /\ phase' # "sign"
    BY <2>1 DEF HeaderSigned, TargetsSame, Working
  <2> QED
    BY <1>2, <1>3, <2>1, <2>5, <2>6, <2>7 DEF RunInv, Alive
<1> QED
  BY <1>1, <1>4, <1>5, <1>6 DEF VInv

(* The header written over block 0                                         *)
Headed(c, h) == [c EXCEPT !.out[0] = h]

LEMMA HeadedAlike ==
  ASSUME NEW c, Shape(c), LinksSound(c), NEW h
  PROVE  /\ Alike(c, Headed(c, h)) /\ Headed(c, h).out[0] = h
         /\ Headed(c, h).inob = c.inob /\ Headed(c, h).dirty = c.dirty
         /\ Headed(c, h).root = c.root
<1> DEFINE d == Headed(c, h)
           z == [c.out EXCEPT ![0] = h]
<1>0. d = [c EXCEPT !.out = z]
  BY DEF Headed
<1>1. /\ c = [out |-> c.out, root |-> c.root, bitmap |-> c.bitmap, bat |-> c.bat,
              inob |-> c.inob, dirty |-> c.dirty]
      /\ c.out = [b \in Blocks |-> c.out[b]]
  BY DEF Shape
<1>2. 0 \in Blocks
  BY Sizes DEF Blocks
<1>3. /\ z = [b \in Blocks |-> z[b]] /\ z[0] = h
      /\ \A b \in Blocks \ {0} : z[b] = c.out[b]
  BY <1>1, <1>2
<1> HIDE DEF d, z
<1>4. d = [out |-> z, root |-> c.root, bitmap |-> c.bitmap, bat |-> c.bat,
           inob |-> c.inob, dirty |-> c.dirty]
  BY <1>0, <1>1
<1>5. /\ d.out = z /\ d.root = c.root /\ d.bitmap = c.bitmap /\ d.bat = c.bat
      /\ d.inob = c.inob /\ d.dirty = c.dirty
  BY <1>4
<1>6. d = [out |-> d.out, root |-> d.root, bitmap |-> d.bitmap, bat |-> d.bat,
           inob |-> d.inob, dirty |-> d.dirty]
  BY <1>4, <1>5
<1>7. \A t \in DinodeBlocks : IsTable(d.out[d.root[t].no])
  <2>1. ASSUME NEW t \in DinodeBlocks PROVE IsTable(d.out[d.root[t].no])
    <3>1. IsTable(c.out[c.root[t].no])
      BY DEF Shape
    <3>2. c.root[t].no \in Blocks \ {0}
      BY TableSound DEF TablesPlaced
    <3> QED
      BY <3>1, <3>2, <1>3, <1>5
  <2> QED
    BY <2>1
<1>8. Shape(d)
  BY <1>3, <1>5, <1>6, <1>7 DEF Shape
<1>9. Alike(c, d)
  BY <1>3, <1>5, <1>8 DEF Alike
<1> QED
  BY <1>3, <1>5, <1>9 DEF d

LEMMA Cleaned ==
  ASSUME NEW out, NEW root, NEW bitmap, NEW bat, NEW inob, NEW x, NEW y, NEW d,
         d = [out |-> out, root |-> root, bitmap |-> bitmap, bat |-> bat,
              inob |-> inob, dirty |-> x],
         NEW e, e = [d EXCEPT !.dirty = y]
  PROVE  e = [out |-> out, root |-> root, bitmap |-> bitmap, bat |-> bat,
              inob |-> inob, dirty |-> y]
OBVIOUS

LEMMA SignedRest ==
  ASSUME NEW sig, NEW auth, NEW x, NEW y, NEW rest,
         rest = [sig |-> sig, auth |-> auth, authMagic |-> TRUE],
         NEW e, e = [rest EXCEPT !.sig = x, !.auth = y]
  PROVE  e = [sig |-> x, auth |-> y, authMagic |-> TRUE]
OBVIOUS

(* With the header of its super root in place, an image whose metadata     *)
(* files hold what is in memory loads as what is in memory.                *)
LEMMA HeadedLoads ==
  ASSUME NEW c, Shape(c), LinksSound(c), EntriesSound(c), MetaStored(c), MetaSound(c),
         NEW hash, NEW rest, HeaderShape(Header(c.root, hash, rest))
  PROVE  LET d == Headed(c, Header(c.root, hash, rest))
         IN SoundImage(d.out) /\ Load(d.out) = [d EXCEPT !.dirty = FALSE]
<1> DEFINE h == Header(c.root, hash, rest)
           d == Headed(c, h)
           e == Load(d.out)
<1>0. h[2].root = c.root
  BY DEF Header
<1>1. HeaderShape(h)
  OBVIOUS
<1> HIDE DEF h
<1>2. Alike(c, d) /\ d.out[0] = h /\ d.inob = c.inob /\ d.root = c.root
  BY HeadedAlike
<1> HIDE DEF d
<1>3. Shape(d) /\ LinksSound(d) /\ EntriesSound(d)
  BY <1>2, AlikeSound
<1>4. RootOf(d.out) = d.root
  BY <1>0, <1>2 DEF RootOf
<1>5. ASSUME NEW i \in SysInos
      PROVE  /\ MetaFile(d.out, i) = ReadContent(c.out, Dinode(c, i))[1][2]
             /\ Dinode(d, i) = Dinode(c, i)
  <2>1. /\ Dinode(d, i) = Dinode(c, i)
        /\ ReadContent(d.out, Dinode(d, i)) = ReadContent(c.out, Dinode(c, i))
    BY <1>2, SysIno, AlikeFiles
  <2>2. DinodeAt(d.out, RootOf(d.out), i) = Dinode(d, i)
    BY <1>4 DEF Dinode
  <2> QED
    BY <2>1, <2>2 DEF MetaFile
<1>6. /\ MetaFile(d.out, BitmapIno) = c.bitmap /\ MetaFile(d.out, BatIno) = c.bat
      /\ MetaFile(d.out, InoBitmapIno) = c.inob
  BY <1>5 DEF MetaStored, SysInos
<1>7. e = [out |-> d.out, root |-> d.root, bitmap |-> d.bitmap, bat |-> d.bat,
           inob |-> d.inob, dirty |-> FALSE]
  BY <1>2, <1>4, <1>6 DEF Load, Alike
<1>8. d = [out |-> d.out, root |-> d.root, bitmap |-> d.bitmap, bat |-> d.bat,
           inob |-> d.inob, dirty |-> d.dirty]
  BY <1>3 DEF Shape
<1>9. [d EXCEPT !.dirty = FALSE]
        = [out |-> d.out, root |-> d.root, bitmap |-> d.bitmap, bat |-> d.bat,
           inob |-> d.inob, dirty |-> FALSE]
  <2> DEFINE z == [d EXCEPT !.dirty = FALSE]
  <2>1. z = [d EXCEPT !.dirty = FALSE]
    OBVIOUS
  <2> HIDE DEF z
  <2>2. z = [out |-> d.out, root |-> d.root, bitmap |-> d.bitmap, bat |-> d.bat,
             inob |-> d.inob, dirty |-> FALSE]
    BY <1>8, <2>1, Cleaned
  <2> QED
    BY <2>2 DEF z
<1>10. e = [d EXCEPT !.dirty = FALSE]
  BY <1>7, <1>9
<1> HIDE DEF e
<1>11. /\ e.out = d.out /\ e.root = d.root /\ e.bitmap = d.bitmap /\ e.bat = d.bat
       /\ e.inob = d.inob /\ e.dirty = FALSE
  BY <1>7
<1>12. e = [out |-> e.out, root |-> e.root, bitmap |-> e.bitmap, bat |-> e.bat,
            inob |-> e.inob, dirty |-> e.dirty]
  BY <1>7, <1>11
<1>13. Shape(e)
  BY <1>3, <1>11, <1>12 DEF Shape
<1>14. Alike(d, e)
  BY <1>11, <1>13 DEF Alike
<1>15. Shape(e) /\ LinksSound(e) /\ EntriesSound(e)
  BY <1>3, <1>14, AlikeSound
<1>16. MetaSound(e)
  <2>1. \A i \in SysInos : Dinode(e, i) = Dinode(c, i)
    BY <1>3, <1>5, <1>14, SysIno, AlikeFiles
  <2> QED
    BY <2>1 DEF MetaSound
<1>17. SoundImage(d.out)
  BY <1>1, <1>2, <1>15, <1>16 DEF SoundImage, e
<1> QED
  BY <1>10, <1>17 DEF d, e, h

LEMMA SignKeeps ==
  ASSUME RunInv, SignHeader
  PROVE  RunInv'
<1> DEFINE hash == HeaderHash(ctx.root)
           rest == IF IsHeader(ctx.out[0]) THEN ctx.out[0][2].rest ELSE NoRest
           sig == IF NeedSig THEN hash ELSE rest.sig
           auth == IF rest.authMagic /\ "auth" \in keys THEN hash ELSE rest.auth
           signedRest == [rest EXCEPT !.sig = sig, !.auth = auth]
           unsigned == Header(ctx.root, hash, rest)
           signed == Header(ctx.root, hash, signedRest)
<1>1. /\ phase = "sign" /\ src' = src /\ host' = host /\ manifest' = manifest
      /\ line' = line /\ todo' = todo /\ keys' = keys
      /\ \/ phase' = "failed" /\ ctx' = Headed(ctx, unsigned)
         \/ phase' = "done" /\ ctx' = Headed(ctx, signed)
  BY DEF SignHeader, inputs, Headed
<1>2. /\ SoundImage(src) /\ Sound(src, ctx) /\ ctx.out[0] = src[0]
      /\ MetaStored(ctx) /\ MetaSound(ctx)
  BY <1>1 DEF RunInv, Alive
<1>3. Shape(ctx) /\ LinksSound(ctx) /\ EntriesSound(ctx)
  BY <1>2 DEF Sound
<1>4. IsHeader(ctx.out[0]) /\ HeaderShape(ctx.out[0])
  BY <1>2, Source, SourceHeader
<1>5. rest = [sig |-> rest.sig, auth |-> rest.auth, authMagic |-> TRUE]
  BY <1>4 DEF HeaderShape
<1> HIDE DEF rest, hash
<1>6. rest.authMagic = TRUE
  BY <1>5
<1>7. signedRest = [sig |-> sig, auth |-> auth, authMagic |-> TRUE]
  <2>1. signedRest = [rest EXCEPT !.sig = sig, !.auth = auth]
    OBVIOUS
  <2> HIDE DEF signedRest, sig, auth
  <2> DEFINE a == rest.sig
             b == rest.auth
  <2>2. rest = [sig |-> a, auth |-> b, authMagic |-> TRUE]
    BY <1>5
  <2> HIDE DEF a, b
  <2> QED
    BY <2>1, <2>2, SignedRest
<1>8. /\ NeedSig => sig = hash
      /\ "auth" \in keys => auth = hash
  BY <1>6
<1> HIDE DEF sig, auth, signedRest
<1>9. signedRest.sig = sig /\ signedRest.auth = auth /\ signedRest.authMagic = TRUE
  BY <1>7
<1>10. signed[2].root = ctx.root /\ signed[2].hash = hash /\ signed[2].rest = signedRest
  BY DEF Header
<1>11. HeaderShape(signed) /\ IsHeader(signed) /\ IsHeader(unsigned)
  BY <1>7, <1>9, <1>10 DEF HeaderShape, Header, IsHeader
<1>12. Inputs' /\ TargetsSame'
  BY <1>1 DEF RunInv, Inputs, TargetsSame
<1>13. CASE phase' = "failed" /\ ctx' = Headed(ctx, unsigned)
  <2> HIDE DEF unsigned
  <2>1. Alike(ctx, ctx') /\ ctx'.out[0] = unsigned
    BY <1>3, <1>13, HeadedAlike
  <2>2. Sound(src, ctx')
    BY <1>2, <2>1, AlikeKeeps
  <2>3. BackupKept(src, ctx') /\ IsHeader(ctx'.out[0])
    BY <1>11, <2>1, <2>2 DEF Sound
  <2> QED
    BY <1>1, <1>12, <1>13, <2>3, GivenUp
<1>14. CASE phase' = "done" /\ ctx' = Headed(ctx, signed)
  <2>1. SoundImage(ctx'.out) /\ Load(ctx'.out) = [ctx' EXCEPT !.dirty = FALSE]
    BY <1>2, <1>3, <1>11, <1>14, HeadedLoads
  <2> HIDE DEF signed
  <2>2. Alike(ctx, ctx') /\ ctx'.out[0] = signed
    BY <1>3, <1>14, HeadedAlike
  <2>3. Sound(src, ctx')
    BY <1>2, <2>2, AlikeKeeps
  <2>4. BackupKept(src, ctx') /\ IsHeader(ctx'.out[0])
    BY <1>11, <2>2, <2>3 DEF Sound
  <2>5. HeaderSigned'
    <3>1. signed[2].hash = HeaderHash(signed[2].root)
      BY <1>10 DEF hash
    <3>2. SdKeyVer > 2 => signed[2].rest.sig = signed[2].hash
      BY <1>8, <1>9, <1>10 DEF NeedSig
    <3>3. "auth" \in keys' => signed[2].rest.auth = signed[2].hash
      BY <1>1, <1>8, <1>9, <1>10
    <3> QED
      BY <2>2, <3>1, <3>2, <3>3 DEF HeaderSigned
  <2>6. phase' \notin Working /\ phase' # "sign"
    BY <1>14 DEF Working
  <2> QED
    BY <1>1, <1>2, <1>12, <1>14, <2>1, <2>3, <2>4, <2>5, <2>6 DEF RunInv, Alive
<1> QED
  BY <1>1, <1>13, <1>14

-----------------------------------------------------------------------------
LEMMA RunStep ==
  VInv /\ RunInv /\ RequestApart /\ RequestApart' /\ [Next]_vars => RunInv'
<1> SUFFICES ASSUME VInv, RunInv, RequestApart, RequestApart', [Next]_vars PROVE RunInv'
  OBVIOUS
<1>1. ASSUME NEW h \in HostDirs, NEW m \in Manifests, NEW k \in KeySets, StartRun(h, m, k)
      PROVE  RunInv'
  BY <1>1, StartRunKeeps
<1>2. ASSUME NEW p \in todo, GrowMod(p) \/ ShrinkMod(p) \/ PatchMod(p) PROVE RunInv'
  BY <1>2, ModKeeps
<1>3. ASSUME NEW p \in todo, KeepMod(p) PROVE RunInv'
  BY <1>3, KeepKeeps
<1>4. CASE EndMods
  BY <1>4, EndModsKeeps
<1>5. CASE RemoveLine
  BY <1>5, RemoveLineKeeps
<1>6. CASE RemoveAbsent
  BY <1>6, RemoveAbsentKeeps
<1>7. CASE EndRemoves
  BY <1>7, EndRemovesKeeps
<1>8. ASSUME NEW p \in todo, AddNewFile(p) \/ AddNewDir(p) PROVE RunInv'
  BY <1>8, AddKeeps
<1>9. ASSUME NEW p \in todo, SkipOrphan(p) PROVE RunInv'
  BY <1>9, SkipOrphanKeeps
<1>10. CASE EndAdds
  BY <1>10, EndAddsKeeps
<1>11. CASE Flush
  BY <1>11, FlushKeeps
<1>12. CASE SignHeader
  BY <1>12, SignKeeps
<1>13. CASE UNCHANGED vars
  <2>1. /\ src' = src /\ ctx' = ctx /\ phase' = phase /\ host' = host
        /\ manifest' = manifest /\ keys' = keys /\ todo' = todo /\ line' = line
        /\ changed' = changed
    BY <1>13 DEF vars, inputs
  <2>2. Inputs' /\ HeaderSigned'
    BY <2>1 DEF RunInv, Inputs, HeaderSigned
  <2>3. \A q : SrcEntry(q)' = SrcEntry(q)
    BY <2>1 DEF SrcEntry
  <2>4. TargetsSame'
    BY <2>1, <2>3 DEF RunInv, TargetsSame
  <2> QED
    BY <2>1, <2>2, <2>4 DEF RunInv, Alive
<1> QED
  BY <1>1, <1>2, <1>3, <1>4, <1>5, <1>6, <1>7, <1>8, <1>9, <1>10, <1>11, <1>12, <1>13
     DEF Next, Finished

-----------------------------------------------------------------------------
(* As long as no request has an empty file to replace, or two names for    *)
(* one file (main.c:2274: size and blocks are those found in the source),  *)
(* a run on a sound image leaves a sound context after every handler, and  *)
(* a sound image when it is done: a run may be made on it again.           *)
THEOREM SoundRuns == Spec /\ []RequestApart => []SoundRun
<1>1. VInv /\ RunInv /\ RequestApart /\ RequestApart' /\ [Next]_vars => RunInv'
  BY RunStep
<1>2. RequestApart /\ RunInv => SoundRun
  BY DEF SoundRun
<1> QED
  BY VerbatimInit, VerbatimStep, RunInit, <1>1, <1>2, PTL DEF Spec

(* The properties look at the image through other names *)
LEMMA OutIs ==
  /\ OutLinks = AllLinks(ctx) /\ \A i : OutDinode(i) = Dinode(ctx, i)
  /\ BackupBlocks = Backup(src) /\ Lost = LostIn(src, ctx)
BY DEF OutLinks, AllLinks, OutDinode, Dinode, BackupBlocks, Backup, Lost, LostIn

LEMMA LinksRight ==
  ASSUME RunInv, Alive
  PROVE  \A l \in OutLinks : LinkSound(ctx, l)
BY OutIs DEF RunInv, Sound, LinksSound

-----------------------------------------------------------------------------
(* The inductive invariant says what the properties say.                   *)
LEMMA RunMerkle == RunInv => MerkleIntact
  BY LinksRight DEF MerkleIntact, LinkSound

LEMMA RunBat == RunInv => BatNamesOwner
<1> SUFFICES ASSUME RunInv, Alive, NEW l \in OutLinks
    PROVE  /\ l.kind = "data" /\ l.slot < MaxSingle =>
                ctx.bat[l.ptr.no] = IF l.slot < NDirect THEN l.ino
                                    ELSE IndFlag + OutDinode(l.ino).ind.no
           /\ l.kind = "ind" => ctx.bat[l.ptr.no] = l.ino
  BY DEF BatNamesOwner
<1>1. BatRight(ctx, l)
  BY LinksRight DEF LinkSound
<1> QED
  BY <1>1, OutIs DEF BatRight

LEMMA RunPurpose == RunInv => OnePurpose
<1> SUFFICES ASSUME RunInv PROVE OnePurpose
  OBVIOUS
<1>1. ASSUME Alive, NEW b \in Blocks
      PROVE  Cardinality({l \in OutLinks : l.ptr.no = b})
               + Cardinality({b} \cap (BackupBlocks \cup Lost \cup {0}))
             = IF Free(ctx, b) THEN 0 ELSE 1
  <2> DEFINE Naming == {l \in OutLinks : l.ptr.no = b}
             Aside == {b} \cap (BackupBlocks \cup Lost \cup {0})
             Kept == OutOfPlay(src, ctx)
  <2>1. /\ LinksSound(ctx)
        /\ b # 0 /\ ~Free(ctx, b) => b \in Linked(ctx) \cup Kept
        /\ b \in Kept => b # 0 /\ ~Free(ctx, b) /\ b \notin Linked(ctx)
    BY <1>1 DEF RunInv, Sound
  <2>2. Aside = {b} \cap (Kept \cup {0})
    BY OutIs DEF OutOfPlay
  <2>3. b \in Linked(ctx) <=> Naming # {}
    BY OutIs DEF Linked
  <2>4. \A l \in Naming : l.ptr.no # 0 /\ ~Free(ctx, b)
    BY <1>1, LinksRight DEF LinkSound
  <2>5. \A l, m \in Naming : l = m
    BY <2>1, OutIs DEF LinksSound
  <2>6. ~Free(ctx, 0)
    BY DEF Free
  <2> HIDE DEF Naming, Aside, Kept
  <2>7. Cardinality({}) = 0 /\ \A x : Cardinality({x}) = 1
    BY FS_EmptySet, FS_Singleton
  <2> DEFINE Uses == Cardinality(Naming) + Cardinality(Aside)
  <2>8. ASSUME Naming # {} PROVE Uses = 1 /\ ~Free(ctx, b)
    <3>1. PICK l \in Naming : TRUE
      BY <2>8
    <3>2. Naming = {l}
      BY <2>5, <3>1
    <3>3. b # 0 /\ ~Free(ctx, b)
      BY <2>4, <3>1 DEF Naming
    <3>4. Aside = {}
      BY <2>1, <2>2, <2>3, <2>8, <3>3
    <3>5. Cardinality(Naming) = 1 /\ Cardinality(Aside) = 0
      BY <2>7, <3>2, <3>4
    <3> QED
      BY <3>3, <3>5
  <2>9. ASSUME Naming = {}, b \in Kept \cup {0} PROVE Uses = 1 /\ ~Free(ctx, b)
    <3>1. Aside = {b}
      BY <2>2, <2>9
    <3>2. ~Free(ctx, b)
      BY <2>1, <2>6, <2>9
    <3> QED
      BY <2>7, <2>9, <3>1, <3>2
  <2>10. ASSUME Naming = {}, b \notin Kept \cup {0} PROVE Uses = 0 /\ Free(ctx, b)
    <3>1. Aside = {}
      BY <2>2, <2>10
    <3>2. Free(ctx, b)
      BY <2>1, <2>3, <2>10
    <3> QED
      BY <2>7, <2>10, <3>1, <3>2
  <2>11. Uses = IF Free(ctx, b) THEN 0 ELSE 1
    <3> HIDE DEF Uses
    <3> QED
      BY <2>8, <2>9, <2>10
  <2> QED
    BY <2>11 DEF Naming, Aside
<1>2. \A b \in BackupBlocks : ctx.out[b] = src[b]
  BY OutIs DEF RunInv, BackupKept
<1> QED
  BY <1>1, <1>2 DEF OnePurpose

-----------------------------------------------------------------------------
(* The Merkle tree below the super root is intact after every handler of a *)
(* run that has not failed: SignDinode records each digest it makes stale. *)
THEOREM Merkle == Spec /\ []RequestApart => []MerkleIntact
<1>1. SoundRun => MerkleIntact
  BY RunMerkle DEF SoundRun
<1> QED
  BY <1>1, SoundRuns, PTL

(* Whatever is grown, shrunk, removed and added, block_addr_table names    *)
(* the owner of each block: the inode, or the indirect block.              *)
THEOREM Owners == Spec /\ []RequestApart => []BatNamesOwner
<1>1. SoundRun => BatNamesOwner
  BY RunBat DEF SoundRun
<1> QED
  BY <1>1, SoundRuns, PTL

(* No block of the output is named twice, none leaks but those of removed  *)
(* files beyond single indirection, and the backup generation is never     *)
(* written, also by a run that fails (main.c:1289).                        *)
THEOREM Purposes == Spec /\ []RequestApart => []OnePurpose
<1>1. SoundRun => OnePurpose
  BY RunPurpose DEF SoundRun
<1> QED
  BY <1>1, SoundRuns, PTL

(* The output of a run that is done loads as what the run had in memory:   *)
(* none of the three flushes and the header update is lost or overtaken.   *)
THEOREM Reloads == Spec /\ []RequestApart => []OutputReloads
<1>1. SoundRun => OutputReloads
  BY DEF SoundRun, RunInv, OutputReloads
<1> QED
  BY <1>1, SoundRuns, PTL

(* A run that is done with changes has signed the super root it ended      *)
(* with, in every field that its version and the user's keys call for.     *)
THEOREM Signatures == Spec /\ []RequestApart => []HeaderSigned
<1>1. SoundRun => HeaderSigned
  BY DEF SoundRun, RunInv
<1> QED
  BY <1>1, SoundRuns, PTL

(* main.c:1320: block 0 is "never a valid data block".  Without an empty   *)
(* file to replace, which is how the run empty_file refutes this, nothing  *)
(* but a header is written to it, in runs that fail as well.               *)
THEOREM HeaderStays == Spec /\ []RequestApart => []HeaderNeverData
<1>1. SoundRun => HeaderNeverData
  BY DEF SoundRun, RunInv, HeaderNeverData
<1> QED
  BY <1>1, SoundRuns, PTL
=============================================================================
