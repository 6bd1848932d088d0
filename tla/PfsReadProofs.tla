---------------------------- MODULE PfsReadProofs ----------------------------
(***************************************************************************)
(* Proofs about reading a file, for any files, images, block and chunk     *)
(* sizes.                                                                  *)
(***************************************************************************)
EXTENDS PfsReadProps, Induction

-----------------------------------------------------------------------------
(* Positions, in blocks and within them *)

LEMMA BlockCount ==
  ASSUME NEW len \in Nat
  PROVE  /\ BlocksFor(len, BSize) \in Nat
         /\ len <= BlocksFor(len, BSize) * BSize
         /\ BlocksFor(len, BSize) * BSize < len + BSize
<1> DEFINE x == len + BSize - 1
           q == x \div BSize
           r == x % BSize
<1>1. x \in Nat /\ BSize \in Nat \ {0}
  BY ReadConstants
<1>2. q \in Nat /\ r \in 0 .. BSize - 1 /\ x = q * BSize + r
  <2> HIDE DEF x
  <2> QED
    BY <1>1, Split
<1>3. BlocksFor(len, BSize) = q
  BY DEF BlocksFor
<1> HIDE DEF q, r
<1>4. q * BSize \in Nat
  BY <1>1, <1>2
<1>5. len <= q * BSize /\ q * BSize < len + BSize
  BY <1>1, <1>2, <1>4
<1> QED
  BY <1>2, <1>3, <1>5

(* A block that begins inside the file is copied.                          *)
LEMMA Copies ==
  ASSUME NEW size \in Nat, NEW i \in Nat, i * BSize < size
  PROVE  BlockLen(size, i) = BSize
<1>1. BSize \in Nat \ {0}
  BY ReadConstants
<1>2. ASSUME size % BSize = 0 PROVE (i + 1) * BSize <= size
  <2> DEFINE q == size \div BSize
  <2>1. q \in Nat /\ size = q * BSize
    BY <1>1, <1>2, Split
  <2> HIDE DEF q
  <2>2. ASSUME q <= i PROVE FALSE
    <3>1. q = i \/ q < i
      BY <2>1, <2>2
    <3>2. q < i => q * BSize <= i * BSize
      BY <1>1, <2>1, Product
    <3> QED
      BY <2>1, <3>1, <3>2, <1>1
  <2>3. i < q
    BY <2>1, <2>2
  <2>4. i * BSize + BSize <= q * BSize
    BY <1>1, <2>1, <2>3, Product
  <2>5. (i + 1) * BSize = i * BSize + BSize
    BY <1>1
  <2> QED
    BY <2>1, <2>4, <2>5
<1>3. (i + 1) * BSize \in Nat
  BY <1>1
<1> QED
  BY <1>1, <1>2, <1>3 DEF BlockLen


-----------------------------------------------------------------------------
(* Reading raw blocks *)

Reads(len) == {r \in [ok : BOOLEAN, tmp : Buffers, data : Seq(Int)] : Len(r.data) <= len}
Listing(f) == f.blocks \in Seq(0 .. PhysBlocks - 1) /\ f.size \in Nat

LEMMA Behind ==
  ASSUME NEW a \in Seq(Int), NEW b \in Seq(Int)
  PROVE  /\ a \o b \in Seq(Int) /\ Len(a \o b) = Len(a) + Len(b)
         /\ \A k \in 1 .. Len(a) : (a \o b)[k] = a[k]
         /\ \A k \in 1 .. Len(b) : (a \o b)[Len(a) + k] = b[k]
OBVIOUS

LEMMA BlockIsRead ==
  ASSUME NEW block \in Nat, NEW n \in {1, 2}, NEW buf \in Buffers
  PROVE  /\ ReadBlocks(block, n, buf) \in Buffers
         /\ \A k \in 0 .. n * BSize - 1 : ReadBlocks(block, n, buf)[k] = ImageUnit(block, k)
<1>1. BSize \in Nat \ {0} /\ \A k \in Nat : block * BSize + k \in Int
  BY ReadConstants
<1>2. n * BSize \in Nat /\ n * BSize <= 2 * BSize
  BY <1>1
<1> DEFINE m == n * BSize
           r == ReadBlocks(block, n, buf)
<1>3. r = [k \in 0 .. 2 * BSize - 1 |-> IF k < m THEN ImageUnit(block, k) ELSE buf[k]]
  BY DEF ReadBlocks, Buffers
<1> HIDE DEF m, r
<1>4. \A k \in 0 .. 2 * BSize - 1 : ImageUnit(block, k) \in Int /\ buf[k] \in Int
  BY <1>1 DEF ImageUnit, Buffers
<1>5. r \in Buffers
  BY <1>3, <1>4 DEF Buffers
<1>6. \A k \in 0 .. m - 1 : k \in 0 .. 2 * BSize - 1 /\ k < m
  BY <1>1, <1>2 DEF m
<1>7. \A k \in 0 .. m - 1 : r[k] = ImageUnit(block, k)
  BY <1>3, <1>6
<1> QED
  BY <1>5, <1>7 DEF r, m

(* One block: the next units, of a part of it or of two blocks in a row.   *)
Appended(f, off, len, i, was, r) ==
  LET n == Len(was.data)
      s == Lower(BlockLen(f.size, i), len - n)
  IN /\ was.ok /\ s \in Nat /\ Len(r.data) = n + s
     /\ \A k \in 1 .. n : r.data[k] = was.data[k]
     /\ \A k \in 1 .. s :
          (off % BSize) + k - 1 < ReadCount(f, off, i) * BSize =>
            r.data[n + k] = ImageUnit(f.blocks[i + 1], (off % BSize) + k - 1)

LEMMA BlockAppends ==
  ASSUME NEW f, Listing(f), NEW off \in Nat, NEW len \in Nat, NEW i \in Nat,
         i < Len(f.blocks), NEW was \in Reads(len)
  PROVE  LET r == ReadBlock(f, off, len, i, was)
         IN /\ r \in Reads(len)
            /\ r.ok => Appended(f, off, len, i, was, r)
            /\ was.ok /\ ~r.ok => EndsImage(f)
<1> DEFINE r == ReadBlock(f, off, len, i, was)
           n == Len(was.data)
           s == Lower(BlockLen(f.size, i), len - n)
           block == f.blocks[i + 1]
           count == ReadCount(f, off, i)
           now == ReadBlocks(block, count, was.tmp)
           x == off % BSize
           more == Copied(now, off, s)
<1>1. BSize \in Nat \ {0} /\ PhysBlocks \in Nat \ {0} /\ x \in 0 .. BSize - 1
  BY ReadConstants
<1>2. block \in 0 .. PhysBlocks - 1 /\ i + 1 \in 1 .. Len(f.blocks)
  <2>1. f.blocks \in Seq(0 .. PhysBlocks - 1) /\ i + 1 \in 1 .. Len(f.blocks)
    BY DEF Listing
  <2> QED
    BY <2>1, Element
<1>3. count \in {1, 2} /\ (count = 2 => i + 1 < Len(f.blocks))
  BY DEF ReadCount
<1>4. was.ok \in BOOLEAN /\ was.tmp \in Buffers /\ was.data \in Seq(Int) /\ n \in Nat /\ n <= len
  BY DEF Reads
<1>5. s \in Nat /\ s <= BSize /\ n + s <= len
  <2>1. BlockLen(f.size, i) \in {0, BSize}
    BY DEF BlockLen
  <2> HIDE DEF n
  <2> QED
    BY <1>1, <1>4, <2>1 DEF Lower
<1>6. now \in Buffers /\ \A k \in 0 .. count * BSize - 1 : now[k] = ImageUnit(block, k)
  <2>1. block \in Nat
    BY <1>1, <1>2
  <2> HIDE DEF block, count
  <2> QED
    BY <2>1, <1>3, <1>4, BlockIsRead
<1>7. r = IF was.ok /\ CanRead(block, count)
          THEN [ok |-> TRUE, tmp |-> now, data |-> was.data \o more]
          ELSE [was EXCEPT !.ok = FALSE]
  BY DEF ReadBlock
<1> HIDE DEF r
<1>8. more = [k \in 1 .. s |-> now[x + k - 1]]
  BY DEF Copied
<1> HIDE DEF more, s, x, now, count, block
<1>9. \A k \in 1 .. s : x + k - 1 \in 0 .. 2 * BSize - 1 /\ now[x + k - 1] \in Int
  BY <1>1, <1>5, <1>6 DEF Buffers
<1>10. more \in Seq(Int) /\ Len(more) = s /\ \A k \in 1 .. s : more[k] = now[x + k - 1]
  BY <1>5, <1>8, <1>9
<1>11. CASE was.ok /\ CanRead(block, count)
  <2>1. r = [ok |-> TRUE, tmp |-> now, data |-> was.data \o more]
    BY <1>7, <1>11
  <2> DEFINE d == was.data \o more
  <2>2. d \in Seq(Int) /\ Len(d) = n + s /\ (\A k \in 1 .. n : d[k] = was.data[k])
        /\ \A k \in 1 .. s : d[n + k] = more[k]
    BY <1>4, <1>10, Behind
  <2> HIDE DEF d
  <2>3. r.ok = TRUE /\ r.tmp = now /\ r.data = d
    BY <2>1 DEF d
  <2>4. r \in Reads(len)
    BY <2>1, <2>2, <1>5, <1>6 DEF Reads, d
  <2>5. ASSUME NEW k \in 1 .. s, x + k - 1 < count * BSize
        PROVE  d[n + k] = ImageUnit(block, x + k - 1)
    <3>1. x + k - 1 \in 0 .. count * BSize - 1
      BY <1>1, <1>3, <1>5, <2>5
    <3> QED
      BY <3>1, <1>6, <1>10, <2>2
  <2>6. Appended(f, off, len, i, was, r)
    BY <1>5, <1>11, <2>2, <2>3, <2>5 DEF Appended, s, x, count, block
  <2> QED
    BY <2>3, <2>4, <2>6 DEF r
<1>12. CASE ~(was.ok /\ CanRead(block, count))
  <2>1. r = [was EXCEPT !.ok = FALSE]
    BY <1>7, <1>12
  <2>2. r \in Reads(len) /\ ~r.ok
    BY <2>1 DEF Reads
  <2>3. ASSUME was.ok PROVE EndsImage(f)
    <3>1. block + count > PhysBlocks
      BY <1>1, <1>2, <1>3, <1>12, <2>3 DEF CanRead
    <3>2. count = 2 /\ block = PhysBlocks - 1
      BY <1>1, <1>2, <1>3, <3>1
    <3>3. i + 1 \in 1 .. Len(f.blocks) - 1
      BY <1>2, <1>3, <3>2
    <3> QED
      BY <3>2, <3>3 DEF EndsImage, block
  <2> QED
    BY <2>2, <2>3 DEF r
<1> QED
  BY <1>11, <1>12


LEMMA BlockByBlockDef ==
  ASSUME NEW f, Listing(f), NEW off \in Nat, NEW len \in Nat, NEW buf \in Buffers,
         Listed(f, off, len)
  PROVE  LET n == BlocksFor(len, BSize)
             B == BlockByBlock(f, off, len, buf)
         IN /\ n \in Nat /\ B \in [0 .. n -> Reads(len)]
            /\ B[0] = [ok |-> TRUE, tmp |-> buf, data |-> <<>>]
            /\ \A k \in 1 .. n :
                 /\ FirstBlock(off) + k - 1 \in Nat /\ FirstBlock(off) + k - 1 < Len(f.blocks)
                 /\ B[k] = ReadBlock(f, off, len, FirstBlock(off) + k - 1, B[k - 1])
<1> DEFINE n == BlocksFor(len, BSize)
           first == FirstBlock(off)
           S == Reads(len)
           z == [ok |-> n <= Len(f.blocks), tmp |-> buf, data |-> <<>>]
           next(k, was) == ReadBlock(f, off, len, first + k - 1, was)
           step == [k \in 1 .. n |-> [was \in S |-> next(k, was)]]
           Def(g) == g = [k \in 0 .. n |-> IF k = 0 THEN z ELSE next(k, g[k - 1])]
<1>1. n \in Nat /\ first \in Nat
  <2>1. n \in Nat
    BY BlockCount
  <2>2. first \in Nat
    BY ReadConstants, Split DEF FirstBlock
  <2> QED
    BY <2>1, <2>2
<1>2. first + n <= Len(f.blocks) /\ Len(f.blocks) \in Nat
  BY DEF Listed, Listing
<1>3. \A k \in 1 .. n : first + k - 1 \in Nat /\ first + k - 1 < Len(f.blocks)
  <2> HIDE DEF first, n
  <2> QED
    BY <1>1, <1>2
<1>4. z = [ok |-> TRUE, tmp |-> buf, data |-> <<>>] /\ z \in S
  <2>1. n <= Len(f.blocks)
    <3> HIDE DEF first, n
    <3> QED
      BY <1>1, <1>2
  <2>2. z = [ok |-> TRUE, tmp |-> buf, data |-> <<>>]
    BY <2>1
  <2> HIDE DEF z, n
  <2> QED
    BY <2>2 DEF Reads
<1>5. ASSUME NEW k \in 1 .. n, NEW was \in S PROVE next(k, was) \in S
  <2> DEFINE i == first + k - 1
  <2>1. i \in Nat /\ i < Len(f.blocks)
    BY <1>3
  <2> HIDE DEF i
  <2>2. ReadBlock(f, off, len, i, was) \in Reads(len)
    BY <2>1, BlockAppends
  <2> QED
    BY <2>2 DEF i
<1>6. step \in [1 .. n -> [S -> S]]
  <2> HIDE DEF next, S, n
  <2> QED
    BY <1>5
<1>7. PICK f2 : IsLoop(f2, n, S, z, step)
  <2> HIDE DEF n, S, z, step
  <2> QED
    BY <1>1, <1>4, <1>6, Loop
<1>8. /\ f2 \in [0 .. n -> S] /\ f2[0] = z
      /\ \A k \in 1 .. n : f2[k] = step[k][f2[k - 1]] /\ f2[k - 1] \in S
  <2> HIDE DEF n, S, z, step
  <2> QED
    BY <1>1, <1>7 DEF IsLoop
<1>9. ASSUME NEW k \in 1 .. n PROVE f2[k] = next(k, f2[k - 1])
  <2>1. f2[k] = step[k][f2[k - 1]] /\ f2[k - 1] \in S
    BY <1>8
  <2>2. step[k] = [was \in S |-> next(k, was)]
    OBVIOUS
  <2> HIDE DEF S, next, step
  <2> QED
    BY <2>1, <2>2
<1>10. Def(f2)
  <2>1. \A k \in 0 .. n : f2[k] = IF k = 0 THEN z ELSE next(k, f2[k - 1])
    <3> HIDE DEF n, z, next
    <3> QED
      BY <1>1, <1>8, <1>9
  <2> HIDE DEF n, S, z, next
  <2> QED
    BY <1>8, <2>1
<1> DEFINE B == BlockByBlock(f, off, len, buf)
<1>11. B = CHOOSE g : Def(g)
  BY DEF BlockByBlock
<1>12. Def(B)
  <2> HIDE DEF Def, B
  <2> QED
    BY <1>10, <1>11, Zenon
<1>13. B = [k \in 0 .. n |-> IF k = 0 THEN z ELSE next(k, B[k - 1])]
  BY <1>12
<1> HIDE DEF B, Def
<1>14. B[0] = z
  <2> HIDE DEF n, z, next
  <2> QED
    BY <1>1, <1>13
<1>15. ASSUME NEW k \in 1 .. n PROVE B[k] = next(k, B[k - 1])
  <2> HIDE DEF n, z, next
  <2>1. k \in 0 .. n /\ k # 0
    BY <1>1
  <2> QED
    BY <2>1, <1>13, Zenon
<1>16. ASSUME NEW j \in 0 .. n PROVE B[j] \in S
  <2> DEFINE T == {k \in 0 .. n : B[k] \in S}
  <2>1. 0 \in T
    <3> HIDE DEF n, z, S
    <3> QED
      BY <1>1, <1>4, <1>14
  <2>2. ASSUME NEW k \in 1 .. n, k - 1 \in T PROVE k \in T
    <3>1. B[k - 1] \in S
      BY <2>2
    <3>2. next(k, B[k - 1]) \in S
      <4> HIDE DEF next, S, n
      <4> QED
        BY <1>5, <3>1
    <3> HIDE DEF next, S, n
    <3> QED
      BY <1>1, <1>15, <3>2
  <2>3. \A k \in 0 .. n : k \in T
    <3> HIDE DEF T, n
    <3> QED
      BY <1>1, <2>1, <2>2, UpTo
  <2> QED
    BY <2>3
<1>17. B \in [0 .. n -> S]
  <2>1. DOMAIN B = 0 .. n /\ B = [k \in 0 .. n |-> B[k]]
    <3> HIDE DEF n, z, next
    <3> QED
      BY <1>13
  <2> HIDE DEF n, S
  <2> QED
    BY <2>1, <1>16
<1>18. \A k \in 1 .. n : /\ first + k - 1 \in Nat /\ first + k - 1 < Len(f.blocks)
                         /\ B[k] = ReadBlock(f, off, len, first + k - 1, B[k - 1])
  BY <1>3, <1>15
<1>19. B[0] = [ok |-> TRUE, tmp |-> buf, data |-> <<>>]
  <2> HIDE DEF z
  <2> QED
    BY <1>4, <1>14
<1> HIDE DEF n, first, S, z, next, step
<1> QED
  BY <1>1, <1>17, <1>18, <1>19 DEF n, first, S, B


LEMMA RawReadType ==
  ASSUME NEW f, Listing(f), NEW off \in Nat, NEW len \in Nat, NEW buf \in Buffers,
         Listed(f, off, len)
  PROVE  LET r == RawRead(f, off, len, buf)
             last == BlockByBlock(f, off, len, buf)[BlocksFor(len, BSize)]
         IN /\ r.ok \in BOOLEAN /\ r.tmp \in Buffers /\ r.data \in [1 .. len -> Int]
            /\ ~r.ok => EndsImage(f)
            /\ r.ok = last.ok
            /\ \A k \in 1 .. Len(last.data) : k \in 1 .. len => r.data[k] = last.data[k]
<1> DEFINE n == BlocksFor(len, BSize)
           B == BlockByBlock(f, off, len, buf)
           r == RawRead(f, off, len, buf)
           i(k) == FirstBlock(off) + k - 1
<1>1. /\ n \in Nat /\ B \in [0 .. n -> Reads(len)]
      /\ B[0] = [ok |-> TRUE, tmp |-> buf, data |-> <<>>]
      /\ \A k \in 1 .. n : /\ i(k) \in Nat /\ i(k) < Len(f.blocks)
                           /\ B[k] = ReadBlock(f, off, len, i(k), B[k - 1])
  BY BlockByBlockDef
<1> HIDE DEF n, B
<1>2. B[n] \in Reads(len)
  BY <1>1
<1> DEFINE b == B[n]
<1>3. r = [b EXCEPT !.data = Filled(@, len)]
  BY DEF RawRead, n, B
<1> HIDE DEF b, r
<1>4. b \in [ok : BOOLEAN, tmp : Buffers, data : Seq(Int)]
  BY <1>2 DEF Reads, b
<1>5. r.ok = b.ok /\ r.tmp = b.tmp /\ r.data = Filled(b.data, len)
  BY <1>3, <1>4
<1>6. Filled(b.data, len) \in [1 .. len -> Int]
  <2>1. \A k \in 1 .. len : k <= Len(b.data) => b.data[k] \in Int
    BY <1>4, Element
  <2> QED
    BY <2>1 DEF Filled, Unset
<1>7. \A k \in 1 .. Len(b.data) : k \in 1 .. len => r.data[k] = b.data[k]
  <2>1. Len(b.data) \in Nat
    BY <1>4
  <2> QED
    BY <1>5, <2>1 DEF Filled
<1>8. b.ok \/ EndsImage(f)
  <2> DEFINE T == {k \in 0 .. n : B[k].ok \/ EndsImage(f)}
  <2>1. 0 \in T
    BY <1>1
  <2>2. ASSUME NEW k \in 1 .. n, k - 1 \in T PROVE k \in T
    <3> DEFINE j == i(k)
               was == B[k - 1]
    <3>1. j \in Nat /\ j < Len(f.blocks) /\ B[k] = ReadBlock(f, off, len, j, was)
      BY <1>1
    <3>2. was \in Reads(len) /\ (was.ok \/ EndsImage(f))
      BY <1>1, <2>2
    <3> HIDE DEF j, was
    <3>3. ReadBlock(f, off, len, j, was).ok \/ EndsImage(f)
      BY <3>1, <3>2, BlockAppends
    <3> QED
      BY <1>1, <3>1, <3>3
  <2>3. \A k \in 0 .. n : k \in T
    <3> HIDE DEF T
    <3> QED
      BY <1>1, <2>1, <2>2, UpTo
  <2> QED
    BY <1>1, <2>3 DEF b
<1> QED
  BY <1>4, <1>5, <1>6, <1>7, <1>8 DEF b, r, n, B

(* What is wanted at offset off + k - 1 of the file is read from there.    *)
LEMMA Reaches ==
  ASSUME NEW f, Listing(f), NEW off \in Nat, NEW len \in Nat, NEW buf \in Buffers,
         Listed(f, off, len), NEW k \in 1 .. len,
         off + k - 1 < f.size, off + k - 1 < Len(f.blocks) * BSize,
         (off % BSize) + ((k - 1) % BSize) < BSize \/ Contiguous(f),
         RawRead(f, off, len, buf).ok
  PROVE  RawRead(f, off, len, buf).data[k] = FilePos(f, off + k - 1)
<1> DEFINE n == BlocksFor(len, BSize)
           B == BlockByBlock(f, off, len, buf)
           r == RawRead(f, off, len, buf)
           first == FirstBlock(off)
           x == off % BSize
           q == (k - 1) \div BSize
           y == (k - 1) % BSize
           c == q + 1
           unit == ImageUnit(f.blocks[first + q + 1], x + y)
<1>1. BSize \in Nat \ {0} /\ k - 1 \in Nat
  BY ReadConstants
<1>2. q \in Nat /\ y \in 0 .. BSize - 1 /\ k - 1 = q * BSize + y
  BY <1>1, Split
<1>3. first \in Nat /\ x \in 0 .. BSize - 1 /\ off = first * BSize + x
  BY <1>1, Split DEF FirstBlock
<1>4. /\ n \in Nat /\ B \in [0 .. n -> Reads(len)]
      /\ B[0] = [ok |-> TRUE, tmp |-> buf, data |-> <<>>]
      /\ \A j \in 1 .. n : /\ first + j - 1 \in Nat /\ first + j - 1 < Len(f.blocks)
                           /\ B[j] = ReadBlock(f, off, len, first + j - 1, B[j - 1])
  BY BlockByBlockDef
<1>5. len <= n * BSize
  BY BlockCount
<1>6. /\ r.ok /\ B[n].ok
      /\ \A j \in 1 .. Len(B[n].data) : j \in 1 .. len => r.data[j] = B[n].data[j]
  BY RawReadType
<1> HIDE DEF n, B, r, first, x, q, y
<1>7. q * BSize \in Nat /\ first * BSize \in Nat /\ n * BSize \in Nat
  BY <1>1, <1>2, <1>3, <1>4
<1>8. c \in 1 .. n
  <2>1. ASSUME n <= q PROVE FALSE
    <3>1. n * BSize <= q * BSize
      BY <1>1, <1>2, <1>4, <1>7, <2>1, Product
    <3> QED
      BY <1>2, <1>5, <1>7, <3>1
  <2> QED
    BY <1>2, <1>4, <2>1
(* Up to the block of position k, every block is copied whole.             *)
<1>9. \A j \in 1 .. c : BlockLen(f.size, first + j - 1) = BSize
  <2> TAKE j \in 1 .. c
  <2> DEFINE i == first + j - 1
  <2>1. i \in Nat /\ i <= first + q
    BY <1>2, <1>3
  <2>2. (first + q) * BSize = first * BSize + q * BSize /\ first + q \in Nat
    BY <1>1, <1>2, <1>3
  <2> HIDE DEF i
  <2>3. i * BSize \in Nat /\ i * BSize <= (first + q) * BSize
    <3>1. CASE i = first + q
      BY <1>7, <2>2, <3>1
    <3>2. CASE i < first + q
      BY <1>1, <2>1, <2>2, <3>2, Product
    <3> QED
      BY <2>1, <2>2, <3>1, <3>2
  <2>4. i * BSize < f.size
    <3> DEFINE u == first * BSize
               v == q * BSize
               w == i * BSize
    <3>1. u \in Nat /\ v \in Nat /\ w \in Nat /\ w <= u + v
      BY <1>7, <2>2, <2>3
    <3>2. off = u + x /\ k - 1 = v + y /\ f.size \in Nat
      BY <1>2, <1>3 DEF Listing
    <3> HIDE DEF u, v, w
    <3>3. w < f.size
      BY <1>2, <1>3, <3>1, <3>2
    <3> QED
      BY <3>3 DEF w
  <2>5. BlockLen(f.size, i) = BSize
    BY <2>1, <2>4, Copies DEF Listing
  <2> QED
    BY <2>5 DEF i
(* With every block there is one block more; then position k stays.        *)
<1> DEFINE Before(j) == j < c => Len(B[j].data) = j * BSize
           Behind2(j) == j >= c => /\ Len(B[j].data) >= k
                                   /\ x + y < ReadCount(f, off, first + q) * BSize =>
                                        B[j].data[k] = unit
           Good(j) == B[j].ok => Before(j) /\ Behind2(j)
           T == {j \in 0 .. n : Good(j)}
<1>10. 0 \in T
  BY <1>1, <1>2, <1>4
<1>11. ASSUME NEW j \in 1 .. n, j - 1 \in T PROVE j \in T
  <2> DEFINE was == B[j - 1]
             i == first + j - 1
             now == B[j]
             d == Len(was.data)
             s == Lower(BlockLen(f.size, i), len - d)
  <2>1. i \in Nat /\ i < Len(f.blocks) /\ now = ReadBlock(f, off, len, i, was)
    BY <1>4
  <2>2. was \in Reads(len) /\ now \in Reads(len)
    BY <1>4
  <2>3. d \in Nat /\ d <= len
    BY <2>2 DEF Reads
  <2>4. ASSUME now.ok
        PROVE  /\ was.ok /\ s \in Nat /\ Len(now.data) = d + s
               /\ \A m \in 1 .. d : now.data[m] = was.data[m]
               /\ \A m \in 1 .. s : x + m - 1 < ReadCount(f, off, i) * BSize =>
                                      now.data[d + m] = ImageUnit(f.blocks[i + 1], x + m - 1)
    <3> HIDE DEF was, i, now
    <3>1. Appended(f, off, len, i, was, now)
      BY <2>1, <2>2, <2>4, BlockAppends
    <3> QED
      BY <3>1 DEF Appended, x
  <2>5. was.ok => Before(j - 1) /\ Behind2(j - 1)
    BY <1>11
  <2>6. \A m \in 1 .. n : (m - 1) * BSize + BSize = m * BSize /\ (m - 1) * BSize \in Nat
    BY <1>1, <1>4
  <2>7. ASSUME now.ok, j <= c
        PROVE  d = (j - 1) * BSize /\ s = Lower(BSize, len - d)
    <3>1. d = (j - 1) * BSize
      BY <2>4, <2>5, <2>7, <1>2
    <3>2. BlockLen(f.size, i) = BSize
      BY <1>2, <1>9, <2>7
    <3> QED
      BY <3>1, <3>2
  <2>8. ASSUME now.ok, j < c PROVE Len(now.data) = j * BSize
    <3>1. j * BSize <= q * BSize
      <4>1. j = q \/ j < q
        BY <1>2, <2>8
      <4>2. j < q => j * BSize + BSize <= q * BSize
        BY <1>1, <1>2, Product
      <4> QED
        BY <1>1, <1>7, <2>6, <4>1, <4>2
    <3>2. d = (j - 1) * BSize /\ s = Lower(BSize, len - d) /\ Len(now.data) = d + s
      BY <2>4, <2>7, <2>8, <1>2
    <3>3. (j - 1) * BSize + BSize = j * BSize /\ (j - 1) * BSize \in Nat
      BY <2>6
    <3>4. len - d >= BSize
      <4> DEFINE u == (j - 1) * BSize
                 v == q * BSize
      <4>1. u + BSize <= v /\ u \in Nat /\ v \in Nat /\ d = u /\ k - 1 = v + y
        BY <1>2, <1>7, <3>1, <3>2, <3>3
      <4> HIDE DEF u, v, d
      <4> QED
        BY <1>1, <1>2, <4>1
    <3> HIDE DEF d, s, now
    <3> QED
      BY <1>1, <2>3, <3>2, <3>3, <3>4 DEF Lower
  <2>9. ASSUME now.ok, j = c
        PROVE  /\ Len(now.data) >= k
               /\ x + y < ReadCount(f, off, first + q) * BSize => now.data[k] = unit
    <3>1. d = q * BSize /\ s = Lower(BSize, len - d) /\ Len(now.data) = d + s
      BY <2>4, <2>7, <2>9, <1>2
    <3>2. k = d + (y + 1) /\ y + 1 \in 1 .. s
      <4> HIDE DEF d, s, now
      <4> QED
        BY <1>1, <1>2, <1>7, <2>3, <3>1 DEF Lower
    <3>3. i = first + q /\ x + (y + 1) - 1 = x + y
      BY <1>2, <1>3, <2>9
    <3>4. Len(now.data) >= k
      <4> HIDE DEF d, s, now
      <4> QED
        BY <2>3, <2>4, <2>9, <3>1, <3>2
    <3>5. ASSUME x + y < ReadCount(f, off, first + q) * BSize PROVE now.data[k] = unit
      <4> HIDE DEF d, s, now, i
      <4>1. x + (y + 1) - 1 < ReadCount(f, off, i) * BSize
        BY <3>3, <3>5
      <4>2. now.data[d + (y + 1)] = ImageUnit(f.blocks[i + 1], x + (y + 1) - 1)
        BY <2>4, <2>9, <3>2, <4>1
      <4> QED
        BY <3>2, <3>3, <4>2
    <3> QED
      BY <3>4, <3>5
  <2>10. ASSUME now.ok, j > c
         PROVE  /\ Len(now.data) >= k
                /\ x + y < ReadCount(f, off, first + q) * BSize => now.data[k] = unit
    <3>1. /\ d >= k
          /\ x + y < ReadCount(f, off, first + q) * BSize => was.data[k] = unit
      BY <1>2, <2>4, <2>5, <2>10
    <3>2. k \in 1 .. d
      BY <2>3, <3>1
    <3> HIDE DEF d, s, now, was, unit
    <3> QED
      BY <2>3, <2>4, <2>10, <3>1, <3>2
  <2> HIDE DEF unit
  <2> QED
    BY <1>2, <2>8, <2>9, <2>10
<1>12. n \in T
  <2> HIDE DEF T
  <2>1. \A j \in 0 .. n : j \in T
    BY <1>4, <1>10, <1>11, UpTo
  <2> QED
    BY <1>4, <2>1
<1>13. /\ r.data[k] = B[n].data[k]
       /\ x + y < ReadCount(f, off, first + q) * BSize => r.data[k] = unit
  <2>1. /\ Len(B[n].data) >= k
        /\ x + y < ReadCount(f, off, first + q) * BSize => B[n].data[k] = unit
    <3> HIDE DEF unit
    <3> QED
      BY <1>6, <1>8, <1>12
  <2>2. Len(B[n].data) \in Nat
    BY <1>4 DEF Reads
  <2>3. r.data[k] = B[n].data[k]
    BY <1>6, <2>1, <2>2
  <2> QED
    BY <2>1, <2>3
(* And that is where position off + k - 1 is.                              *)
<1> DEFINE p == off + k - 1
<1>14. p \in Nat /\ p = (first + q) * BSize + (x + y) /\ first + q \in Nat
  <2> DEFINE u == first * BSize
             v == q * BSize
  <2>1. (first + q) * BSize = u + v /\ u \in Nat /\ v \in Nat
    BY <1>1, <1>2, <1>3, <1>7
  <2>2. off = u + x /\ k - 1 = v + y
    BY <1>2, <1>3
  <2> HIDE DEF u, v
  <2> QED
    BY <1>2, <1>3, <2>1, <2>2
<1> HIDE DEF p
<1>15. CASE x + y < BSize
  <2>1. p \div BSize = first + q /\ p % BSize = x + y
    <3> DEFINE a == first + q
               b == x + y
    <3>1. a \in Nat /\ b \in 0 .. BSize - 1 /\ p = a * BSize + b
      BY <1>1, <1>2, <1>3, <1>14, <1>15
    <3> HIDE DEF a, b
    <3>2. p \div BSize = a /\ p % BSize = b
      BY <1>1, <3>1, Quotient
    <3> QED
      BY <3>2 DEF a, b
  <2>2. x + y < ReadCount(f, off, first + q) * BSize
    BY <1>1, <1>2, <1>3, <1>15 DEF ReadCount
  <2>3. FilePos(f, p) = unit
    BY <2>1 DEF FilePos
  <2> QED
    BY <1>13, <2>2, <2>3 DEF p, r
<1>16. CASE x + y >= BSize
  <2> DEFINE i == first + q
  <2>1. x + y - BSize \in 0 .. BSize - 1 /\ x > 0 /\ i + 1 \in Nat
    BY <1>1, <1>2, <1>3, <1>14, <1>16
  <2>2. (i + 1) * BSize = i * BSize + BSize
    BY <1>1, <1>14
  <2>3. p = (i + 1) * BSize + (x + y - BSize)
    BY <1>1, <1>2, <1>3, <1>14, <2>2
  <2>4. p \div BSize = i + 1 /\ p % BSize = x + y - BSize
    <3> DEFINE a == i + 1
               b == x + y - BSize
    <3>1. a \in Nat /\ b \in 0 .. BSize - 1 /\ p = a * BSize + b
      BY <2>1, <2>3
    <3> HIDE DEF a, b
    <3>2. p \div BSize = a /\ p % BSize = b
      BY <1>1, <3>1, Quotient
    <3> QED
      BY <3>2 DEF a, b
  <2>5. Contiguous(f)
    BY <1>2, <1>3, <1>16, <1>1 DEF x, y
  <2>6. i + 1 < Len(f.blocks)
    <3>1. Len(f.blocks) \in Nat
      BY DEF Listing
    <3>2. ASSUME Len(f.blocks) <= i + 1 PROVE FALSE
      <4>1. Len(f.blocks) * BSize <= (i + 1) * BSize
        <5> DEFINE a == i + 1
                   b == Len(f.blocks)
        <5>1. a \in Nat /\ b \in Nat /\ b <= a
          BY <2>1, <3>1, <3>2
        <5> HIDE DEF a, b
        <5>2. b * BSize <= a * BSize
          <6>1. b = a \/ b < a
            BY <5>1
          <6>2. b * BSize \in Nat /\ a * BSize \in Nat
            BY <1>1, <5>1
          <6> QED
            BY <1>1, <5>1, <6>1, <6>2, Product
        <5> QED
          BY <5>2 DEF a, b
      <4>2. p < Len(f.blocks) * BSize
        BY DEF p
      <4>3. (i + 1) * BSize \in Nat /\ Len(f.blocks) * BSize \in Nat
        BY <1>1, <2>1, <3>1
      <4> QED
        BY <1>14, <2>1, <2>3, <4>1, <4>2, <4>3
    <3> QED
      BY <2>1, <3>1, <3>2
  <2>7. ReadCount(f, off, i) = 2
    BY <2>1, <2>6 DEF ReadCount, x
  <2>8. x + y < 2 * BSize
    BY <1>1, <1>2, <1>3
  <2>9. r.data[k] = unit
    BY <1>13, <2>7, <2>8
  <2>10. f.blocks[i + 2] = f.blocks[i + 1] + 1 /\ f.blocks[i + 1] \in Int
    <3>1. i + 1 \in 1 .. Len(f.blocks) /\ i + 2 \in 2 .. Len(f.blocks) /\ (i + 2) - 1 = i + 1
      BY <1>14, <2>6 DEF Listing
    <3>2. f.blocks[i + 1] \in 0 .. PhysBlocks - 1
      BY <3>1, Element DEF Listing
    <3>3. \A j \in 2 .. Len(f.blocks) : f.blocks[j] = f.blocks[j - 1] + 1
      BY <2>5 DEF Contiguous
    <3> QED
      BY <3>1, <3>2, <3>3, ReadConstants
  <2>11. FilePos(f, p) = ImageUnit(f.blocks[i + 2], x + y - BSize)
    <3>1. (i + 1) + 1 = i + 2
      BY <1>14
    <3> QED
      BY <2>4, <3>1 DEF FilePos
  <2>12. ImageUnit(f.blocks[i + 2], x + y - BSize) = unit
    <3> DEFINE b == f.blocks[i + 1]
    <3>1. (b + 1) * BSize = b * BSize + BSize /\ b * BSize \in Int
      <4>1. \A z \in Int : (z + 1) * BSize = z * BSize + BSize /\ z * BSize \in Int
        BY <1>1
      <4> QED
        BY <2>10, <4>1, Zenon
    <3>2. unit = b * BSize + (x + y)
      BY DEF ImageUnit
    <3>3. ImageUnit(f.blocks[i + 2], x + y - BSize) = (b + 1) * BSize + (x + y - BSize)
      BY <2>10 DEF ImageUnit
    <3> HIDE DEF b, unit
    <3> QED
      BY <1>1, <1>2, <1>3, <3>1, <3>2, <3>3
  <2> QED
    BY <2>9, <2>11, <2>12 DEF p, r
<1> QED
  BY <1>1, <1>2, <1>3, <1>15, <1>16


-----------------------------------------------------------------------------
(* Reading a chunk *)

(* A chunk does not reach over the edge of a larger block.                 *)
LEMMA ChunkFits ==
  ASSUME NEW a \in Nat \ {0}, a % Chunk = 0, NEW off \in Nat, off % Chunk = 0
  PROVE  (off % a) + Chunk <= a /\ Chunk <= a
<1> DEFINE e == a \div Chunk
           c == off \div Chunk
           q == off \div a
           x == off % a
<1>1. Chunk \in Nat \ {0}
  BY ReadConstants
<1>2. e \in Nat /\ a = e * Chunk
  BY <1>1, Split
<1>3. c \in Nat /\ off = c * Chunk
  BY <1>1, Split
<1>4. q \in Nat /\ x \in 0 .. a - 1 /\ off = q * a + x
  BY Split
<1> HIDE DEF e, c, q, x
<1>5. q * e \in Nat /\ q * a = (q * e) * Chunk
  BY <1>1, <1>2, <1>4
<1> DEFINE w == q * e
<1>6. w \in Nat /\ q * a = w * Chunk
  BY <1>5
<1> HIDE DEF w
<1>7. x = c * Chunk - w * Chunk /\ c * Chunk \in Nat /\ w * Chunk \in Nat /\ e * Chunk \in Nat
  BY <1>1, <1>2, <1>3, <1>4, <1>6
<1>8. c * Chunk < (w + e) * Chunk /\ w + e \in Nat /\ (w + e) * Chunk = w * Chunk + e * Chunk
  <2>1. (w + e) * Chunk = w * Chunk + e * Chunk
    BY <1>1, <1>2, <1>6
  <2>2. x < e * Chunk
    BY <1>2, <1>4
  <2> QED
    BY <1>2, <1>6, <1>7, <2>1, <2>2
<1>9. c < w + e
  <2>1. ASSUME c >= w + e PROVE FALSE
    <3>1. c = w + e \/ w + e < c
      BY <1>3, <1>8, <2>1
    <3>2. (w + e) * Chunk \in Nat
      BY <1>7, <1>8
    <3>3. w + e < c => (w + e) * Chunk + Chunk <= c * Chunk
      BY <1>1, <1>3, <1>8, Product
    <3> QED
      BY <1>1, <1>7, <1>8, <3>1, <3>2, <3>3
  <2> QED
    BY <1>3, <1>8, <2>1
<1>10. c * Chunk + Chunk <= (w + e) * Chunk
  BY <1>1, <1>3, <1>8, <1>9, Product
<1>11. x + Chunk <= a
  <2> DEFINE u == c * Chunk
             v == w * Chunk
             t == e * Chunk
  <2>1. x = u - v /\ u \in Nat /\ v \in Nat /\ t \in Nat /\ u + Chunk <= v + t /\ a = t
    BY <1>2, <1>7, <1>8, <1>10
  <2> HIDE DEF u, v, t
  <2> QED
    BY <1>1, <2>1
<1> QED
  BY <1>1, <1>4, <1>11 DEF x

LEMMA RawInBlock ==
  ASSUME NEW off \in Nat, off % Chunk = 0, NEW k \in 1 .. Chunk
  PROVE  (off % BSize) + ((k - 1) % BSize) < BSize
<1>1. BSize \in Nat \ {0} /\ Chunk \in Nat \ {0}
      /\ (BSize % Chunk = 0 \/ Chunk % BSize = 0)
  BY ReadConstants
<1>2. (k - 1) % BSize \in 0 .. BSize - 1
  BY <1>1, Split
<1>3. CASE BSize % Chunk = 0
  <2>1. (off % BSize) + Chunk <= BSize /\ Chunk <= BSize
    BY <1>1, <1>3, ChunkFits
  <2>2. k - 1 \in 0 .. BSize - 1
    BY <1>1, <2>1
  <2>3. (k - 1) % BSize = k - 1
    <3> DEFINE r == k - 1
    <3>1. r \in 0 .. BSize - 1 /\ 0 * BSize + r = r
      BY <1>1, <2>2
    <3> HIDE DEF r
    <3>2. (0 * BSize + r) % BSize = r
      BY <1>1, <3>1, Quotient
    <3>3. r % BSize = r
      BY <3>1, <3>2
    <3> QED
      BY <3>3 DEF r
  <2>4. off % BSize \in 0 .. BSize - 1
    BY <1>1, Split
  <2> QED
    BY <1>1, <2>1, <2>3, <2>4
<1>4. CASE Chunk % BSize = 0
  <2> DEFINE e == Chunk \div BSize
             c == off \div Chunk
  <2>1. e \in Nat /\ Chunk = e * BSize
    BY <1>1, <1>4, Split
  <2>2. c \in Nat /\ off = c * Chunk
    BY <1>1, Split
  <2> HIDE DEF e, c
  <2> DEFINE q == c * e
  <2>3. q \in Nat /\ off = q * BSize + 0
    BY <1>1, <2>1, <2>2
  <2> HIDE DEF q
  <2>4. (q * BSize + 0) % BSize = 0
    BY <1>1, <2>3, Quotient
  <2>5. off % BSize = 0
    BY <2>3, <2>4, Zenon
  <2> QED
    BY <1>1, <1>2, <2>5
<1> QED
  BY <1>1, <1>3, <1>4

(* A request inside the file stays in its block list.                      *)
LEMMA RequestListed ==
  ASSUME NEW f, Listing(f), f.size <= Len(f.blocks) * BSize,
         NEW off \in Nat, NEW len \in Nat \ {0}, off + len <= f.size
  PROVE  Listed(f, off, len)
<1> DEFINE n == BlocksFor(len, BSize)
           first == FirstBlock(off)
           x == off % BSize
           N == Len(f.blocks)
<1>1. BSize \in Nat \ {0} /\ N \in Nat /\ f.size \in Nat
  BY ReadConstants DEF Listing
<1>2. n \in Nat /\ len <= n * BSize /\ n * BSize < len + BSize
  BY BlockCount
<1>3. first \in Nat /\ x \in 0 .. BSize - 1 /\ off = first * BSize + x
  BY <1>1, Split DEF FirstBlock
<1>4. f.size <= N * BSize
  OBVIOUS
<1> HIDE DEF n, first, x, N
<1>5. ASSUME N < first + n PROVE FALSE
  <2>1. N * BSize + BSize <= (first + n) * BSize
    <3>1. first + n \in Nat
      BY <1>2, <1>3
    <3> QED
      BY <1>1, <1>5, <3>1, Product
  <2>2. (first + n) * BSize = first * BSize + n * BSize
    BY <1>1, <1>2, <1>3
  <2> DEFINE u == first * BSize
             v == n * BSize
             w == N * BSize
  <2>3. u \in Nat /\ v \in Nat /\ w \in Nat
    BY <1>1, <1>2, <1>3
  <2>4. w + BSize <= u + v /\ off = u + x /\ v < len + BSize /\ f.size <= w
    BY <1>2, <1>3, <1>4, <2>1, <2>2
  <2> HIDE DEF u, v, w
  <2> QED
    BY <1>1, <1>3, <2>3, <2>4
<1>6. first + n <= N
  BY <1>1, <1>2, <1>3, <1>5
<1> QED
  BY <1>6 DEF Listed, first, n, N

ReadsRight(f, off, len, r) ==
  /\ r.ok \in BOOLEAN /\ r.tmp \in Buffers /\ r.data \in [1 .. len -> Int]
  /\ Legible(f) =>
       /\ ~r.ok => EndsImage(f)
       /\ r.ok => \A k \in 1 .. len : r.data[k] = Content(f, off + k - 1)

LEMMA RawChunk ==
  ASSUME NEW f \in FileSet, ~f.compressed, NEW buf \in Buffers,
         NEW off \in Nat, off % Chunk = 0,
         NEW len \in 1 .. Chunk, off + len <= f.size
  PROVE  ReadsRight(f, off, len, FileRead(f, off, len, buf))
<1> DEFINE r == RawRead(f, off, len, buf)
<1>1. /\ Listing(f) /\ f.size <= Len(f.blocks) * BSize
      /\ f.blocks \in Seq(0 .. PhysBlocks - 1)
  BY FilesSound DEF FileSound, Listing
<1>2. Chunk \in Nat /\ BSize \in Nat \ {0} /\ len \in Nat \ {0}
  BY ReadConstants
<1>3. FileRead(f, off, len, buf) = r
  BY <1>1, <1>2 DEF FileRead, Listing
<1>4. Listed(f, off, len)
  BY <1>1, <1>2, RequestListed
<1> HIDE DEF r
<1>5. r.ok \in BOOLEAN /\ r.tmp \in Buffers /\ r.data \in [1 .. len -> Int]
      /\ (~r.ok => EndsImage(f))
  BY <1>1, <1>2, <1>4, RawReadType DEF r
<1>6. ASSUME r.ok, NEW k \in 1 .. len PROVE r.data[k] = Content(f, off + k - 1)
  <2>1. off + k - 1 < f.size
    BY <1>1, <1>2 DEF Listing
  <2>2. off + k - 1 < Len(f.blocks) * BSize
    <3>1. Len(f.blocks) * BSize \in Nat
      BY <1>1, <1>2
    <3> QED
      BY <1>1, <1>2, <2>1, <3>1 DEF Listing
  <2>3. (off % BSize) + ((k - 1) % BSize) < BSize
    BY <1>2, RawInBlock
  <2>4. r.data[k] = FilePos(f, off + k - 1)
    BY <1>1, <1>2, <1>4, <1>6, <2>1, <2>2, <2>3, Reaches DEF r
  <2> QED
    BY <2>4 DEF Content
<1> QED
  BY <1>3, <1>5, <1>6 DEF ReadsRight

(* What a block of a compressed file needs is inside the file.             *)
LEMMA BlockStored ==
  ASSUME NEW f \in FileSet, f.compressed, NEW b \in 0 .. BlocksFor(f.size, CSize) - 1,
         BlocksFor(f.size, CSize) \in Nat
  PROVE  LET o == f.offsets[b + 1] IN
         /\ Listing(f) /\ o \in Nat /\ Listed(f, o, CSize)
         /\ StoredLen(f, b) \in Nat /\ StoredLen(f, b) <= CSize
         /\ \A k \in 1 .. StoredLen(f, b) :
              /\ o + k - 1 \in Nat /\ o + k - 1 < Len(f.blocks) * BSize
              /\ Shrinks(f) => o + k - 1 < f.size
<1> DEFINE n == BlocksFor(f.size, CSize)
           o == f.offsets[b + 1]
           next == f.offsets[b + 2]
           end == f.offsets[n + 1]
<1>1. /\ f.blocks \in Seq(0 .. PhysBlocks - 1) /\ f.size \in Nat
      /\ f.offsets \in Seq(Nat) /\ Len(f.offsets) = n + 1
      /\ StoredLen(f, b) <= CSize /\ Listed(f, o, CSize)
      /\ \A i, j \in 1 .. n + 1 : i < j => f.offsets[i] <= f.offsets[j]
      /\ end <= Len(f.blocks) * BSize
  BY FilesSound DEF FileSound
<1> HIDE DEF n
<1>2. b + 1 \in 1 .. n + 1 /\ b + 2 \in 1 .. n + 1 /\ n + 1 \in 1 .. n + 1 /\ n \in Nat
  BY DEF n
<1>3. o \in Nat /\ next \in Nat /\ end \in Nat
  BY <1>1, <1>2, Element
<1>4. o <= next /\ next <= end
  BY <1>1, <1>2, <1>3
<1>5. StoredLen(f, b) = next - o
  BY DEF StoredLen
<1>6. Shrinks(f) => end <= f.size
  BY <1>1 DEF Shrinks
<1>7. Len(f.blocks) * BSize \in Nat
  <2>1. Len(f.blocks) \in Nat
    BY <1>1
  <2> QED
    BY <2>1, ReadConstants
<1>8. Listing(f)
  BY <1>1 DEF Listing
<1> DEFINE room == Len(f.blocks) * BSize
<1>9. end <= room
  BY <1>1
<1> HIDE DEF o, next, end, room
<1>10. \A k \in 1 .. next - o : /\ o + k - 1 \in Nat /\ o + k - 1 < room
                                /\ Shrinks(f) => o + k - 1 < f.size
  BY <1>1, <1>3, <1>4, <1>6, <1>7, <1>9 DEF room
<1>11. /\ StoredLen(f, b) \in Nat
       /\ \A k \in 1 .. StoredLen(f, b) :
            /\ o + k - 1 \in Nat /\ o + k - 1 < room
            /\ Shrinks(f) => o + k - 1 < f.size
  BY <1>3, <1>4, <1>5, <1>10
<1>12. Listed(f, o, CSize) /\ StoredLen(f, b) <= CSize
  BY <1>1
<1> QED
  BY <1>3, <1>8, <1>11, <1>12 DEF o, room

LEMMA CompressedChunk ==
  ASSUME NEW f \in FileSet, f.compressed, NEW buf \in Buffers,
         NEW off \in Nat, off % Chunk = 0,
         NEW len \in 1 .. Chunk, off + len <= f.size
  PROVE  ReadsRight(f, off, len, FileRead(f, off, len, buf))
<1> DEFINE b == off \div CSize
           x == off % CSize
           n == BlocksFor(f.size, CSize)
           o == f.offsets[b + 1]
           raw == RawRead(f, o, CSize, buf)
           stored == StoredLen(f, b) = CSize
           block == IF stored THEN raw.data
                    ELSE [k \in 1 .. CSize |-> Plain(b * CSize + k - 1)]
           data == [k \in 1 .. len |-> block[x + k]]
           r == FileRead(f, off, len, buf)
<1>1. /\ CSize \in Nat \ {0} /\ Chunk \in Nat \ {0} /\ CSize % Chunk = 0
      /\ BSize \in Nat \ {0} /\ PhysBlocks \in Nat \ {0} /\ f.size \in Nat
  BY ReadConstants, FilesSound DEF FileSound
<1>2. b \in Nat /\ x \in 0 .. CSize - 1 /\ off = b * CSize + x
  BY <1>1, Split
<1>3. x + Chunk <= CSize
  BY <1>1, ChunkFits
<1>4. n \in Nat /\ b \in 0 .. n - 1
  <2> DEFINE y == f.size + CSize - 1
             z == y % CSize
  <2>1. y \in Nat /\ n = y \div CSize
    BY <1>1 DEF BlocksFor
  <2>2. n \in Nat /\ z \in 0 .. CSize - 1 /\ y = n * CSize + z
    <3> HIDE DEF y
    <3> QED
      BY <1>1, <2>1, Split
  <2>3. ASSUME n <= b PROVE FALSE
    <3>1. n * CSize \in Nat /\ b * CSize \in Nat /\ n * CSize <= b * CSize
      <4>1. n = b \/ n < b
        BY <1>2, <2>2, <2>3
      <4>2. n * CSize \in Nat /\ b * CSize \in Nat
        BY <1>1, <1>2, <2>2
      <4> HIDE DEF n, b
      <4> QED
        BY <1>1, <1>2, <2>2, <4>1, <4>2, Product
    <3> DEFINE u == n * CSize
               v == b * CSize
    <3>2. u \in Nat /\ v \in Nat /\ u <= v /\ off = v + x /\ f.size + CSize - 1 = u + z
      BY <1>2, <2>2, <3>1
    <3> HIDE DEF u, v, z, x
    <3> QED
      BY <1>1, <1>2, <2>2, <3>2
  <2> HIDE DEF n, b
  <2> QED
    BY <1>2, <2>2, <2>3
<1> HIDE DEF b, x, n
<1>5. /\ Listing(f) /\ o \in Nat /\ Listed(f, o, CSize)
      /\ StoredLen(f, b) \in Nat /\ StoredLen(f, b) <= CSize
      /\ \A k \in 1 .. StoredLen(f, b) :
           /\ o + k - 1 \in Nat /\ o + k - 1 < Len(f.blocks) * BSize
           /\ Shrinks(f) => o + k - 1 < f.size
  BY <1>4, BlockStored DEF n
<1> HIDE DEF o
<1>6. raw.ok \in BOOLEAN /\ raw.tmp \in Buffers /\ raw.data \in [1 .. CSize -> Int]
      /\ (~raw.ok => EndsImage(f))
  BY <1>1, <1>5, RawReadType
<1>7. ASSUME Legible(f), raw.ok, NEW k \in 1 .. StoredLen(f, b)
      PROVE  raw.data[k] = FilePos(f, o + k - 1)
  <2>1. Contiguous(f) /\ Shrinks(f) /\ k \in 1 .. CSize
    BY <1>1, <1>5, <1>7 DEF Legible
  <2> QED
    BY <1>1, <1>5, <1>7, <2>1, Reaches
<1> HIDE DEF raw
<1>8. r = [ok |-> raw.ok /\ (stored \/ Whole(f, b, raw.data)), tmp |-> raw.tmp, data |-> data]
  BY <1>1 DEF FileRead, CompressedRead, b, x, o, raw
<1> HIDE DEF r
<1>9. \A k \in 1 .. CSize : block[k] \in Int
  <2>1. \A k \in 1 .. CSize : Plain(b * CSize + k - 1) \in Int
    BY <1>1, <1>2 DEF Plain
  <2> QED
    BY <1>6, <2>1
<1> HIDE DEF block
<1>10. \A k \in 1 .. len : x + k \in 1 .. CSize
  BY <1>1, <1>2, <1>3
<1>11. data \in [1 .. len -> Int]
  BY <1>9, <1>10
<1>12. r.ok \in BOOLEAN /\ r.tmp \in Buffers /\ r.data = data
  <2>1. Whole(f, b, raw.data) \in BOOLEAN /\ stored \in BOOLEAN
    BY DEF Whole
  <2> HIDE DEF stored, data
  <2> QED
    BY <1>6, <1>8, <2>1
<1>13. ASSUME Legible(f), ~r.ok PROVE EndsImage(f)
  <2>1. raw.ok => Whole(f, b, raw.data)
    BY <1>7, <1>13 DEF Whole, o
  <2>2. ~raw.ok
    BY <1>8, <1>13, <2>1
  <2> QED
    BY <1>6, <2>2
<1>14. ASSUME Legible(f), r.ok, NEW k \in 1 .. len
       PROVE  r.data[k] = Content(f, off + k - 1)
  <2> DEFINE p == off + k - 1
  <2>1. r.data[k] = block[x + k]
    BY <1>12
  <2>2. p \div CSize = b /\ p % CSize = x + k - 1 /\ p = b * CSize + (x + k - 1)
    <3> DEFINE z == x + k - 1
    <3>1. z \in 0 .. CSize - 1
      <4>1. x + k \in 1 .. CSize
        BY <1>10
      <4> QED
        BY <1>1, <1>2, <4>1
    <3>2. p = b * CSize + z
      <4>1. b * CSize \in Nat
        BY <1>1, <1>2
      <4> QED
        BY <1>1, <1>2, <4>1
    <3> HIDE DEF z
    <3>3. (b * CSize + z) \div CSize = b /\ (b * CSize + z) % CSize = z
      BY <1>1, <1>2, <3>1, Quotient
    <3> HIDE DEF p
    <3> QED
      BY <3>2, <3>3 DEF z
  <2> HIDE DEF p
  <2>3. CASE stored
    <3>1. raw.ok
      BY <1>8, <1>14
    <3>2. block[x + k] = raw.data[x + k]
      BY <2>3 DEF block
    <3>3. raw.data[x + k] = FilePos(f, o + (x + k) - 1)
      BY <1>7, <1>10, <1>14, <2>3, <3>1
    <3>4. Content(f, p) = FilePos(f, o + (x + k - 1))
      BY <2>2, <2>3 DEF Content, o
    <3>5. o + (x + k) - 1 = o + (x + k - 1)
      BY <1>1, <1>2, <1>5
    <3> QED
      BY <2>1, <3>2, <3>3, <3>4, <3>5 DEF p
  <2>4. CASE ~stored
    <3>1. Content(f, p) = Plain(p)
      BY <2>2, <2>4 DEF Content
    <3>2. block[x + k] = Plain(b * CSize + (x + k) - 1)
      BY <1>10, <2>4 DEF block
    <3>3. b * CSize + (x + k) - 1 = p
      <4>1. b * CSize \in Nat
        BY <1>1, <1>2
      <4> QED
        BY <1>1, <1>2, <2>2, <4>1
    <3> QED
      BY <2>1, <3>1, <3>2, <3>3 DEF p
  <2> QED
    BY <2>3, <2>4
<1> QED
  BY <1>11, <1>12, <1>13, <1>14 DEF ReadsRight, r

LEMMA ChunkIsRead ==
  ASSUME NEW f \in FileSet, NEW buf \in Buffers, NEW off \in Nat, off % Chunk = 0,
         NEW len \in 1 .. Chunk, off + len <= f.size
  PROVE  ReadsRight(f, off, len, FileRead(f, off, len, buf))
BY RawChunk, CompressedChunk

-----------------------------------------------------------------------------
(* The copy loop *)

LEMMA AfterChunk ==
  ASSUME NEW off \in Nat, off % Chunk = 0
  PROVE  (off + Chunk) % Chunk = 0
<1> DEFINE c == off \div Chunk
<1>1. Chunk \in Nat \ {0}
  BY ReadConstants
<1>2. c \in Nat /\ off = c * Chunk
  BY <1>1, Split
<1> HIDE DEF c
<1>3. off + Chunk = (c + 1) * Chunk + 0 /\ c + 1 \in Nat
  BY <1>1, <1>2
<1>4. ((c + 1) * Chunk + 0) % Chunk = 0
  <2> DEFINE d == c + 1
  <2>1. d \in Nat
    BY <1>2
  <2> HIDE DEF d
  <2>2. (d * Chunk + 0) % Chunk = 0
    BY <1>1, <2>1, Quotient
  <2> QED
    BY <2>2 DEF d
<1> QED
  BY <1>3, <1>4, Zenon

LEMMA CInvInit == Init => CInv
<1> SUFFICES ASSUME Init PROVE CInv
  OBVIOUS
<1>1. /\ file \in FileSet /\ offset = 0 /\ out = <<>> /\ pc = "open"
      /\ tmp = [k \in 0 .. 2 * BSize - 1 |-> Unset]
  BY DEF Init
<1>2. file.size \in Nat /\ Chunk \in Nat \ {0}
  BY <1>1, FilesSound, ReadConstants DEF FileSound
<1>3. tmp \in Buffers
  BY <1>1 DEF Buffers, Unset
<1>4. offset % Chunk = 0
  <2>1. (0 * Chunk + 0) % Chunk = 0
    BY <1>2, Quotient
  <2> QED
    BY <1>1, <1>2, <2>1
<1>5. out \in Seq(Int) /\ offset = Len(out) /\ offset <= file.size
  BY <1>1, <1>2
<1>6. Underway
  BY <1>1, <1>3, <1>4, <1>5 DEF Underway
<1>7. WrittenRight
  BY <1>1 DEF WrittenRight
<1> QED
  BY <1>6, <1>7 DEF CInv

LEMMA OpenStep ==
  ASSUME CInv, Open
  PROVE  CInv'
<1> DEFINE header == ReadBlocks(file.blocks[1], 1, tmp)
           r == IF file.compressed
                THEN RawRead(file, file.table.off, file.table.len, header)
                ELSE [ok |-> TRUE, tmp |-> tmp]
<1>1. /\ pc = "open" /\ tmp' = r.tmp /\ pc' = (IF r.ok THEN "read" ELSE "failed")
      /\ UNCHANGED <<file, chunk, offset, out>>
  BY DEF Open
<1>2. file \in FileSet /\ tmp \in Buffers /\ FileSound(file)
  BY FilesSound DEF CInv, Underway
<1>3. r.tmp \in Buffers /\ (~r.ok => EndsImage(file))
  <2>1. CASE file.compressed
    <3>1. /\ Listing(file) /\ Listed(file, file.table.off, file.table.len)
          /\ file.table.off \in Nat /\ file.table.len \in Nat
      BY <1>2, <2>1 DEF FileSound, Listing
    <3>2. file.blocks[1] \in Nat
      <4>1. file.blocks \in Seq(0 .. PhysBlocks - 1) /\ 1 \in 1 .. Len(file.blocks)
        BY <1>2, <2>1 DEF FileSound
      <4>2. file.blocks[1] \in 0 .. PhysBlocks - 1
        BY <4>1, Element
      <4> QED
        BY <4>2
    <3>3. header \in Buffers
      BY <1>2, <3>2, BlockIsRead
    <3> HIDE DEF header
    <3>4. r = RawRead(file, file.table.off, file.table.len, header)
      BY <2>1
    <3> HIDE DEF r
    <3> QED
      BY <3>1, <3>3, <3>4, RawReadType
  <2>2. CASE ~file.compressed
    BY <1>2, <2>2
  <2> QED
    BY <2>1, <2>2
<1> HIDE DEF r
<1>4. Underway'
  BY <1>1, <1>3 DEF CInv, Underway
<1>5. WrittenRight'
  BY <1>1, <1>3 DEF CInv, WrittenRight
<1> QED
  BY <1>4, <1>5 DEF CInv

LEMMA ReadStep ==
  ASSUME CInv, ReadChunk
  PROVE  CInv'
<1> DEFINE r == FileRead(file, offset, ChunkLen, tmp)
<1>1. /\ pc = "read" /\ offset < file.size /\ tmp' = r.tmp
      /\ chunk' = (IF r.ok THEN r.data ELSE chunk)
      /\ pc' = (IF r.ok THEN "write" ELSE "failed")
      /\ UNCHANGED <<file, offset, out>>
  BY DEF ReadChunk, ChunkLen
<1>2. /\ file \in FileSet /\ tmp \in Buffers /\ out \in Seq(Int)
      /\ offset \in Nat /\ offset = Len(out) /\ offset <= file.size
      /\ offset % Chunk = 0 \/ offset = file.size
  BY DEF CInv, Underway
<1>3. file.size \in Nat /\ Chunk \in Nat \ {0}
  BY <1>2, FilesSound, ReadConstants DEF FileSound
<1>4. offset % Chunk = 0
  BY <1>1, <1>2, <1>3
<1>5. ChunkLen \in 1 .. Chunk /\ offset + ChunkLen <= file.size
  BY <1>1, <1>2, <1>3 DEF ChunkLen, Lower
<1>6. ReadsRight(file, offset, ChunkLen, r)
  <2> HIDE DEF ChunkLen
  <2> QED
    BY <1>2, <1>4, <1>5, ChunkIsRead
<1> HIDE DEF r
<1>7. ChunkLen' = ChunkLen
  BY <1>1 DEF ChunkLen
<1>8. Underway'
  <2>1. ASSUME r.ok
        PROVE  /\ chunk' \in [1 .. ChunkLen -> Int]
               /\ Legible(file) =>
                    \A k \in DOMAIN chunk' : chunk'[k] = Content(file, offset + k - 1)
    BY <1>1, <1>6, <2>1 DEF ReadsRight
  <2> HIDE DEF ChunkLen
  <2>2. tmp' \in Buffers
    BY <1>1, <1>6 DEF ReadsRight
  <2> QED
    BY <1>1, <1>2, <1>7, <2>1, <2>2 DEF Underway
<1>9. WrittenRight'
  BY <1>1, <1>6 DEF CInv, WrittenRight, ReadsRight
<1> QED
  BY <1>8, <1>9 DEF CInv

LEMMA WriteStep ==
  ASSUME CInv, WriteChunk
  PROVE  CInv'
<1>1. /\ pc = "write" /\ out' = out \o chunk /\ offset' = offset + Len(chunk)
      /\ pc' = "read" /\ UNCHANGED <<file, tmp, chunk>>
  BY DEF WriteChunk
<1>2. /\ file \in FileSet /\ tmp \in Buffers /\ out \in Seq(Int)
      /\ offset \in Nat /\ offset = Len(out) /\ offset < file.size
      /\ offset % Chunk = 0 \/ offset = file.size
      /\ chunk \in [1 .. ChunkLen -> Int]
  BY <1>1 DEF CInv, Underway
<1>3. file.size \in Nat /\ Chunk \in Nat \ {0}
  BY <1>2, FilesSound, ReadConstants DEF FileSound
<1>4. ChunkLen \in Nat /\ offset + ChunkLen <= file.size
      /\ (ChunkLen = Chunk \/ offset + ChunkLen = file.size)
  BY <1>2, <1>3 DEF ChunkLen, Lower
<1>5. chunk \in Seq(Int) /\ Len(chunk) = ChunkLen /\ DOMAIN chunk = 1 .. ChunkLen
  <2> HIDE DEF ChunkLen
  <2> QED
    BY <1>2, <1>4
<1>6. /\ out' \in Seq(Int) /\ Len(out') = offset + ChunkLen
      /\ \A k \in 1 .. Len(out) : out'[k] = out[k]
      /\ \A k \in 1 .. Len(chunk) : out'[Len(out) + k] = chunk[k]
  BY <1>1, <1>2, <1>5, Behind
<1>7. offset' % Chunk = 0 \/ offset' = file.size
  <2>1. (offset + Chunk) % Chunk = 0
    BY <1>2, <1>3, AfterChunk
  <2>2. offset' = offset + ChunkLen
    BY <1>1, <1>5
  <2> QED
    BY <1>4, <2>1, <2>2, Zenon
<1>8. Underway'
  BY <1>1, <1>2, <1>4, <1>5, <1>6, <1>7 DEF Underway
<1>9. ASSUME Legible(file), NEW o \in 1 .. offset + ChunkLen
      PROVE  out'[o] = Content(file, o - 1)
  <2>1. CASE o <= offset
    <3>1. o \in 1 .. Len(out) /\ DOMAIN out = 1 .. Len(out)
      BY <1>2, <1>4, <2>1
    <3>2. out[o] = Content(file, o - 1)
      BY <1>9, <3>1 DEF CInv, WrittenRight
    <3> QED
      BY <1>6, <3>1, <3>2
  <2>2. CASE o > offset
    <3> DEFINE k == o - offset
    <3>1. k \in 1 .. ChunkLen /\ o = offset + k /\ offset + k - 1 = o - 1
      BY <1>2, <1>4, <2>2
    <3> HIDE DEF k, ChunkLen
    <3>2. chunk[k] = Content(file, offset + k - 1)
      BY <1>1, <1>5, <1>9, <3>1 DEF CInv, Underway
    <3>3. out'[offset + k] = chunk[k]
      BY <1>2, <1>5, <1>6, <3>1
    <3> QED
      BY <3>1, <3>2, <3>3
  <2> QED
    BY <1>2, <1>4, <2>1, <2>2
<1>10. WrittenRight'
  <2>1. DOMAIN out' = 1 .. offset + ChunkLen
    BY <1>6
  <2> HIDE DEF ChunkLen
  <2> QED
    BY <1>1, <1>9, <2>1 DEF WrittenRight
<1> QED
  BY <1>8, <1>10 DEF CInv

LEMMA EndStep ==
  ASSUME CInv, EndOfFile
  PROVE  CInv'
BY DEF CInv, Underway, WrittenRight, EndOfFile, ChunkLen

(* Whatever the sizes and however the blocks of a file lie, unpacking it   *)
(* writes its own data in order, all of it once it is done, and fails only *)
(* at the end of the image (pfs_io.c:258-302, 356-470, pfs.cpp:594-690).   *)
THEOREM WritesRight == Spec => []WrittenRight
<1>1. Init => CInv
  BY CInvInit
<1>2. CInv /\ [Next]_vars => CInv'
  <2> SUFFICES ASSUME CInv, [Next]_vars PROVE CInv'
    OBVIOUS
  <2>1. CASE Open
    BY <2>1, OpenStep
  <2>2. CASE ReadChunk
    BY <2>2, ReadStep
  <2>3. CASE WriteChunk
    BY <2>3, WriteStep
  <2>4. CASE EndOfFile
    BY <2>4, EndStep
  <2>5. CASE UNCHANGED vars
    BY <2>5 DEF CInv, Underway, WrittenRight, ChunkLen, vars
  <2> QED
    BY <2>1, <2>2, <2>3, <2>4, <2>5 DEF Next
<1>3. CInv => WrittenRight
  BY DEF CInv
<1> QED
  BY <1>1, <1>2, <1>3, PTL DEF Spec
=============================================================================
