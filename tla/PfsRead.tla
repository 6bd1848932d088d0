------------------------------- MODULE PfsRead -------------------------------
(***************************************************************************)
(* Reading a file of a PFS image chunk by chunk, as unpacking does         *)
(* (pfs.cpp 456-537, 594-690; pfs_io.c 258-302, 356-470, 514-549).         *)
(*                                                                         *)
(* A file is the list of its blocks.  The unit at position p of the image  *)
(* is the number p itself, so data is right if it comes from the right     *)
(* place.  A compressed file holds blocks of CSize units, each either      *)
(* stored or compressed; offsets says where each begins in the file.       *)
(***************************************************************************)
EXTENDS Integers, Sequences

CONSTANTS
  BSize,      \* basic_block_size
  CSize,      \* block size of compressed files
  Chunk,      \* CHUNK_SIZE of the copy loop
  Direct,     \* PFS_DIRECT_BLOCK_MAX_COUNT
  PhysBlocks, \* blocks of the image
  FileSet     \* the files
(* The sizes are powers of two, and a chunk is no larger than a compressed *)
(* block.                                                                  *)
ASSUME ReadConstants == /\ BSize \in Nat \ {0} /\ CSize \in Nat \ {0}
                        /\ Chunk \in Nat \ {0} /\ PhysBlocks \in Nat \ {0}
                        /\ Direct \in Nat /\ CSize % Chunk = 0
                        /\ BSize % Chunk = 0 \/ Chunk % BSize = 0

VARIABLES
  file,    \* struct pfs_file_context: blocks, file_size, compressed, offsets,
           \* and where the table of the offsets is
  tmp,     \* file->tmp_block, two blocks; keeps what the last read left
  chunk,   \* the chunk buffer
  offset,  \* of the next chunk
  out,     \* what has been written to the host file
  pc       \* "open", "read", "write", "done", "failed"
vars == <<file, tmp, chunk, offset, out, pc>>

Unset == -1
Lower(a, b) == IF a < b THEN a ELSE b
BlocksFor(n, size) == (n + size - 1) \div size   \* align_up, then shift
ImageUnit(block, k) == block * BSize + k

(* pfs_read_blocks through pfs_read_cb: nothing is read past the end of    *)
(* the image; the rest of the buffer keeps its contents.                   *)
CanRead(block, n) == block + n <= PhysBlocks
ReadBlocks(block, n, buf) ==
  [k \in DOMAIN buf |-> IF k < n * BSize THEN ImageUnit(block, k) ELSE buf[k]]

(* pfs_file_read_raw.  With an offset inside a block two blocks are read   *)
(* at once, the second being the physically next one; then the file's last *)
(* block is read alone.  How much of a block is copied goes by the         *)
(* uncompressed size, also where the blocks are those of a compressed      *)
(* file: nothing beyond that size, if the size is a multiple of a block.   *)
FirstBlock(off) == off \div BSize
BlockLen(size, lbn) ==
  IF lbn < Direct /\ size < (lbn + 1) * BSize /\ size % BSize = 0 THEN 0 ELSE BSize
ReadCount(f, off, i) ==
  IF off % BSize > 0 /\ i + 1 < Len(f.blocks) THEN 2 ELSE 1
(* Faulty variant: the offset inside the block forgotten *)
CopiedFromStart(buf, off, size) == [k \in 1 .. size |-> buf[k - 1]]
Copied(buf, off, size) == [k \in 1 .. size |-> buf[(off % BSize) + k - 1]]
Filled(data, len) ==   \* what is not copied keeps what the buffer held
  [k \in 1 .. len |-> IF k <= Len(data) THEN data[k] ELSE Unset]
ReadBlock(f, off, len, i, was) ==   \* the body of the loop
  LET block == f.blocks[i + 1]
      count == ReadCount(f, off, i)
      size == Lower(BlockLen(f.size, i), len - Len(was.data))
      now == ReadBlocks(block, count, was.tmp)
  IN IF was.ok /\ CanRead(block, count)
     THEN [ok |-> TRUE, tmp |-> now, data |-> was.data \o Copied(now, off, size)]
     ELSE [was EXCEPT !.ok = FALSE]
BlockByBlock(f, off, len, buf) ==   \* after 0, 1, ... blocks
  LET n == BlocksFor(len, BSize)
      after[k \in 0 .. n] ==
        IF k = 0 THEN [ok |-> n <= Len(f.blocks), tmp |-> buf, data |-> <<>>]
        ELSE ReadBlock(f, off, len, FirstBlock(off) + k - 1, after[k - 1])
  IN after
RawRead(f, off, len, buf) ==
  [BlockByBlock(f, off, len, buf)[BlocksFor(len, BSize)] EXCEPT !.data = Filled(@, len)]

-----------------------------------------------------------------------------
(* Compressed files.  Plain(o) is the unit at offset o of the file; zlib   *)
(* gives a block's units back if it is given that block, and fails         *)
(* otherwise.                                                              *)
FilePos(f, off) == ImageUnit(f.blocks[off \div BSize + 1], off % BSize)
Plain(o) == PhysBlocks * BSize + o
StoredLen(f, b) == f.offsets[b + 2] - f.offsets[b + 1]
Whole(f, b, data) ==
  \A k \in 1 .. StoredLen(f, b) : data[k] = FilePos(f, f.offsets[b + 1] + k - 1)
(* pfs_file_read_compressed for a request that lies within one block       *)
CompressedRead(f, off, len, buf) ==
  LET b == off \div CSize
      raw == RawRead(f, f.offsets[b + 1], CSize, buf)
      stored == StoredLen(f, b) = CSize
      block == IF stored THEN raw.data
               ELSE [k \in 1 .. CSize |-> Plain(b * CSize + k - 1)]
  IN [ok |-> raw.ok /\ (stored \/ Whole(f, b, raw.data)), tmp |-> raw.tmp,
      data |-> [k \in 1 .. len |-> block[(off % CSize) + k]]]

FileRead(f, off, len, buf) ==
  IF off + len > f.size THEN [ok |-> FALSE, tmp |-> buf, data |-> <<>>]
  ELSE IF f.compressed THEN CompressedRead(f, off, len, buf)
  ELSE RawRead(f, off, len, buf)

-----------------------------------------------------------------------------
(* A file of an image.  Whoever reads a compressed block asks for CSize    *)
(* units from where it begins, and the block list is not asked how long it *)
(* is.                                                                     *)
Listed(f, off, len) == FirstBlock(off) + BlocksFor(len, BSize) <= Len(f.blocks)
FileSound(f) ==
  /\ f.blocks \in Seq(0 .. PhysBlocks - 1) /\ f.size \in Nat /\ f.compressed \in BOOLEAN
  /\ ~f.compressed => f.size <= Len(f.blocks) * BSize
  /\ f.compressed =>
       LET n == BlocksFor(f.size, CSize) IN
       /\ f.blocks # <<>>
       /\ f.table.off \in Nat /\ f.table.len \in Nat /\ Listed(f, f.table.off, f.table.len)
       /\ f.offsets \in Seq(Nat) /\ Len(f.offsets) = n + 1
       /\ \A b \in 0 .. n - 1 :
            StoredLen(f, b) <= CSize /\ Listed(f, f.offsets[b + 1], CSize)
       /\ \A b, c \in 1 .. n + 1 : b < c => f.offsets[b] <= f.offsets[c]
       /\ f.offsets[n + 1] <= Len(f.blocks) * BSize
ASSUME FilesSound == \A f \in FileSet : FileSound(f)

Init ==
  /\ file \in FileSet
  /\ tmp = [k \in 0 .. 2 * BSize - 1 |-> Unset]
  /\ chunk = <<>> /\ offset = 0 /\ out = <<>> /\ pc = "open"

(* pfs_get_file_ex: header and block table of a compressed file are read   *)
(* into the same buffer as its data.                                       *)
Open ==
  /\ pc = "open"
  /\ LET header == ReadBlocks(file.blocks[1], 1, tmp)
         r == IF file.compressed
              THEN RawRead(file, file.table.off, file.table.len, header)
              ELSE [ok |-> TRUE, tmp |-> tmp]
     IN /\ tmp' = r.tmp
        /\ pc' = IF r.ok THEN "read" ELSE "failed"
  /\ UNCHANGED <<file, chunk, offset, out>>

ReadChunk ==
  /\ pc = "read" /\ offset < file.size
  /\ LET r == FileRead(file, offset, Lower(Chunk, file.size - offset), tmp)
     IN /\ tmp' = r.tmp
        /\ chunk' = IF r.ok THEN r.data ELSE chunk
        /\ pc' = IF r.ok THEN "write" ELSE "failed"
  /\ UNCHANGED <<file, offset, out>>

WriteChunk ==
  /\ pc = "write"
  /\ out' = out \o chunk /\ offset' = offset + Len(chunk)
  /\ pc' = "read"
  /\ UNCHANGED <<file, tmp, chunk>>

EndOfFile ==
  /\ pc = "read" /\ offset = file.size
  /\ pc' = "done"
  /\ UNCHANGED <<file, tmp, chunk, offset, out>>

Next == Open \/ ReadChunk \/ WriteChunk \/ EndOfFile
Spec == Init /\ [][Next]_vars
=============================================================================
