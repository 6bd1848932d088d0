----------------------------- MODULE PfsReadProps -----------------------------
(***************************************************************************)
(* What unpacking a file should give.                                      *)
(***************************************************************************)
EXTENDS PfsRead

Content(f, o) ==
  IF f.compressed /\ StoredLen(f, o \div CSize) # CSize THEN Plain(o)
  ELSE IF f.compressed
  THEN FilePos(f, f.offsets[o \div CSize + 1] + (o % CSize))
  ELSE FilePos(f, o)
Contiguous(f) ==
  \A i \in 2 .. Len(f.blocks) : f.blocks[i] = f.blocks[i - 1] + 1

(* The blocks that are followed by another block of the file.  A read that *)
(* wants two blocks fails exactly if the first is the last of the image.   *)
EndsImage(f) == \E i \in 1 .. Len(f.blocks) - 1 : f.blocks[i] = PhysBlocks - 1

(* pfs_file_read_raw goes by the uncompressed size also in a compressed    *)
(* file (pfs_io.c:287), and such a file must lie in consecutive blocks.    *)
Shrinks(f) == f.offsets[Len(f.offsets)] <= f.size
Legible(f) == f.compressed => Contiguous(f) /\ Shrinks(f)

(* Blocks of an uncompressed file may lie anywhere: what is written is the *)
(* file's own data, from the start and without a gap, however the reads    *)
(* fall on its blocks (pfs_io.c:291) and whatever an earlier read left in  *)
(* the buffer; and it is all of it once the copy is done.  The copy fails  *)
(* only at the end of the image: it gets through partial blocks and empty  *)
(* files.                                                                  *)
WrittenRight ==
  Legible(file) =>
    /\ \A o \in DOMAIN out : out[o] = Content(file, o - 1)
    /\ pc = "done" => Len(out) = file.size
    /\ pc = "failed" => EndsImage(file)

(* Why: chunks are read in order, each from a multiple of CHUNK_SIZE, so   *)
(* that none lies across the edge of a block larger than it; and the chunk *)
(* that is about to be written is the one of its offset.                   *)
Buffers == [0 .. 2 * BSize - 1 -> Int]
ChunkLen == Lower(Chunk, file.size - offset)
Underway ==
  /\ file \in FileSet /\ tmp \in Buffers /\ out \in Seq(Int)
  /\ offset = Len(out) /\ offset <= file.size
  /\ offset % Chunk = 0 \/ offset = file.size
  /\ pc \in {"open", "read", "write", "done", "failed"}
  /\ pc = "open" => offset = 0
  /\ pc = "done" => offset = file.size
  /\ pc = "write" =>
       /\ offset < file.size /\ chunk \in [1 .. ChunkLen -> Int]
       /\ Legible(file) => \A k \in DOMAIN chunk : chunk[k] = Content(file, offset + k - 1)
CInv == Underway /\ WrittenRight
=============================================================================
