------------------------------ MODULE MCPfsRead ------------------------------
(***************************************************************************)
(* Blocks of four units, chunks of two; files of up to three blocks in any *)
(* places, of every size; compressed files of three blocks with a header   *)
(* and a table of one unit each, every block of which is stored or         *)
(* compressed; and small ones that do not get smaller.                     *)
(***************************************************************************)
EXTENDS PfsReadProps

Distinct(p) == \A i, j \in DOMAIN p : p[i] = p[j] => i = j
Places == {p \in UNION {[1 .. n -> 0 .. PhysBlocks - 1] : n \in 1 .. 3} : Distinct(p)}
RawFile(p, n) == [blocks |-> p, size |-> n, compressed |-> FALSE]
MCRaw == UNION {{RawFile(p, n) : n \in (Len(p) - 1) * BSize + 1 .. Len(p) * BSize} :
                  p \in Places}

Triples == {p \in Places : Len(p) = 3}
PackedFile(p, n, offsets) ==
  [blocks |-> p, size |-> n, compressed |-> TRUE,
   table |-> [off |-> 1, len |-> 1], offsets |-> offsets]
Lens == {l \in (1 .. CSize) \X (1 .. CSize) \X (1 .. CSize) :
           l[1] + l[2] + l[3] <= 3 * BSize - 2}
MCCompressed ==
  {PackedFile(p, n, <<2, 2 + l[1], 2 + l[1] + l[2], 2 + l[1] + l[2] + l[3]>>) :
     p \in Triples, n \in {3 * CSize - 3, 3 * CSize}, l \in Lens}
MCGrown ==
  {PackedFile(p, n, <<o, o + l>>) :
     p \in Triples, n \in {CSize - 1, CSize}, o \in {2, BSize}, l \in 1 .. CSize}

MCEmpty == {RawFile(<<0>>, 0)}
MCFiles == MCRaw \cup MCCompressed \cup MCGrown \cup MCEmpty
=============================================================================
