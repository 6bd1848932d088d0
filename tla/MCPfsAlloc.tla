----------------------------- MODULE MCPfsAlloc -----------------------------
(***************************************************************************)
(* Seven blocks, two files, one direct slot and two behind the indirect    *)
(* block.  Blocks 2 and 5 belong to the backup generation, one marked in   *)
(* the bitmap only and one in the BAT only; a block in use may be marked   *)
(* in the BAT only as well.                                                *)
(***************************************************************************)
EXTENDS PfsAllocProps

MCFiles == {1, 2}
MCIndFlag == 16

(* The image in which file i has the pointers p[i] *)
Image(p, n, unmapped) ==
  LET used == {p[i][k] : i \in Files, k \in Slots} \ {0}
      owner(b) == CHOOSE o \in Owners : \E i \in Files, k \in Slots :
                    /\ p[i][k] = b
                    /\ o = IF k < NDirect \/ k = IndSlot THEN i
                           ELSE IndFlag + p[i][IndSlot]
  IN [bitmap |-> [b \in Blocks |-> b \in (used \cup {0, 2}) \ unmapped],
      bat |-> [b \in Blocks |-> IF b \in used THEN owner(b)
                                ELSE IF b = 5 THEN IndFlag + 5 ELSE NoOwner],
      ptr |-> p, cnt |-> n, kept |-> {2, 5}]

Pointers(s) == [k \in Slots |-> s[k + 1]]
MCImages ==
  {Image([i \in Files |-> NoBlocks], [i \in Files |-> 0], {}),
   Image([i \in Files |-> IF i = 1 THEN Pointers(<<3, 0, 0, 0>>)
                                   ELSE Pointers(<<6, 1, 0, 4>>)],
         [i \in Files |-> i], {6, 4})}
=============================================================================
