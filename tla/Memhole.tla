------------------------------- MODULE Memhole -------------------------------
(***************************************************************************)
(* Memory-hole removal (patch_memhole, elfdowngrade.c 53-397): writable    *)
(* segments are moved down until no hole is left between them, and the     *)
(* addresses in the file that point into a moved segment are shifted.      *)
(*                                                                         *)
(* An address that the file holds is a pointer: where it is (file offset), *)
(* what it is part of (kind), its value.  An instruction's displacement is *)
(* the address it resolves to.                                             *)
(***************************************************************************)
EXTENDS Integers, Sequences, FiniteSets, SequencesExt

CONSTANTS
  Elfs,   \* executables: program headers and pointers
  Align   \* MEMHOLE_ALIGN
ASSUME AlignIsPositive == Align \in Nat \ {0}

VARIABLES
  elf,     \* the executable as it was read
  phdrs,   \* its program headers now
  ptrs,    \* the values of its pointers now
  segs,    \* indices into phdrs: the segments to compact, by address
  pair,    \* segs[pair] and segs[pair + 1] are being looked at
  range,   \* addresses that the last move changed, and by how much
  pc
vars == <<elf, phdrs, ptrs, segs, pair, range, pc>>

AlignUp(n) == ((n + Align - 1) \div Align) * Align
End(ph) == ph.vaddr + ph.msz
InFile(at, ph) == at >= ph.off /\ at < ph.off + ph.fsz
Text(ph) == ph.type = "LOAD" /\ ph.exec
Writable(ph) == (ph.type = "LOAD" /\ ~ph.exec) \/ ph.type = "RELRO"
NoRange == [start |-> 0, end |-> -1, diff |-> 0]

-----------------------------------------------------------------------------
(* Which segments, and in which order                                      *)

(* A header that shares an address with one collected so far comes along   *)
PullIn(p, set, i) ==
  IF \E j \in set : p[j].paddr = p[i].paddr \/ p[j].vaddr = p[i].vaddr
  THEN set \cup {i} ELSE set
Collected(p) ==
  FoldLeft(LAMBDA set, i : PullIn(p, set, i),
           {i \in DOMAIN p : Writable(p[i])}, [i \in DOMAIN p |-> i])

(* memhole_cmp, and every order that qsort may leave by it                 *)
Before(a, b) == \/ a.vaddr < b.vaddr
                \/ a.vaddr = b.vaddr /\ End(a) > End(b)
Sorted(p, set) ==
  {o \in SetToSeqs(set) :
     \A i, j \in DOMAIN o : i < j => ~Before(p[o[j]], p[o[i]])}

(* Faulty variant: whatever the types *)
NestedAnyType(s, prev) == s.vaddr >= prev.vaddr /\ End(s) <= End(prev)
NestedIn(s, prev) == /\ s.vaddr >= prev.vaddr /\ End(s) <= End(prev)
                     /\ s.type = prev.type
DropNested(p, o) ==
  FoldLeft(LAMBDA kept, i : IF kept # <<>> /\ NestedIn(p[i], p[Last(kept)])
                            THEN kept ELSE Append(kept, i),
           <<>>, o)

Has(type) == \E i \in DOMAIN phdrs : phdrs[i].type = type
Collect ==
  /\ pc = "collect"
  /\ \E o \in Sorted(phdrs, Collected(phdrs)) : segs' = DropNested(phdrs, o)
  /\ pc' = IF Has("DYNAMIC") /\ Has("DYNLIBDATA") THEN "walk" ELSE "skipped"
  /\ UNCHANGED <<elf, phdrs, ptrs, pair, range>>

-----------------------------------------------------------------------------
Seg == phdrs[segs[pair]]
NextSeg == phdrs[segs[pair + 1]]
Hole == Seg.vaddr + AlignUp(Seg.msz) < NextSeg.vaddr

(* Faulty variant: the first pair without a hole ends the walk *)
NoHoleEnds ==
  /\ pc = "walk" /\ pair < Len(segs) /\ ~Hole
  /\ pair' = Len(segs)
  /\ UNCHANGED <<elf, phdrs, ptrs, segs, range, pc>>
NoHole ==
  /\ pc = "walk" /\ pair < Len(segs) /\ ~Hole
  /\ pair' = pair + 1
  /\ UNCHANGED <<elf, phdrs, ptrs, segs, range, pc>>

(* Later segments that shared an address with the moved one follow it, to  *)
(* its new physical address; the first that has nothing in common with it  *)
(* and is not larger ends the loop.  mem is what the range grows to.       *)
Propagate(st, i, old, newPaddr) ==
  LET s == st.phdrs[i]
      sameP == s.paddr = old.paddr
      sameV == s.vaddr = old.vaddr
      hit == sameP \/ sameV \/ s.msz > st.mem \/ s.fsz > st.file
  IN IF ~(st.go /\ hit) THEN [st EXCEPT !.go = FALSE]
     ELSE [st EXCEPT
            !.phdrs[i].paddr = IF sameP THEN newPaddr ELSE @,
            !.phdrs[i].vaddr = IF sameV THEN newPaddr ELSE @,
            !.mem = IF s.msz > @ THEN s.msz ELSE @,
            !.file = IF s.fsz > @ THEN s.msz ELSE @]

Move ==
  /\ pc = "walk" /\ pair < Len(segs) /\ Hole
  /\ LET size == AlignUp(Seg.msz)
         old == NextSeg
         new == Seg.paddr + size
         moved == [phdrs EXCEPT ![segs[pair]].msz = size,
                                ![segs[pair + 1]].paddr = new,
                                ![segs[pair + 1]].vaddr = Seg.vaddr + size]
         end == FoldLeft(LAMBDA st, i : Propagate(st, i, old, new),
                         [phdrs |-> moved, mem |-> old.msz, file |-> old.fsz,
                          go |-> TRUE],
                         SubSeq(segs, pair + 2, Len(segs)))
     IN /\ phdrs' = end.phdrs
        /\ range' = [start |-> old.vaddr, end |-> old.vaddr + end.mem - 1,
                     diff |-> old.vaddr - (Seg.vaddr + size)]
  /\ pc' = "tables"
  /\ UNCHANGED <<elf, ptrs, segs, pair>>

-----------------------------------------------------------------------------
(* The pointers                                                            *)
Shifted(vals, which) ==
  [p \in DOMAIN vals |->
     IF p \in which /\ vals[p] >= range.start /\ vals[p] <= range.end
     THEN vals[p] - range.diff ELSE vals[p]]

OfKind(kinds) == {p \in DOMAIN ptrs : elf.ptrs[p].kind \in kinds}
In(ph) == {p \in DOMAIN ptrs : InFile(elf.ptrs[p].at, ph)}
Tables == {"dynamic", "rela", "symbol"}
PatchTables ==
  /\ pc = "tables"
  /\ ptrs' = Shifted(ptrs, OfKind(Tables))
  /\ pc' = "raw"
  /\ UNCHANGED <<elf, phdrs, segs, pair, range>>

(* Faulty variant: only the segment in front of the hole *)
PatchRawFirst ==
  /\ pc = "raw"
  /\ ptrs' = Shifted(ptrs, In(Seg))
  /\ pc' = "code"
  /\ UNCHANGED <<elf, phdrs, segs, pair, range>>
(* Every aligned quadword of both segments' file contents, whatever it is  *)
(* part of                                                                 *)
PatchRaw ==
  /\ pc = "raw"
  /\ ptrs' = Shifted(Shifted(ptrs, In(Seg)), In(NextSeg))
  /\ pc' = "code"
  /\ UNCHANGED <<elf, phdrs, segs, pair, range>>

(* patch_code_operands: instructions in front of the hole                  *)
InText(at) ==
  \E i \in DOMAIN phdrs : /\ Text(phdrs[i]) /\ InFile(at, phdrs[i])
                          /\ phdrs[i].vaddr + (at - phdrs[i].off) < range.start
PatchCode ==
  /\ pc = "code"
  /\ ptrs' = Shifted(ptrs, {p \in OfKind({"code"}) : InText(elf.ptrs[p].at)})
  /\ pair' = pair + 1 /\ pc' = "walk"
  /\ UNCHANGED <<elf, phdrs, segs, range>>

EndOfSegments ==
  /\ pc = "walk" /\ pair >= Len(segs)
  /\ pc' = "done"
  /\ UNCHANGED <<elf, phdrs, ptrs, segs, pair, range>>

Init ==
  /\ elf \in Elfs /\ phdrs = elf.phdrs
  /\ ptrs = [p \in DOMAIN elf.ptrs |-> elf.ptrs[p].val]
  /\ segs = <<>> /\ pair = 1 /\ range = NoRange /\ pc = "collect"
Next == \/ Collect \/ NoHole \/ Move \/ PatchTables \/ PatchRaw \/ PatchCode
        \/ EndOfSegments
Spec == Init /\ [][Next]_vars
=============================================================================
