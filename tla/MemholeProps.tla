----------------------------- MODULE MemholeProps -----------------------------
(***************************************************************************)
(* What memory-hole removal should leave.                                  *)
(***************************************************************************)
EXTENDS Memhole

Lower(a, b) == IF a < b THEN a ELSE b
Was == elf.phdrs
Data == {i \in DOMAIN Was : Writable(Was[i])}
Neighbours ==
  {<<a, b>> \in Data \X Data :
     /\ Was[a].vaddr < Was[b].vaddr
     /\ \A c \in Data : ~(/\ Was[a].vaddr < Was[c].vaddr
                          /\ Was[c].vaddr < Was[b].vaddr)}

(* A header that shares the address of a segment which another one follows *)
(* covers as much of it: otherwise the next segment is moved onto it       *)
(* (elfdowngrade.c 295: the pair of that header and the next segment).     *)
SharersCover ==
  \A a \in Data, i \in DOMAIN Was :
    /\ Was[i].vaddr = Was[a].vaddr
    /\ \E b \in Data : <<a, b>> \in Neighbours
    => /\ AlignUp(Was[i].msz) = AlignUp(Was[a].msz)
       /\ Was[i].off = Was[a].off /\ Was[i].fsz = Was[a].fsz
Finished == pc = "done"

(* elfdowngrade.c 165-167: "Compacts writable LOAD/RELRO segments so there *)
(* are no gaps".  Each segment begins where the pages of the one before it *)
(* end, and what was as long as it was, or was rounded up to pages.        *)
NoGaps ==
  Finished /\ SharersCover =>
    /\ \A pr \in Neighbours :
         phdrs[pr[2]].vaddr = Lower(Was[pr[2]].vaddr,
                                    phdrs[pr[1]].vaddr + AlignUp(Was[pr[1]].msz))
    /\ \A i \in DOMAIN Was : phdrs[i].msz \in {Was[i].msz, AlignUp(Was[i].msz)}

(* elfdowngrade.c 309: a header that described part of a segment, at its   *)
(* start, still does, wherever the segment went, and however qsort put the *)
(* two.                                                                    *)
SharersFollow ==
  Finished /\ SharersCover =>
    \A a \in Data, i \in DOMAIN Was :
      Was[i].vaddr = Was[a].vaddr => /\ phdrs[i].vaddr = phdrs[a].vaddr
                                     /\ phdrs[i].paddr = phdrs[a].paddr

(* Which pointers the passes reach, and no more than once: addresses in    *)
(* the tables, those in the contents of the segment they point into or of  *)
(* the one before it, those of instructions; but a dynamic table that lies *)
(* in such a segment is shifted as a table and again as contents, if the   *)
(* first shift leaves the value in range.                                  *)
Into(t) == {i \in Data : t >= Was[i].vaddr /\ t < End(Was[i])}
Shift(i) == Was[i].vaddr - phdrs[i].vaddr
Scanned(at, i) == \/ InFile(at, Was[i])
                  \/ \E a \in Data : <<a, i>> \in Neighbours /\ InFile(at, Was[a])
Reached(p, i) ==
  LET r == elf.ptrs[p] IN
  \/ r.kind \in Tables
  \/ r.kind = "code" \/ (r.kind = "data" /\ Scanned(r.at, i))
ShiftedTwice(p, i) ==
  LET r == elf.ptrs[p] IN
  /\ r.kind \in Tables /\ Scanned(r.at, i)
  /\ r.val - Shift(i) >= Was[i].vaddr

(* The range of a move grows to the largest segment behind it              *)
NoneLargerBehind ==
  \A pr, qr \in Neighbours : pr[2] = qr[1] => Was[qr[2]].msz <= Was[qr[1]].msz

(* An address in front of every hole                                       *)
InFront(t) == \A pr \in Neighbours : t < Was[pr[2]].vaddr

(* elfdowngrade.c 165-169, 378, 386: "rewrites the dynamic / relocation /  *)
(* symbol table virtual addresses that fall past each hole", raw pointers  *)
(* and code operands.  After any number of moves a pointer that is reached *)
(* once refers to what it referred to, and one that is reached twice is    *)
(* one shift below it; an address in front of every hole, of code or of    *)
(* the first segment, is left alone by every pass.                         *)
PointersFollow ==
  /\ \A p \in DOMAIN ptrs : InFront(elf.ptrs[p].val) => ptrs[p] = elf.ptrs[p].val
  /\ Finished /\ SharersCover /\ NoneLargerBehind =>
       \A p \in DOMAIN ptrs : \A i \in Into(elf.ptrs[p].val) :
         Reached(p, i) =>
           ptrs[p] = elf.ptrs[p].val - (IF ShiftedTwice(p, i) THEN 2 ELSE 1) * Shift(i)
===============================================================================
