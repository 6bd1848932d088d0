------------------------------ MODULE MCMemhole ------------------------------
(***************************************************************************)
(* Code, a read-only-after-relocation segment, one or two data segments,   *)
(* and a header that shares the address of one of them.  Every kind of     *)
(* pointer from every place to every address.                              *)
(***************************************************************************)
EXTENDS MemholeProps

Ph(type, exec, vaddr, msz, off, fsz) ==
  [type |-> type, exec |-> exec, vaddr |-> vaddr, paddr |-> vaddr, msz |-> msz,
   off |-> off, fsz |-> fsz]
TextSeg == Ph("LOAD", TRUE, 0, 3, 0, 3)
Relro(m) == Ph("RELRO", FALSE, 4, m, 10, 2)
NextAt(ph, hole) == ph.vaddr + AlignUp(ph.msz) + hole
DataSeg(prev, hole, m, off) == Ph("LOAD", FALSE, NextAt(prev, hole), m, off, 2)
Dynlib == Ph("DYNLIBDATA", FALSE, 0, 0, 40, 2)
\* the dynamic table: in a segment's contents, or outside of them all
Dynamic(off) == Ph("DYNAMIC", FALSE, 100, 1, off, 1)

Ptr(kind, at, val) == [kind |-> kind, at |-> at, val |-> val]
Ptrs(dyn, end) ==
  {Ptr("dynamic", dyn, t) : t \in 0 .. end}
  \cup {Ptr(kind, 40, t) : kind \in {"rela", "symbol"}, t \in 0 .. end}
  \cup {Ptr("data", at, t) : at \in {10, 20, 30}, t \in 0 .. end}
  \cup {Ptr("code", 1, t) : t \in 0 .. end}
Elf(p, dyn) ==
  LET ends == {End(p[i]) : i \in {j \in DOMAIN p : Writable(p[j])}}
      last == CHOOSE e \in ends : \A f \in ends : f <= e
      all == Ptrs(dyn, last - 1)
  IN [phdrs |-> Append(p, Dynamic(dyn)), ptrs |-> [q \in all |-> q]]

Msz == {2, 4, 7}
Holes == {0, 4, 8}
\* a header at the start of a segment: another kind, or the same extent
Sharing(s) == {Ph("PARAM", FALSE, s.vaddr, m, s.off, s.fsz) : m \in {1, s.msz}}
TwoOf(sizes, holes) ==
  {<<TextSeg, Dynlib, Relro(m), DataSeg(Relro(m), h, n, 20)>> :
     m \in sizes, h \in holes, n \in sizes}
Two == TwoOf(Msz, Holes)
Three == {Append(p, DataSeg(p[4], h, n, 30)) :
            p \in TwoOf({2, 7}, {0, 4}), h \in {0, 4}, n \in {2, 7}}
WithSharing(ps) ==
  {Append(q[1], q[2]) :
     q \in UNION {{p} \X UNION {Sharing(p[k]) : k \in 3 .. Len(p)} : p \in ps}}
NotOelf == [phdrs |-> <<TextSeg, Relro(2)>>, ptrs |-> <<>>]
MCElfs == {Elf(p, dyn) : p \in Two \cup Three \cup WithSharing(Two \cup Three),
                         dyn \in {50, 11, 21}}
          \cup {NotOelf}
=============================================================================
