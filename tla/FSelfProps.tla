------------------------------ MODULE FSelfProps ------------------------------
(***************************************************************************)
(* What wrapping and unwrapping should keep.                               *)
(***************************************************************************)
EXTENDS FSelf

(* makefself.c 138-176: the entries of a SELF do not overlap, each but the *)
(* version body starts at a multiple of 16, all lie behind the headers and *)
(* inside the file, and so does the version body.                          *)
LayoutSound ==
  pc \in {"self", "place", "done"} =>
    LET n == Len(self.entries)
        end(i) == self.entries[i].off + self.entries[i].len
    IN /\ \A i \in 1 .. n : /\ self.entries[i].off % Align = 0
                            /\ self.entries[i].off >= self.hdr
                            /\ end(i) <= self.size
       /\ \A i, j \in 1 .. n : i < j => end(i) <= self.entries[j].off
       /\ Versions(elf) # {} => VersionAt(elf) + Version(elf).size <= self.size

(* The units of the ELF that the SELF carries: headers, segments with an   *)
(* entry, the version body                                                 *)
HasBlob(e, ph) == GetsEntry(ph) \/ (ph.type = "VERSION" /\ ph = Version(e))
CarriedBy(e, u, phdrs) ==
  \/ u < e.hdr
  \/ \E i \in phdrs : /\ HasBlob(e, e.phdrs[i])
                       /\ Covers(e.phdrs[i].off, e.phdrs[i].size, u)
Carried(u) == CarriedBy(elf, u, DOMAIN elf.phdrs)
Restored == \A u \in DOMAIN out : Carried(u) => out[u] = elf.data[u]

(* unfself.c:98, 102: a blob is found by its size alone.  That is right if *)
(* no program header without a blob of its own has the size of some blob,  *)
(* no segment that of a digest table, the version body not that of a       *)
(* segment, and the version body is at least as long as the padding.       *)
Lengths(e) == {Entries(e)[i].len : i \in 1 .. NumEntries(e)}
DigestLens(e) == {Entries(e)[i].len : i \in {j \in 1 .. NumEntries(e) : j % 2 = 1}}
Trail(e) == SelfSize(e) - EndOf(Entries(e), 0)
Distinct(e) ==
  \A i \in DOMAIN e.phdrs :
    LET ph == e.phdrs[i] IN
    ph.size # 0 =>
      CASE GetsEntry(ph) ->
             ph.size \notin DigestLens(e) /\ ph.size # Trail(e)
        [] ph.type = "VERSION" /\ ph = Version(e) ->
             ph.size \notin Lengths(e) /\ ph.size = Trail(e)
        [] OTHER -> ph.size \notin Lengths(e) \cup {Trail(e)}
RoundTrip == pc = "done" /\ Distinct(elf) => Restored

-----------------------------------------------------------------------------
(* What is true at every step, from which the above follows                *)

(* The SELF that is taken apart is the one made from the executable.       *)
Made == /\ elf \in Elfs
        /\ pc \in {"elf", "declined", "self", "place", "done"}
        /\ pc \in {"self", "place", "done"} => self = Fself(elf)

(* When the first n program headers have been served, the blobs in use are *)
(* those of the segments among them and, after the last version header,    *)
(* the trailing one: nobody has taken the blob of another.                 *)
PlacedBlobs(e, n) ==
  {2 * m : m \in {m \in 1 .. Len(Wrapped(e)[n]) : Segments(e)[m].size # 0}}
  \cup {NumEntries(e) + 1 :
         i \in {i \in 1 .. n : /\ e.phdrs[i].type = "VERSION" /\ e.phdrs[i] = Version(e)
                              /\ e.phdrs[i].size # 0}}
Served ==
  pc \in {"place", "done"} =>
    /\ next \in 1 .. Len(elf.phdrs) + 1
    /\ pc = "done" => next = Len(elf.phdrs) + 1
    /\ DOMAIN out = 0 .. Total - 1
    /\ Distinct(elf) =>
         /\ used = PlacedBlobs(elf, next - 1)
         /\ \A u \in DOMAIN out : CarriedBy(elf, u, 1 .. next - 1) => out[u] = elf.data[u]
RInv == Made /\ Served
=============================================================================
