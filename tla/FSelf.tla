-------------------------------- MODULE FSelf --------------------------------
(***************************************************************************)
(* Wrapping an ELF into a fake-signed SELF (makefself.c 49-295) and taking *)
(* it out again (unfself.c 16-118), the two conversions of a rewrap.       *)
(*                                                                         *)
(* An ELF is its program headers and its contents, a sequence of units at  *)
(* the offsets 0, 1, ...  A SELF has entries (offset and length), the ELF  *)
(* header and program headers verbatim, and contents.                      *)
(***************************************************************************)
EXTENDS Integers, Sequences

CONSTANTS
  Elfs,        \* the executables
  Align,       \* 16 bytes, the alignment of entries
  Block,       \* MKFS_BLOCK_SIZE
  Digest,      \* MKFS_DIGEST_SIZE, one per block
  MaxEntries   \* how many entries fit 16 bits of header and meta size
ASSUME SizesArePositive == /\ Align \in Nat \ {0} /\ Block \in Nat \ {0}
                           /\ Digest \in Nat \ {0} /\ MaxEntries \in Nat
(* Offsets and sizes of program headers are unsigned; elf_alloc accepts no *)
(* executable without an ELF header.                                       *)
PhdrRecords == [type : STRING, size : Nat, off : Nat]
ASSUME ElfsAreElfs == \A e \in Elfs : e.hdr \in Nat /\ e.phdrs \in Seq(PhdrRecords)
Zero == 0   \* units of an ELF are numbered from 1

VARIABLES
  elf,     \* what is wrapped
  self,    \* the SELF
  out,     \* the ELF that is taken out, as a function on its offsets
  used,    \* blobs that have been placed
  next,    \* index of the next program header
  pc
vars == <<elf, self, out, used, next, pc>>

(* Faulty variant: rounded down *)
AlignDown(n, a) == (n \div a) * a
AlignUp(n, a) == ((n + a - 1) \div a) * a
Higher(a, b) == IF a > b THEN a ELSE b
Covers(off, len, u) == off <= u /\ u < off + len
NoSelf == [entries |-> <<>>, phdrs |-> <<>>, head |-> <<>>, data |-> <<>>,
           hdr |-> 0, size |-> 0]

-----------------------------------------------------------------------------
(* mkfs_segment_gets_entry *)
EntryTypes == {"LOAD", "RELRO", "DYNLIBDATA", "COMMENT"}
GetsEntry(ph) == ph.type \in EntryTypes
Wrapped(e) ==   \* the ones among the first 0, 1, ... program headers
  LET found[n \in 0 .. Len(e.phdrs)] ==
        IF n = 0 THEN <<>>
        ELSE IF GetsEntry(e.phdrs[n]) THEN Append(found[n - 1], e.phdrs[n])
        ELSE found[n - 1]
  IN found
Segments(e) == Wrapped(e)[Len(e.phdrs)]
NumEntries(e) == 2 * Len(Segments(e))

(* Header, extended information and meta blocks: all multiples of Align    *)
Start(e) == AlignUp(e.hdr, Align) + NumEntries(e) * Align

(* Each segment has a meta entry, zeroed digests, and a data entry         *)
DigestLen(ph) == Digest * (AlignUp(ph.size, Block) \div Block)
Offsets(e) ==
  LET s == Segments(e)
      at[k \in 0 .. Len(s)] ==   \* where the entries of segment k + 1 go
        IF k = 0 THEN Start(e)
        ELSE AlignUp(AlignUp(at[k - 1] + DigestLen(s[k]), Align) + s[k].size,
                     Align)
  IN at
Entries(e) ==
  LET s == Segments(e) IN
  [i \in 1 .. NumEntries(e) |->
     LET k == (i + 1) \div 2
         meta == Offsets(e)[k - 1]
     IN IF i % 2 = 1 THEN [off |-> meta, len |-> DigestLen(s[k])]
        ELSE [off |-> AlignUp(meta + DigestLen(s[k]), Align), len |-> s[k].size]]

(* The body of the last PT_SCE_VERSION goes right behind the last entry,   *)
(* not aligned, past the end of the file if need be.                       *)
Versions(e) == {i \in DOMAIN e.phdrs : e.phdrs[i].type = "VERSION"}
Version(e) == e.phdrs[CHOOSE i \in Versions(e) : \A j \in Versions(e) : j <= i]
EndOf(entries, default) ==
  IF entries = <<>> THEN default
  ELSE entries[Len(entries)].off + entries[Len(entries)].len
VersionAt(e) == EndOf(Entries(e), Start(e))

SelfSize(e) ==
  LET fileSize == Offsets(e)[Len(Segments(e))] IN
  IF Versions(e) = {} THEN fileSize
  ELSE Higher(fileSize, VersionAt(e) + Version(e).size)

(* What is at offset u: zeros but for the data entries and the version     *)
SelfUnit(e, entries, u) ==
  LET s == Segments(e)
      in == {k \in 1 .. Len(s) : Covers(entries[2 * k].off, s[k].size, u)}
      version == EndOf(entries, Start(e))
  IN IF in # {}
     THEN LET k == CHOOSE k \in in : TRUE
          IN e.data[s[k].off + u - entries[2 * k].off]
     ELSE IF Versions(e) # {} /\ Covers(version, Version(e).size, u)
     THEN e.data[Version(e).off + u - version]
     ELSE Zero

Fself(e) ==
  LET entries == Entries(e)
      size == SelfSize(e)
  IN [entries |-> entries, phdrs |-> e.phdrs, hdr |-> e.hdr,
      head |-> [u \in 0 .. e.hdr - 1 |-> e.data[u]],
      size |-> size,
      data |-> [u \in 0 .. size - 1 |-> SelfUnit(e, entries, u)]]

MakeFself ==
  /\ pc = "elf" /\ NumEntries(elf) <= MaxEntries
  /\ self' = Fself(elf)
  /\ pc' = "self"
  /\ UNCHANGED <<elf, out, used, next>>

Overflow ==
  /\ pc = "elf" /\ NumEntries(elf) > MaxEntries
  /\ pc' = "declined"
  /\ UNCHANGED <<elf, self, out, used, next>>

-----------------------------------------------------------------------------
(* self_unfself_buffer: one blob per entry, and what is behind the last    *)
Trailing == LET end == EndOf(self.entries, 0)
            IN [off |-> end, len |-> self.size - end]
Blobs == IF Trailing.len > 0 THEN Append(self.entries, Trailing)
         ELSE self.entries
Total ==
  LET ends == {self.hdr} \cup
              {self.phdrs[i].off + self.phdrs[i].size : i \in DOMAIN self.phdrs}
  IN CHOOSE t \in ends : \A u \in ends : u <= t

BeginUnfself ==
  /\ pc = "self"
  /\ out' = [u \in 0 .. Total - 1 |-> IF u < self.hdr THEN self.head[u] ELSE Zero]
  /\ used' = {} /\ next' = 1 /\ pc' = "place"
  /\ UNCHANGED <<elf, self>>

(* Faulty variant: placed blobs are taken again *)
ChosenAgain(ph) ==
  {i \in DOMAIN Blobs : /\ Blobs[i].len = ph.size
                        /\ \A j \in 1 .. i - 1 : Blobs[j].len # ph.size}
(* The next program header gets the first unused blob of its file size.    *)
Fits(i, size) == i \notin used /\ Blobs[i].len = size
Chosen(ph) ==
  {i \in DOMAIN Blobs : /\ Fits(i, ph.size)
                        /\ \A j \in 1 .. i - 1 : ~Fits(j, ph.size)}
Place ==
  /\ pc = "place" /\ next <= Len(self.phdrs)
  /\ LET ph == self.phdrs[next]
         found == IF ph.size = 0 THEN {} ELSE Chosen(ph)
     IN /\ used' = used \cup found
        /\ out' = IF found = {} THEN out
                  ELSE LET b == Blobs[CHOOSE i \in found : TRUE] IN
                       [u \in DOMAIN out |->
                          IF Covers(ph.off, ph.size, u)
                          THEN self.data[b.off + u - ph.off] ELSE out[u]]
  /\ next' = next + 1
  /\ UNCHANGED <<elf, self, pc>>

EndUnfself ==
  /\ pc = "place" /\ next > Len(self.phdrs)
  /\ pc' = "done"
  /\ UNCHANGED <<elf, self, out, used, next>>

Init ==
  /\ elf \in Elfs /\ self = NoSelf
  /\ out = <<>> /\ used = {} /\ next = 1 /\ pc = "elf"
Next == MakeFself \/ Overflow \/ BeginUnfself \/ Place \/ EndUnfself
Spec == Init /\ [][Next]_vars
=============================================================================
