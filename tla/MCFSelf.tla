------------------------------- MODULE MCFSelf -------------------------------
(***************************************************************************)
(* Three program headers of any type and size.  A header without an entry  *)
(* lies at the start of the loaded segment before it, as dynamic, TLS and  *)
(* parameter segments lie in a loaded one; the others follow one another.  *)
(***************************************************************************)
EXTENDS FSelfProps

CONSTANTS Sizes, Types
Hdr == 2
Nested(t) == t \notin EntryTypes \cup {"VERSION"}
Extent(ph) == IF Nested(ph.type) THEN 0 ELSE ph.size
Header(t, n, prev, end) ==
  [type |-> t, size |-> n, off |-> IF Nested(t) THEN prev ELSE end]
Headers == Types \X Sizes
Laid(a, b, c) ==
  LET one == Header(a[1], a[2], Hdr, Hdr)
      end1 == Hdr + Extent(one)
      two == Header(b[1], b[2], one.off, end1)
      end2 == end1 + Extent(two)
  IN <<one, two, Header(c[1], c[2], two.off, end2)>>
Data == [u \in 0 .. 30 |-> u + 1]
MCElfs == {[phdrs |-> Laid(a, b, c), hdr |-> Hdr, data |-> Data] :
             a \in Headers, b \in Headers, c \in Headers}
=============================================================================
