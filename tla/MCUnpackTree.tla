----------------------------- MODULE MCUnpackTree -----------------------------
(***************************************************************************)
(* Every mask of up to four characters against every name of up to three;  *)
(* and one tree with nested, empty and unreadable directories.             *)
(***************************************************************************)
EXTENDS UnpackTreeProps

Ent(name, ino, type) == [name |-> name, ino |-> ino, type |-> type]
File(name, ino) == Ent(name, ino, "file")
Dir(name, ino) == Ent(name, ino, "dir")
Dots(self, up) == <<Dir(<<".">>, self), Dir(<<".", ".">>, up)>>
Image(ents, bad, torn) == [root |-> 1, ents |-> ents, bad |-> bad, torn |-> torn]
Job(i, args, mode) == [image |-> i, args |-> args, mode |-> mode]

(* One file, one mask; letters are only compared, so the name may start    *)
(* with any one of them.                                                   *)
Strings(chars, n) == UNION {[1 .. k -> chars] : k \in 1 .. n}
MaskJobs ==
  {Job(Image(1 :> <<File(name, 9)>>, {}, {}), <<mask>>, "unpack") :
     name \in {s \in Strings({"a", "b"}, 3) : s[1] = "a"},
     mask \in Strings({"a", "b", AnyRun, AnyChar}, 4)}

(* /b, /d/b, /d/d/f, /d/d/b, /d/e/, /f: "d" in "d", "b" and "f" at several *)
(* places, so that a name alone does not tell which entry is meant.        *)
Nested ==
  1 :> Dots(1, 1) \o <<File(<<"b">>, 5), Dir(<<"d">>, 2), File(<<"f">>, 6)>> @@
  2 :> Dots(2, 1) \o <<File(<<"b">>, 7), Dir(<<"d">>, 3), Dir(<<"e">>, 4)>> @@
  3 :> Dots(3, 2) \o <<File(<<"f">>, 8), File(<<"b">>, 9)>> @@
  4 :> Dots(4, 2)
(* Only one of a pair can be found by its path.                            *)
Clash ==
  1 :> <<Dir(<<"d">>, 2), File(<<"D">>, 5)>> @@ 2 :> <<File(<<"a">>, 7)>>

D == <<"d">>
DB == <<"d", Slash, "b">>
DDF == <<"d", Slash, "d", Slash, "f">>
DDB == <<"d", Slash, "d", Slash, "b">>
Arguments ==
  {<<>>, <<D>>, <<DB>>, <<DDB>>, <<DDF, <<"f">>>>, <<DB \o <<Slash>>>>,
   <<<<"d", Slash, Slash, "e">>>>, <<<<Slash, "f">>>>, <<<<"-", "b">>>>,
   <<<<"b">>, <<>>>>, <<<<"d", Slash, AnyRun>>>>, <<<<"d", Slash, AnyChar>>, <<"f">>>>}
Damaged == {s \in SUBSET (1 .. 9) : Cardinality(s) <= 1}
TreeJobs ==
  {Job(Image(Nested, bad, torn), args, "unpack") :
     bad \in Damaged, torn \in Damaged, args \in Arguments}
EnumJobs == {Job(Image(Nested, bad, torn), <<>>, "enum") : bad \in Damaged, torn \in Damaged}
ClashJobs == {Job(Image(Clash, {}, {}), args, "unpack") : args \in {<<>>, <<D>>}}

MCJobs == MaskJobs \cup TreeJobs \cup EnumJobs \cup ClashJobs
MCFold == [c \in {"a", "b", "d", "e", "f", ".", "D"} |-> IF c = "D" THEN "d" ELSE c]
=============================================================================
