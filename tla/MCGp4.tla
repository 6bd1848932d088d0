-------------------------------- MODULE MCGp4 --------------------------------
(***************************************************************************)
(* Three families of packages: every way for a file to be in five chunks   *)
(* up to twice; every pair of file names over a letter and the characters  *)
(* that mean something in the meta data; and one tree, stored in different *)
(* ways, cut off in different places and run over in different orders.     *)
(***************************************************************************)
EXTENDS Gp4Props

Run(plain, from, to, all) == [plain |-> plain, in |-> from, out |-> to, all |-> all]
Package(to) == Run(FALSE, NoFile, to, FALSE)
Decrypted(from) == Run(TRUE, from, NoFile, FALSE)

RawFile(path, blocks, size) ==
  [path |-> path, type |-> "file", readable |-> TRUE, size |-> size,
   compressed |-> FALSE, blocks |-> blocks, offsets |-> <<>>]
Packed(path, blocks, size, offsets) ==
  [RawFile(path, blocks, size) EXCEPT !.compressed = TRUE, !.offsets = offsets]
Dir(path) == [RawFile(path, <<0>>, 0) EXCEPT !.type = "dir"]

RawImage == [compressed |-> FALSE, blocks |-> <<3, 1, 2, 4>>, offsets |-> <<>>, size |-> 4 * B]
PackedImage == [RawImage EXCEPT !.compressed = TRUE, !.offsets = <<2, 5, 9, 11, 15>>]
Whole == 5 * B
Start == 2 * B
(* Cut off inside a block: a place just at the end of the image would be   *)
(* looked up behind its block list (pkg.c:1611).                           *)
CutSizes == {4 * B, 3 * B - 1, 2 * B - 1}
(* A chunk of the block at place b of the outer image, k times *)
Over(b, k) == [i \in 1 .. k |-> [offset |-> Start + b * B, size |-> B]]
Entry(name, kind) == [name |-> name, kind |-> kind]
Sfo == Entry(ParamSfo, "file")

Base == [entries |-> <<Sfo>>, share |-> TRUE, gd |-> TRUE, files |-> <<>>,
         image |-> RawImage, at |-> Start, outer |-> Whole, playgo |-> TRUE,
         chunks |-> <<>>, sound |-> TRUE, runs |-> <<Package(NoFile)>>]

ChunkJobs ==
  {[Base EXCEPT !.files = <<RawFile(<<"a">>, <<0>>, B)>>,
                !.chunks = [i \in 1 .. 5 |-> Over(3, times[i])]] :
     times \in [1 .. 5 -> 0 .. 2]}

Chars == {"a", Colon, Hash, Blank}
Names(n) == UNION {[1 .. k -> Chars] : k \in 1 .. n}
NameJobs ==
  {[Base EXCEPT !.files = <<RawFile(p[1], <<0>>, B), RawFile(p[2], <<1>>, B)>>,
                !.chunks = <<Over(2, 1), Over(3, 1), Over(1, 1)>>,
                !.runs = <<Package("m"), Decrypted("m")>>] :
     p \in {q \in (Names(3) \X Names(2)) \cup (Names(2) \X Names(3)) : q[1] # q[2]}}

In(dir, name) == Join(dir, <<name>>)
Tree(f) ==
  <<Dir(SceSys), Dir(About), RawFile(In(About, "right.sprx"), <<0>>, 1),
    RawFile(In(About, "x"), <<1>>, 2), Dir(In(SceSys, "d")),
    RawFile(In(SceSys, "keystone"), <<0>>, 1),
    RawFile(<<"empty">>, <<0>>, 0),
    [RawFile(<<"lost">>, <<0>>, 1) EXCEPT !.readable = FALSE], f>>
Files == {RawFile(<<"f">>, <<3, 1>>, 6), RawFile(<<"f">>, <<2>>, 3),
          Packed(<<"f">>, <<1, 3>>, 7, <<5, 7, 8>>), Packed(<<"f">>, <<3>>, 4, <<0, 4>>),
          Packed(<<"f">>, <<2, 0>>, 4, <<4, 7>>)}
Entries ==
  {<<Entry(<<"_meta">>, "meta")>>,
   <<Entry(<<"_meta">>, "meta"), Entry(<<"license.dat">>, "left"), Sfo,
     Entry(<<"trophy", Slash, "trophy00.trp">>, "file")>>}
RunSets ==
  {<<Package("m"), Decrypted("m")>>, <<Decrypted(NoFile)>>, <<Decrypted("m")>>,
   <<Package("m"), Run(TRUE, "m", "m", FALSE), Decrypted("m")>>,
   <<Package("m"), Run(TRUE, "m", "n", TRUE), Decrypted("n")>>}
TreeJobs ==
  {[Base EXCEPT !.entries = es, !.share = FALSE, !.files = Tree(f),
                !.image = [image EXCEPT !.size = size], !.outer = outer, !.runs = runs,
                !.chunks = <<Over(1, 1), Over(4, 1) \o Over(3, 1), Over(2, 1), Over(3, 1)>>] :
     es \in Entries, f \in Files, image \in {RawImage, PackedImage},
     size \in CutSizes, outer \in {Whole, Whole - 2 * B - 1}, runs \in RunSets}
OddJobs ==
  {[Base EXCEPT !.playgo = FALSE], [Base EXCEPT !.playgo = FALSE, !.gd = FALSE],
   [Base EXCEPT !.sound = FALSE, !.runs = <<Package("m"), Decrypted("m")>>]}

MCJobs == ChunkJobs \cup NameJobs \cup TreeJobs \cup OddJobs
===============================================================================
