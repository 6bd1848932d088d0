------------------------------- MODULE Gp4Props -------------------------------
(***************************************************************************)
(* What the project of a package should say of its files.                  *)
(***************************************************************************)
EXTENDS Gp4

Written == pc = "write"
ScCount == Len(FlattenSeq([i \in DOMAIN job.entries |-> ScElements(job.entries[i])]))
FromImage(files) == ToSet(SubSeq(files, ScCount + 1, Len(files)))
Nodes == ToSet(job.files)
NodeOf(e) == CHOOSE n \in Nodes : n.path = e.path

-----------------------------------------------------------------------------
(* Where the first byte of a file lies in the inner image, and where what  *)
(* is stored of a byte of the inner image begins in the package.           *)
ByteOf(f, o) == f.blocks[o \div B + 1] * B + (o % B)
FirstInImage(f) == ByteOf(f, IF f.compressed THEN f.offsets[1] ELSE 0)
InPackage(o) ==
  job.at + ByteOf(job.image, IF job.image.compressed THEN job.image.offsets[o \div B + 1] ELSE o)

Times(c, o) ==
  Cardinality({k \in DOMAIN job.chunks[c + 1] :
                 LET m == job.chunks[c + 1][k] IN o \in m.offset .. m.offset + m.size - 1})
InChunks(o) == {c \in 0 .. Len(job.chunks) - 1 : Times(c, o) > 0}
Denoted(text) == UNION {text[i][1] .. text[i][2] : i \in DOMAIN text}

(* The end of the last range is lost if the last number stands there twice *)
(* (gp4.c:289): all of the range but its first number.                     *)
Unended(o) ==
  LET s == InChunks(o) IN
  IF s = {} \/ Times(Max(s), o) < 2 THEN {}
  ELSE {c \in s : c - 1 \in s /\ c .. Max(s) \subseteq s}

(* A mchunk is a number of whole blocks of the package.                    *)
ChunksOfBlocks ==
  \A c \in DOMAIN job.chunks : \A k \in DOMAIN job.chunks[c] :
    LET m == job.chunks[c][k] IN
    (m.offset - job.at) % B = 0 /\ (m.offset - job.at + m.size) % B = 0

(* The chunks attribute of a file names the chunks that the first stored   *)
(* byte of the file is in, however the file and the image are stored       *)
(* (pfs_io.c:177 asks for the start of a block only); a file of chunk 0    *)
(* alone has none.                                                         *)
ChunksRight ==
  Written /\ job.playgo /\ ~run.plain /\ ChunksOfBlocks =>
    \A e \in FromImage(listed) :
      LET f == NodeOf(e)
          first == InPackage(FirstInImage(f))
      IN f.size > 0 =>
           \/ Denoted(e.chunks) = InChunks(first) \ Unended(first)
           \/ e.chunks = <<>> /\ InChunks(first) = {0}

-----------------------------------------------------------------------------
(* The run over the package that wrote the meta data this run reads, if    *)
(* no other run was told to write that file.                               *)
Writers == {i \in 1 .. turn - 1 : job.runs[i].out = run.in}
Writer == CHOOSE i \in Writers : TRUE
Carried == /\ run.plain /\ run.in # NoFile /\ Cardinality(Writers) = 1
           /\ ~job.runs[Writer].plain

(* A path that comes back from the meta data as it went in, and that the   *)
(* line of no other file can be taken for (dict.c:28, 66).                 *)
Plain(p) == p[1] # Hash /\ Colon \notin ToSet(p) /\ Trim(p) = p
Clear(p) == Plain(p) /\ \A n \in Nodes : Wanted(n) /\ Key(n.path) = p => n.path = p
Same(d, e) ==
  /\ d.path = e.path /\ d.chunks = e.chunks
  /\ run.all = job.runs[Writer].all => d.compression = e.compression
AllWritten(lines) ==
  /\ Len(lines) = Cardinality(FromImage(projects[Writer].files))
  /\ \A i \in DOMAIN lines : lines[i].place # Garbled

(* Without the package, a file of its decrypted image gets the chunks and  *)
(* the compression that it had in the package, or it is left out: it never *)
(* gets those of another file, even if the meta data was cut short.  It is *)
(* left out only if it was not listed for the package or if its line is    *)
(* not there.                                                              *)
MetaRoundTrip ==
  Written /\ Carried =>
    LET before == FromImage(projects[Writer].files)
        now == FromImage(listed)
        AsIn(e, others) == \E d \in others : Same(d, e)
    IN /\ \A e \in now : Clear(e.path) => AsIn(e, before)
       /\ AllWritten(disk[run.in].lines) => \A e \in before : Clear(e.path) => AsIn(e, now)

-----------------------------------------------------------------------------
WithinImage(n) ==
  \A k \in DOMAIN n.blocks : /\ (n.blocks[k] + 1) * B <= job.image.size
                             /\ (job.image.blocks[n.blocks[k] + 1] + 1) * B <= job.outer
LeftOut ==
  {<<"sce_sys", "/", "about", "/", "right.sprx">>, <<"sce_sys", "/", "keystone">>,
   <<"sce_discmap.plt">>, <<"sce_discmap_patch.plt">>}
ImageDirs == {n.path : n \in {m \in Nodes : m.type = "dir"}}

(* The project of an image that is all there has every file of it once,    *)
(* but for those that the publishing tools make themselves, and a          *)
(* directory element for every directory on the way to a file.  What has   *)
(* none is the parent of a system entry in a directory of its own, if the  *)
(* image does not have that directory (gp4.c:413), and sce_sys/about if    *)
(* nothing but files is in it (gp4.c:439).                                 *)
ProjectComplete ==
  Written /\ run.in = NoFile =>
    /\ LET there == {n \in Nodes : n.type = "file" /\ n.readable /\ n.path \notin LeftOut}
       IN (\A n \in there : WithinImage(n)) =>
            /\ Len(listed) = ScCount + Cardinality(there)
            /\ {e.path : e \in FromImage(listed)} = {n.path : n \in there}
    /\ \A d \in dirs \cup {e.path : e \in ToSet(listed)} :
         \/ Parent(d) \in dirs \cup {<<>>, About}
         \/ Parent(d) \notin ImageDirs
    /\ ImageDirs \ {About} \subseteq dirs
===============================================================================
