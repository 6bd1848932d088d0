--------------------------------- MODULE Gp4 ---------------------------------
(***************************************************************************)
(* Writing the GP4 project of a package, which lists its files with the    *)
(* chunks they belong to, and the meta data file, which takes the places   *)
(* of the files from a run over the package to a run over its decrypted    *)
(* image (gp4.c, playgo.cpp 706-776, dict.c, pfs_io.c 64-254).             *)
(*                                                                         *)
(* Left out: everything of the project that is copied from the SFO and the *)
(* playgo data (volume, languages, scenarios, disc and layer numbers).     *)
(***************************************************************************)
EXTENDS Paths

CONSTANTS
  Jobs,   \* packages, and the runs of the program over each
  B       \* block size of both images and of compressed files
ASSUME BlockConstant == B \in Nat \ {0}

VARIABLES
  job,      \* [entries, share, gd, files, image, at, outer, playgo, chunks, sound, runs]
  turn,     \* which of job.runs is under way
  disk,     \* meta data files: whether the header is in them, and the lines
  out,      \* the meta data file being written, still in its buffer
  dict,     \* meta_data_dict
  next,     \* the entry of the image whose turn it is
  listed,   \* <file> elements of the project
  dirs,     \* root_dir_entry, as the set of the directories in it
  projects, \* what each run has made: its elements, and whether it wrote them
  pc        \* "open", "meta", "load", "sc", "files", "write", "close", "done"
vars == <<job, turn, disk, out, dict, next, listed, dirs, projects, pc>>

run == job.runs[turn]   \* [plain, in, out, all]
NoFile == "none"
NoDict == <<>>
Closed == [open |-> FALSE, lines |-> <<>>]
Empty == [header |-> FALSE, lines |-> <<>>]
Nowhere == -1

-----------------------------------------------------------------------------
(* Where a file lies in the package, and how much room it takes there.  A  *)
(* file is read from the inner image; the inner image is the plain file,   *)
(* or a file of the outer image, which may be compressed.                  *)

(* Faulty variant: the header of a compressed file taken for its data *)
BlockAtHeader(f, off) == f.blocks[off \div B + 1] * B
BlockAt(f, off) ==
  LET o == IF f.compressed THEN f.offsets[off \div B + 1] ELSE off
  IN f.blocks[o \div B + 1] * B

OuterLocation(o) == IF o > job.outer THEN Nowhere ELSE job.at + o
InnerLocation(o) ==
  IF o > job.image.size THEN Nowhere
  ELSE IF run.plain THEN o
  ELSE OuterLocation(BlockAt(job.image, o))
Location(f) == InnerLocation(BlockAt(f, 0))

Stored(f, off) == f.offsets[off \div B + 2] - f.offsets[off \div B + 1]
Squeezed == ~run.plain /\ job.image.compressed
Held(o, n) == IF Squeezed THEN Stored(job.image, o) ELSE n
(* Faulty variant: the last byte of the image out of reach *)
ReadableBelow(o, n) ==
  /\ o + n < job.image.size
  /\ run.plain \/ Squeezed \/ BlockAt(job.image, o) + n <= job.outer
Readable(o, n) ==
  /\ o + n <= job.image.size
  /\ run.plain \/ Squeezed \/ BlockAt(job.image, o) + n <= job.outer

BlockCount(f) == (f.size + B - 1) \div B
PartSize(f, k) == Min({B, f.size - (k - 1) * B})
Measurable(f) ==
  IF f.compressed THEN BlockCount(f) < Len(f.offsets)
  ELSE /\ BlockCount(f) <= Len(f.blocks)
       /\ \A k \in 1 .. BlockCount(f) : Readable(f.blocks[k] * B, PartSize(f, k))
SizeToRead(f) ==
  IF f.compressed THEN f.offsets[BlockCount(f) + 1] - f.offsets[1]
  ELSE SumFunction([k \in 1 .. BlockCount(f) |-> Held(f.blocks[k] * B, PartSize(f, k))])

Measured(f) == [at |-> Location(f), size |-> SizeToRead(f),
                compressed |-> f.compressed \/ (Squeezed /\ f.size > 0)]

-----------------------------------------------------------------------------
(* playgo_get_chunks, sorted: a chunk stands there as often as one of its  *)
(* mchunks has the place in it.                                            *)
Covers(m, o) == o >= m.offset /\ o < m.offset + m.size
ChunksAt(o) ==
  FlattenSeq([i \in 1 .. Len(job.chunks) |->
    [k \in 1 .. Len(SelectSeq(job.chunks[i], LAMBDA m : Covers(m, o))) |-> i - 1]])

(* The numbers with a range for each run of consecutive ones               *)
EndRange(text, hi) == [text EXCEPT ![Len(text)] = <<@[1], hi>>]
ChunksText(chunks) ==
  LET Add(w, i) ==
        LET c == chunks[i]
            near == i > 1 /\ c \in {w.prev, w.prev + 1}
            last == i = Len(chunks) /\ c # w.prev
            ended == IF i > 1 /\ w.prev > w.start THEN EndRange(w.text, w.prev) ELSE w.text
        IN IF near
           THEN [w EXCEPT !.prev = c, !.text = IF last THEN EndRange(@, c) ELSE @]
           ELSE [start |-> c, prev |-> c, text |-> Append(ended, <<c, c>>)]
  IN FoldLeft(Add, [start |-> 0, prev |-> 0, text |-> <<>>], [i \in DOMAIN chunks |-> i]).text

Chunks(o) ==
  IF ~job.playgo \/ ChunksAt(o) \in {<<>>, <<0>>} THEN <<>> ELSE ChunksText(ChunksAt(o))

-----------------------------------------------------------------------------
(* The meta data file: a line is a path, a colon and the place of the      *)
(* file.  string_dict_load_from_filep takes the key up to the first colon  *)
(* and trims it.                                                           *)
Colon == ":"
Hash == "#"
Blank == " "
Garbled == [at |-> Nowhere, size |-> 0, compressed |-> FALSE]
Line(path, place) == [path |-> path, place |-> place]

Trim(s) ==
  LET solid == {i \in DOMAIN s : s[i] # Blank}
  IN IF solid = {} THEN <<>>
     ELSE SubSeq(s, CHOOSE i \in solid : \A j \in solid : i <= j,
                    CHOOSE i \in solid : \A j \in solid : i >= j)
(* 0 if there is none *)
ColonIn(path) == SelectInSeq(path, LAMBDA c : c = Colon)
Key(path) ==
  Trim(IF ColonIn(path) = 0 THEN path ELSE SubSeq(path, 1, ColonIn(path) - 1))
(* What follows the first colon is a place only if it is the last piece.   *)
Value(line) == IF ColonIn(line.path) = 0 THEN line.place ELSE Garbled
Taken(line) == line.path[1] # Hash /\ Key(line.path) # <<>>
Dict(lines) ==
  FoldLeft(LAMBDA d, l : (Key(l.path) :> Value(l)) @@ d, NoDict, SelectSeq(lines, Taken))

(* The entry of a key read before takes the new key and value, but the     *)
(* hash table is left with the address of the old key, which is freed: the *)
(* entry may be found or not (dict.c:75).                                  *)
Repeated(lines) ==
  LET taken == SelectSeq(lines, Taken)
  IN {Key(taken[i].path) : i \in {j \in DOMAIN taken :
        \E k \in 1 .. j - 1 : Key(taken[k].path) = Key(taken[j].path)}}

OpenMetaOut ==
  /\ pc = "open"
  /\ out' = [Closed EXCEPT !.open = run.out # NoFile]
  /\ disk' = IF run.out = NoFile THEN disk ELSE (run.out :> Empty) @@ disk
  /\ pc' = "meta"
  /\ UNCHANGED <<job, turn, dict, next, listed, dirs, projects>>

RefuseMetaOut ==
  /\ pc = "open" /\ run.out # NoFile
  /\ pc' = "close"
  /\ UNCHANGED <<job, turn, disk, out, dict, next, listed, dirs, projects>>

(* The header of the file being written is still in the buffer: a run that *)
(* is to read the file it writes finds it empty.                           *)
ReadMetaIn ==
  /\ pc = "meta"
  /\ LET file == IF run.in \in DOMAIN disk THEN disk[run.in] ELSE Empty
         lines == IF run.in # NoFile /\ file.header THEN file.lines ELSE <<>>
         loaded == Dict(lines)
     IN /\ \E lost \in SUBSET Repeated(lines) :
             dict' = [key \in DOMAIN loaded \ lost |-> loaded[key]]
        /\ pc' = IF run.in # NoFile /\ loaded = NoDict THEN "close" ELSE "load"
  /\ UNCHANGED <<job, turn, disk, out, next, listed, dirs, projects>>

(* param.sfo, and for game data the playgo data, must be there and sound.  *)
Load ==
  /\ pc = "load"
  /\ pc' = IF job.sound /\ (job.gd => job.playgo) THEN "sc" ELSE "close"
  /\ UNCHANGED <<job, turn, disk, out, dict, next, listed, dirs, projects>>

-----------------------------------------------------------------------------
(* The elements *)

Element(path, compression, chunks) ==
  [path |-> path, compression |-> compression, chunks |-> chunks]
SceSys == <<"sce_sys">>
About == SceSys \o <<Slash, "about">>
ParamSfo == <<"param.sfo">>
ShareParam == <<"shareparam.json">>

Skipped(path) ==
  path \in {About, About \o <<Slash, "right.sprx">>, SceSys \o <<Slash, "keystone">>,
            <<"sce_discmap.plt">>, <<"sce_discmap_patch.plt">>}

ScElement(name) == Element(Join(SceSys, name), FALSE, <<>>)
ScElements(e) ==
  IF e.kind # "file" THEN <<>>
  ELSE <<ScElement(e.name)>> \o
       IF e.name = ParamSfo /\ job.gd /\ ~job.share THEN <<ScElement(ShareParam)>> ELSE <<>>

ListSc ==
  /\ pc = "sc"
  /\ listed' = FlattenSeq([i \in DOMAIN job.entries |-> ScElements(job.entries[i])])
  /\ pc' = "files"
  /\ UNCHANGED <<job, turn, disk, out, dict, next, dirs, projects>>

AtFile == pc = "files" /\ next <= Len(job.files)
node == job.files[next]
Wanted(n) == n.type = "file" /\ ~Skipped(n.path)
(* The place is looked up if there is meta data, else worked out.          *)
(* Faulty variant: whether the line could be read is not asked *)
KnownUnparsed(n) == n.path \in DOMAIN dict
Known(n) == n.path \in DOMAIN dict /\ dict[n.path] # Garbled
Found(n) == Measurable(n) /\ Location(n) # Nowhere
HasPlace(n) == n.readable /\ (IF run.in # NoFile THEN Known(n) ELSE Found(n))
Place(n) == IF run.in # NoFile THEN dict[n.path] ELSE Measured(n)

PassOver ==
  /\ AtFile /\ ~(Wanted(node) /\ HasPlace(node))
  /\ next' = next + 1
  /\ UNCHANGED <<job, turn, disk, out, dict, listed, dirs, projects, pc>>

ListFile ==
  /\ AtFile /\ Wanted(node) /\ HasPlace(node)
  /\ LET p == Place(node)
         squeezed == (p.compressed /\ node.size > p.size) \/ run.all
     IN /\ out' = IF out.open THEN [out EXCEPT !.lines = Append(@, Line(node.path, p))]
                  ELSE out
        /\ listed' = Append(listed, Element(node.path, squeezed, Chunks(p.at)))
  /\ next' = next + 1
  /\ UNCHANGED <<job, turn, disk, dict, dirs, projects, pc>>

-----------------------------------------------------------------------------
(* The directory tree: sce_sys once there is any system entry, and the     *)
(* directories of the image.                                               *)
ScDirs == IF \E i \in DOMAIN job.entries : job.entries[i].kind # "meta"
          THEN {SceSys} ELSE {}
Branch(path) == Ancestors(path) \ {<<>>}
PfsDirs ==
  {job.files[i].path : i \in {j \in DOMAIN job.files :
                          job.files[j].type = "dir" /\ ~Skipped(job.files[j].path)}}

BuildDirs ==
  /\ pc = "files" /\ next > Len(job.files)
  /\ dirs' = UNION {Branch(d) : d \in ScDirs \cup PfsDirs}
  /\ pc' = "write"
  /\ UNCHANGED <<job, turn, disk, out, dict, next, listed, projects>>

(* What a run comes to *)
Made(written) ==
  projects' = [projects EXCEPT ![turn] = [written |-> written, files |-> listed, dirs |-> dirs]]
WriteProject ==
  /\ pc = "write"
  /\ Made(TRUE)
  /\ pc' = "close"
  /\ UNCHANGED <<job, turn, disk, out, dict, next, listed, dirs>>
WriteFails ==
  /\ pc = "write"
  /\ Made(FALSE)
  /\ pc' = "close"
  /\ UNCHANGED <<job, turn, disk, out, dict, next, listed, dirs>>

NextRun ==
  /\ turn' = IF turn = Len(job.runs) THEN turn ELSE turn + 1
  /\ pc' = IF turn = Len(job.runs) THEN "done" ELSE "open"
  /\ out' = Closed /\ dict' = NoDict /\ next' = 1 /\ listed' = <<>> /\ dirs' = {}
  /\ UNCHANGED <<job, projects>>

(* Whatever the run came to, the meta data file gets what it has listed.   *)
Close ==
  /\ pc = "close"
  /\ disk' = IF out.open THEN [disk EXCEPT ![run.out] = [header |-> TRUE, lines |-> out.lines]]
             ELSE disk
  /\ NextRun

(* The host has no room for all of it, which nobody asks for: the last     *)
(* line is cut somewhere, or the header.                                   *)
CutShort(lines) ==
  {Empty} \cup
  UNION {LET whole == SubSeq(lines, 1, k)
             cut == [lines[k + 1] EXCEPT !.place = Garbled]
         IN {[header |-> TRUE, lines |-> l] : l \in {whole, Append(whole, cut)}} :
           k \in 0 .. Len(lines) - 1}
CloseShort ==
  /\ pc = "close" /\ out.open
  /\ \E short \in CutShort(out.lines) : disk' = [disk EXCEPT ![run.out] = short]
  /\ NextRun

-----------------------------------------------------------------------------
NoProject == [written |-> FALSE, files |-> <<>>, dirs |-> {}]
Init ==
  /\ job \in Jobs
  /\ turn = 1 /\ disk = NoDict /\ out = Closed /\ dict = NoDict
  /\ next = 1 /\ listed = <<>> /\ dirs = {}
  /\ projects = [i \in DOMAIN job.runs |-> NoProject]
  /\ pc = "open"

Next ==
  \/ OpenMetaOut \/ RefuseMetaOut \/ ReadMetaIn \/ Load
  \/ ListSc \/ PassOver \/ ListFile \/ BuildDirs
  \/ WriteProject \/ WriteFails \/ Close \/ CloseShort

Spec == Init /\ [][Next]_vars
=============================================================================
