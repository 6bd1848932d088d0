---------------------------- MODULE UnpackTreeProps ----------------------------
(***************************************************************************)
(* What unpacking and enumerating the user tree promise.                   *)
(***************************************************************************)
EXTENDS UnpackTree

-----------------------------------------------------------------------------
(* The tree itself: its entries by path, down to the directories that can  *)
(* be read.                                                                *)
Sound(e) == ~Special(e.name) /\ e.ino \notin image.bad
Node(dir, e) == [path |-> Join(dir.path, e.name), ino |-> e.ino, type |-> e.type]
Below(dir) ==
  IF dir.type = "dir" /\ Readable(dir.ino)
  THEN {Node(dir, e) : e \in {x \in ToSet(image.ents[dir.ino]) : Sound(x)}}
  ELSE {}
Tree ==
  LET level[i \in 0 .. Cardinality(DOMAIN image.ents)] ==
        IF i = 0 THEN {[path |-> <<>>, ino |-> image.root, type |-> "dir"]}
        ELSE UNION {Below(d) : d \in level[i - 1]}
  IN UNION {level[i] : i \in 1 .. Cardinality(DOMAIN image.ents)}
Reached == {n \in Tree : n.type = "file" \/ Readable(n.ino)}
Unpacked(n) == IF n.type = "dir" THEN Directory ELSE n.ino

(* What the image must be: no two names of a directory differ in case only *)
(* (pfs_lookup.c:89 ignores it, which is how these images are marked).     *)
CaseDistinct ==
  \A d \in DOMAIN image.ents : \A i, j \in DOMAIN image.ents[d] :
    Same(image.ents[d][i].name, image.ents[d][j].name) => i = j

-----------------------------------------------------------------------------
(* One cursor and one place to fall back to decide every mask as the       *)
(* definition of a mask does, however many * it has (wildcard.c:47, 75).   *)
MatchIsGlob ==
  pc = "match" /\ filter # NoFilter /\ match # Idle =>
    match.result = "run" \/
    (match.result = "yes" <=> Glob(match.name, match.pattern))

(* What makes it so in every state: what is compared is text, and a        *)
(* comparison under way is sound.                                          *)
Frames == [dir : DOMAIN image.ents, next : Nat \ {0}, path : Text]
Walking ==
  /\ job \in Jobs /\ filter \in Seq(Text) /\ tries \in Seq(Text \X Text)
  /\ stack \in Seq(Frames)
Asked == /\ entry.path \in Text /\ stack # <<>>
         /\ entry.type = "dir" => entry.ino \in DOMAIN image.ents
Comparisons == [name : Text, pattern : Text, data : Int, mask : Int, lsm : Int,
                lsn : Int, result : {"run", "yes", "no"}]
Compared ==
  \/ match = Idle
  \/ match = [Idle EXCEPT !.result = "yes"] /\ filter = NoFilter
  \/ match \in Comparisons /\ MatchSound(match)
MInv == Walking /\ (pc = "match" => Asked /\ Compared)

(* What is on the host is part of the tree and lies in directories that    *)
(* are there too, and every file holds the data of its own inode although  *)
(* it is looked up a second time by its path (pfs.cpp:619).                *)
HostRight ==
  /\ DOMAIN host \subseteq {n.path : n \in Reached}
  /\ \A n \in Reached : n.path \in DOMAIN host => host[n.path] = Unpacked(n)
  /\ \A p \in DOMAIN host : Ancestors(p) \ {<<>>} \subseteq DOMAIN host

(* A directory the host did not let the walk make may be missing from a    *)
(* walk that ends normally: pfs.cpp:742 and 646 ignore what                *)
(* make_directories returns.                                               *)
MayLack(n) == n.type = "dir" /\ n.path \in refused

(* Without a filter, an unpacking that comes to its end has created every  *)
(* file and every directory that can be reached, and nothing else, but for *)
(* directories the host refused; these hold no file, at any depth, as the  *)
(* file would have ended the program.  Unreadable directories cost only    *)
(* what is below them.                                                     *)
WholeTree ==
  /\ job.mode = "unpack" /\ job.args = <<>> /\ CaseDistinct
  /\ pc = "done"
  => /\ HostRight
     /\ \A n \in Reached : n.path \in DOMAIN host \/ MayLack(n)

(* A path of the image given on the command line, without * or ?, is       *)
(* unpacked, however deep it lies: the filter holds the directories the    *)
(* walk must go through (main.c:3594).  The exception is the same: a       *)
(* directory the host refused.                                             *)
IsPath(arg) == arg # <<>> /\ arg[1] # "-" /\ ToSet(arg) \cap {AnyRun, AnyChar} = {}
NamedUnpacked ==
  /\ job.mode = "unpack" /\ CaseDistinct
  /\ pc = "done"
  => \A n \in Reached :
       n.path \in ToSet(job.args) /\ IsPath(n.path)
         => \/ n.path \in DOMAIN host /\ host[n.path] = Unpacked(n)
            \/ n.path \notin DOMAIN host /\ MayLack(n)

(* What makes both so, while the walk is under way.  The filter holds the  *)
(* parents of its names; the directories being read are directories of     *)
(* the tree that the walk asked the host for; what is on the host is       *)
(* right; and what is wanted of a directory asked for was asked for too,   *)
(* or it is ahead of the walk, or it is the entry at hand, and then some   *)
(* mask will match.                                                        *)
Root == [path |-> <<>>, ino |-> image.root, type |-> "dir"]
Dirs == {d \in Tree \cup {Root} : d.type = "dir" /\ Readable(d.ino)}
Wanted(path) == filter = NoFilter \/ (path \in ToSet(filter) /\ IsPath(path))
FilterMade ==
  /\ job.args = <<>> => filter = NoFilter
  /\ \A arg \in ToSet(job.args) :
       IsPath(arg) /\ arg[Len(arg)] # Slash => arg \in ToSet(filter)
  /\ \A p \in ToSet(filter) : \A i \in Cuts(p) :
       i > 1 /\ p[i - 1] # Slash => SubSeq(p, 1, i - 1) \in ToSet(filter)
Entered == DOMAIN host \cup refused
InTree ==
  \A k \in DOMAIN stack :
    /\ [path |-> stack[k].path, ino |-> stack[k].dir, type |-> "dir"] \in Dirs
    /\ Ancestors(stack[k].path) \ {<<>>} \subseteq Entered
RefusedDirs == \A p \in refused : \E n \in Reached : n.path = p /\ n.type = "dir"
Ahead(dir, i) == \E k \in DOMAIN stack : stack[k].path = dir.path /\ stack[k].next <= i
NothingMissed ==
  \A d \in Dirs : d = Root \/ d.path \in Entered =>
    \A i \in DOMAIN image.ents[d.ino] :
      LET e == image.ents[d.ino][i]
          n == Node(d, e)
      IN Sound(e) /\ n \in Reached /\ Wanted(n.path) =>
           n.path \in Entered \/ Ahead(d, i)
AtCursor ==
  /\ top.next <= Len(image.ents[top.dir]) /\ ~PassedOver(current)
  /\ entry = [path |-> path_, ino |-> current.ino, type |-> current.type]
WillMatch ==
  /\ filter = NoFilter => match.result = "yes"
  /\ entry.path \in ToSet(filter) /\ IsPath(entry.path) =>
       \/ match.result = "yes"
       \/ /\ match.result = "run"
          /\ match.name = entry.path /\ match.pattern = entry.path
       \/ <<entry.path, entry.path>> \in ToSet(tries)
TreeInv ==
  job.mode = "unpack" /\ CaseDistinct =>
    /\ pc = "args" => filter = NoFilter
    /\ pc # "args" => FilterMade
    /\ pc \in {"args", "begin"} => host = <<>> /\ refused = {} /\ stack = <<>>
    /\ pc \in {"walk", "match", "done"} =>
         InTree /\ HostRight /\ RefusedDirs /\ NothingMissed
    /\ pc = "match" => AtCursor /\ WillMatch
    /\ pc = "done" => stack = <<>>

(* The callback is told of the tree in order, every directory before what  *)
(* is in it; what it is not told of is what follows, in the directory      *)
(* where it asked to stop, the entry it stopped at, and what lies below    *)
(* those entries (pfs_parsers.c:57, pfs_lookup.c:127): a stop in a nested  *)
(* directory does not end the walk.                                        *)
Place(dir, name) == CHOOSE i \in DOMAIN image.ents[dir] : image.ents[dir][i].name = name
Within(p, q) == p = q \/ q \in Ancestors(p)
InoAt(path) == IF path = <<>> THEN image.root
               ELSE (CHOOSE n \in Tree : n.path = path).ino
CutBy(stop, path) ==
  \/ path # stop /\ stop \in Ancestors(path)
  \/ \E n \in Tree :
       /\ Parent(n.path) = Parent(stop) /\ Within(path, n.path)
       /\ LET dir == InoAt(Parent(stop))
          IN Place(dir, BaseName(n.path)) > Place(dir, BaseName(stop))
StopCutsDirectory ==
  job.mode = "enum" /\ CaseDistinct =>
    /\ \A i \in DOMAIN calls :
         Parent(calls[i]) = <<>> \/ Parent(calls[i]) \in {calls[j] : j \in 1 .. i - 1}
    /\ IsInjective(calls)
    /\ pc = "done" =>
         ToSet(calls) = {n.path : n \in {t \in Tree :
                           \A s \in stops : ~CutBy(s, t.path)}}

(* What makes it so, while the walk is under way.  The directories being   *)
(* read are different directories of the tree, told of and not stopped at  *)
(* or in.  Of a directory that was told of, an entry was told of, or it is *)
(* ahead of the walk, or a stop has cut it off; and what was told of is    *)
(* none of the others.                                                     *)
Told(d) == d = Root \/ d.path \in ToSet(calls)
StopsBefore(d, i) ==
  \E s \in stops : Parent(s) = d.path /\ Place(d.ino, BaseName(s)) < i
BeingRead ==
  /\ \A k \in DOMAIN stack :
       /\ [path |-> stack[k].path, ino |-> stack[k].dir, type |-> "dir"] \in Dirs
       /\ stack[k].path = <<>> \/ stack[k].path \in ToSet(calls)
       /\ \A s \in stops : stack[k].path \notin {s, Parent(s)}
  /\ \A j, k \in DOMAIN stack : stack[j].path = stack[k].path => j = k
InTurn ==
  /\ calls \in Seq(Text) /\ stops \subseteq ToSet(calls)
  /\ ToSet(calls) \subseteq {n.path : n \in Tree}
  /\ IsInjective(calls)
  /\ \A i \in DOMAIN calls :
       Parent(calls[i]) = <<>> \/ Parent(calls[i]) \in {calls[j] : j \in 1 .. i - 1}
NoneLost ==
  \A d \in Dirs : \A i \in DOMAIN image.ents[d.ino] :
    LET e == image.ents[d.ino][i]
        path == Node(d, e).path
    IN Told(d) /\ Sound(e) =>
         path \in ToSet(calls) \/ Ahead(d, i) \/ d.path \in stops \/ StopsBefore(d, i)
NoneEarly ==
  \A d \in Dirs : \A i \in DOMAIN image.ents[d.ino] :
    LET e == image.ents[d.ino][i]
        path == Node(d, e).path
    IN Sound(e) /\ path \in ToSet(calls) =>
         Told(d) /\ ~Ahead(d, i) /\ d.path \notin stops /\ ~StopsBefore(d, i)
EnumInv ==
  job.mode = "enum" /\ CaseDistinct =>
    /\ pc \in {"args", "begin", "walk", "done", "exit"}
    /\ pc \in {"args", "begin", "exit"} => stack = <<>> /\ calls = <<>> /\ stops = {}
    /\ pc \in {"walk", "done"} => BeingRead /\ InTurn /\ NoneLost /\ NoneEarly
    /\ pc = "done" => stack = <<>>

(* The program comes to an end, whatever the masks: comparing backwards    *)
(* from the last * makes progress (wildcard.c:6 tells of an endless loop   *)
(* here), and so does the walk.                                            *)
WalkEnds == <>(pc \in {"done", "exit"})
=============================================================================
