------------------------------ MODULE UnpackTree ------------------------------
(***************************************************************************)
(* Walking the user tree of an image: unpacking it to the host, with the   *)
(* names given on the command line as a filter, and enumerating it for a   *)
(* callback that may ask to stop (pfs.cpp 594-800, pfs_lookup.c,           *)
(* pfs_parsers.c, main.c 265-322 and 3575-3625).                           *)
(*                                                                         *)
(* A name is a sequence of characters, a path the names with / between.    *)
(* A directory is the sequence of its entries up to the terminator.        *)
(***************************************************************************)
EXTENDS Wildcard, Paths

CONSTANTS
  Jobs,  \* the images with what is asked of them
  Fold   \* characters that strcasecmp takes for one another, to one of them

Text == Seq(DOMAIN Fold \cup {Slash, AnyRun, AnyChar, "-"})
ASSUME JobsAreText ==
  \A j \in Jobs :
    /\ j.args \in Seq(Text)
    /\ \A d \in DOMAIN j.image.ents :
         j.image.ents[d] \in
           Seq([name : Text, ino : DOMAIN j.image.ents, type : {"dir"}]
               \cup [name : Text, ino : Nat, type : {"file"}])

VARIABLES
  job,      \* [image, args, mode]
  filter,   \* s_file_paths, NoFilter if it is NULL
  stack,    \* the directories being read, the innermost last
  entry,    \* the entry the callback is asked about, with its path and inode
  tries,    \* pairs of name and mask that pre_cb has still to compare
  match,    \* the comparison under way
  host,     \* paths created in the output directory and what they hold
  refused,  \* directories at which the host did not let the walk make them
  calls,    \* entries handed to the callback of an enumeration, in order
  stops,    \* those at which it asked to stop
  pc        \* "args", "begin", "walk", "match", "done", "exit"
vars == <<job, filter, stack, entry, tries, match, host, refused, calls, stops, pc>>
walkVars == <<filter, tries, match, host, refused, calls, stops>>

NoFilter == <<>>
NoEntry == [path |-> <<>>, ino |-> 0, type |-> "none"]
Idle == Start(<<>>, <<>>)
Directory == -1   \* in host
CutShort == -2

image == job.image
Special(name) == name \in {<<".">>, <<".", ".">>}

(* What a console makes is a tree: its names are names, an entry is of the *)
(* kind of its inode, and no directory is below itself.                    *)
ASSUME ImagesAreTrees ==
  \A j \in Jobs :
    LET ents == j.image.ents
        deepest == Cardinality(DOMAIN ents) - 1
    IN /\ IsFiniteSet(DOMAIN ents) /\ j.image.root \in DOMAIN ents
       /\ \A d \in DOMAIN ents : \A e \in ToSet(ents[d]) :
            /\ e.name # <<>> /\ Slash \notin ToSet(e.name)
            /\ e.type = "file" => e.ino \notin DOMAIN ents
       /\ \E depth \in [DOMAIN ents -> 0 .. deepest] :
            \A d \in DOMAIN ents : \A e \in ToSet(ents[d]) :
              e.type = "dir" /\ ~Special(e.name) => depth[d] < depth[e.ino]

-----------------------------------------------------------------------------
(* Command line: what follows the output directory *)

(* A name is taken with all its parents, so that the walk gets to it; what *)
(* starts with a dash is an option in the wrong place.                     *)
(* Faulty variant: the name alone *)
PatternsAlone(arg) == <<arg>>
Patterns(arg) ==
  LET ends(i) == arg[i] # Slash /\ (i = Len(arg) \/ arg[i + 1] = Slash)
  IN FlattenSeq([i \in DOMAIN arg |->
                   IF ends(i) THEN <<SubSeq(arg, 1, i)>> ELSE <<>>])
Named(arg) == arg # <<>> /\ arg[1] # "-"

ParseArgs ==
  /\ pc = "args"
  /\ filter' = FlattenSeq([i \in DOMAIN job.args |->
                  IF Named(job.args[i]) THEN Patterns(job.args[i]) ELSE <<>>])
  /\ pc' = "begin"
  /\ UNCHANGED <<job, stack, entry, tries, match, host, refused, calls, stops>>

-----------------------------------------------------------------------------
(* pfs_lookup_path: part by part, the first entry whose name is equal      *)
(* without regard to case.  The paths are those of the walk, where no part *)
(* is empty.                                                               *)
Folded(name) == [i \in DOMAIN name |-> Fold[name[i]]]
Same(a, b) == Folded(a) = Folded(b)
Readable(ino) == ino \in DOMAIN image.ents \ (image.bad \cup image.torn)
Hits(dir, name) == {i \in DOMAIN image.ents[dir] : Same(image.ents[dir][i].name, name)}
(* No directory or one in, no inode or one out *)
Find(dirs, name) ==
  {image.ents[d][Min(Hits(d, name))].ino :
     d \in {x \in dirs : Readable(x) /\ Hits(x, name) # {}}}
(* Faulty variant: starts again from the root at every part *)
LookupFromRoot(path) == Find({image.root}, BaseName(path))
Lookup(path) ==
  LET at[i \in 0 .. Len(path) + 1] ==
        IF i = 0 THEN {image.root}
        ELSE IF i <= Len(path) /\ path[i] # Slash THEN at[i - 1]
        ELSE Find(at[i - 1], BaseName(SubSeq(path, 1, i - 1)))
  IN at[Len(path) + 1]

-----------------------------------------------------------------------------
(* The walk: pfs_parse_dir_entries calls back for entry after entry, and   *)
(* the callback for a directory parses that directory.                     *)
Frame(ino, path) == [dir |-> ino, next |-> 1, path |-> path]
top == stack[Len(stack)]
AtEntry == /\ pc = "walk" /\ stack # <<>>
           /\ top.next <= Len(image.ents[top.dir])
current == image.ents[top.dir][top.next]
path_ == Join(top.path, current.name)
NextEntry(s) == [s EXCEPT ![Len(s)].next = @ + 1]

Begin ==
  /\ pc = "begin"
  /\ IF Readable(image.root)
     THEN stack' = <<Frame(image.root, <<>>)>> /\ pc' = "walk"
     ELSE stack' = stack /\ pc' = "exit"
  /\ UNCHANGED <<job, entry, walkVars>>

(* An entry whose inode cannot be read is passed over with a warning, and  *)
(* so is a directory whose data cannot; "." and ".." are left alone.       *)
PassedOver(e) ==
  \/ e.ino \in image.bad \/ Special(e.name)
  \/ job.mode = "unpack" /\ e.type = "dir" /\ e.ino \in image.torn

PassOver ==
  /\ AtEntry /\ PassedOver(current)
  /\ stack' = NextEntry(stack)
  /\ UNCHANGED <<job, entry, pc, walkVars>>

Leave ==
  /\ pc = "walk" /\ stack # <<>>
  /\ top.next > Len(image.ents[top.dir])
  /\ stack' = Front(stack)
  /\ UNCHANGED <<job, entry, pc, walkVars>>

End ==
  /\ pc = "walk" /\ stack = <<>>
  /\ pc' = "done"
  /\ UNCHANGED <<job, stack, entry, walkVars>>

-----------------------------------------------------------------------------
(* Unpacking *)

Made(dir) ==
  [p \in DOMAIN host \cup (Ancestors(dir) \ {<<>>}) |->
     IF p \in DOMAIN host THEN host[p] ELSE Directory]
Copied(data) ==
  LET made == Made(Parent(entry.path))
  IN [p \in {entry.path} \cup DOMAIN made |->
        IF p = entry.path THEN data ELSE made[p]]

(* make_directories goes down the path and gives up, with a warning, at    *)
(* the first directory it cannot make; the walk does not ask how far it    *)
(* came (pfs.cpp:646, 742).                                                *)
MakeDirectories ==
  \E last \in Ancestors(entry.path) \cup {<<>>} :
    /\ host' = Made(last)
    /\ refused' = refused \cup ({entry.path} \ DOMAIN Made(last))

(* pkg_pfs_unpack_pre_cb compares the path with every mask, and for a file *)
(* below the root its last name too.                                       *)
ToCompare(path, type) ==
  LET names == IF type = "file" /\ Cuts(path) # {}
               THEN <<path, BaseName(path)>> ELSE <<path>>
      against(p) == [j \in DOMAIN names |-> <<names[j], p>>]
  IN FlattenSeq([i \in DOMAIN filter |-> against(filter[i])])

Ask(path, ino, type) ==
  /\ entry' = [path |-> path, ino |-> ino, type |-> type]
  /\ tries' = ToCompare(path, type)
  /\ match' = IF filter = NoFilter THEN [Idle EXCEPT !.result = "yes"] ELSE Idle
  /\ pc' = "match"

UnpackDir ==
  /\ job.mode = "unpack" /\ AtEntry /\ ~PassedOver(current)
  /\ current.type = "dir"
  /\ Ask(path_, current.ino, "dir")
  /\ UNCHANGED <<job, filter, stack, host, refused, calls, stops>>

(* pfs_unpack_single looks the path up again; what it does not find or     *)
(* cannot read ends the program.                                           *)
UnpackFile ==
  /\ job.mode = "unpack" /\ AtEntry /\ ~PassedOver(current)
  /\ current.type = "file"
  /\ \/ \E ino \in Lookup(path_) \ image.bad :
          /\ Ask(path_, ino, IF ino \in DOMAIN image.ents THEN "dir" ELSE "file")
          /\ UNCHANGED <<job, filter, stack, host, refused, calls, stops>>
     \/ /\ Lookup(path_) \subseteq image.bad
        /\ pc' = "exit" /\ UNCHANGED <<job, stack, entry, walkVars>>

TryMask ==
  /\ pc = "match" /\ match.result = "no" /\ tries # <<>>
  /\ match' = Start(Head(tries)[1], Head(tries)[2])
  /\ tries' = Tail(tries)
  /\ UNCHANGED <<job, filter, stack, entry, host, refused, calls, stops, pc>>

Comparing ==
  /\ pc = "match" /\ match.result = "run"
  /\ match' = MatchStep(match)
  /\ UNCHANGED <<job, filter, stack, entry, tries, host, refused, calls, stops, pc>>

Settled == /\ entry' = NoEntry /\ tries' = <<>> /\ match' = Idle
           /\ UNCHANGED <<job, filter, calls, stops>>

NotNeeded ==
  /\ pc = "match" /\ match.result = "no" /\ tries = <<>>
  /\ stack' = NextEntry(stack) /\ pc' = "walk"
  /\ Settled /\ UNCHANGED <<host, refused>>

EnterDir ==
  /\ pc = "match" /\ match.result = "yes" /\ entry.type = "dir"
  /\ current.type = "dir"
  /\ MakeDirectories
  /\ stack' = Append(NextEntry(stack), Frame(entry.ino, entry.path))
  /\ pc' = "walk"
  /\ Settled

(* A file that the lookup found to be a directory only gets its directory. *)
FoundDir ==
  /\ pc = "match" /\ match.result = "yes" /\ entry.type = "dir"
  /\ current.type = "file"
  /\ MakeDirectories
  /\ stack' = NextEntry(stack) /\ pc' = "walk"
  /\ Settled

(* The copy, chunk by chunk in PfsRead, either comes to its end or ends    *)
(* the program with part of the file written.                              *)
CopyFile ==
  /\ pc = "match" /\ match.result = "yes" /\ entry.type = "file"
  /\ \/ entry.ino \notin image.torn /\ host' = Copied(entry.ino) /\ pc' = "walk"
     \/ entry.ino \in image.torn /\ host' = Copied(CutShort) /\ pc' = "exit"
  /\ stack' = NextEntry(stack)
  /\ Settled /\ UNCHANGED refused

(* The host refuses a directory above the file, the file itself or a part  *)
(* of it.                                                                  *)
HostFails ==
  /\ pc = "match" /\ match.result = "yes" /\ entry.type = "file"
  /\ \/ \E last \in Ancestors(Parent(entry.path)) \cup {<<>>} : host' = Made(last)
     \/ host' = Copied(CutShort)
  /\ pc' = "exit"
  /\ stack' = stack /\ Settled /\ UNCHANGED refused

-----------------------------------------------------------------------------
(* Enumerating: pfs_enum_directory_cb.  A directory is entered after the   *)
(* callback was called for it; a stop ends the loop over this directory.   *)
Deliver ==
  /\ job.mode = "enum" /\ AtEntry /\ ~PassedOver(current)
  /\ calls' = Append(calls, path_)
  /\ stack' = IF current.type = "dir" /\ current.ino \notin image.torn
              THEN Append(NextEntry(stack), Frame(current.ino, path_))
              ELSE NextEntry(stack)
  /\ UNCHANGED <<job, filter, entry, tries, match, host, refused, stops, pc>>

(* Faulty variant: the stop ends the whole walk *)
AfterStopAll(s) == <<>>
AfterStop(s) == Front(s)
DeliverStop ==
  /\ job.mode = "enum" /\ AtEntry /\ ~PassedOver(current)
  /\ calls' = Append(calls, path_)
  /\ stops' = stops \cup {path_}
  /\ stack' = AfterStop(stack)
  /\ UNCHANGED <<job, filter, entry, tries, match, host, refused, pc>>

-----------------------------------------------------------------------------
Init ==
  /\ job \in Jobs
  /\ filter = NoFilter /\ stack = <<>> /\ entry = NoEntry
  /\ tries = <<>> /\ match = Idle /\ host = <<>> /\ refused = {}
  /\ calls = <<>> /\ stops = {} /\ pc = "args"

Next ==
  \/ ParseArgs \/ Begin \/ PassOver \/ Leave \/ End
  \/ UnpackDir \/ UnpackFile \/ TryMask \/ Comparing \/ NotNeeded
  \/ EnterDir \/ FoundDir \/ CopyFile \/ HostFails
  \/ Deliver \/ DeliverStop

(* One thread that does not wait for anything: while it can take a step,   *)
(* it does.                                                                *)
Spec == Init /\ [][Next]_vars /\ WF_vars(Next)
=============================================================================
