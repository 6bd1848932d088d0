------------------------------ MODULE PfsTree ------------------------------
(***************************************************************************)
(* What a repack run promises, seen from outside: the image is a map from  *)
(* paths to files and directories, and a run changes it one path (or one   *)
(* removed subtree) at a time, each time to what the modification          *)
(* directory or the removal manifest asked for.  A run that fails leaves   *)
(* the source as it was.                                                   *)
(***************************************************************************)
EXTENDS Integers, Sequences, FiniteSets, SequencesExt

VARIABLES
  base,       \* the tree of the source image: a set of [path, kind, content]
  tree,       \* the tree of the output image
  host,       \* the modification directory: path -> [kind, content]
  manifest    \* the paths of __remove.txt, in order

treeVars == <<base, tree, host, manifest>>

Entry(p, e) == [path |-> p, kind |-> e.kind, content |-> e.content]

(* Relations between a tree t and the next one, u *)

(* A file present in both trees takes the content of the directory *)
Written(t, u) ==
  \E e \in t : /\ e.kind = "file"
               /\ e.path \in DOMAIN host
               /\ host[e.path].kind = "file"
               /\ u = (t \ {e}) \cup {Entry(e.path, host[e.path])}

Deleted(t, u) ==
  \E e \in t : /\ e.path \in ToSet(manifest)
               /\ u = {f \in t : ~IsPrefix(e.path, f.path)}

(* Something new appears, in a directory that exists *)
Created(t, u) ==
  LET new == u \ t
  IN /\ t \subseteq u
     /\ Cardinality(new) = 1
     /\ \A e \in new :
          /\ e.path \in DOMAIN host \ ToSet(manifest)
          /\ e = Entry(e.path, host[e.path])
          /\ \A f \in t : f.path # e.path
          /\ Len(e.path) > 1 => \E f \in t : f.path = Front(e.path) /\ f.kind = "dir"

(* One handler of the run; giving the run up restores the source tree *)
Handled(b, t, u) ==
  u = t \/ u = b \/ Written(t, u) \/ Deleted(t, u) \/ Created(t, u)

(* A run starts on a verbatim copy of its source, which is the tree the    *)
(* last run left or the one it started from; its request is read then.     *)
Started(b, t, b1, t1) == b1 \in {b, t} /\ t1 = b1

Step(b, t, b1, t1) ==
  \/ b1 = b /\ UNCHANGED <<host, manifest>> /\ Handled(b, t, t1)
  \/ Started(b, t, b1, t1)

TreeSpec == tree = base /\ [][Step(base, tree, base', tree')]_treeVars
=============================================================================
