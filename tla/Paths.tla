------------------------------- MODULE Paths -------------------------------
(***************************************************************************)
(* Paths, as sequences: an element is a slash, another character, or a     *)
(* longer piece without a slash whose spelling does not matter.            *)
(***************************************************************************)
EXTENDS Integers, FiniteSets, SequencesExt

Slash == "/"
Join(dir, name) == IF dir = <<>> THEN name ELSE dir \o <<Slash>> \o name

Cuts(path) == {i \in 1 .. Len(path) : path[i] = Slash}
LastCut(path) == CHOOSE i \in Cuts(path) \cup {0} : \A j \in Cuts(path) : j <= i
BaseName(path) == SubSeq(path, LastCut(path) + 1, Len(path))
Parent(path) == SubSeq(path, 1, LastCut(path) - 1)
(* The path and the directories on the way to it *)
Ancestors(path) == {path} \cup {SubSeq(path, 1, i - 1) : i \in Cuts(path)}
=============================================================================
