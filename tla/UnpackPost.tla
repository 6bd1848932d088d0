----------------------------- MODULE UnpackPost -----------------------------
(***************************************************************************)
(* The pass over an unpacked directory that converts executables and       *)
(* param.sfo in place (main.c 533-716, util.c 290-340): decrypt or unwrap  *)
(* a SELF, downgrade the ELF, wrap it again, backport the SFO.             *)
(*                                                                         *)
(* A conversion writes <path>.__elf.tmp or <path>.__fself.tmp, removes the *)
(* path and renames; downgrading and backporting truncate the file and     *)
(* write it again.  The process can be stopped between any two of these    *)
(* steps, writes and renames can fail, and the tool can be started again   *)
(* over what is left, with or without unpacking first (--no-unpack).       *)
(*                                                                         *)
(* A name is <<f>> for file f of the image, and Append(n, suffix) for the  *)
(* temporary of n.  A content is a form of the payload of one file.        *)
(***************************************************************************)
EXTENDS Naturals, Sequences, FiniteSets, Functions

CONSTANTS
  Files,        \* files of the image
  Originals,    \* possible images: what each file holds as unpacked
  Locked,       \* SELFs that no key in the configuration decrypts
  Foreign,      \* executables that makefself.c declines
  MaxFaults,    \* bound: interruptions and I/O failures
  MaxRevisits,  \* bound: times readdir returns a replaced file again
  MaxRuns       \* bound: runs of the tool

Forms == {"self", "fself", "elf", "sfo", "data"}
\* "hi": above the target SDK, "at": at it, "none": left alone
Contents == [of : Files, form : Forms, sdk : {"hi", "at", "none"},
             whole : BOOLEAN]
ASSUME ImagesAreWhole ==
  \A o \in Originals : /\ o \in [Files -> Contents]
                       /\ \A f \in Files : o[f].whole /\ o[f].of = f

VARIABLES
  image,      \* what the image holds
  opts,       \* struct unpack_postproc_ctx: which conversions are asked for
  dir,        \* the output directory: a function on the existing names
  pc,         \* where the pass is
  cur,        \* the name the callback is called with
  pending,    \* names the walk has still to return
  again,      \* names that were replaced while their directory is read
  faults, revisits, runs,   \* counters, for the bounds
  calm,       \* history: nothing has gone wrong in this run
  fresh,      \* history: this run unpacked the image before the pass
  hurt        \* history: files that a fault caught unprotected
vars == <<image, opts, dir, pc, cur, pending, again, faults, revisits, runs,
          calm, fresh, hurt>>
world == <<image, opts, runs, fresh>>

Options == [decrypt : BOOLEAN, downgrade : BOOLEAN, rewrap : BOOLEAN,
            backport : BOOLEAN]
(* Faulty variant: wrapping before downgrading *)
StagesWrapFirst ==
  <<"decrypt", "unfself", "rewrap", "downgrade", "backport", "walk">>
Stages == <<"decrypt", "unfself", "downgrade", "rewrap", "backport", "walk">>
After(stage) == Stages[1 + CHOOSE i \in 1 .. 5 : Stages[i] = stage]
Torn(c) == [c EXCEPT !.whole = FALSE]
(* Faulty variant: the temporary named after the file, not the path *)
TmpOfFile(stage) ==
  Append(<<cur[1]>>, IF stage = "rewrap" THEN "fself" ELSE "elf")
Tmp(stage) == Append(cur, IF stage = "rewrap" THEN "fself" ELSE "elf")
With(d, n, c) == [m \in DOMAIN d \cup {n} |-> IF m = n THEN c ELSE d[m]]
Unlink(d, n) == Restrict(d, DOMAIN d \ {n})
Here == cur \in DOMAIN dir   \* file_has_magic fails on a path that is gone
Own == {<<f>> : f \in Files}
UnpackedOver(d) ==
  [n \in Own \cup DOMAIN d |-> IF n \in Own THEN image[n[1]] ELSE d[n]]

Init ==
  /\ image \in Originals /\ opts \in Options
  /\ dir = UnpackedOver(<<>>) /\ pending = DOMAIN dir
  /\ pc = "walk" /\ cur = <<>> /\ again = {}
  /\ faults = 0 /\ revisits = 0 /\ runs = 1
  /\ calm = TRUE /\ fresh = TRUE /\ hurt = {}

-----------------------------------------------------------------------------
(* list_directory_r_internal: a name that readdir returns is looked at     *)
(* with stat64 and given to the callback.                                  *)
Visit(n) ==
  /\ pc = "walk" /\ n \in pending \cap DOMAIN dir
  /\ cur' = n /\ pending' = pending \ {n}
  /\ pc' = "decrypt"
  /\ UNCHANGED <<world, dir, again, faults, revisits, calm, hurt>>

(* A file that was removed and created anew may be returned again.         *)
Revisit(n) ==
  /\ pc = "walk" /\ n \in again \cap DOMAIN dir /\ revisits < MaxRevisits
  /\ cur' = n /\ again' = again \ {n} /\ revisits' = revisits + 1
  /\ pc' = "decrypt"
  /\ UNCHANGED <<world, dir, pending, faults, calm, hurt>>

(* A name that is gone is not returned, or it is, from the directory       *)
(* buffer: then stat64 fails and the rest of the directory is not read,    *)
(* and nobody looks at the status of the walk.                             *)
Vanished(n) ==
  /\ pc = "walk" /\ n \in pending \ DOMAIN dir
  /\ pending' = pending \ {n}
  /\ pc' \in {"walk", "cut"}
  /\ UNCHANGED <<world, dir, cur, again, faults, revisits, calm, hurt>>

EndOfDirectory ==
  /\ pc = "walk" /\ pending = {}
  /\ pc' = "done"
  /\ UNCHANGED <<world, dir, cur, pending, again, faults, revisits, calm, hurt>>

-----------------------------------------------------------------------------
(* The callback.  Whether a stage applies, by option and magic, and        *)
(* whether the converter makes something of the file                       *)
Applies(stage) ==
  /\ Here
  /\ CASE stage \in {"decrypt", "unfself"} ->
            opts.decrypt /\ dir[cur].form \in {"self", "fself"}
       [] stage = "downgrade" -> opts.downgrade /\ dir[cur].form = "elf"
       [] stage = "rewrap"    -> opts.rewrap /\ dir[cur].form = "elf"
       [] stage = "backport"  ->
            opts.backport /\ Len(cur) = 1 /\ dir[cur].form = "sfo"
Converts(stage) ==
  LET c == dir[cur] IN
  CASE stage = "decrypt" -> c.form = "self" /\ c.of \notin Locked
    [] stage = "unfself" -> c.form = "fself"
    [] stage = "rewrap"  -> c.of \notin Foreign
    [] OTHER             -> c.sdk # "none"
Result(stage) ==
  CASE stage \in {"decrypt", "unfself"} -> [dir[cur] EXCEPT !.form = "elf"]
    [] stage = "rewrap"                 -> [dir[cur] EXCEPT !.form = "fself"]
    [] OTHER                            -> [dir[cur] EXCEPT !.sdk = "at"]

(* What a failing stage does to its temporary: decrypt_self_in_place       *)
(* leaves it, the others remove it                                         *)
(* Faulty variant: no failing stage removes it *)
ClearNothing(stage) == dir
Clear(stage) == IF stage = "decrypt" THEN dir ELSE Unlink(dir, Tmp(stage))

Declined(stage) ==
  /\ pc = stage
  /\ \/ ~Applies(stage) /\ UNCHANGED dir
     \/ /\ Applies(stage) /\ dir[cur].whole /\ ~Converts(stage)
        /\ dir' = IF stage \in {"unfself", "rewrap"} THEN Clear(stage) ELSE dir
  /\ pc' = After(stage)
  /\ UNCHANGED <<world, cur, pending, again, faults, revisits, calm, hurt>>

(* A file that was cut short has whatever header was written.  Without its *)
(* magic it is left alone.  With it, the converter declines, or calls      *)
(* error(), which exits, or makes something of what is there: by way of a  *)
(* temporary (OpenTmp), or in place, where the file stays cut short        *)
(* however far the writing gets.                                           *)
Garbled(stage) ==
  /\ pc = stage /\ Applies(stage) /\ ~dir[cur].whole
  /\ \/ pc' = After(stage) /\ UNCHANGED dir
     \/ pc' = After(stage) /\ stage \in {"unfself", "rewrap"} /\ dir' = Clear(stage)
     \/ /\ pc' = After(stage) /\ stage \in {"downgrade", "backport"}
        /\ Converts(stage) /\ dir' = [dir EXCEPT ![cur] = Result(stage)]
     \/ pc' = "exited" /\ stage # "backport" /\ UNCHANGED dir
  /\ UNCHANGED <<world, cur, pending, again, faults, revisits, calm, hurt>>

(* decrypt_self_in_place, unfself_in_place, rewrap_fself_in_place: the     *)
(* temporary is opened (and cut to nothing), written, the path removed,    *)
(* the temporary renamed.                                                  *)
Writing(stage) ==
  CASE stage = "decrypt" -> "decrypt:write" [] stage = "unfself" -> "unfself:write"
    [] stage = "rewrap" -> "rewrap:write" [] stage = "downgrade" -> "downgrade:write"
    [] OTHER -> "backport:write"
Removing(stage) ==
  CASE stage = "decrypt" -> "decrypt:remove" [] stage = "unfself" -> "unfself:remove"
    [] OTHER -> "rewrap:remove"
Renaming(stage) ==
  CASE stage = "decrypt" -> "decrypt:rename" [] stage = "unfself" -> "unfself:rename"
    [] OTHER -> "rewrap:rename"
Replacing == {"decrypt", "unfself", "rewrap"}

(* Faulty variant: the path is removed before its conversion is written *)
OpenTmpRemoveFirst(stage) ==
  /\ pc = stage /\ Applies(stage) /\ Converts(stage)
  /\ dir' = Unlink(With(dir, Tmp(stage), Torn(Result(stage))), cur)
  /\ pc' = Writing(stage)
  /\ UNCHANGED <<world, cur, pending, again, faults, revisits, calm, hurt>>
OpenTmp(stage) ==
  /\ pc = stage /\ Applies(stage) /\ Converts(stage)
  /\ dir' = With(dir, Tmp(stage), Torn(Result(stage)))
  /\ pc' = Writing(stage)
  /\ UNCHANGED <<world, cur, pending, again, faults, revisits, calm, hurt>>

WriteTmp(stage) ==
  /\ pc = Writing(stage)
  /\ dir' = [dir EXCEPT ![Tmp(stage)] = Result(stage)]
  /\ pc' = Removing(stage)
  /\ UNCHANGED <<world, cur, pending, again, faults, revisits, calm, hurt>>

RemovePath(stage) ==
  /\ pc = Removing(stage)
  /\ dir' = Unlink(dir, cur)
  /\ pc' = Renaming(stage)
  /\ UNCHANGED <<world, cur, pending, again, faults, revisits, calm, hurt>>

RenameTmp(stage) ==
  /\ pc = Renaming(stage)
  /\ dir' = With(Unlink(dir, Tmp(stage)), cur, dir[Tmp(stage)])
  /\ again' = again \cup {cur}
  /\ pc' = IF stage = "decrypt" THEN "downgrade" ELSE After(stage)
  /\ UNCHANGED <<world, cur, pending, faults, revisits, calm, hurt>>

(* elf_downgrade_file, sfo_save_to_file: fopen "wb" and write              *)
OpenInPlace(stage) ==
  /\ pc = stage /\ Applies(stage) /\ dir[cur].whole /\ Converts(stage)
  /\ dir' = [dir EXCEPT ![cur] = Torn(Result(stage))]
  /\ pc' = Writing(stage)
  /\ UNCHANGED <<world, cur, pending, again, faults, revisits, calm, hurt>>

WriteInPlace(stage) ==
  /\ pc = Writing(stage)
  /\ dir' = [dir EXCEPT ![cur].whole = TRUE]
  /\ pc' = After(stage)
  /\ UNCHANGED <<world, cur, pending, again, faults, revisits, calm, hurt>>

-----------------------------------------------------------------------------
Fault == /\ faults < MaxFaults
         /\ faults' = faults + 1 /\ calm' = FALSE
         /\ UNCHANGED <<world, cur, pending, again, revisits>>

(* The disk is full.  When fwrite tells of it, the temporary stays as far  *)
(* as it was written, or is removed.  When the data were still in the      *)
(* buffer of stdio only fclose would tell, and nobody asks it: the         *)
(* conversion goes on as if it had succeeded.                              *)
Lost(n) == IF dir[n].whole THEN {dir[n].of} ELSE {}
TmpWriteFails(stage) ==
  /\ pc = Writing(stage) /\ Fault
  /\ dir' = Clear(stage) /\ pc' = After(stage)
  /\ UNCHANGED hurt
TmpCloseFails(stage) ==
  /\ pc = Writing(stage) /\ Fault
  /\ hurt' = hurt \cup Lost(cur) /\ pc' = Removing(stage)
  /\ UNCHANGED dir
(* A file that is rewritten in place stays cut short. *)
InPlaceWriteFails(stage) ==
  /\ pc = Writing(stage) /\ Fault
  /\ hurt' = hurt \cup {dir[cur].of} /\ pc' = After(stage)
  /\ UNCHANGED dir

(* rename fails: the temporary is removed as well.                         *)
RenameFails(stage) ==
  /\ pc = Renaming(stage) /\ Fault
  /\ hurt' = hurt \cup Lost(Tmp(stage))
  /\ dir' = Unlink(dir, Tmp(stage))
  /\ pc' = After(stage)

(* The process is killed.                                                  *)
Rewriting == pc \in {Writing("downgrade"), Writing("backport")}
Crash ==
  /\ pc \notin {"done", "cut", "exited", "crashed"} /\ Fault
  /\ pc' = "crashed"
  /\ hurt' = hurt \cup (IF Rewriting THEN {dir[cur].of} ELSE {})
  /\ UNCHANGED dir

(* The same command again; unpacking writes every file of the image anew   *)
(* and leaves other files alone.                                           *)
Restart ==
  /\ pc \in {"done", "cut", "exited", "crashed"} /\ runs < MaxRuns
  /\ \E unpack \in BOOLEAN :
       /\ fresh' = unpack
       /\ dir' = IF unpack THEN UnpackedOver(dir) ELSE dir
       /\ hurt' = IF unpack THEN {} ELSE hurt
  /\ pending' = DOMAIN dir' /\ again' = {} /\ cur' = <<>>
  /\ runs' = runs + 1 /\ calm' = TRUE /\ pc' = "walk"
  /\ UNCHANGED <<image, opts, faults, revisits>>

Replace(stage) ==
  \/ OpenTmp(stage) \/ WriteTmp(stage) \/ RemovePath(stage)
  \/ RenameTmp(stage) \/ TmpWriteFails(stage) \/ TmpCloseFails(stage)
  \/ RenameFails(stage)
Rewrite(stage) ==
  OpenInPlace(stage) \/ WriteInPlace(stage) \/ InPlaceWriteFails(stage)

Next ==
  \/ \E n \in pending : Visit(n) \/ Vanished(n)
  \/ \E n \in again : Revisit(n)
  \/ EndOfDirectory \/ Crash \/ Restart
  \/ \E stage \in Replacing : Replace(stage)
  \/ \E stage \in {"downgrade", "backport"} : Rewrite(stage)
  \/ \E stage \in Replacing \cup {"downgrade", "backport"} :
       Declined(stage) \/ Garbled(stage)
Spec == Init /\ [][Next]_vars
=============================================================================
