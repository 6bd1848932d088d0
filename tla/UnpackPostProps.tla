--------------------------- MODULE UnpackPostProps ---------------------------
(***************************************************************************)
(* What the conversion of an unpacked directory should mean.               *)
(***************************************************************************)
EXTENDS UnpackPost

(* What a file should become under options o: the stages in the order of   *)
(* unpack_postproc_cb, each on what the one before made of it.             *)
Plain(o, c) ==
  IF o.decrypt /\ (c.form = "fself" \/ (c.form = "self" /\ c.of \notin Locked))
  THEN [c EXCEPT !.form = "elf"] ELSE c
Lowered(o, c) ==
  IF \/ o.downgrade /\ c.form = "elf"
     \/ o.backport /\ c.form = "sfo"
  THEN IF c.sdk = "none" THEN c ELSE [c EXCEPT !.sdk = "at"]
  ELSE c
Wrapped(o, c) ==
  IF o.rewrap /\ c.form = "elf" /\ c.of \notin Foreign
  THEN [c EXCEPT !.form = "fself"] ELSE c
Converted(o, c) == Wrapped(o, Lowered(o, Plain(o, c)))
Final(f) == Converted(opts, image[f])

(* main.c:575-582: at every moment, whatever the process was doing when it *)
(* was stopped and however often it is started again, the payload of each  *)
(* file is complete under some name, unless a rename failed for it, a      *)
(* fault hit while it was rewritten in place, or the end of its conversion *)
(* was lost at fclose, which nobody checks (selfdecrypt.c:606).            *)
Whole(n) == n \in DOMAIN dir /\ dir[n].whole
Kept(f) == \/ \E n \in DOMAIN dir : dir[n].of = f /\ dir[n].whole
           \/ Rewriting /\ dir[cur].of = f
PayloadKept == \A f \in Files : Kept(f) \/ f \in hurt

(* main.c:641 "so freshly-decrypted ELFs are covered too", 653 "so it      *)
(* wraps the downgraded ELF": a file that a pass without a fault leaves is *)
(* in its final form, also if readdir returned it several times, if an     *)
(* earlier run was interrupted, or if it was converted before.             *)
FinalForm ==
  pc = "done" /\ calm =>
    \A f \in Files :
      <<f>> \in DOMAIN dir /\ dir[<<f>>].whole => dir[<<f>>] = Final(f)

(* What a pass leaves in the directory.  A pass without a fault over a     *)
(* freshly unpacked image leaves every file of the image under its own     *)
(* name; and as long as no run was interrupted, a pass leaves no           *)
(* temporary, not even that of a failed write, which the stage after it    *)
(* removes.                                                                *)
Tidy ==
  pc = "done" =>
    /\ calm /\ fresh => \A f \in Files : <<f>> \in DOMAIN dir /\ dir[<<f>>].whole
    /\ runs = 1 => \A n \in DOMAIN dir : Len(n) = 1

(* A stage that fails changes no path but its temporary: the callback      *)
(* changes only the file it was called with and its temporaries.           *)
OnlyOwnFile ==
  [][cur # <<>> /\ cur' = cur =>
       \A n \in DOMAIN dir \cup DOMAIN dir' :
         n \notin {cur, Append(cur, "elf"), Append(cur, "fself")} =>
           /\ n \in DOMAIN dir /\ n \in DOMAIN dir'
           /\ dir'[n] = dir[n]]_vars

-----------------------------------------------------------------------------
(* Why no payload is lost: a name is sound if its file is complete or is   *)
(* being rewritten in place.  A temporary of a torn file may be removed    *)
(* before anybody has looked at it, so a complete file alone is not        *)
(* enough: there is one of which no torn name is a proper prefix.          *)
Suffixes == {"elf", "fself"}
Names == {n \in Seq(Files \cup Suffixes) : n # <<>> /\ n[1] \in Files}
Above(m, n) == Len(m) < Len(n) /\ \A i \in 1 .. Len(m) : m[i] = n[i]
SoundNames == {n \in DOMAIN dir : dir[n].whole \/ (Rewriting /\ n = cur)}
Guarded(names, sound, f) ==
  \E n \in sound : n[1] = f /\ \A m \in names : Above(m, n) => m \in sound

Outside == {"walk", "done", "cut", "exited", "crashed"}
Named ==
  /\ image \in Originals
  /\ DOMAIN dir \subseteq Names
  /\ \A n \in DOMAIN dir : dir[n] \in Contents /\ dir[n].of = n[1]
  /\ pc \notin Outside => cur \in Names
(* What is there between the file operations of a conversion.  A torn      *)
(* temporary that is about to be renamed counts as a torn name already.    *)
Steps ==
  /\ \A stage \in Replacing :
       /\ pc \in {Writing(stage), Removing(stage)} =>
            cur \in DOMAIN dir /\ Tmp(stage) \in DOMAIN dir
       /\ pc = Writing(stage) => ~Whole(Tmp(stage))
       /\ pc = Removing(stage) /\ Whole(cur) /\ ~Whole(Tmp(stage)) =>
            dir[cur].of \in hurt /\ ~calm
       /\ pc = Renaming(stage) => Tmp(stage) \in DOMAIN dir /\ cur \notin DOMAIN dir
  /\ Rewriting => cur \in DOMAIN dir
Returning ==
  {n \in {cur} : \E stage \in Replacing : pc = Renaming(stage) /\ ~Whole(Tmp(stage))}
IInv == /\ Named /\ Steps
        /\ \A f \in Files \ hurt : Guarded(DOMAIN dir \cup Returning, SoundNames, f)

(* Why a pass without a fault converts every file: whatever was done to a  *)
(* file, it converts to what the image's file does; during its turn the    *)
(* stages to come make that of it; and after its turn they have.           *)
AllStages == Replacing \cup {"downgrade", "backport"}
Rest(o, stage, c) ==
  CASE stage = "decrypt" -> Converted(o, c)
    [] stage = "unfself" ->
         Wrapped(o, Lowered(o, IF c.form = "self" THEN c ELSE Plain(o, c)))
    [] stage = "downgrade" -> Wrapped(o, Lowered(o, c))
    [] stage = "rewrap" -> IF c.form = "elf" THEN Wrapped(o, c) ELSE Lowered(o, c)
    [] stage = "backport" -> IF c.form = "sfo" THEN Lowered(o, c) ELSE c
    [] OTHER -> c
Followed(stage) == IF stage = "decrypt" THEN "downgrade" ELSE After(stage)
Low(o, c) == c.form = "elf" /\ o.downgrade => c.sdk # "hi"
WillBe(o, quiet, c, stage, want) ==
  /\ Converted(o, c) = want
  /\ stage \in {"rewrap", "backport"} => Low(o, c)
  /\ quiet => Rest(o, stage, c) = want
Mended(c) == [c EXCEPT !.whole = TRUE]

Turn(f) ==
  /\ \A stage \in AllStages :
       pc = stage /\ Whole(cur) => WillBe(opts, calm, dir[cur], stage, Final(f))
  /\ \A stage \in Replacing :
       /\ pc \in {Writing(stage), Removing(stage)} =>
            /\ Applies(stage) /\ Converts(stage)
            /\ Whole(cur) => WillBe(opts, calm, dir[cur], stage, Final(f))
       /\ pc = Removing(stage) /\ Whole(Tmp(stage)) => dir[Tmp(stage)] = Result(stage)
       /\ pc = Renaming(stage) /\ Whole(Tmp(stage)) =>
            WillBe(opts, calm, dir[Tmp(stage)], Followed(stage), Final(f))
  /\ \A stage \in {"downgrade", "backport"} :
       pc = Writing(stage) =>
         WillBe(opts, calm, Mended(dir[cur]), After(stage), Final(f))
Convertible ==
  \A f \in Files :
    /\ Whole(<<f>>) => Converted(opts, dir[<<f>>]) = Final(f)
    /\ cur = <<f>> => Turn(f)
Done(f) == Whole(<<f>>) => dir[<<f>>] = Final(f)
Behind ==
  /\ calm /\ pc \notin {"cut", "exited", "crashed"} =>
       \A f \in Files :
         <<f>> \notin pending /\ (pc \in {"walk", "done"} \/ cur # <<f>>) => Done(f)
  /\ pc = "done" => pending = {}
FInv == IInv /\ opts \in Options /\ Convertible /\ Behind

(* Why a pass leaves nothing but the files: a file of the image is there   *)
(* and complete but while its own conversion replaces or rewrites it; and  *)
(* the only temporary is the one the conversion at hand is using, or the   *)
(* one decrypt_self_in_place left, which unfself_in_place, that then       *)
(* applies to the same file, writes anew or removes.  It is left for a     *)
(* complete file only, as no SELF is ever written, so none is cut short.   *)
Intact ==
  calm /\ fresh =>
    \A f \in Files :
      \/ Whole(<<f>>)
      \/ /\ cur = <<f>>
         /\ Rewriting \/ \E stage \in Replacing : pc = Renaming(stage) /\ Whole(Tmp(stage))
Stopped == {"crashed", "exited"}
LeftAt(stage) ==
  \/ pc \in {Writing(stage), Removing(stage), Renaming(stage)}
  \/ stage = "unfself" /\ pc = "unfself" /\ Applies("unfself") /\ Whole(cur)
NoStray ==
  runs = 1 /\ pc \notin Stopped =>
    /\ pc \notin Outside => Len(cur) = 1
    /\ \A n \in DOMAIN dir :
         Len(n) = 1 \/ \E stage \in Replacing : LeftAt(stage) /\ n = Tmp(stage)
    /\ pc = Writing("decrypt") => Applies("decrypt") /\ Whole(cur)
SelfsWhole == \A n \in DOMAIN dir : dir[n].form = "self" => dir[n].whole
TInv == IInv /\ runs \in Nat \ {0} /\ Intact /\ NoStray /\ SelfsWhole
=============================================================================
