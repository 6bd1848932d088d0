----------------------------- MODULE PkgOpenProps -----------------------------
(***************************************************************************)
(* What opening a package or an image promises.                            *)
(***************************************************************************)
EXTENDS PkgOpen, SequencesExt

-----------------------------------------------------------------------------
(* What the user gives: the section of the configuration that the command  *)
(* line or the package chooses, and the options.                           *)
Id == CASE IsPkg -> package.id
        [] ~IsPkg /\ (IsSd \/ job.keyId = NoKeyset) -> FakeContentId
        [] OTHER -> job.keyId
Section == IF job.keyId = NoKeyset THEN Id ELSE job.keyId
SectionsOf(lines) == {l.section : l \in lines} \ {"common", FakeContentId}
Lines == {l \in ToSet(job.config) : l.section = Section /\ Section \in SectionsOf({l})}
Configured(f) == {l.value : l \in {x \in Lines : x.name = f /\ x.valid}}
Option(f) == CASE f = "passcode" -> job.passcode [] f = "mkey" -> job.sealed
               [] f = "tweak" -> job.tweak [] f = "data" -> job.data
               [] f = "sig" -> job.sig [] f = "sc0" -> job.sc0
               [] OTHER -> None
GivenAs(f) == (Configured(f) \cup {Option(f)}) \ {None}

(* The package's own image key is asked for if its section has no key, and *)
(* if there is a section it must be had.                                   *)
AsksPackage == IsPkg /\ job.keyId = NoKeyset /\ \A f \in OwnKeys : Configured(f) = {}
PackageKeyHad ==
  EncryptedKeyKnown /\ \E seed \in GivenAs("seed") \cup {None} :
                         ContentKeyKnown([EmptyKeyset EXCEPT !.seed = seed])
UnknownId == job.keyId # NoKeyset /\ Lines = {}
Refused == \/ AsksPackage /\ Lines # {} /\ ~PackageKeyHad
           \/ UnknownId
           \/ IsPkg /\ package.id = FakeContentId

-----------------------------------------------------------------------------
(* What of it is right for the images, and enough to open them             *)
Guarded == {im \in IF IsPkg THEN {package.outer, package.inner} ELSE {job.image} :
              im.signed \/ im.encrypted}
Made(im, key) == /\ im.tweak = <<"tweak", key, im.salt>>
                 /\ im.data = <<"data", key, im.salt>>
                 /\ im.sig = <<"sig", key, im.salt>>
MadeOfPasscode(im, p) == \/ Made(im, PasscodeKey(Id, p))
                         \/ im.signed /\ Made(im, NewPasscodeKey(Id, p, im.salt))
First == IF IsPkg THEN package.outer ELSE job.image
FinalKeys == {"tweak", "data", "sig"}

RightKeys ==
  IF IsSd
  THEN \A k \in GivenAs("mkey") :
         Made(job.image, SdImageKey(SdContentKey(job.image.sdVersion), k))
  ELSE \A im \in Guarded :
         /\ \A p \in GivenAs("passcode") : MadeOfPasscode(im, p)
         /\ \A k \in GivenAs("image") : Made(im, k)
         /\ \A f \in FinalKeys : \A k \in GivenAs(f) : k = First[f]
         /\ AsksPackage => /\ Made(im, package.imageKey.key)
                           /\ GivenAs("seed") \subseteq {package.seed}
EnoughKeys ==
  \/ Guarded = {} \/ IsSd
  \/ GivenAs("passcode") # {} \/ GivenAs("image") # {}
  \/ \A f \in FinalKeys : GivenAs(f) # {} /\ \A im \in Guarded : im[f] = First[f]
  \/ AsksPackage /\ PackageKeyHad

SoundImage(im) == im.magic /\ im.sound /\ im.superBlock /\ im.root
SoundFiles ==
  IF IsPkg THEN /\ package.mapped /\ package.hasImageFile
                /\ SoundImage(package.outer) /\ SoundImage(package.inner)
  ELSE /\ job.image.mapped /\ SoundImage(job.image)
       /\ IsSd => job.image.sdVersion \in 1 .. 9 /\ SdHeaderChecked(job.image)

-----------------------------------------------------------------------------
(* If all the user gives is right and some of it is enough, the images     *)
(* open: a passcode is tried in both ways it was ever used, keys derived   *)
(* for one image are derived anew for the next although they share the     *)
(* keyset (pfs.cpp:167, 189), and a stale or redundant key does no harm.   *)
RightKeyOpens ==
  pc = "loadFails" \/ (pc = "dataFails" /\ ~IsPkg) =>
    ~(SoundFiles /\ RightKeys /\ EnoughKeys /\ ~Refused /\ job.sealed # Unsealable)

(* What is open can be read with its own keys until it is closed, whatever *)
(* the images opened after it did to the keyset they share (pfs.cpp:383).  *)
KeysFit ==
  /\ "data" \in held => Readable("data", job.image)
  /\ "outer" \in held => Readable("outer", package.outer)
  /\ "inner" \in held => Readable("inner", package.inner)

(* Nothing is released twice, whatever fails, and a command that returns   *)
(* has released everything; one that exits leaves only the mapping of an   *)
(* image on the command line to the system.  The exception is a            *)
(* pfs_image.dat that can be mapped and not opened: its mapping is         *)
(* released by setup_pfs and again by process_pkg (main.c:488, 2551).      *)
RefusedData == twice = {"dataMap"} /\ IsPkg /\ "data" \notin ptrs
ReleasedOnce ==
  /\ twice # {} => RefusedData
  /\ pc = "returned" => held = {}
  /\ pc = "exited" => held \subseteq {"dataMap"}

(* An entry is written as its plaintext or not at all, if what is given as *)
(* its key is right (main.c:2601).                                         *)
EntriesEncrypted ==
  \A e \in ToSet(package.entries) :
    /\ e.new => e.key = Sc0Key(package.seed)
    /\ e.encrypted /\ ~e.new => e.key = <<"entry", e.id>>
Sc0Plain ==
  /\ EntriesEncrypted
  /\ GivenAs("sc0") \subseteq {Sc0Key(package.seed)}
  /\ GivenAs("seed") \subseteq {package.seed}
  => \A id \in DOMAIN files : files[id] = "plain"

(* When unpacking has gone through the entries, every entry that has a     *)
(* name, was asked for and has a key that can be had is written.  New      *)
(* entries need a keyset although --no-unpack asks for no image: keyset    *)
(* and options are settled in two rounds (pkg.c:1089-1125).                *)
HasKey(e) ==
  CASE e.new -> job.cmd = "unpack" /\ ~UsesData /\ GivenAs("sc0") # {} /\ ~Refused
    [] ~e.new /\ e.encrypted ->
         e.keyIndex = 3 /\ Common("pkg_entry_key_3") /\ "ENTRY_KEYS" \in Ids
    [] OTHER -> TRUE
EntriesComplete ==
  pc = "sc" /\ next > Len(package.entries) =>
    \A e \in ToSet(package.entries) :
      e.known /\ (e.extra => job.extra) /\ e.id \in job.wanted /\ HasKey(e)
        => e.id \in DOMAIN files

(* No pointer is followed that was never set.  The exceptions are listing  *)
(* with --no-unpack and --unpack-sc-entries, which opens no image to list, *)
(* and content keys of save data and of additional content, which are      *)
(* copied without asking whether they were configured (pfs_sd.c:33,        *)
(* pkg.c:907; the package's section is used if another one is named that   *)
(* the configuration does not have).                                       *)
NoCrash ==
  pc = "crash" =>
    \/ IsPkg /\ job.cmd = "list" /\ job.noUnpack /\ job.sc /\ ~UsesData
    \/ IsPkg /\ (AsksPackage \/ UnknownId) /\ NoContentKey
    \/ IsSd /\ SdContentKey(job.image.sdVersion) \notin common

-----------------------------------------------------------------------------
(* Why: what is held is what is pointed at, but for what a failure has let *)
(* go of, and then nothing that is let go of later is pointed at.          *)
AllParts == DataParts \cup PkgParts
Opening == {"tweakData", "openData", "dataFails"}
Loading == {"mapPkg", "options1", "entries", "keyset", "options2", "images", "openOuter",
            "imageFile", "openInner", "loaded", "loadFails"}
Using == {"handle", "sc", "image"}

Intact == held = ptrs
(* The cleanup to come covers all that is pointed at.                      *)
Covered == /\ ~UsesData => ptrs \cap DataParts = {}
           /\ ~s_pkg => ptrs \cap PkgParts = {}
Dropped == held = {} /\ ptrs \subseteq {"dataMap"} /\ ~s_pkg /\ IsPkg
Leaving == /\ held \subseteq DataParts \cup (IF s_pkg THEN ptrs \cap PkgParts ELSE {})
           /\ "data" \in ptrs <=> "data" \in held
           /\ s_pkg => ptrs \cap PkgParts \subseteq held
Held ==
  /\ ptrs \subseteq AllParts
  /\ pc \in {"config", "mapData"} => Intact /\ ptrs = {} /\ ~s_pkg
  /\ pc = "mapData" => UsesData
  /\ pc \in Opening => Intact /\ ptrs \subseteq {"dataMap"} /\ ~s_pkg /\ UsesData
  /\ pc \in Loading => /\ Intact /\ ~s_pkg /\ IsPkg
                       /\ ~UsesData => ptrs \cap DataParts = {}
  /\ pc \in Using => Intact /\ Covered
  /\ pc = "cleanup" => (Intact /\ Covered) \/ Dropped
  /\ pc = "return" => held = {} /\ ~s_pkg /\ "data" \notin ptrs
  /\ pc = "exit" => Leaving
  /\ twice # {} => pc \in {"return", "returned"}

(* What is open was opened with the right keys.                            *)
Opened ==
  /\ DOMAIN pfs = {"data", "outer", "inner"}
  /\ KeysFit
IInv == ReleasedOnce /\ Held /\ Opened

-----------------------------------------------------------------------------
(* Where the keys come from.  Every keyset is made of the lines read so    *)
(* far, until options and images add to it.                                *)
Values(lines, id, f) ==
  {l.value : l \in {x \in lines : x.section = id /\ x.name = f /\ x.valid}}
AsLines(k, lines, id) ==
  \A f \in Fields : IF k[f] = None THEN Values(lines, id, f) = {}
                    ELSE k[f] \in Values(lines, id, f)
Filed(lines) ==
  /\ DOMAIN keysets \ {FakeContentId} = SectionsOf(lines)
  /\ \A id \in DOMAIN keysets \ {FakeContentId} : AsLines(keysets[id], lines, id)
ReadLines == {job.config[i] : i \in 1 .. line}
AllLines == ToSet(job.config)

Shaped(sets) == \A id \in DOMAIN sets : DOMAIN sets[id] = Fields

Keysets ==
  /\ Shaped(keysets)
  /\ NoKeyset \notin DOMAIN keysets
  /\ pc = "config" => line \in 0 .. Len(job.config) /\ Filed(ReadLines)
  /\ pc \in {"config", "mapData", "tweakData"} => FakeContentId \notin DOMAIN keysets
  /\ pc \in {"mapData", "tweakData"} => Filed(AllLines)
  /\ pc = "openData" /\ job.keyId = NoKeyset =>
       Filed(AllLines) /\ opts.keyset = FakeContentId
  /\ pc \in {"mapPkg", "options1"} /\ (~UsesData \/ job.keyId = NoKeyset) => Filed(AllLines)
  /\ pc \in {"entries", "keyset"} /\ job.keyId = NoKeyset => Filed(AllLines)
  /\ pc \in {"mapPkg", "options1", "entries", "keyset"} /\ ~UsesData =>
       FakeContentId \notin DOMAIN keysets
  /\ pc \notin {"config", "returned", "exited"} => SectionsOf(AllLines) \subseteq DOMAIN keysets

(* The options of pkg_alloc, round by round                                *)
FirstSkip == CASE job.cmd = "info" -> 2
               [] job.cmd # "info" /\ job.gp4 -> 0
               [] OTHER -> IF job.noUnpack /\ job.sc THEN 1 ELSE 0
Trying == {"images", "openOuter", "imageFile", "openInner", "loaded"}
Options ==
  /\ DOMAIN opts = {"keyset", "skip"}
  /\ pc = "options1" => opts = NoOpts
  /\ pc \in {"entries", "keyset"} =>
       opts.keyset = IF job.keyId = NoKeyset THEN NoKeyset ELSE Get(keysets, job.keyId)
  /\ pc \in {"entries"} \cup Trying => opts.skip = FirstSkip
  /\ pc \in {"keyset", "options2"} => opts.skip = AfterEntries(FirstSkip)
  /\ pc = "options2" /\ job.keyId = NoKeyset =>
       \/ opts.keyset = package.id /\ package.id \in DOMAIN keysets
       \/ opts.keyset = NoKeyset /\ opts.skip # 0
  /\ pc \in Trying \cup Using /\ IsPkg /\ opts.keyset = NoKeyset =>
       UnknownId \/ (job.keyId = NoKeyset /\ AfterEntries(FirstSkip) # 0)
  /\ pc \in Trying \cup Using /\ IsPkg /\ opts.keyset # NoKeyset =>
       opts.keyset = Section /\ Section \in DOMAIN keysets
  /\ pc \in {"openOuter", "imageFile", "openInner"} =>
       ~UsesData /\ (opts.keyset = NoKeyset => opts.skip = 0)

(* What a keyset of the chosen section holds.  A key that takes the place  *)
(* of others may have overwritten them.                                    *)
Took(k, f) == k[f] # None => k[f] \in GivenAs(f)
Kept(k, f) == k[f] = None => Configured(f) = {}
Bare(k, f) == k[f] = None => Option(f) = None
PackageKey(key) ==
  AsksPackage /\ (GivenAs("seed") \subseteq {package.seed} => key = package.imageKey.key)
Found(k) ==
  /\ Took(k, "passcode") /\ Kept(k, "passcode")
  /\ k.passcode = None /\ ~UnknownId =>
       /\ k.image = None => Configured("image") = {} /\ ~(AsksPackage /\ PackageKeyHad)
       /\ k.image # None => k.image \in GivenAs("image") \/ PackageKey(k.image)
       /\ k.image = None => \A f \in FinalKeys : Took(k, f) /\ Kept(k, f)
  /\ Took(k, "seed") /\ Kept(k, "seed") /\ Kept(k, "sc0")
  /\ k.sc0 # None => k.sc0 \in GivenAs("sc0") \cup {Sc0Key(s) : s \in GivenAs("seed")}
Ready(k) ==
  /\ Found(k)
  /\ Bare(k, "passcode") /\ Bare(k, "sc0")
  /\ k.passcode = None /\ k.image = None => \A f \in FinalKeys : Bare(k, f)

Chosen ==
  /\ /\ pc \in {"entries", "keyset"} /\ job.keyId # NoKeyset /\ ~UsesData
     /\ Section \in DOMAIN keysets
     => Found(keysets[Section])
  /\ /\ pc = "options2" /\ ~UsesData /\ Section \in DOMAIN keysets
     /\ job.keyId # NoKeyset \/ opts.keyset # NoKeyset
     => Found(keysets[Section])
  /\ pc \in Trying \cup Using /\ ~UsesData /\ opts.keyset # NoKeyset =>
       Ready(keysets[Section])
  /\ pc = "openData" /\ ~IsPkg =>
       IF IsSd THEN /\ opts.keyset = FakeContentId /\ FakeContentId \in DOMAIN keysets
                    /\ keysets[FakeContentId].mkey = job.sealed /\ job.sealed # Unsealable
       ELSE \/ opts.keyset = NoKeyset /\ UnknownId
            \/ opts.keyset = Section /\ Section \in DOMAIN keysets /\ Ready(keysets[Section])

(* Which images are there to be used                                       *)
Closed == {"config", "mapData"} \cup Opening
            \cup (Loading \ {"loaded", "loadFails"})
InnerUsed ==
  /\ UsesData \/ pc \in Closed => pfs["inner"].keyset = NoKeyset
  /\ UsesData /\ pc \in (Loading \ {"loadFails"}) \cup Using => "data" \in ptrs
  /\ pc \in {"imageFile", "openInner"} => "outer" \in ptrs
  /\ ~UsesData /\ pc \in {"loaded"} \cup Using =>
       \/ opts.keyset = NoKeyset /\ FirstSkip # 0 /\ pfs["inner"].keyset = NoKeyset
       \/ {"outer", "inner"} \subseteq ptrs /\ pfs["inner"].keyset = opts.keyset

(* An image is used by a command that needs one.                           *)
Needed == pc = "image" => NeedsImage

(* Entries before the current one                                          *)
Written ==
  /\ next \in Nat \ {0} /\ (pc = "config" => next = 1)
  /\ \A i \in 1 .. next - 1 :
       LET e == package.entries[i]
       IN e.known /\ (e.extra => job.extra) /\ e.id \in job.wanted /\ HasKey(e)
            => e.id \in DOMAIN files
KeyInv == Keysets /\ Options /\ Chosen /\ InnerUsed /\ Needed /\ Written
=============================================================================
