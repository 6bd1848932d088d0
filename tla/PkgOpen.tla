-------------------------------- MODULE PkgOpen --------------------------------
(***************************************************************************)
(* Opening a package or an image with the keys that can be had for it, the *)
(* Sc0 entries of the package, and letting go of everything again          *)
(* (main.c 324-510, 2528-2647, 2737-2945, 3792-3823, 3905-3957; pkg.c      *)
(* 710-1451; pfs.cpp 66-427; pfs_sd.c 6-39).                               *)
(*                                                                         *)
(* One thread; an action is a stretch of the code that acquires or         *)
(* releases one thing, fills keysets, or handles one entry.                *)
(***************************************************************************)
EXTENDS KeyMgr

CONSTANT Jobs   \* sets of command lines with the files they name

(* A key that is there is not None, and a content ID is one.               *)
JobSound(j) ==
  /\ j.cmd \in {"info", "list", "unpack"}
  /\ j.config \in Seq({j.config[i] : i \in DOMAIN j.config})
  /\ \A i \in DOMAIN j.config :
       LET l == j.config[i]
       IN l.section # NoKeyset /\ (l.name \in Fields /\ l.valid => l.value # None)
  /\ j.package.entries \in Seq({j.package.entries[i] : i \in DOMAIN j.package.entries})
  /\ j.package.id # NoKeyset /\ j.package.imageKey.key # None
ASSUME JobsSound == \A jobs \in Jobs : \A j \in jobs : JobSound(j)

VARIABLES
  job,
  line,      \* lines of the configuration file read
  common,    \* keys of its section [common]
  keysets,   \* s_title_keysets
  opts,      \* pfs_opts: [keyset, skip]
  held,      \* what is acquired: "dataMap", "data", "map", "outer", "file", "inner"
  ptrs,      \* the pointers to them that are set, released or not
  twice,     \* what was released without being held
  s_pkg,     \* s_pkg is set
  pfs,       \* the images: "data" is s_pfs, "outer" and "inner" are the package's
  next,      \* the entry pkg_enum_entries is at
  isExtra,   \* is_extra of pkg_enum_entries
  files,     \* Sc0 files written, by entry
  pc
vars == <<job, line, common, keysets, opts, held, ptrs, twice, s_pkg, pfs,
          next, isExtra, files, pc>>
config == <<job, line, common>>
resources == <<held, ptrs, twice, s_pkg>>
sc0 == <<next, isExtra, files>>

NoPfs == [keyset |-> NoKeyset, tweak |-> None, data |-> None]
NoOpts == [keyset |-> NoKeyset, skip |-> 0]

package == job.package
IsPkg == job.kind = "pkg"
UsesData == ~IsPkg \/ job.dataFile   \* setup_pfs is called
Common(name) == <<name>> \in common

DataParts == {"dataMap", "data"}
PkgParts == {"map", "outer", "file", "inner"}
Acquire(r) == held' = held \cup {r} /\ ptrs' = ptrs \cup {r} /\ UNCHANGED twice
Release(rs) == held' = held \ rs /\ twice' = twice \cup (rs \ held)

-----------------------------------------------------------------------------
(* pfs_alloc: the keys *)

Fits(im, k) == im.signed => k.sig = im.sig   \* the header hash
TitleKeys(k, im, id) ==
  LET old == GenerateForTitle(k, id, im.salt, FALSE)
      new == GenerateForTitle(old.keys, id, im.salt, TRUE)
  IN IF ~old.ok \/ Fits(im, old.keys)
     THEN [how |-> IF old.ok THEN "open" ELSE "fail", keys |-> old.keys]
     ELSE [how |-> IF Fits(im, new.keys) THEN "open" ELSE "fail", keys |-> new.keys]

(* The content key is copied from where the configuration has it, which is *)
(* nowhere if it was not configured.                                       *)
SdContentKey(version) == <<"sd_content_key", version>>
SdKeys(k, im) ==
  LET keys == GenerateForSd(k, SdContentKey(im.sdVersion), im.salt)
  IN IF im.sdVersion \notin 1 .. 9 THEN [how |-> "fail", keys |-> k]
     ELSE IF SdContentKey(im.sdVersion) \notin common
     THEN [how |-> "crash", keys |-> k]
     ELSE [how |-> IF Fits(im, keys) THEN "open" ELSE "fail", keys |-> keys]

(* pfs_alloc: checks.  The super block is checked if there is a key for it.*)
SdHeaderChecked(im) ==
  /\ im.sdVersion > 0   \* 0: the header names none
  /\ ~job.noIcv /\ im.sdVersion > 2 => Common("sd_hdr_sig_key") /\ im.sdHeader
  /\ im.authCode /\ Common("sd_auth_code_key") =>
       /\ Common("sd_hdr_data_key")
       /\ ~job.noIcv => Common("open_psid") /\ Common("open_psid_sig_key")
Checked(im, o) ==
  /\ im.sound
  /\ im.signed /\ ~o.sd /\ ~o.skipSignature => (Common("pfs_sig_key") => im.superBlock)
  /\ o.sd => SdHeaderChecked(im)

(* The super root directory can be parsed if the data are decrypted with   *)
(* the keys they were encrypted with.                                      *)
PfsAlloc(im, o) ==
  LET guarded == im.signed \/ im.encrypted
      k == keysets[o.keyset]
      none == IF guarded /\ o.skip = 0 THEN "fail" ELSE "open"
      g == IF ~guarded \/ o.keyset = NoKeyset THEN [how |-> none, keys |-> EmptyKeyset]
           ELSE IF o.sd THEN SdKeys(k, im)
           ELSE TitleKeys(k, im, IF o.id = NoKeyset THEN o.keyset ELSE o.id)
      keys == IF guarded THEN g.keys ELSE EmptyKeyset
      plain == ~im.encrypted \/ (keys.tweak = im.tweak /\ keys.data = im.data)
      passes == im.magic /\ g.how = "open" /\ Checked(im, o)
      crashes == IF passes THEN im.encrypted /\ o.keyset = NoKeyset
                 ELSE im.magic /\ g.how = "crash"
  IN [how |-> CASE crashes -> "crash"
                [] ~crashes /\ passes /\ plain /\ im.root -> "open"
                [] OTHER -> "fail",
      sets |-> IF guarded /\ im.magic /\ o.keyset # NoKeyset
               THEN [keysets EXCEPT ![o.keyset] = g.keys] ELSE keysets,
      pfs |-> [keyset |-> o.keyset,
               tweak |-> IF im.encrypted THEN keys.tweak ELSE None,
               data |-> IF im.encrypted THEN keys.data ELSE None]]

OpenPfs(r, im, o, opened, failed) ==
  LET p == PfsAlloc(im, o)
  IN /\ keysets' = p.sets
     /\ IF p.how = "open"
        THEN Acquire(r) /\ pfs' = [pfs EXCEPT ![r] = p.pfs]
        ELSE UNCHANGED <<held, ptrs, twice, pfs>>
     /\ pc' = CASE p.how = "open" -> opened [] p.how = "fail" -> failed
                [] OTHER -> "crash"
     /\ UNCHANGED <<config, opts, s_pkg, sc0>>

(* An encryption device has a copy of the keys (faulty variant: it looks   *)
(* them up in the keyset).                                                 *)
DeviceShared(r) ==
  LET k == keysets[pfs[r].keyset] IN <<k.tweak, k.data>>
Device(r) == <<pfs[r].tweak, pfs[r].data>>
Readable(r, im) == im.encrypted => Device(r) = <<im.tweak, im.data>>

-----------------------------------------------------------------------------
(* The configuration file *)

ReadLine ==
  /\ pc = "config" /\ line < Len(job.config)
  /\ LET l == job.config[line + 1]
     IN IF l.section = "common"
        THEN /\ common' = IF l.valid THEN common \cup l.value ELSE common
             /\ UNCHANGED keysets
        ELSE keysets' = ConfigLine(keysets, l) /\ UNCHANGED common
  /\ line' = line + 1
  /\ UNCHANGED <<job, opts, resources, pfs, sc0, pc>>

ConfigRead ==
  /\ pc = "config" /\ line = Len(job.config)
  /\ pc' = IF UsesData THEN "mapData" ELSE "mapPkg"
  /\ UNCHANGED <<config, keysets, opts, resources, pfs, sc0>>

-----------------------------------------------------------------------------
(* Options: tweak_pfs_options *)

Unsealable == <<"unsealable">>   \* --sealed-key-file names a file that is no good
IsSd == ~IsPkg /\ job.sealed # None
Given(option, key) == IF option # None THEN option ELSE key
WithOptions(k, sd) ==
  [k EXCEPT !.passcode = IF sd THEN @ ELSE Given(job.passcode, @),
            !.mkey = Given(job.sealed, @),
            !.tweak = Given(job.tweak, @), !.data = Given(job.data, @),
            !.sig = Given(job.sig, @), !.sc0 = Given(job.sc0, @)]
Tweak(sets, id, sd, done) ==
  LET fails == id # NoKeyset /\ job.sealed = Unsealable
  IN /\ pc' = CASE ~fails -> done
                [] fails /\ pc = "tweakData" -> "dataFails" [] OTHER -> "loadFails"
     /\ keysets' = IF fails \/ id = NoKeyset THEN sets
                   ELSE [sets EXCEPT ![id] = WithOptions(@, sd)]

-----------------------------------------------------------------------------
(* setup_pfs: the image on the command line, or a plain pfs_image.dat to   *)
(* use instead of what is in the package *)

MapData ==
  /\ pc = "mapData"
  /\ IF job.image.mapped
     THEN Acquire("dataMap") /\ pc' = "tweakData"
     ELSE UNCHANGED <<held, ptrs, twice>> /\ pc' = "dataFails"
  /\ UNCHANGED <<config, keysets, opts, s_pkg, pfs, sc0>>

TweakData ==
  /\ pc = "tweakData"
  /\ LET byId == job.keyId # NoKeyset /\ ~IsSd
         sets == IF byId THEN keysets ELSE Alloc(keysets, FakeContentId, FALSE)
         id == IF byId THEN Get(keysets, job.keyId) ELSE FakeContentId
     IN Tweak(sets, id, IsSd, "openData") /\ opts' = [keyset |-> id, skip |-> 0]
  /\ UNCHANGED <<config, resources, pfs, sc0>>

OpenData ==
  /\ pc = "openData"
  /\ OpenPfs("data", job.image,
             [keyset |-> opts.keyset, skip |-> 0, sd |-> IsSd, id |-> NoKeyset,
              skipSignature |-> TRUE],
             IF IsPkg THEN "mapPkg" ELSE "handle", "dataFails")

(* cleanup_pfs, which leaves the pointer to the mapping.                   *)
CleanupPfs == ptrs \cap DataParts
DataFails ==
  /\ pc = "dataFails"
  /\ Release(CleanupPfs)
  /\ ptrs' = ptrs \ {"data"}
  /\ pc' = IF IsPkg THEN "cleanup" ELSE "return"
  /\ UNCHANGED <<config, keysets, opts, s_pkg, pfs, sc0>>

-----------------------------------------------------------------------------
(* pkg_alloc *)

MapPkg ==
  /\ pc = "mapPkg"
  /\ IF package.mapped
     THEN Acquire("map") /\ pc' = "options1"
     ELSE UNCHANGED <<held, ptrs, twice>> /\ pc' = "loadFails"
  /\ opts' = NoOpts
  /\ UNCHANGED <<config, keysets, s_pkg, pfs, sc0>>

(* set_pkg_pfs_options_cb, called before and after the keyset is looked up.*)
Skip == CASE job.cmd = "info" -> 2
          [] job.cmd # "info" /\ job.gp4 -> opts.skip
          [] OTHER -> IF job.noUnpack /\ job.sc THEN 1 ELSE 0
SetOptions ==
  /\ pc \in {"options1", "options2"}
  /\ LET id == IF job.keyId = NoKeyset THEN opts.keyset ELSE Get(keysets, job.keyId)
     IN /\ opts' = [keyset |-> id, skip |-> Skip]
        /\ Tweak(keysets, id, FALSE, IF pc = "options1" THEN "entries" ELSE "images")
  /\ UNCHANGED <<config, resources, pfs, sc0>>

(* Entries with the new encryption need a key that only an opened package  *)
(* has (faulty variant: forgotten).                                        *)
Ids == {package.entries[i].id : i \in DOMAIN package.entries}
Entry(id) == package.entries[CHOOSE i \in DOMAIN package.entries : package.entries[i].id = id]
AfterEntriesSame(skip) == skip
AfterEntries(skip) ==
  IF skip = 1 /\ \E i \in DOMAIN package.entries : package.entries[i].new THEN 0 ELSE skip
CheckEntries ==
  /\ pc = "entries"
  /\ opts' = [opts EXCEPT !.skip = AfterEntries(@)]
  /\ pc' = "keyset"
  /\ UNCHANGED <<config, keysets, resources, pfs, sc0>>

(* pkg_get_entry_keyset *)
Key(e) ==
  LET id == pfs["inner"].keyset
  IN CASE e.new -> IF "outer" \in ptrs /\ id # NoKeyset THEN keysets[id].sc0 ELSE None
       [] ~e.new /\ e.encrypted ->
            IF e.keyIndex = 3 /\ Common("pkg_entry_key_3") /\ "ENTRY_KEYS" \in Ids
            THEN <<"entry", e.id>> ELSE None
       [] OTHER -> None

(* setup_keyset_by_image_key: the image key as the package has it          *)
ContentKeyKnown(k) ==
  package.finalized =>
    \/ package.type = "AC"
    \/ /\ package.type = "GD" /\ package.keyVersion = 1
       /\ Has(k, "seed") /\ Common("gdgp_content_key_obf_key")
EncryptedKeyKnown ==
  /\ "IMAGE_KEY" \in Ids /\ package.imageKey.whole /\ ~Entry("IMAGE_KEY").new
  /\ Entry("IMAGE_KEY").encrypted => Key(Entry("IMAGE_KEY")) # None
  /\ Common(package.imageKey.rsaKey)
(* The content key of additional content is copied from where the          *)
(* configuration has it, which is nowhere if it was not configured.        *)
NoContentKey == package.finalized /\ package.type = "AC" /\ ~Common("ac_content_key")
ImageKey(k) ==
  IF package.finalized /\ package.type = "GD" /\ k.seed # package.seed
  THEN <<"garbage", k.seed>> ELSE package.imageKey.key
Sc0Key(seed) == <<"sc0", seed>>
ByImageKey(k, onlyMissing) ==
  [k EXCEPT !.image = IF onlyMissing /\ @ # None THEN @ ELSE ImageKey(k),
            !.sc0 = IF Has(k, "seed") /\ Common("gdgp_content_key_obf_key")
                    THEN Sc0Key(k.seed) ELSE @]

OwnKeys == {"passcode", "image", "tweak", "data", "sig"}
FindKeyset ==
  /\ pc = "keyset"
  /\ LET id == package.id
         sets == Alloc(keysets, id, TRUE)
         known == id \in DOMAIN keysets
         bare == \A f \in OwnKeys : ~Has(sets[id], f)
         asks == id \in DOMAIN sets /\ bare   \* for the package's image key
         opens == EncryptedKeyKnown /\ ContentKeyKnown(sets[id])
     IN IF opts.keyset # NoKeyset \/ opts.skip # 0
        THEN pc' = "options2" /\ UNCHANGED <<keysets, opts>>
        ELSE /\ opts' = [opts EXCEPT !.keyset = Get(sets, id)]
             /\ keysets' = IF asks /\ opens
                           THEN [sets EXCEPT ![id] = ByImageKey(@, known)] ELSE sets
             /\ pc' = IF asks /\ EncryptedKeyKnown /\ NoContentKey THEN "crash"
                      ELSE IF id \notin DOMAIN sets \/ (asks /\ known /\ ~opens)
                      THEN "loadFails" ELSE "options2"
  /\ UNCHANGED <<config, resources, pfs, sc0>>

(* Without a keyset the images stay closed (faulty variant: go on and see).*)
NoImagesNever == FALSE
NoImages == opts.keyset = NoKeyset /\ opts.skip # 0
Images ==
  /\ pc = "images"
  /\ pc' = IF NoImages \/ "data" \in ptrs THEN "loaded" ELSE "openOuter"
  /\ UNCHANGED <<config, keysets, opts, resources, pfs, sc0>>

PkgOptions(skipSignature) ==
  [keyset |-> opts.keyset, skip |-> opts.skip, sd |-> FALSE, id |-> package.id,
   skipSignature |-> skipSignature]
OpenOuter ==
  /\ pc = "openOuter"
  /\ OpenPfs("outer", package.outer,
             PkgOptions(~package.finalized \/ job.noSignature),
             "imageFile", "loadFails")

ImageFile ==
  /\ pc = "imageFile"
  /\ IF package.hasImageFile /\ Readable("outer", package.outer)
     THEN Acquire("file") /\ pc' = "openInner"
     ELSE UNCHANGED <<held, ptrs, twice>> /\ pc' = "loadFails"
  /\ UNCHANGED <<config, keysets, opts, s_pkg, pfs, sc0>>

OpenInner ==
  /\ pc = "openInner"
  /\ OpenPfs("inner", package.inner, PkgOptions(TRUE), "loaded", "loadFails")

(* The error path, and error() in the caller.                              *)
LoadFails ==
  /\ pc = "loadFails"
  /\ Release(ptrs \cap PkgParts)
  /\ pc' = "exit"
  /\ UNCHANGED <<config, keysets, opts, ptrs, s_pkg, pfs, sc0>>

Loaded ==
  /\ pc = "loaded"
  /\ s_pkg' = TRUE /\ pc' = "handle"
  /\ UNCHANGED <<config, keysets, opts, held, ptrs, twice, pfs, sc0>>

-----------------------------------------------------------------------------
(* The handlers of the commands *)

NeedsImage ==
  CASE job.cmd = "unpack" -> ~job.noUnpack \/ (IsPkg /\ job.gp4)
    [] job.cmd = "list" -> TRUE
    [] job.cmd = "info" -> ~IsPkg
Unpacks == IsPkg /\ job.sc /\ job.cmd # "list"
Handle ==
  /\ pc = "handle"
  /\ pc' = CASE Unpacks -> "sc" [] ~Unpacks /\ NeedsImage -> "image" [] OTHER -> "cleanup"
  /\ UNCHANGED <<config, keysets, opts, resources, pfs, sc0>>

(* pkg_enum_entries with pkg_unpack_sc_entries_cb.  is_extra is not set    *)
(* for an entry without a name.                                            *)
current == package.entries[next]
NowExtra == IF current.known THEN current.extra ELSE isExtra
AtEntry == pc = "sc" /\ next <= Len(package.entries)
Offered == AtEntry /\ (NowExtra => job.extra)
(* Faulty variant: asks for what is marked encrypted only *)
LockedIfMarked(e) == e.encrypted
Locked(e) == e.encrypted \/ e.new
NextEntry == /\ next' = next + 1 /\ isExtra' = NowExtra
             /\ UNCHANGED <<config, keysets, opts, resources, pfs>>

SkipExtra == /\ AtEntry /\ NowExtra /\ ~job.extra
             /\ NextEntry /\ UNCHANGED <<files, pc>>
SkipLocked == /\ Offered /\ Locked(current) /\ Key(current) = None
              /\ NextEntry /\ UNCHANGED <<files, pc>>
NotWanted == /\ Offered /\ (Locked(current) => Key(current) # None)
             /\ current.id \notin job.wanted
             /\ NextEntry /\ UNCHANGED <<files, pc>>

Content(e) == IF (e.encrypted \/ e.new) => (Locked(e) /\ Key(e) = e.key)
              THEN "plain" ELSE "garbage"
Wanted == /\ Offered /\ (Locked(current) => Key(current) # None)
          /\ current.id \in job.wanted
WriteEntry == /\ Wanted
              /\ files' = [id \in DOMAIN files \cup {current.id} |->
                             IF id = current.id THEN Content(current) ELSE files[id]]
              /\ NextEntry /\ UNCHANGED pc
WriteFails == /\ Wanted /\ pc' = "exit"
              /\ UNCHANGED <<config, keysets, opts, resources, pfs, sc0>>

EndEntries ==
  /\ pc = "sc" /\ next > Len(package.entries)
  /\ pc' = IF NeedsImage THEN "image" ELSE "cleanup"
  /\ UNCHANGED <<config, keysets, opts, resources, pfs, sc0>>

(* Listing or unpacking the user tree, or writing a project file for it:   *)
(* UnpackTree.  It may fail, which ends the program.                       *)
image == IF UsesData THEN "data" ELSE "inner"
UseImage ==
  /\ pc = "image" /\ image \in ptrs
  /\ pc' \in {"cleanup", "exit"}
  /\ UNCHANGED <<config, keysets, opts, resources, pfs, sc0>>
NoImageToUse ==
  /\ pc = "image" /\ image \notin ptrs
  /\ pc' = "crash"
  /\ UNCHANGED <<config, keysets, opts, resources, pfs, sc0>>

-----------------------------------------------------------------------------
(* Letting go: at the end of process_pkg and process_pfs, and at exit.     *)

(* Faulty variant: leaves s_pkg *)
AfterFreeKept == s_pkg
AfterFree == FALSE
Cleanup ==
  /\ pc = "cleanup"
  /\ Release((IF UsesData THEN CleanupPfs ELSE {}) \cup
             (IF s_pkg THEN ptrs \cap PkgParts ELSE {}))
  /\ ptrs' = ptrs \ {"data"}
  /\ s_pkg' = AfterFree
  /\ pc' = "return"
  /\ UNCHANGED <<config, keysets, opts, pfs, sc0>>

AtExit ==
  /\ pc \in {"return", "exit"}
  /\ Release((ptrs \cap {"data"}) \cup (IF s_pkg THEN ptrs \cap PkgParts ELSE {}))
  /\ keysets' = <<>>
  /\ pc' = IF pc = "return" THEN "returned" ELSE "exited"
  /\ UNCHANGED <<config, opts, ptrs, s_pkg, pfs, sc0>>

-----------------------------------------------------------------------------
Init ==
  /\ \E jobs \in Jobs : job \in jobs
  /\ line = 0 /\ common = {} /\ keysets = <<>> /\ opts = NoOpts
  /\ held = {} /\ ptrs = {} /\ twice = {} /\ s_pkg = FALSE
  /\ pfs = [r \in {"data", "outer", "inner"} |-> NoPfs]
  /\ next = 1 /\ isExtra = FALSE /\ files = <<>> /\ pc = "config"

Next ==
  \/ ReadLine \/ ConfigRead \/ MapData \/ TweakData \/ OpenData \/ DataFails
  \/ MapPkg \/ SetOptions \/ CheckEntries \/ FindKeyset \/ Images \/ OpenOuter
  \/ ImageFile \/ OpenInner \/ LoadFails \/ Loaded
  \/ Handle \/ SkipExtra \/ SkipLocked \/ NotWanted \/ WriteEntry \/ WriteFails
  \/ EndEntries \/ UseImage \/ NoImageToUse \/ Cleanup \/ AtExit

Spec == Init /\ [][Next]_vars
=============================================================================
