----------------------------- MODULE PkgOpenProofs -----------------------------
(***************************************************************************)
(* Proofs about opening and letting go, for any packages, images,          *)
(* configurations and command lines.  IInv of PkgOpenProps is inductive.   *)
(***************************************************************************)
EXTENDS PkgOpenProps, TLAPS

USE DEF DataParts, PkgParts, AllParts

(* pfs_alloc succeeds only with the keys the image was encrypted with.     *)
LEMMA OpensRight ==
  ASSUME NEW im, NEW o, PfsAlloc(im, o).how = "open", im.encrypted
  PROVE  /\ PfsAlloc(im, o).pfs.tweak = im.tweak
         /\ PfsAlloc(im, o).pfs.data = im.data
BY DEF PfsAlloc

(* Opening an image: it is acquired, or nothing is.                        *)
LEMMA OpenCases ==
  ASSUME NEW r, NEW im, NEW o, NEW opened, NEW failed, OpenPfs(r, im, o, opened, failed)
  PROVE  /\ UNCHANGED <<job, twice, s_pkg>>
         /\ \/ /\ held' = held \cup {r} /\ ptrs' = ptrs \cup {r} /\ pc' = opened
               /\ pfs' = [pfs EXCEPT ![r] = PfsAlloc(im, o).pfs]
               /\ PfsAlloc(im, o).how = "open"
            \/ /\ UNCHANGED <<held, ptrs, pfs>> /\ pc' \in {failed, "crash"}
<1> DEFINE p == PfsAlloc(im, o)
<1>1. UNCHANGED <<job, twice, s_pkg>>
  BY DEF OpenPfs, Acquire, config
<1>2. CASE p.how = "open"
  BY <1>1, <1>2 DEF OpenPfs, Acquire
<1>3. CASE p.how # "open"
  BY <1>1, <1>3 DEF OpenPfs
<1> QED
  BY <1>2, <1>3

-----------------------------------------------------------------------------
(* Who holds what *)

LEMMA InitHeld == Init => ReleasedOnce /\ Held
BY DEF Init, ReleasedOnce, Held, Intact, Opening, Loading, Using

(* The steps of pc that acquire and release nothing *)
LEMMA PassHeld ==
  ASSUME ReleasedOnce, Held, UNCHANGED <<job, held, ptrs, twice, s_pkg>>,
         \/ pc' = pc /\ pc \notin {"return", "returned", "exited"}
         \/ pc = "config" /\ pc' = IF UsesData THEN "mapData" ELSE "mapPkg"
         \/ pc = "tweakData" /\ pc' \in {"openData", "dataFails"}
         \/ pc \in Loading \ {"loaded"} /\ pc' \in Loading \cup {"crash"}
         \/ pc = "handle" /\ pc' \in Using \cup {"cleanup"}
         \/ pc \in {"sc", "image"} /\ pc' \in Using \cup {"cleanup", "exit", "crash"}
  PROVE  (ReleasedOnce /\ Held)'
<1> USE DEF ReleasedOnce, Held, RefusedData, Intact, Covered, Dropped, Leaving,
            Opening, Loading, Using
<1>1. UNCHANGED <<UsesData, IsPkg>>
  BY DEF UsesData, IsPkg
<1>2. CASE pc' = pc /\ pc \notin {"return", "returned", "exited"}
  BY <1>1, <1>2
<1>3. CASE pc = "config" /\ pc' = IF UsesData THEN "mapData" ELSE "mapPkg"
  BY <1>1, <1>3 DEF UsesData
<1>4. CASE pc = "tweakData" /\ pc' \in {"openData", "dataFails"}
  BY <1>1, <1>4
<1>5. CASE pc \in Loading \ {"loaded"} /\ pc' \in Loading \cup {"crash"}
  BY <1>1, <1>5
<1>6. CASE pc \in Using /\ pc' \in Using \cup {"cleanup", "exit", "crash"}
  BY <1>1, <1>6
<1> QED
  BY <1>2, <1>3, <1>4, <1>5, <1>6

LEMMA NextHeld ==
  ASSUME ReleasedOnce, Held, [Next]_vars
  PROVE  (ReleasedOnce /\ Held)'
<1> USE DEF config, resources, sc0
<1>1. CASE UNCHANGED vars
  BY <1>1 DEF vars, ReleasedOnce, Held, RefusedData, Intact, Covered, Dropped, Leaving,
              UsesData, IsPkg
<1>2. CASE ReadLine \/ SkipExtra \/ SkipLocked \/ NotWanted \/ WriteEntry
  BY <1>2, PassHeld DEF ReadLine, SkipExtra, SkipLocked, NotWanted, WriteEntry, Wanted,
                        Offered, AtEntry, NextEntry
<1>3. CASE ConfigRead
  BY <1>3, PassHeld DEF ConfigRead
<1>4. CASE TweakData
  BY <1>4, PassHeld DEF TweakData, Tweak
<1>5. CASE SetOptions
  BY <1>5, PassHeld DEF SetOptions, Tweak, Loading
<1>6. CASE CheckEntries \/ FindKeyset \/ Images
  BY <1>6, PassHeld DEF CheckEntries, FindKeyset, Images, Loading
<1>7. CASE Handle
  BY <1>7, PassHeld DEF Handle, Using
<1>8. CASE WriteFails \/ EndEntries \/ UseImage \/ NoImageToUse
  BY <1>8, PassHeld DEF WriteFails, EndEntries, UseImage, NoImageToUse, Wanted, Offered,
                        AtEntry, Using
<1> USE DEF ReleasedOnce, Held, Intact, Opening, Loading, Using
<1>9. CASE MapData
  BY <1>9 DEF MapData, Acquire, UsesData, IsPkg
<1>10. CASE OpenData
  <2>1. /\ UNCHANGED <<job, twice, s_pkg>> /\ pc = "openData"
        /\ \/ /\ held' = held \cup {"data"} /\ ptrs' = ptrs \cup {"data"}
              /\ pc' = IF IsPkg THEN "mapPkg" ELSE "handle"
           \/ UNCHANGED <<held, ptrs>> /\ pc' \in {"dataFails", "crash"}
    BY <1>10, OpenCases DEF OpenData
  <2>2. UNCHANGED <<UsesData, IsPkg>>
    BY <2>1 DEF UsesData, IsPkg
  <2> QED
    BY <2>1, <2>2 DEF Covered
<1>11. CASE DataFails
  BY <1>11 DEF DataFails, CleanupPfs, Release, Covered, Dropped, UsesData, IsPkg
<1>12. CASE MapPkg
  BY <1>12 DEF MapPkg, Acquire, UsesData, IsPkg
<1>13. CASE OpenOuter \/ OpenInner
  <2>1. /\ UNCHANGED <<job, twice, s_pkg>> /\ pc \in {"openOuter", "openInner"}
        /\ \/ \E r \in {"outer", "inner"} : held' = held \cup {r} /\ ptrs' = ptrs \cup {r}
           \/ UNCHANGED <<held, ptrs>>
        /\ pc' \in {"imageFile", "loaded", "loadFails", "crash"}
    BY <1>13, OpenCases DEF OpenOuter, OpenInner
  <2>2. UNCHANGED <<UsesData, IsPkg>>
    BY <2>1 DEF UsesData, IsPkg
  <2> QED
    BY <2>1, <2>2
<1>14. CASE ImageFile
  BY <1>14 DEF ImageFile, Acquire, UsesData, IsPkg
<1>15. CASE LoadFails
  BY <1>15 DEF LoadFails, Release, Leaving, UsesData, IsPkg
<1>16. CASE Loaded
  BY <1>16 DEF Loaded, Covered, UsesData, IsPkg
<1>17. CASE Cleanup
  BY <1>17 DEF Cleanup, CleanupPfs, Release, AfterFree, Covered, Dropped, RefusedData,
               UsesData, IsPkg
<1>18. CASE AtExit
  <2>1. CASE pc = "return"
    <3>1. held' = {} /\ twice' = twice /\ pc' = "returned"
      BY <1>18, <2>1 DEF AtExit, Release
    <3> QED
      BY <1>18, <2>1, <3>1 DEF AtExit, RefusedData, IsPkg
  <2>2. CASE pc = "exit"
    <3>1. twice = {} /\ Leaving
      BY <2>2
    <3> DEFINE rs == (ptrs \cap {"data"}) \cup (IF s_pkg THEN ptrs \cap PkgParts ELSE {})
    <3>2. rs \subseteq held /\ \A x \in held : x \in rs \/ x = "dataMap"
      <4>1. CASE s_pkg
        BY <3>1, <4>1 DEF Leaving
      <4>2. CASE ~s_pkg
        BY <3>1, <4>2 DEF Leaving
      <4> QED
        BY <4>1, <4>2
    <3>3. ptrs' = ptrs /\ held' = held \ rs /\ twice' = twice \cup (rs \ held) /\ pc' = "exited"
      BY <1>18, <2>2 DEF AtExit, Release
    <3>4. twice' = {} /\ held' \subseteq {"dataMap"}
      <4> HIDE DEF rs
      <4> QED
        BY <3>1, <3>2, <3>3
    <3> QED
      BY <3>3, <3>4
  <2> QED
    BY <1>18, <2>1, <2>2 DEF AtExit
<1> QED
  BY <1>1, <1>2, <1>3, <1>4, <1>5, <1>6, <1>7, <1>8, <1>9, <1>10, <1>11, <1>12,
     <1>13, <1>14, <1>15, <1>16, <1>17, <1>18 DEF Next

(* Nothing is released twice but the mapping of a refused pfs_image.dat,   *)
(* a command that returns holds nothing, and one that exits at most that   *)
(* mapping: cleanup_pfs, pkg_alloc's error path, pkg_free and the handler  *)
(* at exit together.                                                       *)
THEOREM Releases == Spec => []ReleasedOnce
<1>1. Init => ReleasedOnce /\ Held
  BY InitHeld
<1>2. (ReleasedOnce /\ Held) /\ [Next]_vars => (ReleasedOnce /\ Held)'
  BY NextHeld
<1> QED
  BY <1>1, <1>2, PTL DEF Spec

-----------------------------------------------------------------------------
(* What is open is readable *)

(* What is open apart from what a step opens stays readable.               *)
LEMMA StillOpened ==
  ASSUME Opened, UNCHANGED <<job, pfs>>, held' \cap {"data", "outer", "inner"} \subseteq held
  PROVE  Opened'
BY DEF Opened, KeysFit, Readable, Device, package

ImageOf(r) == CASE r = "data" -> job.image [] r = "outer" -> package.outer
                [] OTHER -> package.inner
LEMMA OpenReadable ==
  ASSUME Opened, NEW r \in {"data", "outer", "inner"}, NEW o, NEW opened, NEW failed,
         OpenPfs(r, ImageOf(r), o, opened, failed)
  PROVE  Opened'
<1> DEFINE p == PfsAlloc(ImageOf(r), o)
<1>1. job' = job /\ package' = package
  BY OpenCases DEF package
<1>2. CASE UNCHANGED <<held, pfs>>
  BY <1>1, <1>2, StillOpened
<1>3. CASE /\ held' = held \cup {r} /\ pfs' = [pfs EXCEPT ![r] = p.pfs]
           /\ p.how = "open"
  <2>1. ImageOf(r).encrypted => /\ pfs'[r].tweak = ImageOf(r).tweak
                                /\ pfs'[r].data = ImageOf(r).data
    BY <1>3, OpensRight DEF Opened
  <2>2. \A q \in {"data", "outer", "inner"} \ {r} : pfs'[q] = pfs[q]
    BY <1>3 DEF Opened
  <2>3. DOMAIN pfs' = {"data", "outer", "inner"}
    BY <1>3 DEF Opened
  <2> HIDE DEF p
  <2>4. \A q \in {"data", "outer", "inner"} : q \in held' => q = r \/ q \in held
    BY <1>3
  <2> QED
    BY <1>1, <2>1, <2>2, <2>3, <2>4 DEF Opened, KeysFit, Readable, Device, ImageOf
<1> QED
  BY <1>2, <1>3, OpenCases

LEMMA NextOpened ==
  ASSUME Opened, [Next]_vars
  PROVE  Opened'
<1> DEFINE Opens == {"data", "outer", "inner"}
           Others == UNCHANGED <<job, pfs>> /\ held' \cap Opens \subseteq held
<1>1. CASE Others
  BY <1>1, StillOpened
<1>2. CASE OpenData
  <2>1. ImageOf("data") = job.image
    BY DEF ImageOf
  <2> QED
    BY <1>2, <2>1, OpenReadable DEF OpenData
<1>3. CASE OpenOuter
  <2>1. ImageOf("outer") = package.outer
    BY DEF ImageOf
  <2> QED
    BY <1>3, <2>1, OpenReadable DEF OpenOuter
<1>4. CASE OpenInner
  <2>1. ImageOf("inner") = package.inner
    BY DEF ImageOf
  <2> QED
    BY <1>4, <2>1, OpenReadable DEF OpenInner
<1>5. Others \/ OpenData \/ OpenOuter \/ OpenInner
  <2> USE DEF config, resources, sc0, Acquire, Release
  <2>1. CASE UNCHANGED vars
    BY <2>1 DEF vars
  <2>2. CASE ReadLine \/ ConfigRead \/ TweakData \/ SetOptions \/ CheckEntries
             \/ FindKeyset \/ Images
    BY <2>2 DEF ReadLine, ConfigRead, TweakData, Tweak, SetOptions, CheckEntries, FindKeyset,
                Images
  <2>3. CASE MapData \/ DataFails \/ MapPkg \/ ImageFile \/ LoadFails \/ Cleanup \/ AtExit
    BY <2>3 DEF MapData, DataFails, MapPkg, ImageFile, LoadFails, Cleanup, AtExit
  <2>4. CASE Loaded \/ Handle \/ SkipExtra \/ SkipLocked \/ NotWanted \/ WriteEntry
             \/ WriteFails \/ EndEntries \/ UseImage \/ NoImageToUse
    BY <2>4 DEF Loaded, Handle, SkipExtra, SkipLocked, NotWanted, WriteEntry, WriteFails,
                EndEntries, UseImage, NoImageToUse, Wanted, Offered, AtEntry, NextEntry
  <2> QED
    BY <2>1, <2>2, <2>3, <2>4 DEF Next
<1> QED
  BY <1>1, <1>2, <1>3, <1>4, <1>5

(* Whatever keys are derived in the keyset two images share, each of them  *)
(* is read with the keys it was opened with, and those are right:          *)
(* pfs_alloc copies them into the device and tries them on the super root. *)
THEOREM Readables == Spec => []KeysFit
<1>1. Init => Opened
  BY DEF Init, Opened, KeysFit
<1>2. Opened /\ [Next]_vars => Opened'
  BY NextOpened
<1>3. Opened => KeysFit
  BY DEF Opened
<1> QED
  BY <1>1, <1>2, <1>3, PTL DEF Spec

-----------------------------------------------------------------------------
(***************************************************************************)
(* Proofs about where keys come from, for any packages, images,            *)
(* configurations and command lines: KeyInv of PkgOpenProps is inductive.  *)
(***************************************************************************)
HIDE DEF DataParts, PkgParts, AllParts

(* What is said of the job and of the common keys stays true.              *)
LEMMA SameKnown ==
  ASSUME UNCHANGED <<job, common>>
  PROVE  EncryptedKeyKnown' <=> EncryptedKeyKnown
<1>1. \A e : ~e.new => (Key(e) # None <=> /\ e.encrypted /\ e.keyIndex = 3
                                          /\ Common("pkg_entry_key_3") /\ "ENTRY_KEYS" \in Ids)
  BY DEF Key, None
<1>2. \A e : ~e.new => (Key(e)' # None <=> /\ e.encrypted /\ e.keyIndex = 3
                                           /\ Common("pkg_entry_key_3")' /\ "ENTRY_KEYS" \in Ids')
  BY DEF Key, None
<1> QED
  BY <1>1, <1>2 DEF EncryptedKeyKnown, Entry, Ids, Common, package

LEMMA SameJob ==
  ASSUME UNCHANGED <<job, common>>
  PROVE  /\ UNCHANGED <<package, IsPkg, IsSd, UsesData, Id, Section, Lines, Ids, AllLines>>
         /\ UNCHANGED <<UnknownId, AsksPackage, PackageKeyHad, Refused, FirstSkip>>
         /\ UNCHANGED AfterEntries(FirstSkip)
         /\ \A f : GivenAs(f)' = GivenAs(f) /\ Configured(f)' = Configured(f)
                   /\ Option(f)' = Option(f)
<1> USE DEF package, IsPkg, IsSd, UsesData, Id, Section, Lines, Ids, AllLines
<1>1. UNCHANGED <<package, IsPkg, IsSd, UsesData, Id, Section, Lines, Ids, AllLines>>
  OBVIOUS
<1>2. \A f : GivenAs(f)' = GivenAs(f) /\ Configured(f)' = Configured(f) /\ Option(f)' = Option(f)
  BY DEF GivenAs, Configured, Option
<1>3. UNCHANGED <<UnknownId, AsksPackage>>
  BY <1>1, <1>2 DEF UnknownId, AsksPackage
<1>4. \A k : ContentKeyKnown(k)' <=> ContentKeyKnown(k)
  BY DEF ContentKeyKnown, Common
<1>5. UNCHANGED PackageKeyHad
  BY <1>2, <1>4, SameKnown DEF PackageKeyHad
<1>6. UNCHANGED Refused
  BY <1>1, <1>3, <1>5 DEF Refused
<1>7. UNCHANGED FirstSkip
  BY DEF FirstSkip
<1>8. UNCHANGED AfterEntries(FirstSkip)
  BY <1>7 DEF AfterEntries
<1> HIDE DEF package, IsPkg, IsSd, UsesData, Id, Section, Lines, Ids, AllLines
<1> QED
  BY <1>1, <1>2, <1>3, <1>5, <1>6, <1>7, <1>8

LEMMA SameFound ==
  ASSUME UNCHANGED <<job, common>>, NEW k
  PROVE  /\ Found(k)' <=> Found(k)
         /\ Ready(k)' <=> Ready(k)
BY SameJob DEF Found, Ready, Took, Kept, Bare, PackageKey
-----------------------------------------------------------------------------
(* The configuration file *)

LEMMA ValuesAdd ==
  ASSUME NEW lines, NEW l, NEW id, NEW f
  PROVE  Values(lines \cup {l}, id, f) =
           Values(lines, id, f) \cup (IF l.section = id /\ l.name = f /\ l.valid
                                     THEN {l.value} ELSE {})
BY DEF Values

LEMMA AllocFacts ==
  ASSUME NEW sets, NEW id, NEW real
  PROVE  /\ DOMAIN Alloc(sets, id, real) =
              IF real /\ id = FakeContentId THEN DOMAIN sets ELSE DOMAIN sets \cup {id}
         /\ \A i \in DOMAIN Alloc(sets, id, real) :
              Alloc(sets, id, real)[i] = IF i \in DOMAIN sets THEN sets[i] ELSE EmptyKeyset
BY DEF Alloc

(* A line fills one key of its section, which is there from then on.       *)
LEMMA LineFacts ==
  ASSUME NEW sets, NEW l,
         Shaped(sets), FakeContentId \notin DOMAIN sets
  PROVE  /\ DOMAIN ConfigLine(sets, l) = DOMAIN sets \cup ({l.section} \ {FakeContentId})
         /\ \A id \in DOMAIN ConfigLine(sets, l), f \in Fields :
              ConfigLine(sets, l)[id][f] =
                IF id = l.section /\ f = l.name /\ l.valid THEN l.value
                ELSE IF id \in DOMAIN sets THEN sets[id][f] ELSE None
         /\ Shaped(ConfigLine(sets, l))
<1> DEFINE there == Alloc(sets, l.section, TRUE)
<1>1. /\ DOMAIN there = DOMAIN sets \cup ({l.section} \ {FakeContentId})
      /\ \A i \in DOMAIN there : there[i] = IF i \in DOMAIN sets THEN sets[i] ELSE EmptyKeyset
  BY DEF Alloc
<1>2. ConfigLine(sets, l) =
        IF l.section \in DOMAIN there /\ l.name \in Fields /\ l.valid
        THEN [there EXCEPT ![l.section][l.name] = l.value] ELSE there
  BY DEF ConfigLine
<1> HIDE DEF there
<1>3. \A i \in DOMAIN there : /\ DOMAIN there[i] = Fields
                            /\ \A f \in Fields : there[i][f] =
                                 IF i \in DOMAIN sets THEN sets[i][f] ELSE None
  BY <1>1 DEF EmptyKeyset, Shaped
<1>4. CASE l.section \in DOMAIN there /\ l.name \in Fields /\ l.valid
  <2>1. ConfigLine(sets, l) = [there EXCEPT ![l.section][l.name] = l.value]
    BY <1>2, <1>4
  <2>2. DOMAIN ConfigLine(sets, l) = DOMAIN there
    BY <2>1
  <2>3. \A i \in DOMAIN there \ {l.section} : ConfigLine(sets, l)[i] = there[i]
    BY <2>1
  <2>4. /\ DOMAIN ConfigLine(sets, l)[l.section] = Fields
        /\ \A f \in Fields : ConfigLine(sets, l)[l.section][f] =
                             IF f = l.name THEN l.value ELSE there[l.section][f]
    BY <2>1, <1>3, <1>4
  <2> QED
    BY <2>2, <2>3, <2>4, <1>1, <1>3, <1>4 DEF Shaped
<1>5. CASE ~(l.section \in DOMAIN there /\ l.name \in Fields /\ l.valid)
  BY <1>1, <1>2, <1>3, <1>5 DEF Shaped
<1> QED
  BY <1>4, <1>5

LEMMA FiledAdd ==
  ASSUME NEW lines, NEW l, Filed(lines), FakeContentId \notin DOMAIN keysets,
         Shaped(keysets),
         l.name \in Fields /\ l.valid => l.value # None,
         keysets' = IF l.section = "common" THEN keysets ELSE ConfigLine(keysets, l)
  PROVE  /\ Filed(lines \cup {l})'
         /\ DOMAIN keysets' \subseteq DOMAIN keysets \cup {l.section}
         /\ FakeContentId \notin DOMAIN keysets'
         /\ Shaped(keysets')
<1> DEFINE more == lines \cup {l}
<1>1. SectionsOf(more) = SectionsOf(lines) \cup ({l.section} \ {"common", FakeContentId})
  BY DEF SectionsOf
<1>2. \A id, f : Values(more, id, f) =
        Values(lines, id, f) \cup (IF l.section = id /\ l.name = f /\ l.valid
                                  THEN {l.value} ELSE {})
  BY ValuesAdd
<1>3. "common" \notin DOMAIN keysets
  BY DEF Filed, SectionsOf, FakeContentId
<1>4. \A id \in DOMAIN keysets : AsLines(keysets[id], lines, id)
  BY DEF Filed
<1>5. DOMAIN keysets = SectionsOf(lines)
  BY DEF Filed
<1> HIDE DEF more
<1>6. CASE l.section = "common"
  <2>1. \A id \in DOMAIN keysets, f \in Fields : Values(more, id, f) = Values(lines, id, f)
    BY <1>2, <1>3, <1>6
  <2>2. \A id \in DOMAIN keysets : AsLines(keysets[id], more, id)
    BY <2>1, <1>4 DEF AsLines
  <2>3. keysets' = keysets
    BY <1>6
  <2>4. Filed(more)'
    BY <2>2, <2>3, <1>1, <1>5, <1>6 DEF Filed
  <2> QED
    BY <2>3, <2>4 DEF more
<1>7. CASE l.section # "common"
  <2>1. keysets' = ConfigLine(keysets, l)
    BY <1>7
  <2> DEFINE new == ConfigLine(keysets, l)
  <2>9. /\ DOMAIN new = DOMAIN keysets \cup ({l.section} \ {FakeContentId})
        /\ \A id \in DOMAIN new, f \in Fields :
             new[id][f] = IF id = l.section /\ f = l.name /\ l.valid THEN l.value
                          ELSE IF id \in DOMAIN keysets THEN keysets[id][f] ELSE None
        /\ Shaped(new)
    BY LineFacts, Zenon
  <2>2. /\ DOMAIN keysets' = DOMAIN keysets \cup ({l.section} \ {FakeContentId})
        /\ Shaped(keysets')
        /\ \A id \in DOMAIN keysets', f \in Fields :
             keysets'[id][f] = IF id = l.section /\ f = l.name /\ l.valid THEN l.value
                               ELSE IF id \in DOMAIN keysets THEN keysets[id][f] ELSE None
    BY <2>9, <2>1
  <2>3. ASSUME NEW id \in DOMAIN keysets', NEW f \in Fields
        PROVE  IF keysets'[id][f] = None THEN Values(more, id, f) = {}
               ELSE keysets'[id][f] \in Values(more, id, f)
    <3>1. CASE id = l.section /\ f = l.name /\ l.valid
      BY <3>1, <2>2, <1>2
    <3>2. CASE ~(id = l.section /\ f = l.name /\ l.valid) /\ id \in DOMAIN keysets
      BY <3>2, <2>2, <1>2, <1>4 DEF AsLines
    <3>3. CASE ~(id = l.section /\ f = l.name /\ l.valid) /\ id \notin DOMAIN keysets
      <4>1. Values(lines, id, f) = {}
        BY <3>3, <1>3, <1>5, <1>7, <2>2 DEF Values, SectionsOf
      <4> QED
        BY <4>1, <3>3, <2>2, <1>2
    <3> QED
      BY <3>1, <3>2, <3>3
  <2>4. \A id \in DOMAIN keysets' : AsLines(keysets'[id], more, id)
    BY <2>3 DEF AsLines
  <2>5. DOMAIN keysets' = SectionsOf(more)
    BY <2>2, <1>1, <1>5, <1>7
  <2>6. FakeContentId \notin SectionsOf(more)
    BY DEF SectionsOf
  <2>7. Filed(more)'
    BY <2>4, <2>5, <2>6 DEF Filed
  <2> QED
    BY <2>2, <2>5, <2>6, <2>7 DEF more
<1> QED
  BY <1>6, <1>7
-----------------------------------------------------------------------------
(* Generated keys *)

(* Key generation leaves what it starts from: a passcode, else an image    *)
(* key, else the final keys.                                               *)
KeepsBase(k, r) ==
  /\ DOMAIN r = Fields
  /\ \A f \in {"passcode", "mkey", "sc0", "seed"} : r[f] = k[f]
  /\ k.passcode = None => r.image = k.image
  /\ k.passcode = None /\ k.image = None => \A f \in FinalKeys : r[f] = k[f]

LEMMA DeriveKeeps ==
  ASSUME NEW k, DOMAIN k = Fields, NEW own, NEW key, NEW salt
  PROVE  LET r == Derive([k EXCEPT !.image = own], key, salt)
         IN /\ DOMAIN r = Fields /\ r.image = own
            /\ r.tweak = <<"tweak", key, salt>> /\ r.data = <<"data", key, salt>>
            /\ r.sig = <<"sig", key, salt>>
            /\ \A f \in {"passcode", "mkey", "sc0", "seed"} : r[f] = k[f]
BY DEF Derive, Fields

LEMMA GenerateKeeps ==
  ASSUME NEW k, DOMAIN k = Fields, NEW id, NEW salt, NEW new \in BOOLEAN
  PROVE  KeepsBase(k, GenerateForTitle(k, id, salt, new).keys)
<1> DEFINE own == IF Has(k, "passcode")
                  THEN IF new THEN NewPasscodeKey(id, k.passcode, salt)
                       ELSE PasscodeKey(id, k.passcode)
                  ELSE k.image
<1>1. GenerateForTitle(k, id, salt, new) =
        IF own # None
        THEN [ok |-> TRUE, keys |-> Derive([k EXCEPT !.image = own], own, salt)]
        ELSE [ok |-> HasFinalKeys(k), keys |-> k]
  BY DEF GenerateForTitle
<1>2. k.passcode = None => own = k.image
  BY DEF Has
<1> HIDE DEF own
<1>3. CASE own # None
  BY <1>1, <1>2, <1>3, DeriveKeeps DEF KeepsBase
<1>4. CASE own = None
  BY <1>1, <1>4 DEF KeepsBase, FinalKeys, Fields
<1> QED
  BY <1>3, <1>4

LEMMA TitleKeeps ==
  ASSUME NEW k, DOMAIN k = Fields, NEW im, NEW id
  PROVE  KeepsBase(k, TitleKeys(k, im, id).keys)
<1> DEFINE old == GenerateForTitle(k, id, im.salt, FALSE)
           new == GenerateForTitle(old.keys, id, im.salt, TRUE)
<1>1. KeepsBase(k, old.keys)
  BY GenerateKeeps, Zenon
<1>2. KeepsBase(old.keys, new.keys)
  <2>1. DOMAIN old.keys = Fields
    BY <1>1 DEF KeepsBase
  <2> QED
    BY <2>1, GenerateKeeps, Zenon
<1>3. TitleKeys(k, im, id).keys \in {old.keys, new.keys}
  BY DEF TitleKeys
<1> HIDE DEF old, new
<1>4. KeepsBase(k, new.keys)
  BY <1>1, <1>2 DEF KeepsBase
<1> QED
  BY <1>1, <1>3, <1>4

LEMMA ReadyKept ==
  ASSUME NEW k, NEW r, KeepsBase(k, r)
  PROVE  /\ Found(k) => Found(r)
         /\ Ready(k) => Ready(r)
BY DEF KeepsBase, Found, Ready, Took, Kept, Bare, FinalKeys

(* Opening fills the keyset it was given, if any, and no other.            *)
LEMMA PfsAllocSets ==
  ASSUME NEW im, NEW o, Shaped(keysets)
  PROVE  LET sets == PfsAlloc(im, o).sets
         IN /\ DOMAIN sets = DOMAIN keysets
            /\ Shaped(sets)
            /\ \A id \in DOMAIN keysets \ {o.keyset} : sets[id] = keysets[id]
            /\ ~o.sd => \A id \in DOMAIN keysets : KeepsBase(keysets[id], sets[id])
<1> DEFINE k == keysets[o.keyset]
           id == IF o.id = NoKeyset THEN o.keyset ELSE o.id
           sets == PfsAlloc(im, o).sets
           filled == IF o.sd THEN SdKeys(k, im).keys ELSE TitleKeys(k, im, id).keys
<1> USE DEF Shaped
<1>1. \A x : KeepsBase(x, x) <=> DOMAIN x = Fields
  BY DEF KeepsBase
<1>2. sets = keysets \/ sets = [keysets EXCEPT ![o.keyset] = filled]
  BY DEF PfsAlloc
<1>3. ASSUME o.keyset \in DOMAIN keysets, o.sd
      PROVE  DOMAIN filled = Fields
  <2>1. \A c, m : DOMAIN GenerateForSd(k, c, m) = Fields
    BY <1>3 DEF GenerateForSd, Derive
  <2>2. filled = SdKeys(k, im).keys
    BY <1>3
  <2>3. SdKeys(k, im).keys \in {k, GenerateForSd(k, SdContentKey(im.sdVersion), im.salt)}
    BY DEF SdKeys
  <2> QED
    BY <2>1, <2>2, <2>3, <1>3
<1>4. ASSUME o.keyset \in DOMAIN keysets, ~o.sd
      PROVE  KeepsBase(k, filled)
  BY <1>4, TitleKeeps, Zenon
<1> HIDE DEF sets, filled
<1>5. CASE sets = keysets
  BY <1>1, <1>5 DEF sets
<1>6. CASE sets = [keysets EXCEPT ![o.keyset] = filled]
  <2>1. DOMAIN sets = DOMAIN keysets
    BY <1>6
  <2>2. ASSUME NEW i \in DOMAIN keysets, i # o.keyset
        PROVE  sets[i] = keysets[i]
    BY <1>6, <2>2
  <2>3. ASSUME o.keyset \in DOMAIN keysets
        PROVE  DOMAIN sets[o.keyset] = Fields /\ (~o.sd => KeepsBase(k, sets[o.keyset]))
    <3>1. sets[o.keyset] = filled
      BY <1>6, <2>3
    <3> QED
      BY <3>1, <2>3, <1>3, <1>4 DEF KeepsBase
  <2> QED
    BY <2>1, <2>2, <2>3, <1>1 DEF sets
<1> QED
  BY <1>2, <1>5, <1>6

LEMMA TitleOpens ==
  ASSUME NEW k, DOMAIN k = Fields, NEW im, NEW id,
         \/ /\ k.passcode # None
            /\ \/ Made(im, PasscodeKey(id, k.passcode))
               \/ im.signed /\ Made(im, NewPasscodeKey(id, k.passcode, im.salt))
         \/ k.passcode = None /\ k.image # None /\ Made(im, k.image)
         \/ /\ k.passcode = None /\ k.image = None
            /\ \A f \in FinalKeys : k[f] # None /\ k[f] = im[f]
  PROVE  /\ TitleKeys(k, im, id).how = "open"
         /\ TitleKeys(k, im, id).keys.tweak = im.tweak
         /\ TitleKeys(k, im, id).keys.data = im.data
<1> DEFINE old == GenerateForTitle(k, id, im.salt, FALSE)
           new == GenerateForTitle(old.keys, id, im.salt, TRUE)
           made == k.passcode # None \/ k.image # None
           oldKey == IF k.passcode # None THEN PasscodeKey(id, k.passcode) ELSE k.image
           newKey == NewPasscodeKey(id, k.passcode, im.salt)
<1>1. TitleKeys(k, im, id) =
        IF ~old.ok \/ Fits(im, old.keys)
        THEN [how |-> IF old.ok THEN "open" ELSE "fail", keys |-> old.keys]
        ELSE [how |-> IF Fits(im, new.keys) THEN "open" ELSE "fail", keys |-> new.keys]
  BY DEF TitleKeys
<1>2. made => /\ old.ok /\ DOMAIN old.keys = Fields
              /\ old.keys.passcode = k.passcode
              /\ old.keys.tweak = <<"tweak", oldKey, im.salt>>
              /\ old.keys.data = <<"data", oldKey, im.salt>>
              /\ old.keys.sig = <<"sig", oldKey, im.salt>>
  <2>1. CASE made
    <3>1. old = [ok |-> TRUE, keys |-> Derive([k EXCEPT !.image = oldKey], oldKey, im.salt)]
      BY <2>1 DEF GenerateForTitle, Has, PasscodeKey, None
    <3> HIDE DEF old, oldKey
    <3> QED
      BY <3>1, DeriveKeeps
  <2> QED
    BY <2>1
<1>3. ~made => old.keys = k /\ (old.ok <=> HasFinalKeys(k))
  BY DEF GenerateForTitle, Has
<1> HIDE DEF old
<1>4. k.passcode # None => /\ new.keys.tweak = <<"tweak", newKey, im.salt>>
                           /\ new.keys.data = <<"data", newKey, im.salt>>
                           /\ new.keys.sig = <<"sig", newKey, im.salt>>
  <2>1. CASE k.passcode # None
    <3>1. DOMAIN old.keys = Fields /\ old.keys.passcode = k.passcode
      BY <1>2, <2>1
    <3>2. new = [ok |-> TRUE,
                 keys |-> Derive([old.keys EXCEPT !.image = newKey], newKey, im.salt)]
      BY <2>1, <3>1 DEF GenerateForTitle, Has, NewPasscodeKey, None
    <3> HIDE DEF new, newKey
    <3> QED
      BY <3>1, <3>2, DeriveKeeps
  <2> QED
    BY <2>1
<1> HIDE DEF new
<1>5. CASE made /\ Made(im, oldKey)
  BY <1>1, <1>2, <1>5 DEF Made, Fits
<1>6. CASE k.passcode # None /\ im.signed /\ Made(im, newKey)
  <2>1. CASE Fits(im, old.keys)
    <3>1. <<"sig", oldKey, im.salt>> = <<"sig", newKey, im.salt>>
      BY <2>1, <1>2, <1>6 DEF Fits, Made
    <3>2. oldKey = newKey
      BY <3>1
    <3> QED
      BY <3>2, <1>5, <1>6
  <2>2. CASE ~Fits(im, old.keys)
    BY <1>1, <1>2, <1>4, <1>6, <2>2 DEF Fits, Made
  <2> QED
    BY <2>1, <2>2
<1>7. CASE ~made
  BY <1>1, <1>3, <1>7 DEF HasFinalKeys, Has, Fits, FinalKeys
<1> QED
  BY <1>5, <1>6, <1>7

-----------------------------------------------------------------------------
(* Keysets come from the configuration *)

(* Options change one keyset.                                              *)
LEMMA TweakSets ==
  ASSUME NEW sets, NEW id, NEW sd \in BOOLEAN, NEW done, Tweak(sets, id, sd, done),
         Shaped(sets)
  PROVE  /\ DOMAIN keysets' = DOMAIN sets
         /\ Shaped(keysets')
         /\ \A i \in DOMAIN sets \ {id} : keysets'[i] = sets[i]
         /\ pc' \in {done, "dataFails", "loadFails"}
         /\ pc # "tweakData" => pc' # "dataFails" \/ pc' = done
         /\ pc' = done \/ (id # NoKeyset /\ job.sealed = Unsealable)
         /\ id # NoKeyset /\ job.sealed # Unsealable /\ id \in DOMAIN sets =>
              keysets'[id] = WithOptions(sets[id], sd)
<1>1. \A k : DOMAIN k = Fields => DOMAIN WithOptions(k, sd) = Fields
  BY DEF WithOptions
<1>2. keysets' = sets \/ keysets' = [sets EXCEPT ![id] = WithOptions(sets[id], sd)]
  BY DEF Tweak
<1>3. /\ DOMAIN keysets' = DOMAIN sets
      /\ Shaped(keysets')
      /\ \A i \in DOMAIN sets \ {id} : keysets'[i] = sets[i]
  BY <1>1, <1>2 DEF Shaped
<1>4. /\ pc' \in {done, "dataFails", "loadFails"}
      /\ pc # "tweakData" => pc' # "dataFails" \/ pc' = done
      /\ pc' = done \/ (id # NoKeyset /\ job.sealed = Unsealable)
  BY DEF Tweak
<1>5. id # NoKeyset /\ job.sealed # Unsealable /\ id \in DOMAIN sets =>
        keysets'[id] = WithOptions(sets[id], sd)
  BY DEF Tweak
<1> QED
  BY <1>3, <1>4, <1>5

LEMMA OpenSets ==
  ASSUME NEW r, NEW im, NEW o, NEW opened, NEW failed, OpenPfs(r, im, o, opened, failed),
         Shaped(keysets)
  PROVE  /\ UNCHANGED <<job, line, common, opts, next, files>>
         /\ DOMAIN keysets' = DOMAIN keysets
         /\ Shaped(keysets')
         /\ \A id \in DOMAIN keysets \ {o.keyset} : keysets'[id] = keysets[id]
         /\ ~o.sd => \A id \in DOMAIN keysets : KeepsBase(keysets[id], keysets'[id])
         /\ pc' \in {opened, failed, "crash"}
<1>1. /\ UNCHANGED <<job, line, common, opts, next, files>>
      /\ keysets' = PfsAlloc(im, o).sets
      /\ pc' \in {opened, failed, "crash"}
  BY DEF OpenPfs, config, sc0
<1> QED
  BY <1>1, PfsAllocSets

LEMMA NextKeysets ==
  ASSUME JobSound(job), Held, Keysets, Options, [Next]_vars
  PROVE  Keysets'
<1> USE DEF config, resources, sc0
<1> DEFINE Typed == /\ Shaped(keysets')
                    /\ NoKeyset \notin DOMAIN keysets'
                    /\ SectionsOf(AllLines) \subseteq DOMAIN keysets'
           Early == {"config", "mapData", "tweakData", "openData", "mapPkg", "options1",
                     "entries", "keyset"}
<1>1. Shaped(keysets)
  BY DEF Keysets
<1>2. CASE UNCHANGED vars
  BY <1>2 DEF vars, Keysets, Filed, ReadLines, AllLines, UsesData, IsPkg
<1>3. CASE ReadLine
  <2> DEFINE l == job.config[line + 1]
  <2>1. /\ pc = "config" /\ line \in 0 .. Len(job.config) /\ line # Len(job.config)
        /\ UNCHANGED <<job, pc>> /\ line' = line + 1
        /\ keysets' = IF l.section = "common" THEN keysets ELSE ConfigLine(keysets, l)
    BY <1>3 DEF ReadLine, Keysets, JobSound
  <2>2. /\ Len(job.config) \in Nat /\ line + 1 \in 1 .. Len(job.config)
        /\ DOMAIN job.config = 1 .. Len(job.config)
    BY <2>1 DEF JobSound
  <2>3. l.section # NoKeyset /\ (l.name \in Fields /\ l.valid => l.value # None)
    BY <2>2 DEF JobSound
  <2>4. PICK lines, c : lines = ReadLines /\ c = l
    OBVIOUS
  <2>5. ReadLines' = lines \cup {c}
    BY <2>1, <2>2, <2>4 DEF ReadLines
  <2> HIDE DEF l
  <2>6. Filed(lines) /\ FakeContentId \notin DOMAIN keysets
    BY <2>1, <2>4 DEF Keysets
  <2>7. /\ Filed(lines \cup {c})'
        /\ DOMAIN keysets' \subseteq DOMAIN keysets \cup {c.section}
        /\ FakeContentId \notin DOMAIN keysets'
        /\ Shaped(keysets')
    BY <2>1, <2>3, <2>4, <2>6, <1>1, FiledAdd
  <2>8. Filed(ReadLines)'
    BY <2>5, <2>7 DEF Filed
  <2>9. /\ pc' = "config" /\ line' \in 0 .. Len(job'.config)
        /\ NoKeyset \notin DOMAIN keysets'
    BY <2>1, <2>2, <2>3, <2>4, <2>7 DEF Keysets
  <2> QED
    BY <2>7, <2>8, <2>9 DEF Keysets
<1>4. CASE ConfigRead
  <2>1. /\ UNCHANGED <<job, line, keysets>> /\ pc = "config" /\ line = Len(job.config)
        /\ pc' \in {"mapData", "mapPkg"}
    BY <1>4 DEF ConfigRead
  <2>2. ReadLines = AllLines /\ AllLines' = AllLines
    <3>1. DOMAIN job.config = 1 .. Len(job.config)
      BY DEF JobSound
    <3> QED
      BY <2>1, <3>1 DEF ReadLines, AllLines, ToSet
  <2>3. Filed(AllLines) /\ FakeContentId \notin DOMAIN keysets
    BY <2>1, <2>2 DEF Keysets
  <2>4. SectionsOf(AllLines) \subseteq DOMAIN keysets
    BY <2>3 DEF Filed
  <2> QED
    BY <2>1, <2>2, <2>3, <2>4 DEF Keysets, Filed

<1> HIDE DEF Typed, Early
<1>5. ASSUME Typed, pc' \notin Early, UNCHANGED job
      PROVE  Keysets'
  BY <1>5 DEF Typed, Early, Keysets, AllLines
<1>6. ASSUME UNCHANGED <<job, keysets>>, pc # "config"
      PROVE  Typed \/ pc \in {"returned", "exited"}
  BY <1>6 DEF Typed, Keysets, AllLines
<1>7. CASE MapData
  BY <1>7 DEF MapData, Keysets, AllLines, UsesData, IsPkg, Filed
<1>8. CASE TweakData
  <2> DEFINE byId == job.keyId # NoKeyset /\ ~IsSd
             sets == IF byId THEN keysets ELSE Alloc(keysets, FakeContentId, FALSE)
             id == IF byId THEN Get(keysets, job.keyId) ELSE FakeContentId
  <2>1. /\ pc = "tweakData" /\ Tweak(sets, id, IsSd, "openData")
        /\ opts' = [keyset |-> id, skip |-> 0] /\ UNCHANGED job
    BY <1>8 DEF TweakData
  <2>2. /\ Shaped(sets)
        /\ DOMAIN sets \ {FakeContentId} = DOMAIN keysets \ {FakeContentId}
        /\ \A i \in DOMAIN keysets : sets[i] = keysets[i]
        /\ NoKeyset \notin DOMAIN sets
    BY <2>1, <1>1 DEF Alloc, EmptyKeyset, Shaped, Keysets, NoKeyset, FakeContentId
  <2>3. job.keyId = NoKeyset => id = FakeContentId
    OBVIOUS
  <2> HIDE DEF sets, id
  <2>4. /\ DOMAIN keysets' = DOMAIN sets
        /\ Shaped(keysets')
        /\ \A i \in DOMAIN sets \ {id} : keysets'[i] = sets[i]
        /\ pc' \in {"openData", "dataFails", "loadFails"}
    <3>1. IsSd \in BOOLEAN
      BY DEF IsSd
    <3> QED
      BY <2>1, <2>2, <3>1, TweakSets, Zenon
  <2>5. Filed(AllLines)
    BY <2>1 DEF Keysets
  <2>6. job.keyId = NoKeyset => Filed(AllLines)'
    <3>1. AllLines' = AllLines
      BY <2>1 DEF AllLines
    <3> QED
      BY <2>2, <2>3, <2>4, <2>5, <3>1 DEF Filed
  <2>7. Typed
    BY <2>2, <2>4, <2>5 DEF Typed, Filed
  <2> QED
    BY <2>1, <2>3, <2>4, <2>6, <2>7 DEF Keysets, Typed, AllLines
<1>9. CASE OpenData
  <2> DEFINE o == [keyset |-> opts.keyset, skip |-> 0, sd |-> IsSd, id |-> NoKeyset,
                   skipSignature |-> TRUE]
  <2>1. /\ pc = "openData" /\ OpenPfs("data", job.image, o,
                                      IF IsPkg THEN "mapPkg" ELSE "handle", "dataFails")
        /\ o.keyset = opts.keyset
    BY <1>9 DEF OpenData
  <2> HIDE DEF o
  <2>2. /\ UNCHANGED job /\ DOMAIN keysets' = DOMAIN keysets
        /\ Shaped(keysets')
        /\ \A i \in DOMAIN keysets \ {opts.keyset} : keysets'[i] = keysets[i]
        /\ pc' \in {"mapPkg", "handle", "dataFails", "crash"}
    <3> DEFINE opened == IF IsPkg THEN "mapPkg" ELSE "handle"
    <3>1. OpenPfs("data", job.image, o, opened, "dataFails")
      BY <2>1
    <3>2. opened \in {"mapPkg", "handle"}
      OBVIOUS
    <3> HIDE DEF opened
    <3> QED
      BY <2>1, <3>1, <3>2, <1>1, OpenSets
  <2>3. job.keyId = NoKeyset => opts.keyset = FakeContentId /\ Filed(AllLines)
    BY <2>1 DEF Keysets
  <2>4. job.keyId = NoKeyset => Filed(AllLines)'
    <3>1. AllLines' = AllLines
      BY <2>2 DEF AllLines
    <3> QED
      BY <2>2, <2>3, <3>1 DEF Filed
  <2>5. UsesData'
    BY <2>1, <2>2 DEF Held, Opening, UsesData, IsPkg
  <2>6. Typed
    BY <2>1, <2>2 DEF Typed, Keysets
  <2> QED
    BY <2>1, <2>2, <2>4, <2>5, <2>6 DEF Keysets, Typed, AllLines
<1>10. CASE MapPkg
  BY <1>10 DEF MapPkg, Keysets, AllLines, UsesData, IsPkg, Filed
<1>11. CASE SetOptions
  <2> DEFINE id == IF job.keyId = NoKeyset THEN opts.keyset ELSE Get(keysets, job.keyId)
             done == IF pc = "options1" THEN "entries" ELSE "images"
  <2>1. /\ pc \in {"options1", "options2"} /\ Tweak(keysets, id, FALSE, done) /\ UNCHANGED job
    BY <1>11 DEF SetOptions
  <2>2. pc = "options1" /\ job.keyId = NoKeyset => id = NoKeyset
    BY DEF Options, NoOpts
  <2> HIDE DEF id
  <2>3. /\ DOMAIN keysets' = DOMAIN keysets
        /\ Shaped(keysets')
        /\ \A i \in DOMAIN keysets \ {id} : keysets'[i] = keysets[i]
        /\ pc' \in {done, "dataFails", "loadFails"}
    BY <2>1, <1>1, TweakSets, Zenon
  <2>4. Typed
    BY <2>1, <2>3 DEF Typed, Keysets
  <2>5. pc = "options1" /\ job.keyId = NoKeyset => Filed(AllLines)'
    <3>1. AllLines' = AllLines
      BY <2>1 DEF AllLines
    <3>2. pc = "options1" /\ job.keyId = NoKeyset => Filed(AllLines)
      BY DEF Keysets
    <3>3. NoKeyset \notin DOMAIN keysets
      BY DEF Keysets
    <3> QED
      BY <2>2, <2>3, <3>1, <3>2, <3>3 DEF Filed
  <2>6. pc' = "entries" => pc = "options1"
    BY <2>1, <2>3
  <2>7. pc' = "entries" /\ ~UsesData' => FakeContentId \notin DOMAIN keysets'
    BY <2>1, <2>3, <2>6 DEF Keysets, UsesData, IsPkg
  <2>8. pc' \in {"entries", "images", "dataFails", "loadFails"}
    BY <2>3
  <2> QED
    BY <2>1, <2>4, <2>5, <2>6, <2>7, <2>8 DEF Keysets, Typed, AllLines
<1>12. CASE CheckEntries
  BY <1>12 DEF CheckEntries, Keysets, AllLines, UsesData, IsPkg, Filed
<1>13. CASE FindKeyset
  <2> DEFINE id == package.id
             sets == Alloc(keysets, id, TRUE)
  <2>1. /\ pc = "keyset" /\ UNCHANGED job
        /\ pc' \in {"options2", "crash", "loadFails"}
        /\ \/ keysets' = keysets \/ keysets' = sets
           \/ \E k : keysets' = [sets EXCEPT ![id] = k] /\ (id \in DOMAIN sets => DOMAIN k = DOMAIN sets[id])
    BY <1>13 DEF FindKeyset, ByImageKey
  <2>2. /\ DOMAIN keysets \subseteq DOMAIN sets /\ DOMAIN sets \subseteq DOMAIN keysets \cup {id}
        /\ Shaped(sets)
    BY <1>1 DEF Alloc, EmptyKeyset, Shaped
  <2>3. id # NoKeyset
    BY DEF JobSound, package
  <2> HIDE DEF id, sets
  <2>4. /\ DOMAIN keysets \subseteq DOMAIN keysets'
        /\ DOMAIN keysets' \subseteq DOMAIN keysets \cup {id}
        /\ Shaped(keysets')
    BY <1>1, <2>1, <2>2 DEF Shaped
  <2>5. Typed
    BY <2>1, <2>3, <2>4 DEF Typed, Keysets
  <2> QED
    BY <2>1, <2>5, <1>5 DEF Early
<1>14. CASE OpenOuter \/ OpenInner
  <2>1. PICK r, im, o, opened : OpenPfs(r, im, o, opened, "loadFails")
                                /\ opened \in {"imageFile", "loaded"}
    BY <1>14 DEF OpenOuter, OpenInner
  <2>2. pc \in {"openOuter", "openInner"}
    BY <1>14 DEF OpenOuter, OpenInner
  <2>3. /\ UNCHANGED job /\ DOMAIN keysets' = DOMAIN keysets
        /\ Shaped(keysets')
        /\ pc' \in {"imageFile", "loaded", "loadFails", "crash"}
    BY <2>1, <1>1, OpenSets
  <2>4. Typed
    BY <2>2, <2>3 DEF Typed, Keysets
  <2> QED
    BY <2>3, <2>4, <1>5 DEF Early
<1>15. CASE AtExit
  <2>1. keysets' = <<>> /\ pc' \in {"returned", "exited"} /\ UNCHANGED job
    BY <1>15 DEF AtExit
  <2>2. DOMAIN keysets' = {}
    BY <2>1
  <2> QED
    BY <2>1, <2>2 DEF Keysets, Shaped
<1>16. CASE DataFails \/ Images \/ ImageFile \/ LoadFails \/ Loaded \/ Handle
            \/ SkipExtra \/ SkipLocked \/ NotWanted \/ WriteEntry \/ WriteFails
            \/ EndEntries \/ UseImage \/ NoImageToUse \/ Cleanup
  <2>1. /\ UNCHANGED <<job, keysets>> /\ pc' \notin Early
        /\ pc \notin {"config", "returned", "exited"}
    BY <1>16 DEF Early, DataFails, Images, ImageFile, LoadFails, Loaded, Handle, SkipExtra,
         SkipLocked, NotWanted, WriteEntry, WriteFails, EndEntries, UseImage, NoImageToUse,
         Cleanup, Wanted, Offered, AtEntry, NextEntry
  <2> QED
    BY <2>1, <1>5, <1>6
<1> QED
  BY <1>2, <1>3, <1>4, <1>7, <1>8, <1>9, <1>10, <1>11, <1>12, <1>13, <1>14, <1>15, <1>16
     DEF Next

-----------------------------------------------------------------------------
(* Options, round by round *)

(* A section that the configuration has is there to be chosen.             *)
LEMMA SectionThere ==
  ASSUME SectionsOf(AllLines) \subseteq DOMAIN keysets, job.keyId \notin DOMAIN keysets,
         job.keyId # NoKeyset
  PROVE  UnknownId
<1>1. Section = job.keyId
  BY DEF Section
<1>2. \A l \in ToSet(job.config) : Section \in SectionsOf({l}) => Section \in SectionsOf(AllLines)
  BY DEF SectionsOf, AllLines
<1> QED
  BY <1>1, <1>2 DEF UnknownId, Lines

LEMMA SkipSettled ==
  /\ opts = NoOpts => Skip = FirstSkip
  /\ opts.skip = AfterEntries(FirstSkip) => Skip = FirstSkip
<1>1. job.cmd # "info" /\ job.gp4 => FirstSkip = 0 /\ AfterEntries(FirstSkip) = 0
  BY DEF FirstSkip, AfterEntries
<1>2. CASE job.cmd # "info" /\ job.gp4
  BY <1>1, <1>2 DEF Skip, NoOpts
<1>3. CASE ~(job.cmd # "info" /\ job.gp4)
  BY <1>3 DEF Skip, FirstSkip
<1> QED
  BY <1>2, <1>3

(* Nothing is chosen in a step that leaves the options and the sections.   *)
LEMMA SameOptions ==
  ASSUME UNCHANGED <<job, common, opts>>, DOMAIN keysets' = DOMAIN keysets, Options,
         \/ pc' = pc
         \/ pc \in Trying /\ pc' \in (Trying \ {"images", "openOuter"}) \cup Using
         \/ pc \in Using /\ pc' \in Using
         \/ pc' \notin {"entries", "keyset", "options1", "options2"} \cup Trying \cup Using
         \/ pc' \in Using /\ ~IsPkg,
         pc' \in {"imageFile", "openInner"} => pc \in {"openOuter", "imageFile", "openInner"}
  PROVE  Options'
<1>1. Get(keysets, job.keyId)' = Get(keysets, job.keyId)
  BY DEF Get
<1> QED
  BY <1>1, SameJob DEF Options, Trying, Using

LEMMA NextOptions ==
  ASSUME JobSound(job), Held, Keysets, InnerUsed, Options, [Next]_vars
  PROVE  Options'
<1> USE DEF config, resources, sc0
<1>1. Shaped(keysets)
  BY DEF Keysets
<1>2. CASE UNCHANGED vars
  BY <1>2, SameOptions DEF vars
<1>3. CASE ReadLine \/ ConfigRead \/ TweakData
  BY <1>3 DEF ReadLine, ConfigRead, TweakData, Tweak, Options, Trying, Using
<1>4. CASE MapData \/ DataFails \/ LoadFails \/ Cleanup \/ AtExit \/ WriteFails \/ UseImage
           \/ NoImageToUse
  BY <1>4 DEF MapData, DataFails, LoadFails, Cleanup, AtExit, WriteFails, UseImage,
     NoImageToUse, Options, Trying, Using
<1>5. CASE OpenData
  <2>1. /\ pc' \in {IF IsPkg THEN "mapPkg" ELSE "handle", "dataFails", "crash"}
        /\ UNCHANGED <<job, opts>>
    BY <1>1, <1>5, OpenSets DEF OpenData
  <2>2. IsPkg' = IsPkg
    BY <2>1 DEF IsPkg
  <2> QED
    BY <2>1, <2>2 DEF Options, Trying, Using
<1>6. CASE MapPkg
  BY <1>6 DEF MapPkg, NoOpts, Options, Trying, Using
<1>7. CASE SetOptions
  <2> DEFINE id == IF job.keyId = NoKeyset THEN opts.keyset ELSE Get(keysets, job.keyId)
             done == IF pc = "options1" THEN "entries" ELSE "images"
  <2>1. /\ pc \in {"options1", "options2"} /\ Tweak(keysets, id, FALSE, done)
        /\ opts' = [keyset |-> id, skip |-> Skip] /\ UNCHANGED <<job, common>>
    BY <1>7 DEF SetOptions
  <2>2. DOMAIN keysets' = DOMAIN keysets /\ pc' \in {done, "dataFails", "loadFails"}
    <3> HIDE DEF id
    <3> QED
      BY <1>1, <2>1, TweakSets, Zenon
  <2>3. Skip = FirstSkip
    BY <2>1, SkipSettled DEF Options
  <2>4. opts'.keyset = id /\ opts'.skip = FirstSkip /\ DOMAIN opts' = {"keyset", "skip"}
    BY <2>1, <2>3
  <2>5. CASE pc' \notin {"entries", "images"}
    BY <2>2, <2>4, <2>5 DEF Options, Trying, Using
  <2>6. CASE pc = "options1" /\ pc' = "entries"
    <3>1. id = IF job.keyId = NoKeyset THEN NoKeyset ELSE Get(keysets, job.keyId)
      BY <2>6 DEF Options, NoOpts
    <3> HIDE DEF id
    <3> QED
      BY <2>1, <2>2, <2>4, <2>6, <3>1, SameJob DEF Options, Get, Trying, Using
  <2>7. CASE pc = "options2" /\ pc' = "images"
    <3>1. CASE job.keyId = NoKeyset
      <4>1. IsPkg => Section = package.id
        BY <3>1 DEF Section, Id
      <4>2. \/ id = package.id /\ package.id \in DOMAIN keysets
            \/ id = NoKeyset /\ AfterEntries(FirstSkip) # 0
        BY <2>7, <3>1 DEF Options
      <4>3. NoKeyset \notin DOMAIN keysets
        BY DEF Keysets
      <4> HIDE DEF id
      <4> QED
        BY <2>1, <2>2, <2>4, <2>7, <3>1, <4>1, <4>2, <4>3, SameJob DEF Options, Trying, Using
    <3>2. CASE job.keyId # NoKeyset
      <4>1. SectionsOf(AllLines) \subseteq DOMAIN keysets
        BY <2>7 DEF Keysets
      <4>2. id = NoKeyset => UnknownId
        BY <3>2, <4>1, SectionThere DEF Get
      <4>3. id # NoKeyset => id = Section /\ Section \in DOMAIN keysets
        BY <3>2 DEF Section, Get
      <4> HIDE DEF id
      <4> QED
        BY <2>1, <2>2, <2>4, <2>7, <3>2, <4>2, <4>3, SameJob DEF Options, Trying, Using
    <3> QED
      BY <3>1, <3>2
  <2> QED
    BY <2>1, <2>2, <2>5, <2>6, <2>7
<1>8. CASE CheckEntries
  <2>1. /\ pc = "entries" /\ pc' = "keyset" /\ UNCHANGED <<job, common, keysets>>
        /\ opts' = [opts EXCEPT !.skip = AfterEntries(@)]
    BY <1>8 DEF CheckEntries
  <2>2. opts'.keyset = opts.keyset /\ opts'.skip = AfterEntries(opts.skip)
        /\ DOMAIN opts' = {"keyset", "skip"}
    BY <2>1 DEF Options
  <2>3. opts.skip = FirstSkip
    BY <2>1 DEF Options
  <2> QED
    BY <2>1, <2>2, <2>3, SameJob DEF Options, Get, Trying, Using
<1>9. CASE FindKeyset
  <2> DEFINE sets == Alloc(keysets, package.id, TRUE)
  <2>1. /\ pc = "keyset" /\ UNCHANGED <<job, common>>
        /\ pc' \in {"options2", "crash", "loadFails"}
        /\ IF opts.keyset # NoKeyset \/ opts.skip # 0
           THEN UNCHANGED opts
           ELSE /\ opts' = [opts EXCEPT !.keyset = Get(sets, package.id)]
                /\ DOMAIN keysets' = DOMAIN sets
                /\ pc' = "options2" => package.id \in DOMAIN sets
    BY <1>9 DEF FindKeyset
  <2> HIDE DEF sets
  <2>2. opts.skip = AfterEntries(FirstSkip)
    BY <2>1 DEF Options
  <2>3. CASE pc' # "options2"
    BY <2>1, <2>3 DEF Options, Trying, Using
  <2>4. CASE pc' = "options2" /\ (opts.keyset # NoKeyset \/ opts.skip # 0)
    <3>1. job.keyId = NoKeyset => opts.keyset = NoKeyset /\ opts.skip # 0
      BY <2>1, <2>4 DEF Options
    <3> QED
      BY <2>1, <2>2, <2>4, <3>1, SameJob DEF Options, Trying, Using
  <2>5. CASE pc' = "options2" /\ ~(opts.keyset # NoKeyset \/ opts.skip # 0)
    <3>1. /\ package.id \in DOMAIN keysets' /\ opts'.keyset = package.id
          /\ opts'.skip = opts.skip /\ DOMAIN opts' = {"keyset", "skip"}
      BY <2>1, <2>5 DEF Get, Options
    <3> QED
      BY <2>1, <2>2, <2>5, <3>1, SameJob DEF Options, Trying, Using
  <2> QED
    BY <2>3, <2>4, <2>5
<1>10. CASE Images
  <2>1. /\ pc = "images" /\ UNCHANGED <<job, common, keysets, opts>>
        /\ pc' = IF NoImages \/ "data" \in ptrs THEN "loaded" ELSE "openOuter"
    BY <1>10 DEF Images
  <2>2. pc' = "openOuter" => ~UsesData /\ (opts.keyset = NoKeyset => opts.skip = 0)
    BY <2>1 DEF InnerUsed, Loading, Using, NoImages
  <2> QED
    BY <2>1, <2>2, SameJob DEF Options, Trying, Using
<1>11. CASE OpenOuter
  <2>1. /\ UNCHANGED <<job, common, opts>> /\ DOMAIN keysets' = DOMAIN keysets
        /\ pc = "openOuter" /\ pc' \in {"imageFile", "loadFails", "crash"}
    BY <1>1, <1>11, OpenSets DEF OpenOuter
  <2> QED
    BY <2>1, SameOptions DEF Trying, Using
<1>12. CASE OpenInner
  <2>1. /\ UNCHANGED <<job, common, opts>> /\ DOMAIN keysets' = DOMAIN keysets
        /\ pc = "openInner" /\ pc' \in {"loaded", "loadFails", "crash"}
    BY <1>1, <1>12, OpenSets DEF OpenInner
  <2> QED
    BY <2>1, SameOptions DEF Trying, Using
<1>13. CASE ImageFile \/ Loaded \/ Handle \/ SkipExtra \/ SkipLocked \/ NotWanted \/ WriteEntry
            \/ EndEntries
  <2>1. /\ UNCHANGED <<job, common, keysets, opts>>
        /\ \/ pc' = pc
           \/ pc = "imageFile" /\ pc' \in {"openInner", "loadFails"}
           \/ pc = "loaded" /\ pc' = "handle"
           \/ pc \in Using /\ pc' \in {"sc", "image", "cleanup"}
    BY <1>13 DEF ImageFile, Loaded, Handle, SkipExtra, SkipLocked, NotWanted, WriteEntry,
       EndEntries, Wanted, Offered, AtEntry, NextEntry, Using
  <2> QED
    BY <2>1, SameOptions DEF Trying, Using
<1> QED
  BY <1>2, <1>3, <1>4, <1>5, <1>6, <1>7, <1>8, <1>9, <1>10, <1>11, <1>12, <1>13 DEF Next

-----------------------------------------------------------------------------
(* The chosen keyset *)

LEMMA ChosenValues ==
  ASSUME NEW f
  PROVE  /\ Section \in SectionsOf(AllLines) => Configured(f) = Values(AllLines, Section, f)
         /\ Section \notin SectionsOf(AllLines) => Lines = {} /\ Configured(f) = {}
BY DEF Lines, Configured, Values, AllLines, SectionsOf

(* What the configuration says of the section is what the user gives.      *)
LEMMA LinesFound ==
  ASSUME NEW k, AsLines(k, AllLines, Section), Section \in SectionsOf(AllLines),
         ~(AsksPackage /\ PackageKeyHad)
  PROVE  Found(k)
<1>1. \A f \in Fields : IF k[f] = None THEN Configured(f) = {} ELSE k[f] \in Configured(f)
  BY ChosenValues DEF AsLines
<1>2. \A f \in Fields : (k[f] # None => k[f] \in GivenAs(f)) /\ (k[f] = None => Configured(f) = {})
  BY <1>1 DEF GivenAs
<1> QED
  BY <1>2 DEF Found, Took, Kept, Fields, FinalKeys

LEMMA EmptyFound ==
  ASSUME Section \notin SectionsOf(AllLines), ~(AsksPackage /\ PackageKeyHad)
  PROVE  Found(EmptyKeyset)
BY ChosenValues DEF Found, Took, Kept, EmptyKeyset, Fields, FinalKeys

(* Options come before the configuration.                                  *)
LEMMA OptionsReady ==
  ASSUME NEW k, DOMAIN k = Fields, Found(k)
  PROVE  Ready(WithOptions(k, FALSE))
<1> DEFINE r == WithOptions(k, FALSE)
<1>1. r = [k EXCEPT !.passcode = Given(job.passcode, @), !.mkey = Given(job.sealed, @),
                    !.tweak = Given(job.tweak, @), !.data = Given(job.data, @),
                    !.sig = Given(job.sig, @), !.sc0 = Given(job.sc0, @)]
  BY DEF WithOptions
<1>2. /\ \A f \in {"passcode", "tweak", "data", "sig", "sc0"} : r[f] = Given(Option(f), k[f])
      /\ r.image = k.image /\ r.seed = k.seed
  BY <1>1 DEF Fields, Option
<1> HIDE DEF r
<1>3. \A f \in {"passcode", "tweak", "data", "sig", "sc0"} :
        /\ Took(k, f) => Took(r, f)
        /\ Kept(k, f) => Kept(r, f)
        /\ Bare(r, f)
        /\ r[f] = None => k[f] = None
        /\ r[f] # None => r[f] = k[f] \/ r[f] \in GivenAs(f)
  BY <1>2 DEF Given, Took, Kept, Bare, GivenAs
<1> QED
  BY <1>2, <1>3 DEF r, Found, Ready, Took, Kept, FinalKeys


LEMMA FoundNow ==
  ASSUME UNCHANGED <<job, common>>
  PROVE  /\ Found(keysets[Section])' <=> Found(keysets'[Section])
         /\ Ready(keysets[Section])' <=> Ready(keysets'[Section])
BY SameJob DEF Found, Ready, Took, Kept, Bare, PackageKey

(* Nothing is said of a keyset before it is chosen, nor in a step that     *)
(* leaves it and the options alone.                                        *)
LEMMA SameChosen ==
  ASSUME UNCHANGED <<job, common>>, Chosen,
         \/ UNCHANGED <<keysets, opts>> /\ pc' = pc
         \/ /\ UNCHANGED <<keysets, opts>> /\ pc \in Trying \cup Using
            /\ pc' \notin {"entries", "keyset", "options2", "openData"}
         \/ pc' \notin {"entries", "keyset", "options2", "openData"} \cup Trying \cup Using
         \/ UsesData /\ pc' # "openData"
  PROVE  Chosen'
BY SameJob, FoundNow DEF Chosen

(* An option comes before what the section has; the keyset is then ready.  *)
LEMMA TweakReady ==
  ASSUME NEW sets, NEW id, NEW done \in {"entries", "images", "openData"},
         Tweak(sets, id, FALSE, done), pc' = done, Shaped(sets), id \in DOMAIN sets,
         id # NoKeyset, Found(sets[id])
  PROVE  Ready(keysets'[id])
<1>1. job.sealed # Unsealable
  BY DEF Tweak
<1>2. keysets' = [sets EXCEPT ![id] = WithOptions(sets[id], FALSE)]
  BY <1>1 DEF Tweak
<1>3. DOMAIN sets[id] = Fields
  BY DEF Shaped
<1> QED
  BY <1>2, <1>3, OptionsReady

LEMMA ChosenData ==
  ASSUME JobSound(job), Keysets, TweakData, ~IsPkg, pc' = "openData"
  PROVE  Chosen'
<1> DEFINE byId == job.keyId # NoKeyset /\ ~IsSd
           sets == IF byId THEN keysets ELSE Alloc(keysets, FakeContentId, FALSE)
           id == IF byId THEN Get(keysets, job.keyId) ELSE FakeContentId
<1>1. /\ pc = "tweakData" /\ Tweak(sets, id, IsSd, "openData")
      /\ opts'.keyset = id /\ UNCHANGED <<job, common>>
  BY DEF TweakData, config
<1>2. /\ Filed(AllLines) /\ Shaped(keysets) /\ FakeContentId \notin DOMAIN keysets
      /\ SectionsOf(AllLines) \subseteq DOMAIN keysets
  BY <1>1 DEF Keysets
<1>3. FakeContentId \notin SectionsOf(AllLines)
  BY DEF SectionsOf
<1>4. CASE IsSd
  <2>1. id = FakeContentId /\ FakeContentId \in DOMAIN sets /\ sets[FakeContentId] = EmptyKeyset
    BY <1>2, <1>4 DEF Alloc
  <2> HIDE DEF sets, id
  <2>2. job.sealed # Unsealable /\ job.sealed # None
    BY <1>1, <1>4, <2>1 DEF Tweak, FakeContentId, NoKeyset, IsSd
  <2>3. keysets' = [sets EXCEPT ![id] = WithOptions(sets[id], IsSd)]
    BY <1>1, <2>1, <2>2 DEF Tweak, FakeContentId, NoKeyset
  <2>4. keysets'[FakeContentId].mkey = job.sealed /\ FakeContentId \in DOMAIN keysets'
    BY <2>1, <2>2, <2>3 DEF WithOptions, Given, EmptyKeyset, Fields
  <2> QED
    BY <1>1, <1>4, <2>1, <2>2, <2>4, SameJob DEF Chosen, Trying, Using
<1>5. ASSUME ~IsSd, id = Section, Section \in DOMAIN sets, Shaped(sets), Found(sets[Section]),
             Section # NoKeyset
      PROVE  Chosen'
  <2> HIDE DEF sets, id
  <2>9. IsSd = FALSE
    BY <1>5 DEF IsSd
  <2>1. Tweak(sets, Section, FALSE, "openData")
    BY <1>1, <1>5, <2>9
  <2>2. Ready(keysets'[Section])
    BY <1>5, <2>1, TweakReady, Zenon
  <2>3. Section \in DOMAIN keysets'
    BY <1>5, <2>1, TweakSets, Zenon
  <2>4. ~IsSd' /\ ~IsPkg' /\ UsesData' /\ Section' = Section
    BY <1>1, <1>5, SameJob DEF UsesData
  <2>5. Section' \in DOMAIN keysets' /\ Ready(keysets[Section])'
    BY <1>1, <2>2, <2>3, <2>4, FoundNow
  <2> QED
    BY <1>1, <1>5, <2>4, <2>5 DEF Chosen, Trying, Using
<1>6. CASE ~IsSd /\ job.keyId = NoKeyset
  <2>1. Section = FakeContentId /\ ~AsksPackage
    BY <1>6 DEF Section, Id, AsksPackage
  <2>2. /\ id = FakeContentId /\ FakeContentId \in DOMAIN sets
        /\ sets[FakeContentId] = EmptyKeyset
    BY <1>2, <1>6 DEF Alloc
  <2>3. Shaped(sets)
    BY <1>2, <1>6 DEF Alloc, Shaped, EmptyKeyset
  <2> HIDE DEF sets, id
  <2>4. Found(sets[Section])
    BY <1>3, <2>1, <2>2, EmptyFound
  <2> QED
    BY <1>5, <1>6, <2>1, <2>2, <2>3, <2>4 DEF FakeContentId, NoKeyset
<1>7. CASE ~IsSd /\ job.keyId # NoKeyset
  <2>1. Section = job.keyId /\ ~AsksPackage
    BY <1>7 DEF Section, AsksPackage
  <2>2. CASE job.keyId \in DOMAIN keysets
    <3>1. id = Section /\ sets = keysets
      BY <1>7, <2>1, <2>2 DEF Get
    <3>2. Section \in SectionsOf(AllLines) /\ AsLines(keysets[Section], AllLines, Section)
      BY <1>2, <2>1, <2>2 DEF Filed
    <3> HIDE DEF sets, id
    <3>3. Found(sets[Section])
      BY <2>1, <3>1, <3>2, LinesFound
    <3> QED
      BY <1>2, <1>5, <1>7, <2>1, <2>2, <3>1, <3>3
  <2>3. CASE job.keyId \notin DOMAIN keysets
    <3>1. UnknownId
      BY <1>2, <1>7, <2>3, SectionThere
    <3>2. id = NoKeyset
      BY <1>7, <2>3 DEF Get
    <3> HIDE DEF id
    <3> QED
      BY <1>1, <1>7, <3>1, <3>2, SameJob DEF Chosen, Trying, Using, UsesData
  <2> QED
    BY <2>2, <2>3
<1> QED
  BY <1>4, <1>6, <1>7

LEMMA ChosenOptions ==
  ASSUME JobSound(job), Keysets, Options, Chosen, SetOptions
  PROVE  Chosen'
<1> DEFINE id == IF job.keyId = NoKeyset THEN opts.keyset ELSE Get(keysets, job.keyId)
           done == IF pc = "options1" THEN "entries" ELSE "images"
<1>1. /\ pc \in {"options1", "options2"} /\ Tweak(keysets, id, FALSE, done)
      /\ opts'.keyset = id /\ UNCHANGED <<job, common>>
  BY DEF SetOptions, config
<1>2. Shaped(keysets) /\ NoKeyset \notin DOMAIN keysets
  BY DEF Keysets
<1>3. DOMAIN keysets' = DOMAIN keysets /\ pc' \in {done, "dataFails", "loadFails"}
  <2> HIDE DEF id
  <2> QED
    BY <1>1, <1>2, TweakSets, Zenon
<1>4. ASSUME pc' = done, id = Section, Section \in DOMAIN keysets, Found(keysets[Section])
      PROVE  Ready(keysets[Section])' /\ Found(keysets[Section])'
  <2>1. done \in {"entries", "images", "openData"}
    OBVIOUS
  <2>2. Tweak(keysets, Section, FALSE, done)
    BY <1>1, <1>4
  <2>3. Section # NoKeyset
    BY <1>2, <1>4
  <2> HIDE DEF id, done
  <2>4. Ready(keysets'[Section])
    BY <1>2, <1>4, <2>1, <2>2, <2>3, TweakReady, Zenon
  <2> QED
    BY <1>1, <2>4, FoundNow DEF Ready
<1>5. CASE pc' \notin {"entries", "images"}
  BY <1>1, <1>3, <1>5, SameChosen DEF Trying, Using
<1>6. CASE pc = "options1" /\ pc' = "entries"
  <2>1. ASSUME job.keyId # NoKeyset, ~UsesData, Section \in DOMAIN keysets
        PROVE  Found(keysets[Section])'
    <3>1. Section = job.keyId /\ ~AsksPackage
      BY <2>1 DEF Section, AsksPackage
    <3>2. id = Section
      BY <2>1, <3>1 DEF Get
    <3>3. Filed(AllLines) /\ FakeContentId \notin DOMAIN keysets
      BY <1>6, <2>1 DEF Keysets
    <3>4. Section \in SectionsOf(AllLines) /\ AsLines(keysets[Section], AllLines, Section)
      BY <2>1, <3>3 DEF Filed
    <3>5. Found(keysets[Section])
      BY <3>1, <3>4, LinesFound
    <3> QED
      BY <1>4, <1>6, <2>1, <3>2, <3>5
  <2> QED
    BY <1>1, <1>3, <1>6, <2>1, SameJob DEF Chosen, Trying, Using
<1>7. CASE pc = "options2" /\ pc' = "images"
  <2>1. ASSUME ~UsesData, id # NoKeyset
        PROVE  Ready(keysets[Section])'
    <3>1. id = Section /\ Section \in DOMAIN keysets
      <4>1. CASE job.keyId # NoKeyset
        BY <2>1, <4>1 DEF Get, Section
      <4>2. CASE job.keyId = NoKeyset
        <5>1. Section = package.id
          BY <2>1, <4>2 DEF Section, Id, UsesData
        <5> QED
          BY <1>7, <2>1, <4>2, <5>1 DEF Options
      <4> QED
        BY <4>1, <4>2
    <3>2. job.keyId # NoKeyset \/ opts.keyset # NoKeyset
      BY <2>1
    <3>3. Found(keysets[Section])
      BY <1>7, <2>1, <3>1, <3>2 DEF Chosen
    <3> QED
      BY <1>4, <1>7, <3>1, <3>3
  <2> HIDE DEF id
  <2> QED
    BY <1>1, <1>3, <1>7, <2>1, SameJob DEF Chosen, Trying, Using
<1> QED
  BY <1>1, <1>3, <1>5, <1>6, <1>7

(* The package's own image key is asked for and fits its section, or       *)
(* nothing is had of it.                                                   *)
LEMMA PackageKeyFits ==
  ASSUME NEW k, DOMAIN k = Fields, JobSound(job), AsksPackage, ContentKeyKnown(k),
         Took(k, "seed")
  PROVE  ImageKey(k) # None /\ PackageKey(ImageKey(k))
<1>1. package.imageKey.key # None
  BY DEF JobSound, package
<1>2. CASE package.finalized /\ package.type = "GD"
  <2>1. k.seed # None /\ k.seed \in GivenAs("seed")
    BY <1>2 DEF ContentKeyKnown, Has, Took
  <2> QED
    BY <1>1, <2>1 DEF ImageKey, PackageKey, None
<1>3. CASE ~(package.finalized /\ package.type = "GD")
  BY <1>1, <1>3 DEF ImageKey, PackageKey
<1> QED
  BY <1>2, <1>3

LEMMA ImageKeyFound ==
  ASSUME NEW k, DOMAIN k = Fields, JobSound(job), NEW m \in BOOLEAN,
         AsksPackage, ContentKeyKnown(k), k.passcode = None, k.image = None,
         Configured("passcode") = {},
         \A f \in {"seed", "sc0"} : Took(k, f) /\ Kept(k, f)
  PROVE  Found(ByImageKey(k, m))
<1> DEFINE r == ByImageKey(k, m)
<1>1. /\ r.passcode = None /\ r.image = ImageKey(k) /\ r.seed = k.seed
      /\ r.sc0 = k.sc0 \/ (k.seed # None /\ r.sc0 = Sc0Key(k.seed))
  BY DEF ByImageKey, Has, Fields
<1>2. ImageKey(k) # None /\ PackageKey(ImageKey(k))
  BY PackageKeyFits
<1>3. r.sc0 = None => k.sc0 = None
  BY <1>1 DEF Sc0Key, None
<1>4. r.sc0 # None => r.sc0 \in GivenAs("sc0") \cup {Sc0Key(s) : s \in GivenAs("seed")}
  BY <1>1 DEF Took
<1> HIDE DEF r
<1> QED
  BY <1>1, <1>2, <1>3, <1>4 DEF r, Found, Took, Kept

LEMMA ChosenKeyset ==
  ASSUME JobSound(job), Keysets, Options, Chosen, FindKeyset
  PROVE  Chosen'
<1> DEFINE id == package.id
           sets == Alloc(keysets, id, TRUE)
           known == id \in DOMAIN keysets
           bare == \A f \in OwnKeys : ~Has(sets[id], f)
           asks == id \in DOMAIN sets /\ bare
           opens == EncryptedKeyKnown /\ ContentKeyKnown(sets[id])
<1>1. /\ pc = "keyset" /\ UNCHANGED <<job, common>> /\ pc' \in {"options2", "crash", "loadFails"}
      /\ IF opts.keyset # NoKeyset \/ opts.skip # 0
         THEN UNCHANGED <<keysets, opts>>
         ELSE /\ opts' = [opts EXCEPT !.keyset = Get(sets, id)]
              /\ keysets' = IF asks /\ opens
                            THEN [sets EXCEPT ![id] = ByImageKey(@, known)] ELSE sets
              /\ pc' = "options2" => id \in DOMAIN sets /\ ~(asks /\ known /\ ~opens)
  BY DEF FindKeyset, config
<1>2. /\ Shaped(keysets) /\ NoKeyset \notin DOMAIN keysets
      /\ SectionsOf(AllLines) \subseteq DOMAIN keysets
      /\ ~UsesData => FakeContentId \notin DOMAIN keysets
      /\ job.keyId = NoKeyset => Filed(AllLines)
  BY <1>1 DEF Keysets
<1>3. /\ DOMAIN sets \subseteq DOMAIN keysets \cup {id}
      /\ \A i \in DOMAIN sets : sets[i] = IF i \in DOMAIN keysets THEN keysets[i] ELSE EmptyKeyset
      /\ Shaped(sets)
  BY <1>2 DEF Alloc, Shaped, EmptyKeyset
<1>4. opts.keyset = IF job.keyId = NoKeyset THEN NoKeyset ELSE Get(keysets, job.keyId)
  BY <1>1 DEF Options
<1> HIDE DEF id, sets, known, bare, asks, opens
<1>5. CASE pc' # "options2"
  BY <1>1, <1>5, SameChosen DEF Trying, Using
<1>6. SUFFICES ASSUME pc' = "options2", ~UsesData, Section \in DOMAIN keysets',
                      job.keyId # NoKeyset \/ opts'.keyset # NoKeyset
               PROVE  Found(keysets'[Section])
  BY <1>1, <1>5, FoundNow, SameJob DEF Chosen, Trying, Using
<1>7. CASE opts.keyset # NoKeyset \/ opts.skip # 0
  <2>1. UNCHANGED <<keysets, opts>>
    BY <1>1, <1>7
  <2>2. job.keyId # NoKeyset
    BY <1>4, <1>6, <2>1
  <2> QED
    BY <1>1, <1>6, <2>1, <2>2 DEF Chosen
<1>8. CASE job.keyId # NoKeyset /\ ~(opts.keyset # NoKeyset \/ opts.skip # 0)
  <2>1. job.keyId \notin DOMAIN keysets
    BY <1>4, <1>8 DEF Get
  <2>2. UnknownId /\ Section = job.keyId
    BY <1>2, <1>8, <2>1, SectionThere DEF Section
  <2>3. DOMAIN keysets' = DOMAIN sets
    BY <1>1, <1>8
  <2>4. Section = id /\ id \in DOMAIN sets /\ sets[id] = EmptyKeyset
    BY <1>3, <1>6, <2>1, <2>2, <2>3
  <2>5. keysets'[id] \in {EmptyKeyset, ByImageKey(EmptyKeyset, known)}
    BY <1>1, <1>8, <2>4
  <2>6. \A f \in {"passcode", "seed", "sc0"} : keysets'[id][f] = None
    BY <2>5 DEF EmptyKeyset, ByImageKey, Has, Fields
  <2>7. \A f : Configured(f) = {}
    BY <2>2 DEF UnknownId, Configured
  <2> QED
    BY <2>2, <2>4, <2>6, <2>7 DEF Found, Took, Kept
<1>9. CASE job.keyId = NoKeyset /\ ~(opts.keyset # NoKeyset \/ opts.skip # 0)
  <2> DEFINE k == sets[id]
  <2>1. Section = id /\ id \in DOMAIN sets /\ DOMAIN k = Fields /\ IsPkg
    BY <1>1, <1>3, <1>6, <1>9 DEF Section, Id, id, UsesData, Shaped
  <2>2. known => id \in SectionsOf(AllLines) /\ AsLines(k, AllLines, id)
    BY <1>2, <1>3, <1>6, <1>9, <2>1 DEF known, Filed
  <2>3. ~known => k = EmptyKeyset /\ id \notin SectionsOf(AllLines)
    BY <1>2, <1>3, <2>1 DEF known
  <2> HIDE DEF k
  <2>4. \A f \in Fields : /\ k[f] # None => k[f] \in Configured(f)
                          /\ k[f] = None => Configured(f) = {}
    <3>1. CASE known
      BY <2>1, <2>2, <3>1, ChosenValues DEF AsLines
    <3>2. CASE ~known
      BY <2>1, <2>3, <3>2, ChosenValues DEF EmptyKeyset
    <3> QED
      BY <3>1, <3>2
  <2>5. bare <=> AsksPackage
    BY <1>9, <2>1, <2>4 DEF bare, k, Has, AsksPackage, OwnKeys, Fields
  <2>6. CASE ~bare
    <3>1. keysets' = sets /\ known
      BY <1>1, <1>9, <2>3, <2>6 DEF asks, bare, k, EmptyKeyset, OwnKeys, Has, Fields
    <3> QED
      BY <2>1, <2>2, <2>5, <2>6, <3>1, LinesFound DEF k
  <2>7. CASE bare /\ opens
    <3>1. keysets'[id] = ByImageKey(k, known)
      BY <1>1, <1>9, <2>1, <2>7 DEF asks, k
    <3>2. k.passcode = None /\ k.image = None
      BY <2>7 DEF bare, k, OwnKeys, Has
    <3>3. \A f \in {"seed", "sc0"} : Took(k, f) /\ Kept(k, f)
      BY <2>4 DEF Took, Kept, GivenAs, Fields
    <3>4. known \in BOOLEAN
      BY DEF known
    <3>5. Configured("passcode") = {} /\ ContentKeyKnown(k)
      BY <2>4, <2>7, <3>2 DEF Fields, opens, k
    <3>6. AsksPackage
      BY <2>5, <2>7
    <3> QED
      BY <2>1, <3>1, <3>2, <3>3, <3>4, <3>5, <3>6, ImageKeyFound
  <2>8. CASE bare /\ ~opens
    <3>1. keysets' = sets /\ ~known
      BY <1>1, <1>6, <1>9, <2>1, <2>8 DEF asks
    <3>2. GivenAs("seed") = {} /\ k = EmptyKeyset
      <4>1. Option("seed") = None
        BY DEF Option
      <4> QED
        BY <2>1, <2>3, <3>1, <4>1, ChosenValues DEF GivenAs
    <3>3. [EmptyKeyset EXCEPT !.seed = None] = EmptyKeyset
      BY DEF EmptyKeyset, Fields
    <3>4. ~PackageKeyHad
      BY <2>8, <3>2, <3>3 DEF PackageKeyHad, opens, k
    <3> QED
      BY <2>1, <2>3, <3>1, <3>4, EmptyFound DEF k
  <2> QED
    BY <2>6, <2>7, <2>8
<1> QED
  BY <1>7, <1>8, <1>9

LEMMA NextChosen ==
  ASSUME JobSound(job), Keysets, Options, Chosen, [Next]_vars
  PROVE  Chosen'
<1> USE DEF config, resources, sc0
<1>1. Shaped(keysets)
  BY DEF Keysets
<1>2. CASE UNCHANGED vars
  BY <1>2, SameChosen DEF vars
<1>3. CASE ReadLine
  <2>1. pc = "config" /\ pc' = "config" /\ UNCHANGED job
    BY <1>3 DEF ReadLine
  <2> QED
    BY <2>1 DEF Chosen, Trying, Using
<1>4. CASE ConfigRead \/ MapData \/ DataFails \/ MapPkg \/ LoadFails \/ Cleanup \/ AtExit
  BY <1>4, SameChosen DEF ConfigRead, MapData, DataFails, MapPkg, LoadFails, Cleanup, AtExit,
     Trying, Using
<1>5. CASE TweakData
  <2>1. UNCHANGED <<job, common>> /\ pc' \in {"openData", "dataFails", "loadFails"}
    BY <1>5 DEF TweakData, Tweak
  <2>2. CASE pc' # "openData"
    BY <2>1, <2>2, SameChosen DEF Trying, Using
  <2>3. CASE pc' = "openData" /\ IsPkg
    <3>1. IsPkg'
      BY <2>1, <2>3 DEF IsPkg
    <3> QED
      BY <2>3, <3>1 DEF Chosen, Trying, Using
  <2> QED
    BY <1>5, <2>2, <2>3, ChosenData
<1>6. CASE OpenData
  <2>1. /\ pc' \in {IF IsPkg THEN "mapPkg" ELSE "handle", "dataFails", "crash"}
        /\ UNCHANGED <<job, common>>
    BY <1>1, <1>6, OpenSets DEF OpenData
  <2>2. ~IsPkg => UsesData
    BY DEF UsesData
  <2> QED
    BY <2>1, <2>2, SameChosen DEF Trying, Using
<1>7. CASE CheckEntries
  <2>1. /\ pc = "entries" /\ pc' = "keyset" /\ UNCHANGED <<job, common, keysets>>
    BY <1>7 DEF CheckEntries
  <2> QED
    BY <2>1, SameJob, FoundNow DEF Chosen, Trying, Using
<1>8. CASE OpenOuter \/ OpenInner
  <2>1. PICK r, im, o, opened :
          /\ OpenPfs(r, im, o, opened, "loadFails") /\ ~o.sd
          /\ opened \in {"imageFile", "loaded"}
    BY <1>8 DEF OpenOuter, OpenInner, PkgOptions
  <2>2. /\ UNCHANGED <<job, common, opts>> /\ DOMAIN keysets' = DOMAIN keysets
        /\ \A id \in DOMAIN keysets : KeepsBase(keysets[id], keysets'[id])
        /\ pc' \in {opened, "loadFails", "crash"}
    BY <1>1, <2>1, OpenSets
  <2>3. pc \in Trying
    BY <1>8 DEF OpenOuter, OpenInner, Trying
  <2>4. ASSUME ~UsesData, opts.keyset # NoKeyset
        PROVE  Ready(keysets'[Section])
    <3>1. Ready(keysets[Section]) /\ Section \in DOMAIN keysets
      BY <2>3, <2>4 DEF Chosen, Options, UsesData
    <3> QED
      BY <2>2, <3>1, ReadyKept
  <2> QED
    BY <2>1, <2>2, <2>4, FoundNow, SameJob DEF Chosen, Trying, Using
<1>9. CASE Images \/ ImageFile \/ Loaded \/ Handle \/ SkipExtra \/ SkipLocked \/ NotWanted
           \/ WriteEntry \/ WriteFails \/ EndEntries \/ UseImage \/ NoImageToUse
  <2>1. /\ UNCHANGED <<job, common, keysets, opts>> /\ pc \in Trying \cup Using
        /\ pc' \notin {"entries", "keyset", "options2", "openData"}
    BY <1>9 DEF Images, ImageFile, Loaded, Handle, SkipExtra, SkipLocked, NotWanted, WriteEntry,
       WriteFails, EndEntries, UseImage, NoImageToUse, Wanted, Offered, AtEntry, NextEntry,
       Trying, Using
  <2> QED
    BY <2>1, SameChosen
<1> QED
  BY <1>2, <1>3, <1>4, <1>5, <1>6, <1>7, <1>8, <1>9, ChosenOptions, ChosenKeyset DEF Next

-----------------------------------------------------------------------------

(* Images and entries *)

(* The steps that open nothing.                                            *)
LEMMA SameImages ==
  ASSUME UNCHANGED <<job, common, opts, ptrs, pfs>>, InnerUsed,
         \/ pc' = pc
         \/ pc = "config" /\ pc' = "mapPkg" /\ ~UsesData
         \/ pc \in {"tweakData", "openData", "openInner"} /\ pc' \in {"dataFails", "crash", "loadFails"}
         \/ pc = "loaded" /\ pc' \in Using
         \/ pc \in Using /\ pc' \in Using
         \/ UsesData /\ pc' \notin Loading \cup Using
         \/ pc' \notin Closed \cup Loading \cup Using
  PROVE  InnerUsed'
BY SameJob DEF InnerUsed, Closed, Opening, Loading, Using

LEMMA NextInnerUsed ==
  ASSUME Held, Opened, Keysets, Options, InnerUsed, [Next]_vars
  PROVE  InnerUsed'
<1> USE DEF config, resources, sc0
<1>1. CASE UNCHANGED vars
  BY <1>1, SameImages DEF vars
<1>2. CASE ReadLine
  BY <1>2 DEF ReadLine, InnerUsed, Closed, Opening, Loading, Using, UsesData, IsPkg
<1>3. CASE ConfigRead
  BY <1>3 DEF ConfigRead, InnerUsed, Closed, Opening, Loading, Using, UsesData, IsPkg
<1>4. CASE MapData \/ TweakData \/ DataFails
  <2>1. /\ UNCHANGED <<job, pfs>> /\ pc \in {"mapData", "tweakData", "dataFails"}
        /\ pc' \in {"tweakData", "openData", "dataFails", "loadFails", "cleanup", "return"}
    BY <1>4 DEF MapData, TweakData, Tweak, DataFails
  <2>2. UsesData /\ UsesData'
    BY <2>1 DEF Held, Opening, UsesData, IsPkg
  <2> QED
    BY <2>1, <2>2 DEF InnerUsed, Closed, Opening, Loading, Using
<1>5. CASE LoadFails \/ Cleanup \/ AtExit \/ WriteFails \/ UseImage \/ NoImageToUse
  <2>1. UNCHANGED <<job, pfs>> /\ pc' \in {"exit", "return", "returned", "exited", "crash", "cleanup"}
    BY <1>5 DEF LoadFails, Cleanup, AtExit, WriteFails, UseImage, NoImageToUse, Wanted
  <2>2. UsesData' = UsesData
    BY <2>1 DEF UsesData, IsPkg
  <2> QED
    BY <2>1, <2>2 DEF InnerUsed, Closed, Opening, Loading, Using
<1>6. CASE OpenData
  <2>1. /\ UNCHANGED <<job, twice, s_pkg>> /\ pc = "openData"
        /\ \/ /\ ptrs' = ptrs \cup {"data"}
              /\ pc' = IF IsPkg THEN "mapPkg" ELSE "handle"
              /\ \E p : pfs' = [pfs EXCEPT !["data"] = p]
           \/ UNCHANGED <<ptrs, pfs>> /\ pc' \in {"dataFails", "crash"}
    BY <1>6, OpenCases DEF OpenData
  <2>2. UsesData /\ UsesData'
    BY <2>1 DEF Held, Opening, UsesData, IsPkg
  <2>3. pfs'["inner"] = pfs["inner"]
    BY <2>1 DEF Opened
  <2> QED
    BY <2>1, <2>2, <2>3 DEF InnerUsed, Closed, Opening, Loading, Using
<1>7. CASE MapPkg
  BY <1>7 DEF MapPkg, Acquire, InnerUsed, Closed, Opening, Loading, Using, UsesData, IsPkg
<1>8. CASE SetOptions \/ CheckEntries \/ FindKeyset
  <2>1. /\ UNCHANGED <<job, ptrs, pfs>> /\ pc \in Loading \cap Closed
        /\ pc' \notin {"loaded", "imageFile", "openInner"} \cup Using
    BY <1>8 DEF SetOptions, Tweak, CheckEntries, FindKeyset, Loading, Closed, Using
  <2>2. pc \notin {"loadFails"}
    BY <2>1 DEF Closed, Loading, Opening
  <2>3. UNCHANGED UsesData
    BY <2>1 DEF UsesData, IsPkg
  <2>4. pc' \in (Loading \ {"loadFails"}) \cup Using => "data" \in ptrs \/ ~UsesData
    BY <2>1, <2>2 DEF InnerUsed
  <2> QED
    BY <2>1, <2>3, <2>4 DEF InnerUsed
<1>9. CASE Images
  <2>1. /\ UNCHANGED <<job, common, opts, ptrs, pfs>> /\ pc = "images"
        /\ pc' = IF NoImages \/ "data" \in ptrs THEN "loaded" ELSE "openOuter"
    BY <1>9 DEF Images
  <2>2. opts.skip = FirstSkip
    BY <2>1 DEF Options, Trying
  <2>3. pfs["inner"].keyset = NoKeyset /\ (UsesData => "data" \in ptrs)
        /\ (~UsesData => "data" \notin ptrs)
    BY <2>1 DEF InnerUsed, Closed, Loading, Held, DataParts
  <2> QED
    BY <2>1, <2>2, <2>3, SameJob DEF InnerUsed, Closed, Opening, Loading, Using, NoImages
<1>10. CASE OpenOuter
  <2>1. /\ UNCHANGED job /\ pc = "openOuter"
        /\ \/ /\ ptrs' = ptrs \cup {"outer"} /\ pc' = "imageFile"
              /\ \E p : pfs' = [pfs EXCEPT !["outer"] = p]
           \/ UNCHANGED <<ptrs, pfs>> /\ pc' \in {"loadFails", "crash"}
    BY <1>10, OpenCases DEF OpenOuter
  <2>2. ~UsesData /\ ~UsesData'
    BY <2>1 DEF Options, UsesData, IsPkg
  <2>3. pfs'["inner"] = pfs["inner"]
    BY <2>1 DEF Opened
  <2> QED
    BY <2>1, <2>2, <2>3 DEF InnerUsed, Closed, Opening, Loading, Using
<1>11. CASE ImageFile
  <2>1. /\ UNCHANGED <<job, common, opts, pfs>> /\ pc = "imageFile" /\ ptrs \subseteq ptrs'
        /\ pc' \in {"openInner", "loadFails"}
    BY <1>11 DEF ImageFile, Acquire
  <2>2. UNCHANGED UsesData
    BY <2>1 DEF UsesData, IsPkg
  <2> QED
    BY <2>1, <2>2 DEF InnerUsed, Closed, Opening, Loading, Using
<1>12. CASE OpenInner
  <2> DEFINE o == PkgOptions(TRUE)
  <2>9. /\ pc = "openInner"
        /\ OpenPfs("inner", package.inner, o, "loaded", "loadFails")
    BY <1>12 DEF OpenInner
  <2> HIDE DEF o
  <2>1. /\ UNCHANGED job /\ pc = "openInner"
        /\ \/ /\ ptrs' = ptrs \cup {"inner"} /\ pc' = "loaded"
              /\ pfs' = [pfs EXCEPT !["inner"] = PfsAlloc(package.inner, o).pfs]
           \/ UNCHANGED <<ptrs, pfs>> /\ pc' \in {"loadFails", "crash"}
    BY <2>9, OpenCases
  <2>2. ~UsesData /\ ~UsesData' /\ opts' = opts
    BY <1>12, <2>1 DEF Options, OpenInner, OpenPfs, UsesData, IsPkg
  <2>3. PfsAlloc(package.inner, o).pfs.keyset = opts.keyset
    BY DEF PfsAlloc, PkgOptions, o
  <2>4. pc' = "loaded" => pfs'["inner"].keyset = opts.keyset
    BY <2>1, <2>3 DEF Opened
  <2>5. "outer" \in ptrs
    BY <2>1 DEF InnerUsed
  <2> QED
    BY <2>1, <2>2, <2>4, <2>5 DEF InnerUsed, Closed, Opening, Loading, Using
<1>13. CASE Loaded \/ Handle \/ SkipExtra \/ SkipLocked \/ NotWanted \/ WriteEntry \/ EndEntries
  <2>1. /\ UNCHANGED <<job, common, opts, ptrs, pfs>>
        /\ \/ pc' = pc
           \/ pc = "loaded" /\ pc' = "handle"
           \/ pc \in Using /\ pc' \in {"sc", "image", "cleanup"}
    BY <1>13 DEF Loaded, Handle, SkipExtra, SkipLocked, NotWanted, WriteEntry, EndEntries,
       Wanted, Offered, AtEntry, NextEntry, Using
  <2>2. UsesData' = UsesData
    BY <2>1 DEF UsesData, IsPkg
  <2>3. CASE pc' # "cleanup"
    BY <2>1, <2>3, SameImages DEF Using
  <2>4. CASE pc' = "cleanup"
    BY <2>1, <2>2, <2>4 DEF InnerUsed, Closed, Opening, Loading, Using
  <2> QED
    BY <2>3, <2>4
<1> QED
  BY <1>1, <1>2, <1>3, <1>4, <1>5, <1>6, <1>7, <1>8, <1>9, <1>10, <1>11, <1>12, <1>13 DEF Next

(* An entry that is skipped because it is locked has no key to be had.     *)
LEMMA LockedKeyless ==
  ASSUME JobSound(job), Options, Chosen, InnerUsed, Written, SkipLocked
  PROVE  ~HasKey(current)
<1>1. /\ pc = "sc" /\ next <= Len(package.entries) /\ Locked(current)
      /\ Key(current) = None
  BY DEF SkipLocked, Offered, AtEntry
<1>2. CASE current.new /\ HasKey(current)
  <2>1. job.cmd = "unpack" /\ ~UsesData /\ GivenAs("sc0") # {} /\ ~Refused
    BY <1>2 DEF HasKey
  <2>2. IsPkg /\ ~UnknownId
    BY <2>1 DEF UsesData, Refused
  <2>3. AfterEntries(FirstSkip) = 0
    <3>1. next \in DOMAIN package.entries
      BY <1>1 DEF Written, JobSound, package
    <3> QED
      BY <1>2, <2>1, <3>1 DEF AfterEntries, FirstSkip, current
  <2>4. opts.keyset = Section /\ opts.keyset # NoKeyset
    BY <1>1, <2>2, <2>3 DEF Options, Using
  <2>5. "outer" \in ptrs /\ pfs["inner"].keyset = Section
    BY <1>1, <2>1, <2>4 DEF InnerUsed, Using
  <2>6. keysets[Section].sc0 # None
    <3>1. Ready(keysets[Section])
      BY <1>1, <2>1, <2>4 DEF Chosen, Using
    <3> QED
      BY <2>1, <3>1 DEF Ready, Found, Bare, Kept, GivenAs
  <2> QED
    BY <1>1, <1>2, <2>4, <2>5, <2>6 DEF Key
<1>3. CASE ~current.new /\ current.encrypted /\ HasKey(current)
  BY <1>1, <1>3 DEF HasKey, Key, None
<1> QED
  BY <1>1, <1>2, <1>3 DEF Locked

LEMMA SameHasKey ==
  ASSUME UNCHANGED <<job, common>>, NEW e
  PROVE  HasKey(e)' <=> HasKey(e)
BY SameJob DEF HasKey, Common

(* An entry that is passed is written, unwanted or keyless.                *)
LEMMA PassedWritten ==
  ASSUME JobSound(job), Written, UNCHANGED <<job, common>>, pc # "config", pc' # "config",
         next' = next + 1, DOMAIN files \subseteq DOMAIN files',
         \/ ~current.known \/ (current.extra /\ ~job.extra) \/ current.id \notin job.wanted
         \/ ~HasKey(current) \/ current.id \in DOMAIN files'
  PROVE  Written'
<1>1. next \in Nat \ {0} /\ next' \in Nat \ {0} /\ package' = package
  BY DEF Written, package
<1>2. ASSUME NEW i \in 1 .. next' - 1, NEW e, e = package.entries[i],
             e.known, e.extra => job.extra, e.id \in job.wanted, HasKey(e)
      PROVE  e.id \in DOMAIN files'
  <2>1. CASE i \in 1 .. next - 1
    BY <1>2, <2>1 DEF Written
  <2>2. CASE i = next
    BY <1>2, <2>2 DEF current
  <2> QED
    BY <1>1, <1>2, <2>1, <2>2
<1>3. \A i \in 1 .. next' - 1 :
        LET e == package.entries[i]
        IN e.known /\ (e.extra => job.extra) /\ e.id \in job.wanted /\ HasKey(e)
             => e.id \in DOMAIN files'
  BY <1>2
<1> QED
  BY <1>1, <1>3, SameHasKey DEF Written

LEMMA NextWritten ==
  ASSUME JobSound(job), Keysets, Options, Chosen, InnerUsed, Written, [Next]_vars
  PROVE  Written'
<1> USE DEF config, resources, sc0
<1>1. CASE ReadLine \/ ConfigRead
  <2>1. pc = "config" /\ next' = next
    BY <1>1 DEF ReadLine, ConfigRead
  <2> QED
    BY <2>1 DEF Written
<1>2. CASE SkipExtra \/ SkipLocked \/ NotWanted \/ WriteEntry
  <2>1. /\ UNCHANGED <<job, common, pc>> /\ next' = next + 1 /\ pc = "sc"
        /\ DOMAIN files \subseteq DOMAIN files'
    BY <1>2 DEF SkipExtra, SkipLocked, NotWanted, WriteEntry, NextEntry, Wanted, Offered, AtEntry
  <2>2. SkipExtra => ~current.known \/ (current.extra /\ ~job.extra)
    BY DEF SkipExtra, NowExtra
  <2>3. NotWanted => current.id \notin job.wanted
    BY DEF NotWanted
  <2>4. WriteEntry => current.id \in DOMAIN files'
    BY DEF WriteEntry
  <2> QED
    BY <1>2, <2>1, <2>2, <2>3, <2>4, LockedKeyless, PassedWritten
<1>3. ASSUME UNCHANGED <<job, common, next, files>>, pc' = "config" => pc = "config"
      PROVE  Written'
  <2>1. package' = package
    BY <1>3 DEF package
  <2> QED
    BY <1>3, <2>1, SameHasKey DEF Written
<1>4. CASE UNCHANGED vars
  BY <1>3, <1>4 DEF vars
<1>5. CASE OpenData \/ OpenOuter \/ OpenInner
  <2>1. PICK r, im, o, opened, failed :
          /\ OpenPfs(r, im, o, opened, failed)
          /\ opened # "config" /\ failed # "config"
    BY <1>5 DEF OpenData, OpenOuter, OpenInner
  <2>2. UNCHANGED <<job, common, next, files>> /\ pc' \in {opened, failed, "crash"}
    BY <2>1, OpenSets DEF Keysets
  <2> QED
    BY <1>3, <2>1, <2>2
<1>6. CASE MapData \/ TweakData \/ DataFails \/ MapPkg \/ SetOptions \/ CheckEntries
           \/ FindKeyset \/ Images
  <2>1. UNCHANGED <<job, common, next, files>> /\ pc' # "config"
    BY <1>6 DEF MapData, TweakData, Tweak, DataFails, MapPkg, SetOptions, CheckEntries,
       FindKeyset, Images
  <2> QED
    BY <1>3, <2>1
<1>7. CASE ImageFile \/ LoadFails \/ Loaded \/ Handle \/ WriteFails \/ EndEntries \/ UseImage
           \/ NoImageToUse \/ Cleanup \/ AtExit
  <2>1. UNCHANGED <<job, common, next, files>> /\ pc' # "config"
    BY <1>7 DEF ImageFile, LoadFails, Loaded, Handle, WriteFails, EndEntries, UseImage,
       NoImageToUse, Cleanup, AtExit
  <2> QED
    BY <1>3, <2>1
<1> QED
  BY <1>1, <1>2, <1>4, <1>5, <1>6, <1>7 DEF Next

(* Only what needs an image goes on to use one.                            *)
LEMMA NextNeeded ==
  ASSUME Keysets, Needed, [Next]_vars
  PROVE  Needed'
<1> USE DEF config
<1>1. ASSUME UNCHANGED job, pc' = "image" => NeedsImage \/ pc = "image"
      PROVE  Needed'
  BY <1>1 DEF Needed, NeedsImage, IsPkg
<1>2. CASE UNCHANGED vars
  BY <1>1, <1>2 DEF vars
<1>3. CASE OpenData \/ OpenOuter \/ OpenInner
  <2>1. PICK r, im, o, opened, failed :
          /\ OpenPfs(r, im, o, opened, failed)
          /\ opened # "image" /\ failed # "image"
    BY <1>3 DEF OpenData, OpenOuter, OpenInner
  <2>2. UNCHANGED job /\ pc' \in {opened, failed, "crash"}
    BY <2>1, OpenSets DEF Keysets
  <2> QED
    BY <1>1, <2>1, <2>2
<1>4. CASE ReadLine \/ ConfigRead \/ MapData \/ TweakData \/ DataFails \/ MapPkg \/ SetOptions
           \/ CheckEntries \/ FindKeyset \/ Images \/ ImageFile \/ LoadFails \/ Loaded
  <2>1. UNCHANGED job /\ (pc' = "image" => pc = "image")
    BY <1>4 DEF ReadLine, ConfigRead, MapData, TweakData, Tweak, DataFails, MapPkg, SetOptions,
       CheckEntries, FindKeyset, Images, ImageFile, LoadFails, Loaded
  <2> QED
    BY <1>1, <2>1
<1>5. CASE Handle \/ SkipExtra \/ SkipLocked \/ NotWanted \/ WriteEntry \/ WriteFails
           \/ EndEntries \/ UseImage \/ NoImageToUse \/ Cleanup \/ AtExit
  <2>1. UNCHANGED job /\ (pc' = "image" => NeedsImage \/ pc = "image")
    BY <1>5 DEF Handle, SkipExtra, SkipLocked, NotWanted, WriteEntry, WriteFails, EndEntries,
       UseImage, NoImageToUse, Cleanup, AtExit, NextEntry
  <2> QED
    BY <1>1, <2>1
<1> QED
  BY <1>2, <1>3, <1>4, <1>5 DEF Next

-----------------------------------------------------------------------------
(* The invariant *)

LEMMA NextJob ==
  ASSUME [Next]_vars
  PROVE  job' = job /\ (pc # "config" => common' = common)
<1> USE DEF config
<1>1. CASE OpenData \/ OpenOuter \/ OpenInner
  BY <1>1 DEF OpenData, OpenOuter, OpenInner, OpenPfs
<1>2. CASE ReadLine \/ ConfigRead \/ MapData \/ TweakData \/ DataFails \/ MapPkg \/ SetOptions
           \/ CheckEntries \/ FindKeyset \/ Images \/ ImageFile \/ LoadFails \/ Loaded
  BY <1>2 DEF ReadLine, ConfigRead, MapData, TweakData, DataFails, MapPkg, SetOptions,
     CheckEntries, FindKeyset, Images, ImageFile, LoadFails, Loaded
<1>3. CASE Handle \/ SkipExtra \/ SkipLocked \/ NotWanted \/ WriteEntry \/ WriteFails
           \/ EndEntries \/ UseImage \/ NoImageToUse \/ Cleanup \/ AtExit
  BY <1>3 DEF Handle, SkipExtra, SkipLocked, NotWanted, WriteEntry, WriteFails, EndEntries,
     UseImage, NoImageToUse, Cleanup, AtExit, NextEntry
<1> QED
  BY <1>1, <1>2, <1>3 DEF Next, vars

KeyIInv == JobSound(job) /\ IInv /\ KeyInv

LEMMA InitKeys == Init => KeyIInv
<1> SUFFICES ASSUME Init PROVE KeyIInv
  OBVIOUS
<1>1. /\ pc = "config" /\ line = 0 /\ keysets = <<>> /\ opts = NoOpts /\ next = 1
      /\ pfs = [r \in {"data", "outer", "inner"} |-> NoPfs]
  BY DEF Init
<1>2. JobSound(job)
  BY JobsSound DEF Init
<1>3. IInv
  BY <1>1, InitHeld DEF IInv, Opened, KeysFit, Init
<1>4. Keysets
  <2>1. DOMAIN keysets = {}
    BY <1>1
  <2>2. ReadLines = {}
    BY <1>1 DEF ReadLines
  <2>3. Filed(ReadLines)
    BY <2>1, <2>2 DEF Filed, SectionsOf
  <2>4. line \in 0 .. Len(job.config)
    BY <1>1, <1>2 DEF JobSound
  <2> QED
    BY <1>1, <2>1, <2>3, <2>4 DEF Keysets, Shaped
<1>5. Options /\ Chosen
  BY <1>1 DEF Options, Chosen, NoOpts, Trying, Using
<1>6. InnerUsed
  BY <1>1 DEF InnerUsed, NoPfs, Closed, Opening, Loading, Using
<1>7. Written
  BY <1>1 DEF Written
<1>8. Needed
  BY <1>1 DEF Needed
<1> QED
  BY <1>2, <1>3, <1>4, <1>5, <1>6, <1>7, <1>8 DEF KeyIInv, KeyInv

LEMMA NextKeys ==
  ASSUME KeyIInv, [Next]_vars
  PROVE  KeyIInv'
<1>1. JobSound(job)'
  BY NextJob DEF KeyIInv, JobSound
<1>2. IInv'
  BY NextHeld, NextOpened DEF KeyIInv, IInv
<1>3. KeyInv'
  BY NextKeysets, NextOptions, NextChosen, NextInnerUsed, NextNeeded, NextWritten
     DEF KeyIInv, IInv, KeyInv
<1> QED
  BY <1>1, <1>2, <1>3 DEF KeyIInv

(* What is known of the keys in every reachable state.                     *)
LEMMA KeysKnown == Spec => []KeyIInv
<1>1. Init => KeyIInv
  BY InitKeys
<1>2. KeyIInv /\ [Next]_vars => KeyIInv'
  BY NextKeys
<1> QED
  BY <1>1, <1>2, PTL DEF Spec

(* When the entries have been gone through, every one that was asked for   *)
(* and has a key is written: pkg_alloc settles the keyset in two rounds,   *)
(* whatever else is given (pkg.c:1089-1125, main.c:2601).                  *)
THEOREM EntriesWritten == Spec => []EntriesComplete
<1>1. KeyIInv => EntriesComplete
  <2> SUFFICES ASSUME KeyIInv, pc = "sc", next > Len(package.entries),
                      NEW e \in ToSet(package.entries),
                      e.known /\ (e.extra => job.extra) /\ e.id \in job.wanted /\ HasKey(e)
               PROVE  e.id \in DOMAIN files
    BY DEF EntriesComplete
  <2>1. PICK i \in DOMAIN package.entries : e = package.entries[i]
    BY DEF ToSet
  <2>2. i \in 1 .. next - 1
    BY DEF KeyIInv, KeyInv, Written, JobSound, package
  <2> QED
    BY <2>1, <2>2 DEF KeyIInv, KeyInv, Written
<1> QED
  BY <1>1, KeysKnown, PTL

-----------------------------------------------------------------------------
(* What a crash comes from *)

LEMMA OpenCrash ==
  ASSUME NEW r, NEW im, NEW o, NEW opened, NEW failed, OpenPfs(r, im, o, opened, failed),
         pc' = "crash", opened # "crash", failed # "crash"
  PROVE  \/ o.sd /\ SdContentKey(im.sdVersion) \notin common
         \/ o.keyset = NoKeyset /\ o.skip # 0
<1> DEFINE k == keysets[o.keyset]
           id == IF o.id = NoKeyset THEN o.keyset ELSE o.id
<1>1. PfsAlloc(im, o).how \notin {"open", "fail"}
  BY DEF OpenPfs
<1>2. TitleKeys(k, im, id).how \in {"open", "fail"}
  BY DEF TitleKeys
<1>3. SdKeys(k, im).how \in {"open", "fail"} \/ SdContentKey(im.sdVersion) \notin common
  BY DEF SdKeys
<1> HIDE DEF k, id
<1>4. CASE o.keyset = NoKeyset
  BY <1>1, <1>4 DEF PfsAlloc
<1>5. CASE o.keyset # NoKeyset
  <2>1. \/ PfsAlloc(im, o).how \in {"open", "fail"}
        \/ IF o.sd THEN SdKeys(k, im).how = "crash" ELSE TitleKeys(k, im, id).how = "crash"
    BY <1>5 DEF PfsAlloc, k, id
  <2> QED
    BY <1>1, <1>2, <1>3, <2>1
<1> QED
  BY <1>4, <1>5

(* The package is asked for its image key if the section has no key.       *)
LEMMA BareAsks ==
  ASSUME Keysets, pc = "keyset", IsPkg, job.keyId = NoKeyset,
         \A f \in OwnKeys : ~Has(Alloc(keysets, package.id, TRUE)[package.id], f)
  PROVE  AsksPackage
<1> DEFINE k == Alloc(keysets, package.id, TRUE)[package.id]
<1>1. Filed(AllLines) /\ Section = package.id
  BY DEF Keysets, Section, Id
<1>2. CASE package.id \notin SectionsOf(AllLines)
  BY <1>1, <1>2, ChosenValues DEF AsksPackage
<1>3. CASE package.id \in SectionsOf(AllLines)
  <2>1. package.id \in DOMAIN keysets /\ AsLines(keysets[package.id], AllLines, package.id)
    BY <1>1, <1>3 DEF Filed, SectionsOf
  <2>2. \A f \in OwnKeys : keysets[package.id][f] = None
    BY <2>1 DEF Alloc, Has
  <2>3. \A f \in OwnKeys : Configured(f) = {}
    BY <1>1, <1>3, <2>1, <2>2, ChosenValues DEF AsLines, OwnKeys, Fields
  <2> QED
    BY <2>3 DEF AsksPackage
<1> QED
  BY <1>2, <1>3

LEMMA NextCrash ==
  ASSUME KeyIInv, NoCrash, [Next]_vars
  PROVE  NoCrash'
<1> USE DEF config
<1> DEFINE Excepted ==
      \/ IsPkg /\ job.cmd = "list" /\ job.noUnpack /\ job.sc /\ ~UsesData
      \/ IsPkg /\ (AsksPackage \/ UnknownId) /\ NoContentKey
      \/ IsSd /\ SdContentKey(job.image.sdVersion) \notin common
<1>1. ASSUME UNCHANGED <<job, common>>, pc' = "crash" => Excepted
      PROVE  NoCrash'
  <2>1. UNCHANGED <<IsPkg, UsesData, AsksPackage, UnknownId, IsSd, package>>
    BY <1>1, SameJob
  <2>2. UNCHANGED NoContentKey
    BY <1>1, <2>1 DEF NoContentKey, Common
  <2> QED
    BY <1>1, <2>1, <2>2 DEF NoCrash
<1>2. JobSound(job) /\ Keysets /\ Options /\ InnerUsed /\ Needed /\ Held
  BY DEF KeyIInv, KeyInv, IInv
<1> HIDE DEF Excepted
<1>3. CASE pc = "crash"
  <2>1. UNCHANGED <<job, common, pc>>
    <3> USE DEF vars, sc0, AtEntry, Offered, Wanted
    <3>1. UNCHANGED vars
      BY <1>3 DEF Next, ReadLine, ConfigRead, MapData, TweakData, OpenData, DataFails, MapPkg,
         SetOptions, CheckEntries, FindKeyset, Images, OpenOuter, ImageFile, OpenInner, LoadFails,
         Loaded, Handle, SkipExtra, SkipLocked, NotWanted, WriteEntry, WriteFails, EndEntries,
         UseImage, NoImageToUse, Cleanup, AtExit
    <3> QED
      BY <3>1
  <2>2. Excepted
    BY <1>3 DEF NoCrash, Excepted
  <2> QED
    BY <1>1, <2>1, <2>2
<1>4. CASE pc # "crash" /\ UNCHANGED vars
  BY <1>1, <1>4 DEF vars
<1>5. CASE ReadLine
  BY <1>5, <1>3 DEF ReadLine, NoCrash
<1>6. CASE OpenData
  <2> DEFINE o == [keyset |-> opts.keyset, skip |-> 0, sd |-> IsSd, id |-> NoKeyset,
                   skipSignature |-> TRUE]
             opened == IF IsPkg THEN "mapPkg" ELSE "handle"
  <2>1. OpenPfs("data", job.image, o, opened, "dataFails")
    BY <1>6 DEF OpenData
  <2>2. o.skip = 0 /\ (o.sd <=> IsSd) /\ opened # "crash"
    OBVIOUS
  <2>3. UNCHANGED <<job, common>>
    BY <2>1 DEF OpenPfs
  <2> HIDE DEF o, opened
  <2>4. pc' = "crash" => IsSd /\ SdContentKey(job.image.sdVersion) \notin common
    BY <2>1, <2>2, OpenCrash
  <2> QED
    BY <1>1, <2>3, <2>4 DEF Excepted
<1>7. CASE OpenOuter \/ OpenInner
  <2>1. PICK r, im, o, opened :
          /\ OpenPfs(r, im, o, opened, "loadFails")
          /\ o.keyset = opts.keyset /\ o.skip = opts.skip /\ ~o.sd
          /\ opened # "crash"
    BY <1>7 DEF OpenOuter, OpenInner, PkgOptions
  <2>2. UNCHANGED <<job, common>>
    BY <2>1 DEF OpenPfs
  <2>3. opts.keyset = NoKeyset => opts.skip = 0
    BY <1>2, <1>7 DEF OpenOuter, OpenInner, Options
  <2>4. pc' # "crash"
    BY <2>1, <2>3, OpenCrash
  <2> QED
    BY <1>1, <2>2, <2>4
<1>8. CASE FindKeyset
  <2>1. pc = "keyset" /\ UNCHANGED <<job, common>>
    BY <1>8 DEF FindKeyset
  <2>2. IsPkg
    BY <1>2, <2>1 DEF Held, Loading
  <2>3. ASSUME pc' = "crash"
        PROVE  AsksPackage \/ UnknownId
    <3>1. /\ opts.keyset = NoKeyset
          /\ \A f \in OwnKeys : ~Has(Alloc(keysets, package.id, TRUE)[package.id], f)
      BY <1>8, <2>3 DEF FindKeyset
    <3>2. CASE job.keyId = NoKeyset
      BY <1>2, <2>1, <2>2, <3>1, <3>2, BareAsks
    <3>3. CASE job.keyId # NoKeyset
      <4>1. job.keyId \notin DOMAIN keysets
        BY <1>2, <2>1, <3>1, <3>3 DEF Options, Get
      <4>2. SectionsOf(AllLines) \subseteq DOMAIN keysets
        BY <1>2, <2>1 DEF Keysets
      <4> QED
        BY <3>3, <4>1, <4>2, SectionThere
    <3> QED
      BY <3>2, <3>3
  <2>4. pc' = "crash" => NoContentKey
    BY <1>8 DEF FindKeyset
  <2> QED
    BY <1>1, <2>1, <2>2, <2>3, <2>4 DEF Excepted
<1>9. CASE NoImageToUse
  <2>1. pc = "image" /\ image \notin ptrs /\ UNCHANGED <<job, common>>
    BY <1>9 DEF NoImageToUse
  <2>2. ~UsesData /\ FirstSkip # 0
    BY <1>2, <2>1 DEF InnerUsed, Using, image
  <2>3. IsPkg /\ NeedsImage
    BY <1>2, <2>1, <2>2 DEF Needed, UsesData
  <2>4. job.cmd = "list" /\ job.noUnpack /\ job.sc
    BY <1>2, <2>2, <2>3 DEF FirstSkip, NeedsImage, JobSound
  <2> QED
    BY <1>1, <2>1, <2>2, <2>3, <2>4 DEF Excepted
<1>10. CASE ConfigRead \/ MapData \/ TweakData \/ DataFails \/ MapPkg \/ SetOptions
            \/ CheckEntries \/ Images \/ ImageFile \/ LoadFails \/ Loaded
  <2>1. UNCHANGED <<job, common>> /\ pc' # "crash"
    BY <1>10 DEF ConfigRead, MapData, TweakData, Tweak, DataFails, MapPkg, SetOptions,
       CheckEntries, Images, ImageFile, LoadFails, Loaded
  <2> QED
    BY <1>1, <2>1
<1>11. CASE Handle \/ SkipExtra \/ SkipLocked \/ NotWanted \/ WriteEntry \/ WriteFails
           \/ EndEntries \/ UseImage \/ Cleanup \/ AtExit
  <2>1. UNCHANGED <<job, common>> /\ (pc' = "crash" => pc = "crash")
    BY <1>11 DEF Handle, SkipExtra, SkipLocked, NotWanted, WriteEntry, WriteFails, EndEntries,
       UseImage, Cleanup, AtExit, NextEntry
  <2> QED
    BY <1>1, <1>3, <2>1
<1> QED
  BY <1>3, <1>4, <1>5, <1>6, <1>7, <1>8, <1>9, <1>10, <1>11 DEF Next

(* The program follows a pointer that was never set in three cases only:   *)
(* listing without an image, and copying a content key that was not        *)
(* configured for additional content or for save data (pfs_sd.c:33,        *)
(* pkg.c:907, main.c:3792).                                                *)
THEOREM Crashes == Spec => []NoCrash
<1>1. Init => NoCrash
  BY DEF Init, NoCrash
<1>2. KeyIInv /\ NoCrash /\ [Next]_vars => NoCrash'
  BY NextCrash
<1> QED
  BY <1>1, <1>2, KeysKnown, PTL DEF Spec

-----------------------------------------------------------------------------
(* Entries *)

(* The key an entry is decrypted with is the one it was encrypted with, if *)
(* what is given is right.                                                 *)
LEMMA EntryKey ==
  ASSUME JobSound(job), Options, Chosen, InnerUsed, Written, Wanted, EntriesEncrypted,
         GivenAs("sc0") \subseteq {Sc0Key(package.seed)},
         GivenAs("seed") \subseteq {package.seed}
  PROVE  Content(current) = "plain"
<1>1. pc = "sc" /\ (Locked(current) => Key(current) # None)
  BY DEF Wanted, Offered, AtEntry
<1>2. current \in ToSet(package.entries)
  BY DEF Wanted, Offered, AtEntry, current, Written, JobSound, package, ToSet
<1>3. CASE current.new
  <2>1. Key(current) # None
    BY <1>1, <1>3 DEF Locked
  <2>2. /\ pfs["inner"].keyset # NoKeyset
        /\ Key(current) = keysets[pfs["inner"].keyset].sc0
    BY <1>3, <2>1 DEF Key
  <2>3. ~UsesData /\ opts.keyset # NoKeyset /\ pfs["inner"].keyset = opts.keyset
    BY <1>1, <2>2 DEF InnerUsed, Using
  <2>4. opts.keyset = Section /\ Ready(keysets[Section])
    BY <1>1, <2>3 DEF Options, Chosen, Using, UsesData
  <2>5. Key(current) \in GivenAs("sc0") \cup {Sc0Key(s) : s \in GivenAs("seed")}
    BY <2>1, <2>2, <2>3, <2>4 DEF Ready, Found
  <2>6. Key(current) = Sc0Key(package.seed)
    BY <2>5
  <2> QED
    BY <1>2, <1>3, <2>6 DEF EntriesEncrypted, Content, Locked
<1>4. CASE ~current.new /\ current.encrypted
  <2>1. Key(current) # None
    BY <1>1, <1>4 DEF Locked
  <2>2. Key(current) = <<"entry", current.id>>
    BY <1>4, <2>1 DEF Key
  <2> QED
    BY <1>2, <1>4, <2>2 DEF EntriesEncrypted, Content, Locked
<1>5. CASE ~current.new /\ ~current.encrypted
  BY <1>5 DEF Content
<1> QED
  BY <1>3, <1>4, <1>5

LEMMA NextPlain ==
  ASSUME KeyIInv, Sc0Plain, [Next]_vars
  PROVE  Sc0Plain'
<1>1. job' = job
  BY NextJob
<1>2. /\ EntriesEncrypted' <=> EntriesEncrypted
      /\ package' = package
      /\ \A f : GivenAs(f)' = GivenAs(f)
  <2> USE DEF package, IsPkg, IsSd, Id, Section, Lines, Configured, GivenAs, Option,
              EntriesEncrypted
  <2> QED
    BY <1>1
<1>3. SUFFICES ASSUME EntriesEncrypted, GivenAs("sc0") \subseteq {Sc0Key(package.seed)},
                      GivenAs("seed") \subseteq {package.seed},
                      \A id \in DOMAIN files : files[id] = "plain"
               PROVE  \A id \in DOMAIN files' : files'[id] = "plain"
  BY <1>2 DEF Sc0Plain
<1>4. CASE WriteEntry
  <2>1. Content(current) = "plain"
    BY <1>3, <1>4, EntryKey DEF WriteEntry, KeyIInv, KeyInv
  <2> QED
    BY <1>3, <1>4, <2>1 DEF WriteEntry
<1>5. CASE UNCHANGED files
  BY <1>3, <1>5
<1>6. WriteEntry \/ UNCHANGED files
  <2> USE DEF sc0
  <2>1. CASE OpenData \/ OpenOuter \/ OpenInner \/ UNCHANGED vars
    BY <2>1 DEF OpenData, OpenOuter, OpenInner, OpenPfs, vars
  <2>2. CASE ReadLine \/ ConfigRead \/ MapData \/ TweakData \/ DataFails \/ MapPkg \/ SetOptions
             \/ CheckEntries \/ FindKeyset \/ Images \/ ImageFile \/ LoadFails \/ Loaded
    BY <2>2 DEF ReadLine, ConfigRead, MapData, TweakData, DataFails, MapPkg, SetOptions,
       CheckEntries, FindKeyset, Images, ImageFile, LoadFails, Loaded
  <2>3. CASE Handle \/ SkipExtra \/ SkipLocked \/ NotWanted \/ WriteFails \/ EndEntries
             \/ UseImage \/ NoImageToUse \/ Cleanup \/ AtExit
    BY <2>3 DEF Handle, SkipExtra, SkipLocked, NotWanted, WriteFails, EndEntries, UseImage,
       NoImageToUse, Cleanup, AtExit
  <2> QED
    BY <2>1, <2>2, <2>3 DEF Next
<1> QED
  BY <1>4, <1>5, <1>6

(* An entry is written as its plaintext or not at all if what is given as  *)
(* its key is right (main.c:2601, pkg.c:1301): the keyset that has the key *)
(* is the one the inner image was opened with.                             *)
THEOREM PlainEntries == Spec => []Sc0Plain
<1>1. Init => Sc0Plain
  BY DEF Init, Sc0Plain
<1>2. KeyIInv /\ Sc0Plain /\ [Next]_vars => Sc0Plain'
  BY NextPlain
<1> QED
  BY <1>1, <1>2, KeysKnown, PTL DEF Spec

-----------------------------------------------------------------------------
(* Right keys open *)

(* All that the user gives is right and enough.                            *)
AllRight == /\ SoundFiles /\ RightKeys /\ EnoughKeys /\ ~Refused
            /\ job.sealed # Unsealable

(* A ready keyset has what the first image and the next need.              *)
LEMMA ReadyOpens ==
  ASSUME AllRight, ~IsSd, NEW im \in Guarded, NEW k, DOMAIN k = Fields, Ready(k)
  PROVE  /\ TitleKeys(k, im, Id).how = "open"
         /\ TitleKeys(k, im, Id).keys.tweak = im.tweak
         /\ TitleKeys(k, im, Id).keys.data = im.data
<1>1. ~UnknownId /\ Found(k)
  BY DEF AllRight, Refused, Ready
<1>2. /\ \A p \in GivenAs("passcode") : MadeOfPasscode(im, p)
      /\ \A x \in GivenAs("image") : Made(im, x)
      /\ \A f \in FinalKeys : \A x \in GivenAs(f) : x = First[f]
      /\ AsksPackage => Made(im, package.imageKey.key) /\ GivenAs("seed") \subseteq {package.seed}
  BY DEF AllRight, RightKeys
<1>3. \A f : Option(f) \in {None} \cup GivenAs(f) /\ Configured(f) \subseteq GivenAs(f) \cup {None}
  BY DEF GivenAs
<1>4. CASE k.passcode # None
  BY <1>1, <1>2, <1>4, TitleOpens DEF Found, Took, MadeOfPasscode
<1>5. CASE k.passcode = None /\ k.image # None
  <2>1. Made(im, k.image)
    BY <1>1, <1>2, <1>5 DEF Found, PackageKey
  <2> QED
    BY <1>5, <2>1, TitleOpens
<1>6. CASE k.passcode = None /\ k.image = None
  <2>1. GivenAs("passcode") = {}
    BY <1>1, <1>6 DEF Found, Kept, Ready, Bare, GivenAs
  <2>2. GivenAs("image") = {} /\ ~(AsksPackage /\ PackageKeyHad)
    BY <1>1, <1>6 DEF Found, GivenAs, Option
  <2>3. \A f \in FinalKeys : GivenAs(f) # {} /\ im[f] = First[f]
    BY <2>1, <2>2 DEF AllRight, EnoughKeys
  <2>4. \A f \in FinalKeys : Took(k, f) /\ Kept(k, f) /\ Bare(k, f)
    BY <1>1, <1>6 DEF Found, Ready
  <2>5. \A f \in FinalKeys : k[f] # None /\ k[f] = im[f]
    BY <1>2, <2>3, <2>4 DEF Took, Kept, Bare, GivenAs
  <2> QED
    BY <1>6, <2>5, TitleOpens
<1> QED
  BY <1>4, <1>5, <1>6

LEMMA OpensReady ==
  ASSUME AllRight, ~IsSd, NEW im, SoundImage(im), im.signed \/ im.encrypted => im \in Guarded,
         NEW o, ~o.sd, o.keyset # NoKeyset, (IF o.id = NoKeyset THEN o.keyset ELSE o.id) = Id,
         Ready(keysets[o.keyset]), DOMAIN keysets[o.keyset] = Fields
  PROVE  PfsAlloc(im, o).how = "open"
<1> DEFINE k == keysets[o.keyset]
           t == TitleKeys(k, im, Id)
<1>1. Checked(im, o)
  BY DEF SoundImage, Checked
<1>2. im.signed \/ im.encrypted => t.how = "open" /\ t.keys.tweak = im.tweak /\ t.keys.data = im.data
  BY ReadyOpens
<1>3. TitleKeys(keysets[o.keyset], im, IF o.id = NoKeyset THEN o.keyset ELSE o.id) = t
  OBVIOUS
<1> HIDE DEF k, t
<1>4. CASE im.signed \/ im.encrypted
  BY <1>1, <1>2, <1>3, <1>4 DEF PfsAlloc, SoundImage
<1>5. CASE ~im.signed /\ ~im.encrypted
  BY <1>1, <1>5 DEF PfsAlloc, SoundImage
<1> QED
  BY <1>4, <1>5

(* Save data open with the sealed key, or stop at a content key that was   *)
(* not configured.                                                         *)
LEMMA OpensSd ==
  ASSUME AllRight, IsSd, NEW o, o.sd, o.keyset # NoKeyset,
         DOMAIN keysets[o.keyset] = Fields, keysets[o.keyset].mkey = job.sealed
  PROVE  PfsAlloc(job.image, o).how # "fail"
<1>9. PICK im : im = job.image
  OBVIOUS
<1> DEFINE k == keysets[o.keyset]
           s == SdKeys(k, im)
           key == SdImageKey(SdContentKey(im.sdVersion), job.sealed)
<1>1. /\ SoundImage(im) /\ im.sdVersion \in 1 .. 9 /\ SdHeaderChecked(im)
      /\ job.sealed # None
  BY <1>9 DEF AllRight, SoundFiles, IsSd
<1>2. Checked(im, o)
  BY <1>1 DEF SoundImage, Checked
<1>3. Made(im, key)
  <2>1. job.sealed \in GivenAs("mkey")
    BY <1>1 DEF GivenAs, Option
  <2> QED
    BY <1>9, <2>1 DEF AllRight, RightKeys
<1>4. s.how = "crash" \/ (s.how = "open" /\ s.keys.tweak = im.tweak /\ s.keys.data = im.data)
  <2> DEFINE keys == GenerateForSd(k, SdContentKey(im.sdVersion), im.salt)
  <2>1. keys = Derive(k, key, im.salt)
    BY <1>1 DEF GenerateForSd, Has
  <2>2. /\ keys.tweak = <<"tweak", key, im.salt>> /\ keys.data = <<"data", key, im.salt>>
        /\ keys.sig = <<"sig", key, im.salt>>
    BY <2>1 DEF Derive, Fields
  <2>3. SdKeys(k, im) =
          IF im.sdVersion \notin 1 .. 9 THEN [how |-> "fail", keys |-> k]
          ELSE IF SdContentKey(im.sdVersion) \notin common THEN [how |-> "crash", keys |-> k]
          ELSE [how |-> IF Fits(im, keys) THEN "open" ELSE "fail", keys |-> keys]
    BY DEF SdKeys
  <2> HIDE DEF keys, key, k
  <2> QED
    BY <1>1, <1>3, <2>2, <2>3 DEF Made, Fits
<1>5. s = SdKeys(keysets[o.keyset], im)
  OBVIOUS
<1> HIDE DEF s
<1>6. CASE im.signed \/ im.encrypted
  BY <1>1, <1>2, <1>4, <1>5, <1>6, <1>9 DEF PfsAlloc, SoundImage
<1>7. CASE ~im.signed /\ ~im.encrypted
  BY <1>1, <1>2, <1>7, <1>9 DEF PfsAlloc, SoundImage
<1> QED
  BY <1>6, <1>7, <1>9

LEMMA OpenFailure ==
  ASSUME NEW r, NEW im, NEW o, NEW opened, NEW failed, OpenPfs(r, im, o, opened, failed),
         pc' = failed, opened # failed, failed # "crash"
  PROVE  PfsAlloc(im, o).how = "fail"
BY DEF OpenPfs

(* The images of a package, opened with the chosen keyset                  *)
LEMMA PackageOpens ==
  ASSUME KeyIInv, AllRight, pc \in {"openOuter", "openInner"},
         NEW im \in {package.outer, package.inner}, NEW o, ~o.sd, o.keyset = opts.keyset,
         o.id = package.id
  PROVE  PfsAlloc(im, o).how = "open"
<1>1. JobSound(job) /\ Keysets /\ Options /\ Chosen /\ Held
  BY DEF KeyIInv, KeyInv, IInv
<1>2. ~UsesData /\ IsPkg /\ ~UnknownId
  BY <1>1 DEF Options, UsesData, AllRight, Refused
<1>3. opts.keyset # NoKeyset
  <2>1. opts.skip = FirstSkip /\ (opts.keyset = NoKeyset => opts.skip = 0)
    BY <1>1 DEF Options, Trying
  <2>2. FirstSkip = 0 => AfterEntries(FirstSkip) = 0
    BY DEF AfterEntries
  <2> QED
    BY <1>1, <1>2, <2>1, <2>2 DEF Options, Trying
<1>4. /\ opts.keyset = Section /\ Section \in DOMAIN keysets
      /\ Ready(keysets[Section])
  BY <1>1, <1>2, <1>3 DEF Options, Chosen, Trying
<1>5. DOMAIN keysets[Section] = Fields
  BY <1>1, <1>4 DEF Keysets, Shaped
<1>6. ~IsSd /\ Id = package.id /\ package.id # NoKeyset
  BY <1>1, <1>2 DEF IsSd, Id, JobSound, package
<1>7. SoundImage(im) /\ (im.signed \/ im.encrypted => im \in Guarded)
  BY <1>2 DEF AllRight, SoundFiles, Guarded
<1> QED
  BY <1>3, <1>4, <1>5, <1>6, <1>7, OpensReady

LEMMA DataOpens ==
  ASSUME KeyIInv, AllRight, pc = "openData", ~IsPkg, NEW o, o.sd <=> IsSd,
         o.keyset = opts.keyset, o.id = NoKeyset
  PROVE  PfsAlloc(job.image, o).how # "fail"
<1>1. JobSound(job) /\ Keysets /\ Chosen
  BY DEF KeyIInv, KeyInv
<1>2. NoKeyset \notin DOMAIN keysets /\ \A id \in DOMAIN keysets : DOMAIN keysets[id] = Fields
  BY <1>1 DEF Keysets, Shaped
<1>3. CASE IsSd
  <2>1. /\ opts.keyset = FakeContentId /\ FakeContentId \in DOMAIN keysets
        /\ keysets[FakeContentId].mkey = job.sealed
    BY <1>1, <1>3 DEF Chosen
  <2> QED
    BY <1>2, <1>3, <2>1, OpensSd
<1>4. CASE ~IsSd
  <2>1. ~UnknownId
    BY DEF AllRight, Refused
  <2>2. opts.keyset = Section /\ Section \in DOMAIN keysets /\ Ready(keysets[Section])
    BY <1>1, <1>4, <2>1 DEF Chosen
  <2>3. Section = Id
    BY <1>4 DEF Section, Id
  <2>4. PICK im : im = job.image
    OBVIOUS
  <2>5. SoundImage(im) /\ (im.signed \/ im.encrypted => im \in Guarded)
    BY <2>4 DEF AllRight, SoundFiles, Guarded
  <2>6. PfsAlloc(im, o).how = "open"
    BY <1>2, <1>4, <2>2, <2>3, <2>5, OpensReady
  <2> QED
    BY <2>4, <2>6
<1> QED
  BY <1>3, <1>4

(* A section without a key is refused only if the package's key is not to  *)
(* be had.                                                                 *)
LEMMA KeysetFound ==
  ASSUME KeyIInv, AllRight, FindKeyset
  PROVE  pc' # "loadFails"
<1> DEFINE id == package.id
           sets == Alloc(keysets, id, TRUE)
           known == id \in DOMAIN keysets
           bare == \A f \in OwnKeys : ~Has(sets[id], f)
           asks == id \in DOMAIN sets /\ bare
           opens == EncryptedKeyKnown /\ ContentKeyKnown(sets[id])
<1>1. SUFFICES ASSUME pc' = "loadFails" PROVE FALSE
  OBVIOUS
<1>2. JobSound(job) /\ Keysets /\ Options /\ Held
  BY DEF KeyIInv, KeyInv, IInv
<1>3. /\ pc = "keyset" /\ opts.keyset = NoKeyset
      /\ id \notin DOMAIN sets \/ (asks /\ known /\ ~opens)
  BY <1>1 DEF FindKeyset
<1>4. IsPkg /\ id # FakeContentId /\ ~UnknownId
      /\ ~(AsksPackage /\ Lines # {} /\ ~PackageKeyHad)
  BY <1>2, <1>3 DEF Held, Loading, AllRight, Refused
<1>5. job.keyId = NoKeyset
  <2>1. SectionsOf(AllLines) \subseteq DOMAIN keysets
    BY <1>2, <1>3 DEF Keysets
  <2> QED
    BY <1>2, <1>3, <1>4, <2>1, SectionThere DEF Options, Get
<1>6. id \in DOMAIN sets
  BY <1>4 DEF Alloc
<1>7. Filed(AllLines) /\ Section = id
  BY <1>2, <1>3, <1>4, <1>5 DEF Keysets, Section, Id
<1>8. AsksPackage
  BY <1>2, <1>3, <1>4, <1>5, <1>6, BareAsks
<1>9. /\ id \in SectionsOf(AllLines) /\ AsLines(keysets[id], AllLines, id)
      /\ sets[id] = keysets[id] /\ asks /\ ~opens
  <2>1. known /\ asks /\ ~opens
    BY <1>3, <1>6
  <2>2. sets = keysets
    BY <2>1 DEF Alloc
  <2> QED
    BY <1>4, <1>7, <2>1, <2>2 DEF Filed
<1> HIDE DEF id, sets, asks, known
<1>10. Lines # {}
  <2>1. PICK l \in ToSet(job.config) : l.section = id /\ id \in SectionsOf({l})
    BY <1>9 DEF SectionsOf, AllLines
  <2> QED
    BY <1>7, <2>1 DEF Lines
<1>11. PackageKeyHad
  BY <1>4, <1>8, <1>10
<1>12. PICK seed \in GivenAs("seed") \cup {None} :
         ContentKeyKnown([EmptyKeyset EXCEPT !.seed = seed]) /\ EncryptedKeyKnown
  BY <1>11 DEF PackageKeyHad
<1>13. seed # None => Has(keysets[id], "seed")
  BY <1>7, <1>9, ChosenValues DEF GivenAs, Option, AsLines, Has, Fields
<1>14. ContentKeyKnown(keysets[id])
  BY <1>12, <1>13 DEF ContentKeyKnown, Has, EmptyKeyset, Fields
<1> QED
  BY <1>9, <1>12, <1>14

LEMMA SameRight ==
  ASSUME UNCHANGED <<job, common>>
  PROVE  AllRight' <=> AllRight
<1>1. /\ UNCHANGED <<package, IsPkg, IsSd, Id, AsksPackage, PackageKeyHad, Refused>>
      /\ \A f : GivenAs(f)' = GivenAs(f)
  BY SameJob
<1>2. UNCHANGED <<Guarded, First>>
  BY <1>1 DEF Guarded, First
<1>3. \A im : SdHeaderChecked(im)' <=> SdHeaderChecked(im)
  BY DEF SdHeaderChecked, Common
<1>4. UNCHANGED SoundFiles
  <2>1. PICK im : im = job.image
    OBVIOUS
  <2>2. SdHeaderChecked(job.image)' <=> SdHeaderChecked(job.image)
    BY DEF SdHeaderChecked, Common
  <2> QED
    BY <1>1, <2>2 DEF SoundFiles, SoundImage
<1>5. UNCHANGED RightKeys
  BY <1>1, <1>2 DEF RightKeys, MadeOfPasscode, Made
<1>6. UNCHANGED EnoughKeys
  BY <1>1, <1>2 DEF EnoughKeys
<1> QED
  BY <1>1, <1>4, <1>5, <1>6 DEF AllRight

LEMMA NextFails ==
  ASSUME KeyIInv, RightKeyOpens, [Next]_vars
  PROVE  RightKeyOpens'
<1> USE DEF config, resources, sc0
<1> DEFINE Fails == pc = "loadFails" \/ (pc = "dataFails" /\ ~IsPkg)
<1>1. SUFFICES ASSUME Fails', AllRight' PROVE FALSE
  BY DEF RightKeyOpens, AllRight
<1>2. UNCHANGED <<job, IsPkg, package>>
  BY NextJob DEF IsPkg, package
<1>3. pc # "config"
  BY <1>1 DEF Next, vars, ReadLine, ConfigRead, MapData, TweakData, OpenData, DataFails, MapPkg,
     SetOptions, CheckEntries, FindKeyset, Images, OpenOuter, ImageFile, OpenInner, LoadFails,
     Loaded, Handle, SkipExtra, SkipLocked, NotWanted, WriteEntry, WriteFails, EndEntries,
     UseImage, NoImageToUse, Cleanup, AtExit, Wanted, Offered, AtEntry
<1>4. AllRight
  BY <1>1, <1>3, NextJob, SameRight
<1>5. Held /\ Opened /\ InnerUsed
  BY DEF KeyIInv, KeyInv, IInv
<1>6. ~Fails
  BY <1>4 DEF RightKeyOpens, AllRight
<1> HIDE DEF Fails
<1>7. pc' # pc
  BY <1>1, <1>2, <1>6 DEF Fails
<1>8. SoundFiles /\ ~Refused /\ job.sealed # Unsealable
  BY <1>4 DEF AllRight
<1>9. CASE MapData
  BY <1>1, <1>2, <1>8, <1>9 DEF MapData, Fails, SoundFiles
<1>10. CASE TweakData \/ SetOptions
  BY <1>1, <1>8, <1>10 DEF TweakData, SetOptions, Tweak, Fails
<1>11. CASE OpenData
  <2> DEFINE o == [keyset |-> opts.keyset, skip |-> 0, sd |-> IsSd, id |-> NoKeyset,
                   skipSignature |-> TRUE]
             opened == IF IsPkg THEN "mapPkg" ELSE "handle"
  <2>1. pc = "openData" /\ OpenPfs("data", job.image, o, opened, "dataFails")
    BY <1>11 DEF OpenData
  <2>2. (o.sd <=> IsSd) /\ o.keyset = opts.keyset /\ o.id = NoKeyset /\ opened # "dataFails"
    OBVIOUS
  <2>3. opened # "loadFails"
    OBVIOUS
  <2> HIDE DEF o, opened
  <2>4. pc' = "dataFails" /\ ~IsPkg
    <3>1. pc' \in {opened, "dataFails", "crash"}
      BY <2>1, OpenCases
    <3> QED
      BY <1>1, <1>2, <2>3, <3>1 DEF Fails
  <2>5. PfsAlloc(job.image, o).how = "fail"
    BY <2>1, <2>2, <2>4, OpenFailure
  <2> QED
    BY <1>4, <2>1, <2>2, <2>4, <2>5, DataOpens
<1>12. CASE MapPkg
  <2>1. pc = "mapPkg" /\ ~package.mapped
    BY <1>1, <1>12 DEF MapPkg, Fails
  <2> QED
    BY <1>5, <1>8, <2>1 DEF Held, Loading, SoundFiles
<1>13. CASE FindKeyset
  <2>1. pc' \in {"options2", "crash", "loadFails"}
    BY <1>13 DEF FindKeyset
  <2> QED
    BY <1>1, <1>4, <1>13, <2>1, KeysetFound DEF Fails
<1>14. CASE OpenOuter \/ OpenInner
  <2>1. PICK r, im, o, opened :
          /\ im \in {package.outer, package.inner}
          /\ OpenPfs(r, im, o, opened, "loadFails")
          /\ ~o.sd /\ o.keyset = opts.keyset /\ o.id = package.id
          /\ opened \in {"imageFile", "loaded"}
    BY <1>14 DEF OpenOuter, OpenInner, PkgOptions
  <2>2. pc \in {"openOuter", "openInner"}
    BY <1>14 DEF OpenOuter, OpenInner
  <2>3. pc' = "loadFails"
    <3>1. pc' \in {opened, "loadFails", "crash"}
      BY <2>1, OpenCases
    <3> QED
      BY <1>1, <2>1, <3>1 DEF Fails
  <2>4. PfsAlloc(im, o).how = "fail"
    BY <2>1, <2>3, OpenFailure
  <2> QED
    BY <1>4, <2>1, <2>2, <2>4, PackageOpens
<1>15. CASE ImageFile
  <2>1. pc = "imageFile" /\ ~(package.hasImageFile /\ Readable("outer", package.outer))
    BY <1>1, <1>15 DEF ImageFile, Fails
  <2>2. IsPkg /\ "outer" \in held
    BY <1>5, <2>1 DEF Held, Loading, Intact, InnerUsed
  <2>3. Readable("outer", package.outer)
    BY <1>5, <2>2 DEF Opened, KeysFit
  <2> QED
    BY <1>8, <2>1, <2>2, <2>3 DEF SoundFiles
<1>16. CASE \/ UNCHANGED vars \/ ReadLine \/ ConfigRead \/ DataFails \/ CheckEntries \/ Images
            \/ LoadFails \/ Loaded \/ Handle \/ SkipExtra \/ SkipLocked \/ NotWanted
            \/ WriteEntry \/ WriteFails \/ EndEntries \/ UseImage \/ NoImageToUse
            \/ Cleanup \/ AtExit
  BY <1>1, <1>7, <1>16 DEF vars, ReadLine, ConfigRead, DataFails, CheckEntries, Images, LoadFails,
     Loaded, Handle, SkipExtra, SkipLocked, NotWanted, WriteEntry, WriteFails, EndEntries,
     UseImage, NoImageToUse, Cleanup, AtExit, Fails
<1> QED
  BY <1>9, <1>10, <1>11, <1>12, <1>13, <1>14, <1>15, <1>16 DEF Next

(* Right keys, if they are enough, open: a passcode is tried in both its   *)
(* derivations, an image key and final keys in their order, and an image   *)
(* opened before leaves what the next one is opened with (pfs.cpp:167,     *)
(* 189; pkg.c:1089).                                                       *)
THEOREM RightKeysOpen == Spec => []RightKeyOpens
<1>1. Init => RightKeyOpens
  BY DEF Init, RightKeyOpens
<1>2. KeyIInv /\ RightKeyOpens /\ [Next]_vars => RightKeyOpens'
  BY NextFails
<1> QED
  BY <1>1, <1>2, KeysKnown, PTL DEF Spec
=============================================================================
