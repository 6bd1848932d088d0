------------------------------- MODULE MCPkgOpen -------------------------------
(***************************************************************************)
(* Packages and images with every kind of key, given right, wrong or not   *)
(* at all in the configuration and on the command line; with faults in     *)
(* every file; and with entries of every kind.                             *)
(***************************************************************************)
EXTENDS PkgOpenProps

P == "P"
Code == <<"code">>
Ekpfs == <<"ekpfs">>
Seed == <<"seed">>
Wrong == <<"wrong">>
Sc0 == Sc0Key(Seed)

-----------------------------------------------------------------------------
(* Images and packages *)
Img(key, salt, signed, encrypted) ==
  [mapped |-> TRUE, magic |-> TRUE, sound |-> TRUE, superBlock |-> TRUE, root |-> TRUE,
   signed |-> signed, encrypted |-> encrypted, salt |-> salt,
   tweak |-> <<"tweak", key, salt>>, data |-> <<"data", key, salt>>,
   sig |-> <<"sig", key, salt>>, sdVersion |-> 0, sdHeader |-> TRUE, authCode |-> FALSE]
Plain == Img(Ekpfs, 0, FALSE, FALSE)

Ent(id, key) == [id |-> id, known |-> TRUE, extra |-> FALSE, encrypted |-> FALSE,
                 new |-> FALSE, keyIndex |-> 0, key |-> key]
Old(id) == [Ent(id, <<"entry", id>>) EXCEPT !.encrypted = TRUE, !.keyIndex = 3]
New(id) == [Ent(id, Sc0) EXCEPT !.new = TRUE, !.encrypted = TRUE]
EntryKeys == Ent("ENTRY_KEYS", None)
KeyEntries == <<EntryKeys, Old("IMAGE_KEY")>>

Pkg(outer, inner, entries) ==
  [mapped |-> TRUE, id |-> P, finalized |-> FALSE, type |-> "GD", keyVersion |-> 1,
   seed |-> Seed, imageKey |-> [whole |-> TRUE, rsaKey |-> "fake_ekpfs", key |-> Ekpfs],
   entries |-> entries, hasImageFile |-> TRUE, outer |-> outer, inner |-> inner]

-----------------------------------------------------------------------------
(* Command lines *)
L(section, name, value) == [section |-> section, name |-> name, value |-> value, valid |-> TRUE]
CommonKeys == {<<"pkg_entry_key_3">>, <<"fake_ekpfs">>, <<"retail_ekpfs">>,
               <<"gdgp_content_key_obf_key">>, <<"pfs_sig_key">>, <<"sd_hdr_sig_key">>,
               <<"sd_hdr_data_key">>, <<"sd_auth_code_key">>, <<"open_psid">>,
               <<"open_psid_sig_key">>, SdContentKey(3)}
C == L("common", "all", CommonKeys)
Base(kind, cmd) ==
  [kind |-> kind, cmd |-> cmd, dataFile |-> FALSE, image |-> Plain,
   package |-> Pkg(Plain, Plain, <<>>), config |-> <<C>>, keyId |-> NoKeyset,
   passcode |-> None, tweak |-> None, data |-> None, sig |-> None, sc0 |-> None,
   sealed |-> None, noSignature |-> FALSE, noIcv |-> FALSE, noUnpack |-> FALSE,
   sc |-> FALSE, extra |-> FALSE, gp4 |-> FALSE, wanted |-> {}]

(* Keys.  The inner image is made with a salt of its own.                  *)
Passcoded == PasscodeKey(P, Code)
Pairs ==
  {<<Img(k, 1, TRUE, TRUE), i>> : k \in {Ekpfs, Passcoded},
     i \in {Plain, Img(Ekpfs, 2, FALSE, TRUE), Img(Passcoded, 2, FALSE, TRUE)}} \cup
  {<<Img(NewPasscodeKey(P, Code, 1), 1, TRUE, TRUE), i>> :
     i \in {Plain, Img(NewPasscodeKey(P, Code, 2), 2, TRUE, TRUE),
            Img(Passcoded, 2, FALSE, TRUE)}}
Packages ==
  UNION {{Pkg(pair[1], pair[2], KeyEntries),
          [Pkg(pair[1], pair[2], KeyEntries) EXCEPT !.finalized = TRUE, !.imageKey.rsaKey = "retail_ekpfs"],
          Pkg(pair[1], pair[2], <<EntryKeys>>)} : pair \in Pairs}
Configs(p) ==
  <<<<C>>, <<C, L(P, "passcode", Code)>>, <<C, L(P, "image", Ekpfs)>>,
    <<C, L(P, "image", Wrong)>>, <<C, L(P, "tweak", p.outer.tweak)>>,
    <<C, L(P, "seed", Seed)>>, <<C, L(P, "seed", Wrong)>>, <<C, L(P, "sc0", Sc0)>>,
    <<C, [L(P, "passcode", Wrong) EXCEPT !.valid = FALSE]>>, <<C, L("Q", "passcode", Code)>>,
    <<C, L(P, "tweak", p.outer.tweak), L(P, "data", p.outer.data), L(P, "sig", p.outer.sig)>>,
    <<L(P, "passcode", Wrong), L(P, "image", Ekpfs), L(P, "passcode", Code), C>>>>
KeyJobs ==
  {[Base("pkg", cmd) EXCEPT
      !.package = p, !.config = Configs(p)[c], !.keyId = id, !.passcode = code,
      !.tweak = IF given = {} THEN None ELSE p.outer.tweak,
      !.data = IF "data" \in given THEN p.outer.data ELSE None] :
     p \in Packages, cmd \in {"info", "unpack"}, c \in 1 .. 12, id \in {NoKeyset, P, "Q", "R"},
     code \in {None, Code}, given \in {{}, {"tweak"}, {"tweak", "data"}}}

(* Raw images and save data *)
FakeCoded(salt) == Img(PasscodeKey(FakeContentId, Code), salt, TRUE, TRUE)
Sd(v) == [Img(SdImageKey(SdContentKey(v), Ekpfs), 1, TRUE, TRUE) EXCEPT
            !.sdVersion = v, !.authCode = TRUE]
RawJobs ==
  {[Base("pfs", cmd) EXCEPT !.image = im, !.passcode = code, !.sealed = sealed,
      !.keyId = id, !.config = c, !.noIcv = icv] :
     cmd \in {"list", "unpack"},
     im \in {Plain, FakeCoded(1), Img(Passcoded, 1, TRUE, TRUE), Sd(3), Sd(4), Sd(10), Sd(0),
             [Sd(3) EXCEPT !.sdHeader = FALSE]},
     code \in {None, Code}, sealed \in {None, Ekpfs, Wrong, Unsealable},
     id \in {NoKeyset, P},
     c \in {<<>>, <<C>>, <<C, L(P, "passcode", Code)>>, <<L("common", "sd", {SdContentKey(3)})>>,
            <<C, L(FakeContentId, "passcode", Code)>>},
     icv \in BOOLEAN}

(* Faults *)
Faulty(im) ==
  {im} \cup {[im EXCEPT ![f] = FALSE] : f \in {"mapped", "magic", "sound", "superBlock", "root"}}
Secret(salt) == Img(Passcoded, salt, TRUE, TRUE)
FaultyPackages ==
  {[Pkg(o, i, KeyEntries) EXCEPT !.mapped = m, !.hasImageFile = h, !.finalized = TRUE] :
     o \in Faulty(Secret(1)), i \in Faulty(Secret(2)), m \in BOOLEAN, h \in BOOLEAN}
FaultJobs ==
  {[Base("pkg", "unpack") EXCEPT !.package = p, !.dataFile = d, !.passcode = Code,
      !.noSignature = n] :
     p \in FaultyPackages, d \in BOOLEAN, n \in BOOLEAN} \cup
  {[Base("pkg", cmd) EXCEPT !.package = Pkg(Secret(1), Plain, KeyEntries), !.dataFile = TRUE,
      !.image = im, !.passcode = Code, !.sc = sc, !.noUnpack = n, !.sealed = sealed] :
     cmd \in {"info", "list", "unpack"}, im \in Faulty(Plain) \cup Faulty(FakeCoded(1)),
     sc \in BOOLEAN, n \in BOOLEAN, sealed \in {None, Ekpfs, Unsealable}} \cup
  {[Base("pkg", "unpack") EXCEPT !.package.id = FakeContentId]} \cup
  {[Base("pkg", "unpack") EXCEPT
      !.package = [Pkg(Secret(1), Plain, KeyEntries) EXCEPT
                     !.finalized = TRUE, !.type = t, !.imageKey.rsaKey = "retail_ekpfs"],
      !.config = c, !.keyId = id] :
     id \in {NoKeyset, "R"}, t \in {"AC", "DP"}, c \in {<<>>, <<C>>, <<C, L("common", "ac", {<<"ac_content_key">>})>>}}

(* Entries *)
Kinds ==
  {Ent("a", None), [Ent("a", None) EXCEPT !.extra = TRUE], [Ent("a", None) EXCEPT !.known = FALSE],
   Old("a"), [Old("a") EXCEPT !.keyIndex = 2], New("a"), [New("a") EXCEPT !.encrypted = FALSE]}
As(kind, id) == [kind EXCEPT !.id = id, !.key = IF @ = <<"entry", "a">> THEN <<"entry", id>> ELSE @]
Tables ==
  {<<EntryKeys, a, As(b, "b")>> : a \in Kinds, b \in Kinds} \cup {<<New("a")>>, <<Old("a")>>}
EntryJobs ==
  {[Base("pkg", cmd) EXCEPT
      !.package = Pkg(Secret(1), Plain, t), !.passcode = Code, !.sc0 = s, !.config = c,
      !.noUnpack = how # "all", !.gp4 = how = "project", !.sc = TRUE, !.extra = x,
      !.wanted = w] :
     cmd \in {"info", "unpack", "list"}, t \in Tables, s \in {None, Sc0, Wrong},
     c \in {<<C>>, <<C, L(P, "passcode", Code), L(P, "sc0", Sc0)>>},
     how \in {"all", "entries", "project"}, x \in BOOLEAN,
     w \in {{"a", "b", "ENTRY_KEYS"}, {"b"}}}

MCJobs == {KeyJobs, EntryJobs, RawJobs, FaultJobs}
=============================================================================
