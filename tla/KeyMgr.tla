-------------------------------- MODULE KeyMgr --------------------------------
(***************************************************************************)
(* The key manager (keymgr.c): keysets by content ID, filled from the      *)
(* configuration file and by the commands, and the keys generated in them  *)
(* for one image.                                                          *)
(*                                                                         *)
(* A key is a term that says how it was made: two keys are equal if they   *)
(* were made of the same parts.  A keyset is a record, a key it does not   *)
(* have is None; a pointer to a keyset is the content ID it is filed by.   *)
(***************************************************************************)
EXTENDS Integers, Sequences

None == <<>>
NoKeyset == "no keyset"
FakeContentId == "XXXX"   \* KEYMGR_FAKE_CONTENT_ID

Fields == {"passcode", "mkey", "image", "tweak", "data", "sig", "sc0", "seed"}
EmptyKeyset == [f \in Fields |-> None]
Has(k, f) == k[f] # None

-----------------------------------------------------------------------------
(* Keysets by content ID *)

Alloc(sets, id, real) ==
  IF (real /\ id = FakeContentId) \/ id \in DOMAIN sets THEN sets
  ELSE [i \in DOMAIN sets \cup {id} |-> IF i = id THEN EmptyKeyset ELSE sets[i]]
Get(sets, id) == IF id \in DOMAIN sets THEN id ELSE NoKeyset

(* A line of a title's section.  The keyset is there from then on, whether *)
(* or not the value is any good.                                           *)
ConfigLine(sets, l) ==
  LET there == Alloc(sets, l.section, TRUE)
  IN IF l.section \in DOMAIN there /\ l.name \in Fields /\ l.valid
     THEN [there EXCEPT ![l.section][l.name] = l.value]
     ELSE there

-----------------------------------------------------------------------------
(* Key generation *)

PasscodeKey(id, passcode) == <<"passcode", id, passcode>>
NewPasscodeKey(id, passcode, salt) == <<"hmac", PasscodeKey(id, passcode), salt>>
SdImageKey(contentKey, mkey) == <<"sd", contentKey, mkey>>

(* Faulty variant: a key that is there already is left alone *)
DeriveMissing(k, image, salt) ==
  [k EXCEPT !.tweak = IF @ = None THEN <<"tweak", image, salt>> ELSE @,
            !.data = IF @ = None THEN <<"data", image, salt>> ELSE @,
            !.sig = IF @ = None THEN <<"sig", image, salt>> ELSE @]
Derive(k, image, salt) ==
  [k EXCEPT !.tweak = <<"tweak", image, salt>>, !.data = <<"data", image, salt>>,
            !.sig = <<"sig", image, salt>>]
HasFinalKeys(k) == Has(k, "tweak") /\ Has(k, "data") /\ Has(k, "sig")

(* A passcode comes before an image key, which comes before final keys.    *)
GenerateForTitle(k, id, salt, new) ==
  LET own == IF Has(k, "passcode")
             THEN IF new THEN NewPasscodeKey(id, k.passcode, salt)
                  ELSE PasscodeKey(id, k.passcode)
             ELSE k.image
  IN IF own # None
     THEN [ok |-> TRUE, keys |-> Derive([k EXCEPT !.image = own], own, salt)]
     ELSE [ok |-> HasFinalKeys(k), keys |-> k]

GenerateForSd(k, contentKey, salt) ==
  IF Has(k, "mkey") THEN Derive(k, SdImageKey(contentKey, k.mkey), salt) ELSE k
=============================================================================
