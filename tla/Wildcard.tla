------------------------------- MODULE Wildcard -------------------------------
(***************************************************************************)
(* wildcard_match (wildcard.c): a name against a mask, compared from the   *)
(* end, with one position to fall back to.  A string is a sequence of      *)
(* characters; position 0 is the one before the string.                    *)
(***************************************************************************)
EXTENDS Integers, Sequences

AnyRun == "*"
AnyChar == "?"
NoPlace == 0

(* data and mask are where the comparison stands; lsm and lsn where it     *)
(* resumes, behind the last * seen.                                        *)
Start(name, pattern) ==
  [name |-> name, pattern |-> pattern, data |-> Len(name), mask |-> Len(pattern),
   lsm |-> NoPlace, lsn |-> NoPlace,
   result |-> IF name = <<>> \/ pattern = <<>> THEN "no" ELSE "run"]

Finish(m, yes) == [m EXCEPT !.result = IF yes THEN "yes" ELSE "no"]
Both(m) == [m EXCEPT !.data = @ - 1, !.mask = @ - 1]

(* Faulty variant: falls back to the same place again *)
FallBackSame(m) == [m EXCEPT !.data = m.lsn, !.mask = m.lsm]
FallBack(m) ==
  [m EXCEPT !.data = m.lsn - 1, !.lsn = @ - 1, !.mask = m.lsm,
            !.lsm = IF m.lsn - 1 < 1 THEN NoPlace ELSE @]

(* The position before a run of * that ends at k                           *)
BeforeStars(p, k) ==
  CHOOSE j \in 0 .. k : /\ \A i \in j + 1 .. k : p[i] = AnyRun
                        /\ j = 0 \/ p[j] # AnyRun
(* Faulty variant: a star takes one character at least *)
StarTakesOne(m) ==
  LET k == BeforeStars(m.pattern, m.mask)
      star == [m EXCEPT !.mask = k, !.lsm = k, !.lsn = m.data - 1, !.data = @ - 1]
  IN IF k = 0 THEN Finish(star, TRUE) ELSE star
Star(m) ==
  LET k == BeforeStars(m.pattern, m.mask)
      star == [m EXCEPT !.mask = k, !.lsm = k, !.lsn = m.data]
  IN IF k = 0 THEN Finish(star, TRUE) ELSE star

Compare(m) ==
  LET c == m.pattern[m.mask]
  IN IF c = AnyRun THEN Star(m)
     ELSE IF c = AnyChar \/ c = m.name[m.data] THEN Both(m)
     ELSE IF m.lsm # NoPlace THEN FallBack(m)
     ELSE Finish(m, FALSE)

(* The body of the loop, and what follows the loop.                        *)
MatchStep(m) ==
  IF m.data = 0
  THEN Finish(m, BeforeStars(m.pattern, m.mask) = 0)
  ELSE IF m.mask > 0 THEN Compare(m)
  ELSE IF m.lsm # NoPlace THEN Compare(FallBack(m))
  ELSE Finish(m, FALSE)

-----------------------------------------------------------------------------
(* What a mask means: * stands for any characters, / included, ? for one.  *)
(* Nothing matches an empty name or an empty mask.                         *)
(* Fits(name, pattern)[j]: the i for which the first i characters of the   *)
(* name match the first j of the mask.                                     *)
Reach(name, c, from) ==
  IF c = AnyRun THEN {i \in 0 .. Len(name) : \E k \in from : k <= i}
  ELSE {i \in 1 .. Len(name) : c \in {AnyChar, name[i]} /\ i - 1 \in from}
Fits(name, pattern) ==
  LET fits[j \in 0 .. Len(pattern)] ==
        IF j = 0 THEN {0} ELSE Reach(name, pattern[j], fits[j - 1])
  IN fits
Glob(name, pattern) ==
  name # <<>> /\ pattern # <<>> /\ Len(name) \in Fits(name, pattern)[Len(pattern)]

(* What the comparison knows.  Behind the cursors name and mask match; the *)
(* answer lies with what is before them, or, if that fails, with what is   *)
(* before an earlier place of the name and the place to fall back to.  The *)
(* part of the mask between that place and the cursor has no star, so it   *)
(* takes as many characters of any name.                                   *)
CanResume(m, fits) ==
  LET taken == m.lsm - m.mask
  IN /\ m.lsn \in 1 .. Len(m.name) /\ m.lsm \in m.mask .. Len(m.pattern)
     /\ m.lsn - m.data = taken
     /\ \A i \in fits[m.lsm] : i >= taken /\ i - taken \in fits[m.mask]
MatchSound(m) ==
  LET fits == Fits(m.name, m.pattern)
  IN IF m.result # "run" THEN m.result = "yes" <=> Glob(m.name, m.pattern)
     ELSE /\ m.name # <<>> /\ m.pattern # <<>>
          /\ m.data \in 0 .. Len(m.name) /\ m.mask \in 0 .. Len(m.pattern)
          /\ m.lsm # NoPlace => CanResume(m, fits)
          /\ Glob(m.name, m.pattern) <=>
               \/ m.data \in fits[m.mask]
               \/ m.lsm # NoPlace /\ \E i \in fits[m.lsm] : i < m.lsn
=============================================================================
