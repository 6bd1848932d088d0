------------------------------ MODULE PfsLedger ------------------------------
(***************************************************************************)
(* What the block allocator of the repack code promises, seen without      *)
(* bitmap, BAT and pointers: every block belongs to one party, the pool, a *)
(* file, or the operation at hand, or to nobody here (the header, the      *)
(* backup generation), and moves between two of them, one block at a time. *)
(* An operation takes a file's blocks, then reserves, and gives back only  *)
(* once it has all it needs; it gets stuck only when the pool is empty,    *)
(* and what it has given back it does not take again.                      *)
(***************************************************************************)
CONSTANTS
  Blocks,   \* blocks that can be allocated at all
  Files

VARIABLES
  free,     \* the pool
  of,       \* the blocks of each file
  stage,    \* of the operation: "idle", "reserve", "release", "failed"
  for,      \* the file it is for, if there is one
  held,     \* what it holds
  saved     \* pool and files of the source image
ledger == <<free, of, stage, for, held, saved>>

Parted(s) ==
  /\ s.free \subseteq Blocks /\ s.of \in [Files -> SUBSET Blocks]
  /\ \A i \in Files : s.of[i] \cap s.free = {}
  /\ \A i, j \in Files : i # j => s.of[i] \cap s.of[j] = {}

LedgerInit ==
  /\ Parted(saved) /\ free = saved.free /\ of = saved.of
  /\ stage = "idle" /\ held = {}

Open(i) ==
  /\ stage = "idle" /\ stage' = "reserve"
  /\ for' = i /\ held' = of[i] /\ of' = [of EXCEPT ![i] = {}]
  /\ UNCHANGED <<free, saved>>

Take(b) ==
  /\ stage = "reserve" /\ b \in free
  /\ free' = free \ {b} /\ held' = held \cup {b}
  /\ UNCHANGED <<of, stage, for, saved>>

Stuck ==
  /\ stage = "reserve" /\ free = {} /\ stage' = "failed"
  /\ UNCHANGED <<free, of, for, held, saved>>

Full ==
  /\ stage = "reserve" /\ stage' = "release"
  /\ UNCHANGED <<free, of, for, held, saved>>

Give(b) ==
  /\ stage = "release" /\ b \in held
  /\ free' = free \cup {b} /\ held' = held \ {b}
  /\ UNCHANGED <<of, stage, for, saved>>

Close ==
  /\ stage = "release" /\ stage' = "idle"
  /\ of' = [of EXCEPT ![for] = held] /\ held' = {}
  /\ UNCHANGED <<free, saved>>

Save ==
  /\ stage = "idle" /\ saved' = [free |-> free, of |-> of]
  /\ UNCHANGED <<free, of, stage, for, held>>

Reset ==
  /\ stage \in {"idle", "failed"} /\ stage' = "idle"
  /\ free' = saved.free /\ of' = saved.of /\ held' = {}
  /\ UNCHANGED saved

LedgerNext ==
  \/ \E i \in Files : Open(i)
  \/ \E b \in Blocks : Take(b) \/ Give(b)
  \/ Stuck \/ Full \/ Close \/ Save \/ Reset

LedgerSpec == LedgerInit /\ [][LedgerNext]_ledger
=============================================================================
