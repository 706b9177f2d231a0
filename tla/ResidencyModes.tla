--------------------------- MODULE ResidencyModes ---------------------------
(***************************************************************************)
(* One movement plan run by two residency executors side by side: one with *)
(* seed_missing_sources, as by default, and one without                    *)
(* (--no-seed-missing-sources).  The plan is any sequence of ops; history  *)
(* is the part already executed.                                           *)
(***************************************************************************)
EXTENDS KVCommand, FiniteSets

CONSTANTS
  PlanOps,       \* the ops a plan may contain
  MaxOps,        \* bound on the length of a plan
  FileLengths,   \* lengths of the backing file, NoFile among them
  NoFile

VARIABLES
  fileLength, history,
  dram, vram, count,                     \* the executor that seeds
  strictDram, strictVram, strictCount    \* the one that does not

vars == <<fileLength, history, dram, vram, count, strictDram, strictVram, strictCount>>

Seeding == INSTANCE ResidencyExecutor WITH SeedMissingSources <- TRUE

Strict == INSTANCE ResidencyExecutor WITH SeedMissingSources <- FALSE,
  dram <- strictDram, vram <- strictVram, count <- strictCount

Init ==
  /\ fileLength \in FileLengths
  /\ history = <<>>
  /\ Seeding!Init
  /\ Strict!Init

(* One iteration of execute's loop, in both runs.                          *)
ExecuteOp(op) ==
  /\ Len(history) < MaxOps
  /\ history' = Append(history, op)
  /\ Seeding!ExecuteOp(op)
  /\ Strict!ExecuteOp(op)

Next == \E op \in PlanOps : ExecuteOp(op)

Spec == Init /\ [][Next]_vars

(***************************************************************************)
(* Properties.                                                             *)
(***************************************************************************)
Successes(c) == c.reads + c.copies + c.computes + c.evictions

(* A run without verification errors did every op of its plan, and holds   *)
(* no byte that was made up to fill a short read; the run is reported as   *)
(* passed on the strength of that error count alone.                       *)
CleanRunIsComplete ==
  /\ Seeding!VerificationErrors = 0 =>
       /\ Successes(count) = Len(history)
       /\ \A table \in {dram, vram} : \A k \in DOMAIN table : table[k].whole
  /\ Strict!VerificationErrors = 0 =>
       /\ Successes(strictCount) = Len(history)
       /\ \A table \in {strictDram, strictVram} : \A k \in DOMAIN table : table[k].whole

(* Turning seeding off changes nothing until the first op whose source is  *)
(* missing, reports that op, and from then on keeps no buffer the seeding  *)
(* run has not: strict errors are exactly about data the default makes up. *)
StrictReportsWhatSeedingMakesUp ==
  /\ count.seeds = 0 <=> strictCount.missing = 0
  /\ strictCount.missing = 0 =>
       dram = strictDram /\ vram = strictVram /\ count = strictCount
  /\ strictCount.missing >= count.seeds
  /\ DOMAIN strictDram \subseteq DOMAIN dram
  /\ DOMAIN strictVram \subseteq DOMAIN vram

(* A block in VRAM was copied there, or computed on, after the last        *)
(* eviction of it: final_residency never shows an evicted VRAM buffer.     *)
VramOutlivesNoEviction ==
  \A k \in DOMAIN vram \cup DOMAIN strictVram :
    \E i \in DOMAIN history :
      /\ Key(history[i]) = k
      /\ Intent(history[i]) \in {"dram_to_vram", "compute"}
      /\ \A j \in i .. Len(history) :
           Key(history[j]) = k => Intent(history[j]) # "ssd_write"
=============================================================================
