------------------------- MODULE ResidencyExecutor --------------------------
(***************************************************************************)
(* RuntimeResidencyExecutor (harness/runtime_residency_executor.py): runs  *)
(* movement ops against explicit DRAM and VRAM buffers.  A buffer is known *)
(* by its size and by whether all its bytes came from the backing file.    *)
(***************************************************************************)
EXTENDS KVCommand, FiniteSets

CONSTANTS
  SeedMissingSources,   \* seed_missing_sources
  NoFile                \* backing_file is None: bytes come from a pattern

VARIABLES
  fileLength,   \* of the backing file, or NoFile; never changes
  dram, vram,   \* key -> buffer
  count         \* the executor's counters

vars == <<fileLength, dram, vram, count>>

Counters ==
  {"reads", "copies", "computes", "evictions",     \* successes
   "missing", "mismatches", "unsupported",         \* errors
   "seeds"}                                        \* lazy_source_seed_count

VerificationErrors == count.missing + count.mismatches + count.unsupported

Empty == [k \in {} |-> <<>>]

Put(table, key, buffer) ==
  [k \in DOMAIN table \cup {key} |-> IF k = key THEN buffer ELSE table[k]]

Drop(table, key) == [k \in DOMAIN table \ {key} |-> table[k]]

Bump(c, counter) == [c EXCEPT ![counter] = c[counter] + 1]

Init ==
  /\ dram = Empty
  /\ vram = Empty
  /\ count = [c \in Counters |-> 0]

(* A read past the end of the backing file is padded with zeros.           *)
ShortRead(op) == fileLength # NoFile /\ op.offset + op.size > fileLength

ReadBacking(op) == [size |-> op.size, whole |-> ~ShortRead(op)]

(* Fault: a short read goes unnoticed.                                     *)
CountReadAsWhole(c, op) == c

CountRead(c, op) == IF ShortRead(op) THEN Bump(c, "mismatches") ELSE c

(* An op whose source buffer is missing has it made up, unless seeding is  *)
(* off; then the op is counted and skipped.                                *)
Found(table, op) == Key(op) \in DOMAIN table

SourceBuffer(table, op) == IF Found(table, op) THEN table[Key(op)] ELSE ReadBacking(op)

AfterSeeding(table, op) ==
  IF Found(table, op) THEN count ELSE Bump(CountRead(count, op), "seeds")

(* Fault: without seeding the op is skipped and not counted.               *)
SkipMissingUncounted(table, op) ==
  /\ ~Found(table, op) /\ ~SeedMissingSources
  /\ UNCHANGED <<dram, vram, count>>

SkipMissing(table, op) ==
  /\ ~Found(table, op) /\ ~SeedMissingSources
  /\ count' = Bump(count, "missing")
  /\ UNCHANGED <<dram, vram>>

HasSource(table, op) == Found(table, op) \/ SeedMissingSources

SsdToDram(op) ==
  /\ Intent(op) = "ssd_read"
  /\ dram' = Put(dram, Key(op), ReadBacking(op))
  /\ count' = Bump(CountRead(count, op), "reads")
  /\ UNCHANGED vram

(* The copy fails, after seeding, when the source has another size.        *)
DramToVram(op) ==
  /\ Intent(op) = "dram_to_vram"
  /\ \/ SkipMissing(dram, op)
     \/ /\ HasSource(dram, op)
        /\ LET source == SourceBuffer(dram, op)
               fits == source.size = op.size
           IN /\ dram' = Put(dram, Key(op), source)
              /\ vram' = IF fits THEN Put(vram, Key(op), source) ELSE vram
              /\ count' = Bump(AfterSeeding(dram, op), IF fits THEN "copies" ELSE "mismatches")

Compute(op) ==
  /\ Intent(op) = "compute"
  /\ \/ SkipMissing(vram, op)
     \/ /\ HasSource(vram, op)
        /\ LET source == SourceBuffer(vram, op)
           IN /\ vram' = Put(vram, Key(op), source)
              /\ count' = Bump(AfterSeeding(vram, op),
                               IF source.size = op.size THEN "computes" ELSE "mismatches")
        /\ UNCHANGED dram

(* Fault: the DRAM copy is looked for first.                               *)
EvictDramFirst(op) ==
  /\ Intent(op) = "ssd_write"
  /\ \/ /\ Found(dram, op)
        /\ dram' = Drop(dram, Key(op))
        /\ count' = Bump(count, "evictions")
        /\ UNCHANGED vram
     \/ /\ ~Found(dram, op)
        /\ \/ SkipMissing(vram, op)
           \/ /\ HasSource(vram, op)
              /\ vram' = Drop(vram, Key(op))
              /\ count' = Bump(AfterSeeding(vram, op), "evictions")
              /\ UNCHANGED dram

(* The VRAM buffer is freed if there is one, and only otherwise the DRAM   *)
(* buffer: one eviction of a block held in both leaves the DRAM copy.  A   *)
(* buffer seeded for the eviction is freed by it.                          *)
EvictToSsd(op) ==
  /\ Intent(op) = "ssd_write"
  /\ \/ /\ Found(vram, op)
        /\ vram' = Drop(vram, Key(op))
        /\ count' = Bump(count, "evictions")
        /\ UNCHANGED dram
     \/ /\ ~Found(vram, op)
        /\ \/ SkipMissing(dram, op)
           \/ /\ HasSource(dram, op)
              /\ dram' = Drop(dram, Key(op))
              /\ count' = Bump(AfterSeeding(dram, op), "evictions")
              /\ UNCHANGED vram

Unsupported(op) ==
  /\ Intent(op) = "metadata"
  /\ count' = Bump(count, "unsupported")
  /\ UNCHANGED <<dram, vram>>

ExecuteOp(op) ==
  /\ \/ SsdToDram(op)
     \/ DramToVram(op)
     \/ Compute(op)
     \/ EvictToSsd(op)
     \/ Unsupported(op)
  /\ UNCHANGED fileLength
=============================================================================
