-------------------------- MODULE CommandConsumer ---------------------------
(***************************************************************************)
(* io/runtime_kv_command_consumer.c fed by the exporter: a plan is         *)
(* exported line by line, every SSD source is seeded with the pattern of   *)
(* its command, and the commands run in order until the first failure.     *)
(* A byte is <<pattern, index>>: patterns of different commands differ.    *)
(***************************************************************************)
EXTENDS CommandExport, SequencesExt

CONSTANTS
  Layouts,       \* the layouts a plan may have
  PlanOps,       \* the ops a plan may contain
  MaxCommands,   \* bound on the length of a plan
  Origins,       \* where plans come from: "scheduler", "bridge"
  Null           \* a buffer not allocated

Pattern(c) == [i \in 1 .. c.size |-> <<Key(c), c.offset, i>>]

(* SSDFileLayout keeps the ranges of a layout apart, and the ops of a plan *)
(* are made from KVBlocks, of which a plan has one per layer and block.    *)
ASSUME PlanAssumption ==
  /\ PlanOps \subseteq CommandLine
  /\ \A c, d \in PlanOps : Block(c) = Block(d) => Key(c) = Key(d)

ASSUME LayoutAssumption ==
  \A l \in Layouts : \A b, d \in DOMAIN l :
    /\ l[b] \in [offset : Nat, size : Nat \ {0}]
    /\ b # d => \/ l[b].offset + l[b].size <= l[d].offset
               \/ l[d].offset + l[d].size <= l[b].offset

ASSUME NullAssumption == \A c \in PlanOps : Pattern(c) # Null

VARIABLES
  layout,     \* of the plan: <<layer, block>> -> [offset, size]
  origin,     \* where the plan comes from
  exported,   \* the lines of the command file
  pc,         \* "export", "rejected", "seed", "run", "exited"
  next,       \* index of the command seeded or run next
  file,       \* the backing file: offset -> byte
  slots,      \* <<layer, block>> -> [dram, vram]
  stats,      \* what the summary line reports
  rc,         \* the exit code
  ioFailed    \* an open, read, write or allocation has failed

vars == <<layout, origin, exported, pc, next, file, slots, stats, rc, ioFailed>>

commands == [i \in DOMAIN exported |-> Scan(exported[i])]

Zero == <<"zero">>

Garbage == <<"garbage">>   \* malloc

Read(c) == [i \in 1 .. c.size |-> file[c.offset + i - 1]]

(* full_pwrite of the first n bytes.                                       *)
Written(c, bytes, n) ==
  [o \in DOMAIN file |-> IF o \in c.offset .. c.offset + n - 1
                         THEN bytes[o - c.offset + 1] ELSE file[o]]

Start ==
  /\ exported = <<>>
  /\ pc = "export"
  /\ next = 1
  /\ file = [o \in {} |-> Zero]
  /\ slots = [b \in {} |-> Null]
  /\ stats = [ran |-> 0, reads |-> 0, writes |-> 0, copies |-> 0, computes |-> 0,
              lazy |-> 0, seeds |-> 0, errors |-> 0]
  /\ rc = 0
  /\ ioFailed = FALSE

Init == layout \in Layouts /\ origin \in Origins /\ Start

ExportOp(op) ==
  /\ pc = "export"
  /\ Len(exported) < MaxCommands
  /\ IF Accepts(op, layout) THEN exported' = Append(exported, Line(op, origin)) /\ UNCHANGED pc
                    ELSE pc' = "rejected" /\ UNCHANGED exported
  /\ UNCHANGED <<layout, origin, next, file, slots, stats, rc, ioFailed>>

Exit(code) == pc' = "exited" /\ rc' = code

(* main up to the seeding: an empty command file is refused; the backing   *)
(* file is truncated and extended to the end of the last range, if it can. *)
OpenBacking ==
  /\ pc = "export"
  /\ \/ exported = <<>> /\ Exit(2) /\ UNCHANGED <<file, ioFailed>>
     \/ exported # <<>> /\ Exit(1) /\ ioFailed' = TRUE /\ UNCHANGED file
     \/ /\ exported # <<>>
        /\ pc' = "seed"
        /\ file' = [o \in 0 .. Max({c.offset + c.size : c \in ToSet(commands)}) - 1 |-> Zero]
        /\ UNCHANGED <<rc, ioFailed>>
  /\ UNCHANGED <<layout, origin, exported, next, slots, stats>>

(* Fault: a seed is skipped when another one has the same size.            *)
SeenSize(i) ==
  \E j \in 1 .. i - 1 : commands[j].source = "ssd" /\ commands[j].size = commands[i].size

Seen(i) ==
  \E j \in 1 .. i - 1 :
    /\ commands[j].source = "ssd"
    /\ commands[j].offset = commands[i].offset
    /\ commands[j].size = commands[i].size

Advance == next' = next + 1 /\ UNCHANGED <<pc, rc>>

SeedNext ==
  /\ pc = "seed" /\ next <= Len(commands)
  /\ LET c == commands[next]
     IN IF c.source # "ssd" \/ Seen(next)
        THEN Advance /\ UNCHANGED <<file, stats, ioFailed>>
        ELSE \/ /\ file' = Written(c, Pattern(c), c.size)
                /\ stats' = [stats EXCEPT !.seeds = stats.seeds + 1]
                /\ Advance
                /\ UNCHANGED ioFailed
             \/ /\ \E n \in 0 .. c.size - 1 : file' = Written(c, Pattern(c), n)
                /\ ioFailed' = TRUE
                /\ Exit(1)
                /\ UNCHANGED <<next, stats>>
  /\ UNCHANGED <<layout, origin, exported, slots>>

StartRunning ==
  /\ pc = "seed" /\ next > Len(commands)
  /\ pc' = "run" /\ next' = 1
  /\ UNCHANGED <<layout, origin, exported, file, slots, stats, rc, ioFailed>>

(***************************************************************************)
(* execute_command.  Buffers are found by layer and block alone; one is    *)
(* allocated with the size of the first command that needs it.             *)
(***************************************************************************)
Tiers == {"dram", "vram"}

Slot(c) ==
  IF Block(c) \in DOMAIN slots THEN slots[Block(c)] ELSE [t \in Tiers |-> Null]

SetSlot(c, slot) ==
  slots' = [b \in DOMAIN slots \cup {Block(c)} |-> IF b = Block(c) THEN slot ELSE slots[b]]

(* ensure_buffer: a source not there yet is made up from the pattern.      *)
Ensured(c, tier) == IF Slot(c)[tier] = Null THEN Pattern(c) ELSE Slot(c)[tier]

Lazy(c, tier) == IF Slot(c)[tier] = Null THEN 1 ELSE 0

Bytes(buffer, n) == [i \in 1 .. n |-> IF i <= Len(buffer) THEN buffer[i] ELSE Garbage]

Filled(buffer, bytes) ==
  IF buffer = Null THEN bytes
  ELSE [i \in DOMAIN buffer |-> IF i <= Len(bytes) THEN bytes[i] ELSE buffer[i]]

(* What a load of the command can read from and write to.                  *)
Runnable(c) ==
  CASE IsTransfer(c)       -> c.target \in Tiers /\ c.source \in Tiers \cup {"ssd"}
    [] c.op = "kv_compute" -> TRUE
    [] c.op = "kv_evict"   -> c.source \in Tiers

VerifyAndAdvance(ok, counted) ==
  IF ok THEN stats' = counted /\ Advance
        ELSE stats' = [counted EXCEPT !.errors = counted.errors + 1] /\ Exit(1) /\ UNCHANGED next

LoadFromSsd(c) ==
  /\ IsTransfer(c) /\ Runnable(c) /\ c.source = "ssd"
  /\ \/ /\ SetSlot(c, [Slot(c) EXCEPT ![c.target] = Filled(Slot(c)[c.target], Read(c))])
        /\ VerifyAndAdvance(Read(c) = Pattern(c),
             [stats EXCEPT !.ran = stats.ran + 1, !.reads = stats.reads + 1])
        /\ UNCHANGED ioFailed
     \/ ioFailed' = TRUE /\ Exit(1) /\ UNCHANGED <<next, slots, stats>>
  /\ UNCHANGED file

CopiesToVram(c) == IF c.source = "dram" /\ c.target = "vram" THEN 1 ELSE 0

(* Fault: a missing source is not counted as made up.                      *)
CopyUncounted(c) ==
  /\ IsTransfer(c) /\ Runnable(c) /\ c.source \in Tiers
  /\ LET source == Ensured(c, c.source)
     IN SetSlot(c, [Slot(c) EXCEPT
          ![c.source] = source,
          ![c.target] = Filled(Slot(c)[c.target], Bytes(source, c.size))])
  /\ stats' = [stats EXCEPT !.ran = stats.ran + 1, !.copies = stats.copies + CopiesToVram(c)]
  /\ Advance
  /\ UNCHANGED <<file, ioFailed>>

Copy(c) ==
  /\ IsTransfer(c) /\ Runnable(c) /\ c.source \in Tiers
  /\ LET source == Ensured(c, c.source)
     IN SetSlot(c, [Slot(c) EXCEPT
          ![c.source] = source,
          ![c.target] = Filled(Slot(c)[c.target], Bytes(source, c.size))])
  /\ stats' = [stats EXCEPT !.ran = stats.ran + 1, !.copies = stats.copies + CopiesToVram(c),
                            !.lazy = stats.lazy + Lazy(c, c.source)]
  /\ Advance
  /\ UNCHANGED <<file, ioFailed>>

Compute(c) ==
  /\ c.op = "kv_compute"
  /\ LET source == Ensured(c, "vram")
         verified == Bytes(source, c.size) = Pattern(c)
     IN /\ SetSlot(c, [Slot(c) EXCEPT !["vram"] = source])
        /\ VerifyAndAdvance(verified,
             [stats EXCEPT !.ran = stats.ran + 1,
                           !.computes = stats.computes + (IF verified THEN 1 ELSE 0),
                           !.lazy = stats.lazy + Lazy(c, "vram")])
  /\ UNCHANGED <<file, ioFailed>>

(* An eviction writes the source back and keeps its buffer.                *)
Evict(c) ==
  /\ c.op = "kv_evict" /\ Runnable(c)
  /\ LET source == Ensured(c, c.source)
     IN /\ SetSlot(c, [Slot(c) EXCEPT ![c.source] = source])
        /\ \/ /\ file' = Written(c, Bytes(source, c.size), c.size)
              /\ stats' = [stats EXCEPT !.ran = stats.ran + 1, !.writes = stats.writes + 1,
                                        !.lazy = stats.lazy + Lazy(c, c.source)]
              /\ Advance
              /\ UNCHANGED ioFailed
           \/ /\ \E n \in 0 .. c.size - 1 : file' = Written(c, Bytes(source, c.size), n)
              /\ ioFailed' = TRUE
              /\ Exit(1)
              /\ UNCHANGED <<next, stats>>

Refuse(c) ==
  /\ ~Runnable(c)
  /\ Exit(1)
  /\ UNCHANGED <<next, file, slots, stats, ioFailed>>

(* get_slot, alloc_target_buffer or ensure_buffer finds no memory.         *)
OutOfMemory ==
  /\ Exit(1)
  /\ ioFailed' = TRUE
  /\ UNCHANGED <<next, file, slots, stats>>

ExecuteNext ==
  /\ pc = "run" /\ next <= Len(commands)
  /\ LET c == commands[next]
     IN LoadFromSsd(c) \/ Copy(c) \/ Compute(c) \/ Evict(c) \/ Refuse(c) \/ OutOfMemory
  /\ UNCHANGED <<layout, origin, exported>>

Finish ==
  /\ pc = "run" /\ next > Len(commands)
  /\ Exit(0)
  /\ UNCHANGED <<layout, origin, exported, next, file, slots, stats, ioFailed>>

Next ==
  \/ \E op \in PlanOps : ExportOp(op)
  \/ OpenBacking
  \/ SeedNext
  \/ StartRunning
  \/ ExecuteNext
  \/ Finish

Spec == Init /\ [][Next]_vars

(***************************************************************************)
(* Properties.                                                             *)
(***************************************************************************)

(* The check of the bytes read or computed on never fails: whatever plan   *)
(* the exporter accepts, in whatever order, and with evictions between,    *)
(* each block's range and buffers only ever hold that block's bytes.       *)
NoVerificationError == stats.errors = 0

(* A buffer found by layer and block has the size of every later command   *)
(* that copies into or out of it, although it is never resized.            *)
BuffersFit ==
  \A i \in DOMAIN commands :
    Block(commands[i]) \in DOMAIN slots =>
      \A t \in Tiers : slots[Block(commands[i])][t] # Null =>
        Len(slots[Block(commands[i])][t]) = commands[i].size

(* lazy_init_count counts the buffers whose first use in the file is as a  *)
(* source: the blocks the plan takes to be in DRAM or VRAM at its start.   *)
UsesAsSource(c, b, t) ==
  Block(c) = b /\ (IF c.op = "kv_compute" THEN t = "vram" ELSE c.source = t)

UsesAsTarget(c, b, t) == Block(c) = b /\ IsTransfer(c) /\ c.target = t

FirstUsedAsSource(b, t) ==
  \E i \in DOMAIN commands :
    /\ UsesAsSource(commands[i], b, t)
    /\ \A j \in 1 .. i - 1 :
         ~UsesAsSource(commands[j], b, t) /\ ~UsesAsTarget(commands[j], b, t)

Blocks == {Block(commands[i]) : i \in DOMAIN commands}

LazyInitExplained ==
  pc = "exited" /\ rc = 0 =>
    stats.lazy = Cardinality({bt \in Blocks \X Tiers : FirstUsedAsSource(bt[1], bt[2])})

(* The consumer executes the commands the exporter wrote: what it scans    *)
(* from a line is the command of that line.                                *)
ReadsWhatWasExported ==
  \A i \in DOMAIN exported : commands[i] = exported[i].command
=============================================================================
