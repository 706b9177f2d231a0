--------------------------- MODULE RuntimeReplay ----------------------------
(***************************************************************************)
(* run_runtime_replay (harness/runtime_replay.py): a llama.cpp trace fills *)
(* a block store through the adapter, the scheduler brings every block to  *)
(* VRAM, and build_movement_plan lays the blocks out on the SSD file and   *)
(* turns the schedule into movement ops.  A step that raises fails the run *)
(* and leaves no plan.                                                     *)
(***************************************************************************)
EXTENDS Scheduler

CONSTANTS
  TraceEvents,        \* the events a trace may contain
  MaxEvents,          \* bound on the length of a trace
  InitialLocations,   \* --initial-location: "trace" or a location
  Alignment,          \* --ssd-layout-alignment
  NoTarget            \* an event without a target field

Locations == {"ssd", "dram", "vram"}

(* LlamaKVEvent.from_dict makes numbers of the fields of an event.         *)
ASSUME ReplayAssumption ==
  /\ Alignment \in Nat \ {0}
  /\ InitialLocations \subseteq Locations \cup {"trace"}
  /\ \A e \in TraceEvents : e.key \in Int \X Int /\ {e.start, e.end, e.size} \subseteq Int

VARIABLES
  trace,        \* the events ingested
  phase,        \* "ingest", "schedule", "layout", "passed", "failed"
  store,        \* block key -> [start, end, size, location]
  initial,      \* --initial-location
  before,       \* key -> location when the schedule starts
  ops,          \* the schedule's ops
  layout,       \* key -> [offset, size]
  addOutcome,   \* how the last add_block call ended
  plan          \* the movement ops

replayVars ==
  <<trace, phase, store, initial, before, ops, layout, addOutcome, plan>>

Keys == {e.key : e \in TraceEvents}

Layout == INSTANCE SSDLayout WITH
  Blocks <- Keys, Sizes <- {e.size : e \in TraceEvents}, BaseOffset <- 0,
  ranges <- layout, outcome <- addOutcome

MovementOps == {"kv_load", "kv_prefetch", "kv_evict"}

ReplayInit ==
  /\ trace = <<>>
  /\ phase = "ingest"
  /\ store = [k \in {} |-> <<>>]
  /\ initial \in InitialLocations
  /\ before = [k \in {} |-> <<>>]
  /\ ops = <<>>
  /\ Layout!SSDInit
  /\ plan = <<>>

TargetOf(e) == IF e.target = NoTarget THEN e.location ELSE e.target

(* What KVBlock's checks let through.                                      *)
MakesBlock(e, where) ==
  /\ e.key \in Nat \X Nat
  /\ 0 <= e.start /\ e.start < e.end
  /\ e.size >= 0
  /\ where \in Locations

(* upsert_block: the event's block replaces the one of the same key.       *)
Upsert(e, where) ==
  store' = [k \in DOMAIN store \cup {e.key} |->
              IF k = e.key
              THEN [start |-> e.start, end |-> e.end, size |-> e.size, location |-> where]
              ELSE store[k]]

IngestAdd(e) ==
  /\ e.op = "kv_add" /\ MakesBlock(e, e.location)
  /\ Upsert(e, e.location)
  /\ UNCHANGED phase

(* Fault: the block is left where it was.                                  *)
IngestMovementInPlace(e) ==
  /\ e.op \in MovementOps /\ MakesBlock(e, TargetOf(e))
  /\ Upsert(e, IF e.key \in DOMAIN store THEN store[e.key].location ELSE TargetOf(e))
  /\ UNCHANGED phase

IngestMovement(e) ==
  /\ e.op \in MovementOps /\ MakesBlock(e, TargetOf(e))
  /\ Upsert(e, TargetOf(e))
  /\ UNCHANGED phase

IngestMove(e) ==
  /\ e.op = "kv_move"
  /\ e.key \in DOMAIN store /\ TargetOf(e) \in Locations
  /\ store' = [store EXCEPT ![e.key].location = TargetOf(e)]
  /\ UNCHANGED phase

(* A block that cannot be, a move of an unknown block or to an unknown     *)
(* place, or an op the adapter does not know.                              *)
IngestRaises(e) ==
  /\ CASE e.op = "kv_add"       -> ~MakesBlock(e, e.location)
       [] e.op \in MovementOps -> ~MakesBlock(e, TargetOf(e))
       [] e.op = "kv_move"      -> e.key \notin DOMAIN store \/ TargetOf(e) \notin Locations
       [] OTHER                 -> TRUE
  /\ phase' = "failed"
  /\ UNCHANGED store

Ingest(e) ==
  /\ phase = "ingest" /\ Len(trace) < MaxEvents
  /\ IngestAdd(e) \/ IngestMovement(e) \/ IngestMove(e) \/ IngestRaises(e)
  /\ trace' = Append(trace, e)
  /\ UNCHANGED <<initial, before, ops, layout, addOutcome, plan>>

(* The end of the trace: unless the trace's locations are kept, all blocks *)
(* are moved to the initial location.                                      *)
PlaceBlocks ==
  /\ phase = "ingest"
  /\ phase' = "schedule"
  /\ store' = [k \in DOMAIN store |->
                 IF initial = "trace" THEN store[k] ELSE [store[k] EXCEPT !.location = initial]]
  /\ before' = [k \in DOMAIN store |-> store'[k].location]
  /\ UNCHANGED <<trace, initial, ops, layout, addOutcome, plan>>

(* With --calibrate-ssd-io the I/O probe runs if there are blocks on SSD;  *)
(* when it fails, the run fails before anything is scheduled.              *)
CalibrationFails ==
  /\ phase = "schedule" /\ ops = <<>>
  /\ \E k \in DOMAIN store : store[k].location = "ssd"
  /\ phase' = "failed"
  /\ UNCHANGED <<trace, store, initial, before, ops, layout, addOutcome, plan>>

InOrder(j, k) == j[1] < k[1] \/ (j[1] = k[1] /\ j[2] < k[2])

(* list_blocks hands the blocks out in order.                              *)
IsFirst(k, keys) == k \in keys /\ \A j \in keys \ {k} : InOrder(k, j)

Unscheduled == {k \in DOMAIN store : ~Seen(ops, k)}

ScheduleNext(k) ==
  /\ phase = "schedule" /\ IsFirst(k, Unscheduled)
  /\ LET done == Turn([j \in DOMAIN store |-> store[j].location], ops, k, "vram")
     IN /\ store' = [j \in DOMAIN store |-> [store[j] EXCEPT !.location = done.location[j]]]
        /\ ops' = done.ops
        /\ phase' = IF done.raised THEN "failed" ELSE phase
  /\ UNCHANGED <<trace, initial, before, layout, addOutcome, plan>>

ScheduleReturns ==
  /\ phase = "schedule" /\ Unscheduled = {}
  /\ phase' = "layout"
  /\ UNCHANGED <<trace, store, initial, before, ops, layout, addOutcome, plan>>

Unplaced == DOMAIN store \ DOMAIN layout

(* add_block of the next block; an empty block fails the run.              *)
LayOutNext(k) ==
  /\ phase = "layout" /\ IsFirst(k, Unplaced)
  /\ Layout!AddBlock(k, store[k].size)
  /\ phase' = IF addOutcome' = "ok" THEN phase ELSE "failed"
  /\ UNCHANGED <<trace, store, initial, before, ops, plan>>

MovementNames ==
  [schedule_ssd_read |-> "kv_load", schedule_dram_to_vram |-> "kv_load",
   schedule_compute |-> "kv_compute"]

MovementTargets ==
  [schedule_ssd_read |-> "dram", schedule_dram_to_vram |-> "vram",
   schedule_compute |-> "vram"]

(* Fault: a read from SSD is planned straight into VRAM.                   *)
MovementOpToVram(op) ==
  [complete |-> TRUE, op |-> MovementNames[op.op], source |-> op.from, target |-> "vram",
   layer |-> op.block[1], block |-> op.block[2],
   start |-> store[op.block].start, end |-> store[op.block].end,
   size |-> layout[op.block].size, offset |-> layout[op.block].offset]

(* _movement_from_schedule_op: the schedule's step with the block's tokens *)
(* and its range of the SSD file.                                          *)
MovementOp(op) ==
  [complete |-> TRUE, op |-> MovementNames[op.op], source |-> op.from,
   target |-> MovementTargets[op.op],
   layer |-> op.block[1], block |-> op.block[2],
   start |-> store[op.block].start, end |-> store[op.block].end,
   size |-> layout[op.block].size, offset |-> layout[op.block].offset]

BuildPlan ==
  /\ phase = "layout" /\ Unplaced = {}
  /\ plan' = [i \in DOMAIN ops |-> MovementOp(ops[i])]
  /\ phase' = "passed"
  /\ UNCHANGED <<trace, store, initial, before, ops, layout, addOutcome>>

ReplayNext ==
  \/ \E e \in TraceEvents : Ingest(e)
  \/ PlaceBlocks
  \/ CalibrationFails
  \/ \E k \in DOMAIN store : ScheduleNext(k) \/ LayOutNext(k)
  \/ ScheduleReturns
  \/ BuildPlan
=============================================================================
