----------------------------- MODULE Scheduler ------------------------------
(***************************************************************************)
(* SSDAwareScheduler.schedule (core/scheduler.py), one turn of its loop:   *)
(* a block is brought to VRAM and computed, on one clock.  A block that    *)
(* does not end up at the compute location raises; what was done to the    *)
(* store and to the metrics by then stays done.  A schedule is a record of *)
(* the store's locations, the ops so far, the SSD reads counted in this    *)
(* turn, and whether it raised.                                            *)
(***************************************************************************)
EXTENDS Integers, SequencesExt

CONSTANTS SsdReadLatency, CopyLatency, ComputeLatency

ASSUME SchedulerAssumption ==
  {SsdReadLatency, CopyLatency, ComputeLatency} \subseteq Nat

Clock(ops) == IF ops = <<>> THEN 0 ELSE ops[Len(ops)].end

AddOp(s, op, b, latency) ==
  [s EXCEPT !.ops = Append(s.ops, [op |-> op, block |-> b, from |-> s.location[b],
                                   start |-> Clock(s.ops), end |-> Clock(s.ops) + latency])]

(* Fault: the read is not counted.                                         *)
ReadFromSsdUncounted(s, b) ==
  [AddOp(s, "schedule_ssd_read", b, SsdReadLatency) EXCEPT !.location[b] = "dram"]

ReadFromSsd(s, b) ==
  [AddOp(s, "schedule_ssd_read", b, SsdReadLatency) EXCEPT
     !.location[b] = "dram", !.io = s.io + 1]

CopyToVram(s, b) ==
  [AddOp(s, "schedule_dram_to_vram", b, CopyLatency) EXCEPT !.location[b] = "vram"]

(* Fault: a block just read from SSD is not looked at again (elif).        *)
LoadOnce(s, b) ==
  CASE s.location[b] = "ssd"  -> ReadFromSsd(s, b)
    [] s.location[b] = "dram" -> CopyToVram(s, b)
    [] OTHER                  -> s

Load(s, b) ==
  LET read == IF s.location[b] = "ssd" THEN ReadFromSsd(s, b) ELSE s
  IN IF read.location[b] = "dram" THEN CopyToVram(read, b) ELSE read

(* The first occurrence of a block counts: every turn that does not raise  *)
(* leaves an op of its block.                                              *)
Seen(ops, b) == \E i \in DOMAIN ops : ops[i].block = b

(* The turn of block b, on a store and ops of earlier turns;               *)
(* computeLocation is SchedulerConfig.compute_location.                    *)
Turn(location, ops, b, computeLocation) ==
  LET before == [location |-> location, ops |-> ops, io |-> 0, raised |-> FALSE]
      loaded == Load(before, b)
  IN IF Seen(ops, b) THEN before
     ELSE IF loaded.location[b] # computeLocation THEN [loaded EXCEPT !.raised = TRUE]
     ELSE AddOp(loaded, "schedule_compute", b, ComputeLatency)
=============================================================================
