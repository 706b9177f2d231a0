-------------------------- MODULE MovementExecutor --------------------------
(***************************************************************************)
(* harness/movement_executor.py: the reads of the SSD file a movement plan *)
(* asks for, each done once, and one run of the I/O probe per block size.  *)
(* What its run writes and records is RunManifest's MovementSteps.         *)
(***************************************************************************)
EXTENDS FiniteSets, SequencesExt

(* kv_load only: a prefetch from SSD is traced and not probed.             *)
SsdLoads(plan) == {op \in ToSet(plan) : op.op = "kv_load" /\ op.source = "ssd"}

UniqueReads(plan) ==
  {[layer |-> op.layer, block |-> op.block, offset |-> op.offset, size |-> op.size] :
     op \in SsdLoads(plan)}

(* Block size -> how many blocks the probe of that size reads.             *)
ProbeRuns(plan) ==
  [s \in {r.size : r \in UniqueReads(plan)} |->
     Cardinality({r \in UniqueReads(plan) : r.size = s})]
=============================================================================
