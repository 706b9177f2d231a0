---- MODULE MCCommandConsumer ----
(* Two blocks at adjacent ranges.  Besides the transfers, computes and     *)
(* evictions of each, the plan may name block 0 with a wrong offset or a   *)
(* wrong size, and hold the two ops the consumer cannot run.               *)
EXTENDS CommandConsumer

MCLayouts == {<<0, 0>> :> [offset |-> 0, size |-> 2] @@ <<0, 1>> :> [offset |-> 2, size |-> 2]}

Op(op, source, target, block, size, offset) ==
  [complete |-> TRUE, op |-> op, source |-> source, target |-> target, layer |-> 0,
   block |-> block, start |-> 2 * block, end |-> 2 * block + 2, size |-> size, offset |-> offset]

At(block, op, source, target) == Op(op, source, target, block, 2, 2 * block)

MCPlanOps ==
  UNION {{At(b, "kv_load", "ssd", "dram"), At(b, "kv_load", "dram", "vram"),
          At(b, "kv_compute", "vram", "vram"), At(b, "kv_evict", "vram", "ssd")} : b \in {0, 1}}
  \cup {At(0, "kv_prefetch", "ssd", "vram"), At(1, "kv_evict", "dram", "ssd"),
        Op("kv_load", "ssd", "dram", 0, 2, 1), Op("kv_load", "ssd", "dram", 0, 3, 0),
        At(0, "kv_prefetch", "dram", "ssd"), At(0, "kv_evict", "ssd", "ssd")}
====
