---- MODULE MCReplayPipeline ----
(* Three blocks on two layers.  Block <<0, 0>> is added on SSD, moved, and *)
(* seen again with more tokens; <<0, 1>> and <<1, 0>> are added in DRAM    *)
(* and loaded or evicted; one event has a block of no bytes, one a block  *)
(* of no tokens, and one is of a kind the adapter does not know.           *)
EXTENDS ReplayPipeline

Event(op, key, end, size, location, target) ==
  [op |-> op, key |-> key, start |-> 0, end |-> end, size |-> size,
   location |-> location, target |-> target]

MCTraceEvents ==
  {Event("kv_add", <<0, 0>>, 2, 1, "ssd", NoTarget),
   Event("kv_prefetch", <<0, 0>>, 3, 3, "ssd", "dram"),
   Event("kv_move", <<0, 0>>, 0, 0, "vram", NoTarget),
   Event("kv_add", <<0, 1>>, 2, 2, "dram", "ssd"),
   Event("kv_evict", <<0, 1>>, 2, 2, "vram", "ssd"),
   Event("kv_add", <<1, 0>>, 2, 2, "dram", NoTarget),
   Event("kv_load", <<1, 0>>, 2, 2, "vram", NoTarget),
   Event("kv_add", <<1, 0>>, 2, 0, "dram", NoTarget),
   Event("kv_load", <<1, 0>>, 0, 2, "vram", NoTarget),
   Event("kv_compute", <<1, 0>>, 2, 2, "dram", NoTarget)}
====
