---- MODULE MCLiveBridge ----
(***************************************************************************)
(* Two layers, two overlapping batches, command files of up to four lines  *)
(* of which three fit, fewer staging and shadow records than blocks.       *)
(***************************************************************************)
EXTENDS LiveBridge, TLC

Line(op, source, target, layer, start, size, offset) ==
  [complete |-> TRUE, op |-> op, source |-> source, target |-> target,
   layer |-> layer, block |-> 0, start |-> start, end |-> start + 2,
   size |-> size, offset |-> offset]

MCLines ==
  {Line("kv_load", "ssd", "dram", 0, 0, 4, 0),
   Line("kv_prefetch", "dram", "vram", 0, 0, 4, 0),
   Line("kv_compute", "vram", "vram", 0, 0, 4, 0),
   Line("kv_evict", "vram", "ssd", 0, 0, 4, 0),
   Line("kv_evict", "dram", "ssd", 0, 0, 4, 0),
   Line("kv_load", "ssd", "dram", 0, 0, 3, 0),
   Line("kv_load", "ssd", "dram", 0, 1, 4, 8),
   Line("kv_load", "ssd", "dram", 1, 0, 4, 4),
   Line("kv_compute", "dram", "vram", 1, 0, 4, 4)}

MCUbatches == {[block |-> 0, start |-> 0, end |-> 2], [block |-> 0, start |-> 1, end |-> 3]}

MCLayerOrder == <<0, 1>>

MCEnvironments ==
  {[executor |-> TRUE, seed |-> TRUE, mutation |-> TRUE],
   [executor |-> TRUE, seed |-> FALSE, mutation |-> TRUE]}

(* One block's plan, and a multi-stream cache whose tensors the mutation   *)
(* gate refuses.                                                           *)
MCGateLines ==
  {Line("kv_load", "ssd", "dram", 0, 0, 4, 0),
   Line("kv_load", "dram", "vram", 0, 0, 4, 0),
   Line("kv_compute", "vram", "vram", 0, 0, 4, 0)}

MCMultiStreamTensor == [streams |-> 2, keyRow |-> 1, valueRow |-> 1]

MCTensor == [streams |-> 1, keyRow |-> 1, valueRow |-> 1]

BufferSymmetry == Permutations(Buffers)
====
