--------------------------- MODULE MCBridgeTrace ----------------------------
(***************************************************************************)
(* A model with two layers and its draft model with one, whose layer 0 has *)
(* the number of the other's; a table of two commands and two shadow       *)
(* records.                                                                *)
(***************************************************************************)
EXTENDS BridgeTrace

CONSTANTS Main, Draft

FileLine(op, source, target, layer, block, start, end, offset) ==
  [complete |-> TRUE, op |-> op, source |-> source, target |-> target,
   layer |-> layer, block |-> block, start |-> start, end |-> end,
   size |-> 4, offset |-> offset]

Load == FileLine("kv_load", "ssd", "dram", 0, 0, 0, 1, 0)
Promote == FileLine("kv_prefetch", "dram", "vram", 0, 0, 2, 3, 0)
Compute == FileLine("kv_compute", "vram", "vram", 0, 0, 0, 1, 0)
LoadLayer1 == FileLine("kv_load", "ssd", "dram", 1, 0, 0, 3, 4)
LoadMoved == FileLine("kv_load", "ssd", "dram", 0, 0, 0, 1, 12)
Incomplete == [Load EXCEPT !.complete = FALSE]

MCFiles ==
  {<<Load, Compute>>,              \* a mismatch
   <<LoadLayer1, Load>>,           \* names a layer the draft does not have
   <<Load, Promote, Compute>>,     \* two ranges of a block; one line too many
   <<LoadMoved, Incomplete>>, <<LoadMoved>>, NoFile}

MCLayout ==
  (<<0, 0>> :> [offset |-> 0, size |-> 4]) @@ (<<1, 0>> :> [offset |-> 4, size |-> 4])

MCCacheLayers == (Main :> <<0, 1>>) @@ (Draft :> <<0>>)

MCCacheSize == (Main :> 3) @@ (Draft :> 2)

Batch(block, start, end) == [block |-> block, start |-> start, end |-> end]

MCUbatches ==
  (Main :> {Batch(0, 0, 2), Batch(0, 1, 3)}) @@ (Draft :> {Batch(0, 0, 2)})
=============================================================================
