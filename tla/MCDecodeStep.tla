---- MODULE MCDecodeStep ----
(* Two layers: four blocks with a tie in the scores, and one block.        *)
(* Placements: round-robin, which puts blocks of one layer in every        *)
(* memory, alone or with all blocks on SSD.                                *)
EXTENDS DecodeStep

Block(layer, id, score) ==
  [layer |-> layer, id |-> id, start |-> 2 * id, end |-> 2 * id + 2, score |-> score]

MCBlocks ==
  {Block(0, 0, 1), Block(0, 1, 2), Block(0, 2, 2), Block(0, 3, 0),
   Block(1, 0, 1)}

RoundRobin(b) ==
  CASE (b.layer + b.id) % 3 = 0 -> "ssd"
    [] (b.layer + b.id) % 3 = 1 -> "dram"
    [] OTHER -> "vram"

MCMixedPlacement == {[b \in MCBlocks |-> RoundRobin(b)]}

Config(init, local, selected, target, compute) ==
  [init |-> init, local |-> local, selected |-> selected, target |-> target,
   compute |-> compute]

(* The second has no local window and computes where no block is brought.  *)
MCConfigs == {Config(1, 1, 1, "dram", "vram"), Config(1, 0, 2, "vram", "dram")}

MCPlacements == MCMixedPlacement \cup {[b \in MCBlocks |-> "ssd"]}
====
