--------------------------- MODULE CommandExport ----------------------------
(***************************************************************************)
(* runtime_commands.py: which ops of a movement plan become commands, and  *)
(* what the line scanner of the C programs reads back from an exported     *)
(* line.  The scanner takes the first occurrence of a quoted field name,   *)
(* and the exporter writes keys in sorted order, so that "metadata" and    *)
(* everything nested in it precedes "op", "source" and "target".           *)
(***************************************************************************)
EXTENDS KVCommand

CONSTANT NoSource   \* the metadata of a line has no "source" field

Block(c) == <<c.layer, c.block>>

(* LlamaKVCommand.__post_init__.                                           *)
WellFormed(c) ==
  /\ c.complete
  /\ c.op \in Ops
  /\ c.layer >= 0 /\ c.block >= 0
  /\ 0 <= c.start /\ c.start < c.end
  /\ c.size > 0 /\ c.offset >= 0
  /\ c.source \in Locations /\ c.target \in Locations
  /\ c.op = "kv_compute" => c.source = "vram" /\ c.target = "vram"
  /\ c.op = "kv_evict" => c.target = "ssd"
  /\ IsTransfer(c) => c.source # c.target

(* Fault: the layout's size is not compared.                               *)
AcceptsAnySize(c, layout) ==
  /\ WellFormed(c)
  /\ Block(c) \in DOMAIN layout
  /\ c.offset = layout[Block(c)].offset

(* commands_from_movement_plan: a command must be what the plan's layout,  *)
(* <<layer, block>> -> [offset, size], says of its block.                  *)
Accepts(c, layout) ==
  /\ WellFormed(c)
  /\ Block(c) \in DOMAIN layout
  /\ c.offset = layout[Block(c)].offset
  /\ c.size = layout[Block(c)].size

(* The metadata an op carries: the scheduler's has no "source", the bridge *)
(* trace's says "source": "llama.cpp" and movement_intents.py keeps it.    *)
MetadataSource(origin) == IF origin = "bridge" THEN "llama.cpp" ELSE NoSource

Line(c, origin) == [command |-> c, metadataSource |-> MetadataSource(origin)]

(* What a scanner that takes the first match reads from the line.          *)
Scan(line) ==
  [line.command EXCEPT !.source =
     IF line.metadataSource = NoSource THEN line.command.source ELSE line.metadataSource]
=============================================================================
