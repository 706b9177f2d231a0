----------------------------- MODULE KVCommand ------------------------------
(***************************************************************************)
(* The movement command as the llama.cpp patch reads it from a JSONL file: *)
(* which lines the loader accepts, which block a command names, which      *)
(* executor routine it reaches, and which runtime events it belongs to.    *)
(***************************************************************************)
EXTENDS Integers, Sequences

Locations == {"ssd", "dram", "vram"}

Ops == {"kv_load", "kv_prefetch", "kv_compute", "kv_evict"}

CommandLine ==
  [complete : BOOLEAN, op : STRING, source : STRING, target : STRING,
   layer : Int, block : Int, start : Int, end : Int, size : Int, offset : Int]

Key(c) == [layer |-> c.layer, block |-> c.block, start |-> c.start, end |-> c.end]

KeyTokens(k) == k.end - k.start

(* The loader's checks, over the model's layers and cache size.  A line    *)
(* with a missing or ill-typed field has complete = FALSE.                 *)
ValidCommand(c, layers, cacheSize) ==
  /\ c.complete
  /\ c.op \in Ops
  /\ c.layer \in layers
  /\ 0 <= c.block /\ c.block < cacheSize
  /\ 0 <= c.start /\ c.start < c.end
  /\ c.size > 0 /\ c.offset >= 0
  /\ c.source \in Locations /\ c.target \in Locations
  /\ c.op = "kv_compute" => c.source = "vram" /\ c.target = "vram"
  /\ c.op = "kv_evict" => c.target = "ssd"

IsTransfer(c) == c.op \in {"kv_load", "kv_prefetch"}

(* The routine a command reaches; "metadata" commands move no buffer.      *)
Intent(c) ==
  CASE IsTransfer(c) /\ c.source = "ssd" /\ c.target = "dram"  -> "ssd_read"
    [] IsTransfer(c) /\ c.source = "dram" /\ c.target = "vram" -> "dram_to_vram"
    [] c.op = "kv_compute"                                     -> "compute"
    [] c.op = "kv_evict" /\ c.target = "ssd"                   -> "ssd_write"
    [] OTHER                                                   -> "metadata"

(* A command belongs to a runtime event of the same layer and first cell   *)
(* whose token range it overlaps; the two ranges need not be equal.        *)
MatchesRuntime(c, event) ==
  /\ c.layer = event.layer
  /\ c.block = event.block
  /\ c.start < event.end
  /\ c.end > event.start

(* A command the attention views of its layer depend on.                   *)
RequiresResidency(c) == c.op = "kv_compute" \/ c.target = "vram"

OverlapsView(c, layer, nKV) ==
  /\ c.layer = layer
  /\ RequiresResidency(c)
  /\ c.block >= 0 /\ c.end > c.start
  /\ c.block < nKV
=============================================================================
