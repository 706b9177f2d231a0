---- MODULE MCResidencyModes ----
(* Two blocks; block 0 is also named with a wrong size.  The backing file  *)
(* is absent, covers both blocks, only block 0, or neither completely.     *)
EXTENDS ResidencyModes

Op(op, source, target, block, size) ==
  [op |-> op, source |-> source, target |-> target, layer |-> 0, block |-> block,
   start |-> 2 * block, end |-> 2 * block + 2, size |-> size, offset |-> 4 * block]

MCPlanOps ==
  UNION {{Op("kv_load", "ssd", "dram", b, 3), Op("kv_load", "dram", "vram", b, 3),
          Op("kv_compute", "vram", "vram", b, 3), Op("kv_evict", "vram", "ssd", b, 3)} : b \in {0, 1}}
  \cup {Op("kv_prefetch", "ssd", "dram", 0, 2), Op("kv_load", "dram", "vram", 0, 2),
        Op("kv_compute", "vram", "vram", 0, 2), Op("kv_prefetch", "vram", "dram", 0, 3)}

MCFileLengths == {NoFile, 7, 3, 2}
====
