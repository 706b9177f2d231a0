--------------------------- MODULE MCKVByteRanges ---------------------------
(***************************************************************************)
(* A cache of three cells of two layers.  Blocks that start at a cell      *)
(* other than their first token, overlap in cells, end one cell too late,  *)
(* have an odd or fractional row, or are misaligned or past the file's end.*)
(***************************************************************************)
EXTENDS KVByteRanges

PlanOp(layer, block, start, end, offset, size) ==
  [layer |-> layer, block |-> block, start |-> start, end |-> end, offset |-> offset, size |-> size]

MCPlanOps ==
  {PlanOp(0, 0, 0, 2, 0, 8),      \* tokens and cells agree
   PlanOp(0, 1, 0, 2, 8, 8),      \* overlaps the cells of the first
   PlanOp(0, 0, 2, 4, 8, 8),      \* tokens beyond the cache, cells within
   PlanOp(0, 2, 0, 2, 8, 8),      \* cells beyond the cache, tokens within
   PlanOp(1, 0, 0, 1, 16, 4),
   PlanOp(1, 0, 0, 2, 4, 7),      \* no whole number of bytes per token
   PlanOp(1, 1, 1, 2, 6, 3),      \* odd bytes per token
   PlanOp(1, 1, 1, 2, 6, 4),      \* inconsistent with the one before
   PlanOp(1, 2, 2, 3, 16, 8),     \* two-byte rows of another shape, short read
   PlanOp(1, 0, 1, 1, 16, 4)}     \* no tokens

MCLayoutSizes == [key \in {[layer |-> 0, block |-> 0], [layer |-> 1, block |-> 2]} |-> 8]

Request(key, value, bound, backing) ==
  [key |-> key, value |-> value, bound |-> bound, backing |-> backing]

MCRequests ==
  {Request(NotGiven, NotGiven, CacheSize, TRUE), Request(NotGiven, NotGiven, NotGiven, FALSE),
   Request(1, NotGiven, CacheSize, TRUE), Request(NotGiven, 4, CacheSize, FALSE),
   Request(1, 3, NotGiven, TRUE)}

MCTensors ==
  {[streams |-> 1, keyRow |-> 2, valueRow |-> 2, columns |-> 2, element |-> 1, transposed |-> FALSE],
   [streams |-> 1, keyRow |-> 2, valueRow |-> 2, columns |-> 2, element |-> 1, transposed |-> TRUE],
   [streams |-> 1, keyRow |-> 2, valueRow |-> 3, columns |-> 3, element |-> 1, transposed |-> TRUE],
   [streams |-> 2, keyRow |-> 2, valueRow |-> 2, columns |-> 1, element |-> 2, transposed |-> FALSE]}
=============================================================================
