---------------------------- MODULE KVByteRanges ----------------------------
(***************************************************************************)
(* Where a staged block's bytes belong in the K and V tensors, said twice: *)
(* by the offline verifier (integrations/llama_cpp/kv_byte_ranges.py) that *)
(* maps every block of a movement plan, and by the executor of the         *)
(* llama.cpp patch, which stages a block and copies it into the tensors.   *)
(* Both work on the same plan, at their own pace.                          *)
(* A byte is named by its place in the backing file.                       *)
(***************************************************************************)
EXTENDS BlockExtents, Sequences, FiniteSetsExt

CONSTANTS
  PlanOps,      \* ops a movement plan may hold
  MaxBlocks,    \* bound on the blocks of a plan
  LayoutSizes,  \* sizes plan.layout records: [layer, block] -> size_bytes
  PlanAlignment,  \* plan.layout.alignment
  FileLength,   \* bytes of the backing file
  Requests,     \* arguments of a verification
  NotGiven,     \* an argument left out
  CacheSize,    \* cells of the KV cache
  Tensors       \* geometries of a layer's K and V tensors

ASSUME ByteRangeAssumption ==
  /\ PlanAlignment \in Nat \ {0} /\ MaxBlocks \in Nat /\ FileLength \in Nat /\ CacheSize \in Nat \ {0}
  /\ NotGiven \notin Int
  /\ PlanOps \subseteq
       [layer : Int, block : Int, start : Int, end : Int, offset : Int, size : Int]
  /\ Requests \subseteq
       [key : Int \cup {NotGiven}, value : Int \cup {NotGiven},
        bound : Int \cup {NotGiven}, backing : BOOLEAN]
  /\ \A t \in Tensors :
       /\ t \in [streams : Nat, keyRow : Nat, valueRow : Nat, columns : Nat,
                 element : Nat \ {0}, transposed : BOOLEAN]
       /\ t.valueRow = t.columns * t.element

VARIABLES
  phase,      \* of verify_kv_byte_ranges
  blocks,     \* by_key of _unique_blocks: key -> [offset, size]
  todo,       \* blocks the loop has not reached
  counts,     \* the five error counters
  mappings,   \* key -> the block's layout in the backing file
  request,    \* the verification's arguments
  staged,     \* the executor's staging records: key -> [vram, checked]
  tensor,     \* geometry of the tensors
  cells,      \* [layer, kind, offset] -> byte, for every tensor byte written
  trace       \* tensor mutation trace: key and status of every attempt

verifierVars == <<phase, blocks, todo, counts, mappings, request>>
runtimeVars == <<staged, tensor, cells, trace>>
vars == <<verifierVars, runtimeVars>>

BlockKey(op) == [layer |-> op.layer, block |-> op.block, start |-> op.start, end |-> op.end]

TokenCount(k) == k.end - k.start

-----------------------------------------------------------------------------
(* The verifier.                                                           *)

Count(names) == [c \in DOMAIN counts |-> counts[c] + (IF c \in names THEN 1 ELSE 0)]

NoErrors == \A c \in DOMAIN counts : counts[c] = 0

(* _unique_blocks: one op of the plan.                                     *)
Collect(op) ==
  LET k == BlockKey(op)
      range == [offset |-> op.offset, size |-> op.size]
  IN /\ phase = "collect" /\ Cardinality(DOMAIN blocks \cup {k}) <= MaxBlocks
     /\ IF k \in DOMAIN blocks /\ blocks[k] # range
        THEN phase' = "raised" /\ UNCHANGED blocks
        ELSE /\ blocks' = [j \in DOMAIN blocks \cup {k} |-> IF j = k THEN range ELSE blocks[j]]
             /\ UNCHANGED phase
     /\ UNCHANGED <<todo, counts, mappings, request, runtimeVars>>

BeginVerify ==
  /\ phase = "collect"
  /\ phase' = "verify"
  /\ todo' = DOMAIN blocks
  /\ UNCHANGED <<blocks, counts, mappings, request, runtimeVars>>

(* _resolve_row_sizes: one size given leaves the rest of a token to the    *)
(* other, none given makes them equal; a remainder is left to the caller.  *)
Rows(k, size) ==
  LET perToken == size \div TokenCount(k)
      given(row) == row # NotGiven
  IN CASE size % TokenCount(k) # 0 ->
            [key |-> IF given(request.key) THEN request.key ELSE 1,
             value |-> IF given(request.value) THEN request.value ELSE 1]
       [] size % TokenCount(k) = 0 /\ ~given(request.key) /\ ~given(request.value) ->
            [key |-> perToken \div 2, value |-> perToken \div 2]
       [] OTHER ->
            [key |-> IF given(request.key) THEN request.key ELSE perToken - request.value,
             value |-> IF given(request.value) THEN request.value ELSE perToken - request.key]

(* Equal rows of an odd number of bytes, and rows of no bytes, raise.      *)
RowsRaise(k, size) ==
  \/ /\ size % TokenCount(k) = 0
     /\ request.key = NotGiven /\ request.value = NotGiven
     /\ (size \div TokenCount(k)) % 2 # 0
  \/ Rows(k, size).key <= 0
  \/ Rows(k, size).value <= 0

BlockMapping(k) ==
  [start |-> k.start, end |-> k.end, base |-> blocks[k].offset,
   key |-> Rows(k, blocks[k].size).key, value |-> Rows(k, blocks[k].size).value]

(* Fault: cells are counted from the first token.                          *)
TensorOffsetByToken(k, mapping, x) == x.token * RowSize(mapping, x.kind)

(* Offset of a row in its tensor: cells are counted from the block id.     *)
TensorOffset(k, mapping, x) == (k.block + (x.token - k.start)) * RowSize(mapping, x.kind)

SizeMismatches(k) ==
  LET layoutKey == [layer |-> k.layer, block |-> k.block]
      m == BlockMapping(k)
  IN (IF layoutKey \in DOMAIN LayoutSizes /\ LayoutSizes[layoutKey] # blocks[k].size
      THEN 1 ELSE 0)
     + (IF TotalSize(m) # blocks[k].size THEN 1 ELSE 0)

(* The rows, in staging order, leave no gap and end where the block ends.  *)
CoverageError(k) ==
  LET m == BlockMapping(k)
      contiguous(x) == \/ x.offset = m.base
                       \/ \E y \in Extents(m) : y.offset + y.size = x.offset
  IN ~ /\ \A x \in Extents(m) : contiguous(x)
       /\ End(m) = m.base + blocks[k].size

(* Fault: a row is in bounds when its first byte is.                       *)
OutOfBoundsByStart(k) ==
  LET m == BlockMapping(k)
  IN IF request.bound = NotGiven THEN {}
     ELSE {x \in Extents(m) :
             TensorOffset(k, m, x) > request.bound * RowSize(m, x.kind)}

OutOfBounds(k) ==
  LET m == BlockMapping(k)
  IN IF request.bound = NotGiven THEN {}
     ELSE {x \in Extents(m) :
             TensorOffset(k, m, x) + x.size > request.bound * RowSize(m, x.kind)}

(* The order of sorted(by_key).                                            *)
Before(j, k) ==
  \/ j.layer < k.layer
  \/ j.layer = k.layer /\ j.block < k.block
  \/ j.layer = k.layer /\ j.block = k.block /\ j.start < k.start
  \/ j.layer = k.layer /\ j.block = k.block /\ j.start = k.start /\ j.end <= k.end

VerifyBlock(k) ==
  /\ phase = "verify"
  /\ k \in todo /\ \A j \in todo : Before(k, j)
  /\ todo' = todo \ {k}
  /\ IF TokenCount(k) <= 0
     THEN counts' = Count({"size"}) /\ UNCHANGED <<phase, mappings>>
     ELSE IF RowsRaise(k, blocks[k].size)
     THEN phase' = "raised" /\ UNCHANGED <<counts, mappings>>
     ELSE /\ mappings' = [j \in DOMAIN mappings \cup {k} |->
                            IF j = k THEN BlockMapping(k) ELSE mappings[j]]
          /\ counts' =
               [size      |-> counts.size + SizeMismatches(k),
                coverage  |-> counts.coverage + (IF CoverageError(k) THEN 1 ELSE 0),
                bounds    |-> counts.bounds + Cardinality(OutOfBounds(k)),
                short     |-> counts.short +
                                (IF request.backing /\ blocks[k].offset + blocks[k].size > FileLength
                                 THEN 1 ELSE 0),
                alignment |-> counts.alignment +
                                (IF blocks[k].offset % PlanAlignment # 0 THEN 1 ELSE 0)]
          /\ UNCHANGED phase
  /\ UNCHANGED <<blocks, request, runtimeVars>>

Report ==
  /\ phase = "verify" /\ todo = {}
  /\ phase' = "done"
  /\ UNCHANGED <<blocks, todo, counts, mappings, request, runtimeVars>>

-----------------------------------------------------------------------------
(* The executor of the patch.                                              *)

(* executor_verify_byte_ranges: rows are always taken to be equal.         *)
RuntimeRow(k) ==
  IF blocks[k].size % TokenCount(k) = 0 /\ (blocks[k].size \div TokenCount(k)) % 2 = 0
  THEN (blocks[k].size \div TokenCount(k)) \div 2
  ELSE 0

(* A command of the plan passes the loader, and its read is not short.     *)
CanStage(k) ==
  /\ phase # "collect"
  /\ 0 <= k.block /\ k.block < CacheSize /\ 0 <= k.start /\ k.start < k.end
  /\ blocks[k].size > 0 /\ blocks[k].offset + blocks[k].size <= FileLength

(* A DRAM buffer is assigned, or a VRAM buffer copied or seeded.           *)
Stage(k, vram) ==
  /\ CanStage(k)
  /\ k \in DOMAIN staged => vram /\ ~staged[k].vram
  /\ staged' = [j \in DOMAIN staged \cup {k} |->
                  IF j = k THEN [vram |-> vram, checked |-> FALSE] ELSE staged[j]]
  /\ UNCHANGED <<verifierVars, tensor, cells, trace>>

Status(k) ==
  IF tensor.streams # 1 THEN "unsupported"
  ELSE IF RuntimeRow(k) = 0 THEN "size_mismatch"
  ELSE IF k.block + TokenCount(k) > CacheSize THEN "tensor_bounds_error"
  ELSE IF RuntimeRow(k) # tensor.keyRow THEN "size_mismatch"
  ELSE IF RuntimeRow(k) # tensor.valueRow
       THEN IF tensor.transposed THEN "unsupported" ELSE "size_mismatch"
  ELSE "ok"

(* Place of byte i of a cell's row in its tensor: rows one after another,  *)
(* or, in a transposed V tensor, one column after another.                 *)
Place(kind, cell, i) ==
  IF kind = "v" /\ tensor.transposed
  THEN (cell + (i \div tensor.element) * CacheSize) * tensor.element
       + (i % tensor.element)
  ELSE cell * (IF kind = "k" THEN tensor.keyRow ELSE tensor.valueRow) + i

StagedLayout(k) ==
  [start |-> k.start, end |-> k.end, base |-> blocks[k].offset,
   key |-> RuntimeRow(k), value |-> RuntimeRow(k)]

(* Fault: rows are copied from the token's cell, not the block's first.    *)
CopiesByToken(k) ==
  LET l == StagedLayout(k)
  IN {[to |-> <<k.layer, x.kind, Place(x.kind, x.token, i)>>, byte |-> x.offset + i] :
        x \in Extents(l), i \in 0 .. RuntimeRow(k) - 1}

(* The bytes one mutation copies, and where to.                            *)
Copies(k) ==
  LET l == StagedLayout(k)
  IN {[to |-> <<k.layer, x.kind, Place(x.kind, k.block + (x.token - k.start), i)>>,
       byte |-> x.offset + i] :
        x \in Extents(l), i \in 0 .. RuntimeRow(k) - 1}

MutationGate(k) ==
  /\ k \in DOMAIN staged /\ staged[k].vram /\ ~staged[k].checked
  /\ staged' = [staged EXCEPT ![k].checked = TRUE]
  /\ trace' = Append(trace, [key |-> k, status |-> Status(k)])
  /\ cells' =
       IF Status(k) # "ok" THEN cells
       ELSE [place \in DOMAIN cells \cup {c.to : c \in Copies(k)} |->
               IF \E c \in Copies(k) : c.to = place
               THEN (CHOOSE c \in Copies(k) : c.to = place).byte
               ELSE cells[place]]
  /\ UNCHANGED <<verifierVars, tensor>>

-----------------------------------------------------------------------------
Init ==
  /\ phase = "collect" /\ blocks = [k \in {} |-> 0] /\ todo = {} /\ mappings = blocks
  /\ counts = [size |-> 0, coverage |-> 0, bounds |-> 0, short |-> 0, alignment |-> 0]
  /\ request \in Requests
  /\ staged = [k \in {} |-> 0]
  /\ tensor \in Tensors /\ cells = [p \in {} |-> 0] /\ trace = <<>>

Next ==
  \/ \E op \in PlanOps : Collect(op)
  \/ BeginVerify
  \/ \E k \in todo : VerifyBlock(k)
  \/ Report
  \/ \E k \in DOMAIN blocks, vram \in BOOLEAN : Stage(k, vram)
  \/ \E k \in DOMAIN staged : MutationGate(k)

Spec == Init /\ [][Next]_vars

-----------------------------------------------------------------------------
(* Properties.                                                             *)

(* A verification that reports no error has mapped every block: each byte  *)
(* of the block lies in exactly one row, no row reaches outside the block, *)
(* and, when a cache size was given, none lies beyond the last cell -      *)
(* whatever sizes were given or inferred (kv_byte_ranges.py).              *)
CleanMappingCovers ==
  phase = "done" /\ NoErrors =>
    \A k \in DOMAIN blocks :
      /\ k \in DOMAIN mappings
      /\ LET rows == Extents(mappings[k])
             bytes == blocks[k].offset .. blocks[k].offset + blocks[k].size - 1
         IN /\ \A b \in bytes : \E x \in rows : {y \in rows : Covers(y, b)} = {x}
            /\ \A x \in rows : x.offset \in bytes /\ x.offset + x.size - 1 \in bytes
      /\ request.bound # NotGiven => k.block + TokenCount(k) <= request.bound

CellsOf(k) == k.block .. k.block + TokenCount(k) - 1

(* Attempts whose rows no later attempt of the layer wrote over.           *)
Standing ==
  {i \in DOMAIN trace :
     /\ trace[i].status = "ok"
     /\ \A j \in i + 1 .. Len(trace) :
          trace[j].status = "ok" /\ trace[j].key.layer = trace[i].key.layer =>
            CellsOf(trace[j].key) \cap CellsOf(trace[i].key) = {}}

(* A cell's row, read the way the tensor is laid out, is the row of the    *)
(* staged block's token, and no mutation wrote outside the tensors, for    *)
(* plain and transposed V tensors and however blocks' cells overlap.       *)
TensorHoldsStagedRows ==
  /\ \A place \in DOMAIN cells :
       0 <= place[3]
       /\ place[3] < CacheSize * (IF place[2] = "k" THEN tensor.keyRow ELSE tensor.valueRow)
  /\ \A i \in Standing :
       LET k == trace[i].key
       IN \A x \in Extents(StagedLayout(k)), b \in 0 .. RuntimeRow(k) - 1 :
            LET place == <<k.layer, x.kind, Place(x.kind, k.block + (x.token - k.start), b)>>
            IN place \in DOMAIN cells /\ cells[place] = x.offset + b

(* Where the verifier worked with the tensor's own row sizes, the gate has *)
(* put every byte at the tensor offset the verifier maps it to, and never  *)
(* copied a block the verifier counts out of bounds.                       *)
GateCopiesAsMapped ==
  \A i \in Standing :
    LET k == trace[i].key
    IN k \in DOMAIN mappings /\ ~tensor.transposed
         /\ mappings[k].key = tensor.keyRow /\ mappings[k].value = tensor.valueRow =>
       /\ request.bound = CacheSize => OutOfBounds(k) = {}
       /\ \A x \in Extents(mappings[k]) : \A b \in 0 .. x.size - 1 :
            LET place == <<k.layer, x.kind, TensorOffset(k, mappings[k], x) + b>>
            IN place \in DOMAIN cells /\ cells[place] = x.offset + b
=============================================================================
