----------------------------- MODULE LiveBridge -----------------------------
(***************************************************************************)
(* The command bridge, staging executor, tensor-mutation gate and          *)
(* attention-residency gate that the llama.cpp patch adds to the KV cache. *)
(* apply_ubatch loads the command file once, then for every layer replays  *)
(* the commands that match the batch; get_k/get_v consult the gate.        *)
(* Counters are abstracted to the set of those that are not zero, except   *)
(* the mutation attempts, which a property relates to the records.         *)
(***************************************************************************)
EXTENDS KVCommand, FiniteSetsExt

CONSTANTS
  Lines,         \* lines a command file may hold
  MaxLines,      \* bound on the length of the command file
  LayerOrder,    \* the cache's layers, in the order apply_ubatch visits them
  CacheSize,     \* cells of the KV cache
  Ubatches,      \* batches: first cell and position range
  Views,         \* n_kv values get_k/get_v are called with
  MaxCommands, MaxShadow, MaxStaging,   \* the patch's three table sizes
  Buffers,       \* heap blocks malloc may return
  NoBuffer,      \* the null pointer
  NoEvent,       \* no apply_ubatch under way
  NoGate,        \* no view was built since the last apply_ubatch
  Environments,  \* switches read with getenv
  Tensor         \* geometry of the K and V tensors

ASSUME BridgeAssumption ==
  /\ NoBuffer \notin Buffers
  /\ NoEvent \notin [ubatch : Ubatches, layer : DOMAIN LayerOrder, cursor : Nat]
  /\ Lines \subseteq CommandLine
  /\ MaxLines \in Nat /\ MaxCommands \in Nat /\ MaxShadow \in Nat /\ MaxStaging \in Nat
  /\ LayerOrder \in Seq(Int) /\ LayerOrder # <<>>
  /\ CacheSize \in Nat \ {0}

VARIABLES
  loader,        \* progress of kv_command_dry_run_once
  lineCount,     \* lines read
  invalidSeen,   \* summary.invalid_command_count # 0
  commands,      \* kv_command_records
  shadow,        \* kv_shadow_records: runtime event key -> location
  staging,       \* kv_staging_records: command key -> record
  heap,          \* allocated buffer -> file offset its bytes were read from
  event,         \* the apply_ubatch under way: batch, layer, next command
  raised,        \* bridge-summary error counters that are not zero
  attempts,      \* executor_tensor_mutation_attempt_count
  gate,          \* result of the last attention residency gate
  env            \* the process environment

fileVars == <<loader, lineCount, invalidSeen, commands>>
blockVars == <<shadow, staging, heap, raised, attempts>>
vars == <<fileVars, blockVars, event, gate, env>>

Slots == {"dram", "vram"}

Layers == {LayerOrder[i] : i \in DOMAIN LayerOrder}

Ready == loader = "ready" /\ ~invalidSeen

(***************************************************************************)
(* The runtime event of the layer being replayed.                          *)
(***************************************************************************)
RuntimeKey(u, i) ==
  [layer |-> LayerOrder[i], block |-> u.block, start |-> u.start, end |-> u.end]

CurrentKey == RuntimeKey(event.ubatch, event.layer)

(* Fault: the scan resumes one command too late.                           *)
NextMatchingSkipsOne(i) ==
  Min({j \in i + 1 .. Len(commands) : MatchesRuntime(commands[j], CurrentKey)}
        \cup {Len(commands) + 1})

NextMatching(i) ==
  Min({j \in i .. Len(commands) : MatchesRuntime(commands[j], CurrentKey)}
        \cup {Len(commands) + 1})

Start(u) == [ubatch |-> u, layer |-> 1, cursor |-> 0]

(***************************************************************************)
(* Shadow table: a full table yields no record.                            *)
(***************************************************************************)
ShadowRoom(k) == k \in DOMAIN shadow \/ Cardinality(DOMAIN shadow) < MaxShadow

ShadowLocation(k, source) == IF k \in DOMAIN shadow THEN shadow[k] ELSE source

SetShadow(k, location) ==
  IF ShadowRoom(k)
  THEN [j \in DOMAIN shadow \cup {k} |-> IF j = k THEN location ELSE shadow[j]]
  ELSE shadow

(***************************************************************************)
(* Staging table and executor.  Each routine is the set of its outcomes:   *)
(* the staging table and heap it may leave, and the counters it raises.    *)
(***************************************************************************)
EmptyRecord(size) ==
  [size |-> size, buf |-> [s \in Slots |-> NoBuffer],
   checked |-> FALSE, mutated |-> FALSE]

Staged(table, k, slot) == k \in DOMAIN table /\ table[k].buf[slot] # NoBuffer

Outcome(table, h, counters) == [staging |-> table, heap |-> h, raised |-> counters]

Keep(counters) == Outcome(staging, heap, counters)

Raise(o, counters) == Outcome(o.staging, o.heap, counters)

StagingError(k, size) ==
  IF k \in DOMAIN staging
  THEN IF staging[k].size = size THEN {} ELSE {"size_mismatch"}
  ELSE IF Cardinality(DOMAIN staging) < MaxStaging THEN {} ELSE {"staging_overflow"}

(* Fault: assigning a buffer does not free the one it replaces.            *)
InstallWithoutFree(o, k, size, slot, b, bytes) ==
  LET r == IF k \in DOMAIN o.staging THEN o.staging[k] ELSE EmptyRecord(size)
  IN Outcome(
       [j \in DOMAIN o.staging \cup {k} |->
          IF j = k THEN [r EXCEPT !.buf = [r.buf EXCEPT ![slot] = b]] ELSE o.staging[j]],
       [x \in DOMAIN o.heap \cup {b} |-> IF x = b THEN bytes ELSE o.heap[x]],
       o.raised)

(* Point a slot of k's record at buffer b and free what it held before.    *)
Install(o, k, size, slot, b, bytes) ==
  LET r == IF k \in DOMAIN o.staging THEN o.staging[k] ELSE EmptyRecord(size)
      live == (DOMAIN o.heap \ {r.buf[slot]}) \cup {b}
  IN Outcome(
       [j \in DOMAIN o.staging \cup {k} |->
          IF j = k THEN [r EXCEPT !.buf = [r.buf EXCEPT ![slot] = b]] ELSE o.staging[j]],
       [x \in live |-> IF x = b THEN bytes ELSE o.heap[x]],
       o.raised)

(* Fault: the read forgets to seek to the command's offset.                *)
ReadIntoWithoutSeek(c, slot) ==
  {Keep({"io_error"})} \cup
  IF StagingError(Key(c), c.size) # {}
  THEN {Keep(StagingError(Key(c), c.size))}
  ELSE {Install(Keep({}), Key(c), c.size, slot, b, 0) : b \in Buffers \ DOMAIN heap}

(* Read the command's range of the backing file into a fresh buffer of the *)
(* slot; open, seek, allocation or a short read may fail.                  *)
ReadInto(c, slot) ==
  {Keep({"io_error"})} \cup
  IF StagingError(Key(c), c.size) # {}
  THEN {Keep(StagingError(Key(c), c.size))}
  ELSE {Install(Keep({}), Key(c), c.size, slot, b, c.offset) :
          b \in Buffers \ DOMAIN heap}

(* Fault: the early return for a source already staged is dropped.         *)
EnsureSourceAlwaysReads(c, slot) ==
  IF ~env.seed THEN {Keep({"missing_source"})}
  ELSE {Raise(o, IF o.raised = {} THEN {"lazy_seed"} ELSE o.raised \cup {"missing_source"}) :
          o \in ReadInto(c, slot)}

(* A source that is not staged is read lazily when seeding is on.          *)
EnsureSource(c, slot) ==
  IF Staged(staging, Key(c), slot) THEN {Keep({})}
  ELSE IF ~env.seed THEN {Keep({"missing_source"})}
  ELSE {Raise(o, IF o.raised = {} THEN {"lazy_seed"} ELSE o.raised \cup {"missing_source"}) :
          o \in ReadInto(c, slot)}

CopyToVram(c, o) ==
  IF ~Staged(o.staging, Key(c), "dram") THEN {o}
  ELSE IF o.staging[Key(c)].size # c.size
  THEN {Raise(o, o.raised \cup {"size_mismatch"})}
  ELSE {Raise(o, o.raised \cup {"io_error"})} \cup
       {Install(o, Key(c), c.size, "vram", b, o.heap[o.staging[Key(c)].buf["dram"]]) :
          b \in Buffers \ DOMAIN o.heap}

CheckComputed(c, o) ==
  IF Staged(o.staging, Key(c), "vram") /\ o.staging[Key(c)].size # c.size
  THEN Raise(o, o.raised \cup {"size_mismatch"})
  ELSE o

(* Eviction frees the VRAM copy if there is one, otherwise the DRAM copy.  *)
EvictSlot(k) == IF Staged(staging, k, "vram") THEN "vram" ELSE "dram"

EvictOutcome(k) ==
  IF ~\E s \in Slots : Staged(staging, k, s) THEN Keep({"missing_source"})
  ELSE LET r == staging[k]
           live == DOMAIN heap \ {r.buf[EvictSlot(k)]}
       IN Outcome(
            [staging EXCEPT ![k] =
               [r EXCEPT !.buf = [r.buf EXCEPT ![EvictSlot(k)] = NoBuffer]]],
            [x \in live |-> heap[x]],
            {})

Execute(c) ==
  IF ~env.executor THEN {Keep({})}
  ELSE CASE Intent(c) = "ssd_read"     -> ReadInto(c, "dram")
         [] Intent(c) = "dram_to_vram" -> UNION {CopyToVram(c, o) : o \in EnsureSource(c, "dram")}
         [] Intent(c) = "compute"      -> {CheckComputed(c, o) : o \in EnsureSource(c, "vram")}
         [] Intent(c) = "ssd_write"    -> {EvictOutcome(Key(c))}
         [] OTHER                      -> {Keep({})}

(***************************************************************************)
(* Tensor mutation gate.                                                   *)
(***************************************************************************)

(* Bytes of one K (or V) row, inferred from the command's size; 0 when the *)
(* size is no even number of bytes per token.                              *)
RowSize(k, size) ==
  IF size % KeyTokens(k) = 0 /\ (size \div KeyTokens(k)) % 2 = 0
  THEN (size \div KeyTokens(k)) \div 2
  ELSE 0

CanMutate(k, size) ==
  /\ Tensor.streams = 1
  /\ RowSize(k, size) > 0
  /\ k.block + KeyTokens(k) <= CacheSize
  /\ RowSize(k, size) = Tensor.keyRow
  /\ RowSize(k, size) = Tensor.valueRow

(* Fault: the checked flag is not consulted.                               *)
MutationDueAgain(table, k) == env.mutation /\ Staged(table, k, "vram")

MutationDue(table, k) ==
  env.mutation /\ Staged(table, k, "vram") /\ ~table[k].checked

(* The record is marked checked before the copy can still be refused.      *)
AfterMutationGate(table, k) ==
  IF MutationDue(table, k)
  THEN [table EXCEPT ![k] = [table[k] EXCEPT !.checked = TRUE,
                                             !.mutated = CanMutate(k, table[k].size)]]
  ELSE table

(***************************************************************************)
(* Actions.                                                                *)
(***************************************************************************)
Empty == [x \in {} |-> 0]

Init ==
  /\ loader = "unloaded" /\ lineCount = 0 /\ invalidSeen = FALSE
  /\ commands = <<>>
  /\ shadow = Empty /\ staging = Empty /\ heap = Empty
  /\ event = NoEvent /\ raised = {} /\ attempts = 0 /\ gate = NoGate
  /\ env \in Environments

(* apply_ubatch: the first call opens the command file; later calls start  *)
(* the per-layer replay, unless the file was missing or had a bad line.    *)
ApplyUbatch(u) ==
  /\ event = NoEvent
  /\ \/ loader = "unloaded" /\ loader' = "reading" /\ event' = Start(u)
     \/ loader = "unloaded" /\ loader' = "missing_file" /\ UNCHANGED event
     \/ Ready /\ event' = Start(u) /\ UNCHANGED loader
     \/ loader \in {"ready", "missing_file"} /\ ~Ready /\ UNCHANGED <<loader, event>>
  /\ gate' = NoGate
  /\ UNCHANGED <<lineCount, invalidSeen, commands, blockVars, env>>

(* One iteration of the loading loop; a valid command beyond the table's   *)
(* size is dropped without a trace.                                        *)
ReadLine(c) ==
  /\ loader = "reading" /\ lineCount < MaxLines
  /\ lineCount' = lineCount + 1
  /\ IF ValidCommand(c, Layers, CacheSize)
     THEN /\ commands' = IF Len(commands) < MaxCommands THEN Append(commands, c)
                         ELSE commands
          /\ UNCHANGED invalidSeen
     ELSE invalidSeen' = TRUE /\ UNCHANGED commands
  /\ UNCHANGED <<loader, blockVars, event, gate, env>>

EndOfFile ==
  /\ loader = "reading"
  /\ loader' = "ready"
  /\ event' = IF invalidSeen THEN NoEvent ELSE event
  /\ UNCHANGED <<lineCount, invalidSeen, commands, blockVars, gate, env>>

(* Fault: the shadow record keeps what an earlier event left in it.        *)
BeginLayerWithoutReset ==
  /\ event # NoEvent /\ Ready /\ event.cursor = 0
  /\ event' = [event EXCEPT !.cursor = NextMatching(1)]
  /\ UNCHANGED <<fileVars, blockVars, gate, env>>

(* Start of kv_command_bridge_apply for one layer: the shadow record goes  *)
(* back to where the first matching command expects the block.             *)
BeginLayer ==
  /\ event # NoEvent /\ Ready /\ event.cursor = 0
  /\ event' = [event EXCEPT !.cursor = NextMatching(1)]
  /\ shadow' = IF NextMatching(1) <= Len(commands)
               THEN SetShadow(CurrentKey, commands[NextMatching(1)].source)
               ELSE shadow
  /\ UNCHANGED <<fileVars, staging, heap, raised, attempts, gate, env>>

(* Fault: the mutation gate runs before the executor.                      *)
ApplyCommandGateFirst ==
  /\ event # NoEvent /\ Ready /\ event.cursor \in 1 .. Len(commands)
  /\ LET c == commands[event.cursor]
         gated == AfterMutationGate(staging, Key(c))
     IN /\ shadow' = SetShadow(CurrentKey, c.target)
        /\ \E o \in Execute(c) :
             /\ staging' = [k \in DOMAIN o.staging |->
                             IF k \in DOMAIN gated
                             THEN [o.staging[k] EXCEPT !.checked = gated[k].checked,
                                                       !.mutated = gated[k].mutated]
                             ELSE o.staging[k]]
             /\ heap' = o.heap
             /\ raised' = raised \cup o.raised
             /\ attempts' = IF MutationDue(staging, Key(c)) THEN attempts + 1 ELSE attempts
  /\ event' = [event EXCEPT !.cursor = NextMatching(event.cursor + 1)]
  /\ UNCHANGED <<fileVars, gate, env>>

ApplyCommand ==
  /\ event # NoEvent /\ Ready /\ event.cursor \in 1 .. Len(commands)
  /\ LET c == commands[event.cursor]
         mismatch == IF ShadowRoom(CurrentKey)
                        /\ ShadowLocation(CurrentKey, c.source) # c.source
                     THEN {"shadow_mismatch"} ELSE {}
     IN /\ shadow' = SetShadow(CurrentKey, c.target)
        /\ \E o \in Execute(c) :
             /\ staging' = AfterMutationGate(o.staging, Key(c))
             /\ heap' = o.heap
             /\ raised' = raised \cup o.raised \cup mismatch
             /\ attempts' = IF MutationDue(o.staging, Key(c)) THEN attempts + 1
                            ELSE attempts
  /\ event' = [event EXCEPT !.cursor = NextMatching(event.cursor + 1)]
  /\ UNCHANGED <<fileVars, gate, env>>

EndLayer ==
  /\ event # NoEvent /\ Ready /\ event.cursor > Len(commands)
  /\ event' = IF event.layer < Len(LayerOrder)
              THEN [event EXCEPT !.layer = event.layer + 1, !.cursor = 0]
              ELSE NoEvent
  /\ UNCHANGED <<fileVars, blockVars, gate, env>>

(* Blocks whose residency the gate counts for a view, each once.           *)
Required(layer, nKV) ==
  {Key(commands[i]) : i \in {j \in DOMAIN commands : OverlapsView(commands[j], layer, nKV)}}

Missing(k) == ~Staged(staging, k, "vram")

GateStatus(required) ==
  CASE required = {}                            -> "no_required_blocks"
    [] \E k \in required : Missing(k)           -> "missing_staging"
    [] /\ ~\E k \in required : Missing(k)
       /\ \E k \in required : ~staging[k].checked -> "pending_mutation"
    [] OTHER                                    -> "ok"

AttentionGate(layer, nKV) ==
  /\ event = NoEvent
  /\ gate' = [layer |-> layer, view |-> nKV, status |-> GateStatus(Required(layer, nKV))]
  /\ UNCHANGED <<fileVars, blockVars, event, env>>

Next ==
  \/ \E u \in Ubatches : ApplyUbatch(u)
  \/ \E c \in Lines : ReadLine(c)
  \/ EndOfFile
  \/ BeginLayer
  \/ ApplyCommand
  \/ EndLayer
  \/ \E layer \in Layers, nKV \in Views : AttentionGate(layer, nKV)

Spec == Init /\ [][Next]_vars

(***************************************************************************)
(* Properties.                                                             *)
(***************************************************************************)
Keys == {Key(c) : c \in Lines}

RuntimeKeys == {RuntimeKey(u, i) : u \in Ubatches, i \in DOMAIN LayerOrder}

Counters ==
  {"io_error", "size_mismatch", "staging_overflow", "missing_source", "lazy_seed",
   "shadow_mismatch"}

StagingRecord ==
  [size : Nat, buf : [Slots -> Buffers \cup {NoBuffer}],
   checked : BOOLEAN, mutated : BOOLEAN]

(* The three tables stay within their fixed sizes, every record has a key  *)
(* some command or batch gave it, and the cursor stays on the command      *)
(* table (the arrays of the patch are indexed without bounds checks).      *)
TypeOK ==
  /\ loader \in {"unloaded", "reading", "ready", "missing_file"}
  /\ lineCount \in 0 .. MaxLines /\ invalidSeen \in BOOLEAN
  /\ commands \in Seq(Lines) /\ Len(commands) <= MaxCommands
  /\ DOMAIN shadow \subseteq RuntimeKeys /\ Cardinality(DOMAIN shadow) <= MaxShadow
  /\ \A k \in DOMAIN shadow : shadow[k] \in Locations
  /\ DOMAIN staging \subseteq Keys /\ Cardinality(DOMAIN staging) <= MaxStaging
  /\ \A k \in DOMAIN staging : staging[k] \in StagingRecord
  /\ DOMAIN heap \subseteq Buffers
  /\ event \in {NoEvent} \cup
       [ubatch : Ubatches, layer : DOMAIN LayerOrder, cursor : 0 .. Len(commands) + 1]
  /\ raised \subseteq Counters
  /\ attempts \in Nat
  /\ env \in Environments

(* Staging memory is owned exactly once: no record points at freed memory, *)
(* no buffer is reachable from two places, and none is lost (free and      *)
(* malloc in assign_dram/vram_buffer, ensure_*_source and evict).          *)
Owned(table, h) ==
  /\ \A k \in DOMAIN table, s \in Slots : table[k].buf[s] \in DOMAIN h \cup {NoBuffer}
  /\ \A j, k \in DOMAIN table, s, t \in Slots :
       table[j].buf[s] = table[k].buf[t] =>
         table[j].buf[s] = NoBuffer \/ (j = k /\ s = t)
  /\ \A b \in DOMAIN h :
       \E k \in DOMAIN table, s \in Slots : table[k].buf[s] = b

BuffersOwned == Owned(staging, heap)

(* A staged buffer holds the bytes of a file range that some command for   *)
(* that very block names, through every reload, copy and lazy seed.        *)
StagedBytesBelongToBlock ==
  \A k \in DOMAIN staging, s \in Slots :
    Staged(staging, k, s) =>
      \E i \in DOMAIN commands :
        /\ Key(commands[i]) = k
        /\ commands[i].offset = heap[staging[k].buf[s]]
        /\ commands[i].size = staging[k].size

(***************************************************************************)
(* A block's plan is the commands with its key, in file order.  It is a    *)
(* journey when it starts on the SSD, every command leaves from where the  *)
(* previous one arrived, and the executor has a routine for each of them:  *)
(* what commands_from_movement_plan exports for blocks that start on SSD.  *)
(* Plans are sets of positions in the command table.                       *)
(***************************************************************************)
PlanOf(k) == {i \in DOMAIN commands : Key(commands[i]) = k}

Before(plan, i) == {j \in plan : j < i}

Arrival(plan) == commands[Max(plan)].target

Chained(plan) ==
  \A i \in plan : Before(plan, i) # {} => commands[i].source = Arrival(Before(plan, i))

Journey(plan) ==
  /\ plan # {} /\ Chained(plan)
  /\ \A i \in plan :
       /\ Before(plan, i) = {} => commands[i].source = "ssd"
       /\ Intent(commands[i]) # "metadata"
       /\ Intent(commands[i]) = "ssd_write" => commands[i].source # "ssd"

Failures == {"io_error", "size_mismatch", "staging_overflow"}

(* Where block k's plan has taken it, part-way through an event or after.  *)
Passed(k) ==
  IF event # NoEvent /\ Ready /\ event.layer \in DOMAIN LayerOrder
     /\ k.layer = LayerOrder[event.layer]
     /\ event.cursor > 0
  THEN {i \in 1 .. event.cursor - 1 :
          Key(commands[i]) = k /\ MatchesRuntime(commands[i], CurrentKey)}
  ELSE {}

PlanLocation(k) == Arrival(IF Passed(k) = {} THEN PlanOf(k) ELSE Passed(k))

(* While no read, allocation or table limit failed, a staged block whose   *)
(* plan is a journey has a buffer in the memory its plan has brought it to *)
(* after every command, for every way batches revisit it: eviction, which  *)
(* frees one copy and keeps the other, never takes the one needed next.    *)
StagingFollowsPlan ==
  raised \cap Failures = {} =>
    \A k \in DOMAIN staging :
      Journey(PlanOf(k)) /\ PlanLocation(k) # "ssd" => Staged(staging, k, PlanLocation(k))

(* Plans that are journeys never make the executor fall back on seeding,   *)
(* nor meet a missing source, whatever the seeding switch says.            *)
JourneysNeedNoSeeding ==
  raised \cap Failures = {} /\ (\A i \in DOMAIN commands : Journey(PlanOf(Key(commands[i]))))
    => raised \cap {"missing_source", "lazy_seed"} = {}

(* If the commands that match each runtime event chain from location to    *)
(* location, the shadow table never disagrees with a command's source,     *)
(* also when an event is replayed or a partly overlapping one follows.     *)
MatchedCommands(k) == {i \in DOMAIN commands : MatchesRuntime(commands[i], k)}

ShadowFollowsPlan ==
  (\A k \in RuntimeKeys : Chained(MatchedCommands(k))) => "shadow_mismatch" \notin raised

(* Each staged block is offered to the K/V tensors at most once, however   *)
(* many events reload or evict it: one attempt per checked record.         *)
MutatedAtMostOnce ==
  attempts = Cardinality({k \in DOMAIN staging : staging[k].checked})

(* With staging and mutation on and no failure, the gate holds back a view *)
(* only for a block that no batch reached yet or whose plan is no journey  *)
(* ending in VRAM.                                                         *)
GateBlocksForCause ==
  gate # NoGate /\ env.executor /\ env.mutation /\ raised \cap Failures = {}
    /\ gate.status \in {"missing_staging", "pending_mutation"} =>
    \E k \in Required(gate.layer, gate.view) :
      \/ k \notin DOMAIN staging
      \/ ~Journey(PlanOf(k))
      \/ Arrival(PlanOf(k)) # "vram"

(* What docs/PHASE4_RUNTIME_INTEGRATION_MAP.md says of the gate: a view it *)
(* passes depends only on blocks whose tensor mutation completed.          *)
ReadyMeansMutated ==
  gate # NoGate /\ gate.status = "ok" =>
    \A k \in Required(gate.layer, gate.view) : staging[k].mutated
=============================================================================
