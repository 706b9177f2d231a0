----------------------------- MODULE DecodeStep -----------------------------
(***************************************************************************)
(* One store shared by the selector, the speculative prefetcher and the    *)
(* SSD-aware scheduler (core/).  Callers may select, plan, execute,        *)
(* evaluate and schedule layer by layer in any order that has its inputs:  *)
(* the smoke harness prefetches every layer before it schedules any, the   *)
(* ablation finishes a layer at a time, and a plan may never be executed.  *)
(* A schedule is a call too: until it has returned or raised, only its     *)
(* turns happen.                                                           *)
(***************************************************************************)
EXTENDS BlockSelector, Scheduler

CONSTANTS
  Blocks,           \* the blocks of the store
  Placements,       \* initial locations the harnesses give them
  Tokens,           \* decode positions, visited in increasing order
  PrefetchLimits,   \* max_prefetch_blocks values; NoLimit for None
  NoLimit,
  Configs,          \* SelectionConfig, and prefetch and compute locations
  None              \* no result yet

(* A store has one block of a layer and id.                                *)
ASSUME BlockAssumption ==
  /\ IsFiniteSet(Blocks)
  /\ \A b \in Blocks : {b.id, b.start, b.end, b.score} \subseteq Int
  /\ \A a, b \in Blocks : a.layer = b.layer /\ a.id = b.id => a = b

ASSUME PlacementAssumption == Placements \subseteq [Blocks -> {"ssd", "dram", "vram"}]

ASSUME DecodeAssumption ==
  /\ PrefetchLimits \subseteq Nat \cup {NoLimit}
  /\ \A c \in Configs : /\ {c.init, c.local, c.selected} \subseteq Nat
                        /\ c.target \in {"dram", "vram"}
                        /\ c.compute \in {"ssd", "dram", "vram"}

VARIABLES
  config,           \* chosen once
  location, role,   \* of every block
  token,            \* current_token
  selection,        \* per layer, the last SelectionResult
  plan,             \* per layer, the last PrefetchPlan
  evaluation,       \* per layer, the PrefetchEvaluation of that plan
  timeline,         \* what the last schedule call returned or raised, or has
                    \* done so far, and the blocks it has still to look at
  ioOpCount         \* metrics.io_op_count

vars == <<config, location, role, token, selection, plan, evaluation, timeline, ioOpCount>>

Layers == {b.layer : b \in Blocks}

Mark(r, newRole, marked) == [b \in Blocks |-> IF b \in marked THEN newRole ELSE r[b]]

Init ==
  /\ config \in Configs
  /\ location \in Placements
  /\ role = [b \in Blocks |-> "current"]
  /\ token \in Tokens
  /\ selection = [l \in Layers |-> None]
  /\ plan = [l \in Layers |-> None]
  /\ evaluation = [l \in Layers |-> None]
  /\ timeline = None
  /\ ioOpCount = 0

NextToken ==
  /\ \E t \in Tokens : t > token /\ token' = t
  /\ UNCHANGED <<config, location, role, selection, plan, evaluation, timeline, ioOpCount>>

(* BlockSelector.select for one layer.                                     *)
SelectLayer(l) ==
  LET result == Select(config, Blocks, l, token)
  IN /\ selection' = [selection EXCEPT ![l] = [result |-> result, token |-> token]]
     /\ role' = Mark(Mark(Mark(role, "init", ToSet(result.init)),
                          "local", ToSet(result.local)),
                     "selected", ToSet(result.selected))
     /\ UNCHANGED <<config, location, token, plan, evaluation, timeline, ioOpCount>>

(* SpeculativePrefetcher.plan of the selected blocks only, or of all.      *)
PlanPrefetch(l, predicted, limit) ==
  LET blocks == IF limit = NoLimit THEN predicted ELSE FirstN(predicted, limit)
  IN /\ plan' = [plan EXCEPT ![l] = blocks]
     /\ evaluation' = [evaluation EXCEPT ![l] = None]
     /\ role' = Mark(role, "prefetch", ToSet(blocks))
     /\ UNCHANGED <<config, location, token, selection, timeline, ioOpCount>>

PlannedReads(blocks) == {b \in ToSet(blocks) : location[b] = "ssd"}

(* SpeculativePrefetcher.execute moves every planned block to the target,  *)
(* also one that is already closer to the GPU, and counts the SSD reads.   *)
ExecutePrefetch(l) ==
  /\ plan[l] # None
  /\ location' = [b \in Blocks |-> IF b \in ToSet(plan[l]) THEN config.target
                                   ELSE location[b]]
  /\ ioOpCount' = ioOpCount + Cardinality(PlannedReads(plan[l]))
  /\ UNCHANGED <<config, role, token, selection, plan, evaluation, timeline>>

(* Fault: a planned block counts as a hit wherever it is.                  *)
HitsByPlan(planned, required) == planned \cap required

Hits(planned, required) ==
  {b \in planned \cap required : location[b] = config.target}

(* SpeculativePrefetcher.evaluate against all blocks of the selection.     *)
EvaluatePrefetch(l) ==
  /\ plan[l] # None /\ selection[l] # None
  /\ LET planned == ToSet(plan[l])
         required == ToSet(AllBlocks(selection[l].result))
     IN evaluation' = [evaluation EXCEPT ![l] =
          [hits |-> Hits(planned, required),
           misses |-> required \ Hits(planned, required),
           wrong |-> planned \ required]]
  /\ UNCHANGED <<config, location, role, token, selection, plan, timeline, ioOpCount>>

(* SSDAwareScheduler.schedule of a selection, on the shared store: the     *)
(* call, and a turn for every block in order.                              *)
Scheduling == timeline # None /\ timeline.todo # <<>>

BeginSchedule(l) ==
  /\ selection[l] # None
  /\ timeline' = [layer |-> l, todo |-> AllBlocks(selection[l].result),
                  ops |-> <<>>, raised |-> FALSE]
  /\ UNCHANGED <<config, location, role, token, selection, plan, evaluation, ioOpCount>>

ScheduleNext ==
  /\ Scheduling
  /\ LET done == Turn(location, timeline.ops, Head(timeline.todo), config.compute)
     IN /\ location' = done.location
        /\ ioOpCount' = ioOpCount + done.io
        /\ timeline' = [timeline EXCEPT
             !.ops = done.ops, !.raised = done.raised,
             !.todo = IF done.raised THEN <<>> ELSE Tail(timeline.todo)]
  /\ UNCHANGED <<config, role, token, selection, plan, evaluation>>

Call ==
  \/ NextToken
  \/ \E l \in Layers :
       \/ SelectLayer(l)
       \/ /\ selection[l] # None
          /\ \E limit \in PrefetchLimits :
               \/ PlanPrefetch(l, selection[l].result.selected, limit)
               \/ PlanPrefetch(l, AllBlocks(selection[l].result), limit)
       \/ ExecutePrefetch(l)
       \/ EvaluatePrefetch(l)
       \/ BeginSchedule(l)

Next == (~Scheduling /\ Call) \/ ScheduleNext

Spec == Init /\ [][Next]_vars

(***************************************************************************)
(* Properties.                                                             *)
(***************************************************************************)
(* select returns three disjoint groups that match their definition by     *)
(* rank, for every decode position and every count, zero included.         *)
SelectionCorrect ==
  \A l \in Layers : selection[l] # None =>
    SelectionMeetsReference(selection[l].result, config, Blocks, l, selection[l].token)

(* No block is read from SSD twice, whatever mixture of prefetches and     *)
(* schedules touches it: reads done plus blocks still on SSD is constant.  *)
OnSsd == {b \in Blocks : location[b] = "ssd"}

ReadOnce ==
  [][ioOpCount' + Cardinality(OnSsd') = ioOpCount + Cardinality(OnSsd)]_vars

(* A schedule never raises while it computes in VRAM: each block is        *)
(* brought there from anywhere the prefetcher may have left it.            *)
ScheduleNeverRaises == timeline # None /\ config.compute = "vram" => ~timeline.raised

(* A block the evaluation called a hit never makes a later schedule of its *)
(* layer wait for the SSD.                                                 *)
HitsDoNotStall ==
  [][timeline' # timeline =>
       \A i \in DOMAIN timeline'.ops, l \in Layers :
         timeline'.ops[i].op = "schedule_ssd_read" /\ evaluation[l] # None =>
           timeline'.ops[i].block \notin evaluation[l].hits]_vars
=============================================================================
