--------------------------- MODULE ReplayPipeline ---------------------------
(***************************************************************************)
(* From a llama.cpp trace to bytes: runtime_replay makes a movement plan,  *)
(* runtime_commands exports it, and both the C command consumer and the    *)
(* Python residency executor run it.  The two runs are independent; here   *)
(* the executor takes an op when the exporter does.  The movement executor *)
(* only reads what the plan loads from SSD.                                *)
(***************************************************************************)
EXTENDS RuntimeReplay

CONSTANTS NoSource, NoFile

VARIABLES
  origin, exported, pc, next, file, slots, stats, rc, ioFailed,   \* the consumer
  fileLength, dram, vram, count                                   \* the executor

consumerVars == <<origin, exported, pc, next, file, slots, stats, rc, ioFailed>>

executorVars == <<fileLength, dram, vram, count>>

vars == <<replayVars, consumerVars, executorVars>>

Consumer == INSTANCE CommandConsumer WITH
  Layouts <- {}, PlanOps <- {}, MaxCommands <- 3 * Cardinality(Keys), Origins <- {"scheduler"}, Null <- <<>>

Probes == INSTANCE MovementExecutor

Executor == INSTANCE ResidencyExecutor WITH SeedMissingSources <- TRUE

Init ==
  /\ ReplayInit
  /\ origin = "scheduler"
  /\ Consumer!Start
  /\ fileLength = NoFile
  /\ Executor!Init

Replay == ReplayNext /\ UNCHANGED <<consumerVars, executorVars>>

ExportNext ==
  /\ phase = "passed" /\ Len(exported) < Len(plan)
  /\ Consumer!ExportOp(plan[Len(exported) + 1])
  /\ Executor!ExecuteOp(plan[Len(exported) + 1])
  /\ UNCHANGED replayVars

Consume ==
  /\ phase = "passed" /\ Len(exported) = Len(plan)
  /\ \/ Consumer!OpenBacking
     \/ Consumer!SeedNext
     \/ Consumer!StartRunning
     \/ Consumer!ExecuteNext
     \/ Consumer!Finish
  /\ UNCHANGED <<replayVars, executorVars>>

Next == Replay \/ ExportNext \/ Consume

Spec == Init /\ [][Next]_vars

(***************************************************************************)
(* Properties.                                                             *)
(***************************************************************************)

Started(where) == {k \in DOMAIN before : before[k] \in where}

(* Every plan of a replay that passed is accepted by the exporter, runs in *)
(* the executor without an error, and in the consumer to the end unless    *)
(* I/O or an allocation fails: no block is ever missing from where a plan  *)
(* says.                                                                   *)
PlansRun ==
  /\ pc # "rejected"
  /\ pc = "exited" => CASE rc = 0 -> TRUE
                        [] rc = 1 -> ioFailed
                        [] rc = 2 -> plan = <<>>
  /\ Executor!VerificationErrors = 0

(* The scheduler, the consumer and both executors agree on a replay: the   *)
(* SSD is read once for every block that started there, with a probe of    *)
(* its size, every other block is made up once, and every block ends in    *)
(* VRAM and is computed on once.                                           *)
ReplaysAgree ==
  pc = "exited" /\ rc = 0 =>
    LET onSsd == Cardinality(Started({"ssd"}))
        resident == Cardinality(Started({"dram", "vram"}))
    IN /\ stats.reads = onSsd /\ count.reads = onSsd /\ stats.seeds = onSsd
       /\ \A s \in {store[k].size : k \in Started({"ssd"})} :
            Probes!ProbeRuns(plan)[s] = Cardinality({k \in Started({"ssd"}) : store[k].size = s})
       /\ stats.lazy = resident /\ count.seeds = resident
       /\ stats.copies = count.copies
       /\ stats.computes = Cardinality(DOMAIN store) /\ count.computes = stats.computes
       /\ DOMAIN vram = {[layer |-> k[1], block |-> k[2],
                          start |-> store[k].start, end |-> store[k].end] : k \in DOMAIN store}
       /\ \A k \in DOMAIN store : store[k].location = "vram"

(* A replay from the trace's own locations starts where the last event of  *)
(* each block left it, with the token range and size of the last event     *)
(* that described it; a move changes the location only.                    *)
Describes(e, k) == e.key = k /\ e.op # "kv_move"

StoreFollowsTrace ==
  phase \notin {"ingest", "failed"} =>
    \A k \in DOMAIN store :
      LET last == trace[Max({i \in DOMAIN trace : trace[i].key = k})]
          described == trace[Max({i \in DOMAIN trace : Describes(trace[i], k)})]
      IN /\ store[k].start = described.start /\ store[k].end = described.end
         /\ store[k].size = described.size
         /\ before[k] = IF initial # "trace" THEN initial
                        ELSE IF last.op = "kv_add" THEN last.location
                        ELSE TargetOf(last)
=============================================================================
