------------------------ MODULE ReplayPipelineProofs ------------------------
(***************************************************************************)
(* What a replay promises, for any trace, alignment and initial location.  *)
(*                                                                         *)
(* The schedule of a block is a run of ops that climbs from where the      *)
(* block started to its compute, and the layout gives every block a range  *)
(* of its own; ReplayInv says so phase by phase.  The plan of a replay     *)
(* that passed is therefore one for which the proofs about the consumer    *)
(* hold (Run, an instance of CommandConsumerProofs), and an op of the      *)
(* executor finds its source exactly if an earlier op of the plan brought  *)
(* it there.  The three accounts are then counts of ops of one plan, and   *)
(* each kind of op is found once in the run of each block.                 *)
(***************************************************************************)
EXTENDS ReplayPipeline, FiniteSetTheorems, FunctionTheorems, TLAPS

(***************************************************************************)
(* The trace and the store.  A block of the store has a last event, and a  *)
(* last one that describes it; Max finds them because they are there.      *)
(***************************************************************************)
LastMatch(i, matching) == i \in matching /\ \A j \in matching : i >= j

EventsOf(k) == {i \in DOMAIN trace : trace[i].key = k}

DescriptionsOf(k) == {i \in DOMAIN trace : Describes(trace[i], k)}

LeftAt(e) == IF e.op = "kv_add" THEN e.location ELSE TargetOf(e)

Follows(k, where) ==
  /\ \E i \in DOMAIN trace : LastMatch(i, EventsOf(k)) /\ where = LeftAt(trace[i])
  /\ \E i \in DOMAIN trace :
       /\ LastMatch(i, DescriptionsOf(k))
       /\ store[k].start = trace[i].start /\ store[k].end = trace[i].end
       /\ store[k].size = trace[i].size

StoredBlock == [start : Nat, end : Nat, size : Nat, location : Locations]

Placed(where) == IF initial = "trace" THEN where ELSE initial

StoreInv ==
  /\ IsFiniteSet(DOMAIN store) /\ DOMAIN store \subseteq Nat \X Nat
  /\ store \in [DOMAIN store -> StoredBlock]
  /\ \A k \in DOMAIN store : store[k].start < store[k].end

TraceInv ==
  /\ trace \in Seq(TraceEvents)
  /\ initial \in InitialLocations
  /\ phase = "ingest" => \A k \in DOMAIN store : Follows(k, store[k].location)
  /\ phase \in {"schedule", "layout", "passed"} =>
       /\ before \in [DOMAIN store -> Locations]
       /\ \A k \in DOMAIN store : \E where : Follows(k, where) /\ before[k] = Placed(where)

Phases == {"ingest", "schedule", "layout", "passed", "failed"}

(* The last event of the extended trace.                                   *)
LEMMA IngestStore ==
  ASSUME StoreInv, TraceInv, phase = "ingest", NEW e \in TraceEvents, Ingest(e), phase' = "ingest"
  PROVE  StoreInv' /\ TraceInv'
<1> DEFINE n == Len(trace) + 1
<1>1. /\ trace \in Seq(TraceEvents) /\ trace' = Append(trace, e)
      /\ UNCHANGED <<initial, before, ops, layout, addOutcome, plan>>
      /\ initial \in InitialLocations
  BY DEF Ingest, TraceInv
<1>2. /\ trace' \in Seq(TraceEvents) /\ DOMAIN trace' = 1 .. n /\ trace'[n] = e
      /\ DOMAIN trace = 1 .. n - 1 /\ n \in Nat \ {0}
      /\ \A i \in 1 .. n - 1 : trace'[i] = trace[i]
  BY <1>1
<1> HIDE DEF n
<1>3. \A k : k # e.key => EventsOf(k)' = EventsOf(k) /\ DescriptionsOf(k)' = DescriptionsOf(k)
  BY <1>2 DEF EventsOf, DescriptionsOf, Describes
<1>4. LastMatch(n, EventsOf(e.key)')
  BY <1>2 DEF EventsOf, LastMatch
<1>5. e.op # "kv_move" => LastMatch(n, DescriptionsOf(e.key)')
  BY <1>2 DEF DescriptionsOf, Describes, LastMatch
<1>6. e.op = "kv_move" => DescriptionsOf(e.key)' = DescriptionsOf(e.key)
  BY <1>2 DEF DescriptionsOf, Describes
<1>7. \A k \in DOMAIN store : k # e.key /\ store'[k] = store[k] => Follows(k, store[k].location)'
  <2>1. \A k \in DOMAIN store : Follows(k, store[k].location)
    BY DEF TraceInv
  <2>2. QED
    BY <1>2, <1>3, <2>1 DEF Follows
<1>8. ASSUME NEW where, Upsert(e, where), MakesBlock(e, where), e.op # "kv_move",
             where = LeftAt(e)
      PROVE  StoreInv' /\ \A k \in DOMAIN store' : Follows(k, store[k].location)'
  <2> DEFINE new == [start |-> e.start, end |-> e.end, size |-> e.size, location |-> where]
  <2>1. store' = [k \in DOMAIN store \cup {e.key} |-> IF k = e.key THEN new ELSE store[k]]
    BY <1>8 DEF Upsert
  <2>2. new \in StoredBlock /\ new.start < new.end /\ e.key \in Nat \X Nat
    BY <1>8, ReplayAssumption DEF MakesBlock, StoredBlock
  <2>3. IsFiniteSet(DOMAIN store \cup {e.key})
    BY FS_AddElement DEF StoreInv
  <2>4. /\ DOMAIN store' = DOMAIN store \cup {e.key} /\ store'[e.key] = new
        /\ \A k \in DOMAIN store \ {e.key} : store'[k] = store[k]
    BY <2>1
  <2>5. Follows(e.key, store[e.key].location)'
    BY <1>2, <1>4, <1>5, <1>8, <2>4 DEF Follows, LeftAt, TargetOf
  <2> HIDE DEF new
  <2>6. StoreInv'
    BY <2>1, <2>2, <2>3, <2>4 DEF StoreInv
  <2>7. QED
    BY <1>7, <2>4, <2>5, <2>6
<1>9. CASE IngestAdd(e)
  <2>1. StoreInv' /\ \A k \in DOMAIN store' : Follows(k, store[k].location)'
    BY <1>8, <1>9 DEF IngestAdd, LeftAt
  <2>2. QED
    BY <1>1, <1>2, <2>1 DEF TraceInv
<1>10. CASE IngestMovement(e)
  <2>1. StoreInv' /\ \A k \in DOMAIN store' : Follows(k, store[k].location)'
    BY <1>8, <1>10 DEF IngestMovement, LeftAt, MovementOps
  <2>2. QED
    BY <1>1, <1>2, <2>1 DEF TraceInv
<1>11. CASE IngestMove(e)
  <2>1. /\ e.op = "kv_move" /\ e.key \in DOMAIN store /\ TargetOf(e) \in Locations
        /\ store' = [store EXCEPT ![e.key].location = TargetOf(e)]
    BY <1>11 DEF IngestMove
  <2>2. /\ DOMAIN store' = DOMAIN store
        /\ \A k \in DOMAIN store \ {e.key} : store'[k] = store[k]
        /\ store'[e.key] = [store[e.key] EXCEPT !.location = TargetOf(e)]
        /\ store' = [k \in DOMAIN store |-> store'[k]]
    BY <2>1 DEF StoreInv
  <2>3. /\ store'[e.key] \in StoredBlock /\ store'[e.key].location = TargetOf(e)
        /\ store'[e.key].start = store[e.key].start /\ store'[e.key].end = store[e.key].end
        /\ store'[e.key].size = store[e.key].size
    BY <2>1, <2>2 DEF StoreInv, StoredBlock
  <2>4. StoreInv'
    BY <2>1, <2>2, <2>3 DEF StoreInv
  <2>5. Follows(e.key, store[e.key].location)
    BY <2>1 DEF TraceInv
  <2>6. Follows(e.key, store[e.key].location)'
    <3>1. LeftAt(trace'[n]) = TargetOf(e) /\ n \in DOMAIN trace'
      BY <1>2, <2>1 DEF LeftAt
    <3>2. PICK i \in DOMAIN trace :
            /\ LastMatch(i, DescriptionsOf(e.key))
            /\ store[e.key].start = trace[i].start /\ store[e.key].end = trace[i].end
            /\ store[e.key].size = trace[i].size
      BY <2>5 DEF Follows
    <3>3. /\ i \in DOMAIN trace' /\ trace'[i] = trace[i]
          /\ LastMatch(i, DescriptionsOf(e.key)')
      BY <1>2, <1>6, <2>1, <3>2
    <3>4. \E j \in DOMAIN trace' : /\ LastMatch(j, EventsOf(e.key)')
                                  /\ store'[e.key].location = LeftAt(trace'[j])
      BY <1>4, <2>3, <3>1
    <3>5. QED
      BY <2>3, <3>2, <3>3, <3>4 DEF Follows, LeftAt, TargetOf
  <2>7. \A k \in DOMAIN store' : Follows(k, store[k].location)'
    BY <1>7, <2>2, <2>6
  <2>8. QED
    BY <1>1, <1>2, <2>4, <2>7 DEF TraceInv
<1>12. QED
  BY <1>9, <1>10, <1>11 DEF Ingest, IngestRaises

(***************************************************************************)
(* The schedule.  A block is taken from where it is, level by level, to    *)
(* the GPU: its ops are those whose source is at the level the block       *)
(* starts at or above, each once and in the order of the levels.           *)
(***************************************************************************)
Level(where) == CASE where = "ssd" -> 1 [] where = "dram" -> 2 [] OTHER -> 3

StepFrom(where) ==
  CASE where = "ssd"  -> "schedule_ssd_read"
    [] where = "dram" -> "schedule_dram_to_vram"
    [] OTHER          -> "schedule_compute"

OpsOf(keys) ==
  {op \in [op : {StepFrom(w) : w \in Locations}, block : keys, from : Locations,
           start : Nat, end : Nat] : op.op = StepFrom(op.from)}

InLevels(s, start) ==
  /\ \A i \in DOMAIN s : Level(start[s[i].block]) <= Level(s[i].from)
  /\ \A i, j \in DOMAIN s :
       i < j /\ s[i].block = s[j].block => Level(s[i].from) < Level(s[j].from)

HasStep(s, k, where) == \E i \in DOMAIN s : s[i].block = k /\ s[i].from = where

Complete(s, k, start) ==
  \A w \in Locations : Level(start[k]) <= Level(w) => HasStep(s, k, w)

LEMMA Clocks == ASSUME NEW keys, NEW s \in Seq(OpsOf(keys)) PROVE Clock(s) \in Nat
<1>1. CASE s = <<>>
  BY <1>1 DEF Clock
<1>2. CASE s # <<>>
  <2>1. s[Len(s)] \in OpsOf(keys)
    BY <1>2
  <2>2. QED
    BY <1>2, <2>1 DEF Clock, OpsOf
<1>3. QED
  BY <1>1, <1>2

(* An op at a higher level than the earlier ones of its block.             *)
LEMMA AppendOp ==
  ASSUME NEW keys, NEW start, NEW s \in Seq(OpsOf(keys)), NEW op \in OpsOf(keys),
         InLevels(s, start), Level(start[op.block]) <= Level(op.from),
         \A i \in DOMAIN s : s[i].block = op.block => Level(s[i].from) < Level(op.from)
  PROVE  LET t == Append(s, op) IN
         /\ t \in Seq(OpsOf(keys)) /\ InLevels(t, start)
         /\ Len(t) = Len(s) + 1 /\ t[Len(s) + 1] = op
         /\ \A i \in 1 .. Len(s) : t[i] = s[i]
         /\ \A k : Seen(t, k) <=> Seen(s, k) \/ k = op.block
         /\ \A k, w : HasStep(t, k, w) <=> HasStep(s, k, w) \/ (k = op.block /\ w = op.from)
<1> DEFINE t == Append(s, op)
           n == Len(s)
<1>1. /\ t \in Seq(OpsOf(keys)) /\ DOMAIN t = 1 .. n + 1 /\ t[n + 1] = op /\ n \in Nat
      /\ DOMAIN s = 1 .. n /\ \A i \in 1 .. n : t[i] = s[i]
      /\ Len(t) = n + 1
  OBVIOUS
<1> HIDE DEF t, n
<1>2. InLevels(t, start)
  BY <1>1 DEF InLevels
<1>3. /\ \A k : Seen(t, k) <=> Seen(s, k) \/ k = op.block
      /\ \A k, w : HasStep(t, k, w) <=> HasStep(s, k, w) \/ (k = op.block /\ w = op.from)
  BY <1>1 DEF Seen, HasStep
<1>4. QED
  BY <1>1, <1>2, <1>3 DEF t, n

Moved(at, k, to) == [at EXCEPT ![k] = to]

Stage(at, t, io) == [location |-> at, ops |-> t, io |-> io, raised |-> FALSE]

NewOp(k, from, t, latency) ==
  [op |-> StepFrom(from), block |-> k, from |-> from,
   start |-> Clock(t), end |-> Clock(t) + latency]

LEMMA NewOps ==
  ASSUME NEW keys, NEW t \in Seq(OpsOf(keys)), NEW k \in keys, NEW from \in Locations,
         NEW latency \in Nat
  PROVE  /\ NewOp(k, from, t, latency) \in OpsOf(keys)
         /\ NewOp(k, from, t, latency).block = k /\ NewOp(k, from, t, latency).from = from
<1>1. Clock(t) \in Nat
  BY Clocks
<1>2. Clock(t) + latency \in Nat /\ StepFrom(from) \in {StepFrom(w) : w \in Locations}
  BY <1>1
<1>3. QED
  BY <1>1, <1>2 DEF NewOp, OpsOf

LEMMA ReadStage ==
  ASSUME NEW keys, NEW at \in [keys -> Locations], NEW t, NEW io, NEW k \in keys,
         at[k] = "ssd"
  PROVE  ReadFromSsd(Stage(at, t, io), k) =
           Stage(Moved(at, k, "dram"), Append(t, NewOp(k, "ssd", t, SsdReadLatency)), io + 1)
<1> DEFINE s == Stage(at, t, io)
           added == AddOp(s, "schedule_ssd_read", k, SsdReadLatency)
           op == NewOp(k, "ssd", t, SsdReadLatency)
<1>1. s.location = at /\ s.ops = t /\ s.io = io
  BY DEF Stage
<1>2. op = [op |-> "schedule_ssd_read", block |-> k, from |-> s.location[k],
            start |-> Clock(s.ops), end |-> Clock(s.ops) + SsdReadLatency]
  BY <1>1 DEF NewOp, StepFrom
<1>3. added = [s EXCEPT !.ops = Append(t, op)]
  BY <1>1, <1>2 DEF AddOp
<1> HIDE DEF op
<1>4. added = Stage(at, Append(t, op), io)
  BY <1>3 DEF Stage
<1>5. ReadFromSsd(s, k) = [added EXCEPT !.location[k] = "dram", !.io = io + 1]
  BY <1>1 DEF ReadFromSsd
<1> HIDE DEF added, s
<1>6. QED
  BY <1>4, <1>5 DEF Stage, Moved, op, s

LEMMA CopyStage ==
  ASSUME NEW keys, NEW at \in [keys -> Locations], NEW t, NEW io, NEW k \in keys,
         at[k] = "dram"
  PROVE  CopyToVram(Stage(at, t, io), k) =
           Stage(Moved(at, k, "vram"), Append(t, NewOp(k, "dram", t, CopyLatency)), io)
<1> DEFINE s == Stage(at, t, io)
           added == AddOp(s, "schedule_dram_to_vram", k, CopyLatency)
           op == NewOp(k, "dram", t, CopyLatency)
<1>1. s.location = at /\ s.ops = t /\ s.io = io
  BY DEF Stage
<1>2. op = [op |-> "schedule_dram_to_vram", block |-> k, from |-> s.location[k],
            start |-> Clock(s.ops), end |-> Clock(s.ops) + CopyLatency]
  BY <1>1 DEF NewOp, StepFrom
<1>3. added = [s EXCEPT !.ops = Append(t, op)]
  BY <1>1, <1>2 DEF AddOp
<1> HIDE DEF op
<1>4. added = Stage(at, Append(t, op), io)
  BY <1>3 DEF Stage
<1>5. CopyToVram(s, k) = [added EXCEPT !.location[k] = "vram"]
  BY <1>1 DEF CopyToVram
<1> HIDE DEF added, s
<1>6. QED
  BY <1>4, <1>5 DEF Stage, Moved, op, s

LEMMA ComputeStage ==
  ASSUME NEW keys, NEW at \in [keys -> Locations], NEW t, NEW io, NEW k \in keys,
         at[k] = "vram"
  PROVE  AddOp(Stage(at, t, io), "schedule_compute", k, ComputeLatency) =
           Stage(at, Append(t, NewOp(k, "vram", t, ComputeLatency)), io)
<1> DEFINE s == Stage(at, t, io)
           added == AddOp(s, "schedule_compute", k, ComputeLatency)
           op == NewOp(k, "vram", t, ComputeLatency)
<1>1. s.location = at /\ s.ops = t /\ s.io = io
  BY DEF Stage
<1>2. op = [op |-> "schedule_compute", block |-> k, from |-> s.location[k],
            start |-> Clock(s.ops), end |-> Clock(s.ops) + ComputeLatency]
  BY <1>1 DEF NewOp, StepFrom
<1>3. added = [s EXCEPT !.ops = Append(t, op)]
  BY <1>1, <1>2 DEF AddOp
<1> HIDE DEF op
<1>4. added = Stage(at, Append(t, op), io)
  BY <1>3 DEF Stage
<1>5. QED
  BY <1>4 DEF op

(* The ops a turn adds to s, for a block that starts at where.             *)
Adds(s, keys, k, where, t) ==
  \E r, c, x \in OpsOf(keys) :
    /\ r.block = k /\ c.block = k /\ x.block = k
    /\ r.from = "ssd" /\ c.from = "dram" /\ x.from = "vram"
    /\ \/ where = "ssd" /\ t = Append(Append(Append(s, r), c), x)
       \/ where = "dram" /\ t = Append(Append(s, c), x)
       \/ where = "vram" /\ t = Append(s, x)

(* One block more is scheduled, and nothing else changes.                  *)
LEMMA TurnToVram ==
  ASSUME NEW keys, NEW where \in [keys -> Locations], NEW s \in Seq(OpsOf(keys)),
         NEW k \in keys, ~Seen(s, k)
  PROVE  LET done == Turn(where, s, k, "vram") IN
         /\ ~done.raised /\ done.location = Moved(where, k, "vram")
         /\ Adds(s, keys, k, where[k], done.ops)
<1> DEFINE done == Turn(where, s, k, "vram")
           loaded == Load(Stage(where, s, 0), k)
           inDram == Moved(where, k, "dram")
           inVram == Moved(where, k, "vram")
           r == NewOp(k, "ssd", s, SsdReadLatency)
           afterRead == IF where[k] = "ssd" THEN Append(s, r) ELSE s
           c == NewOp(k, "dram", afterRead, CopyLatency)
           afterCopy == IF where[k] = "vram" THEN s ELSE Append(afterRead, c)
           x == NewOp(k, "vram", afterCopy, ComputeLatency)
           io == IF where[k] = "ssd" THEN 0 + 1 ELSE 0
<1>1. /\ {SsdReadLatency, CopyLatency, ComputeLatency} \subseteq Nat
      /\ "ssd" \in Locations /\ "dram" \in Locations /\ "vram" \in Locations
      /\ where[k] \in Locations
  BY SchedulerAssumption DEF Locations
<1>2. r \in OpsOf(keys) /\ r.block = k /\ r.from = "ssd"
  BY <1>1, NewOps
<1> HIDE DEF r
<1>3. afterRead \in Seq(OpsOf(keys))
  BY <1>2
<1> HIDE DEF afterRead
<1>4. c \in OpsOf(keys) /\ c.block = k /\ c.from = "dram"
  BY <1>1, <1>3, NewOps
<1> HIDE DEF c
<1>5. afterCopy \in Seq(OpsOf(keys))
  BY <1>3, <1>4
<1> HIDE DEF afterCopy
<1>6. x \in OpsOf(keys) /\ x.block = k /\ x.from = "vram"
  BY <1>1, <1>5, NewOps
<1> HIDE DEF x
<1>7. /\ inDram \in [keys -> Locations] /\ inVram \in [keys -> Locations]
      /\ inDram[k] = "dram" /\ inVram[k] = "vram"
      /\ Moved(inDram, k, "vram") = inVram
      /\ where[k] = "vram" => where = inVram
  BY <1>1 DEF Moved
<1>8. loaded = Stage(inVram, afterCopy, io)
  <2>1. CASE where[k] = "ssd"
    <3>1. ReadFromSsd(Stage(where, s, 0), k) = Stage(inDram, afterRead, io)
      BY <2>1, ReadStage DEF r, afterRead, io
    <3>2. CopyToVram(Stage(inDram, afterRead, io), k) = Stage(inVram, afterCopy, io)
      <4> HIDE DEF io, inDram, inVram
      <4>1. CopyToVram(Stage(inDram, afterRead, io), k) =
              Stage(Moved(inDram, k, "vram"), Append(afterRead, NewOp(k, "dram", afterRead, CopyLatency)), io)
        BY <1>7, CopyStage
      <4>2. QED
        BY <1>7, <2>1, <4>1 DEF c, afterCopy
    <3>3. Stage(where, s, 0).location[k] = "ssd" /\ Stage(inDram, afterRead, io).location[k] = "dram"
      BY <1>7, <2>1 DEF Stage
    <3>4. QED
      BY <3>1, <3>2, <3>3 DEF Load
  <2>2. CASE where[k] = "dram"
    <3>1. CopyToVram(Stage(where, s, 0), k) = Stage(inVram, afterCopy, io)
      BY <2>2, CopyStage DEF c, afterRead, afterCopy, io
    <3>2. Stage(where, s, 0).location[k] = "dram"
      BY <2>2 DEF Stage
    <3>3. QED
      BY <3>1, <3>2 DEF Load
  <2>3. CASE where[k] = "vram"
    <3>1. Stage(where, s, 0).location[k] = "vram" /\ Stage(where, s, 0) = Stage(inVram, afterCopy, io)
      BY <1>7, <2>3 DEF Stage, afterCopy
    <3>2. QED
      BY <3>1 DEF Load
  <2>4. QED
    BY <1>1, <2>1, <2>2, <2>3 DEF Locations
<1> HIDE DEF loaded, io
<1>9. AddOp(loaded, "schedule_compute", k, ComputeLatency) = Stage(inVram, Append(afterCopy, x), io)
  <2> HIDE DEF inVram
  <2>1. QED
    BY <1>7, <1>8, ComputeStage DEF x
<1>10. done = Stage(inVram, Append(afterCopy, x), io)
  <2>1. loaded.location[k] = "vram"
    BY <1>7, <1>8 DEF Stage
  <2>2. QED
    BY <1>9, <2>1 DEF Turn, loaded, Stage
<1> HIDE DEF done
<1>11. /\ ~done.raised /\ done.location = inVram /\ done.ops = Append(afterCopy, x)
  BY <1>10 DEF Stage
<1>12. \/ where[k] = "ssd" /\ done.ops = Append(Append(Append(s, r), c), x)
       \/ where[k] = "dram" /\ done.ops = Append(Append(s, c), x)
       \/ where[k] = "vram" /\ done.ops = Append(s, x)
  BY <1>1, <1>11 DEF afterCopy, afterRead, Locations
<1>13. Adds(s, keys, k, where[k], done.ops)
  BY <1>2, <1>4, <1>6, <1>12 DEF Adds
<1>14. QED
  BY <1>11, <1>13 DEF done

(***************************************************************************)
(* The replay, phase by phase.                                             *)
(***************************************************************************)
ScheduleInv ==
  /\ phase = "ingest" => ops = <<>>
  /\ phase \in {"schedule", "layout", "passed"} =>
       /\ ops \in Seq(OpsOf(DOMAIN store)) /\ InLevels(ops, before)
       /\ \A k \in DOMAIN store :
            IF Seen(ops, k) THEN store[k].location = "vram" /\ Complete(ops, k, before)
                            ELSE store[k].location = before[k]
  /\ phase \in {"layout", "passed"} => \A k \in DOMAIN store : Seen(ops, k)

EndOf(r) == r.offset + r.size

Apart(r, s) == EndOf(r) <= s.offset \/ EndOf(s) <= r.offset

LayoutInv ==
  /\ phase \in {"ingest", "schedule"} => DOMAIN layout = {}
  /\ phase \in {"layout", "passed"} =>
       /\ DOMAIN layout \subseteq DOMAIN store
       /\ \A k \in DOMAIN layout :
            layout[k] \in [offset : Nat, size : Nat \ {0}] /\ layout[k].size = store[k].size
       /\ \A j, k \in DOMAIN layout : j # k => Apart(layout[j], layout[k])
       /\ DOMAIN layout # {} =>
            \E m \in DOMAIN layout : \A k \in DOMAIN layout : EndOf(layout[k]) <= EndOf(layout[m])
  /\ phase = "passed" =>
       DOMAIN layout = DOMAIN store /\ plan = [i \in DOMAIN ops |-> MovementOp(ops[i])]

ReplayInv == phase \in Phases /\ StoreInv /\ TraceInv /\ ScheduleInv /\ LayoutInv

(* The store of a run that has begun to schedule: only locations change.   *)
SameStore ==
  /\ DOMAIN store' = DOMAIN store
  /\ \A k \in DOMAIN store :
       /\ store'[k].start = store[k].start /\ store'[k].end = store[k].end
       /\ store'[k].size = store[k].size

LEMMA TraceKept ==
  ASSUME TraceInv, SameStore, UNCHANGED <<trace, initial, before>>,
         phase \in {"schedule", "layout", "passed"}, phase' # "ingest"
  PROVE  TraceInv'
<1>1. \A k \in DOMAIN store : \A where : Follows(k, where) => Follows(k, where)'
  BY DEF Follows, EventsOf, DescriptionsOf, SameStore
<1>2. \A where : Placed(where)' = Placed(where)
  BY DEF Placed
<1>3. QED
  BY <1>1, <1>2 DEF TraceInv, SameStore

LEMMA InitReplayInv == ReplayInit => ReplayInv
<1> SUFFICES ASSUME ReplayInit PROVE ReplayInv
  OBVIOUS
<1>1. /\ trace = <<>> /\ phase = "ingest" /\ DOMAIN store = {} /\ ops = <<>>
      /\ initial \in InitialLocations /\ DOMAIN layout = {}
      /\ store = [k \in DOMAIN store |-> store[k]]
  BY DEF ReplayInit, Layout!SSDInit
<1>2. StoreInv
  BY <1>1, FS_EmptySet DEF StoreInv
<1>3. QED
  BY <1>1, <1>2 DEF ReplayInv, Phases, TraceInv, ScheduleInv, LayoutInv

LEMMA IngestReplayInv ==
  ASSUME ReplayInv, NEW e \in TraceEvents, Ingest(e)
  PROVE  ReplayInv'
<1>1. /\ phase = "ingest" /\ UNCHANGED <<initial, before, ops, layout, addOutcome, plan>>
      /\ trace' = Append(trace, e)
      /\ phase' = "ingest" \/ (phase' = "failed" /\ UNCHANGED store)
  BY DEF Ingest, IngestAdd, IngestMovement, IngestMove, IngestRaises
<1>2. CASE phase' = "ingest"
  <2>1. StoreInv' /\ TraceInv'
    BY <1>1, <1>2, IngestStore DEF ReplayInv
  <2>2. QED
    BY <1>1, <1>2, <2>1 DEF ReplayInv, Phases, ScheduleInv, LayoutInv
<1>3. CASE phase' = "failed" /\ UNCHANGED store
  <2>1. StoreInv' /\ trace' \in Seq(TraceEvents) /\ initial' \in InitialLocations
    BY <1>1, <1>3 DEF ReplayInv, StoreInv, TraceInv
  <2>2. QED
    BY <1>1, <1>3, <2>1 DEF ReplayInv, Phases, TraceInv, ScheduleInv, LayoutInv
<1>4. QED
  BY <1>1, <1>2, <1>3

LEMMA PlaceReplayInv ==
  ASSUME ReplayInv, PlaceBlocks
  PROVE  ReplayInv'
<1>1. /\ phase = "ingest" /\ phase' = "schedule"
      /\ UNCHANGED <<trace, initial, ops, layout, addOutcome, plan>>
      /\ store' = [k \in DOMAIN store |->
                     IF initial = "trace" THEN store[k] ELSE [store[k] EXCEPT !.location = initial]]
      /\ before' = [k \in DOMAIN store |-> store'[k].location]
      /\ initial \in InitialLocations
  BY DEF PlaceBlocks, ReplayInv, TraceInv
<1>2. initial \in Locations \cup {"trace"}
  BY <1>1, ReplayAssumption
<1>3. DOMAIN store' = DOMAIN store /\ store' = [k \in DOMAIN store |-> store'[k]]
  BY <1>1
<1>4. ASSUME NEW k \in DOMAIN store
      PROVE  /\ store'[k] \in StoredBlock /\ store'[k].start = store[k].start
             /\ store'[k].end = store[k].end /\ store'[k].size = store[k].size
             /\ store'[k].location = Placed(store[k].location)
  <2>1. store[k] \in StoredBlock
    BY DEF ReplayInv, StoreInv
  <2>2. CASE initial = "trace"
    BY <1>1, <2>1, <2>2 DEF Placed
  <2>3. CASE initial # "trace"
    <3>1. store'[k] = [store[k] EXCEPT !.location = initial] /\ initial \in Locations
      BY <1>1, <1>2, <2>3
    <3>2. QED
      BY <2>1, <2>3, <3>1 DEF Placed, StoredBlock
  <2>4. QED
    BY <2>2, <2>3
<1>5. StoreInv'
  BY <1>3, <1>4 DEF ReplayInv, StoreInv
<1>6. /\ before' \in [DOMAIN store' -> Locations]
      /\ \A k \in DOMAIN store : before'[k] = store'[k].location
  BY <1>1, <1>3, <1>4 DEF StoredBlock
<1>7. TraceInv'
  <2>1. \A k \in DOMAIN store : Follows(k, store[k].location)
    BY <1>1 DEF ReplayInv, TraceInv
  <2>2. \A k \in DOMAIN store : \A where : Follows(k, where) => Follows(k, where)'
    BY <1>1, <1>4 DEF Follows, EventsOf, DescriptionsOf
  <2>3. \A where : Placed(where)' = Placed(where)
    BY <1>1 DEF Placed
  <2>4. \A k \in DOMAIN store' : \E where : Follows(k, where)' /\ before'[k] = Placed(where)'
    BY <1>3, <1>4, <1>6, <2>1, <2>2, <2>3
  <2>5. QED
    BY <1>1, <1>6, <2>4 DEF ReplayInv, TraceInv
<1>8. ScheduleInv'
  <2>1. ops' = <<>>
    BY <1>1 DEF ReplayInv, ScheduleInv
  <2>2. ops' \in Seq(OpsOf(DOMAIN store')) /\ InLevels(ops', before') /\ \A k : ~Seen(ops', k)
    BY <2>1 DEF InLevels, Seen
  <2>3. QED
    BY <1>1, <1>3, <1>6, <2>2 DEF ScheduleInv
<1>9. QED
  BY <1>1, <1>5, <1>7, <1>8 DEF ReplayInv, Phases, LayoutInv

(* The ops of a turn keep the order of the levels and are all a block      *)
(* needs.                                                                  *)
LEMMA AddedInLevels ==
  ASSUME NEW keys, NEW start \in [keys -> Locations], NEW s \in Seq(OpsOf(keys)),
         InLevels(s, start), NEW k \in keys, ~Seen(s, k),
         NEW r \in OpsOf(keys), NEW c \in OpsOf(keys), NEW x \in OpsOf(keys),
         r.block = k, c.block = k, x.block = k,
         r.from = "ssd", c.from = "dram", x.from = "vram",
         NEW t,
         \/ start[k] = "ssd" /\ t = Append(Append(Append(s, r), c), x)
         \/ start[k] = "dram" /\ t = Append(Append(s, c), x)
         \/ start[k] = "vram" /\ t = Append(s, x)
  PROVE  /\ t \in Seq(OpsOf(keys)) /\ InLevels(t, start) /\ Complete(t, k, start)
         /\ \A j : Seen(t, j) <=> Seen(s, j) \/ j = k
         /\ \A j : Complete(s, j, start) => Complete(t, j, start)
<1>0. Level("ssd") = 1 /\ Level("dram") = 2 /\ Level("vram") = 3
  BY DEF Level
<1>1. \A i \in DOMAIN s : s[i].block # k
  BY DEF Seen
<1>2. CASE start[k] = "vram" /\ t = Append(s, x)
  <2>1. /\ t \in Seq(OpsOf(keys)) /\ InLevels(t, start)
        /\ \A j : Seen(t, j) <=> Seen(s, j) \/ j = k
        /\ \A j, w : HasStep(t, j, w) <=> HasStep(s, j, w) \/ (j = k /\ w = "vram")
    <3>1. /\ Level(start[x.block]) <= Level(x.from)
          /\ \A i \in DOMAIN s : s[i].block = x.block => Level(s[i].from) < Level(x.from)
      BY <1>0, <1>1, <1>2
    <3>2. QED
      BY <1>2, <3>1, AppendOp
  <2>2. Complete(t, k, start)
    BY <1>0, <1>2, <2>1 DEF Complete, Locations
  <2>3. QED
    BY <2>1, <2>2 DEF Complete
<1>3. CASE start[k] = "dram" /\ t = Append(Append(s, c), x)
  <2> DEFINE u == Append(s, c)
  <2>1. /\ u \in Seq(OpsOf(keys)) /\ InLevels(u, start)
        /\ \A j : Seen(u, j) <=> Seen(s, j) \/ j = k
        /\ \A j, w : HasStep(u, j, w) <=> HasStep(s, j, w) \/ (j = k /\ w = "dram")
        /\ \A i \in DOMAIN u : u[i].block = k => u[i].from = "dram"
    <3>1. /\ Level(start[c.block]) <= Level(c.from)
          /\ \A i \in DOMAIN s : s[i].block = c.block => Level(s[i].from) < Level(c.from)
      BY <1>0, <1>1, <1>3
    <3>2. /\ u \in Seq(OpsOf(keys)) /\ InLevels(u, start)
          /\ \A j : Seen(u, j) <=> Seen(s, j) \/ j = k
          /\ \A j, w : HasStep(u, j, w) <=> HasStep(s, j, w) \/ (j = k /\ w = "dram")
          /\ Len(u) = Len(s) + 1 /\ u[Len(s) + 1] = c
          /\ \A i \in 1 .. Len(s) : u[i] = s[i]
      BY <3>1, AppendOp
    <3>3. DOMAIN u = 1 .. Len(s) + 1 /\ DOMAIN s = 1 .. Len(s) /\ Len(s) \in Nat
      BY <3>2
    <3> HIDE DEF u
    <3>4. QED
      BY <1>1, <3>2, <3>3
  <2>2. t = Append(u, x)
    BY <1>3
  <2> HIDE DEF u
  <2>3. /\ t \in Seq(OpsOf(keys)) /\ InLevels(t, start)
        /\ \A j : Seen(t, j) <=> Seen(u, j) \/ j = k
        /\ \A j, w : HasStep(t, j, w) <=> HasStep(u, j, w) \/ (j = k /\ w = "vram")
    <3>1. /\ Level(start[x.block]) <= Level(x.from)
          /\ \A i \in DOMAIN u : u[i].block = x.block => Level(u[i].from) < Level(x.from)
      BY <1>0, <1>3, <2>1
    <3>2. QED
      BY <2>1, <2>2, <3>1, AppendOp
  <2>4. Complete(t, k, start)
    BY <1>0, <1>3, <2>1, <2>3 DEF Complete, Locations
  <2>5. QED
    BY <2>1, <2>3, <2>4 DEF Complete
<1>4. CASE start[k] = "ssd" /\ t = Append(Append(Append(s, r), c), x)
  <2> DEFINE v == Append(s, r)
             u == Append(v, c)
  <2>1. /\ v \in Seq(OpsOf(keys)) /\ InLevels(v, start)
        /\ \A j : Seen(v, j) <=> Seen(s, j) \/ j = k
        /\ \A j, w : HasStep(v, j, w) <=> HasStep(s, j, w) \/ (j = k /\ w = "ssd")
        /\ \A i \in DOMAIN v : v[i].block = k => v[i].from = "ssd"
    <3>1. /\ Level(start[r.block]) <= Level(r.from)
          /\ \A i \in DOMAIN s : s[i].block = r.block => Level(s[i].from) < Level(r.from)
      BY <1>0, <1>1, <1>4
    <3>2. /\ v \in Seq(OpsOf(keys)) /\ InLevels(v, start)
          /\ \A j : Seen(v, j) <=> Seen(s, j) \/ j = k
          /\ \A j, w : HasStep(v, j, w) <=> HasStep(s, j, w) \/ (j = k /\ w = "ssd")
          /\ Len(v) = Len(s) + 1 /\ v[Len(s) + 1] = r
          /\ \A i \in 1 .. Len(s) : v[i] = s[i]
      BY <3>1, AppendOp
    <3>3. DOMAIN v = 1 .. Len(s) + 1 /\ DOMAIN s = 1 .. Len(s) /\ Len(s) \in Nat
      BY <3>2
    <3> HIDE DEF v
    <3>4. QED
      BY <1>1, <3>2, <3>3
  <2> HIDE DEF v
  <2>2. /\ u \in Seq(OpsOf(keys)) /\ InLevels(u, start)
        /\ \A j : Seen(u, j) <=> Seen(v, j) \/ j = k
        /\ \A j, w : HasStep(u, j, w) <=> HasStep(v, j, w) \/ (j = k /\ w = "dram")
        /\ \A i \in DOMAIN u : u[i].block = k => Level(u[i].from) < 3
    <3>1. /\ Level(start[c.block]) <= Level(c.from)
          /\ \A i \in DOMAIN v : v[i].block = c.block => Level(v[i].from) < Level(c.from)
      BY <1>0, <1>4, <2>1
    <3>2. /\ u \in Seq(OpsOf(keys)) /\ InLevels(u, start)
          /\ \A j : Seen(u, j) <=> Seen(v, j) \/ j = k
          /\ \A j, w : HasStep(u, j, w) <=> HasStep(v, j, w) \/ (j = k /\ w = "dram")
          /\ Len(u) = Len(v) + 1 /\ u[Len(v) + 1] = c
          /\ \A i \in 1 .. Len(v) : u[i] = v[i]
      BY <2>1, <3>1, AppendOp
    <3>3. DOMAIN u = 1 .. Len(v) + 1 /\ DOMAIN v = 1 .. Len(v) /\ Len(v) \in Nat
      BY <2>1, <3>2
    <3> HIDE DEF u
    <3>4. \A i \in DOMAIN u : u[i].block = k => u[i].from \in {"ssd", "dram"}
      BY <2>1, <3>2, <3>3
    <3>5. QED
      BY <1>0, <3>2, <3>4
  <2>3. t = Append(u, x)
    BY <1>4 DEF v
  <2> HIDE DEF u
  <2>4. /\ t \in Seq(OpsOf(keys)) /\ InLevels(t, start)
        /\ \A j : Seen(t, j) <=> Seen(u, j) \/ j = k
        /\ \A j, w : HasStep(t, j, w) <=> HasStep(u, j, w) \/ (j = k /\ w = "vram")
    <3>1. /\ Level(start[x.block]) <= Level(x.from)
          /\ \A i \in DOMAIN u : u[i].block = x.block => Level(u[i].from) < Level(x.from)
      BY <1>0, <1>4, <2>2
    <3>2. QED
      BY <2>2, <2>3, <3>1, AppendOp
  <2>5. Complete(t, k, start)
    BY <1>0, <1>4, <2>1, <2>2, <2>4 DEF Complete, Locations
  <2>6. QED
    BY <2>1, <2>2, <2>4, <2>5 DEF Complete
<1>5. QED
  BY <1>2, <1>3, <1>4

LEMMA TurnInLevels ==
  ASSUME NEW keys, NEW start \in [keys -> Locations], NEW s \in Seq(OpsOf(keys)),
         InLevels(s, start), NEW k \in keys, ~Seen(s, k), NEW t,
         Adds(s, keys, k, start[k], t)
  PROVE  /\ t \in Seq(OpsOf(keys)) /\ InLevels(t, start) /\ Complete(t, k, start)
         /\ \A j : Seen(t, j) <=> Seen(s, j) \/ j = k
         /\ \A j : Complete(s, j, start) => Complete(t, j, start)
BY AddedInLevels DEF Adds

LEMMA ScheduleReplayInv ==
  ASSUME ReplayInv, NEW k \in DOMAIN store, ScheduleNext(k)
  PROVE  ReplayInv'
<1> DEFINE keys == DOMAIN store
           where == [j \in keys |-> store[j].location]
           done == Turn(where, ops, k, "vram")
<1>1. /\ phase = "schedule" /\ ~Seen(ops, k) /\ k \in keys
      /\ store' = [j \in keys |-> [store[j] EXCEPT !.location = done.location[j]]]
      /\ ops' = done.ops
      /\ phase' = IF done.raised THEN "failed" ELSE phase
      /\ UNCHANGED <<trace, initial, before, layout, addOutcome, plan>>
  BY DEF ScheduleNext, IsFirst, Unscheduled
<1>2. /\ store \in [keys -> StoredBlock]
      /\ ops \in Seq(OpsOf(keys)) /\ InLevels(ops, before)
      /\ before \in [keys -> Locations]
      /\ \A j \in keys : IF Seen(ops, j) THEN store[j].location = "vram" /\ Complete(ops, j, before)
                                        ELSE store[j].location = before[j]
  BY <1>1 DEF ReplayInv, StoreInv, TraceInv, ScheduleInv
<1>3. where \in [keys -> Locations] /\ where[k] = before[k]
  BY <1>1, <1>2 DEF StoredBlock
<1> HIDE DEF where, done
<1>4. /\ ~done.raised /\ done.location = Moved(where, k, "vram")
      /\ Adds(ops, keys, k, where[k], done.ops)
  <2> HIDE DEF keys
  <2>1. QED
    BY <1>1, <1>2, <1>3, TurnToVram DEF done
<1>5. /\ ops' \in Seq(OpsOf(keys)) /\ InLevels(ops', before) /\ Complete(ops', k, before)
      /\ \A j : Seen(ops', j) <=> Seen(ops, j) \/ j = k
      /\ \A j : Complete(ops, j, before) => Complete(ops', j, before)
  <2> HIDE DEF keys
  <2>1. Adds(ops, keys, k, before[k], ops')
    BY <1>1, <1>3, <1>4
  <2>2. /\ before \in [keys -> Locations] /\ ops \in Seq(OpsOf(keys)) /\ InLevels(ops, before)
        /\ k \in keys /\ ~Seen(ops, k)
    BY <1>1, <1>2
  <2>3. QED
    BY <2>1, <2>2, TurnInLevels
<1>6. \A j \in keys : done.location[j] = IF j = k THEN "vram" ELSE store[j].location
  BY <1>3, <1>4 DEF Moved, where
<1>7. /\ DOMAIN store' = keys /\ store' = [j \in keys |-> store'[j]]
      /\ \A j \in keys : store'[j] = [store[j] EXCEPT !.location = done.location[j]]
  BY <1>1
<1>8. ASSUME NEW j \in keys
      PROVE  /\ store'[j] \in StoredBlock /\ store'[j].start = store[j].start
             /\ store'[j].end = store[j].end /\ store'[j].size = store[j].size
             /\ store'[j].location = IF j = k THEN "vram" ELSE store[j].location
  <2>1. store[j] \in StoredBlock /\ done.location[j] \in Locations
    BY <1>2, <1>6 DEF StoredBlock, Locations
  <2>2. QED
    BY <1>6, <1>7, <2>1 DEF StoredBlock
<1>9. phase' = "schedule"
  BY <1>1, <1>4
<1>10. StoreInv'
  BY <1>7, <1>8 DEF ReplayInv, StoreInv
<1>11. SameStore
  BY <1>7, <1>8 DEF SameStore
<1>12. TraceInv'
  BY <1>1, <1>9, <1>11, TraceKept DEF ReplayInv
<1>13. ScheduleInv'
  <2>1. ASSUME NEW j \in keys
        PROVE  IF Seen(ops', j) THEN store'[j].location = "vram" /\ Complete(ops', j, before)
                               ELSE store'[j].location = before[j]
    BY <1>2, <1>5, <1>8
  <2>2. before' = before
    BY <1>1
  <2> HIDE DEF keys
  <2>3. \A j \in keys : IF Seen(ops', j) THEN store'[j].location = "vram" /\ Complete(ops', j, before')
                               ELSE store'[j].location = before'[j]
    BY <2>1, <2>2
  <2>4. InLevels(ops', before')
    BY <1>5, <2>2
  <2>5. QED
    BY <1>5, <1>7, <1>9, <2>3, <2>4 DEF ScheduleInv
<1>14. LayoutInv'
  BY <1>1, <1>9 DEF ReplayInv, LayoutInv
<1>15. QED
  BY <1>9, <1>10, <1>12, <1>13, <1>14 DEF ReplayInv, Phases

LEMMA ReturnReplayInv ==
  ASSUME ReplayInv, CalibrationFails \/ ScheduleReturns
  PROVE  ReplayInv'
<1>1. /\ phase = "schedule"
      /\ UNCHANGED <<trace, store, initial, before, ops, layout, addOutcome, plan>>
      /\ phase' \in {"layout", "failed"}
      /\ phase' = "layout" => Unscheduled = {}
  BY DEF CalibrationFails, ScheduleReturns
<1>2. TraceInv'
  BY <1>1, TraceKept DEF ReplayInv, SameStore
<1>3. StoreInv'
  BY <1>1 DEF ReplayInv, StoreInv
<1>4. ScheduleInv'
  BY <1>1 DEF ReplayInv, ScheduleInv, Unscheduled
<1>5. LayoutInv'
  BY <1>1 DEF ReplayInv, LayoutInv
<1>6. QED
  BY <1>1, <1>2, <1>3, <1>4, <1>5 DEF ReplayInv, Phases

(***************************************************************************)
(* The layout.  A range starts at or after the end of the one that ends    *)
(* last, and then ends last itself.                                        *)
(***************************************************************************)
LEMMA AlignUp ==
  ASSUME NEW offset \in Nat
  PROVE  Layout!Align(offset) \in Nat /\ Layout!Align(offset) >= offset
<1>1. Alignment \in Nat /\ Alignment > 0
  BY ReplayAssumption
<1>2. offset % Alignment \in 0 .. Alignment - 1
  BY <1>1
<1>3. QED
  BY <1>1, <1>2 DEF Layout!Align

LEMMA NextOffsetBounds ==
  ASSUME LayoutInv, phase = "layout"
  PROVE  /\ Layout!NextOffset \in Nat
         /\ \A k \in DOMAIN layout : EndOf(layout[k]) <= Layout!NextOffset
<1>1. CASE DOMAIN layout = {}
  BY <1>1 DEF Layout!NextOffset
<1>2. CASE DOMAIN layout # {}
  <2>1. \A k \in DOMAIN layout : EndOf(layout[k]) \in Nat
    BY DEF LayoutInv, EndOf
  <2>2. PICK m \in DOMAIN layout : \A k \in DOMAIN layout : EndOf(layout[k]) <= EndOf(layout[m])
    BY <1>2 DEF LayoutInv
  <2>3. Layout!EndOffsets = {EndOf(layout[k]) : k \in DOMAIN layout}
    BY DEF Layout!EndOffsets, Layout!EndOffset, EndOf
  <2>4. \E x \in Layout!EndOffsets : \A y \in Layout!EndOffsets : x >= y
    BY <2>1, <2>2, <2>3
  <2>5. /\ Layout!Max(Layout!EndOffsets) \in Layout!EndOffsets
        /\ \A y \in Layout!EndOffsets : Layout!Max(Layout!EndOffsets) >= y
    BY <2>4 DEF Layout!Max
  <2>6. Layout!NextOffset = Layout!Max(Layout!EndOffsets)
    BY <1>2 DEF Layout!NextOffset
  <2>7. QED
    BY <2>1, <2>3, <2>5, <2>6
<1>3. QED
  BY <1>1, <1>2

LEMMA LayOutReplayInv ==
  ASSUME ReplayInv, NEW k \in DOMAIN store, LayOutNext(k)
  PROVE  ReplayInv'
<1>1. /\ phase = "layout" /\ k \notin DOMAIN layout
      /\ Layout!AddBlock(k, store[k].size)
      /\ phase' = IF addOutcome' = "ok" THEN phase ELSE "failed"
      /\ UNCHANGED <<trace, store, initial, before, ops, plan>>
  BY DEF LayOutNext, IsFirst, Unplaced
<1>2. TraceInv'
  BY <1>1, TraceKept DEF ReplayInv, SameStore
<1>3. StoreInv'
  BY <1>1 DEF ReplayInv, StoreInv
<1>4. ScheduleInv'
  BY <1>1 DEF ReplayInv, ScheduleInv
<1>5. CASE Layout!Assign(k, store[k].size)
  <2> DEFINE new == Layout!NewRange(store[k].size)
  <2>1. /\ store[k].size > 0 /\ phase' = "layout"
        /\ layout' = [j \in DOMAIN layout \cup {k} |-> IF j = k THEN new ELSE layout[j]]
    BY <1>1, <1>5 DEF Layout!Assign
  <2>2. store[k].size \in Nat
    BY DEF ReplayInv, StoreInv, StoredBlock
  <2>3. /\ Layout!NextOffset \in Nat
        /\ \A j \in DOMAIN layout : EndOf(layout[j]) <= Layout!NextOffset
    BY <1>1, NextOffsetBounds DEF ReplayInv
  <2>4. Layout!Align(Layout!NextOffset) \in Nat /\ Layout!Align(Layout!NextOffset) >= Layout!NextOffset
    BY <2>3, AlignUp
  <2>5. /\ \A j \in DOMAIN layout : layout[j] \in [offset : Nat, size : Nat \ {0}]
        /\ \A j \in DOMAIN layout : layout[j].size = store[j].size
        /\ DOMAIN layout \subseteq DOMAIN store
        /\ \A i, j \in DOMAIN layout : i # j => Apart(layout[i], layout[j])
    BY <1>1 DEF ReplayInv, LayoutInv
  <2>6. /\ new \in [offset : Nat, size : Nat \ {0}] /\ new.size = store[k].size
        /\ \A j \in DOMAIN layout : EndOf(layout[j]) <= new.offset
    BY <2>1, <2>2, <2>3, <2>4, <2>5 DEF Layout!NewRange, EndOf
  <2> HIDE DEF new
  <2>7. /\ DOMAIN layout' = DOMAIN layout \cup {k} /\ layout'[k] = new
        /\ \A j \in DOMAIN layout : layout'[j] = layout[j]
    BY <1>1, <2>1
  <2>8. \A j \in DOMAIN layout : EndOf(layout[j]) <= EndOf(new)
    BY <2>5, <2>6 DEF EndOf
  <2>9. EndOf(new) \in Nat
    BY <2>6 DEF EndOf
  <2>10. \A j \in DOMAIN layout' : EndOf(layout'[j]) <= EndOf(layout'[k])
    BY <2>7, <2>8, <2>9
  <2>11. \A i, j \in DOMAIN layout' : i # j => Apart(layout'[i], layout'[j])
    BY <2>5, <2>6, <2>7 DEF Apart
  <2>12. \A j \in DOMAIN layout' :
           layout'[j] \in [offset : Nat, size : Nat \ {0}] /\ layout'[j].size = store[j].size
    BY <2>5, <2>6, <2>7
  <2>13. DOMAIN layout' \subseteq DOMAIN store /\ k \in DOMAIN layout'
    BY <2>5, <2>7
  <2>14. LayoutInv'
    BY <1>1, <2>1, <2>10, <2>11, <2>12, <2>13 DEF LayoutInv
  <2>15. QED
    BY <1>2, <1>3, <1>4, <2>1, <2>14 DEF ReplayInv, Phases
<1>6. CASE ~Layout!Assign(k, store[k].size)
  <2>1. phase' = "failed"
    BY <1>1, <1>6 DEF Layout!AddBlock, Layout!RejectDuplicate, Layout!RejectEmpty
  <2>2. QED
    BY <1>2, <1>3, <1>4, <2>1 DEF ReplayInv, Phases, LayoutInv
<1>7. QED
  BY <1>5, <1>6

LEMMA BuildReplayInv ==
  ASSUME ReplayInv, BuildPlan
  PROVE  ReplayInv'
<1>1. /\ phase = "layout" /\ Unplaced = {} /\ phase' = "passed"
      /\ plan' = [i \in DOMAIN ops |-> MovementOp(ops[i])]
      /\ UNCHANGED <<trace, store, initial, before, ops, layout, addOutcome>>
  BY DEF BuildPlan
<1>2. TraceInv'
  BY <1>1, TraceKept DEF ReplayInv, SameStore
<1>3. StoreInv' /\ ScheduleInv'
  BY <1>1 DEF ReplayInv, StoreInv, ScheduleInv
<1>4. \A op : MovementOp(op)' = MovementOp(op)
  BY <1>1 DEF MovementOp
<1>5. DOMAIN layout = DOMAIN store
  BY <1>1 DEF Unplaced, ReplayInv, LayoutInv
<1>6. LayoutInv'
  BY <1>1, <1>4, <1>5 DEF ReplayInv, LayoutInv
<1>7. QED
  BY <1>1, <1>2, <1>3, <1>6 DEF ReplayInv, Phases

LEMMA ReplayKept ==
  ASSUME ReplayInv, UNCHANGED replayVars
  PROVE  ReplayInv'
<1>1. UNCHANGED <<trace, phase, store, initial, before, ops, layout, addOutcome, plan>>
  BY DEF replayVars
<1>2. \A op : MovementOp(op)' = MovementOp(op)
  BY <1>1 DEF MovementOp
<1>3. StoreInv' /\ ScheduleInv' /\ LayoutInv'
  BY <1>1, <1>2 DEF ReplayInv, StoreInv, ScheduleInv, LayoutInv
<1>4. \A k, where : Follows(k, where)' = Follows(k, where) /\ Placed(where)' = Placed(where)
  BY <1>1 DEF Follows, EventsOf, DescriptionsOf, Placed
<1>5. TraceInv'
  BY <1>1, <1>4 DEF ReplayInv, TraceInv
<1>6. QED
  BY <1>1, <1>3, <1>5 DEF ReplayInv

LEMMA NextReplayInv == ReplayInv /\ [Next]_vars => ReplayInv'
<1> SUFFICES ASSUME ReplayInv, [Next]_vars PROVE ReplayInv'
  OBVIOUS
<1>1. CASE ReplayNext
  BY <1>1, IngestReplayInv, PlaceReplayInv, ScheduleReplayInv, ReturnReplayInv, LayOutReplayInv,
     BuildReplayInv DEF ReplayNext
<1>2. CASE UNCHANGED replayVars
  BY <1>2, ReplayKept
<1>3. QED
  BY <1>1, <1>2 DEF Next, Replay, ExportNext, Consume, vars

LEMMA SpecReplayInv == Spec => []ReplayInv
<1>1. Init => ReplayInv
  BY InitReplayInv DEF Init
<1>2. QED
  BY <1>1, NextReplayInv, PTL DEF Spec

(* Every block is scheduled from where its last event left it, unless      *)
(* --initial-location says otherwise, and with the tokens and bytes of the *)
(* last event that described it (adapter.py, runtime_replay.py).           *)
THEOREM TraceIsFollowed == Spec => []StoreFollowsTrace
<1>1. ASSUME NEW S, NEW i \in Nat, LastMatch(i, S), S \subseteq Nat
      PROVE  Max(S) = i
  <2>1. \A x \in S : (\A y \in S : x >= y) <=> x = i
    BY <1>1 DEF LastMatch
  <2>2. i \in S
    BY <1>1 DEF LastMatch
  <2>3. QED
    BY <2>1, <2>2 DEF Max
<1>2. ReplayInv => StoreFollowsTrace
  <2> SUFFICES ASSUME ReplayInv, phase \notin {"ingest", "failed"}, NEW k \in DOMAIN store
               PROVE  LET last == trace[Max({i \in DOMAIN trace : trace[i].key = k})]
                          described == trace[Max({i \in DOMAIN trace : Describes(trace[i], k)})]
                      IN /\ store[k].start = described.start /\ store[k].end = described.end
                         /\ store[k].size = described.size
                         /\ before[k] = IF initial # "trace" THEN initial
                                        ELSE IF last.op = "kv_add" THEN last.location
                                        ELSE TargetOf(last)
    BY DEF StoreFollowsTrace
  <2>1. PICK where : Follows(k, where) /\ before[k] = Placed(where)
    BY DEF ReplayInv, Phases, TraceInv
  <2>2. DOMAIN trace \subseteq Nat
    BY DEF ReplayInv, TraceInv
  <2>3. PICK i \in DOMAIN trace : LastMatch(i, EventsOf(k)) /\ where = LeftAt(trace[i])
    BY <2>1 DEF Follows
  <2>4. PICK j \in DOMAIN trace :
          /\ LastMatch(j, DescriptionsOf(k))
          /\ store[k].start = trace[j].start /\ store[k].end = trace[j].end
          /\ store[k].size = trace[j].size
    BY <2>1 DEF Follows
  <2>5. EventsOf(k) \subseteq Nat /\ DescriptionsOf(k) \subseteq Nat
    BY <2>2 DEF EventsOf, DescriptionsOf
  <2>6. Max(EventsOf(k)) = i /\ Max(DescriptionsOf(k)) = j
    BY <1>1, <2>2, <2>3, <2>4, <2>5
  <2>7. QED
    BY <2>1, <2>3, <2>4, <2>6 DEF EventsOf, DescriptionsOf, LeftAt, Placed
<1>3. QED
  BY SpecReplayInv, <1>2, PTL

(***************************************************************************)
(* The plan of a replay that passed.                                       *)
(***************************************************************************)
Run == INSTANCE CommandConsumerProofs WITH
  Layouts <- {}, PlanOps <- {}, MaxCommands <- 3 * Cardinality(Keys), Origins <- {"scheduler"}, Null <- <<>>

KeyOf(k) == [layer |-> k[1], block |-> k[2], start |-> store[k].start, end |-> store[k].end]

LEMMA OpFacts ==
  ASSUME ReplayInv, phase = "passed", NEW i \in DOMAIN ops
  PROVE  /\ ops[i].block \in DOMAIN store /\ ops[i].from \in Locations
         /\ ops[i].op = StepFrom(ops[i].from)
         /\ Level(before[ops[i].block]) <= Level(ops[i].from)
<1>1. /\ ops \in Seq(OpsOf(DOMAIN store)) /\ InLevels(ops, before)
  BY DEF ReplayInv, ScheduleInv
<1>2. ops[i] \in OpsOf(DOMAIN store)
  BY <1>1
<1>3. QED
  BY <1>1, <1>2 DEF OpsOf, InLevels

LEMMA PlanFacts ==
  ASSUME ReplayInv, phase = "passed"
  PROVE  /\ Len(ops) \in Nat /\ DOMAIN ops = 1 .. Len(ops)
         /\ Len(plan) = Len(ops) /\ DOMAIN plan = DOMAIN ops
         /\ \A i \in DOMAIN ops : plan[i] = MovementOp(ops[i])
         /\ DOMAIN layout = DOMAIN store
         /\ before \in [DOMAIN store -> Locations]
<1>1. ops \in Seq(OpsOf(DOMAIN store))
  BY DEF ReplayInv, ScheduleInv
<1>2. Len(ops) \in Nat /\ DOMAIN ops = 1 .. Len(ops)
  BY <1>1
<1>3. plan = [i \in 1 .. Len(ops) |-> MovementOp(ops[i])] /\ DOMAIN layout = DOMAIN store
  BY <1>2 DEF ReplayInv, LayoutInv
<1>4. plan \in Seq({MovementOp(ops[i]) : i \in 1 .. Len(ops)})
  BY <1>2, <1>3
<1>5. Len(plan) = Len(ops)
  BY <1>2, <1>3, <1>4
<1>6. QED
  BY <1>2, <1>3, <1>5 DEF ReplayInv, TraceInv

(* An op of the plan moves block k one level up from where, or computes on *)
(* it.                                                                     *)
Moves(c, k, where) ==
  /\ c.complete = TRUE /\ c.source = where
  /\ c.op = IF where = "vram" THEN "kv_compute" ELSE "kv_load"
  /\ c.target = IF where = "ssd" THEN "dram" ELSE "vram"
  /\ c.layer = k[1] /\ c.block = k[2] /\ <<c.layer, c.block>> = k
  /\ c.layer \in Nat /\ c.block \in Nat
  /\ c.start = store[k].start /\ c.end = store[k].end
  /\ c.start \in Nat /\ c.end \in Nat /\ c.start < c.end
  /\ c.size = layout[k].size /\ c.size = store[k].size /\ c.size \in Nat \ {0}
  /\ c.offset = layout[k].offset /\ c.offset \in Nat
  /\ c \in Run!Commands

LEMMA MovementFacts ==
  ASSUME ReplayInv, phase = "passed", NEW i \in DOMAIN ops
  PROVE  Moves(plan[i], ops[i].block, ops[i].from)
<1> DEFINE k == ops[i].block
           c == plan[i]
<1>1. /\ k \in DOMAIN store /\ ops[i].from \in Locations /\ ops[i].op = StepFrom(ops[i].from)
  BY OpFacts
<1>2. k \in Nat \X Nat /\ store[k] \in StoredBlock /\ store[k].start < store[k].end
  BY <1>1 DEF ReplayInv, StoreInv
<1>3. layout[k] \in [offset : Nat, size : Nat \ {0}] /\ layout[k].size = store[k].size
  BY <1>1, PlanFacts DEF ReplayInv, LayoutInv
<1>4. c = MovementOp(ops[i])
  BY PlanFacts
<1>5. /\ MovementNames[ops[i].op] = IF ops[i].from = "vram" THEN "kv_compute" ELSE "kv_load"
      /\ MovementTargets[ops[i].op] = IF ops[i].from = "ssd" THEN "dram" ELSE "vram"
  BY <1>1 DEF StepFrom, Locations, MovementNames, MovementTargets
<1>6. c = [complete |-> TRUE,
           op |-> IF ops[i].from = "vram" THEN "kv_compute" ELSE "kv_load",
           source |-> ops[i].from,
           target |-> IF ops[i].from = "ssd" THEN "dram" ELSE "vram",
           layer |-> k[1], block |-> k[2],
           start |-> store[k].start, end |-> store[k].end,
           size |-> layout[k].size, offset |-> layout[k].offset]
  BY <1>4, <1>5 DEF MovementOp
<1>7. /\ k[1] \in Nat /\ k[2] \in Nat /\ <<k[1], k[2]>> = k
      /\ store[k].start \in Nat /\ store[k].end \in Nat
      /\ layout[k].size \in Nat \ {0} /\ layout[k].offset \in Nat
  BY <1>2, <1>3 DEF StoredBlock
<1> HIDE DEF k, c
<1>8. c \in Run!Commands
  BY <1>1, <1>6, <1>7 DEF Run!Commands, Run!Ops, Run!Locations, Locations
<1>9. Moves(c, k, ops[i].from)
  BY <1>2, <1>3, <1>6, <1>7, <1>8 DEF Moves
<1>10. QED
  BY <1>9 DEF c, k

LEMMA PlanAccepted ==
  ASSUME ReplayInv, phase = "passed", NEW i \in DOMAIN ops
  PROVE  /\ Run!Accepts(plan[i], layout) /\ Run!Runnable(plan[i])
         /\ Run!Block(plan[i]) = ops[i].block
         /\ Run!Key(plan[i]) = KeyOf(ops[i].block)
         /\ Run!Pattern(plan[i]) # <<>>
         /\ plan[i] \in Run!Commands
<1> DEFINE k == ops[i].block
           c == plan[i]
<1>0. Moves(c, k, ops[i].from) /\ k \in DOMAIN layout /\ ops[i].from \in Locations
  BY MovementFacts, OpFacts, PlanFacts
<1> HIDE DEF c, k
<1>1. /\ c.complete = TRUE /\ c.source \in Locations
      /\ c.op = IF c.source = "vram" THEN "kv_compute" ELSE "kv_load"
      /\ c.target = IF c.source = "ssd" THEN "dram" ELSE "vram"
      /\ c.layer = k[1] /\ c.block = k[2]
      /\ c.layer \in Nat /\ c.block \in Nat /\ <<c.layer, c.block>> = k
      /\ c.start = store[k].start /\ c.end = store[k].end
      /\ c.start \in Nat /\ c.end \in Nat /\ c.start < c.end
      /\ c.size = layout[k].size /\ c.size \in Nat \ {0}
      /\ c.offset = layout[k].offset /\ c.offset \in Nat
      /\ k \in DOMAIN layout
      /\ c \in Run!Commands
  BY <1>0 DEF Moves
<1>2. Run!Block(c) = k /\ Run!Key(c) = KeyOf(k)
  BY <1>1 DEF Run!Block, Run!Key, KeyOf
<1>3. Run!WellFormed(c)
  BY <1>1 DEF Run!WellFormed, Run!Ops, Run!Locations, Run!IsTransfer, Locations
<1>4. Run!Accepts(c, layout)
  BY <1>1, <1>2, <1>3 DEF Run!Accepts
<1>5. Run!Runnable(c)
  BY <1>1 DEF Run!Runnable, Run!IsTransfer, Run!Tiers, Locations
<1>6. Run!Pattern(c) # <<>>
  <2>1. DOMAIN Run!Pattern(c) = 1 .. c.size /\ 1 \in 1 .. c.size
    BY <1>1 DEF Run!Pattern
  <2>2. DOMAIN <<>> = {}
    OBVIOUS
  <2>3. QED
    BY <2>1, <2>2
<1>7. QED
  BY <1>1, <1>2, <1>4, <1>5, <1>6 DEF c, k

(* An op finds its block where an earlier op of the plan put it, unless    *)
(* the block started there.                                                *)
UsedBefore(k, where, n) == \E j \in 1 .. n - 1 : ops[j].block = k /\ ops[j].from \in where

LEMMA EarlierOps ==
  ASSUME ReplayInv, phase = "passed", NEW i \in DOMAIN ops,
         NEW k, k = ops[i].block
  PROVE  /\ ops[i].from = "dram" => (UsedBefore(k, {"ssd", "dram"}, i) <=> before[k] # "dram")
         /\ ops[i].from = "vram" => (UsedBefore(k, {"dram", "vram"}, i) <=> before[k] # "vram")
<1>0. /\ Level("ssd") = 1 /\ Level("dram") = 2 /\ Level("vram") = 3
      /\ \A w \in Locations : w \in {"ssd", "dram", "vram"}
  BY DEF Level, Locations
<1>1. /\ k \in DOMAIN store /\ before[k] \in Locations
      /\ Level(before[k]) <= Level(ops[i].from)
      /\ DOMAIN ops = 1 .. Len(ops) /\ Len(ops) \in Nat
      /\ \A j \in DOMAIN ops : ops[j].from \in Locations
      /\ \A j \in DOMAIN ops : ops[j].block = k => Level(before[k]) <= Level(ops[j].from)
  BY OpFacts, PlanFacts
<1>2. \A j \in DOMAIN ops : ops[j].block = k =>
        /\ i < j => Level(ops[i].from) < Level(ops[j].from)
        /\ j < i => Level(ops[j].from) < Level(ops[i].from)
  BY DEF ReplayInv, ScheduleInv, InLevels
<1>3. Complete(ops, k, before)
  BY <1>1 DEF ReplayInv, ScheduleInv
<1>4. \A j \in 1 .. i - 1 : j \in DOMAIN ops /\ j < i
  BY <1>1
<1>5. ASSUME NEW j \in DOMAIN ops, ops[j].block = k, Level(ops[j].from) < Level(ops[i].from)
      PROVE  j \in 1 .. i - 1
  <2>1. j # i /\ ~(i < j)
    BY <1>0, <1>1, <1>2, <1>5
  <2>2. QED
    BY <1>1, <2>1
<1>6. CASE ops[i].from = "dram"
  <2>1. CASE before[k] = "ssd"
    <3>1. PICK j \in DOMAIN ops : ops[j].block = k /\ ops[j].from = "ssd"
      BY <1>0, <1>3, <2>1 DEF Complete, HasStep, Locations
    <3>2. j \in 1 .. i - 1
      BY <1>0, <1>5, <1>6, <3>1
    <3>3. QED
      BY <1>6, <2>1, <3>1, <3>2 DEF UsedBefore
  <2>2. CASE before[k] = "dram"
    BY <1>0, <1>1, <1>2, <1>4, <1>6, <2>2 DEF UsedBefore
  <2>3. QED
    BY <1>0, <1>1, <1>6, <2>1, <2>2
<1>7. CASE ops[i].from = "vram"
  <2>1. CASE before[k] # "vram"
    <3>1. PICK j \in DOMAIN ops : ops[j].block = k /\ ops[j].from = "dram"
      BY <1>0, <1>1, <1>3, <2>1 DEF Complete, HasStep, Locations
    <3>2. j \in 1 .. i - 1
      BY <1>0, <1>5, <1>7, <3>1
    <3>3. QED
      BY <1>7, <2>1, <3>1, <3>2 DEF UsedBefore
  <2>2. CASE before[k] = "vram"
    <3>1. \A j \in 1 .. i - 1 : ops[j].block # k
      BY <1>0, <1>1, <1>2, <1>4, <1>7, <2>2
    <3>2. QED
      BY <1>7, <2>2, <3>1 DEF UsedBefore
  <2>3. QED
    BY <2>1, <2>2
<1>8. QED
  BY <1>6, <1>7

(***************************************************************************)
(* The two runs of the plan.  What the consumer does here is what it does  *)
(* in CommandConsumer, so that its invariants hold as soon as the ops fit. *)
(***************************************************************************)
LEMMA SameCount ==
  \A S : Run!Cardinality(S) = Cardinality(S) /\ (Run!IsFiniteSet(S) <=> IsFiniteSet(S))
<1>1. \A S : Run!Cardinality(S) = Cardinality(S)
  BY DEF Run!Cardinality, Cardinality
<1>2. \A S : Run!IsFiniteSet(S) <=> IsFiniteSet(S)
  BY DEF Run!IsFiniteSet, IsFiniteSet
<1>3. QED
  BY <1>1, <1>2

LEMMA ExportIsRun == ASSUME NEW op, Consumer!ExportOp(op) PROVE Run!ExportOp(op)
BY DEF Consumer!ExportOp, Run!ExportOp, Consumer!Accepts, Run!Accepts,
       Consumer!WellFormed, Run!WellFormed, Consumer!Ops, Run!Ops,
       Consumer!Locations, Run!Locations, Consumer!IsTransfer, Run!IsTransfer,
       Consumer!Block, Run!Block, Consumer!Line, Run!Line,
       Consumer!MetadataSource, Run!MetadataSource

LEMMA StartIsRun == Consumer!Start => Run!Start
BY DEF Consumer!Start, Run!Start, Consumer!Zero, Run!Zero

LEMMA ConsumeIsRun == Consume => Run!Step
<1> SUFFICES ASSUME Consume PROVE Run!Step
  OBVIOUS
<1>1. Consumer!commands = Run!commands
  BY DEF Consumer!commands, Run!commands, Consumer!Scan, Run!Scan
<1>2. CASE Consumer!OpenBacking
  <2>1. Consumer!ToSet(Run!commands) = Run!ToSet(Run!commands)
    BY DEF Consumer!ToSet, Run!ToSet
  <2>2. \A S : Consumer!Max(S) = Run!Max(S)
    BY DEF Consumer!Max, Run!Max
  <2>3. Run!OpenBacking
    BY <1>1, <1>2, <2>1, <2>2 DEF Consumer!OpenBacking, Run!OpenBacking, Consumer!Exit, Run!Exit,
       Consumer!Zero, Run!Zero
  <2>4. QED
    BY <2>3 DEF Run!Step
<1>3. CASE Consumer!SeedNext
  BY <1>1, <1>3 DEF Consumer!SeedNext, Run!SeedNext, Run!Step, Consumer!Exit, Run!Exit,
     Consumer!Seen, Run!Seen, Consumer!Advance, Run!Advance, Consumer!Written, Run!Written,
     Consumer!Pattern, Run!Pattern, Consumer!Key, Run!Key
<1>4. CASE Consumer!StartRunning
  BY <1>1, <1>4 DEF Consumer!StartRunning, Run!StartRunning, Run!Step
<1>5. CASE Consumer!Finish
  BY <1>1, <1>5 DEF Consumer!Finish, Run!Finish, Run!Step, Consumer!Exit, Run!Exit
<1>6. CASE Consumer!ExecuteNext
  <2>1. /\ pc = "run" /\ next <= Len(Run!commands)
        /\ UNCHANGED <<layout, origin, exported>>
    BY <1>1, <1>6 DEF Consumer!ExecuteNext
  <2> DEFINE c == Run!commands[next]
  <2>2. /\ Consumer!Key(c) = Run!Key(c) /\ Consumer!Block(c) = Run!Block(c)
        /\ Consumer!Tiers = Run!Tiers
        /\ Consumer!IsTransfer(c) <=> Run!IsTransfer(c)
    BY DEF Consumer!Key, Run!Key, Consumer!Block, Run!Block, Consumer!Tiers, Run!Tiers,
           Consumer!IsTransfer, Run!IsTransfer
  <2> HIDE DEF c
  <2>3. /\ Consumer!Pattern(c) = Run!Pattern(c)
        /\ Consumer!Slot(c) = Run!Slot(c)
        /\ \A s : Consumer!SetSlot(c, s) <=> Run!SetSlot(c, s)
        /\ Consumer!Runnable(c) <=> Run!Runnable(c)
    <3>1. Consumer!Pattern(c) = Run!Pattern(c)
      BY <2>2 DEF Consumer!Pattern, Run!Pattern
    <3>2. Consumer!Slot(c) = Run!Slot(c)
      BY <2>2 DEF Consumer!Slot, Run!Slot
    <3>3. \A s : Consumer!SetSlot(c, s) <=> Run!SetSlot(c, s)
      BY <2>2 DEF Consumer!SetSlot, Run!SetSlot
    <3>4. Consumer!Runnable(c) <=> Run!Runnable(c)
      BY DEF Consumer!Runnable, Run!Runnable, Consumer!IsTransfer, Run!IsTransfer,
         Consumer!Tiers, Run!Tiers
    <3>5. QED
      BY <3>1, <3>2, <3>3, <3>4
  <2>4. /\ \A t : Consumer!Ensured(c, t) = Run!Ensured(c, t) /\ Consumer!Lazy(c, t) = Run!Lazy(c, t)
        /\ \A b, n : Consumer!Bytes(b, n) = Run!Bytes(b, n)
        /\ \A b, d : Consumer!Filled(b, d) = Run!Filled(b, d)
        /\ \A b, n : Consumer!Written(c, b, n) = Run!Written(c, b, n)
        /\ Consumer!Read(c) = Run!Read(c)
        /\ Consumer!CopiesToVram(c) = Run!CopiesToVram(c)
        /\ \A r : Consumer!Exit(r) <=> Run!Exit(r)
        /\ Consumer!Advance <=> Run!Advance
    BY <2>3 DEF Consumer!Ensured, Run!Ensured, Consumer!Lazy, Run!Lazy, Consumer!Bytes, Run!Bytes,
       Consumer!Garbage, Run!Garbage, Consumer!Filled, Run!Filled, Consumer!Written, Run!Written,
       Consumer!Read, Run!Read, Consumer!CopiesToVram, Run!CopiesToVram, Consumer!Exit, Run!Exit,
       Consumer!Advance, Run!Advance
  <2>5. \A ok, s : Consumer!VerifyAndAdvance(ok, s) <=> Run!VerifyAndAdvance(ok, s)
    BY <2>4 DEF Consumer!VerifyAndAdvance, Run!VerifyAndAdvance
  <2>6. /\ Consumer!LoadFromSsd(c) => Run!LoadFromSsd(c)
        /\ Consumer!Copy(c) => Run!Copy(c)
        /\ Consumer!Compute(c) => Run!Compute(c)
        /\ Consumer!Evict(c) => Run!Evict(c)
        /\ Consumer!Refuse(c) => Run!Refuse(c)
        /\ Consumer!OutOfMemory => Run!OutOfMemory
    BY <2>2, <2>3, <2>4, <2>5
    DEF Consumer!LoadFromSsd, Run!LoadFromSsd, Consumer!Copy, Run!Copy, Consumer!Compute,
        Run!Compute, Consumer!Evict, Run!Evict, Consumer!Refuse, Run!Refuse,
        Consumer!OutOfMemory, Run!OutOfMemory
  <2>7. Run!ExecuteNext
    BY <1>1, <1>6, <2>1, <2>6 DEF Consumer!ExecuteNext, Run!ExecuteNext, c
  <2>8. QED
    BY <2>7 DEF Run!Step
<1>7. QED
  BY <1>2, <1>3, <1>4, <1>5, <1>6 DEF Consume

(***************************************************************************)
(* The residency executor, before op n: a block has a buffer of its size   *)
(* where an earlier op put it or found it, and every op is counted.        *)
(***************************************************************************)
Buffers(table, where, n) ==
  /\ DOMAIN table \subseteq {KeyOf(k) : k \in DOMAIN store}
  /\ \A k \in DOMAIN store :
       /\ KeyOf(k) \in DOMAIN table <=> UsedBefore(k, where, n)
       /\ KeyOf(k) \in DOMAIN table => table[KeyOf(k)].size = store[k].size

From(where, n) == {i \in 1 .. n - 1 : ops[i].from = where}

(* The ops whose source no earlier op brought.                             *)
IsMadeUp(i) == ops[i].from # "ssd" /\ ops[i].from = before[ops[i].block]

MadeUp(n) == {i \in 1 .. n - 1 : IsMadeUp(i)}

Counted(c, n) ==
  /\ c \in [Executor!Counters -> Nat]
  /\ c.missing = 0 /\ c.mismatches = 0 /\ c.unsupported = 0
  /\ c.reads = Cardinality(From("ssd", n))
  /\ c.copies = Cardinality(From("dram", n))
  /\ c.computes = Cardinality(From("vram", n))
  /\ c.seeds = Cardinality(MadeUp(n))

ExecInv(n) ==
  /\ Buffers(dram, {"ssd", "dram"}, n)
  /\ Buffers(vram, {"dram", "vram"}, n)
  /\ Counted(count, n)

LEMMA OneKey ==
  ASSUME StoreInv, NEW j \in DOMAIN store, NEW k \in DOMAIN store, KeyOf(j) = KeyOf(k)
  PROVE  j = k
<1>1. j \in Nat \X Nat /\ k \in Nat \X Nat
  BY DEF StoreInv
<1>2. j[1] = k[1] /\ j[2] = k[2]
  BY DEF KeyOf
<1>3. QED
  BY <1>1, <1>2

LEMMA UsedNext ==
  ASSUME ReplayInv, phase = "passed", NEW n \in DOMAIN ops, NEW k, NEW where
  PROVE  UsedBefore(k, where, n + 1)
           <=> UsedBefore(k, where, n) \/ (ops[n].block = k /\ ops[n].from \in where)
<1>1. n \in Nat /\ 1 <= n
  BY PlanFacts
<1>2. (n + 1) - 1 = n /\ \A j : j \in 1 .. n <=> j \in 1 .. n - 1 \/ j = n
  BY <1>1
<1>3. QED
  BY <1>2 DEF UsedBefore

LEMMA BuffersKept ==
  ASSUME ReplayInv, phase = "passed", NEW n \in DOMAIN ops, NEW where, NEW table,
         Buffers(table, where, n), ops[n].from \notin where
  PROVE  Buffers(table, where, n + 1)
BY UsedNext DEF Buffers

LEMMA BufferPut ==
  ASSUME ReplayInv, phase = "passed", NEW n \in DOMAIN ops, NEW where, NEW table, NEW buffer,
         Buffers(table, where, n), ops[n].from \in where,
         buffer.size = store[ops[n].block].size
  PROVE  Buffers(Executor!Put(table, KeyOf(ops[n].block), buffer), where, n + 1)
<1> DEFINE b == ops[n].block
           next1 == Executor!Put(table, KeyOf(b), buffer)
<1>1. b \in DOMAIN store
  BY OpFacts
<1>2. /\ DOMAIN next1 = DOMAIN table \cup {KeyOf(b)}
      /\ next1[KeyOf(b)] = buffer
      /\ \A x \in DOMAIN table : x # KeyOf(b) => next1[x] = table[x]
  BY DEF Executor!Put
<1>3. \A k \in DOMAIN store : KeyOf(k) = KeyOf(b) <=> k = b
  BY <1>1, OneKey DEF ReplayInv
<1>4. \A k : UsedBefore(k, where, n + 1) <=> UsedBefore(k, where, n) \/ b = k
  BY UsedNext
<1> HIDE DEF b, next1
<1>5. Buffers(next1, where, n + 1)
  BY <1>1, <1>2, <1>3, <1>4 DEF Buffers, b
<1>6. QED
  BY <1>5 DEF next1, b

LEMMA CountedNext ==
  ASSUME ReplayInv, phase = "passed", NEW n \in DOMAIN ops, NEW c, Counted(c, n),
         NEW d, d = (IF IsMadeUp(n) THEN Executor!Bump(c, "seeds") ELSE c),
         NEW counter,
         counter = CASE ops[n].from = "ssd" -> "reads" [] ops[n].from = "dram" -> "copies"
                     [] OTHER -> "computes"
  PROVE  Counted(Executor!Bump(d, counter), n + 1)
<1>1. n \in Nat \ {0} /\ (n + 1) - 1 = n /\ ops[n].from \in {"ssd", "dram", "vram"}
  BY PlanFacts, OpFacts DEF Locations
<1>2. n \in 1 .. n /\ \A i \in 1 .. n - 1 : i \in 1 .. n
  BY <1>1
<1>3. \A w : Cardinality(From(w, n + 1)) =
               Cardinality(From(w, n)) + (IF ops[n].from = w THEN 1 ELSE 0)
  <2> TAKE w
  <2>1. /\ From(w, n) \in SUBSET (1 .. n - 1) /\ From(w, n + 1) \in SUBSET (1 .. n)
        /\ \A i \in 1 .. n - 1 : i \in From(w, n + 1) <=> i \in From(w, n)
        /\ n \in From(w, n + 1) <=> ops[n].from = w
    BY <1>1, <1>2 DEF From
  <2>2. Cardinality(From(w, n + 1)) =
          Cardinality(From(w, n)) + (IF n \in From(w, n + 1) THEN 1 ELSE 0)
    BY <1>1, <2>1, Run!OneMore, SameCount
  <2>3. QED
    BY <2>1, <2>2
<1>4. Cardinality(MadeUp(n + 1)) = Cardinality(MadeUp(n)) + (IF IsMadeUp(n) THEN 1 ELSE 0)
  <2>1. /\ MadeUp(n) \in SUBSET (1 .. n - 1) /\ MadeUp(n + 1) \in SUBSET (1 .. n)
        /\ \A i \in 1 .. n - 1 : i \in MadeUp(n + 1) <=> i \in MadeUp(n)
        /\ n \in MadeUp(n + 1) <=> IsMadeUp(n)
    BY <1>1, <1>2 DEF MadeUp
  <2>2. Cardinality(MadeUp(n + 1)) =
          Cardinality(MadeUp(n)) + (IF n \in MadeUp(n + 1) THEN 1 ELSE 0)
    BY <1>1, <2>1, Run!OneMore, SameCount
  <2>3. QED
    BY <2>1, <2>2
<1>5. /\ d \in [Executor!Counters -> Nat]
      /\ d.seeds = Cardinality(MadeUp(n + 1))
      /\ \A x \in Executor!Counters : x # "seeds" => d[x] = c[x]
  BY <1>4 DEF Counted, Executor!Bump, Executor!Counters
<1>6. /\ counter \in {"reads", "copies", "computes"}
      /\ counter = "reads" <=> ops[n].from = "ssd"
      /\ counter = "copies" <=> ops[n].from = "dram"
      /\ counter = "computes" <=> ops[n].from = "vram"
  BY <1>1
<1> DEFINE e == Executor!Bump(d, counter)
<1>7. /\ e \in [Executor!Counters -> Nat]
      /\ \A x \in Executor!Counters : e[x] = d[x] + (IF x = counter THEN 1 ELSE 0)
  BY <1>5, <1>6 DEF Executor!Bump, Executor!Counters
<1> HIDE DEF e
<1>8. {"reads", "copies", "computes", "missing", "mismatches", "unsupported", "seeds"}
        \subseteq Executor!Counters
  BY DEF Executor!Counters
<1>9. Counted(e, n + 1)
  BY <1>3, <1>5, <1>6, <1>7, <1>8 DEF Counted
<1>10. QED
  BY <1>9 DEF e

(* The executor's turn at an op of the plan: nothing is read short, and a  *)
(* source it makes up has the size of the op.                              *)
LEMMA ExecutorTurn ==
  ASSUME ReplayInv, phase = "passed", fileLength = NoFile, NEW n \in DOMAIN ops,
         ExecInv(n), Executor!ExecuteOp(plan[n]),
         NEW c, c = plan[n], NEW k, k = ops[n].block, NEW key, key = KeyOf(k)
  PROVE  /\ count' = Executor!Bump(IF IsMadeUp(n) THEN Executor!Bump(count, "seeds") ELSE count,
                                   CASE ops[n].from = "ssd" -> "reads"
                                     [] ops[n].from = "dram" -> "copies" [] OTHER -> "computes")
         /\ IF ops[n].from \in {"ssd", "dram"}
            THEN \E buffer : buffer.size = store[k].size /\ dram' = Executor!Put(dram, key, buffer)
            ELSE dram' = dram
         /\ IF ops[n].from \in {"dram", "vram"}
            THEN \E buffer : buffer.size = store[k].size /\ vram' = Executor!Put(vram, key, buffer)
            ELSE vram' = vram
<1>1. Moves(c, k, ops[n].from) /\ k \in DOMAIN store /\ ops[n].from \in {"ssd", "dram", "vram"}
  BY MovementFacts, OpFacts DEF Locations
<1>2. /\ c.source = ops[n].from
      /\ c.op = IF ops[n].from = "vram" THEN "kv_compute" ELSE "kv_load"
      /\ c.target = IF ops[n].from = "ssd" THEN "dram" ELSE "vram"
      /\ c.size = store[k].size
  BY <1>1 DEF Moves
<1>3. Executor!Key(c) = key
  BY <1>1 DEF Moves, Executor!Key, KeyOf
<1>4. Executor!Intent(c) = CASE ops[n].from = "ssd" -> "ssd_read"
                             [] ops[n].from = "dram" -> "dram_to_vram"
                             [] OTHER -> "compute"
  BY <1>1, <1>2 DEF Executor!Intent, Executor!IsTransfer
<1>5. /\ ~Executor!ShortRead(c)
      /\ Executor!ReadBacking(c).size = store[k].size
      /\ Executor!CountRead(count, c) = count
  BY <1>2 DEF Executor!ShortRead, Executor!ReadBacking, Executor!CountRead
<1>6. /\ ops[n].from = "dram" => (Executor!Found(dram, c) <=> ~IsMadeUp(n))
      /\ ops[n].from = "vram" => (Executor!Found(vram, c) <=> ~IsMadeUp(n))
  BY <1>1, <1>3, EarlierOps DEF Executor!Found, IsMadeUp, ExecInv, Buffers
<1>7. /\ ops[n].from = "dram" => Executor!SourceBuffer(dram, c).size = store[k].size
      /\ ops[n].from = "vram" => Executor!SourceBuffer(vram, c).size = store[k].size
  BY <1>1, <1>3, <1>5 DEF Executor!SourceBuffer, Executor!Found, ExecInv, Buffers
<1>8. CASE ops[n].from = "ssd"
  BY <1>3, <1>4, <1>5, <1>8
  DEF Executor!ExecuteOp, Executor!SsdToDram, Executor!DramToVram, Executor!Compute,
      Executor!EvictToSsd, Executor!Unsupported, IsMadeUp
<1>9. CASE ops[n].from = "dram"
  <2>1. Executor!DramToVram(c)
    BY <1>4, <1>9
    DEF Executor!ExecuteOp, Executor!SsdToDram, Executor!Compute, Executor!EvictToSsd,
        Executor!Unsupported
  <2>2. Executor!AfterSeeding(dram, c) = IF IsMadeUp(n) THEN Executor!Bump(count, "seeds") ELSE count
    BY <1>5, <1>6, <1>9 DEF Executor!AfterSeeding
  <2>3. /\ dram' = Executor!Put(dram, key, Executor!SourceBuffer(dram, c))
        /\ vram' = Executor!Put(vram, key, Executor!SourceBuffer(dram, c))
        /\ count' = Executor!Bump(Executor!AfterSeeding(dram, c), "copies")
    BY <1>2, <1>3, <1>7, <1>9, <2>1 DEF Executor!DramToVram, Executor!SkipMissing
  <2>4. QED
    BY <1>7, <1>9, <2>2, <2>3
<1>10. CASE ops[n].from = "vram"
  <2>1. Executor!Compute(c)
    BY <1>4, <1>10
    DEF Executor!ExecuteOp, Executor!SsdToDram, Executor!DramToVram, Executor!EvictToSsd,
        Executor!Unsupported
  <2>2. Executor!AfterSeeding(vram, c) = IF IsMadeUp(n) THEN Executor!Bump(count, "seeds") ELSE count
    BY <1>5, <1>6, <1>10 DEF Executor!AfterSeeding
  <2>3. /\ vram' = Executor!Put(vram, key, Executor!SourceBuffer(vram, c))
        /\ dram' = dram
        /\ count' = Executor!Bump(Executor!AfterSeeding(vram, c), "computes")
    BY <1>2, <1>3, <1>7, <1>10, <2>1 DEF Executor!Compute, Executor!SkipMissing
  <2>4. QED
    BY <1>7, <1>10, <2>2, <2>3
<1>11. QED
  BY <1>1, <1>8, <1>9, <1>10

LEMMA ExecuteExecInv ==
  ASSUME ReplayInv, phase = "passed", fileLength = NoFile, NEW n \in DOMAIN ops,
         ExecInv(n), Executor!ExecuteOp(plan[n]), UNCHANGED replayVars
  PROVE  ExecInv(n + 1)'
<1> DEFINE k == ops[n].block
           d == IF IsMadeUp(n) THEN Executor!Bump(count, "seeds") ELSE count
           counter == CASE ops[n].from = "ssd" -> "reads" [] ops[n].from = "dram" -> "copies"
                        [] OTHER -> "computes"
<1>1. /\ count' = Executor!Bump(d, counter)
      /\ IF ops[n].from \in {"ssd", "dram"}
         THEN \E buffer : buffer.size = store[k].size /\ dram' = Executor!Put(dram, KeyOf(k), buffer)
         ELSE dram' = dram
      /\ IF ops[n].from \in {"dram", "vram"}
         THEN \E buffer : buffer.size = store[k].size /\ vram' = Executor!Put(vram, KeyOf(k), buffer)
         ELSE vram' = vram
  BY ExecutorTurn
<1>2. Counted(count', n + 1)
  <2>1. Counted(Executor!Bump(d, counter), n + 1)
    BY CountedNext DEF ExecInv
  <2>2. QED
    BY <1>1, <2>1
<1> HIDE DEF d, counter
<1>3. Buffers(dram', {"ssd", "dram"}, n + 1)
  <2>1. CASE ops[n].from \in {"ssd", "dram"}
    <3>1. PICK buffer : buffer.size = store[k].size /\ dram' = Executor!Put(dram, KeyOf(k), buffer)
      BY <1>1, <2>1
    <3>2. Buffers(Executor!Put(dram, KeyOf(k), buffer), {"ssd", "dram"}, n + 1)
      BY <2>1, <3>1, BufferPut DEF ExecInv
    <3>3. QED
      BY <3>1, <3>2
  <2>2. CASE ops[n].from \notin {"ssd", "dram"}
    BY <1>1, <2>2, BuffersKept DEF ExecInv
  <2>3. QED
    BY <2>1, <2>2
<1>4. Buffers(vram', {"dram", "vram"}, n + 1)
  <2>1. CASE ops[n].from \in {"dram", "vram"}
    <3>1. PICK buffer : buffer.size = store[k].size /\ vram' = Executor!Put(vram, KeyOf(k), buffer)
      BY <1>1, <2>1
    <3>2. Buffers(Executor!Put(vram, KeyOf(k), buffer), {"dram", "vram"}, n + 1)
      BY <2>1, <3>1, BufferPut DEF ExecInv
    <3>3. QED
      BY <3>1, <3>2
  <2>2. CASE ops[n].from \notin {"dram", "vram"}
    BY <1>1, <2>2, BuffersKept DEF ExecInv
  <2>3. QED
    BY <2>1, <2>2
<1>5. QED
  BY <1>2, <1>3, <1>4 DEF ExecInv, Buffers, KeyOf, UsedBefore, Counted, From, MadeUp, IsMadeUp,
     replayVars

Exported ==
  /\ Len(exported) <= Len(plan)
  /\ \A i \in DOMAIN exported : exported[i] = Run!Line(plan[i], origin)
  /\ pc # "export" => Len(exported) = Len(plan)

PassedInv ==
  /\ Run!IInv /\ Run!LazyInv /\ Run!CountInv /\ Run!ExitExplained
  /\ pc # "rejected"
  /\ Exported
  /\ ExecInv(Len(exported) + 1)

RunInv ==
  /\ origin = "scheduler" /\ fileLength = NoFile
  /\ phase # "passed" => Run!Start /\ Executor!Init
  /\ phase = "passed" => PassedInv

LEMMA PassedStart ==
  ReplayInv /\ phase = "passed" /\ Run!Start /\ Executor!Init => PassedInv
<1> SUFFICES ASSUME ReplayInv, phase = "passed", Run!Start, Executor!Init PROVE PassedInv
  OBVIOUS
<1>1. exported = <<>> /\ pc = "export"
  BY DEF Run!Start
<1>2. Run!SaneLayout
  BY DEF ReplayInv, LayoutInv, Apart, EndOf, Run!SaneLayout
<1>3. Run!IInv /\ Run!LazyInv /\ Run!CountInv /\ Run!ExitExplained
  BY <1>2, Run!StartIInv, Run!StartLazyInv, Run!StartCountInv, Run!StartExit
<1>4. Exported
  BY <1>1, PlanFacts DEF Exported
<1>5. Len(exported) + 1 = 1 /\ \A i : i \notin 1 .. 1 - 1
  BY <1>1
<1>6. Buffers(dram, {"ssd", "dram"}, 1) /\ Buffers(vram, {"dram", "vram"}, 1)
  BY <1>5 DEF Buffers, UsedBefore, Executor!Init, Executor!Empty
<1>7. Counted(count, 1)
  <2>1. (\A w : From(w, 1) = {}) /\ MadeUp(1) = {}
    BY <1>5 DEF From, MadeUp
  <2>2. QED
    BY <2>1, FS_EmptySet DEF Counted, Executor!Init, Executor!Counters
<1>8. QED
  BY <1>1, <1>3, <1>4, <1>5, <1>6, <1>7 DEF PassedInv, ExecInv

LEMMA ExportRunInv ==
  ASSUME ReplayInv, RunInv, ExportNext
  PROVE  RunInv'
<1>0. PICK n : n = Len(exported) + 1
  OBVIOUS
<1>1. /\ phase = "passed" /\ Len(exported) < Len(plan)
      /\ Consumer!ExportOp(plan[n]) /\ Executor!ExecuteOp(plan[n])
      /\ UNCHANGED replayVars
  BY <1>0 DEF ExportNext
<1>2. PassedInv /\ origin = "scheduler" /\ fileLength = NoFile
  BY <1>1 DEF RunInv
<1>3. exported \in Seq(Run!Lines)
  BY <1>2 DEF PassedInv, Run!IInv, Run!ExportInv
<1>4. Len(exported) \in Nat /\ n \in DOMAIN ops /\ n \in Nat /\ n <= Len(plan)
  BY <1>0, <1>1, <1>3, PlanFacts
<1>5. /\ Run!Accepts(plan[n], layout) /\ Run!Block(plan[n]) = ops[n].block
      /\ Run!Key(plan[n]) = KeyOf(ops[n].block)
      /\ Run!Pattern(plan[n]) # <<>> /\ plan[n] \in Run!Commands
  BY <1>1, <1>4, PlanAccepted
<1>6. ASSUME NEW i \in DOMAIN exported
      PROVE  /\ Run!Block(exported[i].command) = ops[i].block
             /\ Run!Key(exported[i].command) = KeyOf(ops[i].block)
  <2>1. i \in DOMAIN ops
    BY <1>1, <1>3, <1>6, PlanFacts
  <2>2. exported[i].command = plan[i]
    BY <1>2, <1>6 DEF PassedInv, Exported, Run!Line
  <2>3. QED
    BY <1>1, <2>1, <2>2, PlanAccepted
<1>7. Run!Fits(plan[n])
  BY <1>5, <1>6 DEF Run!Fits
<1>8. Run!ExportOp(plan[n])
  BY <1>1, ExportIsRun
<1>9. Run!Step
  BY <1>7, <1>8 DEF Run!Step
<1>10. (Run!IInv /\ Run!LazyInv /\ Run!CountInv /\ Run!ExitExplained)'
  BY <1>2, <1>9, Run!StepIInv, Run!StepLazyInv, Run!StepCountInv, Run!StepExit DEF PassedInv
<1>11. /\ exported' = Append(exported, Run!Line(plan[n], origin))
       /\ pc = "export" /\ pc' = "export" /\ UNCHANGED <<layout, origin>>
  BY <1>5, <1>8 DEF Run!ExportOp
<1>12. /\ DOMAIN exported' = 1 .. n /\ Len(exported') = n
       /\ exported'[n] = Run!Line(plan[n], origin)
       /\ \A i \in 1 .. Len(exported) : exported'[i] = exported[i]
       /\ DOMAIN exported = 1 .. Len(exported)
  BY <1>0, <1>3, <1>11
<1>13. UNCHANGED <<phase, plan>> /\ fileLength' = fileLength
  BY <1>1 DEF replayVars, Executor!ExecuteOp
<1>14. Exported'
  <2>1. Len(exported') <= Len(plan)
    BY <1>4, <1>12
  <2>2. \A i \in 1 .. n : exported'[i] = Run!Line(plan[i], origin)
    <3>1. \A i \in 1 .. n : i = n \/ i \in 1 .. Len(exported)
      BY <1>0, <1>4
    <3>2. \A i \in 1 .. Len(exported) : exported[i] = Run!Line(plan[i], origin)
      BY <1>2, <1>12 DEF PassedInv, Exported
    <3>3. QED
      BY <1>12, <3>1, <3>2
  <2>3. \A i \in 1 .. n : (Run!Line(plan[i], origin))' = Run!Line(plan[i], origin)
    BY <1>11, <1>13 DEF Run!Line, Run!MetadataSource
  <2>4. QED
    BY <1>11, <1>12, <1>13, <2>1, <2>2, <2>3 DEF Exported
<1>15. ExecInv(n + 1)'
  BY <1>1, <1>2, <1>4, ExecuteExecInv, <1>0 DEF PassedInv
<1>16. ExecInv(Len(exported) + 1)'
  BY <1>12, <1>15 DEF ExecInv, Buffers, UsedBefore, Counted, From, MadeUp
<1>17. QED
  BY <1>2, <1>10, <1>11, <1>13, <1>14, <1>16 DEF RunInv, PassedInv, ExportNext

LEMMA ConsumeRunInv ==
  ASSUME ReplayInv, RunInv, Consume
  PROVE  RunInv'
<1>1. /\ phase = "passed" /\ Len(exported) = Len(plan)
      /\ UNCHANGED <<replayVars, executorVars>>
  BY DEF Consume
<1>2. PassedInv /\ origin = "scheduler" /\ fileLength = NoFile
  BY <1>1 DEF RunInv
<1>3. Run!Step
  BY ConsumeIsRun
<1>4. (Run!IInv /\ Run!LazyInv /\ Run!CountInv /\ Run!ExitExplained)'
  BY <1>2, <1>3, Run!StepIInv, Run!StepLazyInv, Run!StepCountInv, Run!StepExit DEF PassedInv
<1>5. /\ UNCHANGED <<origin, exported>>
      /\ pc' # "rejected"
  BY <1>2 DEF Consume, PassedInv, Consumer!OpenBacking, Consumer!SeedNext, Consumer!StartRunning,
     Consumer!ExecuteNext, Consumer!Finish, Consumer!Exit, Consumer!Advance,
     Consumer!LoadFromSsd, Consumer!Copy, Consumer!Compute, Consumer!Evict, Consumer!Refuse,
     Consumer!OutOfMemory, Consumer!VerifyAndAdvance
<1>6. UNCHANGED <<phase, plan, fileLength, ops, store, before, dram, vram, count>>
  BY <1>1 DEF replayVars, executorVars
<1>7. Exported'
  BY <1>1, <1>2, <1>5, <1>6 DEF PassedInv, Exported, Run!Line, Run!MetadataSource
<1>8. ExecInv(Len(exported) + 1)'
  BY <1>2, <1>5, <1>6 DEF PassedInv, ExecInv, Buffers, KeyOf, UsedBefore, Counted, From, MadeUp,
     IsMadeUp
<1>9. QED
  BY <1>1, <1>2, <1>4, <1>5, <1>6, <1>7, <1>8 DEF RunInv, PassedInv

LEMMA ReplayRunInv ==
  ASSUME ReplayInv, ReplayInv', RunInv, Replay
  PROVE  RunInv'
<1>1. UNCHANGED <<consumerVars, executorVars>> /\ ReplayNext
  BY DEF Replay
<1>2. phase # "passed"
  BY <1>1 DEF ReplayNext, Ingest, PlaceBlocks, CalibrationFails, ScheduleNext, LayOutNext,
     ScheduleReturns, BuildPlan
<1>3. Run!Start /\ Executor!Init /\ origin = "scheduler" /\ fileLength = NoFile
  BY <1>2 DEF RunInv
<1>4. (Run!Start /\ Executor!Init)' /\ UNCHANGED <<origin, fileLength>>
  BY <1>1, <1>3 DEF consumerVars, executorVars, Run!Start, Executor!Init, Run!Zero,
     Executor!Empty, Executor!Counters
<1>5. (ReplayInv /\ phase = "passed" /\ Run!Start /\ Executor!Init => PassedInv)'
  BY PassedStart, PTL
<1>6. QED
  BY <1>3, <1>4, <1>5 DEF RunInv

LEMMA RunKept ==
  ASSUME RunInv, UNCHANGED vars
  PROVE  RunInv'
<1>1. UNCHANGED <<layout, phase, plan, ops, store, before, origin, exported, pc, next, file, slots,
                  stats, rc, ioFailed, fileLength, dram, vram, count>>
  BY DEF vars, replayVars, consumerVars, executorVars
<1>2. Run!Start /\ Executor!Init => (Run!Start /\ Executor!Init)'
  BY <1>1 DEF Run!Start, Executor!Init, Run!Zero, Executor!Empty, Executor!Counters
<1>3. UNCHANGED Run!vars
  BY <1>1 DEF Run!vars
<1>4. PassedInv => (Run!IInv /\ Run!LazyInv /\ Run!CountInv /\ Run!ExitExplained)'
  BY <1>3, Run!StepIInv, Run!StepLazyInv, Run!StepCountInv, Run!StepExit DEF PassedInv
<1>5. PassedInv => Exported' /\ ExecInv(Len(exported) + 1)'
  BY <1>1 DEF PassedInv, Exported, Run!Line, Run!MetadataSource, ExecInv, Buffers, KeyOf,
     UsedBefore, Counted, From, MadeUp, IsMadeUp
<1>6. QED
  BY <1>1, <1>2, <1>4, <1>5 DEF RunInv, PassedInv

LEMMA SpecRunInv == Spec => [](ReplayInv /\ RunInv)
<1>1. Init => RunInv
  <2>1. Init => phase = "ingest" /\ Consumer!Start
    BY DEF Init, ReplayInit
  <2>2. QED
    BY <2>1, StartIsRun DEF Init, RunInv
<1>2. ReplayInv /\ ReplayInv' /\ RunInv /\ [Next]_vars => RunInv'
  BY ReplayRunInv, ExportRunInv, ConsumeRunInv, RunKept DEF Next
<1>3. QED
  BY SpecReplayInv, <1>1, <1>2, PTL DEF Spec

(* The exporter takes every plan of a replay, the executor runs it without *)
(* an error, and the consumer ends only at its end unless I/O or an        *)
(* allocation fails (runtime_replay.py, runtime_commands.py).              *)
THEOREM PlansAreRunnable == Spec => []PlansRun
<1>1. ReplayInv /\ RunInv => PlansRun
  <2> SUFFICES ASSUME ReplayInv, RunInv PROVE PlansRun
    OBVIOUS
  <2>1. CASE phase # "passed"
    BY <2>1 DEF RunInv, Run!Start, Executor!Init, PlansRun, Executor!VerificationErrors,
       Executor!Counters
  <2>2. CASE phase = "passed"
    <3>1. PassedInv /\ origin = "scheduler"
      BY <2>2 DEF RunInv
    <3>2. Executor!VerificationErrors = 0
      BY <3>1 DEF PassedInv, ExecInv, Counted, Executor!VerificationErrors
    <3>3. \A i \in DOMAIN Run!commands : Run!Runnable(Run!commands[i])
      <4> SUFFICES ASSUME NEW i \in DOMAIN Run!commands PROVE Run!Runnable(Run!commands[i])
        OBVIOUS
      <4>1. i \in DOMAIN exported /\ exported[i] = Run!Line(plan[i], "scheduler")
        BY <3>1 DEF Run!commands, PassedInv, Exported
      <4>2. i \in DOMAIN ops
        BY <2>2, <3>1, <4>1, PlanFacts DEF PassedInv, Exported, Run!IInv, Run!ExportInv
      <4>3. Run!Runnable(plan[i])
        BY <2>2, <4>2, PlanAccepted
      <4>4. /\ Run!commands[i].op = plan[i].op /\ Run!commands[i].source = plan[i].source
            /\ Run!commands[i].target = plan[i].target
        BY <2>2, <4>1, <4>2, PlanAccepted
        DEF Run!commands, Run!Scan, Run!Line, Run!MetadataSource, Run!Commands
      <4>5. QED
        BY <4>3, <4>4 DEF Run!Runnable, Run!IsTransfer
    <3>4. pc = "exited" => CASE rc = 0 -> TRUE [] rc = 1 -> ioFailed [] rc = 2 -> plan = <<>>
      <4> SUFFICES ASSUME pc = "exited"
                   PROVE  CASE rc = 0 -> TRUE [] rc = 1 -> ioFailed [] rc = 2 -> plan = <<>>
        OBVIOUS
      <4>1. /\ rc \in {0, 1, 2} /\ (rc = 1 => ioFailed) /\ (rc = 2 => exported = <<>>)
            /\ Len(exported) = Len(plan)
        BY <3>1, <3>3 DEF PassedInv, Run!ExitExplained, Exported
      <4>2. exported = <<>> => plan = <<>>
        <5>1. exported = <<>> => Len(ops) = 0 /\ DOMAIN plan = 1 .. Len(ops)
          BY <2>2, <4>1, PlanFacts
        <5>2. plan = [i \in DOMAIN ops |-> MovementOp(ops[i])]
          BY <2>2 DEF ReplayInv, LayoutInv
        <5>3. QED
          BY <5>1, <5>2
      <4>3. QED
        BY <4>1, <4>2
    <3>5. QED
      BY <3>1, <3>2, <3>4 DEF PlansRun, PassedInv
  <2>3. QED
    BY <2>1, <2>2
<1>2. QED
  BY SpecRunInv, <1>1, PTL

(***************************************************************************)
(* The numbers of a replay.  A block has one op per level, so that ops     *)
(* with something in common are as many as the blocks that have one.       *)
(***************************************************************************)
LEMMA SameSize ==
  ASSUME NEW S, NEW T, IsFiniteSet(S), NEW f, f \in [S -> T],
         \A i, j \in S : f[i] = f[j] => i = j,
         \A t \in T : \E i \in S : f[i] = t
  PROVE  Cardinality(S) = Cardinality(T)
<1>1. f \in Bijection(S, T)
  BY Fun_IsBij
<1>2. ExistsBijection(S, T)
  BY <1>1 DEF ExistsBijection
<1>3. QED
  BY <1>2, FS_Bijection

LEMMA SameOp ==
  ASSUME ReplayInv, phase = "passed", NEW i \in DOMAIN ops, NEW j \in DOMAIN ops,
         ops[i].block = ops[j].block, ops[i].from = ops[j].from
  PROVE  i = j
<1>1. i \in Nat /\ j \in Nat
  BY PlanFacts
<1>2. Level(ops[i].from) \in Nat
  BY DEF Level
<1>3. ~(i < j) /\ ~(j < i)
  BY <1>2 DEF ReplayInv, ScheduleInv, InLevels
<1>4. QED
  BY <1>1, <1>3

LEMMA OnePerBlock ==
  ASSUME ReplayInv, phase = "passed",
         NEW S \in SUBSET (DOMAIN ops), NEW K,
         \A i, j \in S : ops[i].block = ops[j].block => ops[i].from = ops[j].from,
         \A i \in S : ops[i].block \in K,
         \A k \in K : \E i \in S : ops[i].block = k
  PROVE  Cardinality(S) = Cardinality(K) /\ IsFiniteSet(S)
<1> DEFINE f == [i \in S |-> ops[i].block]
<1>1. IsFiniteSet(S)
  <2>1. DOMAIN ops = 1 .. Len(ops) /\ Len(ops) \in Nat
    BY PlanFacts
  <2>2. IsFiniteSet(1 .. Len(ops))
    BY <2>1, FS_Interval
  <2>3. QED
    BY <2>1, <2>2, FS_Subset
<1>2. \A i, j \in S : ops[i].block = ops[j].block => i = j
  BY SameOp
<1>3. /\ f \in [S -> K]
      /\ \A i, j \in S : f[i] = f[j] => i = j
      /\ \A k \in K : \E i \in S : f[i] = k
  BY <1>2
<1> HIDE DEF f
<1>4. QED
  BY <1>1, <1>3, SameSize

LEMMA OpCounts ==
  ASSUME ReplayInv, phase = "passed", NEW n, n = Len(ops) + 1
  PROVE  /\ Cardinality(From("ssd", n)) = Cardinality(Started({"ssd"}))
         /\ Cardinality(From("vram", n)) = Cardinality(DOMAIN store)
         /\ Cardinality(MadeUp(n)) = Cardinality(Started({"dram", "vram"})) /\ IsFiniteSet(MadeUp(n))
<1>1. /\ DOMAIN ops = 1 .. n - 1
      /\ before \in [DOMAIN store -> Locations]
      /\ \A i \in DOMAIN ops : ops[i].block \in DOMAIN store /\ ops[i].from \in Locations
      /\ \A i \in DOMAIN ops : Level(before[ops[i].block]) <= Level(ops[i].from)
  BY PlanFacts, OpFacts
<1>2. /\ Level("ssd") = 1 /\ Level("dram") = 2 /\ Level("vram") = 3
      /\ Locations = {"ssd", "dram", "vram"}
  BY DEF Level, Locations
<1>3. \A k \in DOMAIN store, w \in Locations :
        Level(before[k]) <= Level(w) => \E i \in DOMAIN ops : ops[i].block = k /\ ops[i].from = w
  BY DEF ReplayInv, ScheduleInv, Complete, HasStep
<1>4. Cardinality(From("ssd", n)) = Cardinality(Started({"ssd"}))
  <2>1. \A i \in From("ssd", n) : i \in DOMAIN ops /\ ops[i].from = "ssd" /\ ops[i].block \in Started({"ssd"})
    BY <1>1, <1>2 DEF From, Started
  <2>2. \A k \in Started({"ssd"}) : \E i \in From("ssd", n) : ops[i].block = k
    BY <1>1, <1>2, <1>3 DEF From, Started
  <2>3. QED
    BY <2>1, <2>2, OnePerBlock
<1>5. Cardinality(From("vram", n)) = Cardinality(DOMAIN store)
  <2>1. \A i \in From("vram", n) : i \in DOMAIN ops /\ ops[i].from = "vram" /\ ops[i].block \in DOMAIN store
    BY <1>1 DEF From
  <2>2. \A k \in DOMAIN store : \E i \in From("vram", n) : ops[i].block = k
    BY <1>1, <1>2, <1>3 DEF From
  <2>3. QED
    BY <2>1, <2>2, OnePerBlock
<1>6. Cardinality(MadeUp(n)) = Cardinality(Started({"dram", "vram"})) /\ IsFiniteSet(MadeUp(n))
  <2>1. \A i \in MadeUp(n) : /\ i \in DOMAIN ops /\ ops[i].from = before[ops[i].block]
                              /\ ops[i].block \in Started({"dram", "vram"})
    BY <1>1, <1>2 DEF MadeUp, IsMadeUp, Started
  <2>2. \A k \in Started({"dram", "vram"}) : \E i \in MadeUp(n) : ops[i].block = k
    BY <1>1, <1>2, <1>3 DEF MadeUp, IsMadeUp, Started
  <2>3. QED
    BY <2>1, <2>2, OnePerBlock
<1>7. QED
  BY <1>4, <1>5, <1>6

(* The lines the consumer scans are the ops of the plan.                   *)
LEMMA ScannedPlan ==
  ASSUME ReplayInv, phase = "passed", PassedInv, origin = "scheduler", pc # "export"
  PROVE  /\ Len(Run!commands) = Len(ops) /\ DOMAIN Run!commands = DOMAIN ops
         /\ \A i \in DOMAIN ops : Run!commands[i] = plan[i]
<1>1. /\ Len(exported) = Len(ops) /\ exported \in Seq(Run!Lines)
      /\ DOMAIN exported = DOMAIN ops
  BY PlanFacts DEF PassedInv, Exported, Run!IInv, Run!ExportInv
<1>2. Len(Run!commands) = Len(exported) /\ DOMAIN Run!commands = DOMAIN exported
  <2>1. Run!ExportInv
    BY DEF PassedInv, Run!IInv
  <2>2. QED
    BY <2>1, Run!CommandFacts DEF Run!commands
<1>3. ASSUME NEW i \in DOMAIN ops PROVE Run!commands[i] = plan[i]
  <2>1. plan[i] \in Run!Commands
    BY PlanAccepted
  <2>2. exported[i] = Run!Line(plan[i], "scheduler")
    BY <1>1 DEF PassedInv, Exported
  <2>3. Run!commands[i] = Run!Scan(Run!Line(plan[i], "scheduler"))
    BY <1>1, <2>2 DEF Run!commands
  <2>4. QED
    BY <2>1, <2>3 DEF Run!Scan, Run!Line, Run!MetadataSource, Run!Commands
<1>4. QED
  BY <1>1, <1>2, <1>3

LEMMA ConsumerCounts ==
  ASSUME ReplayInv, phase = "passed", PassedInv, origin = "scheduler", pc # "export",
         NEW n, n = Len(ops) + 1
  PROVE  /\ Run!Reads(n) = From("ssd", n) /\ Run!Seeds(n) = From("ssd", n)
         /\ Run!Copies(n) = From("dram", n) /\ Run!Computes(n) = From("vram", n)
<1>1. /\ DOMAIN ops = 1 .. n - 1 /\ n - 1 \in Nat
      /\ \A i \in 1 .. n - 1 : Run!commands[i] = plan[i]
      /\ \A i \in 1 .. n - 1 : Moves(plan[i], ops[i].block, ops[i].from)
      /\ \A i \in 1 .. n - 1 : ops[i].from \in {"ssd", "dram", "vram"}
  BY PlanFacts, ScannedPlan, MovementFacts, OpFacts DEF Locations
<1>2. \A i \in 1 .. n - 1 :
        /\ Run!commands[i].source = ops[i].from
        /\ Run!commands[i].op = IF ops[i].from = "vram" THEN "kv_compute" ELSE "kv_load"
        /\ Run!commands[i].target = IF ops[i].from = "ssd" THEN "dram" ELSE "vram"
        /\ Run!commands[i].offset = layout[ops[i].block].offset
        /\ Run!commands[i].size = layout[ops[i].block].size
        /\ Run!commands[i].offset \in Nat /\ Run!commands[i].size \in Nat \ {0}
  BY <1>1 DEF Moves
<1>3. /\ Run!Reads(n) = From("ssd", n)
      /\ Run!Copies(n) = From("dram", n) /\ Run!Computes(n) = From("vram", n)
  BY <1>1, <1>2 DEF Run!Reads, Run!Copies, Run!Computes, Run!IsRead, Run!IsCopy, Run!IsCompute,
     Run!IsTransfer, From
<1>4. ASSUME NEW i \in 1 .. n - 1, ops[i].from = "ssd" PROVE ~Run!Seen(i)
  <2> SUFFICES ASSUME NEW j \in 1 .. i - 1,
                      Run!commands[j].source = "ssd",
                      Run!commands[j].offset = Run!commands[i].offset,
                      Run!commands[j].size = Run!commands[i].size
               PROVE  FALSE
    BY DEF Run!Seen
  <2>1. j \in 1 .. n - 1 /\ j # i
    BY <1>1
  <2>2. ops[j].block # ops[i].block
    BY <1>1, <1>2, <1>4, <2>1, SameOp
  <2>3. Apart(layout[ops[j].block], layout[ops[i].block])
    BY <1>1, <2>1, <2>2, OpFacts, PlanFacts DEF ReplayInv, LayoutInv
  <2>4. QED
    BY <1>2, <2>1, <2>3 DEF Apart, EndOf
<1>5. Run!Seeds(n) = From("ssd", n)
  BY <1>2, <1>4 DEF Run!Seeds, From
<1>6. QED
  BY <1>3, <1>5

(* The sources the consumer makes up are those of the ops that find        *)
(* nothing.                                                                *)
LEMMA LazyCount ==
  ASSUME ReplayInv, phase = "passed", PassedInv, origin = "scheduler", pc # "export",
         NEW n, n = Len(ops) + 1
  PROVE  Cardinality(Run!FirstSources(n)) = Cardinality(MadeUp(n))
<1>1. /\ DOMAIN ops = 1 .. n - 1 /\ n - 1 \in Nat
      /\ \A i \in 1 .. n - 1 : Run!commands[i] = plan[i]
      /\ \A i \in 1 .. n - 1 : Moves(plan[i], ops[i].block, ops[i].from)
      /\ \A i \in 1 .. n - 1 : Run!Block(plan[i]) = ops[i].block
      /\ \A i \in 1 .. n - 1 : ops[i].from \in {"ssd", "dram", "vram"}
      /\ DOMAIN Run!commands = 1 .. n - 1
  BY PlanFacts, ScannedPlan, MovementFacts, PlanAccepted, OpFacts DEF Locations
<1>2. \A i \in 1 .. n - 1 :
        /\ Run!commands[i].source = ops[i].from
        /\ Run!commands[i].op = IF ops[i].from = "vram" THEN "kv_compute" ELSE "kv_load"
        /\ Run!commands[i].target = IF ops[i].from = "ssd" THEN "dram" ELSE "vram"
        /\ Run!Block(Run!commands[i]) = ops[i].block
  BY <1>1 DEF Moves
<1>3. \A i \in 1 .. n - 1 : \A b, t :
        /\ Run!UsesAsSource(Run!commands[i], b, t) <=> ops[i].block = b /\ ops[i].from = t
        /\ Run!UsesAsTarget(Run!commands[i], b, t) <=>
             /\ ops[i].block = b
             /\ \/ ops[i].from = "ssd" /\ t = "dram"
                \/ ops[i].from = "dram" /\ t = "vram"
  BY <1>1, <1>2 DEF Run!UsesAsSource, Run!UsesAsTarget, Run!IsTransfer
<1>4. \A i \in 1 .. n - 1 : \A b :
        /\ Run!UsedBefore(b, "dram", i) <=> UsedBefore(b, {"ssd", "dram"}, i)
        /\ Run!UsedBefore(b, "vram", i) <=> UsedBefore(b, {"dram", "vram"}, i)
  <2> TAKE i \in 1 .. n - 1
  <2> TAKE b
  <2>1. \A j \in 1 .. i - 1 : j \in 1 .. n - 1
    BY <1>1
  <2>2. QED
    BY <1>3, <2>1 DEF Run!UsedBefore, Run!Used, UsedBefore
<1>5. \A i \in 1 .. n - 1 :
        IsMadeUp(i) <=> /\ ops[i].from \in {"dram", "vram"}
                        /\ ~Run!UsedBefore(ops[i].block, ops[i].from, i)
  BY <1>1, <1>4, EarlierOps DEF IsMadeUp
<1> DEFINE f == [i \in MadeUp(n) |-> <<ops[i].block, ops[i].from>>]
           F == Run!FirstSources(n)
<1>6. \A i \in MadeUp(n) :
        /\ i \in 1 .. n - 1 /\ ops[i].from \in {"dram", "vram"}
        /\ <<ops[i].block, ops[i].from>> \in F
  <2> SUFFICES ASSUME NEW i \in MadeUp(n)
               PROVE  /\ i \in 1 .. n - 1 /\ ops[i].from \in {"dram", "vram"}
                      /\ <<ops[i].block, ops[i].from>> \in F
    OBVIOUS
  <2>1. i \in 1 .. n - 1 /\ ops[i].from \in {"dram", "vram"}
        /\ ~Run!UsedBefore(ops[i].block, ops[i].from, i)
    BY <1>5 DEF MadeUp
  <2>2. ops[i].block \in Run!Blocks
    BY <1>1, <1>2, <2>1 DEF Run!Blocks
  <2>3. Run!UsesAsSource(Run!commands[i], ops[i].block, ops[i].from)
    BY <1>3, <2>1
  <2>4. QED
    BY <2>1, <2>2, <2>3 DEF Run!FirstSources, Run!Tiers
<1>7. \A x \in F : \E i \in MadeUp(n) : <<ops[i].block, ops[i].from>> = x
  <2> SUFFICES ASSUME NEW x \in F
               PROVE  \E i \in MadeUp(n) : <<ops[i].block, ops[i].from>> = x
    OBVIOUS
  <2>1. PICK b \in Run!Blocks, t \in Run!Tiers : x = <<b, t>>
    BY DEF Run!FirstSources
  <2>2. PICK i \in 1 .. n - 1 : /\ Run!UsesAsSource(Run!commands[i], b, t)
                                /\ ~Run!UsedBefore(b, t, i)
    BY <2>1 DEF Run!FirstSources
  <2>3. ops[i].block = b /\ ops[i].from = t
    BY <1>3, <2>2
  <2>4. i \in MadeUp(n)
    BY <1>5, <2>1, <2>2, <2>3 DEF MadeUp, Run!Tiers
  <2>5. QED
    BY <2>1, <2>3, <2>4
<1>8. \A i, j \in MadeUp(n) :
        <<ops[i].block, ops[i].from>> = <<ops[j].block, ops[j].from>> => i = j
  BY <1>1, <1>6, SameOp
<1> HIDE DEF F
<1>9. /\ f \in [MadeUp(n) -> F]
      /\ \A i, j \in MadeUp(n) : f[i] = f[j] => i = j
      /\ \A x \in F : \E i \in MadeUp(n) : f[i] = x
  BY <1>6, <1>7, <1>8
<1>10. IsFiniteSet(MadeUp(n))
  BY OpCounts
<1> HIDE DEF f
<1>11. Cardinality(MadeUp(n)) = Cardinality(F)
  BY <1>9, <1>10, SameSize
<1>12. QED
  BY <1>11 DEF F

(* The movement executor probes the blocks that started on SSD, each once. *)
ReadOf(k) ==
  [layer |-> k[1], block |-> k[2], offset |-> layout[k].offset, size |-> layout[k].size]

LEMMA ProbedBlocks ==
  ASSUME ReplayInv, phase = "passed"
  PROVE  Probes!UniqueReads(plan) = {ReadOf(k) : k \in Started({"ssd"})}
<1>1. /\ DOMAIN plan = DOMAIN ops
      /\ before \in [DOMAIN store -> Locations]
      /\ \A i \in DOMAIN ops : Moves(plan[i], ops[i].block, ops[i].from)
      /\ \A i \in DOMAIN ops : /\ ops[i].block \in DOMAIN store
                                /\ ops[i].from \in {"ssd", "dram", "vram"}
                                /\ Level(before[ops[i].block]) <= Level(ops[i].from)
  BY PlanFacts, MovementFacts, OpFacts DEF Locations
<1>2. \A i \in DOMAIN ops :
        /\ plan[i].op = "kv_load" /\ plan[i].source = "ssd" <=> ops[i].from = "ssd"
        /\ ReadOf(ops[i].block) = [layer |-> plan[i].layer, block |-> plan[i].block,
                                   offset |-> plan[i].offset, size |-> plan[i].size]
  BY <1>1 DEF Moves, ReadOf
<1>3. \A i \in DOMAIN ops : ops[i].from = "ssd" => ops[i].block \in Started({"ssd"})
  BY <1>1 DEF Level, Locations, Started
<1>4. \A k \in Started({"ssd"}) : \E i \in DOMAIN ops : ops[i].block = k /\ ops[i].from = "ssd"
  <2> TAKE k \in Started({"ssd"})
  <2>1. k \in DOMAIN store /\ before[k] = "ssd"
    BY <1>1 DEF Started
  <2>2. Complete(ops, k, before)
    BY <2>1 DEF ReplayInv, ScheduleInv
  <2>3. HasStep(ops, k, "ssd")
    BY <2>1, <2>2 DEF Complete, Level, Locations
  <2>4. QED
    BY <2>3 DEF HasStep
<1>5. Probes!SsdLoads(plan) = {plan[i] : i \in {j \in DOMAIN ops : ops[j].from = "ssd"}}
  BY <1>1, <1>2 DEF Probes!SsdLoads, Probes!ToSet
<1>6. Probes!UniqueReads(plan) =
        {ReadOf(ops[i].block) : i \in {j \in DOMAIN ops : ops[j].from = "ssd"}}
  <2> DEFINE J == {j \in DOMAIN ops : ops[j].from = "ssd"}
  <2>1. Probes!UniqueReads(plan) =
          {[layer |-> op.layer, block |-> op.block, offset |-> op.offset, size |-> op.size] :
             op \in {plan[i] : i \in J}}
    BY <1>5 DEF Probes!UniqueReads
  <2>2. J \subseteq DOMAIN ops
    OBVIOUS
  <2> HIDE DEF J
  <2>3. Probes!UniqueReads(plan) =
          {[layer |-> plan[i].layer, block |-> plan[i].block,
            offset |-> plan[i].offset, size |-> plan[i].size] : i \in J}
    BY <2>1
  <2>4. QED
    BY <1>2, <2>2, <2>3 DEF J
<1>7. QED
  BY <1>3, <1>4, <1>6

LEMMA ProbesPerSize ==
  ASSUME ReplayInv, phase = "passed", NEW s \in {store[k].size : k \in Started({"ssd"})}
  PROVE  Probes!ProbeRuns(plan)[s] = Cardinality({k \in Started({"ssd"}) : store[k].size = s})
<1> DEFINE K == {k \in Started({"ssd"}) : store[k].size = s}
           R == {r \in Probes!UniqueReads(plan) : r.size = s}
           f == [k \in K |-> ReadOf(k)]
<1>1. /\ DOMAIN before = DOMAIN store /\ DOMAIN layout = DOMAIN store
      /\ DOMAIN store \subseteq Nat \X Nat /\ IsFiniteSet(DOMAIN store)
      /\ \A k \in DOMAIN store : layout[k].size = store[k].size
  BY PlanFacts DEF ReplayInv, StoreInv, LayoutInv
<1>2. Started({"ssd"}) \subseteq DOMAIN store
  BY <1>1 DEF Started
<1>3. \A k \in Started({"ssd"}) : ReadOf(k).size = store[k].size
  BY <1>1, <1>2 DEF ReadOf
<1>4. R = {ReadOf(k) : k \in K}
  BY <1>3, ProbedBlocks
<1>5. IsFiniteSet(K)
  BY <1>1, <1>2, FS_Subset
<1>6. \A j, k \in K : ReadOf(j) = ReadOf(k) => j = k
  BY <1>1, <1>2 DEF ReadOf
<1>7. s \in {r.size : r \in Probes!UniqueReads(plan)}
  BY <1>3, ProbedBlocks
<1>8. Probes!ProbeRuns(plan)[s] = Probes!Cardinality(R)
  BY <1>7 DEF Probes!ProbeRuns
<1>9. Probes!Cardinality(R) = Cardinality(R)
  BY DEF Probes!Cardinality, Cardinality
<1> HIDE DEF R, K
<1>10. /\ f \in [K -> R]
       /\ \A j, k \in K : f[j] = f[k] => j = k
       /\ \A r \in R : \E k \in K : f[k] = r
  BY <1>4, <1>6
<1> HIDE DEF f
<1>11. Cardinality(K) = Cardinality(R)
  BY <1>5, <1>10, SameSize
<1>12. QED
  BY <1>8, <1>9, <1>11 DEF K

(* At the end of a replay the scheduler, the consumer, the residency       *)
(* executor and the movement executor report the same reads, copies,       *)
(* computes and made-up sources, and every block is in VRAM.               *)
THEOREM RunsAgree == Spec => []ReplaysAgree
<1>1. ReplayInv /\ RunInv => ReplaysAgree
  <2> SUFFICES ASSUME ReplayInv, RunInv, pc = "exited", rc = 0
               PROVE  LET onSsd == Cardinality(Started({"ssd"}))
                          resident == Cardinality(Started({"dram", "vram"}))
                      IN /\ stats.reads = onSsd /\ count.reads = onSsd /\ stats.seeds = onSsd
                         /\ \A s \in {store[k].size : k \in Started({"ssd"})} :
                              Probes!ProbeRuns(plan)[s] =
                                Cardinality({k \in Started({"ssd"}) : store[k].size = s})
                         /\ stats.lazy = resident /\ count.seeds = resident
                         /\ stats.copies = count.copies
                         /\ stats.computes = Cardinality(DOMAIN store)
                         /\ count.computes = stats.computes
                         /\ DOMAIN vram = {[layer |-> k[1], block |-> k[2],
                                            start |-> store[k].start, end |-> store[k].end] :
                                             k \in DOMAIN store}
                         /\ \A k \in DOMAIN store : store[k].location = "vram"
    BY DEF ReplaysAgree
  <2>1. phase = "passed" /\ PassedInv /\ origin = "scheduler"
    BY DEF RunInv, Run!Start
  <2>2. PICK n : n = Len(ops) + 1
    OBVIOUS
  <2>3. Len(Run!commands) + 1 = n /\ Len(exported) + 1 = n
    BY <2>1, <2>2, ScannedPlan, PlanFacts DEF PassedInv, Exported
  <2>4. ExecInv(n)
    BY <2>1, <2>3 DEF PassedInv
  <2>5. /\ stats.reads = Cardinality(From("ssd", n)) /\ stats.seeds = Cardinality(From("ssd", n))
        /\ stats.copies = Cardinality(From("dram", n))
        /\ stats.computes = Cardinality(From("vram", n))
    <3>1. /\ stats.reads = Run!Cardinality(Run!Reads(n))
          /\ stats.copies = Run!Cardinality(Run!Copies(n))
          /\ stats.computes = Run!Cardinality(Run!Computes(n))
          /\ stats.seeds = Run!Cardinality(Run!Seeds(n))
      BY <2>1, <2>3 DEF PassedInv, Run!CountInv, Run!Ran
    <3>2. QED
      BY <2>1, <2>2, <3>1, SameCount, ConsumerCounts
  <2>6. stats.lazy = Cardinality(MadeUp(n))
    <3>1. stats.lazy = Run!Cardinality(Run!FirstSources(n))
      BY <2>1, <2>3 DEF PassedInv, Run!LazyInv, Run!Explained
    <3>2. QED
      BY <2>1, <2>2, <3>1, SameCount, LazyCount
  <2>7. /\ count.reads = Cardinality(From("ssd", n)) /\ count.copies = Cardinality(From("dram", n))
        /\ count.computes = Cardinality(From("vram", n)) /\ count.seeds = Cardinality(MadeUp(n))
    BY <2>4 DEF ExecInv, Counted
  <2>8. /\ Cardinality(From("ssd", n)) = Cardinality(Started({"ssd"}))
        /\ Cardinality(From("vram", n)) = Cardinality(DOMAIN store)
        /\ Cardinality(MadeUp(n)) = Cardinality(Started({"dram", "vram"}))
    BY <2>1, <2>2, OpCounts
  <2>9. \A k \in DOMAIN store : store[k].location = "vram" /\ Complete(ops, k, before)
    BY <2>1 DEF ReplayInv, ScheduleInv
  <2>10. DOMAIN vram = {KeyOf(k) : k \in DOMAIN store}
    <3>1. \A k \in DOMAIN store : Level(before[k]) <= Level("vram")
      BY DEF Level
    <3>2. \A k \in DOMAIN store : HasStep(ops, k, "vram")
      BY <2>9, <3>1 DEF Complete, Locations
    <3>3. DOMAIN ops = 1 .. n - 1
      BY <2>1, <2>2, PlanFacts
    <3>4. \A k \in DOMAIN store : UsedBefore(k, {"dram", "vram"}, n)
      BY <3>2, <3>3 DEF HasStep, UsedBefore
    <3>5. QED
      BY <2>4, <3>4 DEF ExecInv, Buffers
  <2>11. DOMAIN vram = {[layer |-> k[1], block |-> k[2],
                         start |-> store[k].start, end |-> store[k].end] : k \in DOMAIN store}
    BY <2>10 DEF KeyOf
  <2>12. \A s \in {store[k].size : k \in Started({"ssd"})} :
           Probes!ProbeRuns(plan)[s] = Cardinality({k \in Started({"ssd"}) : store[k].size = s})
    BY <2>1, ProbesPerSize
  <2>13. QED
    BY <2>5, <2>6, <2>7, <2>8, <2>9, <2>11, <2>12
<1>2. QED
  BY SpecRunInv, <1>1, PTL
=============================================================================
