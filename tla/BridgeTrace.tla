---------------------------- MODULE BridgeTrace -----------------------------
(***************************************************************************)
(* What the live bridge leaves on disk and what is read back from it.  A   *)
(* process loads the command file at the first apply_ubatch of any of its  *)
(* caches, whose tables are static and shared by all of them, appends one  *)
(* event per command it applies to a trace it never truncates, and         *)
(* rewrites a summary after every layer and every attention view.  Other   *)
(* processes append to the same trace; any of them may be killed.  The     *)
(* Python side reads the trace: command_bridge.py compares it with the     *)
(* summary, movement_intents.py turns it back into a movement plan.        *)
(***************************************************************************)
EXTENDS CommandExport, SequencesExt, FiniteSetsExt

CONSTANTS
  Caches,        \* KV caches of one process
  CacheLayers,   \* cache -> its layers, in the order apply_ubatch visits them
  CacheSize,     \* cache -> its cells
  Ubatches,      \* cache -> batches: first cell and position range
  Files,         \* command files: sequences of lines, or NoFile
  NoFile,        \* the command file cannot be opened
  Layout,        \* the SSD layout exported command files are checked against
  MaxRuns,       \* bound on the processes started
  MaxBatches,    \* bound on the batches of all processes
  MaxCommands, MaxShadow,   \* the patch's table sizes
  NoCache,       \* no cache has loaded the file
  NoEvent,       \* no apply_ubatch under way
  NoSummary,     \* the file does not exist
  Torn           \* the writer was killed before its line was complete

ASSUME TraceAssumption ==
  /\ NoCache \notin Caches
  /\ NoEvent \notin [cache : Caches, ubatch : [block : Int, start : Int, end : Int],
                     layer : Nat, cursor : Nat]
  /\ MaxRuns \in Nat /\ MaxBatches \in Nat
  /\ MaxCommands \in Nat /\ MaxShadow \in Nat
  /\ \A c \in Caches :
       /\ CacheLayers[c] \in Seq(Int) /\ CacheLayers[c] # <<>>
       /\ CacheSize[c] \in Nat
       /\ Ubatches[c] \subseteq [block : Int, start : Int, end : Int]
       /\ \A u \in Ubatches[c] : u.block < CacheSize[c]

(* The lines of a command file, and the ranges of a layout, have the types *)
(* their readers parse.                                                    *)
ASSUME FileAssumption ==
  /\ \A f \in Files \ {NoFile} : f \in Seq(CommandLine)
  /\ \A b \in DOMAIN Layout : Layout[b] \in [offset : Int, size : Int]

VARIABLES
  plans,           \* the command file of every process started so far
  process,         \* the static state of the current process
  event,           \* its apply_ubatch under way: cache, batch, layer, command
  trace,           \* lines of the bridge trace
  bridgeSummary,   \* the bridge summary file
  commandSummary,  \* the command summary file
  lost             \* processes one of whose appends failed

vars == <<plans, process, event, trace, bridgeSummary, commandSummary, lost>>

Run == Len(plans)

LayersOf(c) == ToSet(CacheLayers[c])

(* Zero-initialised statics.                                               *)
Fresh ==
  [running |-> TRUE, done |-> FALSE, ready |-> FALSE, commands |-> <<>>,
   loader |-> NoCache, shadow |-> <<>>, records |-> 0, matched |-> 0,
   mismatches |-> 0, batches |-> 0, events |-> <<>>]

Init ==
  /\ plans = <<>>
  /\ process = [Fresh EXCEPT !.running = FALSE]
  /\ event = NoEvent
  /\ trace = <<>>
  /\ bridgeSummary = NoSummary /\ commandSummary = NoSummary
  /\ lost = {}

StartProcess(f) ==
  /\ ~process.running
  /\ Run < MaxRuns
  /\ plans' = Append(plans, f)
  /\ process' = [Fresh EXCEPT !.batches = process.batches]
  /\ UNCHANGED <<event, trace, bridgeSummary, commandSummary, lost>>

(***************************************************************************)
(* Loading: the layers and the size are those of the cache that comes      *)
(* first, a line beyond the table is counted valid and dropped.  Only the  *)
(* gate of LiveBridge looks at the commands of a file with an invalid      *)
(* line; here they are left out.  Here and below fopen may fail: the file  *)
(* then keeps what it held.                                                *)
(***************************************************************************)
ValidLines(f, c) == {i \in DOMAIN f : ValidCommand(f[i], LayersOf(c), CacheSize[c])}

Stored(f, ready) == IF ready THEN SubSeq(f, 1, Min({Len(f), MaxCommands})) ELSE <<>>

(* Fault: the check of the layer against the cache's layers is dropped.    *)
LoadedAnyLayer(c) ==
  LET f == plans[Run]
      ready == \A i \in DOMAIN f : ValidCommand(f[i], {f[i].layer}, CacheSize[c])
  IN IF f = NoFile
     THEN [process EXCEPT !.done = TRUE, !.loader = c]
     ELSE [process EXCEPT !.done = TRUE, !.loader = c,
             !.ready = ready, !.commands = Stored(f, ready)]

Loaded(c) ==
  LET f == plans[Run]
      ready == ValidLines(f, c) = DOMAIN f
  IN IF f = NoFile
     THEN [process EXCEPT !.done = TRUE, !.loader = c]
     ELSE [process EXCEPT !.done = TRUE, !.loader = c,
             !.ready = ready, !.commands = Stored(f, ready)]

WrittenCommandSummary(c) ==
  LET f == plans[Run]
  IN [run |-> Run,
      valid |-> IF f = NoFile THEN 0 ELSE Cardinality(ValidLines(f, c)),
      status |-> IF f = NoFile THEN "missing_command_file"
                 ELSE IF ValidLines(f, c) = DOMAIN f THEN "ok" ELSE "invalid"]

Started(c, u) == [cache |-> c, ubatch |-> u, layer |-> 1, cursor |-> 0]

ApplyUbatch(c, u) ==
  /\ process.running /\ event = NoEvent
  /\ process.batches < MaxBatches
  /\ LET loaded == IF process.done THEN process ELSE Loaded(c)
     IN /\ process' = [loaded EXCEPT !.batches = @ + 1]
        /\ event' = IF loaded.ready THEN Started(c, u) ELSE NoEvent
  /\ commandSummary' \in
       {commandSummary} \cup IF process.done THEN {} ELSE {WrittenCommandSummary(c)}
  /\ UNCHANGED <<plans, trace, bridgeSummary, lost>>

(***************************************************************************)
(* One layer of the batch: the first match resets the shadow record, every *)
(* match moves it and is appended to the trace.                            *)
(***************************************************************************)
EventKey ==
  [layer |-> CacheLayers[event.cache][event.layer], block |-> event.ubatch.block,
   start |-> event.ubatch.start, end |-> event.ubatch.end]

NextMatching(i) ==
  Min({j \in i .. Len(process.commands) : MatchesRuntime(process.commands[j], EventKey)}
        \cup {Len(process.commands) + 1})

ShadowRoom ==
  \/ EventKey \in DOMAIN process.shadow
  \/ Cardinality(DOMAIN process.shadow) < MaxShadow

SetShadow(location) ==
  IF ShadowRoom
  THEN [k \in DOMAIN process.shadow \cup {EventKey} |->
          IF k = EventKey THEN location ELSE process.shadow[k]]
  ELSE process.shadow

(* Fault: the summary reports the lines found valid, not those stored.     *)
BeginLayerCountsValid ==
  /\ event # NoEvent /\ event.cursor = 0
  /\ LET first == NextMatching(1)
     IN /\ event' = [event EXCEPT !.cursor = first]
        /\ process' = [process EXCEPT
             !.events = Append(@, EventKey),
             !.records = Cardinality(ValidLines(plans[Run], process.loader)),
             !.shadow = IF first \in DOMAIN process.commands
                        THEN SetShadow(process.commands[first].source) ELSE @]
  /\ UNCHANGED <<plans, trace, bridgeSummary, commandSummary, lost>>

BeginLayer ==
  /\ event # NoEvent /\ event.cursor = 0
  /\ LET first == NextMatching(1)
     IN /\ event' = [event EXCEPT !.cursor = first]
        /\ process' = [process EXCEPT
             !.events = Append(@, EventKey), !.records = Len(process.commands),
             !.shadow = IF first \in DOMAIN process.commands
                        THEN SetShadow(process.commands[first].source) ELSE @]
  /\ UNCHANGED <<plans, trace, bridgeSummary, commandSummary, lost>>

(* A full table yields no record: the event then claims a source match.    *)
TraceEvent(c) ==
  LET before == IF EventKey \in DOMAIN process.shadow
                THEN process.shadow[EventKey] ELSE c.source
  IN [run |-> Run, cache |-> event.cache, loader |-> process.loader,
      key |-> EventKey, command |-> c,
      after |-> c.target, sourceMatch |-> before = c.source]

(* A line appended behind a torn one continues it.                         *)
Appended(e) == IF trace # <<>> /\ Last(trace) = Torn THEN trace ELSE Append(trace, e)

ApplyCommand ==
  /\ event # NoEvent /\ event.cursor \in DOMAIN process.commands
  /\ LET c == process.commands[event.cursor]
         e == TraceEvent(c)
     IN /\ process' = [process EXCEPT
             !.shadow = SetShadow(c.target), !.matched = @ + 1,
             !.mismatches = IF e.sourceMatch THEN @ ELSE @ + 1]
        /\ \/ trace' = Appended(e) /\ UNCHANGED lost
           \/ lost' = lost \cup {Run} /\ UNCHANGED trace
  /\ event' = [event EXCEPT !.cursor = NextMatching(event.cursor + 1)]
  /\ UNCHANGED <<plans, bridgeSummary, commandSummary>>

CountWhere(S, P(_)) == Cardinality({x \in S : P(x)})

Located(shadow) ==
  [l \in Locations |-> CountWhere(DOMAIN shadow, LAMBDA k : shadow[k] = l)]

Summary ==
  [run |-> Run, records |-> process.records, matched |-> process.matched,
   mismatches |-> process.mismatches, located |-> Located(process.shadow),
   events |-> process.events]

WriteSummary == bridgeSummary' \in {Summary, bridgeSummary}

EndLayer ==
  /\ event # NoEvent /\ event.cursor = Len(process.commands) + 1
  /\ WriteSummary
  /\ event' = IF event.layer < Len(CacheLayers[event.cache])
              THEN [event EXCEPT !.layer = @ + 1, !.cursor = 0] ELSE NoEvent
  /\ UNCHANGED <<plans, process, trace, commandSummary, lost>>

(* get_k or get_v with the gate enabled; a graph may be reserved, and its  *)
(* views built, before any batch has loaded the file.                      *)
AttentionView ==
  /\ process.running /\ event = NoEvent
  /\ WriteSummary
  /\ UNCHANGED <<plans, process, event, trace, commandSummary, lost>>

Stopped ==
  /\ process' = [Fresh EXCEPT !.running = FALSE, !.batches = process.batches]
  /\ event' = NoEvent

Exit ==
  /\ process.running /\ event = NoEvent
  /\ Stopped
  /\ UNCHANGED <<plans, trace, bridgeSummary, commandSummary, lost>>

(* Killed between two writes, or in the middle of one.                     *)
Kill ==
  /\ process.running
  /\ Stopped
  /\ \/ UNCHANGED <<trace, bridgeSummary, commandSummary>>
     \/ /\ event # NoEvent /\ event.cursor \in DOMAIN process.commands
        /\ trace' = Appended(Torn)
        /\ UNCHANGED <<bridgeSummary, commandSummary>>
     \/ /\ event # NoEvent => event.cursor = Len(process.commands) + 1
        /\ bridgeSummary' = Torn
        /\ UNCHANGED <<trace, commandSummary>>
     \/ /\ ~process.done
        /\ commandSummary' = Torn
        /\ UNCHANGED <<trace, bridgeSummary>>
  /\ UNCHANGED <<plans, lost>>

Next ==
  \/ \E f \in Files : StartProcess(f)
  \/ \E c \in Caches : \E u \in Ubatches[c] : ApplyUbatch(c, u)
  \/ BeginLayer
  \/ ApplyCommand
  \/ EndLayer
  \/ AttentionView
  \/ Exit
  \/ Kill

Spec == Init /\ [][Next]_vars

(***************************************************************************)
(* summarize_command_bridge_trace.                                         *)
(***************************************************************************)
Written(summary) == summary \notin {NoSummary, Torn}

Loadable == trace # <<>> /\ Torn \notin ToSet(trace)

(* Fault: the events are not counted against the runtime's summary.        *)
SummarizesUncounted == Loadable /\ Written(bridgeSummary)

Summarizes ==
  Loadable /\ Written(bridgeSummary) /\ Len(trace) = bridgeSummary.matched

(* Fault: the locations are kept by layer and block, not by token range.   *)
FinalLocationsByBlock ==
  LET last(b) == Max({i \in DOMAIN trace : Block(trace[i].key) = b})
      blocks == {Block(trace[i].key) : i \in DOMAIN trace}
  IN [l \in Locations |-> CountWhere(blocks, LAMBDA b : trace[last(b)].after = l)]

FinalLocations ==
  LET last(k) == Max({i \in DOMAIN trace : trace[i].key = k})
      keys == {trace[i].key : i \in DOMAIN trace}
  IN [l \in Locations |-> CountWhere(keys, LAMBDA k : trace[last(k)].after = l)]

SourceMismatches == CountWhere(DOMAIN trace, LAMBDA i : ~trace[i].sourceMatch)

(***************************************************************************)
(* export_movement_intent_plan: one op per event, and a layout with one    *)
(* range per block; a second range of a block is refused.                  *)
(***************************************************************************)
PlanOps == [i \in DOMAIN trace |-> trace[i].command]

RangeOf(c) == [offset |-> c.offset, size |-> c.size]

(* Fault: the conflict check of the layout is dropped.                     *)
ExportsConflicting == Loadable

Exports ==
  /\ Loadable
  /\ \A c, d \in ToSet(PlanOps) : Block(c) = Block(d) => RangeOf(c) = RangeOf(d)

(* The first range of a block stays.                                       *)
PlanLayout ==
  [b \in {Block(c) : c \in ToSet(PlanOps)} |->
     RangeOf(PlanOps[Min({i \in DOMAIN trace : Block(PlanOps[i]) = b})])]

-----------------------------------------------------------------------------
Exported(f) == f # NoFile /\ \A i \in DOMAIN f : Accepts(f[i], Layout)

(* A trace the summarizer accepts beside an intact summary holds the       *)
(* events of the one process that wrote the summary, unless an append of   *)
(* that process failed: events an earlier or a killed process left in the  *)
(* file never pass for those of the run (command_bridge.py:340).           *)
AcceptedTraceIsOneRun ==
  Summarizes /\ bridgeSummary.run \notin lost =>
    \A i \in DOMAIN trace : trace[i].run = bridgeSummary.run

Records(located) == located["ssd"] + located["dram"] + located["vram"]

(* The locations and the mismatches the summarizer recomputes from an      *)
(* accepted trace are those the runtime counted in its shadow table.  When *)
(* the table was too small, it holds as many blocks as fit, each counted   *)
(* where the trace has left it, and the mismatches still agree             *)
(* (command_bridge.py:344, patch:562).                                     *)
ShadowAccountsAgree ==
  Summarizes /\ bridgeSummary.run \notin lost =>
    LET located == bridgeSummary.located
    IN /\ \A l \in Locations : located[l] <= FinalLocations[l]
       /\ Records(located) = Min({MaxShadow, Records(FinalLocations)})
       /\ SourceMismatches = bridgeSummary.mismatches

(* The tables are static, so the cache that loads the file checks it for   *)
(* all: a command is still only applied to a layer that both the loading   *)
(* cache and the cache of the event have, at a cell both have (patch:2065).*)
PlanStaysInItsCaches ==
  \A i \in DOMAIN trace : trace[i] # Torn =>
    LET e == trace[i]
    IN \A c \in {e.loader, e.cache} :
         e.command.layer \in LayersOf(c) /\ e.command.block < CacheSize[c]

(* The commands due in a run, as pairs of an event and a line of the file  *)
(* that matches it, in the order in which they come.                       *)
Due(events, file) ==
  {d \in (DOMAIN events) \X (DOMAIN file) : MatchesRuntime(file[d[2]], events[d[1]])}

Sooner(c, d) == c[1] < d[1] \/ (c[1] = d[1] /\ c[2] < d[2])

Place(d, due) == Cardinality({c \in due : Sooner(c, d)}) + 1

(* A command beyond the table is dropped without a word (patch:502).  The  *)
(* two summaries of a run betray it: when the command records equal the    *)
(* valid commands, an accepted trace holds, for every layer event of the   *)
(* run, every command of its file that matches, in order, and no other.    *)
DroppedCommandsVisible ==
  /\ Summarizes /\ Written(commandSummary)
  /\ commandSummary.run = bridgeSummary.run /\ bridgeSummary.run \notin lost
  /\ commandSummary.valid = bridgeSummary.records
  => LET file == plans[bridgeSummary.run]
         due == Due(bridgeSummary.events, file)
     IN /\ Len(PlanOps) = Cardinality(due)
        /\ \A d \in due : PlanOps[Place(d, due)] = file[d[2]]

(* A plan made from a trace can be exported again: whatever processes and  *)
(* kills the trace went through, if it is accepted then each op is one the *)
(* command exporter accepts against the plan's own layout, and when the    *)
(* files were exported from one layout the plan's ranges are that one's    *)
(* (movement_intents.py:176, runtime_commands.py).                         *)
IntentsRoundTrip ==
  Exports =>
    /\ (\A i \in DOMAIN plans : plans[i] # NoFile =>
          \A j \in DOMAIN plans[i] : WellFormed(plans[i][j])) =>
         \A c \in ToSet(PlanOps) : Accepts(c, PlanLayout)
    /\ (\A i \in DOMAIN plans : Exported(plans[i])) =>
         \A b \in DOMAIN PlanLayout : PlanLayout[b] = Layout[b]
=============================================================================
