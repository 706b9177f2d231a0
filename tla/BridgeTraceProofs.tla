------------------------- MODULE BridgeTraceProofs --------------------------
(***************************************************************************)
(* What the Python side may conclude from a trace and a summary, for every *)
(* set of command files, caches, batches and table sizes, and for every    *)
(* sequence of processes, kills and failed writes.                         *)
(* Shape says what a process holds and what a line of the trace holds, and *)
(* is inductive alone.  Accounts ties the counters and the shadow table of *)
(* the running process, and those of the summary on disk, to a stretch of  *)
(* consecutive lines of the trace: the last ones for the process, some     *)
(* earlier ones for the summary.  Lines says which commands those lines    *)
(* hold, and that what a summary leaves out shows beside the other one.    *)
(***************************************************************************)
EXTENDS BridgeTrace, FiniteSetTheorems, WellFoundedInduction, TLAPS

EventKeys == [layer : Int, block : Int, start : Int, end : Int]

ShadowTables == UNION {[K -> Locations] : K \in SUBSET EventKeys}

ProcessState ==
  [running : BOOLEAN, done : BOOLEAN, ready : BOOLEAN, commands : Seq(CommandLine),
   loader : Caches \cup {NoCache}, shadow : ShadowTables, records : Nat,
   matched : Nat, mismatches : Nat, batches : Nat, events : Seq(EventKeys)]

BatchState ==
  [cache : Caches, ubatch : [block : Int, start : Int, end : Int],
   layer : Nat, cursor : Nat]

BridgeEvent ==
  [run : Nat, cache : Caches, loader : Caches, key : EventKeys, command : CommandLine,
   after : Locations, sourceMatch : BOOLEAN]

SummaryState ==
  [run : Nat, records : Nat, matched : Nat, mismatches : Nat,
   located : [Locations -> Nat], events : Seq(EventKeys)]

TypeOK ==
  /\ plans \in Seq(Files)
  /\ process \in ProcessState /\ IsFiniteSet(DOMAIN process.shadow)
  /\ event \in BatchState \cup {NoEvent}
  /\ trace \in Seq(BridgeEvent \cup {Torn})
  /\ bridgeSummary \in SummaryState \cup {NoSummary, Torn}

(* A line of some process's command file.                                  *)
InFile(c, p) == plans[p] # NoFile /\ c \in ToSet(plans[p])

CommandsOK ==
  process.ready =>
    /\ process.done /\ process.loader \in Caches
    /\ \A i \in DOMAIN process.commands :
         ValidCommand(process.commands[i], LayersOf(process.loader), CacheSize[process.loader])
    /\ \A i \in DOMAIN process.commands : InFile(process.commands[i], Run)

RunningOK == process.running => Run \in DOMAIN plans

EventOK ==
  event # NoEvent =>
    /\ process.running /\ process.ready
    /\ event.ubatch \in Ubatches[event.cache]
    /\ event.layer \in DOMAIN CacheLayers[event.cache]
    /\ event.cursor \in 0 .. Len(process.commands) + 1
    /\ event.cursor \in DOMAIN process.commands =>
         MatchesRuntime(process.commands[event.cursor], EventKey)

StaysIn(e) ==
  \A c \in {e.loader, e.cache} :
    e.command.layer \in LayersOf(c) /\ e.command.block < CacheSize[c]

LineOK(e) ==
  e # Torn => StaysIn(e) /\ \E p \in DOMAIN plans : InFile(e.command, p)

TraceOK == \A i \in DOMAIN trace : LineOK(trace[i])

Shape == TypeOK /\ CommandsOK /\ RunningOK /\ EventOK /\ TraceOK

-----------------------------------------------------------------------------
LEMMA MinOf ==
  ASSUME NEW S \in SUBSET Nat, S # {}
  PROVE  Min(S) \in S /\ \A y \in S : Min(S) <= y
<1>1. PICK x \in S : \A y \in S : ~(<<y, x>> \in OpToRel(<, Nat))
  BY NatLessThanWellFounded, WFMin
<1>2. \A y \in S : ~(y < x)
  BY <1>1 DEF OpToRel
<1>3. \A y \in S : x <= y
  BY <1>2
<1>4. QED
  BY <1>3 DEF Min

LEMMA MaxOf ==
  ASSUME NEW n \in Nat, NEW S \in SUBSET (1 .. n), S # {}
  PROVE  Max(S) \in S /\ \A y \in S : Max(S) >= y
<1> DEFINE T == {y \in 0 .. n : n - y \in S}
<1>1. T \in SUBSET Nat
  OBVIOUS
<1>2. \A x \in S : n - x \in T
  <2>1. TAKE x \in S
  <2>2. x \in 1 .. n /\ n - x \in 0 .. n /\ n - (n - x) = x
    OBVIOUS
  <2>3. QED
    BY <2>2
<1>3. PICK d \in T : \A y \in T : d <= y
  <2>1. T # {}
    BY <1>2
  <2> HIDE DEF T
  <2>2. QED
    BY <1>1, <2>1, MinOf
<1>4. n - d \in S /\ d \in 0 .. n
  BY <1>3
<1>5. \A y \in S : n - d >= y
  <2>1. TAKE y \in S
  <2>2. d <= n - y /\ y \in 1 .. n
    BY <1>2, <1>3
  <2>3. QED
    BY <1>4, <2>2
<1>6. QED
  BY <1>4, <1>5 DEF Max

(* The first match from i on is a match, or there is none.                 *)
LEMMA NextMatchingIs ==
  ASSUME Shape, NEW i \in Nat
  PROVE  /\ NextMatching(i) \in 0 .. Len(process.commands) + 1
         /\ NextMatching(i) \in DOMAIN process.commands =>
              MatchesRuntime(process.commands[NextMatching(i)], EventKey)
<1> DEFINE M == {j \in i .. Len(process.commands) :
                   MatchesRuntime(process.commands[j], EventKey)}
           S == M \cup {Len(process.commands) + 1}
<1>1. /\ Len(process.commands) \in Nat
      /\ DOMAIN process.commands = 1 .. Len(process.commands)
  BY DEF Shape, TypeOK, ProcessState
<1>2. M \subseteq Nat /\ M \subseteq 0 .. Len(process.commands)
  BY <1>1
<1>3. S \in SUBSET Nat /\ S # {}
  BY <1>1, <1>2
<1>4. Min(S) \in S
  <2> HIDE DEF S
  <2>1. QED
    BY <1>3, MinOf
<1>5. NextMatching(i) = Min(S)
  BY DEF NextMatching
<1>6. NextMatching(i) \in S
  BY <1>4, <1>5
<1>7. NextMatching(i) \in DOMAIN process.commands => NextMatching(i) \in M
  BY <1>1, <1>6
<1>8. QED
  BY <1>1, <1>2, <1>6, <1>7

LEMMA EventKeyType ==
  ASSUME Shape, event # NoEvent
  PROVE  /\ event \in BatchState
         /\ EventKey \in EventKeys
         /\ EventKey.layer = CacheLayers[event.cache][event.layer]
         /\ EventKey.block = event.ubatch.block
<1>1. event \in BatchState /\ event.layer \in DOMAIN CacheLayers[event.cache]
  BY DEF Shape, TypeOK, EventOK
<1>2. event.cache \in Caches /\ event.ubatch \in [block : Int, start : Int, end : Int]
  BY <1>1 DEF BatchState
<1>3. CacheLayers[event.cache] \in Seq(Int)
  BY <1>2, TraceAssumption
<1>4. CacheLayers[event.cache][event.layer] \in Int
  BY <1>1, <1>3
<1>5. QED
  BY <1>1, <1>2, <1>4 DEF EventKey, EventKeys

LEMMA SetShadowType ==
  ASSUME Shape, event # NoEvent, NEW l \in Locations
  PROVE  /\ SetShadow(l) \in ShadowTables
         /\ IsFiniteSet(DOMAIN SetShadow(l))
<1>1. EventKey \in EventKeys
  BY EventKeyType
<1>2. PICK K \in SUBSET EventKeys : process.shadow \in [K -> Locations]
  BY DEF Shape, TypeOK, ProcessState, ShadowTables
<1>3. DOMAIN process.shadow = K /\ IsFiniteSet(K)
  BY <1>2 DEF Shape, TypeOK
<1>4. CASE ~ShadowRoom
  BY <1>2, <1>3, <1>4 DEF SetShadow, ShadowTables
<1>5. CASE ShadowRoom
  <2>1. SetShadow(l) = [k \in K \cup {EventKey} |->
                          IF k = EventKey THEN l ELSE process.shadow[k]]
    BY <1>3, <1>5 DEF SetShadow
  <2>2. SetShadow(l) \in [K \cup {EventKey} -> Locations]
    BY <1>2, <2>1
  <2>3. IsFiniteSet(K \cup {EventKey})
    BY <1>3, FS_AddElement
  <2>4. K \cup {EventKey} \in SUBSET EventKeys
    BY <1>1
  <2>5. QED
    BY <2>1, <2>2, <2>3, <2>4 DEF ShadowTables
<1>6. QED
  BY <1>4, <1>5

-----------------------------------------------------------------------------
(* Loading: the commands stored are lines of the file that passed the      *)
(* checks against the loading cache.                                       *)
LEMMA StoredIs ==
  ASSUME NEW f \in Seq(CommandLine)
  PROVE  /\ Stored(f, TRUE) \in Seq(CommandLine)
         /\ \A i \in DOMAIN Stored(f, TRUE) :
              i \in DOMAIN f /\ Stored(f, TRUE)[i] = f[i]
<1> DEFINE n == Min({Len(f), MaxCommands})
<1>1. n \in 0 .. Len(f)
  <2> DEFINE S == {Len(f), MaxCommands}
  <2>1. S \in SUBSET Nat /\ S # {} /\ Len(f) \in S /\ Len(f) \in Nat
    BY TraceAssumption
  <2> HIDE DEF S
  <2>2. Min(S) \in S /\ \A y \in S : Min(S) <= y
    BY <2>1, MinOf
  <2>3. Min(S) \in Nat /\ Min(S) <= Len(f)
    BY <2>1, <2>2
  <2>4. Min(S) \in 0 .. Len(f)
    BY <2>1, <2>3
  <2>5. QED
    BY <2>4 DEF S
<1>2. Stored(f, TRUE) = SubSeq(f, 1, n)
  BY DEF Stored
<1> HIDE DEF n
<1>3. SubSeq(f, 1, n) \in Seq(CommandLine) /\ Len(SubSeq(f, 1, n)) = n
  BY <1>1
<1>4. \A i \in 1 .. n : SubSeq(f, 1, n)[i] = f[i]
  BY <1>1
<1>5. DOMAIN SubSeq(f, 1, n) = 1 .. n /\ DOMAIN f = 1 .. Len(f) /\ Len(f) \in Nat
  BY <1>3
<1>6. \A i \in DOMAIN SubSeq(f, 1, n) : i \in DOMAIN f /\ SubSeq(f, 1, n)[i] = f[i]
  BY <1>1, <1>4, <1>5
<1>7. QED
  BY <1>2, <1>3, <1>6, Zenon

LEMMA LoadedIs ==
  ASSUME Shape, process.running, ~process.done, NEW c \in Caches
  PROVE  /\ Loaded(c) \in ProcessState
         /\ Loaded(c).running /\ Loaded(c).done
         /\ Loaded(c).shadow = process.shadow
         /\ Loaded(c).matched = process.matched
         /\ Loaded(c).mismatches = process.mismatches
         /\ Loaded(c).ready =>
              /\ Loaded(c).loader \in Caches
              /\ \A i \in DOMAIN Loaded(c).commands :
                   /\ ValidCommand(Loaded(c).commands[i], LayersOf(Loaded(c).loader),
                                   CacheSize[Loaded(c).loader])
                   /\ InFile(Loaded(c).commands[i], Run)
<1> DEFINE f == plans[Run]
           ready == ValidLines(f, c) = DOMAIN f
<1>1. process \in ProcessState /\ ~process.ready
  BY DEF Shape, TypeOK, CommandsOK
<1>2. f \in Files
  BY DEF Shape, TypeOK, RunningOK
<1>3. CASE f = NoFile
  <2>1. Loaded(c) = [process EXCEPT !.done = TRUE, !.loader = c]
    BY <1>3 DEF Loaded
  <2>2. QED
    BY <1>1, <2>1 DEF ProcessState
<1>4. CASE f # NoFile
  <2> DEFINE stored == Stored(f, ready)
  <2>1. Loaded(c) = [process EXCEPT !.done = TRUE, !.loader = c,
                       !.ready = ready, !.commands = stored]
    BY <1>4 DEF Loaded
  <2>2. f \in Seq(CommandLine)
    BY <1>2, <1>4, FileAssumption
  <2>3. stored \in Seq(CommandLine)
    <3>1. CASE ready
      BY <2>2, <3>1, StoredIs DEF Stored
    <3>2. CASE ~ready
      BY <3>2 DEF Stored
    <3>3. QED
      BY <3>1, <3>2
  <2>4. ready => \A i \in DOMAIN stored :
                   /\ ValidCommand(stored[i], LayersOf(c), CacheSize[c])
                   /\ stored[i] \in ToSet(f)
    <3>1. SUFFICES ASSUME ready, NEW i \in DOMAIN stored
                   PROVE  /\ ValidCommand(stored[i], LayersOf(c), CacheSize[c])
                          /\ stored[i] \in ToSet(f)
      OBVIOUS
    <3>2. stored = Stored(f, TRUE)
      BY <3>1 DEF Stored
    <3>3. i \in DOMAIN f /\ stored[i] = f[i]
      BY <2>2, <3>1, <3>2, StoredIs
    <3>4. ValidCommand(f[i], LayersOf(c), CacheSize[c])
      BY <3>1, <3>3 DEF ValidLines
    <3>5. QED
      BY <3>3, <3>4 DEF ToSet
  <2>5. ready \in BOOLEAN
    OBVIOUS
  <2> HIDE DEF ready, stored
  <2>6. Loaded(c) \in ProcessState
    BY <1>1, <2>1, <2>3, <2>5 DEF ProcessState
  <2>7. /\ Loaded(c).running = process.running /\ Loaded(c).done
        /\ Loaded(c).shadow = process.shadow
        /\ Loaded(c).matched = process.matched
        /\ Loaded(c).mismatches = process.mismatches
        /\ Loaded(c).ready = ready /\ Loaded(c).loader = c
        /\ Loaded(c).commands = stored
    BY <1>1, <2>1 DEF ProcessState
  <2>8. QED
    BY <1>4, <2>4, <2>6, <2>7 DEF InFile
<1>5. QED
  BY <1>3, <1>4

-----------------------------------------------------------------------------
(* Shape is inductive.                                                     *)
LEMMA FreshType ==
  /\ Fresh \in ProcessState
  /\ Fresh.shadow = <<>> /\ DOMAIN Fresh.shadow = {} /\ IsFiniteSet({})
  /\ Fresh.ready = FALSE /\ Fresh.matched = 0 /\ Fresh.mismatches = 0
<1>1. <<>> \in ShadowTables /\ DOMAIN <<>> = {}
  <2>1. <<>> \in [{} -> Locations]
    OBVIOUS
  <2>2. QED
    BY <2>1 DEF ShadowTables
<1>2. <<>> \in Seq(CommandLine) /\ <<>> \in Seq(EventKeys)
  OBVIOUS
<1>3. IsFiniteSet({})
  BY FS_EmptySet
<1>4. QED
  BY <1>1, <1>2, <1>3 DEF Fresh, ProcessState

LEMMA InitShape == Init => Shape
<1>1. SUFFICES ASSUME Init PROVE Shape
  OBVIOUS
<1>2. process = [Fresh EXCEPT !.running = FALSE]
  BY <1>1 DEF Init
<1>3. /\ process \in ProcessState /\ DOMAIN process.shadow = {}
      /\ ~process.ready /\ ~process.running
  BY <1>2, FreshType DEF ProcessState
<1>4. TypeOK
  <2>1. plans \in Seq(Files) /\ trace \in Seq(BridgeEvent \cup {Torn})
    BY <1>1 DEF Init
  <2>2. QED
    BY <1>1, <1>3, <2>1, FS_EmptySet DEF Init, TypeOK
<1>5. QED
  BY <1>1, <1>3, <1>4 DEF Init, Shape, CommandsOK, RunningOK, EventOK, TraceOK

LEMMA StartProcessShape ==
  ASSUME Shape, NEW f \in Files, StartProcess(f)
  PROVE  Shape'
<1>1. /\ plans' = Append(plans, f) /\ plans \in Seq(Files)
      /\ process' = [Fresh EXCEPT !.batches = process.batches]
      /\ UNCHANGED <<event, trace, bridgeSummary, commandSummary, lost>>
  BY DEF Shape, TypeOK, StartProcess
<1>2. /\ plans' \in Seq(Files) /\ Len(plans') = Len(plans) + 1 /\ Len(plans) \in Nat
      /\ \A p \in DOMAIN plans : p \in DOMAIN plans' /\ plans'[p] = plans[p]
  BY <1>1
<1>3. /\ process' \in ProcessState /\ DOMAIN process'.shadow = {}
      /\ ~process'.ready
  <2>1. process.batches \in Nat
    BY DEF Shape, TypeOK, ProcessState
  <2>2. QED
    BY <1>1, <2>1, FreshType DEF ProcessState
<1>4. event = NoEvent
  BY DEF StartProcess, Shape, EventOK
<1>5. TypeOK'
  BY <1>1, <1>2, <1>3, FS_EmptySet DEF Shape, TypeOK
<1>6. RunningOK'
  BY <1>2 DEF RunningOK, Run
<1>7. TraceOK'
  <2>1. \A c : \A p \in DOMAIN plans : InFile(c, p) => InFile(c, p)'
    BY <1>2 DEF InFile
  <2>2. SUFFICES ASSUME NEW i \in DOMAIN trace PROVE LineOK(trace[i])'
    BY <1>1 DEF TraceOK
  <2>3. LineOK(trace[i]) /\ trace' = trace
    BY <1>1 DEF Shape, TraceOK
  <2>4. QED
    BY <1>2, <2>1, <2>3 DEF LineOK, StaysIn
<1>8. QED
  BY <1>1, <1>3, <1>4, <1>5, <1>6, <1>7 DEF Shape, CommandsOK, EventOK

LEMMA ApplyUbatchShape ==
  ASSUME Shape, NEW c \in Caches, NEW u \in Ubatches[c], ApplyUbatch(c, u)
  PROVE  Shape'
<1> DEFINE loaded == IF process.done THEN process ELSE Loaded(c)
<1>1. /\ process.running /\ event = NoEvent
      /\ process' = [loaded EXCEPT !.batches = @ + 1]
      /\ event' = IF loaded.ready THEN Started(c, u) ELSE NoEvent
      /\ UNCHANGED <<plans, trace, bridgeSummary>>
  BY DEF ApplyUbatch
<1>2. /\ loaded \in ProcessState /\ loaded.running /\ loaded.done
      /\ loaded.shadow = process.shadow
      /\ loaded.ready =>
           /\ loaded.loader \in Caches
           /\ \A i \in DOMAIN loaded.commands :
                /\ ValidCommand(loaded.commands[i], LayersOf(loaded.loader),
                                CacheSize[loaded.loader])
                /\ InFile(loaded.commands[i], Run)
  <2>1. CASE process.done
    BY <1>1, <2>1 DEF Shape, TypeOK, CommandsOK
  <2>2. CASE ~process.done
    BY <1>1, <2>2, LoadedIs
  <2>3. QED
    BY <2>1, <2>2
<1> HIDE DEF loaded
<1>3. /\ process' \in ProcessState /\ process'.running /\ process'.done
      /\ process'.shadow = process.shadow /\ process'.ready = loaded.ready
      /\ process'.loader = loaded.loader /\ process'.commands = loaded.commands
  BY <1>1, <1>2 DEF ProcessState
<1>4. CommandsOK'
  BY <1>1, <1>2, <1>3 DEF CommandsOK, InFile, Run
<1>5. RunningOK'
  BY <1>1 DEF Shape, RunningOK, Run
<1>6. /\ u \in [block : Int, start : Int, end : Int]
      /\ CacheLayers[c] \in Seq(Int) /\ CacheLayers[c] # <<>>
  BY TraceAssumption
<1>7. event' \in BatchState \cup {NoEvent} /\ EventOK'
  <2>1. CASE ~loaded.ready
    BY <1>1, <2>1 DEF EventOK
  <2>2. CASE loaded.ready
    <3>1. event' = [cache |-> c, ubatch |-> u, layer |-> 1, cursor |-> 0]
      BY <1>1, <2>2 DEF Started
    <3>2. 1 \in DOMAIN CacheLayers[c]
      BY <1>6
    <3>3. Len(process'.commands) \in Nat /\ 0 \notin DOMAIN process'.commands
      BY <1>3 DEF ProcessState
    <3>4. QED
      BY <1>3, <1>6, <2>2, <3>1, <3>2, <3>3 DEF BatchState, EventOK
  <2>3. QED
    BY <2>1, <2>2
<1>8. TypeOK'
  BY <1>1, <1>3, <1>7 DEF Shape, TypeOK
<1>9. TraceOK'
  BY <1>1 DEF Shape, TraceOK, LineOK, StaysIn, InFile
<1>10. QED
  BY <1>4, <1>5, <1>7, <1>8, <1>9 DEF Shape

LEMMA BeginLayerShape ==
  ASSUME Shape, BeginLayer
  PROVE  Shape'
<1> DEFINE first == NextMatching(1)
           table == IF first \in DOMAIN process.commands
                    THEN SetShadow(process.commands[first].source) ELSE process.shadow
<1>1. /\ event # NoEvent /\ event.cursor = 0
      /\ event' = [event EXCEPT !.cursor = first]
      /\ process' = [process EXCEPT !.events = Append(@, EventKey),
                       !.records = Len(process.commands), !.shadow = table]
      /\ UNCHANGED <<plans, trace, bridgeSummary>>
  BY DEF BeginLayer
<1>2. /\ process \in ProcessState /\ event \in BatchState /\ EventKey \in EventKeys
      /\ IsFiniteSet(DOMAIN process.shadow) /\ process.shadow \in ShadowTables
      /\ process.ready
  BY <1>1, EventKeyType DEF Shape, TypeOK, ProcessState, EventOK
<1>3. table \in ShadowTables /\ IsFiniteSet(DOMAIN table)
  <2>1. CASE first \in DOMAIN process.commands
    <3>1. process.commands[first].source \in Locations
      BY <1>2, <2>1 DEF Shape, CommandsOK, ValidCommand
    <3>2. QED
      BY <1>1, <2>1, <3>1, SetShadowType
  <2>2. CASE first \notin DOMAIN process.commands
    BY <1>2, <2>2
  <2>3. QED
    BY <2>1, <2>2
<1>4. /\ first \in 0 .. Len(process.commands) + 1
      /\ first \in DOMAIN process.commands =>
           MatchesRuntime(process.commands[first], EventKey)
  BY NextMatchingIs
<1> HIDE DEF first, table
<1>5. /\ process' \in ProcessState /\ process'.shadow = table
      /\ process'.running = process.running /\ process'.ready = process.ready
      /\ process'.done = process.done /\ process'.loader = process.loader
      /\ process'.commands = process.commands
  <2>1. Append(process.events, EventKey) \in Seq(EventKeys) /\ Len(process.commands) \in Nat
    BY <1>2 DEF ProcessState
  <2>2. QED
    BY <1>1, <1>2, <1>3, <2>1 DEF ProcessState
<1>6. /\ event' \in BatchState /\ event'.cache = event.cache
      /\ event'.ubatch = event.ubatch /\ event'.layer = event.layer /\ event'.cursor = first
  <2>1. first \in Nat
    BY <1>2, <1>4 DEF ProcessState
  <2>2. QED
    BY <1>1, <1>2, <2>1 DEF BatchState
<1>7. EventKey' = EventKey
  BY <1>6 DEF EventKey
<1>8. EventOK'
  BY <1>1, <1>4, <1>5, <1>6, <1>7 DEF Shape, EventOK
<1>9. TypeOK'
  BY <1>1, <1>3, <1>5, <1>6 DEF Shape, TypeOK
<1>10. CommandsOK' /\ RunningOK'
  BY <1>1, <1>5 DEF Shape, CommandsOK, RunningOK, InFile, Run
<1>11. TraceOK'
  BY <1>1 DEF Shape, TraceOK, LineOK, StaysIn, InFile
<1>12. QED
  BY <1>8, <1>9, <1>10, <1>11 DEF Shape

(* The line an applied command would add.                                  *)
LEMMA AppliedLine ==
  ASSUME Shape, event # NoEvent, event.cursor \in DOMAIN process.commands,
         NEW c, c = process.commands[event.cursor], NEW e, e = TraceEvent(c)
  PROVE  /\ c \in CommandLine /\ c.source \in Locations /\ c.target \in Locations
         /\ e \in BridgeEvent /\ StaysIn(e)
         /\ e.key = EventKey /\ e.run = Run /\ e.command = c /\ e.after = c.target
         /\ InFile(c, Run) /\ Run \in DOMAIN plans
<1>1. /\ process \in ProcessState /\ event \in BatchState /\ EventKey \in EventKeys
      /\ process.ready /\ process.running
      /\ EventKey.layer = CacheLayers[event.cache][event.layer]
      /\ EventKey.block = event.ubatch.block
  BY EventKeyType DEF Shape, TypeOK, EventOK
<1>2. /\ process.loader \in Caches /\ event.cache \in Caches
      /\ ValidCommand(c, LayersOf(process.loader), CacheSize[process.loader])
      /\ InFile(c, Run)
  BY <1>1 DEF Shape, CommandsOK, BatchState
<1>3. MatchesRuntime(c, EventKey)
  BY DEF Shape, EventOK
<1>4. Run \in DOMAIN plans /\ Run \in Nat
  BY <1>1 DEF Shape, RunningOK, TypeOK, Run
<1>5. c \in CommandLine
  BY <1>1 DEF ProcessState
<1>6. c.source \in Locations /\ c.target \in Locations
  BY <1>2 DEF ValidCommand
<1>7. /\ e.run = Run /\ e.cache = event.cache /\ e.loader = process.loader
      /\ e.key = EventKey /\ e.command = c /\ e.after = c.target
      /\ e \in BridgeEvent
  BY <1>1, <1>2, <1>4, <1>5, <1>6 DEF TraceEvent, BridgeEvent
<1>8. c.layer \in LayersOf(event.cache) /\ c.block < CacheSize[event.cache]
  <2>1. /\ event.ubatch \in Ubatches[event.cache]
        /\ event.layer \in DOMAIN CacheLayers[event.cache]
    BY DEF Shape, EventOK
  <2>2. event.ubatch.block < CacheSize[event.cache]
    BY <1>2, <2>1, TraceAssumption
  <2>3. QED
    BY <1>1, <1>3, <2>1, <2>2 DEF MatchesRuntime, LayersOf, ToSet
<1>9. StaysIn(e)
  BY <1>2, <1>7, <1>8 DEF StaysIn, ValidCommand
<1>10. QED
  BY <1>2, <1>4, <1>5, <1>6, <1>7, <1>9

LEMMA AppendedType ==
  ASSUME NEW S, NEW e, trace \in Seq(S), e \in S
  PROVE  /\ Appended(e) \in Seq(S)
         /\ \A i \in DOMAIN Appended(e) : Appended(e)[i] = e \/
              (i \in DOMAIN trace /\ Appended(e)[i] = trace[i])
<1>1. CASE trace # <<>> /\ Last(trace) = Torn
  BY <1>1 DEF Appended
<1>2. CASE ~(trace # <<>> /\ Last(trace) = Torn)
  <2>1. Appended(e) = Append(trace, e)
    BY <1>2 DEF Appended
  <2>2. QED
    BY <2>1
<1>3. QED
  BY <1>1, <1>2

LEMMA ApplyCommandShape ==
  ASSUME Shape, ApplyCommand
  PROVE  Shape'
<1> DEFINE c == process.commands[event.cursor]
           e == TraceEvent(c)
           next == NextMatching(event.cursor + 1)
<1>1. /\ event # NoEvent /\ event.cursor \in DOMAIN process.commands
      /\ process' = [process EXCEPT !.shadow = SetShadow(c.target), !.matched = @ + 1,
                       !.mismatches = IF e.sourceMatch THEN @ ELSE @ + 1]
      /\ trace' \in {Appended(e), trace}
      /\ event' = [event EXCEPT !.cursor = next]
      /\ UNCHANGED <<plans, bridgeSummary>>
  BY DEF ApplyCommand
<1>2. /\ c.target \in Locations /\ e \in BridgeEvent /\ StaysIn(e)
      /\ InFile(e.command, Run) /\ Run \in DOMAIN plans
  BY <1>1, AppliedLine
<1>3. /\ process \in ProcessState /\ event \in BatchState
      /\ SetShadow(c.target) \in ShadowTables /\ IsFiniteSet(DOMAIN SetShadow(c.target))
  BY <1>1, <1>2, SetShadowType DEF Shape, TypeOK
<1>4. event.cursor + 1 \in Nat
  BY <1>3 DEF BatchState
<1>5. /\ next \in 0 .. Len(process.commands) + 1
      /\ next \in DOMAIN process.commands =>
           MatchesRuntime(process.commands[next], EventKey)
  BY <1>4, NextMatchingIs
<1> HIDE DEF c, e, next
<1>6. /\ process' \in ProcessState /\ process'.shadow = SetShadow(c.target)
      /\ process'.running = process.running /\ process'.ready = process.ready
      /\ process'.done = process.done /\ process'.loader = process.loader
      /\ process'.commands = process.commands
  <2> DEFINE table == SetShadow(c.target)
             count == IF e.sourceMatch THEN process.mismatches ELSE process.mismatches + 1
  <2>1. count \in Nat /\ process.matched + 1 \in Nat /\ table \in ShadowTables
    BY <1>3 DEF ProcessState
  <2>2. process' = [process EXCEPT !.shadow = table, !.matched = process.matched + 1,
                      !.mismatches = count]
    BY <1>1
  <2> HIDE DEF table, count
  <2>3. QED
    BY <1>3, <2>1, <2>2 DEF ProcessState, table
<1>7. /\ event' \in BatchState /\ event'.cache = event.cache
      /\ event'.ubatch = event.ubatch /\ event'.layer = event.layer /\ event'.cursor = next
  <2>1. next \in Nat
    BY <1>3, <1>5 DEF ProcessState
  <2>2. QED
    BY <1>1, <1>3, <2>1 DEF BatchState
<1>8. EventKey' = EventKey
  BY <1>7 DEF EventKey
<1>9. EventOK'
  BY <1>1, <1>5, <1>6, <1>7, <1>8 DEF Shape, EventOK
<1>10. /\ trace' \in Seq(BridgeEvent \cup {Torn})
       /\ \A i \in DOMAIN trace' : trace'[i] = e \/
              (i \in DOMAIN trace /\ trace'[i] = trace[i])
  <2>1. trace \in Seq(BridgeEvent \cup {Torn})
    BY DEF Shape, TypeOK
  <2>2. QED
    BY <1>1, <1>2, <2>1, AppendedType
<1>11. TypeOK'
  BY <1>1, <1>3, <1>6, <1>7, <1>10 DEF Shape, TypeOK
<1>12. CommandsOK' /\ RunningOK'
  BY <1>1, <1>6 DEF Shape, CommandsOK, RunningOK, InFile, Run
<1>13. TraceOK'
  <2>1. LineOK(e)
    BY <1>2 DEF LineOK
  <2>2. \A i \in DOMAIN trace' : LineOK(trace'[i])
    BY <1>10, <2>1 DEF Shape, TraceOK
  <2>3. QED
    BY <1>1, <2>2 DEF TraceOK, LineOK, StaysIn, InFile
<1>14. QED
  BY <1>9, <1>11, <1>12, <1>13 DEF Shape

LEMMA WriteSummaryType ==
  ASSUME Shape, WriteSummary
  PROVE  bridgeSummary' \in SummaryState \cup {NoSummary, Torn}
<1>1. /\ process \in ProcessState /\ IsFiniteSet(DOMAIN process.shadow)
      /\ bridgeSummary \in SummaryState \cup {NoSummary, Torn}
      /\ Run \in Nat
  BY DEF Shape, TypeOK, Run
<1>2. Located(process.shadow) \in [Locations -> Nat]
  <2>1. \A l \in Locations :
          Cardinality({k \in DOMAIN process.shadow : process.shadow[k] = l}) \in Nat
    <3>1. TAKE l \in Locations
    <3>2. IsFiniteSet({k \in DOMAIN process.shadow : process.shadow[k] = l})
      BY <1>1, FS_Subset
    <3>3. QED
      BY <3>2, FS_CardinalityType
  <2>2. QED
    BY <2>1 DEF Located, CountWhere
<1>3. Summary \in SummaryState
  BY <1>1, <1>2 DEF Summary, SummaryState, ProcessState
<1>4. QED
  BY <1>1, <1>3 DEF WriteSummary

LEMMA EndLayerShape ==
  ASSUME Shape, EndLayer
  PROVE  Shape'
<1>1. /\ event # NoEvent /\ event \in BatchState
      /\ event' = IF event.layer < Len(CacheLayers[event.cache])
                  THEN [event EXCEPT !.layer = @ + 1, !.cursor = 0] ELSE NoEvent
      /\ UNCHANGED <<plans, process, trace>>
  BY DEF EndLayer, Shape, TypeOK
<1>2. bridgeSummary' \in SummaryState \cup {NoSummary, Torn}
  BY WriteSummaryType DEF EndLayer
<1>3. event' \in BatchState \cup {NoEvent} /\ EventOK'
  <2>1. CASE event.layer < Len(CacheLayers[event.cache])
    <3>1. /\ event' \in BatchState /\ event'.cache = event.cache
          /\ event'.ubatch = event.ubatch /\ event'.layer = event.layer + 1
          /\ event'.cursor = 0
      <4>1. event.layer + 1 \in Nat /\ 0 \in Nat
        BY <1>1 DEF BatchState
      <4>2. event' = [event EXCEPT !.layer = event.layer + 1, !.cursor = 0]
        BY <1>1, <2>1
      <4>3. QED
        BY <1>1, <4>1, <4>2 DEF BatchState
    <3>2. event.layer \in DOMAIN CacheLayers[event.cache]
      BY <1>1 DEF Shape, EventOK
    <3>3. CacheLayers[event.cache] \in Seq(Int)
      BY <1>1, TraceAssumption DEF BatchState
    <3>4. event'.layer \in DOMAIN CacheLayers[event.cache]
      BY <2>1, <3>1, <3>2, <3>3
    <3>5. Len(process.commands) \in Nat /\ 0 \notin DOMAIN process.commands
      BY DEF Shape, TypeOK, ProcessState
    <3>6. QED
      BY <1>1, <3>1, <3>4, <3>5 DEF Shape, EventOK
  <2>2. CASE ~(event.layer < Len(CacheLayers[event.cache]))
    BY <1>1, <2>2 DEF EventOK
  <2>3. QED
    BY <2>1, <2>2
<1>4. TypeOK'
  BY <1>1, <1>2, <1>3 DEF Shape, TypeOK
<1>5. CommandsOK' /\ RunningOK' /\ TraceOK'
  BY <1>1 DEF Shape, CommandsOK, RunningOK, TraceOK, LineOK, StaysIn, InFile, Run
<1>6. QED
  BY <1>3, <1>4, <1>5 DEF Shape

LEMMA AttentionViewShape ==
  ASSUME Shape, AttentionView
  PROVE  Shape'
<1>1. bridgeSummary' \in SummaryState \cup {NoSummary, Torn}
  BY WriteSummaryType DEF AttentionView
<1>2. event = NoEvent /\ UNCHANGED <<plans, process, event, trace>>
  BY DEF AttentionView
<1>3. QED
  BY <1>1, <1>2 DEF Shape, TypeOK, CommandsOK, RunningOK, EventOK, TraceOK, LineOK,
                    StaysIn, InFile, Run

LEMMA StoppedShape ==
  ASSUME Shape, Stopped, UNCHANGED plans,
         trace' \in {trace, Appended(Torn)}, bridgeSummary' \in {bridgeSummary, Torn}
  PROVE  Shape'
<1>1. /\ process' \in ProcessState /\ DOMAIN process'.shadow = {}
      /\ ~process'.ready /\ ~process'.running
  <2>1. process.batches \in Nat
    BY DEF Shape, TypeOK, ProcessState
  <2>2. QED
    BY <2>1, FreshType DEF Stopped, ProcessState
<1>2. /\ trace' \in Seq(BridgeEvent \cup {Torn})
      /\ \A i \in DOMAIN trace' : trace'[i] = Torn \/
              (i \in DOMAIN trace /\ trace'[i] = trace[i])
  <2>1. trace \in Seq(BridgeEvent \cup {Torn}) /\ Torn \in BridgeEvent \cup {Torn}
    BY DEF Shape, TypeOK
  <2>2. QED
    BY <2>1, AppendedType
<1>3. TypeOK'
  BY <1>1, <1>2, FS_EmptySet DEF Shape, TypeOK, Stopped
<1>4. TraceOK'
  <2>1. \A i \in DOMAIN trace' : LineOK(trace'[i])
    BY <1>2 DEF Shape, TraceOK, LineOK
  <2>2. QED
    BY <2>1 DEF TraceOK, LineOK, StaysIn, InFile
<1>5. QED
  BY <1>1, <1>3, <1>4 DEF Shape, CommandsOK, RunningOK, EventOK, Stopped

LEMMA KillWrites ==
  ASSUME Kill
  PROVE  /\ Stopped /\ UNCHANGED <<plans, lost>>
         /\ trace' \in {trace, Appended(Torn)} /\ bridgeSummary' \in {bridgeSummary, Torn}
BY DEF Kill

LEMMA NextShape == Shape /\ [Next]_vars => Shape'
<1>1. SUFFICES ASSUME Shape, [Next]_vars PROVE Shape'
  OBVIOUS
<1>2. CASE \E f \in Files : StartProcess(f)
  BY <1>1, <1>2, StartProcessShape
<1>3. CASE \E c \in Caches : \E u \in Ubatches[c] : ApplyUbatch(c, u)
  BY <1>1, <1>3, ApplyUbatchShape
<1>4. CASE BeginLayer
  BY <1>1, <1>4, BeginLayerShape
<1>5. CASE ApplyCommand
  BY <1>1, <1>5, ApplyCommandShape
<1>6. CASE EndLayer
  BY <1>1, <1>6, EndLayerShape
<1>7. CASE AttentionView
  BY <1>1, <1>7, AttentionViewShape
<1>8. CASE Exit
  BY <1>1, <1>8, StoppedShape DEF Exit
<1>9. CASE Kill
  BY <1>1, <1>9, KillWrites, StoppedShape
<1>10. CASE UNCHANGED vars
  BY <1>1, <1>10 DEF vars, Shape, TypeOK, CommandsOK, RunningOK, EventOK, TraceOK, LineOK,
                     StaysIn, InFile, Run, EventKey
<1>11. QED
  BY <1>1, <1>2, <1>3, <1>4, <1>5, <1>6, <1>7, <1>8, <1>9, <1>10 DEF Next

LEMMA ShapeHolds == Spec => []Shape
BY InitShape, NextShape, PTL DEF Spec

(* A command reaches the trace only for a layer and a cell that both the   *)
(* cache that loaded the file and the cache of the event have.             *)
THEOREM PlanStaysInItsCachesHolds == Spec => []PlanStaysInItsCaches
<1>1. Shape => PlanStaysInItsCaches
  BY DEF Shape, TraceOK, LineOK, StaysIn, PlanStaysInItsCaches
<1>2. QED
  BY <1>1, ShapeHolds, PTL

-----------------------------------------------------------------------------
(* The plan made from a trace.                                             *)
LEMMA PlanOpsComeFromFiles ==
  ASSUME Shape, Loadable
  PROVE  /\ DOMAIN trace \subseteq Nat /\ DOMAIN trace # {}
         /\ DOMAIN PlanOps = DOMAIN trace
         /\ \A i \in DOMAIN trace :
              /\ PlanOps[i] \in ToSet(PlanOps) /\ PlanOps[i] \in CommandLine
              /\ \E p \in DOMAIN plans : InFile(PlanOps[i], p)
         /\ \A c \in ToSet(PlanOps) : \E i \in DOMAIN trace : c = PlanOps[i]
<1>1. trace \in Seq(BridgeEvent \cup {Torn}) /\ trace # <<>> /\ Torn \notin ToSet(trace)
  BY DEF Shape, TypeOK, Loadable
<1>2. \A i \in DOMAIN trace : trace[i] \in BridgeEvent /\ trace[i] # Torn
  BY <1>1 DEF ToSet
<1>3. /\ DOMAIN PlanOps = DOMAIN trace
      /\ \A i \in DOMAIN trace : PlanOps[i] = trace[i].command
  BY DEF PlanOps
<1>4. \A i \in DOMAIN trace : PlanOps[i] \in CommandLine
  BY <1>2, <1>3 DEF BridgeEvent
<1>5. \A i \in DOMAIN trace : \E p \in DOMAIN plans : InFile(PlanOps[i], p)
  BY <1>2, <1>3 DEF Shape, TraceOK, LineOK
<1>6. QED
  BY <1>1, <1>3, <1>4, <1>5 DEF ToSet

LEMMA PlanLayoutIs ==
  ASSUME Shape, Exports, NEW c \in ToSet(PlanOps)
  PROVE  Block(c) \in DOMAIN PlanLayout /\ PlanLayout[Block(c)] = RangeOf(c)
<1> DEFINE S == {i \in DOMAIN trace : Block(PlanOps[i]) = Block(c)}
<1>1. Loadable
  BY DEF Exports
<1>2. PICK i \in DOMAIN trace : c = PlanOps[i]
  BY <1>1, PlanOpsComeFromFiles
<1>3. S \in SUBSET Nat /\ S # {}
  BY <1>1, <1>2, PlanOpsComeFromFiles
<1>4. Min(S) \in S
  <2> HIDE DEF S
  <2>1. QED
    BY <1>3, MinOf
<1>5. /\ PlanOps[Min(S)] \in ToSet(PlanOps)
      /\ Block(PlanOps[Min(S)]) = Block(c)
  BY <1>1, <1>4, PlanOpsComeFromFiles
<1>6. RangeOf(PlanOps[Min(S)]) = RangeOf(c)
  BY <1>5 DEF Exports
<1>7. /\ Block(c) \in DOMAIN PlanLayout
      /\ PlanLayout[Block(c)] = RangeOf(PlanOps[Min(S)])
  BY DEF PlanLayout
<1>8. QED
  BY <1>6, <1>7

LEMMA RoundTrip == Shape => IntentsRoundTrip
<1>1. SUFFICES ASSUME Shape, Exports PROVE IntentsRoundTrip
  BY DEF IntentsRoundTrip
<1>2. \A c \in ToSet(PlanOps) : c \in CommandLine /\ \E p \in DOMAIN plans : InFile(c, p)
  BY <1>1, PlanOpsComeFromFiles DEF Exports
<1>3. ASSUME \A i \in DOMAIN plans : plans[i] # NoFile =>
               \A j \in DOMAIN plans[i] : WellFormed(plans[i][j]),
             NEW c \in ToSet(PlanOps)
      PROVE  Accepts(c, PlanLayout)
  <2>1. WellFormed(c)
    BY <1>2, <1>3 DEF InFile, ToSet
  <2>2. Block(c) \in DOMAIN PlanLayout /\ PlanLayout[Block(c)] = RangeOf(c)
    BY <1>1, PlanLayoutIs
  <2>3. QED
    BY <2>1, <2>2 DEF Accepts, RangeOf
<1>4. ASSUME \A i \in DOMAIN plans : Exported(plans[i]),
             NEW b \in DOMAIN PlanLayout
      PROVE  PlanLayout[b] = Layout[b]
  <2>1. PICK c \in ToSet(PlanOps) : b = Block(c)
    BY DEF PlanLayout
  <2>2. Accepts(c, Layout)
    BY <1>2, <1>4 DEF InFile, ToSet, Exported
  <2>3. Layout[b] \in [offset : Int, size : Int]
    BY <2>1, <2>2, FileAssumption DEF Accepts
  <2>4. RangeOf(c) = Layout[b]
    BY <2>1, <2>2, <2>3 DEF Accepts, RangeOf
  <2>5. QED
    BY <1>1, <2>1, <2>4, PlanLayoutIs
<1>5. QED
  BY <1>3, <1>4 DEF IntentsRoundTrip

(* A plan made from any trace the exporter takes can be exported again:    *)
(* its ops are acceptable to its own layout, and agree with the layout     *)
(* the command files came from (movement_intents.py:176).                  *)
THEOREM IntentsRoundTripHolds == Spec => []IntentsRoundTrip
BY RoundTrip, ShapeHolds, PTL

-----------------------------------------------------------------------------
(* A stretch of a trace: the m lines behind the first k.                   *)
Stretch(k, m) == k + 1 .. k + m

OfRun(t, k, m, r) == \A i \in Stretch(k, m) : t[i].run = r

Mismatched(t, k, m) == {i \in Stretch(k, m) : ~t[i].sourceMatch}

KeysIn(t, k, m) == {t[i].key : i \in Stretch(k, m)}

(* The last line of the stretch about a block leaves it at l.              *)
LastAfter(t, k, m, key, l) ==
  \E i \in Stretch(k, m) :
    /\ t[i].key = key /\ t[i].after = l
    /\ \A j \in Stretch(k, m) : t[j].key = key => j <= i

Held(t, k, m, l) == {key \in KeysIn(t, k, m) : LastAfter(t, k, m, key, l)}

Intact(r) == Torn \notin ToSet(trace) /\ r \notin lost

(* The block whose record was reset for the event, its command not applied.*)
Pending ==
  IF event # NoEvent /\ event.cursor \in DOMAIN process.commands THEN {EventKey} ELSE {}

Met(k) == KeysIn(trace, k, process.matched) \cup Pending

(* The table has a record of every block met, or is full.                  *)
ShadowFollows(k) ==
  /\ DOMAIN process.shadow \subseteq Met(k)
  /\ Cardinality(DOMAIN process.shadow) <= MaxShadow
  /\ Cardinality(DOMAIN process.shadow) < MaxShadow => DOMAIN process.shadow = Met(k)
  /\ \A key \in DOMAIN process.shadow \ Pending :
       LastAfter(trace, k, process.matched, key, process.shadow[key])

(* What the process has counted is in the last lines of an intact trace.   *)
ProcessAccounts ==
  Intact(Run) =>
    \E k \in Nat :
      /\ k + process.matched = Len(trace)
      /\ OfRun(trace, k, process.matched, Run)
      /\ process.mismatches = Cardinality(Mismatched(trace, k, process.matched))
      /\ ShadowFollows(k)

SummaryOf(s, t, k) ==
  /\ k + s.matched <= Len(t)
  /\ OfRun(t, k, s.matched, s.run)
  /\ s.mismatches = Cardinality(Mismatched(t, k, s.matched))
  /\ \A l \in Locations : s.located[l] <= Cardinality(Held(t, k, s.matched, l))
  /\ Records(s.located) = Min({MaxShadow, Cardinality(KeysIn(t, k, s.matched))})

(* What a summary counted is in lines of an intact trace, maybe older ones.*)
SummaryAccounts ==
  Written(bridgeSummary) /\ Intact(bridgeSummary.run) =>
    \E k \in Nat : SummaryOf(bridgeSummary, trace, k)

Accounts == ProcessAccounts /\ SummaryAccounts

(* Appending a line to the trace leaves every stretch as it was.           *)
LEMMA StretchStays ==
  ASSUME NEW S, NEW t \in Seq(S), NEW e \in S, NEW k \in Nat, NEW m \in Nat,
         k + m <= Len(t)
  PROVE  /\ \A r : OfRun(Append(t, e), k, m, r) <=> OfRun(t, k, m, r)
         /\ Mismatched(Append(t, e), k, m) = Mismatched(t, k, m)
         /\ KeysIn(Append(t, e), k, m) = KeysIn(t, k, m)
         /\ \A key, l : LastAfter(Append(t, e), k, m, key, l) <=> LastAfter(t, k, m, key, l)
         /\ \A l : Held(Append(t, e), k, m, l) = Held(t, k, m, l)
<1>1. \A i \in Stretch(k, m) : Append(t, e)[i] = t[i]
  BY DEF Stretch
<1>2. /\ Mismatched(Append(t, e), k, m) = Mismatched(t, k, m)
      /\ KeysIn(Append(t, e), k, m) = KeysIn(t, k, m)
  BY <1>1 DEF Mismatched, KeysIn
<1>3. \A r : OfRun(Append(t, e), k, m, r) <=> OfRun(t, k, m, r)
  BY <1>1 DEF OfRun
<1>4. \A key, l : LastAfter(Append(t, e), k, m, key, l) <=> LastAfter(t, k, m, key, l)
  BY <1>1 DEF LastAfter
<1>5. \A l : Held(Append(t, e), k, m, l) = Held(t, k, m, l)
  BY <1>2, <1>4 DEF Held
<1>6. QED
  BY <1>2, <1>3, <1>4, <1>5

(* A stretch that ends with the trace grows by the line appended.          *)
LEMMA StretchGrows ==
  ASSUME NEW S, NEW t \in Seq(S), NEW e \in S, NEW k \in Nat, NEW m \in Nat,
         k + m = Len(t)
  PROVE  /\ OfRun(t, k, m, e.run) => OfRun(Append(t, e), k, m + 1, e.run)
         /\ Mismatched(Append(t, e), k, m + 1) =
              Mismatched(t, k, m) \cup IF e.sourceMatch THEN {} ELSE {Len(t) + 1}
         /\ KeysIn(Append(t, e), k, m + 1) = KeysIn(t, k, m) \cup {e.key}
         /\ LastAfter(Append(t, e), k, m + 1, e.key, e.after)
         /\ \A key, l : key # e.key /\ LastAfter(t, k, m, key, l) =>
              LastAfter(Append(t, e), k, m + 1, key, l)
<1> DEFINE u == Append(t, e)
           n == Len(t) + 1
<1>1. /\ Stretch(k, m + 1) = Stretch(k, m) \cup {n} /\ n \notin Stretch(k, m)
      /\ n \in Nat /\ Stretch(k, m) \subseteq Nat
      /\ \A i \in Stretch(k, m) : i <= n
  BY DEF Stretch
<1>2. u[n] = e /\ \A i \in Stretch(k, m) : u[i] = t[i]
  BY DEF Stretch
<1> HIDE DEF u, n
<1>3. OfRun(t, k, m, e.run) => OfRun(u, k, m + 1, e.run)
  BY <1>1, <1>2 DEF OfRun
<1>4. Mismatched(u, k, m + 1) =
        Mismatched(t, k, m) \cup IF e.sourceMatch THEN {} ELSE {n}
  BY <1>1, <1>2 DEF Mismatched
<1>5. KeysIn(u, k, m + 1) = KeysIn(t, k, m) \cup {e.key}
  BY <1>1, <1>2 DEF KeysIn
<1>6. LastAfter(u, k, m + 1, e.key, e.after)
  BY <1>1, <1>2 DEF LastAfter
<1>7. ASSUME NEW key, NEW l, key # e.key, LastAfter(t, k, m, key, l)
      PROVE  LastAfter(u, k, m + 1, key, l)
  BY <1>1, <1>2, <1>7 DEF LastAfter
<1>8. QED
  BY <1>3, <1>4, <1>5, <1>6, <1>7 DEF u, n

LEMMA DisjointUnion ==
  ASSUME NEW S, NEW T, IsFiniteSet(S), IsFiniteSet(T), S \cap T = {}
  PROVE  /\ IsFiniteSet(S \cup T)
         /\ Cardinality(S \cup T) = Cardinality(S) + Cardinality(T)
<1>1. Cardinality(S \cup T) = Cardinality(S) + Cardinality(T) - Cardinality(S \cap T)
  BY FS_Union
<1>2. Cardinality(S \cap T) = 0 /\ Cardinality(S) \in Nat /\ Cardinality(T) \in Nat
  BY FS_EmptySet, FS_CardinalityType
<1>3. QED
  BY <1>1, <1>2, FS_Union

(* The three location counters of a summary add up to the shadow records.  *)
LEMMA LocatedIs ==
  ASSUME NEW shadow \in ShadowTables, IsFiniteSet(DOMAIN shadow)
  PROVE  /\ \A l \in Locations :
              Located(shadow)[l] = Cardinality({k \in DOMAIN shadow : shadow[k] = l})
         /\ Records(Located(shadow)) = Cardinality(DOMAIN shadow)
<1> DEFINE At(l) == {k \in DOMAIN shadow : shadow[k] = l}
<1>1. \A l \in Locations : Located(shadow)[l] = Cardinality(At(l))
  BY DEF Located, CountWhere
<1>2. \A l \in Locations : IsFiniteSet(At(l)) /\ Cardinality(At(l)) \in Nat
  BY FS_Subset, FS_CardinalityType
<1>3. \A k \in DOMAIN shadow : shadow[k] \in Locations
  BY DEF ShadowTables
<1>4. DOMAIN shadow = (At("ssd") \cup At("dram")) \cup At("vram")
  BY <1>3 DEF Locations
<1>5. /\ At("ssd") \cap At("dram") = {}
      /\ (At("ssd") \cup At("dram")) \cap At("vram") = {}
  OBVIOUS
<1> HIDE DEF At
<1>6. /\ IsFiniteSet(At("ssd") \cup At("dram"))
      /\ Cardinality(At("ssd") \cup At("dram")) = Cardinality(At("ssd")) + Cardinality(At("dram"))
  BY <1>2, <1>5, DisjointUnion DEF Locations
<1>7. Cardinality(DOMAIN shadow) =
        (Cardinality(At("ssd")) + Cardinality(At("dram"))) + Cardinality(At("vram"))
  BY <1>2, <1>4, <1>5, <1>6, DisjointUnion DEF Locations
<1>8. Records(Located(shadow)) =
        (Cardinality(At("ssd")) + Cardinality(At("dram"))) + Cardinality(At("vram"))
  BY <1>1 DEF Records, Locations
<1>9. QED
  BY <1>1, <1>7, <1>8 DEF At

LEMMA KeysFinite ==
  ASSUME NEW t, NEW k \in Nat, NEW m \in Nat
  PROVE  IsFiniteSet(KeysIn(t, k, m))
<1>1. IsFiniteSet(Stretch(k, m))
  BY FS_Interval DEF Stretch
<1> DEFINE key == [i \in Stretch(k, m) |-> t[i].key]
<1>2. key \in Surjection(Stretch(k, m), KeysIn(t, k, m))
  BY DEF KeysIn, Surjection
<1>3. QED
  BY <1>1, <1>2, FS_Surjection

LEMMA MismatchedFinite ==
  ASSUME NEW t, NEW k \in Nat, NEW m \in Nat
  PROVE  /\ IsFiniteSet(Mismatched(t, k, m)) /\ Cardinality(Mismatched(t, k, m)) \in Nat
         /\ m = 0 => Cardinality(Mismatched(t, k, m)) = 0
<1>1. IsFiniteSet(Stretch(k, m))
  BY FS_Interval DEF Stretch
<1>2. IsFiniteSet(Mismatched(t, k, m))
  BY <1>1, FS_Subset DEF Mismatched
<1>3. m = 0 => Mismatched(t, k, m) = {}
  BY DEF Mismatched, Stretch
<1>4. QED
  BY <1>2, <1>3, FS_CardinalityType, FS_EmptySet

(* A record is set, or the table is full and stays as it is.               *)
LEMMA SetShadowIs ==
  ASSUME Shape, event # NoEvent, NEW l \in Locations,
         Cardinality(DOMAIN process.shadow) <= MaxShadow
  PROVE  /\ Cardinality(DOMAIN SetShadow(l)) <= MaxShadow
         /\ DOMAIN SetShadow(l) \subseteq DOMAIN process.shadow \cup {EventKey}
         /\ Cardinality(DOMAIN SetShadow(l)) < MaxShadow =>
              /\ Cardinality(DOMAIN process.shadow) < MaxShadow
              /\ DOMAIN SetShadow(l) = DOMAIN process.shadow \cup {EventKey}
         /\ EventKey \in DOMAIN SetShadow(l) => SetShadow(l)[EventKey] = l
         /\ \A key \in DOMAIN SetShadow(l) \ {EventKey} :
              /\ key \in DOMAIN process.shadow
              /\ SetShadow(l)[key] = process.shadow[key]
<1> DEFINE old == DOMAIN process.shadow
<1>1. IsFiniteSet(old) /\ Cardinality(old) \in Nat /\ MaxShadow \in Nat
  BY FS_CardinalityType, TraceAssumption DEF Shape, TypeOK
<1>2. CASE ShadowRoom
  <2>1. SetShadow(l) = [k \in old \cup {EventKey} |->
                          IF k = EventKey THEN l ELSE process.shadow[k]]
    BY <1>2 DEF SetShadow
  <2>2. /\ Cardinality(old \cup {EventKey}) \in Nat
        /\ Cardinality(old \cup {EventKey}) =
             IF EventKey \in old THEN Cardinality(old) ELSE Cardinality(old) + 1
    BY <1>1, FS_AddElement, FS_CardinalityType
  <2>3. /\ Cardinality(old \cup {EventKey}) <= MaxShadow
        /\ Cardinality(old \cup {EventKey}) < MaxShadow => Cardinality(old) < MaxShadow
    BY <1>1, <1>2, <2>2 DEF ShadowRoom
  <2>4. QED
    BY <2>1, <2>3
<1>3. CASE ~ShadowRoom
  <2>1. SetShadow(l) = process.shadow /\ EventKey \notin old /\ ~(Cardinality(old) < MaxShadow)
    BY <1>3 DEF SetShadow, ShadowRoom
  <2>2. QED
    BY <2>1
<1>4. QED
  BY <1>2, <1>3

-----------------------------------------------------------------------------
(* A process that has counted nothing.                                     *)
LEMMA NothingCounted ==
  ASSUME Shape', process'.matched = 0, process'.mismatches = 0,
         DOMAIN process'.shadow = {}, event' = NoEvent
  PROVE  ProcessAccounts'
<1>1. PICK k \in Nat : k + 0 = Len(trace')
  BY DEF Shape, TypeOK
<1>2. OfRun(trace', k, 0, Run')
  BY <1>1 DEF OfRun, Stretch
<1>3. Cardinality(Mismatched(trace', k, 0)) = 0
  BY <1>1, MismatchedFinite
<1>4. KeysIn(trace', k, 0) = {} /\ Pending' = {}
  BY <1>1 DEF KeysIn, Stretch, Pending
<1>5. ShadowFollows(k)'
  BY <1>4, FS_EmptySet, TraceAssumption DEF ShadowFollows, Met
<1>6. QED
  BY <1>1, <1>2, <1>3, <1>5 DEF ProcessAccounts

LEMMA InitAccounts == Init => Accounts
<1>1. SUFFICES ASSUME Init PROVE Accounts
  OBVIOUS
<1>2. /\ process.matched = 0 /\ process.mismatches = 0 /\ DOMAIN process.shadow = {}
      /\ event = NoEvent /\ trace = <<>>
  BY <1>1, FreshType DEF Init, ProcessState
<1>3. OfRun(trace, 0, 0, Run)
  BY DEF OfRun, Stretch
<1>4. Cardinality(Mismatched(trace, 0, 0)) = 0
  BY MismatchedFinite
<1>5. KeysIn(trace, 0, 0) = {} /\ Pending = {}
  BY <1>2 DEF KeysIn, Stretch, Pending
<1>6. ShadowFollows(0)
  BY <1>2, <1>5, FS_EmptySet, TraceAssumption DEF ShadowFollows, Met
<1>7. ProcessAccounts
  BY <1>2, <1>3, <1>4, <1>6 DEF ProcessAccounts
<1>8. SummaryAccounts
  BY <1>1 DEF Init, SummaryAccounts, Written
<1>9. QED
  BY <1>7, <1>8 DEF Accounts

(* A summary that stays, beside a trace that stays or grows by a line.     *)
LEMMA SummaryKept ==
  ASSUME Shape, SummaryAccounts, bridgeSummary' \in {bridgeSummary, Torn},
         lost \subseteq lost', NEW e \in BridgeEvent \cup {Torn},
         trace' \in {trace, Appended(e)}
  PROVE  SummaryAccounts'
<1>1. SUFFICES ASSUME Written(bridgeSummary)', Intact(bridgeSummary.run)'
               PROVE  \E k \in Nat : SummaryOf(bridgeSummary', trace', k)
  BY DEF SummaryAccounts
<1>2. bridgeSummary' = bridgeSummary /\ bridgeSummary \in SummaryState
  BY <1>1 DEF Written, Shape, TypeOK
<1>3. trace \in Seq(BridgeEvent \cup {Torn})
  BY DEF Shape, TypeOK
<1>4. CASE trace' = trace
  <2>1. Intact(bridgeSummary.run) /\ Written(bridgeSummary)
    BY <1>1, <1>2, <1>4 DEF Intact, Written
  <2>2. QED
    BY <1>2, <1>4, <2>1 DEF SummaryAccounts
<1>5. CASE trace' = Append(trace, e)
  <2>1. Torn \notin ToSet(trace)
    <3>1. \A i \in DOMAIN trace : i \in DOMAIN trace' /\ trace'[i] = trace[i]
      BY <1>3, <1>5
    <3>2. QED
      BY <1>1, <3>1 DEF Intact, ToSet
  <2>2. Intact(bridgeSummary.run) /\ Written(bridgeSummary)
    BY <1>1, <1>2, <2>1 DEF Intact, Written
  <2>3. PICK k \in Nat : SummaryOf(bridgeSummary, trace, k)
    BY <2>2 DEF SummaryAccounts
  <2>4. bridgeSummary.matched \in Nat /\ k + bridgeSummary.matched <= Len(trace)
    BY <1>2, <2>3 DEF SummaryState, SummaryOf
  <2>5. Len(trace') = Len(trace) + 1 /\ Len(trace) \in Nat
    BY <1>3, <1>5
  <2>6. SummaryOf(bridgeSummary, trace', k)
    <3>1. /\ \A r : OfRun(trace', k, bridgeSummary.matched, r) <=>
                    OfRun(trace, k, bridgeSummary.matched, r)
          /\ Mismatched(trace', k, bridgeSummary.matched) =
               Mismatched(trace, k, bridgeSummary.matched)
          /\ KeysIn(trace', k, bridgeSummary.matched) =
               KeysIn(trace, k, bridgeSummary.matched)
          /\ \A l : Held(trace', k, bridgeSummary.matched, l) =
                    Held(trace, k, bridgeSummary.matched, l)
      <4> DEFINE m == bridgeSummary.matched
                 S == BridgeEvent \cup {Torn}
      <4>1. trace \in Seq(S) /\ e \in S /\ m \in Nat /\ k + m <= Len(trace)
        BY <1>3, <2>4
      <4> HIDE DEF m, S
      <4>2. /\ \A r : OfRun(Append(trace, e), k, m, r) <=> OfRun(trace, k, m, r)
            /\ Mismatched(Append(trace, e), k, m) = Mismatched(trace, k, m)
            /\ KeysIn(Append(trace, e), k, m) = KeysIn(trace, k, m)
            /\ \A l : Held(Append(trace, e), k, m, l) = Held(trace, k, m, l)
        BY <4>1, StretchStays
      <4>3. QED
        BY <1>5, <4>2 DEF m
    <3>2. QED
      BY <2>3, <2>4, <2>5, <3>1 DEF SummaryOf
  <2>7. QED
    BY <1>2, <2>6
<1>6. QED
  BY <1>4, <1>5 DEF Appended

LEMMA LastAfterUnique ==
  ASSUME NEW t, NEW k \in Nat, NEW m \in Nat, NEW key, NEW l1, NEW l2,
         LastAfter(t, k, m, key, l1), LastAfter(t, k, m, key, l2)
  PROVE  l1 = l2
<1>1. PICK i \in Stretch(k, m) :
        /\ t[i].key = key /\ t[i].after = l1
        /\ \A j \in Stretch(k, m) : t[j].key = key => j <= i
  BY DEF LastAfter
<1>2. PICK n \in Stretch(k, m) :
        /\ t[n].key = key /\ t[n].after = l2
        /\ \A j \in Stretch(k, m) : t[j].key = key => j <= n
  BY DEF LastAfter
<1>3. i <= n /\ n <= i /\ i \in Int /\ n \in Int
  BY <1>1, <1>2 DEF Stretch
<1>4. i = n
  BY <1>3
<1>5. QED
  BY <1>1, <1>2, <1>4

(* A summary written between two commands says what the trace says.        *)
LEMMA SummaryWritten ==
  ASSUME Shape, Accounts, WriteSummary, Pending = {}, UNCHANGED <<trace, lost>>
  PROVE  SummaryAccounts'
<1>1. CASE bridgeSummary' = bridgeSummary
  BY <1>1, SummaryKept DEF Accounts
<1>2. CASE bridgeSummary' = Summary
  <2>1. SUFFICES ASSUME Intact(Run) PROVE \E k \in Nat : SummaryOf(Summary, trace, k)
    BY <1>2 DEF SummaryAccounts, Intact, Summary
  <2>2. PICK k \in Nat :
          /\ k + process.matched = Len(trace)
          /\ OfRun(trace, k, process.matched, Run)
          /\ process.mismatches = Cardinality(Mismatched(trace, k, process.matched))
          /\ ShadowFollows(k)
    BY <2>1 DEF Accounts, ProcessAccounts
  <2>3. /\ Summary.run = Run /\ Summary.matched = process.matched
        /\ Summary.mismatches = process.mismatches
        /\ Summary.located = Located(process.shadow)
    BY DEF Summary
  <2> DEFINE shadow == process.shadow
             m == process.matched
  <2>4. /\ shadow \in ShadowTables /\ IsFiniteSet(DOMAIN shadow)
        /\ m \in Nat /\ Len(trace) \in Nat
    BY DEF Shape, TypeOK, ProcessState
  <2> DEFINE keys == KeysIn(trace, k, m)
  <2>5. /\ DOMAIN shadow \subseteq keys /\ Cardinality(DOMAIN shadow) <= MaxShadow
        /\ Cardinality(DOMAIN shadow) < MaxShadow => DOMAIN shadow = keys
        /\ \A key \in DOMAIN shadow : LastAfter(trace, k, m, key, shadow[key])
    BY <2>2 DEF ShadowFollows, Met
  <2>6. IsFiniteSet(keys)
    BY <2>4, KeysFinite
  <2> HIDE DEF shadow, m, keys
  <2>7. ASSUME NEW l \in Locations
        PROVE  Located(shadow)[l] <= Cardinality(Held(trace, k, m, l))
    <3> DEFINE there == {key \in DOMAIN shadow : shadow[key] = l}
    <3>1. there \subseteq Held(trace, k, m, l)
      BY <2>5 DEF Held, keys
    <3>2. IsFiniteSet(Held(trace, k, m, l))
      BY <2>6, FS_Subset DEF Held, keys
    <3>3. Cardinality(there) <= Cardinality(Held(trace, k, m, l))
      BY <3>1, <3>2, FS_Subset
    <3>4. QED
      BY <2>4, <3>3, LocatedIs
  <2>8. Records(Located(shadow)) = Min({MaxShadow, Cardinality(keys)})
    <3>1. /\ Records(Located(shadow)) = Cardinality(DOMAIN shadow)
          /\ Cardinality(DOMAIN shadow) \in Nat /\ Cardinality(keys) \in Nat
          /\ MaxShadow \in Nat
      BY <2>4, <2>6, LocatedIs, FS_CardinalityType, TraceAssumption
    <3>2. Cardinality(DOMAIN shadow) <= Cardinality(keys)
      BY <2>5, <2>6, FS_Subset
    <3>3. Cardinality(DOMAIN shadow) \in {MaxShadow, Cardinality(keys)}
      BY <2>5, <3>1
    <3>4. /\ Min({MaxShadow, Cardinality(keys)}) \in {MaxShadow, Cardinality(keys)}
          /\ Min({MaxShadow, Cardinality(keys)}) <= MaxShadow
          /\ Min({MaxShadow, Cardinality(keys)}) <= Cardinality(keys)
      BY <3>1, MinOf
    <3>5. QED
      BY <2>5, <3>1, <3>2, <3>3, <3>4
  <2>9. k + m <= Len(trace)
    BY <2>2, <2>4 DEF m
  <2>10. SummaryOf(Summary, trace, k)
    BY <2>2, <2>3, <2>7, <2>8, <2>9 DEF SummaryOf, shadow, m, keys
  <2>11. QED
    BY <2>10
<1>3. QED
  BY <1>1, <1>2 DEF WriteSummary

LEMMA NoPending ==
  ASSUME Shape, event = NoEvent \/ event.cursor \notin DOMAIN process.commands
  PROVE  Pending = {}
BY DEF Pending

(* A step that touches neither the trace nor what the process has counted. *)
LEMMA ProcessUntouched ==
  ASSUME ProcessAccounts, UNCHANGED <<plans, trace, lost>>,
         process'.matched = process.matched, process'.mismatches = process.mismatches,
         process'.shadow = process.shadow, Pending = {}, Pending' = {}
  PROVE  ProcessAccounts'
<1>1. SUFFICES ASSUME Intact(Run)'
               PROVE  \E k \in Nat :
                        /\ k + process'.matched = Len(trace')
                        /\ OfRun(trace', k, process'.matched, Run')
                        /\ process'.mismatches =
                             Cardinality(Mismatched(trace', k, process'.matched))
                        /\ ShadowFollows(k)'
  BY DEF ProcessAccounts
<1>2. Run' = Run /\ Intact(Run)
  BY <1>1 DEF Run, Intact
<1>3. PICK k \in Nat :
        /\ k + process.matched = Len(trace)
        /\ OfRun(trace, k, process.matched, Run)
        /\ process.mismatches = Cardinality(Mismatched(trace, k, process.matched))
        /\ ShadowFollows(k)
  BY <1>2 DEF ProcessAccounts
<1>4. ShadowFollows(k)'
  BY <1>3 DEF ShadowFollows, Met
<1>5. QED
  BY <1>2, <1>3, <1>4

LEMMA BeginLayerAccounts ==
  ASSUME Shape, Accounts, BeginLayer, Shape'
  PROVE  Accounts'
<1> DEFINE first == NextMatching(1)
           table == IF first \in DOMAIN process.commands
                    THEN SetShadow(process.commands[first].source) ELSE process.shadow
<1>1. /\ event # NoEvent /\ event.cursor = 0
      /\ event' = [event EXCEPT !.cursor = first]
      /\ process' = [process EXCEPT !.events = Append(@, EventKey),
                       !.records = Len(process.commands), !.shadow = table]
      /\ UNCHANGED <<plans, trace, bridgeSummary, lost>>
  BY DEF BeginLayer
<1>2. /\ process \in ProcessState /\ event \in BatchState /\ process.ready
      /\ process.running
  BY <1>1 DEF Shape, TypeOK, EventOK
<1>3. /\ process'.shadow = table /\ process'.matched = process.matched
      /\ process'.mismatches = process.mismatches /\ process'.commands = process.commands
      /\ event'.cursor = first /\ EventKey' = EventKey /\ event' # NoEvent
  <2>1. /\ process'.shadow = table /\ process'.matched = process.matched
        /\ process'.mismatches = process.mismatches /\ process'.commands = process.commands
    <3> HIDE DEF table
    <3>1. QED
      BY <1>1, <1>2 DEF ProcessState
  <2>2. event'.cursor = first /\ EventKey' = EventKey
    <3> HIDE DEF first
    <3>1. QED
      BY <1>1, <1>2 DEF BatchState, EventKey
  <2>3. event' # NoEvent
    <3>1. event' \in BatchState
      <4> HIDE DEF first
      <4>1. first \in Nat
        BY <1>2, NextMatchingIs DEF first, ProcessState
      <4>2. QED
        BY <1>1, <1>2, <4>1 DEF BatchState
    <3>2. QED
      BY <3>1, TraceAssumption DEF BatchState
  <2>4. QED
    BY <2>1, <2>2, <2>3
<1>4. Pending = {}
  <2>1. 0 \notin DOMAIN process.commands
    BY <1>2 DEF ProcessState
  <2>2. QED
    BY <1>1, <2>1, NoPending
<1>5. Pending' = IF first \in DOMAIN process.commands THEN {EventKey} ELSE {}
  BY <1>3 DEF Pending
<1>6. ProcessAccounts'
  <2>1. CASE first \notin DOMAIN process.commands
    <3>1. process'.shadow = process.shadow /\ Pending' = {}
      BY <1>3, <1>5, <2>1
    <3>2. QED
      BY <1>1, <1>3, <1>4, <3>1, ProcessUntouched DEF Accounts
  <2>2. CASE first \in DOMAIN process.commands
    <3> DEFINE l == process.commands[first].source
    <3>1. l \in Locations /\ process'.shadow = SetShadow(l)
      BY <1>2, <1>3, <2>2 DEF Shape, CommandsOK, ValidCommand
    <3> HIDE DEF l
    <3>2. SUFFICES ASSUME Intact(Run)'
                   PROVE  \E k \in Nat :
                            /\ k + process'.matched = Len(trace')
                            /\ OfRun(trace', k, process'.matched, Run')
                            /\ process'.mismatches =
                                 Cardinality(Mismatched(trace', k, process'.matched))
                            /\ ShadowFollows(k)'
      BY DEF ProcessAccounts
    <3>3. Run' = Run /\ Intact(Run)
      BY <1>1, <3>2 DEF Run, Intact
    <3>4. PICK k \in Nat :
            /\ k + process.matched = Len(trace)
            /\ OfRun(trace, k, process.matched, Run)
            /\ process.mismatches = Cardinality(Mismatched(trace, k, process.matched))
            /\ ShadowFollows(k)
      BY <3>3 DEF Accounts, ProcessAccounts
    <3>5. ShadowFollows(k)'
      <4> DEFINE keys == KeysIn(trace, k, process.matched)
                 set == SetShadow(l)
      <4>1. /\ DOMAIN process.shadow \subseteq keys
            /\ Cardinality(DOMAIN process.shadow) <= MaxShadow
            /\ Cardinality(DOMAIN process.shadow) < MaxShadow => DOMAIN process.shadow = keys
            /\ \A key \in DOMAIN process.shadow :
                 LastAfter(trace, k, process.matched, key, process.shadow[key])
        BY <1>4, <3>4 DEF ShadowFollows, Met
      <4>2. /\ Cardinality(DOMAIN set) <= MaxShadow
            /\ DOMAIN set \subseteq DOMAIN process.shadow \cup {EventKey}
            /\ Cardinality(DOMAIN set) < MaxShadow =>
                 /\ Cardinality(DOMAIN process.shadow) < MaxShadow
                 /\ DOMAIN set = DOMAIN process.shadow \cup {EventKey}
            /\ \A key \in DOMAIN set \ {EventKey} :
                 key \in DOMAIN process.shadow /\ set[key] = process.shadow[key]
        BY <1>1, <3>1, <4>1, SetShadowIs
      <4> HIDE DEF keys, set
      <4>3. /\ DOMAIN set \subseteq keys \cup {EventKey}
            /\ Cardinality(DOMAIN set) < MaxShadow => DOMAIN set = keys \cup {EventKey}
            /\ \A key \in DOMAIN set \ {EventKey} :
                 LastAfter(trace, k, process.matched, key, set[key])
        BY <4>1, <4>2
      <4>4. /\ process'.shadow = set /\ Pending' = {EventKey}
            /\ KeysIn(trace', k, process'.matched) = keys
            /\ trace' = trace /\ process'.matched = process.matched
        BY <1>1, <1>3, <1>5, <2>2, <3>1 DEF keys, set
      <4>5. QED
        BY <4>2, <4>3, <4>4 DEF ShadowFollows, Met
    <3>6. QED
      BY <1>1, <1>3, <3>3, <3>4, <3>5
  <2>3. QED
    BY <2>1, <2>2
<1>7. SummaryAccounts'
  BY <1>1, SummaryKept DEF Accounts
<1>8. QED
  BY <1>6, <1>7 DEF Accounts

LEMMA ApplyCommandAccounts ==
  ASSUME Shape, Accounts, ApplyCommand, Shape'
  PROVE  Accounts'
<1> DEFINE c == process.commands[event.cursor]
           e == TraceEvent(c)
           next == NextMatching(event.cursor + 1)
           count == IF e.sourceMatch THEN process.mismatches ELSE process.mismatches + 1
           table == SetShadow(c.target)
<1>1. /\ event # NoEvent /\ event.cursor \in DOMAIN process.commands
      /\ process' = [process EXCEPT !.shadow = table, !.matched = @ + 1,
                       !.mismatches = count]
      /\ \/ trace' = Appended(e) /\ UNCHANGED lost
         \/ lost' = lost \cup {Run} /\ UNCHANGED trace
      /\ event' = [event EXCEPT !.cursor = next]
      /\ UNCHANGED <<plans, bridgeSummary>>
  BY DEF ApplyCommand
<1>2. /\ process \in ProcessState /\ event \in BatchState
      /\ trace \in Seq(BridgeEvent \cup {Torn})
  BY <1>1 DEF Shape, TypeOK
<1>3. /\ c.target \in Locations /\ e \in BridgeEvent
      /\ e.key = EventKey /\ e.run = Run /\ e.after = c.target
  BY <1>1, AppliedLine
<1> HIDE DEF e, next
<1>4. /\ process'.shadow = table /\ process'.matched = process.matched + 1
      /\ process'.mismatches = count /\ process'.commands = process.commands
      /\ EventKey' = EventKey /\ Run' = Run
  <2> HIDE DEF table, count
  <2>1. EventKey' = EventKey
    BY <1>1, <1>2 DEF BatchState, EventKey
  <2>2. QED
    BY <1>1, <1>2, <2>1 DEF ProcessState, Run
<1>5. Pending = {EventKey} /\ Pending' \subseteq {EventKey}
  BY <1>1, <1>4 DEF Pending
<1>6. ProcessAccounts'
  <2>1. SUFFICES ASSUME Intact(Run)'
                 PROVE  \E k \in Nat :
                          /\ k + process'.matched = Len(trace')
                          /\ OfRun(trace', k, process'.matched, Run')
                          /\ process'.mismatches =
                               Cardinality(Mismatched(trace', k, process'.matched))
                          /\ ShadowFollows(k)'
    BY DEF ProcessAccounts
  <2>2. trace' = Append(trace, e) /\ UNCHANGED lost
    <3>1. trace' = Appended(e) /\ UNCHANGED lost
      BY <1>1, <1>4, <2>1 DEF Intact
    <3>2. ~(trace # <<>> /\ Last(trace) = Torn)
      <4>1. SUFFICES ASSUME trace # <<>>, Last(trace) = Torn PROVE FALSE
        OBVIOUS
      <4>2. Torn \in ToSet(trace)
        BY <1>2, <4>1 DEF Last, ToSet
      <4>3. trace' = trace
        BY <3>1, <4>1 DEF Appended
      <4>4. QED
        BY <2>1, <4>2, <4>3 DEF Intact
    <3>3. QED
      BY <3>1, <3>2 DEF Appended
  <2>3. Intact(Run)
    <3>1. \A i \in DOMAIN trace : i \in DOMAIN trace' /\ trace'[i] = trace[i]
      BY <1>2, <2>2
    <3>2. QED
      BY <1>4, <2>1, <2>2, <3>1 DEF Intact, ToSet
  <2>4. PICK k \in Nat :
          /\ k + process.matched = Len(trace)
          /\ OfRun(trace, k, process.matched, Run)
          /\ process.mismatches = Cardinality(Mismatched(trace, k, process.matched))
          /\ ShadowFollows(k)
    BY <2>3 DEF Accounts, ProcessAccounts
  <2> DEFINE m == process.matched
             S == BridgeEvent \cup {Torn}
  <2>5. trace \in Seq(S) /\ e \in S /\ m \in Nat /\ k + m = Len(trace)
    BY <1>2, <1>3, <2>4 DEF ProcessState
  <2> HIDE DEF m, S
  <2>6. /\ OfRun(trace, k, m, e.run) => OfRun(Append(trace, e), k, m + 1, e.run)
        /\ Mismatched(Append(trace, e), k, m + 1) =
             Mismatched(trace, k, m) \cup IF e.sourceMatch THEN {} ELSE {Len(trace) + 1}
        /\ KeysIn(Append(trace, e), k, m + 1) = KeysIn(trace, k, m) \cup {e.key}
        /\ LastAfter(Append(trace, e), k, m + 1, e.key, e.after)
        /\ \A key, l : key # e.key /\ LastAfter(trace, k, m, key, l) =>
             LastAfter(Append(trace, e), k, m + 1, key, l)
    BY <2>5, StretchGrows
  <2>7. k + process'.matched = Len(trace')
    BY <1>4, <2>2, <2>5 DEF m
  <2>8. OfRun(trace', k, process'.matched, Run')
    BY <1>3, <1>4, <2>2, <2>4, <2>6 DEF m
  <2>9. process'.mismatches = Cardinality(Mismatched(trace', k, process'.matched))
    <3>1. /\ IsFiniteSet(Mismatched(trace, k, m)) /\ Len(trace) + 1 \notin Mismatched(trace, k, m)
          /\ process.mismatches = Cardinality(Mismatched(trace, k, m))
      <4>1. IsFiniteSet(Mismatched(trace, k, m))
        BY <2>5, MismatchedFinite
      <4>2. Len(trace) + 1 \notin Mismatched(trace, k, m)
        BY <2>5 DEF Mismatched, Stretch
      <4>3. process.mismatches = Cardinality(Mismatched(trace, k, m))
        BY <2>4 DEF m
      <4>4. QED
        BY <4>1, <4>2, <4>3
    <3>2. Mismatched(trace', k, process'.matched) =
             Mismatched(trace, k, m) \cup IF e.sourceMatch THEN {} ELSE {Len(trace) + 1}
      BY <1>4, <2>2, <2>6 DEF m
    <3>3. CASE e.sourceMatch
      BY <1>4, <3>1, <3>2, <3>3 DEF count
    <3>4. CASE ~e.sourceMatch
      <4>1. Cardinality(Mismatched(trace, k, m) \cup {Len(trace) + 1}) =
              Cardinality(Mismatched(trace, k, m)) + 1
        BY <3>1, FS_AddElement
      <4>2. QED
        BY <1>4, <3>1, <3>2, <3>4, <4>1 DEF count
    <3>5. QED
      BY <3>3, <3>4
  <2>10. ShadowFollows(k)'
    <3> DEFINE keys == KeysIn(trace, k, m)
    <3>1. /\ DOMAIN process.shadow \subseteq keys \cup {EventKey}
          /\ Cardinality(DOMAIN process.shadow) <= MaxShadow
          /\ Cardinality(DOMAIN process.shadow) < MaxShadow =>
               DOMAIN process.shadow = keys \cup {EventKey}
          /\ \A key \in DOMAIN process.shadow \ {EventKey} :
               LastAfter(trace, k, m, key, process.shadow[key])
      BY <1>5, <2>4 DEF ShadowFollows, Met, m
    <3>2. /\ Cardinality(DOMAIN table) <= MaxShadow
          /\ DOMAIN table \subseteq DOMAIN process.shadow \cup {EventKey}
          /\ Cardinality(DOMAIN table) < MaxShadow =>
               /\ Cardinality(DOMAIN process.shadow) < MaxShadow
               /\ DOMAIN table = DOMAIN process.shadow \cup {EventKey}
          /\ EventKey \in DOMAIN table => table[EventKey] = c.target
          /\ \A key \in DOMAIN table \ {EventKey} :
               key \in DOMAIN process.shadow /\ table[key] = process.shadow[key]
      BY <1>1, <1>3, <3>1, SetShadowIs
    <3> HIDE DEF table, c, keys
    <3>3. KeysIn(trace', k, m + 1) = keys \cup {EventKey}
      BY <1>3, <2>2, <2>6 DEF keys
    <3>4. /\ DOMAIN table \subseteq KeysIn(trace', k, m + 1)
          /\ Cardinality(DOMAIN table) < MaxShadow =>
               DOMAIN table = KeysIn(trace', k, m + 1)
      BY <3>1, <3>2, <3>3
    <3>5. ASSUME NEW key \in DOMAIN table
          PROVE  LastAfter(trace', k, m + 1, key, table[key])
      <4>1. CASE key = EventKey
        BY <1>3, <2>2, <2>6, <3>2, <4>1
      <4>2. CASE key # EventKey
        <5>1. LastAfter(trace, k, m, key, table[key])
          BY <3>1, <3>2, <3>5, <4>2
        <5>2. QED
          BY <1>3, <2>2, <2>6, <4>2, <5>1
      <4>3. QED
        BY <4>1, <4>2
    <3>6. Met(k)' = KeysIn(trace', k, m + 1)
      BY <1>4, <1>5, <3>3 DEF Met, m
    <3>7. QED
      BY <1>4, <3>2, <3>4, <3>5, <3>6 DEF ShadowFollows, m
  <2>11. QED
    BY <2>7, <2>8, <2>9, <2>10
<1>7. SummaryAccounts'
  <2>1. trace' \in {trace, Appended(e)} /\ lost \subseteq lost' /\ e \in BridgeEvent \cup {Torn}
    BY <1>1, <1>3
  <2>2. QED
    BY <1>1, <2>1, SummaryKept DEF Accounts
<1>8. QED
  BY <1>6, <1>7 DEF Accounts

LEMMA ApplyUbatchAccounts ==
  ASSUME Shape, Accounts, NEW c \in Caches, NEW u \in Ubatches[c], ApplyUbatch(c, u), Shape'
  PROVE  Accounts'
<1> DEFINE loaded == IF process.done THEN process ELSE Loaded(c)
<1>1. /\ process.running /\ event = NoEvent
      /\ process' = [loaded EXCEPT !.batches = @ + 1]
      /\ event' = IF loaded.ready THEN Started(c, u) ELSE NoEvent
      /\ UNCHANGED <<plans, trace, bridgeSummary, lost>>
  BY DEF ApplyUbatch
<1>2. /\ loaded \in ProcessState /\ loaded.shadow = process.shadow
      /\ loaded.matched = process.matched /\ loaded.mismatches = process.mismatches
  <2>1. CASE process.done
    BY <2>1 DEF Shape, TypeOK
  <2>2. CASE ~process.done
    BY <1>1, <2>2, LoadedIs
  <2>3. QED
    BY <2>1, <2>2
<1> HIDE DEF loaded
<1>3. /\ process'.shadow = process.shadow /\ process'.matched = process.matched
      /\ process'.mismatches = process.mismatches
  BY <1>1, <1>2 DEF ProcessState
<1>4. Pending = {} /\ Pending' = {}
  <2>1. event' = NoEvent \/ event'.cursor = 0
    BY <1>1 DEF Started
  <2>2. process'.commands \in Seq(CommandLine)
    BY DEF Shape, TypeOK, ProcessState
  <2>3. event' = NoEvent \/ event'.cursor \notin DOMAIN process'.commands
    BY <2>1, <2>2
  <2>4. QED
    BY <1>1, <2>3 DEF Pending
<1>5. ProcessAccounts'
  BY <1>1, <1>3, <1>4, ProcessUntouched DEF Accounts
<1>6. SummaryAccounts'
  BY <1>1, SummaryKept DEF Accounts
<1>7. QED
  BY <1>5, <1>6 DEF Accounts

LEMMA EndLayerAccounts ==
  ASSUME Shape, Accounts, EndLayer, Shape'
  PROVE  Accounts'
<1>1. /\ event # NoEvent /\ event \in BatchState
      /\ event.cursor = Len(process.commands) + 1 /\ process.commands \in Seq(CommandLine)
      /\ event' = IF event.layer < Len(CacheLayers[event.cache])
                  THEN [event EXCEPT !.layer = @ + 1, !.cursor = 0] ELSE NoEvent
      /\ UNCHANGED <<plans, process, trace, lost>>
  BY DEF EndLayer, Shape, TypeOK, ProcessState
<1>2. Pending = {} /\ Pending' = {}
  <2>1. event.cursor \notin DOMAIN process.commands /\ 0 \notin DOMAIN process.commands
    BY <1>1
  <2>2. event' = NoEvent \/ event'.cursor = 0
    BY <1>1 DEF BatchState
  <2>3. QED
    BY <1>1, <2>1, <2>2 DEF Pending
<1>3. ProcessAccounts'
  BY <1>1, <1>2, ProcessUntouched DEF Accounts
<1>4. SummaryAccounts'
  BY <1>1, <1>2, SummaryWritten DEF EndLayer
<1>5. QED
  BY <1>3, <1>4 DEF Accounts

LEMMA StoppedAccounts ==
  ASSUME Shape, Accounts, Stopped, UNCHANGED <<plans, lost>>, Shape',
         trace' \in {trace, Appended(Torn)}, bridgeSummary' \in {bridgeSummary, Torn}
  PROVE  Accounts'
<1>1. /\ process'.matched = 0 /\ process'.mismatches = 0
      /\ DOMAIN process'.shadow = {} /\ event' = NoEvent
  BY FreshType DEF Stopped, ProcessState
<1>2. ProcessAccounts'
  BY <1>1, NothingCounted
<1>3. SummaryAccounts'
  BY SummaryKept DEF Accounts
<1>4. QED
  BY <1>2, <1>3 DEF Accounts

LEMMA NextAccounts == Shape /\ Accounts /\ [Next]_vars /\ Shape' => Accounts'
<1>1. SUFFICES ASSUME Shape, Accounts, [Next]_vars, Shape' PROVE Accounts'
  OBVIOUS
<1>2. CASE \E f \in Files : StartProcess(f)
  <2>1. /\ process'.matched = 0 /\ process'.mismatches = 0
        /\ DOMAIN process'.shadow = {} /\ event' = NoEvent
        /\ UNCHANGED <<trace, bridgeSummary, lost>>
    BY <1>1, <1>2, FreshType DEF StartProcess, ProcessState, Shape, EventOK
  <2>2. ProcessAccounts'
    BY <1>1, <2>1, NothingCounted
  <2>3. SummaryAccounts'
    BY <1>1, <2>1, SummaryKept DEF Accounts
  <2>4. QED
    BY <2>2, <2>3 DEF Accounts
<1>3. CASE \E c \in Caches : \E u \in Ubatches[c] : ApplyUbatch(c, u)
  BY <1>1, <1>3, ApplyUbatchAccounts
<1>4. CASE BeginLayer
  BY <1>1, <1>4, BeginLayerAccounts
<1>5. CASE ApplyCommand
  BY <1>1, <1>5, ApplyCommandAccounts
<1>6. CASE EndLayer
  BY <1>1, <1>6, EndLayerAccounts
<1>7. CASE AttentionView
  <2>1. event = NoEvent /\ UNCHANGED <<plans, process, event, trace, lost>> /\ WriteSummary
    BY <1>7 DEF AttentionView
  <2>2. Pending = {} /\ Pending' = {}
    BY <2>1 DEF Pending
  <2>3. ProcessAccounts'
    BY <1>1, <2>1, <2>2, ProcessUntouched DEF Accounts
  <2>4. SummaryAccounts'
    BY <1>1, <2>1, <2>2, SummaryWritten
  <2>5. QED
    BY <2>3, <2>4 DEF Accounts
<1>8. CASE Exit
  BY <1>1, <1>8, StoppedAccounts DEF Exit
<1>9. CASE Kill
  BY <1>1, <1>9, KillWrites, StoppedAccounts
<1>10. CASE UNCHANGED vars
  <2>1. /\ UNCHANGED <<plans, process, event, trace, bridgeSummary, lost>>
    BY <1>10 DEF vars
  <2>2. Pending' = Pending
    BY <2>1 DEF Pending, EventKey
  <2>3. ProcessAccounts'
    BY <1>1, <2>1, <2>2 DEF Accounts, ProcessAccounts, ShadowFollows, Met, Intact, Run
  <2>4. SummaryAccounts'
    BY <1>1, <2>1, SummaryKept DEF Accounts
  <2>5. QED
    BY <2>3, <2>4 DEF Accounts
<1>11. QED
  BY <1>1, <1>2, <1>3, <1>4, <1>5, <1>6, <1>7, <1>8, <1>9, <1>10 DEF Next

LEMMA AccountsHold == Spec => [](Shape /\ Accounts)
<1>1. Init => Shape /\ Accounts
  BY InitShape, InitAccounts
<1>2. (Shape /\ Accounts) /\ [Next]_vars => (Shape /\ Accounts)'
  BY NextShape, NextAccounts
<1>3. QED
  BY <1>1, <1>2, PTL DEF Spec

-----------------------------------------------------------------------------
(* When the summarizer accepts, the summary's stretch is the whole trace.  *)
LEMMA WholeTrace ==
  ASSUME Shape, Accounts, Summarizes, bridgeSummary.run \notin lost
  PROVE  /\ SummaryOf(bridgeSummary, trace, 0) /\ bridgeSummary.matched = Len(trace)
         /\ bridgeSummary \in SummaryState
         /\ trace \in Seq(BridgeEvent \cup {Torn}) /\ DOMAIN trace = Stretch(0, Len(trace))
<1>1. /\ Written(bridgeSummary) /\ Intact(bridgeSummary.run)
      /\ bridgeSummary.matched = Len(trace)
  BY DEF Summarizes, Loadable, Intact
<1>2. /\ bridgeSummary \in SummaryState /\ trace \in Seq(BridgeEvent \cup {Torn})
  BY <1>1 DEF Shape, TypeOK, Written
<1>3. PICK k \in Nat : SummaryOf(bridgeSummary, trace, k)
  BY <1>1 DEF Accounts, SummaryAccounts
<1>4. k = 0
  BY <1>1, <1>2, <1>3 DEF SummaryOf
<1>5. QED
  BY <1>1, <1>2, <1>3, <1>4 DEF Stretch

(* A trace the summarizer accepts is that of one run (command_bridge.py).  *)
THEOREM AcceptedTraceIsOneRunHolds == Spec => []AcceptedTraceIsOneRun
<1>1. Shape /\ Accounts => AcceptedTraceIsOneRun
  BY WholeTrace DEF AcceptedTraceIsOneRun, SummaryOf, OfRun
<1>2. QED
  BY <1>1, AccountsHold, PTL

LEMMA FinalLocationsAre ==
  ASSUME NEW n \in Nat, DOMAIN trace = 1 .. n
  PROVE  \A l \in Locations : FinalLocations[l] = Cardinality(Held(trace, 0, n, l))
<1> DEFINE at(key) == {i \in DOMAIN trace : trace[i].key = key}
           keys == {trace[i].key : i \in DOMAIN trace}
<1>1. Stretch(0, n) = DOMAIN trace
  BY DEF Stretch
<1>2. keys = KeysIn(trace, 0, n)
  BY <1>1 DEF KeysIn
<1>3. \A key \in keys : /\ Max(at(key)) \in at(key)
                       /\ \A j \in at(key) : Max(at(key)) >= j
  <2>1. TAKE key \in keys
  <2>2. at(key) \in SUBSET (1 .. n) /\ at(key) # {}
    OBVIOUS
  <2> HIDE DEF at
  <2>3. QED
    BY <2>2, MaxOf
<1>4. \A key \in keys, l \in Locations :
        trace[Max(at(key))].after = l <=> LastAfter(trace, 0, n, key, l)
  <2>1. TAKE key \in keys, l \in Locations
  <2> DEFINE last == Max(at(key))
  <2>2. /\ last \in Stretch(0, n) /\ trace[last].key = key /\ last \in Nat
        /\ \A j \in Stretch(0, n) : trace[j].key = key => j <= last
    <3>1. last \in at(key) /\ \A j \in at(key) : last >= j
      BY <1>3
    <3> HIDE DEF last
    <3>2. last \in 1 .. n /\ trace[last].key = key
      BY <3>1
    <3>3. \A j \in 1 .. n : trace[j].key = key => j <= last
      BY <3>1, <3>2
    <3>4. QED
      BY <1>1, <3>2, <3>3
  <2>3. LastAfter(trace, 0, n, key, trace[last].after)
    BY <2>2 DEF LastAfter
  <2>4. LastAfter(trace, 0, n, key, l) => trace[last].after = l
    BY <2>3, LastAfterUnique
  <2>5. QED
    BY <2>3, <2>4
<1>5. \A l \in Locations :
        {key \in keys : trace[Max(at(key))].after = l} = Held(trace, 0, n, l)
  BY <1>2, <1>4 DEF Held
<1>6. \A l \in Locations :
        FinalLocations[l] = Cardinality({key \in keys : trace[Max(at(key))].after = l})
  BY DEF FinalLocations, CountWhere
<1>7. QED
  BY <1>5, <1>6

(* The blocks the summarizer finds are those of the stretch.               *)
LEMMA FinalRecordsAre ==
  ASSUME NEW n \in Nat, DOMAIN trace = 1 .. n, \A i \in 1 .. n : trace[i] \in BridgeEvent
  PROVE  Records(FinalLocations) = Cardinality(KeysIn(trace, 0, n))
<1> DEFINE at(key) == {i \in DOMAIN trace : trace[i].key = key}
           keys == {trace[i].key : i \in DOMAIN trace}
           final == [key \in keys |-> trace[Max(at(key))].after]
<1>1. keys = KeysIn(trace, 0, n)
  BY DEF KeysIn, Stretch
<1>2. \A key \in keys : Max(at(key)) \in 1 .. n
  <2>1. TAKE key \in keys
  <2>2. at(key) \in SUBSET (1 .. n) /\ at(key) # {}
    OBVIOUS
  <2> HIDE DEF at
  <2>3. QED
    BY <2>2, MaxOf
<1>3. /\ \A key \in keys : trace[Max(at(key))].after \in Locations
      /\ keys \subseteq EventKeys
  <2>1. \A i \in 1 .. n : trace[i].key \in EventKeys /\ trace[i].after \in Locations
    BY DEF BridgeEvent
  <2> HIDE DEF at
  <2>2. QED
    BY <1>2, <2>1
<1>4. final \in ShadowTables /\ DOMAIN final = keys /\ IsFiniteSet(keys)
  <2> HIDE DEF at, keys
  <2>1. final \in [keys -> Locations] /\ keys \in SUBSET EventKeys
    BY <1>3
  <2>2. IsFiniteSet(keys)
    BY <1>1, KeysFinite
  <2> HIDE DEF final
  <2>3. QED
    BY <2>1, <2>2 DEF ShadowTables
<1>5. FinalLocations = Located(final)
  <2>1. FinalLocations =
          [l \in Locations |-> Cardinality({key \in keys : trace[Max(at(key))].after = l})]
    BY DEF FinalLocations, CountWhere
  <2>2. \A l \in Locations :
          {key \in keys : trace[Max(at(key))].after = l} = {key \in DOMAIN final : final[key] = l}
    OBVIOUS
  <2>3. Located(final) = [l \in Locations |-> Cardinality({key \in DOMAIN final : final[key] = l})]
    BY DEF Located, CountWhere
  <2>4. QED
    BY <2>1, <2>2, <2>3
<1> HIDE DEF final
<1>6. QED
  BY <1>1, <1>4, <1>5, LocatedIs

LEMMA AccountsAgree == Shape /\ Accounts => ShadowAccountsAgree
<1>1. SUFFICES ASSUME Shape, Accounts, Summarizes, bridgeSummary.run \notin lost
               PROVE  /\ \A l \in Locations : bridgeSummary.located[l] <= FinalLocations[l]
                      /\ Records(bridgeSummary.located) =
                           Min({MaxShadow, Records(FinalLocations)})
                      /\ SourceMismatches = bridgeSummary.mismatches
  BY DEF ShadowAccountsAgree
<1> DEFINE n == Len(trace)
<1>2. /\ SummaryOf(bridgeSummary, trace, 0) /\ bridgeSummary.matched = n
      /\ bridgeSummary \in SummaryState /\ n \in Nat /\ DOMAIN trace = 1 .. n
      /\ DOMAIN trace = Stretch(0, n)
  BY <1>1, WholeTrace
<1>3. \A i \in 1 .. n : trace[i] \in BridgeEvent
  BY <1>1, <1>2 DEF Summarizes, Loadable, ToSet, Shape, TypeOK
<1> HIDE DEF n
<1>4. SourceMismatches = bridgeSummary.mismatches
  BY <1>2 DEF SourceMismatches, CountWhere, SummaryOf, Mismatched
<1>5. \A l \in Locations : bridgeSummary.located[l] <= FinalLocations[l]
  BY <1>2, FinalLocationsAre DEF SummaryOf
<1>6. Records(bridgeSummary.located) = Min({MaxShadow, Records(FinalLocations)})
  BY <1>2, <1>3, FinalRecordsAre DEF SummaryOf
<1>7. QED
  BY <1>4, <1>5, <1>6

(* The locations and mismatches recomputed from an accepted trace are the  *)
(* ones the runtime counted; a shadow table that is full has as many of    *)
(* the blocks as fit, counted where the trace leaves them (patch:562).     *)
THEOREM ShadowAccountsAgreeHolds == Spec => []ShadowAccountsAgree
BY AccountsAgree, AccountsHold, PTL
-----------------------------------------------------------------------------
(***************************************************************************)
(* Which lines they are.  The process has appended the commands due in its *)
(* layers so far, up to the one it has come to in the current layer, in    *)
(* their order; a summary, those of all its events.                        *)
(***************************************************************************)
InLayer == event # NoEvent /\ event.cursor # 0

Applied ==
  {d \in Due(process.events, process.commands) :
     InLayer => d[1] < Len(process.events) \/ d[2] < event.cursor}

(* The commands due among the first n lines of a file.                     *)
DueIn(events, file, n) ==
  {d \in (DOMAIN events) \X (1 .. n) : MatchesRuntime(file[d[2]], events[d[1]])}

ListsFrom(t, k, file, due) == \A d \in due : t[k + Place(d, due)].command = file[d[2]]

Recorded ==
  /\ InLayer =>
       process.events # <<>> /\ process.events[Len(process.events)] = EventKey
  /\ ~process.ready => process.events = <<>>
  /\ process.ready =>
       /\ plans[Run] # NoFile
       /\ \A j \in DOMAIN process.commands :
            j \in DOMAIN plans[Run] /\ process.commands[j] = plans[Run][j]
  /\ process.events # <<>> => process.records = Len(process.commands)

ProcessLists ==
  /\ process.matched = Cardinality(Applied)
  /\ Intact(Run) =>
       \E k \in Nat : /\ k + process.matched = Len(trace)
                      /\ ListsFrom(trace, k, process.commands, Applied)

DueOf(s) == DueIn(s.events, plans[s.run], s.records)

SummaryLists ==
  Written(bridgeSummary) =>
    /\ bridgeSummary.run \in DOMAIN plans
    /\ bridgeSummary.matched = Cardinality(DueOf(bridgeSummary))
    /\ Intact(bridgeSummary.run) =>
         \E k \in Nat :
           /\ k + bridgeSummary.matched <= Len(trace)
           /\ ListsFrom(trace, k, plans[bridgeSummary.run], DueOf(bridgeSummary))

(* A file some of whose commands were applied was counted whole.           *)
CommandsCounted ==
  /\ Written(commandSummary) =>
       /\ commandSummary.run \in DOMAIN plans
       /\ process.running /\ ~process.done => commandSummary.run # Run
       /\ process.ready /\ commandSummary.run = Run => commandSummary.valid = Len(plans[Run])
  /\ Written(bridgeSummary) /\ process.running /\ ~process.done /\ bridgeSummary.run = Run =>
       bridgeSummary.matched = 0
  /\ Written(bridgeSummary) /\ Written(commandSummary)
     /\ bridgeSummary.run = commandSummary.run /\ bridgeSummary.matched # 0 =>
       /\ plans[bridgeSummary.run] # NoFile
       /\ commandSummary.valid = Len(plans[bridgeSummary.run])

Lines == Recorded /\ ProcessLists /\ SummaryLists /\ CommandsCounted

LEMMA DueFinite ==
  ASSUME NEW events \in Seq(EventKeys), NEW file, NEW n \in Nat
  PROVE  /\ DueIn(events, file, n) \in SUBSET (Nat \X Nat)
         /\ IsFiniteSet(DueIn(events, file, n))
<1>1. /\ DOMAIN events = 1 .. Len(events) /\ Len(events) \in Nat
      /\ IsFiniteSet(DOMAIN events) /\ IsFiniteSet(1 .. n)
  BY FS_Interval
<1>2. IsFiniteSet((DOMAIN events) \X (1 .. n))
  BY <1>1, FS_Product
<1>3. QED
  BY <1>1, <1>2, FS_Subset DEF DueIn

LEMMA AppliedFinite ==
  ASSUME Shape
  PROVE  /\ Due(process.events, process.commands) =
              DueIn(process.events, process.commands, Len(process.commands))
         /\ Applied \in SUBSET (Nat \X Nat) /\ IsFiniteSet(Applied)
<1>1. process.events \in Seq(EventKeys) /\ process.commands \in Seq(CommandLine)
  BY DEF Shape, TypeOK, ProcessState
<1>2. Due(process.events, process.commands) =
        DueIn(process.events, process.commands, Len(process.commands))
  BY <1>1 DEF Due, DueIn
<1>3. Applied \subseteq DueIn(process.events, process.commands, Len(process.commands))
  BY <1>2 DEF Applied
<1>4. QED
  BY <1>1, <1>2, <1>3, DueFinite, FS_Subset

LEMMA PlaceIs ==
  ASSUME NEW D \in SUBSET (Nat \X Nat), IsFiniteSet(D), NEW d \in D
  PROVE  Place(d, D) \in 1 .. Cardinality(D)
<1> DEFINE B == {c \in D : Sooner(c, d)}
<1>1. d \notin B /\ B \subseteq D
  BY DEF Sooner
<1>2. IsFiniteSet(B) /\ Cardinality(B) \in Nat /\ Cardinality(D) \in Nat
  BY <1>1, FS_Subset, FS_CardinalityType
<1>3. IsFiniteSet(B \cup {d}) /\ Cardinality(B \cup {d}) = Cardinality(B) + 1
  BY <1>1, <1>2, FS_AddElement
<1>4. Cardinality(B \cup {d}) <= Cardinality(D)
  BY <1>1, FS_Subset
<1>5. QED
  BY <1>2, <1>3, <1>4 DEF Place

(* What comes last comes after all, and moves no other.                    *)
LEMMA PlaceGrows ==
  ASSUME NEW D \in SUBSET (Nat \X Nat), IsFiniteSet(D), NEW n \in Nat \X Nat,
         \A d \in D : Sooner(d, n)
  PROVE  /\ IsFiniteSet(D \cup {n}) /\ Cardinality(D \cup {n}) = Cardinality(D) + 1
         /\ Place(n, D \cup {n}) = Cardinality(D) + 1
         /\ \A d \in D : Place(d, D \cup {n}) = Place(d, D)
<1>1. n \notin D
  BY DEF Sooner
<1>2. {c \in D \cup {n} : Sooner(c, n)} = D
  BY DEF Sooner
<1>3. ASSUME NEW d \in D
      PROVE  {c \in D \cup {n} : Sooner(c, d)} = {c \in D : Sooner(c, d)}
  <2>1. ~Sooner(n, d)
    BY DEF Sooner
  <2>2. QED
    BY <2>1
<1>4. QED
  BY <1>1, <1>2, <1>3, FS_AddElement DEF Place

-----------------------------------------------------------------------------
(* A step that appends no line and leaves what has been applied.           *)
LEMMA ListKept ==
  ASSUME ProcessLists, UNCHANGED <<plans, trace, lost>>, Applied' = Applied,
         process'.matched = process.matched,
         \A d \in Applied : process'.commands[d[2]] = process.commands[d[2]]
  PROVE  ProcessLists'
<1>1. process'.matched = Cardinality(Applied')
  BY DEF ProcessLists
<1>2. ASSUME Intact(Run)'
      PROVE  \E k \in Nat : /\ k + process'.matched = Len(trace')
                            /\ ListsFrom(trace', k, process'.commands, Applied')
  <2>1. Intact(Run)
    BY <1>2 DEF Intact, Run
  <2>2. PICK k \in Nat : /\ k + process.matched = Len(trace)
                         /\ ListsFrom(trace, k, process.commands, Applied)
    BY <2>1 DEF ProcessLists
  <2>3. ListsFrom(trace', k, process'.commands, Applied')
    BY <2>2 DEF ListsFrom
  <2>4. QED
    BY <2>2, <2>3
<1>3. QED
  BY <1>1, <1>2 DEF ProcessLists

(* No line between one match and the next one matches.                     *)
LEMMA NoneBetween ==
  ASSUME Shape, NEW i \in 1 .. Len(process.commands) + 1
  PROVE  /\ NextMatching(i) \in i .. Len(process.commands) + 1
         /\ \A j \in i .. Len(process.commands) :
              j < NextMatching(i) => ~MatchesRuntime(process.commands[j], EventKey)
<1> DEFINE S == {j \in i .. Len(process.commands) :
                   MatchesRuntime(process.commands[j], EventKey)}
                 \cup {Len(process.commands) + 1}
<1>1. Len(process.commands) \in Nat
  BY DEF Shape, TypeOK, ProcessState
<1>2. S \in SUBSET Nat /\ S # {} /\ S \subseteq i .. Len(process.commands) + 1
  BY <1>1
<1>3. NextMatching(i) = Min(S)
  BY DEF NextMatching
<1>4. \A j \in i .. Len(process.commands) :
        MatchesRuntime(process.commands[j], EventKey) => j \in S
  OBVIOUS
<1> HIDE DEF S
<1>5. NextMatching(i) \in S /\ \A j \in S : NextMatching(i) <= j
  BY <1>2, <1>3, MinOf
<1>6. ASSUME NEW j \in i .. Len(process.commands), j < NextMatching(i)
      PROVE  ~MatchesRuntime(process.commands[j], EventKey)
  <2>1. j \in S => NextMatching(i) <= j
    BY <1>5
  <2>2. j \in Nat /\ NextMatching(i) \in Nat
    <3>1. j \in Nat
      BY <1>1
    <3>2. NextMatching(i) \in Nat
      BY <1>2, <1>5
    <3>3. QED
      BY <3>1, <3>2
  <2>3. j \notin S
    BY <1>6, <2>1, <2>2
  <2>4. QED
    BY <1>4, <2>3
<1>7. QED
  BY <1>2, <1>5, <1>6

(* The commands a process takes from its file, and how many it reports.    *)
LEMMA LoadedFile ==
  ASSUME Shape, process.running, ~process.done, NEW c \in Caches
  PROVE  /\ Loaded(c).events = process.events /\ Loaded(c).records = process.records
         /\ Loaded(c).ready =>
              /\ plans[Run] # NoFile
              /\ WrittenCommandSummary(c).valid = Len(plans[Run])
              /\ \A j \in DOMAIN Loaded(c).commands :
                   j \in DOMAIN plans[Run] /\ Loaded(c).commands[j] = plans[Run][j]
<1> DEFINE f == plans[Run]
           ready == ValidLines(f, c) = DOMAIN f
<1>1. process \in ProcessState /\ ~process.ready
  BY DEF Shape, TypeOK, CommandsOK
<1>2. f \in Files
  BY DEF Shape, TypeOK, RunningOK
<1>3. CASE f = NoFile
  <2>1. Loaded(c) = [process EXCEPT !.done = TRUE, !.loader = c]
    BY <1>3 DEF Loaded
  <2>2. QED
    BY <1>1, <2>1 DEF ProcessState
<1>4. CASE f # NoFile
  <2> DEFINE stored == Stored(f, ready)
  <2>1. Loaded(c) = [process EXCEPT !.done = TRUE, !.loader = c,
                       !.ready = ready, !.commands = stored]
    BY <1>4 DEF Loaded
  <2>2. f \in Seq(CommandLine) /\ Len(f) \in Nat /\ DOMAIN f = 1 .. Len(f)
    BY <1>2, <1>4, FileAssumption
  <2>3. ASSUME ready, NEW j \in DOMAIN stored
        PROVE  j \in DOMAIN f /\ stored[j] = f[j]
    <3>1. stored = Stored(f, TRUE)
      BY <2>3 DEF Stored
    <3>2. QED
      BY <2>2, <2>3, <3>1, StoredIs
  <2>4. ASSUME ready PROVE WrittenCommandSummary(c).valid = Len(f)
    <3>1. Cardinality(1 .. Len(f)) = Len(f)
      BY <2>2, FS_Interval
    <3>2. QED
      BY <1>4, <2>2, <2>4, <3>1 DEF WrittenCommandSummary
  <2> HIDE DEF ready, stored
  <2>5. /\ Loaded(c).events = process.events /\ Loaded(c).records = process.records
        /\ Loaded(c).ready = ready /\ Loaded(c).commands = stored
    BY <1>1, <2>1 DEF ProcessState
  <2>6. QED
    BY <1>4, <2>3, <2>4, <2>5
<1>5. QED
  BY <1>3, <1>4

(* A layer event is recorded before any of its commands is applied.        *)
LEMMA BeginLayerLists ==
  ASSUME Shape, Recorded, ProcessLists, BeginLayer, Shape'
  PROVE  Recorded' /\ ProcessLists'
<1> DEFINE first == NextMatching(1)
           table == IF first \in DOMAIN process.commands
                    THEN SetShadow(process.commands[first].source) ELSE process.shadow
           n == Len(process.events) + 1
<1>1. /\ event # NoEvent /\ event.cursor = 0 /\ event' = [event EXCEPT !.cursor = first]
      /\ process' = [process EXCEPT !.events = Append(@, EventKey),
                       !.records = Len(process.commands), !.shadow = table]
      /\ UNCHANGED <<plans, trace, lost>>
  BY DEF BeginLayer
<1>2. /\ process \in ProcessState /\ event \in BatchState /\ process.ready
      /\ process.events \in Seq(EventKeys) /\ process.commands \in Seq(CommandLine)
  BY <1>1 DEF Shape, TypeOK, EventOK, ProcessState
<1>3. first \in 1 .. Len(process.commands) + 1
  BY <1>2, NoneBetween
<1>4. \A j \in DOMAIN process.commands :
        j < first => ~MatchesRuntime(process.commands[j], EventKey)
  BY <1>2, NoneBetween
<1> HIDE DEF first, table
<1>5. /\ process'.events = Append(process.events, EventKey)
      /\ process'.records = Len(process.commands) /\ process'.commands = process.commands
      /\ process'.ready = process.ready /\ process'.matched = process.matched
  BY <1>1, <1>2 DEF ProcessState
<1>6. event' # NoEvent /\ event'.cursor = first /\ EventKey' = EventKey
  <2>1. event' \in BatchState
    BY <1>1, <1>2, <1>3 DEF BatchState
  <2>2. event' # NoEvent
    BY <2>1, TraceAssumption DEF BatchState
  <2>3. QED
    BY <1>1, <1>2, <2>2 DEF BatchState, EventKey
<1>7. /\ DOMAIN process'.events = DOMAIN process.events \cup {n} /\ Len(process'.events) = n
      /\ process'.events[n] = EventKey /\ n \notin DOMAIN process.events
      /\ \A i \in DOMAIN process.events : process'.events[i] = process.events[i] /\ i < n
      /\ process'.events # <<>>
  BY <1>2, <1>5
<1>8. InLayer' /\ ~InLayer
  BY <1>1, <1>3, <1>6 DEF InLayer
<1>9. Applied' = Applied
  <2>1. Applied = Due(process.events, process.commands)
    BY <1>8 DEF Applied
  <2>2. Applied' = {d \in Due(process'.events, process.commands) : d[1] < n \/ d[2] < first}
    BY <1>5, <1>6, <1>7, <1>8 DEF Applied
  <2>3. ASSUME NEW i \in DOMAIN process'.events, NEW j \in DOMAIN process.commands
        PROVE  <<i, j>> \in Applied' <=> <<i, j>> \in Applied
    <3>1. CASE i = n
      BY <1>4, <1>7, <2>1, <2>2, <3>1 DEF Due
    <3>2. CASE i \in DOMAIN process.events
      BY <1>7, <2>1, <2>2, <3>2 DEF Due
    <3>3. QED
      BY <1>7, <3>1, <3>2
  <2>4. Applied \subseteq (DOMAIN process'.events) \X (DOMAIN process.commands)
    BY <1>7, <2>1 DEF Due
  <2>5. Applied' \subseteq (DOMAIN process'.events) \X (DOMAIN process.commands)
    BY <2>2 DEF Due
  <2>6. QED
    BY <2>3, <2>4, <2>5
<1>10. ProcessLists'
  BY <1>1, <1>5, <1>9, ListKept
<1>11. Recorded'
  BY <1>1, <1>2, <1>5, <1>6, <1>7 DEF Recorded, Run
<1>12. QED
  BY <1>10, <1>11

(* The line appended is of the next command due.                           *)
LEMMA ApplyCommandLists ==
  ASSUME Shape, Recorded, ProcessLists, ApplyCommand, Shape'
  PROVE  Recorded' /\ ProcessLists'
<1> DEFINE c == process.commands[event.cursor]
           e == TraceEvent(c)
           next == NextMatching(event.cursor + 1)
           n == <<Len(process.events), event.cursor>>
           table == SetShadow(c.target)
           count == IF e.sourceMatch THEN process.mismatches ELSE process.mismatches + 1
<1>1. /\ event # NoEvent /\ event.cursor \in DOMAIN process.commands
      /\ process' = [process EXCEPT !.shadow = table, !.matched = @ + 1,
                       !.mismatches = count]
      /\ \/ trace' = Appended(e) /\ UNCHANGED lost
         \/ lost' = lost \cup {Run} /\ UNCHANGED trace
      /\ event' = [event EXCEPT !.cursor = next]
      /\ UNCHANGED plans
  BY DEF ApplyCommand
<1>2. /\ process \in ProcessState /\ event \in BatchState /\ process.ready
      /\ process.events \in Seq(EventKeys) /\ process.commands \in Seq(CommandLine)
      /\ process.matched \in Nat /\ trace \in Seq(BridgeEvent \cup {Torn})
      /\ MatchesRuntime(c, EventKey)
      /\ event.cursor \in 1 .. Len(process.commands) /\ Len(process.commands) \in Nat
  <2>1. /\ process \in ProcessState /\ event \in BatchState
        /\ trace \in Seq(BridgeEvent \cup {Torn})
    BY <1>1 DEF Shape, TypeOK
  <2>2. process.ready /\ MatchesRuntime(c, EventKey)
    BY <1>1 DEF Shape, EventOK
  <2>3. /\ process.events \in Seq(EventKeys) /\ process.commands \in Seq(CommandLine)
        /\ process.matched \in Nat
    BY <2>1 DEF ProcessState
  <2>4. /\ event.cursor \in 1 .. Len(process.commands) /\ Len(process.commands) \in Nat
    BY <1>1, <2>3
  <2>5. QED
    BY <2>1, <2>2, <2>3, <2>4
<1>3. /\ InLayer /\ process.events # <<>>
      /\ process.events[Len(process.events)] = EventKey
  BY <1>1, <1>2 DEF InLayer, Recorded
<1>4. /\ next \in event.cursor + 1 .. Len(process.commands) + 1
      /\ \A j \in event.cursor + 1 .. Len(process.commands) :
           j < next => ~MatchesRuntime(process.commands[j], EventKey)
  BY <1>2, NoneBetween
<1>5. e \in BridgeEvent /\ e.command = c
  BY <1>1, AppliedLine DEF TraceEvent
<1> HIDE DEF next, table, count
<1>6. /\ process'.events = process.events /\ process'.commands = process.commands
      /\ process'.records = process.records /\ process'.ready = process.ready
      /\ process'.matched = process.matched + 1
  BY <1>1, <1>2 DEF ProcessState
<1>7. /\ event' # NoEvent /\ event'.cursor = next /\ EventKey' = EventKey /\ InLayer'
  <2>1. event \in BatchState /\ event' = [event EXCEPT !.cursor = next]
    BY <1>1, <1>2
  <2>2. next \in Nat
    BY <1>2, <1>4
  <2>3. event' \in BatchState
    BY <2>1, <2>2 DEF BatchState
  <2>4. event' # NoEvent
    BY <2>3, TraceAssumption DEF BatchState
  <2>5. QED
    BY <1>2, <1>4, <2>1, <2>4 DEF BatchState, EventKey, InLayer
<1>8. Recorded'
  BY <1>1, <1>3, <1>6, <1>7, <1>2 DEF Recorded, Run
<1> DEFINE last == Len(process.events)
<1>9. /\ last \in Nat \ {0} /\ last \in DOMAIN process.events
      /\ DOMAIN process.events = 1 .. last /\ DOMAIN process.commands = 1 .. Len(process.commands)
  BY <1>2, <1>3
<1>10. Applied' = Applied \cup {n}
  <2>1. Applied = {d \in Due(process.events, process.commands) :
                     d[1] < last \/ d[2] < event.cursor}
    BY <1>3 DEF Applied
  <2>2. Applied' = {d \in Due(process.events, process.commands) : d[1] < last \/ d[2] < next}
    BY <1>6, <1>7 DEF Applied
  <2>3. n \in Due(process.events, process.commands)
    BY <1>1, <1>2, <1>3, <1>9 DEF Due
  <2>4. ASSUME NEW i \in DOMAIN process.events, NEW j \in DOMAIN process.commands
        PROVE  <<i, j>> \in Applied' <=> <<i, j>> \in Applied \/ <<i, j>> = n
    <3>1. CASE i < last
      BY <1>9, <2>1, <2>2, <3>1
    <3>2. CASE i = last /\ j < event.cursor
      BY <1>2, <1>4, <1>9, <2>1, <2>2, <3>2
    <3>3. CASE i = last /\ j = event.cursor
      BY <1>2, <1>4, <2>2, <2>3, <3>3
    <3>4. CASE i = last /\ j > event.cursor
      <4>1. j < next => ~MatchesRuntime(process.commands[j], EventKey)
        BY <1>2, <1>4, <1>9, <3>4
      <4>2. j < next => <<i, j>> \notin Due(process.events, process.commands)
        BY <1>3, <3>4, <4>1 DEF Due
      <4>3. QED
        BY <1>2, <1>9, <2>1, <2>2, <3>4, <4>2
    <3>5. QED
      BY <1>2, <1>9, <3>1, <3>2, <3>3, <3>4
  <2>5. n \in (DOMAIN process.events) \X (DOMAIN process.commands)
    BY <1>1, <1>9
  <2>6. /\ Applied \subseteq (DOMAIN process.events) \X (DOMAIN process.commands)
        /\ Applied' \subseteq (DOMAIN process.events) \X (DOMAIN process.commands)
    BY <2>1, <2>2 DEF Due
  <2>7. QED
    BY <2>4, <2>5, <2>6
<1>11. \A d \in Applied : Sooner(d, n)
  BY <1>2, <1>3, <1>9 DEF Applied, Due, Sooner
<1>12. /\ Applied \in SUBSET (Nat \X Nat) /\ IsFiniteSet(Applied) /\ n \in Nat \X Nat
       /\ Cardinality(Applied) \in Nat
  BY <1>2, <1>9, AppliedFinite, FS_CardinalityType
<1> HIDE DEF n, last
<1>13. /\ Cardinality(Applied') = Cardinality(Applied) + 1
       /\ Place(n, Applied') = Cardinality(Applied) + 1
       /\ \A d \in Applied : Place(d, Applied') = Place(d, Applied)
  <2> DEFINE A == Applied
  <2>1. A \in SUBSET (Nat \X Nat) /\ IsFiniteSet(A) /\ \A d \in A : Sooner(d, n)
    BY <1>11, <1>12
  <2> HIDE DEF A
  <2>2. /\ Cardinality(A \cup {n}) = Cardinality(A) + 1
        /\ Place(n, A \cup {n}) = Cardinality(A) + 1
        /\ \A d \in A : Place(d, A \cup {n}) = Place(d, A)
    BY <1>12, <2>1, PlaceGrows
  <2>3. QED
    BY <1>10, <2>2 DEF A
<1>14. process'.matched = Cardinality(Applied')
  BY <1>6, <1>13 DEF ProcessLists
<1>15. ASSUME Intact(Run)'
       PROVE  \E k \in Nat : /\ k + process'.matched = Len(trace')
                             /\ ListsFrom(trace', k, process'.commands, Applied')
  <2>1. Run' = Run /\ Run \notin lost'
    BY <1>1, <1>15 DEF Run, Intact
  <2>2. trace' = Append(trace, e) /\ UNCHANGED lost
    <3>1. trace' = Appended(e) /\ UNCHANGED lost
      BY <1>1, <2>1
    <3>2. ~(trace # <<>> /\ Last(trace) = Torn)
      <4>1. SUFFICES ASSUME trace # <<>>, Last(trace) = Torn PROVE FALSE
        OBVIOUS
      <4>2. Torn \in ToSet(trace)
        BY <1>2, <4>1 DEF Last, ToSet
      <4>3. trace' = trace
        BY <3>1, <4>1 DEF Appended
      <4>4. QED
        BY <1>15, <4>2, <4>3 DEF Intact
    <3>3. QED
      BY <3>1, <3>2 DEF Appended
  <2>3. Intact(Run)
    <3>1. \A i \in DOMAIN trace : i \in DOMAIN trace' /\ trace'[i] = trace[i]
      BY <1>2, <2>2
    <3>2. QED
      BY <1>15, <2>1, <2>2, <3>1 DEF Intact, ToSet
  <2>4. PICK k \in Nat : /\ k + process.matched = Len(trace)
                         /\ ListsFrom(trace, k, process.commands, Applied)
    BY <2>3 DEF ProcessLists
  <2>5. /\ Len(trace') = Len(trace) + 1 /\ trace'[Len(trace) + 1] = e
        /\ \A i \in 1 .. Len(trace) : trace'[i] = trace[i]
        /\ Len(trace) \in Nat
    BY <1>2, <1>5, <2>2
  <2>6. ASSUME NEW d \in Applied
        PROVE  trace'[k + Place(d, Applied')].command = process.commands[d[2]]
    <3>1. Place(d, Applied) \in 1 .. process.matched
      BY <1>12, PlaceIs DEF ProcessLists
    <3>2. k + Place(d, Applied) \in 1 .. Len(trace)
      BY <1>2, <2>4, <2>5, <3>1
    <3>3. trace[k + Place(d, Applied)].command = process.commands[d[2]]
      BY <2>4 DEF ListsFrom
    <3>4. QED
      BY <1>13, <2>5, <3>2, <3>3
  <2>7. trace'[k + Place(n, Applied')].command = process.commands[n[2]]
    <3>1. k + Place(n, Applied') = Len(trace) + 1
      BY <1>2, <1>12, <1>13, <2>4 DEF ProcessLists
    <3>2. QED
      BY <1>5, <2>5, <3>1 DEF n
  <2>8. ListsFrom(trace', k, process'.commands, Applied')
    BY <1>6, <1>10, <2>6, <2>7 DEF ListsFrom
  <2>9. k + process'.matched = Len(trace')
    <3>1. Len(trace') = Len(trace) + 1 /\ process.matched \in Nat
      BY <1>2, <2>5
    <3>2. QED
      BY <1>6, <2>4, <3>1
  <2>10. QED
    BY <2>8, <2>9
<1>16. QED
  BY <1>8, <1>14, <1>15 DEF ProcessLists

(* A batch begins: the file may be loaded, and nothing is due yet.         *)
LEMMA ApplyUbatchLists ==
  ASSUME Shape, Recorded, ProcessLists, NEW c \in Caches, NEW u \in Ubatches[c],
         ApplyUbatch(c, u), Shape'
  PROVE  Recorded' /\ ProcessLists'
<1> DEFINE loaded == IF process.done THEN process ELSE Loaded(c)
<1>1. /\ process.running /\ event = NoEvent
      /\ process' = [loaded EXCEPT !.batches = @ + 1]
      /\ event' = IF loaded.ready THEN Started(c, u) ELSE NoEvent
      /\ UNCHANGED <<plans, trace, lost>>
  BY DEF ApplyUbatch
<1>2. /\ loaded \in ProcessState /\ loaded.events = process.events
      /\ loaded.matched = process.matched /\ loaded.records = process.records
      /\ process.done => loaded = process
      /\ ~process.done => process.events = <<>>
      /\ loaded.ready =>
           /\ plans[Run] # NoFile
           /\ \A j \in DOMAIN loaded.commands :
                j \in DOMAIN plans[Run] /\ loaded.commands[j] = plans[Run][j]
  <2>1. CASE process.done
    BY <2>1 DEF Shape, TypeOK, Recorded
  <2>2. CASE ~process.done
    BY <1>1, <2>2, LoadedIs, LoadedFile DEF Shape, CommandsOK, Recorded
  <2>3. QED
    BY <2>1, <2>2
<1> HIDE DEF loaded
<1>3. /\ process'.events = process.events /\ process'.matched = process.matched
      /\ process'.records = process.records /\ process'.ready = loaded.ready
      /\ process'.commands = loaded.commands
  BY <1>1, <1>2 DEF ProcessState
<1>4. ~InLayer /\ ~InLayer'
  BY <1>1 DEF InLayer, Started
<1>5. /\ Applied' = Applied
      /\ \A d \in Applied : process'.commands[d[2]] = process.commands[d[2]]
  <2>1. CASE process.done
    BY <1>2, <1>3, <1>4, <2>1 DEF Applied
  <2>2. CASE ~process.done
    BY <1>2, <1>3, <2>2 DEF Applied, Due
  <2>3. QED
    BY <2>1, <2>2
<1>6. ProcessLists'
  BY <1>1, <1>3, <1>5, ListKept
<1>7. ~process'.ready => process'.events = <<>>
  BY <1>2, <1>3 DEF Recorded
<1>8. process'.events # <<>> => process'.records = Len(process'.commands)
  BY <1>2, <1>3 DEF Recorded
<1>9. Recorded'
  BY <1>1, <1>2, <1>3, <1>4, <1>7, <1>8 DEF Recorded, Run
<1>10. QED
  BY <1>6, <1>9

(* A layer ends when no command is left.                                   *)
LEMMA AllApplied ==
  ASSUME Shape, event = NoEvent \/ event.cursor \in {0, Len(process.commands) + 1}
  PROVE  Applied = Due(process.events, process.commands)
<1>1. process.commands \in Seq(CommandLine) /\ Len(process.commands) \in Nat
  BY DEF Shape, TypeOK, ProcessState
<1>2. \A j \in DOMAIN process.commands : j < Len(process.commands) + 1
  BY <1>1
<1>3. QED
  BY <1>2 DEF Applied, InLayer, Due

LEMMA EndLayerLists ==
  ASSUME Shape, Recorded, ProcessLists, EndLayer, Shape'
  PROVE  Recorded' /\ ProcessLists'
<1>1. /\ event # NoEvent /\ event \in BatchState
      /\ event.cursor = Len(process.commands) + 1
      /\ event' = IF event.layer < Len(CacheLayers[event.cache])
                  THEN [event EXCEPT !.layer = @ + 1, !.cursor = 0] ELSE NoEvent
      /\ UNCHANGED <<plans, process, trace, lost>>
  BY DEF EndLayer, Shape, TypeOK
<1>2. event' = NoEvent \/ event'.cursor = 0
  BY <1>1 DEF BatchState
<1>3. Applied = Due(process.events, process.commands)
  BY <1>1, AllApplied
<1>4. ~InLayer'
  BY <1>2 DEF InLayer
<1>5. Applied' = Due(process.events, process.commands)
  BY <1>1, <1>4 DEF Applied
<1>6. ProcessLists'
  BY <1>1, <1>3, <1>5, ListKept
<1>7. Recorded'
  BY <1>1, <1>4 DEF Recorded, Run
<1>8. QED
  BY <1>6, <1>7

(* A process that has come to no layer has listed nothing.                 *)
LEMMA StoppedLists ==
  ASSUME Shape', process'.events = <<>>, process'.matched = 0, ~process'.ready,
         event' = NoEvent
  PROVE  Recorded' /\ ProcessLists'
<1>1. Applied' = {} /\ Cardinality({}) = 0
  BY FS_EmptySet DEF Applied, Due
<1>2. Len(trace') \in Nat
  BY DEF Shape, TypeOK
<1>3. ListsFrom(trace', Len(trace'), process'.commands, Applied')
  BY <1>1 DEF ListsFrom
<1>4. Len(trace') + process'.matched = Len(trace')
  BY <1>2
<1>5. ProcessLists'
  BY <1>1, <1>2, <1>3, <1>4 DEF ProcessLists
<1>6. Recorded'
  BY DEF Recorded, InLayer
<1>7. QED
  BY <1>5, <1>6

LEMMA StillLists ==
  ASSUME Recorded, ProcessLists, UNCHANGED <<plans, process, event, trace, lost>>
  PROVE  Recorded' /\ ProcessLists'
<1>1. Applied' = Applied
  BY DEF Applied, InLayer
<1>2. ProcessLists'
  BY <1>1, ListKept
<1>3. Recorded'
  BY DEF Recorded, InLayer, EventKey, Run
<1>4. QED
  BY <1>2, <1>3

LEMMA NextLists == Shape /\ Recorded /\ ProcessLists /\ [Next]_vars /\ Shape' =>
                     Recorded' /\ ProcessLists'
<1>1. SUFFICES ASSUME Shape, Recorded, ProcessLists, [Next]_vars, Shape'
               PROVE  Recorded' /\ ProcessLists'
  OBVIOUS
<1>2. CASE \E f \in Files : StartProcess(f)
  <2>1. /\ process'.events = <<>> /\ process'.matched = 0 /\ ~process'.ready
        /\ event' = NoEvent
    BY <1>1, <1>2 DEF StartProcess, Fresh, Shape, EventOK
  <2>2. QED
    BY <1>1, <2>1, StoppedLists
<1>3. CASE \E c \in Caches : \E u \in Ubatches[c] : ApplyUbatch(c, u)
  BY <1>1, <1>3, ApplyUbatchLists
<1>4. CASE BeginLayer
  BY <1>1, <1>4, BeginLayerLists
<1>5. CASE ApplyCommand
  BY <1>1, <1>5, ApplyCommandLists
<1>6. CASE EndLayer
  BY <1>1, <1>6, EndLayerLists
<1>7. CASE AttentionView
  BY <1>1, <1>7, StillLists DEF AttentionView
<1>8. CASE Exit \/ Kill
  <2>1. /\ process'.events = <<>> /\ process'.matched = 0 /\ ~process'.ready
        /\ event' = NoEvent
    BY <1>8 DEF Exit, Kill, Stopped, Fresh
  <2>2. QED
    BY <1>1, <2>1, StoppedLists
<1>9. CASE UNCHANGED vars
  BY <1>1, <1>9, StillLists DEF vars
<1>10. QED
  BY <1>1, <1>2, <1>3, <1>4, <1>5, <1>6, <1>7, <1>8, <1>9 DEF Next

-----------------------------------------------------------------------------
(* A summary stays true of its lines, which move no more.                  *)
LEMMA SummaryListsKept ==
  ASSUME Shape, SummaryLists, bridgeSummary' \in {bridgeSummary, Torn},
         UNCHANGED plans \/ \E f \in Files : plans' = Append(plans, f),
         lost \subseteq lost', NEW e \in BridgeEvent \cup {Torn},
         trace' \in {trace, Appended(e)}
  PROVE  SummaryLists'
<1> DEFINE s == bridgeSummary
           D == DueOf(s)
<1>1. SUFFICES ASSUME Written(bridgeSummary)' PROVE SummaryLists'
  BY DEF SummaryLists
<1>2. bridgeSummary' = s /\ Written(s) /\ s \in SummaryState
  BY <1>1 DEF Written, Shape, TypeOK
<1>3. /\ plans \in Seq(Files) /\ trace \in Seq(BridgeEvent \cup {Torn})
      /\ Len(trace) \in Nat
  BY DEF Shape, TypeOK
<1>4. /\ s.run \in DOMAIN plans /\ s.matched = Cardinality(D)
      /\ s.events \in Seq(EventKeys) /\ s.records \in Nat /\ s.matched \in Nat
  BY <1>2 DEF SummaryLists, SummaryState
<1>5. s.run \in DOMAIN plans' /\ plans'[s.run] = plans[s.run]
  <2>1. CASE UNCHANGED plans
    BY <1>4, <2>1
  <2>2. CASE \E f \in Files : plans' = Append(plans, f)
    BY <1>3, <1>4, <2>2
  <2>3. QED
    BY <2>1, <2>2
<1>6. DueOf(bridgeSummary)' = D
  BY <1>2, <1>5 DEF DueOf
<1>7. D \in SUBSET (Nat \X Nat) /\ IsFiniteSet(D)
  BY <1>4, DueFinite DEF DueOf
<1>8. ASSUME Intact(s.run)'
      PROVE  \E k \in Nat : /\ k + s.matched <= Len(trace')
                            /\ ListsFrom(trace', k, plans[s.run], D)
  <2>1. /\ Len(trace) <= Len(trace')
        /\ \A i \in 1 .. Len(trace) : i \in DOMAIN trace' /\ trace'[i] = trace[i]
    <3>1. CASE trace' = trace
      BY <1>3, <3>1
    <3>2. CASE trace' = Append(trace, e)
      BY <1>3, <3>2
    <3>3. QED
      BY <3>1, <3>2 DEF Appended
  <2>2. Torn \notin ToSet(trace)
    BY <1>3, <1>8, <2>1 DEF Intact, ToSet
  <2>3. Intact(s.run)
    BY <1>2, <1>8, <2>2 DEF Intact
  <2>4. PICK k \in Nat : /\ k + s.matched <= Len(trace)
                         /\ ListsFrom(trace, k, plans[s.run], D)
    BY <1>2, <2>3 DEF SummaryLists
  <2>5. ASSUME NEW d \in D PROVE trace'[k + Place(d, D)].command = plans[s.run][d[2]]
    <3> HIDE DEF D
    <3>1. Place(d, D) \in 1 .. s.matched
      BY <1>4, <1>7, PlaceIs
    <3>2. k + Place(d, D) \in 1 .. Len(trace)
      BY <1>3, <1>4, <2>4, <3>1
    <3>3. trace[k + Place(d, D)].command = plans[s.run][d[2]]
      BY <2>4 DEF ListsFrom
    <3>4. QED
      BY <2>1, <3>2, <3>3
  <2>6. ListsFrom(trace', k, plans[s.run], D)
    BY <2>5 DEF ListsFrom
  <2>7. Len(trace') \in Nat
    BY <1>3 DEF Appended
  <2>8. k + s.matched <= Len(trace')
    BY <1>3, <1>4, <2>1, <2>4, <2>7
  <2>9. QED
    BY <2>6, <2>8
<1> HIDE DEF D
<1>9. QED
  BY <1>2, <1>4, <1>5, <1>6, <1>8 DEF SummaryLists

(* A summary written after a layer has all that was due so far.            *)
LEMMA SummaryListsWritten ==
  ASSUME Shape, Recorded, ProcessLists, SummaryLists, process.running, WriteSummary,
         UNCHANGED <<plans, trace, lost>>,
         event = NoEvent \/ event.cursor = Len(process.commands) + 1
  PROVE  SummaryLists'
<1>1. CASE bridgeSummary' = bridgeSummary
  BY <1>1, SummaryListsKept
<1>2. CASE bridgeSummary' = Summary
  <2> DEFINE file == plans[Run]
             n == process.records
  <2>1. /\ bridgeSummary'.run = Run /\ bridgeSummary'.matched = process.matched
        /\ bridgeSummary'.events = process.events /\ bridgeSummary'.records = n
    BY <1>2 DEF Summary
  <2>2. Run \in DOMAIN plans /\ process.events \in Seq(EventKeys)
        /\ process.commands \in Seq(CommandLine)
    BY DEF Shape, RunningOK, TypeOK, ProcessState
  <2>3. Applied = DueIn(process.events, process.commands, Len(process.commands))
    BY AllApplied, AppliedFinite
  <2>4. Applied = DueIn(process.events, file, n)
    <3>1. CASE process.events = <<>>
      BY <2>3, <3>1 DEF DueIn
    <3>2. CASE process.events # <<>>
      <4>1. n = Len(process.commands) /\ process.ready
        BY <3>2 DEF Recorded
      <4>2. \A j \in 1 .. n : process.commands[j] = file[j]
        BY <2>2, <4>1 DEF Recorded
      <4>3. QED
        BY <2>3, <4>1, <4>2 DEF DueIn
    <3>3. QED
      BY <3>1, <3>2
  <2>5. DueOf(bridgeSummary)' = Applied
    BY <2>1, <2>4 DEF DueOf, Run
  <2>6. \A d \in Applied : process.commands[d[2]] = file[d[2]]
    <3>1. SUFFICES ASSUME NEW d \in Applied PROVE process.commands[d[2]] = file[d[2]]
      OBVIOUS
    <3>2. d[1] \in DOMAIN process.events /\ d[2] \in DOMAIN process.commands
      BY DEF Applied, Due
    <3>3. process.ready
      BY <2>2, <3>2 DEF Recorded
    <3>4. QED
      BY <3>2, <3>3 DEF Recorded
  <2>7. ASSUME Intact(Run)
        PROVE  \E k \in Nat : /\ k + process.matched <= Len(trace)
                              /\ ListsFrom(trace, k, file, Applied)
    <3>1. PICK k \in Nat : /\ k + process.matched = Len(trace)
                           /\ ListsFrom(trace, k, process.commands, Applied)
      BY <2>7 DEF ProcessLists
    <3>2. ListsFrom(trace, k, file, Applied)
      BY <2>6, <3>1 DEF ListsFrom
    <3>3. Len(trace) \in Nat
      BY DEF Shape, TypeOK
    <3>4. QED
      BY <3>1, <3>2, <3>3
  <2>8. process.matched = Cardinality(Applied)
    BY DEF ProcessLists
  <2>9. Intact(bridgeSummary.run)' => Intact(Run)
    BY <2>1 DEF Intact
  <2>10. plans'[bridgeSummary'.run] = file /\ bridgeSummary'.run \in DOMAIN plans'
    BY <2>1, <2>2
  <2> HIDE DEF file
  <2>11. QED
    BY <2>1, <2>5, <2>7, <2>8, <2>9, <2>10 DEF SummaryLists
<1>3. QED
  BY <1>1, <1>2 DEF WriteSummary

LEMMA NextSummaryLists ==
  Shape /\ Recorded /\ ProcessLists /\ SummaryLists /\ [Next]_vars => SummaryLists'
<1>1. SUFFICES ASSUME Shape, Recorded, ProcessLists, SummaryLists, [Next]_vars
               PROVE  SummaryLists'
  OBVIOUS
<1>2. CASE \E f \in Files : StartProcess(f)
  BY <1>1, <1>2, SummaryListsKept DEF StartProcess
<1>3. CASE \E c \in Caches : \E u \in Ubatches[c] : ApplyUbatch(c, u)
  BY <1>1, <1>3, SummaryListsKept DEF ApplyUbatch
<1>4. CASE BeginLayer
  BY <1>1, <1>4, SummaryListsKept DEF BeginLayer
<1>5. CASE ApplyCommand
  <2> DEFINE e == TraceEvent(process.commands[event.cursor])
  <2>1. /\ event # NoEvent /\ event.cursor \in DOMAIN process.commands
        /\ trace' \in {trace, Appended(e)} /\ lost \subseteq lost'
        /\ UNCHANGED <<plans, bridgeSummary>>
    BY <1>5 DEF ApplyCommand
  <2>2. e \in BridgeEvent
    BY <1>1, <2>1, AppliedLine
  <2> HIDE DEF e
  <2>3. QED
    BY <1>1, <2>1, <2>2, SummaryListsKept
<1>6. CASE EndLayer
  <2>1. process.running
    BY <1>1, <1>6 DEF EndLayer, Shape, EventOK
  <2>2. QED
    BY <1>1, <1>6, <2>1, SummaryListsWritten DEF EndLayer
<1>7. CASE AttentionView
  BY <1>1, <1>7, SummaryListsWritten DEF AttentionView
<1>8. CASE Exit
  BY <1>1, <1>8, SummaryListsKept DEF Exit
<1>9. CASE Kill
  <2>1. /\ UNCHANGED <<plans, lost>> /\ Torn \in BridgeEvent \cup {Torn}
        /\ trace' \in {trace, Appended(Torn)} /\ bridgeSummary' \in {bridgeSummary, Torn}
    BY <1>9, KillWrites
  <2>2. QED
    BY <1>1, <2>1, SummaryListsKept
<1>10. CASE UNCHANGED vars
  BY <1>1, <1>10, SummaryListsKept DEF vars
<1>11. QED
  BY <1>1, <1>2, <1>3, <1>4, <1>5, <1>6, <1>7, <1>8, <1>9, <1>10 DEF Next

-----------------------------------------------------------------------------
(* A process that has not loaded its file has applied nothing.             *)
LEMMA NothingApplied ==
  ASSUME Recorded, ProcessLists, ~process.ready
  PROVE  process.matched = 0
<1>1. Applied = {}
  BY DEF Recorded, Applied, Due
<1>2. QED
  BY <1>1, FS_EmptySet DEF ProcessLists

LEMMA StartProcessCounted ==
  ASSUME Shape, SummaryLists, CommandsCounted, NEW f \in Files, StartProcess(f)
  PROVE  CommandsCounted'
<1>1. /\ plans' = Append(plans, f) /\ plans \in Seq(Files)
      /\ UNCHANGED <<bridgeSummary, commandSummary>> /\ ~process'.ready
  BY DEF StartProcess, Fresh, Shape, TypeOK
<1>2. /\ Run' = Len(plans) + 1 /\ Run' \notin DOMAIN plans
      /\ \A p \in DOMAIN plans : p \in DOMAIN plans' /\ plans'[p] = plans[p]
  BY <1>1 DEF Run
<1>3. /\ Written(bridgeSummary) => bridgeSummary.run \in DOMAIN plans
      /\ Written(commandSummary) => commandSummary.run \in DOMAIN plans
  BY DEF SummaryLists, CommandsCounted
<1>4. QED
  BY <1>1, <1>2, <1>3 DEF CommandsCounted, Written

(* The file is loaded, and what is reported of it may be lost.             *)
LEMMA ApplyUbatchCounted ==
  ASSUME Shape, SummaryLists, CommandsCounted, NEW c \in Caches, NEW u \in Ubatches[c],
         ApplyUbatch(c, u)
  PROVE  CommandsCounted'
<1> DEFINE loaded == IF process.done THEN process ELSE Loaded(c)
           w == WrittenCommandSummary(c)
<1>1. /\ process.running /\ process' = [loaded EXCEPT !.batches = @ + 1]
      /\ commandSummary' \in {commandSummary} \cup IF process.done THEN {} ELSE {w}
      /\ UNCHANGED <<plans, bridgeSummary>>
  BY DEF ApplyUbatch
<1>2. Run \in DOMAIN plans /\ w.run = Run
  BY <1>1 DEF Shape, RunningOK, WrittenCommandSummary
<1>3. /\ loaded \in ProcessState /\ loaded.done
      /\ process.done => loaded = process
      /\ ~process.done /\ loaded.ready => w.valid = Len(plans[Run])
  <2>1. CASE process.done
    BY <2>1 DEF Shape, TypeOK
  <2>2. CASE ~process.done
    BY <1>1, <2>2, LoadedIs, LoadedFile
  <2>3. QED
    BY <2>1, <2>2
<1> HIDE DEF loaded, w
<1>4. process'.done /\ process'.ready = loaded.ready
  BY <1>1, <1>3 DEF ProcessState
<1>5. CASE process.done
  BY <1>1, <1>3, <1>4, <1>5 DEF CommandsCounted, Run, Written
<1>6. CASE ~process.done /\ commandSummary' = commandSummary
  BY <1>1, <1>4, <1>6 DEF CommandsCounted, Run, Written
<1>7. CASE ~process.done /\ commandSummary' = w
  <2>1. Written(bridgeSummary) /\ bridgeSummary.run = Run => bridgeSummary.matched = 0
    BY <1>1, <1>7 DEF CommandsCounted
  <2>2. QED
    BY <1>1, <1>2, <1>3, <1>4, <1>7, <2>1 DEF CommandsCounted, Run, Written
<1>8. QED
  BY <1>1, <1>5, <1>6, <1>7

LEMMA WriteSummaryCounted ==
  ASSUME Shape, Recorded, ProcessLists, CommandsCounted, WriteSummary,
         UNCHANGED <<plans, process, commandSummary>>
  PROVE  CommandsCounted'
<1>1. CASE bridgeSummary' = bridgeSummary
  BY <1>1 DEF CommandsCounted, Run, Written
<1>2. CASE bridgeSummary' = Summary
  <2>1. bridgeSummary'.run = Run /\ bridgeSummary'.matched = process.matched
    BY <1>2 DEF Summary
  <2>2. process.ready => process.done /\ plans[Run] # NoFile
    BY DEF Shape, CommandsOK, Recorded
  <2>3. ~process.ready => process.matched = 0
    BY NothingApplied
  <2>4. QED
    BY <2>1, <2>2, <2>3 DEF CommandsCounted, Run, Written
<1>3. QED
  BY <1>1, <1>2 DEF WriteSummary

LEMMA NextCounted ==
  Shape /\ Lines /\ [Next]_vars => CommandsCounted'
<1>1. SUFFICES ASSUME Shape, Lines, [Next]_vars PROVE CommandsCounted'
  OBVIOUS
<1>2. Recorded /\ ProcessLists /\ SummaryLists /\ CommandsCounted
  BY <1>1 DEF Lines
<1>3. CASE \E f \in Files : StartProcess(f)
  BY <1>1, <1>2, <1>3, StartProcessCounted
<1>4. CASE \E c \in Caches : \E u \in Ubatches[c] : ApplyUbatch(c, u)
  BY <1>1, <1>2, <1>4, ApplyUbatchCounted
<1>5. CASE BeginLayer \/ ApplyCommand
  <2>1. process \in ProcessState
    BY <1>1 DEF Shape, TypeOK
  <2>2. /\ process'.running = process.running /\ process'.done = process.done
        /\ process'.ready = process.ready
        /\ UNCHANGED <<plans, bridgeSummary, commandSummary>>
    BY <1>5, <2>1 DEF BeginLayer, ApplyCommand, ProcessState
  <2>3. QED
    BY <1>2, <2>2 DEF CommandsCounted, Run, Written
<1>6. CASE EndLayer \/ AttentionView
  BY <1>1, <1>2, <1>6, WriteSummaryCounted DEF EndLayer, AttentionView
<1>7. CASE Exit \/ Kill
  <2>1. /\ ~process'.running /\ ~process'.ready /\ UNCHANGED plans
        /\ bridgeSummary' \in {bridgeSummary, Torn}
        /\ commandSummary' \in {commandSummary, Torn}
    BY <1>7 DEF Exit, Kill, Stopped, Fresh
  <2>2. /\ Written(bridgeSummary)' => bridgeSummary' = bridgeSummary /\ Written(bridgeSummary)
        /\ Written(commandSummary)' =>
             commandSummary' = commandSummary /\ Written(commandSummary)
    BY <2>1 DEF Written
  <2>3. QED
    BY <1>2, <2>1, <2>2 DEF CommandsCounted
<1>8. CASE UNCHANGED vars
  BY <1>2, <1>8 DEF vars, CommandsCounted, Run, Written
<1>9. QED
  BY <1>1, <1>3, <1>4, <1>5, <1>6, <1>7, <1>8 DEF Next

LEMMA InitLines == Init => Lines
<1>1. SUFFICES ASSUME Init PROVE Lines
  OBVIOUS
<1>2. /\ process.events = <<>> /\ process.matched = 0 /\ ~process.ready
      /\ ~process.running /\ event = NoEvent /\ trace = <<>>
      /\ ~Written(bridgeSummary) /\ ~Written(commandSummary)
  BY <1>1 DEF Init, Fresh, Written
<1>3. Applied = {} /\ Cardinality({}) = 0
  BY <1>2, FS_EmptySet DEF Applied, Due
<1>4. ListsFrom(trace, 0, process.commands, Applied)
  BY <1>3 DEF ListsFrom
<1>5. ProcessLists
  BY <1>2, <1>3, <1>4 DEF ProcessLists
<1>6. Recorded
  BY <1>2 DEF Recorded, InLayer
<1>7. SummaryLists /\ CommandsCounted
  BY <1>2 DEF SummaryLists, CommandsCounted
<1>8. QED
  BY <1>5, <1>6, <1>7 DEF Lines

LEMMA LinesHold == Spec => [](Shape /\ Lines)
<1>1. Init => Shape /\ Lines
  BY InitShape, InitLines
<1>2. Shape /\ Lines /\ [Next]_vars => (Shape /\ Lines)'
  BY NextShape, NextLists, NextSummaryLists, NextCounted DEF Lines
<1>3. QED
  BY <1>1, <1>2, PTL DEF Spec

(* With no command dropped, the lines of an accepted trace are those due.  *)
LEMMA AllDueListed == Shape /\ Lines => DroppedCommandsVisible
<1> DEFINE s == bridgeSummary
           file == plans[s.run]
           due == Due(s.events, file)
<1>1. SUFFICES ASSUME Shape, Lines, Summarizes, Written(commandSummary),
                      commandSummary.run = s.run, s.run \notin lost,
                      commandSummary.valid = s.records
               PROVE  /\ Len(PlanOps) = Cardinality(due)
                      /\ \A d \in due : PlanOps[Place(d, due)] = file[d[2]]
  BY DEF DroppedCommandsVisible
<1>2. /\ Loadable /\ Written(s) /\ Intact(s.run) /\ s.matched = Len(trace)
      /\ s \in SummaryState /\ trace \in Seq(BridgeEvent \cup {Torn})
  BY <1>1 DEF Summarizes, Loadable, Intact, Shape, TypeOK, Written
<1>3. Len(trace) \in Nat \ {0} /\ DOMAIN trace = 1 .. Len(trace)
  BY <1>2 DEF Loadable
<1>4. file # NoFile /\ s.records = Len(file) /\ s.run \in DOMAIN plans
  BY <1>1, <1>2, <1>3 DEF Lines, CommandsCounted, SummaryLists
<1>5. file \in Seq(CommandLine)
  BY <1>1, <1>4, FileAssumption DEF Shape, TypeOK
<1>6. due = DueOf(s)
  BY <1>4, <1>5 DEF Due, DueOf, DueIn
<1>7. due \in SUBSET (Nat \X Nat) /\ IsFiniteSet(due)
  <2>1. s.events \in Seq(EventKeys) /\ s.records \in Nat
    BY <1>2 DEF SummaryState
  <2>2. QED
    BY <1>6, <2>1, DueFinite DEF DueOf
<1>8. s.matched = Cardinality(due) /\ ListsFrom(trace, 0, file, due)
  <2>1. PICK k \in Nat : /\ k + s.matched <= Len(trace)
                         /\ ListsFrom(trace, k, file, DueOf(s))
    BY <1>1, <1>2 DEF Lines, SummaryLists
  <2>2. k = 0
    BY <1>2, <1>3, <2>1
  <2>3. s.matched = Cardinality(DueOf(s))
    BY <1>1, <1>2 DEF Lines, SummaryLists
  <2>4. QED
    BY <1>6, <2>1, <2>2, <2>3
<1>9. /\ \A i \in DOMAIN trace : PlanOps[i] = trace[i].command
      /\ Len(PlanOps) = Len(trace)
  <2>1. /\ DOMAIN PlanOps = 1 .. Len(trace)
        /\ \A i \in 1 .. Len(trace) : PlanOps[i] \in CommandLine
    BY <1>1, <1>2, <1>3, PlanOpsComeFromFiles
  <2>2. PlanOps = [i \in 1 .. Len(trace) |-> PlanOps[i]]
    BY <1>3 DEF PlanOps
  <2>3. PlanOps \in Seq(CommandLine)
    BY <1>3, <2>1, <2>2
  <2>4. Len(PlanOps) = Len(trace)
    BY <1>3, <2>1, <2>3
  <2>5. QED
    BY <2>4 DEF PlanOps
<1> HIDE DEF s, file, due
<1>10. ASSUME NEW d \in due PROVE PlanOps[Place(d, due)] = file[d[2]]
  <2>1. Place(d, due) \in 1 .. Cardinality(due)
    BY <1>7, PlaceIs
  <2>2. Place(d, due) \in 1 .. Len(trace) /\ 0 + Place(d, due) = Place(d, due)
    BY <1>2, <1>8, <2>1
  <2>3. trace[Place(d, due)].command = file[d[2]]
    BY <1>8, <2>2 DEF ListsFrom
  <2>4. QED
    BY <1>3, <1>9, <2>2, <2>3
<1>11. QED
  BY <1>2, <1>8, <1>9, <1>10

(* When the two summaries of a run agree on the number of commands, an     *)
(* accepted trace holds what was due in it: each matching command of the   *)
(* file for each layer event, in order, and no other (patch:502).          *)
THEOREM DroppedCommandsShow == Spec => []DroppedCommandsVisible
BY AllDueListed, LinesHold, PTL
=============================================================================
