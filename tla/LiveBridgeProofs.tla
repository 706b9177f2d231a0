-------------------------- MODULE LiveBridgeProofs --------------------------
(***************************************************************************)
(* The live bridge, for every command file, cache, table size, heap and    *)
(* environment.  Three invariants, the later two leaning on the first:     *)
(*                                                                         *)
(*   IInv  memory safety of the staging executor and the bounds of its     *)
(*         tables: a buffer has one owner, so that freeing or filling it   *)
(*         touches no other record;                                        *)
(*   SInv  what the staging records say is true: a staged buffer holds     *)
(*         bytes that a command names for its block;                       *)
(*   PInv  where a block's plan has brought it, the executor has put it.   *)
(***************************************************************************)
EXTENDS LiveBridge, FiniteSetTheorems, WellFoundedInduction, TLAPS

(***************************************************************************)
(* Memory safety of the staging executor, and the bounds of its tables,    *)
(* for every command file, cache, table size, heap and environment.        *)
(* TypeOK and BuffersOwned support each other; the inductive invariant     *)
(* adds that stored commands passed the loader's checks (so a shadow       *)
(* record only ever holds a location) and that the tables are finite.      *)
(***************************************************************************)

CommandsValid ==
  \A i \in DOMAIN commands : ValidCommand(commands[i], Layers, CacheSize)

TablesFinite == IsFiniteSet(DOMAIN shadow) /\ IsFiniteSet(DOMAIN staging)

IInv == TypeOK /\ BuffersOwned /\ CommandsValid /\ TablesFinite

(* What every executor routine must leave behind.                          *)
GoodTable(table) ==
  /\ DOMAIN table \subseteq Keys
  /\ IsFiniteSet(DOMAIN table) /\ Cardinality(DOMAIN table) <= MaxStaging
  /\ \A k \in DOMAIN table : table[k] \in StagingRecord

GoodOutcome(o) ==
  /\ GoodTable(o.staging)
  /\ DOMAIN o.heap \subseteq Buffers
  /\ o.raised \subseteq Counters
  /\ Owned(o.staging, o.heap)

LEMMA OutcomeFields ==
  ASSUME NEW t, NEW h, NEW r
  PROVE  /\ Outcome(t, h, r).staging = t
         /\ Outcome(t, h, r).heap = h
         /\ Outcome(t, h, r).raised = r
BY DEF Outcome

LEMMA KeepGood ==
  ASSUME IInv, NEW r \in SUBSET Counters
  PROVE  GoodOutcome(Keep(r))
BY OutcomeFields DEF IInv, TypeOK, TablesFinite, BuffersOwned, GoodOutcome, GoodTable, Keep

LEMMA RaiseGood ==
  ASSUME NEW o, GoodOutcome(o), NEW r \in SUBSET Counters
  PROVE  GoodOutcome(Raise(o, r))
BY OutcomeFields DEF GoodOutcome, Raise

(* Pointing a slot at a fresh buffer and freeing the old one keeps         *)
(* ownership exact, provided the record exists or there is room for it.    *)
LEMMA InstallGood ==
  ASSUME NEW o, GoodOutcome(o), NEW k \in Keys, NEW size \in Nat, NEW slot \in Slots,
         NEW b \in Buffers \ DOMAIN o.heap, NEW bytes,
         k \in DOMAIN o.staging \/ Cardinality(DOMAIN o.staging) < MaxStaging
  PROVE  GoodOutcome(Install(o, k, size, slot, b, bytes))
<1> DEFINE r == IF k \in DOMAIN o.staging THEN o.staging[k] ELSE EmptyRecord(size)
           new == [r EXCEPT !.buf = [r.buf EXCEPT ![slot] = b]]
           table == [j \in DOMAIN o.staging \cup {k} |-> IF j = k THEN new ELSE o.staging[j]]
           live == (DOMAIN o.heap \ {r.buf[slot]}) \cup {b}
           h == [x \in live |-> IF x = b THEN bytes ELSE o.heap[x]]
<1>1. Install(o, k, size, slot, b, bytes) = Outcome(table, h, o.raised)
  BY DEF Install
<1>2. NoBuffer \notin Buffers
  BY BridgeAssumption
<1>3. r \in StagingRecord
  BY DEF GoodOutcome, GoodTable, EmptyRecord, StagingRecord
<1>4. /\ new \in StagingRecord
      /\ new.buf[slot] = b
      /\ \A s \in Slots \ {slot} : new.buf[s] = r.buf[s]
  BY <1>3 DEF StagingRecord
<1>5. DOMAIN table = DOMAIN o.staging \cup {k} /\ DOMAIN h = live
  OBVIOUS
<1>6. /\ table[k] = new
      /\ \A j \in DOMAIN o.staging \ {k} : table[j] = o.staging[j]
  OBVIOUS
<1> HIDE DEF new, table, live, h
<1>7. GoodTable(table)
  <2>1. IsFiniteSet(DOMAIN table)
    BY <1>5, FS_AddElement DEF GoodOutcome, GoodTable
  <2>2. Cardinality(DOMAIN table) <= MaxStaging
    <3>1. Cardinality(DOMAIN o.staging) \in Nat /\ MaxStaging \in Nat
      BY FS_CardinalityType, BridgeAssumption DEF GoodOutcome, GoodTable
    <3>2. Cardinality(DOMAIN table) =
            IF k \in DOMAIN o.staging THEN Cardinality(DOMAIN o.staging)
            ELSE Cardinality(DOMAIN o.staging) + 1
      BY <1>5, FS_AddElement DEF GoodOutcome, GoodTable
    <3>3. CASE k \in DOMAIN o.staging
      BY <3>2, <3>3 DEF GoodOutcome, GoodTable
    <3>4. CASE k \notin DOMAIN o.staging
      BY <3>1, <3>2, <3>4
    <3>5. QED
      BY <3>3, <3>4
  <2>3. QED
    BY <1>4, <1>5, <1>6, <2>1, <2>2 DEF GoodOutcome, GoodTable
<1>8. DOMAIN h \subseteq Buffers
  BY <1>5 DEF GoodOutcome, live
<1>9. Owned(table, h)
  <2> DEFINE old == r.buf[slot]
  <2>1. /\ \A j \in DOMAIN o.staging, s \in Slots :
             o.staging[j].buf[s] \in DOMAIN o.heap \cup {NoBuffer}
        /\ \A j, l \in DOMAIN o.staging, s, t \in Slots :
             o.staging[j].buf[s] = o.staging[l].buf[t] =>
               o.staging[j].buf[s] = NoBuffer \/ (j = l /\ s = t)
        /\ \A x \in DOMAIN o.heap :
             \E j \in DOMAIN o.staging, s \in Slots : o.staging[j].buf[s] = x
    BY DEF GoodOutcome, Owned
  <2>2. /\ k \in DOMAIN o.staging => r = o.staging[k]
        /\ k \notin DOMAIN o.staging => \A s \in Slots : r.buf[s] = NoBuffer
    BY DEF EmptyRecord
  <2>3. \A j \in DOMAIN table, s \in Slots :
          \/ j = k /\ s = slot /\ table[j].buf[s] = b
          \/ /\ ~(j = k /\ s = slot)
             /\ table[j].buf[s] = NoBuffer
          \/ /\ ~(j = k /\ s = slot)
             /\ j \in DOMAIN o.staging
             /\ table[j].buf[s] = o.staging[j].buf[s]
    BY <1>4, <1>5, <1>6, <2>2
  <2>4. b # NoBuffer /\ b \notin DOMAIN o.heap
    BY <1>2
  <2>5. NoBuffer \notin DOMAIN o.heap
    BY <1>2 DEF GoodOutcome
  <2> HIDE DEF r
  <2>6. \A j \in DOMAIN table, s \in Slots : table[j].buf[s] \in DOMAIN h \cup {NoBuffer}
    <3>1. \A j \in DOMAIN o.staging, s \in Slots :
            ~(j = k /\ s = slot) /\ o.staging[j].buf[s] = old => old = NoBuffer
      BY <2>1, <2>2, <2>5
    <3>2. QED
      BY <1>5, <2>1, <2>3, <3>1 DEF live
  <2>7. \A j, l \in DOMAIN table, s, t \in Slots :
          table[j].buf[s] = table[l].buf[t] =>
            table[j].buf[s] = NoBuffer \/ (j = l /\ s = t)
    BY <2>1, <2>3, <2>4
  <2>8. \A x \in DOMAIN h : \E j \in DOMAIN table, s \in Slots : table[j].buf[s] = x
    <3> SUFFICES ASSUME NEW x \in DOMAIN h
                 PROVE  \E j \in DOMAIN table, s \in Slots : table[j].buf[s] = x
      OBVIOUS
    <3>1. CASE x = b
      BY <1>4, <1>5, <1>6, <3>1
    <3>2. CASE x # b
      <4>1. x \in DOMAIN o.heap /\ x # old
        BY <1>5, <3>2 DEF live
      <4>2. PICK j \in DOMAIN o.staging, s \in Slots : o.staging[j].buf[s] = x
        BY <2>1, <4>1
      <4>3. ~(j = k /\ s = slot)
        BY <2>2, <4>1, <4>2
      <4>4. table[j].buf[s] = x
        BY <1>4, <1>5, <1>6, <2>2, <4>2, <4>3
      <4>5. QED
        BY <1>5, <4>4
    <3>3. QED
      BY <3>1, <3>2
  <2>9. QED
    BY <2>6, <2>7, <2>8 DEF Owned
<1>10. QED
  BY <1>1, <1>7, <1>8, <1>9, OutcomeFields DEF GoodOutcome

LEMMA ReadIntoGood ==
  ASSUME IInv, NEW c \in Lines, ValidCommand(c, Layers, CacheSize), NEW slot \in Slots,
         NEW o \in ReadInto(c, slot)
  PROVE  GoodOutcome(o)
<1>1. Key(c) \in Keys /\ c.size \in Nat
  BY BridgeAssumption DEF Keys, ValidCommand, CommandLine
<1>2. CASE o = Keep({"io_error"})
  BY <1>2, KeepGood DEF Counters
<1>3. CASE StagingError(Key(c), c.size) # {} /\ o = Keep(StagingError(Key(c), c.size))
  BY <1>3, KeepGood DEF Counters, StagingError
<1>4. ASSUME StagingError(Key(c), c.size) = {}, NEW b \in Buffers \ DOMAIN heap,
             o = Install(Keep({}), Key(c), c.size, slot, b, c.offset)
      PROVE  GoodOutcome(o)
  <2>1. GoodOutcome(Keep({}))
    BY KeepGood
  <2>2. Keep({}).staging = staging /\ Keep({}).heap = heap
    BY OutcomeFields DEF Keep
  <2>3. Key(c) \in DOMAIN staging \/ Cardinality(DOMAIN staging) < MaxStaging
    BY <1>4 DEF StagingError
  <2>4. QED
    BY <1>1, <1>4, <2>1, <2>2, <2>3, InstallGood
<1>5. QED
  BY <1>2, <1>3, <1>4 DEF ReadInto

LEMMA EnsureSourceGood ==
  ASSUME IInv, NEW c \in Lines, ValidCommand(c, Layers, CacheSize), NEW slot \in Slots,
         NEW o \in EnsureSource(c, slot)
  PROVE  GoodOutcome(o)
<1>1. CASE o = Keep({}) \/ o = Keep({"missing_source"})
  BY <1>1, KeepGood DEF Counters
<1>2. ASSUME NEW p \in ReadInto(c, slot),
             o = Raise(p, IF p.raised = {} THEN {"lazy_seed"}
                          ELSE p.raised \cup {"missing_source"})
      PROVE  GoodOutcome(o)
  <2>1. GoodOutcome(p)
    BY ReadIntoGood
  <2>2. p.raised \subseteq Counters
    BY <2>1 DEF GoodOutcome
  <2>3. (IF p.raised = {} THEN {"lazy_seed"} ELSE p.raised \cup {"missing_source"})
          \in SUBSET Counters
    BY <2>2 DEF Counters
  <2>4. QED
    BY <1>2, <2>1, <2>3, RaiseGood
<1>3. QED
  BY <1>1, <1>2 DEF EnsureSource

LEMMA CopyToVramGood ==
  ASSUME NEW c \in Lines, ValidCommand(c, Layers, CacheSize),
         NEW p, GoodOutcome(p), NEW o \in CopyToVram(c, p)
  PROVE  GoodOutcome(o)
<1>1. Key(c) \in Keys /\ c.size \in Nat
  BY BridgeAssumption DEF Keys, ValidCommand, CommandLine
<1>2. /\ p.raised \cup {"size_mismatch"} \in SUBSET Counters
      /\ p.raised \cup {"io_error"} \in SUBSET Counters
  BY DEF GoodOutcome, Counters
<1>3. CASE o = p
  BY <1>3
<1>4. CASE o = Raise(p, p.raised \cup {"size_mismatch"})
           \/ o = Raise(p, p.raised \cup {"io_error"})
  BY <1>2, <1>4, RaiseGood
<1>5. ASSUME Key(c) \in DOMAIN p.staging, NEW b \in Buffers \ DOMAIN p.heap, NEW bytes,
             o = Install(p, Key(c), c.size, "vram", b, bytes)
      PROVE  GoodOutcome(o)
  BY <1>1, <1>5, InstallGood DEF Slots
<1>6. QED
  BY <1>3, <1>4, <1>5 DEF CopyToVram, Staged

LEMMA CheckComputedGood ==
  ASSUME NEW c, NEW p, GoodOutcome(p)
  PROVE  GoodOutcome(CheckComputed(c, p))
<1>1. p.raised \cup {"size_mismatch"} \in SUBSET Counters
  BY DEF GoodOutcome, Counters
<1>2. QED
  BY <1>1, RaiseGood DEF CheckComputed

(* Eviction frees exactly the buffer it takes out of the record.           *)
LEMMA EvictGood ==
  ASSUME IInv, NEW k \in Keys
  PROVE  GoodOutcome(EvictOutcome(k))
<1>1. CASE ~\E s \in Slots : Staged(staging, k, s)
  BY <1>1, KeepGood DEF EvictOutcome, Counters
<1>2. CASE \E s \in Slots : Staged(staging, k, s)
  <2> DEFINE r == staging[k]
             slot == EvictSlot(k)
             old == r.buf[slot]
             new == [r EXCEPT !.buf = [r.buf EXCEPT ![slot] = NoBuffer]]
             table == [staging EXCEPT ![k] = new]
             live == DOMAIN heap \ {old}
             h == [x \in live |-> heap[x]]
  <2>1. EvictOutcome(k) = Outcome(table, h, {})
    BY <1>2 DEF EvictOutcome
  <2>2. k \in DOMAIN staging /\ slot \in Slots /\ old # NoBuffer
    BY <1>2 DEF EvictSlot, Staged, Slots
  <2>3. r \in StagingRecord
    BY <2>2 DEF IInv, TypeOK
  <2>4. /\ new \in StagingRecord
        /\ new.buf[slot] = NoBuffer
        /\ \A s \in Slots \ {slot} : new.buf[s] = r.buf[s]
    BY <2>2, <2>3 DEF StagingRecord
  <2>5. DOMAIN table = DOMAIN staging /\ DOMAIN h = live
    OBVIOUS
  <2>6. table[k] = new /\ \A j \in DOMAIN staging \ {k} : table[j] = staging[j]
    BY <2>2
  <2>7. \A j \in DOMAIN table, s \in Slots :
          \/ j = k /\ s = slot /\ table[j].buf[s] = NoBuffer
          \/ ~(j = k /\ s = slot) /\ table[j].buf[s] = staging[j].buf[s]
    BY <2>4, <2>5, <2>6
  <2> HIDE DEF new, table, live, h, slot
  <2>8. GoodTable(table)
    BY <2>4, <2>5, <2>6 DEF IInv, TypeOK, TablesFinite, GoodTable
  <2>9. DOMAIN h \subseteq Buffers
    BY <2>5 DEF IInv, TypeOK, live
  <2>10. Owned(table, h)
    <3>1. /\ \A j \in DOMAIN staging, s \in Slots :
               staging[j].buf[s] \in DOMAIN heap \cup {NoBuffer}
          /\ \A j, l \in DOMAIN staging, s, t \in Slots :
               staging[j].buf[s] = staging[l].buf[t] =>
                 staging[j].buf[s] = NoBuffer \/ (j = l /\ s = t)
          /\ \A x \in DOMAIN heap :
               \E j \in DOMAIN staging, s \in Slots : staging[j].buf[s] = x
      BY DEF IInv, BuffersOwned, Owned
    <3>2. \A j \in DOMAIN table, s \in Slots : table[j].buf[s] \in DOMAIN h \cup {NoBuffer}
      BY <2>2, <2>5, <2>7, <3>1 DEF live
    <3>3. \A j, l \in DOMAIN table, s, t \in Slots :
            table[j].buf[s] = table[l].buf[t] =>
              table[j].buf[s] = NoBuffer \/ (j = l /\ s = t)
      BY <2>5, <2>7, <3>1
    <3>4. \A x \in DOMAIN h : \E j \in DOMAIN table, s \in Slots : table[j].buf[s] = x
      BY <2>2, <2>5, <2>7, <3>1 DEF live
    <3>5. QED
      BY <3>2, <3>3, <3>4 DEF Owned
  <2>11. QED
    BY <2>1, <2>8, <2>9, <2>10, OutcomeFields DEF GoodOutcome
<1>3. QED
  BY <1>1, <1>2

LEMMA ExecuteGood ==
  ASSUME IInv, NEW c \in Lines, ValidCommand(c, Layers, CacheSize), NEW o \in Execute(c)
  PROVE  GoodOutcome(o)
<1>1. CASE o = Keep({})
  BY <1>1, KeepGood
<1>2. CASE o \in ReadInto(c, "dram")
  BY <1>2, ReadIntoGood DEF Slots
<1>3. CASE o \in UNION {CopyToVram(c, p) : p \in EnsureSource(c, "dram")}
  <2>1. PICK p \in EnsureSource(c, "dram") : o \in CopyToVram(c, p)
    BY <1>3
  <2>2. GoodOutcome(p)
    BY EnsureSourceGood DEF Slots
  <2>3. QED
    BY <2>1, <2>2, CopyToVramGood
<1>4. CASE o \in {CheckComputed(c, p) : p \in EnsureSource(c, "vram")}
  <2>1. PICK p \in EnsureSource(c, "vram") : o = CheckComputed(c, p)
    BY <1>4
  <2>2. GoodOutcome(p)
    BY EnsureSourceGood DEF Slots
  <2>3. QED
    BY <2>1, <2>2, CheckComputedGood
<1>5. CASE o = EvictOutcome(Key(c))
  BY <1>5, EvictGood DEF Keys
<1>6. QED
  BY <1>1, <1>2, <1>3, <1>4, <1>5 DEF Execute

(* The mutation gate only sets flags.                                      *)
LEMMA AfterMutationGateGood ==
  ASSUME NEW table, NEW h, NEW k, GoodTable(table), Owned(table, h)
  PROVE  GoodTable(AfterMutationGate(table, k)) /\ Owned(AfterMutationGate(table, k), h)
<1>1. CASE ~MutationDue(table, k)
  BY <1>1 DEF AfterMutationGate
<1>2. CASE MutationDue(table, k)
  <2> DEFINE new == [table[k] EXCEPT !.checked = TRUE,
                                     !.mutated = CanMutate(k, table[k].size)]
             gated == [table EXCEPT ![k] = new]
  <2>1. k \in DOMAIN table
    BY <1>2 DEF MutationDue, Staged
  <2>2. table[k] \in StagingRecord
    BY <2>1 DEF GoodTable
  <2>3. CanMutate(k, table[k].size) \in BOOLEAN
    BY DEF CanMutate
  <2>4. new \in StagingRecord /\ new.buf = table[k].buf
    BY <2>2, <2>3 DEF StagingRecord
  <2>5. /\ DOMAIN gated = DOMAIN table
        /\ gated[k] = new
        /\ \A j \in DOMAIN table \ {k} : gated[j] = table[j]
    BY <2>1
  <2>6. AfterMutationGate(table, k) = gated
    BY <1>2 DEF AfterMutationGate
  <2> HIDE DEF new, gated
  <2>7. \A j \in DOMAIN gated, s \in Slots : gated[j].buf[s] = table[j].buf[s]
    BY <2>4, <2>5
  <2>8. GoodTable(gated)
    BY <2>4, <2>5 DEF GoodTable
  <2>9. Owned(gated, h)
    BY <2>5, <2>7 DEF Owned
  <2>10. QED
    BY <2>6, <2>8, <2>9
<1>3. QED
  BY <1>1, <1>2

(* The command scan stays within the table or just past its end.           *)
LEMMA NextMatchingBounds ==
  ASSUME TypeOK, NEW i \in 1 .. Len(commands) + 1
  PROVE  NextMatching(i) \in 1 .. Len(commands) + 1
<1> DEFINE S == {j \in i .. Len(commands) : MatchesRuntime(commands[j], CurrentKey)}
                  \cup {Len(commands) + 1}
<1>1. Len(commands) \in Nat
  BY DEF TypeOK
<1>2. S \subseteq Nat /\ S # {} /\ S \subseteq 1 .. Len(commands) + 1
  BY <1>1
<1> HIDE DEF S
<1>3. \E x \in S : \A y \in S : ~(<<y, x>> \in OpToRel(<, Nat))
  BY <1>2, NatLessThanWellFounded, WFMin
<1>4. \E x \in S : \A y \in S : x <= y
  <2>1. PICK x \in S : \A y \in S : ~(<<y, x>> \in OpToRel(<, Nat))
    BY <1>3
  <2>2. \A y \in S : ~(y < x)
    BY <1>2, <2>1 DEF OpToRel
  <2>3. \A y \in S : x <= y
    BY <1>2, <2>2
  <2>4. QED
    BY <2>3
<1>5. Min(S) \in S
  BY <1>4 DEF Min
<1>6. NextMatching(i) = Min(S)
  BY DEF NextMatching, S
<1>7. QED
  BY <1>2, <1>5, <1>6

LEMMA SetShadowGood ==
  ASSUME IInv, NEW k \in RuntimeKeys, NEW location \in Locations
  PROVE  /\ DOMAIN SetShadow(k, location) \subseteq RuntimeKeys
         /\ IsFiniteSet(DOMAIN SetShadow(k, location))
         /\ Cardinality(DOMAIN SetShadow(k, location)) <= MaxShadow
         /\ \A j \in DOMAIN SetShadow(k, location) : SetShadow(k, location)[j] \in Locations
<1>1. CASE ~ShadowRoom(k)
  BY <1>1 DEF SetShadow, IInv, TypeOK, TablesFinite
<1>2. CASE ShadowRoom(k)
  <2> DEFINE new == [j \in DOMAIN shadow \cup {k} |-> IF j = k THEN location ELSE shadow[j]]
  <2>1. SetShadow(k, location) = new
    BY <1>2 DEF SetShadow
  <2>2. DOMAIN new = DOMAIN shadow \cup {k} /\ \A j \in DOMAIN new : new[j] \in Locations
    BY DEF IInv, TypeOK
  <2> HIDE DEF new
  <2>3. /\ IsFiniteSet(DOMAIN new)
        /\ Cardinality(DOMAIN new) = IF k \in DOMAIN shadow THEN Cardinality(DOMAIN shadow)
                                     ELSE Cardinality(DOMAIN shadow) + 1
    BY <2>2, FS_AddElement DEF IInv, TablesFinite
  <2>4. Cardinality(DOMAIN shadow) \in Nat /\ MaxShadow \in Nat
    BY FS_CardinalityType, BridgeAssumption DEF IInv, TablesFinite
  <2>5. Cardinality(DOMAIN new) <= MaxShadow
    <3>1. CASE k \in DOMAIN shadow
      BY <2>3, <3>1 DEF IInv, TypeOK
    <3>2. CASE k \notin DOMAIN shadow
      BY <1>2, <2>3, <2>4, <3>2 DEF ShadowRoom
    <3>3. QED
      BY <3>1, <3>2
  <2>6. QED
    BY <2>1, <2>2, <2>3, <2>5 DEF IInv, TypeOK
<1>3. QED
  BY <1>1, <1>2

LEMMA InitIInv == Init => IInv
<1> SUFFICES ASSUME Init PROVE IInv
  OBVIOUS
<1>1. DOMAIN Empty = {}
  BY DEF Empty
<1>2. IsFiniteSet({}) /\ Cardinality({}) = 0
  BY FS_EmptySet
<1>3. TypeOK
  <2>1. lineCount \in 0 .. MaxLines /\ MaxShadow >= 0 /\ MaxStaging >= 0
    BY BridgeAssumption DEF Init
  <2>2. commands \in Seq(Lines) /\ Len(commands) = 0 /\ Len(commands) <= MaxCommands
    BY BridgeAssumption DEF Init
  <2>3. QED
    BY <1>1, <1>2, <2>1, <2>2 DEF Init, TypeOK
<1>4. BuffersOwned
  BY <1>1 DEF Init, BuffersOwned, Owned
<1>5. CommandsValid /\ TablesFinite
  BY <1>1, <1>2 DEF Init, CommandsValid, TablesFinite
<1>6. QED
  BY <1>3, <1>4, <1>5 DEF IInv

LEMMA ApplyUbatchStep ==
  ASSUME IInv, NEW u \in Ubatches, ApplyUbatch(u)
  PROVE  IInv'
<1>1. Start(u) \in [ubatch : Ubatches, layer : DOMAIN LayerOrder, cursor : 0 .. Len(commands) + 1]
  <2>1. 1 \in DOMAIN LayerOrder
    BY BridgeAssumption
  <2>2. Len(commands) \in Nat
    BY DEF IInv, TypeOK
  <2>3. QED
    BY <2>1, <2>2 DEF Start
<1>2. TypeOK'
  BY <1>1 DEF IInv, TypeOK, ApplyUbatch, blockVars
<1>3. QED
  BY <1>2 DEF IInv, ApplyUbatch, blockVars, BuffersOwned, CommandsValid, TablesFinite

LEMMA ReadLineStep ==
  ASSUME IInv, NEW c \in Lines, ReadLine(c)
  PROVE  IInv'
<1>1. /\ commands' \in Seq(Lines) /\ Len(commands') <= MaxCommands
      /\ Len(commands) <= Len(commands')
      /\ CommandsValid'
  <2>1. CASE UNCHANGED commands
    BY <2>1 DEF IInv, TypeOK, CommandsValid
  <2>2. CASE /\ ValidCommand(c, Layers, CacheSize)
             /\ Len(commands) < MaxCommands
             /\ commands' = Append(commands, c)
    BY <2>2, BridgeAssumption DEF IInv, TypeOK, CommandsValid
  <2>3. QED
    BY <2>1, <2>2 DEF ReadLine
<1>2. lineCount' \in 0 .. MaxLines /\ invalidSeen' \in BOOLEAN
  <2>1. lineCount' \in 0 .. MaxLines
    BY BridgeAssumption DEF IInv, TypeOK, ReadLine
  <2>2. invalidSeen' = invalidSeen \/ invalidSeen' = TRUE
    BY DEF ReadLine
  <2>3. QED
    BY <2>1, <2>2 DEF IInv, TypeOK
<1>3. event' \in {NoEvent} \cup
        [ubatch : Ubatches, layer : DOMAIN LayerOrder, cursor : 0 .. Len(commands') + 1]
  BY <1>1 DEF IInv, TypeOK, ReadLine
<1>4. TypeOK'
  BY <1>1, <1>2, <1>3 DEF IInv, TypeOK, ReadLine, blockVars
<1>5. QED
  BY <1>1, <1>4 DEF IInv, ReadLine, blockVars, BuffersOwned, TablesFinite

LEMMA EndOfFileStep ==
  ASSUME IInv, EndOfFile
  PROVE  IInv'
<1>1. TypeOK'
  BY DEF IInv, TypeOK, EndOfFile, blockVars
<1>2. QED
  BY <1>1 DEF IInv, EndOfFile, blockVars, BuffersOwned, CommandsValid, TablesFinite

LEMMA CurrentKeyType ==
  ASSUME TypeOK, event # NoEvent
  PROVE  CurrentKey \in RuntimeKeys
BY DEF TypeOK, CurrentKey, RuntimeKeys

LEMMA BeginLayerStep ==
  ASSUME IInv, BeginLayer
  PROVE  IInv'
<1>1. NextMatching(1) \in 1 .. Len(commands) + 1
  BY NextMatchingBounds DEF IInv, TypeOK
<1>2. event' \in [ubatch : Ubatches, layer : DOMAIN LayerOrder, cursor : 0 .. Len(commands) + 1]
  BY <1>1 DEF BeginLayer, IInv, TypeOK
<1>3. /\ DOMAIN shadow' \subseteq RuntimeKeys /\ IsFiniteSet(DOMAIN shadow')
      /\ Cardinality(DOMAIN shadow') <= MaxShadow
      /\ \A k \in DOMAIN shadow' : shadow'[k] \in Locations
  <2>1. CASE NextMatching(1) <= Len(commands)
    <3>1. commands[NextMatching(1)].source \in Locations
      BY <1>1, <2>1 DEF IInv, TypeOK, CommandsValid, ValidCommand
    <3>2. CurrentKey \in RuntimeKeys
      BY CurrentKeyType DEF BeginLayer, IInv
    <3>3. QED
      BY <2>1, <3>1, <3>2, SetShadowGood DEF BeginLayer
  <2>2. CASE ~(NextMatching(1) <= Len(commands))
    BY <2>2 DEF BeginLayer, IInv, TypeOK, TablesFinite
  <2>3. QED
    BY <2>1, <2>2
<1>4. TypeOK'
  BY <1>2, <1>3 DEF IInv, TypeOK, BeginLayer, fileVars
<1>5. QED
  BY <1>3, <1>4 DEF IInv, BeginLayer, fileVars, BuffersOwned, CommandsValid, TablesFinite

LEMMA ApplyCommandStep ==
  ASSUME IInv, ApplyCommand
  PROVE  IInv'
<1> DEFINE c == commands[event.cursor]
<1>1. /\ event.cursor \in 1 .. Len(commands)
      /\ c \in Lines /\ ValidCommand(c, Layers, CacheSize)
  BY DEF ApplyCommand, IInv, TypeOK, CommandsValid
<1>2. event' \in [ubatch : Ubatches, layer : DOMAIN LayerOrder, cursor : 0 .. Len(commands) + 1]
  <2>1. event.cursor + 1 \in 1 .. Len(commands) + 1
    BY <1>1 DEF IInv, TypeOK
  <2>2. NextMatching(event.cursor + 1) \in 0 .. Len(commands) + 1
    BY <2>1, NextMatchingBounds DEF IInv, TypeOK
  <2>3. QED
    BY <2>2 DEF ApplyCommand, IInv, TypeOK
<1>3. /\ DOMAIN shadow' \subseteq RuntimeKeys /\ IsFiniteSet(DOMAIN shadow')
      /\ Cardinality(DOMAIN shadow') <= MaxShadow
      /\ \A k \in DOMAIN shadow' : shadow'[k] \in Locations
  <2>1. CurrentKey \in RuntimeKeys
    BY CurrentKeyType DEF ApplyCommand, IInv
  <2>2. c.target \in Locations
    BY <1>1 DEF ValidCommand
  <2>3. shadow' = SetShadow(CurrentKey, c.target)
    BY DEF ApplyCommand
  <2>4. QED
    BY <2>1, <2>2, <2>3, SetShadowGood
<1>4. PICK o \in Execute(c) :
        /\ staging' = AfterMutationGate(o.staging, Key(c))
        /\ heap' = o.heap
        /\ raised' \subseteq raised \cup o.raised \cup {"shadow_mismatch"}
        /\ attempts' \in {attempts, attempts + 1}
  BY DEF ApplyCommand
<1>5. GoodOutcome(o)
  BY <1>1, ExecuteGood
<1>6. GoodTable(staging') /\ Owned(staging', heap')
  BY <1>4, <1>5, AfterMutationGateGood DEF GoodOutcome
<1>7. DOMAIN heap' \subseteq Buffers /\ raised' \subseteq Counters /\ attempts' \in Nat
  BY <1>4, <1>5 DEF GoodOutcome, Counters, IInv, TypeOK
<1>8. TypeOK'
  BY <1>2, <1>3, <1>6, <1>7 DEF IInv, TypeOK, GoodTable, ApplyCommand, fileVars
<1>9. BuffersOwned'
  BY <1>6 DEF BuffersOwned
<1>10. CommandsValid' /\ TablesFinite'
  BY <1>3, <1>6 DEF IInv, CommandsValid, TablesFinite, GoodTable, ApplyCommand, fileVars
<1>11. QED
  BY <1>8, <1>9, <1>10 DEF IInv

LEMMA EndLayerStep ==
  ASSUME IInv, EndLayer
  PROVE  IInv'
<1>1. event' \in {NoEvent} \cup
        [ubatch : Ubatches, layer : DOMAIN LayerOrder, cursor : 0 .. Len(commands) + 1]
  <2>1. CASE event.layer < Len(LayerOrder)
    <3>1. event.layer \in DOMAIN LayerOrder
      BY DEF EndLayer, IInv, TypeOK
    <3>2. event.layer + 1 \in DOMAIN LayerOrder
      BY <2>1, <3>1, BridgeAssumption
    <3>3. event \in [ubatch : Ubatches, layer : DOMAIN LayerOrder,
                     cursor : 0 .. Len(commands) + 1]
      BY DEF EndLayer, IInv, TypeOK
    <3>4. event' = [event EXCEPT !.layer = event.layer + 1, !.cursor = 0]
      BY <2>1 DEF EndLayer
    <3>5. 0 \in 0 .. Len(commands) + 1
      BY DEF IInv, TypeOK
    <3>6. QED
      BY <3>2, <3>3, <3>4, <3>5
  <2>2. CASE ~(event.layer < Len(LayerOrder))
    BY <2>2 DEF EndLayer
  <2>3. QED
    BY <2>1, <2>2
<1>2. TypeOK'
  BY <1>1 DEF IInv, TypeOK, EndLayer, fileVars, blockVars
<1>3. QED
  BY <1>2 DEF IInv, EndLayer, fileVars, blockVars, BuffersOwned, CommandsValid, TablesFinite

LEMMA AttentionGateStep ==
  ASSUME IInv, NEW layer, NEW nKV, AttentionGate(layer, nKV)
  PROVE  IInv'
BY DEF IInv, TypeOK, AttentionGate, fileVars, blockVars, BuffersOwned, CommandsValid, TablesFinite

LEMMA NextIInv == IInv /\ [Next]_vars => IInv'
<1> SUFFICES ASSUME IInv, [Next]_vars PROVE IInv'
  OBVIOUS
<1>1. CASE UNCHANGED vars
  BY <1>1 DEF vars, fileVars, blockVars, IInv, TypeOK, BuffersOwned, CommandsValid, TablesFinite
<1>2. CASE Next
  BY <1>2, ApplyUbatchStep, ReadLineStep, EndOfFileStep, BeginLayerStep, ApplyCommandStep,
     EndLayerStep, AttentionGateStep DEF Next
<1>3. QED
  BY <1>1, <1>2

LEMMA SpecIInv == Spec => []IInv
BY InitIInv, NextIInv, PTL DEF Spec

(* The tables, the cursor and every counter stay within their types: no    *)
(* index into the patch's fixed arrays leaves them.                        *)
THEOREM BridgeTypeCorrect == Spec => []TypeOK
<1>1. IInv => TypeOK
  BY DEF IInv
<1>2. QED
  BY <1>1, SpecIInv, PTL

(* No staging buffer is leaked, freed twice or used after free, in any     *)
(* interleaving of batches, read failures, reloads, seeds and evictions.   *)
THEOREM BridgeOwnsBuffers == Spec => []BuffersOwned
<1>1. IInv => BuffersOwned
  BY DEF IInv
<1>2. QED
  BY <1>1, SpecIInv, PTL

-----------------------------------------------------------------------------
(***************************************************************************)
(* What the staging records of the bridge say is true, for every command   *)
(* file, cache, table size, heap and environment: a staged buffer holds    *)
(* bytes that a command names for its block, and the mutation attempts are *)
(* the records marked checked.                                             *)
(*                                                                         *)
(* Both lean on IInv: a buffer has one owner, so freeing or                *)
(* filling it touches no other record.  Every routine of the executor is   *)
(* built from Install and the eviction, which keep the two facts; the      *)
(* mutation gate alone sets a checked flag, at most one, and counts it.    *)
(***************************************************************************)

(* A command for block k names these bytes and this size.                  *)
Named(k, size, bytes) ==
  \E i \in DOMAIN commands :
    Key(commands[i]) = k /\ commands[i].offset = bytes /\ commands[i].size = size

Truthful(table, h) ==
  \A k \in DOMAIN table, s \in Slots :
    table[k].buf[s] # NoBuffer => Named(k, table[k].size, h[table[k].buf[s]])

Checked(table) == {k \in DOMAIN table : table[k].checked}

SInv == Truthful(staging, heap) /\ MutatedAtMostOnce

(* What every executor routine must leave behind.                          *)
Faithful(o) ==
  /\ GoodOutcome(o)
  /\ Truthful(o.staging, o.heap)
  /\ Checked(o.staging) = Checked(staging)

LEMMA KeepFaithful ==
  ASSUME IInv, SInv, NEW r \in SUBSET Counters
  PROVE  Faithful(Keep(r))
BY KeepGood, OutcomeFields DEF Faithful, SInv, Keep

LEMMA RaiseFaithful ==
  ASSUME NEW o, Faithful(o), NEW r \in SUBSET Counters
  PROVE  Faithful(Raise(o, r))
<1>1. GoodOutcome(Raise(o, r))
  BY RaiseGood DEF Faithful
<1>2. Raise(o, r).staging = o.staging /\ Raise(o, r).heap = o.heap
  BY OutcomeFields DEF Raise
<1> QED
  BY <1>1, <1>2 DEF Faithful

(* Filling a slot of a record with bytes named for it.                     *)
LEMMA InstallFaithful ==
  ASSUME NEW o, Faithful(o), NEW k \in Keys, NEW size \in Nat, NEW slot \in Slots,
         NEW b \in Buffers \ DOMAIN o.heap, NEW bytes,
         k \in DOMAIN o.staging => o.staging[k].size = size,
         k \in DOMAIN o.staging \/ Cardinality(DOMAIN o.staging) < MaxStaging,
         Named(k, size, bytes)
  PROVE  Faithful(Install(o, k, size, slot, b, bytes))
<1> DEFINE r == IF k \in DOMAIN o.staging THEN o.staging[k] ELSE EmptyRecord(size)
           new == [r EXCEPT !.buf = [r.buf EXCEPT ![slot] = b]]
           table == [j \in DOMAIN o.staging \cup {k} |-> IF j = k THEN new ELSE o.staging[j]]
           live == (DOMAIN o.heap \ {r.buf[slot]}) \cup {b}
           h == [x \in live |-> IF x = b THEN bytes ELSE o.heap[x]]
<1>1. Install(o, k, size, slot, b, bytes) = Outcome(table, h, o.raised)
  BY DEF Install
<1>2. GoodOutcome(Install(o, k, size, slot, b, bytes))
  BY InstallGood DEF Faithful
<1>3. r \in StagingRecord
  BY DEF Faithful, GoodOutcome, GoodTable, EmptyRecord, StagingRecord
<1>4. /\ new.buf[slot] = b /\ new.size = size /\ new.checked = r.checked
      /\ \A s \in Slots \ {slot} : new.buf[s] = r.buf[s]
  BY <1>3 DEF StagingRecord, EmptyRecord
<1>5. /\ k \in DOMAIN o.staging => r = o.staging[k]
      /\ k \notin DOMAIN o.staging => ~r.checked /\ \A s \in Slots : r.buf[s] = NoBuffer
  BY DEF EmptyRecord
<1>6. /\ DOMAIN table = DOMAIN o.staging \cup {k} /\ DOMAIN h = live
      /\ table[k] = new
      /\ \A j \in DOMAIN o.staging \ {k} : table[j] = o.staging[j]
      /\ h[b] = bytes
      /\ \A x \in live \ {b} : h[x] = o.heap[x]
  OBVIOUS
<1>7. \A j \in DOMAIN o.staging, s \in Slots :
        /\ o.staging[j].buf[s] \in DOMAIN o.heap \cup {NoBuffer}
        /\ \/ j = k /\ s = slot
           \/ o.staging[j].buf[s] # r.buf[slot]
           \/ o.staging[j].buf[s] = NoBuffer
  BY <1>5 DEF Faithful, GoodOutcome, Owned
<1> HIDE DEF new, table, h, r
<1>8. Truthful(table, h)
  <2> SUFFICES ASSUME NEW j \in DOMAIN table, NEW s \in Slots, table[j].buf[s] # NoBuffer
               PROVE  Named(j, table[j].size, h[table[j].buf[s]])
    BY DEF Truthful
  <2>1. CASE j = k /\ s = slot
    BY <1>4, <1>6, <2>1
  <2>2. CASE ~(j = k /\ s = slot)
    <3>1. /\ j \in DOMAIN o.staging
          /\ table[j].buf[s] = o.staging[j].buf[s]
          /\ table[j].size = o.staging[j].size
      BY <1>4, <1>5, <1>6, <2>2
    <3>2. table[j].buf[s] \in live \ {b}
      BY <1>7, <2>2, <3>1
    <3>3. h[table[j].buf[s]] = o.heap[o.staging[j].buf[s]]
      BY <1>6, <3>1, <3>2
    <3> QED
      BY <3>1, <3>3 DEF Faithful, Truthful
  <2> QED
    BY <2>1, <2>2
<1>9. Checked(table) = Checked(o.staging)
  BY <1>4, <1>5, <1>6 DEF Checked
<1> QED
  BY <1>1, <1>2, <1>8, <1>9, OutcomeFields DEF Faithful

LEMMA StoredCommand ==
  ASSUME IInv, NEW i \in DOMAIN commands
  PROVE  /\ commands[i] \in Lines
         /\ Key(commands[i]) \in Keys /\ commands[i].size \in Nat
<1>1. commands[i] \in Lines
  BY DEF IInv, TypeOK
<1>2. ValidCommand(commands[i], Layers, CacheSize)
  BY DEF IInv, CommandsValid
<1>3. commands[i].size \in Nat
  BY <1>1, <1>2, BridgeAssumption DEF ValidCommand, CommandLine
<1> QED
  BY <1>1, <1>3 DEF Keys

LEMMA ReadIntoFaithful ==
  ASSUME IInv, SInv, NEW i \in DOMAIN commands, NEW slot \in Slots,
         NEW o \in ReadInto(commands[i], slot)
  PROVE  Faithful(o)
<1> DEFINE c == commands[i]
<1>1. Key(c) \in Keys /\ c.size \in Nat
  BY StoredCommand
<1>2. CASE o = Keep({"io_error"})
  BY <1>2, KeepFaithful DEF Counters
<1>3. CASE StagingError(Key(c), c.size) # {} /\ o = Keep(StagingError(Key(c), c.size))
  BY <1>3, KeepFaithful DEF Counters, StagingError
<1>4. ASSUME StagingError(Key(c), c.size) = {}, NEW b \in Buffers \ DOMAIN heap,
             o = Install(Keep({}), Key(c), c.size, slot, b, c.offset)
      PROVE  Faithful(o)
  <2>1. Faithful(Keep({})) /\ Keep({}).staging = staging /\ Keep({}).heap = heap
    BY KeepFaithful, OutcomeFields DEF Keep
  <2>2. /\ Key(c) \in DOMAIN staging \/ Cardinality(DOMAIN staging) < MaxStaging
        /\ Key(c) \in DOMAIN staging => staging[Key(c)].size = c.size
    BY <1>4 DEF StagingError
  <2>3. Named(Key(c), c.size, c.offset)
    BY DEF Named
  <2> QED
    BY <1>1, <1>4, <2>1, <2>2, <2>3, InstallFaithful
<1> QED
  BY <1>2, <1>3, <1>4 DEF ReadInto

LEMMA EnsureSourceFaithful ==
  ASSUME IInv, SInv, NEW i \in DOMAIN commands, NEW slot \in Slots,
         NEW o \in EnsureSource(commands[i], slot)
  PROVE  Faithful(o)
<1>1. CASE o = Keep({}) \/ o = Keep({"missing_source"})
  BY <1>1, KeepFaithful DEF Counters
<1>2. ASSUME NEW p \in ReadInto(commands[i], slot),
             o = Raise(p, IF p.raised = {} THEN {"lazy_seed"}
                          ELSE p.raised \cup {"missing_source"})
      PROVE  Faithful(o)
  <2>1. Faithful(p)
    BY ReadIntoFaithful
  <2>2. (IF p.raised = {} THEN {"lazy_seed"} ELSE p.raised \cup {"missing_source"})
          \in SUBSET Counters
    BY <2>1 DEF Faithful, GoodOutcome, Counters
  <2> QED
    BY <1>2, <2>1, <2>2, RaiseFaithful
<1> QED
  BY <1>1, <1>2 DEF EnsureSource

(* The copy takes bytes that were named for the same record.               *)
LEMMA CopyToVramFaithful ==
  ASSUME IInv, NEW i \in DOMAIN commands, NEW p, Faithful(p),
         NEW o \in CopyToVram(commands[i], p)
  PROVE  Faithful(o)
<1> DEFINE c == commands[i]
           bytes == p.heap[p.staging[Key(c)].buf["dram"]]
<1>1. Key(c) \in Keys /\ c.size \in Nat
  BY StoredCommand
<1>2. /\ p.raised \cup {"size_mismatch"} \in SUBSET Counters
      /\ p.raised \cup {"io_error"} \in SUBSET Counters
  BY DEF Faithful, GoodOutcome, Counters
<1>3. CASE o = p
  BY <1>3
<1>4. CASE o = Raise(p, p.raised \cup {"size_mismatch"})
           \/ o = Raise(p, p.raised \cup {"io_error"})
  BY <1>2, <1>4, RaiseFaithful
<1>5. ASSUME Staged(p.staging, Key(c), "dram"), p.staging[Key(c)].size = c.size,
             NEW b \in Buffers \ DOMAIN p.heap,
             o = Install(p, Key(c), c.size, "vram", b, bytes)
      PROVE  Faithful(o)
  <2>1. Named(Key(c), c.size, bytes) /\ Key(c) \in DOMAIN p.staging
    BY <1>5 DEF Faithful, Truthful, Staged, Slots
  <2> QED
    BY <1>1, <1>5, <2>1, InstallFaithful DEF Slots
<1> QED
  BY <1>3, <1>4, <1>5 DEF CopyToVram

LEMMA CheckComputedFaithful ==
  ASSUME NEW c, NEW p, Faithful(p)
  PROVE  Faithful(CheckComputed(c, p))
<1>1. p.raised \cup {"size_mismatch"} \in SUBSET Counters
  BY DEF Faithful, GoodOutcome, Counters
<1> QED
  BY <1>1, RaiseFaithful DEF CheckComputed

(* Eviction takes one buffer away and leaves the others' bytes.            *)
LEMMA EvictFaithful ==
  ASSUME IInv, SInv, NEW k \in Keys
  PROVE  Faithful(EvictOutcome(k))
<1>1. CASE ~\E s \in Slots : Staged(staging, k, s)
  BY <1>1, KeepFaithful DEF EvictOutcome, Counters
<1>2. CASE \E s \in Slots : Staged(staging, k, s)
  <2> DEFINE r == staging[k]
             slot == EvictSlot(k)
             new == [r EXCEPT !.buf = [r.buf EXCEPT ![slot] = NoBuffer]]
             table == [staging EXCEPT ![k] = new]
             live == DOMAIN heap \ {r.buf[slot]}
             h == [x \in live |-> heap[x]]
  <2>1. EvictOutcome(k) = Outcome(table, h, {})
    BY <1>2 DEF EvictOutcome
  <2>2. k \in DOMAIN staging /\ slot \in Slots /\ r.buf[slot] # NoBuffer
    BY <1>2 DEF EvictSlot, Staged, Slots
  <2>3. r \in StagingRecord
    BY <2>2 DEF IInv, TypeOK
  <2>4. /\ new.buf[slot] = NoBuffer /\ new.size = r.size /\ new.checked = r.checked
        /\ \A s \in Slots \ {slot} : new.buf[s] = r.buf[s]
    BY <2>2, <2>3 DEF StagingRecord
  <2>5. /\ DOMAIN table = DOMAIN staging /\ table[k] = new
        /\ \A j \in DOMAIN staging \ {k} : table[j] = staging[j]
        /\ \A x \in live : h[x] = heap[x]
    BY <2>2
  <2>6. \A j \in DOMAIN staging, s \in Slots :
          /\ staging[j].buf[s] \in DOMAIN heap \cup {NoBuffer}
          /\ \/ j = k /\ s = slot
             \/ staging[j].buf[s] # r.buf[slot]
    BY <2>2 DEF IInv, BuffersOwned, Owned
  <2> HIDE DEF new, table, h, slot, r
  <2>7. Truthful(table, h)
    <3> SUFFICES ASSUME NEW j \in DOMAIN table, NEW s \in Slots, table[j].buf[s] # NoBuffer
                 PROVE  Named(j, table[j].size, h[table[j].buf[s]])
      BY DEF Truthful
    <3>1. ~(j = k /\ s = slot)
      BY <2>4, <2>5
    <3>2. table[j].buf[s] = staging[j].buf[s] /\ table[j].size = staging[j].size
      BY <2>4, <2>5, <3>1 DEF r
    <3>3. h[table[j].buf[s]] = heap[staging[j].buf[s]]
      BY <2>5, <2>6, <3>1, <3>2
    <3> QED
      BY <2>5, <3>2, <3>3 DEF SInv, Truthful
  <2>8. Checked(table) = Checked(staging)
    BY <2>4, <2>5 DEF Checked, r
  <2>9. GoodOutcome(EvictOutcome(k))
    BY EvictGood
  <2> QED
    BY <2>1, <2>7, <2>8, <2>9, OutcomeFields DEF Faithful
<1> QED
  BY <1>1, <1>2

LEMMA ExecuteFaithful ==
  ASSUME IInv, SInv, NEW i \in DOMAIN commands, NEW o \in Execute(commands[i])
  PROVE  Faithful(o)
<1> DEFINE c == commands[i]
<1>1. CASE o = Keep({})
  BY <1>1, KeepFaithful
<1>2. CASE o \in ReadInto(c, "dram")
  BY <1>2, ReadIntoFaithful DEF Slots
<1>3. CASE o \in UNION {CopyToVram(c, p) : p \in EnsureSource(c, "dram")}
  <2>1. PICK p \in EnsureSource(c, "dram") : o \in CopyToVram(c, p)
    BY <1>3
  <2>2. Faithful(p)
    BY EnsureSourceFaithful DEF Slots
  <2> QED
    BY <2>1, <2>2, CopyToVramFaithful
<1>4. CASE o \in {CheckComputed(c, p) : p \in EnsureSource(c, "vram")}
  <2>1. PICK p \in EnsureSource(c, "vram") : o = CheckComputed(c, p)
    BY <1>4
  <2>2. Faithful(p)
    BY EnsureSourceFaithful DEF Slots
  <2> QED
    BY <2>1, <2>2, CheckComputedFaithful
<1>5. CASE o = EvictOutcome(Key(c))
  BY <1>5, EvictFaithful, StoredCommand
<1> QED
  BY <1>1, <1>2, <1>3, <1>4, <1>5 DEF Execute

(* The gate marks one unmarked record, and only when it counts an attempt. *)
LEMMA GateFaithful ==
  ASSUME NEW o, Faithful(o), NEW k
  PROVE  /\ Truthful(AfterMutationGate(o.staging, k), o.heap)
         /\ MutationDue(o.staging, k) =>
              /\ k \notin Checked(o.staging)
              /\ Checked(AfterMutationGate(o.staging, k)) = Checked(o.staging) \cup {k}
         /\ ~MutationDue(o.staging, k) =>
              Checked(AfterMutationGate(o.staging, k)) = Checked(o.staging)
<1>1. CASE ~MutationDue(o.staging, k)
  BY <1>1 DEF AfterMutationGate, Faithful
<1>2. CASE MutationDue(o.staging, k)
  <2> DEFINE new == [o.staging[k] EXCEPT !.checked = TRUE,
                                         !.mutated = CanMutate(k, o.staging[k].size)]
             gated == [o.staging EXCEPT ![k] = new]
  <2>1. k \in DOMAIN o.staging /\ ~o.staging[k].checked
    BY <1>2 DEF MutationDue, Staged
  <2>2. o.staging[k] \in StagingRecord
    BY <2>1 DEF Faithful, GoodOutcome, GoodTable
  <2>3. new.buf = o.staging[k].buf /\ new.size = o.staging[k].size /\ new.checked
    BY <2>2 DEF StagingRecord
  <2>4. /\ DOMAIN gated = DOMAIN o.staging /\ gated[k] = new
        /\ \A j \in DOMAIN o.staging \ {k} : gated[j] = o.staging[j]
    BY <2>1
  <2>5. AfterMutationGate(o.staging, k) = gated
    BY <1>2 DEF AfterMutationGate
  <2> HIDE DEF new, gated
  <2>6. \A j \in DOMAIN gated : gated[j].buf = o.staging[j].buf
                                /\ gated[j].size = o.staging[j].size
    BY <2>3, <2>4
  <2>7. Truthful(gated, o.heap)
    BY <2>4, <2>6 DEF Faithful, Truthful
  <2>8. k \notin Checked(o.staging) /\ Checked(gated) = Checked(o.staging) \cup {k}
    BY <2>1, <2>3, <2>4 DEF Checked
  <2> QED
    BY <1>2, <2>5, <2>7, <2>8
<1> QED
  BY <1>1, <1>2

-----------------------------------------------------------------------------
LEMMA StagingInit == Init => SInv
<1> SUFFICES ASSUME Init PROVE SInv
  OBVIOUS
<1>1. DOMAIN staging = {} /\ attempts = 0
  BY DEF Init, Empty
<1>2. {k \in DOMAIN staging : staging[k].checked} = {}
  BY <1>1
<1> QED
  BY <1>1, <1>2, FS_EmptySet DEF SInv, Truthful, MutatedAtMostOnce

LEMMA ApplyCommandStaging ==
  ASSUME IInv, SInv, ApplyCommand
  PROVE  SInv'
<1> DEFINE c == commands[event.cursor]
<1>1. event.cursor \in DOMAIN commands /\ commands' = commands
  BY DEF ApplyCommand, IInv, TypeOK, fileVars
<1>2. PICK o \in Execute(c) :
        /\ staging' = AfterMutationGate(o.staging, Key(c))
        /\ heap' = o.heap
        /\ attempts' = IF MutationDue(o.staging, Key(c)) THEN attempts + 1 ELSE attempts
  BY DEF ApplyCommand
<1>3. Faithful(o)
  BY <1>1, ExecuteFaithful
<1>4. Truthful(staging, heap)'
  <2>1. Truthful(staging', heap')
    BY <1>2, <1>3, GateFaithful
  <2> QED
    BY <1>1, <2>1 DEF Truthful, Named
<1>5. IsFiniteSet(Checked(staging)) /\ attempts = Cardinality(Checked(staging))
  BY FS_Subset DEF IInv, TablesFinite, SInv, MutatedAtMostOnce, Checked
<1>6. attempts' = Cardinality(Checked(staging'))
  <2>1. CASE MutationDue(o.staging, Key(c))
    <3>1. /\ Key(c) \notin Checked(staging)
          /\ Checked(staging') = Checked(staging) \cup {Key(c)}
      BY <1>2, <1>3, <2>1, GateFaithful DEF Faithful
    <3> QED
      BY <1>2, <1>5, <2>1, <3>1, FS_AddElement
  <2>2. CASE ~MutationDue(o.staging, Key(c))
    <3>1. Checked(staging') = Checked(staging)
      BY <1>2, <1>3, <2>2, GateFaithful DEF Faithful
    <3> QED
      BY <1>2, <1>5, <2>2, <3>1
  <2> QED
    BY <2>1, <2>2
<1> QED
  BY <1>4, <1>6 DEF SInv, MutatedAtMostOnce, Checked

(* Reading a line adds a command and takes none away.                      *)
LEMMA ReadLineStaging ==
  ASSUME IInv, SInv, NEW c \in Lines, ReadLine(c)
  PROVE  SInv'
<1>1. /\ \A i \in DOMAIN commands : i \in DOMAIN commands' /\ commands'[i] = commands[i]
      /\ UNCHANGED <<staging, heap, attempts>>
  BY DEF ReadLine, blockVars, IInv, TypeOK
<1>2. \A k, size, bytes : Named(k, size, bytes) => Named(k, size, bytes)'
  BY <1>1 DEF Named
<1> QED
  BY <1>1, <1>2 DEF SInv, Truthful, MutatedAtMostOnce

LEMMA StagingNext == IInv /\ SInv /\ [Next]_vars => SInv'
<1> SUFFICES ASSUME IInv, SInv, [Next]_vars PROVE SInv'
  OBVIOUS
<1>1. CASE UNCHANGED <<commands, staging, heap, attempts>>
  BY <1>1 DEF SInv, Truthful, Named, MutatedAtMostOnce
<1>2. CASE Next
  <2>1. ASSUME \/ \E u \in Ubatches : ApplyUbatch(u)
               \/ EndOfFile \/ BeginLayer \/ EndLayer
               \/ \E layer \in Layers, nKV \in Views : AttentionGate(layer, nKV)
        PROVE  UNCHANGED <<commands, staging, heap, attempts>>
    BY <2>1 DEF ApplyUbatch, EndOfFile, BeginLayer, EndLayer, AttentionGate, fileVars, blockVars
  <2> QED
    BY <1>1, <1>2, <2>1, ApplyCommandStaging, ReadLineStaging DEF Next
<1> QED
  BY <1>1, <1>2 DEF vars, fileVars, blockVars

LEMMA SpecSInv == Spec => [](IInv /\ SInv)
BY InitIInv, NextIInv, StagingInit, StagingNext, PTL DEF Spec

(* Through every reload, copy, lazy seed, failure and eviction, a staged   *)
(* buffer holds the bytes of a file range that some command for that very  *)
(* block names (stage, ensure_*_source and evict in the patch).            *)
THEOREM StagedBytesTrue == Spec => []StagedBytesBelongToBlock
<1>1. SInv => StagedBytesBelongToBlock
  BY DEF SInv, Truthful, Named, StagedBytesBelongToBlock, Staged
<1> QED
  BY <1>1, SpecSInv, PTL

(* The attempts to write a block into the K/V tensors are the records      *)
(* marked checked: no reload or replay makes a second one.                 *)
THEOREM OneMutationPerBlock == Spec => []MutatedAtMostOnce
<1>1. SInv => MutatedAtMostOnce
  BY DEF SInv
<1> QED
  BY <1>1, SpecSInv, PTL

-----------------------------------------------------------------------------
(***************************************************************************)
(* Where a block's plan has brought it, the staging executor has put it:   *)
(* for every command file, cache, table size, heap and environment.        *)
(*                                                                         *)
(* Whether a command belongs to a runtime event depends on its key alone,  *)
(* so an event replays a block's whole plan from its first command or      *)
(* leaves the block alone.  PInv follows the replay: what the plan's last  *)
(* command demanded is staged, and a plan that has begun has a record.     *)
(***************************************************************************)

Failed == raised \cap Failures # {}

(* Before the file is read there is nothing to follow.                     *)
Unused == DOMAIN staging = {} /\ raised = {}

CursorOK ==
  /\ event # NoEvent /\ event.cursor \in DOMAIN commands =>
       MatchesRuntime(commands[event.cursor], CurrentKey)
  /\ event # NoEvent /\ ~Ready => event.cursor = 0
  /\ loader = "reading" => event # NoEvent
  /\ loader # "ready" => Unused
  /\ gate # NoGate => event = NoEvent

ExecutorOff == ~env.executor => DOMAIN staging = {}

(* A journey that has begun has a staging record.                          *)
BegunIsStaged ==
  env.executor /\ ~Failed =>
    \A k \in Keys : Journey(PlanOf(k)) /\ Passed(k) # {} => k \in DOMAIN staging

(* The mutation gate leaves no VRAM copy unchecked.                        *)
VramChecked ==
  env.mutation =>
    \A k \in DOMAIN staging : Staged(staging, k, "vram") => staging[k].checked

PInv ==
  /\ CursorOK /\ ExecutorOff /\ BegunIsStaged /\ VramChecked
  /\ StagingFollowsPlan /\ JourneysNeedNoSeeding /\ GateBlocksForCause

-----------------------------------------------------------------------------
(* Positions of the command table.                                         *)
LEMMA LeastPosition ==
  ASSUME NEW S \in SUBSET Nat, S # {}
  PROVE  Min(S) \in S /\ \A y \in S : Min(S) <= y
<1>1. PICK x \in S : \A y \in S : ~(<<y, x>> \in OpToRel(<, Nat))
  BY NatLessThanWellFounded, WFMin
<1>2. \A y \in S : ~(y < x)
  BY <1>1 DEF OpToRel
<1>3. \A y \in S : x <= y
  BY <1>2
<1>4. QED
  BY <1>3 DEF Min

LEMMA GreatestIs ==
  ASSUME NEW S, S \subseteq Int, NEW x \in S, \A y \in S : y <= x
  PROVE  Max(S) = x
<1>1. \E m \in S : \A y \in S : m >= y
  BY SMT
<1>2. Max(S) \in S /\ \A y \in S : Max(S) >= y
  BY <1>1 DEF Max
<1>3. Max(S) \in Int /\ x \in Int /\ Max(S) >= x /\ Max(S) <= x
  BY <1>2
<1>4. QED
  BY <1>3

LEMMA Positions ==
  ASSUME IInv
  PROVE  /\ Len(commands) \in Nat /\ DOMAIN commands = 1 .. Len(commands)
         /\ \A k : PlanOf(k) \subseteq DOMAIN commands
         /\ \A i \in DOMAIN commands :
              /\ commands[i] \in Lines /\ Key(commands[i]) \in Keys
              /\ ValidCommand(commands[i], Layers, CacheSize)
              /\ i \in PlanOf(Key(commands[i]))
<1>1. commands \in Seq(Lines)
  BY DEF IInv, TypeOK
<1>2. QED
  BY <1>1 DEF IInv, CommandsValid, PlanOf, Keys

(* The commands of a block match an event together.                        *)
LEMMA MatchByKey ==
  ASSUME NEW c, NEW d, NEW e, Key(c) = Key(d)
  PROVE  MatchesRuntime(c, e) <=> MatchesRuntime(d, e)
BY DEF Key, MatchesRuntime

(* The scan skips no match.                                                *)
LEMMA NextMatchingSkipsNone ==
  ASSUME IInv, NEW i \in 1 .. Len(commands) + 1
  PROVE  /\ NextMatching(i) \in i .. Len(commands) + 1
         /\ NextMatching(i) \in DOMAIN commands =>
              MatchesRuntime(commands[NextMatching(i)], CurrentKey)
         /\ \A j \in i .. NextMatching(i) - 1 : ~MatchesRuntime(commands[j], CurrentKey)
<1> DEFINE M == {j \in i .. Len(commands) : MatchesRuntime(commands[j], CurrentKey)}
           S == M \cup {Len(commands) + 1}
<1>1. Len(commands) \in Nat /\ DOMAIN commands = 1 .. Len(commands)
  BY Positions
<1>2. S \in SUBSET Nat /\ S # {} /\ \A x \in S : x \in i .. Len(commands) + 1
  BY <1>1
<1>3. NextMatching(i) = Min(S)
  BY DEF NextMatching
<1>4. Min(S) \in S /\ \A y \in S : Min(S) <= y
  <2> HIDE DEF S
  <2>1. QED
    BY <1>2, LeastPosition
<1>5. \A j \in M : Min(S) <= j
  BY <1>4
<1>6. Min(S) \in DOMAIN commands => Min(S) \in M
  BY <1>1, <1>4
<1>7. Min(S) \in i .. Len(commands) + 1
  <2> HIDE DEF S
  <2>1. QED
    BY <1>2, <1>4
<1>8. ASSUME NEW j \in i .. Min(S) - 1 PROVE ~MatchesRuntime(commands[j], CurrentKey)
  <2> HIDE DEF S
  <2>1. j \in i .. Len(commands) /\ ~(Min(S) <= j)
    BY <1>1, <1>7, <1>8
  <2>2. QED
    BY <1>5, <2>1
<1>9. QED
  BY <1>3, <1>6, <1>7, <1>8

-----------------------------------------------------------------------------
(* How far an event has taken a plan.                                      *)
Matching(k, i) ==
  {j \in 1 .. i - 1 : Key(commands[j]) = k /\ MatchesRuntime(commands[j], CurrentKey)}

(* Matching commands are of the event's layer.                             *)
LEMMA PassedIs ==
  ASSUME IInv, event # NoEvent, Ready, event.cursor > 0, NEW k
  PROVE  Passed(k) = Matching(k, event.cursor)
<1>1. /\ event.layer \in DOMAIN LayerOrder
      /\ event.cursor \in 0 .. Len(commands) + 1
  BY DEF IInv, TypeOK
<1>2. \A j : Key(commands[j]) = k /\ MatchesRuntime(commands[j], CurrentKey) =>
              k.layer = LayerOrder[event.layer]
  BY DEF Key, MatchesRuntime, CurrentKey, RuntimeKey
<1>3. CASE k.layer = LayerOrder[event.layer]
  BY <1>1, <1>3 DEF Passed, Matching
<1>4. CASE k.layer # LayerOrder[event.layer]
  BY <1>1, <1>2, <1>4 DEF Passed, Matching
<1>5. QED
  BY <1>3, <1>4

LEMMA MatchingOwn ==
  ASSUME IInv, NEW i \in DOMAIN commands, MatchesRuntime(commands[i], CurrentKey)
  PROVE  Matching(Key(commands[i]), i) = Before(PlanOf(Key(commands[i])), i)
<1>1. \A j : Key(commands[j]) = Key(commands[i]) => MatchesRuntime(commands[j], CurrentKey)
  BY MatchByKey
<1>2. QED
  BY <1>1, Positions DEF Matching, Before, PlanOf

(* Past the scan's end a plan has been taken whole or not at all.          *)
LEMMA MatchingAll ==
  ASSUME IInv, NEW k, NEW n \in Nat, n > Len(commands), n <= Len(commands) + 1
  PROVE  Matching(k, n) = {} \/ Matching(k, n) = PlanOf(k)
<1>1. n - 1 = Len(commands) /\ DOMAIN commands = 1 .. Len(commands)
  BY Positions
<1>2. \A i, j : Key(commands[i]) = k /\ Key(commands[j]) = k =>
                 (MatchesRuntime(commands[i], CurrentKey) <=>
                    MatchesRuntime(commands[j], CurrentKey))
  BY MatchByKey
<1>3. QED
  BY <1>1, <1>2 DEF Matching, PlanOf

(* One command further.                                                    *)
LEMMA MatchingStep ==
  ASSUME IInv, NEW i \in DOMAIN commands, MatchesRuntime(commands[i], CurrentKey),
         NEW n, n = NextMatching(i + 1)
  PROVE  /\ n \in Nat /\ n > i
         /\ \A k : Matching(k, n) =
                    Matching(k, i) \cup IF k = Key(commands[i]) THEN {i} ELSE {}
<1>1. i \in 1 .. Len(commands) /\ Len(commands) \in Nat
  BY Positions
<1>2. /\ n \in i + 1 .. Len(commands) + 1
      /\ \A j \in i + 1 .. n - 1 : ~MatchesRuntime(commands[j], CurrentKey)
  BY <1>1, NextMatchingSkipsNone
<1>3. n \in Nat /\ n > i
  BY <1>1, <1>2
<1>4. ASSUME NEW k
      PROVE  Matching(k, n) = Matching(k, i) \cup IF k = Key(commands[i]) THEN {i} ELSE {}
  <2>1. \A j \in 1 .. n - 1 : j \in 1 .. i - 1 \/ j = i \/ j \in i + 1 .. n - 1
    BY <1>1, <1>2
  <2>2. 1 .. i - 1 \subseteq 1 .. n - 1 /\ i \in 1 .. n - 1
    BY <1>1, <1>2
  <2>3. QED
    BY <1>2, <2>1, <2>2 DEF Matching
<1>5. QED
  BY <1>3, <1>4

-----------------------------------------------------------------------------
(* Executor routines touch the record of their own block alone.            *)
Frame(o, k) ==
  /\ DOMAIN staging \subseteq DOMAIN o.staging
  /\ DOMAIN o.staging \subseteq DOMAIN staging \cup {k}
  /\ \A j \in DOMAIN staging \ {k} : o.staging[j] = staging[j]

Quiet(o) == o.raised \cap Failures = {}

LEMMA KeepFrame ==
  ASSUME NEW r, NEW k
  PROVE  Frame(Keep(r), k) /\ Keep(r).staging = staging /\ Keep(r).raised = r
BY OutcomeFields DEF Keep, Frame

LEMMA RaiseFrame ==
  ASSUME NEW o, NEW r, NEW k, Frame(o, k)
  PROVE  Frame(Raise(o, r), k) /\ Raise(o, r).staging = o.staging /\ Raise(o, r).raised = r
BY OutcomeFields DEF Raise, Frame

LEMMA InstallFrame ==
  ASSUME NEW o, NEW k, Frame(o, k), GoodOutcome(o), NEW size \in Nat, NEW slot \in Slots,
         NEW b \in Buffers, NEW bytes
  PROVE  /\ Frame(Install(o, k, size, slot, b, bytes), k)
         /\ Staged(Install(o, k, size, slot, b, bytes).staging, k, slot)
         /\ Install(o, k, size, slot, b, bytes).raised = o.raised
<1> DEFINE r == IF k \in DOMAIN o.staging THEN o.staging[k] ELSE EmptyRecord(size)
           new == [r EXCEPT !.buf = [r.buf EXCEPT ![slot] = b]]
           table == [j \in DOMAIN o.staging \cup {k} |-> IF j = k THEN new ELSE o.staging[j]]
<1>1. /\ Install(o, k, size, slot, b, bytes).staging = table
      /\ Install(o, k, size, slot, b, bytes).raised = o.raised
  BY OutcomeFields DEF Install
<1>2. r \in StagingRecord
  BY DEF GoodOutcome, GoodTable, EmptyRecord, StagingRecord
<1>3. new.buf[slot] = b
  BY <1>2 DEF StagingRecord
<1>4. b # NoBuffer
  BY BridgeAssumption
<1>5. /\ DOMAIN table = DOMAIN o.staging \cup {k} /\ table[k] = new
      /\ \A j \in DOMAIN o.staging \ {k} : table[j] = o.staging[j]
  OBVIOUS
<1> HIDE DEF table, new
<1>6. Staged(table, k, slot)
  BY <1>3, <1>4, <1>5 DEF Staged
<1>7. /\ DOMAIN staging \subseteq DOMAIN table
      /\ DOMAIN table \subseteq DOMAIN staging \cup {k}
      /\ \A j \in DOMAIN staging \ {k} : table[j] = staging[j]
  BY <1>5 DEF Frame
<1>8. QED
  BY <1>1, <1>6, <1>7 DEF Frame

LEMMA ReadIntoFrame ==
  ASSUME IInv, NEW i \in DOMAIN commands, NEW slot \in Slots,
         NEW o \in ReadInto(commands[i], slot)
  PROVE  /\ Frame(o, Key(commands[i]))
         /\ o.raised \cap {"missing_source", "lazy_seed"} = {}
         /\ Quiet(o) => Staged(o.staging, Key(commands[i]), slot)
<1> DEFINE c == commands[i]
           k == Key(c)
<1>1. k \in Keys /\ c.size \in Nat
  BY StoredCommand
<1>2. CASE o = Keep({"io_error"})
  BY <1>2, KeepFrame DEF Quiet, Failures
<1>3. CASE StagingError(k, c.size) # {} /\ o = Keep(StagingError(k, c.size))
  BY <1>3, KeepFrame DEF Quiet, Failures, StagingError
<1>4. ASSUME NEW b \in Buffers \ DOMAIN heap,
             o = Install(Keep({}), k, c.size, slot, b, c.offset)
      PROVE  Frame(o, k) /\ o.raised = {} /\ Staged(o.staging, k, slot)
  <2>1. GoodOutcome(Keep({})) /\ Frame(Keep({}), k) /\ Keep({}).raised = {}
    BY KeepGood, KeepFrame
  <2> HIDE DEF k, c
  <2>2. QED
    BY <1>1, <1>4, <2>1, InstallFrame
<1>5. QED
  BY <1>2, <1>3, <1>4 DEF ReadInto

LEMMA EnsureSourceFrame ==
  ASSUME IInv, NEW i \in DOMAIN commands, NEW slot \in Slots,
         NEW o \in EnsureSource(commands[i], slot)
  PROVE  /\ Frame(o, Key(commands[i]))
         /\ Staged(staging, Key(commands[i]), slot) => o.staging = staging /\ o.raised = {}
<1> DEFINE c == commands[i]
           k == Key(c)
<1>1. CASE Staged(staging, k, slot)
  BY <1>1, KeepFrame DEF EnsureSource
<1>2. CASE ~Staged(staging, k, slot)
  <2>1. CASE o = Keep({"missing_source"})
    BY <1>2, <2>1, KeepFrame
  <2>2. ASSUME NEW p \in ReadInto(c, slot), NEW r, o = Raise(p, r)
        PROVE  Frame(o, k)
    BY <2>2, ReadIntoFrame, RaiseFrame
  <2>3. QED
    BY <1>2, <2>1, <2>2 DEF EnsureSource
<1>3. QED
  BY <1>1, <1>2

LEMMA CopyToVramFrame ==
  ASSUME IInv, NEW i \in DOMAIN commands, NEW p, GoodOutcome(p), Frame(p, Key(commands[i])),
         NEW o \in CopyToVram(commands[i], p)
  PROVE  /\ Frame(o, Key(commands[i]))
         /\ Staged(p.staging, Key(commands[i]), "dram") /\ Quiet(o) =>
              Staged(o.staging, Key(commands[i]), "vram") /\ o.raised = p.raised
<1> DEFINE c == commands[i]
           k == Key(c)
<1>1. k \in Keys /\ c.size \in Nat /\ "vram" \in Slots
  BY StoredCommand DEF Slots
<1>2. CASE ~Staged(p.staging, k, "dram") /\ o = p
  BY <1>2
<1>3. CASE o = Raise(p, p.raised \cup {"size_mismatch"}) \/ o = Raise(p, p.raised \cup {"io_error"})
  <2>1. Frame(o, k) /\ ~Quiet(o)
    BY <1>3, RaiseFrame DEF Quiet, Failures
  <2>2. QED
    BY <2>1
<1>4. ASSUME NEW b \in Buffers \ DOMAIN p.heap, NEW bytes,
             o = Install(p, k, c.size, "vram", b, bytes)
      PROVE  Frame(o, k) /\ Staged(o.staging, k, "vram") /\ o.raised = p.raised
  <2> HIDE DEF k, c
  <2>1. Frame(p, k)
    BY DEF k, c
  <2>2. QED
    BY <1>1, <1>4, <2>1, InstallFrame
<1>5. QED
  BY <1>2, <1>3, <1>4 DEF CopyToVram

LEMMA EvictFrame ==
  ASSUME NEW k
  PROVE  /\ Frame(EvictOutcome(k), k)
         /\ DOMAIN EvictOutcome(k).staging = DOMAIN staging
         /\ (\E s \in Slots : Staged(staging, k, s)) => EvictOutcome(k).raised = {}
<1>1. CASE ~\E s \in Slots : Staged(staging, k, s)
  BY <1>1, KeepFrame DEF EvictOutcome
<1>2. CASE \E s \in Slots : Staged(staging, k, s)
  <2> DEFINE new == [staging[k] EXCEPT !.buf =
                       [staging[k].buf EXCEPT ![EvictSlot(k)] = NoBuffer]]
             table == [staging EXCEPT ![k] = new]
  <2>1. EvictOutcome(k).staging = table /\ EvictOutcome(k).raised = {}
    BY <1>2, OutcomeFields DEF EvictOutcome
  <2>2. DOMAIN table = DOMAIN staging /\ \A j \in DOMAIN staging \ {k} : table[j] = staging[j]
    OBVIOUS
  <2> HIDE DEF table
  <2>3. QED
    BY <2>1, <2>2 DEF Frame
<1>3. QED
  BY <1>1, <1>2

LEMMA CheckComputedFrame ==
  ASSUME NEW c, NEW p, Frame(p, Key(c))
  PROVE  /\ Frame(CheckComputed(c, p), Key(c))
         /\ CheckComputed(c, p).staging = p.staging
         /\ Quiet(CheckComputed(c, p)) => CheckComputed(c, p).raised = p.raised
<1>1. CASE CheckComputed(c, p) = p
  BY <1>1
<1>2. CASE CheckComputed(c, p) = Raise(p, p.raised \cup {"size_mismatch"})
  BY <1>2, RaiseFrame DEF Quiet, Failures
<1>3. QED
  BY <1>1, <1>2 DEF CheckComputed

LEMMA ExecuteFrame ==
  ASSUME IInv, NEW i \in DOMAIN commands, NEW o \in Execute(commands[i])
  PROVE  /\ Frame(o, Key(commands[i]))
         /\ ~env.executor => o.staging = staging /\ o.raised = {}
<1> DEFINE c == commands[i]
           k == Key(c)
<1>1. CASE ~env.executor
  <2>1. o = Keep({})
    BY <1>1 DEF Execute
  <2>2. QED
    BY <1>1, <2>1, KeepFrame
<1>2. CASE env.executor
  <2>1. CASE o = Keep({})
    BY <1>2, <2>1, KeepFrame
  <2>2. CASE o \in ReadInto(c, "dram")
    BY <1>2, <2>2, ReadIntoFrame DEF Slots
  <2>3. CASE o \in UNION {CopyToVram(c, p) : p \in EnsureSource(c, "dram")}
    <3>1. PICK p \in EnsureSource(c, "dram") : o \in CopyToVram(c, p)
      BY <2>3
    <3>2. Frame(p, k) /\ GoodOutcome(p)
      BY EnsureSourceFrame, EnsureSourceGood, Positions DEF Slots
    <3>3. QED
      BY <1>2, <3>1, <3>2, CopyToVramFrame
  <2>4. CASE o \in {CheckComputed(c, p) : p \in EnsureSource(c, "vram")}
    <3>1. PICK p \in EnsureSource(c, "vram") : o = CheckComputed(c, p)
      BY <2>4
    <3>2. Frame(p, k)
      BY EnsureSourceFrame DEF Slots
    <3>3. QED
      BY <1>2, <3>1, <3>2, CheckComputedFrame
  <2>5. CASE o = EvictOutcome(k)
    BY <1>2, <2>5, EvictFrame
  <2>6. QED
    BY <1>2, <2>1, <2>2, <2>3, <2>4, <2>5 DEF Execute
<1>3. QED
  BY <1>1, <1>2

-----------------------------------------------------------------------------
(* What the executor does to a block whose plan is a journey.              *)
LEMMA SourceStaged ==
  ASSUME IInv, PInv, event # NoEvent, Ready, event.cursor \in DOMAIN commands,
         ~Failed, env.executor, Journey(PlanOf(Key(commands[event.cursor])))
  PROVE  LET c == commands[event.cursor]
         IN c.source # "ssd" => Key(c) \in DOMAIN staging /\ Staged(staging, Key(c), c.source)
<1> DEFINE i == event.cursor
           c == commands[i]
           k == Key(c)
<1>1. MatchesRuntime(c, CurrentKey) /\ i > 0 /\ k \in Keys /\ i \in PlanOf(k)
  BY Positions DEF PInv, CursorOK
<1>2. Passed(k) = Before(PlanOf(k), i)
  BY <1>1, PassedIs, MatchingOwn
<1>3. CASE Passed(k) = {}
  BY <1>1, <1>2, <1>3 DEF Journey
<1>4. CASE Passed(k) # {}
  <2>1. k \in DOMAIN staging
    BY <1>1, <1>4 DEF PInv, BegunIsStaged
  <2>2. c.source = PlanLocation(k)
    BY <1>1, <1>2, <1>4 DEF Journey, Chained, PlanLocation
  <2>3. QED
    BY <2>1, <2>2 DEF PInv, StagingFollowsPlan, Failed
<1>5. QED
  BY <1>3, <1>4

LEMMA ExecuteJourney ==
  ASSUME IInv, PInv, event # NoEvent, Ready, event.cursor \in DOMAIN commands,
         ~Failed, env.executor, Journey(PlanOf(Key(commands[event.cursor]))),
         NEW o \in Execute(commands[event.cursor]), Quiet(o)
  PROVE  LET c == commands[event.cursor]
         IN /\ Key(c) \in DOMAIN o.staging
            /\ c.target # "ssd" => Staged(o.staging, Key(c), c.target)
            /\ o.raised \cap {"missing_source", "lazy_seed"} = {}
<1> DEFINE i == event.cursor
           c == commands[i]
           k == Key(c)
<1>1. /\ i \in DOMAIN commands /\ ValidCommand(c, Layers, CacheSize)
      /\ i \in PlanOf(k) /\ c \in Lines
  BY Positions
<1>2. c.source # "ssd" => k \in DOMAIN staging /\ Staged(staging, k, c.source)
  BY SourceStaged
<1>3. Intent(c) # "metadata" /\ (Intent(c) = "ssd_write" => c.source # "ssd")
  BY <1>1 DEF Journey
<1>4. CASE Intent(c) = "ssd_read"
  <2>1. c.target = "dram" /\ o \in ReadInto(c, "dram") /\ "dram" \in Slots
    BY <1>4 DEF Intent, Execute, Slots
  <2>2. QED
    BY <1>1, <2>1, ReadIntoFrame DEF Staged
<1>5. CASE Intent(c) = "dram_to_vram"
  <2>1. c.source = "dram" /\ c.target = "vram" /\ "dram" \in Slots
    BY <1>5 DEF Intent, Slots
  <2>2. PICK p \in EnsureSource(c, "dram") : o \in CopyToVram(c, p)
    BY <1>5 DEF Execute
  <2>3. p.staging = staging /\ p.raised = {} /\ Frame(p, k) /\ GoodOutcome(p)
    BY <1>1, <1>2, <2>1, EnsureSourceFrame, EnsureSourceGood
  <2>4. Staged(o.staging, k, "vram") /\ o.raised = {}
    BY <1>1, <1>2, <2>1, <2>2, <2>3, CopyToVramFrame
  <2>5. QED
    BY <2>1, <2>4 DEF Staged
<1>6. CASE Intent(c) = "compute"
  <2>1. c.source = "vram" /\ c.target = "vram" /\ "vram" \in Slots
    BY <1>1, <1>6 DEF Intent, ValidCommand, IsTransfer, Slots
  <2>2. PICK p \in EnsureSource(c, "vram") : o = CheckComputed(c, p)
    BY <1>6 DEF Execute
  <2>3. p.staging = staging /\ p.raised = {} /\ Frame(p, k)
    BY <1>1, <1>2, <2>1, EnsureSourceFrame
  <2>4. o.staging = staging /\ o.raised = {}
    BY <2>2, <2>3, CheckComputedFrame
  <2>5. QED
    BY <1>2, <2>1, <2>4
<1>7. CASE Intent(c) = "ssd_write"
  <2>1. c.target = "ssd" /\ o = EvictOutcome(k)
    BY <1>7 DEF Intent, Execute
  <2>2. c.source \in Slots
    BY <1>1, <1>3, <1>7 DEF ValidCommand, Locations, Slots
  <2>3. DOMAIN o.staging = DOMAIN staging /\ o.raised = {}
    BY <1>2, <1>3, <1>7, <2>1, <2>2, EvictFrame
  <2>4. QED
    BY <1>2, <1>3, <1>7, <2>1, <2>3
<1>8. QED
  BY <1>3, <1>4, <1>5, <1>6, <1>7 DEF Intent

(* The mutation gate marks a record and moves no buffer.                   *)
LEMMA GateFrame ==
  ASSUME NEW table, GoodTable(table), NEW k
  PROVE  LET gated == AfterMutationGate(table, k)
         IN /\ DOMAIN gated = DOMAIN table
            /\ \A j \in DOMAIN table \ {k} : gated[j] = table[j]
            /\ \A j, s : Staged(gated, j, s) <=> Staged(table, j, s)
            /\ env.mutation /\ Staged(table, k, "vram") => gated[k].checked
<1>1. CASE ~MutationDue(table, k)
  BY <1>1 DEF AfterMutationGate, MutationDue
<1>2. CASE MutationDue(table, k)
  <2> DEFINE new == [table[k] EXCEPT !.checked = TRUE,
                                     !.mutated = CanMutate(k, table[k].size)]
             gated == [table EXCEPT ![k] = new]
  <2>1. k \in DOMAIN table
    BY <1>2 DEF MutationDue, Staged
  <2>2. table[k] \in StagingRecord
    BY <2>1 DEF GoodTable
  <2>3. new.buf = table[k].buf /\ new.checked
    BY <2>2 DEF StagingRecord
  <2>4. /\ DOMAIN gated = DOMAIN table /\ gated[k] = new
        /\ \A j \in DOMAIN table \ {k} : gated[j] = table[j]
    BY <2>1
  <2>5. AfterMutationGate(table, k) = gated
    BY <1>2 DEF AfterMutationGate
  <2> HIDE DEF new, gated
  <2>6. \A j \in DOMAIN table : gated[j].buf = table[j].buf
    BY <2>3, <2>4
  <2>7. \A j, s : Staged(gated, j, s) <=> Staged(table, j, s)
    BY <2>4, <2>6 DEF Staged
  <2>8. QED
    BY <2>3, <2>4, <2>5, <2>7
<1>3. QED
  BY <1>1, <1>2

-----------------------------------------------------------------------------
AllJourneys == \A i \in DOMAIN commands : Journey(PlanOf(Key(commands[i])))

(* While the command table stands, plans and journeys stand.               *)
LEMMA PlansStand ==
  ASSUME commands' = commands
  PROVE  /\ \A k : PlanOf(k)' = PlanOf(k)
         /\ \A plan : Arrival(plan)' = Arrival(plan)
         /\ \A k : Journey(PlanOf(k))' <=> Journey(PlanOf(k))
         /\ AllJourneys' <=> AllJourneys
<1>1. \A k : PlanOf(k)' = PlanOf(k)
  BY DEF PlanOf
<1>2. \A plan : Arrival(plan)' = Arrival(plan)
  BY DEF Arrival
<1>3. \A k : Journey(PlanOf(k))' <=> Journey(PlanOf(k))
  BY DEF Journey, Chained, Arrival, Before, PlanOf
<1>4. AllJourneys' <=> AllJourneys
  BY DEF AllJourneys, Journey, Chained, Arrival, Before, PlanOf
<1>5. QED
  BY <1>1, <1>2, <1>3, <1>4

(* One command takes its own block's plan one step and no other's.         *)
LEMMA ApplyCommandPassed ==
  ASSUME IInv, PInv, ApplyCommand, NEW k, k = Key(commands[event.cursor])
  PROVE  /\ Passed(k)' # {} /\ Max(Passed(k)') = event.cursor
         /\ \A j : j # k => Passed(j)' = Passed(j)
<1> DEFINE i == event.cursor
           n == NextMatching(i + 1)
<1>1. /\ i \in 1 .. Len(commands) /\ event # NoEvent /\ Ready
      /\ commands' = commands /\ Ready' /\ event' = [event EXCEPT !.cursor = n]
  BY DEF ApplyCommand, fileVars, Ready
<1>2. i \in DOMAIN commands /\ i > 0 /\ MatchesRuntime(commands[i], CurrentKey)
  BY <1>1, Positions DEF PInv, CursorOK
<1>3. /\ n \in Nat /\ n > i
      /\ \A j : Matching(j, n) = Matching(j, i) \cup IF j = k THEN {i} ELSE {}
  BY <1>2, MatchingStep
<1>4. n \in 1 .. Len(commands) + 1
  BY <1>1, NextMatchingBounds, Positions DEF IInv
<1>5. event \in [ubatch : Ubatches, layer : DOMAIN LayerOrder, cursor : 0 .. Len(commands) + 1]
  BY <1>1 DEF IInv, TypeOK
<1>6. /\ event' \in [ubatch : Ubatches, layer : DOMAIN LayerOrder, cursor : Nat]
      /\ event'.layer = event.layer /\ event'.ubatch = event.ubatch /\ event'.cursor = n
  <2> HIDE DEF n
  <2>1. QED
    BY <1>1, <1>3, <1>5, Positions
<1>7. event' # NoEvent
  BY <1>6, BridgeAssumption
<1>8. CurrentKey' = CurrentKey
  BY <1>6 DEF CurrentKey, RuntimeKey
<1>9. ASSUME NEW j PROVE Passed(j)' = Matching(j, n)
  <2>1. event'.layer \in DOMAIN LayerOrder /\ event'.cursor > 0
    BY <1>3, <1>5, <1>6
  <2>2. CASE j.layer = LayerOrder[event.layer]
    BY <1>1, <1>6, <1>7, <1>8, <2>1, <2>2 DEF Passed, Matching
  <2>3. CASE j.layer # LayerOrder[event.layer]
    <3>1. \A x : Key(commands[x]) = j => ~MatchesRuntime(commands[x], CurrentKey)
      BY <2>3 DEF Key, MatchesRuntime, CurrentKey, RuntimeKey
    <3>2. QED
      BY <1>6, <2>3, <3>1 DEF Passed, Matching
  <2>4. QED
    BY <2>2, <2>3
<1>10. \A j : Passed(j) = Matching(j, i)
  BY <1>1, <1>2, PassedIs
<1>11. \A j : j # k => Passed(j)' = Passed(j)
  BY <1>3, <1>9, <1>10
<1>12. Passed(k)' = Matching(k, i) \cup {i}
  BY <1>3, <1>9
<1>13. /\ Matching(k, i) \cup {i} \subseteq Int
       /\ \A y \in Matching(k, i) \cup {i} : y <= i
  BY <1>1, Positions DEF Matching
<1>14. Max(Matching(k, i) \cup {i}) = i
  <2> DEFINE S == Matching(k, i) \cup {i}
  <2>1. S \subseteq Int /\ i \in S /\ \A y \in S : y <= i
    BY <1>13
  <2> HIDE DEF S, i
  <2>2. Max(S) = i
    BY <2>1, GreatestIs
  <2>3. QED
    BY <2>2 DEF S
<1>15. QED
  BY <1>11, <1>12, <1>14

LEMMA ApplyCommandPlan ==
  ASSUME IInv, PInv, ApplyCommand
  PROVE  PInv'
<1> DEFINE i == event.cursor
           c == commands[i]
<1>1. PICK k : k = Key(c)
  OBVIOUS
<1>2. /\ i \in 1 .. Len(commands) /\ event # NoEvent /\ Ready
      /\ UNCHANGED <<fileVars, gate, env>>
      /\ event' = [event EXCEPT !.cursor = NextMatching(i + 1)]
  BY DEF ApplyCommand
<1>3. PICK o \in Execute(c), mismatch \in SUBSET {"shadow_mismatch"} :
        /\ staging' = AfterMutationGate(o.staging, k)
        /\ raised' = raised \cup o.raised \cup mismatch
  BY <1>1 DEF ApplyCommand
<1>4. i \in DOMAIN commands /\ c \in Lines /\ ValidCommand(c, Layers, CacheSize)
  BY <1>2, Positions
<1>5. GoodOutcome(o)
  BY <1>3, <1>4, ExecuteGood
<1>6. /\ Frame(o, k)
      /\ ~env.executor => o.staging = staging /\ o.raised = {}
  BY <1>1, <1>3, <1>4, ExecuteFrame
<1>7. /\ DOMAIN staging' = DOMAIN o.staging
      /\ \A j \in DOMAIN staging' \ {k} : j \in DOMAIN staging /\ staging'[j] = staging[j]
      /\ \A j, s : Staged(staging', j, s) <=> Staged(o.staging, j, s)
      /\ env.mutation /\ Staged(o.staging, k, "vram") => staging'[k].checked
  <2>1. GoodTable(o.staging)
    BY <1>5 DEF GoodOutcome
  <2>2. QED
    BY <1>3, <1>6, <2>1, GateFrame DEF Frame
<1>8. ~Failed' => ~Failed /\ Quiet(o)
  BY <1>3 DEF Failed, Quiet
<1>9. ~Failed /\ Quiet(o) /\ env.executor /\ Journey(PlanOf(k)) =>
        /\ k \in DOMAIN o.staging
        /\ c.target # "ssd" => Staged(o.staging, k, c.target)
        /\ o.raised \cap {"missing_source", "lazy_seed"} = {}
  BY <1>1, <1>2, <1>3, <1>4, ExecuteJourney
<1>10. commands' = commands /\ env' = env /\ gate' = gate /\ Ready' /\ loader' = "ready"
  BY <1>2 DEF fileVars, Ready
<1>11. /\ \A j : PlanOf(j)' = PlanOf(j)
       /\ \A plan : Arrival(plan)' = Arrival(plan)
       /\ \A j : Journey(PlanOf(j))' <=> Journey(PlanOf(j))
  BY <1>10, PlansStand
<1>12. /\ Passed(k)' # {} /\ Max(Passed(k)') = i
       /\ \A j : j # k => Passed(j)' = Passed(j)
  BY <1>1, ApplyCommandPassed
<1>13. PlanLocation(k)' = c.target
  BY <1>10, <1>12 DEF PlanLocation, Arrival
<1>14. \A j : j # k => PlanLocation(j)' = PlanLocation(j)
  BY <1>11, <1>12 DEF PlanLocation
<1>15. gate = NoGate
  BY <1>2 DEF PInv, CursorOK
<1>16. CursorOK'
  <2>1. PICK n : n = NextMatching(i + 1)
    OBVIOUS
  <2>2. /\ n \in i + 1 .. Len(commands) + 1
        /\ n \in DOMAIN commands => MatchesRuntime(commands[n], CurrentKey)
    BY <1>2, <2>1, NextMatchingSkipsNone, Positions
  <2>3. event \in [ubatch : Ubatches, layer : DOMAIN LayerOrder, cursor : 0 .. Len(commands) + 1]
    BY <1>2 DEF IInv, TypeOK
  <2>4. event'.cursor = n /\ CurrentKey' = CurrentKey
    BY <1>2, <2>1, <2>3 DEF CurrentKey, RuntimeKey
  <2>5. QED
    BY <1>10, <1>15, <2>2, <2>4 DEF CursorOK
<1>17. ExecutorOff'
  BY <1>6, <1>7, <1>10 DEF PInv, ExecutorOff
<1>18. BegunIsStaged'
  <2> SUFFICES ASSUME env.executor', ~Failed', NEW j \in Keys, Journey(PlanOf(j))',
                      Passed(j)' # {}
               PROVE  j \in DOMAIN staging'
    BY DEF BegunIsStaged, Keys
  <2>1. env.executor /\ ~Failed /\ Quiet(o) /\ Journey(PlanOf(j))
    BY <1>8, <1>10, <1>11
  <2>2. CASE j = k
    BY <1>7, <1>9, <2>1, <2>2
  <2>3. CASE j # k
    <3>1. Passed(j) # {}
      BY <1>12, <2>3
    <3>2. j \in DOMAIN staging
      BY <2>1, <3>1 DEF PInv, BegunIsStaged
    <3>3. QED
      BY <1>6, <1>7, <3>2 DEF Frame
  <2>4. QED
    BY <2>2, <2>3
<1>19. VramChecked'
  <2> SUFFICES ASSUME env.mutation', NEW j \in DOMAIN staging', Staged(staging', j, "vram")
               PROVE  staging'[j].checked
    BY DEF VramChecked, Staged
  <2>1. CASE j = k
    BY <1>7, <1>10, <2>1
  <2>2. CASE j # k
    BY <1>7, <1>10, <2>2 DEF PInv, VramChecked, Staged
  <2>3. QED
    BY <2>1, <2>2
<1>20. StagingFollowsPlan'
  <2> SUFFICES ASSUME ~Failed', NEW j \in DOMAIN staging', Journey(PlanOf(j))',
                      PlanLocation(j)' # "ssd"
               PROVE  Staged(staging', j, PlanLocation(j)')
    BY DEF StagingFollowsPlan, Failed, Staged
  <2>1. ~Failed /\ Quiet(o) /\ Journey(PlanOf(j))
    BY <1>8, <1>11
  <2>2. CASE j = k
    <3>1. env.executor
      BY <1>6, <1>7, <2>2 DEF PInv, ExecutorOff
    <3>2. QED
      BY <1>7, <1>9, <1>13, <2>1, <2>2, <3>1
  <2>3. CASE j # k
    <3>1. j \in DOMAIN staging /\ staging'[j] = staging[j]
      BY <1>7, <2>3
    <3>2. PlanLocation(j)' = PlanLocation(j)
      BY <1>14, <2>3
    <3>3. Staged(staging, j, PlanLocation(j))
      BY <2>1, <3>1, <3>2 DEF PInv, StagingFollowsPlan, Failed
    <3>4. QED
      BY <3>1, <3>2, <3>3 DEF Staged
  <2>4. QED
    BY <2>2, <2>3
<1>21. JourneysNeedNoSeeding'
  <2> SUFFICES ASSUME ~Failed', AllJourneys'
               PROVE  raised' \cap {"missing_source", "lazy_seed"} = {}
    BY DEF JourneysNeedNoSeeding, Failed, AllJourneys
  <2> AllJourneys
    BY <1>10, PlansStand
  <2>1. raised \cap {"missing_source", "lazy_seed"} = {}
    BY <1>8 DEF PInv, JourneysNeedNoSeeding, Failed, AllJourneys
  <2>2. o.raised \cap {"missing_source", "lazy_seed"} = {}
    BY <1>1, <1>4, <1>6, <1>8, <1>9 DEF AllJourneys
  <2>3. QED
    BY <1>3, <2>1, <2>2
<1>22. GateBlocksForCause'
  BY <1>10, <1>15 DEF GateBlocksForCause
<1>23. QED
  BY <1>16, <1>17, <1>18, <1>19, <1>20, <1>21, <1>22 DEF PInv

(* A step that touches no table and leaves every plan where it was.        *)
LEMMA TablesStandPlan ==
  ASSUME PInv, CursorOK', UNCHANGED <<commands, staging, raised, env>>,
         gate' = NoGate \/ gate' = gate,
         \A k : PlanLocation(k)' = PlanLocation(k), \A k : Passed(k)' = {}
  PROVE  PInv'
<1>1. /\ \A k : Journey(PlanOf(k))' <=> Journey(PlanOf(k))
      /\ \A k : PlanOf(k)' = PlanOf(k)
      /\ \A plan : Arrival(plan)' = Arrival(plan)
      /\ AllJourneys' <=> AllJourneys
  BY PlansStand
<1>2. ExecutorOff' /\ VramChecked'
  BY DEF PInv, ExecutorOff, VramChecked, Staged
<1>3. BegunIsStaged'
  BY DEF BegunIsStaged
<1>4. StagingFollowsPlan'
  <2> SUFFICES ASSUME ~Failed', NEW j \in DOMAIN staging', Journey(PlanOf(j))',
                      PlanLocation(j)' # "ssd"
               PROVE  Staged(staging', j, PlanLocation(j)')
    BY DEF StagingFollowsPlan, Failed, Staged
  <2>1. ~Failed /\ Journey(PlanOf(j)) /\ PlanLocation(j)' = PlanLocation(j)
    BY <1>1 DEF Failed
  <2>2. Staged(staging, j, PlanLocation(j))
    BY <2>1 DEF PInv, StagingFollowsPlan, Failed
  <2>3. QED
    BY <2>1, <2>2 DEF Staged
<1>5. JourneysNeedNoSeeding'
  BY <1>1 DEF PInv, JourneysNeedNoSeeding, AllJourneys
<1>6. GateBlocksForCause'
  <2>1. CASE gate' = NoGate
    BY <2>1 DEF GateBlocksForCause
  <2>2. CASE gate' = gate
    <3>1. \A layer, nKV : Required(layer, nKV)' = Required(layer, nKV)
      BY DEF Required
    <3>2. QED
      BY <1>1, <2>2, <3>1 DEF PInv, GateBlocksForCause
  <2>3. QED
    BY <2>1, <2>2
<1>7. QED
  BY <1>2, <1>3, <1>4, <1>5, <1>6 DEF PInv

(* No command of an event under way has run: every plan is at its end.     *)
LEMMA NothingPassed ==
  ASSUME event = NoEvent \/ ~Ready \/ event.cursor = 0
  PROVE  \A k : Passed(k) = {} /\ PlanLocation(k) = Arrival(PlanOf(k))
BY DEF Passed, PlanLocation

LEMMA ApplyUbatchPlan ==
  ASSUME IInv, PInv, NEW u \in Ubatches, ApplyUbatch(u)
  PROVE  PInv'
<1>1. /\ event = NoEvent /\ gate' = NoGate
      /\ UNCHANGED <<invalidSeen, commands, staging, raised, env>>
  BY DEF ApplyUbatch, blockVars
<1>2. event' = NoEvent \/ event' = Start(u)
  BY <1>1 DEF ApplyUbatch
<1>3. Start(u) # NoEvent /\ Start(u).cursor = 0
  <2>1. 1 \in DOMAIN LayerOrder
    BY BridgeAssumption
  <2>2. QED
    BY <2>1, BridgeAssumption DEF Start
<1>4. \A k : Passed(k) = {} /\ PlanLocation(k) = Arrival(PlanOf(k))
  BY <1>1, NothingPassed
<1>5. \A k : Passed(k)' = {}
  BY <1>2, <1>3 DEF Passed
<1>6. \A k : PlanLocation(k)' = PlanLocation(k)
  BY <1>1, <1>4, <1>5 DEF PlanLocation, PlanOf, Arrival
<1>7. CursorOK'
  <2>1. event' # NoEvent => event'.cursor = 0 /\ event'.cursor \notin DOMAIN commands'
    BY <1>1, <1>2, <1>3, Positions
  <2>2. loader' = "reading" => event' # NoEvent
    BY <1>3 DEF ApplyUbatch, PInv, CursorOK, Ready
  <2>3. loader' # "ready" => Unused'
    BY <1>1 DEF ApplyUbatch, PInv, CursorOK, Unused, Ready
  <2>4. QED
    BY <1>1, <2>1, <2>2, <2>3 DEF CursorOK
<1>8. QED
  BY <1>1, <1>5, <1>6, <1>7, TablesStandPlan

(* The file is read before anything is staged.                             *)
LEMMA LoadingPlan ==
  ASSUME IInv, PInv, (\E c \in Lines : ReadLine(c)) \/ EndOfFile
  PROVE  PInv'
<1>1. /\ loader = "reading" /\ UNCHANGED <<staging, raised, gate, env>>
      /\ loader' \in {"reading", "ready"}
      /\ event' = event \/ event' = NoEvent
      /\ loader' = "reading" => event' = event
  BY DEF ReadLine, EndOfFile, blockVars
<1>2. /\ event # NoEvent /\ event.cursor = 0 /\ DOMAIN staging = {} /\ raised = {}
      /\ gate = NoGate
  BY <1>1 DEF PInv, CursorOK, Ready, Unused
<1>3. \A k : Passed(k)' = {}
  BY <1>1, <1>2 DEF Passed
<1>4. 0 \notin DOMAIN commands'
  <2>1. commands \in Seq(Lines)
    BY DEF IInv, TypeOK
  <2>2. commands' \in Seq(Lines)
    BY <2>1 DEF ReadLine, EndOfFile
  <2>3. QED
    BY <2>2
<1>5. CursorOK'
  BY <1>1, <1>2, <1>4 DEF CursorOK, Unused
<1>6. ExecutorOff' /\ BegunIsStaged' /\ VramChecked'
  BY <1>1, <1>2, <1>3 DEF ExecutorOff, BegunIsStaged, VramChecked
<1>7. StagingFollowsPlan' /\ JourneysNeedNoSeeding' /\ GateBlocksForCause'
  BY <1>1, <1>2 DEF StagingFollowsPlan, JourneysNeedNoSeeding, GateBlocksForCause
<1>8. QED
  BY <1>5, <1>6, <1>7 DEF PInv

LEMMA BeginLayerPlan ==
  ASSUME IInv, PInv, BeginLayer
  PROVE  PInv'
<1>1. PICK n : n = NextMatching(1)
  OBVIOUS
<1>2. /\ event # NoEvent /\ Ready /\ event.cursor = 0
      /\ event' = [event EXCEPT !.cursor = n]
      /\ UNCHANGED <<loader, invalidSeen, commands, staging, raised, gate, env>>
  BY <1>1 DEF BeginLayer, fileVars
<1>3. 1 \in 1 .. Len(commands) + 1
  BY Positions
<1>4. /\ n \in 1 .. Len(commands) + 1
      /\ n \in DOMAIN commands => MatchesRuntime(commands[n], CurrentKey)
      /\ \A j \in 1 .. n - 1 : ~MatchesRuntime(commands[j], CurrentKey)
  BY <1>1, <1>3, NextMatchingSkipsNone
<1>5. event \in [ubatch : Ubatches, layer : DOMAIN LayerOrder, cursor : 0 .. Len(commands) + 1]
  BY <1>2 DEF IInv, TypeOK
<1>6. event'.cursor = n /\ CurrentKey' = CurrentKey
  BY <1>2, <1>5 DEF CurrentKey, RuntimeKey
<1>7. \A k : Passed(k)' = {}
  BY <1>2, <1>4, <1>6 DEF Passed
<1>8. \A k : PlanLocation(k)' = PlanLocation(k)
  <2>1. \A k : PlanLocation(k) = Arrival(PlanOf(k))
    BY <1>2, NothingPassed
  <2>2. QED
    BY <1>2, <1>7, <2>1 DEF PlanLocation, PlanOf, Arrival
<1>9. CursorOK'
  BY <1>2, <1>4, <1>6 DEF PInv, CursorOK, Ready
<1>10. QED
  BY <1>2, <1>7, <1>8, <1>9, TablesStandPlan

(* The end of a layer finds every plan whole or untouched.                 *)
LEMMA EndLayerPlan ==
  ASSUME IInv, PInv, EndLayer
  PROVE  PInv'
<1>1. /\ event # NoEvent /\ Ready /\ event.cursor > Len(commands)
      /\ UNCHANGED <<loader, invalidSeen, commands, staging, raised, gate, env>>
      /\ \/ event' = NoEvent
         \/ event' = [event EXCEPT !.layer = event.layer + 1, !.cursor = 0]
  BY DEF EndLayer, fileVars, blockVars
<1>2. event \in [ubatch : Ubatches, layer : DOMAIN LayerOrder, cursor : 0 .. Len(commands) + 1]
  BY <1>1 DEF IInv, TypeOK
<1>3. event' = NoEvent \/ event'.cursor = 0
  BY <1>1, <1>2
<1>4. \A k : Passed(k)' = {}
  BY <1>3 DEF Passed
<1>5. \A k : PlanLocation(k) = Arrival(PlanOf(k))
  <2>1. event.cursor \in Nat /\ event.cursor > 0 /\ event.cursor <= Len(commands) + 1
    BY <1>1, <1>2, Positions
  <2>2. ASSUME NEW k PROVE Passed(k) = {} \/ Passed(k) = PlanOf(k)
    BY <1>1, <2>1, PassedIs, MatchingAll
  <2>3. QED
    BY <2>2 DEF PlanLocation
<1>6. \A k : PlanLocation(k)' = PlanLocation(k)
  BY <1>1, <1>4, <1>5 DEF PlanLocation, PlanOf, Arrival
<1>7. CursorOK'
  <2>1. 0 \notin DOMAIN commands
    BY Positions
  <2>2. QED
    BY <1>1, <1>3, <2>1 DEF PInv, CursorOK, Ready
<1>8. QED
  BY <1>1, <1>4, <1>6, <1>7, TablesStandPlan

(* The gate misses nothing a finished journey to VRAM has staged.          *)
LEMMA AttentionGatePlan ==
  ASSUME IInv, PInv, NEW layer \in Layers, NEW nKV \in Views, AttentionGate(layer, nKV)
  PROVE  PInv'
<1>1. /\ event = NoEvent /\ event' = NoEvent
      /\ UNCHANGED <<loader, invalidSeen, commands, staging, raised, env>>
      /\ gate' = [layer |-> layer, view |-> nKV, status |-> GateStatus(Required(layer, nKV))]
  BY DEF AttentionGate, fileVars, blockVars
<1>2. \A k : Passed(k) = {} /\ PlanLocation(k) = Arrival(PlanOf(k))
  BY <1>1, NothingPassed
<1>3. \A k : Passed(k)' = {}
  BY <1>1 DEF Passed
<1>4. /\ \A k : PlanOf(k)' = PlanOf(k)
      /\ \A plan : Arrival(plan)' = Arrival(plan)
      /\ \A k : Journey(PlanOf(k))' <=> Journey(PlanOf(k))
      /\ AllJourneys' <=> AllJourneys
  BY <1>1, PlansStand
<1>5. GateBlocksForCause'
  <2> SUFFICES ASSUME env.mutation, ~Failed,
                      GateStatus(Required(layer, nKV)) \in {"missing_staging", "pending_mutation"}
               PROVE  \E k \in Required(layer, nKV) :
                        \/ k \notin DOMAIN staging
                        \/ ~Journey(PlanOf(k))
                        \/ Arrival(PlanOf(k)) # "vram"
    <3>1. Required(layer, nKV)' = Required(layer, nKV)
      BY <1>1 DEF Required
    <3>2. QED
      BY <1>1, <1>4, <3>1 DEF GateBlocksForCause, Failed
  <2>1. CASE \E k \in Required(layer, nKV) : Missing(k)
    <3>1. PICK k \in Required(layer, nKV) : ~Staged(staging, k, "vram")
      BY <2>1 DEF Missing
    <3>2. k \in DOMAIN staging /\ Journey(PlanOf(k)) => Arrival(PlanOf(k)) # "vram"
      BY <1>2, <3>1 DEF PInv, StagingFollowsPlan, Failed
    <3>3. QED
      BY <3>2
  <2>2. CASE ~\E k \in Required(layer, nKV) : Missing(k)
    <3>1. \A k \in Required(layer, nKV) : Staged(staging, k, "vram") /\ staging[k].checked
      BY <2>2 DEF Missing, PInv, VramChecked, Staged
    <3>2. QED
      BY <2>2, <3>1 DEF GateStatus
  <2>3. QED
    BY <2>1, <2>2
<1>6. CursorOK'
  BY <1>1 DEF PInv, CursorOK, Unused
<1>7. ExecutorOff' /\ BegunIsStaged' /\ VramChecked'
  BY <1>1, <1>3 DEF PInv, ExecutorOff, BegunIsStaged, VramChecked, Staged
<1>8. StagingFollowsPlan'
  <2> SUFFICES ASSUME ~Failed', NEW j \in DOMAIN staging', Journey(PlanOf(j))',
                      PlanLocation(j)' # "ssd"
               PROVE  Staged(staging', j, PlanLocation(j)')
    BY DEF StagingFollowsPlan, Failed, Staged
  <2>1. PlanLocation(j)' = PlanLocation(j)
    BY <1>1, <1>2, <1>3 DEF PlanLocation, PlanOf, Arrival
  <2>2. Staged(staging, j, PlanLocation(j))
    BY <1>1, <1>4, <2>1 DEF PInv, StagingFollowsPlan, Failed
  <2>3. QED
    BY <1>1, <2>1, <2>2 DEF Staged
<1>9. JourneysNeedNoSeeding'
  BY <1>1, <1>4 DEF PInv, JourneysNeedNoSeeding, AllJourneys
<1>10. QED
  BY <1>5, <1>6, <1>7, <1>8, <1>9 DEF PInv

-----------------------------------------------------------------------------
LEMMA InitPlan == Init => PInv
<1> SUFFICES ASSUME Init PROVE PInv
  OBVIOUS
<1>1. DOMAIN staging = {} /\ raised = {} /\ event = NoEvent /\ gate = NoGate /\ loader = "unloaded"
  BY DEF Init, Empty
<1>2. CursorOK /\ ExecutorOff /\ VramChecked
  BY <1>1 DEF CursorOK, Unused, ExecutorOff, VramChecked
<1>3. BegunIsStaged
  BY <1>1, NothingPassed DEF BegunIsStaged
<1>4. StagingFollowsPlan /\ JourneysNeedNoSeeding /\ GateBlocksForCause
  BY <1>1 DEF StagingFollowsPlan, JourneysNeedNoSeeding, GateBlocksForCause
<1>5. QED
  BY <1>2, <1>3, <1>4 DEF PInv

LEMMA NextPlan == IInv /\ PInv /\ [Next]_vars => PInv'
<1> SUFFICES ASSUME IInv, PInv, [Next]_vars PROVE PInv'
  OBVIOUS
<1>1. CASE UNCHANGED vars
  <2>1. UNCHANGED <<loader, invalidSeen, commands, staging, raised, event, gate, env>>
    BY <1>1 DEF vars, fileVars, blockVars
  <2>2. /\ \A k : PlanOf(k)' = PlanOf(k) /\ (Journey(PlanOf(k))' <=> Journey(PlanOf(k)))
        /\ \A plan : Arrival(plan)' = Arrival(plan)
        /\ AllJourneys' <=> AllJourneys
    BY <2>1, PlansStand
  <2>3. CursorOK' /\ ExecutorOff' /\ VramChecked'
    BY <2>1 DEF PInv, CursorOK, Unused, Ready, CurrentKey, RuntimeKey, ExecutorOff,
                VramChecked, Staged
  <2>4. \A k : Passed(k)' = Passed(k)
    BY <2>1 DEF Passed, Ready, CurrentKey, RuntimeKey
  <2>5. \A k : PlanLocation(k)' = PlanLocation(k)
    BY <2>2, <2>4 DEF PlanLocation
  <2>6. BegunIsStaged'
    BY <2>1, <2>2, <2>4 DEF PInv, BegunIsStaged, Failed, Keys
  <2>7. StagingFollowsPlan'
    BY <2>1, <2>2, <2>5 DEF PInv, StagingFollowsPlan, Staged
  <2>8. JourneysNeedNoSeeding'
    BY <2>1, <2>2 DEF PInv, JourneysNeedNoSeeding, AllJourneys
  <2>9. GateBlocksForCause'
    <3>1. \A layer, nKV : Required(layer, nKV)' = Required(layer, nKV)
      BY <2>1 DEF Required
    <3>2. QED
      BY <2>1, <2>2, <3>1 DEF PInv, GateBlocksForCause
  <2>10. QED
    BY <2>3, <2>6, <2>7, <2>8, <2>9 DEF PInv
<1>2. CASE Next
  BY <1>2, ApplyUbatchPlan, LoadingPlan, BeginLayerPlan, ApplyCommandPlan, EndLayerPlan,
     AttentionGatePlan DEF Next
<1>3. QED
  BY <1>1, <1>2

LEMMA SpecPInv == Spec => []PInv
<1>1. Spec => [](IInv /\ PInv)
  BY InitIInv, NextIInv, InitPlan, NextPlan, PTL DEF Spec
<1>2. QED
  BY <1>1, PTL

(* While no read, allocation or table limit failed, a staged block whose   *)
(* plan is a journey has a buffer in the memory the plan has brought it to *)
(* after every command and every revisit                                   *)
(* (llama_solidattention_execute_movement_intent_stub).                    *)
THEOREM StagingFollowsEveryPlan == Spec => []StagingFollowsPlan
<1>1. PInv => StagingFollowsPlan
  BY DEF PInv
<1>2. QED
  BY <1>1, SpecPInv, PTL

(* Plans that are journeys meet no missing source and need no lazy seed    *)
(* (llama_solidattention_executor_ensure_dram_source, ..._vram_source).    *)
THEOREM NoSeedingForJourneys == Spec => []JourneysNeedNoSeeding
<1>1. PInv => JourneysNeedNoSeeding
  BY DEF PInv
<1>2. QED
  BY <1>1, SpecPInv, PTL

(* With staging and mutation on and no failure, the attention residency    *)
(* gate holds a view back only for a block that no batch reached or whose  *)
(* plan is no journey to VRAM                                              *)
(* (llama_solidattention_attention_residency_gate).                        *)
THEOREM GateHoldsBackForCause == Spec => []GateBlocksForCause
<1>1. PInv => GateBlocksForCause
  BY DEF PInv
<1>2. QED
  BY <1>1, SpecPInv, PTL

-----------------------------------------------------------------------------
(* The shadow record of the event under way stands where the next matching *)
(* command expects it.                                                     *)
ShadowAtSource ==
  event # NoEvent /\ Ready /\ event.cursor \in DOMAIN commands
    /\ CurrentKey \in DOMAIN shadow /\ Chained(MatchedCommands(CurrentKey))
  => shadow[CurrentKey] = commands[event.cursor].source

SilentUntilReady == ~Ready => raised = {}

ShadowInv == SilentUntilReady /\ ShadowAtSource /\ ShadowFollowsPlan

LEMMA ReadIntoCounts ==
  ASSUME NEW c, NEW slot, NEW o \in ReadInto(c, slot)
  PROVE  "shadow_mismatch" \notin o.raised
<1>1. \A r : Keep(r).raised = r
  BY OutcomeFields DEF Keep
<1>2. \A p, k, size, b, bytes : Install(p, k, size, slot, b, bytes).raised = p.raised
  BY OutcomeFields DEF Install
<1>3. CASE o = Keep({"io_error"}) \/ o = Keep(StagingError(Key(c), c.size))
  BY <1>1, <1>3 DEF StagingError
<1>4. ASSUME NEW b, o = Install(Keep({}), Key(c), c.size, slot, b, c.offset)
      PROVE  "shadow_mismatch" \notin o.raised
  BY <1>1, <1>2, <1>4
<1>5. QED
  BY <1>3, <1>4 DEF ReadInto

LEMMA EnsureSourceCounts ==
  ASSUME NEW c, NEW slot, NEW o \in EnsureSource(c, slot)
  PROVE  "shadow_mismatch" \notin o.raised
<1>1. \A r : Keep(r).raised = r
  BY OutcomeFields DEF Keep
<1>2. CASE o = Keep({}) \/ o = Keep({"missing_source"})
  BY <1>1, <1>2
<1>3. ASSUME NEW p \in ReadInto(c, slot),
             o = Raise(p, IF p.raised = {} THEN {"lazy_seed"}
                          ELSE p.raised \cup {"missing_source"})
      PROVE  "shadow_mismatch" \notin o.raised
  <2>1. "shadow_mismatch" \notin p.raised
    BY ReadIntoCounts
  <2>2. QED
    BY <1>3, <2>1, OutcomeFields DEF Raise
<1>4. QED
  BY <1>2, <1>3 DEF EnsureSource

LEMMA ExecuteCounts ==
  ASSUME NEW c, NEW o \in Execute(c)
  PROVE  "shadow_mismatch" \notin o.raised
<1>1. /\ \A r : Keep(r).raised = r
      /\ \A p, r : Raise(p, r).raised = r
  BY OutcomeFields DEF Keep, Raise
<1>2. CASE o = Keep({})
  BY <1>1, <1>2
<1>3. CASE o \in ReadInto(c, "dram")
  BY <1>3, ReadIntoCounts
<1>4. CASE o \in UNION {CopyToVram(c, p) : p \in EnsureSource(c, "dram")}
  <2>1. PICK p \in EnsureSource(c, "dram") : o \in CopyToVram(c, p)
    BY <1>4
  <2>2. "shadow_mismatch" \notin p.raised
    BY EnsureSourceCounts
  <2>3. CASE \E r \in {"size_mismatch", "io_error"} : o = Raise(p, p.raised \cup {r})
    BY <1>1, <2>2, <2>3
  <2>4. ASSUME NEW b, NEW bytes, o = Install(p, Key(c), c.size, "vram", b, bytes)
        PROVE  o.raised = p.raised
    BY <2>4, OutcomeFields DEF Install
  <2>5. QED
    BY <2>1, <2>2, <2>3, <2>4 DEF CopyToVram
<1>5. CASE o \in {CheckComputed(c, p) : p \in EnsureSource(c, "vram")}
  <2>1. PICK p \in EnsureSource(c, "vram") : o = CheckComputed(c, p)
    BY <1>5
  <2>2. "shadow_mismatch" \notin p.raised
    BY EnsureSourceCounts
  <2>3. QED
    BY <1>1, <2>1, <2>2 DEF CheckComputed
<1>6. CASE o = EvictOutcome(Key(c))
  BY <1>1, <1>6, OutcomeFields DEF EvictOutcome
<1>7. QED
  BY <1>2, <1>3, <1>4, <1>5, <1>6 DEF Execute

(* A matching command takes the shadow from its source to the next one's.  *)
LEMMA ApplyCommandShadow ==
  ASSUME IInv, CursorOK, ShadowInv, ApplyCommand
  PROVE  ShadowInv'
<1> DEFINE i == event.cursor
           c == commands[i]
<1>1. PICK n, k : n = NextMatching(i + 1) /\ k = CurrentKey
  OBVIOUS
<1>2. /\ i \in 1 .. Len(commands) /\ event # NoEvent /\ Ready /\ Ready'
      /\ commands' = commands
      /\ event' = [event EXCEPT !.cursor = n]
      /\ shadow' = SetShadow(k, c.target)
  BY <1>1 DEF ApplyCommand, fileVars, Ready
<1>3. PICK o \in Execute(c) :
        raised' = raised \cup o.raised
                    \cup IF ShadowRoom(k) /\ ShadowLocation(k, c.source) # c.source
                         THEN {"shadow_mismatch"} ELSE {}
  BY <1>1 DEF ApplyCommand
<1>4. event \in [ubatch : Ubatches, layer : DOMAIN LayerOrder, cursor : 0 .. Len(commands) + 1]
  BY <1>2 DEF IInv, TypeOK
<1>5. event'.cursor = n /\ CurrentKey' = k
  BY <1>1, <1>2, <1>4 DEF CurrentKey, RuntimeKey
<1>6. k \in RuntimeKeys /\ i \in DOMAIN commands /\ MatchesRuntime(c, k)
  BY <1>1, <1>2, CurrentKeyType, Positions DEF IInv, CursorOK
<1>7. /\ \A j : MatchedCommands(j)' = MatchedCommands(j)
      /\ \A j : Chained(MatchedCommands(j))' <=> Chained(MatchedCommands(j))
  BY <1>2 DEF MatchedCommands, Chained, Before, Arrival
<1>8. ShadowFollowsPlan'
  <2> SUFFICES ASSUME \A j \in RuntimeKeys : Chained(MatchedCommands(j))
               PROVE  "shadow_mismatch" \notin raised'
    BY <1>7 DEF ShadowFollowsPlan, RuntimeKeys, RuntimeKey
  <2>1. "shadow_mismatch" \notin raised
    BY DEF ShadowInv, ShadowFollowsPlan
  <2>2. k \in DOMAIN shadow => shadow[k] = c.source
    BY <1>1, <1>2, <1>6 DEF ShadowInv, ShadowAtSource
  <2>3. ShadowLocation(k, c.source) = c.source
    BY <2>2 DEF ShadowLocation
  <2>4. QED
    BY <1>3, <2>1, <2>3, ExecuteCounts
<1>9. ShadowAtSource'
  <2> SUFFICES ASSUME n \in DOMAIN commands, k \in DOMAIN shadow', Chained(MatchedCommands(k))
               PROVE  shadow'[k] = commands[n].source
    BY <1>2, <1>5, <1>7 DEF ShadowAtSource
  <2>1. shadow'[k] = c.target
    BY <1>2 DEF SetShadow, ShadowRoom
  <2>2. /\ n \in i + 1 .. Len(commands) + 1
        /\ MatchesRuntime(commands[n], k)
        /\ \A j \in i + 1 .. n - 1 : ~MatchesRuntime(commands[j], k)
    BY <1>1, <1>2, NextMatchingSkipsNone, Positions
  <2> DEFINE B == Before(MatchedCommands(k), n)
  <2>3. n \in MatchedCommands(k) /\ i \in B
    BY <1>2, <1>6, <2>2, Positions DEF MatchedCommands, Before
  <2>4. B \subseteq Int /\ \A y \in B : y <= i
    BY <1>2, <2>2, Positions DEF MatchedCommands, Before
  <2>5. Max(B) = i
    <3>1. PICK S, x : S = B /\ x = i
      OBVIOUS
    <3>2. S \subseteq Int /\ x \in S /\ \A y \in S : y <= x
      BY <2>3, <2>4, <3>1
    <3> HIDE DEF B, i
    <3>3. Max(S) = x
      BY <3>2, GreatestIs
    <3>4. QED
      BY <3>1, <3>3
  <2>6. commands[n].source = Arrival(B)
    BY <2>3 DEF Chained
  <2>7. QED
    BY <2>1, <2>5, <2>6 DEF Arrival
<1>10. QED
  BY <1>2, <1>8, <1>9 DEF ShadowInv, SilentUntilReady

LEMMA BeginLayerShadow ==
  ASSUME IInv, ShadowInv, BeginLayer
  PROVE  ShadowInv'
<1>1. PICK n, k : n = NextMatching(1) /\ k = CurrentKey
  OBVIOUS
<1>2. /\ event # NoEvent /\ Ready /\ Ready' /\ UNCHANGED <<commands, raised>>
      /\ event' = [event EXCEPT !.cursor = n]
      /\ n <= Len(commands) => shadow' = SetShadow(k, commands[n].source)
  BY <1>1 DEF BeginLayer, fileVars, Ready
<1>3. event \in [ubatch : Ubatches, layer : DOMAIN LayerOrder, cursor : 0 .. Len(commands) + 1]
  BY <1>2 DEF IInv, TypeOK
<1>4. event'.cursor = n /\ CurrentKey' = k
  BY <1>1, <1>2, <1>3 DEF CurrentKey, RuntimeKey
<1>5. \A j : Chained(MatchedCommands(j))' <=> Chained(MatchedCommands(j))
  BY <1>2 DEF MatchedCommands, Chained, Before, Arrival
<1>6. ShadowAtSource'
  <2> SUFFICES ASSUME n \in DOMAIN commands, k \in DOMAIN shadow'
               PROVE  shadow'[k] = commands[n].source
    BY <1>2, <1>4 DEF ShadowAtSource
  <2>1. shadow' = SetShadow(k, commands[n].source)
    BY <1>2, Positions
  <2>2. QED
    BY <2>1 DEF SetShadow, ShadowRoom
<1>7. ShadowFollowsPlan'
  BY <1>2, <1>5 DEF ShadowInv, ShadowFollowsPlan, RuntimeKeys, RuntimeKey
<1>8. QED
  BY <1>2, <1>6, <1>7 DEF ShadowInv, SilentUntilReady

LEMMA InitShadow == Init => ShadowInv
BY DEF Init, ShadowInv, SilentUntilReady, ShadowAtSource, ShadowFollowsPlan

LEMMA NextShadow == IInv /\ PInv /\ ShadowInv /\ [Next]_vars => ShadowInv'
<1> SUFFICES ASSUME IInv, PInv, ShadowInv, [Next]_vars PROVE ShadowInv'
  OBVIOUS
<1>1. ASSUME raised' = raised, commands' = commands, Ready' <=> Ready,
             \/ event' = NoEvent
             \/ event'.cursor \notin DOMAIN commands
             \/ event' = event /\ shadow' = shadow
      PROVE  ShadowInv'
  <2>1. \A j : Chained(MatchedCommands(j))' <=> Chained(MatchedCommands(j))
    BY <1>1 DEF MatchedCommands, Chained, Before, Arrival
  <2>2. ShadowFollowsPlan'
    BY <1>1, <2>1 DEF ShadowInv, ShadowFollowsPlan, RuntimeKeys, RuntimeKey
  <2>3. ShadowAtSource'
    <3>1. CASE event' = NoEvent \/ event'.cursor \notin DOMAIN commands
      BY <1>1, <3>1 DEF ShadowAtSource
    <3>2. CASE event' = event /\ shadow' = shadow
      <4>1. PICK k : k = CurrentKey
        OBVIOUS
      <4>2. CurrentKey' = k
        BY <3>2, <4>1 DEF CurrentKey, RuntimeKey
      <4>3. (event # NoEvent /\ Ready /\ event.cursor \in DOMAIN commands
               /\ k \in DOMAIN shadow /\ Chained(MatchedCommands(k)))
             => shadow[k] = commands[event.cursor].source
        BY <4>1 DEF ShadowInv, ShadowAtSource
      <4>4. MatchedCommands(CurrentKey)' = MatchedCommands(k)'
        BY <4>2 DEF MatchedCommands
      <4>5. Chained(MatchedCommands(CurrentKey))' <=> Chained(MatchedCommands(k))
        BY <1>1, <4>2 DEF MatchedCommands, Chained, Before, Arrival
      <4>6. QED
        BY <1>1, <3>2, <4>2, <4>3, <4>5 DEF ShadowAtSource
    <3>3. QED
      BY <1>1, <3>1, <3>2
  <2>4. QED
    BY <1>1, <2>2, <2>3 DEF ShadowInv, SilentUntilReady
<1>2. CASE UNCHANGED vars
  BY <1>1, <1>2 DEF vars, fileVars, blockVars, Ready
<1>3. ASSUME NEW u \in Ubatches, ApplyUbatch(u) PROVE ShadowInv'
  <2>1. UNCHANGED <<invalidSeen, commands, raised>>
    BY <1>3 DEF ApplyUbatch, blockVars
  <2>2. Ready' <=> Ready
    BY <1>3, <2>1 DEF ApplyUbatch, Ready
  <2>3. event' = NoEvent \/ event'.cursor = 0
    BY <1>3 DEF ApplyUbatch, Start
  <2>4. QED
    BY <1>1, <2>1, <2>2, <2>3, Positions
<1>4. ASSUME (\E c \in Lines : ReadLine(c)) \/ EndOfFile PROVE ShadowInv'
  <2>1. loader = "reading" /\ raised' = raised /\ (event' = event \/ event' = NoEvent)
    BY <1>4 DEF ReadLine, EndOfFile, blockVars
  <2>2. raised' = {} /\ (event' = NoEvent \/ event'.cursor = 0)
    BY <2>1 DEF PInv, CursorOK, Unused, Ready
  <2>3. 0 \notin DOMAIN commands'
    <3>1. commands \in Seq(Lines)
      BY DEF IInv, TypeOK
    <3>2. commands' \in Seq(Lines)
      BY <1>4, <3>1 DEF ReadLine, EndOfFile
    <3>3. QED
      BY <3>2
  <2>4. QED
    BY <2>2, <2>3 DEF ShadowInv, SilentUntilReady, ShadowAtSource, ShadowFollowsPlan
<1>5. ASSUME EndLayer PROVE ShadowInv'
  <2>1. /\ event # NoEvent /\ UNCHANGED <<loader, invalidSeen, commands, raised>>
        /\ \/ event' = NoEvent
           \/ event' = [event EXCEPT !.layer = event.layer + 1, !.cursor = 0]
    BY <1>5 DEF EndLayer, fileVars, blockVars
  <2>2. event \in [ubatch : Ubatches, layer : DOMAIN LayerOrder, cursor : 0 .. Len(commands) + 1]
    BY <2>1 DEF IInv, TypeOK
  <2>3. event' = NoEvent \/ event'.cursor = 0
    BY <2>1, <2>2
  <2>4. Ready' <=> Ready
    BY <2>1 DEF Ready
  <2>5. QED
    BY <1>1, <2>1, <2>3, <2>4, Positions
<1>6. ASSUME NEW layer, NEW nKV, AttentionGate(layer, nKV) PROVE ShadowInv'
  <2>1. UNCHANGED <<loader, invalidSeen, commands, raised, event, shadow>>
    BY <1>6 DEF AttentionGate, fileVars, blockVars
  <2>2. Ready' <=> Ready
    BY <2>1 DEF Ready
  <2>3. QED
    BY <1>1, <2>1, <2>2
<1>7. QED
  BY <1>2, <1>3, <1>4, <1>5, <1>6, BeginLayerShadow, ApplyCommandShadow DEF Next, PInv

(* If the commands that match each runtime event chain from location to    *)
(* location, no replay and no partly overlapping batch makes the shadow    *)
(* table disagree with a command                                           *)
(* (llama_solidattention_kv_command_bridge_apply).                         *)
THEOREM ShadowFollowsEveryPlan == Spec => []ShadowFollowsPlan
<1>1. Spec => [](IInv /\ PInv /\ ShadowInv)
  BY InitIInv, NextIInv, InitPlan, NextPlan, InitShadow, NextShadow, PTL DEF Spec
<1>2. ShadowInv => ShadowFollowsPlan
  BY DEF ShadowInv
<1>3. QED
  BY <1>1, <1>2, PTL
=============================================================================
