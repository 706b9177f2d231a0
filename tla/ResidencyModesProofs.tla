------------------------ MODULE ResidencyModesProofs ------------------------
(***************************************************************************)
(* What --no-seed-missing-sources reports, for every plan and backing      *)
(* file.  The property is not inductive: the seeding run may hold buffers  *)
(* the strict run lacks, and only because a strict VRAM buffer is always   *)
(* backed by a strict DRAM buffer do the common ones stay equal.           *)
(***************************************************************************)
EXTENDS ResidencyModes, TLAPS

CountersTyped ==
  /\ count \in [Seeding!Counters -> Nat]
  /\ strictCount \in [Seeding!Counters -> Nat]

PartOf(s, t) == \A k \in DOMAIN s : k \in DOMAIN t /\ s[k] = t[k]

TablesAgree ==
  /\ PartOf(strictDram, dram)
  /\ PartOf(strictVram, vram)
  /\ DOMAIN strictVram \subseteq DOMAIN strictDram

TablesEqual == strictCount.missing = 0 => dram = strictDram /\ vram = strictVram

CountersAgree ==
  /\ count.seeds = 0 <=> strictCount.missing = 0
  /\ strictCount.missing = 0 => count = strictCount
  /\ strictCount.missing >= count.seeds

IInv == CountersTyped /\ CountersAgree /\ TablesAgree /\ TablesEqual

(* The two instances name and classify an op alike.                        *)
LEMMA SameNames ==
  ASSUME NEW op
  PROVE  /\ Seeding!Key(op) = Key(op)
         /\ Strict!Key(op) = Key(op)
         /\ Seeding!Intent(op) = Intent(op)
         /\ Strict!Intent(op) = Intent(op)
BY DEF Seeding!Key, Strict!Key, Key, Seeding!Intent, Strict!Intent, Intent,
       Seeding!IsTransfer, Strict!IsTransfer, IsTransfer

LEMMA SameReads ==
  ASSUME NEW op, NEW c
  PROVE  /\ Seeding!ReadBacking(op) = Strict!ReadBacking(op)
         /\ Seeding!CountRead(c, op) = Strict!CountRead(c, op)
BY DEF Seeding!ReadBacking, Strict!ReadBacking, Seeding!CountRead, Strict!CountRead,
       Seeding!ShortRead, Strict!ShortRead, Seeding!Bump, Strict!Bump

LEMMA SameTables ==
  ASSUME NEW table, NEW key, NEW buffer
  PROVE  /\ Seeding!Put(table, key, buffer) = Strict!Put(table, key, buffer)
         /\ Seeding!Drop(table, key) = Strict!Drop(table, key)
BY DEF Seeding!Put, Strict!Put, Seeding!Drop, Strict!Drop

(* What adding a buffer to a table and dropping one from it do.            *)
LEMMA PutFacts ==
  ASSUME NEW table, NEW key, NEW buffer
  PROVE  /\ DOMAIN Seeding!Put(table, key, buffer) = DOMAIN table \cup {key}
         /\ Seeding!Put(table, key, buffer)[key] = buffer
         /\ \A k \in DOMAIN table \ {key} : Seeding!Put(table, key, buffer)[k] = table[k]
BY DEF Seeding!Put

LEMMA DropFacts ==
  ASSUME NEW table, NEW key
  PROVE  /\ DOMAIN Seeding!Drop(table, key) = DOMAIN table \ {key}
         /\ \A k \in DOMAIN table \ {key} : Seeding!Drop(table, key)[k] = table[k]
BY DEF Seeding!Drop

(* A part stays a part when both tables, the whole, or the part, lose or   *)
(* gain the same key.                                                      *)
LEMMA PutPart ==
  ASSUME NEW s, NEW t, PartOf(s, t), NEW k, NEW b
  PROVE  /\ PartOf(Seeding!Put(s, k, b), Seeding!Put(t, k, b))
         /\ k \notin DOMAIN s => PartOf(s, Seeding!Put(t, k, b))
         /\ k \in DOMAIN s => PartOf(s, Seeding!Put(t, k, s[k]))
<1> DEFINE sp == Seeding!Put(s, k, b)
           tp == Seeding!Put(t, k, b)
           tq == Seeding!Put(t, k, s[k])
<1>1. /\ DOMAIN sp = DOMAIN s \cup {k} /\ sp[k] = b
      /\ \A j \in DOMAIN s \ {k} : sp[j] = s[j]
  BY DEF Seeding!Put
<1>2. /\ DOMAIN tp = DOMAIN t \cup {k} /\ tp[k] = b
      /\ \A j \in DOMAIN t \ {k} : tp[j] = t[j]
  BY DEF Seeding!Put
<1>3. /\ DOMAIN tq = DOMAIN t \cup {k} /\ tq[k] = s[k]
      /\ \A j \in DOMAIN t \ {k} : tq[j] = t[j]
  BY DEF Seeding!Put
<1> HIDE DEF sp, tp, tq
<1>4. PartOf(sp, tp)
  BY <1>1, <1>2 DEF PartOf
<1>5. k \notin DOMAIN s => PartOf(s, tp)
  BY <1>2 DEF PartOf
<1>6. k \in DOMAIN s => PartOf(s, tq)
  BY <1>3 DEF PartOf
<1>7. QED
  BY <1>4, <1>5, <1>6 DEF sp, tp, tq

LEMMA DropPart ==
  ASSUME NEW s, NEW t, PartOf(s, t), NEW k
  PROVE  /\ PartOf(Seeding!Drop(s, k), Seeding!Drop(t, k))
         /\ PartOf(Seeding!Drop(s, k), t)
         /\ k \notin DOMAIN s => PartOf(s, Seeding!Drop(t, k))
<1> DEFINE sd == Seeding!Drop(s, k)
           td == Seeding!Drop(t, k)
<1>1. DOMAIN sd = DOMAIN s \ {k} /\ \A j \in DOMAIN s \ {k} : sd[j] = s[j]
  BY DEF Seeding!Drop
<1>2. DOMAIN td = DOMAIN t \ {k} /\ \A j \in DOMAIN t \ {k} : td[j] = t[j]
  BY DEF Seeding!Drop
<1> HIDE DEF sd, td
<1>3. PartOf(sd, td) /\ PartOf(sd, t) /\ (k \notin DOMAIN s => PartOf(s, td))
  BY <1>1, <1>2 DEF PartOf
<1>4. QED
  BY <1>3 DEF sd, td

(* Counting adds one to one counter.                                       *)
LEMMA BumpFacts ==
  ASSUME NEW c \in [Seeding!Counters -> Nat], NEW x \in Seeding!Counters
  PROVE  /\ Seeding!Bump(c, x) \in [Seeding!Counters -> Nat]
         /\ Seeding!Bump(c, x) = Strict!Bump(c, x)
         /\ Seeding!Bump(c, x)[x] = c[x] + 1
         /\ \A y \in Seeding!Counters \ {x} : Seeding!Bump(c, x)[y] = c[y]
BY DEF Seeding!Bump, Strict!Bump

LEMMA CountReadFacts ==
  ASSUME NEW c \in [Seeding!Counters -> Nat], NEW op
  PROVE  /\ Seeding!CountRead(c, op) \in [Seeding!Counters -> Nat]
         /\ Seeding!CountRead(c, op).seeds = c.seeds
         /\ Seeding!CountRead(c, op).missing = c.missing
<1>1. /\ "mismatches" \in Seeding!Counters
      /\ "seeds" \in Seeding!Counters
      /\ "missing" \in Seeding!Counters
  BY DEF Seeding!Counters
<1>2. QED
  BY <1>1, BumpFacts DEF Seeding!CountRead

(* Counting the same success or error in both runs, after the same reads,  *)
(* disturbs nothing the property says of the counters.                     *)
LEMMA CountedAlike ==
  ASSUME CountersTyped, CountersAgree,
         NEW x \in Seeding!Counters \ {"seeds", "missing"}, NEW op,
         \/ count' = Seeding!Bump(count, x) /\ strictCount' = Strict!Bump(strictCount, x)
         \/ /\ count' = Seeding!Bump(Seeding!CountRead(count, op), x)
            /\ strictCount' = Strict!Bump(Strict!CountRead(strictCount, op), x)
  PROVE  CountersTyped' /\ CountersAgree'
<1>1. "seeds" \in Seeding!Counters /\ "missing" \in Seeding!Counters
  BY DEF Seeding!Counters
<1>2. CASE count' = Seeding!Bump(count, x) /\ strictCount' = Strict!Bump(strictCount, x)
  <2>1. strictCount' = Seeding!Bump(strictCount, x)
    BY <1>2, BumpFacts DEF CountersTyped
  <2>2. CountersTyped'
    BY <1>2, <2>1, BumpFacts DEF CountersTyped
  <2>3. count'.seeds = count.seeds /\ strictCount'.missing = strictCount.missing
    BY <1>1, <1>2, <2>1, BumpFacts DEF CountersTyped
  <2>4. QED
    BY <1>2, <2>1, <2>2, <2>3 DEF CountersAgree
<1>3. CASE /\ count' = Seeding!Bump(Seeding!CountRead(count, op), x)
           /\ strictCount' = Strict!Bump(Strict!CountRead(strictCount, op), x)
  <2> DEFINE c == Seeding!CountRead(count, op)
             d == Seeding!CountRead(strictCount, op)
  <2>1. c \in [Seeding!Counters -> Nat] /\ d \in [Seeding!Counters -> Nat]
    BY CountReadFacts DEF CountersTyped
  <2>2. strictCount' = Seeding!Bump(d, x)
    BY <1>3, <2>1, SameReads, BumpFacts
  <2>3. c.seeds = count.seeds /\ d.missing = strictCount.missing
    BY CountReadFacts DEF CountersTyped
  <2>4. count = strictCount => c = d
    OBVIOUS
  <2>5. count' = Seeding!Bump(c, x)
    BY <1>3
  <2> HIDE DEF c, d
  <2>6. CountersTyped'
    BY <2>1, <2>2, <2>5, BumpFacts DEF CountersTyped
  <2>7. count'.seeds = count.seeds /\ strictCount'.missing = strictCount.missing
    BY <1>1, <2>1, <2>2, <2>3, <2>5, BumpFacts
  <2>8. QED
    BY <2>2, <2>4, <2>5, <2>6, <2>7 DEF CountersAgree
<1>4. QED
  BY <1>2, <1>3

(* A source missing in both runs: one makes it up and goes on to count its *)
(* op, the other reports it.                                               *)
LEMMA MissingCounted ==
  ASSUME CountersTyped, CountersAgree,
         NEW x \in Seeding!Counters \ {"seeds", "missing"}, NEW op,
         count' = Seeding!Bump(Seeding!Bump(Seeding!CountRead(count, op), "seeds"), x),
         strictCount' = Strict!Bump(strictCount, "missing")
  PROVE  /\ CountersTyped' /\ CountersAgree'
         /\ strictCount'.missing # 0
<1>1. "seeds" \in Seeding!Counters /\ "missing" \in Seeding!Counters
  BY DEF Seeding!Counters
<1> DEFINE c == Seeding!CountRead(count, op)
           d == Seeding!Bump(c, "seeds")
<1>2. c \in [Seeding!Counters -> Nat] /\ c.seeds = count.seeds
  BY CountReadFacts DEF CountersTyped
<1>3. count' = Seeding!Bump(d, x)
  OBVIOUS
<1> HIDE DEF c
<1>4. d \in [Seeding!Counters -> Nat] /\ d.seeds = count.seeds + 1
  BY <1>1, <1>2, BumpFacts
<1> HIDE DEF d
<1>5. count' \in [Seeding!Counters -> Nat] /\ count'.seeds = count.seeds + 1
  BY <1>1, <1>3, <1>4, BumpFacts
<1>6. /\ strictCount' \in [Seeding!Counters -> Nat]
      /\ strictCount'.missing = strictCount.missing + 1
  BY <1>1, BumpFacts DEF CountersTyped
<1>7. count.seeds \in Nat /\ strictCount.missing \in Nat
  BY <1>1 DEF CountersTyped
<1>8. QED
  BY <1>5, <1>6, <1>7 DEF CountersTyped, CountersAgree

(* A source missing in the strict run only: the error count grows, and the *)
(* seeding run, which must have made something up before, just goes on.    *)
LEMMA MissingInStrictOnly ==
  ASSUME CountersTyped, CountersAgree, strictCount.missing # 0,
         NEW x \in Seeding!Counters \ {"seeds", "missing"},
         count' = Seeding!Bump(count, x),
         strictCount' = Strict!Bump(strictCount, "missing")
  PROVE  /\ CountersTyped' /\ CountersAgree'
         /\ strictCount'.missing # 0
<1>1. "seeds" \in Seeding!Counters /\ "missing" \in Seeding!Counters
  BY DEF Seeding!Counters
<1>2. count' \in [Seeding!Counters -> Nat] /\ count'.seeds = count.seeds
  BY <1>1, BumpFacts DEF CountersTyped
<1>3. /\ strictCount' \in [Seeding!Counters -> Nat]
      /\ strictCount'.missing = strictCount.missing + 1
  BY <1>1, BumpFacts DEF CountersTyped
<1>4. count.seeds \in Nat /\ strictCount.missing \in Nat
  BY <1>1 DEF CountersTyped
<1>5. QED
  BY <1>2, <1>3, <1>4 DEF CountersTyped, CountersAgree

LEMMA Counts ==
  ASSUME NEW x \in {"reads", "copies", "computes", "evictions", "mismatches", "unsupported"}
  PROVE  x \in Seeding!Counters \ {"seeds", "missing"}
BY DEF Seeding!Counters

(* A read replaces the block's DRAM buffer alike in both runs.             *)
LEMMA ReadStep ==
  ASSUME IInv, NEW op, Seeding!SsdToDram(op), Strict!SsdToDram(op)
  PROVE  IInv'
<1> DEFINE k == Key(op)
           b == Seeding!ReadBacking(op)
<1>1. dram' = Seeding!Put(dram, k, b) /\ vram' = vram
  BY SameNames DEF Seeding!SsdToDram
<1>2. strictDram' = Seeding!Put(strictDram, k, b) /\ strictVram' = strictVram
  BY SameNames, SameReads, SameTables DEF Strict!SsdToDram
<1>3. CountersTyped' /\ CountersAgree'
  BY Counts, CountedAlike DEF IInv, Seeding!SsdToDram, Strict!SsdToDram
<1>4. strictCount'.missing = 0 => strictCount.missing = 0
  BY Counts, BumpFacts, CountReadFacts, SameReads DEF IInv, CountersTyped, Strict!SsdToDram, Seeding!Counters
<1> HIDE DEF k, b
<1>5. TablesAgree'
  <2>1. PartOf(strictDram', dram')
    BY <1>1, <1>2, PutPart DEF IInv, TablesAgree
  <2>2. PartOf(strictVram', vram')
    BY <1>1, <1>2 DEF IInv, TablesAgree
  <2>3. DOMAIN strictVram' \subseteq DOMAIN strictDram'
    BY <1>2 DEF IInv, TablesAgree, Seeding!Put
  <2>4. QED
    BY <2>1, <2>2, <2>3 DEF TablesAgree
<1>6. TablesEqual'
  BY <1>1, <1>2, <1>4 DEF IInv, TablesEqual
<1>7. QED
  BY <1>3, <1>5, <1>6 DEF IInv

LEMMA UnsupportedStep ==
  ASSUME IInv, NEW op, Seeding!Unsupported(op), Strict!Unsupported(op)
  PROVE  IInv'
<1>1. UNCHANGED <<dram, vram, strictDram, strictVram>>
  BY DEF Seeding!Unsupported, Strict!Unsupported
<1>2. CountersTyped' /\ CountersAgree'
  BY Counts, CountedAlike DEF IInv, Seeding!Unsupported, Strict!Unsupported
<1>3. strictCount'.missing = 0 => strictCount.missing = 0
  BY Counts, BumpFacts DEF IInv, CountersTyped, Strict!Unsupported, Seeding!Counters
<1>4. QED
  BY <1>1, <1>2, <1>3 DEF IInv, TablesAgree, PartOf, TablesEqual

(* A copy.  When only the strict run lacks the source, it has no VRAM      *)
(* buffer of the block either, so the copy of the seeding run changes      *)
(* nothing the two have in common.                                         *)
LEMMA CopyStep ==
  ASSUME IInv, NEW op, Seeding!DramToVram(op), Strict!DramToVram(op)
  PROVE  IInv'
<1> DEFINE k == Key(op)
           source == Seeding!SourceBuffer(dram, op)
           fits == source.size = op.size
           end == IF fits THEN "copies" ELSE "mismatches"
<1>1. /\ dram' = Seeding!Put(dram, k, source)
      /\ vram' = IF fits THEN Seeding!Put(vram, k, source) ELSE vram
      /\ count' = Seeding!Bump(Seeding!AfterSeeding(dram, op), end)
  BY SameNames DEF Seeding!DramToVram, Seeding!SkipMissing
<1>2. end \in Seeding!Counters \ {"seeds", "missing"}
  BY DEF Seeding!Counters
<1>3. TablesAgree /\ CountersTyped /\ CountersAgree /\ TablesEqual
  BY DEF IInv
<1>4. CASE k \in DOMAIN strictDram
  <2>1. k \in DOMAIN dram /\ strictDram[k] = dram[k]
    BY <1>3, <1>4 DEF TablesAgree, PartOf
  <2>2. source = dram[k] /\ Strict!SourceBuffer(strictDram, op) = dram[k]
    BY <1>4, <2>1, SameNames DEF Seeding!SourceBuffer, Seeding!Found, Strict!SourceBuffer, Strict!Found
  <2>3. /\ strictDram' = Seeding!Put(strictDram, k, source)
        /\ strictVram' = IF fits THEN Seeding!Put(strictVram, k, source) ELSE strictVram
        /\ strictCount' = Strict!Bump(strictCount, end)
    BY <1>4, <2>2, SameNames, SameTables
    DEF Strict!DramToVram, Strict!SkipMissing, Strict!Found, Strict!AfterSeeding
  <2>4. count' = Seeding!Bump(count, end)
    BY <1>1, <2>1, SameNames DEF Seeding!AfterSeeding, Seeding!Found
  <2> HIDE DEF k, source, fits, end
  <2>5. CountersTyped' /\ CountersAgree'
    BY <1>2, <1>3, <2>3, <2>4, CountedAlike
  <2>6. strictCount'.missing = 0 => strictCount.missing = 0
    <3>1. "missing" \in Seeding!Counters \ {end}
      BY <1>2 DEF Seeding!Counters
    <3>2. strictCount' = Seeding!Bump(strictCount, end)
      BY <1>2, <1>3, <2>3, BumpFacts DEF CountersTyped
    <3>3. QED
      BY <1>2, <1>3, <3>1, <3>2, BumpFacts DEF CountersTyped
  <2>7. TablesEqual'
    BY <1>1, <1>3, <2>3, <2>6 DEF TablesEqual
  <2>8. PartOf(strictDram', dram')
    BY <1>1, <1>3, <2>3, PutPart DEF TablesAgree
  <2>9. PartOf(strictVram', vram')
    BY <1>1, <1>3, <2>3, PutPart DEF TablesAgree
  <2>10. DOMAIN strictVram' \subseteq DOMAIN strictDram'
    BY <1>3, <2>3 DEF TablesAgree, Seeding!Put
  <2>11. QED
    BY <2>5, <2>7, <2>8, <2>9, <2>10 DEF IInv, TablesAgree
<1>5. CASE k \notin DOMAIN strictDram
  <2>1. /\ strictDram' = strictDram /\ strictVram' = strictVram
        /\ strictCount' = Strict!Bump(strictCount, "missing")
    BY <1>5, SameNames DEF Strict!DramToVram, Strict!SkipMissing, Strict!HasSource, Strict!Found
  <2>2. k \notin DOMAIN strictVram
    BY <1>3, <1>5 DEF TablesAgree
  <2>3. /\ CountersTyped' /\ CountersAgree'
        /\ strictCount'.missing # 0
    <3>1. CASE k \in DOMAIN dram
      <4>1. count' = Seeding!Bump(count, end)
        BY <1>1, <3>1, SameNames DEF Seeding!AfterSeeding, Seeding!Found
      <4>2. strictCount.missing # 0
        BY <1>3, <1>5, <3>1 DEF TablesEqual
      <4> HIDE DEF k, end
      <4>3. QED
        BY <1>2, <1>3, <2>1, <4>1, <4>2, MissingInStrictOnly
    <3>2. CASE k \notin DOMAIN dram
      <4>1. count' = Seeding!Bump(Seeding!Bump(Seeding!CountRead(count, op), "seeds"), end)
        BY <1>1, <3>2, SameNames DEF Seeding!AfterSeeding, Seeding!Found
      <4> HIDE DEF k, end
      <4>2. QED
        BY <1>2, <1>3, <2>1, <4>1, MissingCounted
    <3>3. QED
      BY <3>1, <3>2
  <2> HIDE DEF k, source, fits, end
  <2>4. PartOf(strictDram', dram') /\ PartOf(strictVram', vram')
    BY <1>1, <1>3, <1>5, <2>1, <2>2, PutPart DEF TablesAgree
  <2>5. QED
    BY <1>3, <2>1, <2>3, <2>4 DEF IInv, TablesAgree, TablesEqual
<1>6. QED
  BY <1>4, <1>5

(* What stays true when the strict run skips an op for want of a source    *)
(* and the seeding run does it, having made the source up or not.          *)
LEMMA SkippedByStrict ==
  ASSUME IInv, NEW op,
         NEW x \in Seeding!Counters \ {"seeds", "missing"},
         NEW found \in BOOLEAN,
         count' = IF found THEN Seeding!Bump(count, x)
                  ELSE Seeding!Bump(Seeding!Bump(Seeding!CountRead(count, op), "seeds"), x),
         found => strictCount.missing # 0,
         strictCount' = Strict!Bump(strictCount, "missing")
  PROVE  CountersTyped' /\ CountersAgree' /\ strictCount'.missing # 0
<1>1. CASE found
  BY <1>1, MissingInStrictOnly DEF IInv
<1>2. CASE ~found
  BY <1>2, MissingCounted DEF IInv
<1>3. QED
  BY <1>1, <1>2

(* A compute leaves DRAM alone, and VRAM too unless it makes its block up. *)
LEMMA ComputeStep ==
  ASSUME IInv, NEW op, Seeding!Compute(op), Strict!Compute(op)
  PROVE  IInv'
<1> DEFINE k == Key(op)
           source == Seeding!SourceBuffer(vram, op)
           end == IF source.size = op.size THEN "computes" ELSE "mismatches"
<1>1. /\ dram' = dram
      /\ vram' = Seeding!Put(vram, k, source)
      /\ count' = Seeding!Bump(Seeding!AfterSeeding(vram, op), end)
  BY SameNames DEF Seeding!Compute, Seeding!SkipMissing
<1>2. end \in Seeding!Counters \ {"seeds", "missing"}
  BY DEF Seeding!Counters
<1>3. TablesAgree /\ CountersTyped /\ CountersAgree /\ TablesEqual
  BY DEF IInv
<1>4. CASE k \in DOMAIN strictVram
  <2>1. k \in DOMAIN vram /\ strictVram[k] = vram[k]
    BY <1>3, <1>4 DEF TablesAgree, PartOf
  <2>2. source = vram[k] /\ Strict!SourceBuffer(strictVram, op) = vram[k]
    BY <1>4, <2>1, SameNames DEF Seeding!SourceBuffer, Seeding!Found, Strict!SourceBuffer, Strict!Found
  <2>3. /\ strictDram' = strictDram
        /\ strictVram' = Seeding!Put(strictVram, k, source)
        /\ strictCount' = Strict!Bump(strictCount, end)
    BY <1>4, <2>2, SameNames, SameTables
    DEF Strict!Compute, Strict!SkipMissing, Strict!Found, Strict!AfterSeeding
  <2>4. count' = Seeding!Bump(count, end)
    BY <1>1, <2>1, SameNames DEF Seeding!AfterSeeding, Seeding!Found
  <2> HIDE DEF k, source, end
  <2>5. CountersTyped' /\ CountersAgree'
    BY <1>2, <1>3, <2>3, <2>4, CountedAlike
  <2>6. strictCount'.missing = 0 => strictCount.missing = 0
    <3>1. "missing" \in Seeding!Counters \ {end}
      BY <1>2 DEF Seeding!Counters
    <3>2. strictCount' = Seeding!Bump(strictCount, end)
      BY <1>2, <1>3, <2>3, BumpFacts DEF CountersTyped
    <3>3. QED
      BY <1>2, <1>3, <3>1, <3>2, BumpFacts DEF CountersTyped
  <2>7. TablesEqual'
    BY <1>1, <1>3, <2>3, <2>6 DEF TablesEqual
  <2>8. PartOf(strictVram', vram') /\ PartOf(strictDram', dram')
    BY <1>1, <1>3, <2>3, PutPart DEF TablesAgree
  <2>9. DOMAIN strictVram' \subseteq DOMAIN strictDram'
    BY <1>3, <1>4, <2>3 DEF TablesAgree, Seeding!Put
  <2>10. QED
    BY <2>5, <2>7, <2>8, <2>9 DEF IInv, TablesAgree
<1>5. CASE k \notin DOMAIN strictVram
  <2>1. /\ strictDram' = strictDram /\ strictVram' = strictVram
        /\ strictCount' = Strict!Bump(strictCount, "missing")
    BY <1>5, SameNames DEF Strict!Compute, Strict!SkipMissing, Strict!HasSource, Strict!Found
  <2>2. count' = IF k \in DOMAIN vram THEN Seeding!Bump(count, end)
                 ELSE Seeding!Bump(Seeding!Bump(Seeding!CountRead(count, op), "seeds"), end)
    BY <1>1, SameNames DEF Seeding!AfterSeeding, Seeding!Found
  <2>3. k \in DOMAIN vram => strictCount.missing # 0
    BY <1>3, <1>5 DEF TablesEqual
  <2> HIDE DEF k, source, end
  <2>4. CountersTyped' /\ CountersAgree' /\ strictCount'.missing # 0
    BY <1>2, <2>1, <2>2, <2>3, SkippedByStrict
  <2>5. PartOf(strictDram', dram') /\ PartOf(strictVram', vram')
    BY <1>1, <1>3, <1>5, <2>1, PutPart DEF TablesAgree
  <2>6. QED
    BY <1>3, <2>1, <2>4, <2>5 DEF IInv, TablesAgree, TablesEqual
<1>6. QED
  BY <1>4, <1>5

(* An eviction.  The seeding run may free a VRAM buffer where the strict   *)
(* run has only a DRAM buffer to free, never the other way round.          *)
LEMMA EvictStep ==
  ASSUME IInv, NEW op, Seeding!EvictToSsd(op), Strict!EvictToSsd(op)
  PROVE  IInv'
<1> DEFINE k == Key(op)
<1>1. TablesAgree /\ CountersTyped /\ CountersAgree /\ TablesEqual
  BY DEF IInv
<1>2. "evictions" \in Seeding!Counters \ {"seeds", "missing"}
  BY DEF Seeding!Counters
<1>3. /\ k \in DOMAIN strictVram => k \in DOMAIN vram
      /\ k \in DOMAIN strictDram => k \in DOMAIN dram
      /\ k \in DOMAIN strictVram => k \in DOMAIN strictDram
  BY <1>1 DEF TablesAgree, PartOf
<1>4. CASE k \in DOMAIN vram
  <2>1. /\ vram' = Seeding!Drop(vram, k) /\ dram' = dram
        /\ count' = Seeding!Bump(count, "evictions")
    BY <1>4, SameNames DEF Seeding!EvictToSsd, Seeding!Found
  <2>2. CASE k \in DOMAIN strictVram
    <3>1. /\ strictVram' = Seeding!Drop(strictVram, k) /\ strictDram' = strictDram
          /\ strictCount' = Strict!Bump(strictCount, "evictions")
      BY <2>2, SameNames, SameTables DEF Strict!EvictToSsd, Strict!Found
    <3> HIDE DEF k
    <3>2. CountersTyped' /\ CountersAgree'
      BY <1>1, <1>2, <2>1, <3>1, CountedAlike
    <3>3. strictCount'.missing = 0 => strictCount.missing = 0
      BY <1>1, <1>2, <3>1, BumpFacts DEF CountersTyped, Seeding!Counters
    <3>4. TablesEqual'
      BY <1>1, <2>1, <3>1, <3>3 DEF TablesEqual
    <3>5. PartOf(strictVram', vram') /\ PartOf(strictDram', dram')
      BY <1>1, <2>1, <3>1, DropPart DEF TablesAgree
    <3>6. DOMAIN strictVram' \subseteq DOMAIN strictDram'
      BY <1>1, <3>1 DEF TablesAgree, Seeding!Drop
    <3>7. QED
      BY <3>2, <3>4, <3>5, <3>6 DEF IInv, TablesAgree
  <2>3. CASE k \notin DOMAIN strictVram
    <3>1. strictCount.missing # 0
      BY <1>1, <1>4, <2>3 DEF TablesEqual
    <3>2. CASE k \in DOMAIN strictDram
      <4>1. /\ strictDram' = Seeding!Drop(strictDram, k) /\ strictVram' = strictVram
            /\ strictCount' = Strict!Bump(strictCount, "evictions")
        BY <2>3, <3>2, SameNames, SameTables
        DEF Strict!EvictToSsd, Strict!Found, Strict!SkipMissing, Strict!AfterSeeding
      <4> HIDE DEF k
      <4>2. CountersTyped' /\ CountersAgree'
        BY <1>1, <1>2, <2>1, <4>1, CountedAlike
      <4>3. strictCount'.missing # 0
        <5>1. "missing" \in Seeding!Counters \ {"evictions"}
          BY DEF Seeding!Counters
        <5>2. strictCount' = Seeding!Bump(strictCount, "evictions")
          BY <1>1, <1>2, <4>1 DEF Seeding!Bump, Strict!Bump
        <5>3. QED
          BY <1>1, <1>2, <3>1, <5>1, <5>2, BumpFacts DEF CountersTyped
      <4>4. PartOf(strictVram', vram') /\ PartOf(strictDram', dram')
        BY <1>1, <2>1, <2>3, <4>1, DropPart DEF TablesAgree
      <4>5. DOMAIN strictVram' \subseteq DOMAIN strictDram'
        BY <1>1, <2>3, <4>1 DEF TablesAgree, Seeding!Drop
      <4>6. QED
        BY <4>2, <4>3, <4>4, <4>5 DEF IInv, TablesAgree, TablesEqual
    <3>3. CASE k \notin DOMAIN strictDram
      <4>1. /\ strictDram' = strictDram /\ strictVram' = strictVram
            /\ strictCount' = Strict!Bump(strictCount, "missing")
        BY <2>3, <3>3, SameNames DEF Strict!EvictToSsd, Strict!Found, Strict!SkipMissing, Strict!HasSource
      <4> HIDE DEF k
      <4>2. CountersTyped' /\ CountersAgree' /\ strictCount'.missing # 0
        BY <1>1, <1>2, <2>1, <3>1, <4>1, MissingInStrictOnly
      <4>3. PartOf(strictVram', vram') /\ PartOf(strictDram', dram')
        BY <1>1, <2>1, <2>3, <4>1, DropPart DEF TablesAgree
      <4>4. QED
        BY <1>1, <4>1, <4>2, <4>3 DEF IInv, TablesAgree, TablesEqual
    <3>4. QED
      BY <3>2, <3>3
  <2>4. QED
    BY <2>2, <2>3
<1>5. CASE k \notin DOMAIN vram
  <2>1. k \notin DOMAIN strictVram
    BY <1>3, <1>5
  <2>2. /\ vram' = vram /\ dram' = Seeding!Drop(dram, k)
        /\ count' = Seeding!Bump(Seeding!AfterSeeding(dram, op), "evictions")
    BY <1>5, SameNames DEF Seeding!EvictToSsd, Seeding!Found, Seeding!SkipMissing
  <2>3. CASE k \in DOMAIN strictDram
    <3>1. /\ strictDram' = Seeding!Drop(strictDram, k) /\ strictVram' = strictVram
          /\ strictCount' = Strict!Bump(strictCount, "evictions")
      BY <2>1, <2>3, SameNames, SameTables
      DEF Strict!EvictToSsd, Strict!Found, Strict!SkipMissing, Strict!AfterSeeding
    <3>2. count' = Seeding!Bump(count, "evictions")
      BY <1>3, <2>2, <2>3, SameNames DEF Seeding!AfterSeeding, Seeding!Found
    <3> HIDE DEF k
    <3>3. CountersTyped' /\ CountersAgree'
      BY <1>1, <1>2, <3>1, <3>2, CountedAlike
    <3>4. strictCount'.missing = 0 => strictCount.missing = 0
      BY <1>1, <1>2, <3>1, BumpFacts DEF CountersTyped, Seeding!Counters
    <3>5. TablesEqual'
      BY <1>1, <2>2, <3>1, <3>4 DEF TablesEqual
    <3>6. PartOf(strictVram', vram') /\ PartOf(strictDram', dram')
      BY <1>1, <2>2, <3>1, DropPart DEF TablesAgree
    <3>7. DOMAIN strictVram' \subseteq DOMAIN strictDram'
      BY <1>1, <2>1, <3>1 DEF TablesAgree, Seeding!Drop
    <3>8. QED
      BY <3>3, <3>5, <3>6, <3>7 DEF IInv, TablesAgree
  <2>4. CASE k \notin DOMAIN strictDram
    <3>1. /\ strictDram' = strictDram /\ strictVram' = strictVram
          /\ strictCount' = Strict!Bump(strictCount, "missing")
      BY <2>1, <2>4, SameNames DEF Strict!EvictToSsd, Strict!Found, Strict!SkipMissing, Strict!HasSource
    <3>2. count' = IF k \in DOMAIN dram THEN Seeding!Bump(count, "evictions")
                   ELSE Seeding!Bump(Seeding!Bump(Seeding!CountRead(count, op), "seeds"), "evictions")
      BY <2>2, SameNames DEF Seeding!AfterSeeding, Seeding!Found
    <3>3. k \in DOMAIN dram => strictCount.missing # 0
      BY <1>1, <2>4 DEF TablesEqual
    <3> HIDE DEF k
    <3>4. CountersTyped' /\ CountersAgree' /\ strictCount'.missing # 0
      BY <1>2, <3>1, <3>2, <3>3, SkippedByStrict
    <3>5. PartOf(strictVram', vram') /\ PartOf(strictDram', dram')
      BY <1>1, <2>2, <2>4, <3>1, DropPart DEF TablesAgree
    <3>6. QED
      BY <1>1, <3>1, <3>4, <3>5 DEF IInv, TablesAgree, TablesEqual
  <2>5. QED
    BY <2>3, <2>4
<1>6. QED
  BY <1>4, <1>5

LEMMA InitIInv == Init => IInv
<1> SUFFICES ASSUME Init PROVE IInv
  OBVIOUS
<1>1. /\ DOMAIN dram = {} /\ DOMAIN vram = {}
      /\ strictDram = dram /\ strictVram = vram
  BY DEF Init, Seeding!Init, Strict!Init, Seeding!Empty, Strict!Empty
<1>2. count = [c \in Seeding!Counters |-> 0] /\ strictCount = count
  BY DEF Init, Seeding!Init, Strict!Init, Seeding!Counters, Strict!Counters
<1>3. count \in [Seeding!Counters -> Nat] /\ count.seeds = 0 /\ count.missing = 0
  BY <1>2 DEF Seeding!Counters
<1>4. QED
  BY <1>1, <1>2, <1>3 DEF IInv, CountersTyped, CountersAgree, TablesAgree, PartOf, TablesEqual

LEMMA NextIInv == IInv /\ [Next]_vars => IInv'
<1> SUFFICES ASSUME IInv, [Next]_vars PROVE IInv'
  OBVIOUS
<1>1. CASE UNCHANGED vars
  BY <1>1 DEF vars, IInv, CountersTyped, CountersAgree, TablesAgree, PartOf, TablesEqual
<1>2. CASE Next
  <2>1. PICK op \in PlanOps : Seeding!ExecuteOp(op) /\ Strict!ExecuteOp(op)
    BY <1>2 DEF Next, ExecuteOp
  <2>2. CASE Intent(op) = "ssd_read"
    BY <2>1, <2>2, SameNames, ReadStep
    DEF Seeding!ExecuteOp, Strict!ExecuteOp, Seeding!DramToVram, Strict!DramToVram,
        Seeding!Compute, Strict!Compute, Seeding!EvictToSsd, Strict!EvictToSsd,
        Seeding!Unsupported, Strict!Unsupported
  <2>3. CASE Intent(op) = "dram_to_vram"
    BY <2>1, <2>3, SameNames, CopyStep
    DEF Seeding!ExecuteOp, Strict!ExecuteOp, Seeding!SsdToDram, Strict!SsdToDram,
        Seeding!Compute, Strict!Compute, Seeding!EvictToSsd, Strict!EvictToSsd,
        Seeding!Unsupported, Strict!Unsupported
  <2>4. CASE Intent(op) = "compute"
    BY <2>1, <2>4, SameNames, ComputeStep
    DEF Seeding!ExecuteOp, Strict!ExecuteOp, Seeding!SsdToDram, Strict!SsdToDram,
        Seeding!DramToVram, Strict!DramToVram, Seeding!EvictToSsd, Strict!EvictToSsd,
        Seeding!Unsupported, Strict!Unsupported
  <2>5. CASE Intent(op) = "ssd_write"
    BY <2>1, <2>5, SameNames, EvictStep
    DEF Seeding!ExecuteOp, Strict!ExecuteOp, Seeding!SsdToDram, Strict!SsdToDram,
        Seeding!DramToVram, Strict!DramToVram, Seeding!Compute, Strict!Compute,
        Seeding!Unsupported, Strict!Unsupported
  <2>6. CASE Intent(op) = "metadata"
    BY <2>1, <2>6, SameNames, UnsupportedStep
    DEF Seeding!ExecuteOp, Strict!ExecuteOp, Seeding!SsdToDram, Strict!SsdToDram,
        Seeding!DramToVram, Strict!DramToVram, Seeding!Compute, Strict!Compute,
        Seeding!EvictToSsd, Strict!EvictToSsd
  <2>7. Intent(op) \in {"ssd_read", "dram_to_vram", "compute", "ssd_write", "metadata"}
    BY DEF Intent
  <2>8. QED
    BY <2>2, <2>3, <2>4, <2>5, <2>6, <2>7
<1>3. QED
  BY <1>1, <1>2

(* Whatever the plan and the backing file, a run without seeding differs   *)
(* from the default run exactly from the first op whose source the default *)
(* run makes up, and it counts an error for every such op                  *)
(* (RuntimeResidencyExecutor, seed_missing_sources).                       *)
THEOREM StrictReports == Spec => []StrictReportsWhatSeedingMakesUp
<1>1. IInv => StrictReportsWhatSeedingMakesUp
  BY DEF IInv, CountersAgree, TablesAgree, PartOf, TablesEqual, StrictReportsWhatSeedingMakesUp
<1>2. QED
  BY InitIInv, NextIInv, <1>1, PTL DEF Spec

(***************************************************************************)
(* A run without errors.  What one op does to the buffers and counters of  *)
(* either executor is one of two things: it counts an error, or it counts  *)
(* one success and adds no buffer that was padded.                         *)
(***************************************************************************)
Errors(c) == c.missing + c.mismatches + c.unsupported

Whole(table) == \A k \in DOMAIN table : table[k].whole

CleanSoFar(d, v, c) ==
  Errors(c) = 0 => Successes(c) = Len(history) /\ Whole(d) /\ Whole(v)

CleanStep(d, v, c, dNext, vNext, cNext) ==
  \/ Errors(cNext) # 0
  \/ /\ Errors(c) = 0
     /\ Successes(cNext) = Successes(c) + 1
     /\ Whole(d) /\ Whole(v) => Whole(dNext) /\ Whole(vNext)

CleanInv ==
  /\ history \in Seq(PlanOps)
  /\ CleanSoFar(dram, vram, count)
  /\ CleanSoFar(strictDram, strictVram, strictCount)

SuccessNames == {"reads", "copies", "computes", "evictions"}

ErrorNames == {"missing", "mismatches", "unsupported"}

LEMMA CountSuccess ==
  ASSUME NEW c \in [Seeding!Counters -> Nat], NEW x \in SuccessNames
  PROVE  /\ Seeding!Bump(c, x) \in [Seeding!Counters -> Nat]
         /\ Errors(Seeding!Bump(c, x)) = Errors(c)
         /\ Successes(Seeding!Bump(c, x)) = Successes(c) + 1
BY DEF Seeding!Bump, Seeding!Counters, SuccessNames, Errors, Successes

LEMMA CountError ==
  ASSUME NEW c \in [Seeding!Counters -> Nat], NEW x \in ErrorNames
  PROVE  /\ Seeding!Bump(c, x) \in [Seeding!Counters -> Nat]
         /\ Errors(Seeding!Bump(c, x)) = Errors(c) + 1
         /\ Successes(Seeding!Bump(c, x)) = Successes(c)
BY DEF Seeding!Bump, Seeding!Counters, ErrorNames, Errors, Successes

LEMMA CountSeed ==
  ASSUME NEW c \in [Seeding!Counters -> Nat]
  PROVE  /\ Seeding!Bump(c, "seeds") \in [Seeding!Counters -> Nat]
         /\ Errors(Seeding!Bump(c, "seeds")) = Errors(c)
         /\ Successes(Seeding!Bump(c, "seeds")) = Successes(c)
BY DEF Seeding!Bump, Seeding!Counters, Errors, Successes

LEMMA ErrorsCounted ==
  ASSUME NEW c \in [Seeding!Counters -> Nat]
  PROVE  Errors(c) \in Nat /\ Successes(c) \in Nat
BY DEF Seeding!Counters, Errors, Successes

(* A padded read is an error; a whole read counts nothing yet.             *)
LEMMA CleanRead ==
  ASSUME NEW c \in [Seeding!Counters -> Nat], NEW op
  PROVE  /\ Seeding!CountRead(c, op) \in [Seeding!Counters -> Nat]
         /\ Errors(Seeding!CountRead(c, op)) \in Nat
         /\ Errors(c) \in Nat
         /\ \/ Errors(Seeding!CountRead(c, op)) = Errors(c) + 1
            \/ Seeding!CountRead(c, op) = c /\ Seeding!ReadBacking(op).whole
<1>1. CASE Seeding!ShortRead(op)
  <2>1. "mismatches" \in ErrorNames
    BY DEF ErrorNames
  <2>2. QED
    BY <1>1, <2>1, CountError, ErrorsCounted DEF Seeding!CountRead
<1>2. CASE ~Seeding!ShortRead(op)
  BY <1>2, ErrorsCounted DEF Seeding!CountRead, Seeding!ReadBacking
<1>3. QED
  BY <1>1, <1>2

(* So it is with a source that is made up when it is missing.              *)
LEMMA CleanSource ==
  ASSUME NEW c \in [Seeding!Counters -> Nat], NEW table, NEW op, NEW a, NEW b,
         a = IF Key(op) \in DOMAIN table THEN c
             ELSE Seeding!Bump(Seeding!CountRead(c, op), "seeds"),
         b = IF Key(op) \in DOMAIN table THEN table[Key(op)] ELSE Seeding!ReadBacking(op)
  PROVE  /\ a \in [Seeding!Counters -> Nat]
         /\ Errors(a) \in Nat
         /\ \/ Errors(a) # 0
            \/ /\ Errors(a) = 0 /\ Errors(c) = 0
               /\ Successes(a) = Successes(c)
               /\ Whole(table) => b.whole
<1>1. CASE Key(op) \in DOMAIN table
  BY <1>1, ErrorsCounted DEF Whole
<1>2. CASE Key(op) \notin DOMAIN table
  <2> DEFINE r == Seeding!CountRead(c, op)
  <2>1. /\ r \in [Seeding!Counters -> Nat] /\ Errors(r) \in Nat /\ Errors(c) \in Nat
        /\ \/ Errors(r) = Errors(c) + 1
           \/ r = c /\ Seeding!ReadBacking(op).whole
    BY CleanRead
  <2>2. a = Seeding!Bump(r, "seeds") /\ b = Seeding!ReadBacking(op)
    BY <1>2
  <2> HIDE DEF r
  <2>3. a \in [Seeding!Counters -> Nat] /\ Errors(a) = Errors(r) /\ Successes(a) = Successes(r)
    BY <2>1, <2>2, CountSeed
  <2>4. QED
    BY <2>1, <2>2, <2>3
<1>3. QED
  BY <1>1, <1>2

LEMMA WholePut ==
  ASSUME NEW table, NEW k, NEW b, Whole(table), b.whole
  PROVE  Whole(Seeding!Put(table, k, b))
<1>1. \A j \in DOMAIN Seeding!Put(table, k, b) :
        \/ j = k /\ Seeding!Put(table, k, b)[j] = b
        \/ j \in DOMAIN table /\ Seeding!Put(table, k, b)[j] = table[j]
  BY DEF Seeding!Put
<1>2. QED
  BY <1>1 DEF Whole

LEMMA WholeDrop ==
  ASSUME NEW table, NEW k, Whole(table)
  PROVE  Whole(Seeding!Drop(table, k))
<1>1. \A j \in DOMAIN Seeding!Drop(table, k) :
        j \in DOMAIN table /\ Seeding!Drop(table, k)[j] = table[j]
  BY DropFacts
<1>2. QED
  BY <1>1 DEF Whole

LEMMA BumpNames ==
  ASSUME NEW c, NEW x
  PROVE  Seeding!Bump(c, x) = Strict!Bump(c, x)
BY DEF Seeding!Bump, Strict!Bump

LEMMA CleanSeeding ==
  ASSUME CountersTyped, NEW op, Seeding!ExecuteOp(op)
  PROVE  CleanStep(dram, vram, count, dram', vram', count')
<1> DEFINE k == Key(op)
           dramCount == Seeding!AfterSeeding(dram, op)
           dramSource == Seeding!SourceBuffer(dram, op)
           vramCount == Seeding!AfterSeeding(vram, op)
           vramSource == Seeding!SourceBuffer(vram, op)
<1>1. count \in [Seeding!Counters -> Nat]
  BY DEF CountersTyped
<1>2. /\ dramCount \in [Seeding!Counters -> Nat]
      /\ Errors(dramCount) \in Nat
      /\ \/ Errors(dramCount) # 0
         \/ /\ Errors(dramCount) = 0 /\ Errors(count) = 0
            /\ Successes(dramCount) = Successes(count)
            /\ Whole(dram) => dramSource.whole
  BY <1>1, CleanSource, BumpNames, SameNames, SameReads
  DEF Seeding!AfterSeeding, Seeding!SourceBuffer, Seeding!Found
<1>3. /\ vramCount \in [Seeding!Counters -> Nat]
      /\ Errors(vramCount) \in Nat
      /\ \/ Errors(vramCount) # 0
         \/ /\ Errors(vramCount) = 0 /\ Errors(count) = 0
            /\ Successes(vramCount) = Successes(count)
            /\ Whole(vram) => vramSource.whole
  BY <1>1, CleanSource, BumpNames, SameNames, SameReads
  DEF Seeding!AfterSeeding, Seeding!SourceBuffer, Seeding!Found
<1>4. ASSUME NEW x \in ErrorNames, NEW a \in [Seeding!Counters -> Nat],
             count' = Seeding!Bump(a, x)
      PROVE  CleanStep(dram, vram, count, dram', vram', count')
  BY <1>4, CountError, ErrorsCounted DEF CleanStep
<1>5. ASSUME NEW x \in SuccessNames, NEW a \in [Seeding!Counters -> Nat],
             count' = Seeding!Bump(a, x),
             \/ Errors(a) # 0
             \/ /\ Errors(count) = 0 /\ Successes(a) = Successes(count)
                /\ Whole(dram) /\ Whole(vram) => Whole(dram') /\ Whole(vram')
      PROVE  CleanStep(dram, vram, count, dram', vram', count')
  BY <1>5, CountSuccess DEF CleanStep
<1>6. /\ {"reads", "copies", "computes", "evictions"} \subseteq SuccessNames
      /\ {"missing", "mismatches", "unsupported"} \subseteq ErrorNames
  BY DEF SuccessNames, ErrorNames
<1>7. ASSUME NEW table, Seeding!SkipMissing(table, op)
      PROVE  CleanStep(dram, vram, count, dram', vram', count')
  <2>1. count' = Seeding!Bump(count, "missing")
    BY <1>7, BumpNames DEF Seeding!SkipMissing
  <2>2. QED
    BY <1>1, <1>4, <1>6, <2>1
<1>8. CASE Seeding!SsdToDram(op)
  <2> DEFINE r == Seeding!CountRead(count, op)
             b == Seeding!ReadBacking(op)
  <2>1. dram' = Seeding!Put(dram, k, b) /\ vram' = vram /\ count' = Seeding!Bump(r, "reads")
    BY <1>8, SameNames, SameReads, SameTables, BumpNames DEF Seeding!SsdToDram
  <2>2. /\ r \in [Seeding!Counters -> Nat] /\ Errors(r) \in Nat /\ Errors(count) \in Nat
        /\ \/ Errors(r) = Errors(count) + 1
           \/ r = count /\ b.whole
    BY <1>1, CleanRead
  <2> HIDE DEF r, b, k
  <2>3. b.whole /\ Whole(dram) => Whole(dram')
    BY <2>1, WholePut
  <2>4. CASE Errors(count) = 0
    BY <1>5, <1>6, <2>1, <2>2, <2>3, <2>4
  <2>5. CASE Errors(count) # 0
    BY <1>5, <1>6, <2>1, <2>2, <2>5
  <2>6. QED
    BY <2>4, <2>5
<1>9. CASE Seeding!DramToVram(op)
  <2>1. CASE Seeding!SkipMissing(dram, op)
    BY <1>7, <2>1
  <2>2. CASE ~Seeding!SkipMissing(dram, op)
    <3> DEFINE fits == dramSource.size = op.size
    <3>1. /\ dram' = Seeding!Put(dram, k, dramSource)
          /\ vram' = IF fits THEN Seeding!Put(vram, k, dramSource) ELSE vram
          /\ count' = Seeding!Bump(dramCount, IF fits THEN "copies" ELSE "mismatches")
      BY <1>9, <2>2, SameNames, SameTables, BumpNames DEF Seeding!DramToVram
    <3> HIDE DEF k, dramSource, dramCount
    <3>2. CASE fits
      <4>1. Whole(dram) /\ Whole(vram) /\ dramSource.whole => Whole(dram') /\ Whole(vram')
        BY <3>1, <3>2, WholePut
      <4>2. QED
        BY <1>2, <1>5, <1>6, <3>1, <3>2, <4>1
    <3>3. CASE ~fits
      BY <1>2, <1>4, <1>6, <3>1, <3>3
    <3>4. QED
      BY <3>2, <3>3
  <2>3. QED
    BY <2>1, <2>2
<1>10. CASE Seeding!Compute(op)
  <2>1. CASE Seeding!SkipMissing(vram, op)
    BY <1>7, <2>1
  <2>2. CASE ~Seeding!SkipMissing(vram, op)
    <3> DEFINE fits == vramSource.size = op.size
    <3>1. /\ dram' = dram /\ vram' = Seeding!Put(vram, k, vramSource)
          /\ count' = Seeding!Bump(vramCount, IF fits THEN "computes" ELSE "mismatches")
      BY <1>10, <2>2, SameNames, SameTables, BumpNames DEF Seeding!Compute
    <3> HIDE DEF k, vramSource, vramCount
    <3>2. Whole(vram) /\ vramSource.whole => Whole(vram')
      BY <3>1, WholePut
    <3>3. CASE fits
      BY <1>3, <1>5, <1>6, <3>1, <3>2, <3>3
    <3>4. CASE ~fits
      BY <1>3, <1>4, <1>6, <3>1, <3>4
    <3>5. QED
      BY <3>3, <3>4
  <2>3. QED
    BY <2>1, <2>2
<1>11. CASE Seeding!EvictToSsd(op)
  <2>1. CASE Seeding!SkipMissing(dram, op)
    BY <1>7, <2>1
  <2>2. CASE Seeding!Found(vram, op)
    <3>1. /\ vram' = Seeding!Drop(vram, k) /\ dram' = dram
          /\ count' = Seeding!Bump(count, "evictions")
      BY <1>11, <2>2, SameNames, SameTables, BumpNames DEF Seeding!EvictToSsd
    <3> HIDE DEF k
    <3>2. Whole(vram) => Whole(vram')
      BY <3>1, WholeDrop
    <3>3. QED
      BY <1>1, <1>5, <1>6, <3>1, <3>2
  <2>3. CASE ~Seeding!Found(vram, op) /\ ~Seeding!SkipMissing(dram, op)
    <3>1. /\ dram' = Seeding!Drop(dram, k) /\ vram' = vram
          /\ count' = Seeding!Bump(dramCount, "evictions")
      BY <1>11, <2>3, SameNames, SameTables, BumpNames DEF Seeding!EvictToSsd
    <3> HIDE DEF k, dramCount
    <3>2. Whole(dram) => Whole(dram')
      BY <3>1, WholeDrop
    <3>3. QED
      BY <1>2, <1>5, <1>6, <3>1, <3>2
  <2>4. QED
    BY <2>1, <2>2, <2>3
<1>12. CASE Seeding!Unsupported(op)
  <2>1. count' = Seeding!Bump(count, "unsupported")
    BY <1>12, BumpNames DEF Seeding!Unsupported
  <2>2. QED
    BY <1>1, <1>4, <1>6, <2>1
<1>13. QED
  BY <1>8, <1>9, <1>10, <1>11, <1>12 DEF Seeding!ExecuteOp

LEMMA CleanStrict ==
  ASSUME CountersTyped, NEW op, Strict!ExecuteOp(op)
  PROVE  CleanStep(strictDram, strictVram, strictCount, strictDram', strictVram', strictCount')
<1> DEFINE k == Key(op)
           dramCount == Strict!AfterSeeding(strictDram, op)
           dramSource == Strict!SourceBuffer(strictDram, op)
           vramCount == Strict!AfterSeeding(strictVram, op)
           vramSource == Strict!SourceBuffer(strictVram, op)
<1>1. strictCount \in [Seeding!Counters -> Nat]
  BY DEF CountersTyped
<1>2. /\ dramCount \in [Seeding!Counters -> Nat]
      /\ Errors(dramCount) \in Nat
      /\ \/ Errors(dramCount) # 0
         \/ /\ Errors(dramCount) = 0 /\ Errors(strictCount) = 0
            /\ Successes(dramCount) = Successes(strictCount)
            /\ Whole(strictDram) => dramSource.whole
  BY <1>1, CleanSource, BumpNames, SameNames, SameReads
  DEF Strict!AfterSeeding, Strict!SourceBuffer, Strict!Found
<1>3. /\ vramCount \in [Seeding!Counters -> Nat]
      /\ Errors(vramCount) \in Nat
      /\ \/ Errors(vramCount) # 0
         \/ /\ Errors(vramCount) = 0 /\ Errors(strictCount) = 0
            /\ Successes(vramCount) = Successes(strictCount)
            /\ Whole(strictVram) => vramSource.whole
  BY <1>1, CleanSource, BumpNames, SameNames, SameReads
  DEF Strict!AfterSeeding, Strict!SourceBuffer, Strict!Found
<1>4. ASSUME NEW x \in ErrorNames, NEW a \in [Seeding!Counters -> Nat],
             strictCount' = Seeding!Bump(a, x)
      PROVE  CleanStep(strictDram, strictVram, strictCount, strictDram', strictVram', strictCount')
  BY <1>4, CountError, ErrorsCounted DEF CleanStep
<1>5. ASSUME NEW x \in SuccessNames, NEW a \in [Seeding!Counters -> Nat],
             strictCount' = Seeding!Bump(a, x),
             \/ Errors(a) # 0
             \/ /\ Errors(strictCount) = 0 /\ Successes(a) = Successes(strictCount)
                /\ Whole(strictDram) /\ Whole(strictVram) => Whole(strictDram') /\ Whole(strictVram')
      PROVE  CleanStep(strictDram, strictVram, strictCount, strictDram', strictVram', strictCount')
  BY <1>5, CountSuccess DEF CleanStep
<1>6. /\ {"reads", "copies", "computes", "evictions"} \subseteq SuccessNames
      /\ {"missing", "mismatches", "unsupported"} \subseteq ErrorNames
  BY DEF SuccessNames, ErrorNames
<1>7. ASSUME NEW table, Strict!SkipMissing(table, op)
      PROVE  CleanStep(strictDram, strictVram, strictCount, strictDram', strictVram', strictCount')
  <2>1. strictCount' = Seeding!Bump(strictCount, "missing")
    BY <1>7, BumpNames DEF Strict!SkipMissing
  <2>2. QED
    BY <1>1, <1>4, <1>6, <2>1
<1>8. CASE Strict!SsdToDram(op)
  <2> DEFINE r == Seeding!CountRead(strictCount, op)
             b == Seeding!ReadBacking(op)
  <2>1. strictDram' = Seeding!Put(strictDram, k, b) /\ strictVram' = strictVram /\ strictCount' = Seeding!Bump(r, "reads")
    BY <1>8, SameNames, SameReads, SameTables, BumpNames DEF Strict!SsdToDram
  <2>2. /\ r \in [Seeding!Counters -> Nat] /\ Errors(r) \in Nat /\ Errors(strictCount) \in Nat
        /\ \/ Errors(r) = Errors(strictCount) + 1
           \/ r = strictCount /\ b.whole
    BY <1>1, CleanRead
  <2> HIDE DEF r, b, k
  <2>3. b.whole /\ Whole(strictDram) => Whole(strictDram')
    BY <2>1, WholePut
  <2>4. CASE Errors(strictCount) = 0
    BY <1>5, <1>6, <2>1, <2>2, <2>3, <2>4
  <2>5. CASE Errors(strictCount) # 0
    BY <1>5, <1>6, <2>1, <2>2, <2>5
  <2>6. QED
    BY <2>4, <2>5
<1>9. CASE Strict!DramToVram(op)
  <2>1. CASE Strict!SkipMissing(strictDram, op)
    BY <1>7, <2>1
  <2>2. CASE ~Strict!SkipMissing(strictDram, op)
    <3> DEFINE fits == dramSource.size = op.size
    <3>1. /\ strictDram' = Seeding!Put(strictDram, k, dramSource)
          /\ strictVram' = IF fits THEN Seeding!Put(strictVram, k, dramSource) ELSE strictVram
          /\ strictCount' = Seeding!Bump(dramCount, IF fits THEN "copies" ELSE "mismatches")
      BY <1>9, <2>2, SameNames, SameTables, BumpNames DEF Strict!DramToVram
    <3> HIDE DEF k, dramSource, dramCount
    <3>2. CASE fits
      <4>1. Whole(strictDram) /\ Whole(strictVram) /\ dramSource.whole => Whole(strictDram') /\ Whole(strictVram')
        BY <3>1, <3>2, WholePut
      <4>2. QED
        BY <1>2, <1>5, <1>6, <3>1, <3>2, <4>1
    <3>3. CASE ~fits
      BY <1>2, <1>4, <1>6, <3>1, <3>3
    <3>4. QED
      BY <3>2, <3>3
  <2>3. QED
    BY <2>1, <2>2
<1>10. CASE Strict!Compute(op)
  <2>1. CASE Strict!SkipMissing(strictVram, op)
    BY <1>7, <2>1
  <2>2. CASE ~Strict!SkipMissing(strictVram, op)
    <3> DEFINE fits == vramSource.size = op.size
    <3>1. /\ strictDram' = strictDram /\ strictVram' = Seeding!Put(strictVram, k, vramSource)
          /\ strictCount' = Seeding!Bump(vramCount, IF fits THEN "computes" ELSE "mismatches")
      BY <1>10, <2>2, SameNames, SameTables, BumpNames DEF Strict!Compute
    <3> HIDE DEF k, vramSource, vramCount
    <3>2. Whole(strictVram) /\ vramSource.whole => Whole(strictVram')
      BY <3>1, WholePut
    <3>3. CASE fits
      BY <1>3, <1>5, <1>6, <3>1, <3>2, <3>3
    <3>4. CASE ~fits
      BY <1>3, <1>4, <1>6, <3>1, <3>4
    <3>5. QED
      BY <3>3, <3>4
  <2>3. QED
    BY <2>1, <2>2
<1>11. CASE Strict!EvictToSsd(op)
  <2>1. CASE Strict!SkipMissing(strictDram, op)
    BY <1>7, <2>1
  <2>2. CASE Strict!Found(strictVram, op)
    <3>1. /\ strictVram' = Seeding!Drop(strictVram, k) /\ strictDram' = strictDram
          /\ strictCount' = Seeding!Bump(strictCount, "evictions")
      BY <1>11, <2>2, SameNames, SameTables, BumpNames DEF Strict!EvictToSsd
    <3> HIDE DEF k
    <3>2. Whole(strictVram) => Whole(strictVram')
      BY <3>1, WholeDrop
    <3>3. QED
      BY <1>1, <1>5, <1>6, <3>1, <3>2
  <2>3. CASE ~Strict!Found(strictVram, op) /\ ~Strict!SkipMissing(strictDram, op)
    <3>1. /\ strictDram' = Seeding!Drop(strictDram, k) /\ strictVram' = strictVram
          /\ strictCount' = Seeding!Bump(dramCount, "evictions")
      BY <1>11, <2>3, SameNames, SameTables, BumpNames DEF Strict!EvictToSsd
    <3> HIDE DEF k, dramCount
    <3>2. Whole(strictDram) => Whole(strictDram')
      BY <3>1, WholeDrop
    <3>3. QED
      BY <1>2, <1>5, <1>6, <3>1, <3>2
  <2>4. QED
    BY <2>1, <2>2, <2>3
<1>12. CASE Strict!Unsupported(op)
  <2>1. strictCount' = Seeding!Bump(strictCount, "unsupported")
    BY <1>12, BumpNames DEF Strict!Unsupported
  <2>2. QED
    BY <1>1, <1>4, <1>6, <2>1
<1>13. QED
  BY <1>8, <1>9, <1>10, <1>11, <1>12 DEF Strict!ExecuteOp

LEMMA InitCleanInv == Init => CleanInv
<1> SUFFICES ASSUME Init PROVE CleanInv
  OBVIOUS
<1>1. /\ history = <<>> /\ Len(history) = 0
      /\ DOMAIN dram = {} /\ DOMAIN vram = {}
      /\ DOMAIN strictDram = {} /\ DOMAIN strictVram = {}
  BY DEF Init, Seeding!Init, Strict!Init, Seeding!Empty, Strict!Empty
<1>2. Successes(count) = 0 /\ Successes(strictCount) = 0
  BY DEF Init, Seeding!Init, Strict!Init, Seeding!Counters, Strict!Counters, Successes
<1>3. QED
  BY <1>1, <1>2 DEF CleanInv, CleanSoFar, Whole

LEMMA NextCleanInv == IInv /\ CleanInv /\ [Next]_vars => CleanInv'
<1> SUFFICES ASSUME IInv, CleanInv, [Next]_vars PROVE CleanInv'
  OBVIOUS
<1>1. CASE UNCHANGED vars
  BY <1>1 DEF vars, CleanInv, CleanSoFar
<1>2. CASE Next
  <2>1. PICK op \in PlanOps : ExecuteOp(op)
    BY <1>2 DEF Next
  <2>2. /\ history' \in Seq(PlanOps)
        /\ Len(history') = Len(history) + 1
        /\ Len(history) \in Nat
    BY <2>1 DEF ExecuteOp, CleanInv
  <2>3. CleanStep(dram, vram, count, dram', vram', count')
    BY <2>1, CleanSeeding DEF ExecuteOp, IInv
  <2>4. CleanStep(strictDram, strictVram, strictCount, strictDram', strictVram', strictCount')
    BY <2>1, CleanStrict DEF ExecuteOp, IInv
  <2>5. CleanSoFar(dram, vram, count)'
    BY <2>2, <2>3 DEF CleanInv, CleanSoFar, CleanStep
  <2>6. CleanSoFar(strictDram, strictVram, strictCount)'
    BY <2>2, <2>4 DEF CleanInv, CleanSoFar, CleanStep
  <2>7. QED
    BY <2>2, <2>5, <2>6 DEF CleanInv
<1>3. QED
  BY <1>1, <1>2

(* Whatever the plan and the backing file, an executor that reports no     *)
(* error (verification_errors, on which the smoke's "passed" rests) has    *)
(* done every op of its plan and padded no byte of any buffer it keeps.    *)
THEOREM CleanRunsAreComplete == Spec => []CleanRunIsComplete
<1>1. CleanInv => CleanRunIsComplete
  BY DEF CleanInv, CleanSoFar, Whole, Errors, CleanRunIsComplete,
         Seeding!VerificationErrors, Strict!VerificationErrors
<1>2. QED
  BY InitIInv, NextIInv, InitCleanInv, NextCleanInv, <1>1, PTL DEF Spec

(***************************************************************************)
(* Buffers in VRAM.  The strict run's are among the seeding run's, so what *)
(* made the latter resident answers for both.                              *)
(***************************************************************************)
ResidentSince(h, k, i) ==
  /\ Key(h[i]) = k
  /\ Intent(h[i]) \in {"dram_to_vram", "compute"}
  /\ \A j \in i .. Len(h) : Key(h[j]) = k => Intent(h[j]) # "ssd_write"

ResidencyExplained ==
  /\ history \in Seq(PlanOps)
  /\ \A k \in DOMAIN vram : \E i \in DOMAIN history : ResidentSince(history, k, i)

(* An op puts no other block than its own in VRAM, and only by a copy or a *)
(* compute; an eviction takes its block out.                               *)
LEMMA VramSteps ==
  ASSUME NEW op, Seeding!ExecuteOp(op), NEW k \in DOMAIN vram'
  PROVE  \/ k \in DOMAIN vram /\ (Key(op) = k => Intent(op) # "ssd_write")
         \/ Key(op) = k /\ Intent(op) \in {"dram_to_vram", "compute"}
<1>1. CASE Seeding!SsdToDram(op)
  BY <1>1, SameNames DEF Seeding!SsdToDram
<1>2. CASE Seeding!DramToVram(op)
  BY <1>2, SameNames DEF Seeding!DramToVram, Seeding!SkipMissing, Seeding!Put
<1>3. CASE Seeding!Compute(op)
  BY <1>3, SameNames DEF Seeding!Compute, Seeding!SkipMissing, Seeding!Put
<1>4. CASE Seeding!EvictToSsd(op)
  BY <1>4, SameNames DEF Seeding!EvictToSsd, Seeding!SkipMissing, Seeding!Drop, Seeding!Found
<1>5. CASE Seeding!Unsupported(op)
  BY <1>5, SameNames DEF Seeding!Unsupported
<1>6. QED
  BY <1>1, <1>2, <1>3, <1>4, <1>5 DEF Seeding!ExecuteOp

LEMMA NextResidency == ResidencyExplained /\ [Next]_vars => ResidencyExplained'
<1> SUFFICES ASSUME ResidencyExplained, [Next]_vars PROVE ResidencyExplained'
  OBVIOUS
<1>1. CASE UNCHANGED vars
  BY <1>1 DEF vars, ResidencyExplained
<1>2. CASE Next
  <2>1. PICK op \in PlanOps : ExecuteOp(op)
    BY <1>2 DEF Next
  <2> DEFINE h == history
             g == history'
             n == Len(h) + 1
  <2>2. /\ g \in Seq(PlanOps) /\ Len(g) = n /\ g[n] = op
        /\ DOMAIN h = 1 .. Len(h) /\ DOMAIN g = 1 .. n
        /\ \A i \in 1 .. Len(h) : g[i] = h[i]
        /\ Len(h) \in Nat
    BY <2>1 DEF ExecuteOp, ResidencyExplained
  <2>3. ASSUME NEW k \in DOMAIN vram'
        PROVE  \E i \in DOMAIN g : ResidentSince(g, k, i)
    <3>1. CASE k \in DOMAIN vram /\ (Key(op) = k => Intent(op) # "ssd_write")
      <4>1. PICK i \in DOMAIN h : ResidentSince(h, k, i)
        BY <3>1 DEF ResidencyExplained
      <4> HIDE DEF h, g
      <4>2. \A j \in i .. n : j # n => j \in i .. Len(h) /\ j \in 1 .. Len(h)
        BY <2>2, <4>1
      <4>3. ResidentSince(g, k, i)
        BY <2>2, <3>1, <4>1, <4>2 DEF ResidentSince
      <4>4. i \in DOMAIN g
        BY <2>2, <4>1
      <4>5. QED
        BY <4>3, <4>4
    <3>2. CASE Key(op) = k /\ Intent(op) \in {"dram_to_vram", "compute"}
      <4> HIDE DEF h, g
      <4>1. \A j \in n .. n : j = n
        BY <2>2
      <4>2. ResidentSince(g, k, n)
        BY <2>2, <3>2, <4>1 DEF ResidentSince
      <4>3. n \in DOMAIN g
        BY <2>2
      <4>4. QED
        BY <4>2, <4>3
    <3>3. Seeding!ExecuteOp(op)
      BY <2>1 DEF ExecuteOp
    <3>4. QED
      BY <3>1, <3>2, <3>3, VramSteps
  <2>4. QED
    BY <2>2, <2>3 DEF ResidencyExplained
<1>3. QED
  BY <1>1, <1>2

(* Whatever the plan, a VRAM buffer of either run was copied there or      *)
(* computed on after the last eviction of its block: final_residency never *)
(* shows an evicted buffer as VRAM resident.                               *)
THEOREM VramIsNeverStale == Spec => []VramOutlivesNoEviction
<1>1. Init => ResidencyExplained
  BY DEF Init, Seeding!Init, Seeding!Empty, ResidencyExplained
<1>2. IInv /\ ResidencyExplained => VramOutlivesNoEviction
  BY DEF IInv, TablesAgree, PartOf, ResidencyExplained, ResidentSince, VramOutlivesNoEviction
<1>3. QED
  BY InitIInv, NextIInv, NextResidency, <1>1, <1>2, PTL DEF Spec
=============================================================================
