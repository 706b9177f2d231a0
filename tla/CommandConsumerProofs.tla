----------------------- MODULE CommandConsumerProofs ------------------------
(***************************************************************************)
(* The command consumer runs every plan the exporter accepts without a     *)
(* verification error and without overrunning a buffer, for every layout,  *)
(* plan and order of failures.  The argument: an accepted command names    *)
(* the range and the tokens of its block, so that all commands of a block  *)
(* have one pattern; slots hold nothing or that pattern, and the range of  *)
(* every SSD source holds it from the moment it is seeded, because writes  *)
(* to other blocks fall outside it.                                        *)
(***************************************************************************)
EXTENDS CommandConsumer, FiniteSetTheorems, TLAPS

EndOf(c) == c.offset + c.size

RangeOf(c) == c.offset .. EndOf(c) - 1

Holds(f, c) == \A o \in RangeOf(c) : f[o] = Pattern(c)[o - c.offset + 1]

Commands ==
  [complete : BOOLEAN, op : Ops, source : Locations, target : Locations,
   layer : Int, block : Int, start : Int, end : Int, size : Int, offset : Int]

Lines == [command : Commands, metadataSource : {MetadataSource(origin)}]

SaneLayout ==
  \A b, d \in DOMAIN layout :
    /\ layout[b] \in [offset : Nat, size : Nat \ {0}]
    /\ b # d => \/ layout[b].offset + layout[b].size <= layout[d].offset
               \/ layout[d].offset + layout[d].size <= layout[b].offset

(* What makes a new op of a plan agree with the ones exported before.      *)
Fits(op) ==
  /\ \A i \in DOMAIN exported :
       Block(exported[i].command) = Block(op) => Key(exported[i].command) = Key(op)
  /\ Accepts(op, layout) => op \in Commands /\ Pattern(op) # Null

ExportInv ==
  /\ SaneLayout
  /\ exported \in Seq(Lines)
  /\ \A i \in DOMAIN exported :
       Accepts(exported[i].command, layout) /\ Pattern(exported[i].command) # Null
  /\ \A i, j \in DOMAIN exported :
       Block(exported[i].command) = Block(exported[j].command) =>
         Key(exported[i].command) = Key(exported[j].command)

SomeEndsLast ==
  pc = "export" /\ exported # <<>> =>
    \E i \in DOMAIN commands : \A j \in DOMAIN commands :
      EndOf(commands[j]) <= EndOf(commands[i])

Stats ==
  [ran : Int, reads : Int, writes : Int, copies : Int, computes : Int,
   lazy : Int, seeds : Int, errors : Int]

StatsTyped == stats \in Stats

SlotsTrue ==
  \A b \in DOMAIN slots : \A i \in DOMAIN commands :
    Block(commands[i]) = b => slots[b] \in [Tiers -> {Null, Pattern(commands[i])}]

FileTrue ==
  pc \in {"seed", "run"} =>
    \A i \in DOMAIN commands :
      /\ RangeOf(commands[i]) \subseteq DOMAIN file
      /\ commands[i].source = "ssd" /\ (pc = "run" \/ i < next) => Holds(file, commands[i])

NextTyped ==
  /\ next \in Nat \ {0}
  /\ pc \in {"export", "rejected"} => next = 1

BeforeRun == pc \in {"export", "rejected", "seed"} => DOMAIN slots = {}

IInv ==
  /\ ExportInv /\ SomeEndsLast /\ NextTyped /\ StatsTyped /\ BeforeRun
  /\ SlotsTrue /\ FileTrue /\ NoVerificationError

(* What the scanner reads from an exported line, but for the source.       *)
LEMMA ScanFacts ==
  ASSUME NEW line \in Lines
  PROVE  /\ Scan(line).op = line.command.op
         /\ Scan(line).layer = line.command.layer
         /\ Scan(line).block = line.command.block
         /\ Scan(line).start = line.command.start
         /\ Scan(line).end = line.command.end
         /\ Scan(line).size = line.command.size
         /\ Scan(line).offset = line.command.offset
         /\ Scan(line).target = line.command.target
         /\ Block(Scan(line)) = Block(line.command)
         /\ Key(Scan(line)) = Key(line.command)
<1>1. line.command \in Commands
  BY DEF Lines
<1>2. QED
  BY <1>1 DEF Scan, Commands, Block, Key

(* An accepted command names its block's range and tokens.                 *)
LEMMA CommandFacts ==
  ASSUME ExportInv
  PROVE  /\ DOMAIN commands = 1 .. Len(exported)
         /\ Len(commands) = Len(exported)
         /\ Len(exported) \in Nat
         /\ \A i \in DOMAIN commands :
              /\ commands[i].size \in Nat \ {0}
              /\ commands[i].offset \in Nat
              /\ commands[i].op \in Ops
              /\ Block(commands[i]) \in DOMAIN layout
              /\ commands[i].size = layout[Block(commands[i])].size
              /\ commands[i].offset = layout[Block(commands[i])].offset
         /\ \A i, j \in DOMAIN commands :
              Block(commands[i]) = Block(commands[j]) => Key(commands[i]) = Key(commands[j])
<1>1. DOMAIN commands = 1 .. Len(exported) /\ DOMAIN exported = 1 .. Len(exported)
  BY DEF ExportInv, commands
<1>2. commands \in Seq({commands[i] : i \in DOMAIN commands})
  BY <1>1 DEF ExportInv, commands
<1>3. Len(commands) = Len(exported) /\ Len(exported) \in Nat
  BY <1>1, <1>2 DEF ExportInv
<1>4. ASSUME NEW i \in DOMAIN commands
      PROVE  /\ exported[i] \in Lines
             /\ commands[i] = Scan(exported[i])
             /\ Accepts(exported[i].command, layout)
  <2>1. exported[i] \in Lines
    BY <1>1 DEF ExportInv
  <2>2. commands[i] = Scan(exported[i])
    BY <1>1 DEF commands
  <2>3. Accepts(exported[i].command, layout)
    BY <1>1 DEF ExportInv
  <2>4. QED
    BY <2>1, <2>2, <2>3
<1>5. ASSUME NEW i \in DOMAIN commands
      PROVE  /\ commands[i].size \in Nat \ {0}
             /\ commands[i].offset \in Nat
             /\ commands[i].op \in Ops
             /\ Block(commands[i]) \in DOMAIN layout
             /\ commands[i].size = layout[Block(commands[i])].size
             /\ commands[i].offset = layout[Block(commands[i])].offset
             /\ Key(commands[i]) = Key(exported[i].command)
             /\ Block(commands[i]) = Block(exported[i].command)
  <2>1. /\ Block(commands[i]) = Block(exported[i].command)
        /\ Key(commands[i]) = Key(exported[i].command)
        /\ commands[i].size = exported[i].command.size
        /\ commands[i].offset = exported[i].command.offset
        /\ commands[i].op = exported[i].command.op
    BY <1>4, ScanFacts
  <2>2. /\ Block(exported[i].command) \in DOMAIN layout
        /\ exported[i].command.size = layout[Block(exported[i].command)].size
        /\ exported[i].command.offset = layout[Block(exported[i].command)].offset
        /\ exported[i].command.op \in Ops
    BY <1>4 DEF Accepts, WellFormed
  <2>3. layout[Block(exported[i].command)] \in [offset : Nat, size : Nat \ {0}]
    BY <2>2 DEF ExportInv, SaneLayout
  <2>4. QED
    BY <2>1, <2>2, <2>3
<1>6. ASSUME NEW i \in DOMAIN commands, NEW j \in DOMAIN commands,
             Block(commands[i]) = Block(commands[j])
      PROVE  Key(commands[i]) = Key(commands[j])
  BY <1>1, <1>5, <1>6 DEF ExportInv
<1>7. QED
  BY <1>1, <1>3, <1>5, <1>6

(* All commands of a block have one pattern, and the ranges of different   *)
(* blocks have no byte in common.                                          *)
LEMMA SamePattern ==
  ASSUME ExportInv, NEW i \in DOMAIN commands, NEW j \in DOMAIN commands,
         Block(commands[i]) = Block(commands[j])
  PROVE  /\ Pattern(commands[i]) = Pattern(commands[j])
         /\ commands[i].size = commands[j].size
         /\ commands[i].offset = commands[j].offset
BY CommandFacts DEF Pattern

LEMMA RangesApart ==
  ASSUME ExportInv, NEW i \in DOMAIN commands, NEW j \in DOMAIN commands,
         Block(commands[i]) # Block(commands[j])
  PROVE  RangeOf(commands[i]) \cap RangeOf(commands[j]) = {}
<1> DEFINE b == Block(commands[i])
           d == Block(commands[j])
<1>1. /\ b \in DOMAIN layout /\ d \in DOMAIN layout /\ b # d
      /\ commands[i].size = layout[b].size /\ commands[i].offset = layout[b].offset
      /\ commands[j].size = layout[d].size /\ commands[j].offset = layout[d].offset
  BY CommandFacts
<1> HIDE DEF b, d
<1>2. /\ layout[b].offset \in Nat /\ layout[b].size \in Nat
      /\ layout[d].offset \in Nat /\ layout[d].size \in Nat
      /\ \/ layout[b].offset + layout[b].size <= layout[d].offset
         \/ layout[d].offset + layout[d].size <= layout[b].offset
  BY <1>1 DEF ExportInv, SaneLayout
<1>3. QED
  BY <1>1, <1>2 DEF RangeOf, EndOf

LEMMA PatternFacts ==
  ASSUME NEW c, c.size \in Nat
  PROVE  /\ DOMAIN Pattern(c) = 1 .. c.size
         /\ Len(Pattern(c)) = c.size
         /\ Bytes(Pattern(c), c.size) = Pattern(c)
         /\ \A buffer \in {Null, Pattern(c)} : Filled(buffer, Pattern(c)) = Pattern(c)
<1>1. DOMAIN Pattern(c) = 1 .. c.size
  BY DEF Pattern
<1>2. Pattern(c) \in Seq({<<Key(c), c.offset, i>> : i \in 1 .. c.size})
  BY DEF Pattern
<1>3. Len(Pattern(c)) = c.size
  BY <1>1, <1>2
<1>4. Pattern(c) = [i \in 1 .. c.size |-> Pattern(c)[i]]
  BY DEF Pattern
<1>5. Bytes(Pattern(c), c.size) = Pattern(c)
  BY <1>3, <1>4 DEF Bytes
<1>6. Filled(Null, Pattern(c)) = Pattern(c)
  BY DEF Filled
<1>7. Filled(Pattern(c), Pattern(c)) = Pattern(c)
  BY <1>1, <1>3, <1>4 DEF Filled
<1>8. QED
  BY <1>1, <1>3, <1>5, <1>6, <1>7

(* A block's slot holds nothing or its pattern.                            *)
LEMMA SlotFacts ==
  ASSUME ExportInv, SlotsTrue, NEW i \in DOMAIN commands
  PROVE  /\ Slot(commands[i]) \in [Tiers -> {Null, Pattern(commands[i])}]
         /\ \A t \in Tiers : Ensured(commands[i], t) = Pattern(commands[i])
<1>1. Slot(commands[i]) \in [Tiers -> {Null, Pattern(commands[i])}]
  <2>1. CASE Block(commands[i]) \in DOMAIN slots
    BY <2>1 DEF SlotsTrue, Slot
  <2>2. CASE Block(commands[i]) \notin DOMAIN slots
    BY <2>2 DEF Slot
  <2>3. QED
    BY <2>1, <2>2
<1>2. QED
  BY <1>1 DEF Ensured

(* Writing a block's pattern makes its range hold it and leaves the ranges *)
(* of all commands that held theirs as they were.                          *)
LEMMA WriteFacts ==
  ASSUME ExportInv, NEW f, NEW i \in DOMAIN commands,
         \A j \in DOMAIN commands : RangeOf(commands[j]) \subseteq DOMAIN file,
         f = Written(commands[i], Pattern(commands[i]), commands[i].size)
  PROVE  /\ DOMAIN f = DOMAIN file
         /\ Holds(f, commands[i])
         /\ \A j \in DOMAIN commands : Holds(file, commands[j]) => Holds(f, commands[j])
<1> DEFINE c == commands[i]
<1>1. c.offset \in Nat /\ c.size \in Nat
  BY CommandFacts
<1>2. /\ DOMAIN f = DOMAIN file
      /\ \A o \in DOMAIN file :
           f[o] = IF o \in RangeOf(c) THEN Pattern(c)[o - c.offset + 1] ELSE file[o]
  <2>1. f = Written(c, Pattern(c), c.size)
    OBVIOUS
  <2> HIDE DEF c
  <2>2. f = [o \in DOMAIN file |-> IF o \in RangeOf(c) THEN Pattern(c)[o - c.offset + 1]
                                  ELSE file[o]]
    <3>1. RangeOf(c) = c.offset .. c.offset + c.size - 1
      BY <1>1 DEF RangeOf, EndOf
    <3>2. QED
      BY <2>1, <3>1 DEF Written
  <2>3. QED
    BY <2>2, Zenon
<1>3. Holds(f, c)
  BY <1>2 DEF Holds
<1>4. ASSUME NEW j \in DOMAIN commands, Holds(file, commands[j])
      PROVE  Holds(f, commands[j])
  <2>1. CASE Block(commands[j]) = Block(c)
    <3>1. Pattern(commands[j]) = Pattern(c) /\ commands[j].size = c.size /\ commands[j].offset = c.offset
      BY <2>1, SamePattern
    <3>2. RangeOf(commands[j]) = RangeOf(c)
      BY <3>1 DEF RangeOf, EndOf
    <3> HIDE DEF c
    <3>3. QED
      BY <1>3, <3>1, <3>2 DEF Holds
  <2>2. CASE Block(commands[j]) # Block(c)
    <3>1. RangeOf(commands[j]) \cap RangeOf(c) = {}
      BY <2>2, RangesApart
    <3>2. RangeOf(commands[j]) \subseteq DOMAIN file
      OBVIOUS
    <3> HIDE DEF c
    <3>3. QED
      BY <1>2, <1>4, <3>1, <3>2 DEF Holds
  <2>3. QED
    BY <2>1, <2>2
<1>5. QED
  BY <1>2, <1>3, <1>4

(* A range that holds the pattern of a command reads as that pattern.      *)
LEMMA ReadFacts ==
  ASSUME ExportInv, NEW i \in DOMAIN commands, Holds(file, commands[i])
  PROVE  Read(commands[i]) = Pattern(commands[i])
<1> DEFINE c == commands[i]
<1>1. c.offset \in Nat /\ c.size \in Nat
  BY CommandFacts
<1>2. Pattern(c) = [n \in 1 .. c.size |-> Pattern(c)[n]]
  BY DEF Pattern
<1>3. Holds(file, c)
  OBVIOUS
<1> HIDE DEF c
<1>4. ASSUME NEW n \in 1 .. c.size
      PROVE  file[c.offset + n - 1] = Pattern(c)[n]
  <2>1. c.offset + n - 1 \in RangeOf(c) /\ (c.offset + n - 1) - c.offset + 1 = n
    BY <1>1 DEF RangeOf, EndOf
  <2>2. QED
    BY <1>3, <2>1 DEF Holds
<1>5. Read(c) = Pattern(c)
  BY <1>2, <1>4 DEF Read
<1>6. QED
  BY <1>5 DEF c

(***************************************************************************)
(* The steps.                                                              *)
(***************************************************************************)
LEMMA StartIInv == SaneLayout /\ Start => IInv
<1> SUFFICES ASSUME SaneLayout, Start PROVE IInv
  OBVIOUS
<1>1. /\ exported = <<>> /\ pc = "export" /\ next = 1
      /\ slots = [b \in {} |-> Null]
  BY DEF Start
<1>2. ExportInv
  BY <1>1 DEF ExportInv
<1>3. StatsTyped /\ NoVerificationError
  BY DEF Start, StatsTyped, Stats, NoVerificationError
<1>4. QED
  BY <1>1, <1>2, <1>3 DEF IInv, SomeEndsLast, NextTyped, BeforeRun, SlotsTrue, FileTrue

LEMMA PlanKept ==
  ASSUME IInv, UNCHANGED <<layout, origin, exported>>
  PROVE  ExportInv' /\ commands' = commands
BY DEF IInv, ExportInv, SaneLayout, Lines, commands

LEMMA ExportStep ==
  ASSUME IInv, NEW op, Fits(op), ExportOp(op)
  PROVE  IInv'
<1>1. /\ pc = "export"
      /\ UNCHANGED <<layout, origin, next, file, slots, stats>>
  BY DEF ExportOp
<1>2. /\ DOMAIN slots = {} /\ StatsTyped' /\ NoVerificationError' /\ NextTyped'
  BY <1>1 DEF IInv, BeforeRun, StatsTyped, NoVerificationError, NextTyped
<1>3. pc' \in {"export", "rejected"}
  BY DEF ExportOp
<1>4. SlotsTrue' /\ FileTrue' /\ BeforeRun'
  BY <1>1, <1>2, <1>3 DEF SlotsTrue, FileTrue, BeforeRun
<1>5. CASE Accepts(op, layout)
  <2> DEFINE n == Len(exported) + 1
             line == Line(op, origin)
  <2>1. exported' = Append(exported, line) /\ pc' = "export"
    BY <1>1, <1>5 DEF ExportOp
  <2>2. line \in Lines /\ line.command = op
    BY <1>5 DEF Line, Lines, Fits
  <2>3. exported \in Seq(Lines) /\ SaneLayout
    BY DEF IInv, ExportInv
  <2> HIDE DEF line
  <2>4. /\ exported' \in Seq(Lines)
        /\ DOMAIN exported' = 1 .. n /\ exported'[n] = line
        /\ DOMAIN exported = 1 .. Len(exported) /\ Len(exported) \in Nat
        /\ \A i \in 1 .. Len(exported) : exported'[i] = exported[i]
    BY <2>1, <2>2, <2>3
  <2>5. ExportInv'
    <3>1. Lines' = Lines
      BY <1>1 DEF Lines
    <3>2. \A i \in DOMAIN exported' : i = n \/ i \in DOMAIN exported
      BY <2>4
    <3>3. \A i \in DOMAIN exported' :
            Accepts(exported'[i].command, layout) /\ Pattern(exported'[i].command) # Null
      BY <1>5, <2>2, <2>4, <3>2 DEF IInv, ExportInv, Fits
    <3>4. ASSUME NEW i \in DOMAIN exported', NEW j \in DOMAIN exported',
                 Block(exported'[i].command) = Block(exported'[j].command)
          PROVE  Key(exported'[i].command) = Key(exported'[j].command)
      BY <2>2, <2>4, <3>2, <3>4 DEF IInv, ExportInv, Fits
    <3>5. SaneLayout'
      BY <1>1, <2>3 DEF SaneLayout
    <3>6. QED
      BY <1>1, <2>4, <3>1, <3>3, <3>4, <3>5 DEF ExportInv
  <2>6. /\ DOMAIN commands' = 1 .. n
        /\ DOMAIN commands = 1 .. Len(exported)
        /\ \A i \in DOMAIN commands : commands'[i] = commands[i]
        /\ commands'[n] = Scan(line)
    BY <2>4 DEF commands
  <2>7. \A i \in DOMAIN commands' : EndOf(commands'[i]) \in Int
    <3>1. \A i \in DOMAIN commands : EndOf(commands[i]) \in Int
      BY CommandFacts DEF EndOf, IInv
    <3>2. commands'[n].offset = op.offset /\ commands'[n].size = op.size
      BY <2>2, <2>6, ScanFacts
    <3>3. op.offset \in Int /\ op.size \in Int
      BY <1>5 DEF Commands, Fits
    <3>4. EndOf(commands'[n]) \in Int
      BY <3>2, <3>3 DEF EndOf
    <3>5. \A i \in DOMAIN commands' : i = n \/ i \in DOMAIN commands
      BY <2>4, <2>6
    <3>6. QED
      BY <2>6, <3>1, <3>4, <3>5
  <2> HIDE DEF n
  <2>8. SomeEndsLast'
    <3>1. CASE exported = <<>>
      <4>1. DOMAIN commands' = {n}
        BY <2>4, <2>6, <3>1 DEF n
      <4>2. QED
        BY <2>7, <4>1 DEF SomeEndsLast
    <3>2. CASE exported # <<>>
      <4>1. PICK m \in DOMAIN commands : \A j \in DOMAIN commands :
              EndOf(commands[j]) <= EndOf(commands[m])
        BY <1>1, <3>2 DEF IInv, SomeEndsLast
      <4>2. /\ m \in DOMAIN commands' /\ n \in DOMAIN commands'
            /\ \A j \in DOMAIN commands' : j = n \/ j \in DOMAIN commands
            /\ \A j \in DOMAIN commands : EndOf(commands'[j]) = EndOf(commands[j])
        BY <2>4, <2>6, <4>1 DEF n
      <4>3. CASE EndOf(commands'[n]) <= EndOf(commands'[m])
        BY <4>1, <4>2, <4>3 DEF SomeEndsLast
      <4>4. CASE EndOf(commands'[m]) <= EndOf(commands'[n])
        <5>1. \A j \in DOMAIN commands' : EndOf(commands'[j]) <= EndOf(commands'[n])
          BY <2>7, <4>1, <4>2, <4>4
        <5>2. QED
          BY <4>2, <5>1 DEF SomeEndsLast
      <4>5. QED
        BY <2>7, <4>2, <4>3, <4>4
    <3>3. QED
      BY <3>1, <3>2
  <2>9. QED
    BY <1>2, <1>4, <2>5, <2>8 DEF IInv
<1>6. CASE ~Accepts(op, layout)
  <2>1. UNCHANGED <<layout, origin, exported>> /\ pc' = "rejected"
    BY <1>1, <1>6 DEF ExportOp
  <2>2. QED
    BY <1>2, <1>4, <2>1, PlanKept DEF IInv, SomeEndsLast
<1>7. QED
  BY <1>5, <1>6

(* The file is extended to the end of the range that ends last.            *)
LEMMA OpenStep ==
  ASSUME IInv, OpenBacking
  PROVE  IInv'
<1>1. /\ pc = "export" /\ UNCHANGED <<layout, origin, exported, next, slots, stats>>
      /\ pc' \in {"seed", "exited"}
  BY DEF OpenBacking, Exit
<1>2. ExportInv' /\ commands' = commands
  BY <1>1, PlanKept
<1>3. DOMAIN slots = {}
  BY <1>1 DEF IInv, BeforeRun
<1>4. /\ StatsTyped' /\ NoVerificationError' /\ NextTyped' /\ SlotsTrue' /\ BeforeRun'
      /\ SomeEndsLast'
  BY <1>1, <1>3 DEF IInv, StatsTyped, NoVerificationError, NextTyped, SlotsTrue, BeforeRun, SomeEndsLast
<1>5. CASE pc' = "exited"
  BY <1>2, <1>4, <1>5 DEF IInv, FileTrue
<1>6. CASE pc' = "seed"
  <2> DEFINE ends == {c.offset + c.size : c \in ToSet(commands)}
  <2>1. exported # <<>> /\ file' = [o \in 0 .. Max(ends) - 1 |-> Zero]
    BY <1>6 DEF OpenBacking, Exit
  <2>2. PICK m \in DOMAIN commands : \A j \in DOMAIN commands :
          EndOf(commands[j]) <= EndOf(commands[m])
    BY <1>1, <2>1 DEF IInv, SomeEndsLast
  <2>3. \A i \in DOMAIN commands : EndOf(commands[i]) \in Nat /\ commands[i].offset \in Nat
    BY CommandFacts DEF EndOf, IInv
  <2>4. ends = {EndOf(commands[i]) : i \in DOMAIN commands}
    BY DEF ToSet, EndOf
  <2> HIDE DEF ends
  <2>5. \E x \in ends : \A y \in ends : x >= y
    BY <2>2, <2>3, <2>4
  <2>6. Max(ends) \in ends /\ \A y \in ends : Max(ends) >= y
    BY <2>5 DEF Max
  <2>7. Max(ends) \in Nat /\ \A i \in DOMAIN commands : EndOf(commands[i]) <= Max(ends)
    BY <2>3, <2>4, <2>6
  <2>8. \A i \in DOMAIN commands : RangeOf(commands[i]) \subseteq 0 .. Max(ends) - 1
    BY <2>3, <2>7 DEF RangeOf
  <2>9. next' = 1 /\ \A i \in DOMAIN commands : ~(i < 1)
    BY <1>1, CommandFacts DEF IInv, NextTyped
  <2>10. FileTrue'
    BY <1>2, <1>6, <2>1, <2>8, <2>9 DEF FileTrue
  <2>11. QED
    BY <1>2, <1>4, <2>10 DEF IInv
<1>7. QED
  BY <1>1, <1>5, <1>6

(* A source seen before is the same block's, and its range is seeded.      *)
LEMMA SeenSeeded ==
  ASSUME IInv, pc = "seed", next \in DOMAIN commands, Seen(next)
  PROVE  Holds(file, commands[next])
<1> DEFINE c == commands[next]
<1>1. PICK j \in 1 .. next - 1 :
        commands[j].source = "ssd" /\ commands[j].offset = c.offset /\ commands[j].size = c.size
  BY DEF Seen
<1>2. j \in DOMAIN commands /\ j < next
  BY CommandFacts DEF IInv, NextTyped
<1>3. Holds(file, commands[j])
  BY <1>1, <1>2 DEF IInv, FileTrue
<1>4. c.offset \in Nat /\ c.size \in Nat \ {0}
  BY CommandFacts DEF IInv
<1>5. c.offset \in RangeOf(c) /\ RangeOf(commands[j]) = RangeOf(c)
  BY <1>1, <1>4 DEF RangeOf, EndOf
<1>6. Block(commands[j]) = Block(c)
  BY <1>2, <1>5, RangesApart DEF IInv
<1>7. Pattern(commands[j]) = Pattern(c)
  BY <1>2, <1>6, SamePattern DEF IInv
<1>8. QED
  BY <1>1, <1>3, <1>5, <1>7 DEF Holds

LEMMA SeedStep ==
  ASSUME IInv, SeedNext
  PROVE  IInv'
<1> DEFINE c == commands[next]
<1>1. /\ pc = "seed" /\ next <= Len(commands)
      /\ UNCHANGED <<layout, origin, exported, slots>>
  BY DEF SeedNext
<1>2. ExportInv' /\ commands' = commands
  BY <1>1, PlanKept
<1>3. /\ next \in DOMAIN commands /\ next \in Nat
      /\ DOMAIN commands = 1 .. Len(commands) /\ Len(commands) \in Nat
  BY <1>1, CommandFacts DEF IInv, NextTyped
<1>4. DOMAIN slots = {}
  BY <1>1 DEF IInv, BeforeRun
<1>5. SlotsTrue' /\ BeforeRun'
  BY <1>1, <1>4 DEF SlotsTrue, BeforeRun
<1>6. /\ stats' = stats \/ stats' = [stats EXCEPT !.seeds = stats.seeds + 1]
      /\ \/ pc' = "exited" /\ next' = next
         \/ pc' = "seed" /\ next' = next + 1
  BY <1>1 DEF SeedNext, Advance, Exit
<1>7. StatsTyped' /\ NoVerificationError' /\ NextTyped' /\ SomeEndsLast'
  BY <1>3, <1>6 DEF IInv, StatsTyped, Stats, NoVerificationError, NextTyped, SomeEndsLast
<1>8. ASSUME pc' = "seed"
      PROVE  /\ next' = next + 1
             /\ \A i \in DOMAIN commands : RangeOf(commands[i]) \subseteq DOMAIN file'
             /\ \A i \in DOMAIN commands : Holds(file, commands[i]) => Holds(file', commands[i])
             /\ c.source = "ssd" => Holds(file', c)
  <2>1. \A i \in DOMAIN commands : RangeOf(commands[i]) \subseteq DOMAIN file
    BY <1>1 DEF IInv, FileTrue
  <2>2. CASE c.source # "ssd" \/ Seen(next)
    <3>1. file' = file /\ next' = next + 1
      BY <2>2 DEF SeedNext, Advance
    <3>2. c.source = "ssd" => Holds(file, c)
      BY <1>1, <1>3, <2>2, SeenSeeded
    <3>3. QED
      BY <2>1, <3>1, <3>2
  <2>3. CASE ~(c.source # "ssd" \/ Seen(next))
    <3>1. file' = Written(c, Pattern(c), c.size) /\ next' = next + 1
      BY <1>1, <1>8, <2>3 DEF SeedNext, Advance, Exit
    <3>2. /\ DOMAIN file' = DOMAIN file
          /\ Holds(file', c)
          /\ \A j \in DOMAIN commands : Holds(file, commands[j]) => Holds(file', commands[j])
      BY <1>3, <2>1, <3>1, WriteFacts DEF IInv
    <3>3. QED
      BY <2>1, <3>1, <3>2
  <2>4. QED
    BY <2>2, <2>3
<1>9. FileTrue'
  <2>1. CASE pc' = "exited"
    BY <2>1 DEF FileTrue
  <2>2. CASE pc' = "seed"
    <3>1. \A i \in DOMAIN commands : i < next + 1 => i < next \/ i = next
      BY <1>3
    <3>2. \A i \in DOMAIN commands :
            commands[i].source = "ssd" /\ i < next + 1 => Holds(file', commands[i])
      BY <1>1, <1>8, <2>2, <3>1 DEF IInv, FileTrue
    <3>3. QED
      BY <1>2, <1>8, <2>2, <3>2 DEF FileTrue
  <2>3. QED
    BY <1>6, <2>1, <2>2
<1>10. QED
  BY <1>2, <1>5, <1>7, <1>9 DEF IInv

LEMMA StartStep ==
  ASSUME IInv, StartRunning
  PROVE  IInv'
<1>1. /\ pc = "seed" /\ next > Len(commands) /\ pc' = "run" /\ next' = 1
      /\ UNCHANGED <<layout, origin, exported, file, slots, stats>>
  BY DEF StartRunning
<1>2. ExportInv' /\ commands' = commands
  BY <1>1, PlanKept
<1>3. \A i \in DOMAIN commands : i < next
  BY <1>1, CommandFacts DEF IInv, NextTyped
<1>4. FileTrue'
  BY <1>1, <1>2, <1>3 DEF IInv, FileTrue
<1>5. /\ SomeEndsLast' /\ NextTyped' /\ StatsTyped' /\ BeforeRun'
      /\ SlotsTrue' /\ NoVerificationError'
  BY <1>1, <1>2
  DEF IInv, SomeEndsLast, NextTyped, StatsTyped, BeforeRun, SlotsTrue, NoVerificationError
<1>6. QED
  BY <1>2, <1>4, <1>5 DEF IInv

LEMMA FinishStep ==
  ASSUME IInv, Finish
  PROVE  IInv'
<1>1. /\ pc' = "exited"
      /\ UNCHANGED <<layout, origin, exported, next, slots, stats>>
  BY DEF Finish, Exit
<1>2. ExportInv' /\ commands' = commands
  BY <1>1, PlanKept
<1>3. QED
  BY <1>1, <1>2
  DEF IInv, SomeEndsLast, NextTyped, StatsTyped, BeforeRun, SlotsTrue, NoVerificationError, FileTrue

(* What one turn of the run loop has to keep.                              *)
LEMMA RunStep ==
  ASSUME IInv, pc = "run", UNCHANGED <<layout, origin, exported>>,
         \/ pc' = "exited" /\ next' = next
         \/ /\ pc' = "run" /\ next' = next + 1
            /\ DOMAIN file' = DOMAIN file
            /\ \A i \in DOMAIN commands : Holds(file, commands[i]) => Holds(file', commands[i]),
         SlotsTrue', StatsTyped', stats'.errors = 0
  PROVE  IInv'
<1>1. ExportInv' /\ commands' = commands
  BY PlanKept
<1>2. SomeEndsLast' /\ NextTyped' /\ BeforeRun' /\ NoVerificationError'
  BY DEF IInv, SomeEndsLast, NextTyped, BeforeRun, NoVerificationError
<1>3. FileTrue'
  BY <1>1 DEF IInv, FileTrue
<1>4. QED
  BY <1>1, <1>2, <1>3 DEF IInv

LEMMA SetSlotTrue ==
  ASSUME IInv, UNCHANGED <<layout, origin, exported>>, NEW i \in DOMAIN commands,
         NEW slot \in [Tiers -> {Null, Pattern(commands[i])}],
         SetSlot(commands[i], slot)
  PROVE  SlotsTrue'
<1>1. commands' = commands
  BY PlanKept
<1>2. ASSUME NEW b \in DOMAIN slots', NEW j \in DOMAIN commands, Block(commands[j]) = b
      PROVE  slots'[b] \in [Tiers -> {Null, Pattern(commands[j])}]
  <2>1. CASE b = Block(commands[i])
    <3>1. Pattern(commands[j]) = Pattern(commands[i])
      BY <1>2, <2>1, SamePattern DEF IInv
    <3>2. slots'[b] = slot
      BY <2>1 DEF SetSlot
    <3>3. QED
      BY <3>1, <3>2
  <2>2. CASE b # Block(commands[i])
    <3>1. b \in DOMAIN slots /\ slots'[b] = slots[b]
      BY <2>2 DEF SetSlot
    <3>2. QED
      BY <1>2, <3>1 DEF IInv, SlotsTrue
  <2>3. QED
    BY <2>1, <2>2
<1>3. QED
  BY <1>1, <1>2 DEF SlotsTrue

LEMMA ExecuteStep ==
  ASSUME IInv, ExecuteNext
  PROVE  IInv'
<1> DEFINE c == commands[next]
           p == Pattern(c)
<1>1. /\ pc = "run" /\ next <= Len(commands)
      /\ UNCHANGED <<layout, origin, exported>>
  BY DEF ExecuteNext
<1>2. next \in DOMAIN commands
  BY <1>1, CommandFacts DEF IInv, NextTyped
<1>3. c.size \in Nat \ {0} /\ c.op \in Ops
  BY <1>2, CommandFacts DEF IInv
<1>4. /\ Slot(c) \in [Tiers -> {Null, p}]
      /\ \A t \in Tiers : Ensured(c, t) = p
  BY <1>2, SlotFacts DEF IInv
<1>5. /\ Bytes(p, c.size) = p
      /\ \A buffer \in {Null, p} : Filled(buffer, p) = p
  BY <1>3, PatternFacts
<1>6. commands' = commands /\ SlotsTrue /\ StatsTyped /\ stats.errors = 0
  BY <1>1, PlanKept DEF IInv, NoVerificationError
<1>7. UNCHANGED slots => SlotsTrue'
  BY <1>6 DEF SlotsTrue
<1>8. UNCHANGED stats => StatsTyped'
  BY <1>6 DEF StatsTyped
<1>0. /\ stats \in Stats
      /\ \A t \in Tiers : Lazy(c, t) \in Int
      /\ CopiesToVram(c) \in Int
      /\ \A m, n \in Int : m + n \in Int
      /\ stats.ran + 1 \in Int /\ stats.reads + 1 \in Int /\ stats.writes + 1 \in Int
      /\ stats.copies \in Int /\ stats.computes \in Int /\ stats.lazy \in Int
  BY <1>6 DEF StatsTyped, Stats, Lazy, CopiesToVram
<1>9. CASE LoadFromSsd(c)
  <2>1. c.source = "ssd" /\ c.target \in Tiers /\ UNCHANGED file
    BY <1>9 DEF LoadFromSsd, Runnable, IsTransfer
  <2>2. Read(c) = p
    BY <1>1, <1>2, <2>1, ReadFacts DEF IInv, FileTrue
  <2>3. CASE Exit(1) /\ UNCHANGED <<next, slots, stats>>
    BY <1>1, <1>6, <1>7, <1>8, <2>3, RunStep DEF Exit
  <2>4. CASE /\ SetSlot(c, [Slot(c) EXCEPT ![c.target] = Filled(Slot(c)[c.target], Read(c))])
             /\ VerifyAndAdvance(Read(c) = Pattern(c),
                  [stats EXCEPT !.ran = stats.ran + 1, !.reads = stats.reads + 1])
    <3>1. [Slot(c) EXCEPT ![c.target] = Filled(Slot(c)[c.target], Read(c))] \in [Tiers -> {Null, p}]
      BY <1>4, <1>5, <2>1, <2>2
    <3>2. SlotsTrue'
      BY <1>1, <1>2, <2>4, <3>1, SetSlotTrue
    <3>3. /\ stats' = [stats EXCEPT !.ran = stats.ran + 1, !.reads = stats.reads + 1]
          /\ Advance
      BY <2>2, <2>4 DEF VerifyAndAdvance
    <3>4. StatsTyped' /\ stats'.errors = 0
      BY <1>0, <1>6, <3>3 DEF StatsTyped, Stats
    <3>5. pc' = "run" /\ next' = next + 1
      BY <1>1, <3>3 DEF Advance
    <3> HIDE DEF c, p
    <3>6. QED
      BY <1>1, <2>1, <3>2, <3>4, <3>5, RunStep
  <2>5. QED
    BY <1>9, <2>3, <2>4 DEF LoadFromSsd
<1>10. CASE Copy(c)
  <2>1. c.source \in Tiers /\ c.target \in Tiers /\ UNCHANGED file
    BY <1>10 DEF Copy, Runnable, IsTransfer
  <2> DEFINE slot == [Slot(c) EXCEPT ![c.source] = p,
                                     ![c.target] = Filled(Slot(c)[c.target], p)]
  <2>2. SetSlot(c, slot)
    BY <1>4, <1>5, <1>10, <2>1 DEF Copy
  <2>3. slot \in [Tiers -> {Null, p}]
    BY <1>4, <1>5, <2>1
  <2>4. SlotsTrue'
    BY <1>1, <1>2, <2>2, <2>3, SetSlotTrue
  <2>5. StatsTyped' /\ stats'.errors = 0
    BY <1>0, <1>6, <1>10, <2>1 DEF Copy, StatsTyped, Stats
  <2>6. pc' = "run" /\ next' = next + 1
    BY <1>1, <1>10 DEF Copy, Advance
  <2> HIDE DEF c, p, slot
  <2>7. QED
    BY <1>1, <2>1, <2>4, <2>5, <2>6, RunStep
<1>11. CASE Compute(c)
  <2>1. /\ SetSlot(c, [Slot(c) EXCEPT !["vram"] = p])
        /\ VerifyAndAdvance(p = Pattern(c),
             [stats EXCEPT !.ran = stats.ran + 1,
                           !.computes = stats.computes + (IF p = Pattern(c) THEN 1 ELSE 0),
                           !.lazy = stats.lazy + Lazy(c, "vram")])
        /\ UNCHANGED file
    BY <1>4, <1>5, <1>11 DEF Compute, Tiers
  <2>2. [Slot(c) EXCEPT !["vram"] = p] \in [Tiers -> {Null, p}]
    BY <1>4 DEF Tiers
  <2>3. SlotsTrue'
    BY <1>1, <1>2, <2>1, <2>2, SetSlotTrue
  <2>4. StatsTyped' /\ stats'.errors = 0
    <3>1. stats' = [stats EXCEPT !.ran = stats.ran + 1, !.computes = stats.computes + 1,
                                 !.lazy = stats.lazy + Lazy(c, "vram")]
      BY <2>1 DEF VerifyAndAdvance
    <3>2. stats.lazy + Lazy(c, "vram") \in Int /\ stats.computes + 1 \in Int
      BY <1>0 DEF Tiers
    <3>3. QED
      BY <1>0, <1>6, <3>1, <3>2 DEF StatsTyped, Stats
  <2>5. pc' = "run" /\ next' = next + 1
    BY <1>1, <2>1 DEF VerifyAndAdvance, Advance
  <2> HIDE DEF c, p
  <2>6. QED
    BY <1>1, <2>1, <2>3, <2>4, <2>5, RunStep
<1>12. CASE Evict(c)
  <2>1. c.source \in Tiers
    BY <1>12 DEF Evict, Runnable, IsTransfer
  <2>2. [Slot(c) EXCEPT ![c.source] = p] \in [Tiers -> {Null, p}]
    BY <1>4
  <2>3. SetSlot(c, [Slot(c) EXCEPT ![c.source] = p])
    BY <1>4, <1>12, <2>1 DEF Evict
  <2>4. SlotsTrue'
    BY <1>1, <1>2, <2>2, <2>3, SetSlotTrue
  <2>5. CASE pc' = "exited"
    <3>1. next' = next /\ UNCHANGED stats
      BY <1>1, <1>12, <2>5 DEF Evict, Exit, Advance
    <3>2. QED
      BY <1>1, <1>6, <1>8, <2>4, <2>5, <3>1, RunStep
  <2>6. CASE pc' # "exited"
    <3>1. /\ file' = Written(c, p, c.size)
          /\ pc' = "run" /\ next' = next + 1
      BY <1>1, <1>4, <1>5, <1>12, <2>1, <2>6 DEF Evict, Exit, Advance
    <3>2. StatsTyped' /\ stats'.errors = 0
      <4>1. stats' = [stats EXCEPT !.ran = stats.ran + 1, !.writes = stats.writes + 1,
                                   !.lazy = stats.lazy + Lazy(c, c.source)]
        BY <1>12, <2>6 DEF Evict, Exit
      <4>2. stats.lazy + Lazy(c, c.source) \in Int
        BY <1>0, <2>1
      <4>3. QED
        BY <1>0, <1>6, <4>1, <4>2 DEF StatsTyped, Stats
    <3>3. \A j \in DOMAIN commands : RangeOf(commands[j]) \subseteq DOMAIN file
      BY <1>1 DEF IInv, FileTrue
    <3>4. /\ DOMAIN file' = DOMAIN file
          /\ \A j \in DOMAIN commands : Holds(file, commands[j]) => Holds(file', commands[j])
      BY <1>2, <3>1, <3>3, WriteFacts DEF IInv
    <3> HIDE DEF c, p
    <3>5. QED
      BY <1>1, <2>4, <3>1, <3>2, <3>4, RunStep
  <2>7. QED
    BY <2>5, <2>6
<1>13. CASE Refuse(c) \/ OutOfMemory
  BY <1>1, <1>6, <1>7, <1>8, <1>13, RunStep DEF Refuse, OutOfMemory, Exit
<1>14. QED
  BY <1>9, <1>10, <1>11, <1>12, <1>13 DEF ExecuteNext

(* A step of the consumer on a plan whose ops agree with one another.      *)
Step ==
  \/ \E op : Fits(op) /\ ExportOp(op)
  \/ OpenBacking
  \/ SeedNext
  \/ StartRunning
  \/ ExecuteNext
  \/ Finish

LEMMA StepIInv == IInv /\ [Step]_vars => IInv'
<1> SUFFICES ASSUME IInv, [Step]_vars PROVE IInv'
  OBVIOUS
<1>1. CASE UNCHANGED vars
  <2>1. ExportInv' /\ commands' = commands
    BY <1>1, PlanKept DEF vars
  <2>2. QED
    BY <1>1, <2>1
    DEF vars, IInv, SomeEndsLast, NextTyped, StatsTyped, BeforeRun, SlotsTrue, FileTrue,
        NoVerificationError
<1>2. QED
  BY <1>1, ExportStep, OpenStep, SeedStep, StartStep, ExecuteStep, FinishStep DEF Step

(* Every step of the specification is such a step: its layout and its ops  *)
(* are taken from Layouts and PlanOps.                                     *)
PlanInv ==
  /\ layout \in Layouts
  /\ \A i \in DOMAIN exported : exported[i].command \in PlanOps

LEMMA InitIInv == Init => IInv /\ PlanInv
<1> SUFFICES ASSUME Init PROVE IInv /\ PlanInv
  OBVIOUS
<1>1. layout \in Layouts /\ Start
  BY DEF Init
<1>2. SaneLayout
  BY <1>1, LayoutAssumption DEF SaneLayout
<1>3. PlanInv
  BY <1>1 DEF PlanInv, Start
<1>4. QED
  BY <1>1, <1>2, <1>3, StartIInv

LEMMA NextIsStep ==
  ASSUME IInv, PlanInv, [Next]_vars
  PROVE  [Step]_vars /\ PlanInv'
<1>1. ASSUME NEW op \in PlanOps PROVE Fits(op)
  <2>1. op \in CommandLine /\ (WellFormed(op) => op \in Commands)
    BY PlanAssumption DEF WellFormed, CommandLine, Commands
  <2>2. QED
    BY <2>1, PlanAssumption, NullAssumption DEF Fits, PlanInv, Accepts
<1>2. [Step]_vars
  BY <1>1 DEF Next, Step
<1>3. UNCHANGED <<layout, exported>> => PlanInv'
  BY DEF PlanInv
<1>4. ASSUME NEW op \in PlanOps, ExportOp(op)
      PROVE  PlanInv'
  <2>1. layout' = layout
    BY <1>4 DEF ExportOp
  <2>2. CASE exported' = exported
    BY <2>1, <2>2 DEF PlanInv
  <2>3. CASE exported' = Append(exported, Line(op, origin))
    <3>1. exported \in Seq(Lines)
      BY DEF IInv, ExportInv
    <3>2. /\ DOMAIN exported' = 1 .. Len(exported) + 1
          /\ exported'[Len(exported) + 1] = Line(op, origin)
          /\ \A i \in 1 .. Len(exported) : exported'[i] = exported[i]
          /\ DOMAIN exported = 1 .. Len(exported) /\ Len(exported) \in Nat
      BY <2>3, <3>1
    <3>3. Line(op, origin).command = op
      BY DEF Line
    <3>4. QED
      BY <2>1, <3>2, <3>3 DEF PlanInv
  <2>4. QED
    BY <1>4, <2>2, <2>3 DEF ExportOp
<1>5. ASSUME OpenBacking \/ SeedNext \/ StartRunning \/ ExecuteNext \/ Finish \/ UNCHANGED vars
      PROVE  PlanInv'
  <2>1. UNCHANGED <<layout, exported>>
    BY <1>5 DEF vars, OpenBacking, SeedNext, StartRunning, ExecuteNext, Finish
  <2>2. QED
    BY <1>3, <2>1
<1>6. PlanInv'
  BY <1>4, <1>5 DEF Next
<1>7. QED
  BY <1>2, <1>6

LEMMA SpecIInv == Spec => [](IInv /\ PlanInv)
<1>1. IInv /\ PlanInv /\ [Next]_vars => (IInv /\ PlanInv)'
  BY NextIsStep, StepIInv
<1>2. QED
  BY InitIInv, <1>1, PTL DEF Spec

(* Whatever plan the exporter accepts, the bytes the consumer reads and    *)
(* computes on are those of the command's block (verify_pattern in         *)
(* execute_command never fails).                                           *)
THEOREM NeverMisreads == Spec => []NoVerificationError
BY SpecIInv, PTL DEF IInv

(* The buffer of a slot has the size of every command of its block, though *)
(* the consumer never compares the two (get_slot, ensure_buffer).          *)
THEOREM BuffersAlwaysFit == Spec => []BuffersFit
<1>1. IInv => BuffersFit
  <2> SUFFICES ASSUME IInv, NEW i \in DOMAIN commands, Block(commands[i]) \in DOMAIN slots,
                      NEW t \in Tiers, slots[Block(commands[i])][t] # Null
               PROVE  Len(slots[Block(commands[i])][t]) = commands[i].size
    BY DEF BuffersFit
  <2>1. slots[Block(commands[i])][t] = Pattern(commands[i])
    BY DEF IInv, SlotsTrue
  <2>2. QED
    BY <2>1, CommandFacts, PatternFacts DEF IInv
<1>2. QED
  BY SpecIInv, <1>1, PTL

(***************************************************************************)
(* The lazy counter.  While the commands run, a block's buffer in a tier   *)
(* is there if and only if an earlier command used it, so that a source is *)
(* made up exactly at a first use.                                         *)
(***************************************************************************)
Used(c, b, t) == UsesAsSource(c, b, t) \/ UsesAsTarget(c, b, t)

UsedBefore(b, t, n) == \E j \in 1 .. n - 1 : Used(commands[j], b, t)

FirstSources(n) ==
  {bt \in Blocks \X Tiers : \E i \in 1 .. n - 1 :
     UsesAsSource(commands[i], bt[1], bt[2]) /\ ~UsedBefore(bt[1], bt[2], i)}

Explained(n) ==
  /\ IsFiniteSet(FirstSources(n))
  /\ stats.lazy = Cardinality(FirstSources(n))

Present(b, t) == b \in DOMAIN slots /\ slots[b][t] # Null

LazyInv ==
  /\ pc \in {"export", "rejected", "seed"} => stats.lazy = 0
  /\ pc = "run" =>
       /\ next <= Len(commands) + 1
       /\ Explained(next)
       /\ \A b \in Blocks, t \in Tiers : Present(b, t) <=> UsedBefore(b, t, next)
  /\ pc = "exited" /\ rc = 0 => Explained(Len(commands) + 1)

LEMMA PatternThere ==
  ASSUME ExportInv, NEW i \in DOMAIN commands
  PROVE  Pattern(commands[i]) # Null
<1>1. i \in DOMAIN exported /\ exported[i] \in Lines /\ commands[i] = Scan(exported[i])
  <2>1. i \in DOMAIN exported /\ commands[i] = Scan(exported[i])
    BY DEF commands
  <2>2. QED
    BY <2>1 DEF ExportInv
<1>2. Pattern(commands[i]) = Pattern(exported[i].command)
  BY <1>1, ScanFacts DEF Pattern
<1>3. QED
  BY <1>1, <1>2 DEF ExportInv

(* One more command adds its source to the first uses, or nothing.         *)
LEMMA NextFirstSource ==
  ASSUME NEW n \in Nat \ {0}, NEW b \in Blocks, NEW src,
         \A d \in Blocks, t \in Tiers :
           UsesAsSource(commands[n], d, t) <=> d = b /\ t = src,
         IsFiniteSet(FirstSources(n))
  PROVE  LET new == src \in Tiers /\ ~UsedBefore(b, src, n)
         IN /\ IsFiniteSet(FirstSources(n + 1))
            /\ Cardinality(FirstSources(n + 1)) =
                 Cardinality(FirstSources(n)) + (IF new THEN 1 ELSE 0)
<1> DEFINE new == src \in Tiers /\ ~UsedBefore(b, src, n)
           First(bt, i) == UsesAsSource(commands[i], bt[1], bt[2]) /\ ~UsedBefore(bt[1], bt[2], i)
<1>1. \A i \in 1 .. (n + 1) - 1 : i = n \/ i \in 1 .. n - 1
  OBVIOUS
<1>2. n \in 1 .. (n + 1) - 1 /\ \A i \in 1 .. n - 1 : i \in 1 .. (n + 1) - 1
  OBVIOUS
<1>3. \A m : FirstSources(m) = {bt \in Blocks \X Tiers : \E i \in 1 .. m - 1 : First(bt, i)}
  BY DEF FirstSources
<1>4. \A bt \in Blocks \X Tiers : First(bt, n) <=> new /\ bt = <<b, src>>
  OBVIOUS
<1>5. \A i \in 1 .. n - 1 : First(<<b, src>>, i) => UsedBefore(b, src, n)
  BY DEF UsedBefore, Used
<1> HIDE DEF First
<1>6. \A bt \in Blocks \X Tiers :
        (\E i \in 1 .. (n + 1) - 1 : First(bt, i)) <=> First(bt, n) \/ \E i \in 1 .. n - 1 : First(bt, i)
  BY <1>1, <1>2
<1>7. CASE new
  <2>1. FirstSources(n + 1) = FirstSources(n) \cup {<<b, src>>}
    BY <1>3, <1>4, <1>6, <1>7
  <2>2. <<b, src>> \notin FirstSources(n)
    BY <1>3, <1>5, <1>7
  <2> HIDE DEF new
  <2>3. QED
    BY <1>7, <2>1, <2>2, FS_AddElement DEF new
<1>8. CASE ~new
  <2>1. FirstSources(n + 1) = FirstSources(n)
    BY <1>3, <1>4, <1>6, <1>8
  <2>2. Cardinality(FirstSources(n)) \in Nat
    BY FS_CardinalityType
  <2>3. QED
    BY <1>8, <2>1, <2>2
<1>9. QED
  BY <1>7, <1>8

(* A turn uses the block's buffer in one tier as its source and fills it   *)
(* in one as its target.                                                   *)
Fills(c, src, tgt, slot) ==
  /\ SetSlot(c, slot)
  /\ stats'.lazy = stats.lazy + (IF src \in Tiers THEN Lazy(c, src) ELSE 0)
  /\ \A t \in Tiers : slot[t] = IF t \in {src, tgt} THEN Pattern(c) ELSE Slot(c)[t]
  /\ \A d \in Blocks, t \in Tiers :
       /\ UsesAsSource(c, d, t) <=> d = Block(c) /\ t = src
       /\ UsesAsTarget(c, d, t) <=> d = Block(c) /\ t = tgt

(* Such a turn keeps the counter right.                                    *)
LEMMA TurnExplained ==
  ASSUME IInv, LazyInv, pc = "run", next \in DOMAIN commands,
         UNCHANGED <<layout, origin, exported>>,
         pc' = "run", next' = next + 1,
         NEW src, NEW tgt, NEW slot, Fills(commands[next], src, tgt, slot)
  PROVE  LazyInv'
<1> DEFINE c == commands[next]
           b == Block(c)
<1>0. /\ SetSlot(c, slot)
      /\ stats'.lazy = stats.lazy + (IF src \in Tiers THEN Lazy(c, src) ELSE 0)
      /\ \A t \in Tiers : slot[t] = IF t \in {src, tgt} THEN Pattern(c) ELSE Slot(c)[t]
      /\ \A d \in Blocks, t \in Tiers :
           /\ UsesAsSource(c, d, t) <=> d = b /\ t = src
           /\ UsesAsTarget(c, d, t) <=> d = b /\ t = tgt
  BY DEF Fills
<1>1. commands' = commands
  BY PlanKept
<1>2. b \in Blocks /\ next \in Nat \ {0} /\ next <= Len(commands) /\ Len(commands) \in Nat
  BY CommandFacts DEF IInv, Blocks, NextTyped
<1>3. Pattern(c) # Null
  BY PatternThere DEF IInv
<1>4. \A d \in Blocks, t \in Tiers :
        Present(d, t) <=> UsedBefore(d, t, next)
  BY DEF LazyInv
<1>5. ASSUME NEW t \in Tiers
      PROVE  Slot(c)[t] = Null <=> ~Present(b, t)
  BY DEF Slot, Present
<1>6. \A t \in Tiers : Lazy(c, t) = IF UsedBefore(b, t, next) THEN 0 ELSE 1
  BY <1>2, <1>4, <1>5 DEF Lazy
<1>7. IsFiniteSet(FirstSources(next)) /\ stats.lazy = Cardinality(FirstSources(next))
  BY DEF LazyInv, Explained
<1>8. Cardinality(FirstSources(next)) \in Nat
  BY <1>7, FS_CardinalityType
<1>9. /\ IsFiniteSet(FirstSources(next + 1))
      /\ Cardinality(FirstSources(next + 1)) =
           Cardinality(FirstSources(next))
             + (IF src \in Tiers /\ ~UsedBefore(b, src, next) THEN 1 ELSE 0)
  BY <1>0, <1>2, <1>7, NextFirstSource
<1>10. stats'.lazy = Cardinality(FirstSources(next + 1))
  BY <1>0, <1>2, <1>6, <1>7, <1>8, <1>9
<1>11. FirstSources(next)' = FirstSources(next + 1)
  BY <1>1 DEF FirstSources, Blocks, UsedBefore
<1>12. ASSUME NEW d \in Blocks, NEW t \in Tiers
       PROVE  Present(d, t)' <=> Present(d, t) \/ (d = b /\ t \in {src, tgt})
  <2>1. CASE d = b
    <3>1. d \in DOMAIN slots' /\ slots'[d] = slot
      BY <1>0, <2>1 DEF SetSlot
    <3>2. slot[t] = IF t \in {src, tgt} THEN Pattern(c) ELSE Slot(c)[t]
      BY <1>0
    <3> HIDE DEF c, b
    <3>3. Present(d, t)' <=> slot[t] # Null
      BY <3>1 DEF Present
    <3>4. QED
      BY <1>3, <1>5, <2>1, <3>2, <3>3
  <2>2. CASE d # b
    BY <1>0, <2>2 DEF SetSlot, Present
  <2>3. QED
    BY <2>1, <2>2
<1>13. ASSUME NEW d \in Blocks, NEW t \in Tiers
       PROVE  UsedBefore(d, t, next)' <=> UsedBefore(d, t, next) \/ (d = b /\ t \in {src, tgt})
  <2>1. Used(c, d, t) <=> d = b /\ t \in {src, tgt}
    BY <1>0 DEF Used
  <2>2. UsedBefore(d, t, next)' <=> \E j \in 1 .. (next + 1) - 1 : Used(commands[j], d, t)
    BY <1>1 DEF UsedBefore
  <2>3. \A j : j \in 1 .. (next + 1) - 1 <=> j = next \/ j \in 1 .. next - 1
    BY <1>2
  <2> HIDE DEF b
  <2>4. QED
    BY <2>1, <2>2, <2>3 DEF UsedBefore
<1>14. Blocks' = Blocks
  BY <1>1 DEF Blocks
<1>15. \A d \in Blocks, t \in Tiers : Present(d, t)' <=> UsedBefore(d, t, next)'
  BY <1>4, <1>12, <1>13
<1>16. Explained(next)'
  BY <1>9, <1>10, <1>11 DEF Explained
<1>17. next' <= Len(commands') + 1
  BY <1>1, <1>2
<1>18. QED
  BY <1>14, <1>15, <1>16, <1>17 DEF LazyInv

LEMMA StartLazyInv == Start => LazyInv
BY DEF Start, LazyInv

LEMMA ExitLazyInv ==
  ASSUME pc' = "exited", rc' # 0
  PROVE  LazyInv'
BY DEF LazyInv

LEMMA BeforeRunLazyInv ==
  ASSUME IInv, LazyInv, pc \in {"export", "seed"}, [Step]_vars
  PROVE  LazyInv'
<1>0. stats.lazy = 0 /\ stats \in Stats
  BY DEF LazyInv, IInv, StatsTyped
<1>1. ASSUME NEW op, ExportOp(op)
      PROVE  LazyInv'
  BY <1>0, <1>1 DEF ExportOp, LazyInv
<1>2. CASE OpenBacking
  BY <1>0, <1>2 DEF OpenBacking, LazyInv, Exit
<1>3. CASE SeedNext
  BY <1>0, <1>3 DEF SeedNext, LazyInv, Exit, Advance, Stats
<1>4. CASE StartRunning
  <2>1. /\ pc' = "run" /\ next' = 1 /\ UNCHANGED <<layout, origin, exported, slots, stats>>
        /\ DOMAIN slots = {}
    BY <1>4 DEF StartRunning, IInv, BeforeRun
  <2>2. commands' = commands
    BY <2>1, PlanKept
  <2>3. FirstSources(next)' = {}
    BY <2>1 DEF FirstSources
  <2>4. Explained(next)'
    BY <1>0, <2>1, <2>3, FS_EmptySet DEF Explained
  <2>5. \A b \in Blocks', t \in Tiers : ~Present(b, t)' /\ ~UsedBefore(b, t, next)'
    BY <2>1 DEF Present, UsedBefore
  <2>6. next' <= Len(commands') + 1
    BY <2>1, <2>2, CommandFacts DEF IInv
  <2>7. QED
    BY <2>1, <2>4, <2>5, <2>6 DEF LazyInv
<1>5. CASE ExecuteNext \/ Finish \/ UNCHANGED vars
  BY <1>0, <1>5 DEF ExecuteNext, Finish, vars, LazyInv
<1>6. QED
  BY <1>1, <1>2, <1>3, <1>4, <1>5 DEF Step

LEMMA ExecuteLazyInv ==
  ASSUME IInv, LazyInv, ExecuteNext
  PROVE  LazyInv'
<1> DEFINE c == commands[next]
           p == Pattern(c)
<1>1. /\ pc = "run" /\ next <= Len(commands)
      /\ UNCHANGED <<layout, origin, exported>>
  BY DEF ExecuteNext
<1>2. next \in DOMAIN commands
  BY <1>1, CommandFacts DEF IInv, NextTyped
<1>3. c.size \in Nat \ {0} /\ c.op \in Ops
  BY <1>2, CommandFacts DEF IInv
<1>4. /\ Slot(c) \in [Tiers -> {Null, p}]
      /\ \A t \in Tiers : Ensured(c, t) = p
  BY <1>2, SlotFacts DEF IInv
<1>5. /\ Bytes(p, c.size) = p
      /\ \A buffer \in {Null, p} : Filled(buffer, p) = p
  BY <1>3, PatternFacts
<1>6. stats \in Stats /\ stats.lazy \in Int
  BY DEF IInv, StatsTyped, Stats
<1>7. "ssd" \notin Tiers /\ "none" \notin Tiers
  BY DEF Tiers
<1>8. pc' = "exited" /\ rc' = 1 => LazyInv'
  BY ExitLazyInv
<1>9. CASE LoadFromSsd(c)
  <2>1. c.source = "ssd" /\ c.target \in Tiers /\ IsTransfer(c)
    BY <1>9 DEF LoadFromSsd, Runnable, IsTransfer
  <2>2. Read(c) = p
    BY <1>1, <1>2, <2>1, ReadFacts DEF IInv, FileTrue
  <2>3. CASE Exit(1)
    BY <1>8, <2>3 DEF Exit
  <2>4. CASE ~Exit(1)
    <3> DEFINE slot == [Slot(c) EXCEPT ![c.target] = p]
    <3>1. /\ SetSlot(c, slot)
          /\ stats' = [stats EXCEPT !.ran = stats.ran + 1, !.reads = stats.reads + 1]
          /\ pc' = "run" /\ next' = next + 1
      BY <1>1, <1>4, <1>5, <1>9, <2>1, <2>2, <2>4 DEF LoadFromSsd, VerifyAndAdvance, Advance
    <3>2. stats'.lazy = stats.lazy + (IF c.source \in Tiers THEN Lazy(c, c.source) ELSE 0)
      BY <1>6, <1>7, <2>1, <3>1 DEF Stats
    <3>3. \A t \in Tiers : slot[t] = IF t \in {c.source, c.target} THEN p ELSE Slot(c)[t]
      BY <1>4, <1>7, <2>1
    <3>4. \A d \in Blocks, t \in Tiers :
            /\ UsesAsSource(c, d, t) <=> d = Block(c) /\ t = c.source
            /\ UsesAsTarget(c, d, t) <=> d = Block(c) /\ t = c.target
      BY <2>1 DEF UsesAsSource, UsesAsTarget, IsTransfer
    <3>5. Fills(c, c.source, c.target, slot)
      BY <3>1, <3>2, <3>3, <3>4 DEF Fills
    <3> HIDE DEF slot
    <3>6. QED
      BY <1>1, <1>2, <3>1, <3>5, TurnExplained
  <2>5. QED
    BY <2>3, <2>4
<1>10. CASE Copy(c)
  <2>1. c.source \in Tiers /\ c.target \in Tiers /\ IsTransfer(c)
    BY <1>10 DEF Copy, Runnable, IsTransfer
  <2> DEFINE slot == [Slot(c) EXCEPT ![c.source] = p,
                                     ![c.target] = Filled(Slot(c)[c.target], p)]
  <2>2. SetSlot(c, slot)
    BY <1>4, <1>5, <1>10, <2>1 DEF Copy
  <2>3. pc' = "run" /\ next' = next + 1
    BY <1>1, <1>10 DEF Copy, Advance
  <2>4. stats'.lazy = stats.lazy + (IF c.source \in Tiers THEN Lazy(c, c.source) ELSE 0)
    BY <1>6, <1>10, <2>1 DEF Copy, Stats
  <2>5. \A t \in Tiers : slot[t] = IF t \in {c.source, c.target} THEN p ELSE Slot(c)[t]
    BY <1>4, <1>5, <2>1
  <2>6. \A d \in Blocks, t \in Tiers :
          /\ UsesAsSource(c, d, t) <=> d = Block(c) /\ t = c.source
          /\ UsesAsTarget(c, d, t) <=> d = Block(c) /\ t = c.target
    BY <2>1 DEF UsesAsSource, UsesAsTarget, IsTransfer
  <2>7. Fills(c, c.source, c.target, slot)
    BY <2>2, <2>4, <2>5, <2>6 DEF Fills
  <2> HIDE DEF slot
  <2>8. QED
    BY <1>1, <1>2, <2>2, <2>3, <2>7, TurnExplained
<1>11. CASE Compute(c)
  <2> DEFINE slot == [Slot(c) EXCEPT !["vram"] = p]
  <2>1. /\ SetSlot(c, slot)
        /\ stats' = [stats EXCEPT !.ran = stats.ran + 1, !.computes = stats.computes + 1,
                                  !.lazy = stats.lazy + Lazy(c, "vram")]
        /\ pc' = "run" /\ next' = next + 1
    BY <1>1, <1>4, <1>5, <1>11 DEF Compute, VerifyAndAdvance, Advance, Tiers
  <2>2. stats'.lazy = stats.lazy + (IF "vram" \in Tiers THEN Lazy(c, "vram") ELSE 0)
    BY <1>6, <2>1 DEF Stats, Tiers
  <2>3. \A t \in Tiers : slot[t] = IF t \in {"vram", "none"} THEN p ELSE Slot(c)[t]
    BY <1>4, <1>7
  <2>4. \A d \in Blocks, t \in Tiers :
          /\ UsesAsSource(c, d, t) <=> d = Block(c) /\ t = "vram"
          /\ UsesAsTarget(c, d, t) <=> d = Block(c) /\ t = "none"
    BY <1>7, <1>11 DEF UsesAsSource, UsesAsTarget, IsTransfer, Compute
  <2>5. Fills(c, "vram", "none", slot)
    BY <2>1, <2>2, <2>3, <2>4 DEF Fills
  <2> HIDE DEF slot
  <2>6. QED
    BY <1>1, <1>2, <2>1, <2>5, TurnExplained
<1>12. CASE Evict(c)
  <2>1. c.source \in Tiers /\ c.op = "kv_evict"
    BY <1>12 DEF Evict, Runnable, IsTransfer
  <2>2. CASE Exit(1)
    BY <1>8, <2>2 DEF Exit
  <2>3. CASE ~Exit(1)
    <3> DEFINE slot == [Slot(c) EXCEPT ![c.source] = p]
    <3>1. /\ SetSlot(c, slot)
          /\ stats' = [stats EXCEPT !.ran = stats.ran + 1, !.writes = stats.writes + 1,
                                    !.lazy = stats.lazy + Lazy(c, c.source)]
          /\ pc' = "run" /\ next' = next + 1
      BY <1>1, <1>4, <1>12, <2>1, <2>3 DEF Evict, Advance
    <3>2. stats'.lazy = stats.lazy + (IF c.source \in Tiers THEN Lazy(c, c.source) ELSE 0)
      BY <1>6, <2>1, <3>1 DEF Stats
    <3>3. \A t \in Tiers : slot[t] = IF t \in {c.source, "none"} THEN p ELSE Slot(c)[t]
      BY <1>4, <1>7, <2>1
    <3>4. \A d \in Blocks, t \in Tiers :
            /\ UsesAsSource(c, d, t) <=> d = Block(c) /\ t = c.source
            /\ UsesAsTarget(c, d, t) <=> d = Block(c) /\ t = "none"
      BY <1>7, <2>1 DEF UsesAsSource, UsesAsTarget, IsTransfer
    <3>5. Fills(c, c.source, "none", slot)
      BY <3>1, <3>2, <3>3, <3>4 DEF Fills
    <3> HIDE DEF slot
    <3>6. QED
      BY <1>1, <1>2, <3>1, <3>5, TurnExplained
  <2>4. QED
    BY <2>2, <2>3
<1>13. CASE Refuse(c) \/ OutOfMemory
  BY <1>8, <1>13 DEF Refuse, OutOfMemory, Exit
<1>14. QED
  BY <1>9, <1>10, <1>11, <1>12, <1>13 DEF ExecuteNext

LEMMA StepLazyInv == IInv /\ LazyInv /\ [Step]_vars => LazyInv'
<1> SUFFICES ASSUME IInv, LazyInv, [Step]_vars PROVE LazyInv'
  OBVIOUS
<1>1. CASE pc \in {"export", "seed"}
  BY <1>1, BeforeRunLazyInv
<1>2. CASE UNCHANGED vars
  <2>1. commands' = commands
    BY <1>2, PlanKept DEF vars
  <2>2. QED
    BY <1>2, <2>1
    DEF vars, LazyInv, Explained, FirstSources, Blocks, UsedBefore, Present
<1>3. CASE ExecuteNext
  BY <1>3, ExecuteLazyInv
<1>4. CASE Finish
  <2>1. /\ pc = "run" /\ next > Len(commands) /\ pc' = "exited"
        /\ UNCHANGED <<layout, origin, exported, stats>>
    BY <1>4 DEF Finish, Exit
  <2>2. commands' = commands
    BY <2>1, PlanKept
  <2>3. next = Len(commands) + 1
    BY <2>1, CommandFacts DEF LazyInv, IInv, NextTyped
  <2>4. Explained(Len(commands) + 1)
    BY <2>1, <2>3 DEF LazyInv
  <2>5. Explained(Len(commands) + 1)'
    BY <2>1, <2>2, <2>4 DEF Explained, FirstSources, Blocks, UsedBefore
  <2>6. QED
    BY <2>1, <2>5 DEF LazyInv
<1>5. CASE pc \notin {"export", "seed"} /\ Step
  BY <1>3, <1>4, <1>5 DEF Step, ExportOp, OpenBacking, SeedNext, StartRunning
<1>6. QED
  BY <1>1, <1>2, <1>5

(* lazy_init_count of a run that succeeds is the number of blocks and      *)
(* tiers first used as a source, for every plan and layout.                *)
THEOREM LazyInitCounted == Spec => []LazyInitExplained
<1>1. IInv /\ LazyInv => LazyInitExplained
  <2> SUFFICES ASSUME IInv, LazyInv, pc = "exited", rc = 0 PROVE LazyInitExplained
    BY DEF LazyInitExplained
  <2>1. DOMAIN commands = 1 .. (Len(commands) + 1) - 1 /\ Len(commands) \in Nat
    BY CommandFacts DEF IInv
  <2>2. \A b, t : FirstUsedAsSource(b, t) <=>
          \E i \in 1 .. (Len(commands) + 1) - 1 :
            UsesAsSource(commands[i], b, t) /\ ~UsedBefore(b, t, i)
    BY <2>1 DEF FirstUsedAsSource, UsedBefore, Used
  <2>3. FirstSources(Len(commands) + 1) =
          {bt \in Blocks \X Tiers : FirstUsedAsSource(bt[1], bt[2])}
    BY <2>2 DEF FirstSources
  <2>4. QED
    BY <2>3 DEF LazyInv, Explained, LazyInitExplained
<1>2. Init => IInv /\ PlanInv /\ LazyInv
  BY InitIInv, StartLazyInv DEF Init
<1>3. IInv /\ PlanInv /\ LazyInv /\ [Next]_vars => (IInv /\ PlanInv /\ LazyInv)'
  BY NextIsStep, StepIInv, StepLazyInv
<1>4. QED
  BY <1>1, <1>2, <1>3, PTL DEF Spec

(***************************************************************************)
(* The other counters of the summary line: how many commands of each kind  *)
(* the file has, and how many SSD ranges were seeded.                      *)
(***************************************************************************)
IsRead(c) == IsTransfer(c) /\ c.source = "ssd"

IsCopy(c) == IsTransfer(c) /\ c.source = "dram" /\ c.target = "vram"

IsCompute(c) == c.op = "kv_compute"

Reads(n) == {i \in 1 .. n - 1 : IsRead(commands[i])}

Copies(n) == {i \in 1 .. n - 1 : IsCopy(commands[i])}

Computes(n) == {i \in 1 .. n - 1 : IsCompute(commands[i])}

Seeds(n) == {i \in 1 .. n - 1 : commands[i].source = "ssd" /\ ~Seen(i)}

Ran(n) ==
  /\ stats.reads = Cardinality(Reads(n))
  /\ stats.copies = Cardinality(Copies(n))
  /\ stats.computes = Cardinality(Computes(n))

NothingRan == stats.reads = 0 /\ stats.copies = 0 /\ stats.computes = 0

CountInv ==
  /\ pc = "export" => NothingRan /\ stats.seeds = 0
  /\ pc = "seed" =>
       /\ NothingRan /\ next <= Len(commands) + 1
       /\ stats.seeds = Cardinality(Seeds(next))
  /\ pc = "run" =>
       /\ Ran(next) /\ next <= Len(commands) + 1
       /\ stats.seeds = Cardinality(Seeds(Len(commands) + 1))
  /\ pc = "exited" /\ rc = 0 =>
       /\ Ran(Len(commands) + 1)
       /\ stats.seeds = Cardinality(Seeds(Len(commands) + 1))

(* Sets of indices, grown by one index or by none.                         *)
LEMMA OneMore ==
  ASSUME NEW n \in Nat \ {0}, NEW S \in SUBSET (1 .. n - 1), NEW T \in SUBSET (1 .. n),
         \A i \in 1 .. n - 1 : i \in T <=> i \in S
  PROVE  Cardinality(T) = Cardinality(S) + (IF n \in T THEN 1 ELSE 0)
<1>1. IsFiniteSet(S) /\ Cardinality(S) \in Nat
  <2>1. IsFiniteSet(1 .. n - 1)
    BY FS_Interval
  <2>2. IsFiniteSet(S)
    BY <2>1, FS_Subset
  <2>3. QED
    BY <2>2, FS_CardinalityType
<1>0. n \notin 1 .. n - 1 /\ \A i \in 1 .. n : i = n \/ i \in 1 .. n - 1
  OBVIOUS
<1>2. CASE n \in T
  <2>1. T = S \cup {n} /\ n \notin S
    BY <1>0, <1>2, Zenon
  <2>2. QED
    BY <1>1, <1>2, <2>1, FS_AddElement
<1>3. CASE n \notin T
  <2>1. T = S
    BY <1>0, <1>3, Zenon
  <2>2. QED
    BY <1>1, <1>3, <2>1
<1>4. QED
  BY <1>2, <1>3

LEMMA NextCounts ==
  ASSUME NEW n \in Nat \ {0}
  PROVE  /\ Cardinality(Reads(n + 1)) =
              Cardinality(Reads(n)) + (IF IsRead(commands[n]) THEN 1 ELSE 0)
         /\ Cardinality(Copies(n + 1)) =
              Cardinality(Copies(n)) + (IF IsCopy(commands[n]) THEN 1 ELSE 0)
         /\ Cardinality(Computes(n + 1)) =
              Cardinality(Computes(n)) + (IF IsCompute(commands[n]) THEN 1 ELSE 0)
         /\ Cardinality(Seeds(n + 1)) =
              Cardinality(Seeds(n)) + (IF commands[n].source = "ssd" /\ ~Seen(n) THEN 1 ELSE 0)
<1>0. (n + 1) - 1 = n /\ n \in 1 .. n /\ \A i \in 1 .. n - 1 : i \in 1 .. n
  OBVIOUS
<1>1. /\ Reads(n) \in SUBSET (1 .. n - 1) /\ Reads(n + 1) \in SUBSET (1 .. n)
      /\ \A i \in 1 .. n - 1 : i \in Reads(n + 1) <=> i \in Reads(n)
      /\ n \in Reads(n + 1) <=> IsRead(commands[n])
  BY <1>0 DEF Reads
<1>2. /\ Copies(n) \in SUBSET (1 .. n - 1) /\ Copies(n + 1) \in SUBSET (1 .. n)
      /\ \A i \in 1 .. n - 1 : i \in Copies(n + 1) <=> i \in Copies(n)
      /\ n \in Copies(n + 1) <=> IsCopy(commands[n])
  BY <1>0 DEF Copies
<1>3. /\ Computes(n) \in SUBSET (1 .. n - 1) /\ Computes(n + 1) \in SUBSET (1 .. n)
      /\ \A i \in 1 .. n - 1 : i \in Computes(n + 1) <=> i \in Computes(n)
      /\ n \in Computes(n + 1) <=> IsCompute(commands[n])
  BY <1>0 DEF Computes
<1>4. /\ Seeds(n) \in SUBSET (1 .. n - 1) /\ Seeds(n + 1) \in SUBSET (1 .. n)
      /\ \A i \in 1 .. n - 1 : i \in Seeds(n + 1) <=> i \in Seeds(n)
      /\ n \in Seeds(n + 1) <=> commands[n].source = "ssd" /\ ~Seen(n)
  BY <1>0 DEF Seeds
<1>5. Cardinality(Reads(n + 1)) =
        Cardinality(Reads(n)) + (IF IsRead(commands[n]) THEN 1 ELSE 0)
  BY <1>1, OneMore
<1>6. Cardinality(Copies(n + 1)) =
        Cardinality(Copies(n)) + (IF IsCopy(commands[n]) THEN 1 ELSE 0)
  BY <1>2, OneMore
<1>7. Cardinality(Computes(n + 1)) =
        Cardinality(Computes(n)) + (IF IsCompute(commands[n]) THEN 1 ELSE 0)
  BY <1>3, OneMore
<1>8. Cardinality(Seeds(n + 1)) =
        Cardinality(Seeds(n)) + (IF commands[n].source = "ssd" /\ ~Seen(n) THEN 1 ELSE 0)
  BY <1>4, OneMore
<1>9. QED
  BY <1>5, <1>6, <1>7, <1>8

LEMMA NothingYet ==
  /\ Cardinality(Reads(1)) = 0 /\ Cardinality(Copies(1)) = 0
  /\ Cardinality(Computes(1)) = 0 /\ Cardinality(Seeds(1)) = 0
<1>1. Reads(1) = {} /\ Copies(1) = {} /\ Computes(1) = {} /\ Seeds(1) = {}
  BY DEF Reads, Copies, Computes, Seeds
<1>2. QED
  BY <1>1, FS_EmptySet

LEMMA StartCountInv == Start => CountInv
BY DEF Start, CountInv, NothingRan

(* A turn of the run loop counts its command.                              *)
LEMMA TurnCounted ==
  ASSUME IInv, ExecuteNext, pc' # "exited", NEW c, c = commands[next]
  PROVE  /\ pc' = "run" /\ next' = next + 1
         /\ stats'.seeds = stats.seeds
         /\ stats'.reads = stats.reads + (IF IsRead(c) THEN 1 ELSE 0)
         /\ stats'.copies = stats.copies + (IF IsCopy(c) THEN 1 ELSE 0)
         /\ stats'.computes = stats.computes + (IF IsCompute(c) THEN 1 ELSE 0)
<1>1. /\ pc = "run" /\ next <= Len(commands)
      /\ LoadFromSsd(c) \/ Copy(c) \/ Compute(c) \/ Evict(c)
  BY DEF ExecuteNext, Refuse, OutOfMemory, Exit
<1>2. stats \in Stats
  BY DEF IInv, StatsTyped
<1>0. /\ stats.seeds \in Int /\ stats.reads \in Int /\ stats.copies \in Int /\ stats.computes \in Int
      /\ {"seeds", "reads", "copies", "computes", "ran", "lazy", "writes"} \subseteq DOMAIN stats
  BY <1>2 DEF Stats
<1>3. CASE LoadFromSsd(c)
  <2>1. /\ stats' = [stats EXCEPT !.ran = stats.ran + 1, !.reads = stats.reads + 1]
        /\ pc' = "run" /\ next' = next + 1
    BY <1>1, <1>3 DEF LoadFromSsd, VerifyAndAdvance, Advance, Exit
  <2>2. IsRead(c) /\ ~IsCopy(c) /\ ~IsCompute(c)
    BY <1>3 DEF LoadFromSsd, IsRead, IsCopy, IsCompute, IsTransfer
  <2>3. QED
    BY <1>0, <2>1, <2>2
<1>4. CASE Copy(c)
  <2>1. /\ stats' = [stats EXCEPT !.ran = stats.ran + 1, !.copies = stats.copies + CopiesToVram(c),
                                  !.lazy = stats.lazy + Lazy(c, c.source)]
        /\ pc' = "run" /\ next' = next + 1
    BY <1>1, <1>4 DEF Copy, Advance
  <2>2. /\ ~IsRead(c) /\ ~IsCompute(c)
        /\ CopiesToVram(c) = IF IsCopy(c) THEN 1 ELSE 0
    BY <1>4 DEF Copy, CopiesToVram, IsRead, IsCopy, IsCompute, IsTransfer, Tiers
  <2>3. QED
    BY <1>0, <2>1, <2>2
<1>5. CASE Compute(c)
  <2> DEFINE made == stats.lazy + Lazy(c, "vram")
             done == stats.computes + 1
  <2>1. /\ stats' = [stats EXCEPT !.ran = stats.ran + 1, !.computes = done, !.lazy = made]
        /\ pc' = "run" /\ next' = next + 1
    BY <1>1, <1>5 DEF Compute, VerifyAndAdvance, Advance, Exit
  <2>2. ~IsRead(c) /\ ~IsCopy(c) /\ IsCompute(c)
    BY <1>5 DEF Compute, IsRead, IsCopy, IsCompute, IsTransfer
  <2> HIDE DEF made
  <2>3. QED
    BY <1>0, <2>1, <2>2
<1>6. CASE Evict(c)
  <2> DEFINE made == stats.lazy + Lazy(c, c.source)
  <2>1. /\ stats' = [stats EXCEPT !.ran = stats.ran + 1, !.writes = stats.writes + 1, !.lazy = made]
        /\ pc' = "run" /\ next' = next + 1
    BY <1>1, <1>6 DEF Evict, Advance, Exit
  <2>2. ~IsRead(c) /\ ~IsCopy(c) /\ ~IsCompute(c)
    BY <1>6 DEF Evict, IsRead, IsCopy, IsCompute, IsTransfer
  <2> HIDE DEF made
  <2>3. QED
    BY <1>0, <2>1, <2>2
<1>7. QED
  BY <1>1, <1>3, <1>4, <1>5, <1>6

LEMMA StepCountInv == IInv /\ CountInv /\ [Step]_vars => CountInv'
<1> SUFFICES ASSUME IInv, CountInv, [Step]_vars PROVE CountInv'
  OBVIOUS
<1>0. /\ next \in Nat \ {0} /\ Len(commands) \in Nat
      /\ pc = "export" => next = 1
      /\ stats \in Stats
  BY CommandFacts DEF IInv, NextTyped, StatsTyped
<1>1. UNCHANGED <<layout, origin, exported>> =>
        /\ commands' = commands
        /\ \A n : /\ Reads(n)' = Reads(n) /\ Copies(n)' = Copies(n)
                  /\ Computes(n)' = Computes(n) /\ Seeds(n)' = Seeds(n)
  BY PlanKept DEF Reads, Copies, Computes, Seeds, Seen
<1>2. ASSUME NEW op, ExportOp(op) PROVE CountInv'
  BY <1>2 DEF ExportOp, CountInv, NothingRan
<1>3. CASE OpenBacking
  <2>1. /\ pc = "export" /\ UNCHANGED <<layout, origin, exported, next, stats>>
        /\ pc' = "seed" \/ (pc' = "exited" /\ rc' # 0)
    BY <1>3 DEF OpenBacking, Exit
  <2>2. NothingRan' /\ stats'.seeds = 0
    BY <2>1 DEF CountInv, NothingRan
  <2>3. Cardinality(Seeds(next)') = 0 /\ next' <= Len(commands') + 1
    BY <1>0, <1>1, <2>1, NothingYet
  <2>4. QED
    BY <2>1, <2>2, <2>3 DEF CountInv
<1>4. CASE SeedNext
  <2>1. /\ pc = "seed" /\ next <= Len(commands) /\ UNCHANGED <<layout, origin, exported>>
        /\ \/ pc' = "exited" /\ rc' = 1
           \/ /\ pc' = "seed" /\ next' = next + 1
              /\ IF commands[next].source = "ssd" /\ ~Seen(next)
                 THEN stats' = [stats EXCEPT !.seeds = stats.seeds + 1]
                 ELSE stats' = stats
    BY <1>4 DEF SeedNext, Advance, Exit
  <2>2. CASE pc' = "exited" /\ rc' = 1
    BY <2>2 DEF CountInv
  <2>3. CASE pc' = "seed"
    <3>1. NothingRan' /\ stats'.seeds = stats.seeds
                          + (IF commands[next].source = "ssd" /\ ~Seen(next) THEN 1 ELSE 0)
      BY <1>0, <2>1, <2>3 DEF CountInv, NothingRan, Stats
    <3>2. stats.seeds = Cardinality(Seeds(next))
      BY <2>1 DEF CountInv
    <3>3. stats'.seeds = Cardinality(Seeds(next + 1))
      BY <1>0, <3>1, <3>2, NextCounts
    <3>4. Seeds(next)' = Seeds(next + 1) /\ next' <= Len(commands') + 1
      BY <1>0, <1>1, <2>1, <2>3 DEF Seeds
    <3>5. QED
      BY <2>3, <3>1, <3>3, <3>4 DEF CountInv
  <2>4. QED
    BY <2>1, <2>2, <2>3
<1>5. CASE StartRunning
  <2>1. /\ pc = "seed" /\ next > Len(commands) /\ pc' = "run" /\ next' = 1
        /\ UNCHANGED <<layout, origin, exported, stats>>
    BY <1>5 DEF StartRunning
  <2>2. next = Len(commands) + 1
    BY <1>0, <2>1 DEF CountInv
  <2>3. stats.seeds = Cardinality(Seeds(Len(commands) + 1)) /\ NothingRan
    BY <2>1, <2>2 DEF CountInv
  <2>4. (stats.seeds = Cardinality(Seeds(Len(commands) + 1)))'
    BY <1>1, <2>1, <2>3
  <2>5. Reads(next)' = Reads(1) /\ Copies(next)' = Copies(1) /\ Computes(next)' = Computes(1)
    BY <1>1, <2>1 DEF Reads, Copies, Computes
  <2>6. Ran(next)'
    BY <2>1, <2>3, <2>5, NothingYet DEF Ran, NothingRan
  <2>7. next' <= Len(commands') + 1
    BY <1>0, <1>1, <2>1
  <2>8. QED
    BY <2>1, <2>4, <2>6, <2>7 DEF CountInv
<1>6. CASE ExecuteNext
  <2>1. /\ pc = "run" /\ next <= Len(commands) /\ UNCHANGED <<layout, origin, exported>>
    BY <1>6 DEF ExecuteNext
  <2>2. CASE pc' = "exited"
    <3>1. rc' = 1
      BY <1>6, <2>1, <2>2
      DEF ExecuteNext, LoadFromSsd, Copy, Compute, Evict, Refuse, OutOfMemory,
          VerifyAndAdvance, Advance, Exit
    <3>2. QED
      BY <2>2, <3>1 DEF CountInv
  <2>3. CASE pc' # "exited"
    <3>1. /\ pc' = "run" /\ next' = next + 1
          /\ stats'.seeds = stats.seeds
          /\ stats'.reads = stats.reads + (IF IsRead(commands[next]) THEN 1 ELSE 0)
          /\ stats'.copies = stats.copies + (IF IsCopy(commands[next]) THEN 1 ELSE 0)
          /\ stats'.computes = stats.computes + (IF IsCompute(commands[next]) THEN 1 ELSE 0)
      BY <1>6, <2>3, TurnCounted
    <3>2. Ran(next)
      BY <2>1 DEF CountInv
    <3>3. /\ stats'.reads = Cardinality(Reads(next + 1))
          /\ stats'.copies = Cardinality(Copies(next + 1))
          /\ stats'.computes = Cardinality(Computes(next + 1))
      BY <1>0, <3>1, <3>2, NextCounts DEF Ran
    <3>4. /\ Reads(next)' = Reads(next + 1) /\ Copies(next)' = Copies(next + 1)
          /\ Computes(next)' = Computes(next + 1)
      BY <1>1, <2>1, <3>1 DEF Reads, Copies, Computes
    <3>5. Ran(next)'
      BY <3>3, <3>4 DEF Ran
    <3>6. (stats.seeds = Cardinality(Seeds(Len(commands) + 1)))' /\ next' <= Len(commands') + 1
      BY <1>0, <1>1, <2>1, <3>1 DEF CountInv
    <3>7. QED
      BY <3>1, <3>5, <3>6 DEF CountInv
  <2>4. QED
    BY <2>2, <2>3
<1>7. CASE Finish
  <2>1. /\ pc = "run" /\ next > Len(commands) /\ pc' = "exited"
        /\ UNCHANGED <<layout, origin, exported, stats>>
    BY <1>7 DEF Finish, Exit
  <2>2. next = Len(commands) + 1
    BY <1>0, <2>1 DEF CountInv
  <2>3. /\ Ran(Len(commands) + 1)
        /\ stats.seeds = Cardinality(Seeds(Len(commands) + 1))
    BY <2>1, <2>2 DEF CountInv
  <2>4. /\ Ran(Len(commands) + 1)'
        /\ (stats.seeds = Cardinality(Seeds(Len(commands) + 1)))'
    BY <1>1, <2>1, <2>3 DEF Ran
  <2>5. QED
    BY <2>1, <2>4 DEF CountInv
<1>8. CASE UNCHANGED vars
  <2>1. UNCHANGED <<layout, origin, exported, pc, next, stats, rc>>
    BY <1>8 DEF vars
  <2>2. QED
    BY <1>1, <2>1 DEF CountInv, Ran, NothingRan
<1>9. QED
  BY <1>2, <1>3, <1>4, <1>5, <1>6, <1>7, <1>8 DEF Step

(* The summary line of a run that succeeds says how many commands of each  *)
(* kind the file has, and how many different SSD ranges.                   *)
Summary ==
  pc = "exited" /\ rc = 0 =>
    LET n == Len(commands) + 1
    IN /\ stats.reads = Cardinality(Reads(n))
       /\ stats.copies = Cardinality(Copies(n))
       /\ stats.computes = Cardinality(Computes(n))
       /\ stats.seeds = Cardinality(Seeds(n))

(* The counters print_summary reports (runtime_kv_command_consumer.c) are  *)
(* those of the command file, for every plan and layout.                   *)
THEOREM SummaryCounts == Spec => []Summary
<1>1. CountInv => Summary
  BY DEF CountInv, Summary, Ran
<1>2. Init => IInv /\ PlanInv /\ CountInv
  BY InitIInv, StartCountInv DEF Init
<1>3. IInv /\ PlanInv /\ CountInv /\ [Next]_vars => (IInv /\ PlanInv /\ CountInv)'
  BY NextIsStep, StepIInv, StepCountInv
<1>4. QED
  BY <1>1, <1>2, <1>3, PTL DEF Spec

(***************************************************************************)
(* Exit codes.                                                             *)
(***************************************************************************)
ExitExplained ==
  /\ pc # "exited" => rc = 0
  /\ pc = "exited" => rc \in {0, 1, 2}
  /\ rc = 1 => ioFailed \/ \E i \in DOMAIN commands : ~Runnable(commands[i])
  /\ rc = 2 => exported = <<>>

LEMMA StartExit == Start => ExitExplained
BY DEF Start, ExitExplained

(* No check of the bytes fails, so that a load or a compute goes on.       *)
LEMMA TurnExit ==
  ASSUME IInv, ExecuteNext, pc' = "exited", NEW c, c = commands[next]
  PROVE  rc' = 1 /\ (ioFailed' \/ ~Runnable(c))
<1> DEFINE p == Pattern(c)
<1>1. /\ pc = "run" /\ next <= Len(commands)
      /\ LoadFromSsd(c) \/ Copy(c) \/ Compute(c) \/ Evict(c) \/ Refuse(c) \/ OutOfMemory
  BY DEF ExecuteNext
<1>2. next \in DOMAIN commands
  BY <1>1, CommandFacts DEF IInv, NextTyped
<1>3. c.size \in Nat \ {0}
  BY <1>2, CommandFacts DEF IInv
<1>4. Ensured(c, "vram") = p /\ Bytes(p, c.size) = p
  BY <1>2, <1>3, SlotFacts, PatternFacts DEF IInv, Tiers
<1>5. c.source = "ssd" => Read(c) = p
  BY <1>1, <1>2, ReadFacts DEF IInv, FileTrue
<1>6. CASE LoadFromSsd(c)
  BY <1>1, <1>5, <1>6 DEF LoadFromSsd, VerifyAndAdvance, Advance, Exit
<1>7. CASE Copy(c) \/ Compute(c)
  BY <1>1, <1>4, <1>7 DEF Copy, Compute, VerifyAndAdvance, Advance, Exit
<1>8. CASE Evict(c) \/ Refuse(c) \/ OutOfMemory
  BY <1>1, <1>8 DEF Evict, Refuse, OutOfMemory, Advance, Exit
<1>9. QED
  BY <1>1, <1>6, <1>7, <1>8

LEMMA StepExit == IInv /\ ExitExplained /\ [Step]_vars => ExitExplained'
<1> SUFFICES ASSUME IInv, ExitExplained, [Step]_vars PROVE ExitExplained'
  OBVIOUS
<1>1. ASSUME NEW op, ExportOp(op) PROVE ExitExplained'
  BY <1>1 DEF ExportOp, ExitExplained
<1>2. CASE OpenBacking
  BY <1>2 DEF OpenBacking, ExitExplained, Exit
<1>3. CASE SeedNext
  BY <1>3 DEF SeedNext, ExitExplained, Exit, Advance
<1>4. CASE StartRunning
  BY <1>4 DEF StartRunning, ExitExplained
<1>5. CASE Finish
  BY <1>5 DEF Finish, ExitExplained, Exit
<1>6. CASE ExecuteNext
  <2>1. /\ pc = "run" /\ next <= Len(commands) /\ UNCHANGED <<layout, origin, exported>>
    BY <1>6 DEF ExecuteNext
  <2>2. next \in DOMAIN commands /\ commands' = commands
    BY <2>1, CommandFacts, PlanKept DEF IInv, NextTyped
  <2>3. rc = 0
    BY <2>1 DEF ExitExplained
  <2>4. CASE pc' = "exited"
    BY <1>6, <2>2, <2>4, TurnExit DEF ExitExplained
  <2>5. CASE pc' # "exited"
    <3>1. rc' = rc
      BY <1>6, <2>5
      DEF ExecuteNext, LoadFromSsd, Copy, Compute, Evict, Refuse, OutOfMemory,
          VerifyAndAdvance, Advance, Exit
    <3>2. QED
      BY <2>3, <2>5, <3>1 DEF ExitExplained
  <2>6. QED
    BY <2>4, <2>5
<1>7. CASE UNCHANGED vars
  <2>1. UNCHANGED <<layout, origin, exported, pc, rc, ioFailed>>
    BY <1>7 DEF vars
  <2>2. QED
    BY <2>1, PlanKept DEF ExitExplained
<1>8. QED
  BY <1>1, <1>2, <1>3, <1>4, <1>5, <1>6, <1>7 DEF Step

(* The consumer fails only when I/O or an allocation did, or when the file *)
(* has a command that cannot run; it never fails because of bytes it read. *)
THEOREM FailuresExplained == Spec => []ExitExplained
<1>1. Init => IInv /\ PlanInv /\ ExitExplained
  BY InitIInv, StartExit DEF Init
<1>2. IInv /\ PlanInv /\ ExitExplained /\ [Next]_vars => (IInv /\ PlanInv /\ ExitExplained)'
  BY NextIsStep, StepIInv, StepExit
<1>3. QED
  BY <1>1, <1>2, PTL DEF Spec
=============================================================================
