---------------------------- MODULE LayoutsProofs ----------------------------
(***************************************************************************)
(* The backing file, for every set of blocks and every size, base offset   *)
(* and alignment: where a block is put, where in it a row lies, and which  *)
(* bytes of the tensors a row is mapped and copied to.                     *)
(*                                                                         *)
(* SSDFileLayout keeps blocks apart: each starts after the one that ends   *)
(* last.  InterleavedKVLayout keeps every byte for one row: blocks are     *)
(* apart and leave no byte between them, and that the rows of one block    *)
(* tile it is division by the stride.  The verifier of the byte ranges and *)
(* the mutation gate use the same rows; that no two of them meet in a      *)
(* tensor is division again, by the row and by the cells of the cache.     *)
(***************************************************************************)
EXTENDS SSDLayout, InterleavedLayout, KVByteRanges, FiniteSetTheorems, TLAPS

(***************************************************************************)
(* SSDFileLayout.  Once a block is laid out some range ends last, which is *)
(* what makes max() in _next_offset well defined.                          *)
(***************************************************************************)
SomeRangeEndsLast ==
  DOMAIN ranges # {} =>
    \E m \in DOMAIN ranges :
      \A k \in DOMAIN ranges : EndOffset(ranges[k]) <= EndOffset(ranges[m])

SSDInv == TypeOK /\ RangesDisjoint /\ RangesAligned /\ SomeRangeEndsLast

(* Align never moves an offset back and lands on a multiple.               *)
LEMMA AlignUp ==
  ASSUME NEW offset \in Nat
  PROVE  /\ Align(offset) \in Nat
         /\ Align(offset) >= offset
         /\ Align(offset) % Alignment = 0
<1>1. Alignment \in Nat /\ Alignment > 0
  BY LayoutAssumption
<1>2. offset % Alignment \in 0 .. Alignment - 1
  BY <1>1
<1>3. CASE offset % Alignment = 0
  BY <1>1, <1>3 DEF Align
<1>4. CASE offset % Alignment # 0
  <2>1. Align(offset) = offset + (Alignment - (offset % Alignment))
    BY <1>4 DEF Align
  <2>2. PICK q \in Int : offset = q * Alignment + (offset % Alignment)
    BY <1>1
  <2>3. Align(offset) = (q + 1) * Alignment
    BY <1>1, <1>2, <2>1, <2>2
  <2>4. ((q + 1) * Alignment) % Alignment = 0
    BY <1>1
  <2>5. QED
    BY <1>1, <1>2, <2>1, <2>3, <2>4
<1>5. QED
  BY <1>3, <1>4

(* The next offset lies at or after every range handed out so far.         *)
LEMMA NextOffsetBounds ==
  ASSUME TypeOK, RangesAligned, SomeRangeEndsLast
  PROVE  /\ NextOffset \in Nat
         /\ NextOffset >= BaseOffset
         /\ \A k \in DOMAIN ranges : EndOffset(ranges[k]) <= NextOffset
<1>1. BaseOffset \in Nat
  BY LayoutAssumption
<1>2. CASE DOMAIN ranges = {}
  BY <1>1, <1>2 DEF NextOffset
<1>3. CASE DOMAIN ranges # {}
  <2>1. PICK m \in DOMAIN ranges :
          \A k \in DOMAIN ranges : EndOffset(ranges[k]) <= EndOffset(ranges[m])
    BY <1>3 DEF SomeRangeEndsLast
  <2>2. \A k \in DOMAIN ranges : EndOffset(ranges[k]) \in Nat
    BY DEF TypeOK, EndOffset, Allocator!Range
  <2>3. EndOffset(ranges[m]) \in EndOffsets
    BY DEF EndOffsets
  <2>4. \A y \in EndOffsets : EndOffset(ranges[m]) >= y
    BY <2>1, <2>2 DEF EndOffsets
  <2>5. \E x \in EndOffsets : \A y \in EndOffsets : x >= y
    BY <2>3, <2>4
  <2>6. Max(EndOffsets) \in EndOffsets /\ \A y \in EndOffsets : Max(EndOffsets) >= y
    BY <2>5 DEF Max
  <2>7. \A k \in DOMAIN ranges : EndOffset(ranges[k]) <= Max(EndOffsets)
    BY <2>2, <2>6 DEF EndOffsets
  <2>8. Max(EndOffsets) \in Nat
    BY <2>2, <2>6 DEF EndOffsets
  <2>9. EndOffset(ranges[m]) >= BaseOffset
    BY <1>1, <2>1 DEF RangesAligned, TypeOK, EndOffset, Allocator!Range
  <2>10. Max(EndOffsets) >= BaseOffset
    BY <1>1, <2>2, <2>7, <2>8, <2>9
  <2>11. QED
    BY <1>3, <2>7, <2>8, <2>10 DEF NextOffset
<1>4. QED
  BY <1>2, <1>3

(* A new range is aligned, starts after every earlier one and ends last.   *)
LEMMA NewRangePlacement ==
  ASSUME TypeOK, RangesAligned, SomeRangeEndsLast,
         NEW size \in Nat, size > 0
  PROVE  /\ NewRange(size) \in Allocator!Range
         /\ NewRange(size).offset % Alignment = 0
         /\ NewRange(size).offset >= BaseOffset
         /\ \A k \in DOMAIN ranges :
              EndOffset(ranges[k]) <= NewRange(size).offset
<1>1. /\ NextOffset \in Nat
      /\ NextOffset >= BaseOffset
      /\ \A k \in DOMAIN ranges : EndOffset(ranges[k]) <= NextOffset
  BY NextOffsetBounds
<1>2. /\ Align(NextOffset) \in Nat
      /\ Align(NextOffset) >= NextOffset
      /\ Align(NextOffset) % Alignment = 0
  BY <1>1, AlignUp
<1>3. BaseOffset \in Nat
  BY LayoutAssumption
<1>4. \A k \in DOMAIN ranges : EndOffset(ranges[k]) \in Nat
  BY DEF TypeOK, EndOffset, Allocator!Range
<1>5. QED
  BY <1>1, <1>2, <1>3, <1>4 DEF NewRange, Allocator!Range

LEMMA InitSSD == SSDInit => SSDInv
BY DEF SSDInit, SSDInv, TypeOK, RangesDisjoint, RangesAligned, SomeRangeEndsLast

(* Every step keeps the invariant, and is a step of the abstract allocator *)
(* or leaves the ranges alone.                                             *)
LEMMA AssignStep ==
  ASSUME SSDInv, NEW k \in Blocks, NEW size \in Sizes, Assign(k, size)
  PROVE  SSDInv' /\ Allocator!Allocate(k)
<1> DEFINE new == NewRange(size)
<1>1. size \in Nat /\ size > 0
  BY LayoutAssumption DEF Assign
<1>2. /\ new \in Allocator!Range
      /\ new.offset % Alignment = 0
      /\ new.offset >= BaseOffset
      /\ \A j \in DOMAIN ranges : EndOffset(ranges[j]) <= new.offset
  BY <1>1, NewRangePlacement DEF SSDInv
<1>3. /\ k \notin DOMAIN ranges
      /\ DOMAIN ranges' = DOMAIN ranges \cup {k}
      /\ ranges'[k] = new
      /\ \A j \in DOMAIN ranges : ranges'[j] = ranges[j]
      /\ outcome' = "ok"
  BY DEF Assign
<1> HIDE DEF new
<1>4. TypeOK'
  BY <1>2, <1>3 DEF SSDInv, TypeOK
<1>5. RangesAligned'
  BY <1>2, <1>3 DEF SSDInv, RangesAligned
<1>6. \A j \in DOMAIN ranges : ~ Allocator!Overlap(new, ranges[j])
                             /\ ~ Allocator!Overlap(ranges[j], new)
  BY <1>2 DEF SSDInv, TypeOK, EndOffset, Allocator!Overlap, Allocator!EndOffset,
              Allocator!Range
<1>7. RangesDisjoint'
  BY <1>3, <1>6 DEF SSDInv, RangesDisjoint
<1>8. SomeRangeEndsLast'
  <2>1. \A j \in DOMAIN ranges : EndOffset(ranges[j]) <= EndOffset(new)
    BY <1>2 DEF SSDInv, TypeOK, EndOffset, Allocator!Range
  <2>2. EndOffset(new) <= EndOffset(new)
    BY <1>2 DEF EndOffset, Allocator!Range
  <2>3. QED
    BY <1>3, <2>1, <2>2 DEF SomeRangeEndsLast, EndOffset
<1>9. Allocator!Allocate(k)
  BY <1>2, <1>3, <1>6 DEF Allocator!Allocate
<1>10. QED
  BY <1>4, <1>5, <1>7, <1>8, <1>9 DEF SSDInv

LEMMA RejectStep ==
  ASSUME SSDInv, UNCHANGED ranges, outcome' \in {outcome, "KeyError", "ValueError"}
  PROVE  SSDInv'
BY DEF SSDInv, TypeOK, RangesDisjoint, RangesAligned, SomeRangeEndsLast

LEMMA NextSSD == SSDInv /\ [SSDNext]_ssdVars => SSDInv' /\ [Allocator!Next]_ranges
<1> SUFFICES ASSUME SSDInv, [SSDNext]_ssdVars
             PROVE  SSDInv' /\ [Allocator!Next]_ranges
  OBVIOUS
<1>1. ASSUME NEW k \in Blocks, NEW size \in Sizes, AddBlock(k, size)
      PROVE  SSDInv' /\ [Allocator!Next]_ranges
  <2>1. CASE Assign(k, size)
    BY <2>1, AssignStep DEF Allocator!Next
  <2>2. CASE RejectDuplicate(k)
    BY <2>2, RejectStep DEF RejectDuplicate
  <2>3. CASE RejectEmpty(k, size)
    BY <2>3, RejectStep DEF RejectEmpty
  <2>4. QED
    BY <1>1, <2>1, <2>2, <2>3 DEF AddBlock
<1>2. CASE UNCHANGED ssdVars
  BY <1>2, RejectStep DEF ssdVars
<1>3. QED
  BY <1>1, <1>2 DEF SSDNext

LEMMA SpecSSD == SSDSpec => []SSDInv
<1>1. SSDInit => SSDInv
  BY InitSSD
<1>2. SSDInv /\ [SSDNext]_ssdVars => SSDInv'
  BY NextSSD
<1>3. QED
  BY <1>1, <1>2, PTL DEF SSDSpec

(* Every reachable layout is well formed (SSDFileLayout._ranges).          *)
THEOREM LayoutTypeCorrect == SSDSpec => []TypeOK
BY SpecSSD, PTL DEF SSDInv

(* No two blocks ever share a byte of the backing file, whatever the block *)
(* sizes, the base offset and the alignment.                               *)
THEOREM LayoutDisjoint == SSDSpec => []RangesDisjoint
BY SpecSSD, PTL DEF SSDInv

(* Every range is aligned and starts at or after the base offset.          *)
THEOREM LayoutAligned == SSDSpec => []RangesAligned
BY SpecSSD, PTL DEF SSDInv

(* SSDFileLayout implements the abstract range allocator: ranges are only  *)
(* added, apart from each other, and never move.                           *)
THEOREM LayoutImplementsAllocator == SSDSpec => AllocatorSpec
<1>1. SSDInit => Allocator!Init
  BY DEF SSDInit, Allocator!Init
<1>2. SSDInv /\ [SSDNext]_ssdVars => [Allocator!Next]_ranges
  BY NextSSD
<1>3. QED
  BY <1>1, <1>2, SpecSSD, PTL DEF SSDSpec, AllocatorSpec, Allocator!Spec
-----------------------------------------------------------------------------
(***************************************************************************)
(* The rows of a block.                                                    *)
(***************************************************************************)
Layout == {l \in [start : Int, end : Int, base : Int, key : Nat \ {0}, value : Nat \ {0}] :
             l.start < l.end}

InBlock(l, byte) == l.base <= byte /\ byte < End(l)

(***************************************************************************)
(* Sizes and strides.                                                      *)
(***************************************************************************)
LEMMA Monotonic ==
  ASSUME NEW a \in Int, NEW b \in Int, NEW s \in Nat, a < b
  PROVE  a * s + s <= b * s
<1>1. b * s = a * s + (b - a) * s
  OBVIOUS
<1>2. (b - a) * s >= s
  OBVIOUS
<1>3. a * s \in Int /\ (b - a) * s \in Int /\ b * s \in Int
  OBVIOUS
<1>4. QED
  BY <1>1, <1>2, <1>3

LEMMA Division ==
  ASSUME NEW a \in Nat, NEW s \in Nat, s > 0
  PROVE  a % s \in 0 .. s - 1 /\ \E q \in Int : a = q * s + (a % s)
<1>1. a \div s \in Int /\ a % s \in 0 .. s - 1
  OBVIOUS
<1>2. a = (a \div s) * s + (a % s)
  OBVIOUS
<1>3. QED
  BY <1>1, <1>2

LEMMA RowSizes ==
  ASSUME NEW l \in Layout
  PROVE  /\ Stride(l) \in Nat \ {0} /\ Stride(l) = l.key + l.value
         /\ l.key \in Nat \ {0} /\ l.value \in Nat \ {0}
         /\ l.base \in Int /\ l.start \in Int /\ l.end \in Int /\ l.start < l.end
         /\ TotalSize(l) \in Nat \ {0}
         /\ End(l) \in Int
         /\ End(l) > l.base
<1>1. l.key \in Nat \ {0} /\ l.value \in Nat \ {0} /\ l.base \in Int
      /\ l.start \in Int /\ l.end \in Int /\ l.start < l.end
  BY DEF Layout
<1>2. Stride(l) \in Nat \ {0} /\ Stride(l) = l.key + l.value
  BY <1>1 DEF Stride
<1>3. l.end - l.start \in Int /\ 0 < l.end - l.start
  BY <1>1
<1>4. 0 * Stride(l) + Stride(l) <= (l.end - l.start) * Stride(l)
  BY <1>2, <1>3, Monotonic
<1>5. (l.end - l.start) * Stride(l) \in Int
  BY <1>2, <1>3
<1>6. TotalSize(l) \in Nat \ {0}
  BY <1>2, <1>4, <1>5 DEF TotalSize
<1>7. QED
  BY <1>1, <1>2, <1>6 DEF End

(* The rows of one block lie inside it ...                                 *)
LEMMA RowInBlock ==
  ASSUME NEW l \in Layout, NEW x \in Extents(l)
  PROVE  /\ x.kind \in Kinds /\ x.token \in Tokens(l) /\ x = Extent(l, x.kind, x.token)
         /\ x.offset \in Int /\ x.size \in Nat \ {0}
         /\ l.base <= x.offset /\ x.offset + x.size <= End(l)
<1>1. PICK kind \in Kinds, token \in Tokens(l) : x = Extent(l, kind, token)
  BY DEF Extents
<1>2. x.kind = kind /\ x.token = token
      /\ x.offset = RowOffset(l, kind, token) /\ x.size = RowSize(l, kind)
  BY <1>1 DEF Extent
<1>4. l.base \in Int /\ l.start \in Int /\ l.end \in Int /\ l.key \in Nat \ {0} /\ l.value \in Nat \ {0}
  BY DEF Layout
<1>5. token \in Int /\ l.start <= token /\ token < l.end
  BY <1>4 DEF Tokens
<1>6. Stride(l) \in Nat /\ Stride(l) = l.key + l.value
  BY RowSizes
<1>7. (token - l.start) * Stride(l) + Stride(l) <= (l.end - l.start) * Stride(l)
  BY <1>4, <1>5, <1>6, Monotonic
<1>8. (token - l.start) * Stride(l) \in Nat
  BY <1>4, <1>5, <1>6
<1>9. (l.end - l.start) * Stride(l) \in Int
  BY <1>4, <1>6
<1>10. End(l) = l.base + (l.end - l.start) * Stride(l)
  BY DEF End, TotalSize
<1>11. CASE kind = "k"
  <2>1. x.offset = l.base + (token - l.start) * Stride(l) /\ x.size = l.key
    BY <1>2, <1>4, <1>8, <1>11 DEF RowOffset, RowSize
  <2>2. QED
    BY <1>1, <1>2, <1>4, <1>6, <1>7, <1>8, <1>9, <1>10, <2>1
<1>12. CASE kind # "k"
  <2>1. x.offset = l.base + (token - l.start) * Stride(l) + l.key /\ x.size = l.value
    BY <1>2, <1>4, <1>12 DEF RowOffset, RowSize
  <2>2. QED
    BY <1>1, <1>2, <1>4, <1>6, <1>7, <1>8, <1>9, <1>10, <2>1
<1>13. QED
  BY <1>11, <1>12

(* ... every byte of the block is in one ...                               *)
LEMMA ByteInRow ==
  ASSUME NEW l \in Layout, NEW byte \in Int, InBlock(l, byte)
  PROVE  \E x \in Extents(l) : Covers(x, byte)
<1>1. l.key \in Nat \ {0} /\ l.value \in Nat \ {0}
  BY RowSizes
<1>2. l.base \in Int /\ l.start \in Int /\ l.end \in Int /\ l.start < l.end
  BY RowSizes
<1>3. Stride(l) \in Nat \ {0} /\ Stride(l) = l.key + l.value
  BY RowSizes
<1> DEFINE at == byte - l.base
           rest == at % Stride(l)
<1>4. at \in Nat /\ at < (l.end - l.start) * Stride(l)
  <2>1. End(l) = l.base + (l.end - l.start) * Stride(l)
    BY DEF End, TotalSize
  <2>2. (l.end - l.start) * Stride(l) \in Int
    BY <1>2, <1>3
  <2>3. QED
    BY <1>2, <2>1, <2>2 DEF InBlock
<1>5. rest \in 0 .. Stride(l) - 1
  BY <1>3, <1>4
<1>6. PICK q \in Int : at = q * Stride(l) + rest
  <2>1. ASSUME NEW s \in Nat, s > 0 PROVE \E q \in Int : at = q * s + (at % s)
    BY <1>4, <2>1, Division
  <2>2. Stride(l) \in Nat /\ Stride(l) > 0
    BY <1>3
  <2>3. QED
    BY <2>1, <2>2
<1>7. q >= 0
  <2>1. SUFFICES ASSUME q < 0 PROVE FALSE
    OBVIOUS
  <2>2. q * Stride(l) + Stride(l) <= 0 * Stride(l)
    BY <1>3, <2>1, Monotonic
  <2>3. q * Stride(l) \in Int
    BY <1>3
  <2>4. QED
    BY <1>3, <1>4, <1>5, <1>6, <2>2, <2>3
<1>8. q < l.end - l.start
  <2>1. SUFFICES ASSUME l.end - l.start <= q PROVE FALSE
    BY <1>2
  <2>2. (l.end - l.start) * Stride(l) <= q * Stride(l)
    BY <1>2, <1>3, <2>1, Monotonic
  <2>3. q * Stride(l) \in Int /\ (l.end - l.start) * Stride(l) \in Int
    BY <1>2, <1>3
  <2>4. QED
    BY <1>3, <1>4, <1>5, <1>6, <2>2, <2>3
<1> DEFINE token == l.start + q
<1>9. token \in Tokens(l) /\ token - l.start = q
  BY <1>2, <1>7, <1>8 DEF Tokens
<1>10. q * Stride(l) \in Int
  BY <1>3
<1>11. byte = l.base + q * Stride(l) + rest
  BY <1>2, <1>6, <1>10, <1>5
<1>12. CASE rest < l.key
  <2>1. Extent(l, "k", token).offset = l.base + q * Stride(l)
        /\ Extent(l, "k", token).size = l.key
    BY <1>2, <1>9, <1>10 DEF Extent, RowOffset, RowSize
  <2>2. Covers(Extent(l, "k", token), byte)
    BY <1>1, <1>2, <1>5, <1>10, <1>11, <1>12, <2>1 DEF Covers
  <2>3. QED
    BY <1>9, <2>2 DEF Extents, Kinds
<1>13. CASE rest >= l.key
  <2>1. Extent(l, "v", token).offset = l.base + q * Stride(l) + l.key
        /\ Extent(l, "v", token).size = l.value
    BY <1>2, <1>9, <1>10 DEF Extent, RowOffset, RowSize
  <2>2. Covers(Extent(l, "v", token), byte)
    BY <1>1, <1>2, <1>3, <1>5, <1>10, <1>11, <1>13, <2>1 DEF Covers
  <2>3. QED
    BY <1>9, <2>2 DEF Extents, Kinds
<1>14. QED
  BY <1>1, <1>5, <1>12, <1>13

(* ... and in no second one: rows of an earlier token end before it.       *)
LEMMA RowEndsInStride ==
  ASSUME NEW l \in Layout, NEW x \in Extents(l)
  PROVE  /\ x.token \in Int
         /\ (x.token - l.start) * Stride(l) \in Int
         /\ l.base + (x.token - l.start) * Stride(l) <= x.offset
         /\ x.offset + x.size <= l.base + (x.token - l.start) * Stride(l) + Stride(l)
         /\ x.kind = "k" => x.offset + x.size = l.base + (x.token - l.start) * Stride(l) + l.key
         /\ x.kind # "k" => x.offset = l.base + (x.token - l.start) * Stride(l) + l.key
<1>1. x.kind \in Kinds /\ x.token \in Tokens(l) /\ x = Extent(l, x.kind, x.token)
  BY RowInBlock
<1>2. x.offset = RowOffset(l, x.kind, x.token) /\ x.size = RowSize(l, x.kind)
  BY <1>1 DEF Extent
<1>3. l.key \in Nat /\ l.value \in Nat
  BY RowSizes
<1>4. l.base \in Int /\ l.start \in Int /\ l.end \in Int
  BY RowSizes
<1>5. x.token \in Int
  BY <1>1, <1>4 DEF Tokens
<1>6. Stride(l) \in Nat /\ Stride(l) = l.key + l.value
  BY RowSizes
<1>7. (x.token - l.start) * Stride(l) \in Int
  BY <1>4, <1>5, <1>6
<1>8. CASE x.kind = "k"
  BY <1>2, <1>3, <1>4, <1>5, <1>6, <1>7, <1>8 DEF RowOffset, RowSize
<1>9. CASE x.kind # "k"
  BY <1>2, <1>3, <1>4, <1>5, <1>6, <1>7, <1>9 DEF RowOffset, RowSize
<1>10. QED
  BY <1>8, <1>9

LEMMA OneRow ==
  ASSUME NEW l \in Layout, NEW byte \in Int,
         NEW x \in Extents(l), NEW y \in Extents(l), Covers(x, byte), Covers(y, byte)
  PROVE  x = y
<1>1. Stride(l) \in Nat /\ l.base \in Int /\ l.start \in Int /\ l.key \in Nat
  BY RowSizes
<1>2. ASSUME NEW a \in Extents(l), NEW b \in Extents(l), Covers(a, byte), Covers(b, byte),
             a.token < b.token
      PROVE  FALSE
  <2>1. /\ a.token \in Int /\ b.token \in Int
        /\ (a.token - l.start) * Stride(l) \in Int /\ (b.token - l.start) * Stride(l) \in Int
        /\ a.offset + a.size <= l.base + (a.token - l.start) * Stride(l) + Stride(l)
        /\ l.base + (b.token - l.start) * Stride(l) <= b.offset
    BY RowEndsInStride
  <2>2. a.offset \in Int /\ a.size \in Nat /\ b.offset \in Int /\ b.size \in Nat
    BY RowInBlock
  <2>3. (a.token - l.start) * Stride(l) + Stride(l) <= (b.token - l.start) * Stride(l)
    BY <1>1, <1>2, <2>1, Monotonic
  <2>4. QED
    BY <1>1, <1>2, <2>1, <2>2, <2>3 DEF Covers
<1>3. x.token \in Int /\ y.token \in Int
  BY RowEndsInStride
<1>4. x.token = y.token
  BY <1>2, <1>3
<1>5. x.kind = y.kind
  <2>1. ASSUME NEW a \in Extents(l), NEW b \in Extents(l), Covers(a, byte), Covers(b, byte),
               a.token = b.token, a.kind = "k", b.kind # "k"
        PROVE  FALSE
    <3>1. /\ (a.token - l.start) * Stride(l) \in Int
          /\ a.offset + a.size = l.base + (a.token - l.start) * Stride(l) + l.key
          /\ b.offset = l.base + (a.token - l.start) * Stride(l) + l.key
      BY <2>1, RowEndsInStride
    <3>2. a.offset \in Int /\ a.size \in Nat /\ b.offset \in Int /\ b.size \in Nat
      BY RowInBlock
    <3>3. QED
      BY <1>1, <2>1, <3>1, <3>2 DEF Covers
  <2>2. x.kind \in Kinds /\ y.kind \in Kinds
    BY RowInBlock
  <2>3. QED
    BY <1>4, <2>1, <2>2 DEF Kinds
<1>6. x = Extent(l, x.kind, x.token) /\ y = Extent(l, y.kind, y.token)
  BY RowInBlock
<1>7. QED
  BY <1>4, <1>5, <1>6

-----------------------------------------------------------------------------
(***************************************************************************)
(* InterleavedKVLayout.                                                    *)
(***************************************************************************)
IsTable ==
  /\ DOMAIN layouts \subseteq KVBlocks
  /\ \A k \in DOMAIN layouts : layouts[k] \in Layout /\ layouts[k].base >= KVBaseOffset

(* NextBase is the greatest end, or the base offset.                     *)
SomeBlockEndsLast ==
  IF DOMAIN layouts = {} THEN NextBase = KVBaseOffset
  ELSE /\ \E m \in DOMAIN layouts : NextBase = End(layouts[m])
       /\ \A k \in DOMAIN layouts : End(layouts[k]) <= NextBase

BlocksApart ==
  \A j, k \in DOMAIN layouts :
    j # k => End(layouts[j]) <= layouts[k].base \/ End(layouts[k]) <= layouts[j].base

NoByteBetween ==
  \A byte \in KVBaseOffset .. NextBase - 1 : \E k \in DOMAIN layouts : InBlock(layouts[k], byte)

KVInv == IsTable /\ SomeBlockEndsLast /\ BlocksApart /\ NoByteBetween

(***************************************************************************)
(* The state.                                                              *)
(***************************************************************************)
LEMMA NextBaseBounds ==
  ASSUME IsTable, SomeBlockEndsLast
  PROVE  /\ NextBase \in Nat /\ NextBase >= KVBaseOffset
         /\ \A k \in DOMAIN layouts : End(layouts[k]) \in Nat /\ End(layouts[k]) <= NextBase
<1>1. KVBaseOffset \in Nat
  BY InterleavedAssumption
<1>2. \A k \in DOMAIN layouts :
        /\ layouts[k].base \in Nat /\ layouts[k].base >= KVBaseOffset
        /\ End(layouts[k]) \in Nat /\ End(layouts[k]) > layouts[k].base
  BY <1>1, RowSizes DEF IsTable
<1>3. CASE DOMAIN layouts = {}
  BY <1>1, <1>3 DEF SomeBlockEndsLast
<1>4. CASE DOMAIN layouts # {}
  <2>1. PICK m \in DOMAIN layouts : NextBase = End(layouts[m])
    BY <1>4 DEF SomeBlockEndsLast
  <2>2. \A k \in DOMAIN layouts : End(layouts[k]) <= NextBase
    BY <1>4 DEF SomeBlockEndsLast
  <2>3. QED
    BY <1>1, <1>2, <2>1, <2>2
<1>5. QED
  BY <1>3, <1>4

(* A new layout starts where the last one ends, and ends last.             *)
LEMMA NewLayoutPlacement ==
  ASSUME IsTable, SomeBlockEndsLast, NEW i \in Intervals
  PROVE  NewLayout(i) \in Layout /\ NewLayout(i).base = NextBase
<1>1. /\ i.start \in Nat /\ i.end \in Nat /\ i.start < i.end
      /\ KeySize \in Nat \ {0} /\ ValueSize \in Nat \ {0}
  BY InterleavedAssumption
<1>2. NextBase \in Nat /\ NextBase >= KVBaseOffset
  BY NextBaseBounds
<1>3. QED
  BY <1>1, <1>2 DEF NewLayout, Layout

LEMMA InitInterleaved == InterleavedInit => KVInv
<1> SUFFICES ASSUME InterleavedInit PROVE KVInv
  OBVIOUS
<1>1. DOMAIN layouts = {}
  BY DEF InterleavedInit
<1>2. NextBase = KVBaseOffset
  BY <1>1 DEF NextBase
<1>3. KVBaseOffset \in Nat
  BY InterleavedAssumption
<1>4. QED
  BY <1>1, <1>2, <1>3 DEF KVInv, IsTable, SomeBlockEndsLast, BlocksApart, NoByteBetween

LEMMA AddStep ==
  ASSUME KVInv, NEW k \in KVBlocks, NEW i \in Intervals, AddLayout(k, i)
  PROVE  KVInv' /\ KVAllocator!Allocate(k)
<1> DEFINE new == NewLayout(i)
<1>1. new \in Layout /\ new.base = NextBase
  BY NewLayoutPlacement DEF KVInv
<1>2. /\ k \notin DOMAIN layouts
      /\ DOMAIN layouts' = DOMAIN layouts \cup {k}
      /\ layouts'[k] = new
      /\ \A j \in DOMAIN layouts : layouts'[j] = layouts[j]
  BY DEF AddLayout
<1> HIDE DEF new
<1>3. KVBaseOffset \in Nat
  BY InterleavedAssumption
<1>4. /\ NextBase \in Nat /\ NextBase >= KVBaseOffset
      /\ \A j \in DOMAIN layouts : End(layouts[j]) \in Nat /\ End(layouts[j]) <= NextBase
  BY NextBaseBounds DEF KVInv
<1>5. End(new) \in Nat /\ End(new) > new.base /\ TotalSize(new) \in Nat \ {0}
      /\ End(new) = new.base + TotalSize(new)
  BY <1>1, <1>4, RowSizes DEF End
<1>6. IsTable'
  BY <1>1, <1>2, <1>4 DEF KVInv, IsTable
<1>7. NextBase' = End(new)
  <2> DEFINE ends == {End(layouts'[j]) : j \in DOMAIN layouts'}
  <2>1. NextBase' = Max(ends)
    BY <1>2 DEF NextBase
  <2>2. End(new) \in ends
    BY <1>2
  <2>3. \A x \in ends : x \in Nat /\ End(new) >= x
    BY <1>1, <1>2, <1>4, <1>5
  <2> HIDE DEF ends
  <2>4. ASSUME NEW x \in ends, x >= End(new)
        PROVE  x = End(new)
    <3>1. x \in Nat /\ End(new) >= x
      BY <2>3
    <3>2. QED
      BY <1>5, <2>4, <3>1
  <2>5. Max(ends) \in ends /\ Max(ends) >= End(new)
    BY <2>2, <2>3 DEF Max
  <2>6. QED
    BY <2>1, <2>4, <2>5
<1>8. SomeBlockEndsLast'
  <2>1. DOMAIN layouts' # {} /\ k \in DOMAIN layouts' /\ NextBase' = End(layouts'[k])
    BY <1>2, <1>7
  <2>2. \A j \in DOMAIN layouts' : End(layouts'[j]) <= NextBase'
    BY <1>1, <1>2, <1>4, <1>5, <1>7
  <2>3. QED
    BY <2>1, <2>2 DEF SomeBlockEndsLast
<1>9. BlocksApart'
  BY <1>1, <1>2, <1>4 DEF KVInv, BlocksApart
<1>10. NoByteBetween'
  <2> SUFFICES ASSUME NEW byte \in KVBaseOffset .. NextBase' - 1
               PROVE  \E j \in DOMAIN layouts' : InBlock(layouts'[j], byte)
    BY DEF NoByteBetween
  <2>1. CASE byte < NextBase
    <3>1. byte \in KVBaseOffset .. NextBase - 1
      BY <1>3, <1>4, <1>5, <1>7, <2>1
    <3>2. PICK j \in DOMAIN layouts : InBlock(layouts[j], byte)
      BY <3>1 DEF KVInv, NoByteBetween
    <3>3. QED
      BY <1>2, <3>2
  <2>2. CASE byte >= NextBase
    <3>1. InBlock(new, byte)
      BY <1>1, <1>3, <1>4, <1>5, <1>7, <2>2 DEF InBlock
    <3>2. QED
      BY <1>2, <3>1
  <2>3. QED
    BY <1>3, <1>4, <1>5, <1>7, <2>1, <2>2
<1>11. KVAllocator!Allocate(k)
  <2>1. /\ DOMAIN Ranges = DOMAIN layouts /\ DOMAIN Ranges' = DOMAIN layouts'
        /\ \A j \in DOMAIN layouts :
             Ranges[j] = [offset |-> layouts[j].base, size |-> TotalSize(layouts[j])]
        /\ \A j \in DOMAIN layouts' :
             Ranges'[j] = [offset |-> layouts'[j].base, size |-> TotalSize(layouts'[j])]
    BY DEF Ranges
  <2>2. \A j \in DOMAIN layouts : Ranges'[j] = Ranges[j]
    BY <1>2, <2>1
  <2>3. Ranges'[k] = [offset |-> NextBase, size |-> TotalSize(new)]
    BY <1>1, <1>2, <2>1
  <2>4. Ranges'[k] \in KVAllocator!Range /\ Ranges'[k].offset >= KVBaseOffset
    BY <1>4, <1>5, <2>3 DEF KVAllocator!Range
  <2>5. \A j \in DOMAIN layouts : ~ KVAllocator!Overlap(Ranges'[k], Ranges[j])
    <3> SUFFICES ASSUME NEW j \in DOMAIN layouts
                 PROVE  ~ KVAllocator!Overlap(Ranges'[k], Ranges[j])
      OBVIOUS
    <3>1. KVAllocator!EndOffset(Ranges[j]) = End(layouts[j])
      BY <2>1 DEF KVAllocator!EndOffset, End
    <3>2. End(layouts[j]) <= NextBase /\ End(layouts[j]) \in Nat
      BY <1>4
    <3>3. QED
      BY <1>4, <2>3, <3>1, <3>2 DEF KVAllocator!Overlap
  <2>6. QED
    BY <1>2, <2>1, <2>2, <2>4, <2>5 DEF KVAllocator!Allocate
<1>12. QED
  BY <1>6, <1>8, <1>9, <1>10, <1>11 DEF KVInv

LEMMA SameStep ==
  ASSUME KVInv, UNCHANGED layouts
  PROVE  KVInv' /\ UNCHANGED Ranges
<1>1. NextBase' = NextBase
  BY DEF NextBase
<1>2. QED
  BY <1>1 DEF KVInv, IsTable, SomeBlockEndsLast, BlocksApart, NoByteBetween, Ranges

LEMMA NextInterleaved == KVInv /\ [InterleavedNext]_kvVars => KVInv' /\ [KVAllocator!Next]_Ranges
<1> SUFFICES ASSUME KVInv, [InterleavedNext]_kvVars
             PROVE  KVInv' /\ [KVAllocator!Next]_Ranges
  OBVIOUS
<1>1. ASSUME NEW k \in KVBlocks, NEW i \in Intervals, AddLayout(k, i)
      PROVE  KVInv' /\ [KVAllocator!Next]_Ranges
  BY <1>1, AddStep DEF KVAllocator!Next
<1>2. ASSUME NEW k \in KVBlocks, RejectLayout(k)
      PROVE  KVInv' /\ [KVAllocator!Next]_Ranges
  BY <1>2, SameStep DEF RejectLayout
<1>3. ASSUME NEW k \in KVBlocks, NEW token \in SomeTokens, TokenExtents(k, token)
      PROVE  KVInv' /\ [KVAllocator!Next]_Ranges
  BY <1>3, SameStep DEF TokenExtents
<1>4. CASE UNCHANGED kvVars
  BY <1>4, SameStep DEF kvVars
<1>5. QED
  BY <1>1, <1>2, <1>3, <1>4 DEF InterleavedNext

LEMMA SpecInterleaved == InterleavedSpec => []KVInv
<1>1. InterleavedInit => KVInv
  BY InitInterleaved
<1>2. KVInv /\ [InterleavedNext]_kvVars => KVInv'
  BY NextInterleaved
<1>3. QED
  BY <1>1, <1>2, PTL DEF InterleavedSpec

(***************************************************************************)
(* The rows.                                                               *)
(***************************************************************************)
LEMMA OwnersOfInvariant == KVInv => EveryByteHasOneOwner
<1> SUFFICES ASSUME KVInv PROVE EveryByteHasOneOwner
  OBVIOUS
<1>1. KVBaseOffset \in Nat /\ NextBase \in Nat
  BY NextBaseBounds, InterleavedAssumption DEF KVInv
<1>2. ASSUME NEW r \in PlacedRows
      PROVE  /\ r[1] \in DOMAIN layouts /\ r[2] \in Extents(layouts[r[1]])
             /\ r = <<r[1], r[2]>> /\ layouts[r[1]] \in Layout
  BY DEF PlacedRows, KVInv, IsTable
<1>3. ASSUME NEW r \in PlacedRows
      PROVE  /\ r[2].offset \in Int /\ r[2].size \in Nat
             /\ layouts[r[1]].base <= r[2].offset
             /\ r[2].offset + r[2].size <= End(layouts[r[1]])
  <2>1. r[1] \in DOMAIN layouts /\ r[2] \in Extents(layouts[r[1]]) /\ layouts[r[1]] \in Layout
    BY <1>2
  <2>2. QED
    BY <2>1, RowInBlock
<1>4. ASSUME NEW byte \in KVBaseOffset .. NextBase - 1
      PROVE  \E r \in PlacedRows : Covers(r[2], byte)
  <2>1. PICK k \in DOMAIN layouts : InBlock(layouts[k], byte)
    BY DEF KVInv, NoByteBetween
  <2>2. PICK x \in Extents(layouts[k]) : Covers(x, byte)
    BY <1>1, <2>1, ByteInRow DEF KVInv, IsTable
  <2>3. <<k, x>> \in PlacedRows
    BY DEF PlacedRows
  <2>4. QED
    BY <2>2, <2>3
<1>5. ASSUME NEW byte \in Int, NEW r \in PlacedRows, NEW s \in PlacedRows,
             Covers(r[2], byte), Covers(s[2], byte)
      PROVE  r = s
  <2>1. /\ r[1] \in DOMAIN layouts /\ r[2] \in Extents(layouts[r[1]]) /\ layouts[r[1]] \in Layout
        /\ s[1] \in DOMAIN layouts /\ s[2] \in Extents(layouts[s[1]]) /\ layouts[s[1]] \in Layout
        /\ r = <<r[1], r[2]>> /\ s = <<s[1], s[2]>>
    BY <1>2
  <2>2. ASSUME NEW q \in {r, s}
        PROVE  /\ layouts[q[1]].base \in Int /\ End(layouts[q[1]]) \in Int
               /\ layouts[q[1]].base <= byte /\ byte < End(layouts[q[1]])
    <3>1. q \in PlacedRows /\ Covers(q[2], byte) /\ layouts[q[1]] \in Layout
      BY <1>5, <2>1, <2>2
    <3>2. /\ q[2].offset \in Int /\ q[2].size \in Nat
          /\ layouts[q[1]].base <= q[2].offset
          /\ q[2].offset + q[2].size <= End(layouts[q[1]])
      BY <1>3, <3>1
    <3>3. layouts[q[1]].base \in Int /\ End(layouts[q[1]]) \in Int
      BY <3>1, RowSizes
    <3>4. QED
      BY <3>1, <3>2, <3>3 DEF Covers
  <2>3. r[1] = s[1]
    <3>1. SUFFICES ASSUME r[1] # s[1] PROVE FALSE
      OBVIOUS
    <3>2. End(layouts[r[1]]) <= layouts[s[1]].base \/ End(layouts[s[1]]) <= layouts[r[1]].base
      BY <2>1, <3>1 DEF KVInv, BlocksApart
    <3>3. QED
      BY <2>2, <3>2
  <2>4. r[2] = s[2]
    BY <1>5, <2>1, <2>3, OneRow
  <2>5. QED
    BY <2>1, <2>3, <2>4
<1>6. ASSUME NEW byte \in KVBaseOffset .. NextBase - 1
      PROVE  \E r \in PlacedRows : {q \in PlacedRows : Covers(q[2], byte)} = {r}
  <2>1. PICK r \in PlacedRows : Covers(r[2], byte)
    BY <1>4
  <2>2. byte \in Int
    BY <1>1
  <2>3. \A q \in PlacedRows : Covers(q[2], byte) => q = r
    BY <1>5, <2>1, <2>2
  <2>4. QED
    BY <2>1, <2>3
<1>7. ASSUME NEW r \in PlacedRows
      PROVE  r[2].offset >= KVBaseOffset /\ r[2].offset + r[2].size <= NextBase
  <2>1. /\ layouts[r[1]].base \in Int /\ layouts[r[1]].base >= KVBaseOffset
        /\ End(layouts[r[1]]) \in Nat /\ End(layouts[r[1]]) <= NextBase
    BY <1>2, NextBaseBounds, RowSizes DEF KVInv, IsTable
  <2>2. QED
    BY <1>1, <1>3, <2>1
<1>8. QED
  BY <1>6, <1>7 DEF EveryByteHasOneOwner

(* Every byte of the laid-out file is in exactly one key or value row, and *)
(* no row lies outside it (InterleavedKVLayout, BlockLayout).              *)
THEOREM InterleavedOwnership == InterleavedSpec => []EveryByteHasOneOwner
BY SpecInterleaved, OwnersOfInvariant, PTL

(* InterleavedKVLayout implements the abstract range allocator: a block's  *)
(* bytes are free when it gets them, and it keeps them.                    *)
THEOREM InterleavedImplementsAllocator == InterleavedSpec => InterleavedAllocatorSpec
<1>1. InterleavedInit => KVAllocator!Init
  BY DEF InterleavedInit, Ranges, KVAllocator!Init
<1>2. KVInv /\ [InterleavedNext]_kvVars => [KVAllocator!Next]_Ranges
  BY NextInterleaved
<1>3. QED
  BY <1>1, <1>2, SpecInterleaved, PTL DEF InterleavedSpec, InterleavedAllocatorSpec, KVAllocator!Spec
-----------------------------------------------------------------------------
(***************************************************************************)
(* KVByteRanges: the verifier.  A layout it keeps is the mapping of its    *)
(* block, with rows of at least one byte; while no error is counted, every *)
(* block it has passed is kept and has none of the errors that count.      *)
(***************************************************************************)
Keys == [layer : Int, block : Int, start : Int, end : Int]

BlocksTyped ==
  \A k \in DOMAIN blocks : k \in Keys /\ blocks[k] \in [offset : Int, size : Int]

CountsTyped ==
  /\ DOMAIN counts = {"size", "coverage", "bounds", "short", "alignment"}
  /\ \A c \in DOMAIN counts : counts[c] \in Nat

Mapped ==
  \A k \in DOMAIN mappings :
    /\ phase # "collect" /\ k \in DOMAIN blocks
    /\ mappings[k] = BlockMapping(k) /\ mappings[k] \in Layout

Clean(k) ==
  /\ k \in DOMAIN mappings
  /\ TotalSize(BlockMapping(k)) = blocks[k].size
  /\ OutOfBounds(k) = {}

PassedAreClean ==
  /\ phase = "done" => todo = {}
  /\ phase \in {"verify", "done"} /\ NoErrors =>
       \A k \in DOMAIN blocks \ todo : Clean(k)

VerifierInv ==
  /\ request \in Requests /\ todo \subseteq DOMAIN blocks
  /\ BlocksTyped /\ CountsTyped /\ Mapped /\ PassedAreClean

(* A row is in a layout for its token and kind.                            *)
LEMMA RowOfToken ==
  ASSUME NEW l \in Layout, NEW kind \in Kinds, NEW token \in Tokens(l)
  PROVE  /\ Extent(l, kind, token) \in Extents(l)
         /\ Extent(l, kind, token).size = RowSize(l, kind)
         /\ Extent(l, kind, token).token = token /\ Extent(l, kind, token).kind = kind
BY DEF Extents, Extent

(* A block has finitely many rows: counting them is meaningful.            *)
LEMMA RowsFinite ==
  ASSUME NEW l \in Layout
  PROVE  IsFiniteSet(Extents(l))
<1>1. IsFiniteSet(Tokens(l))
  <2>1. l.start \in Int /\ l.end - 1 \in Int
    BY DEF Layout
  <2>2. QED
    BY <2>1, FS_Interval DEF Tokens
<1>2. ASSUME NEW kind \in Kinds
      PROVE  IsFiniteSet({Extent(l, kind, t) : t \in Tokens(l)})
  <2> DEFINE T == {Extent(l, kind, t) : t \in Tokens(l)}
             f == [t \in Tokens(l) |-> Extent(l, kind, t)]
  <2>1. f \in [Tokens(l) -> T]
    OBVIOUS
  <2>2. \A x \in T : \E t \in Tokens(l) : f[t] = x
    OBVIOUS
  <2>3. f \in Surjection(Tokens(l), T)
    BY <2>1, <2>2 DEF Surjection
  <2> HIDE DEF T, f
  <2>4. IsFiniteSet(T)
    BY <1>1, <2>3, FS_Surjection
  <2>5. QED
    BY <2>4 DEF T
<1>3. Extents(l) = {Extent(l, "k", t) : t \in Tokens(l)} \cup {Extent(l, "v", t) : t \in Tokens(l)}
  BY DEF Extents, Kinds
<1>4. IsFiniteSet({Extent(l, "k", t) : t \in Tokens(l)})
      /\ IsFiniteSet({Extent(l, "v", t) : t \in Tokens(l)})
  BY <1>2 DEF Kinds
<1>5. QED
  BY <1>3, <1>4, FS_Union

(* Rows that do not raise have at least one byte.                          *)
LEMMA MappingIsLayout ==
  ASSUME VerifierInv, NEW k \in DOMAIN blocks, TokenCount(k) > 0,
         ~ RowsRaise(k, blocks[k].size)
  PROVE  BlockMapping(k) \in Layout
<1> DEFINE size == blocks[k].size
           per == size \div TokenCount(k)
<1>1. /\ k.start \in Int /\ k.end \in Int /\ k.end - k.start > 0
      /\ blocks[k].offset \in Int /\ size \in Int
  BY DEF VerifierInv, BlocksTyped, Keys, TokenCount
<1>2. TokenCount(k) \in Int /\ TokenCount(k) > 0
  BY <1>1 DEF TokenCount
<1>3. per \in Int
  BY <1>1, <1>2
<1>4. per \div 2 \in Int
  BY <1>3
<1>5. request.key \in Int \cup {NotGiven} /\ request.value \in Int \cup {NotGiven}
  BY ByteRangeAssumption DEF VerifierInv
<1> HIDE DEF per, size
<1>6. Rows(k, size).key \in Int /\ Rows(k, size).value \in Int
  <2>1. CASE size % TokenCount(k) # 0
    BY <1>5, <2>1 DEF Rows
  <2>2. CASE size % TokenCount(k) = 0 /\ request.key = NotGiven /\ request.value = NotGiven
    BY <1>4, <2>2 DEF Rows, per
  <2>3. CASE size % TokenCount(k) = 0 /\ ~ (request.key = NotGiven /\ request.value = NotGiven)
    BY <1>3, <1>5, <2>3 DEF Rows, per
  <2>4. QED
    BY <2>1, <2>2, <2>3
<1>7. Rows(k, size).key > 0 /\ Rows(k, size).value > 0
  BY <1>6 DEF RowsRaise, size
<1>8. QED
  BY <1>1, <1>6, <1>7 DEF BlockMapping, Layout, size

(* The bytes of a block are its rows', and its cells lie within the bound. *)
LEMMA CleanBlockCovers ==
  ASSUME VerifierInv, NEW k \in DOMAIN blocks, Clean(k)
  PROVE  /\ LET rows == Extents(mappings[k])
                bytes == blocks[k].offset .. blocks[k].offset + blocks[k].size - 1
            IN /\ \A b \in bytes : \E x \in rows : {y \in rows : Covers(y, b)} = {x}
               /\ \A x \in rows : x.offset \in bytes /\ x.offset + x.size - 1 \in bytes
         /\ request.bound # NotGiven => k.block + TokenCount(k) <= request.bound
<1> DEFINE m == BlockMapping(k)
           bytes == blocks[k].offset .. blocks[k].offset + blocks[k].size - 1
<1>1. mappings[k] = m /\ m \in Layout
  BY DEF Clean, VerifierInv, Mapped
<1>2. m.start = k.start /\ m.end = k.end /\ m.base = blocks[k].offset
  BY DEF BlockMapping
<1>3. /\ k.block \in Int /\ k.start \in Int /\ k.end \in Int
      /\ blocks[k].offset \in Int /\ blocks[k].size \in Int
  BY DEF VerifierInv, BlocksTyped, Keys
<1>4. End(m) = blocks[k].offset + blocks[k].size
  BY <1>2 DEF Clean, End
<1> HIDE DEF m
<1>5. ASSUME NEW b \in bytes
      PROVE  \E x \in Extents(m) : {y \in Extents(m) : Covers(y, b)} = {x}
  <2>1. b \in Int /\ InBlock(m, b)
    BY <1>2, <1>3, <1>4 DEF InBlock
  <2>2. PICK x \in Extents(m) : Covers(x, b)
    BY <1>1, <2>1, ByteInRow
  <2>3. \A y \in Extents(m) : Covers(y, b) => y = x
    BY <1>1, <2>1, <2>2, OneRow
  <2>4. QED
    BY <2>2, <2>3
<1>6. ASSUME NEW x \in Extents(m)
      PROVE  x.offset \in bytes /\ x.offset + x.size - 1 \in bytes
  <2>1. /\ x.offset \in Int /\ x.size \in Nat \ {0}
        /\ m.base <= x.offset /\ x.offset + x.size <= End(m)
    BY <1>1, RowInBlock
  <2>2. QED
    BY <1>2, <1>3, <1>4, <2>1
<1>7. ASSUME request.bound # NotGiven
      PROVE  k.block + TokenCount(k) <= request.bound
  <2> DEFINE last == k.end - 1
             x == Extent(m, "k", last)
  <2>1. k.start < k.end /\ m.key \in Nat \ {0}
    BY <1>1, <1>2, RowSizes
  <2>2. last \in Tokens(m) /\ "k" \in Kinds
    BY <1>2, <1>3, <2>1 DEF Tokens, Kinds
  <2>3. x \in Extents(m) /\ x.size = m.key /\ x.token = last /\ x.kind = "k"
    BY <1>1, <2>2, RowOfToken DEF RowSize
  <2>4. ~ (TensorOffset(k, m, x) + x.size > request.bound * m.key)
    BY <1>7, <2>3 DEF Clean, OutOfBounds, m, RowSize
  <2>5. TensorOffset(k, m, x) = (k.block + (last - k.start)) * m.key
    BY <2>3 DEF TensorOffset, RowSize
  <2>6. request.bound \in Int
    BY <1>7, ByteRangeAssumption DEF VerifierInv
  <2> HIDE DEF x
  <2>7. SUFFICES ASSUME request.bound < k.block + TokenCount(k) PROVE FALSE
    BY <1>3, <2>6 DEF TokenCount
  <2> DEFINE c == k.block + (last - k.start)
  <2>8. c \in Int /\ request.bound < c + 1
    BY <1>3, <2>7 DEF TokenCount
  <2>9. (c + 1) * m.key = c * m.key + m.key
    BY <2>1, <2>8
  <2>10. request.bound * m.key + m.key <= (c + 1) * m.key
    <3> HIDE DEF c
    <3>1. c + 1 \in Int /\ m.key \in Nat
      BY <2>1, <2>8
    <3>2. QED
      BY <2>6, <2>8, <3>1, Monotonic
  <2>11. request.bound * m.key \in Int /\ c * m.key \in Int
    BY <2>1, <2>6, <2>8
  <2> HIDE DEF last, c
  <2>12. TensorOffset(k, m, x) = c * m.key
    BY <2>5 DEF c
  <2>13. ~ (c * m.key + m.key > request.bound * m.key)
    BY <2>3, <2>4, <2>12
  <2>14. QED
    BY <2>1, <2>9, <2>10, <2>11, <2>13
<1>8. QED
  BY <1>1, <1>5, <1>6, <1>7

LEMMA CoversOfInvariant == VerifierInv => CleanMappingCovers
<1> SUFFICES ASSUME VerifierInv, phase = "done", NoErrors, NEW k \in DOMAIN blocks
             PROVE  /\ k \in DOMAIN mappings
                    /\ LET rows == Extents(mappings[k])
                           bytes == blocks[k].offset .. blocks[k].offset + blocks[k].size - 1
                       IN /\ \A b \in bytes : \E x \in rows : {y \in rows : Covers(y, b)} = {x}
                          /\ \A x \in rows : x.offset \in bytes /\ x.offset + x.size - 1 \in bytes
                    /\ request.bound # NotGiven => k.block + TokenCount(k) <= request.bound
  BY DEF CleanMappingCovers
<1>1. Clean(k)
  BY DEF VerifierInv, PassedAreClean
<1>2. k \in DOMAIN mappings
  BY <1>1 DEF Clean
<1>3. QED
  BY <1>1, <1>2, CleanBlockCovers

(* A step that leaves a block's range, the request and the mapping alone   *)
(* leaves the block as clean as it was.                                    *)
LEMMA SameMapping ==
  ASSUME request' = request, NEW k, blocks'[k] = blocks[k]
  PROVE  /\ BlockMapping(k)' = BlockMapping(k)
         /\ OutOfBounds(k)' = OutOfBounds(k)
<1>1. \A size : Rows(k, size)' = Rows(k, size)
  BY DEF Rows, TokenCount
<1>2. BlockMapping(k)' = BlockMapping(k)
  BY <1>1 DEF BlockMapping
<1>3. QED
  BY <1>2 DEF OutOfBounds, TensorOffset

LEMMA VerifierSameStep ==
  ASSUME VerifierInv, UNCHANGED verifierVars
  PROVE  VerifierInv'
<1>1. phase' = phase /\ blocks' = blocks /\ todo' = todo /\ counts' = counts
      /\ mappings' = mappings /\ request' = request
  BY DEF verifierVars
<1>2. \A k : BlockMapping(k)' = BlockMapping(k) /\ OutOfBounds(k)' = OutOfBounds(k)
  BY <1>1, SameMapping
<1>3. Mapped'
  BY <1>1, <1>2 DEF VerifierInv, Mapped
<1>4. PassedAreClean'
  BY <1>1, <1>2 DEF VerifierInv, PassedAreClean, Clean, NoErrors
<1>5. QED
  BY <1>1, <1>3, <1>4 DEF VerifierInv, BlocksTyped, CountsTyped

LEMMA CollectStep ==
  ASSUME VerifierInv, NEW op \in PlanOps, Collect(op)
  PROVE  VerifierInv'
<1>1. op \in [layer : Int, block : Int, start : Int, end : Int, offset : Int, size : Int]
  BY ByteRangeAssumption
<1>2. BlockKey(op) \in Keys
      /\ [offset |-> op.offset, size |-> op.size] \in [offset : Int, size : Int]
  BY <1>1 DEF BlockKey, Keys
<1>3. /\ phase = "collect" /\ phase' \in {"collect", "raised"}
      /\ counts' = counts /\ mappings' = mappings /\ request' = request
  BY DEF Collect
<1>4. BlocksTyped' /\ todo' \subseteq DOMAIN blocks'
  BY <1>2 DEF Collect, VerifierInv, BlocksTyped
<1>5. Mapped' /\ PassedAreClean'
  BY <1>3 DEF VerifierInv, Mapped, PassedAreClean
<1>6. QED
  BY <1>3, <1>4, <1>5 DEF VerifierInv, CountsTyped

LEMMA BeginStep ==
  ASSUME VerifierInv, BeginVerify
  PROVE  VerifierInv'
<1>1. /\ phase = "collect" /\ phase' = "verify" /\ todo' = DOMAIN blocks'
      /\ blocks' = blocks /\ counts' = counts /\ mappings' = mappings /\ request' = request
  BY DEF BeginVerify
<1>2. BlocksTyped' /\ CountsTyped'
  BY <1>1 DEF VerifierInv, BlocksTyped, CountsTyped
<1>3. Mapped' /\ PassedAreClean'
  BY <1>1 DEF VerifierInv, Mapped, PassedAreClean
<1>4. QED
  BY <1>1, <1>2, <1>3 DEF VerifierInv

LEMMA ReportStep ==
  ASSUME VerifierInv, Report
  PROVE  VerifierInv'
<1>1. /\ phase = "verify" /\ phase' = "done" /\ todo' = {} /\ todo = {}
      /\ blocks' = blocks /\ counts' = counts /\ mappings' = mappings /\ request' = request
  BY DEF Report
<1>2. \A k : BlockMapping(k)' = BlockMapping(k) /\ OutOfBounds(k)' = OutOfBounds(k)
  BY <1>1, SameMapping
<1>3. BlocksTyped' /\ CountsTyped' /\ Mapped'
  BY <1>1, <1>2 DEF VerifierInv, BlocksTyped, CountsTyped, Mapped
<1>4. PassedAreClean'
  BY <1>1, <1>2 DEF VerifierInv, PassedAreClean, Clean, NoErrors
<1>5. QED
  BY <1>1, <1>3, <1>4 DEF VerifierInv

(* A counted block adds to the counters what it has of each error, so      *)
(* counters still at zero mean that it has none.                           *)
LEMMA VerifyStep ==
  ASSUME VerifierInv, NEW k \in todo, VerifyBlock(k)
  PROVE  VerifierInv'
<1>1. /\ phase = "verify" /\ todo' = todo \ {k} /\ blocks' = blocks /\ request' = request
      /\ k \in DOMAIN blocks
  BY DEF VerifyBlock, VerifierInv
<1>2. \A j : BlockMapping(j)' = BlockMapping(j) /\ OutOfBounds(j)' = OutOfBounds(j)
  BY <1>1, SameMapping
<1>3. BlocksTyped'
  BY <1>1 DEF VerifierInv, BlocksTyped
<1>4. CASE TokenCount(k) <= 0
  <2>1. counts' = Count({"size"}) /\ mappings' = mappings /\ phase' = phase
    BY <1>4 DEF VerifyBlock
  <2>2. DOMAIN counts' = DOMAIN counts
        /\ \A c \in DOMAIN counts : counts'[c] = counts[c] + (IF c \in {"size"} THEN 1 ELSE 0)
    BY <2>1 DEF Count
  <2>3. CountsTyped' /\ counts'["size"] # 0
    BY <2>2 DEF VerifierInv, CountsTyped
  <2>4. ~ NoErrors'
    BY <2>3 DEF NoErrors, CountsTyped
  <2>5. Mapped'
    BY <1>1, <1>2, <2>1 DEF VerifierInv, Mapped
  <2>6. PassedAreClean'
    BY <1>1, <2>1, <2>4 DEF PassedAreClean
  <2>7. QED
    BY <1>1, <1>3, <2>3, <2>5, <2>6 DEF VerifierInv
<1>5. CASE TokenCount(k) > 0 /\ RowsRaise(k, blocks[k].size)
  <2>0. ~ (TokenCount(k) <= 0)
    BY <1>1, <1>5 DEF VerifierInv, BlocksTyped, Keys, TokenCount
  <2>1. phase' = "raised" /\ counts' = counts /\ mappings' = mappings
    BY <1>5, <2>0 DEF VerifyBlock
  <2>2. CountsTyped' /\ PassedAreClean'
    BY <2>1 DEF VerifierInv, CountsTyped, PassedAreClean
  <2>3. Mapped'
    BY <1>1, <1>2, <2>1 DEF VerifierInv, Mapped
  <2>4. QED
    BY <1>1, <1>3, <2>2, <2>3 DEF VerifierInv
<1>6. CASE TokenCount(k) > 0 /\ ~ RowsRaise(k, blocks[k].size)
  <2> DEFINE short == IF request.backing /\ blocks[k].offset + blocks[k].size > FileLength THEN 1 ELSE 0
             misaligned == IF blocks[k].offset % PlanAlignment # 0 THEN 1 ELSE 0
             uncovered == IF CoverageError(k) THEN 1 ELSE 0
             beyond == Cardinality(OutOfBounds(k))
             wrong == SizeMismatches(k)
  <2>0. ~ (TokenCount(k) <= 0)
    BY <1>1, <1>6 DEF VerifierInv, BlocksTyped, Keys, TokenCount
  <2>1. /\ mappings' = [j \in DOMAIN mappings \cup {k} |->
                          IF j = k THEN BlockMapping(k) ELSE mappings[j]]
        /\ counts' = [size |-> counts.size + wrong, coverage |-> counts.coverage + uncovered,
                      bounds |-> counts.bounds + beyond, short |-> counts.short + short,
                      alignment |-> counts.alignment + misaligned]
        /\ phase' = phase
    BY <1>6, <2>0 DEF VerifyBlock
  <2>2. BlockMapping(k) \in Layout
    BY <1>1, <1>6, MappingIsLayout
  <2>3. short \in Nat /\ misaligned \in Nat /\ uncovered \in Nat
    OBVIOUS
  <2>4. beyond \in Nat /\ (beyond = 0 => OutOfBounds(k) = {})
    <3>1. IsFiniteSet(Extents(BlockMapping(k)))
      BY <2>2, RowsFinite
    <3>2. OutOfBounds(k) \in SUBSET Extents(BlockMapping(k))
      BY DEF OutOfBounds
    <3>3. IsFiniteSet(OutOfBounds(k))
      BY <3>1, <3>2, FS_Subset
    <3>4. QED
      BY <3>3, FS_CardinalityType, FS_EmptySet
  <2>5. wrong \in Nat /\ (wrong = 0 => TotalSize(BlockMapping(k)) = blocks[k].size)
    BY DEF SizeMismatches
  <2> HIDE DEF short, misaligned, uncovered, beyond, wrong
  <2>6. /\ counts["size"] \in Nat /\ counts["coverage"] \in Nat /\ counts["bounds"] \in Nat
        /\ counts["short"] \in Nat /\ counts["alignment"] \in Nat
    BY DEF VerifierInv, CountsTyped
  <2>7. /\ DOMAIN counts' = {"size", "coverage", "bounds", "short", "alignment"}
        /\ counts'["size"] = counts["size"] + wrong
        /\ counts'["coverage"] = counts["coverage"] + uncovered
        /\ counts'["bounds"] = counts["bounds"] + beyond
        /\ counts'["short"] = counts["short"] + short
        /\ counts'["alignment"] = counts["alignment"] + misaligned
    BY <2>1
  <2>8. CountsTyped'
    BY <2>3, <2>4, <2>5, <2>6, <2>7 DEF CountsTyped
  <2>9. NoErrors' => NoErrors /\ wrong = 0 /\ beyond = 0
    <3>1. SUFFICES ASSUME NoErrors' PROVE NoErrors /\ wrong = 0 /\ beyond = 0
      OBVIOUS
    <3>2. /\ counts'["size"] = 0 /\ counts'["coverage"] = 0 /\ counts'["bounds"] = 0
          /\ counts'["short"] = 0 /\ counts'["alignment"] = 0
      BY <2>7, <3>1 DEF NoErrors
    <3>3. /\ counts["size"] = 0 /\ counts["coverage"] = 0 /\ counts["bounds"] = 0
          /\ counts["short"] = 0 /\ counts["alignment"] = 0 /\ wrong = 0 /\ beyond = 0
      <4>1. \A a, b \in Nat : a + b = 0 => a = 0 /\ b = 0
        OBVIOUS
      <4>2. counts["size"] = 0 /\ wrong = 0
        BY <2>5, <2>6, <2>7, <3>2, <4>1
      <4>3. counts["coverage"] = 0
        BY <2>3, <2>6, <2>7, <3>2, <4>1
      <4>4. counts["bounds"] = 0 /\ beyond = 0
        BY <2>4, <2>6, <2>7, <3>2, <4>1
      <4>5. counts["short"] = 0 /\ counts["alignment"] = 0
        BY <2>3, <2>6, <2>7, <3>2, <4>1
      <4>6. QED
        BY <4>2, <4>3, <4>4, <4>5
    <3>4. QED
      BY <3>3 DEF NoErrors, VerifierInv, CountsTyped
  <2>10. Mapped'
    BY <1>1, <1>2, <2>1, <2>2 DEF VerifierInv, Mapped
  <2>11. PassedAreClean'
    <3>1. SUFFICES ASSUME NoErrors', NEW j \in DOMAIN blocks \ (todo \ {k})
                   PROVE  Clean(j)'
      BY <1>1, <2>1 DEF PassedAreClean
    <3>2. j # k => Clean(j)
      BY <1>1, <2>9, <3>1 DEF VerifierInv, PassedAreClean
    <3>3. CASE j = k
      BY <1>1, <1>2, <2>1, <2>4, <2>5, <2>9, <3>1, <3>3 DEF Clean
    <3>4. CASE j # k
      BY <1>1, <1>2, <2>1, <3>2, <3>4 DEF Clean
    <3>5. QED
      BY <3>3, <3>4
  <2>12. QED
    BY <1>1, <1>3, <2>8, <2>10, <2>11 DEF VerifierInv
<1>7. TokenCount(k) \in Int
  BY <1>1 DEF VerifierInv, BlocksTyped, Keys, TokenCount
<1>8. QED
  BY <1>4, <1>5, <1>6, <1>7

-----------------------------------------------------------------------------
(***************************************************************************)
(* KVByteRanges: the executor.  A mutation that was not refused copies     *)
(* rows of the tensors' own size to cells of the cache.                    *)
(***************************************************************************)
StagedTyped == \A k \in DOMAIN staged : k \in DOMAIN blocks /\ CanStage(k)

Statuses == {"ok", "unsupported", "size_mismatch", "tensor_bounds_error"}

TraceTyped ==
  /\ trace \in Seq([key : Keys, status : Statuses])
  /\ \A i \in DOMAIN trace :
       trace[i].key \in DOMAIN staged /\ trace[i].status = Status(trace[i].key)

Row(kind) == IF kind = "k" THEN tensor.keyRow ELSE tensor.valueRow

InTensors ==
  \A place \in DOMAIN cells : 0 <= place[3] /\ place[3] < CacheSize * Row(place[2])

To(k, x, b) == <<k.layer, x.kind, Place(x.kind, k.block + (x.token - k.start), b)>>

HoldsRows(k) ==
  \A x \in Extents(StagedLayout(k)), b \in 0 .. RuntimeRow(k) - 1 :
    To(k, x, b) \in DOMAIN cells /\ cells[To(k, x, b)] = x.offset + b

RowsStand == \A i \in Standing : HoldsRows(trace[i].key)

RuntimeInv ==
  /\ tensor \in Tensors
  /\ StagedTyped /\ TraceTyped /\ InTensors /\ RowsStand

ByteRangesInv == VerifierInv /\ RuntimeInv

(* Two numbers written with digits below s are equal digit by digit.       *)
LEMMA Digits ==
  ASSUME NEW s \in Nat, NEW a \in Int, NEW b \in Int,
         NEW i \in 0 .. s - 1, NEW j \in 0 .. s - 1, a * s + i = b * s + j
  PROVE  a = b /\ i = j
<1>1. a * s \in Int /\ b * s \in Int
  OBVIOUS
<1>2. ~ (a < b)
  <2>1. a < b => a * s + s <= b * s
    BY Monotonic
  <2>2. QED
    BY <1>1, <2>1
<1>3. ~ (b < a)
  <2>1. b < a => b * s + s <= a * s
    BY Monotonic
  <2>2. QED
    BY <1>1, <2>1
<1>4. a = b
  BY <1>2, <1>3
<1>5. QED
  BY <1>1, <1>4

LEMMA Bounded ==
  ASSUME NEW s \in Nat, NEW n \in Nat, NEW a \in 0 .. n - 1, NEW i \in 0 .. s - 1
  PROVE  a * s + i \in 0 .. n * s - 1
<1>1. a * s + s <= n * s
  BY Monotonic
<1>2. a * s \in Nat /\ n * s \in Nat
  OBVIOUS
<1>3. QED
  BY <1>1, <1>2

(* What an attempt that was not refused has of its block.                  *)
LEMMA RowsFit ==
  ASSUME VerifierInv, tensor \in Tensors, NEW k \in DOMAIN blocks, CanStage(k),
         Status(k) = "ok"
  PROVE  /\ RuntimeRow(k) \in Nat \ {0}
         /\ tensor.keyRow = RuntimeRow(k) /\ tensor.valueRow = RuntimeRow(k)
         /\ k \in Keys /\ k.start < k.end
         /\ 0 <= k.block /\ k.block + TokenCount(k) <= CacheSize
         /\ StagedLayout(k) \in Layout
<1>1. k \in Keys /\ blocks[k].offset \in Int /\ blocks[k].size \in Int
  BY DEF VerifierInv, BlocksTyped
<1>2. 0 <= k.block /\ k.start < k.end
  BY DEF CanStage
<1>3. /\ RuntimeRow(k) # 0
      /\ ~ (k.block + TokenCount(k) > CacheSize)
      /\ tensor.keyRow = RuntimeRow(k) /\ tensor.valueRow = RuntimeRow(k)
  BY DEF Status
<1>4. tensor.keyRow \in Nat
  BY ByteRangeAssumption
<1>5. RuntimeRow(k) \in Nat \ {0}
  BY <1>3, <1>4
<1>6. k.block + TokenCount(k) <= CacheSize
  BY <1>1, <1>3, ByteRangeAssumption DEF TokenCount, Keys
<1>7. k.start \in Int /\ k.end \in Int
  BY <1>1 DEF Keys
<1>8. StagedLayout(k) \in Layout
  BY <1>1, <1>2, <1>5, <1>7 DEF StagedLayout, Layout
<1>9. QED
  BY <1>1, <1>2, <1>3, <1>5, <1>6, <1>8

(* Bytes of rows have places inside the tensor, and no two share one.      *)
LEMMA Places ==
  ASSUME tensor \in Tensors, tensor.keyRow = tensor.valueRow,
         NEW kind \in Kinds,
         NEW c \in 0 .. CacheSize - 1, NEW i \in 0 .. tensor.keyRow - 1
  PROVE  /\ Place(kind, c, i) \in 0 .. CacheSize * tensor.keyRow - 1
         /\ \A d \in 0 .. CacheSize - 1, j \in 0 .. tensor.keyRow - 1 :
              Place(kind, c, i) = Place(kind, d, j) => c = d /\ i = j
<1> DEFINE R == tensor.keyRow
           e == tensor.element
           n == tensor.columns
<1>1. R \in Nat /\ e \in Nat \ {0} /\ n \in Nat /\ R = n * e /\ CacheSize \in Nat
  BY ByteRangeAssumption
<1>2. CASE ~ (kind = "v" /\ tensor.transposed)
  <2>1. \A d, j : Place(kind, d, j) = d * R + j
    BY <1>2 DEF Place
  <2>0. i \in 0 .. R - 1
    OBVIOUS
  <2> HIDE DEF R
  <2>2. c * R + i \in 0 .. CacheSize * R - 1
    BY <1>1, <2>0, Bounded
  <2>3. ASSUME NEW d \in 0 .. CacheSize - 1, NEW j \in 0 .. R - 1, c * R + i = d * R + j
        PROVE  c = d /\ i = j
    <3>1. c \in Int /\ d \in Int
      BY <1>1
    <3>2. QED
      BY <1>1, <2>0, <2>3, <3>1, Digits
  <2>4. QED
    BY <2>1, <2>2, <2>3 DEF R
<1>3. CASE kind = "v" /\ tensor.transposed
  <2>1. \A d, j : Place(kind, d, j) = (d + (j \div e) * CacheSize) * e + (j % e)
    BY <1>3 DEF Place
  <2>2. ASSUME NEW j \in 0 .. R - 1
        PROVE  j \div e \in 0 .. n - 1 /\ j % e \in 0 .. e - 1 /\ j = (j \div e) * e + (j % e)
    <3> HIDE DEF R, e, n
    <3>1. j \in Nat /\ j < n * e
      BY <1>1, <2>2
    <3>2. j \div e \in Int /\ j % e \in 0 .. e - 1 /\ j = (j \div e) * e + (j % e)
      BY <1>1, <3>1
    <3>3. j \div e >= 0
      BY <1>1, <3>1
    <3>4. PICK q \in Int : q = j \div e
      BY <3>2
    <3>5. PICK r \in 0 .. e - 1 : r = j % e
      BY <3>2
    <3>6. q < n
      <4>1. SUFFICES ASSUME n <= q PROVE FALSE
        BY <1>1
      <4>2. n * e <= q * e
        <5>1. n < q => n * e + e <= q * e
          BY <1>1, Monotonic
        <5>2. n * e \in Int /\ q * e \in Int
          BY <1>1
        <5>3. QED
          BY <1>1, <4>1, <5>1, <5>2
      <4>3. j = q * e + r /\ q * e \in Int /\ n * e \in Int
        BY <1>1, <3>2, <3>4, <3>5
      <4>4. QED
        BY <1>1, <3>1, <4>2, <4>3
    <3>7. QED
      BY <1>1, <3>2, <3>3, <3>4, <3>6
  <2> HIDE DEF R, e, n
  <2>3. ASSUME NEW d \in 0 .. CacheSize - 1, NEW q \in 0 .. n - 1
        PROVE  d + q * CacheSize \in 0 .. n * CacheSize - 1 /\ d + q * CacheSize = q * CacheSize + d
    <3>1. q * CacheSize + d \in 0 .. n * CacheSize - 1
      BY <1>1, Bounded
    <3>2. q * CacheSize \in Int
      BY <1>1
    <3>3. QED
      BY <1>1, <3>1, <3>2
  <2>4. ASSUME NEW d \in 0 .. CacheSize - 1, NEW j \in 0 .. R - 1
        PROVE  /\ d + (j \div e) * CacheSize \in 0 .. n * CacheSize - 1
               /\ d + (j \div e) * CacheSize = (j \div e) * CacheSize + d
               /\ j % e \in 0 .. e - 1
    BY <2>2, <2>3
  <2>5. (c + (i \div e) * CacheSize) * e + (i % e) \in 0 .. (n * CacheSize) * e - 1
    <3>1. i \in 0 .. R - 1 /\ n * CacheSize \in Nat /\ e \in Nat
      BY <1>1 DEF R
    <3>2. /\ c + (i \div e) * CacheSize \in 0 .. n * CacheSize - 1
          /\ i % e \in 0 .. e - 1
      BY <2>4, <3>1
    <3>3. QED
      BY <3>1, <3>2, Bounded
  <2>6. (n * CacheSize) * e = CacheSize * R
    BY <1>1
  <2>7. ASSUME NEW d \in 0 .. CacheSize - 1, NEW j \in 0 .. R - 1,
               (c + (i \div e) * CacheSize) * e + (i % e) = (d + (j \div e) * CacheSize) * e + (j % e)
        PROVE  c = d /\ i = j
    <3>1. i \in 0 .. R - 1 /\ e \in Nat
      BY <1>1 DEF R
    <3>2. /\ c + (i \div e) * CacheSize \in Int /\ d + (j \div e) * CacheSize \in Int
          /\ i % e \in 0 .. e - 1 /\ j % e \in 0 .. e - 1
          /\ c + (i \div e) * CacheSize = (i \div e) * CacheSize + c
          /\ d + (j \div e) * CacheSize = (j \div e) * CacheSize + d
      BY <2>4, <3>1
    <3>3. c + (i \div e) * CacheSize = d + (j \div e) * CacheSize /\ i % e = j % e
      <4>1. \A a, b \in Int, p, q \in 0 .. e - 1 : a * e + p = b * e + q => a = b /\ p = q
        BY <3>1, Digits
      <4>2. QED
        BY <2>7, <3>2, <4>1
    <3>4. i \div e \in 0 .. n - 1 /\ j \div e \in 0 .. n - 1
      BY <2>2, <3>1
    <3>5. i \div e \in Int /\ j \div e \in Int
      BY <1>1, <3>4
    <3>6. (i \div e) * CacheSize + c = (j \div e) * CacheSize + d
      BY <3>2, <3>3
    <3>7. i \div e = j \div e /\ c = d
      BY <1>1, <3>5, <3>6, Digits
    <3>8. i = (i \div e) * e + (i % e) /\ j = (j \div e) * e + (j % e)
      BY <2>2, <3>1
    <3>9. QED
      BY <3>3, <3>7, <3>8
  <2>8. QED
    BY <2>1, <2>5, <2>6, <2>7 DEF R
<1>4. QED
  BY <1>2, <1>3

(* Nothing about the tensors changes while ranges and tensors do not.      *)
LEMMA SameRanges ==
  ASSUME blocks' = blocks, tensor' = tensor
  PROVE  \A k : /\ RuntimeRow(k)' = RuntimeRow(k)
                /\ Status(k)' = Status(k)
                /\ StagedLayout(k)' = StagedLayout(k)
                /\ \A x, b : To(k, x, b)' = To(k, x, b)
                /\ \A kind : Row(kind)' = Row(kind)
BY DEF RuntimeRow, Status, StagedLayout, To, Place, Row

LEMMA SameStanding ==
  ASSUME trace' = trace
  PROVE  Standing' = Standing
BY DEF Standing

LEMMA SameRows ==
  ASSUME RowsStand, blocks' = blocks, tensor' = tensor, cells' = cells, trace' = trace
  PROVE  RowsStand'
<1>1. \A k : HoldsRows(k) => HoldsRows(k)'
  BY SameRanges DEF HoldsRows
<1>2. QED
  BY <1>1, SameStanding DEF RowsStand

(* The verifier does not touch the tensors, and a plan is complete before  *)
(* anything is staged.                                                     *)
LEMMA VerifierMoves ==
  ASSUME RuntimeInv, UNCHANGED runtimeVars,
         phase = "collect" \/ (phase' # "collect" /\ blocks' = blocks)
  PROVE  RuntimeInv'
<1>1. staged' = staged /\ tensor' = tensor /\ cells' = cells /\ trace' = trace
  BY DEF runtimeVars
<1>2. InTensors'
  BY <1>1 DEF RuntimeInv, InTensors, Row
<1>3. CASE phase = "collect"
  <2>1. DOMAIN staged = {}
    BY <1>3 DEF RuntimeInv, StagedTyped, CanStage
  <2>2. DOMAIN trace = {}
    BY <2>1 DEF RuntimeInv, TraceTyped
  <2>3. StagedTyped' /\ TraceTyped'
    BY <1>1, <2>1, <2>2 DEF StagedTyped, TraceTyped, RuntimeInv
  <2>4. Standing' = {}
    BY <1>1, <2>2 DEF Standing
  <2>5. QED
    BY <1>1, <1>2, <2>3, <2>4 DEF RuntimeInv, RowsStand
<1>4. CASE phase' # "collect" /\ blocks' = blocks
  <2>1. StagedTyped'
    BY <1>1, <1>4 DEF RuntimeInv, StagedTyped, CanStage
  <2>2. TraceTyped'
    BY <1>1, <1>4, SameRanges DEF RuntimeInv, TraceTyped
  <2>3. RowsStand'
    BY <1>1, <1>4, SameRows DEF RuntimeInv
  <2>4. QED
    BY <1>1, <1>2, <2>1, <2>2, <2>3 DEF RuntimeInv
<1>5. QED
  BY <1>3, <1>4

LEMMA StageStep ==
  ASSUME RuntimeInv, NEW k \in DOMAIN blocks, NEW vram \in BOOLEAN, Stage(k, vram)
  PROVE  RuntimeInv'
<1>1. /\ CanStage(k) /\ DOMAIN staged' = DOMAIN staged \cup {k}
      /\ phase' = phase /\ blocks' = blocks /\ tensor' = tensor
      /\ cells' = cells /\ trace' = trace
  BY DEF Stage, verifierVars
<1>2. StagedTyped'
  BY <1>1 DEF RuntimeInv, StagedTyped, CanStage
<1>3. TraceTyped'
  BY <1>1, SameRanges DEF RuntimeInv, TraceTyped
<1>4. InTensors'
  BY <1>1 DEF RuntimeInv, InTensors, Row
<1>5. RowsStand'
  BY <1>1, SameRows DEF RuntimeInv
<1>6. QED
  BY <1>1, <1>2, <1>3, <1>4, <1>5 DEF RuntimeInv

(* The cells a staged block's row of a token goes to are the block's.      *)
LEMMA RowCell ==
  ASSUME VerifierInv, tensor \in Tensors, NEW k \in DOMAIN blocks, CanStage(k),
         Status(k) = "ok", NEW x \in Extents(StagedLayout(k))
  PROVE  /\ x.kind \in Kinds /\ x = Extent(StagedLayout(k), x.kind, x.token)
         /\ x.token \in Int
         /\ k.block + (x.token - k.start) \in CellsOf(k)
         /\ k.block + (x.token - k.start) \in 0 .. CacheSize - 1
<1>1. /\ StagedLayout(k) \in Layout /\ k \in Keys
      /\ 0 <= k.block /\ k.block + TokenCount(k) <= CacheSize
  BY RowsFit
<1>2. x.kind \in Kinds /\ x.token \in Tokens(StagedLayout(k)) /\ x = Extent(StagedLayout(k), x.kind, x.token)
  BY <1>1, RowInBlock
<1>3. k.block \in Int /\ k.start \in Int /\ k.end \in Int
  BY <1>1 DEF Keys
<1>4. x.token \in k.start .. k.end - 1
  BY <1>2 DEF Tokens, StagedLayout
<1>5. CacheSize \in Nat
  BY ByteRangeAssumption
<1>6. QED
  BY <1>1, <1>2, <1>3, <1>4, <1>5 DEF CellsOf, TokenCount

(* Two attempts put bytes in one place of the tensors only when the place  *)
(* is in a cell of both blocks, and is then the same byte of a cell's row. *)
LEMMA OnePlace ==
  ASSUME VerifierInv, tensor \in Tensors,
         NEW k \in DOMAIN blocks, CanStage(k), Status(k) = "ok",
         NEW h \in DOMAIN blocks, CanStage(h), Status(h) = "ok",
         NEW x \in Extents(StagedLayout(k)), NEW b \in 0 .. RuntimeRow(k) - 1,
         NEW y \in Extents(StagedLayout(h)), NEW c \in 0 .. RuntimeRow(h) - 1,
         To(k, x, b) = To(h, y, c)
  PROVE  /\ k.layer = h.layer /\ x.kind = y.kind /\ b = c
         /\ k.block + (x.token - k.start) = h.block + (y.token - h.start)
<1> DEFINE p == k.block + (x.token - k.start)
           q == h.block + (y.token - h.start)
<1>1. /\ tensor.keyRow = RuntimeRow(k) /\ tensor.valueRow = RuntimeRow(k)
      /\ tensor.keyRow = RuntimeRow(h)
  BY RowsFit
<1>2. x.kind \in Kinds /\ p \in 0 .. CacheSize - 1 /\ q \in 0 .. CacheSize - 1
  BY RowCell
<1>3. k.layer = h.layer /\ x.kind = y.kind /\ Place(x.kind, p, b) = Place(x.kind, q, c)
  BY DEF To
<1>4. b \in 0 .. tensor.keyRow - 1 /\ c \in 0 .. tensor.keyRow - 1 /\ tensor.keyRow = tensor.valueRow
  BY <1>1
<1> HIDE DEF p, q
<1>5. p = q /\ b = c
  BY <1>2, <1>3, <1>4, Places
<1>6. QED
  BY <1>3, <1>5 DEF p, q

LEMMA SameToken ==
  ASSUME VerifierInv, tensor \in Tensors, NEW k \in DOMAIN blocks, CanStage(k), Status(k) = "ok",
         NEW x \in Extents(StagedLayout(k)), NEW y \in Extents(StagedLayout(k)),
         x.kind = y.kind,
         k.block + (x.token - k.start) = k.block + (y.token - k.start)
  PROVE  x = y
<1>1. x.token \in Int /\ y.token \in Int
      /\ x = Extent(StagedLayout(k), x.kind, x.token)
      /\ y = Extent(StagedLayout(k), y.kind, y.token)
  BY RowCell
<1>2. k.block \in Int /\ k.start \in Int
  BY DEF VerifierInv, BlocksTyped, Keys
<1>3. x.token = y.token
  BY <1>1, <1>2
<1>4. QED
  BY <1>1, <1>3

(* A mutation that was not refused leaves the block's rows in its cells.   *)
LEMMA CopiedRows ==
  ASSUME VerifierInv, tensor \in Tensors, NEW k \in DOMAIN blocks, CanStage(k), Status(k) = "ok",
         NEW after,
         after = [place \in DOMAIN cells \cup {c.to : c \in Copies(k)} |->
                    IF \E c \in Copies(k) : c.to = place
                    THEN (CHOOSE c \in Copies(k) : c.to = place).byte
                    ELSE cells[place]],
         NEW x \in Extents(StagedLayout(k)), NEW b \in 0 .. RuntimeRow(k) - 1
  PROVE  To(k, x, b) \in DOMAIN after /\ after[To(k, x, b)] = x.offset + b
<1> DEFINE copy == [to |-> To(k, x, b), byte |-> x.offset + b]
           chosen == CHOOSE c \in Copies(k) : c.to = To(k, x, b)
<1>1. copy \in Copies(k) /\ copy.to = To(k, x, b)
  BY DEF Copies, To
<1>2. chosen \in Copies(k) /\ chosen.to = To(k, x, b)
  BY <1>1
<1> HIDE DEF chosen
<1>3. PICK y \in Extents(StagedLayout(k)), c \in 0 .. RuntimeRow(k) - 1 :
        chosen = [to |-> To(k, y, c), byte |-> y.offset + c]
  BY <1>2 DEF Copies, To
<1>4. To(k, y, c) = To(k, x, b) /\ chosen.byte = y.offset + c
  BY <1>2, <1>3
<1>5. y.kind = x.kind /\ c = b /\ k.block + (y.token - k.start) = k.block + (x.token - k.start)
  BY <1>4, OnePlace
<1>6. y = x
  BY <1>5, SameToken
<1>7. chosen.byte = x.offset + b
  BY <1>4, <1>5, <1>6
<1>8. To(k, x, b) \in DOMAIN after
  BY <1>1
<1>9. after[To(k, x, b)] = chosen.byte
  BY <1>1, <1>8 DEF chosen
<1>10. QED
  BY <1>7, <1>8, <1>9

(* ... and every other place as it was.                                    *)
LEMMA OtherPlaces ==
  ASSUME NEW k, NEW after,
         after = [place \in DOMAIN cells \cup {c.to : c \in Copies(k)} |->
                    IF \E c \in Copies(k) : c.to = place
                    THEN (CHOOSE c \in Copies(k) : c.to = place).byte
                    ELSE cells[place]],
         NEW place \in DOMAIN cells, \A c \in Copies(k) : c.to # place
  PROVE  place \in DOMAIN after /\ after[place] = cells[place]
OBVIOUS

LEMMA CopyInTensor ==
  ASSUME VerifierInv, tensor \in Tensors, NEW k \in DOMAIN blocks, CanStage(k), Status(k) = "ok",
         NEW c \in Copies(k)
  PROVE  0 <= c.to[3] /\ c.to[3] < CacheSize * Row(c.to[2])
<1>1. PICK x \in Extents(StagedLayout(k)), b \in 0 .. RuntimeRow(k) - 1 :
        c.to = To(k, x, b)
  BY DEF Copies, To
<1>2. tensor.keyRow = RuntimeRow(k) /\ tensor.valueRow = RuntimeRow(k) /\ RuntimeRow(k) \in Nat
  BY RowsFit
<1> DEFINE p == k.block + (x.token - k.start)
<1>3. x.kind \in Kinds /\ p \in 0 .. CacheSize - 1
  BY RowCell
<1>4. c.to[2] = x.kind /\ c.to[3] = Place(x.kind, p, b)
  BY <1>1 DEF To
<1> HIDE DEF p
<1>5. b \in 0 .. tensor.keyRow - 1 /\ tensor.keyRow = tensor.valueRow
  BY <1>2
<1>6. Place(x.kind, p, b) \in 0 .. CacheSize * tensor.keyRow - 1
  BY <1>3, <1>5, Places
<1>7. Row(x.kind) = tensor.keyRow
  BY <1>2 DEF Row
<1>8. CacheSize * tensor.keyRow \in Nat
  BY <1>2, ByteRangeAssumption
<1>9. QED
  BY <1>4, <1>6, <1>7, <1>8

LEMMA MutationStep ==
  ASSUME ByteRangesInv, NEW k \in DOMAIN staged, MutationGate(k)
  PROVE  RuntimeInv'
<1> DEFINE n == Len(trace) + 1
           entry == [key |-> k, status |-> Status(k)]
<1>1. /\ DOMAIN staged' = DOMAIN staged
      /\ trace' = Append(trace, entry)
      /\ phase' = phase /\ blocks' = blocks /\ tensor' = tensor /\ request' = request
  BY DEF MutationGate, verifierVars
<1>2. /\ VerifierInv /\ tensor \in Tensors /\ k \in DOMAIN blocks /\ CanStage(k)
      /\ k \in Keys
  BY DEF ByteRangesInv, RuntimeInv, StagedTyped, VerifierInv, BlocksTyped
<1>3. Status(k) \in Statuses /\ trace \in Seq([key : Keys, status : Statuses])
  BY DEF Status, Statuses, ByteRangesInv, RuntimeInv, TraceTyped
<1>4. entry \in [key : Keys, status : Statuses]
  BY <1>2, <1>3
<1>5. /\ trace' \in Seq([key : Keys, status : Statuses])
      /\ Len(trace') = n /\ n \in Nat
      /\ DOMAIN trace' = DOMAIN trace \cup {n} /\ DOMAIN trace = 1 .. Len(trace)
      /\ \A i \in DOMAIN trace : trace'[i] = trace[i]
      /\ trace'[n] = entry
  BY <1>1, <1>3, <1>4
<1>6. entry.key = k /\ entry.status = Status(k)
  OBVIOUS
<1> HIDE DEF n, entry
<1>7. StagedTyped'
  BY <1>1 DEF ByteRangesInv, RuntimeInv, StagedTyped, CanStage
<1>8. TraceTyped'
  <2>1. ASSUME NEW i \in DOMAIN trace'
        PROVE  trace'[i].key \in DOMAIN staged' /\ trace'[i].status = Status(trace'[i].key)
    BY <1>1, <1>5, <1>6 DEF ByteRangesInv, RuntimeInv, TraceTyped
  <2>2. \A h : Status(h)' = Status(h)
    BY <1>1, SameRanges
  <2>3. \A i \in DOMAIN trace' : \A h : h = trace'[i].key => trace'[i].status = Status(h)'
    BY <2>1, <2>2
  <2>4. QED
    BY <1>5, <2>1, <2>3 DEF TraceTyped
<1>9. \A i \in Standing' : i # n => i \in Standing
  <2> SUFFICES ASSUME NEW i \in Standing', i # n PROVE i \in Standing
    OBVIOUS
  <2>1. /\ i \in DOMAIN trace' /\ trace'[i].status = "ok"
        /\ \A j \in i + 1 .. Len(trace') :
             trace'[j].status = "ok" /\ trace'[j].key.layer = trace'[i].key.layer =>
               CellsOf(trace'[j].key) \cap CellsOf(trace'[i].key) = {}
    BY DEF Standing, CellsOf, TokenCount
  <2>2. i \in DOMAIN trace /\ trace[i].status = "ok"
    BY <1>5, <2>1
  <2>3. ASSUME NEW j \in i + 1 .. Len(trace), trace[j].status = "ok",
               trace[j].key.layer = trace[i].key.layer
        PROVE  CellsOf(trace[j].key) \cap CellsOf(trace[i].key) = {}
    <3>1. j \in DOMAIN trace /\ j \in i + 1 .. Len(trace')
      BY <1>3, <1>5, <2>2
    <3>2. trace'[j] = trace[j] /\ trace'[i] = trace[i]
      BY <1>5, <2>2, <3>1
    <3>3. QED
      BY <2>1, <2>3, <3>1, <3>2
  <2>4. QED
    BY <2>2, <2>3 DEF Standing
<1>10. \A h : HoldsRows(h)' <=> \A x \in Extents(StagedLayout(h)), b \in 0 .. RuntimeRow(h) - 1 :
                To(h, x, b) \in DOMAIN cells' /\ cells'[To(h, x, b)] = x.offset + b
  BY <1>1, SameRanges DEF HoldsRows
<1>11. CASE Status(k) # "ok"
  <2>1. cells' = cells
    BY <1>11 DEF MutationGate
  <2>2. InTensors'
    BY <1>1, <2>1 DEF ByteRangesInv, RuntimeInv, InTensors, Row
  <2>3. n \notin Standing'
    BY <1>5, <1>6, <1>11 DEF Standing
  <2>4. \A h : HoldsRows(h) => HoldsRows(h)'
    BY <1>10, <2>1 DEF HoldsRows
  <2>5. RowsStand'
    BY <1>5, <1>9, <2>3, <2>4 DEF ByteRangesInv, RuntimeInv, RowsStand, Standing
  <2>6. QED
    BY <1>1, <1>2, <1>7, <1>8, <2>2, <2>5 DEF RuntimeInv
<1>12. CASE Status(k) = "ok"
  <2>1. cells' = [place \in DOMAIN cells \cup {c.to : c \in Copies(k)} |->
                    IF \E c \in Copies(k) : c.to = place
                    THEN (CHOOSE c \in Copies(k) : c.to = place).byte
                    ELSE cells[place]]
    BY <1>12 DEF MutationGate
  <2>2. InTensors'
    <3>1. \A place \in DOMAIN cells' : place \in DOMAIN cells \/ \E c \in Copies(k) : place = c.to
      BY <2>1
    <3>2. \A c \in Copies(k) : 0 <= c.to[3] /\ c.to[3] < CacheSize * Row(c.to[2])
      BY <1>2, <1>12, CopyInTensor
    <3>3. QED
      BY <1>1, <3>1, <3>2 DEF ByteRangesInv, RuntimeInv, InTensors, Row
  <2>3. HoldsRows(k)'
    <3>1. ASSUME NEW x \in Extents(StagedLayout(k)), NEW b \in 0 .. RuntimeRow(k) - 1
          PROVE  To(k, x, b) \in DOMAIN cells' /\ cells'[To(k, x, b)] = x.offset + b
      BY <1>2, <1>12, <2>1, CopiedRows
    <3>2. QED
      BY <1>10, <3>1
  <2>4. ASSUME NEW i \in Standing', i # n, NEW h, h = trace[i].key
        PROVE  HoldsRows(h)'
    <3>1. /\ i \in DOMAIN trace /\ i \in Standing /\ HoldsRows(h)
          /\ trace[i].status = "ok" /\ h \in DOMAIN staged /\ Status(h) = "ok"
      BY <1>5, <1>9, <2>4 DEF Standing, ByteRangesInv, RuntimeInv, RowsStand, TraceTyped
    <3>2. h \in DOMAIN blocks /\ CanStage(h)
      BY <3>1 DEF ByteRangesInv, RuntimeInv, StagedTyped
    <3>3. k.layer = h.layer => CellsOf(k) \cap CellsOf(h) = {}
      <4>1. \A j \in i + 1 .. Len(trace') :
              trace'[j].status = "ok" /\ trace'[j].key.layer = trace'[i].key.layer =>
                CellsOf(trace'[j].key) \cap CellsOf(trace'[i].key) = {}
        BY <2>4 DEF Standing, CellsOf, TokenCount
      <4>2. n \in i + 1 .. Len(trace')
        BY <1>3, <1>5, <3>1 DEF n
      <4>3. trace'[n].key = k /\ trace'[n].status = "ok" /\ trace'[i].key = h
        BY <1>5, <1>6, <1>12, <2>4, <3>1
      <4>4. QED
        BY <4>1, <4>2, <4>3
    <3>4. ASSUME NEW x \in Extents(StagedLayout(h)), NEW b \in 0 .. RuntimeRow(h) - 1
          PROVE  To(h, x, b) \in DOMAIN cells' /\ cells'[To(h, x, b)] = x.offset + b
      <4>1. To(h, x, b) \in DOMAIN cells /\ cells[To(h, x, b)] = x.offset + b
        BY <3>1 DEF HoldsRows
      <4>2. ASSUME NEW c \in Copies(k), c.to = To(h, x, b)
            PROVE  FALSE
        <5>1. PICK y \in Extents(StagedLayout(k)), a \in 0 .. RuntimeRow(k) - 1 :
                c.to = To(k, y, a)
          BY DEF Copies, To
        <5>2. To(k, y, a) = To(h, x, b)
          BY <4>2, <5>1
        <5>3. /\ k.layer = h.layer
              /\ k.block + (y.token - k.start) = h.block + (x.token - h.start)
          BY <1>2, <1>12, <3>1, <3>2, <5>2, OnePlace
        <5>4. /\ k.block + (y.token - k.start) \in CellsOf(k)
              /\ h.block + (x.token - h.start) \in CellsOf(h)
          BY <1>2, <1>12, <3>1, <3>2, RowCell
        <5>5. QED
          BY <3>3, <5>3, <5>4
      <4>3. To(h, x, b) \in DOMAIN cells' /\ cells'[To(h, x, b)] = cells[To(h, x, b)]
        BY <2>1, <4>1, <4>2, OtherPlaces
      <4>4. QED
        BY <4>1, <4>3
    <3>5. QED
      BY <1>10, <3>4
  <2>5. RowsStand'
    <3>1. \A i \in Standing' : i = n \/ i \in DOMAIN trace
      BY <1>5 DEF Standing
    <3>2. \A i \in Standing' : \A h : h = trace'[i].key => HoldsRows(h)'
      <4> SUFFICES ASSUME NEW i \in Standing', NEW h, h = trace'[i].key PROVE HoldsRows(h)'
        OBVIOUS
      <4>1. CASE i = n
        <5>1. h = k
          BY <1>5, <1>6, <4>1
        <5>2. QED
          BY <2>3, <5>1
      <4>2. CASE i # n
        <5>1. h = trace[i].key
          BY <1>5, <3>1, <4>2
        <5>2. QED
          BY <2>4, <4>2, <5>1
      <4>3. QED
        BY <4>1, <4>2
    <3>3. QED
      BY <3>2 DEF RowsStand
  <2>6. QED
    BY <1>1, <1>2, <1>7, <1>8, <2>2, <2>5 DEF RuntimeInv
<1>13. QED
  BY <1>11, <1>12

LEMMA NextByteRanges == ByteRangesInv /\ [Next]_vars => ByteRangesInv'
<1> SUFFICES ASSUME ByteRangesInv, [Next]_vars
             PROVE  ByteRangesInv'
  OBVIOUS
<1> USE DEF ByteRangesInv
<1>1. ASSUME NEW op \in PlanOps, Collect(op)
      PROVE  ByteRangesInv'
  <2>1. UNCHANGED runtimeVars /\ phase = "collect"
    BY <1>1 DEF Collect
  <2>2. QED
    BY <1>1, <2>1, CollectStep, VerifierMoves
<1>2. CASE BeginVerify
  <2>1. UNCHANGED runtimeVars /\ phase = "collect"
    BY <1>2 DEF BeginVerify
  <2>2. QED
    BY <1>2, <2>1, BeginStep, VerifierMoves
<1>3. ASSUME NEW k \in todo, VerifyBlock(k)
      PROVE  ByteRangesInv'
  <2>1. UNCHANGED runtimeVars /\ blocks' = blocks /\ phase' \in {"verify", "raised"}
    BY <1>3 DEF VerifyBlock
  <2>2. phase' # "collect"
    BY <2>1
  <2>3. QED
    BY <1>3, <2>1, <2>2, VerifyStep, VerifierMoves
<1>4. CASE Report
  <2>1. UNCHANGED runtimeVars /\ blocks' = blocks /\ phase' # "collect"
    BY <1>4 DEF Report
  <2>2. QED
    BY <1>4, <2>1, ReportStep, VerifierMoves
<1>5. ASSUME NEW k \in DOMAIN blocks, NEW vram \in BOOLEAN, Stage(k, vram)
      PROVE  ByteRangesInv'
  <2>1. UNCHANGED verifierVars
    BY <1>5 DEF Stage
  <2>2. QED
    BY <1>5, <2>1, StageStep, VerifierSameStep
<1>6. ASSUME NEW k \in DOMAIN staged, MutationGate(k)
      PROVE  ByteRangesInv'
  <2>1. UNCHANGED verifierVars
    BY <1>6 DEF MutationGate
  <2>2. QED
    BY <1>6, <2>1, MutationStep, VerifierSameStep
<1>7. CASE UNCHANGED vars
  <2>1. UNCHANGED verifierVars /\ UNCHANGED runtimeVars
    BY <1>7 DEF vars
  <2>2. phase' = phase /\ blocks' = blocks
    BY <2>1 DEF verifierVars
  <2>3. QED
    BY <2>1, <2>2, VerifierSameStep, VerifierMoves
<1>8. QED
  BY <1>1, <1>2, <1>3, <1>4, <1>5, <1>6, <1>7 DEF Next

LEMMA InitByteRanges == Init => ByteRangesInv
<1> SUFFICES ASSUME Init PROVE ByteRangesInv
  OBVIOUS
<1>1. /\ phase = "collect" /\ DOMAIN blocks = {} /\ todo = {} /\ DOMAIN mappings = {}
      /\ request \in Requests /\ DOMAIN staged = {}
      /\ tensor \in Tensors /\ DOMAIN cells = {} /\ trace = <<>>
      /\ counts = [size |-> 0, coverage |-> 0, bounds |-> 0, short |-> 0, alignment |-> 0]
  BY DEF Init
<1>2. CountsTyped
  BY <1>1 DEF CountsTyped
<1>3. VerifierInv
  BY <1>1, <1>2 DEF VerifierInv, BlocksTyped, Mapped, PassedAreClean
<1>4. RuntimeInv
  BY <1>1 DEF RuntimeInv, StagedTyped, TraceTyped, InTensors, RowsStand, Standing
<1>5. QED
  BY <1>3, <1>4 DEF ByteRangesInv

LEMMA SpecByteRanges == Spec => []ByteRangesInv
BY InitByteRanges, NextByteRanges, PTL DEF Spec

(* What an attempt that stands says of its block.                          *)
LEMMA StandingFits ==
  ASSUME ByteRangesInv, NEW i \in Standing
  PROVE  /\ trace[i].key \in DOMAIN blocks /\ CanStage(trace[i].key)
         /\ Status(trace[i].key) = "ok" /\ HoldsRows(trace[i].key)
BY DEF ByteRangesInv, RuntimeInv, StagedTyped, TraceTyped, RowsStand, Standing

LEMMA HoldsOfInvariant == ByteRangesInv => TensorHoldsStagedRows
<1> SUFFICES ASSUME ByteRangesInv PROVE TensorHoldsStagedRows
  OBVIOUS
<1>1. \A place \in DOMAIN cells :
        0 <= place[3]
        /\ place[3] < CacheSize * (IF place[2] = "k" THEN tensor.keyRow ELSE tensor.valueRow)
  BY DEF ByteRangesInv, RuntimeInv, InTensors, Row
<1>2. QED
  BY <1>1, StandingFits DEF TensorHoldsStagedRows, HoldsRows, To

(* Rows of the tensor's size are where the verifier maps them.             *)
LEMMA GateOfInvariant == ByteRangesInv => GateCopiesAsMapped
<1> SUFFICES ASSUME ByteRangesInv, NEW i \in Standing, NEW k, k = trace[i].key,
                    k \in DOMAIN mappings, ~ tensor.transposed,
                    mappings[k].key = tensor.keyRow, mappings[k].value = tensor.valueRow
             PROVE  /\ request.bound = CacheSize => OutOfBounds(k) = {}
                    /\ \A x \in Extents(mappings[k]) : \A b \in 0 .. x.size - 1 :
                         LET place == <<k.layer, x.kind, TensorOffset(k, mappings[k], x) + b>>
                         IN place \in DOMAIN cells /\ cells[place] = x.offset + b
  BY DEF GateCopiesAsMapped
<1>1. /\ VerifierInv /\ tensor \in Tensors /\ k \in DOMAIN blocks /\ CanStage(k)
      /\ Status(k) = "ok" /\ HoldsRows(k)
  BY StandingFits DEF ByteRangesInv, RuntimeInv
<1>2. /\ RuntimeRow(k) \in Nat \ {0}
      /\ tensor.keyRow = RuntimeRow(k) /\ tensor.valueRow = RuntimeRow(k)
      /\ k \in Keys /\ 0 <= k.block /\ k.block + TokenCount(k) <= CacheSize
  BY <1>1, RowsFit
<1>3. mappings[k] = BlockMapping(k)
  BY <1>1 DEF VerifierInv, Mapped
<1>4. BlockMapping(k) = StagedLayout(k)
  BY <1>2, <1>3 DEF BlockMapping, StagedLayout
<1>5. \A kind : RowSize(StagedLayout(k), kind) = RuntimeRow(k)
  BY DEF StagedLayout, RowSize
<1>6. ASSUME NEW x \in Extents(StagedLayout(k))
      PROVE  /\ x.size = RuntimeRow(k)
             /\ TensorOffset(k, StagedLayout(k), x) = (k.block + (x.token - k.start)) * RuntimeRow(k)
             /\ k.block + (x.token - k.start) \in 0 .. CacheSize - 1
  <2>1. /\ x = Extent(StagedLayout(k), x.kind, x.token)
        /\ k.block + (x.token - k.start) \in 0 .. CacheSize - 1
    BY <1>1, RowCell
  <2>2. x.size = RowSize(StagedLayout(k), x.kind)
    BY <2>1 DEF Extent
  <2>3. QED
    BY <1>5, <2>1, <2>2 DEF TensorOffset
<1>7. ASSUME request.bound = CacheSize
      PROVE  OutOfBounds(k) = {}
  <2>1. \A x \in Extents(StagedLayout(k)) :
          ~ (TensorOffset(k, StagedLayout(k), x) + x.size > CacheSize * RuntimeRow(k))
    <3> SUFFICES ASSUME NEW x \in Extents(StagedLayout(k))
                 PROVE  ~ (TensorOffset(k, StagedLayout(k), x) + x.size > CacheSize * RuntimeRow(k))
      OBVIOUS
    <3>1. PICK c \in 0 .. CacheSize - 1 : c = k.block + (x.token - k.start)
      BY <1>6
    <3>2. c \in Int /\ CacheSize \in Int /\ c < CacheSize /\ RuntimeRow(k) \in Nat
      BY <1>2, <3>1, ByteRangeAssumption
    <3>3. c * RuntimeRow(k) + RuntimeRow(k) <= CacheSize * RuntimeRow(k)
      BY <3>2, Monotonic
    <3>4. c * RuntimeRow(k) \in Int /\ CacheSize * RuntimeRow(k) \in Int
      BY <3>2
    <3>5. TensorOffset(k, StagedLayout(k), x) = c * RuntimeRow(k) /\ x.size = RuntimeRow(k)
      BY <1>6, <3>1
    <3>6. QED
      BY <3>2, <3>3, <3>4, <3>5
  <2>2. QED
    BY <1>4, <1>5, <1>7, <2>1 DEF OutOfBounds
<1>8. ASSUME NEW x \in Extents(StagedLayout(k)), NEW b \in 0 .. x.size - 1
      PROVE  LET place == <<k.layer, x.kind, TensorOffset(k, StagedLayout(k), x) + b>>
             IN place \in DOMAIN cells /\ cells[place] = x.offset + b
  <2>1. b \in 0 .. RuntimeRow(k) - 1
    BY <1>6
  <2>2. To(k, x, b) \in DOMAIN cells /\ cells[To(k, x, b)] = x.offset + b
    BY <1>1, <2>1 DEF HoldsRows
  <2>3. Place(x.kind, k.block + (x.token - k.start), b)
          = (k.block + (x.token - k.start)) * RuntimeRow(k) + b
    BY <1>2 DEF Place
  <2>4. To(k, x, b) = <<k.layer, x.kind, TensorOffset(k, StagedLayout(k), x) + b>>
    BY <1>6, <2>3 DEF To
  <2>5. QED
    BY <2>2, <2>4
<1>9. QED
  BY <1>3, <1>4, <1>7, <1>8

(* A verification without errors has mapped every byte of every block of   *)
(* the plan to exactly one row, for every plan, every given or inferred    *)
(* row size and every bound (verify_kv_byte_ranges).                       *)
THEOREM CleanVerificationCovers == Spec => []CleanMappingCovers
<1>1. ByteRangesInv => CleanMappingCovers
  BY CoversOfInvariant DEF ByteRangesInv
<1>2. QED
  BY <1>1, SpecByteRanges, PTL

(* However the cells of blocks overlap and whatever the shape of the       *)
(* tensors, plain or transposed, the last mutation to write a cell has     *)
(* left its block's rows there, and no byte outside the tensors            *)
(* (llama_solidattention_executor_tensor_mutation_gate).                   *)
THEOREM MutationsKeepRows == Spec => []TensorHoldsStagedRows
BY SpecByteRanges, HoldsOfInvariant, PTL

(* Verifier and mutation gate agree, byte by byte, on every tensor whose   *)
(* row sizes the verifier worked with.                                     *)
THEOREM MutationsFollowMapping == Spec => []GateCopiesAsMapped
BY SpecByteRanges, GateOfInvariant, PTL
=============================================================================
