----------------------------- MODULE SSDLayout ------------------------------
(***************************************************************************)
(* SSDFileLayout (core/movement_plan.py): assigns every KV block an        *)
(* aligned byte range of the backing file, each after all earlier ones.    *)
(***************************************************************************)
EXTENDS Integers, FiniteSetsExt

CONSTANTS
  Blocks,      \* block keys
  Sizes,       \* size_bytes values a block may carry; KVBlock allows 0
  BaseOffset,
  Alignment

ASSUME LayoutAssumption ==
  /\ Sizes \subseteq Nat
  /\ BaseOffset \in Nat
  /\ Alignment \in Nat \ {0}

VARIABLES
  ranges,    \* _ranges: key -> SSDRange
  outcome    \* how the last add_block call ended

ssdVars == <<ranges, outcome>>

Allocator == INSTANCE RangeAllocator WITH Keys <- Blocks, Base <- BaseOffset

EndOffset(r) == r.offset + r.size

EndOffsets == {EndOffset(ranges[k]) : k \in DOMAIN ranges}

NextOffset == IF DOMAIN ranges = {} THEN BaseOffset ELSE Max(EndOffsets)

(* Fault: only a start below one alignment unit is rounded up.             *)
AlignFirstUnit(offset) == IF offset < Alignment THEN Alignment ELSE offset

Align(offset) ==
  IF offset % Alignment = 0
  THEN offset
  ELSE offset + (Alignment - (offset % Alignment))

NewRange(size) == [offset |-> Align(NextOffset), size |-> size]

SSDInit == ranges = [k \in {} |-> <<>>] /\ outcome = "none"

Assign(k, size) ==
  /\ k \notin DOMAIN ranges
  /\ size > 0
  /\ ranges' = [j \in DOMAIN ranges \cup {k} |->
                  IF j = k THEN NewRange(size) ELSE ranges[j]]
  /\ outcome' = "ok"

(* Fault: a second range replaces the first before the error is raised.    *)
RejectDuplicateTooLate(k) ==
  /\ k \in DOMAIN ranges
  /\ outcome' = "KeyError"
  /\ \E size \in Sizes : size > 0 /\ ranges' = [ranges EXCEPT ![k] = NewRange(size)]

RejectDuplicate(k) ==
  /\ k \in DOMAIN ranges
  /\ outcome' = "KeyError"
  /\ UNCHANGED ranges

RejectEmpty(k, size) ==
  /\ k \notin DOMAIN ranges
  /\ size <= 0
  /\ outcome' = "ValueError"
  /\ UNCHANGED ranges

AddBlock(k, size) ==
  \/ Assign(k, size)
  \/ RejectDuplicate(k)
  \/ RejectEmpty(k, size)

SSDNext == \E k \in Blocks, size \in Sizes : AddBlock(k, size)

SSDSpec == SSDInit /\ [][SSDNext]_ssdVars

(***************************************************************************)
(* Properties.                                                             *)
(***************************************************************************)

(* Every assigned range is a non-empty byte range of a known block, and    *)
(* add_block ends in one of its three ways.                                *)
TypeOK ==
  /\ DOMAIN ranges \subseteq Blocks
  /\ \A k \in DOMAIN ranges : ranges[k] \in Allocator!Range
  /\ outcome \in {"none", "ok", "KeyError", "ValueError"}

(* The backing-file ranges of two different blocks never share a byte, so  *)
(* that writing one block cannot corrupt another (SSDFileLayout.add_block).*)
RangesDisjoint ==
  \A j, k \in DOMAIN ranges :
    j # k => ~ Allocator!Overlap(ranges[j], ranges[k])

(* Every range starts on the configured alignment and not before the base  *)
(* offset, even when block sizes or the base are no multiples of it.       *)
RangesAligned ==
  \A k \in DOMAIN ranges :
    ranges[k].offset % Alignment = 0 /\ ranges[k].offset >= BaseOffset

(* The layout implements the abstract allocator: ranges are only ever      *)
(* added, and a rejected block leaves every earlier range in place.        *)
AllocatorSpec == Allocator!Spec
=============================================================================
