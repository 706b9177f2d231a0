--------------------------- MODULE RangeAllocator ---------------------------
(***************************************************************************)
(* What a byte-range allocator of the SSD backing file promises: keys get  *)
(* ranges one at a time, a range is never empty, starts at or after the    *)
(* base offset, overlaps no range handed out before, and is never moved,   *)
(* resized or taken back afterwards.  How offsets are chosen is left open. *)
(***************************************************************************)
EXTENDS Integers

CONSTANTS
  Keys,   \* (layer_id, block_id) pairs
  Base    \* first byte that may be assigned

VARIABLE ranges   \* function from the keys that have a range to the range

Range == [offset : Nat, size : Nat \ {0}]

EndOffset(r) == r.offset + r.size

Overlap(r, s) == r.offset < EndOffset(s) /\ s.offset < EndOffset(r)

Init == DOMAIN ranges = {}

Allocate(k) ==
  /\ k \notin DOMAIN ranges
  /\ DOMAIN ranges' = DOMAIN ranges \cup {k}
  /\ \A j \in DOMAIN ranges : ranges'[j] = ranges[j]
  /\ ranges'[k] \in Range
  /\ ranges'[k].offset >= Base
  /\ \A j \in DOMAIN ranges : ~ Overlap(ranges'[k], ranges[j])

Next == \E k \in Keys : Allocate(k)

Spec == Init /\ [][Next]_ranges
=============================================================================
