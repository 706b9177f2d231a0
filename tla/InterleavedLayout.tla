------------------------- MODULE InterleavedLayout --------------------------
(***************************************************************************)
(* InterleavedKVLayout (core/kv_layout.py): gives every KV block the bytes *)
(* that follow the last block's, and answers where a token's rows lie.     *)
(***************************************************************************)
EXTENDS BlockExtents, FiniteSetsExt

CONSTANTS
  KVBlocks,       \* (layer_id, block_id) pairs
  Intervals,    \* token intervals [start, end] a block may cover
  KeySize, ValueSize, KVBaseOffset

ASSUME InterleavedAssumption ==
  /\ \A i \in Intervals : i.start \in Nat /\ i.end \in Nat /\ i.start < i.end
  /\ KeySize \in Nat \ {0} /\ ValueSize \in Nat \ {0}
  /\ KVBaseOffset \in Nat

VARIABLES
  layouts,    \* _layouts: key -> BlockLayout
  layoutOutcome  \* how the last call ended

kvVars == <<layouts, layoutOutcome>>

(* The layouts as plain byte ranges, for the abstract allocator.           *)
Ranges == [k \in DOMAIN layouts |->
             [offset |-> layouts[k].base, size |-> TotalSize(layouts[k])]]

KVAllocator == INSTANCE RangeAllocator WITH Keys <- KVBlocks, Base <- KVBaseOffset, ranges <- Ranges

(* Fault: the offset follows the block that was laid out with most bytes.  *)
NextBaseAfterLargest ==
  IF DOMAIN layouts = {} THEN KVBaseOffset
  ELSE KVBaseOffset + Max({TotalSize(layouts[k]) : k \in DOMAIN layouts})

NextBase ==
  IF DOMAIN layouts = {} THEN KVBaseOffset ELSE Max({End(layouts[k]) : k \in DOMAIN layouts})

NewLayout(i) ==
  [start |-> i.start, end |-> i.end, base |-> NextBase, key |-> KeySize, value |-> ValueSize]

InterleavedInit == layouts = [k \in {} |-> <<>>] /\ layoutOutcome = "none"

AddLayout(k, i) ==
  /\ k \notin DOMAIN layouts
  /\ layouts' = [j \in DOMAIN layouts \cup {k} |->
                   IF j = k THEN NewLayout(i) ELSE layouts[j]]
  /\ layoutOutcome' = "ok"

(* Fault: the layout is replaced before the duplicate is noticed.          *)
RejectLayoutTooLate(k) ==
  /\ k \in DOMAIN layouts
  /\ \E i \in Intervals : layouts' = [layouts EXCEPT ![k] = NewLayout(i)]
  /\ layoutOutcome' = "KeyError"

RejectLayout(k) ==
  /\ k \in DOMAIN layouts
  /\ layoutOutcome' = "KeyError"
  /\ UNCHANGED layouts

(* token_extents of a block and token, either of which may be unknown.     *)
TokenExtents(k, token) ==
  /\ layoutOutcome' = CASE k \notin DOMAIN layouts                        -> "KeyError"
                        [] k \in DOMAIN layouts
                             /\ token \notin Tokens(layouts[k])       -> "ValueError"
                        [] OTHER                                     -> "ok"
  /\ UNCHANGED layouts

SomeTokens == UNION {i.start .. i.end : i \in Intervals}

InterleavedNext ==
  \E k \in KVBlocks :
    \/ \E i \in Intervals : AddLayout(k, i)
    \/ RejectLayout(k)
    \/ \E token \in SomeTokens : TokenExtents(k, token)

InterleavedSpec == InterleavedInit /\ [][InterleavedNext]_kvVars

(***************************************************************************)
(* Properties.                                                             *)
(***************************************************************************)

PlacedRows == UNION {{<<k, x>> : x \in Extents(layouts[k])} : k \in DOMAIN layouts}

(* Every byte from the base offset to the end of the last block is in the  *)
(* row of exactly one token of exactly one block, and no row lies outside: *)
(* the rows of a block tile it and the blocks tile the layout, whatever    *)
(* the intervals are and in whatever order add_block was called.           *)
EveryByteHasOneOwner ==
  LET owners(byte) == {r \in PlacedRows : Covers(r[2], byte)}
  IN /\ \A byte \in KVBaseOffset .. NextBase - 1 : \E r \in PlacedRows : owners(byte) = {r}
     /\ \A r \in PlacedRows : r[2].offset >= KVBaseOffset /\ r[2].offset + r[2].size <= NextBase

(* The interleaved layout implements the abstract allocator: a block's     *)
(* bytes are free when it gets them and never move afterwards.             *)
InterleavedAllocatorSpec == KVAllocator!Spec
=============================================================================
