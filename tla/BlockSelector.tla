--------------------------- MODULE BlockSelector ----------------------------
(***************************************************************************)
(* BlockSelector.select (core/block_selector.py) as a function of the      *)
(* blocks of a layer, the current token and the representative scores, and *)
(* the rank-based definition it is checked against.  A block is a record   *)
(* with fields layer, id, start, end and score; score abstracts the        *)
(* cosine similarity of its representative vector to the query.  A config  *)
(* has the fields init, local and selected of SelectionConfig.             *)
(***************************************************************************)
EXTENDS Integers, SequencesExt

Visible(blocks, layer, token) == {b \in blocks : b.layer = layer /\ b.end <= token}

Earlier(a, b) == a.start < b.start \/ (a.start = b.start /\ a.id < b.id)

Later(a, b) == Earlier(b, a)

Better(a, b) == a.score > b.score \/ (a.score = b.score /\ Earlier(a, b))

Sorted(S, before(_, _)) ==
  CHOOSE s \in [1 .. Cardinality(S) -> S] :
    \A i, j \in DOMAIN s : i < j => before(s[i], s[j])

(* Python slices: at most the first, or the last, n elements.              *)
FirstN(s, n) == SubSeq(s, 1, IF n < Len(s) THEN n ELSE Len(s))

(* Fault: the slice starts one element too early.                          *)
LastNAndOne(s, n) == SubSeq(s, IF n < Len(s) THEN Len(s) - n ELSE 1, Len(s))

LastN(s, n) == SubSeq(s, IF n < Len(s) THEN Len(s) - n + 1 ELSE 1, Len(s))

Select(config, blocks, layer, token) ==
  LET all == Visible(blocks, layer, token)
      init == FirstN(Sorted(all, Earlier), config.init)
      local == LastN(Sorted(all \ ToSet(init), Earlier), config.local)
      rest == all \ (ToSet(init) \cup ToSet(local))
  IN [init |-> init, local |-> local,
      selected |-> FirstN(Sorted(rest, Better), config.selected)]

AllBlocks(result) == result.init \o result.local \o result.selected

(***************************************************************************)
(* Reference: a block is init if fewer than config.init blocks precede it, *)
(* local if fewer than config.local of the others follow it, and selected  *)
(* if fewer than config.selected of what remains are ranked above it.      *)
(***************************************************************************)
AmongFirst(S, before(_, _), n) == {b \in S : Cardinality({a \in S : before(a, b)}) < n}

SelectionMeetsReference(result, config, blocks, layer, token) ==
  LET all == Visible(blocks, layer, token)
      init == AmongFirst(all, Earlier, config.init)
      local == AmongFirst(all \ init, Later, config.local)
      selected == AmongFirst(all \ (init \cup local), Better, config.selected)
  IN /\ ToSet(result.init) = init
     /\ ToSet(result.local) = local
     /\ ToSet(result.selected) = selected
     /\ Len(AllBlocks(result)) = Cardinality(init \cup local \cup selected)
=============================================================================
