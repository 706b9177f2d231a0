---------------------------- MODULE BlockExtents ----------------------------
(***************************************************************************)
(* BlockLayout (core/kv_layout.py): the bytes of one KV block, the K and   *)
(* then the V row of every token in turn.  A layout is a record            *)
(* [start, end, base, key, value]: its tokens, the offset of its first     *)
(* byte and the sizes of its rows.                                         *)
(***************************************************************************)
EXTENDS Integers

Kinds == {"k", "v"}

Tokens(l) == l.start .. l.end - 1

Stride(l) == l.key + l.value

TotalSize(l) == (l.end - l.start) * Stride(l)

End(l) == l.base + TotalSize(l)

RowSize(l, kind) == IF kind = "k" THEN l.key ELSE l.value

RowOffset(l, kind, token) ==
  l.base + (token - l.start) * Stride(l) + (IF kind = "k" THEN 0 ELSE l.key)

Extent(l, kind, token) ==
  [kind |-> kind, token |-> token, offset |-> RowOffset(l, kind, token),
   size |-> RowSize(l, kind)]

Extents(l) == {Extent(l, kind, token) : kind \in Kinds, token \in Tokens(l)}

Covers(x, byte) == x.offset <= byte /\ byte < x.offset + x.size
=============================================================================
