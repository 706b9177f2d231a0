------------------------------ MODULE MCLayouts ------------------------------
(* Instance of both layouts of the backing file.  Aligned: four blocks, a  *)
(* base that is no multiple of the alignment, and sizes below, at and      *)
(* above one alignment unit.  Interleaved: three blocks of one to three    *)
(* tokens, two of them over tokens another block covers too.  The layouts  *)
(* share nothing, so that a behaviour uses one of them.                    *)
EXTENDS SSDLayout, InterleavedLayout

MCIntervals == {[start |-> 0, end |-> 1], [start |-> 0, end |-> 3], [start |-> 2, end |-> 4]}

LayoutsInit == SSDInit /\ InterleavedInit

LayoutsNext ==
  \/ layoutOutcome = "none" /\ SSDNext /\ UNCHANGED kvVars
  \/ outcome = "none" /\ InterleavedNext /\ UNCHANGED ssdVars

LayoutsSpec == LayoutsInit /\ [][LayoutsNext]_<<ssdVars, kvVars>>
=============================================================================
