-------------------------- MODULE MCLocationWorker --------------------------
(***************************************************************************)
(* Every order dump of at most four orders, so that one dump  may repeat a  *)
(* location and name every kind of location.                                *)
(***************************************************************************)
EXTENDS LocationWorker

CONSTANTS npc, staleNpc, s1, s2

MCOrderDumps == BoundedSeq({npc, staleNpc, s1, s2}, 4)
=============================================================================
