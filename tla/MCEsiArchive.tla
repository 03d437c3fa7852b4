---------------------------- MODULE MCEsiArchive ----------------------------
(***************************************************************************)
(* A thread that fetches structures with a token and one trail (locations)  *)
(* and one that fetches orders or histories with several.                   *)
(***************************************************************************)
EXTENDS EsiArchive

CONSTANTS c1, c2

MCTrails == [c \in Client |-> IF c \in Authenticated THEN 1 ELSE 2]
MCAdvice == -1 .. SleepMax
=============================================================================
