----------------------------- MODULE MCEsiFetch -----------------------------
(***************************************************************************)
(* esiFetch for TLC: the constants of small instances.                      *)
(***************************************************************************)
EXTENDS EsiProps

CONSTANTS c1, c2
\* Locations are fetched with one trail and a token, the rest with several.
MCTrails == [c \in Client |-> IF c \in Authenticated THEN 1 ELSE 2]
\* One advice below each range, and every value up to one above the largest.
MCAdvice == -1 .. RateMax + 1
=============================================================================
