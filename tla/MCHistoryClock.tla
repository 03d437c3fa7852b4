--------------------------- MODULE MCHistoryClock ---------------------------
(***************************************************************************)
(* Machines further west of UTC than 11:15, west of it, on it, and east.    *)
(***************************************************************************)
EXTENDS HistoryClock

MCZones == {-5, -3, 0, 2}
=============================================================================
