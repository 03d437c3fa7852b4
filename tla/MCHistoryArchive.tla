-------------------------- MODULE MCHistoryArchive --------------------------
(***************************************************************************)
(* Two markets, one without a row on some days.  The years have three, two  *)
(* and two days; the clock starts on the first day of the third, so that    *)
(* the initial download and the daily rounds each cross the end of a year.  *)
(***************************************************************************)
EXTENDS HistoryArchive

CONSTANTS m1, m2
MCTraded == [m \in ActiveMarket |-> IF m = m1 THEN 0..(End \div 2) ELSE {1, 3, 4, 6}]
=============================================================================
