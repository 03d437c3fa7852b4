--------------------------- MODULE MCHistoryFiles ---------------------------
(***************************************************************************)
(* Two markets, with histories of up to two days, not in order, and a day   *)
(* that does not parse.  A skipped market has none.                         *)
(***************************************************************************)
EXTENDS HistoryFiles

CONSTANTS r1, r2, c1
MCMarkets == <<"a", "b">>
MCBadDay == 0
MCAnswers == {<<1>>, <<2, 1>>, <<2, 0>>, <<0>>}
MCRequests == {[day |-> 2, loc |-> l] : l \in {"Local", "UTC"}}
=============================================================================
