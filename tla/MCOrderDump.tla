---------------------------- MODULE MCOrderDump -----------------------------
(***************************************************************************)
(* DownloadOrderDump for TLC: books of none to three orders, two to a page. *)
(***************************************************************************)
EXTENDS OrderDump

MCBooks == {SubSeq(<<1, 2, 3>>, 1, n) : n \in 0..3}
=============================================================================
