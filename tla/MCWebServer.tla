---------------------------- MODULE MCWebServer -----------------------------
(***************************************************************************)
(* The example server for TLC: the requests are model values.               *)
(***************************************************************************)
EXTENDS WebServer

CONSTANT r1
=============================================================================
