----------------------------- MODULE MCTripwire -----------------------------
(***************************************************************************)
(* TLC instance of Tripwire: two error texts, a buffer of two lines and a  *)
(* log of a few lines, so that buffers overlap, a text comes again inside  *)
(* and after its window, and the watcher restarts in the middle.           *)
(***************************************************************************)
EXTENDS Tripwire
=============================================================================
