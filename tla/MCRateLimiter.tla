---------------------------- MODULE MCRateLimiter ----------------------------
(***************************************************************************)
(* TLC instance of RateLimiter: enough requests to fill a client's window, *)
(* be refused, and be let in again when the window has moved on.           *)
(***************************************************************************)
EXTENDS RateLimiter, TLC

Symmetry ==
  Permutations(Requests) \cup Permutations(Clients) \cup Permutations(Workers)
=============================================================================
