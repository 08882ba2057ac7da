--------------------------- MODULE MCAlertIngress ---------------------------
(***************************************************************************)
(* TLC instance of AlertIngress: one alert id, delivered several times to  *)
(* two workers; deliveries to different workers race in Redis as two ids   *)
(* with one fingerprint would.                                             *)
(***************************************************************************)
EXTENDS AlertIngress

CONSTANTS a1, same

MCFingerprint == [a \in {a1} |-> same]
=============================================================================
