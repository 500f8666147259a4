------------------------------ MODULE MCDashboard ------------------------------
(* Two picks, two fetches in flight and one reconnect, over a clock that passes  *)
(* the stale and the dead threshold.                                             *)
EXTENDS Dashboard
================================================================================
