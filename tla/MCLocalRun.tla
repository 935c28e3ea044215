----------------------------- MODULE MCLocalRun -----------------------------
(***************************************************************************)
(* An instance of LocalRun for TLC: a panel of one member and two rounds,  *)
(* so that the member's second agent can meet its first one.               *)
(***************************************************************************)
EXTENDS LocalRun

CONSTANTS m1

One == <<m1>>
=============================================================================
