--------------------------- MODULE MCCaseRegistry ---------------------------
(***************************************************************************)
(* Instances of CaseRegistry for TLC: one cancel request, two deaths of    *)
(* the service: one detaches the child, the other finds what it left.      *)
(***************************************************************************)
EXTENDS CaseRegistry

CONSTANT c1
==============================================================================
