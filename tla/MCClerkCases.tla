---------------------------- MODULE MCClerkCases ----------------------------
(***************************************************************************)
(* Instances of ClerkCases for TLC.  Two create requests that name one id  *)
(* in two directories and one kill request; two ids that name one          *)
(* directory are a matter of the theorems.                                 *)
(***************************************************************************)
EXTENDS ClerkCases

CONSTANTS c1, d1, d2, k1, r1, r2

MCCaseOf == [r \in Requests |-> c1]

MCDirOf == [r \in Requests |-> IF r = r1 THEN d1 ELSE d2]
=============================================================================
