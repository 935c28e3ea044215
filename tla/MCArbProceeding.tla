--------------------------- MODULE MCArbProceeding ---------------------------
(***************************************************************************)
(* Instances of ArbProceeding for TLC: a council of two who must agree in  *)
(* one round, one new exhibit per side, two invalid attempts per turn.     *)
(***************************************************************************)
EXTENDS ArbProceeding

CONSTANTS m1, m2

MCPolicy ==
  [council_size |-> 2, required_votes |-> 2, max_rounds |-> 1,
   max_chars |-> [p \in MeritsPhases |-> 1],
   exhibits_per_filing |-> 0, exhibits_per_side |-> 0,
   reports_per_filing |-> 0, reports_per_side |-> 0,
   evidence_bytes |-> 1, evidence_per_side |-> 1]

MCRoster == <<m1, m2>>

(* Nothing fails and every answer is in time; a write of evidence fails;   *)
(* anything else fails; anything fails and answers race deadlines.         *)
MCMachines ==
  LET others == {"engine", "event", "cancel"} IN
  {[late |-> FALSE, faults |-> {}], [late |-> FALSE, faults |-> {"file"}],
   [late |-> FALSE, faults |-> others], [late |-> TRUE, faults |-> others \cup {"file"}]}

(* Nothing fails, but answers race deadlines.                              *)
MCFaultless == {[late |-> TRUE, faults |-> {}]}
==============================================================================
