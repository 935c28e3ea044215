------------------------------ MODULE MCArbCase ------------------------------
(***************************************************************************)
(* Instances of ArbCase for TLC.                                           *)
(***************************************************************************)
EXTENDS ArbCase

CONSTANTS m1, m2, m3

MCPolicy(size, required, rounds, side) ==
  [council_size |-> size, required_votes |-> required, max_rounds |-> rounds,
   max_chars |-> [p \in MeritsPhases |-> 1],
   exhibits_per_filing |-> IF side = 0 THEN 0 ELSE 2, exhibits_per_side |-> side,
   reports_per_filing |-> IF side = 0 THEN 0 ELSE 1,
   reports_per_side |-> IF side = 0 THEN 0 ELSE 1,
   evidence_bytes |-> 1, evidence_per_side |-> IF side = 0 THEN 0 ELSE 1]

\* The merits instance: one council member, caps that two phases can exceed.
MeritsPolicies == {MCPolicy(1, 1, 1, 2)}
MeritsRosters == {<<m1>>}

\* The council instance: two or three seats, a bare majority or unanimity, two
\* rounds, a roster with a repeated id, rosters of the wrong length for a policy,
\* and a policy without a strict majority, which the engine must refuse.
CouncilPolicies ==
  {MCPolicy(3, 3, 2, 0), MCPolicy(3, 2, 2, 0), MCPolicy(2, 2, 2, 0), MCPolicy(2, 1, 1, 0)}
CouncilRosters ==
  {<<m1, m2, m3>>, <<m1, m1, m2>>, <<m1, m2>>}

\* One instance for both: a policy goes with the rosters of its size.
AllPolicies == MeritsPolicies \cup CouncilPolicies
AllRosters == MeritsRosters \cup CouncilRosters
==============================================================================
