--------------------------- MODULE MCJurySelection ---------------------------
(***************************************************************************)
(* Instances of JurySelection for TLC.  The engine's smallest jury is six; *)
(* here it is one, so that the panel of a policy that gives each side a    *)
(* challenge and a strike stays small enough to explore.                   *)
(***************************************************************************)
EXTENDS JurySelection

Court(count, minimum, panel, disallow, cause, strikes, skip, defective) ==
  [juror_count |-> count, minimum |-> minimum, panel |-> panel, questions |-> 1,
   disallowed |-> disallow, for_cause |-> cause, peremptory |-> strikes, skip |-> skip,
   defective |-> defective]

(* One juror and for each side a challenge and a strike, no questions; one *)
(* juror, a strike each and questions; two jurors and questions; two drawn *)
(* without voir dire; and one juror and questions, with no jurisdiction    *)
(* pleaded.                                                                *)
MCPolicies ==
  {Court(1, 1, 0, 0, 1, 1, FALSE, FALSE), Court(1, 1, 0, 1, 0, 1, FALSE, FALSE),
   Court(2, 1, 2, 2, 0, 0, FALSE, FALSE), Court(2, 2, 3, 0, 0, 0, TRUE, FALSE),
   Court(1, 1, 0, 1, 0, 0, FALSE, TRUE)}
==============================================================================
