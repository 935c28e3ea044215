---------------------------- MODULE MCRoleTurns ----------------------------
(***************************************************************************)
(* Instances of RoleTurns for TLC.                                         *)
(***************************************************************************)
EXTENDS RoleTurns

CONSTANTS f1, f2

CourtOf(mode, n, exhibits, defective) ==
  [mode |-> mode, jurors |-> n, minimum |-> n, rounds |-> 2,
   exhibits |-> exhibits, defective |-> defective]

(* A jury of two that must agree within two rounds and sees no exhibits,   *)
(* the bench, before which a side offers up to two; and with no            *)
(* jurisdiction pleaded a jury of one, and the bench.                      *)
MCCourts ==
  {CourtOf("jury", 2, 0, FALSE), CourtOf("bench", 0, 2, FALSE),
   CourtOf("jury", 1, 0, TRUE), CourtOf("bench", 0, 1, TRUE)}
==============================================================================
