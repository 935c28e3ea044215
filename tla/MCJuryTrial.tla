---------------------------- MODULE MCJuryTrial ----------------------------
(***************************************************************************)
(* Instances of JuryTrial for TLC.                                         *)
(***************************************************************************)
EXTENDS JuryTrial

CONSTANT f1

JuryOf(n, minimum, rounds, defective) ==
  [mode |-> "jury", jurors |-> n, minimum |-> minimum, rounds |-> rounds,
   exhibits |-> 1, defective |-> defective]

(* Two of three jurors must agree, in two rounds; both of two jurors, in   *)
(* three, so that a round can repeat the one before; and, with no          *)
(* jurisdiction pleaded, one of two jurors, and a bench trial.             *)
MCCourts ==
  {JuryOf(3, 2, 2, FALSE), JuryOf(2, 2, 3, FALSE), JuryOf(2, 1, 2, TRUE),
   [mode |-> "bench", jurors |-> 0, minimum |-> 0, rounds |-> 1, exhibits |-> 1,
    defective |-> TRUE]}
==============================================================================
