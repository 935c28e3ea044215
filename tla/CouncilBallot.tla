---------------------------- MODULE CouncilBallot ----------------------------
(***************************************************************************)
(* What an arbitration promises about its council, without lists, phases   *)
(* or versions: a bench of members votes in rounds; each member on the     *)
(* bench has at most one ballot in a round; a member may leave as long as  *)
(* it has not voted in the round; when every member on the bench has voted *)
(* the round is settled at once, by decision, by another round, or by      *)
(* closing without a majority.                                             *)
(***************************************************************************)
EXTENDS Integers, FiniteSets

CONSTANTS Members, Rules

VARIABLES
  rule,     \* [required, rounds]: votes for a decision, rounds allowed
  stage,    \* "merits", "voting", "over" or "failed"
  bench,    \* the members still on the council
  cast,     \* the ballots of the current round, a function on its voters
  round,
  verdict

vars == <<rule, stage, bench, cast, round, verdict>>

Votes(ballots, b) == Cardinality({m \in DOMAIN ballots : ballots[m] = b})

Init ==
  /\ rule \in Rules
  /\ stage = "merits"
  /\ bench = {}
  /\ cast = [m \in {} |-> "none"]
  /\ round = 1
  /\ verdict = "none"

\* The merits are complete and the council, of the size the rule was made
\* for, takes its seats.
Convene(members) ==
  /\ stage = "merits"
  /\ rule.required <= Cardinality(members)
  /\ 2 * rule.required > Cardinality(members)
  /\ stage' = "voting"
  /\ bench' = members
  /\ UNCHANGED <<rule, cast, round, verdict>>

\* A side failed its turn before the council sat.
Abort ==
  /\ stage = "merits"
  /\ stage' = "failed"
  /\ UNCHANGED <<rule, bench, cast, round, verdict>>

Close(v) == stage' = "over" /\ verdict' = v /\ UNCHANGED round

\* The outcome of a round in which every member of b has cast a ballot in c.
Settle(b, c) ==
  IF DOMAIN c # b
    THEN cast' = c /\ UNCHANGED <<stage, round, verdict>>
  ELSE IF \E v \in {"demonstrated", "not_demonstrated"} : Votes(c, v) >= rule.required
    THEN /\ cast' = c
         /\ \E v \in {"demonstrated", "not_demonstrated"} :
              Votes(c, v) >= rule.required /\ Close(v)
  ELSE IF Cardinality(b) < rule.required \/ round = rule.rounds
    THEN cast' = c /\ Close("no_majority")
  ELSE /\ cast' = [m \in {} |-> "none"]
       /\ round' = round + 1
       /\ UNCHANGED <<stage, verdict>>

Cast(m, ballot) ==
  /\ stage = "voting"
  /\ m \in bench \ DOMAIN cast
  /\ UNCHANGED <<rule, bench>>
  /\ Settle(bench, [x \in DOMAIN cast \cup {m} |-> IF x = m THEN ballot ELSE cast[x]])

Leave(m) ==
  /\ stage = "voting"
  /\ m \in bench \ DOMAIN cast
  /\ bench' = bench \ {m}
  /\ UNCHANGED rule
  /\ Settle(bench \ {m}, cast)

Next ==
  \/ \E members \in SUBSET Members : Convene(members)
  \/ Abort
  \/ \E m \in Members, ballot \in {"demonstrated", "not_demonstrated"} : Cast(m, ballot)
  \/ \E m \in Members : Leave(m)

Spec == Init /\ [][Next]_vars
==============================================================================
