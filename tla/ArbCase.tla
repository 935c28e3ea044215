------------------------------- MODULE ArbCase -------------------------------
(***************************************************************************)
(* One arbitration as a state machine: every request the Lean engine       *)
(* accepts (step in src/arb/engine/Main.lean) is one action on the case    *)
(* state st.  Requests are unconstrained, so the properties below hold of  *)
(* the engine whoever drives it; what the Go runtime adds is the subject   *)
(* of the proceeding modules.                                              *)
(***************************************************************************)
EXTENDS ArbEngine

CONSTANTS
  Policies,   \* the policies a case may be created with
  Rosters,    \* the council rosters (sequences of ids) a request may carry
  Chars,      \* text lengths a filing may have
  Amounts,    \* numbers of exhibits or reports a filing may carry
  Sizes       \* sizes of submitted evidence in bytes

ASSUME RequestAssumption ==
  /\ Policies \subseteq Policy
  /\ Rosters \subseteq Seq(MemberIds)
  /\ Chars \subseteq Nat
  /\ Amounts \subseteq Nat
  /\ Sizes \subseteq Nat

VARIABLE st

vars == <<st>>

Init == st \in {DraftState(p) : p \in Policies}

-----------------------------------------------------------------------------

InitializeCase(ids) ==
  /\ st.status = "draft"
  /\ InitializeCaseOK(st, ids)
  /\ st' = AfterInitializeCase(st, ids)

RecordOpeningStatement(role, chars) ==
  /\ OpeningStatementOK(st, role, chars)
  /\ st' = AfterOpeningStatement(st, role)

MeritsSubmission(phase, role, chars, exhibits, reports) ==
  /\ MeritsSubmissionOK(st, phase, role, chars, exhibits, reports)
  /\ st' = AfterMeritsSubmission(st, phase, role, exhibits, reports)

SubmitArgument(role, chars, exhibits, reports) ==
  MeritsSubmission("arguments", role, chars, exhibits, reports)

SubmitRebuttal(role, chars, exhibits, reports) ==
  MeritsSubmission("rebuttals", role, chars, exhibits, reports)

SubmitSurrebuttal(role, chars, exhibits, reports) ==
  MeritsSubmission("surrebuttals", role, chars, exhibits, reports)

SubmitEvidence(role, id, bytes) ==
  /\ SubmitEvidenceOK(st, role, id, bytes)
  /\ st' = AfterSubmitEvidence(st, role, id)

DeliverClosingStatement(role, chars, exhibits, reports) ==
  /\ ClosingStatementOK(st, role, chars, exhibits, reports)
  /\ st' = AfterClosingStatement(st, role)

PassPhaseOpportunity(role) ==
  /\ PassPhaseOK(st, role)
  /\ st' = AfterPassPhase(st)

SubmitCouncilVote(actor, m, ballot) ==
  /\ CouncilVoteOK(st, actor, m, ballot)
  /\ st' = AfterCouncilVote(st, m, ballot)

RemoveCouncilMember(actor, m, status) ==
  /\ RemoveCouncilMemberOK(st, actor, m, status)
  /\ st' = AfterRemoveCouncilMember(st, m, status)

FailOpportunity(actor, opportunity, m, reason) ==
  /\ FailOpportunityOK(st, actor, opportunity, m)
  /\ st' = AfterFailOpportunity(st, opportunity, m, reason)

\* A failure may name the turn of any side or seat, an earlier round included.
NamedOpportunities ==
       [phase : MeritsPhases, role : Sides, round : {0}, member : {NoMember}]
  \cup [phase : {"deliberation"}, role : {"council"}, round : 1..st.round,
        member : MemberIds]

FailSomeOpportunity ==
  \E opportunity \in NamedOpportunities, m \in MemberIds \cup {NoMember},
     reason \in FailureReasons : FailOpportunity("system", opportunity, m, reason)

Next ==
  \/ \E ids \in Rosters : InitializeCase(ids)
  \/ \E role \in Sides, chars \in Chars : RecordOpeningStatement(role, chars)
  \/ \E role \in Sides, chars \in Chars, e, r \in Amounts :
       \/ SubmitArgument(role, chars, e, r)
       \/ SubmitRebuttal(role, chars, e, r)
       \/ SubmitSurrebuttal(role, chars, e, r)
       \/ DeliverClosingStatement(role, chars, e, r)
  \/ \E role \in Sides, id \in EvidenceIds, bytes \in Sizes :
       SubmitEvidence(role, id, bytes)
  \/ \E role \in Sides : PassPhaseOpportunity(role)
  \/ \E m \in MemberIds, ballot \in Ballots : SubmitCouncilVote("council", m, ballot)
  \/ \E m \in MemberIds, status \in MemberStatuses :
       RemoveCouncilMember("system", m, status)
  \/ FailSomeOpportunity

Spec == Init /\ [][Next]_vars

(***************************************************************************)
(* The runtime asks for the next opportunity and has it filed, voted on or *)
(* failed until the engine answers terminal, so a request the engine       *)
(* accepts is always eventually made.                                      *)
(***************************************************************************)
FairSpec == Spec /\ WF_vars(Next)

-----------------------------------------------------------------------------
(* Type correctness: requests leave a well-formed case state.              *)
TypeOK == st \in State

(***************************************************************************)
(* Merits structure.  The filings of the phases form one schedule: what    *)
(* comes before the current phase is complete (a rebuttal or surrebuttal   *)
(* may have been passed), what comes after is empty, and within a phase    *)
(* the plaintiff files first and the defendant second, so the two sides    *)
(* have had the same number of turns whenever a phase is complete.         *)
(***************************************************************************)
PhaseRank(phase) ==
  CASE phase = "draft"        -> 0
    [] phase = "openings"     -> 1
    [] phase = "arguments"    -> 2
    [] phase = "rebuttals"    -> 3
    [] phase = "surrebuttals" -> 4
    [] phase = "closings"     -> 5
    [] phase = "deliberation" -> 6
    [] phase = "closed"       -> 7

CompleteFilings(phase) ==
  CASE phase = "rebuttals"    -> {<<>>, <<"plaintiff">>}
    [] phase = "surrebuttals" -> {<<>>, <<"defendant">>}
    [] OTHER                  -> {<<"plaintiff", "defendant">>}

PartialFilings(phase) ==
  IF phase \in {"rebuttals", "surrebuttals"} THEN {<<>>} ELSE {<<>>, <<"plaintiff">>}

MeritsShape ==
  \A phase \in MeritsPhases :
    st.filings[phase] \in
      IF PhaseRank(phase) < PhaseRank(st.phase) THEN CompleteFilings(phase)
      ELSE IF phase = st.phase THEN PartialFilings(phase)
      ELSE {<<>>}

(***************************************************************************)
(* Material limits.  Over all phases together neither side exceeds the     *)
(* per-side caps of the policy, every evidence id is used once, and new    *)
(* evidence carries a phase its side files in.                             *)
(***************************************************************************)
MaterialLimits ==
  /\ \A role \in Sides :
       /\ st.offered[role] <= st.policy.exhibits_per_side
       /\ st.reports[role] <= st.policy.reports_per_side
       /\ EvidenceCountFor(st, role) <= st.policy.evidence_per_side
  /\ \A i, j \in DOMAIN st.evidence :
       st.evidence[i].id = st.evidence[j].id => i = j
  /\ \A i \in DOMAIN st.evidence :
       /\ st.evidence[i].role = "plaintiff" => st.evidence[i].phase # "surrebuttals"
       /\ st.evidence[i].role = "defendant" => st.evidence[i].phase # "rebuttals"

(***************************************************************************)
(* A live case is never stranded: the engine names a next opportunity, and *)
(* it would accept a filing or a vote made for exactly that opportunity.   *)
(***************************************************************************)
NeverStranded ==
  st.status = "active" =>
    LET next == NextOpportunity(st) IN
      /\ next # NoOpportunity
      /\ next.phase = st.phase
      /\ CASE next.phase = "openings" -> OpeningStatementOK(st, next.role, 1)
           [] next.phase = "closings" -> ClosingStatementOK(st, next.role, 1, 0, 0)
           [] next.phase \in EvidencePhases ->
                MeritsSubmissionOK(st, next.phase, next.role, 1, 0, 0)
           [] next.phase = "deliberation" ->
                CouncilVoteOK(st, next.role, next.member, "demonstrated")

(***************************************************************************)
(* Vote integrity.  A council member votes at most once in a round, votes  *)
(* belong to rounds that have begun, and whoever has voted in the current  *)
(* round is still seated: a recorded vote cannot be undone by a removal.   *)
(***************************************************************************)
OneBallotEach(s) ==
  \A i, j \in DOMAIN s.votes :
    s.votes[i].round = s.votes[j].round /\ s.votes[i].member = s.votes[j].member => i = j

VotersSeated(s) ==
  \A i \in CurrentRoundVotes(s) : SeatedMember(s, s.votes[i].member)

RoundsBegun(s) == \A i \in DOMAIN s.votes : s.votes[i].round \in 1..s.round

VoteIntegrity ==
  /\ OneBallotEach(st)
  /\ VotersSeated(st)
  /\ RoundsBegun(st)
  /\ Cardinality(CurrentRoundVotes(st)) <= Cardinality(SeatedMembers(st))

(***************************************************************************)
(* Outcome soundness.  A decision rests on the required number of votes    *)
(* cast for it in the last round, each by a different member; a case is    *)
(* closed without a majority only when neither side has those votes and    *)
(* no further round could be held.                                         *)
(***************************************************************************)
OutcomeSound(s) ==
  LET required == s.policy.required_votes IN
    /\ \A i, j \in CurrentRoundVotes(s) :
         s.votes[i].member = s.votes[j].member => i = j
    /\ s.resolution \in Ballots \cup {"no_majority"}
    /\ \A ballot \in Ballots :
         s.resolution = ballot <=> VoteCountFor(s, ballot) >= required
    /\ s.resolution = "no_majority" =>
         \/ Cardinality(SeatedMembers(s)) < required
         \/ s.round = s.policy.max_rounds

DecisionSound == st.status = "closed" => OutcomeSound(st)

(***************************************************************************)
(* What makes the properties above inductive (proved in ArbCaseProofs).    *)
(* Frame ties status, phase and policy together.  CouncilReady says that   *)
(* every seat has its own id and is still taken when deliberation begins,  *)
(* and that a deliberation still open waits for at least one seat: a round *)
(* whose last vote is in has already been settled.                         *)
(***************************************************************************)
Frame ==
  /\ st.status = "draft" <=> st.phase = "draft"
  /\ st.status = "closed" <=> st.phase = "closed"
  /\ st.status = "failed" => st.phase \in MeritsPhases
  /\ st.status = "draft" => st = DraftState(st.policy)
  /\ st.status # "draft" =>
       ValidPolicy(st.policy) /\ Len(st.members) = st.policy.council_size

DistinctSeats(s) ==
  \A i, j \in DOMAIN s.members : s.members[i].id = s.members[j].id => i = j

CouncilReady ==
  /\ DistinctSeats(st)
  /\ st.phase \notin {"deliberation", "closed"} =>
       st.votes = <<>> /\ st.round = 1 /\ SeatedMembers(st) = DOMAIN st.members
  /\ st.phase = "deliberation" =>
       /\ Cardinality(CurrentRoundVotes(st)) < Cardinality(SeatedMembers(st))
       /\ st.round \in 1..st.policy.max_rounds

Inv ==
  /\ TypeOK /\ Frame /\ MeritsShape /\ MaterialLimits
  /\ CouncilReady /\ VoteIntegrity /\ DecisionSound

(***************************************************************************)
(* Only a side's own open opportunity can fail the case: the failure on    *)
(* record is the opportunity that was open when the case failed, and the   *)
(* outcome of a case that is over never changes.                           *)
(***************************************************************************)
FailureIsCurrent ==
  [][ /\ st.status = "active" /\ st'.status = "failed" =>
           /\ st'.failure.opportunity = NextOpportunity(st)
           /\ st'.failure.opportunity.role \in Sides
           /\ st'.resolution = "" /\ st'.votes = st.votes
      /\ ~ Open(st) => st' = st ]_vars

(***************************************************************************)
(* Progress inside one frame.  A step never changes the policy or the      *)
(* council ids, never withdraws a filing, evidence or a vote, never goes   *)
(* back to an earlier phase or round, and never reseats a member.          *)
(***************************************************************************)
Extends(longer, shorter) ==
  /\ Len(shorter) <= Len(longer)
  /\ \A i \in 1..Len(shorter) : longer[i] = shorter[i]

FixedFrameProgress ==
  [][ st.status # "draft" =>
      /\ st'.policy = st.policy
      /\ Len(st'.members) = Len(st.members)
      /\ \A i \in DOMAIN st.members :
           /\ st'.members[i].id = st.members[i].id
           /\ st.members[i].status # "seated" =>
                st'.members[i].status = st.members[i].status
      /\ \A phase \in MeritsPhases : Extends(st'.filings[phase], st.filings[phase])
      /\ Extends(st'.evidence, st.evidence)
      /\ Extends(st'.votes, st.votes)
      /\ PhaseRank(st.phase) <= PhaseRank(st'.phase)
      /\ st.round <= st'.round
      /\ st'.version = st.version + 1 ]_vars

\* Every case that is driven comes to an end: closed, or failed by a side.
Termination == [](st.status = "active" => <>(st.status \in {"closed", "failed"}))
-----------------------------------------------------------------------------
(***************************************************************************)
(* The engine implements the council ballot.  The bench is the set of ids  *)
(* of the seats that are still taken, the ballots of the round are read    *)
(* off the vote list, and everything before deliberation is one stage.     *)
(***************************************************************************)
BenchOf(s) ==
  IF PhaseRank(s.phase) < 6 THEN {} ELSE {s.members[i].id : i \in SeatedMembers(s)}

CastOf(s) ==
  [m \in {s.votes[i].member : i \in CurrentRoundVotes(s)} |->
     s.votes[CHOOSE i \in CurrentRoundVotes(s) : s.votes[i].member = m].vote]

StageOf(s) ==
  CASE s.status = "failed" -> "failed"
    [] s.status = "closed" -> "over"
    [] s.phase = "deliberation" -> "voting"
    [] OTHER -> "merits"

RuleOf(policy) == [required |-> policy.required_votes, rounds |-> policy.max_rounds]

Ballot == INSTANCE CouncilBallot WITH
  Members <- MemberIds,
  Rules   <- {RuleOf(p) : p \in Policies},
  rule    <- RuleOf(st.policy),
  stage   <- StageOf(st),
  bench   <- BenchOf(st),
  cast    <- CastOf(st),
  round   <- st.round,
  verdict <- IF st.resolution = "" THEN "none" ELSE st.resolution

\* Every behaviour of the engine, its requests unconstrained, is a council
\* ballot: lists of seats and votes count as the sets they stand for.
ImplementsBallot == Ballot!Spec
==============================================================================
