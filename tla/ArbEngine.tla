------------------------------ MODULE ArbEngine ------------------------------
(***************************************************************************)
(* The rules of Agent Arbitration as the Lean engine computes them         *)
(* (src/arb/engine/Main.lean).  The engine is a pure program: it is given  *)
(* a case state and an action and answers with the next state or with an   *)
(* error.  Every rule is therefore a pair of operators over a state value, *)
(* XOK(s, ...) for "the engine accepts" and AfterX(s, ...) for the state   *)
(* it returns.  ArbCase turns them into a state machine; the modules of    *)
(* the Go runtime apply them to the copies of the state they hold.         *)
(*                                                                         *)
(* Texts are represented by their length, offered exhibits and technical   *)
(* reports by how many each side has filed, a member's model, persona and  *)
(* rationale are left out.                                                 *)
(***************************************************************************)
EXTENDS Integers, Sequences, FiniteSets

CONSTANTS
  MemberIds,    \* the council member ids a request may name
  EvidenceIds,  \* the evidence ids a submission may name
  NoMember      \* the member of an opportunity that is not a council seat

ASSUME NoMemberAssumption == NoMember \notin MemberIds

Sides == {"plaintiff", "defendant"}

MeritsPhases == {"openings", "arguments", "rebuttals", "surrebuttals", "closings"}

\* The phases in which exhibits, reports and new evidence may be filed.
EvidencePhases == {"arguments", "rebuttals", "surrebuttals"}

Phases == {"draft"} \cup MeritsPhases \cup {"deliberation", "closed"}

MemberStatuses == {"seated", "failed", "removed"}

Ballots == {"demonstrated", "not_demonstrated"}

FailureReasons ==
  {"deadline_expired", "attempts_exhausted", "request_failed", "agent_exited",
   "agent_output_limit_exceeded"}

-----------------------------------------------------------------------------
(* The state.                                                              *)

Policy == [council_size : Nat, required_votes : Nat, max_rounds : Nat,
           max_chars : [MeritsPhases -> Nat],
           exhibits_per_filing : Nat, exhibits_per_side : Nat,
           reports_per_filing : Nat, reports_per_side : Nat,
           evidence_bytes : Nat, evidence_per_side : Nat]

Opportunity == [phase : Phases, role : Sides \cup {"council", "none"},
                round : Nat, member : MemberIds \cup {NoMember}]

Vote == [member : MemberIds, round : Nat, vote : Ballots]

Seat == [id : MemberIds, status : MemberStatuses]

Evidence == [id : EvidenceIds, role : Sides, phase : EvidencePhases]

Statuses == {"draft", "active", "closed", "failed"}

Resolutions == Ballots \cup {"no_majority", ""}

Council == Seq(Seat)

Filings == [MeritsPhases -> Seq(Sides)]

Materials == [Sides -> Nat]

EvidenceList == Seq(Evidence)

VoteList == Seq(Vote)

Failures == [opportunity : Opportunity, reason : FailureReasons \cup {""}]

State == [status : Statuses, phase : Phases, policy : Policy, members : Council,
          filings : Filings, offered : Materials, reports : Materials,
          evidence : EvidenceList, round : Nat, votes : VoteList,
          resolution : Resolutions, failure : Failures, version : Nat]

NoOpportunity ==
  [phase |-> "closed", role |-> "none", round |-> 0, member |-> NoMember]

NoFailure == [opportunity |-> NoOpportunity, reason |-> ""]

DraftState(policy) ==
  [status |-> "draft", phase |-> "draft", policy |-> policy,
   members |-> <<>>, filings |-> [p \in MeritsPhases |-> <<>>],
   offered |-> [r \in Sides |-> 0], reports |-> [r \in Sides |-> 0],
   evidence |-> <<>>, round |-> 1, votes |-> <<>>, resolution |-> "",
   failure |-> NoFailure, version |-> 0]

\* stateWithCase: every accepted request yields a new version of the state.
StateWithCase(s) == [s EXCEPT !.version = @ + 1]

-----------------------------------------------------------------------------
(* Readings of the state.                                                  *)

CurrentRoundVotes(s) == {i \in DOMAIN s.votes : s.votes[i].round = s.round}

VoteCountFor(s, ballot) ==
  Cardinality({i \in CurrentRoundVotes(s) : s.votes[i].vote = ballot})

SeatedMembers(s) == {i \in DOMAIN s.members : s.members[i].status = "seated"}

KnownMember(s, m) == \E i \in DOMAIN s.members : s.members[i].id = m

SeatedMember(s, m) == \E i \in SeatedMembers(s) : s.members[i].id = m

VotedThisRound(s, m) == \E i \in CurrentRoundVotes(s) : s.votes[i].member = m

EvidenceCountFor(s, role) ==
  Cardinality({i \in DOMAIN s.evidence : s.evidence[i].role = role})

\* The side whose filing the engine expects in a phase (plaintiffThenDefendant).
ExpectedRole(s, phase) ==
  IF \/ phase = "rebuttals"
     \/ phase \in {"openings", "arguments", "closings"} /\ s.filings[phase] = <<>>
    THEN "plaintiff" ELSE "defendant"

\* Deviation: the first filing completes every phase.
OneFilingDue(phase) == 1

\* How many filings complete a phase.
FilingsDue(phase) == IF phase \in {"rebuttals", "surrebuttals"} THEN 1 ELSE 2

PhaseAfter(phase) ==
  CASE phase = "openings"     -> "arguments"
    [] phase = "arguments"    -> "rebuttals"
    [] phase = "rebuttals"    -> "surrebuttals"
    [] phase = "surrebuttals" -> "closings"
    [] phase = "closings"     -> "deliberation"

\* Deviation: whoever is seated is awaited, vote or no vote.
EverySeatedMember(s) == SeatedMembers(s)

\* The first seated member, in council order, who has not voted in this round.
AwaitedMembers(s) ==
  {i \in SeatedMembers(s) : ~ VotedThisRound(s, s.members[i].id)}

NextCouncilMember(s) ==
  s.members[CHOOSE i \in AwaitedMembers(s) :
              \A j \in AwaitedMembers(s) : i <= j].id

NextOpportunityForPhase(s) ==
  IF s.phase \in MeritsPhases /\ Len(s.filings[s.phase]) < FilingsDue(s.phase)
    THEN [phase |-> s.phase, role |-> ExpectedRole(s, s.phase),
          round |-> 0, member |-> NoMember]
  ELSE IF s.phase = "deliberation" /\ AwaitedMembers(s) # {}
    THEN [phase |-> s.phase, role |-> "council",
          round |-> s.round, member |-> NextCouncilMember(s)]
  ELSE NoOpportunity

\* NoOpportunity stands for the answer terminal = true.
NextOpportunity(s) ==
  IF s.status \in {"closed", "failed"} THEN NoOpportunity
                                       ELSE NextOpportunityForPhase(s)

\* step refuses every action on a case that is over.
Open(s) == s.status \notin {"closed", "failed"}

-----------------------------------------------------------------------------
(* initialize_case.                                                        *)

ValidPolicy(p) ==
  /\ p.council_size > 0
  /\ p.required_votes > 0
  /\ p.required_votes <= p.council_size
  /\ 2 * p.required_votes > p.council_size
  /\ p.max_rounds > 0
  /\ \A phase \in MeritsPhases : p.max_chars[phase] > 0
  /\ p.exhibits_per_filing <= p.exhibits_per_side
  /\ p.reports_per_filing <= p.reports_per_side
  /\ p.evidence_bytes > 0

HasDuplicates(ids) == \E i, j \in DOMAIN ids : i # j /\ ids[i] = ids[j]

InitializeCaseOK(s, ids) ==
  /\ ValidPolicy(s.policy)
  /\ Len(ids) = s.policy.council_size
  /\ ~ HasDuplicates(ids)

AfterInitializeCase(s, ids) ==
  StateWithCase(
    [DraftState(s.policy) EXCEPT
       !.status = "active", !.phase = "openings", !.version = s.version,
       !.members = [i \in 1..Len(ids) |-> [id |-> ids[i], status |-> "seated"]]])

-----------------------------------------------------------------------------
(* Filings.                                                                *)

TextWithinLimit(s, phase, chars) == chars > 0 /\ chars <= s.policy.max_chars[phase]

AdvanceAfterMerits(s) ==
  IF Len(s.filings[s.phase]) >= FilingsDue(s.phase)
    THEN [s EXCEPT !.phase = PhaseAfter(s.phase)] ELSE s

AddFiling(s, phase, role) ==
  AdvanceAfterMerits([s EXCEPT !.filings[phase] = Append(@, role)])

\* An opening statement: exhibits and reports in its payload are ignored.
OpeningStatementOK(s, role, chars) ==
  /\ Open(s)
  /\ s.phase = "openings"
  /\ role = ExpectedRole(s, "openings")
  /\ TextWithinLimit(s, "openings", chars)

AfterOpeningStatement(s, role) == StateWithCase(AddFiling(s, "openings", role))

\* A closing statement: a payload with exhibits or reports is refused.
ClosingStatementOK(s, role, chars, exhibits, reports) ==
  /\ Open(s)
  /\ s.phase = "closings"
  /\ role = ExpectedRole(s, "closings")
  /\ TextWithinLimit(s, "closings", chars)
  /\ exhibits = 0
  /\ reports = 0

AfterClosingStatement(s, role) == StateWithCase(AddFiling(s, "closings", role))

\* Deviation: only the limit per filing is checked, not the one per side.
FilingLimitsOK(s, phase, role, chars, exhibits, reports) ==
  /\ Open(s)
  /\ s.phase = phase
  /\ role = ExpectedRole(s, phase)
  /\ TextWithinLimit(s, phase, chars)
  /\ exhibits <= s.policy.exhibits_per_filing
  /\ reports <= s.policy.reports_per_filing

\* recordMeritsSubmission for arguments, rebuttals and surrebuttals.
MeritsSubmissionOK(s, phase, role, chars, exhibits, reports) ==
  /\ Open(s)
  /\ s.phase = phase
  /\ role = ExpectedRole(s, phase)
  /\ TextWithinLimit(s, phase, chars)
  /\ exhibits <= s.policy.exhibits_per_filing
  /\ reports <= s.policy.reports_per_filing
  /\ s.offered[role] + exhibits <= s.policy.exhibits_per_side
  /\ s.reports[role] + reports <= s.policy.reports_per_side

AfterMeritsSubmission(s, phase, role, exhibits, reports) ==
  StateWithCase([AddFiling(s, phase, role) EXCEPT
                   !.offered[role] = @ + exhibits,
                   !.reports[role] = @ + reports])

\* New evidence, from the side that is about to file in the phase.
SubmitEvidenceOK(s, role, id, bytes) ==
  /\ Open(s)
  /\ s.phase \in EvidencePhases
  /\ s.phase \in {"rebuttals", "surrebuttals"} => s.filings[s.phase] = <<>>
  /\ role = ExpectedRole(s, s.phase)
  /\ bytes > 0
  /\ \A i \in DOMAIN s.evidence : s.evidence[i].id # id
  /\ bytes <= s.policy.evidence_bytes
  /\ EvidenceCountFor(s, role) + 1 <= s.policy.evidence_per_side

AfterSubmitEvidence(s, role, id) ==
  StateWithCase([s EXCEPT !.evidence =
                   Append(@, [id |-> id, role |-> role, phase |-> s.phase])])

\* The plaintiff may pass its rebuttal, the defendant its surrebuttal.
PassPhaseOK(s, role) ==
  /\ Open(s)
  /\ s.phase \in {"rebuttals", "surrebuttals"}
  /\ role = ExpectedRole(s, s.phase)
  /\ s.filings[s.phase] = <<>>

AfterPassPhase(s) == StateWithCase([s EXCEPT !.phase = PhaseAfter(@)])

-----------------------------------------------------------------------------
(* Deliberation.                                                           *)

Resolved(s, resolution) ==
  [s EXCEPT !.status = "closed", !.phase = "closed", !.resolution = resolution]

\* Deviation: a decision needs more than the required votes.
DecideAboveRequired(s) ==
  IF Cardinality(CurrentRoundVotes(s)) # Cardinality(SeatedMembers(s))
    THEN s
  ELSE IF \E b \in Ballots : VoteCountFor(s, b) > s.policy.required_votes
    THEN Resolved(s, CHOOSE b \in Ballots : VoteCountFor(s, b) > s.policy.required_votes)
  ELSE IF s.round >= s.policy.max_rounds THEN Resolved(s, "no_majority")
  ELSE [s EXCEPT !.round = @ + 1]

\* Deviation: a new round seats the members again who left in an earlier one.
ReseatForNewRound(s) ==
  IF Cardinality(CurrentRoundVotes(s)) # Cardinality(SeatedMembers(s))
    THEN s
  ELSE IF \E b \in Ballots : VoteCountFor(s, b) >= s.policy.required_votes
    THEN Resolved(s, CHOOSE b \in Ballots : VoteCountFor(s, b) >= s.policy.required_votes)
  ELSE IF s.round >= s.policy.max_rounds THEN Resolved(s, "no_majority")
  ELSE [s EXCEPT !.round = @ + 1,
                 !.members = [i \in DOMAIN @ |-> [@[i] EXCEPT !.status = "seated"]]]

\* Deviation: a round waits for the votes of members who have left.
AwaitWholeCouncil(s) ==
  IF Cardinality(CurrentRoundVotes(s)) # Len(s.members)
    THEN s
  ELSE IF \E b \in Ballots : VoteCountFor(s, b) >= s.policy.required_votes
    THEN Resolved(s, CHOOSE b \in Ballots : VoteCountFor(s, b) >= s.policy.required_votes)
  ELSE IF s.round >= s.policy.max_rounds THEN Resolved(s, "no_majority")
  ELSE [s EXCEPT !.round = @ + 1]

\* Deviation: a round is over as soon as one side has the required votes.
DecideEarly(s) ==
  IF \E b \in Ballots : VoteCountFor(s, b) >= s.policy.required_votes
    THEN Resolved(s, CHOOSE b \in Ballots : VoteCountFor(s, b) >= s.policy.required_votes)
  ELSE IF Cardinality(CurrentRoundVotes(s)) # Cardinality(SeatedMembers(s)) THEN s
  ELSE IF s.round >= s.policy.max_rounds THEN Resolved(s, "no_majority")
  ELSE [s EXCEPT !.round = @ + 1]

ContinueDeliberation(s) ==
  IF Cardinality(CurrentRoundVotes(s)) # Cardinality(SeatedMembers(s))
    THEN s
  ELSE IF VoteCountFor(s, "demonstrated") >= s.policy.required_votes
    THEN Resolved(s, "demonstrated")
  ELSE IF VoteCountFor(s, "not_demonstrated") >= s.policy.required_votes
    THEN Resolved(s, "not_demonstrated")
  ELSE IF \/ Cardinality(SeatedMembers(s)) < s.policy.required_votes
          \/ s.round >= s.policy.max_rounds
    THEN Resolved(s, "no_majority")
  ELSE [s EXCEPT !.round = @ + 1]

CouncilVoteOK(s, actor, m, ballot) ==
  /\ Open(s)
  /\ actor = "council"
  /\ s.phase = "deliberation"
  /\ KnownMember(s, m)
  /\ SeatedMember(s, m)
  /\ ballot \in Ballots
  /\ ~ VotedThisRound(s, m)

AfterCouncilVote(s, m, ballot) ==
  StateWithCase(ContinueDeliberation(
    [s EXCEPT !.votes = Append(@, [member |-> m, round |-> s.round, vote |-> ballot])]))

\* The seat of m, and every other seat under the same id, gets a new status.
Unseat(s, m, status) ==
  [s EXCEPT !.members =
     [i \in DOMAIN @ |-> IF @[i].id = m THEN [@[i] EXCEPT !.status = status] ELSE @[i]]]

\* Deviation: a member may leave after it has voted.
SeatCanBeEmptied(s, m) ==
  /\ s.phase = "deliberation"
  /\ KnownMember(s, m)
  /\ SeatedMember(s, m)

MemberCanLeave(s, m) ==
  /\ s.phase = "deliberation"
  /\ KnownMember(s, m)
  /\ SeatedMember(s, m)
  /\ ~ VotedThisRound(s, m)

RemoveCouncilMemberOK(s, actor, m, status) ==
  /\ Open(s)
  /\ actor = "system"
  /\ MemberCanLeave(s, m)
  /\ status # "seated"

AfterRemoveCouncilMember(s, m, status) ==
  StateWithCase(ContinueDeliberation(Unseat(s, m, status)))

-----------------------------------------------------------------------------
(* fail_opportunity: the current opportunity, and no other, can fail.  The *)
(* failure of a side fails the case; the failure of a council seat fails   *)
(* the member the request names and deliberation continues without it.     *)

\* Deviation: a failure is accepted whichever opportunity it names.
FailWhateverIsNamed(s, actor, opportunity, m) ==
  /\ Open(s)
  /\ actor = "system"
  /\ opportunity # NoOpportunity
  /\ opportunity.role = "council" => MemberCanLeave(s, m)

FailOpportunityOK(s, actor, opportunity, m) ==
  /\ Open(s)
  /\ actor = "system"
  /\ opportunity # NoOpportunity
  /\ opportunity = NextOpportunity(s)
  /\ opportunity.role = "council" => MemberCanLeave(s, m)

AfterFailOpportunity(s, opportunity, m, reason) ==
  IF opportunity.role = "council"
    THEN StateWithCase(ContinueDeliberation(Unseat(s, m, "failed")))
    ELSE StateWithCase([s EXCEPT
           !.status = "failed",
           !.failure = [opportunity |-> opportunity, reason |-> reason]])
==============================================================================
