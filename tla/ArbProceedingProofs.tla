------------------------- MODULE ArbProceedingProofs -------------------------
(***************************************************************************)
(* Proofs about ArbProceeding, for every case, council, machine and order  *)
(* of answers and deadlines: the inductive invariant Inv with the safety   *)
(* properties it contains, that no vote is ever lost, and that a punctual  *)
(* run is a run of the case.                                               *)
(***************************************************************************)
EXTENDS ArbProceeding, FiniteSetTheorems, SequenceTheorems, WellFoundedInduction, TLAPS

-----------------------------------------------------------------------------
(* The engine as the runtime uses it: what it accepts leaves a sound case. *)

\* A draft is a sound case.
LEMMA DraftSound == Draft \in State /\ Sound(Draft)
<1>1. ThePolicy \in Policy
  BY ProceedingAssumption
<1>2. /\ "draft" \in Statuses /\ "draft" \in Phases /\ "" \in Resolutions
      /\ NoFailure \in Failures
  BY DEF Statuses, Phases, Resolutions, NoFailure, NoOpportunity, Failures, Opportunity
<1>3. <<>> \in Council /\ <<>> \in EvidenceList /\ <<>> \in VoteList
  BY DEF Council, EvidenceList, VoteList
<1>4. [p \in MeritsPhases |-> <<>>] \in Filings /\ [r \in Sides |-> 0] \in Materials
  BY DEF Filings, Materials
<1>5. Draft \in State
  BY <1>1, <1>2, <1>3, <1>4 DEF Draft, DraftState, State
<1>6. Draft.round = 1 /\ Draft.votes = <<>>
  BY DEF Draft, DraftState
<1>. QED BY <1>5, <1>6 DEF Sound

\* A new version of a case on which nobody has voted is sound.
LEMMA UnvotedSound ==
  ASSUME NEW s \in State, s.round >= 1, s.votes = <<>>
  PROVE  Sound(StateWithCase(s)) /\ StateWithCase(s).votes = <<>>
<1>1. /\ StateWithCase(s) \in State /\ StateWithCase(s).votes = s.votes
      /\ StateWithCase(s).round = s.round
  BY DEF StateWithCase, State
<1>. QED BY <1>1 DEF Sound

\* addFiling adds to the record and may open the next phase.
LEMMA AddFilingFacts ==
  ASSUME NEW s \in State, NEW phase \in MeritsPhases, NEW role \in Sides, s.phase = phase
  PROVE  /\ AddFiling(s, phase, role) \in State
         /\ AddFiling(s, phase, role).votes = s.votes
         /\ AddFiling(s, phase, role).round = s.round
<1> DEFINE t == [s EXCEPT !.filings[phase] = Append(@, role)]
<1>1. [s.filings EXCEPT ![phase] = Append(@, role)] \in Filings
  BY DEF State, Filings
<1>2. t \in State /\ t.phase = phase /\ t.votes = s.votes /\ t.round = s.round
  BY <1>1 DEF State
<1>3. PhaseAfter(t.phase) \in Phases
  BY <1>2 DEF MeritsPhases, PhaseAfter, Phases
<1> HIDE DEF t
<1>4. /\ AdvanceAfterMerits(t) \in State /\ AdvanceAfterMerits(t).votes = t.votes
      /\ AdvanceAfterMerits(t).round = t.round
  BY <1>2, <1>3 DEF AdvanceAfterMerits, State
<1>. QED BY <1>2, <1>4 DEF AddFiling, t

LEMMA ExpectedRoleType == \A s, phase : ExpectedRole(s, phase) \in Sides
BY DEF ExpectedRole, Sides

\* continueDeliberation waits, closes the case or opens a round.
LEMMA ContinueDeliberationFacts ==
  ASSUME NEW s \in State, s.round >= 1, s.phase = "deliberation"
  PROVE  /\ Sound(StateWithCase(ContinueDeliberation(s)))
         /\ StateWithCase(ContinueDeliberation(s)).votes = s.votes
<1> DEFINE t == ContinueDeliberation(s)
<1>1. "closed" \in Statuses /\ "closed" \in Phases
  BY DEF Statuses, Phases
<1>2. ASSUME NEW r \in Resolutions
      PROVE  /\ Resolved(s, r) \in State /\ Resolved(s, r).round = s.round
             /\ Resolved(s, r).votes = s.votes /\ Resolved(s, r).phase = "closed"
  BY <1>1 DEF Resolved, State
<1>3. LET n == [s EXCEPT !.round = @ + 1] IN
        n \in State /\ n.round >= 1 /\ n.votes = s.votes /\ n.phase = s.phase
  BY DEF State
<1>4. /\ "demonstrated" \in Resolutions /\ "not_demonstrated" \in Resolutions
      /\ "no_majority" \in Resolutions
  BY DEF Resolutions, Ballots
<1>5. /\ t \in State /\ t.round >= 1 /\ t.votes = s.votes
      /\ t.phase \in {"deliberation", "closed"}
  <2>1. \/ t = s \/ \E r \in Resolutions : t = Resolved(s, r) \/ t = [s EXCEPT !.round = @ + 1]
    BY <1>4, Zenon DEF ContinueDeliberation
  <2>. QED BY <1>2, <1>3, <2>1
<1> HIDE DEF t
<1>6. /\ StateWithCase(t) \in State /\ StateWithCase(t).votes = t.votes
      /\ StateWithCase(t).round = t.round /\ StateWithCase(t).phase = t.phase
  BY <1>5 DEF StateWithCase, State
<1>7. t.phase \notin {"draft"} \cup MeritsPhases
  BY <1>5 DEF MeritsPhases
<1>. QED BY <1>5, <1>6, <1>7 DEF Sound, t

\* Emptying a seat changes nothing but the council.
LEMMA UnseatFacts ==
  ASSUME NEW s \in State, NEW m
  PROVE  LET t == Unseat(s, m, "failed") IN
           t \in State /\ t.round = s.round /\ t.votes = s.votes /\ t.phase = s.phase
<1> DEFINE left(i) == IF s.members[i].id = m
                        THEN [s.members[i] EXCEPT !.status = "failed"]
                        ELSE s.members[i]
<1>1. /\ Len(s.members) \in Nat
      /\ DOMAIN s.members = 1..Len(s.members)
      /\ \A i \in DOMAIN s.members : s.members[i] \in Seat
  BY DEF State, Council
<1>2. \A i \in DOMAIN s.members : left(i) \in Seat
  BY <1>1 DEF Seat, MemberStatuses
<1>3. [i \in DOMAIN s.members |-> left(i)] \in Council
  <2> HIDE DEF left
  <2>. QED BY <1>1, <1>2 DEF Council
<1>. QED BY <1>3 DEF Unseat, State

\* What a step of the engine never does to the votes of a case.
VotesKept(s, t) ==
  /\ Len(s.votes) <= Len(t.votes)
  /\ \A i \in DOMAIN s.votes : t.votes[i] = s.votes[i]

LEMMA SameVotesKept ==
  ASSUME NEW s \in State, NEW t, t.votes = s.votes
  PROVE  VotesKept(s, t)
BY DEF VotesKept, State, VoteList

\* A filing is one of openings or closings, or of a phase that takes evidence.
LEMMA FilingSound ==
  ASSUME NEW s, Sound(s), NEW a \in Actions, a.kind = "file",
         a.opp.phase \in MeritsPhases, StepOK(s, a)
  PROVE  Sound(AfterStep(s, a)) /\ AfterStep(s, a).votes = s.votes
<1> DEFINE o == a.opp
<1>0. s \in State /\ s.round >= 1
  BY DEF Sound
<1>1. CASE o.phase \in {"openings", "closings"}
  <2> DEFINE t == AddFiling(s, o.phase, o.role)
  <2>1. s.phase = o.phase /\ o.role = ExpectedRole(s, o.phase)
    BY <1>1 DEF StepOK, OpeningStatementOK, ClosingStatementOK, EvidencePhases
  <2>2. AfterStep(s, a) = StateWithCase(t)
    BY <1>1 DEF AfterStep, AfterOpeningStatement, AfterClosingStatement, EvidencePhases
  <2>3. s.votes = <<>>
    BY <2>1 DEF Sound
  <2>4. t \in State /\ t.votes = s.votes /\ t.round = s.round
    BY <1>0, <2>1, AddFilingFacts, ExpectedRoleType
  <2>. QED BY <1>0, <2>2, <2>3, <2>4, UnvotedSound
<1>2. CASE o.phase \in EvidencePhases
  <2> DEFINE t == AddFiling(s, o.phase, o.role)
             u == [t EXCEPT !.offered[o.role] = @ + 0, !.reports[o.role] = @ + 0]
  <2>1. MeritsSubmissionOK(s, o.phase, o.role, 1, 0, 0)
    BY <1>2 DEF StepOK, EvidencePhases
  <2>2. s.phase = o.phase /\ o.role = ExpectedRole(s, o.phase) /\ o.role \in Sides
    BY <2>1, ExpectedRoleType DEF MeritsSubmissionOK
  <2>3. AfterStep(s, a) = StateWithCase(u)
    BY <1>2 DEF AfterStep, AfterMeritsSubmission, EvidencePhases
  <2>4. s.votes = <<>>
    BY <2>2 DEF Sound
  <2>5. t \in State /\ t.votes = s.votes /\ t.round = s.round
    BY <1>0, <2>2, AddFilingFacts
  <2>6. /\ [t.offered EXCEPT ![o.role] = @ + 0] \in Materials
        /\ [t.reports EXCEPT ![o.role] = @ + 0] \in Materials
    BY <2>2, <2>5 DEF State, Materials
  <2>7. u \in State /\ u.votes = t.votes /\ u.round = t.round
    <3> HIDE DEF t, o
    <3>. QED BY <2>5, <2>6 DEF State
  <2> HIDE DEF t, u
  <2>. QED BY <1>0, <2>3, <2>4, <2>5, <2>7, UnvotedSound
<1>. QED BY <1>1, <1>2 DEF MeritsPhases, EvidencePhases

LEMMA PassSound ==
  ASSUME NEW s, Sound(s), NEW a \in Actions, a.kind = "pass", StepOK(s, a)
  PROVE  Sound(AfterStep(s, a)) /\ AfterStep(s, a).votes = s.votes
<1> DEFINE t == [s EXCEPT !.phase = PhaseAfter(@)]
<1>1. s.phase \in {"rebuttals", "surrebuttals"}
  BY DEF StepOK, PassPhaseOK
<1>2. AfterStep(s, a) = StateWithCase(t)
  BY DEF AfterStep, AfterPassPhase
<1>3. s \in State /\ s.round >= 1 /\ s.votes = <<>>
  BY <1>1 DEF Sound, MeritsPhases
<1>4. PhaseAfter(s.phase) \in Phases
  BY <1>1 DEF PhaseAfter, Phases, MeritsPhases
<1>5. t \in State /\ t.votes = s.votes /\ t.round = s.round
  BY <1>3, <1>4 DEF State
<1> HIDE DEF t
<1>. QED BY <1>2, <1>3, <1>5, UnvotedSound

\* New evidence leaves the case waiting for the same opportunity.
LEMMA EvidenceSound ==
  ASSUME NEW s, Sound(s), NEW a \in Actions, a.kind = "evidence",
         a.value \in EvidenceIds, StepOK(s, a)
  PROVE  /\ Sound(AfterStep(s, a)) /\ AfterStep(s, a).votes = s.votes
         /\ NextOpportunity(AfterStep(s, a)) = NextOpportunity(s)
<1> DEFINE e == [id |-> a.value, role |-> a.opp.role, phase |-> s.phase]
           t == [s EXCEPT !.evidence = Append(@, e)]
<1>1. SubmitEvidenceOK(s, a.opp.role, a.value, 1)
  BY DEF StepOK
<1>2. s.phase \in EvidencePhases /\ a.opp.role \in Sides
  BY <1>1, ExpectedRoleType DEF SubmitEvidenceOK
<1>3. AfterStep(s, a) = StateWithCase(t)
  BY DEF AfterStep, AfterSubmitEvidence
<1>4. s \in State /\ s.round >= 1 /\ s.votes = <<>>
  BY <1>2 DEF Sound, MeritsPhases, EvidencePhases
<1>5. Append(s.evidence, e) \in EvidenceList
  <2>1. e \in Evidence
    BY <1>2 DEF Evidence
  <2> HIDE DEF e
  <2>. QED BY <1>4, <2>1 DEF State, EvidenceList
<1>6. /\ t \in State /\ t.votes = s.votes /\ t.round = s.round
      /\ t.status = s.status /\ t.phase = s.phase /\ t.filings = s.filings
  <2> HIDE DEF e
  <2>. QED BY <1>4, <1>5 DEF State
<1> HIDE DEF t
<1>7. Sound(AfterStep(s, a)) /\ AfterStep(s, a).votes = s.votes
  BY <1>3, <1>4, <1>6, UnvotedSound
<1>8. LET n == AfterStep(s, a) IN
        n.status = s.status /\ n.phase = s.phase /\ n.filings = s.filings
  BY <1>3, <1>6 DEF StateWithCase, State
<1>9. s.phase \in MeritsPhases /\ s.phase # "deliberation"
  BY <1>2 DEF EvidencePhases, MeritsPhases
<1>10. NextOpportunity(AfterStep(s, a)) = NextOpportunity(s)
  BY <1>8, <1>9 DEF NextOpportunity, NextOpportunityForPhase, ExpectedRole
<1>. QED BY <1>7, <1>10

LEMMA VoteSound ==
  ASSUME NEW s, Sound(s), NEW a \in Actions, a.kind = "vote",
         a.value \in Ballots, StepOK(s, a)
  PROVE  Sound(AfterStep(s, a)) /\ VotesKept(s, AfterStep(s, a))
<1> DEFINE v == [member |-> a.opp.member, round |-> s.round, vote |-> a.value]
           t == [s EXCEPT !.votes = Append(@, v)]
<1>1. s.phase = "deliberation" /\ KnownMember(s, a.opp.member)
  BY DEF StepOK, CouncilVoteOK
<1>2. AfterStep(s, a) = StateWithCase(ContinueDeliberation(t))
  BY DEF AfterStep, AfterCouncilVote
<1>3. s \in State /\ s.round >= 1
  BY DEF Sound
<1>4. a.opp.member \in MemberIds
  <2>1. PICK i \in DOMAIN s.members : s.members[i].id = a.opp.member
    BY <1>1 DEF KnownMember
  <2>2. s.members[i] \in Seat
    BY <1>3 DEF State, Council
  <2>. QED BY <2>1, <2>2 DEF Seat
<1>5. v \in Vote
  BY <1>3, <1>4 DEF Vote, State
<1> HIDE DEF v
<1>6. Append(s.votes, v) \in VoteList /\ s.votes \in Seq(Vote)
  BY <1>3, <1>5 DEF State, VoteList
<1>7. /\ t \in State /\ t.round = s.round /\ t.phase = s.phase
      /\ t.votes = Append(s.votes, v)
  BY <1>3, <1>6 DEF State
<1> HIDE DEF t
<1>8. Sound(AfterStep(s, a)) /\ AfterStep(s, a).votes = Append(s.votes, v)
  BY <1>1, <1>2, <1>3, <1>7, ContinueDeliberationFacts
<1>9. /\ Len(s.votes) <= Len(Append(s.votes, v))
      /\ \A i \in DOMAIN s.votes : Append(s.votes, v)[i] = s.votes[i]
  BY <1>5, <1>6
<1>. QED BY <1>8, <1>9 DEF VotesKept

-----------------------------------------------------------------------------
(* The opportunity the engine names is one it lets fail.                   *)

LEMMA Least ==
  ASSUME NEW S \in SUBSET Nat, S # {}
  PROVE  \E x \in S : \A y \in S : x <= y
<1> DEFINE R == OpToRel(<, Nat)
<1>1. IsWellFoundedOn(R, Nat)
  BY NatLessThanWellFounded
<1>2. \A x, y \in Nat : <<y, x>> \in R <=> y < x
  BY DEF OpToRel
<1> HIDE DEF R
<1>3. PICK x \in S : \A y \in S : ~ (<<y, x>> \in R)
  BY <1>1, WFMin
<1>4. x \in Nat /\ \A y \in S : y \in Nat /\ ~ (y < x)
  BY <1>2, <1>3
<1>. QED BY <1>3, <1>4

\* An opportunity is a filing of a side in a merits phase, or the vote of a
\* seated member that has not voted in the round.
LEMMA OpportunityFacts ==
  ASSUME NEW s \in State, NEW o, o = NextOpportunity(s), o # NoOpportunity
  PROVE  /\ o \in Opportunity /\ Open(s) /\ o.phase = s.phase
         /\ \/ /\ o.phase \in MeritsPhases /\ o.role \in Sides
               /\ o.round = 0 /\ o.member = NoMember
            \/ /\ o.phase = "deliberation" /\ o.role = "council"
               /\ o.round = s.round /\ o.member \in MemberIds
               /\ MemberCanLeave(s, o.member)
<1>1. Open(s) /\ o = NextOpportunityForPhase(s)
  BY DEF NextOpportunity, Open
<1>2. CASE s.phase \in MeritsPhases /\ Len(s.filings[s.phase]) < FilingsDue(s.phase)
  <2>1. o = [phase |-> s.phase, role |-> ExpectedRole(s, s.phase),
             round |-> 0, member |-> NoMember]
    BY <1>1, <1>2 DEF NextOpportunityForPhase
  <2>. QED BY <1>1, <1>2, <2>1, ExpectedRoleType DEF Opportunity, Phases
<1>3. CASE s.phase = "deliberation" /\ AwaitedMembers(s) # {}
  <2>1. o = [phase |-> s.phase, role |-> "council",
             round |-> s.round, member |-> NextCouncilMember(s)]
    BY <1>1, <1>3 DEF NextOpportunityForPhase, MeritsPhases
  <2>2. AwaitedMembers(s) \in SUBSET Nat
    BY DEF AwaitedMembers, SeatedMembers, State, Council
  <2>3. PICK i \in AwaitedMembers(s) : NextCouncilMember(s) = s.members[i].id
    <3>1. \E i \in AwaitedMembers(s) : \A j \in AwaitedMembers(s) : i <= j
      BY <1>3, <2>2, Least
    <3>. QED BY <3>1 DEF NextCouncilMember
  <2>4. i \in SeatedMembers(s) /\ i \in DOMAIN s.members /\ ~ VotedThisRound(s, s.members[i].id)
    BY DEF AwaitedMembers, SeatedMembers
  <2>5. s.members[i].id \in MemberIds
    <3>1. s.members[i] \in Seat
      BY <2>4 DEF State, Council
    <3>. QED BY <3>1 DEF Seat
  <2>6. MemberCanLeave(s, s.members[i].id)
    BY <1>3, <2>4 DEF MemberCanLeave, KnownMember, SeatedMember
  <2>7. s.round \in Nat
    BY DEF State
  <2>. QED BY <1>1, <1>3, <2>1, <2>3, <2>5, <2>6, <2>7 DEF Opportunity, Phases
<1>. QED BY <1>1, <1>2, <1>3 DEF NextOpportunityForPhase

LEMMA NoOpportunityType == NoOpportunity \in Opportunity
BY DEF NoOpportunity, Opportunity, Phases

\* The engine accepts the failure of the opportunity it names.
LEMMA OpenTurnCanFail ==
  ASSUME NEW s \in State, NEW o, o = NextOpportunity(s), o # NoOpportunity
  PROVE  FailOpportunityOK(s, "system", o, o.member)
BY OpportunityFacts DEF FailOpportunityOK, Sides

LEMMA FailSound ==
  ASSUME NEW s, Sound(s), NEW a \in Actions, a.kind = "fail",
         a.value \in FailureReasons, StepOK(s, a)
  PROVE  Sound(AfterStep(s, a)) /\ AfterStep(s, a).votes = s.votes
<1> DEFINE o == a.opp
           m == a.named.member
<1>1. FailOpportunityOK(s, "system", o, m)
  BY DEF StepOK
<1>2. /\ AfterStep(s, a) = AfterFailOpportunity(s, o, m, a.value)
      /\ s \in State /\ s.round >= 1
  BY DEF AfterStep, Sound
<1>3. o = NextOpportunity(s) /\ o # NoOpportunity
  BY <1>1 DEF FailOpportunityOK
<1>4. CASE o.role = "council"
  <2>1. s.phase = "deliberation"
    BY <1>1, <1>4 DEF FailOpportunityOK, MemberCanLeave
  <2>2. AfterStep(s, a) = StateWithCase(ContinueDeliberation(Unseat(s, m, "failed")))
    BY <1>2, <1>4 DEF AfterFailOpportunity
  <2>. QED BY <1>2, <2>1, <2>2, UnseatFacts, ContinueDeliberationFacts
<1>5. CASE o.role # "council"
  <2> DEFINE f == [opportunity |-> o, reason |-> a.value]
             t == [s EXCEPT !.status = "failed", !.failure = f]
  <2>1. s.phase \in MeritsPhases /\ o \in Opportunity
    BY <1>2, <1>3, <1>5, OpportunityFacts
  <2>2. s.votes = <<>>
    BY <2>1 DEF Sound
  <2>3. f \in Failures /\ "failed" \in Statuses
    BY <2>1 DEF Failures, Statuses
  <2>4. t \in State /\ t.votes = s.votes /\ t.round = s.round
    <3> HIDE DEF f
    <3>. QED BY <1>2, <2>3 DEF State
  <2>5. AfterStep(s, a) = StateWithCase(t)
    BY <1>2, <1>5 DEF AfterFailOpportunity
  <2> HIDE DEF t
  <2>. QED BY <1>2, <2>2, <2>4, <2>5, UnvotedSound
<1>. QED BY <1>4, <1>5

\* Every accepted action leaves a sound case and every vote in its place.
LEMMA StepSound ==
  ASSUME NEW s, Sound(s), NEW thread \in Threads, NEW a \in Actions,
         WellMade(thread, a), StepOK(s, a)
  PROVE  /\ Sound(AfterStep(s, a))
         /\ VotesKept(s, AfterStep(s, a))
         /\ a.kind # "vote" => AfterStep(s, a).votes = s.votes
<1>1. a.kind \in {"file", "pass", "evidence", "vote", "fail"}
  BY DEF WellMade, Threads, APIs
<1>2. s \in State
  BY DEF Sound
<1>3. CASE a.kind = "vote"
  BY <1>3, VoteSound DEF WellMade
<1>4. CASE a.kind # "vote"
  <2>1. Sound(AfterStep(s, a)) /\ AfterStep(s, a).votes = s.votes
    BY <1>1, <1>4, FilingSound, PassSound, EvidenceSound, FailSound DEF WellMade
  <2>. QED BY <1>2, <1>4, <2>1, SameVotesKept
<1>. QED BY <1>3, <1>4

\* initialize_case opens the case with the roster; nobody has voted.
LEMMA InitializeSound ==
  /\ Sound(AfterInitializeCase(Draft, Roster))
  /\ AfterInitializeCase(Draft, Roster).votes = <<>>
<1> DEFINE seats == [i \in 1..Len(Roster) |-> [id |-> Roster[i], status |-> "seated"]]
           d == DraftState(Draft.policy)
           t == [d EXCEPT !.status = "active", !.phase = "openings",
                          !.version = Draft.version, !.members = seats]
<1>1. d = Draft /\ Draft.version \in Nat /\ Draft.votes = <<>> /\ Draft.round = 1
  BY DEF Draft, DraftState
<1>2. seats \in Council
  BY ProceedingAssumption DEF Council, Seat, MemberStatuses
<1>3. "active" \in Statuses /\ "openings" \in Phases
  BY DEF Statuses, Phases, MeritsPhases
<1>4. AfterInitializeCase(Draft, Roster) = StateWithCase(t)
  BY DEF AfterInitializeCase
<1>5. t \in State /\ t.round = 1 /\ t.votes = <<>>
  <2> HIDE DEF seats, d
  <2>. QED BY <1>1, <1>2, <1>3, DraftSound DEF State
<1> HIDE DEF t
<1>. QED BY <1>4, <1>5, UnvotedSound

-----------------------------------------------------------------------------
(***************************************************************************)
(* The threads.  Core is what holds of every run whatever meets what.      *)
(***************************************************************************)

Core == TypeOK /\ CallsInOrder /\ TurnsInOrder

Steady == UNCHANGED <<machine, st, cert, turn, main, outcome>>

\* A thread takes up a call that answers the open turn.
Takes(thread, a) ==
  /\ a \in Actions
  /\ WellMade(thread, a)
  /\ a.named = turn[main].opp
  /\ call' = [call EXCEPT ![thread] = Calling(a)]

LEMMA ThreadNames ==
  /\ APIs = {"lawyer", "council"} /\ Threads = {"lawyer", "council", "main"}
  /\ APIs \subseteq Threads /\ "main" \in Threads /\ "main" \notin APIs
BY DEF APIs, Threads

LEMMA FailingMade ==
  ASSUME NEW thread \in Threads, NEW o \in Opportunity, NEW reason \in FailureReasons
  PROVE  /\ Failing(o, reason) \in Actions /\ WellMade(thread, Failing(o, reason))
         /\ Failing(o, reason).opp = o /\ Failing(o, reason).named = o
         /\ Failing(o, reason).kind = "fail"
<1>1. Failing(o, reason) = [kind |-> "fail", opp |-> o, named |-> o, value |-> reason]
  BY DEF Failing, Action
<1>2. Failing(o, reason) \in Actions
  BY DEF Failing, Action, Actions, Kinds
<1>3. /\ Failing(o, reason).kind = "fail" /\ Failing(o, reason).value = reason
      /\ Failing(o, reason).opp = o /\ Failing(o, reason).named = o
  BY <1>1
<1>4. WellMade(thread, Failing(o, reason))
  BY <1>3, ThreadNames DEF WellMade
<1>. QED BY <1>2, <1>3, <1>4

LEMMA ResumingReasons ==
  {"deadline_expired", "attempts_exhausted", "agent_exited", "agent_output_limit_exceeded"}
    \subseteq FailureReasons
BY DEF FailureReasons

\* Every request that has an effect is made in the turn that is awaited, and
\* either reaches the engine with an answer to it or is refused beforehand.
LEMMA RequestShape ==
  ASSUME Core, Request
  PROVE  \E api \in APIs :
           /\ main = api /\ Entered(api) /\ Steady
           /\ \/ call' = At(api, "refused")
              \/ \E a \in Actions :
                   Takes(api, a) /\ (a.kind = "fail" \/ ~ turn[api].expired)
<1> DEFINE Shape(api) ==
      /\ main = api /\ Entered(api) /\ Steady
      /\ \/ call' = At(api, "refused")
         \/ \E a \in Actions : Takes(api, a) /\ (a.kind = "fail" \/ ~ turn[api].expired)
<1>0. /\ \A api \in APIs : Entered(api) => main = api /\ turn[api].opp \in Opportunity
      /\ "lawyer" \in APIs /\ "council" \in APIs
  BY ThreadNames DEF Core, TypeOK, TurnsInOrder, Entered, Active, NoTurn, Turns
<1>1. ASSUME NEW named \in Nameable, SubmitDecision(named)
      PROVE  Shape("lawyer")
  <2> DEFINE o == turn["lawyer"].opp
  <2>1. /\ Entered("lawyer") /\ ~ turn["lawyer"].expired /\ named = o
        /\ main = "lawyer" /\ o \in Opportunity /\ o.phase \in MeritsPhases
    BY <1>0, <1>1 DEF SubmitDecision, Accepts, Core, TurnsInOrder
  <2>2. ASSUME NEW k \in {"file", "pass"}, Begin("lawyer", Action(k, o, named, ""))
        PROVE  Shape("lawyer")
    <3> DEFINE a == Action(k, o, named, "")
    <3>1. a \in Actions /\ WellMade("lawyer", a) /\ a.named = o
      BY <2>1 DEF Action, Actions, Kinds, WellMade
    <3> HIDE DEF a
    <3>. QED BY <2>1, <2>2, <3>1 DEF Begin, Steady, Takes, a
  <2>. QED BY <1>1, <2>2 DEF SubmitDecision
<1>2. ASSUME NEW named \in Nameable, NEW id \in EvidenceIds, SubmitEvidence(named, id)
      PROVE  Shape("lawyer")
  <2> DEFINE o == turn["lawyer"].opp
             a == Action("evidence", o, named, id)
  <2>1. /\ Entered("lawyer") /\ ~ turn["lawyer"].expired /\ named = o
        /\ main = "lawyer" /\ o \in Opportunity
    BY <1>0, <1>2 DEF SubmitEvidence, Accepts
  <2>2. a \in Actions /\ WellMade("lawyer", a) /\ a.named = o
    BY <2>1 DEF Action, Actions, Kinds, WellMade
  <2>3. Begin("lawyer", a)
    BY <1>2 DEF SubmitEvidence
  <2> HIDE DEF a
  <2>. QED BY <1>0, <2>1, <2>2, <2>3 DEF Begin, Steady, Takes
<1>3. ASSUME NEW named \in Nameable, NEW ballot \in Ballots, SubmitCouncilVote(named, ballot)
      PROVE  Shape("council")
  <2> DEFINE o == turn["council"].opp
             a == Action("vote", o, named, ballot)
  <2>1. /\ Entered("council") /\ ~ turn["council"].expired /\ named = o
        /\ main = "council" /\ o \in Opportunity
    BY <1>0, <1>3 DEF SubmitCouncilVote, Accepts
  <2>2. a \in Actions /\ WellMade("council", a) /\ a.named = o
    BY <2>1 DEF Action, Actions, Kinds, WellMade
  <2>3. Begin("council", a)
    BY <1>3 DEF SubmitCouncilVote
  <2> HIDE DEF a
  <2>. QED BY <1>0, <2>1, <2>2, <2>3 DEF Begin, Steady, Takes
<1>4. ASSUME NEW api \in APIs, NEW named \in Nameable, Malformed(api, named)
      PROVE  Shape(api)
  BY <1>0, <1>4 DEF Malformed, Accepts, Steady
<1>5. ASSUME NEW named \in Nameable, NEW told \in CouncilOpportunities \cup {NoOpportunity},
             NEW reason \in FailureReasons, AgentFailed(named, told, reason)
      PROVE  Shape("council")
  <2> DEFINE o == turn["council"].opp
             a == Action("fail", told, named, reason)
  <2>1. /\ Entered("council") /\ main = "council" /\ o \in Opportunity /\ named = o
        /\ Begin("council", a)
    BY <1>0, <1>5 DEF AgentFailed
  <2>2. told \in Opportunity
    BY NoOpportunityType DEF CouncilOpportunities, Opportunity, Phases
  <2>3. a \in Actions /\ WellMade("council", a) /\ a.named = o /\ a.kind = "fail"
    BY <2>1, <2>2 DEF Action, Actions, Kinds, WellMade
  <2> HIDE DEF a
  <2>. QED BY <1>0, <2>1, <2>3 DEF Begin, Steady, Takes
<1>6. ASSUME NEW api \in APIs, RequestAfterDeadline(api)
      PROVE  Shape(api)
  <2>1. /\ Entered(api) /\ main = api /\ turn[api].opp \in Opportunity
        /\ Begin(api, Failing(turn[api].opp, "deadline_expired"))
    BY <1>0, <1>6 DEF RequestAfterDeadline
  <2>2. api \in Threads /\ "deadline_expired" \in FailureReasons
    BY ThreadNames, ResumingReasons
  <2>. QED BY <2>1, <2>2, FailingMade DEF Begin, Steady, Takes
<1>7. \E api \in APIs : Shape(api)
  BY <1>0, <1>1, <1>2, <1>3, <1>4, <1>5, <1>6, ResumingReasons DEF Request
<1>. QED BY <1>7

\* The loop gives up a turn: the failure of its opportunity goes to the engine.
MainFails ==
  /\ main \in APIs /\ Free("main")
  /\ UNCHANGED <<machine, st, cert, main, outcome>>
  /\ \E a \in Actions : a.kind = "fail" /\ Takes("main", a)
  /\ \/ main = "lawyer" /\ turn["lawyer"].expired /\ UNCHANGED turn
     \/ /\ main = "council" /\ Free("council") /\ turn["council"].expired
        /\ turn' = [turn EXCEPT !["council"] = Finished(@, "error")]
     \/ /\ main = "council" /\ Free("council") /\ turn["council"].done = "error"
        /\ UNCHANGED turn

LEMMA MainFailsShape ==
  ASSUME Core, \/ LawyerTimeout \/ CouncilTimeout
               \/ TakeAnswer("council") /\ turn["council"].done = "error"
  PROVE  MainFails
<1>1. ASSUME main \in APIs, NEW reason \in {"deadline_expired", "attempts_exhausted"},
             call' = [call EXCEPT !["main"] = Calling(Failing(turn[main].opp, reason))]
      PROVE  \E a \in Actions : a.kind = "fail" /\ Takes("main", a)
  <2>1. turn[main].opp \in Opportunity /\ reason \in FailureReasons /\ "main" \in Threads
    BY <1>1, ThreadNames, ResumingReasons DEF Core, TypeOK, Turns
  <2>. QED BY <1>1, <2>1, FailingMade DEF Takes
<1>2. CASE LawyerTimeout
  BY <1>1, <1>2, ThreadNames DEF LawyerTimeout, Waiting, MainFails
<1>3. CASE CouncilTimeout
  BY <1>1, <1>3, ThreadNames DEF CouncilTimeout, Waiting, MainFails
<1>4. CASE TakeAnswer("council") /\ turn["council"].done = "error"
  BY <1>1, <1>4, ThreadNames DEF TakeAnswer, Waiting, MainFails
<1>. QED BY <1>2, <1>3, <1>4

\* Every step, sorted by what it does to the threads.
LEMMA StepShape ==
  ASSUME Core, Next
  PROVE  \/ InitializeCase \/ StartTurn \/ FinishCase \/ Interrupted \/ Resume \/ MainFails
         \/ \E api \in APIs :
              /\ TakeAnswer(api)
              /\ turn[api].done = "ok" \/ (turn[api].done = "error" /\ api = "lawyer")
         \/ \E api \in APIs : Expire(api)
         \/ \E api \in APIs :
              /\ main = api /\ Entered(api) /\ Steady
              /\ \/ call' = At(api, "refused")
                 \/ \E a \in Actions :
                      Takes(api, a) /\ (a.kind = "fail" \/ ~ turn[api].expired)
         \/ \E thread \in Threads :
              EngineAccepts(thread) \/ EngineRefuses(thread) \/ Assign(thread) \/ WriteEvent(thread)
         \/ \E kept, lost \in Threads : RacingAppends(kept, lost)
         \/ FileNotWritten
         \/ \E api \in APIs : ReturnAccepted(api) \/ ConsumeAttempt(api) \/ ReturnRefused(api)
<1>1. ASSUME NEW api \in APIs, TakeAnswer(api)
      PROVE  \/ turn[api].done = "ok" \/ (turn[api].done = "error" /\ api = "lawyer")
             \/ MainFails
  <2>1. turn[api].done = "ok" \/ (turn[api].done = "error" /\ api \in APIs)
    BY <1>1, ThreadNames DEF TakeAnswer
  <2>. QED BY <1>1, <2>1, MainFailsShape, ThreadNames
<1>2. CASE Loop
  BY <1>1, <1>2, MainFailsShape DEF Loop
<1>3. CASE Request
  BY <1>3, RequestShape
<1>. QED BY <1>2, <1>3 DEF Next, CallStep, Return

\* What a thread that takes up a call brings into order.
LEMMA TakenUp ==
  ASSUME Core, NEW thread \in Threads, NEW a, Takes(thread, a), UNCHANGED <<main, st>>,
         turn'[main].opp = turn[main].opp
  PROVE  /\ call' \in [Threads -> Calls]
         /\ \A other \in Threads : Sound(call'[other].seen)
         /\ CallsInOrder'
         /\ call'[thread].pc = "engine"
         /\ call'[thread].seen = st /\ call'[thread].act = a
         /\ \A other \in Threads \ {thread} : call'[other] = call[other]
<1>1. /\ Calling(a) \in Calls /\ Sound(Calling(a).seen)
      /\ Calling(a).pc = "engine" /\ Calling(a).act = a /\ Calling(a).seen = st
  BY DEF Calling, Calls, Core, TypeOK, Takes, Sound
<1>2. /\ call'[thread] = Calling(a)
      /\ \A other \in Threads \ {thread} : call'[other] = call[other]
      /\ call' \in [Threads -> Calls]
  BY <1>1 DEF Takes, Core, TypeOK
<1>3. \A other \in Threads : Sound(call'[other].seen)
  BY <1>1, <1>2 DEF Core, TypeOK
<1>4. CallsInOrder'
  BY <1>1, <1>2 DEF Core, CallsInOrder, Takes
<1>. QED BY <1>1, <1>2, <1>3, <1>4

LEMMA TurnTypes ==
  /\ NoTurn \in Turns
  /\ \A o \in Opportunity : NewTurn(o) \in Turns
  /\ \A t \in Turns, result \in {"ok", "error"} : Finished(t, result) \in Turns
<1>1. NoTurn \in Turns
  BY NoOpportunityType DEF NoTurn, Turns
<1>2. ASSUME NEW o \in Opportunity
      PROVE  NewTurn(o) \in Turns
  BY <1>1, ProceedingAssumption DEF NewTurn, Turns
<1>3. ASSUME NEW t \in Turns, NEW result \in {"ok", "error"}
      PROVE  Finished(t, result) \in Turns
  BY DEF Finished, Turns
<1>. QED BY <1>1, <1>2, <1>3

LEMMA IdleType == Idle \in Calls /\ Sound(Idle.seen) /\ Idle.pc = "idle"
<1>1. NoAction \in Actions
  BY NoOpportunityType DEF NoAction, Action, Actions, Kinds
<1>. QED BY <1>1, DraftSound DEF Idle, Calls

\* Types, and the threads one by one.
LEMMA CoreLoop ==
  ASSUME Core, InitializeCase \/ StartTurn \/ FinishCase \/ Interrupted \/ Resume
  PROVE  Core'
<1> USE DEF Core
<1>1. CASE InitializeCase
  <2>1. st = Draft /\ cert = [replays |-> TRUE, state |-> Draft]
    BY <1>1 DEF InitializeCase, TurnsInOrder
  <2>2. Sound(st') /\ cert' = [replays |-> TRUE, state |-> st']
    BY <1>1, <2>1, InitializeSound DEF InitializeCase
  <2>3. TypeOK'
    BY <1>1, <2>2 DEF InitializeCase, TypeOK, Sound
  <2>4. CallsInOrder'
    BY <1>1 DEF InitializeCase, CallsInOrder, TurnsInOrder, Free, APIs, Threads
  <2>5. TurnsInOrder'
    BY <1>1 DEF InitializeCase, TurnsInOrder, Free, APIs
  <2>. QED BY <2>3, <2>4, <2>5
<1>2. CASE StartTurn
  <2> DEFINE o == NextOpportunity(st)
             api == APIOf(o)
  <2>1. /\ o \in Opportunity /\ api \in APIs /\ main = "next" /\ o # NoOpportunity
        /\ api = "lawyer" => o.phase \in MeritsPhases
    <3>1. st \in State /\ o # NoOpportunity /\ main = "next"
      BY <1>2 DEF StartTurn, TypeOK, Sound
    <3>. QED BY <3>1, OpportunityFacts DEF APIOf, APIs
  <2> HIDE DEF o
  <2>2. /\ turn' = [turn EXCEPT ![api] = NewTurn(o)] /\ main' = api
        /\ UNCHANGED <<machine, st, cert, call, outcome>>
    BY <1>2 DEF StartTurn, o
  <2>3. NewTurn(o) \in Turns /\ NewTurn(o).opp = o
        /\ ~ NewTurn(o).completed /\ NewTurn(o).done = "empty"
    BY <2>1, TurnTypes DEF NewTurn, NoTurn
  <2> HIDE DEF api
  <2>4. TypeOK'
    BY <2>1, <2>2, <2>3 DEF TypeOK
  <2>5. \A thread \in Threads : Free(thread)
    BY <2>1 DEF TurnsInOrder, Threads, APIs
  <2>6. CallsInOrder'
    BY <2>2, <2>5 DEF CallsInOrder, Free
  <2>7. TurnsInOrder'
    BY <2>1, <2>2, <2>3 DEF TurnsInOrder, Free, APIs, TypeOK, api
  <2>. QED BY <2>4, <2>6, <2>7
<1>3. CASE FinishCase
  <2>1. TypeOK'
    BY <1>3, TurnTypes DEF FinishCase, TypeOK
  <2>2. CallsInOrder'
    BY <1>3 DEF FinishCase, CallsInOrder, TurnsInOrder, Free, APIs, Threads
  <2>3. TurnsInOrder'
    BY <1>3 DEF FinishCase, TurnsInOrder, Free, APIs, NoTurn
  <2>. QED BY <2>1, <2>2, <2>3
<1>4. CASE Interrupted
  <2>1. \A thread \in Threads : Free(thread)
    BY <1>4 DEF Interrupted, TurnsInOrder, Threads, APIs
  <2>2. TypeOK'
    BY <1>4, TurnTypes DEF Interrupted, Exit, TypeOK
  <2>3. CallsInOrder'
    BY <1>4, <2>1 DEF Interrupted, CallsInOrder, Free
  <2>4. /\ main' = "ended" /\ outcome' = "error" /\ UNCHANGED <<st, cert, call>>
        /\ \A api \in APIs : turn'[api] = NoTurn
    BY <1>4, ThreadNames DEF Interrupted, Exit, TurnsInOrder, TypeOK
  <2>5. TurnsInOrder'
    BY <2>1, <2>4, ThreadNames DEF TurnsInOrder, Free, NoTurn
  <2>. QED BY <2>2, <2>3, <2>5
<1>5. CASE Resume
  <2>1. /\ main \in APIs /\ Free(main) /\ ~ Free("main")
        /\ call' = [call EXCEPT !["main"] = Idle]
        /\ turn' = [turn EXCEPT ![main] = NoTurn]
        /\ main' \in {"next", "ended"} /\ outcome' \in {"running", "ok", "error"}
        /\ main' = "ended" <=> outcome' # "running"
        /\ UNCHANGED <<machine, st, cert>>
    BY <1>5, ThreadNames DEF Resume, Exit, TurnsInOrder, Free, TypeOK
  <2>2. TypeOK'
    BY <2>1, TurnTypes, IdleType, ThreadNames DEF TypeOK
  <2>3. \A thread \in Threads : call'[thread] = Idle
    BY <2>1, ThreadNames DEF TypeOK, TurnsInOrder, CallsInOrder, Free
  <2>4. CallsInOrder'
    BY <2>3, IdleType DEF CallsInOrder
  <2>5. TurnsInOrder'
    BY <2>1, <2>3, IdleType, ThreadNames DEF TurnsInOrder, Free, NoTurn, TypeOK
  <2>. QED BY <2>2, <2>4, <2>5
<1>. QED BY <1>1, <1>2, <1>3, <1>4, <1>5

LEMMA CoreTurns ==
  ASSUME Core,
         \/ MainFails
         \/ \E api \in APIs :
              /\ TakeAnswer(api)
              /\ turn[api].done = "ok" \/ (turn[api].done = "error" /\ api = "lawyer")
         \/ \E api \in APIs : Expire(api)
         \/ \E api \in APIs :
              /\ main = api /\ Entered(api) /\ Steady
              /\ \/ call' = At(api, "refused")
                 \/ \E a \in Actions :
                      Takes(api, a) /\ (a.kind = "fail" \/ ~ turn[api].expired)
  PROVE  Core'
<1> USE DEF Core
<1>1. CASE MainFails
  <2>1. PICK a \in Actions : Takes("main", a)
    BY <1>1 DEF MainFails
  <2>2. /\ turn' \in [APIs -> Turns] /\ turn'[main].opp = turn[main].opp
        /\ main \in APIs /\ UNCHANGED <<machine, st, cert, main, outcome>>
        /\ \A api \in APIs \ {main} : turn'[api] = turn[api]
        /\ turn'[main].completed <=> turn'[main].done # "empty"
        /\ turn' # turn => Free(main)
    <3>1. /\ turn \in [APIs -> Turns]
          /\ \A t \in Turns : Finished(t, "error") \in Turns /\ Finished(t, "error").opp = t.opp
          /\ \A t \in Turns : (t.completed <=> t.done # "empty") =>
               (Finished(t, "error").completed <=> Finished(t, "error").done # "empty")
      BY TurnTypes DEF TypeOK, Finished, Turns
    <3>2. turn[main].completed <=> turn[main].done # "empty"
      BY <1>1 DEF MainFails, TurnsInOrder
    <3>. QED BY <1>1, <3>1, <3>2, ThreadNames DEF MainFails
  <2>3. /\ call' \in [Threads -> Calls] /\ CallsInOrder'
        /\ \A other \in Threads : Sound(call'[other].seen)
        /\ \A api \in APIs : call'[api] = call[api]
    BY <2>1, <2>2, TakenUp, ThreadNames
  <2>4. TypeOK'
    BY <2>2, <2>3 DEF TypeOK
  <2>5. TurnsInOrder'
    BY <2>2, <2>3, ThreadNames DEF TurnsInOrder, Free, APIOf
  <2>. QED BY <2>3, <2>4, <2>5
<1>2. ASSUME NEW api \in APIs, TakeAnswer(api),
             turn[api].done = "ok" \/ (turn[api].done = "error" /\ api = "lawyer")
      PROVE  Core'
  <2>1. /\ main = api /\ turn' = [turn EXCEPT ![api] = NoTurn]
        /\ main' \in {"next", "ended"} /\ outcome' \in {"running", "ok", "error"}
        /\ main' = "ended" <=> outcome' # "running"
        /\ UNCHANGED <<machine, st, cert, call>>
    BY <1>2, ThreadNames DEF TakeAnswer, Waiting, Exit, TurnsInOrder, TypeOK
  <2>2. \A thread \in Threads : Free(thread)
    BY <1>2, ThreadNames DEF TakeAnswer, Waiting, TurnsInOrder
  <2>3. TypeOK'
    BY <2>1, TurnTypes DEF TypeOK
  <2>4. CallsInOrder'
    BY <2>1, <2>2 DEF CallsInOrder, Free
  <2>5. \A other \in APIs : turn'[other] = NoTurn
    BY <2>1 DEF TurnsInOrder, TypeOK
  <2>6. TurnsInOrder'
    BY <2>1, <2>2, <2>5, ThreadNames DEF TurnsInOrder, Free, NoTurn
  <2>. QED BY <2>3, <2>4, <2>6
<1>3. ASSUME NEW api \in APIs, Expire(api)
      PROVE  Core'
  <2>1. /\ main = api /\ turn' = [turn EXCEPT ![api].expired = TRUE]
        /\ UNCHANGED <<machine, st, cert, call, main, outcome>>
    BY <1>3 DEF Expire, Waiting
  <2>2. /\ turn' \in [APIs -> Turns]
        /\ \A other \in APIs \ {api} : turn'[other] = turn[other]
        /\ turn'[api].opp = turn[api].opp /\ turn'[api].completed = turn[api].completed
        /\ turn'[api].done = turn[api].done
    BY <2>1 DEF TypeOK, Turns
  <2>3. TypeOK'
    BY <2>1, <2>2 DEF TypeOK
  <2>4. CallsInOrder'
    BY <2>1, <2>2 DEF CallsInOrder
  <2>5. TurnsInOrder'
    BY <2>1, <2>2 DEF TurnsInOrder, Free, APIOf
  <2>. QED BY <2>3, <2>4, <2>5
<1>4. ASSUME NEW api \in APIs, main = api, Entered(api), Steady, call' = At(api, "refused")
      PROVE  Core'
  <2>1. /\ api \in Threads /\ Free(api) /\ Active(api) /\ call[api] = Idle
    BY <1>4, ThreadNames DEF Entered, CallsInOrder, Free
  <2>2. /\ call' \in [Threads -> Calls] /\ call'[api].pc = "refused"
        /\ call'[api].act = NoAction /\ call'[api].seen = call[api].seen
        /\ \A other \in Threads \ {api} : call'[other] = call[other]
    BY <1>4, <2>1 DEF At, TypeOK, Calls, Idle
  <2>3. TypeOK'
    BY <1>4, <2>2 DEF TypeOK, Steady
  <2>4. CallsInOrder'
    BY <1>4, <2>2 DEF CallsInOrder, Steady
  <2>5. TurnsInOrder'
    BY <1>4, <2>1, <2>2, ThreadNames DEF TurnsInOrder, Free, Steady, Active
  <2>. QED BY <2>3, <2>4, <2>5
<1>5. ASSUME NEW api \in APIs, main = api, Entered(api), Steady,
             NEW a \in Actions, Takes(api, a)
      PROVE  Core'
  <2>1. /\ api \in Threads /\ Free(api) /\ Active(api)
    BY <1>5, ThreadNames DEF Entered
  <2>2. /\ call' \in [Threads -> Calls] /\ CallsInOrder'
        /\ \A other \in Threads : Sound(call'[other].seen)
        /\ \A other \in Threads \ {api} : call'[other] = call[other]
    BY <1>5, <2>1, TakenUp DEF Steady
  <2>3. TypeOK'
    BY <1>5, <2>2 DEF TypeOK, Steady
  <2>4. TurnsInOrder'
    BY <1>5, <2>1, <2>2, ThreadNames DEF TurnsInOrder, Free, Steady, Active
  <2>. QED BY <2>2, <2>3, <2>4
<1>. QED BY <1>1, <1>2, <1>3, <1>4, <1>5

\* A call of the open turn goes on; nothing else moves.
Moves(thread, pc) ==
  /\ call[thread].pc # "idle"
  /\ call' = [call EXCEPT ![thread].pc = pc]
  /\ UNCHANGED <<machine, turn, main, outcome>>

\* A call the engine has been given is in the turn that is awaited.
LEMMA BusyCall ==
  ASSUME Core, NEW thread \in Threads, ~ Free(thread)
  PROVE  /\ main \in APIs /\ (thread = "main" \/ thread = main)
         /\ call[thread].pc # "refused" \/ call[thread].act.kind = "fail" =>
              /\ WellMade(thread, call[thread].act)
              /\ call[thread].act.named = turn[main].opp
              /\ call[thread].act \in Actions
<1>1. main \in APIs /\ (thread = "main" \/ thread = main)
  BY ThreadNames DEF Core, TurnsInOrder, Free
<1>2. NoAction.kind = "none"
  BY DEF NoAction, Action
<1>. QED BY <1>1, <1>2 DEF Core, CallsInOrder, Free, TypeOK, Calls

LEMMA Moved ==
  ASSUME Core, NEW thread \in Threads,
         NEW pc \in {"assign", "event", "accepted", "refused"}, Moves(thread, pc),
         call[thread].pc \in {"engine", "assign", "event"},
         pc = "assign" => StepOK(call[thread].seen, call[thread].act)
  PROVE  /\ call' \in [Threads -> Calls]
         /\ call'[thread].pc = pc
         /\ \A other \in Threads : /\ call'[other].act = call[other].act
                                   /\ call'[other].seen = call[other].seen
         /\ \A other \in Threads \ {thread} : call'[other] = call[other]
         /\ \A other \in Threads : Sound(call'[other].seen)
         /\ CallsInOrder' /\ TurnsInOrder'
<1>1. /\ call' \in [Threads -> Calls] /\ call'[thread].pc = pc
      /\ call'[thread].act = call[thread].act /\ call'[thread].seen = call[thread].seen
      /\ \A other \in Threads \ {thread} : call'[other] = call[other]
  BY DEF Moves, Core, TypeOK, Calls
<1>2. /\ main \in APIs /\ WellMade(thread, call[thread].act)
      /\ call[thread].act.named = turn[main].opp
  BY BusyCall DEF Free
<1>3. \A other \in Threads : Sound(call'[other].seen)
  BY <1>1 DEF Core, TypeOK
<1>4. CallsInOrder'
  BY <1>1, <1>2 DEF Core, CallsInOrder, Moves
<1>5. \A other \in Threads : Free(other)' <=> Free(other)
  BY <1>1 DEF Free
<1>6. TurnsInOrder'
  BY <1>2, <1>5, ThreadNames DEF Core, TurnsInOrder, Moves, APIOf
<1>. QED BY <1>1, <1>3, <1>4, <1>6

LEMMA RecordedSound ==
  ASSUME Core, NEW thread \in Threads, call[thread].pc = "engine"
  PROVE  LET c == Recorded(cert, call[thread].act) IN
           c \in [replays : BOOLEAN, state : State] /\ Sound(c.state)
<1>1. WellMade(thread, call[thread].act) /\ call[thread].act \in Actions
  BY BusyCall DEF Free
<1>2. Sound(cert.state)
  BY DEF Core, TypeOK
<1>3. StepOK(cert.state, call[thread].act) => Sound(AfterStep(cert.state, call[thread].act))
  BY <1>1, <1>2, StepSound
<1>. QED BY <1>3, DraftSound DEF Recorded, Broken, Sound

LEMMA CoreCalls ==
  ASSUME Core,
         \/ \E thread \in Threads :
              EngineAccepts(thread) \/ EngineRefuses(thread) \/ Assign(thread) \/ WriteEvent(thread)
         \/ \E kept, lost \in Threads : RacingAppends(kept, lost)
         \/ FileNotWritten
  PROVE  Core'
<1>1. ASSUME NEW thread \in Threads, EngineAccepts(thread)
      PROVE  Core'
  <2>1. Moves(thread, "assign") /\ Answers(thread) /\ UNCHANGED st
    BY <1>1 DEF EngineAccepts, Moves, At, Answers
  <2>2. cert' \in [replays : BOOLEAN, state : State] /\ Sound(cert'.state)
    BY <1>1, <2>1, RecordedSound DEF EngineAccepts, Answers
  <2>3. /\ call' \in [Threads -> Calls] /\ CallsInOrder' /\ TurnsInOrder'
        /\ \A other \in Threads : Sound(call'[other].seen)
    BY <2>1, Moved DEF Answers
  <2>. QED BY <2>1, <2>2, <2>3 DEF Core, TypeOK, Moves
<1>2. ASSUME NEW thread \in Threads, EngineRefuses(thread) \/ WriteEvent(thread)
      PROVE  Core'
  <2>1. PICK pc \in {"accepted", "refused"} :
          Moves(thread, pc) /\ UNCHANGED <<st, cert>> /\ call[thread].pc \in {"engine", "event"}
    BY <1>2 DEF EngineRefuses, WriteEvent, Moves, At
  <2>2. /\ call' \in [Threads -> Calls] /\ CallsInOrder' /\ TurnsInOrder'
        /\ \A other \in Threads : Sound(call'[other].seen)
    BY <2>1, Moved
  <2>. QED BY <2>1, <2>2 DEF Core, TypeOK, Moves
<1>3. ASSUME NEW thread \in Threads, Assign(thread)
      PROVE  Core'
  <2>1. Moves(thread, "event") /\ call[thread].pc = "assign" /\ UNCHANGED cert
    BY <1>3 DEF Assign, Moves, At
  <2>2. /\ call' \in [Threads -> Calls] /\ CallsInOrder' /\ TurnsInOrder'
        /\ \A other \in Threads : Sound(call'[other].seen)
    BY <2>1, Moved
  <2>3. Sound(st')
    <3>1. /\ Sound(call[thread].seen) /\ StepOK(call[thread].seen, call[thread].act)
          /\ WellMade(thread, call[thread].act) /\ call[thread].act \in Actions
      BY <2>1, BusyCall DEF Free, Core, TypeOK, CallsInOrder
    <3>. QED BY <1>3, <3>1, StepSound DEF Assign
  <2>. QED BY <2>1, <2>2, <2>3 DEF Core, TypeOK, Moves
<1>4. ASSUME NEW kept \in Threads, NEW lost \in Threads, RacingAppends(kept, lost)
      PROVE  Core'
  <2>1. /\ kept # lost /\ Answers(kept) /\ Answers(lost)
        /\ call' = [call EXCEPT ![kept].pc = "assign", ![lost].pc = "assign"]
        /\ cert' = Recorded(cert, call[kept].act)
        /\ UNCHANGED <<machine, st, turn, main, outcome>>
    BY <1>4 DEF RacingAppends
  <2>2. /\ call' \in [Threads -> Calls]
        /\ call'[kept].pc = "assign" /\ call'[lost].pc = "assign"
        /\ \A other \in Threads : /\ call'[other].act = call[other].act
                                  /\ call'[other].seen = call[other].seen
        /\ \A other \in Threads \ {kept, lost} : call'[other] = call[other]
    BY <2>1 DEF Core, TypeOK, Calls
  <2>3. /\ main \in APIs
        /\ \A thread \in {kept, lost} :
             /\ WellMade(thread, call[thread].act) /\ call[thread].act.named = turn[main].opp
             /\ StepOK(call[thread].seen, call[thread].act)
    BY <2>1, BusyCall DEF Answers, Free
  <2>4. CallsInOrder'
    BY <2>1, <2>2, <2>3 DEF Core, CallsInOrder
  <2>5. \A thread \in Threads : Free(thread)' <=> Free(thread)
    BY <2>1, <2>2 DEF Free, Answers
  <2>6. TurnsInOrder'
    BY <2>1, <2>3, <2>5, ThreadNames DEF Core, TurnsInOrder, APIOf
  <2>7. TypeOK'
    BY <2>1, <2>2, RecordedSound DEF Core, TypeOK, Answers
  <2>. QED BY <2>4, <2>6, <2>7 DEF Core
<1>5. CASE FileNotWritten
  <2>1. /\ Moves("lawyer", "refused") /\ UNCHANGED <<st, cert>>
        /\ "lawyer" \in Threads /\ call["lawyer"].pc = "assign"
    BY <1>5, ThreadNames DEF FileNotWritten, Moves, At
  <2>2. /\ call' \in [Threads -> Calls] /\ CallsInOrder' /\ TurnsInOrder'
        /\ \A other \in Threads : Sound(call'[other].seen)
    BY <2>1, Moved
  <2>. QED BY <2>1, <2>2 DEF Core, TypeOK, Moves
<1>. QED BY <1>1, <1>2, <1>3, <1>4, <1>5

\* The handler is done, with the turn or with its request.
LEMMA CoreReturns ==
  ASSUME Core, NEW api \in APIs, ReturnAccepted(api) \/ ConsumeAttempt(api) \/ ReturnRefused(api)
  PROVE  Core'
<1>1. ~ Free(api) /\ main = api /\ api \in Threads /\ ~ turn[api].completed
  BY ThreadNames, BusyCall DEF ReturnAccepted, ConsumeAttempt, ReturnRefused, Free, Core, TurnsInOrder
<1>2. ASSUME NEW result \in {"ok", "error"}, call' = [call EXCEPT ![api] = Idle],
             turn' = turn \/ turn' = [turn EXCEPT ![api] = Finished(@, result)],
             UNCHANGED <<machine, st, cert, main, outcome>>
      PROVE  Core'
  <2>1. /\ turn' \in [APIs -> Turns] /\ turn'[api].opp = turn[api].opp
        /\ turn'[api].completed <=> turn'[api].done # "empty"
        /\ \A other \in APIs \ {api} : turn'[other] = turn[other]
    <3>1. \A t \in Turns : (t.completed <=> t.done # "empty") =>
             /\ Finished(t, result) \in Turns /\ Finished(t, result).opp = t.opp
             /\ Finished(t, result).completed <=> Finished(t, result).done # "empty"
      BY TurnTypes DEF Finished, Turns
    <3>. QED BY <1>2, <3>1 DEF Core, TypeOK, TurnsInOrder
  <2>2. /\ call' \in [Threads -> Calls] /\ call'[api] = Idle
        /\ \A other \in Threads \ {api} : call'[other] = call[other]
    BY <1>1, <1>2, IdleType DEF Core, TypeOK
  <2>3. TypeOK'
    BY <1>2, <2>1, <2>2, IdleType DEF Core, TypeOK
  <2>4. CallsInOrder'
    BY <1>1, <1>2, <2>1, <2>2, IdleType DEF Core, CallsInOrder
  <2>5. TurnsInOrder'
    BY <1>1, <1>2, <2>1, <2>2, IdleType, ThreadNames DEF Core, TurnsInOrder, Free, APIOf
  <2>. QED BY <2>3, <2>4, <2>5 DEF Core
<1>3. CASE ReturnAccepted(api)
  BY <1>2, <1>3 DEF ReturnAccepted
<1>4. CASE ReturnRefused(api)
  BY <1>2, <1>4 DEF ReturnRefused
<1>5. CASE ConsumeAttempt(api)
  <2> DEFINE a == Failing(turn[api].opp, "attempts_exhausted")
  <2>1. /\ turn' = [turn EXCEPT ![api].attempts = IF @ > 0 THEN @ - 1 ELSE 0]
        /\ \/ call' = [call EXCEPT ![api] = Calling(a)]
           \/ call' = [call EXCEPT ![api] = Idle]
        /\ UNCHANGED <<machine, st, cert, main, outcome>>
    BY <1>5 DEF ConsumeAttempt
  <2>2. /\ turn' \in [APIs -> Turns] /\ turn'[api].opp = turn[api].opp
        /\ turn'[api].completed = turn[api].completed /\ turn'[api].done = turn[api].done
        /\ \A other \in APIs \ {api} : turn'[other] = turn[other]
    BY <2>1 DEF Core, TypeOK, Turns
  <2>3. a \in Actions /\ WellMade(api, a) /\ a.named = turn[main].opp
    BY <1>1, FailingMade, ResumingReasons DEF Core, TypeOK, Turns
  <2> HIDE DEF a
  <2>4. /\ call' \in [Threads -> Calls] /\ CallsInOrder'
        /\ \A other \in Threads : Sound(call'[other].seen)
        /\ \A other \in Threads \ {api} : call'[other] = call[other]
    <3>1. CASE call' = [call EXCEPT ![api] = Calling(a)]
      BY <1>1, <2>1, <2>2, <2>3, <3>1, TakenUp DEF Takes
    <3>2. CASE call' = [call EXCEPT ![api] = Idle]
      <4>1. /\ call' \in [Threads -> Calls] /\ call'[api] = Idle
            /\ \A other \in Threads \ {api} : call'[other] = call[other]
        BY <1>1, <3>2, IdleType DEF Core, TypeOK
      <4>. QED BY <1>1, <2>1, <2>2, <4>1, IdleType DEF Core, CallsInOrder, TypeOK
    <3>. QED BY <2>1, <3>1, <3>2
  <2>5. TypeOK'
    BY <2>1, <2>2, <2>4 DEF Core, TypeOK
  <2>6. TurnsInOrder'
    BY <1>1, <2>1, <2>2, <2>4, ThreadNames DEF Core, TurnsInOrder, Free, APIOf
  <2>. QED BY <2>4, <2>5, <2>6 DEF Core
<1>. QED BY <1>3, <1>4, <1>5

LEMMA CoreStep ==
  ASSUME Core, Next
  PROVE  Core'
<1>. QED BY StepShape, CoreLoop, CoreTurns, CoreCalls, CoreReturns

LEMMA CoreInit == Init => Core
<1>1. ASSUME Init
      PROVE  Core
  <2>1. /\ \A api \in APIs : turn[api] = NoTurn
        /\ \A thread \in Threads : call[thread] = Idle
        /\ st = Draft /\ cert = [replays |-> TRUE, state |-> Draft]
        /\ main = "draft" /\ outcome = "running"
    BY <1>1 DEF Init
  <2>2. TypeOK
    BY <1>1, TurnTypes, IdleType, DraftSound DEF Init, TypeOK
  <2>3. CallsInOrder
    BY <2>1, IdleType DEF CallsInOrder
  <2>4. TurnsInOrder
    BY <2>1, IdleType, ThreadNames DEF TurnsInOrder, Free, NoTurn
  <2>. QED BY <2>2, <2>3, <2>4 DEF Core
<1>. QED BY <1>1

-----------------------------------------------------------------------------
(***************************************************************************)
(* What each kind of step leaves alone.                                    *)
(***************************************************************************)

BetweenTurns ==
  InitializeCase \/ FinishCase \/ Interrupted \/ Resume
    \/ \E api \in APIs :
         /\ TakeAnswer(api)
         /\ turn[api].done = "ok" \/ (turn[api].done = "error" /\ api = "lawyer")

Asks(api) ==
  /\ main = api /\ Entered(api) /\ Steady
  /\ \/ call' = At(api, "refused")
     \/ \E a \in Actions : Takes(api, a) /\ (a.kind = "fail" \/ ~ turn[api].expired)

CallGoesOn ==
  \/ \E thread \in Threads :
       EngineAccepts(thread) \/ EngineRefuses(thread) \/ Assign(thread) \/ WriteEvent(thread)
  \/ \E kept, lost \in Threads : RacingAppends(kept, lost)
  \/ FileNotWritten

Returns(api) == ReturnAccepted(api) \/ ConsumeAttempt(api) \/ ReturnRefused(api)

LEMMA StepKinds ==
  ASSUME Core, Next
  PROVE  \/ BetweenTurns \/ StartTurn \/ MainFails \/ CallGoesOn
         \/ \E api \in APIs : Expire(api) \/ Asks(api) \/ Returns(api)
BY StepShape DEF BetweenTurns, CallGoesOn, Asks, Returns

LEMMA MachineFixed == ASSUME Core, Next PROVE machine' = machine
<1>1. BetweenTurns \/ StartTurn \/ MainFails => machine' = machine
  BY DEF BetweenTurns, StartTurn, MainFails, InitializeCase, FinishCase, Interrupted, Resume,
         TakeAnswer
<1>2. CallGoesOn => machine' = machine
  BY DEF CallGoesOn, EngineAccepts, EngineRefuses, Assign, WriteEvent, RacingAppends, FileNotWritten
<1>3. \A api \in APIs : Expire(api) \/ Asks(api) \/ Returns(api) => machine' = machine
  BY DEF Expire, Asks, Steady, Returns, ReturnAccepted, ConsumeAttempt, ReturnRefused
<1>. QED BY <1>1, <1>2, <1>3, StepKinds

\* Between turns nothing is open.
LEMMA NothingOpen ==
  ASSUME Core, main \notin APIs
  PROVE  /\ \A thread \in Threads : Free(thread)
         /\ \A api \in APIs : turn[api] = NoTurn
BY ThreadNames DEF Core, TurnsInOrder

LEMMA BetweenTurnsFrame ==
  ASSUME Core, BetweenTurns
  PROVE  main' \notin APIs /\ (InitializeCase \/ (UNCHANGED <<st, cert>> /\ main # "draft"))
BY ThreadNames DEF BetweenTurns, InitializeCase, FinishCase, Interrupted, Resume, TakeAnswer, Exit,
       Waiting, Core, TurnsInOrder, Free

LEMMA StartTurnFrame ==
  ASSUME Core, StartTurn
  PROVE  /\ UNCHANGED <<st, cert, call>> /\ main = "next"
         /\ main' \in APIs /\ turn'[main'] = NewTurn(NextOpportunity(st))
         /\ main' = APIOf(NextOpportunity(st)) /\ NextOpportunity(st) # NoOpportunity
         /\ \A thread \in Threads : Free(thread)
         /\ \A api \in APIs \ {main'} : turn'[api] = NoTurn
BY ThreadNames DEF StartTurn, Core, TurnsInOrder, TypeOK, APIOf

LEMMA AsksFrame ==
  ASSUME Core, NEW api \in APIs, Asks(api)
  PROVE  /\ Free(api) /\ ~ turn[api].completed /\ (turn[api].expired => LateAnswers)
         /\ \A other \in Threads \ {api} : call'[other] = call[other]
         /\ \/ call'[api].pc = "refused" /\ call'[api].act = NoAction
               /\ call'[api].seen = Draft
            \/ /\ call'[api].pc = "engine" /\ call'[api].seen = st
               /\ WellMade(api, call'[api].act) /\ call'[api].act.named = turn[api].opp
<1>1. Free(api) /\ ~ turn[api].completed /\ (turn[api].expired => LateAnswers) /\ api \in Threads
  BY ThreadNames DEF Asks, Entered, Active
<1>2. CASE call' = At(api, "refused")
  BY <1>1, <1>2 DEF At, Core, TypeOK, CallsInOrder, Idle, Calls, Free
<1>3. ASSUME NEW a \in Actions, Takes(api, a)
      PROVE  /\ \A other \in Threads \ {api} : call'[other] = call[other]
             /\ call'[api].pc = "engine" /\ call'[api].seen = st
             /\ WellMade(api, call'[api].act) /\ call'[api].act.named = turn[api].opp
  <2>1. turn'[main].opp = turn[main].opp /\ UNCHANGED <<main, st>> /\ main = api
    BY DEF Asks, Steady
  <2>. QED BY <1>1, <1>3, <2>1, TakenUp DEF Takes
<1>. QED BY <1>1, <1>2, <1>3 DEF Asks

LEMMA MainFailsFrame ==
  ASSUME Core, MainFails
  PROVE  /\ Free("main") /\ main \in APIs /\ UNCHANGED <<st, cert, main>>
         /\ \A api \in APIs : call'[api] = call[api]
         /\ call'["main"].pc = "engine" /\ call'["main"].seen = st
         /\ call'["main"].act.kind = "fail" /\ WellMade("main", call'["main"].act)
         /\ call'["main"].act.named = turn[main].opp
         /\ \A api \in APIs : turn'[api].expired = turn[api].expired
                           /\ turn'[api].opp = turn[api].opp
         /\ \/ main = "lawyer" /\ turn["lawyer"].expired /\ UNCHANGED turn
            \/ /\ main = "council" /\ Free("council")
               /\ turn'["council"].completed
               /\ turn'["council"].done = turn["council"].done \/ turn'["council"].done = "error"
               /\ turn["council"].done = "empty" => turn'["council"].done = "error"
               /\ turn["council"].done = "error" \/ turn["council"].expired
               /\ turn'["lawyer"] = turn["lawyer"]
<1>1. PICK a \in Actions : a.kind = "fail" /\ Takes("main", a)
  BY DEF MainFails
<1>2. \/ main = "lawyer" /\ turn["lawyer"].expired /\ UNCHANGED turn
      \/ /\ main = "council" /\ Free("council")
         /\ turn'["council"].completed
         /\ turn'["council"].done = turn["council"].done \/ turn'["council"].done = "error"
         /\ turn["council"].done = "empty" => turn'["council"].done = "error"
         /\ turn["council"].done = "error" \/ turn["council"].expired
         /\ turn'["lawyer"] = turn["lawyer"]
         /\ turn'["council"].expired = turn["council"].expired
         /\ turn'["council"].opp = turn["council"].opp
  <2>1. "council" \in APIs /\ turn["council"] \in Turns
        /\ (turn["council"].completed <=> turn["council"].done # "empty")
    BY ThreadNames DEF Core, TypeOK, TurnsInOrder
  <2>2. LET t == turn["council"] IN
          /\ Finished(t, "error").completed /\ Finished(t, "error").opp = t.opp
          /\ Finished(t, "error").expired = t.expired
          /\ Finished(t, "error").done \in {t.done, "error"}
          /\ t.done = "empty" => Finished(t, "error").done = "error"
    BY <2>1 DEF Finished, Turns
  <2>. QED BY <2>1, <2>2, ThreadNames DEF MainFails, Core, TypeOK
<1>3. \A api \in APIs : turn'[api].expired = turn[api].expired /\ turn'[api].opp = turn[api].opp
  BY <1>2, ThreadNames
<1>4. main \in APIs /\ UNCHANGED <<st, cert, main>> /\ "main" \in Threads /\ Free("main")
  BY ThreadNames DEF MainFails
<1>5. turn'[main].opp = turn[main].opp
  BY <1>3, <1>4
<1>6. /\ call'["main"].pc = "engine" /\ call'["main"].seen = st /\ call'["main"].act = a
      /\ \A other \in Threads \ {"main"} : call'[other] = call[other]
  BY <1>1, <1>4, <1>5, TakenUp
<1>. QED BY <1>1, <1>2, <1>3, <1>4, <1>6, ThreadNames DEF Takes

LEMMA CallGoesOnFrame ==
  ASSUME Core, CallGoesOn
  PROVE  /\ UNCHANGED <<machine, turn, main, outcome>> /\ main \in APIs
         /\ \A thread \in Threads :
              /\ Free(thread)' <=> Free(thread)
              /\ call'[thread].act = call[thread].act /\ call'[thread].seen = call[thread].seen
<1>1. ASSUME NEW thread \in Threads, NEW pc \in {"assign", "event", "accepted", "refused"},
             Moves(thread, pc)
      PROVE  \A other \in Threads :
               /\ Free(other)' <=> Free(other)
               /\ call'[other].act = call[other].act /\ call'[other].seen = call[other].seen
  BY <1>1 DEF Moves, Core, TypeOK, Calls, Free
<1>2. ASSUME NEW thread \in Threads,
             EngineAccepts(thread) \/ EngineRefuses(thread) \/ Assign(thread) \/ WriteEvent(thread)
      PROVE  \E pc \in {"assign", "event", "accepted", "refused"} : Moves(thread, pc)
  BY <1>2 DEF EngineAccepts, EngineRefuses, Assign, WriteEvent, Moves, At, Answers
<1>3. FileNotWritten => Moves("lawyer", "refused")
  BY DEF FileNotWritten, Moves, At
<1>4. ASSUME NEW kept \in Threads, NEW lost \in Threads, RacingAppends(kept, lost)
      PROVE  /\ ~ Free(kept) /\ UNCHANGED <<machine, turn, main, outcome>>
             /\ \A other \in Threads :
                  /\ Free(other)' <=> Free(other)
                  /\ call'[other].act = call[other].act /\ call'[other].seen = call[other].seen
  BY <1>4 DEF RacingAppends, Core, TypeOK, Calls, Free, Answers
<1>5. ASSUME NEW thread \in Threads, ~ Free(thread)
      PROVE  main \in APIs
  BY <1>5, BusyCall
<1>6. \A thread \in Threads : \A pc : Moves(thread, pc) =>
        ~ Free(thread) /\ UNCHANGED <<machine, turn, main, outcome>>
  BY DEF Moves, Free
<1>. QED BY <1>1, <1>2, <1>3, <1>4, <1>5, <1>6, ThreadNames DEF CallGoesOn

LEMMA ReturnsFrame ==
  ASSUME Core, NEW api \in APIs, Returns(api)
  PROVE  /\ main = api /\ ~ Free(api) /\ ~ turn[api].completed /\ turn[api].done = "empty"
         /\ UNCHANGED <<st, cert, main>>
         /\ \A other \in Threads \ {api} : call'[other] = call[other]
         /\ \A other \in APIs : turn'[other].expired = turn[other].expired
                             /\ turn'[other].opp = turn[other].opp
         /\ \A other \in APIs \ {api} : turn'[other] = turn[other]
         /\ \/ /\ call[api].pc = "accepted" /\ call'[api] = Idle
               /\ turn'[api].done = "ok" \/ (call[api].act.kind = "evidence" /\ turn' = turn)
            \/ /\ call[api].pc = "refused" /\ call[api].act.kind # "fail"
               /\ turn'[api].done = "empty"
               /\ \/ call'[api] = Idle
                  \/ /\ call'[api].pc = "engine" /\ call'[api].seen = st
                     /\ call'[api].act.kind = "fail" /\ WellMade(api, call'[api].act)
                     /\ call'[api].act.named = turn[api].opp
            \/ /\ call[api].pc = "refused" /\ call[api].act.kind = "fail"
               /\ call'[api] = Idle /\ turn'[api].done = "error"
<1>1. /\ ~ Free(api) /\ main = api /\ api \in Threads /\ UNCHANGED <<st, cert, main>>
      /\ ~ turn[api].completed /\ turn[api].done = "empty" /\ turn[api] \in Turns
  <2>1. ~ Free(api) /\ api \in Threads /\ UNCHANGED <<st, cert, main>>
    BY ThreadNames DEF Returns, ReturnAccepted, ConsumeAttempt, ReturnRefused, Free
  <2>2. main = api
    BY <2>1, BusyCall, ThreadNames
  <2>. QED BY <2>1, <2>2 DEF Core, TypeOK, TurnsInOrder
<1>2. \A result \in {"ok", "error"} :
        /\ Finished(turn[api], result).done = result
        /\ Finished(turn[api], result).expired = turn[api].expired
        /\ Finished(turn[api], result).opp = turn[api].opp
  BY <1>1 DEF Finished, Turns
<1>3. CASE ReturnAccepted(api)
  <2>1. /\ call[api].pc = "accepted" /\ call'[api] = Idle
        /\ \A other \in Threads \ {api} : call'[other] = call[other]
    BY <1>1, <1>3 DEF ReturnAccepted, Core, TypeOK
  <2>2. CASE call[api].act.kind = "evidence"
    <3>1. turn' = turn
      BY <1>3, <2>2 DEF ReturnAccepted
    <3>. QED BY <1>1, <2>1, <2>2, <3>1
  <2>3. CASE call[api].act.kind # "evidence"
    <3>1. turn' = [turn EXCEPT ![api] = Finished(@, "ok")]
      BY <1>3, <2>3 DEF ReturnAccepted
    <3>2. turn'[api] = Finished(turn[api], "ok")
          /\ \A other \in APIs \ {api} : turn'[other] = turn[other]
      BY <3>1 DEF Core, TypeOK
    <3>. QED BY <1>1, <1>2, <2>1, <3>2
  <2>. QED BY <2>2, <2>3
<1>4. CASE ReturnRefused(api)
  BY <1>1, <1>2, <1>4 DEF ReturnRefused, Core, TypeOK
<1>5. CASE ConsumeAttempt(api)
  <2> DEFINE a == Failing(turn[api].opp, "attempts_exhausted")
  <2>1. /\ call[api].pc = "refused" /\ call[api].act.kind # "fail"
        /\ turn' = [turn EXCEPT ![api].attempts = IF @ > 0 THEN @ - 1 ELSE 0]
        /\ \/ call' = [call EXCEPT ![api] = Calling(a)]
           \/ call' = [call EXCEPT ![api] = Idle]
    BY <1>5 DEF ConsumeAttempt
  <2>2. /\ turn'[api].opp = turn[api].opp /\ turn'[api].done = turn[api].done
        /\ turn'[api].expired = turn[api].expired
        /\ \A other \in APIs \ {api} : turn'[other] = turn[other]
    BY <1>1, <2>1 DEF Core, TypeOK, Turns
  <2>3. WellMade(api, a) /\ a.named = turn[api].opp /\ a.kind = "fail"
    BY <1>1, FailingMade, ResumingReasons DEF Turns
  <2>4. Calling(a).pc = "engine" /\ Calling(a).seen = st /\ Calling(a).act = a
    BY DEF Calling
  <2> HIDE DEF a
  <2>5. \/ call'[api] = Idle
        \/ /\ call'[api].pc = "engine" /\ call'[api].seen = st
           /\ call'[api].act.kind = "fail" /\ WellMade(api, call'[api].act)
           /\ call'[api].act.named = turn[api].opp
    BY <1>1, <2>1, <2>3, <2>4 DEF Core, TypeOK
  <2>6. \A other \in Threads \ {api} : call'[other] = call[other]
    BY <2>1 DEF Core, TypeOK
  <2>. QED BY <1>1, <2>1, <2>2, <2>5, <2>6
<1>. QED BY <1>3, <1>4, <1>5 DEF Returns

-----------------------------------------------------------------------------
(***************************************************************************)
(* Who can be under way with whom.                                         *)
(***************************************************************************)

Alone == Exclusive /\ DeadlinesFinal

LEMMA AloneStep ==
  ASSUME Core, Alone, Next
  PROVE  Alone'
<1>0. Core' /\ (Punctual' <=> Punctual)
  BY CoreStep, MachineFixed DEF Punctual, LateAnswers
<1>1. CASE BetweenTurns
  <2>1. main' \notin APIs
    BY <1>1, BetweenTurnsFrame
  <2>2. /\ \A thread \in Threads : Free(thread)'
        /\ \A api \in APIs : turn'[api] = NoTurn
    BY <1>0, <2>1, ThreadNames DEF Core, TurnsInOrder
  <2>. QED BY <2>2, ThreadNames DEF Alone, Exclusive, DeadlinesFinal, NoTurn
<1>2. CASE StartTurn
  <2>1. \A thread \in Threads : Free(thread)'
    BY <1>2, StartTurnFrame DEF Free
  <2>2. ~ NoTurn.expired /\ \A o : ~ NewTurn(o).expired
    BY DEF NewTurn, NoTurn
  <2>3. \A api \in APIs : ~ turn'[api].expired
    BY <1>2, <2>2, StartTurnFrame
  <2>. QED BY <2>1, <2>3, ThreadNames DEF Alone, Exclusive, DeadlinesFinal
<1>3. CASE MainFails
  <2>1. \A api \in APIs : Free(api)' <=> Free(api)
    BY <1>3, MainFailsFrame DEF Free
  <2>2. ~ Free("main")' /\ Free("main")
    BY <1>3, MainFailsFrame DEF Free
  <2>3. DeadlinesFinal'
    BY <1>0, <1>3, <2>1, <2>2, MainFailsFrame DEF Alone, DeadlinesFinal
  <2>4. Exclusive'
    BY <1>0, <1>3, <2>2, MainFailsFrame, ThreadNames DEF Alone, Exclusive, DeadlinesFinal
  <2>. QED BY <2>3, <2>4 DEF Alone
<1>4. CASE CallGoesOn
  BY <1>0, <1>4, CallGoesOnFrame, ThreadNames DEF Alone, Exclusive, DeadlinesFinal
<1>5. ASSUME NEW api \in APIs, Expire(api)
      PROVE  Alone'
  <2>1. /\ UNCHANGED <<call, main>> /\ main = api /\ Free("main")
        /\ ~ LateAnswers => Free(api) /\ turn[api].done = "empty"
        /\ turn'[api].done = turn[api].done
        /\ \A other \in APIs \ {api} : turn'[other] = turn[other]
    BY <1>5 DEF Expire, Waiting, Core, TypeOK, Turns
  <2>. QED BY <1>0, <2>1, ThreadNames DEF Alone, Exclusive, DeadlinesFinal, Free, Punctual
<1>6. ASSUME NEW api \in APIs, Asks(api)
      PROVE  Alone'
  <2>1. /\ UNCHANGED <<turn, main>> /\ (turn[api].expired => LateAnswers)
        /\ \A other \in Threads \ {api} : call'[other] = call[other]
    BY <1>6, AsksFrame DEF Asks, Steady
  <2>. QED BY <1>0, <2>1, ThreadNames DEF Alone, Exclusive, DeadlinesFinal, Free, Punctual
<1>7. ASSUME NEW api \in APIs, Returns(api)
      PROVE  Alone'
  <2>1. /\ main = api /\ ~ Free(api) /\ ~ turn[api].completed /\ main' = main
        /\ \A other \in Threads \ {api} : call'[other] = call[other]
        /\ \A other \in APIs : turn'[other].expired = turn[other].expired
        /\ \A other \in APIs \ {api} : turn'[other] = turn[other]
    BY <1>7, ReturnsFrame
  <2>. QED BY <1>0, <2>1, ThreadNames DEF Alone, Exclusive, DeadlinesFinal, Free
<1>. QED BY <1>1, <1>2, <1>3, <1>4, <1>5, <1>6, <1>7, StepKinds

\* In a council turn, and in every turn of a punctual run, only one thread has
\* a call under way.
LEMMA OneAtATime ==
  ASSUME Core, Alone, main = "council" \/ Punctual,
         NEW thread \in Threads, NEW other \in Threads, ~ Free(thread), ~ Free(other)
  PROVE  thread = other
<1>1. /\ main \in APIs /\ (thread = "main" \/ thread = main) /\ (other = "main" \/ other = main)
  BY BusyCall
<1>2. ~ Free(main) => ~ turn[main].completed
  BY <1>1 DEF Core, TurnsInOrder
<1>3. ~ Free("main") => Free(main)
  BY <1>1, <1>2, ThreadNames DEF Alone, Exclusive, DeadlinesFinal
<1>. QED BY <1>1, <1>3

\* The vote list of a turn, and what its calls read of it.
LEMMA NoVotesYetStep ==
  ASSUME Core, NoVotesYet, Next
  PROVE  NoVotesYet'
<1>0. Core'
  BY CoreStep
<1>1. CASE BetweenTurns
  BY <1>1, BetweenTurnsFrame, ThreadNames DEF NoVotesYet
<1>2. CASE StartTurn
  <2>1. SUFFICES ASSUME main' = "lawyer"
                 PROVE  NoVotesYet'
    BY DEF NoVotesYet
  <2>2. LET o == NextOpportunity(st) IN
          st \in State /\ o # NoOpportunity /\ o.role # "council" /\ UNCHANGED <<st, call>>
    BY <1>2, <2>1, StartTurnFrame DEF APIOf, Core, TypeOK, Sound
  <2>3. st.phase \in MeritsPhases
    BY <2>2, OpportunityFacts
  <2>4. st.votes = <<>>
    BY <2>3 DEF Core, TypeOK, Sound
  <2>5. \A thread \in Threads : Free(thread)
    BY <1>2, StartTurnFrame
  <2>. QED BY <2>2, <2>4, <2>5 DEF NoVotesYet, Free
<1>3. CASE MainFails
  BY <1>3, MainFailsFrame, ThreadNames DEF NoVotesYet, Free
<1>4. CASE CallGoesOn
  <2>1. SUFFICES ASSUME main = "lawyer", main' = "lawyer"
                 PROVE  NoVotesYet'
    BY <1>4, CallGoesOnFrame DEF NoVotesYet
  <2>2. \A thread \in Threads : ~ Free(thread)' => call'[thread].seen.votes = <<>>
    BY <1>4, <2>1, CallGoesOnFrame DEF NoVotesYet
  <2>3. ASSUME NEW thread \in Threads, Assign(thread)
        PROVE  st'.votes = <<>>
    <3>1. call[thread].pc = "assign" /\ st' = AfterStep(call[thread].seen, call[thread].act)
      BY <2>3 DEF Assign
    <3>2. /\ Sound(call[thread].seen) /\ StepOK(call[thread].seen, call[thread].act)
          /\ WellMade(thread, call[thread].act) /\ call[thread].act \in Actions
          /\ thread # "council" /\ call[thread].seen.votes = <<>>
      BY <2>1, <3>1, BusyCall, ThreadNames DEF Free, Core, TypeOK, CallsInOrder, NoVotesYet
    <3>3. call[thread].act.kind # "vote"
      BY <3>2, ThreadNames DEF WellMade
    <3>. QED BY <3>1, <3>2, <3>3, StepSound
  <2>4. st'.votes = <<>>
    <3>1. (\E thread \in Threads : Assign(thread)) \/ UNCHANGED st
      BY <1>4 DEF CallGoesOn, EngineAccepts, EngineRefuses, WriteEvent, RacingAppends,
                  FileNotWritten
    <3>. QED BY <2>1, <2>3, <3>1 DEF NoVotesYet
  <2>. QED BY <2>2, <2>4 DEF NoVotesYet
<1>5. ASSUME NEW api \in APIs, Expire(api)
      PROVE  NoVotesYet'
  BY <1>5 DEF Expire, NoVotesYet, Free
<1>6. ASSUME NEW api \in APIs, Asks(api)
      PROVE  NoVotesYet'
  <2>1. Draft.votes = <<>>
    BY DEF Draft, DraftState
  <2>. QED BY <1>6, <2>1, AsksFrame, ThreadNames DEF Asks, Steady, NoVotesYet, Free
<1>7. ASSUME NEW api \in APIs, Returns(api)
      PROVE  NoVotesYet'
  BY <1>7, ReturnsFrame, ThreadNames, IdleType DEF NoVotesYet, Free
<1>. QED BY <1>1, <1>2, <1>3, <1>4, <1>5, <1>6, <1>7, StepKinds

\* In a council turn, or a punctual run, nothing overtakes a call.
LEMMA ReadingsFreshStep ==
  ASSUME Core, Alone, ReadingsFresh, Next
  PROVE  ReadingsFresh'
<1> DEFINE Under(thread) == call[thread].pc \in {"engine", "assign"}
<1>0. Core' /\ (Punctual' <=> Punctual)
  BY CoreStep, MachineFixed DEF Punctual, LateAnswers
<1>1. CASE BetweenTurns
  <2>1. \A thread \in Threads : Free(thread)'
    BY <1>0, <1>1, BetweenTurnsFrame, ThreadNames DEF Core, TurnsInOrder
  <2>. QED BY <2>1 DEF ReadingsFresh, Free
<1>2. CASE StartTurn
  BY <1>2, StartTurnFrame DEF ReadingsFresh, Free
<1>3. CASE MainFails
  BY <1>0, <1>3, MainFailsFrame, ThreadNames DEF ReadingsFresh
<1>4. CASE CallGoesOn
  <2>1. SUFFICES ASSUME main = "council" \/ Punctual, NEW thread \in Threads,
                        call'[thread].pc \in {"engine", "assign"}
                 PROVE  call'[thread].seen = st'
    BY <1>0, <1>4, CallGoesOnFrame DEF ReadingsFresh
  <2>2. ~ Free(thread) /\ call'[thread].seen = call[thread].seen
    BY <1>4, <2>1, CallGoesOnFrame DEF Free
  <2>3. ASSUME NEW other \in Threads, Assign(other)
        PROVE  FALSE
    <3>1. ~ Free(other) /\ call' = [call EXCEPT ![other].pc = "event"]
      BY <2>3 DEF Assign, Free, At
    <3>2. other = thread
      BY <2>1, <2>2, <3>1, OneAtATime
    <3>. QED BY <2>1, <3>1, <3>2 DEF Core, TypeOK, Calls
  <2>4. UNCHANGED st
    BY <1>4, <2>3 DEF CallGoesOn, EngineAccepts, EngineRefuses, WriteEvent, RacingAppends,
                      FileNotWritten
  <2>5. call[thread].pc \in {"engine", "assign"}
    <3>1. ASSUME NEW other \in Threads,
                 EngineAccepts(other) \/ EngineRefuses(other) \/ WriteEvent(other)
          PROVE  call[other].pc = "engine" \/ call'[other].pc \notin {"engine", "assign"}
      BY <3>1 DEF EngineAccepts, EngineRefuses, WriteEvent, At, Answers, Core, TypeOK, Calls
    <3>2. ASSUME NEW other \in Threads, other # thread,
                 EngineAccepts(other) \/ EngineRefuses(other) \/ WriteEvent(other)
          PROVE  call'[thread].pc = call[thread].pc
      BY <3>2 DEF EngineAccepts, EngineRefuses, WriteEvent, At, Core, TypeOK, Calls
    <3>3. ASSUME NEW kept \in Threads, NEW lost \in Threads, RacingAppends(kept, lost)
          PROVE  call[thread].pc \in {"engine", "assign"}
      BY <2>1, <3>3 DEF RacingAppends, Answers, Core, TypeOK, Calls
    <3>4. FileNotWritten => call[thread].pc \in {"engine", "assign"}
      BY <2>1 DEF FileNotWritten, At, Core, TypeOK, Calls
    <3>. QED BY <1>4, <2>1, <2>3, <3>1, <3>2, <3>3, <3>4 DEF CallGoesOn
  <2>. QED BY <2>1, <2>2, <2>4, <2>5 DEF ReadingsFresh
<1>5. ASSUME NEW api \in APIs, Expire(api)
      PROVE  ReadingsFresh'
  BY <1>0, <1>5 DEF Expire, ReadingsFresh
<1>6. ASSUME NEW api \in APIs, Asks(api)
      PROVE  ReadingsFresh'
  BY <1>0, <1>6, AsksFrame, ThreadNames DEF Asks, Steady, ReadingsFresh
<1>7. ASSUME NEW api \in APIs, Returns(api)
      PROVE  ReadingsFresh'
  BY <1>0, <1>7, ReturnsFrame, ThreadNames, IdleType DEF ReadingsFresh
<1>. QED BY <1>1, <1>2, <1>3, <1>4, <1>5, <1>6, <1>7, StepKinds

-----------------------------------------------------------------------------
(***************************************************************************)
(* The turn and the case.                                                  *)
(***************************************************************************)

LEMMA TurnCurrentStep ==
  ASSUME Core, Alone, ReadingsFresh, TurnCurrent, Next
  PROVE  TurnCurrent'
<1> DEFINE Quiet == \A thread \in Threads :
                      call[thread].pc \in {"event", "accepted"} => call[thread].act.kind = "evidence"
<1>0. Core' /\ machine' = machine /\ (Punctual' <=> Punctual) /\ Faults' = Faults
  BY CoreStep, MachineFixed DEF Punctual, LateAnswers, Faults
<1>1. SUFFICES ASSUME Punctual, "event" \notin Faults, main' \in APIs,
                      turn'[main'].done # "ok", Quiet'
               PROVE  turn'[main'].opp = NextOpportunity(st')
  BY <1>0 DEF TurnCurrent, NextOpportunity
<1>2. ASSUME main \in APIs, turn[main].done # "ok", Quiet, UNCHANGED <<st, main>>,
             turn'[main].opp = turn[main].opp
      PROVE  turn'[main'].opp = NextOpportunity(st')
  BY <1>1, <1>2 DEF TurnCurrent
<1>3. CASE BetweenTurns
  BY <1>1, <1>3, BetweenTurnsFrame
<1>4. CASE StartTurn
  <2>1. \A o : NewTurn(o).opp = o
    BY DEF NewTurn, NoTurn
  <2>. QED BY <1>4, <2>1, StartTurnFrame
<1>5. CASE MainFails
  <2>1. turn[main].done # "ok"
    BY <1>1, <1>5, MainFailsFrame, ThreadNames DEF Alone, DeadlinesFinal
  <2>2. Quiet
    BY <1>1, <1>5, MainFailsFrame, ThreadNames DEF Free
  <2>. QED BY <1>2, <1>5, <2>1, <2>2, MainFailsFrame
<1>6. CASE CallGoesOn
  <2>1. turn' = turn /\ main' = main /\ main \in APIs
    BY <1>6, CallGoesOnFrame
  <2>2. ASSUME NEW thread \in Threads, Assign(thread)
        PROVE  turn'[main'].opp = NextOpportunity(st')
    <3>1. /\ call[thread].pc = "assign" /\ ~ Free(thread)
          /\ st' = AfterStep(call[thread].seen, call[thread].act)
          /\ call'[thread].pc = "event" /\ call'[thread].act = call[thread].act
      BY <2>2 DEF Assign, At, Core, TypeOK, Calls, Free
    <3>2. call[thread].seen = st /\ call[thread].act.kind = "evidence"
      BY <1>1, <3>1 DEF ReadingsFresh
    <3>3. \A other \in Threads : other # thread => call[other].pc = "idle"
      BY <1>1, <3>1, OneAtATime DEF Free
    <3>4. Quiet
      BY <3>1, <3>3
    <3>5. turn[main].opp = NextOpportunity(st)
      BY <1>1, <2>1, <3>4 DEF TurnCurrent
    <3>6. /\ Sound(st) /\ StepOK(st, call[thread].act) /\ call[thread].act \in Actions
          /\ call[thread].act.value \in EvidenceIds
      BY <3>1, <3>2, BusyCall DEF Core, TypeOK, CallsInOrder, WellMade
    <3>. QED BY <2>1, <3>1, <3>2, <3>5, <3>6, EvidenceSound
  <2>3. CASE ~ \E thread \in Threads : Assign(thread)
    <3>1. UNCHANGED st
      BY <1>6, <2>3 DEF CallGoesOn, EngineAccepts, EngineRefuses, WriteEvent, RacingAppends,
                        FileNotWritten
    <3>2. ASSUME NEW thread \in Threads, call[thread].pc \in {"event", "accepted"}
          PROVE  call'[thread].pc \in {"event", "accepted"}
      <4>1. ASSUME NEW other \in Threads,
                   EngineAccepts(other) \/ EngineRefuses(other) \/ WriteEvent(other)
            PROVE  call'[thread].pc \in {"event", "accepted"}
        BY <1>1, <3>2, <4>1 DEF EngineAccepts, EngineRefuses, WriteEvent, At, Answers,
                                Core, TypeOK, Calls
      <4>2. ASSUME NEW kept \in Threads, NEW lost \in Threads, RacingAppends(kept, lost)
            PROVE  call'[thread].pc \in {"event", "accepted"}
        BY <3>2, <4>2 DEF RacingAppends, Answers, Core, TypeOK, Calls
      <4>3. FileNotWritten => call'[thread].pc \in {"event", "accepted"}
        BY <3>2 DEF FileNotWritten, At, Core, TypeOK, Calls
      <4>. QED BY <1>6, <2>3, <4>1, <4>2, <4>3 DEF CallGoesOn
    <3>3. Quiet
      BY <1>1, <1>6, <3>2, CallGoesOnFrame
    <3>. QED BY <1>1, <1>2, <2>1, <3>1, <3>3
  <2>. QED BY <2>2, <2>3
<1>7. ASSUME NEW api \in APIs, Expire(api)
      PROVE  turn'[main'].opp = NextOpportunity(st')
  <2>1. /\ UNCHANGED <<st, call, main>> /\ main = api
        /\ turn'[api].opp = turn[api].opp /\ turn'[api].done = turn[api].done
    BY <1>7 DEF Expire, Waiting, Core, TypeOK, Turns
  <2>. QED BY <1>1, <1>2, <2>1
<1>8. ASSUME NEW api \in APIs, Asks(api)
      PROVE  turn'[main'].opp = NextOpportunity(st')
  <2>1. main = api /\ UNCHANGED <<st, turn, main>>
    BY <1>8 DEF Asks, Steady
  <2>2. Quiet
    BY <1>1, <1>8, AsksFrame, ThreadNames DEF Free
  <2>. QED BY <1>1, <1>2, <2>1, <2>2
<1>9. ASSUME NEW api \in APIs, Returns(api)
      PROVE  turn'[main'].opp = NextOpportunity(st')
  <2>1. Quiet
    BY <1>1, <1>9, ReturnsFrame, ThreadNames
  <2>. QED BY <1>2, <1>9, <2>1, ReturnsFrame
<1>. QED BY <1>3, <1>4, <1>5, <1>6, <1>7, <1>8, <1>9, StepKinds

\* In a punctual run without lost events, a call the engine is given answers the
\* opportunity the case has open.
LEMMA CallCurrent ==
  ASSUME Core, Alone, ReadingsFresh, TurnCurrent, Punctual, "event" \notin Faults,
         NEW thread \in Threads, call[thread].pc = "engine"
  PROVE  /\ call[thread].act.named = NextOpportunity(st) /\ call[thread].seen = st
         /\ NextOpportunity(st) # NoOpportunity /\ WellMade(thread, call[thread].act)
<1>1. /\ main \in APIs /\ thread \in {"main", main} /\ WellMade(thread, call[thread].act)
      /\ call[thread].act.named = turn[main].opp
  BY BusyCall DEF Free
<1>2. \A other \in Threads : other # thread => call[other].pc = "idle"
  BY OneAtATime DEF Free
<1>3. turn[main].done # "ok"
  <2>1. CASE thread = "main"
    BY <2>1 DEF Alone, Exclusive, Free
  <2>2. CASE thread = main
    BY <1>1, <2>2 DEF Core, TurnsInOrder, Free
  <2>. QED BY <1>1, <2>1, <2>2
<1>4. turn[main].opp = NextOpportunity(st)
  BY <1>1, <1>2, <1>3 DEF TurnCurrent
<1>5. turn[main].opp # NoOpportunity
  BY <1>1 DEF Core, TurnsInOrder
<1>. QED BY <1>1, <1>4, <1>5 DEF ReadingsFresh

Certified == CertificateAhead /\ CertificateKeepsUp

\* The certificate is appended to before the state is stored, by one call at a time.
LEMMA CertifiedStep ==
  ASSUME Core, Alone, ReadingsFresh, Certified, Next
  PROVE  Certified'
<1> DEFINE Level == cert = [replays |-> TRUE, state |-> st]
           Ahead(thread) == cert = [replays |-> TRUE,
                                    state |-> AfterStep(call[thread].seen, call[thread].act)]
           Due(thread) == call[thread].pc = "assign"
<1>0. Core' /\ (Punctual' <=> Punctual) /\ Faults' = Faults
  BY CoreStep, MachineFixed DEF Punctual, LateAnswers, Faults
<1>1. SUFFICES ASSUME Punctual, "file" \notin Faults
               PROVE  /\ \A thread \in Threads : Due(thread)' => Ahead(thread)'
                      /\ (\A thread \in Threads : ~ Due(thread)') => Level'
  BY <1>0 DEF Certified, CertificateAhead, CertificateKeepsUp, AfterStep
<1>2. /\ \A thread \in Threads : Due(thread) => Ahead(thread)
      /\ (\A thread \in Threads : ~ Due(thread)) => Level
  BY <1>1 DEF Certified, CertificateAhead, CertificateKeepsUp
<1>3. ASSUME UNCHANGED <<st, cert>>, \A thread \in Threads : Due(thread)' <=> Due(thread),
             \A thread \in Threads : Due(thread) => call'[thread] = call[thread]
      PROVE  /\ \A thread \in Threads : Due(thread)' => Ahead(thread)'
             /\ (\A thread \in Threads : ~ Due(thread)') => Level'
  <2>1. \A thread \in Threads : Due(thread)' => Ahead(thread)'
    BY <1>2, <1>3
  <2>. QED BY <1>2, <1>3, <2>1
<1> DEFINE Goal == /\ \A thread \in Threads : Due(thread)' => Ahead(thread)'
                   /\ (\A thread \in Threads : ~ Due(thread)') => Level'
<1>4. CASE BetweenTurns
  <2>1. \A thread \in Threads : ~ Due(thread)'
    BY <1>0, <1>4, BetweenTurnsFrame, NothingOpen, ThreadNames DEF Core, TurnsInOrder, Free
  <2>2. CASE InitializeCase
    <3>1. Level
      BY <2>2 DEF InitializeCase, Core, TurnsInOrder
    <3>. QED BY <2>1, <2>2, <3>1 DEF InitializeCase
  <2>3. CASE ~ InitializeCase
    <3>1. \A thread \in Threads : ~ Due(thread)
      BY <1>4, <2>3, ThreadNames DEF BetweenTurns, FinishCase, Interrupted, Resume, TakeAnswer,
         Waiting, Core, TurnsInOrder, Free
    <3>. QED BY <1>3, <1>4, <2>1, <2>3, <3>1, BetweenTurnsFrame
  <2>. QED BY <2>2, <2>3
<1>5. CASE StartTurn
  BY <1>3, <1>5, StartTurnFrame DEF Free
<1>6. CASE MainFails
  <2>1. \A thread \in Threads : /\ Due(thread)' <=> Due(thread)
                                /\ Due(thread) => call'[thread] = call[thread]
    BY <1>6, MainFailsFrame, ThreadNames DEF Free
  <2>. QED BY <1>3, <1>6, <2>1, MainFailsFrame
<1>7. CASE CallGoesOn
  <2>1. ASSUME NEW thread \in Threads, EngineAccepts(thread)
        PROVE  Goal
    <3>1. /\ call[thread].pc = "engine" /\ StepOK(call[thread].seen, call[thread].act)
          /\ cert' = Recorded(cert, call[thread].act)
          /\ call'[thread].act = call[thread].act /\ call'[thread].seen = call[thread].seen
          /\ \A other \in Threads \ {thread} : call'[other] = call[other]
      BY <2>1 DEF EngineAccepts, Answers, At, Core, TypeOK, Calls
    <3>2. \A other \in Threads : other # thread => call[other].pc = "idle"
      BY <1>1, <3>1, OneAtATime DEF Free
    <3>3. Level /\ call[thread].seen = st
      BY <1>1, <1>2, <3>1, <3>2 DEF ReadingsFresh
    <3>4. Ahead(thread)'
      BY <3>1, <3>3 DEF Recorded
    <3>5. call'[thread].pc = "assign"
      BY <2>1 DEF EngineAccepts, At, Core, TypeOK, Calls
    <3>. QED BY <3>1, <3>2, <3>4, <3>5
  <2>2. ASSUME NEW thread \in Threads, Assign(thread)
        PROVE  Goal
    <3>1. /\ call[thread].pc = "assign" /\ call'[thread].pc = "event" /\ cert' = cert
          /\ st' = AfterStep(call[thread].seen, call[thread].act)
          /\ \A other \in Threads \ {thread} : call'[other] = call[other]
      BY <2>2 DEF Assign, At, Core, TypeOK, Calls
    <3>2. \A other \in Threads : other # thread => call[other].pc = "idle"
      BY <1>1, <3>1, OneAtATime DEF Free
    <3>3. Level'
      BY <1>2, <3>1
    <3>. QED BY <3>1, <3>2, <3>3
  <2>3. ASSUME NEW thread \in Threads, EngineRefuses(thread) \/ WriteEvent(thread)
        PROVE  Goal
    <3>1. /\ call[thread].pc # "assign" /\ call'[thread].pc # "assign" /\ UNCHANGED <<st, cert>>
          /\ \A other \in Threads \ {thread} : call'[other] = call[other]
      BY <2>3 DEF EngineRefuses, WriteEvent, At, Core, TypeOK, Calls
    <3>2. \A other \in Threads : /\ Due(other)' <=> Due(other)
                                 /\ Due(other) => call'[other] = call[other]
      BY <3>1
    <3>. QED BY <1>3, <3>1, <3>2
  <2>4. ASSUME NEW kept \in Threads, NEW lost \in Threads, RacingAppends(kept, lost)
        PROVE  FALSE
    BY <1>1, <2>4, OneAtATime DEF RacingAppends, Answers, Free
  <2>5. ~ FileNotWritten
    BY <1>1 DEF FileNotWritten
  <2>. QED BY <1>7, <2>1, <2>2, <2>3, <2>4, <2>5 DEF CallGoesOn
<1>8. ASSUME NEW api \in APIs, Expire(api)
      PROVE  Goal
  BY <1>3, <1>8 DEF Expire
<1>9. ASSUME NEW api \in APIs, Asks(api)
      PROVE  Goal
  <2>1. \A thread \in Threads : /\ Due(thread)' <=> Due(thread)
                                /\ Due(thread) => call'[thread] = call[thread]
    BY <1>9, AsksFrame, ThreadNames DEF Free
  <2>. QED BY <1>3, <1>9, <2>1 DEF Asks, Steady
<1>10. ASSUME NEW api \in APIs, Returns(api)
       PROVE  Goal
  <2>1. \A thread \in Threads : /\ Due(thread)' <=> Due(thread)
                                /\ Due(thread) => call'[thread] = call[thread]
    BY <1>10, ReturnsFrame, ThreadNames, IdleType
  <2>. QED BY <1>3, <1>10, <2>1, ReturnsFrame
<1>. QED BY <1>4, <1>5, <1>6, <1>7, <1>8, <1>9, <1>10, StepKinds

Succeeding == FailuresTaken /\ PunctualRunsSucceed

\* When nothing fails and no answer meets its deadline, the engine takes every
\* failure of a turn and no participant can end the run.
LEMMA SucceedingStep ==
  ASSUME Core, Alone, ReadingsFresh, TurnCurrent, Succeeding, Next
  PROVE  Succeeding'
<1> DEFINE Goal == /\ turn'["lawyer"].done # "error" /\ outcome' # "error"
                   /\ \A thread \in Threads :
                        call'[thread].pc = "refused" /\ call'[thread].act.kind = "fail"
                          => call'[thread].act.opp # call'[thread].act.named
<1>0. Core' /\ (Punctual' <=> Punctual) /\ Faults' = Faults
  BY CoreStep, MachineFixed DEF Punctual, LateAnswers, Faults
<1>1. SUFFICES ASSUME Punctual, Faults = {}
               PROVE  Goal
  BY <1>0 DEF Succeeding, FailuresTaken, PunctualRunsSucceed, ParticipantsNeverAbort
<1>2. /\ turn["lawyer"].done # "error" /\ outcome # "error"
      /\ \A thread \in Threads :
           call[thread].pc = "refused" /\ call[thread].act.kind = "fail"
             => call[thread].act.opp # call[thread].act.named
  BY <1>1 DEF Succeeding, FailuresTaken, PunctualRunsSucceed, ParticipantsNeverAbort
<1>3. NoTurn.done = "empty" /\ \A o : NewTurn(o).done = "empty"
  BY DEF NoTurn, NewTurn
<1>4. CASE BetweenTurns
  <2>1. /\ \A thread \in Threads : call'[thread].pc # "refused"
        /\ \A api \in APIs : turn'[api] = NoTurn
    BY <1>0, <1>4, BetweenTurnsFrame, ThreadNames DEF Core, TurnsInOrder, Free
  <2>2. call["main"].pc # "refused"
    BY <1>2, ThreadNames DEF Core, CallsInOrder, WellMade
  <2>3. outcome' # "error"
    BY <1>1, <1>2, <1>4, <2>2 DEF BetweenTurns, InitializeCase, FinishCase, Interrupted, Resume,
                                  TakeAnswer
  <2>. QED BY <1>3, <2>1, <2>3, ThreadNames
<1>5. CASE StartTurn
  <2>1. UNCHANGED <<call, outcome>> /\ turn'["lawyer"].done = "empty"
    BY <1>3, <1>5, StartTurnFrame, ThreadNames DEF StartTurn
  <2>. QED BY <1>2, <2>1
<1>6. CASE MainFails
  <2>1. outcome' = outcome /\ turn'["lawyer"] = turn["lawyer"]
    BY <1>6, MainFailsFrame DEF MainFails
  <2>. QED BY <1>2, <1>6, <2>1, MainFailsFrame, ThreadNames
<1>7. CASE CallGoesOn
  <2>1. UNCHANGED <<turn, outcome>>
    BY <1>7, CallGoesOnFrame
  <2>2. ASSUME NEW thread \in Threads, call'[thread].pc = "refused",
               call'[thread].act.kind = "fail", call'[thread].act.opp = call'[thread].act.named
        PROVE  FALSE
    <3>1. /\ call[thread].act.kind = "fail" /\ call[thread].pc # "refused"
          /\ call[thread].act.opp = call[thread].act.named
      BY <1>2, <1>7, <2>2, CallGoesOnFrame
    <3>2. EngineRefuses(thread)
      <4>1. ASSUME NEW other \in Threads,
                   EngineAccepts(other) \/ Assign(other) \/ WriteEvent(other)
            PROVE  FALSE
        BY <1>1, <2>2, <3>1, <4>1
           DEF EngineAccepts, Assign, WriteEvent, At, Core, TypeOK, Calls
      <4>2. ASSUME NEW other \in Threads, EngineRefuses(other)
            PROVE  other = thread
        BY <2>2, <3>1, <4>2 DEF EngineRefuses, At, Core, TypeOK, Calls
      <4>3. ASSUME NEW kept \in Threads, NEW lost \in Threads, RacingAppends(kept, lost)
            PROVE  FALSE
        BY <2>2, <3>1, <4>3 DEF RacingAppends, Core, TypeOK, Calls
      <4>4. ~ FileNotWritten
        BY <1>1 DEF FileNotWritten
      <4>. QED BY <1>7, <4>1, <4>2, <4>3, <4>4 DEF CallGoesOn
    <3>3. call[thread].pc = "engine" /\ ~ StepOK(call[thread].seen, call[thread].act)
      BY <1>1, <3>2 DEF EngineRefuses, Answers
    <3>4. LET o == call[thread].act.opp IN
            /\ o = NextOpportunity(st) /\ o # NoOpportunity /\ st \in State
            /\ call[thread].seen = st
      BY <1>1, <3>1, <3>3, CallCurrent DEF Core, TypeOK, Sound
    <3>5. StepOK(st, call[thread].act)
      <4>1. FailOpportunityOK(st, "system", call[thread].act.opp, call[thread].act.named.member)
        BY <3>1, <3>4, OpenTurnCanFail
      <4>. QED BY <3>1, <4>1 DEF StepOK
    <3>. QED BY <3>3, <3>4, <3>5
  <2>. QED BY <1>2, <2>1, <2>2
<1>8. ASSUME NEW api \in APIs, Expire(api)
      PROVE  Goal
  <2>1. UNCHANGED <<call, outcome>> /\ turn'["lawyer"].done = turn["lawyer"].done
    BY <1>8, ThreadNames DEF Expire, Core, TypeOK, Turns
  <2>. QED BY <1>2, <2>1
<1>9. ASSUME NEW api \in APIs, Asks(api)
      PROVE  Goal
  <2>1. NoAction.kind # "fail"
    BY DEF NoAction, Action
  <2>. QED BY <1>2, <1>9, <2>1, AsksFrame, ThreadNames DEF Asks, Steady
<1>10. ASSUME NEW api \in APIs, Returns(api)
       PROVE  Goal
  <2>1. outcome' = outcome
    BY <1>10 DEF Returns, ReturnAccepted, ConsumeAttempt, ReturnRefused
  <2>2. ~ (api = "lawyer" /\ call[api].pc = "refused" /\ call[api].act.kind = "fail")
    BY <1>2, BusyCall, ThreadNames DEF Free, WellMade
  <2>3. /\ turn'["lawyer"].done # "error"
        /\ \A thread \in Threads : call'[thread] = call[thread] \/ call'[thread].pc # "refused"
    BY <1>2, <1>10, <2>2, ReturnsFrame, ThreadNames, IdleType
  <2>. QED BY <1>2, <2>1, <2>3
<1>. QED BY <1>4, <1>5, <1>6, <1>7, <1>8, <1>9, <1>10, StepKinds

-----------------------------------------------------------------------------
(***************************************************************************)
(* The inductive invariant, and what it says of every run.                 *)
(***************************************************************************)
LEMMA InvParts ==
  Inv <=> /\ Core /\ Alone /\ NoVotesYet /\ ReadingsFresh /\ TurnCurrent
          /\ Certified /\ Succeeding
BY DEF Inv, Core, Alone, Certified, Succeeding

LEMMA InitInv == Init => Inv
<1>1. SUFFICES ASSUME Init
               PROVE  Inv
  OBVIOUS
<1>2. Core
  BY <1>1, CoreInit
<1>3. /\ main = "draft" /\ outcome = "running"
      /\ cert = [replays |-> TRUE, state |-> st]
      /\ \A api \in APIs : turn[api] = NoTurn
      /\ \A thread \in Threads : Free(thread)
  BY <1>1, IdleType DEF Init, Free
<1>4. Alone
  BY <1>3, ThreadNames DEF Alone, Exclusive, DeadlinesFinal, NoTurn
<1>5. NoVotesYet /\ TurnCurrent
  BY <1>3, ThreadNames DEF NoVotesYet, TurnCurrent
<1>6. ReadingsFresh /\ Certified
  BY <1>3 DEF ReadingsFresh, Certified, CertificateAhead, CertificateKeepsUp, Free
<1>7. Succeeding
  BY <1>3, ThreadNames DEF Succeeding, FailuresTaken, PunctualRunsSucceed, ParticipantsNeverAbort,
                           NoTurn, Free
<1>. QED BY <1>2, <1>4, <1>5, <1>6, <1>7, InvParts

LEMMA InvStep ==
  ASSUME Inv, Next
  PROVE  Inv'
<1>1. /\ Core /\ Alone /\ NoVotesYet /\ ReadingsFresh /\ TurnCurrent
      /\ Certified /\ Succeeding
  BY InvParts
<1>2. Core' /\ Alone' /\ NoVotesYet'
  BY <1>1, CoreStep, AloneStep, NoVotesYetStep
<1>3. ReadingsFresh' /\ TurnCurrent'
  BY <1>1, ReadingsFreshStep, TurnCurrentStep
<1>4. Certified' /\ Succeeding'
  BY <1>1, CertifiedStep, SucceedingStep
<1>. QED BY <1>2, <1>3, <1>4, InvParts DEF Inv, Core, Alone, Certified, Succeeding

\* The inductive invariant holds of every run, on every machine, whatever the
\* agents send and whenever deadlines pass.
THEOREM Invariance == Spec => []Inv
<1>1. ASSUME Inv, UNCHANGED vars
      PROVE  Inv'
  BY <1>1 DEF vars, Inv, TypeOK, CallsInOrder, TurnsInOrder, NoVotesYet, Exclusive, DeadlinesFinal,
     ReadingsFresh, TurnCurrent, CertificateAhead, CertificateKeepsUp, FailuresTaken,
     PunctualRunsSucceed, ParticipantsNeverAbort, Free, Punctual, LateAnswers, Faults
<1>2. Inv /\ [Next]_vars => Inv'
  BY <1>1, InvStep
<1>. QED BY <1>2, InitInv, PTL DEF Spec

\* One turn at a time, on every machine: startTurn, clearTurn and the locks keep
\* the answers of one turn out of every other.
THEOREM TurnIsolationHolds == Spec => []TurnIsolation
<1>1. Inv => TurnIsolation
  BY DEF Inv, TurnsInOrder, TurnIsolation
<1>. QED BY <1>1, Invariance, PTL

\* In a punctual run that loses no event what reaches the engine answers the
\* opportunity that is open, for every request in every order.
THEOREM AnswersAreCurrent == Spec => []AnswersCurrent
<1>1. ASSUME Inv, Punctual, "event" \notin Faults,
             NEW thread \in Threads, call[thread].pc = "engine"
      PROVE  /\ call[thread].act.named = NextOpportunity(st)
             /\ \/ call[thread].act.opp = NextOpportunity(st)
                \/ call[thread].act.kind = "fail" /\ ~ Answers(thread)
  <2>1. /\ call[thread].act.named = NextOpportunity(st) /\ call[thread].seen = st
        /\ WellMade(thread, call[thread].act)
    BY <1>1, InvParts, CallCurrent
  <2>2. ASSUME call[thread].act.kind = "fail", Answers(thread)
        PROVE  call[thread].act.opp = NextOpportunity(st)
    BY <2>1, <2>2 DEF Answers, StepOK, FailOpportunityOK
  <2>. QED BY <2>1, <2>2 DEF WellMade
<1>2. Inv => AnswersCurrent
  BY <1>1 DEF AnswersCurrent
<1>. QED BY <1>2, Invariance, PTL

\* In a punctual run whose evidence is always written the certificate replays to
\* the current state.
THEOREM CertificateIsKept == Spec => []CertificateKeepsUp
<1>1. Inv => CertificateKeepsUp
  BY DEF Inv
<1>. QED BY <1>1, Invariance, PTL

\* A punctual run in which nothing fails never exits with an error.
THEOREM PunctualRunsDoSucceed == Spec => []PunctualRunsSucceed
<1>1. Inv => PunctualRunsSucceed
  BY DEF Inv
<1>. QED BY <1>1, Invariance, PTL

-----------------------------------------------------------------------------
(***************************************************************************)
(* The case itself changes in two ways only: it is initialized, or a       *)
(* thread stores what the engine made of the state the thread had read.    *)
(***************************************************************************)
Stores(thread) ==
  LET c == call[thread] IN
    /\ Sound(c.seen)
    /\ c.act \in Actions /\ WellMade(thread, c.act) /\ StepOK(c.seen, c.act)
    /\ st' = AfterStep(c.seen, c.act)
    /\ main \in APIs /\ main' = main
    /\ main = "council" \/ Punctual => c.seen = st

LEMMA CaseChanges ==
  ASSUME Inv, Next
  PROVE  \/ UNCHANGED st
         \/ st = Draft /\ st' = AfterInitializeCase(Draft, Roster)
         \/ \E thread \in Threads : Stores(thread)
<1>0. Core /\ ReadingsFresh
  BY InvParts
<1>1. InitializeCase => st = Draft /\ st' = AfterInitializeCase(Draft, Roster)
  BY <1>0 DEF InitializeCase, Core, TurnsInOrder
<1>2. ASSUME NEW thread \in Threads, Assign(thread)
      PROVE  Stores(thread)
  <2>1. /\ st' = AfterStep(call[thread].seen, call[thread].act) /\ main' = main
        /\ call[thread].pc = "assign" /\ StepOK(call[thread].seen, call[thread].act)
        /\ Sound(call[thread].seen)
    BY <1>0, <1>2 DEF Assign, Core, TypeOK, CallsInOrder
  <2>2. /\ main \in APIs /\ WellMade(thread, call[thread].act) /\ call[thread].act \in Actions
    BY <1>0, <2>1, BusyCall DEF Free
  <2>3. main = "council" \/ Punctual => call[thread].seen = st
    BY <1>0, <2>1 DEF ReadingsFresh
  <2>. QED BY <2>1, <2>2, <2>3 DEF Stores
<1>3. BetweenTurns => InitializeCase \/ UNCHANGED st
  BY <1>0, BetweenTurnsFrame
<1>4. CallGoesOn => UNCHANGED st \/ \E thread \in Threads : Assign(thread)
  BY DEF CallGoesOn, EngineAccepts, EngineRefuses, WriteEvent, RacingAppends, FileNotWritten
<1>5. StartTurn \/ MainFails => UNCHANGED st
  BY DEF StartTurn, MainFails
<1>6. \A api \in APIs : Expire(api) \/ Asks(api) \/ Returns(api) => UNCHANGED st
  BY DEF Expire, Asks, Steady, Returns, ReturnAccepted, ConsumeAttempt, ReturnRefused
<1>. QED BY <1>0, <1>1, <1>2, <1>3, <1>4, <1>5, <1>6, StepKinds

\* A vote that has been stored stays where it is, whatever answers, deadlines and
\* failures meet and on whatever machine.
THEOREM VotesAreNeverLost == Spec => VotesNeverLost
<1> DEFINE A == /\ Len(st.votes) <= Len(st'.votes)
                /\ \A i \in DOMAIN st.votes : st'.votes[i] = st.votes[i]
<1>1. A <=> VotesKept(st, st')
  BY DEF VotesKept
<1>2. ASSUME Inv, Next
      PROVE  VotesKept(st, st')
  <2>0. Core /\ NoVotesYet /\ st \in State /\ NoVotesYet'
    BY <1>2, InvParts, NoVotesYetStep DEF Core, TypeOK, Sound
  <2>1. CASE UNCHANGED st
    BY <2>0, <2>1, SameVotesKept
  <2>2. CASE st = Draft /\ st' = AfterInitializeCase(Draft, Roster)
    <3>1. st.votes = <<>> /\ st'.votes = <<>>
      BY <2>2, InitializeSound DEF Draft, DraftState
    <3>. QED BY <2>0, <3>1, SameVotesKept
  <2>3. ASSUME NEW thread \in Threads, Stores(thread)
        PROVE  VotesKept(st, st')
    <3>1. CASE main = "lawyer"
      <4>1. main' = "lawyer"
        BY <2>3, <3>1 DEF Stores
      <4>. QED BY <2>0, <3>1, <4>1, SameVotesKept DEF NoVotesYet
    <3>2. CASE main = "council"
      BY <2>3, <3>2, StepSound DEF Stores
    <3>. QED BY <2>3, <3>1, <3>2, ThreadNames DEF Stores
  <2>. QED BY <1>2, <2>1, <2>2, <2>3, CaseChanges
<1>3. Inv /\ [Next]_vars => [A]_vars
  BY <1>1, <1>2
<1>. QED BY <1>3, Invariance, PTL DEF Spec, VotesNeverLost

-----------------------------------------------------------------------------
(***************************************************************************)
(* A punctual run is a run of the case.  The instance Case has copies of   *)
(* the engine's operators; each is the operator it copies.                 *)
(***************************************************************************)
LEMMA SameCount == \A S : Case!Cardinality(S) = Cardinality(S)
BY DEF Case!Cardinality, Cardinality

LEMMA SameDraft == \A policy : Case!DraftState(policy) = DraftState(policy)
BY DEF Case!DraftState, DraftState, Case!MeritsPhases, MeritsPhases, Case!Sides, Sides,
       Case!NoFailure, NoFailure, Case!NoOpportunity, NoOpportunity

LEMMA SameInitialize ==
  \A s, ids : /\ Case!InitializeCaseOK(s, ids) <=> InitializeCaseOK(s, ids)
              /\ Case!AfterInitializeCase(s, ids) = AfterInitializeCase(s, ids)
<1>1. ASSUME NEW s, NEW ids
      PROVE  Case!InitializeCaseOK(s, ids) <=> InitializeCaseOK(s, ids)
  BY DEF Case!InitializeCaseOK, InitializeCaseOK, Case!ValidPolicy, ValidPolicy,
         Case!MeritsPhases, MeritsPhases, Case!HasDuplicates, HasDuplicates
<1>2. ASSUME NEW s, NEW ids
      PROVE  Case!AfterInitializeCase(s, ids) = AfterInitializeCase(s, ids)
  BY SameDraft, Zenon DEF Case!AfterInitializeCase, AfterInitializeCase, Case!StateWithCase, StateWithCase
<1>. QED BY <1>1, <1>2

LEMMA SameExpectedRole ==
  \A s, phase : Case!ExpectedRole(s, phase) = ExpectedRole(s, phase)
BY DEF Case!ExpectedRole, ExpectedRole

LEMMA SameAddFiling ==
  \A s, phase, role : Case!AddFiling(s, phase, role) = AddFiling(s, phase, role)
BY DEF Case!AddFiling, AddFiling, Case!AdvanceAfterMerits, AdvanceAfterMerits,
       Case!FilingsDue, FilingsDue, Case!PhaseAfter, PhaseAfter

LEMMA SameFilings ==
  ASSUME NEW s, NEW phase, NEW role
  PROVE  /\ Case!OpeningStatementOK(s, role, 1) <=> OpeningStatementOK(s, role, 1)
         /\ Case!ClosingStatementOK(s, role, 1, 0, 0) <=> ClosingStatementOK(s, role, 1, 0, 0)
         /\ Case!MeritsSubmissionOK(s, phase, role, 1, 0, 0)
              <=> MeritsSubmissionOK(s, phase, role, 1, 0, 0)
         /\ Case!AfterOpeningStatement(s, role) = AfterOpeningStatement(s, role)
         /\ Case!AfterClosingStatement(s, role) = AfterClosingStatement(s, role)
         /\ Case!AfterMeritsSubmission(s, phase, role, 0, 0)
              = AfterMeritsSubmission(s, phase, role, 0, 0)
<1>1. \A p : Case!TextWithinLimit(s, p, 1) <=> TextWithinLimit(s, p, 1)
  BY DEF Case!TextWithinLimit, TextWithinLimit
<1>2. Case!Open(s) <=> Open(s)
  BY DEF Case!Open, Open
<1>3. /\ Case!OpeningStatementOK(s, role, 1) <=> OpeningStatementOK(s, role, 1)
      /\ Case!ClosingStatementOK(s, role, 1, 0, 0) <=> ClosingStatementOK(s, role, 1, 0, 0)
      /\ Case!MeritsSubmissionOK(s, phase, role, 1, 0, 0)
              <=> MeritsSubmissionOK(s, phase, role, 1, 0, 0)
  BY <1>1, <1>2, SameExpectedRole, Zenon
     DEF Case!OpeningStatementOK, OpeningStatementOK, Case!ClosingStatementOK, ClosingStatementOK,
         Case!MeritsSubmissionOK, MeritsSubmissionOK
<1>4. /\ Case!AfterOpeningStatement(s, role) = AfterOpeningStatement(s, role)
      /\ Case!AfterClosingStatement(s, role) = AfterClosingStatement(s, role)
  BY SameAddFiling, Zenon DEF Case!AfterOpeningStatement, AfterOpeningStatement, 
         Case!AfterClosingStatement, AfterClosingStatement, Case!StateWithCase, StateWithCase
<1>5. Case!AfterMeritsSubmission(s, phase, role, 0, 0)
              = AfterMeritsSubmission(s, phase, role, 0, 0)
  BY SameAddFiling, Zenon DEF Case!AfterMeritsSubmission, AfterMeritsSubmission,
      Case!StateWithCase, StateWithCase
<1>. QED BY <1>3, <1>4, <1>5

LEMMA SameEvidence ==
  ASSUME NEW s, NEW role, NEW id
  PROVE  /\ Case!SubmitEvidenceOK(s, role, id, 1) <=> SubmitEvidenceOK(s, role, id, 1)
         /\ Case!AfterSubmitEvidence(s, role, id) = AfterSubmitEvidence(s, role, id)
         /\ Case!PassPhaseOK(s, role) <=> PassPhaseOK(s, role)
         /\ Case!AfterPassPhase(s) = AfterPassPhase(s)
<1>1. Case!EvidenceCountFor(s, role) = EvidenceCountFor(s, role)
  BY SameCount DEF Case!EvidenceCountFor, EvidenceCountFor
<1>2. /\ Case!Open(s) <=> Open(s)
      /\ Case!EvidencePhases = EvidencePhases
  BY DEF Case!Open, Open, Case!EvidencePhases, EvidencePhases
<1>3. Case!SubmitEvidenceOK(s, role, id, 1) <=> SubmitEvidenceOK(s, role, id, 1)
  BY <1>1, <1>2, SameExpectedRole, Zenon DEF Case!SubmitEvidenceOK, SubmitEvidenceOK
<1>4. Case!AfterSubmitEvidence(s, role, id) = AfterSubmitEvidence(s, role, id)
  BY DEF Case!AfterSubmitEvidence, AfterSubmitEvidence, Case!StateWithCase, StateWithCase
<1>5. Case!PassPhaseOK(s, role) <=> PassPhaseOK(s, role)
  BY <1>2, SameExpectedRole, Zenon DEF Case!PassPhaseOK, PassPhaseOK
<1>6. Case!AfterPassPhase(s) = AfterPassPhase(s)
  BY DEF Case!AfterPassPhase, AfterPassPhase, Case!StateWithCase, StateWithCase,
         Case!PhaseAfter, PhaseAfter
<1>. QED BY <1>3, <1>4, <1>5, <1>6

LEMMA SameContinue ==
  \A s : StateWithCase(ContinueDeliberation(s))
           = Case!StateWithCase(Case!ContinueDeliberation(s))
<1>1. \A s : /\ Case!CurrentRoundVotes(s) = CurrentRoundVotes(s)
             /\ Case!SeatedMembers(s) = SeatedMembers(s)
             /\ \A r : Case!Resolved(s, r) = Resolved(s, r)
             /\ Case!StateWithCase(s) = StateWithCase(s)
  BY DEF Case!CurrentRoundVotes, CurrentRoundVotes, Case!SeatedMembers, SeatedMembers,
         Case!Resolved, Resolved, Case!StateWithCase, StateWithCase
<1>2. \A s, b : Case!VoteCountFor(s, b) = VoteCountFor(s, b)
  BY <1>1, SameCount DEF Case!VoteCountFor, VoteCountFor
<1>3. ASSUME NEW s
      PROVE  Case!ContinueDeliberation(s) = ContinueDeliberation(s)
  BY <1>1, <1>2, SameCount, Zenon DEF Case!ContinueDeliberation, ContinueDeliberation
<1>. QED BY <1>1, <1>3

LEMMA SameSeats ==
  ASSUME NEW s, NEW m
  PROVE  /\ Case!KnownMember(s, m) <=> KnownMember(s, m)
         /\ Case!SeatedMember(s, m) <=> SeatedMember(s, m)
         /\ Case!VotedThisRound(s, m) <=> VotedThisRound(s, m)
         /\ Case!MemberCanLeave(s, m) <=> MemberCanLeave(s, m)
<1>1. /\ Case!KnownMember(s, m) <=> KnownMember(s, m)
      /\ Case!SeatedMember(s, m) <=> SeatedMember(s, m)
      /\ Case!VotedThisRound(s, m) <=> VotedThisRound(s, m)
  BY DEF Case!KnownMember, KnownMember, Case!SeatedMember, SeatedMember, Case!SeatedMembers,
         SeatedMembers, Case!VotedThisRound, VotedThisRound, Case!CurrentRoundVotes,
         CurrentRoundVotes
<1>. QED BY <1>1 DEF Case!MemberCanLeave, MemberCanLeave

LEMMA SameVote ==
  ASSUME NEW s, NEW m, NEW ballot
  PROVE  /\ Case!CouncilVoteOK(s, "council", m, ballot) <=> CouncilVoteOK(s, "council", m, ballot)
         /\ Case!AfterCouncilVote(s, m, ballot) = AfterCouncilVote(s, m, ballot)
<1>1. Case!Open(s) <=> Open(s)
  BY DEF Case!Open, Open
<1>2. Case!CouncilVoteOK(s, "council", m, ballot) <=> CouncilVoteOK(s, "council", m, ballot)
  BY <1>1, SameSeats DEF Case!CouncilVoteOK, CouncilVoteOK, Case!Ballots, Ballots
<1>3. Case!AfterCouncilVote(s, m, ballot) = AfterCouncilVote(s, m, ballot)
  BY SameContinue, Zenon DEF Case!AfterCouncilVote, AfterCouncilVote
<1>. QED BY <1>2, <1>3

LEMMA SameNext == \A s : Case!NextOpportunity(s) = NextOpportunity(s)
<1>1. ASSUME NEW s
      PROVE  Case!AwaitedMembers(s) = AwaitedMembers(s)
  BY SameSeats DEF Case!AwaitedMembers, AwaitedMembers, Case!SeatedMembers, SeatedMembers
<1>2. \A s : Case!NextCouncilMember(s) = NextCouncilMember(s)
  BY <1>1 DEF Case!NextCouncilMember, NextCouncilMember
<1>3. ASSUME NEW s
      PROVE  Case!NextOpportunityForPhase(s) = NextOpportunityForPhase(s)
  BY <1>1, <1>2, SameExpectedRole
     DEF Case!NextOpportunityForPhase, NextOpportunityForPhase, Case!MeritsPhases, MeritsPhases,
         Case!FilingsDue, FilingsDue, Case!NoOpportunity, NoOpportunity
<1>. QED BY <1>3 DEF Case!NextOpportunity, NextOpportunity, Case!NoOpportunity, NoOpportunity

LEMMA SameFailure ==
  ASSUME NEW s, NEW o, NEW m, NEW reason
  PROVE  /\ Case!FailOpportunityOK(s, "system", o, m) <=> FailOpportunityOK(s, "system", o, m)
         /\ Case!AfterFailOpportunity(s, o, m, reason) = AfterFailOpportunity(s, o, m, reason)
<1>1. Case!Open(s) <=> Open(s)
  BY DEF Case!Open, Open
<1>2. Case!FailOpportunityOK(s, "system", o, m) <=> FailOpportunityOK(s, "system", o, m)
  BY <1>1, SameNext, SameSeats DEF Case!FailOpportunityOK, FailOpportunityOK, Case!NoOpportunity,
     NoOpportunity
<1>3. Case!Unseat(s, m, "failed") = Unseat(s, m, "failed")
  BY DEF Case!Unseat, Unseat
<1>4. \A t : Case!StateWithCase(t) = StateWithCase(t)
  BY DEF Case!StateWithCase, StateWithCase
<1>5. Case!AfterFailOpportunity(s, o, m, reason) = AfterFailOpportunity(s, o, m, reason)
  BY <1>3, <1>4, SameContinue, Zenon DEF Case!AfterFailOpportunity, AfterFailOpportunity
<1>. QED BY <1>2, <1>5

\* What the runtime stores in a punctual run is a step of the case.
LEMMA StepOfCase ==
  ASSUME Sound(st), NEW thread \in Threads, NEW a \in Actions, WellMade(thread, a),
         StepOK(st, a), st' = AfterStep(st, a), Punctual, Punctual'
  PROVE  Case!Next
<1> DEFINE o == a.opp
<1>0. /\ a.kind \in {"file", "pass", "evidence", "vote", "fail"}
      /\ st \in State
  BY DEF WellMade, Threads, APIs, Sound
<1>1. /\ Case!Sides = Sides /\ Case!Ballots = Ballots /\ Case!FailureReasons = FailureReasons
      /\ Case!MeritsPhases = MeritsPhases
  BY DEF Case!Sides, Sides, Case!Ballots, Ballots, Case!FailureReasons, FailureReasons,
         Case!MeritsPhases, MeritsPhases
<1>2. CASE a.kind = "file"
  <2>0. o.phase \in MeritsPhases
    BY <1>2 DEF WellMade
  <2>1. CASE o.phase = "openings"
    <3>1. OpeningStatementOK(st, o.role, 1) /\ st' = AfterOpeningStatement(st, o.role)
      BY <1>2, <2>1 DEF StepOK, AfterStep, EvidencePhases
    <3>2. o.role \in Sides
      BY <3>1, ExpectedRoleType DEF OpeningStatementOK
    <3>3. Case!RecordOpeningStatement(o.role, 1)
      BY <3>1, SameFilings DEF Case!RecordOpeningStatement
    <3>. QED BY <1>1, <3>2, <3>3 DEF Case!Next
  <2>2. CASE o.phase = "closings"
    <3>1. ClosingStatementOK(st, o.role, 1, 0, 0) /\ st' = AfterClosingStatement(st, o.role)
      BY <1>2, <2>2 DEF StepOK, AfterStep, EvidencePhases
    <3>2. o.role \in Sides
      BY <3>1, ExpectedRoleType DEF ClosingStatementOK
    <3>3. Case!DeliverClosingStatement(o.role, 1, 0, 0)
      BY <3>1, SameFilings DEF Case!DeliverClosingStatement
    <3>. QED BY <1>1, <3>2, <3>3 DEF Case!Next
  <2>3. CASE o.phase \in EvidencePhases
    <3>0. o.phase \in {"arguments", "rebuttals", "surrebuttals"}
      BY <2>3 DEF EvidencePhases
    <3>1. /\ MeritsSubmissionOK(st, o.phase, o.role, 1, 0, 0)
          /\ st' = AfterMeritsSubmission(st, o.phase, o.role, 0, 0)
      BY <1>2, <2>3, <3>0 DEF StepOK, AfterStep
    <3>2. o.role \in Sides
      BY <3>1, ExpectedRoleType DEF MeritsSubmissionOK
    <3>3. Case!MeritsSubmission(o.phase, o.role, 1, 0, 0)
      BY <3>1, SameFilings DEF Case!MeritsSubmission
    <3>4. \/ Case!SubmitArgument(o.role, 1, 0, 0)
          \/ Case!SubmitRebuttal(o.role, 1, 0, 0)
          \/ Case!SubmitSurrebuttal(o.role, 1, 0, 0)
      BY <3>0, <3>3 DEF Case!SubmitArgument, Case!SubmitRebuttal, Case!SubmitSurrebuttal
    <3>. QED BY <1>1, <3>2, <3>4 DEF Case!Next
  <2>. QED BY <2>0, <2>1, <2>2, <2>3 DEF MeritsPhases, EvidencePhases
<1>3. CASE a.kind = "pass"
  <2>1. PassPhaseOK(st, o.role) /\ st' = AfterPassPhase(st)
    BY <1>3 DEF StepOK, AfterStep
  <2>2. o.role \in Sides
    BY <2>1, ExpectedRoleType DEF PassPhaseOK
  <2>3. Case!PassPhaseOpportunity(o.role)
    BY <2>1, SameEvidence DEF Case!PassPhaseOpportunity
  <2>. QED BY <1>1, <2>2, <2>3 DEF Case!Next
<1>4. CASE a.kind = "evidence"
  <2>1. /\ SubmitEvidenceOK(st, o.role, a.value, 1)
        /\ st' = AfterSubmitEvidence(st, o.role, a.value)
        /\ a.value \in EvidenceIds
    BY <1>4 DEF StepOK, AfterStep, WellMade
  <2>2. o.role \in Sides
    BY <2>1, ExpectedRoleType DEF SubmitEvidenceOK
  <2>3. Case!SubmitEvidence(o.role, a.value, 1)
    BY <2>1, SameEvidence DEF Case!SubmitEvidence
  <2>. QED BY <1>1, <2>1, <2>2, <2>3 DEF Case!Next
<1>5. CASE a.kind = "vote"
  <2>1. /\ CouncilVoteOK(st, "council", o.member, a.value)
        /\ st' = AfterCouncilVote(st, o.member, a.value)
        /\ a.value \in Ballots
    BY <1>5 DEF StepOK, AfterStep, WellMade
  <2>2. o.member \in MemberIds
    <3>1. KnownMember(st, o.member)
      BY <2>1 DEF CouncilVoteOK
    <3>2. PICK i \in DOMAIN st.members : st.members[i].id = o.member
      BY <3>1 DEF KnownMember
    <3>3. st.members[i] \in Seat
      BY <1>0, <3>2 DEF State, Council
    <3>. QED BY <3>2, <3>3 DEF Seat
  <2>3. Case!SubmitCouncilVote("council", o.member, a.value)
    BY <2>1, SameVote DEF Case!SubmitCouncilVote
  <2>. QED BY <1>1, <2>1, <2>2, <2>3 DEF Case!Next
<1>6. CASE a.kind = "fail"
  <2>1. /\ FailOpportunityOK(st, "system", o, a.named.member)
        /\ st' = AfterFailOpportunity(st, o, a.named.member, a.value)
        /\ a.value \in FailureReasons
    BY <1>6 DEF StepOK, AfterStep, WellMade
  <2>2. o = NextOpportunity(st) /\ o # NoOpportunity
    BY <2>1 DEF FailOpportunityOK
  <2>3. o \in Case!NamedOpportunities /\ a.named.member \in MemberIds \cup {NoMember}
    <3>1. st.round \in 1..st.round
      BY <1>0 DEF Sound, State
    <3>2. o = [phase |-> o.phase, role |-> o.role, round |-> o.round, member |-> o.member]
      BY <1>0, <2>2, OpportunityFacts DEF Opportunity
    <3>3. \/ /\ o.phase \in MeritsPhases /\ o.role \in Sides
             /\ o.round = 0 /\ o.member = NoMember
          \/ /\ o.phase = "deliberation" /\ o.role = "council"
             /\ o.round = st.round /\ o.member \in MemberIds
      BY <1>0, <2>2, OpportunityFacts
    <3>4. a.named.member \in MemberIds \cup {NoMember}
      BY DEF Actions, Opportunity
    <3>. QED BY <1>1, <3>1, <3>2, <3>3, <3>4 DEF Case!NamedOpportunities
  <2>4. Case!FailOpportunity("system", o, a.named.member, a.value)
    BY <2>1, SameFailure DEF Case!FailOpportunity
  <2>5. Case!FailSomeOpportunity
    BY <1>1, <2>1, <2>3, <2>4 DEF Case!FailSomeOpportunity
  <2>. QED BY <2>5 DEF Case!Next
<1>. QED BY <1>0, <1>2, <1>3, <1>4, <1>5, <1>6

\* A punctual run, whatever fails in it and whatever its agents send, is a run of
\* the case.
THEOREM ProceedingImplementsCase == Spec => ImplementsCase
<1>1. ASSUME Init
      PROVE  Case!Init
  BY <1>1, SameDraft DEF Init, Case!Init, Draft
<1>2. ASSUME Inv, Next
      PROVE  [Case!Next]_Case!vars
  <2>1. machine' = machine /\ Sound(st)
    BY <1>2, InvParts, MachineFixed DEF Core, TypeOK
  <2>2. Punctual' <=> Punctual
    BY <2>1 DEF Punctual, LateAnswers
  <2>3. CASE UNCHANGED st \/ ~ Punctual
    BY <2>2, <2>3 DEF Case!vars
  <2>4. CASE Punctual /\ st = Draft /\ st' = AfterInitializeCase(Draft, Roster)
    <3>1. InitializeCaseOK(Draft, Roster) /\ Draft.status = "draft"
      BY ProceedingAssumption DEF Draft, DraftState
    <3>2. Case!InitializeCase(Roster)
      BY <2>2, <2>4, <3>1, SameInitialize DEF Case!InitializeCase
    <3>. QED BY <3>2 DEF Case!Next
  <2>5. ASSUME Punctual, NEW thread \in Threads, Stores(thread)
        PROVE  Case!Next
    BY <2>1, <2>2, <2>5, StepOfCase DEF Stores
  <2>. QED BY <1>2, <2>3, <2>4, <2>5, CaseChanges
<1>3. ASSUME Inv, UNCHANGED vars
      PROVE  [Case!Next]_Case!vars
  BY <1>3 DEF vars, Case!vars, Punctual, LateAnswers
<1>4. Inv /\ [Next]_vars => [Case!Next]_Case!vars
  BY <1>2, <1>3
<1>. QED BY <1>1, <1>4, Invariance, PTL DEF Spec, ImplementsCase, Case!Spec
==============================================================================
