---------------------------- MODULE ArbCaseProofs ----------------------------
(***************************************************************************)
(* Proofs about ArbCase for every council, policy and request: the type    *)
(* invariant, the inductive invariant Inv with the safety properties it    *)
(* contains, that a live case always has an opportunity the engine         *)
(* accepts, that only a side's open opportunity fails a case, what no      *)
(* request undoes, and that the engine implements the council ballot.      *)
(***************************************************************************)
EXTENDS ArbCase, FiniteSetTheorems, SequenceTheorems, WellFoundedInduction, TLAPS

(***************************************************************************)
(* Sequences built as functions.                                           *)
(***************************************************************************)
LEMMA FunctionIsSeq ==
  ASSUME NEW S, NEW n \in Nat, NEW f \in [1..n -> S]
  PROVE  f \in Seq(S) /\ Len(f) = n /\ DOMAIN f = 1..n
OBVIOUS

(***************************************************************************)
(* The engine's helpers map states to states.                              *)
(***************************************************************************)
LEMMA StateWithCaseType ==
  ASSUME NEW s \in State
  PROVE  StateWithCase(s) \in State
BY DEF StateWithCase, State

\* A draft, what a case is before initialize_case, is a case state.
LEMMA DraftStateType ==
  ASSUME NEW p \in Policy
  PROVE  DraftState(p) \in State
<1>1. /\ "draft" \in Statuses
      /\ "draft" \in Phases
      /\ "" \in Resolutions
  BY DEF Statuses, Phases, Resolutions
<1>2. NoFailure \in Failures
  BY DEF NoFailure, NoOpportunity, Failures, Opportunity, Phases
<1>3. <<>> \in Council /\ <<>> \in EvidenceList /\ <<>> \in VoteList
  BY DEF Council, EvidenceList, VoteList
<1>4. [p1 \in MeritsPhases |-> <<>>] \in Filings
  BY DEF Filings
<1>5. [r \in Sides |-> 0] \in Materials
  BY DEF Materials
<1>. QED BY <1>1, <1>2, <1>3, <1>4, <1>5 DEF DraftState, State

\* addFiling, with the phase change advanceAfterMerits may make, yields a case
\* state.
LEMMA AddFilingType ==
  ASSUME NEW s \in State, NEW phase \in MeritsPhases, NEW role \in Sides, s.phase = phase
  PROVE  AddFiling(s, phase, role) \in State
<1> DEFINE t == [s EXCEPT !.filings[phase] = Append(@, role)]
<1>1. [s.filings EXCEPT ![phase] = Append(@, role)] \in Filings
  BY DEF State, Filings
<1>2. t \in State
  BY <1>1 DEF State
<1>3. t.phase = phase
  BY DEF State
<1>4. PhaseAfter(t.phase) \in Phases
  BY <1>3 DEF MeritsPhases, PhaseAfter, Phases
<1>. QED BY <1>2, <1>4 DEF AddFiling, AdvanceAfterMerits, State

\* Closing a case with a resolution yields a case state.
LEMMA ResolvedType ==
  ASSUME NEW s \in State, NEW r \in Resolutions
  PROVE  Resolved(s, r) \in State
<1>1. "closed" \in Statuses /\ "closed" \in Phases
  BY DEF Statuses, Phases
<1>. QED BY <1>1 DEF Resolved, State

\* Opening the next round yields a case state.
LEMMA NextRoundType ==
  ASSUME NEW s \in State
  PROVE  [s EXCEPT !.round = @ + 1] \in State
BY DEF State

\* continueDeliberation waits, closes or opens a round: a case state each time.
LEMMA ContinueDeliberationType ==
  ASSUME NEW s \in State
  PROVE  ContinueDeliberation(s) \in State
<1>1. /\ "demonstrated" \in Resolutions
      /\ "not_demonstrated" \in Resolutions
      /\ "no_majority" \in Resolutions
  BY DEF Resolutions, Ballots
<1>. QED BY <1>1, ResolvedType, NextRoundType, Zenon DEF ContinueDeliberation

\* Changing the status of a seat (removal or failure) yields a case state.
LEMMA UnseatType ==
  ASSUME NEW s \in State, NEW m, NEW status \in MemberStatuses
  PROVE  Unseat(s, m, status) \in State
<1> DEFINE left(i) == IF s.members[i].id = m
                        THEN [s.members[i] EXCEPT !.status = status]
                        ELSE s.members[i]
<1>1. /\ Len(s.members) \in Nat
      /\ DOMAIN s.members = 1..Len(s.members)
      /\ \A i \in DOMAIN s.members : s.members[i] \in Seat
  BY DEF State, Council
<1>2. \A i \in DOMAIN s.members : left(i) \in Seat
  BY <1>1 DEF Seat
<1>3. [i \in DOMAIN s.members |-> left(i)] \in Council
  <2> HIDE DEF left
  <2>. QED BY <1>1, <1>2, FunctionIsSeq DEF Council
<1>. QED BY <1>3 DEF Unseat, State

(***************************************************************************)
(* An open opportunity of a side is a phase, its expected role, and no     *)
(* member; only such an opportunity is ever recorded as a failure.         *)
(***************************************************************************)
LEMMA SideOpportunityType ==
  ASSUME NEW s \in State, NextOpportunity(s) # NoOpportunity,
         NextOpportunity(s).role # "council"
  PROVE  /\ NextOpportunity(s) \in Opportunity
         /\ NextOpportunity(s).role \in Sides
         /\ s.phase \in MeritsPhases
<1>1. /\ s.phase \in MeritsPhases
      /\ NextOpportunity(s) = [phase |-> s.phase, role |-> ExpectedRole(s, s.phase),
                               round |-> 0, member |-> NoMember]
  BY DEF NextOpportunity, NextOpportunityForPhase
<1>2. ExpectedRole(s, s.phase) \in Sides
  BY DEF ExpectedRole, Sides
<1>. QED BY <1>1, <1>2 DEF Opportunity, Phases

(***************************************************************************)
(* Type correctness: whatever is requested, the engine answers with a      *)
(* well-formed case state.                                                 *)
(***************************************************************************)
LEMMA StepType ==
  ASSUME TypeOK, Next
  PROVE  TypeOK'
<1> USE DEF TypeOK
<1>1. ASSUME NEW ids \in Rosters, InitializeCase(ids)
      PROVE  st' \in State
  <2> DEFINE seats == [i \in 1..Len(ids) |-> [id |-> ids[i], status |-> "seated"]]
             d == DraftState(st.policy)
  <2>1. ids \in Seq(MemberIds)
    BY RequestAssumption
  <2>2. seats \in Council
    BY <2>1, FunctionIsSeq DEF Council, Seat, MemberStatuses
  <2>3. d \in State
    BY DraftStateType DEF State
  <2>4. "active" \in Statuses /\ "openings" \in Phases
    BY DEF Statuses, Phases, MeritsPhases
  <2>5. [d EXCEPT !.status = "active", !.phase = "openings",
                  !.version = st.version, !.members = seats] \in State
    <3> HIDE DEF seats, d
    <3>. QED BY <2>2, <2>3, <2>4 DEF State
  <2>. QED BY <1>1, <2>5, StateWithCaseType DEF InitializeCase, AfterInitializeCase
<1>2. ASSUME NEW role \in Sides, NEW chars \in Chars, RecordOpeningStatement(role, chars)
      PROVE  st' \in State
  BY <1>2, AddFilingType, StateWithCaseType
     DEF RecordOpeningStatement, OpeningStatementOK, AfterOpeningStatement, MeritsPhases
<1>3. ASSUME NEW role \in Sides, NEW chars \in Chars, NEW e \in Amounts, NEW r \in Amounts,
             NEW phase \in EvidencePhases, MeritsSubmission(phase, role, chars, e, r)
      PROVE  st' \in State
  <2> DEFINE t == AddFiling(st, phase, role)
  <2>1. t \in State
    BY <1>3, AddFilingType
       DEF MeritsSubmission, MeritsSubmissionOK, MeritsPhases, EvidencePhases
  <2>2. e \in Nat /\ r \in Nat
    BY RequestAssumption
  <2>3. /\ [t.offered EXCEPT ![role] = @ + e] \in Materials
        /\ [t.reports EXCEPT ![role] = @ + r] \in Materials
    BY <2>1, <2>2 DEF State, Materials
  <2>4. [t EXCEPT !.offered[role] = @ + e, !.reports[role] = @ + r] \in State
    <3> HIDE DEF t
    <3>. QED BY <2>1, <2>3 DEF State
  <2>. QED BY <1>3, <2>4, StateWithCaseType DEF MeritsSubmission, AfterMeritsSubmission
<1>4. ASSUME NEW role \in Sides, NEW chars \in Chars, NEW e \in Amounts, NEW r \in Amounts,
             DeliverClosingStatement(role, chars, e, r)
      PROVE  st' \in State
  BY <1>4, AddFilingType, StateWithCaseType
     DEF DeliverClosingStatement, ClosingStatementOK, AfterClosingStatement, MeritsPhases
<1>5. ASSUME NEW role \in Sides, NEW id \in EvidenceIds, NEW bytes \in Sizes,
             SubmitEvidence(role, id, bytes)
      PROVE  st' \in State
  <2>1. [id |-> id, role |-> role, phase |-> st.phase] \in Evidence
    BY <1>5 DEF SubmitEvidence, SubmitEvidenceOK, Evidence
  <2>2. Append(st.evidence, [id |-> id, role |-> role, phase |-> st.phase]) \in EvidenceList
    BY <2>1 DEF State, EvidenceList
  <2>3. [st EXCEPT !.evidence = Append(@, [id |-> id, role |-> role, phase |-> st.phase])]
           \in State
    BY <2>2 DEF State
  <2>. QED BY <1>5, <2>3, StateWithCaseType DEF SubmitEvidence, AfterSubmitEvidence
<1>6. ASSUME NEW role \in Sides, PassPhaseOpportunity(role)
      PROVE  st' \in State
  <2>1. PhaseAfter(st.phase) \in Phases
    BY <1>6 DEF PassPhaseOpportunity, PassPhaseOK, PhaseAfter, Phases, MeritsPhases
  <2>2. [st EXCEPT !.phase = PhaseAfter(@)] \in State
    BY <2>1 DEF State
  <2>. QED BY <1>6, <2>2, StateWithCaseType DEF PassPhaseOpportunity, AfterPassPhase
<1>7. ASSUME NEW m \in MemberIds, NEW ballot \in Ballots,
             SubmitCouncilVote("council", m, ballot)
      PROVE  st' \in State
  <2> DEFINE v == [member |-> m, round |-> st.round, vote |-> ballot]
  <2>1. Append(st.votes, v) \in VoteList
    BY DEF State, VoteList, Vote
  <2>2. [st EXCEPT !.votes = Append(@, v)] \in State
    BY <2>1 DEF State
  <2>. QED BY <1>7, <2>2, ContinueDeliberationType, StateWithCaseType
           DEF SubmitCouncilVote, AfterCouncilVote
<1>8. ASSUME NEW m \in MemberIds, NEW status \in MemberStatuses,
             RemoveCouncilMember("system", m, status)
      PROVE  st' \in State
  BY <1>8, UnseatType, ContinueDeliberationType, StateWithCaseType
     DEF RemoveCouncilMember, AfterRemoveCouncilMember
<1>9. ASSUME NEW opportunity, NEW m, NEW reason \in FailureReasons,
             FailOpportunity("system", opportunity, m, reason)
      PROVE  st' \in State
  <2>0. opportunity = NextOpportunity(st) /\ opportunity # NoOpportunity
    BY <1>9 DEF FailOpportunity, FailOpportunityOK
  <2>1. CASE NextOpportunity(st).role = "council"
    <3>1. "failed" \in MemberStatuses
      BY DEF MemberStatuses
    <3>. QED BY <1>9, <2>0, <2>1, <3>1, UnseatType, ContinueDeliberationType, StateWithCaseType
             DEF FailOpportunity, AfterFailOpportunity
  <2>2. CASE NextOpportunity(st).role # "council"
    <3> DEFINE f == [opportunity |-> NextOpportunity(st), reason |-> reason]
    <3>1. f \in Failures
      BY <2>0, <2>2, SideOpportunityType DEF Failures
    <3>2. "failed" \in Statuses
      BY DEF Statuses
    <3>3. [st EXCEPT !.status = "failed", !.failure = f] \in State
      <4> HIDE DEF f
      <4>. QED BY <3>1, <3>2 DEF State
    <3>. QED BY <1>9, <2>0, <2>2, <3>3, StateWithCaseType
             DEF FailOpportunity, AfterFailOpportunity
  <2>. QED BY <2>1, <2>2
<1>. QED
  BY <1>1, <1>2, <1>3, <1>4, <1>5, <1>6, <1>7, <1>8, <1>9
     DEF Next, SubmitArgument, SubmitRebuttal, SubmitSurrebuttal, EvidencePhases,
         FailSomeOpportunity

\* Type correctness for every policy, roster and request: each case the engine
\* ever returns is a well-formed case state.
THEOREM TypeCorrect == Spec => []TypeOK
<1>1. Init => TypeOK
  BY RequestAssumption, DraftStateType DEF Init, TypeOK
<1>2. TypeOK /\ [Next]_vars => TypeOK'
  BY StepType DEF TypeOK, vars
<1>. QED BY <1>1, <1>2, PTL DEF Spec

-----------------------------------------------------------------------------
(***************************************************************************)
(* Counting seats and votes.                                               *)
(***************************************************************************)
LEMMA SeatsAndVotes ==
  ASSUME NEW s \in State
  PROVE  /\ Len(s.members) \in Nat /\ DOMAIN s.members = 1..Len(s.members)
         /\ \A i \in DOMAIN s.members : s.members[i] \in Seat
         /\ Len(s.votes) \in Nat /\ DOMAIN s.votes = 1..Len(s.votes)
         /\ \A i \in DOMAIN s.votes : s.votes[i] \in Vote
BY DEF State, Council, VoteList

\* The seats still taken and the votes of a round are finitely many, so the
\* engine's counts (list lengths) are numbers that can be compared.
LEMMA SeatsAndVotesFinite ==
  ASSUME NEW s \in State
  PROVE  /\ IsFiniteSet(SeatedMembers(s)) /\ IsFiniteSet(CurrentRoundVotes(s))
         /\ Cardinality(SeatedMembers(s)) \in Nat
         /\ Cardinality(CurrentRoundVotes(s)) \in Nat
         /\ Cardinality(SeatedMembers(s)) <= Len(s.members)
<1>0. Len(s.members) \in Nat /\ Len(s.votes) \in Nat
  BY SeatsAndVotes
<1>1. /\ IsFiniteSet(1..Len(s.members)) /\ IsFiniteSet(1..Len(s.votes))
      /\ Cardinality(1..Len(s.members)) = Len(s.members)
  <2>1. \A n \in Nat : IsFiniteSet(1..n) /\ Cardinality(1..n) = n
    <3>1. SUFFICES ASSUME NEW n \in Nat
                   PROVE  IsFiniteSet(1..n) /\ Cardinality(1..n) = n
      OBVIOUS
    <3>2. IsFiniteSet(1..n) /\ Cardinality(1..n) = IF 1 > n THEN 0 ELSE n - 1 + 1
      BY FS_Interval
    <3>. QED BY <3>2
  <2>. QED BY <1>0, <2>1
<1>2. /\ SeatedMembers(s) \in SUBSET (1..Len(s.members))
      /\ CurrentRoundVotes(s) \in SUBSET (1..Len(s.votes))
  BY SeatsAndVotes DEF SeatedMembers, CurrentRoundVotes
<1>3. /\ IsFiniteSet(SeatedMembers(s)) /\ IsFiniteSet(CurrentRoundVotes(s))
      /\ Cardinality(SeatedMembers(s)) <= Cardinality(1..Len(s.members))
  BY <1>1, <1>2, FS_Subset
<1>. QED BY <1>1, <1>3, FS_CardinalityType

(***************************************************************************)
(* The votes of a round fit on the bench: one ballot each, from seats      *)
(* still taken, so there are no more votes than seats.                     *)
(***************************************************************************)
LEMMA VotesFitBench ==
  ASSUME NEW s \in State, OneBallotEach(s), VotersSeated(s)
  PROVE  Cardinality(CurrentRoundVotes(s)) <= Cardinality(SeatedMembers(s))
<1> DEFINE V == CurrentRoundVotes(s)
           B == SeatedMembers(s)
           seat(i) == CHOOSE k \in B : s.members[k].id = s.votes[i].member
           f == [i \in V |-> seat(i)]
<1>1. \A i \in V : seat(i) \in B /\ s.members[seat(i)].id = s.votes[i].member
  BY DEF VotersSeated, SeatedMember
<1>2. f \in [V -> B]
  BY <1>1
<1>3. \A i, j \in V : f[i] = f[j] => i = j
  <2>1. SUFFICES ASSUME NEW i \in V, NEW j \in V, f[i] = f[j]
                 PROVE  i = j
    OBVIOUS
  <2>2. s.votes[i].member = s.votes[j].member
    BY <1>1, <2>1
  <2>. QED BY <2>2 DEF CurrentRoundVotes, OneBallotEach
<1>4. f \in Injection(V, B)
  BY <1>2, <1>3 DEF Injection, IsInjective
<1>. QED BY <1>4, FS_Injection, SeatsAndVotesFinite

(***************************************************************************)
(* If the votes of the round are fewer than the seats, somebody on the     *)
(* bench has not voted yet.                                                *)
(***************************************************************************)
LEMMA SomebodyAwaited ==
  ASSUME NEW s \in State, DistinctSeats(s),
         Cardinality(CurrentRoundVotes(s)) < Cardinality(SeatedMembers(s))
  PROVE  AwaitedMembers(s) # {}
<1> DEFINE V == CurrentRoundVotes(s)
           B == SeatedMembers(s)
           ballot(k) == CHOOSE i \in V : s.votes[i].member = s.members[k].id
           f == [k \in B |-> ballot(k)]
<1>1. SUFFICES ASSUME AwaitedMembers(s) = {}
               PROVE  FALSE
  OBVIOUS
<1>2. \A k \in B : ballot(k) \in V /\ s.votes[ballot(k)].member = s.members[k].id
  BY <1>1 DEF AwaitedMembers, VotedThisRound
<1>3. f \in [B -> V]
  BY <1>2
<1>4. \A k, l \in B : f[k] = f[l] => k = l
  <2>1. SUFFICES ASSUME NEW k \in B, NEW l \in B, f[k] = f[l]
                 PROVE  k = l
    OBVIOUS
  <2>2. s.members[k].id = s.members[l].id
    BY <1>2, <2>1
  <2>. QED BY <2>2 DEF SeatedMembers, DistinctSeats
<1>5. f \in Injection(B, V)
  BY <1>3, <1>4 DEF Injection, IsInjective
<1>6. Cardinality(B) <= Cardinality(V)
  BY <1>5, FS_Injection, SeatsAndVotesFinite
<1>. QED BY <1>6, SeatsAndVotesFinite

(***************************************************************************)
(* A strict majority of the council cannot exist on both sides.            *)
(***************************************************************************)
LEMMA BallotCounts ==
  ASSUME NEW s \in State
  PROVE  /\ VoteCountFor(s, "demonstrated") \in Nat
         /\ VoteCountFor(s, "not_demonstrated") \in Nat
         /\ VoteCountFor(s, "demonstrated") + VoteCountFor(s, "not_demonstrated")
              <= Cardinality(CurrentRoundVotes(s))
<1> DEFINE V == CurrentRoundVotes(s)
           For(b) == {i \in V : s.votes[i].vote = b}
           D == For("demonstrated")
           N == For("not_demonstrated")
<1>1. IsFiniteSet(V)
  BY SeatsAndVotesFinite
<1>2. D \in SUBSET V /\ N \in SUBSET V /\ (D \cup N) \in SUBSET V
  OBVIOUS
<1>3. IsFiniteSet(D) /\ IsFiniteSet(N)
  BY <1>1, <1>2, FS_Subset
<1>4. Cardinality(D \cup N) <= Cardinality(V)
  BY <1>1, <1>2, FS_Subset
<1>5. D \cap N = {} /\ Cardinality({}) = 0
  BY FS_EmptySet
<1>6. Cardinality(D \cup N) = Cardinality(D) + Cardinality(N) - Cardinality(D \cap N)
  BY <1>3, FS_Union
<1>7. Cardinality(D) \in Nat /\ Cardinality(N) \in Nat /\ Cardinality(V) \in Nat
  BY <1>1, <1>3, FS_CardinalityType
<1>8. /\ VoteCountFor(s, "demonstrated") = Cardinality(D)
      /\ VoteCountFor(s, "not_demonstrated") = Cardinality(N)
  BY DEF VoteCountFor
<1> HIDE DEF V, D, N
<1>9. Cardinality(D \cup N) = Cardinality(D) + Cardinality(N)
  BY <1>5, <1>6, <1>7
<1>10. Cardinality(D) + Cardinality(N) <= Cardinality(V)
  BY <1>4, <1>9
<1>. QED BY <1>7, <1>8, <1>10 DEF V

(***************************************************************************)
(* The council part of a state only depends on its seats, votes and round. *)
(***************************************************************************)
Bench(s) ==
  OneBallotEach(s) /\ VotersSeated(s) /\ RoundsBegun(s) /\ DistinctSeats(s)

\* What the engine counts depends on seats, votes and round only.
LEMMA SameCouncil ==
  ASSUME NEW s, NEW t, t.members = s.members, t.votes = s.votes, t.round = s.round
  PROVE  /\ CurrentRoundVotes(t) = CurrentRoundVotes(s)
         /\ SeatedMembers(t) = SeatedMembers(s)
         /\ \A b : VoteCountFor(t, b) = VoteCountFor(s, b)
         /\ Bench(t) <=> Bench(s)
<1>1. /\ CurrentRoundVotes(t) = CurrentRoundVotes(s)
      /\ SeatedMembers(t) = SeatedMembers(s)
  BY DEF CurrentRoundVotes, SeatedMembers
<1>2. \A b : VoteCountFor(t, b) = VoteCountFor(s, b)
  BY <1>1 DEF VoteCountFor
<1>3. Bench(t) <=> Bench(s)
  BY <1>1 DEF Bench, OneBallotEach, VotersSeated, RoundsBegun, DistinctSeats, SeatedMember
<1>. QED BY <1>1, <1>2, <1>3

(***************************************************************************)
(* The record of a case other than its council and its course.             *)
(***************************************************************************)
SameRecord(s, t) ==
  /\ t.policy = s.policy /\ t.filings = s.filings
  /\ t.offered = s.offered /\ t.reports = s.reports /\ t.evidence = s.evidence
  /\ t.failure = s.failure

\* stateWithCase changes the version of a state and nothing else.
LEMMA VersionOnly ==
  ASSUME NEW s \in State
  PROVE  LET t == StateWithCase(s) IN
         /\ SameRecord(s, t) /\ t.members = s.members /\ t.votes = s.votes
         /\ t.round = s.round /\ t.status = s.status /\ t.phase = s.phase
         /\ t.resolution = s.resolution /\ t.version = s.version + 1
BY DEF StateWithCase, State, SameRecord

(***************************************************************************)
(* continueDeliberation: a consistent bench either waits for a seat, or    *)
(* opens a round in which all seats are awaited, or closes the case with   *)
(* the outcome the votes of the last round support.                        *)
(***************************************************************************)
LEMMA SettleBench ==
  ASSUME NEW t \in State, t.status = "active", t.phase = "deliberation",
         ValidPolicy(t.policy), Len(t.members) = t.policy.council_size,
         Bench(t), t.round \in 1..t.policy.max_rounds
  PROVE  LET u == ContinueDeliberation(t) IN
         /\ SameRecord(t, u) /\ u.members = t.members /\ u.votes = t.votes
         /\ u.version = t.version /\ u.round \in {t.round, t.round + 1}
         /\ Bench(u)
         /\ \/ /\ u.status = "active" /\ u.phase = "deliberation"
               /\ u.resolution = t.resolution
               /\ Cardinality(CurrentRoundVotes(u)) < Cardinality(SeatedMembers(u))
               /\ u.round \in 1..u.policy.max_rounds
            \/ /\ u.status = "closed" /\ u.phase = "closed" /\ u.round = t.round
               /\ OutcomeSound(u)
<1> DEFINE u == ContinueDeliberation(t)
           req == t.policy.required_votes
           yes == VoteCountFor(t, "demonstrated")
           no == VoteCountFor(t, "not_demonstrated")
           votes == Cardinality(CurrentRoundVotes(t))
           seats == Cardinality(SeatedMembers(t))
           size == t.policy.council_size
           rounds == t.policy.max_rounds
<1>1. votes <= seats /\ votes \in Nat /\ seats \in Nat /\ seats <= size
  BY VotesFitBench, SeatsAndVotesFinite DEF Bench
<1>2. /\ req \in Nat /\ size \in Nat /\ rounds \in Nat /\ t.round \in Nat
      /\ req > 0 /\ 2 * req > size
  BY DEF ValidPolicy, State, Policy
<1>3. yes \in Nat /\ no \in Nat /\ yes + no <= votes
  BY BallotCounts
<1>4. ~ (yes >= req /\ no >= req)
  BY <1>1, <1>2, <1>3
<1>5. CASE votes # seats
  <2>1. u = t
    BY <1>5 DEF ContinueDeliberation
  <2>2. votes < seats
    BY <1>1, <1>5
  <2>. QED BY <2>1, <2>2 DEF SameRecord
<1>6. ASSUME NEW r \in Ballots \cup {"no_majority"}, u = Resolved(t, r),
             r = "demonstrated" <=> yes >= req,
             r = "not_demonstrated" <=> no >= req,
             r = "no_majority" => seats < req \/ t.round >= rounds
      PROVE  /\ SameRecord(t, u) /\ u.members = t.members /\ u.votes = t.votes
             /\ u.version = t.version /\ u.round = t.round
             /\ Bench(u)
             /\ u.status = "closed" /\ u.phase = "closed" /\ OutcomeSound(u)
  <2>1. /\ SameRecord(t, u) /\ u.members = t.members /\ u.votes = t.votes
        /\ u.version = t.version /\ u.round = t.round
        /\ u.status = "closed" /\ u.phase = "closed" /\ u.resolution = r
    BY <1>6 DEF Resolved, State, SameRecord
  <2>2. u.policy = t.policy
    BY <2>1 DEF SameRecord
  <2> HIDE DEF u
  <2>3. /\ CurrentRoundVotes(u) = CurrentRoundVotes(t)
        /\ SeatedMembers(u) = SeatedMembers(t)
        /\ \A b : VoteCountFor(u, b) = VoteCountFor(t, b)
        /\ Bench(u)
    BY <2>1, SameCouncil
  <2>4. \A i, j \in CurrentRoundVotes(u) : u.votes[i].member = u.votes[j].member => i = j
    BY <2>3 DEF Bench, OneBallotEach, CurrentRoundVotes
  <2>5. \A b \in Ballots : u.resolution = b <=> VoteCountFor(u, b) >= req
    BY <1>6, <2>1, <2>3 DEF Ballots
  <2>6. r = "no_majority" => seats < req \/ t.round = rounds
    BY <1>2, <1>6
  <2>. QED BY <2>1, <2>2, <2>3, <2>4, <2>5, <2>6 DEF OutcomeSound
<1>7. CASE votes = seats /\ yes >= req
  <2>1. u = Resolved(t, "demonstrated")
    BY <1>7 DEF ContinueDeliberation
  <2>. QED BY <1>4, <1>6, <1>7, <2>1 DEF Ballots
<1>8. CASE votes = seats /\ ~ (yes >= req) /\ no >= req
  <2>1. u = Resolved(t, "not_demonstrated")
    BY <1>8 DEF ContinueDeliberation
  <2>. QED BY <1>6, <1>8, <2>1 DEF Ballots
<1>9. CASE /\ votes = seats /\ ~ (yes >= req) /\ ~ (no >= req)
           /\ (seats < req \/ t.round >= rounds)
  <2>1. u = Resolved(t, "no_majority")
    BY <1>9 DEF ContinueDeliberation
  <2>. QED BY <1>6, <1>9, <2>1
<1>10. CASE /\ votes = seats /\ ~ (yes >= req) /\ ~ (no >= req)
            /\ ~ (seats < req \/ t.round >= rounds)
  <2>1. u = [t EXCEPT !.round = @ + 1]
    BY <1>10 DEF ContinueDeliberation
  <2>2. /\ SameRecord(t, u) /\ u.members = t.members /\ u.votes = t.votes
        /\ u.version = t.version /\ u.round = t.round + 1 /\ u.policy = t.policy
        /\ u.status = "active" /\ u.phase = "deliberation" /\ u.resolution = t.resolution
    BY <2>1 DEF State, SameRecord
  <2> HIDE DEF u
  <2>3. u.round \in 1..rounds
    BY <1>2, <1>10, <2>2
  <2>4. \A i \in DOMAIN t.votes : t.votes[i].round \in 1..t.round
    BY DEF Bench, RoundsBegun
  <2>5. CurrentRoundVotes(u) = {}
    BY <1>2, <2>2, <2>4 DEF CurrentRoundVotes
  <2>6. SeatedMembers(u) = SeatedMembers(t)
    BY <2>2 DEF SeatedMembers
  <2>7. Cardinality(CurrentRoundVotes(u)) < Cardinality(SeatedMembers(u))
    BY <1>1, <1>2, <1>10, <2>5, <2>6, FS_EmptySet
  <2>8. Bench(u)
    <3>1. VotersSeated(u)
      BY <2>5 DEF VotersSeated
    <3>2. OneBallotEach(u) /\ DistinctSeats(u)
      BY <2>2 DEF Bench, OneBallotEach, DistinctSeats
    <3>3. RoundsBegun(u)
      BY <1>2, <2>2, <2>4 DEF RoundsBegun
    <3>. QED BY <3>1, <3>2, <3>3 DEF Bench
  <2>9. u.policy.max_rounds = rounds
    BY <2>2
  <2>10. /\ SameRecord(t, u) /\ u.members = t.members /\ u.votes = t.votes
         /\ u.version = t.version /\ u.round \in {t.round, t.round + 1} /\ Bench(u)
         /\ u.status = "active" /\ u.phase = "deliberation"
         /\ u.resolution = t.resolution
         /\ Cardinality(CurrentRoundVotes(u)) < Cardinality(SeatedMembers(u))
         /\ u.round \in 1..u.policy.max_rounds
    BY <2>2, <2>3, <2>7, <2>8, <2>9
  <2>. QED BY <2>10 DEF u
<1>. QED BY <1>5, <1>7, <1>8, <1>9, <1>10

\* Whether an outcome is sound depends on seats, votes, round, policy and
\* resolution only.
LEMMA SameOutcome ==
  ASSUME NEW s, NEW t, t.members = s.members, t.votes = s.votes, t.round = s.round,
         t.policy = s.policy, t.resolution = s.resolution, OutcomeSound(s)
  PROVE  OutcomeSound(t)
<1>1. /\ CurrentRoundVotes(t) = CurrentRoundVotes(s)
      /\ SeatedMembers(t) = SeatedMembers(s)
      /\ \A b : VoteCountFor(t, b) = VoteCountFor(s, b)
  BY SameCouncil
<1>. QED BY <1>1 DEF OutcomeSound

-----------------------------------------------------------------------------
(***************************************************************************)
(* The inductive invariant.  A deliberation step changes the bench to that *)
(* of t and lets continueDeliberation settle the round.                    *)
(***************************************************************************)
LEMMA DeliberationStep ==
  ASSUME Inv, TypeOK', NEW t \in State, SameRecord(st, t),
         st.phase = "deliberation", st.status = "active",
         t.phase = "deliberation", t.status = "active",
         t.version = st.version, t.round = st.round, t.resolution = st.resolution,
         Len(t.members) = Len(st.members), Bench(t),
         st' = StateWithCase(ContinueDeliberation(t))
  PROVE  Inv'
<1> DEFINE u == ContinueDeliberation(t)
<1>1. /\ t.policy = st.policy /\ ValidPolicy(t.policy)
      /\ Len(t.members) = t.policy.council_size
      /\ t.round \in 1..t.policy.max_rounds
  BY DEF Inv, Frame, CouncilReady, SameRecord
<1>2. /\ SameRecord(t, u) /\ u.members = t.members /\ u.votes = t.votes
      /\ u.version = t.version /\ u.round \in {t.round, t.round + 1}
      /\ Bench(u)
      /\ \/ /\ u.status = "active" /\ u.phase = "deliberation"
            /\ u.resolution = t.resolution
            /\ Cardinality(CurrentRoundVotes(u)) < Cardinality(SeatedMembers(u))
            /\ u.round \in 1..u.policy.max_rounds
         \/ /\ u.status = "closed" /\ u.phase = "closed" /\ u.round = t.round
            /\ OutcomeSound(u)
  BY <1>1, SettleBench
<1>3. u \in State
  BY ContinueDeliberationType
<1> HIDE DEF u
<1>4. /\ SameRecord(u, st') /\ st'.members = u.members /\ st'.votes = u.votes
      /\ st'.round = u.round /\ st'.status = u.status /\ st'.phase = u.phase
      /\ st'.resolution = u.resolution
  BY <1>3, VersionOnly DEF u
<1>5. /\ CurrentRoundVotes(st') = CurrentRoundVotes(u)
      /\ SeatedMembers(st') = SeatedMembers(u)
      /\ Bench(st')
  BY <1>2, <1>4, SameCouncil
<1>6. SameRecord(st, st')
  BY <1>2, <1>4 DEF SameRecord
<1>7. st'.phase \in {"deliberation", "closed"} /\ st'.members = t.members
  BY <1>2, <1>4
<1>8. Frame'
  BY <1>1, <1>2, <1>4, <1>6, <1>7 DEF Inv, Frame, SameRecord
<1>9. MeritsShape'
  BY <1>6, <1>7 DEF Inv, MeritsShape, SameRecord, MeritsPhases, PhaseRank
<1>10. MaterialLimits'
  BY <1>6 DEF Inv, MaterialLimits, SameRecord, EvidenceCountFor
<1>11. CouncilReady'
  BY <1>2, <1>4, <1>5, <1>6 DEF CouncilReady, Bench, SameRecord
<1>12. VoteIntegrity'
  BY <1>5, VotesFitBench DEF VoteIntegrity, Bench, TypeOK
<1>13. DecisionSound'
  <2>1. CASE u.status = "active"
    BY <1>4, <2>1 DEF DecisionSound
  <2>2. CASE OutcomeSound(u)
    BY <1>4, <2>2, SameOutcome DEF DecisionSound, SameRecord
  <2>. QED BY <1>2, <2>1, <2>2
<1>. QED BY <1>8, <1>9, <1>10, <1>11, <1>12, <1>13 DEF Inv

\* A bench that differs from that of st in a ballot or an emptied seat, and is
\* about to be settled.
Reached(t) ==
  /\ t \in State /\ SameRecord(st, t) /\ Bench(t)
  /\ t.phase = "deliberation" /\ t.status = "active"
  /\ t.version = st.version /\ t.round = st.round /\ t.resolution = st.resolution
  /\ Len(t.members) = Len(st.members)
  /\ st' = StateWithCase(ContinueDeliberation(t))

\* submit_council_vote reaches a consistent bench: the vote is one by a seated
\* member that had none in the round.
LEMMA VoteReaches ==
  ASSUME Inv, NEW m \in MemberIds, NEW ballot \in Ballots,
         SubmitCouncilVote("council", m, ballot)
  PROVE  LET v == [member |-> m, round |-> st.round, vote |-> ballot]
             t == [st EXCEPT !.votes = Append(@, v)]
         IN  Reached(t) /\ t.members = st.members /\ t.votes = Append(st.votes, v)
<1> DEFINE v == [member |-> m, round |-> st.round, vote |-> ballot]
           t == [st EXCEPT !.votes = Append(@, v)]
<1>1. /\ st.phase = "deliberation" /\ st.status = "active"
      /\ SeatedMember(st, m) /\ ~ VotedThisRound(st, m)
      /\ st' = StateWithCase(ContinueDeliberation(t))
  BY DEF SubmitCouncilVote, CouncilVoteOK, AfterCouncilVote, Open, Inv, Frame, TypeOK, State,
         Statuses
<1>2. st \in State /\ v \in Vote
  BY DEF Inv, TypeOK, Vote, State
<1>3. Append(st.votes, v) \in VoteList
  BY <1>2 DEF State, VoteList
<1>4. /\ t \in State /\ SameRecord(st, t) /\ t.members = st.members
      /\ t.phase = st.phase /\ t.status = st.status /\ t.version = st.version
      /\ t.round = st.round /\ t.resolution = st.resolution
      /\ t.votes = Append(st.votes, v)
  BY <1>2, <1>3 DEF State, SameRecord
<1>5. /\ Len(st.votes) \in Nat /\ DOMAIN st.votes = 1..Len(st.votes)
      /\ DOMAIN t.votes = 1..(Len(st.votes) + 1)
      /\ t.votes[Len(st.votes) + 1] = v
      /\ \A i \in DOMAIN st.votes : t.votes[i] = st.votes[i]
  BY <1>2, <1>4, SeatsAndVotes DEF State, VoteList
<1> HIDE DEF t
<1>6. /\ v.member = m /\ v.round = st.round
      /\ \A i \in DOMAIN st.votes : st.votes[i].round = st.round => st.votes[i].member # m
  BY <1>1 DEF VotedThisRound, CurrentRoundVotes
<1> HIDE DEF v
<1>7. OneBallotEach(t)
  <2>1. SUFFICES ASSUME NEW i \in DOMAIN t.votes, NEW j \in DOMAIN t.votes,
                        t.votes[i].round = t.votes[j].round,
                        t.votes[i].member = t.votes[j].member
                 PROVE  i = j
    BY DEF OneBallotEach
  <2>2. OneBallotEach(st)
    BY DEF Inv, VoteIntegrity
  <2>3. CASE i \in DOMAIN st.votes /\ j \in DOMAIN st.votes
    BY <1>5, <2>1, <2>2, <2>3 DEF OneBallotEach
  <2>4. CASE i \in DOMAIN st.votes /\ j = Len(st.votes) + 1
    BY <1>5, <1>6, <2>1, <2>4
  <2>5. CASE j \in DOMAIN st.votes /\ i = Len(st.votes) + 1
    BY <1>5, <1>6, <2>1, <2>5
  <2>. QED BY <1>5, <2>3, <2>4, <2>5
<1>8. VotersSeated(t)
  BY <1>1, <1>4, <1>5, <1>6
     DEF Inv, VoteIntegrity, VotersSeated, CurrentRoundVotes, SeatedMember, SeatedMembers
<1>9. st.round \in Nat \ {0}
  BY <1>1 DEF Inv, CouncilReady
<1>10. RoundsBegun(t)
  BY <1>4, <1>5, <1>6, <1>9 DEF Inv, VoteIntegrity, RoundsBegun
<1>11. DistinctSeats(t)
  BY <1>4 DEF Inv, CouncilReady, DistinctSeats
<1>12. Reached(t)
  BY <1>1, <1>4, <1>7, <1>8, <1>10, <1>11 DEF Bench, Reached
<1>. QED BY <1>4, <1>12 DEF t, v

\* Losing a member that has not voted (remove_council_member, or the failure of
\* its opportunity) reaches a consistent bench.
LEMMA UnseatReaches ==
  ASSUME Inv, NEW m, NEW status \in MemberStatuses \ {"seated"},
         st.status = "active", MemberCanLeave(st, m),
         st' = StateWithCase(ContinueDeliberation(Unseat(st, m, status)))
  PROVE  Reached(Unseat(st, m, status))
<1> DEFINE t == Unseat(st, m, status)
<1>1. st \in State /\ st.phase = "deliberation" /\ ~ VotedThisRound(st, m)
  BY DEF Inv, TypeOK, MemberCanLeave
<1>2. t \in State
  BY <1>1, UnseatType
<1>3. /\ SameRecord(st, t) /\ t.votes = st.votes
      /\ t.phase = st.phase /\ t.status = st.status /\ t.version = st.version
      /\ t.round = st.round /\ t.resolution = st.resolution
      /\ t.members = [i \in DOMAIN st.members |->
                        IF st.members[i].id = m
                          THEN [st.members[i] EXCEPT !.status = status]
                          ELSE st.members[i]]
  BY <1>1 DEF Unseat, State, SameRecord
<1> HIDE DEF t
<1>4. /\ DOMAIN t.members = DOMAIN st.members
      /\ \A i \in DOMAIN st.members :
           /\ t.members[i].id = st.members[i].id
           /\ st.members[i].id # m => t.members[i] = st.members[i]
  BY <1>1, <1>3, SeatsAndVotes DEF Seat
<1>5. Len(t.members) = Len(st.members)
  BY <1>1, <1>2, <1>4, SeatsAndVotes
<1>6. CurrentRoundVotes(t) = CurrentRoundVotes(st)
  BY <1>3 DEF CurrentRoundVotes
<1>7. VotersSeated(t)
  <2>1. SUFFICES ASSUME NEW i \in CurrentRoundVotes(st)
                 PROVE  SeatedMember(t, st.votes[i].member)
    BY <1>3, <1>6 DEF VotersSeated
  <2>2. PICK k \in SeatedMembers(st) : st.members[k].id = st.votes[i].member
    BY DEF Inv, VoteIntegrity, VotersSeated, SeatedMember
  <2>3. st.members[k].id # m
    BY <1>1, <2>2 DEF VotedThisRound
  <2>4. k \in SeatedMembers(t) /\ t.members[k].id = st.votes[i].member
    BY <1>4, <2>2, <2>3 DEF SeatedMembers
  <2>. QED BY <2>4 DEF SeatedMember
<1>8. OneBallotEach(t) /\ RoundsBegun(t) /\ DistinctSeats(t)
  BY <1>3, <1>4
     DEF Inv, VoteIntegrity, CouncilReady, OneBallotEach, RoundsBegun, DistinctSeats
<1>9. st' = StateWithCase(ContinueDeliberation(t))
  BY DEF t
<1>. QED BY <1>1, <1>2, <1>3, <1>5, <1>7, <1>8, <1>9 DEF Bench, Reached, t

\* Votes, removals and failures of council members preserve the invariant.
LEMMA CouncilStep ==
  ASSUME Inv, TypeOK', st.phase = "deliberation", st.status = "active",
         NEW t, Reached(t)
  PROVE  Inv'
BY DeliberationStep DEF Reached

(***************************************************************************)
(* Before deliberation the council is as the case was initialised: a step  *)
(* that leaves seats and votes alone keeps the council's invariants, also  *)
(* when it opens deliberation.                                             *)
(***************************************************************************)
LEMMA MeritsStep ==
  ASSUME Inv, TypeOK', st.status = "active", st.phase \in MeritsPhases,
         st'.members = st.members, st'.votes = st.votes, st'.round = st.round,
         st'.policy = st.policy,
         \/ st'.status = "active" /\ st'.phase \in MeritsPhases \cup {"deliberation"}
         \/ st'.status = "failed" /\ st'.phase = st.phase
  PROVE  Frame' /\ CouncilReady' /\ VoteIntegrity' /\ DecisionSound'
<1>1. /\ ValidPolicy(st.policy) /\ Len(st.members) = st.policy.council_size
      /\ st.votes = <<>> /\ st.round = 1 /\ SeatedMembers(st) = DOMAIN st.members
      /\ DistinctSeats(st)
  BY DEF Inv, Frame, CouncilReady, MeritsPhases
<1>2. /\ st \in State /\ st' \in State
      /\ st.policy \in Policy
  BY DEF Inv, TypeOK, State
<1>3. CurrentRoundVotes(st') = {}
  BY <1>1 DEF CurrentRoundVotes
<1>4. SeatedMembers(st') = DOMAIN st.members /\ DistinctSeats(st')
  BY <1>1 DEF SeatedMembers, DistinctSeats
<1>5. /\ Cardinality(CurrentRoundVotes(st')) = 0
      /\ Cardinality(SeatedMembers(st')) = st.policy.council_size
  BY <1>1, <1>2, <1>3, <1>4, FS_EmptySet, FS_Interval, SeatsAndVotes
<1>6. /\ st.policy.council_size \in Nat /\ st.policy.council_size > 0
      /\ 1 \in 1..st.policy.max_rounds
  BY <1>1, <1>2 DEF ValidPolicy, Policy
<1>7. Frame'
  BY <1>1 DEF Frame, MeritsPhases
<1>8. CouncilReady'
  BY <1>1, <1>4, <1>5, <1>6 DEF CouncilReady
<1>9. VoteIntegrity'
  BY <1>1, <1>3, <1>5, <1>6 DEF VoteIntegrity, OneBallotEach, VotersSeated, RoundsBegun
<1>10. DecisionSound'
  BY DEF DecisionSound
<1>. QED BY <1>7, <1>8, <1>9, <1>10

(***************************************************************************)
(* A filing by the expected side keeps the schedule of filings.            *)
(***************************************************************************)
Scheduled(filings, current) ==
  \A phase \in MeritsPhases :
    filings[phase] \in
      IF PhaseRank(phase) < PhaseRank(current) THEN CompleteFilings(phase)
      ELSE IF phase = current THEN PartialFilings(phase)
      ELSE {<<>>}

\* The merits phases in their order; advanceAfterMerits moves one phase on.
LEMMA RankFacts ==
  /\ \A p \in MeritsPhases : PhaseRank(p) \in 1..5 /\ PhaseRank(PhaseAfter(p)) = PhaseRank(p) + 1
  /\ \A p, q \in MeritsPhases : PhaseRank(p) = PhaseRank(q) => p = q
  /\ \A p \in MeritsPhases : PhaseAfter(p) \in MeritsPhases \cup {"deliberation"}
  /\ PhaseRank("deliberation") = 6
<1>1. /\ PhaseRank("openings") = 1 /\ PhaseRank("arguments") = 2
      /\ PhaseRank("rebuttals") = 3 /\ PhaseRank("surrebuttals") = 4
      /\ PhaseRank("closings") = 5 /\ PhaseRank("deliberation") = 6
  BY DEF PhaseRank
<1>2. /\ PhaseAfter("openings") = "arguments" /\ PhaseAfter("arguments") = "rebuttals"
      /\ PhaseAfter("rebuttals") = "surrebuttals"
      /\ PhaseAfter("surrebuttals") = "closings"
      /\ PhaseAfter("closings") = "deliberation"
  BY DEF PhaseAfter
<1>. QED BY <1>1, <1>2 DEF MeritsPhases

\* Completing the filings of the current phase keeps the schedule of the phases
\* when the case moves to the next one.
LEMMA ScheduleAdvances ==
  ASSUME NEW filings, NEW after, NEW phase \in MeritsPhases, Scheduled(filings, phase),
         \A p \in MeritsPhases : p # phase => after[p] = filings[p],
         after[phase] \in CompleteFilings(phase)
  PROVE  Scheduled(after, PhaseAfter(phase))
<1>1. SUFFICES ASSUME NEW p \in MeritsPhases
               PROVE  after[p] \in IF PhaseRank(p) < PhaseRank(PhaseAfter(phase))
                                     THEN CompleteFilings(p)
                                   ELSE IF p = PhaseAfter(phase) THEN PartialFilings(p)
                                   ELSE {<<>>}
  BY DEF Scheduled
<1>2. CASE p = phase
  BY <1>2, RankFacts
<1>3. CASE p # phase /\ PhaseRank(p) < PhaseRank(phase)
  BY <1>3, RankFacts DEF Scheduled
<1>4. CASE p # phase /\ ~ (PhaseRank(p) < PhaseRank(phase))
  <2>1. after[p] = <<>> /\ ~ (PhaseRank(p) < PhaseRank(PhaseAfter(phase)))
    BY <1>4, RankFacts DEF Scheduled
  <2>2. <<>> \in PartialFilings(p)
    BY DEF PartialFilings
  <2>. QED BY <2>1, <2>2
<1>. QED BY <1>2, <1>3, <1>4

\* The defendant's filing after the plaintiff's completes a phase of two filings.
LEMMA TwoFilings == Append(<<"plaintiff">>, "defendant") = <<"plaintiff", "defendant">>
<1> DEFINE f == Append(<<"plaintiff">>, "defendant")
           g == <<"plaintiff", "defendant">>
<1>1. <<"plaintiff">> \in Seq(Sides) /\ g \in Seq(Sides) /\ "defendant" \in Sides
  BY DEF Sides
<1>2. f \in Seq(Sides) /\ Len(f) = 2 /\ f[1] = "plaintiff" /\ f[2] = "defendant"
  BY <1>1, AppendProperties
<1>3. Len(g) = 2 /\ g[1] = "plaintiff" /\ g[2] = "defendant"
  OBVIOUS
<1> HIDE DEF f, g
<1>4. \A i \in 1..Len(f) : f[i] = g[i]
  BY <1>2, <1>3
<1>5. f = g
  BY <1>1, <1>2, <1>3, <1>4, SeqEqual
<1>. QED BY <1>5 DEF f, g

\* A filing by the side the engine expects either completes the phase, and then
\* advanceAfterMerits leaves it, or leaves it for the other side.
LEMMA ExpectedFiling ==
  ASSUME NEW s \in State, NEW phase \in MeritsPhases, s.phase = phase,
         s.filings[phase] \in PartialFilings(phase)
  PROVE  LET f == Append(s.filings[phase], ExpectedRole(s, phase)) IN
         \/ f \in CompleteFilings(phase) /\ Len(f) >= FilingsDue(phase)
         \/ f \in PartialFilings(phase) /\ ~ (Len(f) >= FilingsDue(phase))
<1> DEFINE f == Append(s.filings[phase], ExpectedRole(s, phase))
<1>0. /\ Append(<<>>, "plaintiff") = <<"plaintiff">>
      /\ Append(<<>>, "defendant") = <<"defendant">>
      /\ Append(<<"plaintiff">>, "defendant") = <<"plaintiff", "defendant">>
      /\ Len(<<"plaintiff">>) = 1
      /\ Len(<<"defendant">>) = 1
      /\ Len(<<"plaintiff", "defendant">>) = 2
  BY TwoFilings
<1>1. CASE phase = "rebuttals"
  <2>1. f = Append(<<>>, "plaintiff")
    BY <1>1 DEF PartialFilings, ExpectedRole
  <2>. QED BY <1>0, <1>1, <2>1 DEF CompleteFilings, FilingsDue
<1>2. CASE phase = "surrebuttals"
  <2>1. f = Append(<<>>, "defendant")
    BY <1>2 DEF PartialFilings, ExpectedRole
  <2>. QED BY <1>0, <1>2, <2>1 DEF CompleteFilings, FilingsDue
<1>3. CASE phase \in {"openings", "arguments", "closings"} /\ s.filings[phase] = <<>>
  <2>1. f = Append(<<>>, "plaintiff")
    BY <1>3 DEF ExpectedRole
  <2>. QED BY <1>0, <1>3, <2>1 DEF PartialFilings, FilingsDue
<1>4. CASE phase \in {"openings", "arguments", "closings"} /\ s.filings[phase] = <<"plaintiff">>
  <2>1. f = Append(<<"plaintiff">>, "defendant")
    <3>1. ExpectedRole(s, phase) = "defendant"
      <4>1. <<"plaintiff">> # <<>>
        OBVIOUS
      <4>. QED BY <1>4, <4>1 DEF ExpectedRole
    <3>. QED BY <1>4, <3>1
  <2>2. f = <<"plaintiff", "defendant">> /\ Len(f) = 2
    BY <1>0, <2>1
  <2>3. CompleteFilings(phase) = {<<"plaintiff", "defendant">>} /\ FilingsDue(phase) = 2
    BY <1>4 DEF CompleteFilings, FilingsDue
  <2> HIDE DEF f
  <2>4. f \in CompleteFilings(phase) /\ Len(f) >= FilingsDue(phase)
    BY <2>2, <2>3
  <2>. QED BY <2>4 DEF f
<1>. QED BY <1>1, <1>2, <1>3, <1>4 DEF PartialFilings, MeritsPhases

\* addFiling, for the expected side, keeps the schedule and touches nothing but
\* the filings of the phase and the phase.
LEMMA FilingStep ==
  ASSUME NEW s \in State, NEW phase \in MeritsPhases, s.phase = phase,
         Scheduled(s.filings, s.phase)
  PROVE  LET t == AddFiling(s, phase, ExpectedRole(s, phase)) IN
         /\ Scheduled(t.filings, t.phase)
         /\ t.phase \in MeritsPhases \cup {"deliberation"}
         /\ t.filings[phase] = Append(s.filings[phase], ExpectedRole(s, phase))
         /\ \A p \in MeritsPhases : p # phase => t.filings[p] = s.filings[p]
         /\ t = [s EXCEPT !.filings = t.filings, !.phase = t.phase]
<1> DEFINE f == Append(s.filings[phase], ExpectedRole(s, phase))
           after == [s.filings EXCEPT ![phase] = f]
           r == [s EXCEPT !.filings = after]
           t == AddFiling(s, phase, ExpectedRole(s, phase))
<1>1. /\ after[phase] = f
      /\ \A p \in MeritsPhases : p # phase => after[p] = s.filings[p]
  BY DEF State, Filings
<1>2. s.filings[phase] \in PartialFilings(phase)
  BY RankFacts DEF Scheduled
<1>3. t = AdvanceAfterMerits(r)
  BY DEF AddFiling
<1>4. \/ f \in CompleteFilings(phase) /\ Len(f) >= FilingsDue(phase)
      \/ f \in PartialFilings(phase) /\ ~ (Len(f) >= FilingsDue(phase))
  BY <1>2, ExpectedFiling
<1> HIDE DEF t, f, after
<1>5. r.phase = phase /\ r.filings = after
  BY DEF State
<1>6. CASE f \in CompleteFilings(phase) /\ Len(f) >= FilingsDue(phase)
  <2>1. t = [r EXCEPT !.phase = PhaseAfter(phase)]
    BY <1>1, <1>3, <1>5, <1>6 DEF AdvanceAfterMerits
  <2>2. t.filings = after /\ t.phase = PhaseAfter(phase)
    BY <2>1 DEF State
  <2>3. t = [s EXCEPT !.filings = t.filings, !.phase = t.phase]
    BY <2>1, <2>2
  <2>4. Scheduled(after, PhaseAfter(phase))
    BY <1>1, <1>6, ScheduleAdvances
  <2>5. t.phase \in MeritsPhases \cup {"deliberation"}
    BY <2>2, RankFacts
  <2>. QED BY <1>1, <2>2, <2>3, <2>4, <2>5 DEF t, f
<1>7. CASE f \in PartialFilings(phase) /\ ~ (Len(f) >= FilingsDue(phase))
  <2>1. t = r
    BY <1>1, <1>3, <1>5, <1>7 DEF AdvanceAfterMerits
  <2>2. t.filings = after /\ t.phase = phase
    BY <1>5, <2>1
  <2>3. t = [s EXCEPT !.filings = t.filings, !.phase = t.phase]
    BY <2>1, <2>2 DEF State
  <2>4. Scheduled(after, phase)
    BY <1>1, <1>7, RankFacts DEF Scheduled
  <2>. QED BY <1>1, <2>2, <2>3, <2>4 DEF t, f
<1>. QED BY <1>4, <1>6, <1>7

(***************************************************************************)
(* The merits phases, action by action.                                    *)
(***************************************************************************)
LEMMA OpenMerits ==
  ASSUME Inv, Open(st), st.phase \in MeritsPhases
  PROVE  st \in State /\ st.status = "active" /\ Scheduled(st.filings, st.phase)
<1>1. st \in State /\ st.status \in Statuses
  BY DEF Inv, TypeOK, State
<1>2. st.status = "active"
  BY <1>1 DEF Open, Statuses, Inv, Frame, MeritsPhases
<1>. QED BY <1>1, <1>2 DEF Inv, MeritsShape, Scheduled

\* addFiling leaves council, policy, evidence and material counts alone.
LEMMA FilingFrame ==
  ASSUME Inv, Open(st), NEW phase \in MeritsPhases, st.phase = phase
  PROVE  LET t == AddFiling(st, phase, ExpectedRole(st, phase)) IN
         /\ t.status = st.status /\ t.members = st.members /\ t.votes = st.votes
         /\ t.round = st.round /\ t.policy = st.policy /\ t.evidence = st.evidence
         /\ t.offered = st.offered /\ t.reports = st.reports
         /\ t.resolution = st.resolution /\ t.version = st.version
         /\ t.failure = st.failure
<1>1. st \in State /\ Scheduled(st.filings, st.phase)
  BY OpenMerits
<1> DEFINE t == AddFiling(st, phase, ExpectedRole(st, phase))
<1>2. t = [st EXCEPT !.filings = t.filings, !.phase = t.phase]
  BY <1>1, FilingStep
<1> HIDE DEF t
<1>3. /\ t.status = st.status /\ t.members = st.members /\ t.votes = st.votes
      /\ t.round = st.round /\ t.policy = st.policy /\ t.evidence = st.evidence
      /\ t.offered = st.offered /\ t.reports = st.reports
      /\ t.resolution = st.resolution /\ t.version = st.version
      /\ t.failure = st.failure
  BY <1>1, <1>2 DEF State
<1>. QED BY <1>3 DEF t

\* A filing by the expected side that respects the caps preserves the invariant.
LEMMA FilingInv ==
  ASSUME Inv, TypeOK', MaterialLimits', Open(st), NEW phase \in MeritsPhases,
         st.phase = phase, NEW t, t = AddFiling(st, phase, ExpectedRole(st, phase)),
         st'.filings = t.filings, st'.phase = t.phase, st'.status = t.status,
         st'.members = t.members, st'.votes = t.votes, st'.round = t.round,
         st'.policy = t.policy
  PROVE  Inv'
<1>1. st \in State /\ st.status = "active" /\ Scheduled(st.filings, st.phase)
  BY OpenMerits
<1>2. /\ Scheduled(t.filings, t.phase)
      /\ t.phase \in MeritsPhases \cup {"deliberation"}
  BY <1>1, FilingStep
<1>3. /\ t.status = st.status /\ t.members = st.members /\ t.votes = st.votes
      /\ t.round = st.round /\ t.policy = st.policy
  BY FilingFrame
<1>4. MeritsShape'
  <2>1. Scheduled(st'.filings, st'.phase)
    BY <1>2, Zenon
  <2>. QED BY <2>1 DEF MeritsShape, Scheduled
<1>5. Frame' /\ CouncilReady' /\ VoteIntegrity' /\ DecisionSound'
  BY <1>1, <1>2, <1>3, MeritsStep
<1>. QED BY <1>4, <1>5 DEF Inv

\* Opening and closing statements preserve the invariant.
LEMMA StatementInv ==
  ASSUME Inv, TypeOK', Open(st), NEW phase \in MeritsPhases, st.phase = phase,
         st' = StateWithCase(AddFiling(st, phase, ExpectedRole(st, phase)))
  PROVE  Inv'
<1> DEFINE t == AddFiling(st, phase, ExpectedRole(st, phase))
<1>1. /\ t.status = st.status /\ t.members = st.members /\ t.votes = st.votes
      /\ t.round = st.round /\ t.policy = st.policy /\ t.evidence = st.evidence
      /\ t.offered = st.offered /\ t.reports = st.reports
  BY FilingFrame
<1>2. t \in State
  BY OpenMerits, AddFilingType DEF ExpectedRole, Sides
<1>3. st' = StateWithCase(t)
  OBVIOUS
<1> HIDE DEF t
<1>4. /\ SameRecord(t, st') /\ st'.members = t.members /\ st'.votes = t.votes
      /\ st'.round = t.round /\ st'.status = t.status /\ st'.phase = t.phase
  BY <1>2, <1>3, VersionOnly
<1>5. MaterialLimits'
  BY <1>1, <1>4 DEF Inv, MaterialLimits, SameRecord, EvidenceCountFor
<1>. QED BY <1>4, <1>5, FilingInv DEF SameRecord, t

\* Arguments, rebuttals and surrebuttals preserve the invariant: their exhibits
\* and reports stay below the caps of the side.
LEMMA MeritsSubmissionInv ==
  ASSUME Inv, TypeOK', NEW phase \in EvidencePhases, NEW role \in Sides,
         NEW chars \in Nat, NEW e \in Nat, NEW r \in Nat,
         MeritsSubmission(phase, role, chars, e, r)
  PROVE  Inv'
<1> DEFINE t == AddFiling(st, phase, ExpectedRole(st, phase))
           w == [t EXCEPT !.offered[role] = @ + e, !.reports[role] = @ + r]
<1>1. /\ phase \in MeritsPhases /\ Open(st) /\ st.phase = phase
      /\ role = ExpectedRole(st, phase)
      /\ st.offered[role] + e <= st.policy.exhibits_per_side
      /\ st.reports[role] + r <= st.policy.reports_per_side
      /\ st' = StateWithCase(w)
  BY DEF MeritsSubmission, MeritsSubmissionOK, AfterMeritsSubmission, EvidencePhases,
         MeritsPhases
<1>2. st \in State /\ t \in State
  BY <1>1, OpenMerits, AddFilingType
<1>3. /\ t.status = st.status /\ t.members = st.members /\ t.votes = st.votes
      /\ t.round = st.round /\ t.policy = st.policy /\ t.evidence = st.evidence
      /\ t.offered = st.offered /\ t.reports = st.reports
  BY <1>1, FilingFrame
<1> HIDE DEF t
<1>4. /\ w.status = t.status /\ w.members = t.members /\ w.votes = t.votes
      /\ w.round = t.round /\ w.policy = t.policy /\ w.evidence = t.evidence
      /\ w.filings = t.filings /\ w.phase = t.phase
      /\ w.offered = [t.offered EXCEPT ![role] = @ + e]
      /\ w.reports = [t.reports EXCEPT ![role] = @ + r]
  BY <1>2 DEF State
<1>5. /\ st'.status = w.status /\ st'.members = w.members /\ st'.votes = w.votes
      /\ st'.round = w.round /\ st'.policy = w.policy /\ st'.evidence = w.evidence
      /\ st'.filings = w.filings /\ st'.phase = w.phase
      /\ st'.offered = w.offered /\ st'.reports = w.reports
  BY <1>1, <1>2 DEF State, StateWithCase
<1> HIDE DEF w
<1>6. \A side \in Sides :
        /\ st'.offered[side] <= st.policy.exhibits_per_side
        /\ st'.reports[side] <= st.policy.reports_per_side
  BY <1>1, <1>2, <1>3, <1>4, <1>5 DEF Inv, MaterialLimits, State, Materials
<1>7. MaterialLimits'
  BY <1>3, <1>4, <1>5, <1>6 DEF Inv, MaterialLimits, EvidenceCountFor
<1>. QED BY <1>1, <1>4, <1>5, <1>7, FilingInv DEF t

\* submit_evidence preserves the invariant: the id is new, the side is the one
\* about to file, and its cap is respected.
LEMMA EvidenceInv ==
  ASSUME Inv, TypeOK', NEW role \in Sides, NEW id \in EvidenceIds, NEW bytes \in Nat,
         SubmitEvidence(role, id, bytes)
  PROVE  Inv'
<1> DEFINE n == Len(st.evidence)
           x == [id |-> id, role |-> role, phase |-> st.phase]
           w == [st EXCEPT !.evidence = Append(@, x)]
<1>1. /\ Open(st) /\ st.phase \in EvidencePhases /\ st.phase \in MeritsPhases
      /\ role = ExpectedRole(st, st.phase)
      /\ \A i \in DOMAIN st.evidence : st.evidence[i].id # id
      /\ EvidenceCountFor(st, role) + 1 <= st.policy.evidence_per_side
      /\ st' = StateWithCase(w)
  BY DEF SubmitEvidence, SubmitEvidenceOK, AfterSubmitEvidence, EvidencePhases, MeritsPhases
<1>2. st \in State /\ st.status = "active"
  BY <1>1, OpenMerits
<1>3. /\ st'.status = st.status /\ st'.members = st.members /\ st'.votes = st.votes
      /\ st'.round = st.round /\ st'.policy = st.policy /\ st'.phase = st.phase
      /\ st'.filings = st.filings /\ st'.offered = st.offered /\ st'.reports = st.reports
      /\ st'.evidence = Append(st.evidence, x)
  BY <1>1, <1>2 DEF State, StateWithCase
<1>4. Frame' /\ CouncilReady' /\ VoteIntegrity' /\ DecisionSound'
  BY <1>1, <1>2, <1>3, MeritsStep
<1>5. MeritsShape'
  BY <1>3 DEF Inv, MeritsShape
<1>6. /\ n \in Nat /\ DOMAIN st.evidence = 1..n
      /\ DOMAIN st'.evidence = 1..(n + 1)
      /\ st'.evidence[n + 1] = x
      /\ \A i \in 1..n : st'.evidence[i] = st.evidence[i]
  BY <1>2, <1>3 DEF State, EvidenceList
<1>7. x.id = id /\ x.role = role /\ x.phase = st.phase
  OBVIOUS
<1> HIDE DEF n, x, w
<1>8. \A side \in Sides : EvidenceCountFor(st', side) <= st.policy.evidence_per_side
  <2>1. SUFFICES ASSUME NEW side \in Sides
                 PROVE  EvidenceCountFor(st', side) <= st.policy.evidence_per_side
    OBVIOUS
  <2> DEFINE A == {i \in DOMAIN st.evidence : st.evidence[i].role = side}
             B == {i \in DOMAIN st'.evidence : st'.evidence[i].role = side}
  <2>2. A \in SUBSET (1..n) /\ IsFiniteSet(1..n)
    BY <1>6, FS_Interval
  <2>3. IsFiniteSet(A) /\ Cardinality(A) \in Nat
    BY <2>2, FS_Subset, FS_CardinalityType
  <2>4. CASE side # role
    <3>1. A = B
      BY <1>6, <1>7, <2>4
    <3>. QED BY <3>1 DEF EvidenceCountFor, Inv, MaterialLimits
  <2>5. CASE side = role
    <3>1. B = A \cup {n + 1} /\ n + 1 \notin A
      BY <1>6, <1>7, <2>5
    <3>2. Cardinality(B) = Cardinality(A) + 1
      BY <2>3, <3>1, FS_AddElement
    <3>. QED BY <1>1, <2>5, <3>2 DEF EvidenceCountFor
  <2>. QED BY <2>4, <2>5
<1>9. \A i, j \in DOMAIN st'.evidence : st'.evidence[i].id = st'.evidence[j].id => i = j
  <2>1. SUFFICES ASSUME NEW i \in 1..(n + 1), NEW j \in 1..(n + 1),
                        st'.evidence[i].id = st'.evidence[j].id
                 PROVE  i = j
    BY <1>6
  <2>2. CASE i \in 1..n /\ j \in 1..n
    BY <1>6, <2>1, <2>2 DEF Inv, MaterialLimits
  <2>3. CASE i = n + 1 /\ j \in 1..n
    BY <1>1, <1>6, <1>7, <2>1, <2>3
  <2>4. CASE j = n + 1 /\ i \in 1..n
    BY <1>1, <1>6, <1>7, <2>1, <2>4
  <2>. QED BY <1>6, <2>2, <2>3, <2>4
<1>10. \A i \in DOMAIN st'.evidence :
         /\ st'.evidence[i].role = "plaintiff" => st'.evidence[i].phase # "surrebuttals"
         /\ st'.evidence[i].role = "defendant" => st'.evidence[i].phase # "rebuttals"
  <2>1. /\ role = "plaintiff" => st.phase # "surrebuttals"
        /\ role = "defendant" => st.phase # "rebuttals"
    BY <1>1 DEF ExpectedRole
  <2>. QED BY <1>6, <1>7, <2>1 DEF Inv, MaterialLimits
<1>11. MaterialLimits'
  BY <1>3, <1>8, <1>9, <1>10 DEF Inv, MaterialLimits
<1>. QED BY <1>4, <1>5, <1>11 DEF Inv

\* pass_phase_opportunity preserves the invariant.
LEMMA PassInv ==
  ASSUME Inv, TypeOK', NEW role \in Sides, PassPhaseOpportunity(role)
  PROVE  Inv'
<1>1. /\ Open(st) /\ st.phase \in {"rebuttals", "surrebuttals"} /\ st.phase \in MeritsPhases
      /\ st.filings[st.phase] = <<>>
      /\ st' = StateWithCase([st EXCEPT !.phase = PhaseAfter(st.phase)])
  BY DEF PassPhaseOpportunity, PassPhaseOK, AfterPassPhase, MeritsPhases
<1>2. st \in State /\ st.status = "active" /\ Scheduled(st.filings, st.phase)
  BY <1>1, OpenMerits
<1>3. /\ st'.status = st.status /\ st'.members = st.members /\ st'.votes = st.votes
      /\ st'.round = st.round /\ st'.policy = st.policy /\ st'.evidence = st.evidence
      /\ st'.filings = st.filings /\ st'.offered = st.offered /\ st'.reports = st.reports
      /\ st'.phase = PhaseAfter(st.phase)
  BY <1>1, <1>2 DEF State, StateWithCase
<1>4. Frame' /\ CouncilReady' /\ VoteIntegrity' /\ DecisionSound'
  BY <1>1, <1>2, <1>3, RankFacts, MeritsStep
<1>5. st.filings[st.phase] \in CompleteFilings(st.phase)
  BY <1>1 DEF CompleteFilings
<1>6. Scheduled(st.filings, PhaseAfter(st.phase))
  BY <1>1, <1>2, <1>5, ScheduleAdvances
<1>7. MeritsShape'
  BY <1>3, <1>6 DEF MeritsShape, Scheduled
<1>8. MaterialLimits'
  BY <1>3 DEF Inv, MaterialLimits, EvidenceCountFor
<1>. QED BY <1>4, <1>7, <1>8 DEF Inv

\* A draft satisfies the invariant.
LEMMA DraftInv ==
  ASSUME NEW p \in Policy, st = DraftState(p)
  PROVE  Inv
<1>1. st \in State
  BY DraftStateType
<1>2. /\ st.status = "draft" /\ st.phase = "draft" /\ st.policy = p /\ st.members = <<>>
      /\ st.votes = <<>> /\ st.round = 1 /\ st.evidence = <<>>
      /\ st.filings = [q \in MeritsPhases |-> <<>>]
      /\ st.offered = [r \in Sides |-> 0] /\ st.reports = [r \in Sides |-> 0]
  BY DEF DraftState
<1>3. Frame
  BY <1>2 DEF Frame
<1>4. MeritsShape
  <2>1. \A q \in MeritsPhases : PhaseRank(q) \in 1..5 /\ q # "draft" /\ PhaseRank("draft") = 0
    <3>1. PhaseRank("draft") = 0
      BY DEF PhaseRank
    <3>. QED BY <3>1, RankFacts DEF MeritsPhases
  <2>2. \A q \in MeritsPhases : st.filings[q] = <<>> /\ ~ (PhaseRank(q) < PhaseRank("draft"))
    BY <1>2, <2>1
  <2>. QED BY <1>2, <2>1, <2>2 DEF MeritsShape
<1>5. \A role \in Sides : EvidenceCountFor(st, role) = 0
  <2>1. \A role \in Sides : {i \in DOMAIN st.evidence : st.evidence[i].role = role} = {}
    BY <1>2
  <2>. QED BY <2>1, FS_EmptySet DEF EvidenceCountFor
<1>6. MaterialLimits
  BY <1>1, <1>2, <1>5 DEF MaterialLimits, State, Policy
<1>7. CurrentRoundVotes(st) = {} /\ SeatedMembers(st) = {}
  BY <1>2 DEF CurrentRoundVotes, SeatedMembers
<1>8. CouncilReady
  BY <1>2, <1>7 DEF CouncilReady, DistinctSeats
<1>9. VoteIntegrity
  BY <1>2, <1>7, FS_EmptySet DEF VoteIntegrity, OneBallotEach, VotersSeated, RoundsBegun
<1>10. DecisionSound
  BY <1>2 DEF DecisionSound
<1>. QED BY <1>1, <1>3, <1>4, <1>6, <1>8, <1>9, <1>10 DEF Inv, TypeOK

\* initialize_case preserves the invariant: the council it seats is of the size
\* of the policy and has no duplicates.
LEMMA InitializeInv ==
  ASSUME Inv, TypeOK', NEW ids \in Rosters, InitializeCase(ids)
  PROVE  Inv'
<1> DEFINE p == st.policy
           seats == [i \in 1..Len(ids) |-> [id |-> ids[i], status |-> "seated"]]
           d == DraftState(p)
           w == [d EXCEPT !.status = "active", !.phase = "openings",
                          !.version = st.version, !.members = seats]
<1>1. /\ ids \in Seq(MemberIds) /\ ValidPolicy(p) /\ Len(ids) = p.council_size
      /\ ~ HasDuplicates(ids) /\ p \in Policy
      /\ st' = StateWithCase(w)
  BY RequestAssumption
     DEF InitializeCase, InitializeCaseOK, AfterInitializeCase, Inv, TypeOK, State
<1>2. /\ d \in State /\ d.policy = p /\ d.votes = <<>> /\ d.round = 1 /\ d.evidence = <<>>
      /\ d.filings = [q \in MeritsPhases |-> <<>>]
      /\ d.offered = [r \in Sides |-> 0] /\ d.reports = [r \in Sides |-> 0]
  BY <1>1, DraftStateType DEF DraftState
<1> HIDE DEF d, seats
<1>3. /\ st'.status = "active" /\ st'.phase = "openings" /\ st'.members = seats
      /\ st'.policy = p /\ st'.votes = <<>> /\ st'.round = 1 /\ st'.evidence = <<>>
      /\ st'.filings = [q \in MeritsPhases |-> <<>>]
      /\ st'.offered = [r \in Sides |-> 0] /\ st'.reports = [r \in Sides |-> 0]
  BY <1>1, <1>2 DEF State, StateWithCase
<1>4. /\ DOMAIN seats = 1..Len(ids) /\ Len(ids) \in Nat /\ Len(seats) = Len(ids)
      /\ \A i \in 1..Len(ids) : seats[i].id = ids[i] /\ seats[i].status = "seated"
  BY <1>1 DEF seats
<1>5. Frame'
  BY <1>1, <1>3, <1>4 DEF Frame
<1>6. MeritsShape'
  <2>1. \A q \in MeritsPhases : ~ (PhaseRank(q) < PhaseRank("openings"))
    <3>1. PhaseRank("openings") = 1
      BY DEF PhaseRank
    <3>. QED BY <3>1, RankFacts
  <2>2. \A q \in MeritsPhases : <<>> \in PartialFilings(q)
    BY DEF PartialFilings
  <2>. QED BY <1>3, <2>1, <2>2 DEF MeritsShape
<1>7. \A role \in Sides : EvidenceCountFor(st', role) = 0
  <2>1. \A role \in Sides : {i \in DOMAIN st'.evidence : st'.evidence[i].role = role} = {}
    BY <1>3
  <2>. QED BY <2>1, FS_EmptySet DEF EvidenceCountFor
<1>8. MaterialLimits'
  <2>1. /\ p.exhibits_per_side \in Nat /\ p.reports_per_side \in Nat
        /\ p.evidence_per_side \in Nat
    BY <1>1 DEF Policy
  <2>2. \A role \in Sides : st'.offered[role] = 0 /\ st'.reports[role] = 0
    BY <1>3
  <2>3. \A role \in Sides :
          /\ st'.offered[role] <= st'.policy.exhibits_per_side
          /\ st'.reports[role] <= st'.policy.reports_per_side
          /\ EvidenceCountFor(st', role) <= st'.policy.evidence_per_side
    BY <1>3, <1>7, <2>1, <2>2
  <2>4. DOMAIN st'.evidence = {}
    BY <1>3
  <2>. QED BY <2>3, <2>4 DEF MaterialLimits
<1>9. CurrentRoundVotes(st') = {} /\ SeatedMembers(st') = DOMAIN seats
  BY <1>3, <1>4 DEF CurrentRoundVotes, SeatedMembers
<1>10. DistinctSeats(st')
  BY <1>1, <1>3, <1>4 DEF DistinctSeats, HasDuplicates
<1>11. CouncilReady'
  BY <1>3, <1>9, <1>10 DEF CouncilReady
<1>12. Cardinality(CurrentRoundVotes(st')) <= Cardinality(SeatedMembers(st'))
  <2>1. Cardinality(CurrentRoundVotes(st')) = 0
    BY <1>9, FS_EmptySet
  <2>2. Cardinality(SeatedMembers(st')) \in Nat
    BY SeatsAndVotesFinite DEF TypeOK
  <2>. QED BY <2>1, <2>2
<1>13. VoteIntegrity'
  BY <1>3, <1>9, <1>12 DEF VoteIntegrity, OneBallotEach, VotersSeated, RoundsBegun
<1>14. DecisionSound'
  BY <1>3 DEF DecisionSound
<1>. QED BY <1>5, <1>6, <1>8, <1>11, <1>13, <1>14 DEF Inv

\* fail_opportunity preserves the invariant, for a side and for a council seat.
LEMMA FailInv ==
  ASSUME Inv, TypeOK', NEW opportunity, NEW m, NEW reason \in FailureReasons,
         FailOpportunity("system", opportunity, m, reason)
  PROVE  Inv'
<1>0. opportunity = NextOpportunity(st)
  BY DEF FailOpportunity, FailOpportunityOK
<1>1. /\ st \in State /\ Open(st) /\ NextOpportunity(st) # NoOpportunity
      /\ NextOpportunity(st).role = "council" => MemberCanLeave(st, m)
  BY <1>0 DEF FailOpportunity, FailOpportunityOK, Inv, TypeOK
<1>2. CASE NextOpportunity(st).role = "council"
  <2>1. st.status = "active"
    BY <1>1, <1>2 DEF Open, State, Statuses, MemberCanLeave, Inv, Frame
  <2>2. st' = StateWithCase(ContinueDeliberation(Unseat(st, m, "failed")))
    BY <1>0, <1>2 DEF FailOpportunity, AfterFailOpportunity
  <2>. QED BY <1>1, <1>2, <2>1, <2>2, UnseatReaches, CouncilStep
     DEF MemberStatuses, MemberCanLeave
<1>3. CASE NextOpportunity(st).role # "council"
  <2>1. st.phase \in MeritsPhases
    BY <1>1, <1>3, SideOpportunityType
  <2>2. st.status = "active"
    BY <1>1, <2>1, OpenMerits
  <2>3. st' = StateWithCase([st EXCEPT !.status = "failed",
                !.failure = [opportunity |-> NextOpportunity(st), reason |-> reason]])
    BY <1>0, <1>3 DEF FailOpportunity, AfterFailOpportunity
  <2>4. /\ st'.status = "failed" /\ st'.members = st.members /\ st'.votes = st.votes
        /\ st'.round = st.round /\ st'.policy = st.policy /\ st'.evidence = st.evidence
        /\ st'.filings = st.filings /\ st'.offered = st.offered
        /\ st'.reports = st.reports /\ st'.phase = st.phase
    BY <1>1, <2>3 DEF State, StateWithCase
  <2>5. Frame' /\ CouncilReady' /\ VoteIntegrity' /\ DecisionSound'
    BY <2>1, <2>2, <2>4, MeritsStep
  <2>6. MeritsShape'
    BY <2>4 DEF Inv, MeritsShape
  <2>7. MaterialLimits'
    BY <2>4 DEF Inv, MaterialLimits, EvidenceCountFor
  <2>. QED BY <2>5, <2>6, <2>7 DEF Inv
<1>. QED BY <1>2, <1>3

\* Every accepted request preserves the invariant.
LEMMA InvStep ==
  ASSUME Inv, Next
  PROVE  Inv'
<1>0. TypeOK'
  BY StepType DEF Inv
<1>10. "openings" \in MeritsPhases /\ "closings" \in MeritsPhases
  BY DEF MeritsPhases
<1>1. ASSUME NEW ids \in Rosters, InitializeCase(ids)
      PROVE  Inv'
  BY <1>0, <1>1, InitializeInv
<1>2. ASSUME NEW role \in Sides, NEW chars \in Chars, RecordOpeningStatement(role, chars)
      PROVE  Inv'
  BY <1>0, <1>2, <1>10, StatementInv
     DEF RecordOpeningStatement, OpeningStatementOK, AfterOpeningStatement
<1>3. ASSUME NEW role \in Sides, NEW chars \in Chars, NEW e \in Amounts, NEW r \in Amounts,
             NEW phase \in EvidencePhases, MeritsSubmission(phase, role, chars, e, r)
      PROVE  Inv'
  BY <1>0, <1>3, MeritsSubmissionInv, RequestAssumption
<1>4. ASSUME NEW role \in Sides, NEW chars \in Chars, NEW e \in Amounts, NEW r \in Amounts,
             DeliverClosingStatement(role, chars, e, r)
      PROVE  Inv'
  BY <1>0, <1>4, <1>10, StatementInv
     DEF DeliverClosingStatement, ClosingStatementOK, AfterClosingStatement
<1>5. ASSUME NEW role \in Sides, NEW id \in EvidenceIds, NEW bytes \in Sizes,
             SubmitEvidence(role, id, bytes)
      PROVE  Inv'
  BY <1>0, <1>5, EvidenceInv, RequestAssumption
<1>6. ASSUME NEW role \in Sides, PassPhaseOpportunity(role)
      PROVE  Inv'
  BY <1>0, <1>6, PassInv
<1>7. ASSUME NEW m \in MemberIds, NEW ballot \in Ballots,
             SubmitCouncilVote("council", m, ballot)
      PROVE  Inv'
  <2>1. st.phase = "deliberation" /\ st.status = "active"
    BY <1>7 DEF SubmitCouncilVote, CouncilVoteOK, Open, Inv, Frame, TypeOK, State, Statuses
  <2>. QED BY <1>0, <1>7, <2>1, VoteReaches, CouncilStep
<1>8. ASSUME NEW m \in MemberIds, NEW status \in MemberStatuses,
             RemoveCouncilMember("system", m, status)
      PROVE  Inv'
  <2>1. /\ Open(st) /\ MemberCanLeave(st, m) /\ status # "seated"
        /\ st' = StateWithCase(ContinueDeliberation(Unseat(st, m, status)))
    BY <1>8 DEF RemoveCouncilMember, RemoveCouncilMemberOK, AfterRemoveCouncilMember
  <2>2. st.status = "active"
    BY <2>1 DEF Open, MemberCanLeave, Inv, Frame, TypeOK, State, Statuses
  <2>. QED BY <1>0, <2>1, <2>2, UnseatReaches, CouncilStep DEF MemberCanLeave
<1>9. ASSUME NEW opportunity, NEW m, NEW reason \in FailureReasons,
             FailOpportunity("system", opportunity, m, reason)
      PROVE  Inv'
  BY <1>0, <1>9, FailInv
<1>. QED
  BY <1>1, <1>2, <1>3, <1>4, <1>5, <1>6, <1>7, <1>8, <1>9
     DEF Next, SubmitArgument, SubmitRebuttal, SubmitSurrebuttal, EvidencePhases,
         FailSomeOpportunity

(***************************************************************************)
(* The inductive invariant, and what it says of every reachable case.      *)
(***************************************************************************)
THEOREM Invariance == Spec => []Inv
<1>1. Init => Inv
  BY DraftInv, RequestAssumption DEF Init
<1>2. Inv /\ [Next]_vars => Inv'
  <2>1. ASSUME Inv, UNCHANGED st
        PROVE  Inv'
    BY <2>1 DEF Inv, TypeOK, Frame, MeritsShape, MaterialLimits, CouncilReady,
                VoteIntegrity, DecisionSound
  <2>. QED BY <2>1, InvStep DEF vars
<1>. QED BY <1>1, <1>2, PTL DEF Spec

\* Merits structure, for every policy and roster: the filings of a case form
\* one schedule in which both sides have had their turns.
THEOREM MeritsShapeHolds == Spec => []MeritsShape
<1>1. Inv => MeritsShape
  BY DEF Inv
<1>. QED BY <1>1, Invariance, PTL

\* Neither side ever exceeds the per-side caps, and evidence ids are unique.
THEOREM MaterialLimitsHold == Spec => []MaterialLimits
<1>1. Inv => MaterialLimits
  BY DEF Inv
<1>. QED BY <1>1, Invariance, PTL

\* One ballot per member and round, from members still seated.
THEOREM VoteIntegrityHolds == Spec => []VoteIntegrity
<1>1. Inv => VoteIntegrity
  BY DEF Inv
<1>. QED BY <1>1, Invariance, PTL

\* A closed case carries the outcome its votes support.
THEOREM DecisionIsSound == Spec => []DecisionSound
<1>1. Inv => DecisionSound
  BY DEF Inv
<1>. QED BY <1>1, Invariance, PTL

-----------------------------------------------------------------------------
(***************************************************************************)
(* The engine's next opportunity is always one it accepts.                 *)
(***************************************************************************)
LEMMA Least ==
  ASSUME NEW S \in SUBSET Nat, S # {}
  PROVE  \E x \in S : \A y \in S : x <= y
<1> DEFINE R == OpToRel(<, Nat)
<1>1. IsWellFoundedOn(R, Nat)
  BY NatLessThanWellFounded
<1>2. \A x, y \in Nat : <<y, x>> \in R <=> y < x
  BY DEF OpToRel
<1> HIDE DEF R
<1>3. PICK x \in S : \A y \in S : ~ (<<y, x>> \in R)
  BY <1>1, WFMin
<1>4. x \in Nat /\ \A y \in S : y \in Nat
  OBVIOUS
<1>5. \A y \in S : ~ (y < x)
  BY <1>2, <1>3, <1>4
<1>6. \A y \in S : x <= y
  BY <1>4, <1>5
<1>. QED BY <1>6

\* nextCouncilMember? names a seated member that has not voted in the round.
LEMMA NextMemberAwaited ==
  ASSUME NEW s \in State, AwaitedMembers(s) # {}
  PROVE  \E i \in AwaitedMembers(s) : NextCouncilMember(s) = s.members[i].id
<1>1. AwaitedMembers(s) \in SUBSET Nat
  BY SeatsAndVotes DEF AwaitedMembers, SeatedMembers
<1>2. \E i \in AwaitedMembers(s) : \A j \in AwaitedMembers(s) : i <= j
  BY <1>1, Least
<1>. QED BY <1>2 DEF NextCouncilMember

\* A live case is never stranded, for every policy, roster and history.
THEOREM NeverStrandedHolds == Spec => []NeverStranded
<1>1. ASSUME Inv
      PROVE  NeverStranded
  <2>1. SUFFICES ASSUME st.status = "active"
                 PROVE  LET next == NextOpportunity(st) IN
                          /\ next # NoOpportunity
                          /\ next.phase = st.phase
                          /\ CASE next.phase = "openings" -> OpeningStatementOK(st, next.role, 1)
                               [] next.phase = "closings" -> ClosingStatementOK(st, next.role, 1, 0, 0)
                               [] next.phase \in EvidencePhases ->
                                    MeritsSubmissionOK(st, next.phase, next.role, 1, 0, 0)
                               [] next.phase = "deliberation" ->
                                    CouncilVoteOK(st, next.role, next.member, "demonstrated")
    BY DEF NeverStranded
  <2> DEFINE next == NextOpportunity(st)
  <2>2. /\ st \in State /\ st.policy \in Policy /\ ValidPolicy(st.policy) /\ Open(st)
        /\ st.phase \in MeritsPhases \cup {"deliberation"}
    BY <2>1, <1>1 DEF Inv, TypeOK, Frame, State, Open, Phases
  <2>3. next = NextOpportunityForPhase(st)
    BY <2>1 DEF NextOpportunity
  <2>4. CASE st.phase \in MeritsPhases
    <3>1. st.filings[st.phase] \in PartialFilings(st.phase)
      BY <1>1, <2>4, RankFacts DEF Inv, MeritsShape
    <3>2. Len(st.filings[st.phase]) < FilingsDue(st.phase)
      <4>1. Len(<<>>) = 0 /\ Len(<<"plaintiff">>) = 1
        OBVIOUS
      <4>2. CASE st.phase \in {"rebuttals", "surrebuttals"}
        <5>1. st.filings[st.phase] = <<>> /\ FilingsDue(st.phase) = 1
          BY <3>1, <4>2 DEF PartialFilings, FilingsDue
        <5>. QED BY <4>1, <5>1
      <4>3. CASE st.phase \notin {"rebuttals", "surrebuttals"}
        <5>1. st.filings[st.phase] \in {<<>>, <<"plaintiff">>} /\ FilingsDue(st.phase) = 2
          BY <3>1, <4>3 DEF PartialFilings, FilingsDue
        <5>2. Len(st.filings[st.phase]) \in {0, 1}
          BY <4>1, <5>1
        <5>. QED BY <5>1, <5>2
      <4>. QED BY <4>2, <4>3
    <3>3. next = [phase |-> st.phase, role |-> ExpectedRole(st, st.phase),
                  round |-> 0, member |-> NoMember]
      BY <2>3, <2>4, <3>2 DEF NextOpportunityForPhase
    <3>4. /\ next.phase = st.phase /\ next.role = ExpectedRole(st, st.phase)
          /\ next.phase # NoOpportunity.phase
      BY <2>4, <3>3 DEF MeritsPhases, NoOpportunity
    <3>5. st.policy.max_chars[st.phase] \in Nat \ {0} /\ 1 <= st.policy.max_chars[st.phase]
      BY <2>2, <2>4 DEF ValidPolicy, Policy
    <3>6. TextWithinLimit(st, st.phase, 1)
      BY <3>5 DEF TextWithinLimit
    <3>7. next.role \in Sides
      BY <3>4 DEF ExpectedRole, Sides
    <3>8. /\ 0 <= st.policy.exhibits_per_filing /\ 0 <= st.policy.reports_per_filing
          /\ st.offered[next.role] + 0 <= st.policy.exhibits_per_side
          /\ st.reports[next.role] + 0 <= st.policy.reports_per_side
      BY <1>1, <2>2, <3>7 DEF Inv, MaterialLimits, State, Materials, Policy
    <3> HIDE DEF next
    <3>9. CASE st.phase = "openings"
      <4>1. OpeningStatementOK(st, next.role, 1)
        BY <2>2, <3>4, <3>6, <3>9 DEF OpeningStatementOK
      <4>. QED BY <3>4, <3>9, <4>1 DEF EvidencePhases, next
    <3>10. CASE st.phase = "closings"
      <4>1. ClosingStatementOK(st, next.role, 1, 0, 0)
        BY <2>2, <3>4, <3>6, <3>10 DEF ClosingStatementOK
      <4>. QED BY <3>4, <3>10, <4>1 DEF EvidencePhases, next
    <3>11. CASE st.phase \in EvidencePhases
      <4>1. MeritsSubmissionOK(st, next.phase, next.role, 1, 0, 0)
        BY <2>2, <3>4, <3>6, <3>8 DEF MeritsSubmissionOK
      <4>. QED BY <3>4, <3>11, <4>1 DEF EvidencePhases, next
    <3>. QED BY <2>4, <3>9, <3>10, <3>11 DEF MeritsPhases, EvidencePhases
  <2>5. CASE st.phase = "deliberation"
    <3>1. AwaitedMembers(st) # {}
      BY <1>1, <2>2, <2>5, SomebodyAwaited DEF Inv, CouncilReady
    <3>2. next = [phase |-> st.phase, role |-> "council", round |-> st.round,
                  member |-> NextCouncilMember(st)]
      BY <2>3, <2>5, <3>1 DEF NextOpportunityForPhase, MeritsPhases
    <3>3. /\ next.phase = "deliberation" /\ next.role = "council"
          /\ next.member = NextCouncilMember(st) /\ next.phase # NoOpportunity.phase
      BY <2>5, <3>2 DEF NoOpportunity
    <3> HIDE DEF next
    <3>4. CouncilVoteOK(st, next.role, next.member, "demonstrated")
      <4>1. PICK i \in AwaitedMembers(st) : next.member = st.members[i].id
        BY <2>2, <3>1, <3>3, NextMemberAwaited
      <4>2. i \in SeatedMembers(st) /\ i \in DOMAIN st.members /\ ~ VotedThisRound(st, next.member)
        BY <4>1 DEF AwaitedMembers, SeatedMembers
      <4>. QED BY <2>2, <2>5, <3>3, <4>1, <4>2
               DEF CouncilVoteOK, KnownMember, SeatedMember, Ballots
    <3>. QED BY <2>5, <3>3, <3>4 DEF EvidencePhases, next
  <2>. QED BY <2>2, <2>4, <2>5
<1>. QED BY <1>1, Invariance, PTL

-----------------------------------------------------------------------------
(***************************************************************************)
(* What a case that is over keeps, and how one fails.                      *)
(***************************************************************************)

\* continueDeliberation leaves the status alone or closes the case, and gives a
\* resolution only to a case it closes.
LEMMA SettledOrOpen ==
  ASSUME NEW s \in State
  PROVE  LET u == StateWithCase(ContinueDeliberation(s)) IN
         \/ u.status = s.status /\ u.resolution = s.resolution
         \/ u.status = "closed"
<1> DEFINE c == ContinueDeliberation(s)
<1>1. \/ c.status = s.status /\ c.resolution = s.resolution
      \/ c.status = "closed"
  <2>1. \A r : Resolved(s, r).status = "closed"
    BY DEF Resolved, State
  <2>2. LET n == [s EXCEPT !.round = @ + 1] IN
        n.status = s.status /\ n.resolution = s.resolution
    BY DEF State
  <2>. QED BY <2>1, <2>2, Zenon DEF ContinueDeliberation
<1>2. c \in State
  BY ContinueDeliberationType
<1> HIDE DEF c
<1>3. StateWithCase(c).status = c.status /\ StateWithCase(c).resolution = c.resolution
  BY <1>2, VersionOnly
<1>. QED BY <1>1, <1>3 DEF c

\* A filing leaves status and resolution alone.
LEMMA FilingKeepsOutcome ==
  ASSUME Inv, Open(st), NEW phase \in MeritsPhases, st.phase = phase
  PROVE  LET t == StateWithCase(AddFiling(st, phase, ExpectedRole(st, phase))) IN
         t.status = st.status /\ t.resolution = st.resolution
<1> DEFINE t == AddFiling(st, phase, ExpectedRole(st, phase))
<1>1. t \in State
  <2>1. ExpectedRole(st, phase) \in Sides
    BY DEF ExpectedRole, Sides
  <2>. QED BY <2>1, AddFilingType DEF Inv, TypeOK
<1>2. t.status = st.status /\ t.resolution = st.resolution
  BY FilingFrame
<1> HIDE DEF t
<1>3. StateWithCase(t).status = t.status /\ StateWithCase(t).resolution = t.resolution
  BY <1>1, VersionOnly
<1>. QED BY <1>2, <1>3 DEF t

\* How a case comes to fail: by the opportunity that is open, a side's.
FailsByOpenOpportunity ==
  /\ st'.failure.opportunity = NextOpportunity(st)
  /\ st'.failure.opportunity.role \in Sides
  /\ st'.votes = st.votes

\* No request is accepted on a case that is over, only a request that closes the
\* case resolves it, and only a side's open opportunity fails it.
LEMMA OutcomeStep ==
  ASSUME Inv, Next
  PROVE  /\ Open(st)
         /\ st'.status # "closed" => st'.resolution = st.resolution
         /\ st.status = "active" /\ st'.status = "failed" => FailsByOpenOpportunity
<1> DEFINE Goal == /\ Open(st)
                   /\ st'.status # "closed" => st'.resolution = st.resolution
                   /\ st.status = "active" /\ st'.status = "failed" =>
                        FailsByOpenOpportunity
           Kept == st'.status = st.status /\ st'.resolution = st.resolution
<1>0. /\ st \in State
      /\ "openings" \in MeritsPhases /\ "closings" \in MeritsPhases
  BY DEF Inv, TypeOK, MeritsPhases
<1>1. ASSUME Open(st), Kept
       PROVE  Goal
  BY <1>1 DEF Open
<1>2. ASSUME NEW ids \in Rosters, InitializeCase(ids)
      PROVE  Goal
  <2>1. st.status = "draft" /\ st = DraftState(st.policy)
    BY <1>2 DEF InitializeCase, Inv, Frame
  <2>2. \A policy : DraftState(policy).resolution = ""
    BY DEF DraftState
  <2>3. st.resolution = ""
    BY <2>1, <2>2
  <2>4. st'.resolution = ""
    BY <1>2 DEF InitializeCase, AfterInitializeCase, StateWithCase, DraftState
  <2>. QED BY <2>1, <2>3, <2>4 DEF Open
<1>3. ASSUME NEW role \in Sides, NEW chars \in Chars, RecordOpeningStatement(role, chars)
      PROVE  Goal
  <2>1. Open(st) /\ Kept
    BY <1>0, <1>3, FilingKeepsOutcome
       DEF RecordOpeningStatement, OpeningStatementOK, AfterOpeningStatement
  <2>. QED BY <1>1, <2>1
<1>4. ASSUME NEW role \in Sides, NEW chars \in Chars, NEW e \in Amounts, NEW r \in Amounts,
             NEW phase \in EvidencePhases, MeritsSubmission(phase, role, chars, e, r)
      PROVE  Goal
  <2> DEFINE t == AddFiling(st, phase, ExpectedRole(st, phase))
  <2>1. /\ Open(st) /\ st.phase = phase /\ phase \in MeritsPhases
        /\ role \in Sides /\ role = ExpectedRole(st, phase)
        /\ st' = StateWithCase([t EXCEPT !.offered[role] = @ + e, !.reports[role] = @ + r])
    BY <1>4 DEF MeritsSubmission, MeritsSubmissionOK, AfterMeritsSubmission,
                EvidencePhases, MeritsPhases
  <2>2. t.status = st.status /\ t.resolution = st.resolution /\ t \in State
    <3>1. t.status = st.status /\ t.resolution = st.resolution
      BY <2>1, FilingFrame
    <3>. QED BY <1>0, <2>1, <3>1, AddFilingType
  <2> HIDE DEF t
  <2>3. Open(st) /\ Kept
    BY <2>1, <2>2 DEF StateWithCase, State
  <2>. QED BY <1>1, <2>3
<1>5. ASSUME NEW role \in Sides, NEW chars \in Chars, NEW e \in Amounts, NEW r \in Amounts,
             DeliverClosingStatement(role, chars, e, r)
      PROVE  Goal
  <2>1. Open(st) /\ Kept
    BY <1>0, <1>5, FilingKeepsOutcome
       DEF DeliverClosingStatement, ClosingStatementOK, AfterClosingStatement
  <2>. QED BY <1>1, <2>1
<1>6. ASSUME NEW role \in Sides, NEW id \in EvidenceIds, NEW bytes \in Sizes,
             SubmitEvidence(role, id, bytes)
      PROVE  Goal
  <2>1. Open(st) /\ Kept
    BY <1>0, <1>6
       DEF SubmitEvidence, SubmitEvidenceOK, AfterSubmitEvidence, StateWithCase, State
  <2>. QED BY <1>1, <2>1
<1>7. ASSUME NEW role \in Sides, PassPhaseOpportunity(role)
      PROVE  Goal
  <2>1. Open(st) /\ Kept
    BY <1>0, <1>7 DEF PassPhaseOpportunity, PassPhaseOK, AfterPassPhase, StateWithCase, State
  <2>. QED BY <1>1, <2>1
<1>8. ASSUME NEW s \in State, s.status = st.status, s.resolution = st.resolution,
             Open(st), st' = StateWithCase(ContinueDeliberation(s))
      PROVE  Goal
  <2>1. Kept \/ st'.status = "closed"
    BY <1>8, SettledOrOpen
  <2>. QED BY <1>1, <1>8, <2>1
<1>9. ASSUME NEW m \in MemberIds, NEW ballot \in Ballots,
             SubmitCouncilVote("council", m, ballot)
      PROVE  Goal
  <2> DEFINE v == [member |-> m, round |-> st.round, vote |-> ballot]
             t == [st EXCEPT !.votes = Append(@, v)]
  <2>1. Open(st) /\ st' = StateWithCase(ContinueDeliberation(t))
    BY <1>9 DEF SubmitCouncilVote, CouncilVoteOK, AfterCouncilVote
  <2>2. Append(st.votes, v) \in VoteList
    BY <1>0 DEF State, VoteList, Vote
  <2>3. t \in State /\ t.status = st.status /\ t.resolution = st.resolution
    BY <1>0, <2>2 DEF State
  <2> HIDE DEF t
  <2>. QED BY <1>8, <2>1, <2>3
<1>10. ASSUME NEW m, NEW status \in MemberStatuses, Open(st),
             st' = StateWithCase(ContinueDeliberation(Unseat(st, m, status)))
      PROVE  Goal
  <2>1. Unseat(st, m, status) \in State
    BY <1>0, UnseatType
  <2>2. /\ Unseat(st, m, status).status = st.status
        /\ Unseat(st, m, status).resolution = st.resolution
    BY <1>0 DEF Unseat, State
  <2>. QED BY <1>8, <1>10, <2>1, <2>2
<1>11. ASSUME NEW m \in MemberIds, NEW status \in MemberStatuses,
              RemoveCouncilMember("system", m, status)
       PROVE  Goal
  BY <1>10, <1>11 DEF RemoveCouncilMember, RemoveCouncilMemberOK, AfterRemoveCouncilMember
<1>12. ASSUME NEW opportunity, NEW m, NEW reason \in FailureReasons,
              FailOpportunity("system", opportunity, m, reason)
       PROVE  Goal
  <2>1. /\ Open(st) /\ opportunity = NextOpportunity(st) /\ opportunity # NoOpportunity
        /\ st' = AfterFailOpportunity(st, opportunity, m, reason)
    BY <1>12 DEF FailOpportunity, FailOpportunityOK
  <2>2. CASE opportunity.role = "council"
    BY <1>10, <2>1, <2>2 DEF AfterFailOpportunity, MemberStatuses
  <2>3. CASE opportunity.role # "council"
    <3> DEFINE f == [opportunity |-> opportunity, reason |-> reason]
    <3>1. st' = StateWithCase([st EXCEPT !.status = "failed", !.failure = f])
      BY <2>1, <2>3 DEF AfterFailOpportunity
    <3>2. f.opportunity = opportunity /\ opportunity.role \in Sides
      BY <1>0, <2>1, <2>3, SideOpportunityType
    <3> HIDE DEF f
    <3>3. /\ st'.failure = f /\ st'.votes = st.votes
          /\ st'.resolution = st.resolution
      BY <1>0, <3>1 DEF StateWithCase, State
    <3>. QED BY <2>1, <3>2, <3>3 DEF FailsByOpenOpportunity
  <2>. QED BY <2>2, <2>3
<1>. QED
  BY <1>2, <1>3, <1>4, <1>5, <1>6, <1>7, <1>9, <1>11, <1>12
     DEF Next, SubmitArgument, SubmitRebuttal, SubmitSurrebuttal, EvidencePhases,
         FailSomeOpportunity

\* A case that is not closed has no resolution, also one that has failed.
Undecided == st.status # "closed" => st.resolution = ""

\* Nothing resolves a case but what closes it, for every policy and history.
THEOREM UndecidedHolds == Spec => []Undecided
<1>1. Init => Undecided
  <2>1. \A policy : DraftState(policy).resolution = ""
    BY DEF DraftState
  <2>. QED BY <2>1 DEF Init, Undecided
<1>2. Inv /\ Undecided /\ [Next]_vars => Undecided'
  <2>1. ASSUME Inv, Undecided, Next
        PROVE  Undecided'
    BY <2>1, OutcomeStep DEF Undecided, Open
  <2>2. ASSUME Undecided, UNCHANGED st
        PROVE  Undecided'
    BY <2>2 DEF Undecided
  <2>. QED BY <2>1, <2>2 DEF vars
<1>. QED BY <1>1, <1>2, Invariance, PTL DEF Spec

\* Only a side's own open opportunity fails a case, without a resolution, and a
\* case that is over never changes: for every policy, roster and history.
THEOREM FailureIsCurrentHolds == Spec => FailureIsCurrent
<1> DEFINE A == /\ st.status = "active" /\ st'.status = "failed" =>
                     /\ st'.failure.opportunity = NextOpportunity(st)
                     /\ st'.failure.opportunity.role \in Sides
                     /\ st'.resolution = "" /\ st'.votes = st.votes
                /\ ~ Open(st) => st' = st
<1>1. Inv /\ Undecided /\ [Next]_vars => [A]_vars
  <2>1. ASSUME Inv, Undecided, Next
        PROVE  A
    BY <2>1, OutcomeStep DEF Undecided, FailsByOpenOpportunity
  <2>. QED BY <2>1
<1>. QED BY <1>1, Invariance, UndecidedHolds, PTL DEF Spec, FailureIsCurrent

-----------------------------------------------------------------------------
(* FixedFrameProgress: a case never rewrites what it is about or what has  *)
(* happened in it.                                                         *)

\* A list extends itself, and one more entry extends a list.
LEMMA Extending ==
  ASSUME NEW S, NEW q \in Seq(S), NEW e \in S
  PROVE  Extends(q, q) /\ Extends(Append(q, e), q)
BY DEF Extends

-----------------------------------------------------------------------------
(***************************************************************************)
(* FixedFrameProgress in three parts: the seats, the lists of the record,  *)
(* and the course of the case.                                             *)
(***************************************************************************)
SeatsOnlyEmptied ==
  /\ Len(st'.members) = Len(st.members)
  /\ \A i \in DOMAIN st.members :
       /\ st'.members[i].id = st.members[i].id
       /\ st.members[i].status # "seated" => st'.members[i].status = st.members[i].status

ListsExtended ==
  /\ \A phase \in MeritsPhases : Extends(st'.filings[phase], st.filings[phase])
  /\ Extends(st'.evidence, st.evidence)
  /\ Extends(st'.votes, st.votes)

CourseForward ==
  /\ PhaseRank(st.phase) <= PhaseRank(st'.phase)
  /\ st.round <= st'.round
  /\ st'.version = st.version + 1

Progress == st'.policy = st.policy /\ SeatsOnlyEmptied /\ ListsExtended /\ CourseForward

\* A list that is left alone is extended.
LEMMA ListsKept ==
  ASSUME NEW s \in State
  PROVE  /\ \A phase \in MeritsPhases : Extends(s.filings[phase], s.filings[phase])
         /\ Extends(s.evidence, s.evidence)
         /\ Extends(s.votes, s.votes)
<1>1. /\ \A phase \in MeritsPhases : Len(s.filings[phase]) \in Nat
      /\ Len(s.evidence) \in Nat /\ Len(s.votes) \in Nat
  BY DEF State, Filings, EvidenceList, VoteList
<1>. QED BY <1>1 DEF Extends

\* Every phase has a rank, and closed has the highest.
LEMMA PhaseRankType ==
  ASSUME NEW phase \in Phases
  PROVE  PhaseRank(phase) \in 0..7 /\ PhaseRank("closed") = 7
BY DEF Phases, MeritsPhases, PhaseRank

(***************************************************************************)
(* A filing, an exhibit, a pass or the failure of a side: the council is   *)
(* left alone, the lists grow, and the phase stays or is followed by the   *)
(* next one.                                                               *)
(***************************************************************************)
LEMMA MeritsProgress ==
  ASSUME st \in State, NEW phase \in MeritsPhases, st.phase = phase,
         st'.policy = st.policy, st'.members = st.members, st'.votes = st.votes,
         st'.round = st.round, st'.version = st.version + 1,
         st'.phase \in {phase, PhaseAfter(phase)},
         \A p \in MeritsPhases : Extends(st'.filings[p], st.filings[p]),
         Extends(st'.evidence, st.evidence)
  PROVE  Progress
<1>1. SeatsOnlyEmptied
  BY DEF SeatsOnlyEmptied
<1>2. ListsExtended
  BY ListsKept DEF ListsExtended
<1>3. CourseForward
  <2>1. PhaseRank(phase) \in Nat /\ PhaseRank(PhaseAfter(phase)) = PhaseRank(phase) + 1
    BY RankFacts
  <2>2. PhaseRank(st.phase) <= PhaseRank(st'.phase)
    BY <2>1
  <2>3. st.round <= st'.round
    BY DEF State
  <2>. QED BY <2>2, <2>3 DEF CourseForward
<1>. QED BY <1>1, <1>2, <1>3 DEF Progress

\* addFiling adds the filing to its phase and stays or goes to the next phase.
LEMMA FilingExtends ==
  ASSUME Inv, Open(st), NEW phase \in MeritsPhases, st.phase = phase
  PROVE  LET t == AddFiling(st, phase, ExpectedRole(st, phase)) IN
         /\ t.phase \in {phase, PhaseAfter(phase)}
         /\ \A p \in MeritsPhases : Extends(t.filings[p], st.filings[p])
<1> DEFINE role == ExpectedRole(st, phase)
           r == [st EXCEPT !.filings[phase] = Append(@, role)]
           t == AddFiling(st, phase, role)
<1>1. st \in State /\ Scheduled(st.filings, st.phase)
  BY OpenMerits
<1>2. role \in Sides
  BY DEF ExpectedRole, Sides
<1>3. /\ t.filings[phase] = Append(st.filings[phase], role)
      /\ \A p \in MeritsPhases : p # phase => t.filings[p] = st.filings[p]
  BY <1>1, FilingStep
<1>4. t.phase \in {phase, PhaseAfter(phase)}
  <2>1. r.phase = phase
    BY <1>1 DEF State
  <2>2. t \in {r, [r EXCEPT !.phase = PhaseAfter(r.phase)]}
    BY DEF AddFiling, AdvanceAfterMerits
  <2> HIDE DEF t
  <2>3. [r EXCEPT !.phase = PhaseAfter(r.phase)].phase = PhaseAfter(r.phase)
    BY <1>1 DEF State
  <2>. QED BY <2>1, <2>2, <2>3
<1> HIDE DEF role, t
<1>5. ASSUME NEW p \in MeritsPhases
      PROVE  Extends(t.filings[p], st.filings[p])
  <2>1. st.filings[p] \in Seq(Sides)
    BY <1>1 DEF State, Filings
  <2>. QED BY <1>2, <1>3, <2>1, Extending
<1>. QED BY <1>4, <1>5 DEF t, role

(***************************************************************************)
(* continueDeliberation keeps the record, the seats and the votes, and     *)
(* moves to the next round or to the end.                                  *)
(***************************************************************************)
LEMMA SettleKeeps ==
  ASSUME NEW s \in State
  PROVE  LET u == StateWithCase(ContinueDeliberation(s)) IN
         /\ SameRecord(s, u) /\ u.members = s.members /\ u.votes = s.votes
         /\ u.version = s.version + 1
         /\ u.round \in {s.round, s.round + 1} /\ u.phase \in {s.phase, "closed"}
<1> DEFINE Kept(u) == /\ SameRecord(s, u) /\ u.members = s.members /\ u.votes = s.votes
                      /\ u.version = s.version
                      /\ u.round \in {s.round, s.round + 1}
                      /\ u.phase \in {s.phase, "closed"}
           c == ContinueDeliberation(s)
<1>1. Kept(s)
  BY DEF SameRecord
<1>2. \A x : Kept(Resolved(s, x))
  BY DEF Resolved, State, SameRecord
<1>3. Kept([s EXCEPT !.round = @ + 1])
  BY DEF State, SameRecord
<1>4. Kept(c)
  <2> HIDE DEF Kept
  <2>. QED BY <1>1, <1>2, <1>3, Zenon DEF ContinueDeliberation
<1>5. c \in State
  BY ContinueDeliberationType
<1> HIDE DEF c
<1>6. /\ SameRecord(c, StateWithCase(c)) /\ StateWithCase(c).members = c.members
      /\ StateWithCase(c).votes = c.votes /\ StateWithCase(c).round = c.round
      /\ StateWithCase(c).phase = c.phase /\ StateWithCase(c).version = c.version + 1
  BY <1>5, VersionOnly
<1>. QED BY <1>4, <1>6 DEF c, SameRecord

\* A step of the deliberation: the seats and votes it starts from decide.
LEMMA CouncilProgress ==
  ASSUME st \in State, NEW t \in State, SameRecord(st, t), t.version = st.version,
         t.round = st.round, t.phase = st.phase, Extends(t.votes, st.votes),
         Len(t.members) = Len(st.members),
         \A i \in DOMAIN st.members :
           /\ t.members[i].id = st.members[i].id
           /\ st.members[i].status # "seated" =>
                t.members[i].status = st.members[i].status,
         st' = StateWithCase(ContinueDeliberation(t))
  PROVE  Progress
<1>1. /\ SameRecord(t, st') /\ st'.members = t.members /\ st'.votes = t.votes
      /\ st'.version = t.version + 1
      /\ st'.round \in {t.round, t.round + 1} /\ st'.phase \in {t.phase, "closed"}
  BY SettleKeeps
<1>2. /\ st'.policy = st.policy /\ st'.filings = st.filings /\ st'.evidence = st.evidence
  BY <1>1 DEF SameRecord
<1>3. SeatsOnlyEmptied
  BY <1>1 DEF SeatsOnlyEmptied
<1>4. ListsExtended
  BY <1>1, <1>2, ListsKept DEF ListsExtended
<1>5. CourseForward
  <2>1. st.phase \in Phases /\ st.round \in Nat
    BY DEF State
  <2>2. PhaseRank(st.phase) <= PhaseRank(st'.phase)
    BY <1>1, <2>1, PhaseRankType
  <2>3. st.round <= st'.round
    BY <1>1, <2>1
  <2>. QED BY <1>1, <2>2, <2>3 DEF CourseForward
<1>. QED BY <1>2, <1>3, <1>4, <1>5 DEF Progress

\* A removal or failure empties the one seat of a seated member.
LEMMA UnseatProgress ==
  ASSUME Inv, NEW m, NEW status \in MemberStatuses, MemberCanLeave(st, m),
         st' = StateWithCase(ContinueDeliberation(Unseat(st, m, status)))
  PROVE  Progress
<1> DEFINE t == Unseat(st, m, status)
<1>1. st \in State /\ DistinctSeats(st)
  BY DEF Inv, TypeOK, CouncilReady
<1>2. t \in State
  BY <1>1, UnseatType
<1>3. /\ SameRecord(st, t) /\ t.version = st.version /\ t.round = st.round
      /\ t.phase = st.phase /\ t.votes = st.votes
      /\ t.members = [i \in DOMAIN st.members |->
                        IF st.members[i].id = m
                          THEN [st.members[i] EXCEPT !.status = status]
                          ELSE st.members[i]]
  BY <1>1 DEF Unseat, State, SameRecord
<1> HIDE DEF t
<1>4. Len(t.members) = Len(st.members)
  <2>1. DOMAIN t.members = DOMAIN st.members
    BY <1>3
  <2>. QED BY <1>1, <1>2, <2>1, SeatsAndVotes
<1>5. PICK k \in SeatedMembers(st) : st.members[k].id = m
  BY DEF MemberCanLeave, SeatedMember
<1>6. ASSUME NEW i \in DOMAIN st.members
      PROVE  /\ t.members[i].id = st.members[i].id
             /\ st.members[i].status # "seated" =>
                  t.members[i].status = st.members[i].status
  <2>1. CASE st.members[i].id # m
    BY <1>3, <2>1
  <2>2. CASE st.members[i].id = m
    <3>1. i = k /\ st.members[i].status = "seated"
      BY <1>1, <1>5, <2>2 DEF DistinctSeats, SeatedMembers
    <3>2. st.members[i] \in Seat
      BY <1>1, SeatsAndVotes
    <3>3. t.members[i] = [st.members[i] EXCEPT !.status = status]
      BY <1>3, <2>2
    <3>4. t.members[i].id = st.members[i].id
      BY <3>2, <3>3 DEF Seat
    <3>. QED BY <3>1, <3>4
  <2>. QED BY <2>1, <2>2
<1>7. Extends(t.votes, st.votes)
  BY <1>1, <1>3, ListsKept
<1>. QED BY <1>1, <1>2, <1>3, <1>4, <1>6, <1>7, CouncilProgress DEF t

-----------------------------------------------------------------------------
(***************************************************************************)
(* Every accepted request on a case past its draft is progress.            *)
(***************************************************************************)
LEMMA ProgressStep ==
  ASSUME Inv, Next, st.status # "draft"
  PROVE  Progress
<1>0. /\ st \in State
      /\ "openings" \in MeritsPhases /\ "closings" \in MeritsPhases
      /\ \A phase \in EvidencePhases : phase \in MeritsPhases
  BY DEF Inv, TypeOK, MeritsPhases, EvidencePhases
<1>1. ASSUME NEW phase \in MeritsPhases, Open(st), st.phase = phase, NEW w,
             LET t == AddFiling(st, phase, ExpectedRole(st, phase)) IN
               /\ w.phase = t.phase /\ w.filings = t.filings
               /\ w.policy = t.policy /\ w.members = t.members /\ w.votes = t.votes
               /\ w.round = t.round /\ w.version = t.version /\ w.evidence = t.evidence,
             /\ st'.phase = w.phase /\ st'.filings = w.filings
             /\ st'.policy = w.policy /\ st'.members = w.members /\ st'.votes = w.votes
             /\ st'.round = w.round /\ st'.version = w.version + 1
             /\ st'.evidence = w.evidence
      PROVE  Progress
  <2> DEFINE t == AddFiling(st, phase, ExpectedRole(st, phase))
  <2>1. /\ t.members = st.members /\ t.votes = st.votes /\ t.round = st.round
        /\ t.policy = st.policy /\ t.evidence = st.evidence /\ t.version = st.version
    BY <1>1, FilingFrame
  <2>2. /\ t.phase \in {phase, PhaseAfter(phase)}
        /\ \A p \in MeritsPhases : Extends(t.filings[p], st.filings[p])
    BY <1>1, FilingExtends
  <2>3. Extends(st.evidence, st.evidence)
    BY <1>0, ListsKept
  <2> HIDE DEF t
  <2>4. /\ st'.policy = st.policy /\ st'.members = st.members /\ st'.votes = st.votes
        /\ st'.round = st.round /\ st'.version = st.version + 1
        /\ st'.evidence = st.evidence /\ st'.phase = t.phase /\ st'.filings = t.filings
    BY <1>1, <2>1 DEF t
  <2>. QED BY <1>0, <1>1, <2>2, <2>3, <2>4, MeritsProgress
<1>2. ASSUME NEW phase \in MeritsPhases, Open(st), st.phase = phase,
             st' = StateWithCase(AddFiling(st, phase, ExpectedRole(st, phase)))
      PROVE  Progress
  <2> DEFINE t == AddFiling(st, phase, ExpectedRole(st, phase))
  <2>1. ExpectedRole(st, phase) \in Sides
    BY DEF ExpectedRole, Sides
  <2>2. t \in State
    BY <1>0, <1>2, <2>1, AddFilingType
  <2>3. /\ st'.phase = t.phase /\ st'.filings = t.filings
        /\ st'.policy = t.policy /\ st'.members = t.members /\ st'.votes = t.votes
        /\ st'.round = t.round /\ st'.version = t.version + 1
        /\ st'.evidence = t.evidence
    <3> HIDE DEF t
    <3>1. st' = StateWithCase(t)
      BY <1>2 DEF t
    <3>. QED BY <2>2, <3>1, VersionOnly DEF SameRecord
  <2>. QED BY <1>1, <1>2, <2>3
<1>3. ASSUME NEW role \in Sides, NEW chars \in Chars, RecordOpeningStatement(role, chars)
      PROVE  Progress
  BY <1>0, <1>2, <1>3
     DEF RecordOpeningStatement, OpeningStatementOK, AfterOpeningStatement
<1>4. ASSUME NEW role \in Sides, NEW chars \in Chars, NEW e \in Amounts, NEW r \in Amounts,
             NEW phase \in EvidencePhases, MeritsSubmission(phase, role, chars, e, r)
      PROVE  Progress
  <2> DEFINE t == AddFiling(st, phase, ExpectedRole(st, phase))
             w == [t EXCEPT !.offered[role] = @ + e, !.reports[role] = @ + r]
  <2>1. /\ Open(st) /\ st.phase = phase /\ phase \in MeritsPhases
        /\ role = ExpectedRole(st, phase) /\ st' = StateWithCase(w)
    BY <1>0, <1>4 DEF MeritsSubmission, MeritsSubmissionOK, AfterMeritsSubmission
  <2>2. t \in State
    BY <1>0, <2>1, AddFilingType
  <2>3. /\ st'.phase = t.phase /\ st'.filings = t.filings
        /\ st'.policy = t.policy /\ st'.members = t.members /\ st'.votes = t.votes
        /\ st'.round = t.round /\ st'.version = t.version + 1
        /\ st'.evidence = t.evidence
    <3> HIDE DEF t
    <3>. QED BY <2>1, <2>2 DEF StateWithCase, State
  <2>. QED BY <1>1, <2>1, <2>3
<1>5. ASSUME NEW role \in Sides, NEW chars \in Chars, NEW e \in Amounts, NEW r \in Amounts,
             DeliverClosingStatement(role, chars, e, r)
      PROVE  Progress
  BY <1>0, <1>2, <1>5
     DEF DeliverClosingStatement, ClosingStatementOK, AfterClosingStatement
<1>6. ASSUME NEW role \in Sides, NEW id \in EvidenceIds, NEW bytes \in Sizes,
             SubmitEvidence(role, id, bytes)
      PROVE  Progress
  <2> DEFINE x == [id |-> id, role |-> role, phase |-> st.phase]
  <2>1. /\ st.phase \in EvidencePhases /\ st.phase \in MeritsPhases
        /\ st' = StateWithCase([st EXCEPT !.evidence = Append(@, x)])
    BY <1>0, <1>6 DEF SubmitEvidence, SubmitEvidenceOK, AfterSubmitEvidence
  <2>2. x \in Evidence /\ st.evidence \in Seq(Evidence)
    BY <1>0, <2>1 DEF Evidence, State, EvidenceList
  <2> HIDE DEF x
  <2>3. /\ st'.policy = st.policy /\ st'.members = st.members /\ st'.votes = st.votes
        /\ st'.round = st.round /\ st'.version = st.version + 1
        /\ st'.phase = st.phase /\ st'.filings = st.filings
        /\ st'.evidence = Append(st.evidence, x)
    BY <1>0, <2>1 DEF StateWithCase, State
  <2>4. Extends(st'.evidence, st.evidence)
    BY <2>2, <2>3, Extending
  <2>. QED BY <1>0, <2>1, <2>3, <2>4, ListsKept, MeritsProgress
<1>7. ASSUME NEW role \in Sides, PassPhaseOpportunity(role)
      PROVE  Progress
  <2>1. /\ st.phase \in MeritsPhases
        /\ st' = StateWithCase([st EXCEPT !.phase = PhaseAfter(st.phase)])
    BY <1>7 DEF PassPhaseOpportunity, PassPhaseOK, AfterPassPhase, MeritsPhases
  <2>2. /\ st'.policy = st.policy /\ st'.members = st.members /\ st'.votes = st.votes
        /\ st'.round = st.round /\ st'.version = st.version + 1
        /\ st'.phase = PhaseAfter(st.phase) /\ st'.filings = st.filings
        /\ st'.evidence = st.evidence
    BY <1>0, <2>1 DEF StateWithCase, State
  <2>. QED BY <1>0, <2>1, <2>2, ListsKept, MeritsProgress
<1>8. ASSUME NEW m \in MemberIds, NEW ballot \in Ballots,
             SubmitCouncilVote("council", m, ballot)
      PROVE  Progress
  <2> DEFINE v == [member |-> m, round |-> st.round, vote |-> ballot]
             t == [st EXCEPT !.votes = Append(@, v)]
  <2>1. st' = StateWithCase(ContinueDeliberation(t))
    BY <1>8 DEF SubmitCouncilVote, AfterCouncilVote
  <2>2. v \in Vote /\ st.votes \in Seq(Vote)
    BY <1>0 DEF State, Vote, VoteList
  <2>3. Append(st.votes, v) \in VoteList /\ Extends(Append(st.votes, v), st.votes)
    BY <2>2, Extending DEF VoteList
  <2> HIDE DEF v
  <2>4. /\ t \in State /\ SameRecord(st, t) /\ t.version = st.version
        /\ t.round = st.round /\ t.phase = st.phase /\ t.members = st.members
        /\ t.votes = Append(st.votes, v)
    BY <1>0, <2>3 DEF State, SameRecord
  <2> HIDE DEF t
  <2>. QED BY <1>0, <2>1, <2>3, <2>4, CouncilProgress
<1>9. ASSUME NEW m \in MemberIds, NEW status \in MemberStatuses,
             RemoveCouncilMember("system", m, status)
      PROVE  Progress
  BY <1>9, UnseatProgress
     DEF RemoveCouncilMember, RemoveCouncilMemberOK, AfterRemoveCouncilMember
<1>10. ASSUME NEW opportunity, NEW m, NEW reason \in FailureReasons,
              FailOpportunity("system", opportunity, m, reason)
       PROVE  Progress
  <2>1. /\ opportunity = NextOpportunity(st) /\ opportunity # NoOpportunity
        /\ opportunity.role = "council" => MemberCanLeave(st, m)
        /\ st' = AfterFailOpportunity(st, opportunity, m, reason)
    BY <1>10 DEF FailOpportunity, FailOpportunityOK
  <2>2. CASE opportunity.role = "council"
    BY <2>1, <2>2, UnseatProgress DEF AfterFailOpportunity, MemberStatuses
  <2>3. CASE opportunity.role # "council"
    <3> DEFINE f == [opportunity |-> opportunity, reason |-> reason]
    <3>1. st.phase \in MeritsPhases
      BY <1>0, <2>1, <2>3, SideOpportunityType
    <3>2. st' = StateWithCase([st EXCEPT !.status = "failed", !.failure = f])
      BY <2>1, <2>3 DEF AfterFailOpportunity
    <3> HIDE DEF f
    <3>3. /\ st'.policy = st.policy /\ st'.members = st.members /\ st'.votes = st.votes
          /\ st'.round = st.round /\ st'.version = st.version + 1
          /\ st'.phase = st.phase /\ st'.filings = st.filings
          /\ st'.evidence = st.evidence
      BY <1>0, <3>2 DEF StateWithCase, State
    <3>. QED BY <1>0, <3>1, <3>3, ListsKept, MeritsProgress
  <2>. QED BY <2>2, <2>3
<1>11. ASSUME NEW ids \in Rosters, InitializeCase(ids)
       PROVE  FALSE
  BY <1>11 DEF InitializeCase
<1>. QED
  BY <1>3, <1>4, <1>5, <1>6, <1>7, <1>8, <1>9, <1>10, <1>11
     DEF Next, SubmitArgument, SubmitRebuttal, SubmitSurrebuttal, EvidencePhases,
         FailSomeOpportunity

\* No request ever changes the policy or the ids of the council, withdraws a
\* filing, evidence or a vote, goes back in phase or round, or seats again a
\* member that has left: for every policy, roster and history.
THEOREM FixedFrameProgressHolds == Spec => FixedFrameProgress
<1> DEFINE A == st.status # "draft" =>
      /\ st'.policy = st.policy
      /\ Len(st'.members) = Len(st.members)
      /\ \A i \in DOMAIN st.members :
           /\ st'.members[i].id = st.members[i].id
           /\ st.members[i].status # "seated" =>
                st'.members[i].status = st.members[i].status
      /\ \A phase \in MeritsPhases : Extends(st'.filings[phase], st.filings[phase])
      /\ Extends(st'.evidence, st.evidence)
      /\ Extends(st'.votes, st.votes)
      /\ PhaseRank(st.phase) <= PhaseRank(st'.phase)
      /\ st.round <= st'.round
      /\ st'.version = st.version + 1
<1>1. ASSUME Inv, Next
      PROVE  A
  BY <1>1, ProgressStep DEF Progress, SeatsOnlyEmptied, ListsExtended, CourseForward
<1>2. Inv /\ [Next]_vars => [A]_vars
  BY <1>1
<1>. QED BY <1>2, Invariance, PTL DEF Spec, FixedFrameProgress

-----------------------------------------------------------------------------
(* ImplementsBallot: the engine runs the ballot CouncilBallot promises.    *)

\* The specification that is implemented counts as this module does.
LEMMA SameCount == ASSUME NEW S PROVE Ballot!Cardinality(S) = Cardinality(S)
BY DEF Ballot!Cardinality, Cardinality

Voters(s) == {s.votes[i].member : i \in CurrentRoundVotes(s)}

\* A function that hits every element of T once shows how many there are.
LEMMA SameSize ==
  ASSUME NEW S, IsFiniteSet(S), NEW T, NEW f \in [S -> T],
         \A x, y \in S : f[x] = f[y] => x = y,
         \A z \in T : \E x \in S : f[x] = z
  PROVE  IsFiniteSet(T) /\ Cardinality(T) = Cardinality(S)
<1>1. f \in Bijection(S, T)
  BY DEF Bijection, Injection, Surjection, IsInjective
<1>2. ExistsBijection(S, T)
  BY <1>1 DEF ExistsBijection
<1>. QED BY <1>2, FS_Bijection

\* The ballots of the round, read off the vote list, are those that were cast.
LEMMA CastFacts ==
  ASSUME NEW s, OneBallotEach(s)
  PROVE  /\ DOMAIN CastOf(s) = Voters(s)
         /\ \A i \in CurrentRoundVotes(s) : CastOf(s)[s.votes[i].member] = s.votes[i].vote
         /\ \A f : /\ f = [m \in DOMAIN f |-> f[m]]
                   /\ DOMAIN f = Voters(s)
                   /\ \A i \in CurrentRoundVotes(s) :
                        f[s.votes[i].member] = s.votes[i].vote
                   => f = CastOf(s)
<1>1. DOMAIN CastOf(s) = Voters(s)
  BY DEF CastOf, Voters
<1>2. ASSUME NEW i \in CurrentRoundVotes(s)
      PROVE  CastOf(s)[s.votes[i].member] = s.votes[i].vote
  <2> DEFINE m == s.votes[i].member
             j == CHOOSE k \in CurrentRoundVotes(s) : s.votes[k].member = m
  <2>1. j \in CurrentRoundVotes(s) /\ s.votes[j].member = m
    OBVIOUS
  <2>2. j = i
    BY <2>1 DEF OneBallotEach, CurrentRoundVotes
  <2>3. CastOf(s)[m] = s.votes[j].vote
    BY DEF CastOf
  <2>. QED BY <2>2, <2>3
<1>3. ASSUME NEW f, f = [m \in DOMAIN f |-> f[m]], DOMAIN f = Voters(s),
             \A i \in CurrentRoundVotes(s) : f[s.votes[i].member] = s.votes[i].vote
      PROVE  f = CastOf(s)
  <2>1. \A m \in Voters(s) : f[m] = CastOf(s)[m]
    BY <1>2, <1>3 DEF Voters
  <2>2. CastOf(s) = [m \in DOMAIN CastOf(s) |-> CastOf(s)[m]]
    BY DEF CastOf
  <2>. QED BY <1>1, <1>3, <2>1, <2>2
<1>. QED BY <1>1, <1>2, <1>3

\* Once deliberation has begun the bench is who is still seated.
LEMMA LateBench ==
  ASSUME NEW s, s.phase \in {"deliberation", "closed"}
  PROVE  BenchOf(s) = {s.members[i].id : i \in SeatedMembers(s)}
<1>1. PhaseRank(s.phase) \in {6, 7}
  BY DEF PhaseRank
<1>2. ~ (PhaseRank(s.phase) < 6)
  BY <1>1
<1>. QED BY <1>2 DEF BenchOf

\* Counting seats and votes is counting members and ballots.
LEMMA RoundCounts ==
  ASSUME NEW s \in State, Bench(s), s.phase = "deliberation"
  PROVE  /\ Cardinality(BenchOf(s)) = Cardinality(SeatedMembers(s))
         /\ DOMAIN CastOf(s) = BenchOf(s) <=>
              Cardinality(CurrentRoundVotes(s)) = Cardinality(SeatedMembers(s))
         /\ \A b : Ballot!Votes(CastOf(s), b) = VoteCountFor(s, b)
<1> DEFINE V == CurrentRoundVotes(s)
           B == SeatedMembers(s)
           ids == {s.members[k].id : k \in B}
<1>1. IsFiniteSet(B) /\ IsFiniteSet(V)
  BY SeatsAndVotesFinite
<1>2. BenchOf(s) = ids
  BY LateBench
<1>3. \A k, l \in B : s.members[k].id = s.members[l].id => k = l
  BY DEF Bench, DistinctSeats, SeatedMembers
<1>4. \A i, j \in V : s.votes[i].member = s.votes[j].member => i = j
  BY DEF Bench, OneBallotEach, CurrentRoundVotes
<1>5. IsFiniteSet(ids) /\ Cardinality(ids) = Cardinality(B)
  <2> DEFINE f == [k \in B |-> s.members[k].id]
  <2>1. /\ f \in [B -> ids] /\ \A k, l \in B : f[k] = f[l] => k = l
        /\ \A z \in ids : \E k \in B : f[k] = z
    BY <1>3
  <2> HIDE DEF f, B, ids
  <2>. QED BY <1>1, <2>1, SameSize
<1>6. IsFiniteSet(Voters(s)) /\ Cardinality(Voters(s)) = Cardinality(V)
  <2> DEFINE f == [i \in V |-> s.votes[i].member]
  <2>1. /\ f \in [V -> Voters(s)] /\ \A i, j \in V : f[i] = f[j] => i = j
        /\ \A z \in Voters(s) : \E i \in V : f[i] = z
    BY <1>4 DEF Voters
  <2> HIDE DEF f, V
  <2>. QED BY <1>1, <2>1, SameSize
<1>7. Voters(s) \in SUBSET ids
  BY DEF Bench, VotersSeated, SeatedMember, Voters
<1>8. DOMAIN CastOf(s) = Voters(s)
  BY CastFacts DEF Bench
<1>9. Voters(s) = ids <=> Cardinality(V) = Cardinality(B)
  <2> HIDE DEF ids, V, B
  <2>. QED BY <1>5, <1>6, <1>7, FS_Subset
<1>10. ASSUME NEW b
       PROVE  Ballot!Votes(CastOf(s), b) = VoteCountFor(s, b)
  <2> DEFINE S == {i \in V : s.votes[i].vote = b}
             T == {m \in DOMAIN CastOf(s) : CastOf(s)[m] = b}
             f == [i \in S |-> s.votes[i].member]
  <2>1. IsFiniteSet(S)
    BY <1>1, FS_Subset
  <2>2. \A i \in V : CastOf(s)[s.votes[i].member] = s.votes[i].vote
    BY CastFacts DEF Bench
  <2>3. f \in [S -> T] /\ \A z \in T : \E i \in S : f[i] = z
    BY <1>8, <2>2 DEF Voters
  <2>4. \A i, j \in S : f[i] = f[j] => i = j
    BY <1>4
  <2>5. Cardinality(T) = Cardinality(S)
    <3> HIDE DEF S, T, f
    <3>. QED BY <2>1, <2>3, <2>4, SameSize
  <2>. QED BY <2>5, SameCount DEF Ballot!Votes, VoteCountFor
<1>. QED BY <1>2, <1>5, <1>8, <1>9, <1>10

-----------------------------------------------------------------------------
(* A round is settled as the ballot says.                                  *)

\* Who is on the council and how it votes depends on seats, votes and round.
LEMMA SameBallot ==
  ASSUME NEW s, NEW t, t.members = s.members, t.votes = s.votes, t.round = s.round
  PROVE  /\ CastOf(t) = CastOf(s)
         /\ {t.phase, s.phase} \subseteq {"deliberation", "closed"} =>
              BenchOf(t) = BenchOf(s)
<1>1. CurrentRoundVotes(t) = CurrentRoundVotes(s) /\ SeatedMembers(t) = SeatedMembers(s)
  BY SameCouncil
<1>2. CastOf(t) = CastOf(s)
  BY <1>1 DEF CastOf
<1>3. ASSUME {t.phase, s.phase} \subseteq {"deliberation", "closed"}
      PROVE  BenchOf(t) = BenchOf(s)
  <2>1. \A x \in {s, t} : BenchOf(x) = {x.members[i].id : i \in SeatedMembers(x)}
    BY <1>3, LateBench
  <2>. QED BY <1>1, <2>1
<1>. QED BY <1>2, <1>3

\* Nobody has voted before the first vote.
LEMMA NobodyCast ==
  ASSUME NEW s, s.votes = <<>>
  PROVE  CastOf(s) = [m \in {} |-> "none"]
<1>1. CurrentRoundVotes(s) = {}
  <2>1. DOMAIN s.votes = {}
    <3>1. DOMAIN <<>> = {}
      OBVIOUS
    <3>. QED BY <3>1
  <2>. QED BY <2>1 DEF CurrentRoundVotes
<1>2. {s.votes[i].member : i \in CurrentRoundVotes(s)} = {}
  BY <1>1
<1>. QED BY <1>2 DEF CastOf

\* A deliberation is about to be settled: t is the case with its latest ballot
\* or departure, and is otherwise as st.
Settling(t) ==
  /\ t \in State /\ t.status = "active" /\ t.phase = "deliberation" /\ t.resolution = ""
  /\ Len(t.members) = t.policy.council_size
  /\ Bench(t) /\ t.round \in 1..t.policy.max_rounds
  /\ t.round = st.round /\ t.policy = st.policy
  /\ st.resolution = "" /\ st.status = "active" /\ st.phase = "deliberation"
  /\ st' = StateWithCase(ContinueDeliberation(t))

\* continueDeliberation settles a round as the ballot does: it waits for the
\* members without a ballot, decides, opens a round, or closes without a majority.
LEMMA SettleIsBallot ==
  ASSUME NEW t, Settling(t)
  PROVE  /\ Ballot!Settle(BenchOf(t), CastOf(t))
         /\ BenchOf(st') = BenchOf(t) /\ st'.policy = st.policy
<1> DEFINE u == ContinueDeliberation(t)
           req == t.policy.required_votes
           yes == VoteCountFor(t, "demonstrated")
           no == VoteCountFor(t, "not_demonstrated")
           votes == Cardinality(CurrentRoundVotes(t))
           seats == Cardinality(SeatedMembers(t))
           b == BenchOf(t)
           c == CastOf(t)
<1>0. /\ t.status = "active" /\ t.phase = "deliberation" /\ t.resolution = ""
      /\ t.round = st.round /\ t.policy = st.policy
  BY DEF Settling
<1>1. /\ Cardinality(b) = seats
      /\ DOMAIN c = b <=> votes = seats
      /\ \A x : Ballot!Votes(c, x) = VoteCountFor(t, x)
      /\ Ballot!Cardinality(b) = seats
  BY RoundCounts, SameCount DEF Settling
<1>2. u \in State
  BY ContinueDeliberationType DEF Settling
<1>3. /\ st'.members = u.members /\ st'.votes = u.votes /\ st'.round = u.round
      /\ st'.status = u.status /\ st'.phase = u.phase /\ st'.resolution = u.resolution
      /\ st'.policy = u.policy
  <2> HIDE DEF u
  <2>1. st' = StateWithCase(u)
    BY DEF u, Settling
  <2>. QED BY <1>2, <2>1, VersionOnly DEF SameRecord
<1>4. /\ RuleOf(st.policy).required = req /\ RuleOf(st.policy).rounds = t.policy.max_rounds
      /\ StageOf(st) = "voting" /\ st.resolution = ""
  BY DEF RuleOf, StageOf, Settling
<1>5. t.round <= t.policy.max_rounds /\ t.round \in Nat /\ t.policy.max_rounds \in Nat
  <2>1. t.policy \in Policy /\ t.round \in Nat
    BY DEF State, Settling
  <2>2. t.policy.max_rounds \in Nat
    BY <2>1 DEF Policy
  <2>3. t.round \in 1..t.policy.max_rounds
    BY DEF Settling
  <2>. QED BY <2>1, <2>2, <2>3
<1>6. CASE votes # seats
  <2>1. u = t
    BY <1>6 DEF ContinueDeliberation
  <2>2. /\ CastOf(st') = c /\ BenchOf(st') = b
        /\ StageOf(st') = "voting" /\ st'.round = st.round /\ st'.resolution = ""
        /\ st'.policy = st.policy
    <3>1. /\ st'.members = t.members /\ st'.votes = t.votes /\ st'.round = t.round
          /\ st'.status = "active" /\ st'.phase = "deliberation"
          /\ st'.resolution = "" /\ st'.policy = st.policy
      BY <1>0, <1>3, <2>1
    <3>2. CastOf(st') = c
      BY <3>1, SameBallot
    <3>3. BenchOf(st') = b
      BY <1>0, <3>1, SameBallot
    <3>4. StageOf(st') = "voting"
      BY <3>1 DEF StageOf
    <3>. QED BY <1>0, <3>1, <3>2, <3>3, <3>4
  <2>. QED BY <1>1, <1>4, <1>6, <2>2 DEF Ballot!Settle
<1>7. ASSUME NEW r \in Ballots \cup {"no_majority"}, u = Resolved(t, r)
      PROVE  /\ CastOf(st') = c /\ BenchOf(st') = b /\ StageOf(st') = "over"
             /\ st'.round = st.round /\ st'.resolution = r /\ r # ""
             /\ st'.policy = st.policy
  <2>1. /\ u.members = t.members /\ u.votes = t.votes /\ u.round = t.round
        /\ u.status = "closed" /\ u.phase = "closed" /\ u.resolution = r
        /\ u.policy = t.policy
    BY <1>7 DEF Resolved, State, Settling
  <2> HIDE DEF u
  <2>2. /\ st'.members = t.members /\ st'.votes = t.votes /\ st'.round = t.round
        /\ st'.status = "closed" /\ st'.phase = "closed"
        /\ st'.resolution = r /\ st'.policy = st.policy
    BY <1>0, <1>3, <2>1
  <2>3. CastOf(st') = c
    BY <2>2, SameBallot
  <2>4. BenchOf(st') = b
    BY <1>0, <2>2, SameBallot
  <2>5. StageOf(st') = "over"
    BY <2>2 DEF StageOf
  <2>6. r # ""
    BY DEF Ballots
  <2>. QED BY <1>0, <2>2, <2>3, <2>4, <2>5, <2>6
<1>8. CASE votes = seats /\ yes >= req
  <2>1. u = Resolved(t, "demonstrated")
    BY <1>8 DEF ContinueDeliberation
  <2>. QED BY <1>1, <1>4, <1>7, <1>8, <2>1 DEF Ballot!Settle, Ballot!Close, Ballots
<1>9. CASE votes = seats /\ ~ (yes >= req) /\ no >= req
  <2>1. u = Resolved(t, "not_demonstrated")
    BY <1>9 DEF ContinueDeliberation
  <2>. QED BY <1>1, <1>4, <1>7, <1>9, <2>1 DEF Ballot!Settle, Ballot!Close, Ballots
<1>10. CASE /\ votes = seats /\ ~ (yes >= req) /\ ~ (no >= req)
            /\ (seats < req \/ t.round >= t.policy.max_rounds)
  <2>1. u = Resolved(t, "no_majority")
    BY <1>10 DEF ContinueDeliberation
  <2>2. seats < req \/ st.round = t.policy.max_rounds
    <3>1. t.round = st.round
      BY <1>0
    <3>2. t.round = t.policy.max_rounds \/ seats < req
      BY <1>5, <1>10
    <3>. QED BY <3>1, <3>2
  <2>. QED BY <1>1, <1>4, <1>7, <1>10, <2>1, <2>2 DEF Ballot!Settle, Ballot!Close
<1>11. CASE /\ votes = seats /\ ~ (yes >= req) /\ ~ (no >= req)
            /\ ~ (seats < req \/ t.round >= t.policy.max_rounds)
  <2>1. u = [t EXCEPT !.round = @ + 1]
    BY <1>11 DEF ContinueDeliberation
  <2>2. /\ u.members = t.members /\ u.votes = t.votes /\ u.round = t.round + 1
        /\ u.status = "active" /\ u.phase = "deliberation" /\ u.resolution = ""
        /\ u.policy = t.policy
    BY <2>1 DEF State, Settling
  <2> HIDE DEF u
  <2>3. \A i \in DOMAIN t.votes : t.votes[i].round \in 1..t.round
    BY DEF Bench, RoundsBegun, Settling
  <2>4. CurrentRoundVotes(st') = {}
    <3>1. st'.votes = t.votes /\ st'.round = t.round + 1
      BY <1>3, <2>2
    <3>2. \A i \in DOMAIN t.votes : t.votes[i].round # t.round + 1
      BY <1>5, <2>3
    <3>. QED BY <3>1, <3>2 DEF CurrentRoundVotes
  <2>5. CastOf(st') = [m \in {} |-> "none"]
    <3>1. {st'.votes[i].member : i \in CurrentRoundVotes(st')} = {}
      BY <2>4
    <3>. QED BY <3>1 DEF CastOf
  <2>6. SeatedMembers(st') = SeatedMembers(t)
    BY <1>3, <2>2 DEF SeatedMembers
  <2>7. BenchOf(st') = b
    <3>1. st'.members = t.members /\ st'.phase = "deliberation"
      BY <1>3, <2>2
    <3>2. BenchOf(st') = {st'.members[i].id : i \in SeatedMembers(st')}
      BY <3>1, LateBench
    <3>3. b = {t.members[i].id : i \in SeatedMembers(t)}
      <4>1. t.phase \in {"deliberation", "closed"}
        BY <1>0
      <4>. QED BY <4>1, LateBench
    <3>. QED BY <2>6, <3>1, <3>2, <3>3
  <2>8. /\ StageOf(st') = "voting" /\ st'.round = st.round + 1 /\ st'.resolution = ""
        /\ st'.policy = st.policy
    BY <1>3, <2>2 DEF StageOf, Settling
  <2>9. ~ (st.round = t.policy.max_rounds)
    BY <1>0, <1>5, <1>11
  <2>10. DOMAIN c = b /\ ~ (Ballot!Cardinality(b) < req)
         /\ ~ (Ballot!Votes(c, "demonstrated") >= req)
         /\ ~ (Ballot!Votes(c, "not_demonstrated") >= req)
    BY <1>1, <1>11
  <2>. QED BY <1>4, <2>5, <2>7, <2>8, <2>9, <2>10 DEF Ballot!Settle
<1>. QED BY <1>6, <1>8, <1>9, <1>10, <1>11

\* What a reached bench leaves to settle.
LEMMA ReachedSettles ==
  ASSUME Inv, Undecided, st.phase = "deliberation", st.status = "active",
         NEW t, Reached(t)
  PROVE  Settling(t)
<1>1. /\ Len(st.members) = st.policy.council_size
      /\ st.round \in 1..st.policy.max_rounds
  BY DEF Inv, Frame, CouncilReady
<1>2. t.policy = st.policy
  BY DEF Reached, SameRecord
<1>3. st.resolution = ""
  BY DEF Undecided
<1>. QED BY <1>1, <1>2, <1>3 DEF Reached, Settling

\* An accepted vote casts a ballot.
LEMMA VoteIsCast ==
  ASSUME Inv, Undecided, NEW m \in MemberIds, NEW ballot \in Ballots,
         SubmitCouncilVote("council", m, ballot)
  PROVE  Ballot!Cast(m, ballot)
<1> DEFINE v == [member |-> m, round |-> st.round, vote |-> ballot]
           t == [st EXCEPT !.votes = Append(@, v)]
           after == [x \in DOMAIN CastOf(st) \cup {m} |->
                       IF x = m THEN ballot ELSE CastOf(st)[x]]
<1>1. /\ st.phase = "deliberation" /\ st.status = "active"
      /\ SeatedMember(st, m) /\ ~ VotedThisRound(st, m)
  BY DEF SubmitCouncilVote, CouncilVoteOK, Open, Inv, Frame, TypeOK, State, Statuses
<1>2. Reached(t) /\ t.members = st.members /\ t.votes = Append(st.votes, v)
  BY VoteReaches
<1>3. v.member = m /\ v.round = st.round /\ v.vote = ballot
  OBVIOUS
<1> HIDE DEF t, v
<1>4. Settling(t)
  BY <1>1, <1>2, ReachedSettles
<1>5. t.phase = "deliberation" /\ t.round = st.round
  BY <1>2 DEF Reached
<1>6. BenchOf(t) = BenchOf(st)
  <2>1. /\ BenchOf(t) = {t.members[i].id : i \in SeatedMembers(t)}
        /\ BenchOf(st) = {st.members[i].id : i \in SeatedMembers(st)}
    BY <1>1, <1>5, LateBench
  <2>2. SeatedMembers(t) = SeatedMembers(st)
    BY <1>2 DEF SeatedMembers
  <2>. QED BY <1>2, <2>1, <2>2
<1>7. OneBallotEach(st) /\ OneBallotEach(t)
  BY <1>2 DEF Inv, VoteIntegrity, Reached, Bench
<1>8. DOMAIN CastOf(st) = Voters(st)
  BY <1>7, CastFacts
<1>9. m \in BenchOf(st) \ DOMAIN CastOf(st)
  <2>1. m \in BenchOf(st)
    BY <1>1, LateBench DEF SeatedMember
  <2>2. m \notin Voters(st)
    BY <1>1 DEF Voters, VotedThisRound
  <2>. QED BY <1>8, <2>1, <2>2
<1>10. /\ CurrentRoundVotes(t) = CurrentRoundVotes(st) \cup {Len(st.votes) + 1}
       /\ t.votes[Len(st.votes) + 1] = v
       /\ \A i \in CurrentRoundVotes(st) : t.votes[i] = st.votes[i]
  <2>1. /\ Len(st.votes) \in Nat /\ DOMAIN st.votes = 1..Len(st.votes)
        /\ DOMAIN t.votes = 1..(Len(st.votes) + 1)
        /\ t.votes[Len(st.votes) + 1] = v
        /\ \A i \in DOMAIN st.votes : t.votes[i] = st.votes[i]
    <3>1. st.votes \in Seq(Vote)
      BY DEF Inv, TypeOK, State, VoteList
    <3>. QED BY <1>2, <3>1
  <2>. QED BY <1>3, <1>5, <2>1 DEF CurrentRoundVotes
<1>11. after = CastOf(t)
  <2>1. DOMAIN after = Voters(t)
    BY <1>3, <1>8, <1>10 DEF Voters
  <2>2. ASSUME NEW i \in CurrentRoundVotes(t)
        PROVE  after[t.votes[i].member] = t.votes[i].vote
    <3>1. CASE i \in CurrentRoundVotes(st)
      <4>1. st.votes[i].member \in Voters(st) /\ st.votes[i].member # m
        BY <1>1, <3>1 DEF Voters, VotedThisRound
      <4>2. CastOf(st)[st.votes[i].member] = st.votes[i].vote
        BY <1>7, <3>1, CastFacts
      <4>. QED BY <1>8, <1>10, <3>1, <4>1, <4>2
    <3>2. CASE i = Len(st.votes) + 1
      BY <1>3, <1>10, <3>2
    <3>. QED BY <1>10, <3>1, <3>2
  <2>3. after = [x \in DOMAIN after |-> after[x]]
    OBVIOUS
  <2> HIDE DEF after
  <2>. QED BY <1>7, <2>1, <2>2, <2>3, CastFacts
<1>12. /\ Ballot!Settle(BenchOf(t), CastOf(t))
       /\ BenchOf(st') = BenchOf(t) /\ st'.policy = st.policy
  BY <1>4, SettleIsBallot
<1>13. StageOf(st) = "voting"
  BY <1>1 DEF StageOf
<1>14. Ballot!Settle(BenchOf(st), after)
  BY <1>6, <1>11, <1>12
<1>15. RuleOf(st.policy)' = RuleOf(st.policy) /\ BenchOf(st)' = BenchOf(st)
  BY <1>6, <1>12
<1> HIDE DEF after
<1>. QED BY <1>9, <1>13, <1>14, <1>15 DEF Ballot!Cast, after

\* A removal, or a failure of a seat, lets a member leave the bench.
LEMMA UnseatIsLeave ==
  ASSUME Inv, Undecided, NEW m, NEW status \in MemberStatuses \ {"seated"},
         st.status = "active", MemberCanLeave(st, m),
         st' = StateWithCase(ContinueDeliberation(Unseat(st, m, status)))
  PROVE  m \in MemberIds /\ Ballot!Leave(m)
<1> DEFINE t == Unseat(st, m, status)
<1>1. /\ st \in State /\ st.phase = "deliberation"
      /\ SeatedMember(st, m) /\ ~ VotedThisRound(st, m)
  BY DEF Inv, TypeOK, MemberCanLeave
<1>2. Reached(t)
  BY UnseatReaches
<1>3. /\ t.votes = st.votes /\ t.round = st.round /\ t.phase = "deliberation"
      /\ t.members = [i \in DOMAIN st.members |->
                        IF st.members[i].id = m
                          THEN [st.members[i] EXCEPT !.status = status]
                          ELSE st.members[i]]
  BY <1>1 DEF Unseat, State
<1> HIDE DEF t
<1>4. ASSUME NEW i \in DOMAIN st.members
      PROVE  /\ t.members[i].id = st.members[i].id
             /\ t.members[i].status =
                  IF st.members[i].id = m THEN status ELSE st.members[i].status
  <2>1. st.members[i] \in Seat
    BY <1>1, SeatsAndVotes
  <2>2. t.members[i] = IF st.members[i].id = m
                         THEN [st.members[i] EXCEPT !.status = status]
                         ELSE st.members[i]
    BY <1>3
  <2>. QED BY <2>1, <2>2 DEF Seat
<1>5. Settling(t)
  BY <1>1, <1>2, ReachedSettles
<1>6. CastOf(t) = CastOf(st)
  <2>1. CurrentRoundVotes(t) = CurrentRoundVotes(st)
    BY <1>3 DEF CurrentRoundVotes
  <2>. QED BY <1>3, <2>1 DEF CastOf
<1>7. BenchOf(t) = BenchOf(st) \ {m}
  <2>1. /\ BenchOf(t) = {t.members[i].id : i \in SeatedMembers(t)}
        /\ BenchOf(st) = {st.members[i].id : i \in SeatedMembers(st)}
    <3>1. BenchOf(t) = {t.members[i].id : i \in SeatedMembers(t)}
      <4>1. t.phase \in {"deliberation", "closed"}
        BY <1>3
      <4>. QED BY <4>1, LateBench
    <3>2. BenchOf(st) = {st.members[i].id : i \in SeatedMembers(st)}
      BY <1>1, LateBench
    <3>. QED BY <3>1, <3>2
  <2>2. DOMAIN t.members = DOMAIN st.members
    BY <1>3
  <2>3. SeatedMembers(t) = {i \in SeatedMembers(st) : st.members[i].id # m}
    BY <1>4, <2>2 DEF SeatedMembers
  <2>4. \A i \in SeatedMembers(st) : t.members[i].id = st.members[i].id
    BY <1>4 DEF SeatedMembers
  <2>. QED BY <2>1, <2>3, <2>4
<1>8. m \in BenchOf(st) \ DOMAIN CastOf(st)
  <2>1. m \in BenchOf(st)
    BY <1>1, LateBench DEF SeatedMember
  <2>2. m \notin Voters(st)
    BY <1>1 DEF Voters, VotedThisRound
  <2>3. DOMAIN CastOf(st) = Voters(st)
    BY CastFacts DEF Inv, VoteIntegrity
  <2>. QED BY <2>1, <2>2, <2>3
<1>9. m \in MemberIds
  <2>1. PICK i \in SeatedMembers(st) : st.members[i].id = m
    BY <1>1 DEF SeatedMember
  <2>2. st.members[i] \in Seat
    BY <1>1, SeatsAndVotes DEF SeatedMembers
  <2>. QED BY <2>1, <2>2 DEF Seat
<1>10. /\ Ballot!Settle(BenchOf(t), CastOf(t))
       /\ BenchOf(st') = BenchOf(t) /\ st'.policy = st.policy
  BY <1>5, SettleIsBallot
<1>11. StageOf(st) = "voting"
  BY <1>1 DEF StageOf
<1>12. Ballot!Settle(BenchOf(st) \ {m}, CastOf(st))
  BY <1>6, <1>7, <1>10
<1>13. RuleOf(st.policy)' = RuleOf(st.policy) /\ BenchOf(st)' = BenchOf(st) \ {m}
  BY <1>7, <1>10
<1>. QED BY <1>8, <1>9, <1>11, <1>12, <1>13 DEF Ballot!Leave

-----------------------------------------------------------------------------
(* Before deliberation nothing happens on the council but that it sits.    *)

\* What a filing, a pass or new evidence does to course and council.
CouncilUntouched ==
  /\ st'.members = st.members /\ st'.votes = st.votes /\ st'.round = st.round
  /\ st'.policy = st.policy /\ st'.resolution = st.resolution

StaysOnCourse ==
  /\ st.status = "active" /\ st'.status = "active"
  /\ st.phase \in MeritsPhases /\ st'.phase \in MeritsPhases \cup {"deliberation"}

LEMMA FilingOnCourse ==
  ASSUME Inv, Open(st), NEW phase \in MeritsPhases, st.phase = phase
  PROVE  LET t == AddFiling(st, phase, ExpectedRole(st, phase)) IN
         /\ t \in State /\ t.status = "active"
         /\ t.phase \in MeritsPhases \cup {"deliberation"}
         /\ t.members = st.members /\ t.votes = st.votes /\ t.round = st.round
         /\ t.policy = st.policy /\ t.resolution = st.resolution
<1>1. st \in State /\ st.status = "active" /\ Scheduled(st.filings, st.phase)
  BY OpenMerits
<1>2. ExpectedRole(st, phase) \in Sides
  BY DEF ExpectedRole, Sides
<1>. QED BY <1>1, <1>2, AddFilingType, FilingStep, FilingFrame

\* Opening and closing statements.
LEMMA StatementOnCourse ==
  ASSUME Inv, Open(st), NEW phase \in MeritsPhases, st.phase = phase,
         st' = StateWithCase(AddFiling(st, phase, ExpectedRole(st, phase)))
  PROVE  CouncilUntouched /\ StaysOnCourse
<1> DEFINE t == AddFiling(st, phase, ExpectedRole(st, phase))
<1>1. /\ t \in State /\ t.status = "active"
      /\ t.phase \in MeritsPhases \cup {"deliberation"}
      /\ t.members = st.members /\ t.votes = st.votes /\ t.round = st.round
      /\ t.policy = st.policy /\ t.resolution = st.resolution
  BY FilingOnCourse
<1>2. st' = StateWithCase(t)
  OBVIOUS
<1> HIDE DEF t
<1>3. /\ SameRecord(t, st') /\ st'.members = t.members /\ st'.votes = t.votes
      /\ st'.round = t.round /\ st'.status = t.status /\ st'.phase = t.phase
      /\ st'.resolution = t.resolution
  BY <1>1, <1>2, VersionOnly
<1>4. st.status = "active"
  BY OpenMerits
<1>. QED BY <1>1, <1>3, <1>4 DEF CouncilUntouched, StaysOnCourse, SameRecord

\* Arguments, rebuttals and surrebuttals.
LEMMA SubmissionOnCourse ==
  ASSUME Inv, NEW role \in Sides, NEW chars \in Chars, NEW e \in Amounts, NEW r \in Amounts,
         NEW phase \in EvidencePhases, MeritsSubmission(phase, role, chars, e, r)
  PROVE  CouncilUntouched /\ StaysOnCourse
<1> DEFINE t == AddFiling(st, phase, ExpectedRole(st, phase))
<1>1. /\ Open(st) /\ st.phase = phase /\ phase \in MeritsPhases
      /\ role = ExpectedRole(st, phase)
      /\ st' = StateWithCase([t EXCEPT !.offered[role] = @ + e, !.reports[role] = @ + r])
  BY DEF MeritsSubmission, MeritsSubmissionOK, AfterMeritsSubmission,
         EvidencePhases, MeritsPhases
<1>2. /\ t \in State /\ t.status = "active"
      /\ t.phase \in MeritsPhases \cup {"deliberation"}
      /\ t.members = st.members /\ t.votes = st.votes /\ t.round = st.round
      /\ t.policy = st.policy /\ t.resolution = st.resolution
  BY <1>1, FilingOnCourse
<1> HIDE DEF t
<1>3. /\ st'.members = t.members /\ st'.votes = t.votes /\ st'.round = t.round
      /\ st'.status = t.status /\ st'.phase = t.phase /\ st'.policy = t.policy
      /\ st'.resolution = t.resolution
  BY <1>1, <1>2 DEF StateWithCase, State
<1>4. st.status = "active"
  BY <1>1, OpenMerits
<1>. QED BY <1>1, <1>2, <1>3, <1>4 DEF CouncilUntouched, StaysOnCourse

\* New evidence and passes.
LEMMA OtherOnCourse ==
  ASSUME Inv,
         \/ \E role \in Sides, id \in EvidenceIds, bytes \in Sizes :
              SubmitEvidence(role, id, bytes)
         \/ \E role \in Sides : PassPhaseOpportunity(role)
  PROVE  CouncilUntouched /\ StaysOnCourse
<1>1. /\ st \in State /\ \A p \in MeritsPhases : PhaseAfter(p) \in MeritsPhases \cup {"deliberation"}
  BY RankFacts DEF Inv, TypeOK
<1>2. ASSUME NEW role \in Sides, NEW id \in EvidenceIds, NEW bytes \in Sizes,
             SubmitEvidence(role, id, bytes)
      PROVE  CouncilUntouched /\ StaysOnCourse
  <2>1. /\ Open(st) /\ st.phase \in MeritsPhases
        /\ st' = StateWithCase([st EXCEPT !.evidence =
                   Append(@, [id |-> id, role |-> role, phase |-> st.phase])])
    BY <1>2 DEF SubmitEvidence, SubmitEvidenceOK, AfterSubmitEvidence,
                EvidencePhases, MeritsPhases
  <2>2. st.status = "active"
    BY <2>1, OpenMerits
  <2>3. CouncilUntouched /\ st'.status = st.status /\ st'.phase = st.phase
    BY <1>1, <2>1 DEF StateWithCase, State, CouncilUntouched
  <2>. QED BY <2>1, <2>2, <2>3 DEF StaysOnCourse
<1>3. ASSUME NEW role \in Sides, PassPhaseOpportunity(role)
      PROVE  CouncilUntouched /\ StaysOnCourse
  <2>1. /\ Open(st) /\ st.phase \in MeritsPhases
        /\ st' = StateWithCase([st EXCEPT !.phase = PhaseAfter(st.phase)])
    BY <1>3 DEF PassPhaseOpportunity, PassPhaseOK, AfterPassPhase, MeritsPhases
  <2>2. st.status = "active"
    BY <2>1, OpenMerits
  <2>3. CouncilUntouched /\ st'.status = st.status /\ st'.phase = PhaseAfter(st.phase)
    BY <1>1, <2>1 DEF StateWithCase, State, CouncilUntouched
  <2>. QED BY <1>1, <2>1, <2>2, <2>3 DEF StaysOnCourse
<1>. QED BY <1>2, <1>3

\* Before deliberation nobody is on the bench and nobody has voted.
LEMMA NoBallotYet ==
  ASSUME NEW s, s.phase \in MeritsPhases \cup {"draft"}
  PROVE  BenchOf(s) = {}
<1>1. PhaseRank(s.phase) \in 0..5
  BY DEF PhaseRank, MeritsPhases
<1>. QED BY <1>1 DEF BenchOf

\* A step of the merits is no step of the ballot, or the one in which the
\* council takes its seats.
LEMMA OnCourseIsBallot ==
  ASSUME Inv, CouncilUntouched, StaysOnCourse
  PROVE  \/ \E members \in SUBSET MemberIds : Ballot!Convene(members)
         \/ UNCHANGED Ballot!vars
<1>1. /\ st \in State /\ st.votes = <<>> /\ SeatedMembers(st) = DOMAIN st.members
      /\ ValidPolicy(st.policy) /\ Len(st.members) = st.policy.council_size
      /\ DistinctSeats(st)
  BY DEF Inv, TypeOK, Frame, CouncilReady, StaysOnCourse, MeritsPhases
<1>2. CastOf(st') = CastOf(st)
  BY SameBallot DEF CouncilUntouched
<1>3. StageOf(st) = "merits" /\ BenchOf(st) = {}
  BY NoBallotYet DEF StageOf, StaysOnCourse, MeritsPhases
<1>4. CASE st'.phase \in MeritsPhases
  <2>1. StageOf(st') = "merits" /\ BenchOf(st') = {}
    BY <1>4, NoBallotYet DEF StageOf, StaysOnCourse, MeritsPhases
  <2>. QED BY <1>2, <1>3, <2>1 DEF Ballot!vars, CouncilUntouched
<1>5. CASE st'.phase = "deliberation"
  <2> DEFINE ids == {st.members[i].id : i \in DOMAIN st.members}
  <2>1. StageOf(st') = "voting"
    BY <1>5 DEF StageOf, StaysOnCourse
  <2>2. BenchOf(st') = ids
    <3>1. BenchOf(st') = {st'.members[i].id : i \in SeatedMembers(st')}
      BY <1>5, LateBench
    <3>2. st'.members = st.members /\ SeatedMembers(st') = DOMAIN st.members
      BY <1>1 DEF CouncilUntouched, SeatedMembers
    <3>. QED BY <3>1, <3>2
  <2>3. ids \in SUBSET MemberIds
    BY <1>1, SeatsAndVotes DEF Seat
  <2>4. Ballot!Cardinality(ids) = st.policy.council_size
    <3> DEFINE f == [i \in DOMAIN st.members |-> st.members[i].id]
    <3>1. /\ f \in [DOMAIN st.members -> ids]
          /\ \A i, j \in DOMAIN st.members : f[i] = f[j] => i = j
          /\ \A z \in ids : \E i \in DOMAIN st.members : f[i] = z
      BY <1>1 DEF DistinctSeats
    <3>2. /\ IsFiniteSet(DOMAIN st.members)
          /\ Cardinality(DOMAIN st.members) = Len(st.members)
      BY <1>1, SeatsAndVotes, FS_Interval
    <3> HIDE DEF f, ids
    <3>3. Cardinality(ids) = Cardinality(DOMAIN st.members)
      BY <3>1, <3>2, SameSize
    <3>. QED BY <1>1, <3>2, <3>3, SameCount
  <2>5. /\ RuleOf(st.policy).required <= st.policy.council_size
        /\ 2 * RuleOf(st.policy).required > st.policy.council_size
    BY <1>1 DEF RuleOf, ValidPolicy
  <2> HIDE DEF ids
  <2>6. Ballot!Convene(ids)
    BY <1>2, <1>3, <2>1, <2>2, <2>4, <2>5 DEF Ballot!Convene, CouncilUntouched
  <2>. QED BY <2>3, <2>6
<1>. QED BY <1>4, <1>5 DEF StaysOnCourse

\* A draft becomes a case with a council that does not sit yet.
LEMMA InitializeIsBallot ==
  ASSUME Inv, NEW ids \in Rosters, InitializeCase(ids)
  PROVE  UNCHANGED Ballot!vars
<1>1. st.status = "draft" /\ st.phase = "draft" /\ st = DraftState(st.policy)
  BY DEF InitializeCase, Inv, Frame
<1>2. \A policy : /\ DraftState(policy).votes = <<>> /\ DraftState(policy).round = 1
                  /\ DraftState(policy).resolution = ""
  BY DEF DraftState
<1>3. st.votes = <<>> /\ st.round = 1 /\ st.resolution = ""
  BY <1>1, <1>2
<1>4. /\ st'.votes = <<>> /\ st'.round = 1 /\ st'.resolution = "" /\ st'.policy = st.policy
      /\ st'.status = "active" /\ st'.phase = "openings"
  BY DEF InitializeCase, AfterInitializeCase, StateWithCase, DraftState
<1>5. CastOf(st) = [m \in {} |-> "none"] /\ CastOf(st') = [m \in {} |-> "none"]
  BY <1>3, <1>4, NobodyCast
<1>6. BenchOf(st) = {} /\ BenchOf(st') = {}
  BY <1>1, <1>4, NoBallotYet DEF MeritsPhases
<1>7. StageOf(st) = "merits" /\ StageOf(st') = "merits"
  BY <1>1, <1>4 DEF StageOf
<1>. QED BY <1>3, <1>4, <1>5, <1>6, <1>7 DEF Ballot!vars

\* The failure of a side aborts the case, the failure of a seat lets it go.
LEMMA FailIsBallot ==
  ASSUME Inv, Undecided, NEW opportunity, NEW m, NEW reason \in FailureReasons,
         FailOpportunity("system", opportunity, m, reason)
  PROVE  Ballot!Abort \/ (m \in MemberIds /\ Ballot!Leave(m))
<1>0. st \in State
  BY DEF Inv, TypeOK
<1>1. /\ Open(st) /\ opportunity = NextOpportunity(st) /\ opportunity # NoOpportunity
      /\ opportunity.role = "council" => MemberCanLeave(st, m)
      /\ st' = AfterFailOpportunity(st, opportunity, m, reason)
  BY DEF FailOpportunity, FailOpportunityOK
<1>2. CASE opportunity.role = "council"
  <2>1. st.status = "active"
    BY <1>0, <1>1, <1>2 DEF Open, State, Statuses, MemberCanLeave, Inv, Frame
  <2>2. st' = StateWithCase(ContinueDeliberation(Unseat(st, m, "failed")))
    BY <1>1, <1>2 DEF AfterFailOpportunity
  <2>. QED BY <1>1, <1>2, <2>1, <2>2, UnseatIsLeave DEF MemberStatuses
<1>3. CASE opportunity.role # "council"
  <2> DEFINE f == [opportunity |-> opportunity, reason |-> reason]
  <2>1. st.phase \in MeritsPhases
    BY <1>0, <1>1, <1>3, SideOpportunityType
  <2>2. st' = StateWithCase([st EXCEPT !.status = "failed", !.failure = f])
    BY <1>1, <1>3 DEF AfterFailOpportunity
  <2> HIDE DEF f
  <2>3. CouncilUntouched /\ st'.phase = st.phase /\ st'.status = "failed"
    BY <1>0, <2>2 DEF StateWithCase, State, CouncilUntouched
  <2>4. CastOf(st') = CastOf(st)
    BY <2>3, SameBallot DEF CouncilUntouched
  <2>5. BenchOf(st') = {} /\ BenchOf(st) = {}
    BY <2>1, <2>3, NoBallotYet
  <2>6. StageOf(st) = "merits"
    BY <1>1, <2>1 DEF StageOf, Open, MeritsPhases
  <2>7. StageOf(st') = "failed"
    BY <2>1, <2>3 DEF StageOf, MeritsPhases
  <2>. QED BY <2>3, <2>4, <2>5, <2>6, <2>7 DEF Ballot!Abort, CouncilUntouched
<1>. QED BY <1>2, <1>3

-----------------------------------------------------------------------------
(* The refinement.                                                         *)

LEMMA DraftIsBallot == Init => Ballot!Init
<1>1. SUFFICES ASSUME NEW p \in Policies, st = DraftState(p)
               PROVE  Ballot!Init
  BY DEF Init
<1>2. /\ st.votes = <<>> /\ st.round = 1 /\ st.resolution = "" /\ st.policy = p
      /\ st.status = "draft" /\ st.phase = "draft"
  BY <1>1 DEF DraftState
<1>3. CastOf(st) = [m \in {} |-> "none"]
  BY <1>2, NobodyCast
<1>4. BenchOf(st) = {} /\ StageOf(st) = "merits"
  BY <1>2, NoBallotYet DEF StageOf
<1>5. RuleOf(st.policy) \in {RuleOf(q) : q \in Policies}
  BY <1>2
<1>. QED BY <1>2, <1>3, <1>4, <1>5 DEF Ballot!Init

LEMMA StepIsBallot ==
  ASSUME Inv, Undecided, Next
  PROVE  Ballot!Next \/ UNCHANGED Ballot!vars
<1> DEFINE Goal == Ballot!Next \/ UNCHANGED Ballot!vars
<1>0. "openings" \in MeritsPhases /\ "closings" \in MeritsPhases
  BY DEF MeritsPhases
<1>1. ASSUME CouncilUntouched, StaysOnCourse
      PROVE  Goal
  BY <1>1, OnCourseIsBallot DEF Ballot!Next
<1>2. ASSUME NEW ids \in Rosters, InitializeCase(ids)
      PROVE  Goal
  BY <1>2, InitializeIsBallot
<1>3. ASSUME NEW role \in Sides, NEW chars \in Chars, RecordOpeningStatement(role, chars)
      PROVE  Goal
  BY <1>0, <1>1, <1>3, StatementOnCourse
     DEF RecordOpeningStatement, OpeningStatementOK, AfterOpeningStatement
<1>4. ASSUME NEW role \in Sides, NEW chars \in Chars, NEW e \in Amounts, NEW r \in Amounts,
             NEW phase \in EvidencePhases, MeritsSubmission(phase, role, chars, e, r)
      PROVE  Goal
  BY <1>1, <1>4, SubmissionOnCourse
<1>5. ASSUME NEW role \in Sides, NEW chars \in Chars, NEW e \in Amounts, NEW r \in Amounts,
             DeliverClosingStatement(role, chars, e, r)
      PROVE  Goal
  BY <1>0, <1>1, <1>5, StatementOnCourse
     DEF DeliverClosingStatement, ClosingStatementOK, AfterClosingStatement
<1>6. ASSUME \/ \E role \in Sides, id \in EvidenceIds, bytes \in Sizes :
                  SubmitEvidence(role, id, bytes)
             \/ \E role \in Sides : PassPhaseOpportunity(role)
      PROVE  Goal
  BY <1>1, <1>6, OtherOnCourse
<1>7. ASSUME NEW m \in MemberIds, NEW ballot \in Ballots,
             SubmitCouncilVote("council", m, ballot)
      PROVE  Goal
  BY <1>7, VoteIsCast DEF Ballot!Next, Ballots
<1>8. ASSUME NEW m \in MemberIds, NEW status \in MemberStatuses,
             RemoveCouncilMember("system", m, status)
      PROVE  Goal
  <2>1. /\ Open(st) /\ MemberCanLeave(st, m) /\ status # "seated"
        /\ st' = StateWithCase(ContinueDeliberation(Unseat(st, m, status)))
    BY <1>8 DEF RemoveCouncilMember, RemoveCouncilMemberOK, AfterRemoveCouncilMember
  <2>2. st.status = "active"
    BY <2>1 DEF Open, MemberCanLeave, Inv, Frame, TypeOK, State, Statuses
  <2>. QED BY <2>1, <2>2, UnseatIsLeave DEF Ballot!Next
<1>9. ASSUME NEW opportunity, NEW m, NEW reason \in FailureReasons,
             FailOpportunity("system", opportunity, m, reason)
      PROVE  Goal
  BY <1>9, FailIsBallot DEF Ballot!Next
<1>. QED
  BY <1>2, <1>3, <1>4, <1>5, <1>6, <1>7, <1>8, <1>9
     DEF Next, SubmitArgument, SubmitRebuttal, SubmitSurrebuttal, EvidencePhases,
         FailSomeOpportunity

\* The engine implements the council ballot, for every set of members, policies
\* and requests: each request it accepts casts a ballot, lets a member leave, seats
\* the council, aborts the case, or is no step of the ballot at all.
THEOREM EngineImplementsBallot == Spec => ImplementsBallot
<1>1. Inv /\ Undecided /\ [Next]_vars => [Ballot!Next]_(Ballot!vars)
  <2>1. ASSUME UNCHANGED st
        PROVE  UNCHANGED Ballot!vars
    BY <2>1 DEF Ballot!vars
  <2>. QED BY <2>1, StepIsBallot DEF vars
<1>2. Spec => []Undecided
  BY UndecidedHolds
<1>. QED BY <1>1, <1>2, DraftIsBallot, Invariance, PTL DEF Spec, ImplementsBallot, Ballot!Spec
==============================================================================
