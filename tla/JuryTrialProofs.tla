--------------------------- MODULE JuryTrialProofs ---------------------------
(***************************************************************************)
(* What a trial may end in, for every jury, minimum, number of rounds and  *)
(* set of exhibits.                                                        *)
(*                                                                         *)
(* The invariant joins the docket, which tells how a trial came to where   *)
(* it is, with the ballots: one a juror and round, and those of the        *)
(* current round by jurors still sworn.  That lets the number of ballots   *)
(* stand for the number of jurors when the votes are counted.              *)
(*                                                                         *)
(* Last, the trial conducted over the role API (RoleTurns): it is a trial, *)
(* so that what is proved of trials holds there too.                       *)
(***************************************************************************)
EXTENDS RoleTurns, FiniteSetTheorems, WellFoundedInduction, TLAPS

\* The phases the judge reaches only with the proposals of both sides in.
AfterConference ==
  {"closings", "jury_charge", "deliberation", "verdict_return", "post_verdict"}

JudgeTitles == {"settled", "delivered", "bench_opinion"}

Docketed ==
  /\ \A t \in docket : t[1] \in JudgeTitles => t = <<t[1], "judge">>
  /\ phase \in AfterConference => \A side \in Sides : <<"proposal", side>> \in docket
  /\ <<"delivered", "judge">> \in docket => <<"settled", "judge">> \in docket
  /\ phase = "deliberation" => <<"delivered", "judge">> \in docket
  /\ phase \in {"jury_charge", "deliberation"} => court.mode = "jury"

Deliberated ==
  /\ votes # {} => /\ <<"delivered", "judge">> \in docket
                   /\ phase \in {"deliberation", "post_verdict"}
  /\ verdict # NoVerdict \/ hung => phase \in {"deliberation", "post_verdict"}
  /\ hung => Awaited = {} /\ verdict = NoVerdict

\* The votes vs, with a jury sworn, are properly cast.
Proper(vs, sworn) ==
  /\ \A v \in vs, w \in vs : v.juror = w.juror /\ v.round = w.round => v = w
  /\ \A v \in vs : v.round <= round /\ (v.round = round => v.juror \in sworn)

Balloting == Proper(votes, Sworn)

Inv == TypeOK /\ Docketed /\ Deliberated /\ Balloting /\ VerdictSound /\ OutcomeIsLawful

-----------------------------------------------------------------------------
(* Counting.                                                               *)

\* Every set of numbers has a least one, which Min names.
LEMMA LeastIsMin ==
  ASSUME NEW T \in SUBSET Nat, T # {}
  PROVE  Min(T) \in T /\ \A y \in T : Min(T) <= y
<1>1. PICK x \in T : \A y \in T : <<y, x>> \notin OpToRel(<, Nat)
  BY NatLessThanWellFounded, WFMin
<1>2. ASSUME NEW y \in T PROVE x <= y
  <2>1. y \in Nat /\ x \in Nat
    OBVIOUS
  <2>2. ~ (y < x)
    BY <1>1, <2>1 DEF OpToRel
  <2>. QED BY <2>1, <2>2
<1>. QED BY <1>2 DEF Min

\* Ballots of different jurors are no more than the jurors.
LEMMA OneBallotEach ==
  ASSUME NEW B, NEW S, IsFiniteSet(S), \A v \in B : v.juror \in S,
         \A v \in B, w \in B : v.juror = w.juror => v = w
  PROVE  /\ IsFiniteSet(B) /\ Cardinality(B) \in Nat
         /\ Cardinality(B) <= Cardinality(S)
         /\ (\A s \in S : \E v \in B : v.juror = s) => Cardinality(B) = Cardinality(S)
<1>. DEFINE f == [v \in B |-> v.juror]
<1>1. f \in Injection(B, S)
  BY DEF Injection, IsInjective
<1>2. IsFiniteSet(B) /\ Cardinality(B) <= Cardinality(S)
      /\ (Cardinality(B) = Cardinality(S) <=> f \in Surjection(B, S))
  BY <1>1, FS_Injection
<1>3. (\A s \in S : \E v \in B : v.juror = s) => f \in Surjection(B, S)
  BY DEF Surjection
<1>. QED BY <1>2, <1>3, FS_CardinalityType

\* The numbers of a court are numbers.
LEMMA CourtFacts ==
  ASSUME TypeOK
  PROVE  court.jurors \in Nat /\ court.rounds \in Nat \ {0}
BY TrialAssumption DEF TypeOK, Court

\* The jurors are finitely many.
LEMMA JuryFinite ==
  ASSUME TypeOK, NEW S \in SUBSET (1..court.jurors)
  PROVE  /\ court.jurors \in Nat /\ court.rounds \in Nat \ {0} /\ S \subseteq Nat
         /\ IsFiniteSet(S) /\ Cardinality(S) \in Nat /\ Cardinality(S) <= court.jurors
         /\ (S # {} => Cardinality(S) > 0)
<1>1. court.jurors \in Nat /\ court.rounds \in Nat \ {0}
  BY CourtFacts
<1>2. \A n \in Nat : IsFiniteSet(1..n) /\ Cardinality(1..n) = n
  <2>1. SUFFICES ASSUME NEW n \in Nat PROVE IsFiniteSet(1..n) /\ Cardinality(1..n) = n
    OBVIOUS
  <2>2. IsFiniteSet(1..n) /\ Cardinality(1..n) = IF 1 > n THEN 0 ELSE n - 1 + 1
    BY FS_Interval
  <2>. QED BY <2>2
<1>3. IsFiniteSet(S) /\ Cardinality(S) <= court.jurors
  <2>1. IsFiniteSet(1..court.jurors) /\ Cardinality(1..court.jurors) = court.jurors
    BY <1>1, <1>2
  <2>2. IsFiniteSet(S) /\ Cardinality(S) <= Cardinality(1..court.jurors)
    BY <2>1, FS_Subset
  <2>. QED BY <2>1, <2>2
<1>. QED BY <1>1, <1>3, FS_CardinalityType, FS_EmptySet

-----------------------------------------------------------------------------
(* DeriveVerdict.                                                          *)

\* The votes of a round for a side are no more than the jurors.
LEMMA CountFits ==
  ASSUME TypeOK, NEW sworn \in SUBSET (1..court.jurors), NEW vs \in SUBSET Vote,
         Proper(vs, sworn), NEW side \in Sides
  PROVE  /\ Cardinality(VotesFor(vs, side)) \in Nat
         /\ Cardinality(VotesFor(vs, side)) <= court.jurors
<1>1. IsFiniteSet(sworn) /\ Cardinality(sworn) <= court.jurors /\ Cardinality(sworn) \in Nat
      /\ court.jurors \in Nat
  BY JuryFinite
<1>. DEFINE B == VotesFor(vs, side)
<1>2. /\ \A v \in B : v.juror \in sworn
      /\ \A v \in B, w \in B : v.juror = w.juror => v = w
  BY DEF Proper, VotesFor
<1>. HIDE DEF B
<1>3. Cardinality(B) \in Nat /\ Cardinality(B) <= Cardinality(sworn)
  BY <1>1, <1>2, OneBallotEach
<1>. QED BY <1>1, <1>3 DEF B

Undecided(vs) == [verdict |-> NoVerdict, hung |-> FALSE, round |-> round, votes |-> vs]

Verdicts ==
  {NoVerdict} \cup [side : Sides, votes : 1..court.jurors, required : 1..court.jurors]

\* A side that has the required votes when the other has not, and no juror missing.
Carried(vs, sworn, v) ==
  /\ v \in Verdicts
  /\ Outstanding(vs, sworn) = {} /\ sworn # {}
  /\ v.required = EffectiveMinimumConcurring(Cardinality(sworn))
  /\ v.votes = Cardinality(VotesFor(vs, v.side)) /\ v.votes >= v.required
  /\ \A other \in Sides \ {v.side} : Cardinality(VotesFor(vs, other)) < v.required

(***************************************************************************)
(* The outcome derived is: nothing yet; a verdict carried by the votes of  *)
(* this round; a hung jury, nobody missing; or another round.              *)
(***************************************************************************)
LEMMA OutcomeDerived ==
  ASSUME TypeOK, court.mode = "jury", NEW sworn \in SUBSET (1..court.jurors),
         NEW vs \in SUBSET Vote, Proper(vs, sworn)
  PROVE  LET o == DeriveVerdict(vs, sworn) IN
         \/ o = Undecided(vs)
         \/ /\ Carried(vs, sworn, o.verdict) /\ o.verdict # NoVerdict
            /\ o.hung = FALSE /\ o.round = round /\ o.votes = vs
         \/ /\ Outstanding(vs, sworn) = {} /\ o.verdict = NoVerdict
            /\ o.hung = TRUE /\ o.round = round /\ o.votes = vs
         \/ /\ o.verdict = NoVerdict /\ o.hung = FALSE /\ round < court.rounds
            /\ o.round = round + 1 /\ o.votes = InRound(vs, round)
<1>. DEFINE required == EffectiveMinimumConcurring(Cardinality(sworn))
            count    == [side \in Sides |-> Cardinality(VotesFor(vs, side))]
            Prevails(side) == /\ count[side] >= required
                              /\ \A other \in Sides \ {side} : count[other] < required
            winners  == {side \in Sides : Prevails(side)}
            o == DeriveVerdict(vs, sworn)
<1>1. CASE sworn = {}
  BY <1>1 DEF DeriveVerdict, NobodyRemains, Outstanding
<1>2. CASE sworn # {} /\ Outstanding(vs, sworn) # {}
  BY <1>2 DEF DeriveVerdict, NobodyRemains, Undecided
<1>3. CASE sworn # {} /\ Outstanding(vs, sworn) = {} /\ winners # {}
  <2>. DEFINE side == CHOOSE w \in winners : TRUE
              v == [side |-> side, votes |-> count[side], required |-> required]
  <2>1. side \in winners
    BY <1>3
  <2>2. o = [Undecided(vs) EXCEPT !.verdict = v]
    BY <1>3 DEF DeriveVerdict, NobodyRemains, Undecided
  <2>3. required \in 1..court.jurors
    <3>1. court.minimum \in 1..court.jurors
      BY TrialAssumption DEF TypeOK
    <3>. QED BY <1>3, <3>1, JuryFinite DEF EffectiveMinimumConcurring
  <2>4. count[side] \in 1..court.jurors
    <3>1. side \in Sides /\ count[side] >= required
      BY <2>1
    <3>2. count[side] \in Nat /\ count[side] <= court.jurors /\ court.jurors \in Nat
      BY <3>1, CountFits, JuryFinite
    <3>. QED BY <2>3, <3>1, <3>2
  <2>5. v \in Verdicts /\ v # NoVerdict
    BY <2>1, <2>3, <2>4 DEF Verdicts, NoVerdict, Sides
  <2>6. Carried(vs, sworn, v)
    BY <1>3, <2>1, <2>5 DEF Carried
  <2>. QED BY <2>2, <2>5, <2>6 DEF Undecided
<1>4. CASE sworn # {} /\ Outstanding(vs, sworn) = {} /\ winners = {}
  <2>1. CASE NoFurtherRound(vs)
    BY <1>4, <2>1 DEF DeriveVerdict, NobodyRemains
  <2>2. CASE ~ NoFurtherRound(vs)
    <3>1. round < court.rounds
      <4>1. court.rounds \in Nat /\ round \in Nat
        BY CourtFacts DEF TypeOK
      <4>. QED BY <2>2, <4>1 DEF NoFurtherRound
    <3>. QED BY <1>4, <2>2, <3>1 DEF DeriveVerdict, NobodyRemains
  <2>. QED BY <2>1, <2>2
<1>. QED BY <1>1, <1>2, <1>3, <1>4

-----------------------------------------------------------------------------
(* The presentation of the case.                                           *)

\* The titles a side may file are not the judge's.
LEMMA SideTitles ==
  ASSUME NEW p \in Phases, NEW i \in DOMAIN FilingsOf(p)
  PROVE  FilingsOf(p)[i].title[1] \in
           {"opening", "theory", "proposal", "objection", "closing", "closing_rebuttal"}
<1>1. CASE p = "openings"
  <2>1. FilingsOf(p) = <<Filing("plaintiff", "opening", {}), Filing("defendant", "opening", {})>>
    BY <1>1 DEF FilingsOf, PresentationPhases
  <2>. QED BY <2>1 DEF Filing
<1>2. CASE p \in PresentationPhases
  <2>1. FilingsOf(p) = <<Filing(Presenter, "theory", {})>>
    BY <1>2 DEF FilingsOf, PresentationPhases
  <2>. QED BY <2>1 DEF Filing
<1>3. CASE p = "charge_conference"
  <2>1. FilingsOf(p) =
          <<Filing("plaintiff", "proposal", {}), Filing("defendant", "proposal", {}),
            Filing("plaintiff", "objection", {<<"proposal", "defendant">>}),
            Filing("defendant", "objection", {<<"proposal", "plaintiff">>})>>
    BY <1>3 DEF FilingsOf, PresentationPhases
  <2>. QED BY <2>1 DEF Filing
<1>4. CASE p = "closings"
  <2>1. FilingsOf(p) =
          <<Filing("plaintiff", "closing", {}),
            Filing("defendant", "closing", {<<"closing", "plaintiff">>}),
            Filing("plaintiff", "closing_rebuttal",
                   {<<"closing", "plaintiff">>, <<"closing", "defendant">>})>>
    BY <1>4 DEF FilingsOf, PresentationPhases
  <2>. QED BY <2>1 DEF Filing
<1>5. CASE p \notin {"openings", "charge_conference", "closings"} \cup PresentationPhases
  <2>1. FilingsOf(p) = <<>>
    BY <1>5 DEF FilingsOf
  <2>. QED BY <2>1
<1>. QED BY <1>1, <1>2, <1>3, <1>4, <1>5

\* No other title is a dismissal's.
LEMMA DismissalTitle ==
  /\ Dismissal[1] = "jurisdiction dismissal"
  /\ \A a, b : a # "jurisdiction dismissal" => <<a, b>> # Dismissal
BY DEF Dismissal

\* Nothing happens once the case has left the trial.
LEMMA InTrial == CurrentTurn # "none" => status = "trial"
BY DEF CurrentTurn

(***************************************************************************)
(* A step that enters titles on the docket and leaves phase, deliberation  *)
(* and status alone.                                                       *)
(***************************************************************************)
LEMMA DocketStep ==
  ASSUME Inv, status = "trial", UNCHANGED <<court, status, phase, Deliberation>>,
         docket \subseteq docket', offered' \in [Sides -> Seq(Files)],
         \A side \in Sides : Len(offered'[side]) <= court.exhibits,
         \A t \in docket' \ docket : t[1] \in JudgeTitles => t = <<t[1], "judge">>,
         Dismissal \notin docket' \ docket,
         <<"delivered", "judge">> \in docket' => <<"settled", "judge">> \in docket'
  PROVE  Inv'
<1>. USE DEF Deliberation
<1>1. TypeOK'
  <2>1. /\ court' = court /\ status' = status /\ phase' = phase /\ jurors' = jurors
        /\ round' = round /\ votes' = votes /\ verdict' = verdict /\ hung' = hung
    OBVIOUS
  <2>2. /\ court \in Courts /\ status \in {"trial", "judgment_entered", "closed"}
        /\ phase \in Phases /\ jurors \in [1..court.jurors -> {"sworn", "timed_out"}]
        /\ round \in 1..court.rounds /\ votes \subseteq Vote /\ hung \in BOOLEAN
        /\ verdict \in Verdicts
    BY DEF Inv, TypeOK, Verdicts
  <2>3. Vote' = Vote /\ Verdicts' = Verdicts /\ Phases' = Phases
    BY <2>1 DEF Vote, Verdicts, Phases, NextPhase
  <2>. QED BY <2>1, <2>2, <2>3 DEF TypeOK, Verdicts
<1>2. Docketed'
  BY DEF Inv, Docketed
<1>3. Deliberated'
  <2>1. Awaited' = Awaited
    BY DEF Awaited, Sworn
  <2>. QED BY <2>1 DEF Inv, Deliberated
<1>4. Balloting' /\ VerdictSound'
  BY DEF Inv, Balloting, Proper, Sworn, VerdictSound
<1>5. OutcomeIsLawful'
  BY DEF Inv, OutcomeIsLawful
<1>. QED BY <1>1, <1>2, <1>3, <1>4, <1>5 DEF Inv

\* Filings, exhibits, resting, passes and what the judge enters on the docket.
LEMMA PresentationKeepsInv ==
  ASSUME Inv, \/ File \/ Pass \/ DeclineDismissal \/ RestCase \/ \E f \in Files : OfferExhibit(f)
              \/ SettleInstructions \/ DeliverInstructions \/ FileBenchOpinion
  PROVE  Inv'
<1>0. /\ offered \in [Sides -> Seq(Files)]
      /\ \A side \in Sides : Len(offered[side]) <= court.exhibits
      /\ phase \in Phases /\ court.exhibits \in Nat
      /\ <<"delivered", "judge">> \in docket => <<"settled", "judge">> \in docket
  BY TrialAssumption DEF Inv, TypeOK, Docketed, Court
<1>1. CASE File
  <2>. DEFINE i == Min(FilingsOpen)
              title == FilingsOf(phase)[i].title
  <2>1. i \in DOMAIN FilingsOf(phase)
    <3>1. FilingsOpen # {} /\ FilingsOpen \subseteq DOMAIN FilingsOf(phase)
      BY <1>1 DEF File, CurrentTurn, FilingsOpen, FilingsDue
    <3>2. DOMAIN FilingsOf(phase) \subseteq Nat
      BY <1>0 DEF FilingsOf, PresentationPhases
    <3>. QED BY <3>1, <3>2, LeastIsMin
  <2>2. title[1] \notin JudgeTitles /\ title # Dismissal
    BY <1>0, <2>1, SideTitles, DismissalTitle DEF JudgeTitles
  <2>3. status = "trial" /\ docket' = docket \cup {title}
        /\ UNCHANGED <<court, status, phase, offered, Deliberation>>
    BY <1>1, InTrial DEF File
  <2>4. <<"delivered", "judge">> # title
    BY <2>2 DEF JudgeTitles
  <2>. HIDE DEF title
  <2>. QED BY <1>0, <2>2, <2>3, <2>4, DocketStep
<1>2. CASE Pass \/ DeclineDismissal
  BY <1>0, <1>2, InTrial, DocketStep DEF Pass, DeclineDismissal
<1>3. CASE RestCase
  <2>1. /\ status = "trial" /\ docket' = docket \cup {<<"rested", phase>>}
        /\ UNCHANGED <<court, status, phase, offered, Deliberation>>
    BY <1>3, InTrial DEF RestCase
  <2>3. Dismissal \notin docket' \ docket
    BY <2>1, DismissalTitle
  <2>. QED BY <1>0, <2>1, <2>3, DocketStep DEF JudgeTitles
<1>4. ASSUME NEW f \in Files, OfferExhibit(f) PROVE Inv'
  <2>1. /\ status = "trial" /\ UNCHANGED <<court, status, phase, docket, Deliberation>>
        /\ offered' = [offered EXCEPT ![Presenter] = Append(offered[Presenter], f)]
        /\ Len(offered[Presenter]) < court.exhibits
    BY <1>4, InTrial DEF OfferExhibit, MayOffer
  <2>2. Presenter \in Sides
    BY DEF Presenter, Sides
  <2>3. /\ Append(offered[Presenter], f) \in Seq(Files)
        /\ Len(Append(offered[Presenter], f)) = Len(offered[Presenter]) + 1
        /\ Len(offered[Presenter]) \in Nat
    BY <1>0, <2>2
  <2>4. /\ offered' \in [Sides -> Seq(Files)]
        /\ \A side \in Sides : Len(offered'[side]) <= court.exhibits
    BY <1>0, <2>1, <2>2, <2>3
  <2>. QED BY <1>0, <2>1, <2>4, DocketStep
<1>5. CASE SettleInstructions
  <2>1. /\ status = "trial" /\ docket' = docket \cup {<<"settled", "judge">>}
        /\ UNCHANGED <<court, status, phase, offered, Deliberation>>
    BY <1>5, InTrial DEF SettleInstructions
  <2>3. Dismissal \notin docket' \ docket
    BY <2>1, DismissalTitle
  <2>. QED BY <1>0, <2>1, <2>3, DocketStep DEF JudgeTitles
<1>6. CASE DeliverInstructions
  <2>1. /\ status = "trial" /\ docket' = docket \cup {<<"delivered", "judge">>}
        /\ UNCHANGED <<court, status, phase, offered, Deliberation>>
    BY <1>6, InTrial DEF DeliverInstructions
  <2>2. <<"settled", "judge">> \in docket
    <3>1. PICK t \in docket : t[1] = "settled"
      BY <1>6 DEF DeliverInstructions, Titles
    <3>. QED BY <3>1 DEF Inv, Docketed, JudgeTitles
  <2>3. Dismissal \notin docket' \ docket
    BY <2>1, DismissalTitle
  <2>. QED BY <1>0, <2>1, <2>2, <2>3, DocketStep DEF JudgeTitles
<1>7. CASE FileBenchOpinion
  <2>1. /\ status = "trial" /\ docket' = docket \cup {<<"bench_opinion", "judge">>}
        /\ UNCHANGED <<court, status, phase, offered, Deliberation>>
    BY <1>7, InTrial DEF FileBenchOpinion
  <2>3. Dismissal \notin docket' \ docket
    BY <2>1, DismissalTitle
  <2>. QED BY <1>0, <2>1, <2>3, DocketStep DEF JudgeTitles
<1>. QED BY <1>1, <1>2, <1>3, <1>4, <1>5, <1>6, <1>7

\* The judge's advance keeps what a later rule reads.
LEMMA AdvanceKeepsInv ==
  ASSUME Inv, AdvanceTrialPhase
  PROVE  Inv'
<1>1. /\ status = "trial" /\ PhaseComplete /\ AdvanceOK
      /\ phase' = NextPhase[phase] /\ docket' = {t \in docket : t[1] \in ReadLater}
      /\ UNCHANGED <<court, status, offered, jurors, round, votes, verdict, hung>>
  BY InTrial DEF AdvanceTrialPhase, CurrentTurn, Deliberation
<1>2. phase \in DOMAIN NextPhase
  BY <1>1 DEF Inv, TypeOK, Phases, PhaseComplete
<1>3. phase' \in Phases
  BY <1>1, <1>2 DEF Phases, NextPhase
<1>4. TypeOK'
  <2>1. Vote' = Vote /\ Verdicts' = Verdicts /\ Phases' = Phases
    BY <1>1 DEF Vote, Verdicts, Phases, NextPhase
  <2>. QED BY <1>1, <1>3, <2>1 DEF Inv, TypeOK
<1>5. Balloting' /\ VerdictSound' /\ Awaited' = Awaited
  BY <1>1 DEF Inv, Balloting, Proper, Sworn, VerdictSound, Awaited
<1>6. Docketed'
  <2>1. \A t \in docket' : t[1] \in JudgeTitles => t = <<t[1], "judge">>
    BY <1>1 DEF Inv, Docketed
  <2>2. phase' \in AfterConference => \A side \in Sides : <<"proposal", side>> \in docket'
    <3>1. ASSUME phase' \in AfterConference PROVE phase \in AfterConference \cup {"charge_conference"}
      BY <1>1, <1>2, <3>1 DEF NextPhase, AfterConference
    <3>2. CASE phase = "charge_conference"
      BY <1>1, <3>2 DEF PhaseComplete, BothFiled, Titles, ReadLater, EvidencePhases
    <3>3. CASE phase \in AfterConference
      BY <1>1, <3>3 DEF Inv, Docketed, ReadLater
    <3>. QED BY <3>1, <3>2, <3>3
  <2>3. <<"delivered", "judge">> \in docket' => <<"settled", "judge">> \in docket'
    BY <1>1 DEF Inv, Docketed, ReadLater
  <2>4. phase' = "deliberation" => <<"delivered", "judge">> \in docket'
    BY <1>1 DEF AdvanceOK, Titles, Inv, Docketed, JudgeTitles, ReadLater
  <2>5. phase' \in {"jury_charge", "deliberation"} => court'.mode = "jury"
    BY <1>1, <1>2 DEF NextPhase, Inv, Docketed
  <2>. QED BY <2>1, <2>2, <2>3, <2>4, <2>5 DEF Docketed
<1>7. phase \in {"deliberation", "post_verdict"} => phase' = "post_verdict"
  BY <1>1, <1>2 DEF NextPhase, PhaseComplete
<1>8. Deliberated'
  BY <1>1, <1>5, <1>7 DEF Inv, Deliberated, ReadLater
<1>9. OutcomeIsLawful'
  BY <1>1 DEF Inv, OutcomeIsLawful, ReadLater
<1>. QED BY <1>4, <1>5, <1>6, <1>8, <1>9 DEF Inv

-----------------------------------------------------------------------------
(* Deliberation.                                                           *)

(***************************************************************************)
(* Votes vs properly cast by a jury, sworn, from which the outcome is      *)
(* derived: what is derived is what the properties say of an outcome.      *)
(***************************************************************************)
LEMMA OutcomeTaken ==
  ASSUME Inv, CurrentTurn = "vote", UNCHANGED <<court, status, phase, docket, offered>>,
         jurors' \in [1..court.jurors -> {"sworn", "timed_out"}],
         NEW vs \in SUBSET Vote, Proper(vs, Sworn'), TakeOutcome(DeriveVerdict(vs, Sworn'))
  PROVE  Inv'
<1>. DEFINE sworn == {j \in DOMAIN jurors' : jurors'[j] = "sworn"}
            o == DeriveVerdict(vs, sworn)
<1>0. /\ TypeOK /\ status = "trial" /\ phase = "deliberation"
      /\ <<"delivered", "judge">> \in docket /\ court.mode = "jury"
  BY InTrial DEF CurrentTurn, Inv, Docketed
<1>1. /\ Sworn' = sworn /\ sworn \in SUBSET (1..court.jurors) /\ Proper(vs, sworn)
      /\ verdict' = o.verdict /\ hung' = o.hung /\ round' = o.round /\ votes' = o.votes
  BY DEF Sworn, TakeOutcome
<1>. HIDE DEF sworn
<1>2. \/ o = Undecided(vs)
      \/ /\ Carried(vs, sworn, o.verdict) /\ o.verdict # NoVerdict
         /\ o.hung = FALSE /\ o.round = round /\ o.votes = vs
      \/ /\ Outstanding(vs, sworn) = {} /\ o.verdict = NoVerdict
         /\ o.hung = TRUE /\ o.round = round /\ o.votes = vs
      \/ /\ o.verdict = NoVerdict /\ o.hung = FALSE /\ round < court.rounds
         /\ o.round = round + 1 /\ o.votes = InRound(vs, round)
  BY <1>0, <1>1, OutcomeDerived
<1>. HIDE DEF o
<1>3. \/ /\ verdict' = NoVerdict /\ hung' = FALSE /\ round' = round /\ votes' = vs
      \/ /\ Carried(vs, sworn, verdict') /\ verdict' # NoVerdict
         /\ hung' = FALSE /\ round' = round /\ votes' = vs
      \/ /\ Outstanding(vs, sworn) = {} /\ verdict' = NoVerdict
         /\ hung' = TRUE /\ round' = round /\ votes' = vs
      \/ /\ verdict' = NoVerdict /\ hung' = FALSE /\ round < court.rounds
         /\ round' = round + 1 /\ votes' = InRound(vs, round)
  BY <1>1, <1>2 DEF Undecided
<1>4. votes' \subseteq vs /\ hung' \in BOOLEAN /\ verdict' \in Verdicts
  BY <1>3 DEF InRound, Carried, Verdicts
<1>5. round \in 1..court.rounds /\ court.rounds \in Nat /\ round' \in 1..court.rounds
  BY <1>0, <1>3, CourtFacts DEF TypeOK
<1>6. TypeOK'
  <2>1. DOMAIN jurors = 1..court.jurors /\ DOMAIN jurors' = 1..court.jurors
    BY <1>0 DEF TypeOK
  <2>2. Vote' = Vote /\ Verdicts' = Verdicts /\ Phases' = Phases
    BY <2>1 DEF Vote, Verdicts, Phases, NextPhase
  <2>. QED BY <1>0, <1>4, <1>5, <2>2 DEF TypeOK, Verdicts
<1>7. Docketed'
  BY <1>0 DEF Inv, Docketed
<1>8. Balloting'
  <2>1. \A v \in votes', w \in votes' : v.juror = w.juror /\ v.round = w.round => v = w
    BY <1>1, <1>4 DEF Proper
  <2>2. \A v \in votes' : v.round <= round' /\ (v.round = round' => v.juror \in sworn)
    <3>1. CASE round' = round
      BY <1>1, <1>4, <3>1 DEF Proper
    <3>2. CASE round' = round + 1 /\ votes' = InRound(vs, round)
      BY <1>5, <3>2 DEF InRound
    <3>. QED BY <1>3, <3>1, <3>2
  <2>. QED BY <1>1, <2>1, <2>2 DEF Balloting, Proper
<1>9. Awaited' = {j \in sworn : ~\E v \in votes' : v.round = round' /\ v.juror = j}
  BY <1>1 DEF Awaited
<1>10. Deliberated'
  <2>1. hung' => Awaited' = {} /\ verdict' = NoVerdict
    BY <1>3, <1>9 DEF Outstanding, InRound
  <2>. QED BY <1>0, <2>1 DEF Deliberated
<1>11. ASSUME verdict' # NoVerdict PROVE VerdictSound'
  <2>1. Carried(vs, sworn, verdict') /\ hung' = FALSE /\ round' = round /\ votes' = vs
    BY <1>3, <1>11
  <2>. DEFINE B == {v \in vs : v.round = round}
  <2>2. /\ \A v \in B : v.juror \in sworn
        /\ \A v \in B, w \in B : v.juror = w.juror => v = w
        /\ \A j \in sworn : \E v \in B : v.juror = j
    BY <1>1, <2>1 DEF Proper, Carried, Outstanding, InRound
  <2>3. {v.juror : v \in B} = sworn
    BY <2>2
  <2>4. IsFiniteSet(sworn) /\ Cardinality(sworn) \in Nat
    BY <1>0, <1>1, JuryFinite
  <2>5. Cardinality(B) = Cardinality(sworn)
    <3>. HIDE DEF B
    <3>. QED BY <2>2, <2>4, OneBallotEach
  <2>6. verdict'.required = Min({court.minimum, Cardinality(sworn)})
    <3>1. court.minimum \in Nat
      BY <1>0, TrialAssumption DEF TypeOK, Court
    <3>. DEFINE T == {court.minimum, Cardinality(sworn)}
    <3>2. Min(T) \in T /\ \A y \in T : Min(T) <= y
      BY <2>4, <3>1, LeastIsMin
    <3>. QED BY <2>1, <2>4, <3>1, <3>2 DEF Carried, EffectiveMinimumConcurring
  <2>7. \A side : {v \in B : v.side = side} = VotesFor(vs, side)
    BY DEF VotesFor
  <2>8. verdict'.side \in Sides
    BY <1>11, <2>1 DEF Carried, Verdicts
  <2>. HIDE DEF B
  <2>9. /\ Cardinality({v \in B : v.side = verdict'.side}) = verdict'.votes
        /\ verdict'.votes >= verdict'.required
        /\ \A other \in Sides \ {verdict'.side} :
             Cardinality({v \in B : v.side = other}) < verdict'.required
    BY <2>1, <2>7 DEF Carried
  <2>10. B = {v \in votes' : v.round = round'}
    BY <2>1 DEF B
  <2>. QED BY <1>1, <2>1, <2>3, <2>5, <2>6, <2>9, <2>10 DEF VerdictSound
<1>12. VerdictSound'
  BY <1>11 DEF VerdictSound
<1>13. OutcomeIsLawful'
  <2>1. \A side \in Sides : <<"proposal", side>> \in docket
    BY <1>0 DEF Inv, Docketed, AfterConference
  <2>2. <<"settled", "judge">> \in docket
    BY <1>0 DEF Inv, Docketed
  <2>3. Dismissal \notin docket'
    BY <1>0 DEF Inv, OutcomeIsLawful
  <2>. QED BY <1>0, <2>1, <2>2, <2>3 DEF OutcomeIsLawful, Sides
<1>. QED BY <1>6, <1>7, <1>8, <1>10, <1>12, <1>13 DEF Inv

\* A vote, and a juror's failure to vote, preserve the invariant.
LEMMA DeliberationKeepsInv ==
  ASSUME Inv, JurorTimesOut \/ \E b \in Ballots : SubmitJurorVote(b)
  PROVE  Inv'
<1>. DEFINE juror == Min(Awaited)
<1>1. /\ jurors \in [1..court.jurors -> {"sworn", "timed_out"}] /\ court.jurors \in Nat
      /\ round \in 1..court.rounds /\ court.rounds \in Nat /\ votes \subseteq Vote
      /\ Proper(votes, Sworn) /\ Sworn \subseteq 1..court.jurors
  BY CourtFacts DEF Inv, TypeOK, Balloting, Sworn
<1>2. CurrentTurn = "vote"
  BY DEF JurorTimesOut, SubmitJurorVote
<1>3. juror \in Awaited /\ juror \in Sworn
  <2>1. Awaited # {}
    BY <1>2 DEF CurrentTurn
  <2>2. Awaited \in SUBSET Nat
    BY <1>1 DEF Awaited, Sworn
  <2>. QED BY <2>1, <2>2, LeastIsMin DEF Awaited
<1>4. \A v \in votes : v.round = round => v.juror # juror
  BY <1>3 DEF Awaited
<1>5. CASE JurorTimesOut
  <2>1. /\ jurors' = [jurors EXCEPT ![juror] = "timed_out"]
        /\ TakeOutcome(DeriveVerdict(votes, Sworn \ {juror}))
        /\ UNCHANGED <<court, status, phase, docket, offered>>
    BY <1>5 DEF JurorTimesOut
  <2>2. Sworn' = Sworn \ {juror}
    BY <1>1, <1>3, <2>1 DEF Sworn
  <2>3. Proper(votes, Sworn \ {juror})
    BY <1>1, <1>4 DEF Proper
  <2>4. jurors' \in [1..court.jurors -> {"sworn", "timed_out"}]
    BY <1>1, <2>1
  <2>. QED BY <1>1, <1>2, <2>1, <2>2, <2>3, <2>4, OutcomeTaken
<1>6. ASSUME NEW b \in Ballots, SubmitJurorVote(b) PROVE Inv'
  <2>. DEFINE vote == [juror |-> juror, round |-> round, side |-> b.side, damages |-> b.damages]
  <2>1. TakeOutcome(DeriveVerdict(votes \cup {vote}, Sworn))
        /\ UNCHANGED <<court, status, phase, docket, offered, jurors>>
    BY <1>6 DEF SubmitJurorVote
  <2>2. vote \in Vote
    <3>1. b.side \in Sides /\ b.damages \in Damages \cup {0}
      BY DEF Ballots, Sides
    <3>. QED BY <1>1, <1>3, <3>1 DEF Vote, Sworn
  <2>3. Proper(votes \cup {vote}, Sworn)
    BY <1>1, <1>3, <1>4 DEF Proper
  <2>4. Sworn' = Sworn
    BY <2>1 DEF Sworn
  <2>. HIDE DEF vote
  <2>. QED BY <1>1, <1>2, <2>1, <2>2, <2>3, <2>4, OutcomeTaken
<1>. QED BY <1>5, <1>6

-----------------------------------------------------------------------------
(* Outcomes, and the theorems.                                             *)

\* Judgment, the close after a hung jury and a dismissal preserve the invariant.
LEMMA EndingKeepsInv ==
  ASSUME Inv, EnterJudgment \/ CloseAfterHungJury \/ DismissForLackOfJurisdiction
  PROVE  Inv'
<1>1. /\ UNCHANGED <<court, phase, offered, jurors, round, votes, verdict, hung>>
      /\ docket' \in {docket, docket \cup {<<"judgment", "judge">>}, docket \cup {Dismissal}}
      /\ status' \in {"judgment_entered", "closed"}
  BY DEF EnterJudgment, CloseAfterHungJury, DismissForLackOfJurisdiction, Deliberation
<1>0. Dismissal \notin docket
  <2>1. CurrentTurn # "none"
    BY DEF EnterJudgment, CloseAfterHungJury, DismissForLackOfJurisdiction
  <2>. QED BY <2>1, InTrial DEF Inv, OutcomeIsLawful
<1>2. TypeOK'
  <2>1. Vote' = Vote /\ Verdicts' = Verdicts /\ Phases' = Phases
    BY <1>1 DEF Vote, Verdicts, Phases, NextPhase
  <2>. QED BY <1>1, <2>1 DEF Inv, TypeOK
<1>3. Docketed'
  <2>1. ASSUME NEW t \in docket' \ docket PROVE t[1] \notin JudgeTitles
    <3>1. t = <<"judgment", "judge">> \/ t = Dismissal
      BY <1>1
    <3>2. CASE t = <<"judgment", "judge">>
      BY <3>2 DEF JudgeTitles
    <3>3. CASE t = Dismissal
      BY <3>3, DismissalTitle DEF JudgeTitles
    <3>. QED BY <3>1, <3>2, <3>3
  <2>2. docket \subseteq docket' /\ <<"delivered", "judge">> \notin docket' \ docket
    <3>1. \A t : t = <<"delivered", "judge">> => t[1] \in JudgeTitles
      BY DEF JudgeTitles
    <3>2. docket \subseteq docket'
      BY <1>1
    <3>. QED BY <2>1, <3>1, <3>2
  <2>. QED BY <1>1, <2>1, <2>2 DEF Inv, Docketed
<1>4. Deliberated'
  <2>1. Awaited' = Awaited
    BY <1>1 DEF Awaited, Sworn
  <2>. QED BY <1>1, <2>1 DEF Inv, Deliberated
<1>5. Balloting' /\ VerdictSound'
  BY <1>1 DEF Inv, Balloting, Proper, Sworn, VerdictSound
<1>6. votes' # {} => {<<"proposal", "plaintiff">>, <<"proposal", "defendant">>,
                      <<"settled", "judge">>, <<"delivered", "judge">>} \subseteq docket'
  BY <1>1 DEF Inv, OutcomeIsLawful
<1>7. CASE EnterJudgment
  <2>1. JudgmentOK /\ status' = "judgment_entered"
    BY <1>7 DEF EnterJudgment
  <2>2. court.mode \in {"jury", "bench"}
    BY TrialAssumption DEF Inv, TypeOK, Court
  <2>3. court.mode = "bench" => <<"bench_opinion", "judge">> \in docket
    <3>1. SUFFICES ASSUME court.mode = "bench" PROVE <<"bench_opinion", "judge">> \in docket
      OBVIOUS
    <3>2. PICK t \in docket : t[1] = "bench_opinion"
      BY <2>1, <3>1 DEF JudgmentOK, Titles
    <3>. QED BY <3>2 DEF Inv, Docketed, JudgeTitles
  <2>4. Dismissal \notin docket'
    BY <1>0, <1>7, DismissalTitle DEF EnterJudgment
  <2>. QED BY <1>1, <1>2, <1>3, <1>4, <1>5, <1>6, <2>1, <2>2, <2>3, <2>4
       DEF Inv, OutcomeIsLawful, JudgmentOK
<1>8. CASE CloseAfterHungJury
  <2>1. status' = "closed" /\ hung /\ docket' = docket
    BY <1>8 DEF CloseAfterHungJury, CurrentTurn
  <2>. QED BY <1>0, <1>1, <1>2, <1>3, <1>4, <1>5, <1>6, <2>1
       DEF Inv, Deliberated, OutcomeIsLawful
<1>9. CASE DismissForLackOfJurisdiction
  <2>1. CurrentTurn = "dismissal" /\ status' = "closed" /\ docket' = docket \cup {Dismissal}
    BY <1>9 DEF DismissForLackOfJurisdiction
  <2>2. court.defective
    BY <2>1 DEF CurrentTurn, MayDismiss
  <2>. QED BY <1>1, <1>2, <1>3, <1>4, <1>5, <1>6, <2>1, <2>2 DEF Inv, OutcomeIsLawful
<1>. QED BY <1>7, <1>8, <1>9

\* A trial starts in the invariant.
LEMMA InitInv == Init => Inv
<1>. SUFFICES ASSUME Init PROVE Inv
  OBVIOUS
<1>. USE DEF Init
<1>1. TypeOK
  <2>1. offered \in [Sides -> Seq(Files)] /\ \A side \in Sides : Len(offered[side]) = 0
    OBVIOUS
  <2>2. court.exhibits \in Nat /\ court.rounds \in Nat \ {0}
    BY TrialAssumption DEF Court
  <2>3. phase \in Phases
    BY DEF Phases, NextPhase
  <2>4. jurors \in [1..court.jurors -> {"sworn", "timed_out"}]
    OBVIOUS
  <2>5. round \in 1..court.rounds /\ \A side \in Sides : Len(offered[side]) <= court.exhibits
    BY <2>1, <2>2
  <2>6. /\ court \in Courts /\ status = "trial" /\ votes \subseteq Vote
        /\ verdict = NoVerdict /\ hung \in BOOLEAN
    OBVIOUS
  <2>. QED BY <2>1, <2>3, <2>4, <2>5, <2>6 DEF TypeOK
<1>2. Docketed /\ Deliberated /\ Balloting /\ VerdictSound /\ OutcomeIsLawful
  BY DEF Docketed, AfterConference, Deliberated, Balloting, Proper, VerdictSound, OutcomeIsLawful
<1>. QED BY <1>1, <1>2 DEF Inv

\* Every turn preserves the invariant.
LEMMA NextInv == Inv /\ [Next]_vars => Inv'
<1>. SUFFICES ASSUME Inv, [Next]_vars PROVE Inv'
  OBVIOUS
<1>1. CASE UNCHANGED vars
  <2>1. /\ UNCHANGED <<court, status, phase, docket, offered, jurors, round, votes, verdict, hung>>
    BY <1>1 DEF vars
  <2>2. TypeOK'
    <3>1. Vote' = Vote /\ Verdicts' = Verdicts /\ Phases' = Phases
      BY <2>1 DEF Vote, Verdicts, Phases, NextPhase
    <3>. QED BY <2>1, <3>1 DEF Inv, TypeOK
  <2>3. Awaited' = Awaited
    BY <2>1 DEF Awaited, Sworn
  <2>4. Docketed' /\ Deliberated' /\ OutcomeIsLawful'
    BY <2>1, <2>3 DEF Inv, Docketed, Deliberated, OutcomeIsLawful
  <2>5. Balloting' /\ VerdictSound'
    BY <2>1 DEF Inv, Balloting, Proper, Sworn, VerdictSound
  <2>. QED BY <2>2, <2>4, <2>5 DEF Inv
<1>2. CASE \/ File \/ Pass \/ DeclineDismissal \/ RestCase \/ \E f \in Files : OfferExhibit(f)
           \/ SettleInstructions \/ DeliverInstructions \/ FileBenchOpinion
  BY <1>2, PresentationKeepsInv
<1>3. CASE AdvanceTrialPhase
  BY <1>3, AdvanceKeepsInv
<1>4. CASE JurorTimesOut \/ \E b \in Ballots : SubmitJurorVote(b)
  BY <1>4, DeliberationKeepsInv
<1>5. CASE EnterJudgment \/ CloseAfterHungJury \/ DismissForLackOfJurisdiction
  BY <1>5, EndingKeepsInv
<1>. QED BY <1>1, <1>2, <1>3, <1>4, <1>5 DEF Next, Stop

(***************************************************************************)
(* The inductive invariant: type, docket, ballots, and with them what the  *)
(* properties say of verdicts and outcomes.                                *)
(***************************************************************************)
THEOREM Invariance == Spec => []Inv
BY InitInv, NextInv, PTL DEF Spec

\* The state is well formed; no deliberation exceeds its rounds.
THEOREM TypeCorrect == Spec => []TypeOK
<1>1. Inv => TypeOK
  BY DEF Inv
<1>. QED BY <1>1, Invariance, PTL

(***************************************************************************)
(* A verdict rests on one vote of every juror still sworn, whatever jury   *)
(* was sworn and whoever of it timed out in whichever round.               *)
(***************************************************************************)
THEOREM VerdictIsSound == Spec => []VerdictSound
<1>1. Inv => VerdictSound
  BY DEF Inv
<1>. QED BY <1>1, Invariance, PTL

(***************************************************************************)
(* Votes follow instructions, judgment a verdict or an opinion, the close  *)
(* of a case a hung jury or the dismissal of one that pleads no            *)
(* jurisdiction.                                                           *)
(***************************************************************************)
THEOREM OutcomeLawful == Spec => []OutcomeIsLawful
<1>1. Inv => OutcomeIsLawful
  BY DEF Inv
<1>. QED BY <1>1, Invariance, PTL

(***************************************************************************)
(* The judge advances only past filings that were declined since the case  *)
(* last changed, whatever either side filed or passed before, and past a   *)
(* dismissal for lack of jurisdiction that was.                            *)
(***************************************************************************)
THEOREM NobodySkipped == Spec => NoSideSkipped
<1>1. ASSUME [Next]_vars, phase' # phase
      PROVE  /\ \A i \in FilingsDue : FilingsOf(phase)[i].title \in passed
             /\ court.defective => Dismissal \in passed
  <2>1. AdvanceTrialPhase
    BY <1>1 DEF vars, Next, File, Pass, DeclineDismissal, DismissForLackOfJurisdiction, OfferExhibit, RestCase, SettleInstructions,
       DeliverInstructions, FileBenchOpinion, SubmitJurorVote, JurorTimesOut,
       EnterJudgment, CloseAfterHungJury, Stop
  <2>2. CurrentTurn = "advance"
    BY <2>1 DEF AdvanceTrialPhase
  <2>3. FilingsOpen = {} /\ ~ MayDismiss
    BY <2>2 DEF CurrentTurn
  <2>. QED BY <2>3 DEF FilingsOpen, Passed, MayDismiss
<1>2. [Next]_vars =>
        [phase' # phase => /\ \A i \in FilingsDue : FilingsOf(phase)[i].title \in passed
                           /\ court.defective => Dismissal \in passed]_vars
  BY <1>1
<1>. QED BY <1>2, PTL DEF Spec, NoSideSkipped

-----------------------------------------------------------------------------
(***************************************************************************)
(* The trial over the role API (RoleTurns).  While a turn is open and      *)
(* nothing was stored since it began, its opportunity is the next one; a   *)
(* turn that is still open although something was stored has lost an       *)
(* event.                                                                  *)
(***************************************************************************)
TurnsKept ==
  /\ court \in Courts /\ DOMAIN jurors = 1..court.jurors
  /\ turn \in [opp : {turn.opp}, fresh : BOOLEAN, attempts : Int, done : {"no", "ok", "error"}]
  /\ turn.opp.role = "juror" => turn.opp.juror \in DOMAIN jurors
  /\ active => main = "waiting"
  /\ main = "waiting" /\ turn.done = "no" =>
       IF turn.fresh THEN turn.opp = NextOpportunity ELSE unrecorded

\* The jurors of a juror's opportunity: it is the first of those awaited.
LEMMA JurorAsked ==
  ASSUME court \in Courts, DOMAIN jurors = 1..court.jurors, NextOpportunity.role = "juror",
         phase = "deliberation" \/ CurrentTurn # "filing"
  PROVE  /\ CurrentTurn = "vote" /\ NextOpportunity.juror = Min(Awaited)
         /\ Min(Awaited) \in DOMAIN jurors
<1>1. CurrentTurn # "filing"
  <2>1. phase = "deliberation" => FilingsOf(phase) = <<>>
    BY DEF FilingsOf, PresentationPhases
  <2>2. phase = "deliberation" => FilingsOpen = {}
    BY <2>1 DEF FilingsOpen, FilingsDue
  <2>. QED BY <2>2 DEF CurrentTurn
<1>2. Presenter # "juror"
  BY DEF Presenter
<1>3. CurrentTurn = "vote"
  BY <1>1, <1>2 DEF NextOpportunity, NoOpportunity
<1>4. Awaited # {}
  BY <1>3 DEF CurrentTurn
<1>5. Awaited \subseteq 1..court.jurors
  BY DEF Awaited, Sworn
<1>6. Min(Awaited) \in Awaited
  <2>1. Awaited \in SUBSET Nat
    BY <1>5, TrialAssumption DEF Court
  <2>. QED BY <1>4, <2>1, LeastIsMin
<1>7. NextOpportunity.juror = Min(Awaited)
  BY <1>3 DEF NextOpportunity, NoOpportunity
<1>. QED BY <1>3, <1>5, <1>6, <1>7

\* A side that is asked for a filing is not a juror.
LEMMA SidesAreNoJurors ==
  ASSUME CurrentTurn = "filing"
  PROVE  NextOpportunity.role # "juror"
<1> DEFINE i == Min(FilingsOpen)
<1>1. FilingsOpen # {}
  BY DEF CurrentTurn
<1>2. FilingsOpen \subseteq DOMAIN FilingsOf(phase)
  BY DEF FilingsOpen, FilingsDue
<1>3. DOMAIN FilingsOf(phase) \subseteq 1..4 
      /\ \A k \in DOMAIN FilingsOf(phase) : FilingsOf(phase)[k].by \in Sides
  BY DEF FilingsOf, Filing, Presenter, Sides
<1>4. i \in DOMAIN FilingsOf(phase)
  <2>1. FilingsOpen \in SUBSET Nat
    BY <1>2, <1>3
  <2>. QED BY <1>1, <1>2, <2>1, LeastIsMin
<1>5. NextOpportunity.role = FilingsOf(phase)[i].by
  BY DEF NextOpportunity, NoOpportunity
<1>. QED BY <1>3, <1>4, <1>5 DEF Sides

\* What the engine asks next it reads off the trial.
LEMMA SameNext ==
  ASSUME UNCHANGED vars
  PROVE  NextOpportunity' = NextOpportunity
<1>0. UNCHANGED <<court, status, phase, docket, offered, passed, jurors, round, votes, verdict, hung>>
  BY DEF vars
<1>1. Presenter' = Presenter /\ FilingsOf(phase)' = FilingsOf(phase)
  BY <1>0 DEF Presenter, FilingsOf, Filing
<1>2. FilingsDue' = FilingsDue
  BY <1>0, <1>1 DEF FilingsDue
<1>3. FilingsOpen' = FilingsOpen
  BY <1>0, <1>1, <1>2 DEF FilingsOpen, Passed
<1>4. Awaited' = Awaited
  BY <1>0 DEF Awaited, Sworn
<1>5. Rested' = Rested /\ PhaseComplete' = PhaseComplete /\ JudgmentOK' = JudgmentOK
      /\ \A t : Titles(t)' = Titles(t)
  BY <1>0 DEF Rested, PhaseComplete, JudgmentOK, Titles, BothFiled
<1>6. CurrentTurn' = CurrentTurn
  BY <1>0, <1>3, <1>4, <1>5 DEF CurrentTurn, MayDismiss
<1>. QED BY <1>0, <1>1, <1>3, <1>4, <1>6 DEF NextOpportunity

\* No act changes the court or who the jurors are.
LEMMA JuryKept ==
  ASSUME Next \/ \E j : ProcessJurorTimeout(j)
  PROVE  court' = court /\ DOMAIN jurors' = DOMAIN jurors
BY DEF Next, File, Pass, DismissForLackOfJurisdiction, DeclineDismissal, OfferExhibit,
   RestCase, SettleInstructions, DeliverInstructions, FileBenchOpinion, AdvanceTrialPhase, SubmitJurorVote, JurorTimesOut, EnterJudgment,
   CloseAfterHungJury, Stop, ProcessJurorTimeout, Deliberation, vars

\* The time-out of the juror who is asked is one of the trial's own.
LEMMA TimeoutOfAsked ==
  ASSUME TurnsKept, ProcessJurorTimeout(turn.opp.juror), turn.opp.role = "juror",
         turn.opp = NextOpportunity
  PROVE  JurorTimesOut
<1>1. phase = "deliberation"
  BY DEF ProcessJurorTimeout, TimeoutOK
<1>2. CurrentTurn = "vote" /\ turn.opp.juror = Min(Awaited)
  BY <1>1, JurorAsked DEF TurnsKept
<1>. QED BY <1>2 DEF ProcessJurorTimeout, JurorTimesOut, Accepted

(* What a step of the runner does to the trial.                            *)
TrialStep ==
  \/ UNCHANGED vars
  \/ Next /\ (main = "next" \/ turn.fresh)
  \/ VoterDismissed

LEMMA LoopKeepsTurns ==
  ASSUME TurnsKept, Loop \/ LoopFails \/ Interrupted \/ ListenerFails
  PROVE  TurnsKept' /\ TrialStep /\ (unrecorded => unrecorded')
<1>1. CASE StartTurn
  <2>1. UNCHANGED vars /\ main' = "waiting" /\ turn' = NewTurn(NextOpportunity)
        /\ unrecorded' = unrecorded
    BY <1>1 DEF StartTurn, trial
  <2>2. NextOpportunity' = NextOpportunity
    BY <2>1, SameNext DEF vars
  <2>3. NextOpportunity.role = "juror" => NextOpportunity.juror \in DOMAIN jurors
    BY JurorAsked, SidesAreNoJurors DEF TurnsKept
  <2>. QED BY <2>1, <2>2, <2>3, RoleAssumption DEF TurnsKept, TrialStep, NewTurn, vars
<1>2. CASE JudgeActs
  <2>1. /\ Next /\ main = "next" /\ main' \in {"next", "failed"}
        /\ turn' = turn /\ active' = active
    BY <1>2 DEF JudgeActs, Next
  <2>2. unrecorded => unrecorded'
    BY <1>2 DEF JudgeActs, Written, NotWritten
  <2>. QED BY <2>1, <2>2, JuryKept DEF TurnsKept, TrialStep
<1>3. CASE Return \/ LoopFails \/ Interrupted \/ TakeResult
  <2>1. /\ UNCHANGED vars /\ main' # "waiting" /\ turn' \in {turn, NoTurn}
        /\ unrecorded' = unrecorded /\ ~ active'
    BY <1>3 DEF Return, LoopFails, Interrupted, TakeResult, Abandon, trial, TurnsKept
  <2>2. CASE turn' = turn
    BY <2>1, <2>2 DEF TurnsKept, TrialStep, vars
  <2>3. CASE turn' = NoTurn
    <3>1. /\ turn' \in [opp : {turn'.opp}, fresh : BOOLEAN, attempts : Int, done : {"no", "ok", "error"}]
          /\ turn'.opp.role # "juror"
      BY <2>3 DEF NoTurn, NoOpportunity
    <3>. QED BY <2>1, <3>1 DEF TurnsKept, TrialStep, vars
  <2>. QED BY <2>1, <2>2, <2>3
<1>4. CASE ListenerFails
  <2>1. UNCHANGED <<vars, main, turn, unrecorded>> /\ ~ active'
    BY <1>4 DEF ListenerFails, trial
  <2>2. NextOpportunity' = NextOpportunity
    BY <2>1, SameNext DEF vars
  <2>. QED BY <2>1, <2>2 DEF TurnsKept, TrialStep, vars
<1>. QED BY <1>1, <1>2, <1>3, <1>4 DEF Loop

LEMMA RequestsKeepTurns ==
  ASSUME TurnsKept, SubmitDecision \/ RejectDecision \/ TurnFails
  PROVE  TurnsKept' /\ TrialStep /\ (unrecorded => unrecorded')
<1>0. turn.done = "no" /\ main' = main /\ main = "waiting" /\ active' = active
  BY DEF SubmitDecision, RejectDecision, TurnFails, Failable, Open, TurnsKept
<1>1. CASE SubmitDecision
  <2>1. Act /\ turn.fresh
    BY <1>1 DEF SubmitDecision, Current
  <2>2. Next
    BY <2>1 DEF Act, Next
  <2>3. \/ turn' = [turn EXCEPT !.done = "ok", !.fresh = FALSE] /\ unrecorded' = unrecorded
        \/ turn' = [turn EXCEPT !.fresh = FALSE] /\ unrecorded' = TRUE
    BY <1>0, <1>1 DEF SubmitDecision, Finished, Written, NotWritten, TurnsKept
  <2>4. /\ turn' \in [opp : {turn.opp}, fresh : {FALSE}, attempts : Int, done : {"no", "ok"}]
        /\ turn'.done = "no" => unrecorded'
        /\ unrecorded => unrecorded'
    <3>1. turn \in [opp : {turn.opp}, fresh : BOOLEAN, attempts : Int, done : {"no", "ok", "error"}]
      BY DEF TurnsKept
    <3>2. CASE turn' = [turn EXCEPT !.done = "ok", !.fresh = FALSE] /\ unrecorded' = unrecorded
      BY <3>1, <3>2
    <3>3. CASE turn' = [turn EXCEPT !.fresh = FALSE] /\ unrecorded' = TRUE
      BY <1>0, <3>1, <3>3
    <3>. QED BY <2>3, <3>2, <3>3
  <2>. QED BY <1>0, <2>1, <2>2, <2>4, JuryKept DEF TurnsKept, TrialStep
<1>2. CASE RejectDecision
  <2>1. UNCHANGED vars /\ unrecorded' = unrecorded
    BY <1>2 DEF RejectDecision, trial
  <2>2. turn' \in [opp : {turn.opp}, fresh : {turn.fresh}, attempts : Int, done : {"no", "error"}]
    <3> DEFINE left == turn.attempts - 1
               t == Finished(IF left = 0 THEN "error" ELSE "no")
    <3>1. turn' = [t EXCEPT !.attempts = left]
      BY <1>2 DEF RejectDecision
    <3>2. t = [turn EXCEPT !.done = IF left = 0 THEN "error" ELSE "no"]
      BY <1>0 DEF Finished
    <3>3. t \in [opp : {turn.opp}, fresh : {turn.fresh}, attempts : Int, done : {"no", "error"}]
      BY <3>2 DEF TurnsKept
    <3>4. left \in Int
      BY DEF TurnsKept
    <3> HIDE DEF t, left
    <3>. QED BY <3>1, <3>3, <3>4
  <2>3. NextOpportunity' = NextOpportunity
    BY <2>1, SameNext DEF vars
  <2>. QED BY <1>0, <2>1, <2>2, <2>3 DEF TurnsKept, TrialStep, vars
<1>3. CASE TurnFails
  <2>1. \E d \in {"ok", "error"} : turn' = [turn EXCEPT !.done = d]
    BY <1>0, <1>3 DEF TurnFails, Finished, TurnsKept
  <2>2. CASE UNCHANGED <<trial, unrecorded>>
    BY <1>0, <2>1, <2>2 DEF TurnsKept, TrialStep, trial, vars
  <2>3. CASE turn.opp.role = "juror" /\ ProcessJurorTimeout(turn.opp.juror)
    <3>1. unrecorded => unrecorded'
      BY <1>3 DEF TurnFails, Written, NotWritten
    <3>2. TurnsKept'
      BY <1>0, <2>1, <2>3, JuryKept DEF TurnsKept
    <3>3. TrialStep
      <4>1. CASE turn.fresh
        <5>1. turn.opp = NextOpportunity
          BY <1>0, <4>1 DEF TurnsKept
        <5>2. JurorTimesOut
          BY <2>3, <5>1, TimeoutOfAsked
        <5>. QED BY <4>1, <5>2 DEF TrialStep, Next
      <4>2. CASE ~turn.fresh
        <5>1. unrecorded
          BY <1>0, <4>2 DEF TurnsKept
        <5>2. turn.opp.juror \in DOMAIN jurors /\ jurors' = [jurors EXCEPT ![turn.opp.juror] = "timed_out"]
          BY <2>3 DEF TurnsKept, ProcessJurorTimeout
        <5>. QED BY <4>2, <5>1, <5>2 DEF VoterDismissed, TrialStep
      <4>. QED BY <4>1, <4>2
    <3>. QED BY <3>1, <3>2, <3>3
  <2>. QED BY <1>3, <2>2, <2>3 DEF TurnFails
<1>. QED BY <1>1, <1>2, <1>3

\* Every step of the runner is a step of the trial, or the dismissal of a juror
\* whose vote was stored without its event.
LEMMA RunnerStep ==
  TurnsKept /\ [RunnerNext]_runnerVars =>
    TurnsKept' /\ TrialStep /\ (unrecorded => unrecorded')
<1>1. ASSUME TurnsKept, UNCHANGED runnerVars
      PROVE  TurnsKept' /\ TrialStep /\ (unrecorded => unrecorded')
  <2>1. UNCHANGED <<vars, main, turn, active, unrecorded>>
    BY <1>1 DEF runnerVars, trial
  <2>2. NextOpportunity' = NextOpportunity
    BY <2>1, SameNext DEF vars
  <2>. QED BY <1>1, <2>1, <2>2 DEF TurnsKept, TrialStep, vars
<1>. QED BY <1>1, LoopKeepsTurns, RequestsKeepTurns DEF RunnerNext

LEMMA RunnerStarts == RunnerInit => TurnsKept
<1>1. SUFFICES ASSUME RunnerInit PROVE TurnsKept
  OBVIOUS
<1>2. court \in Courts /\ DOMAIN jurors = 1..court.jurors
  BY <1>1 DEF RunnerInit, Init
<1>. QED BY <1>1, <1>2 DEF RunnerInit, TurnsKept, NoTurn, NoOpportunity

LEMMA TurnsAreKept == RunnerSpec => []TurnsKept
BY RunnerStarts, RunnerStep, PTL DEF RunnerSpec

(***************************************************************************)
(* Whatever roles send, repeat or omit and whatever fails, the case over   *)
(* the role API is a trial, and no turn changes it twice; only a juror     *)
(* whose vote was stored without its event can be dismissed after voting.  *)
(***************************************************************************)
THEOREM RolesImplementTrial == RunnerSpec => ImplementsTrial
<1>1. RunnerInit => Init
  BY DEF RunnerInit
<1>2. TurnsKept /\ [RunnerNext]_runnerVars
        => [(Next /\ (main = "next" \/ turn.fresh)) \/ VoterDismissed]_trial
  BY RunnerStep DEF TrialStep, trial
<1>. QED BY <1>1, <1>2, TurnsAreKept, PTL DEF RunnerSpec, ImplementsTrial

\* The invariant of the trial, as long as every event has been written.
Sound == ~ unrecorded => Inv

(***************************************************************************)
(* So what is proved of the trial holds over the role API as well, as long *)
(* as every event has been written: a verdict rests on one vote of each    *)
(* juror still sworn, judgment on a verdict or an opinion, and the close   *)
(* of the case on a hung jury or a dismissal for lack of jurisdiction.     *)
(***************************************************************************)
THEOREM RoleVerdictsAreSound == RunnerSpec => [](~ unrecorded => VerdictSound /\ OutcomeIsLawful)
<1>1. RunnerInit => Sound
  BY InitInv DEF RunnerInit, Sound
<1>2. Sound /\ TurnsKept /\ [RunnerNext]_runnerVars => Sound'
  <2>1. SUFFICES ASSUME Sound, TurnsKept, [RunnerNext]_runnerVars, ~ unrecorded'
                 PROVE  Inv'
    BY DEF Sound
  <2>2. ~ unrecorded /\ Inv
    BY <2>1, RunnerStep DEF Sound
  <2>3. UNCHANGED vars \/ Next
    BY <2>1, <2>2, RunnerStep DEF TrialStep, VoterDismissed
  <2>. QED BY <2>2, <2>3, NextInv
<1>3. Sound => (~ unrecorded => VerdictSound /\ OutcomeIsLawful)
  BY DEF Sound, Inv
<1>. QED BY <1>1, <1>2, <1>3, TurnsAreKept, PTL DEF RunnerSpec
=============================================================================
