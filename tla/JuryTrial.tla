------------------------------ MODULE JuryTrial ------------------------------
(***************************************************************************)
(* The trial of the civil court (src/adc) from openings to judgment, for a *)
(* jury that JurySelection has sworn or for the bench.  The runner asks    *)
(* the engine for the next opportunity and has it answered; when nothing   *)
(* is open it stops, whatever the status of the case.                      *)
(*                                                                         *)
(* Filings are titles on the docket.  When the phase changes the docket    *)
(* keeps the titles a later rule reads, and when a ballot round ends the   *)
(* votes of the rounds before it go: no rule reads the rest again.         *)
(*                                                                         *)
(* A court that screens its jurisdiction hears a case whose complaint      *)
(* pleads none ("defective") only as long as the judge declines to dismiss *)
(* it, which is asked before anything else and again after every act.      *)
(***************************************************************************)
EXTENDS Integers, Sequences, FiniteSets, FiniteSetsExt

CONSTANTS
  Courts,    \* the policies and configurations considered
  Files,     \* case files a side can offer
  Damages    \* amounts a juror may award, without zero

Sides == {"plaintiff", "defendant"}

Court ==
  [mode : {"jury", "bench"}, jurors : Nat, minimum : Nat, rounds : Nat \ {0},
   exhibits : Nat, defective : BOOLEAN]

ASSUME TrialAssumption ==
  /\ Courts \subseteq Court
  /\ \A c \in Courts : c.mode = "jury" => c.jurors > 0 /\ c.minimum \in 1..c.jurors
  /\ Damages \subseteq Nat \ {0}
  /\ IsFiniteSet(Files)

VARIABLES
  court,     \* trial_mode, jury_configuration and policy
  status,    \* of the case: "trial", "judgment_entered", "closed"
  phase,
  docket,    \* titles
  offered,   \* per side: the files offered as exhibits, in order
  passed,    \* opportunities passed since the case last changed
  jurors,    \* status of each juror
  round,     \* deliberation round
  votes,     \* of this round and the one before
  verdict,   \* jury_verdict
  hung       \* is there a hung-jury notice?

vars == <<court, status, phase, docket, offered, passed, jurors, round, votes,
          verdict, hung>>

PresentationPhases ==
  {"plaintiff_case", "defense_case", "plaintiff_rebuttal", "defense_surrebuttal"}

EvidencePhases ==
  {"plaintiff_evidence", "defense_evidence", "plaintiff_rebuttal_evidence",
   "defense_surrebuttal_evidence"}

Presenter ==
  IF phase \in {"plaintiff_case", "plaintiff_rebuttal",
                "plaintiff_evidence", "plaintiff_rebuttal_evidence"}
  THEN "plaintiff" ELSE "defendant"

NextPhase ==
  [none |-> "openings", openings |-> "plaintiff_case",
   plaintiff_case |-> "plaintiff_evidence", plaintiff_evidence |-> "defense_case",
   defense_case |-> "defense_evidence", defense_evidence |-> "plaintiff_rebuttal",
   plaintiff_rebuttal |-> "plaintiff_rebuttal_evidence",
   plaintiff_rebuttal_evidence |-> "defense_surrebuttal",
   defense_surrebuttal |-> "defense_surrebuttal_evidence",
   defense_surrebuttal_evidence |-> "charge_conference",
   charge_conference |-> "closings",
   closings |-> IF court.mode = "jury" THEN "jury_charge" ELSE "verdict_return",
   jury_charge |-> "deliberation", deliberation |-> "post_verdict",
   verdict_return |-> "post_verdict"]

Phases == DOMAIN NextPhase \cup {"post_verdict"}

NoVerdict == [side |-> "none", votes |-> 0, required |-> 0]

Sworn == {j \in DOMAIN jurors : jurors[j] = "sworn"}

-----------------------------------------------------------------------------
(* Filings a phase offers, in the engine's order: who files it, its title, *)
(* and the titles that must be on the docket first.  All may be passed.    *)

Filing(by, title, after) == [by |-> by, title |-> <<title, by>>, after |-> after]

FilingsOf(p) ==
  CASE p = "openings" -> <<Filing("plaintiff", "opening", {}),
                           Filing("defendant", "opening", {})>>
    [] p \in PresentationPhases -> <<Filing(Presenter, "theory", {})>>
    [] p = "charge_conference" ->
         <<Filing("plaintiff", "proposal", {}),
           Filing("defendant", "proposal", {}),
           Filing("plaintiff", "objection", {<<"proposal", "defendant">>}),
           Filing("defendant", "objection", {<<"proposal", "plaintiff">>})>>
    [] p = "closings" ->
         <<Filing("plaintiff", "closing", {}),
           Filing("defendant", "closing", {<<"closing", "plaintiff">>}),
           Filing("plaintiff", "closing_rebuttal",
                  {<<"closing", "plaintiff">>, <<"closing", "defendant">>})>>
    [] OTHER -> <<>>

FilingsDue ==
  {i \in DOMAIN FilingsOf(phase) :
     /\ FilingsOf(phase)[i].title \notin docket
     /\ FilingsOf(phase)[i].after \subseteq docket}

(* Deviation: one side's pass is taken for the other's too.                *)
PassedByEither(title) == \E other \in passed : other[1] = title[1]

Passed(title) == title \in passed

FilingsOpen == {i \in FilingsDue : ~Passed(FilingsOf(phase)[i].title)}

Rested == <<"rested", phase>> \in docket

MayOffer(side) ==
  /\ Len(offered[side]) < court.exhibits
  /\ \E f \in Files : \A i \in DOMAIN offered[side] : offered[side][i] # f

Awaited == {j \in Sworn : ~\E v \in votes : v.round = round /\ v.juror = j}

Titles(title) == {t \in docket : t[1] = title}

(* Deviation: one side's filing is enough.                                 *)
EitherFiled(title) == Titles(title) # {}

BothFiled(title) == Titles(title) = {title} \X Sides

(* May the judge advance the phase?                                        *)
PhaseComplete ==
  CASE phase \in EvidencePhases -> Rested
    [] phase = "charge_conference" -> BothFiled("proposal")
    [] phase = "closings"          -> BothFiled("closing")
    [] phase = "jury_charge"       -> Titles("delivered") # {}
    [] phase = "deliberation"      -> verdict # NoVerdict \/ hung
    [] phase = "verdict_return"    -> Titles("bench_opinion") # {}
    [] phase = "post_verdict"      -> FALSE
    [] OTHER                       -> TRUE

JudgmentOK ==
  /\ ~hung
  /\ IF court.mode = "bench" THEN Titles("bench_opinion") # {} ELSE verdict # NoVerdict

Dismissal == <<"jurisdiction dismissal", "judge">>

MayDismiss == court.defective /\ Dismissal \notin passed

(* The current opportunity: the dismissal; a filing, in order; what the    *)
(* court or a juror has to do in the phase; then the judge's advance.      *)
CurrentTurn ==
  IF status # "trial" THEN "none"
  ELSE IF MayDismiss THEN "dismissal"
  ELSE IF FilingsOpen # {} THEN "filing"
  ELSE IF phase \in EvidencePhases /\ ~Rested THEN "evidence"
  ELSE IF phase = "jury_charge" /\ Titles("settled") = {} THEN "settle"
  ELSE IF phase = "jury_charge" /\ Titles("delivered") = {} THEN "deliver"
  ELSE IF phase = "deliberation" /\ Awaited # {} THEN "vote"
  ELSE IF phase = "verdict_return" /\ Titles("bench_opinion") = {} THEN "opinion"
  ELSE IF PhaseComplete THEN "advance"
  ELSE IF phase = "post_verdict" /\ hung THEN "close"
  ELSE IF phase = "post_verdict" /\ JudgmentOK THEN "judgment"
  ELSE "none"

-----------------------------------------------------------------------------
Init ==
  /\ court \in Courts
  /\ status = "trial"
  /\ phase = IF court.mode = "jury" THEN "openings" ELSE "none"
  /\ docket = {} /\ passed = {} /\ votes = {}
  /\ offered = [s \in Sides |-> <<>>]
  /\ jurors = [j \in 1..court.jurors |-> "sworn"]
  /\ round = 1
  /\ verdict = NoVerdict
  /\ hung = FALSE

Deliberation == <<jurors, round, votes, verdict, hung>>

(* Every accepted act clears the passes: what was passed is open again.    *)
Accepted == passed' = {}

File ==
  LET filing == FilingsOf(phase)[Min(FilingsOpen)] IN
  /\ CurrentTurn = "filing"
  /\ docket' = docket \cup {filing.title}
  /\ Accepted
  /\ UNCHANGED <<court, status, phase, offered, Deliberation>>

(* Deviation: a pass, too, clears the passes before it.                    *)
OnlyThisPass(title) == {title}

PassesAfter(title) == passed \cup {title}

Pass ==
  /\ CurrentTurn = "filing"
  /\ passed' = PassesAfter(FilingsOf(phase)[Min(FilingsOpen)].title)
  /\ UNCHANGED <<court, status, phase, docket, offered, Deliberation>>

DismissForLackOfJurisdiction ==
  /\ CurrentTurn = "dismissal"
  /\ status' = "closed"
  /\ docket' = docket \cup {Dismissal}
  /\ Accepted
  /\ UNCHANGED <<court, phase, offered, Deliberation>>

DeclineDismissal ==
  /\ CurrentTurn = "dismissal"
  /\ passed' = PassesAfter(Dismissal)
  /\ UNCHANGED <<court, status, phase, docket, offered, Deliberation>>

OfferExhibit(f) ==
  /\ CurrentTurn = "evidence"
  /\ MayOffer(Presenter)
  /\ offered' = [offered EXCEPT ![Presenter] = Append(@, f)]
  /\ Accepted
  /\ UNCHANGED <<court, status, phase, docket, Deliberation>>

RestCase ==
  /\ CurrentTurn = "evidence"
  /\ docket' = docket \cup {<<"rested", phase>>}
  /\ Accepted
  /\ UNCHANGED <<court, status, phase, offered, Deliberation>>

SettleInstructions ==
  /\ CurrentTurn = "settle"
  /\ Titles("proposal") # {}
  /\ docket' = docket \cup {<<"settled", "judge">>}
  /\ Accepted
  /\ UNCHANGED <<court, status, phase, offered, Deliberation>>

DeliverInstructions ==
  /\ CurrentTurn = "deliver"
  /\ Titles("settled") # {}
  /\ docket' = docket \cup {<<"delivered", "judge">>}
  /\ Accepted
  /\ UNCHANGED <<court, status, phase, offered, Deliberation>>

FileBenchOpinion ==
  /\ CurrentTurn = "opinion"
  /\ court.mode = "bench" /\ phase = "verdict_return"
  /\ docket' = docket \cup {<<"bench_opinion", "judge">>}
  /\ Accepted
  /\ UNCHANGED <<court, status, phase, offered, Deliberation>>

ReadLater == {"proposal", "settled", "delivered", "bench_opinion"}

AdvanceOK ==
  LET next == NextPhase[phase] IN
  /\ next = "deliberation" => Titles("delivered") # {}
  /\ next = "post_verdict" => IF court.mode = "bench" THEN Titles("bench_opinion") # {}
                              ELSE verdict # NoVerdict \/ hung

AdvanceTrialPhase ==
  /\ CurrentTurn = "advance"
  /\ AdvanceOK
  /\ phase' = NextPhase[phase]
  /\ docket' = {t \in docket : t[1] \in ReadLater}
  /\ Accepted
  /\ UNCHANGED <<court, status, offered, Deliberation>>

-----------------------------------------------------------------------------
(* Deliberation.                                                           *)

EffectiveMinimumConcurring(sworn) ==
  IF sworn < court.minimum THEN sworn ELSE court.minimum

VotesFor(vs, side) == {v \in vs : v.round = round /\ v.side = side}

InRound(vs, r) == {v \in vs : v.round = r}

(* Did every voter of the round vote and award as in the round before?     *)
Stable(vs) ==
  /\ round > 1
  /\ Cardinality(InRound(vs, round)) = Cardinality(InRound(vs, round - 1))
  /\ \A v \in InRound(vs, round) : [v EXCEPT !.round = round - 1] \in vs

NoFurtherRound(vs) == round >= court.rounds \/ Stable(vs)

(* Deviation: the round is counted before every juror has voted.           *)
NobodyAwaited(vs, sworn) == {}

Outstanding(vs, sworn) ==
  {j \in sworn : ~\E v \in InRound(vs, round) : v.juror = j}

NobodyRemains(sworn) == sworn = {}

(* The outcome derived once the sworn jurors have voted, from the votes    *)
(* vs and the jurors still sworn.                                          *)
DeriveVerdict(vs, sworn) ==
  LET required == EffectiveMinimumConcurring(Cardinality(sworn))
      count    == [side \in Sides |-> Cardinality(VotesFor(vs, side))]
      Prevails(side) == /\ count[side] >= required
                        /\ \A other \in Sides \ {side} : count[other] < required
      winners  == {side \in Sides : Prevails(side)}
      undecided == [verdict |-> NoVerdict, hung |-> FALSE, round |-> round, votes |-> vs]
  IN IF NobodyRemains(sworn) THEN [undecided EXCEPT !.hung = TRUE]
     ELSE IF Outstanding(vs, sworn) # {} THEN undecided
     ELSE IF winners # {}
          THEN LET side == CHOOSE w \in winners : TRUE IN
               [undecided EXCEPT !.verdict = [side |-> side, votes |-> count[side],
                                              required |-> required]]
     ELSE IF NoFurtherRound(vs) THEN [undecided EXCEPT !.hung = TRUE]
     ELSE [undecided EXCEPT !.round = round + 1, !.votes = InRound(vs, round)]

TakeOutcome(o) ==
  verdict' = o.verdict /\ hung' = o.hung /\ round' = o.round /\ votes' = o.votes

Ballots ==
  {[side |-> "defendant", damages |-> 0]} \cup
  {[side |-> "plaintiff", damages |-> d] : d \in Damages \cup {0}}

SubmitJurorVote(b) ==
  LET vote == [juror |-> Min(Awaited), round |-> round, side |-> b.side,
               damages |-> b.damages]
  IN /\ CurrentTurn = "vote"
     /\ TakeOutcome(DeriveVerdict(votes \cup {vote}, Sworn))
     /\ Accepted
     /\ UNCHANGED <<court, status, phase, docket, offered, jurors>>

(* A juror whose call fails takes no further part; the votes cast may now  *)
(* decide.                                                                 *)
JurorTimesOut ==
  /\ CurrentTurn = "vote"
  /\ jurors' = [jurors EXCEPT ![Min(Awaited)] = "timed_out"]
  /\ TakeOutcome(DeriveVerdict(votes, Sworn \ {Min(Awaited)}))
  /\ Accepted
  /\ UNCHANGED <<court, status, phase, docket, offered>>

-----------------------------------------------------------------------------
EnterJudgment ==
  /\ CurrentTurn = "judgment"
  /\ JudgmentOK
  /\ status' = "judgment_entered"
  /\ docket' = docket \cup {<<"judgment", "judge">>}
  /\ Accepted
  /\ UNCHANGED <<court, phase, offered, Deliberation>>

CloseAfterHungJury ==
  /\ CurrentTurn = "close"
  /\ status' = "closed"
  /\ Accepted
  /\ UNCHANGED <<court, phase, docket, offered, Deliberation>>

(* The runner's loop finds nothing open, or the case no longer in trial.   *)
Stop == CurrentTurn = "none" /\ UNCHANGED vars

Next ==
  \/ File
  \/ Pass
  \/ DismissForLackOfJurisdiction
  \/ DeclineDismissal
  \/ \E f \in Files : OfferExhibit(f)
  \/ RestCase
  \/ SettleInstructions
  \/ DeliverInstructions
  \/ FileBenchOpinion
  \/ AdvanceTrialPhase
  \/ \E b \in Ballots : SubmitJurorVote(b)
  \/ JurorTimesOut
  \/ EnterJudgment
  \/ CloseAfterHungJury
  \/ Stop

Spec == Init /\ [][Next]_vars

(* The runner's loop takes turn after turn until it stops.                 *)
FairSpec == Spec /\ WF_vars(Next)

-----------------------------------------------------------------------------
(* Properties.                                                             *)

Vote == [juror : DOMAIN jurors, round : 1..court.rounds, side : Sides,
         damages : Damages \cup {0}]

(* The state is well formed, and no deliberation exceeds its rounds nor a  *)
(* side its exhibits.                                                      *)
TypeOK ==
  /\ court \in Courts
  /\ status \in {"trial", "judgment_entered", "closed"}
  /\ phase \in Phases
  /\ offered \in [Sides -> Seq(Files)]
  /\ \A side \in Sides : Len(offered[side]) <= court.exhibits
  /\ jurors \in [1..court.jurors -> {"sworn", "timed_out"}]
  /\ round \in 1..court.rounds
  /\ votes \subseteq Vote
  /\ verdict \in {NoVerdict} \cup
       [side : Sides, votes : 1..court.jurors, required : 1..court.jurors]
  /\ hung \in BOOLEAN

(* A verdict rests on one vote of every juror still sworn, in one round,   *)
(* and names the only side with the minimum, which is the configured one   *)
(* unless fewer jurors remain; and there is no verdict beside a notice of  *)
(* a hung jury.  Jurors may have left in any round before.                 *)
VerdictSound ==
  verdict # NoVerdict =>
    LET ballots == {v \in votes : v.round = round}
        For(side) == Cardinality({v \in ballots : v.side = side}) IN
    /\ ~hung
    /\ {v.juror : v \in ballots} = Sworn
    /\ Cardinality(ballots) = Cardinality(Sworn)
    /\ verdict.required = Min({court.minimum, Cardinality(Sworn)})
    /\ For(verdict.side) = verdict.votes /\ verdict.votes >= verdict.required
    /\ \A other \in Sides \ {verdict.side} : For(other) < verdict.required

(* Nobody votes before both sides' proposals were in and instructions were *)
(* settled and delivered; judgment follows a verdict, or in a bench trial  *)
(* an opinion; the case closes without one only on a hung jury or, if no   *)
(* jurisdiction was pleaded, on a dismissal, which no judgment follows.    *)
OutcomeIsLawful ==
  /\ votes # {} => {<<"proposal", "plaintiff">>, <<"proposal", "defendant">>,
                    <<"settled", "judge">>, <<"delivered", "judge">>} \subseteq docket
  /\ status = "judgment_entered" =>
       /\ ~hung
       /\ IF court.mode = "jury" THEN verdict # NoVerdict
          ELSE <<"bench_opinion", "judge">> \in docket
  /\ status = "closed" => (hung /\ verdict = NoVerdict) \/ Dismissal \in docket
  /\ Dismissal \in docket => court.defective /\ status = "closed"

(* The judge advances only when each filing then open to a side has been   *)
(* declined since the case last changed: what the other side files reopens *)
(* the choice of one who passed before.  Nor is a case without pleaded     *)
(* jurisdiction taken further before the judge has declined to dismiss it. *)
NoSideSkipped ==
  [][phase' # phase => /\ \A i \in FilingsDue : FilingsOf(phase)[i].title \in passed
                       /\ court.defective => Dismissal \in passed]_vars

(* Has a side declined a filing that the advance waits for, an instruction *)
(* of its own or its closing?                                              *)
Refused ==
  \E title \in passed : \/ phase = "charge_conference" /\ title[1] = "proposal"
                        \/ phase = "closings" /\ title[1] = "closing"

(* Whatever is passed and reopened, whoever times out and however votes    *)
(* change from round to round, the runner stops: at judgment, at the close *)
(* of the case or, with the case still in trial, only because a side has   *)
(* refused a filing the trial cannot go on without.                        *)
TrialEnds == <>(CurrentTurn = "none" /\ (status = "trial" => Refused))
==============================================================================
