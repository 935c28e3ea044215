---------------------------- MODULE JurySelection ----------------------------
(***************************************************************************)
(* Jury selection of the civil court (src/adc): the trial from its first   *)
(* turn to openings.  The runner asks the engine for the next opportunity  *)
(* and performs it: the court's own acts are carried out at once, a party, *)
(* a juror or the judge answers the others, and a juror who does not       *)
(* answer is excused and replaced in the same turn.  An act the engine     *)
(* rejects changes nothing.                                                *)
(*                                                                         *)
(* A court that screens its jurisdiction hears a case whose complaint      *)
(* pleads none ("defective") only as long as the judge declines to dismiss *)
(* it, which is asked before anything else and again after every act.      *)
(*                                                                         *)
(* A juror's id is the position in the panel; questions, grounds and       *)
(* reasons are texts and left out.                                         *)
(***************************************************************************)
EXTENDS Integers, Sequences, FiniteSets, FiniteSetsExt

CONSTANTS
  SmallestJury, LargestJury,  \* 6 and 12 in the engine
  Policies,                   \* the court policies considered
  MaxReplaced                 \* bound: jurors who time out and are replaced

Sides == {"plaintiff", "defendant"}

CourtPolicy ==
  [juror_count : Nat, minimum : Nat, panel : Nat, questions : Nat \ {0},
   disallowed : Nat, for_cause : Nat, peremptory : Nat, skip : BOOLEAN,
   defective : BOOLEAN]

ASSUME SelectionAssumption ==
  /\ SmallestJury \in Nat \ {0}
  /\ LargestJury \in Nat
  /\ Policies \subseteq CourtPolicy
  /\ MaxReplaced \in Nat
  /\ \A p \in Policies : /\ p.juror_count \in SmallestJury..LargestJury
                         /\ p.minimum \in SmallestJury..p.juror_count

VARIABLES
  policy,      \* the case's policy, and whether it pleads no jurisdiction
  config,      \* jury_configuration
  phase,       \* "none", "voir_dire", "openings"
  jurors,      \* the panel, a sequence
  issued,      \* is the questionnaire out?
  proposed,    \* questions the judge has not ruled on
  asked,       \* allowed questions the juror has not answered
  disallowed,  \* per side: questions the judge disallowed
  challenged,  \* for-cause challenges the judge has not decided
  declined,    \* which side declined to challenge, and how
  dismissal    \* for lack of jurisdiction: "open", "passed" since the case
               \* last changed, or "entered"

vars == <<policy, config, phase, jurors, issued, proposed, asked, disallowed,
          challenged, declined, dismissal>>

Statuses == {"candidate", "sworn", "excused_for_cause", "struck_peremptory",
             "excused_after_voir_dire", "timed_out"}

NewJuror ==
  [status |-> "candidate", responded |-> FALSE, answered |-> [s \in Sides |-> 0],
   passed |-> {}, challenged_by |-> {}, struck_by |-> {}]

NoConfig == [juror_count |-> 0, minimum_concurring |-> 0]

-----------------------------------------------------------------------------
(* What the engine reads off the case.                                     *)

WithStatus(status) == {j \in DOMAIN jurors : jurors[j].status = status}

Candidates == WithStatus("candidate")

CandidateTarget ==
  Max({policy.panel,
       config.juror_count + 2 * policy.for_cause + 2 * policy.peremptory})

PanelReady == Cardinality(Candidates) >= CandidateTarget

JuryEmpaneled ==
  config # NoConfig /\ Cardinality(WithStatus("sworn")) >= config.juror_count

(* A matter of a juror who has left the panel is never taken up again.     *)
Live(matters) == {m \in matters : m.juror \in Candidates}

FinishedWith(side, j) ==
  \/ side \in jurors[j].passed
  \/ jurors[j].answered[side] >= policy.questions
  \/ disallowed[side] >= policy.disallowed

ReadyForEmpanelment(j) ==
  jurors[j].responded /\ \A side \in Sides : FinishedWith(side, j)

Unanswered == {j \in Candidates : ~jurors[j].responded}

NeedsQuestionFrom(side) ==
  IF disallowed[side] < policy.disallowed
  THEN {j \in Candidates : /\ jurors[j].responded
                           /\ side \notin jurors[j].passed
                           /\ jurors[j].answered[side] < policy.questions}
  ELSE {}

ForCauseRequests(side) == {j \in DOMAIN jurors : side \in jurors[j].challenged_by}

Strikes(side) == {j \in DOMAIN jurors : side \in jurors[j].struck_by}

MayChallenge(side) ==
  /\ Cardinality(ForCauseRequests(side)) < policy.for_cause
  /\ <<side, "for_cause">> \notin declined
  /\ Candidates \ ForCauseRequests(side) # {}

(* Deviation: a pass on a strike is taken for both sides.                  *)
NobodyDeclinedStrike(side) ==
  /\ Cardinality(Strikes(side)) < policy.peremptory
  /\ \A s \in Sides : <<s, "peremptory">> \notin declined
  /\ Candidates \ Strikes(side) # {}

MayStrike(side) ==
  /\ Cardinality(Strikes(side)) < policy.peremptory
  /\ <<side, "peremptory">> \notin declined
  /\ Candidates \ Strikes(side) # {}

-----------------------------------------------------------------------------
(* The current opportunity, the first of the engine's list: the court's    *)
(* set-up, then what an unfinished voir dire waits for, then the sides'    *)
(* challenges, and the empanelment when nothing else is open.              *)

ChallengeTurn ==
  IF MayChallenge("plaintiff") THEN <<"plaintiff", "challenge_juror_for_cause">>
  ELSE IF MayChallenge("defendant") THEN <<"defendant", "challenge_juror_for_cause">>
  ELSE IF MayStrike("plaintiff") THEN <<"plaintiff", "strike_juror_peremptorily">>
  ELSE IF MayStrike("defendant") THEN <<"defendant", "strike_juror_peremptorily">>
  ELSE IF /\ \A j \in Candidates : ReadyForEmpanelment(j)
          /\ Cardinality(Candidates) >= config.juror_count
       THEN <<"judge", "empanel_jury">>
       ELSE <<"nobody", "none">>

VoirDireTurn ==
  IF ~issued THEN <<"judge", "issue_juror_questionnaire">>
  ELSE IF Unanswered # {} THEN <<"juror", "answer_juror_questionnaire">>
  ELSE IF Live(proposed) # {} THEN <<"judge", "decide_voir_dire_question">>
  ELSE IF Live(challenged) # {} THEN <<"judge", "decide_juror_for_cause_challenge">>
  ELSE IF Live(asked) # {} THEN <<"juror", "answer_voir_dire_question">>
  ELSE IF NeedsQuestionFrom("plaintiff") # {} THEN <<"plaintiff", "record_voir_dire_question">>
  ELSE IF NeedsQuestionFrom("defendant") # {} THEN <<"defendant", "record_voir_dire_question">>
  ELSE ChallengeTurn

MayDismiss == policy.defective /\ dismissal = "open"

CurrentTurn ==
  IF phase = "openings" \/ dismissal = "entered" THEN <<"nobody", "none">>
  ELSE IF MayDismiss THEN <<"judge", "dismiss_for_lack_of_subject_matter_jurisdiction">>
  ELSE IF config = NoConfig THEN <<"clerk", "set_jury_configuration">>
  ELSE IF phase = "none" /\ ~PanelReady THEN <<"clerk", "add_juror">>
  ELSE IF phase = "none" THEN <<"judge", "advance_trial_phase">>
  ELSE IF JuryEmpaneled THEN <<"judge", "advance_trial_phase">>
  ELSE IF ~policy.skip THEN VoirDireTurn
  ELSE IF PanelReady /\ Cardinality(Candidates) >= config.juror_count
       THEN <<"judge", "empanel_at_random">>
       ELSE <<"nobody", "none">>

Turn(role, tool) == CurrentTurn = <<role, tool>>

-----------------------------------------------------------------------------
Init ==
  /\ policy \in Policies
  /\ config = NoConfig
  /\ phase = "none"
  /\ jurors = <<>>
  /\ issued = FALSE
  /\ proposed = {} /\ asked = {} /\ challenged = {} /\ declined = {}
  /\ disallowed = [s \in Sides |-> 0]
  /\ dismissal = "open"

(* Every accepted act clears the passes: the dismissal is open again.      *)
Accepted == dismissal' = "open"

DismissForLackOfJurisdiction ==
  /\ Turn("judge", "dismiss_for_lack_of_subject_matter_jurisdiction")
  /\ dismissal' = "entered"
  /\ UNCHANGED <<policy, config, phase, jurors, issued, proposed, asked, disallowed,
                 challenged, declined>>

DeclineDismissal ==
  /\ Turn("judge", "dismiss_for_lack_of_subject_matter_jurisdiction")
  /\ dismissal' = "passed"
  /\ UNCHANGED <<policy, config, phase, jurors, issued, proposed, asked, disallowed,
                 challenged, declined>>

NoJurySworn == WithStatus("sworn") = {}

SetJuryConfiguration ==
  /\ Turn("clerk", "set_jury_configuration")
  /\ NoJurySworn
  /\ config' = [juror_count |-> policy.juror_count, minimum_concurring |-> policy.minimum]
  /\ Accepted
  /\ UNCHANGED <<policy, phase, jurors, issued, proposed, asked, disallowed,
                 challenged, declined>>

(* The clerk's turn adds as many jurors as the panel lacks.                *)
AddJurors ==
  /\ Turn("clerk", "add_juror")
  /\ NoJurySworn
  /\ jurors' = jurors \o [i \in 1..(CandidateTarget - Cardinality(Candidates)) |-> NewJuror]
  /\ Accepted
  /\ UNCHANGED <<policy, config, phase, issued, proposed, asked, disallowed,
                 challenged, declined>>

AdvanceTrialPhase ==
  /\ Turn("judge", "advance_trial_phase")
  /\ \/ phase = "none" /\ PanelReady /\ phase' = "voir_dire"
     \/ phase = "voir_dire" /\ JuryEmpaneled /\ phase' = "openings"
  /\ Accepted
  /\ UNCHANGED <<policy, config, jurors, issued, proposed, asked, disallowed,
                 challenged, declined>>

IssueQuestionnaire ==
  /\ Turn("judge", "issue_juror_questionnaire")
  /\ ~issued /\ Candidates # {}
  /\ issued' = TRUE
  /\ Accepted
  /\ UNCHANGED <<policy, config, phase, jurors, proposed, asked, disallowed,
                 challenged, declined>>

(* The questionnaire goes to the panel in its order, one juror a turn.     *)
AnswerQuestionnaire ==
  /\ Turn("juror", "answer_juror_questionnaire")
  /\ issued
  /\ jurors' = [jurors EXCEPT ![Min(Unanswered)].responded = TRUE]
  /\ Accepted
  /\ UNCHANGED <<policy, config, phase, issued, proposed, asked, disallowed,
                 challenged, declined>>

AwaitedJurors ==
  IF Turn("juror", "answer_juror_questionnaire") THEN {Min(Unanswered)}
  ELSE IF Turn("juror", "answer_voir_dire_question") THEN {q.juror : q \in Live(asked)}
  ELSE {}

PanelAfterTimeout(j) ==
  Append([jurors EXCEPT ![j].status = "timed_out"], NewJuror)

(* A juror call that fails, whatever the failure, counts as a timeout: the *)
(* juror is excused and the clerk adds another in the same turn.           *)
JurorTimesOut ==
  /\ Cardinality(WithStatus("timed_out")) < MaxReplaced
  /\ NoJurySworn
  /\ \E j \in AwaitedJurors : jurors' = PanelAfterTimeout(j)
  /\ Accepted
  /\ UNCHANGED <<policy, config, phase, issued, proposed, asked, disallowed,
                 challenged, declined>>

(* A side questions the first juror it is not finished with, or passes.    *)
ProposeQuestion(side) ==
  LET j == Min(NeedsQuestionFrom(side)) IN
  /\ Turn(side, "record_voir_dire_question")
  /\ disallowed[side] < policy.disallowed
  /\ jurors[j].answered[side] < policy.questions
  /\ [juror |-> j, by |-> side] \notin proposed \cup asked
  /\ proposed' = proposed \cup {[juror |-> j, by |-> side]}
  /\ Accepted
  /\ UNCHANGED <<policy, config, phase, jurors, issued, asked, disallowed,
                 challenged, declined>>

PassQuestion(side) ==
  /\ Turn(side, "record_voir_dire_question")
  /\ jurors' = [jurors EXCEPT ![Min(NeedsQuestionFrom(side))].passed = @ \cup {side}]
  /\ Accepted
  /\ UNCHANGED <<policy, config, phase, issued, proposed, asked, disallowed,
                 challenged, declined>>

(* Deviation: a disallowed question does not count against the side.       *)
UncountedDisallowed(side) == disallowed

DisallowedAfter(side) == [disallowed EXCEPT ![side] = @ + 1]

DecideQuestion(allow) ==
  /\ Turn("judge", "decide_voir_dire_question")
  /\ \E q \in Live(proposed) :
       /\ proposed' = proposed \ {q}
       /\ IF allow THEN asked' = asked \cup {q} /\ UNCHANGED disallowed
                   ELSE disallowed' = DisallowedAfter(q.by) /\ UNCHANGED asked
  /\ Accepted
  /\ UNCHANGED <<policy, config, phase, jurors, issued, challenged, declined>>

AnswerQuestion ==
  /\ Turn("juror", "answer_voir_dire_question")
  /\ \E q \in Live(asked) :
       /\ asked' = asked \ {q}
       /\ jurors' = [jurors EXCEPT ![q.juror].answered[q.by] = @ + 1]
  /\ Accepted
  /\ UNCHANGED <<policy, config, phase, issued, proposed, disallowed,
                 challenged, declined>>

ChallengeForCause(side) ==
  /\ Turn(side, "challenge_juror_for_cause")
  /\ Live(challenged) = {}
  /\ Cardinality(ForCauseRequests(side)) < policy.for_cause
  /\ \E j \in Candidates \ ForCauseRequests(side) :
       /\ ReadyForEmpanelment(j)
       /\ challenged' = challenged \cup {[juror |-> j, by |-> side]}
       /\ jurors' = [jurors EXCEPT ![j].challenged_by = @ \cup {side}]
  /\ Accepted
  /\ UNCHANGED <<policy, config, phase, issued, proposed, asked, disallowed,
                 declined>>

DecideChallenge(granted) ==
  /\ Turn("judge", "decide_juror_for_cause_challenge")
  /\ \E c \in Live(challenged) :
       /\ challenged' = challenged \ {c}
       /\ jurors' = IF granted
                    THEN [jurors EXCEPT ![c.juror].status = "excused_for_cause"]
                    ELSE jurors
  /\ Accepted
  /\ UNCHANGED <<policy, config, phase, issued, proposed, asked, disallowed,
                 declined>>

StrikePeremptorily(side) ==
  /\ Turn(side, "strike_juror_peremptorily")
  /\ Cardinality(Strikes(side)) < policy.peremptory
  /\ \E j \in Candidates :
       /\ ReadyForEmpanelment(j)
       /\ jurors' = [jurors EXCEPT ![j].status = "struck_peremptory",
                                   ![j].struck_by = @ \cup {side}]
  /\ Accepted
  /\ UNCHANGED <<policy, config, phase, issued, proposed, asked, disallowed,
                 challenged, declined>>

(* A pass on a challenge or a strike is entered in the record and holds    *)
(* for the rest of the selection.                                          *)
Declines(side) ==
  /\ \/ /\ Turn(side, "challenge_juror_for_cause")
        /\ declined' = declined \cup {<<side, "for_cause">>}
     \/ /\ Turn(side, "strike_juror_peremptorily")
        /\ declined' = declined \cup {<<side, "peremptory">>}
  /\ Accepted
  /\ UNCHANGED <<policy, config, phase, jurors, issued, proposed, asked, disallowed,
                 challenged>>

(* Deviation: a juror is sworn whatever became of the candidacy.           *)
AnySelection(selected) == Cardinality(selected) = config.juror_count

SelectionOK(selected) ==
  /\ Cardinality(selected) = config.juror_count
  /\ \A j \in selected : /\ j \in Candidates
                         /\ policy.skip \/ ReadyForEmpanelment(j)

EmpanelOK ==
  policy.skip \/ /\ Live(proposed) = {} /\ Live(asked) = {} /\ Live(challenged) = {}
                 /\ \A j \in Candidates : ReadyForEmpanelment(j)

(* The judge's choice, or the runner's draw when voir dire is skipped.     *)
EmpanelJury ==
  /\ Turn("judge", "empanel_jury") \/ Turn("judge", "empanel_at_random")
  /\ EmpanelOK
  /\ \E selected \in SUBSET (DOMAIN jurors) :
       /\ SelectionOK(selected)
       /\ jurors' = [j \in DOMAIN jurors |->
            IF j \in selected THEN [jurors[j] EXCEPT !.status = "sworn"]
            ELSE IF j \in Candidates
                 THEN [jurors[j] EXCEPT !.status = "excused_after_voir_dire"]
                 ELSE jurors[j]]
  /\ Accepted
  /\ UNCHANGED <<policy, config, phase, issued, proposed, asked, disallowed,
                 challenged, declined>>

(* The rest of the trial is JuryTrial's; a case dismissed is closed.       *)
SelectionOver == (phase = "openings" \/ dismissal = "entered") /\ UNCHANGED vars

Next ==
  \/ SetJuryConfiguration
  \/ AddJurors
  \/ AdvanceTrialPhase
  \/ IssueQuestionnaire
  \/ AnswerQuestionnaire
  \/ JurorTimesOut
  \/ \E side \in Sides : \/ ProposeQuestion(side)
                         \/ PassQuestion(side)
                         \/ Declines(side)
                         \/ ChallengeForCause(side)
                         \/ StrikePeremptorily(side)
  \/ \E allow \in BOOLEAN : DecideQuestion(allow)
  \/ \E granted \in BOOLEAN : DecideChallenge(granted)
  \/ AnswerQuestion
  \/ EmpanelJury
  \/ DismissForLackOfJurisdiction
  \/ DeclineDismissal
  \/ SelectionOver

Spec == Init /\ [][Next]_vars

(* The runner's loop takes turn after turn until it stops.                 *)
FairSpec == Spec /\ WF_vars(Next)

-----------------------------------------------------------------------------
(* Properties.                                                             *)

Juror ==
  [status : Statuses, responded : BOOLEAN, answered : [Sides -> Nat],
   passed : SUBSET Sides, challenged_by : SUBSET Sides, struck_by : SUBSET Sides]

Matter == [juror : DOMAIN jurors, by : Sides]

(* The state is well formed, and matters refer to jurors on record.        *)
TypeOK ==
  /\ policy \in Policies
  /\ config \in {NoConfig} \cup [juror_count : SmallestJury..LargestJury,
                                 minimum_concurring : SmallestJury..LargestJury]
  /\ phase \in {"none", "voir_dire", "openings"}
  /\ jurors \in Seq(Juror)
  /\ issued \in BOOLEAN
  /\ proposed \subseteq Matter /\ asked \subseteq Matter /\ challenged \subseteq Matter
  /\ disallowed \in [Sides -> Nat]
  /\ declined \subseteq Sides \X {"for_cause", "peremptory"}
  /\ dismissal \in {"open", "passed", "entered"}

(* The jury sworn has exactly the size the configuration fixed, and after  *)
(* an oral voir dire nobody on it left a question of the court unanswered, *)
(* was excused or struck, or was sworn with a side's question, a ruling or *)
(* a challenge about that juror outstanding.                               *)
JuryIsVetted ==
  LET jury == WithStatus("sworn") IN
  jury # {} \/ phase = "openings" =>
    /\ Cardinality(jury) = config.juror_count
    /\ \A j \in jury : jurors[j].struck_by = {}
    /\ ~policy.skip =>
         /\ \A j \in jury : jurors[j].responded
         /\ \A m \in proposed \cup asked \cup challenged : m.juror \notin jury

(* When the jury is sworn neither side was cut short: with each juror who  *)
(* stayed to the end it asked all its questions, passed, or had used up    *)
(* its disallowed ones, and of each kind of challenge it made all it may,  *)
(* declined, or had nobody left to name.  A replacement who comes late is  *)
(* no exception.                                                           *)
BothSidesHeard ==
  WithStatus("sworn") # {} /\ ~policy.skip => \A side \in Sides :
    LET stayed == WithStatus("sworn") \cup WithStatus("excused_after_voir_dire") IN
    /\ \A j \in stayed : FinishedWith(side, j)
    /\ \/ Cardinality(ForCauseRequests(side)) = policy.for_cause
       \/ <<side, "for_cause">> \in declined
       \/ stayed \subseteq ForCauseRequests(side)
    /\ \/ Cardinality(Strikes(side)) = policy.peremptory
       \/ <<side, "peremptory">> \in declined

(* However often questions are disallowed, jurors challenged and struck    *)
(* and replaced when they time out, enough candidates remain and selection *)
(* reaches openings with a jury, unless the judge dismisses a case that    *)
(* pleads no jurisdiction.                                                 *)
SelectionEnds == <>(phase = "openings" \/ (policy.defective /\ dismissal = "entered"))
==============================================================================
