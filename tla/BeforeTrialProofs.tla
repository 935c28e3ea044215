------------------------- MODULE BeforeTrialProofs -------------------------
(***************************************************************************)
(* What is proved of a civil case before its trial.                        *)
(*                                                                         *)
(* First the jury that selection swears, for juries and panels of every    *)
(* size, any policy, and whoever is questioned, challenged, struck or      *)
(* replaced.  Once a jury is sworn nothing but the phase changes; before,  *)
(* whatever happens, a candidate is somebody no side has struck.  A case   *)
(* dismissed for lack of jurisdiction stays as it is.  What                *)
(* each side is owed of each candidate is a second invariant.              *)
(*                                                                         *)
(* Then the way of a case to trial or to rest, for every roster, complaint *)
(* and policy: the first open item of an agenda is taken, so whoever       *)
(* leaves an agenda by its last item leaves nothing behind on it.          *)
(***************************************************************************)
EXTENDS Pretrial, JurySelection, FiniteSetTheorems, WellFoundedInduction, TLAPS

Jury == WithStatus("sworn")

\* Selection is over: only the phase may still change.
Over == Jury # {} \/ phase = "openings"

Unstruck == \A j \in Candidates : jurors[j].struck_by = {}

Settled ==
  Over => /\ config # NoConfig /\ phase \in {"voir_dire", "openings"}
          /\ Cardinality(Jury) = config.juror_count

Inv == TypeOK /\ Unstruck /\ Settled /\ JuryIsVetted

-----------------------------------------------------------------------------
(* Numbers.                                                                *)

\* Every set of numbers has a least one, which Min names.
LEMMA LeastIsMin ==
  ASSUME NEW T \in SUBSET Nat, T # {}
  PROVE  Min(T) \in T /\ \A y \in T : Min(T) <= y
<1>1. PICK x \in T : \A y \in T : <<y, x>> \notin OpToRel(<, Nat)
  BY NatLessThanWellFounded, WFMin
<1>2. ASSUME NEW y \in T PROVE x <= y
  <2>1. y \in Nat /\ x \in Nat
    OBVIOUS
  <2>2. ~ (y < x)
    BY <1>1, <2>1 DEF OpToRel
  <2>. QED BY <2>1, <2>2
<1>. QED BY <1>2 DEF Min

\* The panel the clerk fills up to is a number of jurors.
LEMMA TargetIsNumber ==
  ASSUME NEW a \in Nat, NEW b \in Nat
  PROVE  Max({a, b}) \in Nat
<1>1. \E x \in {a, b} : \A y \in {a, b} : x >= y
  OBVIOUS
<1>. QED BY <1>1 DEF Max

-----------------------------------------------------------------------------
(* Panels.                                                                 *)

LEMMA Types ==
  ASSUME Inv
  PROVE  /\ policy \in CourtPolicy
         /\ jurors \in Seq(Juror) /\ DOMAIN jurors = 1..Len(jurors) /\ Len(jurors) \in Nat
         /\ \A j \in DOMAIN jurors : jurors[j] \in Juror
         /\ config # NoConfig =>
              config.juror_count \in Nat /\ config.juror_count > 0
         /\ config \in {NoConfig} \cup [juror_count : SmallestJury..LargestJury,
                                        minimum_concurring : SmallestJury..LargestJury]
         /\ proposed \subseteq Matter /\ asked \subseteq Matter /\ challenged \subseteq Matter
         /\ disallowed \in [Sides -> Nat]
         /\ declined \subseteq Sides \X {"for_cause", "peremptory"}
         /\ phase \in {"none", "voir_dire", "openings"} /\ issued \in BOOLEAN
         /\ dismissal \in {"open", "passed", "entered"}
         /\ policy \in Policies
<1>1. jurors \in Seq(Juror)
  BY DEF Inv, TypeOK
<1>2. DOMAIN jurors = 1..Len(jurors) /\ Len(jurors) \in Nat /\ \A j \in DOMAIN jurors : jurors[j] \in Juror
  BY <1>1
<1>3. config # NoConfig => config.juror_count \in SmallestJury..LargestJury
  BY DEF Inv, TypeOK
<1>. QED BY <1>1, <1>2, <1>3, SelectionAssumption DEF Inv, TypeOK

\* A panel in which one juror has changed.
LEMMA JurorChanged ==
  ASSUME NEW js \in Seq(Juror), NEW j \in DOMAIN js, NEW r \in Juror,
         NEW n, n = [js EXCEPT ![j] = r]
  PROVE  /\ n \in Seq(Juror) /\ DOMAIN n = DOMAIN js
         /\ \A i \in DOMAIN js : n[i] = IF i = j THEN r ELSE js[i]
OBVIOUS

DismissalTool == "dismiss_for_lack_of_subject_matter_jurisdiction"

\* Once a jury is sworn the judge advances the trial, or may dismiss the case, or
\* selection is over.
LEMMA OnlyAdvance ==
  ASSUME Inv, Over
  PROVE  CurrentTurn \in {<<"judge", "advance_trial_phase">>, <<"judge", DismissalTool>>,
                          <<"nobody", "none">>}
<1>1. /\ config # NoConfig /\ phase \in {"voir_dire", "openings"}
      /\ Cardinality(Jury) = config.juror_count /\ config.juror_count \in Nat
  BY Types DEF Inv, Settled
<1>2. JuryEmpaneled
  BY <1>1 DEF JuryEmpaneled, Jury
<1>. QED BY <1>1, <1>2 DEF CurrentTurn, DismissalTool

(***************************************************************************)
(* A step that swears nobody, taken while nobody is sworn, has only to     *)
(* keep the types and to strike nobody who stays a candidate.              *)
(***************************************************************************)
LEMMA SelectionStep ==
  ASSUME TypeOK', Unstruck', Jury' = {}, phase' # "openings"
  PROVE  Inv'
BY DEF Inv, Over, Settled, JuryIsVetted, Jury

\* Such a step changes one juror, or none.
LEMMA OneJuror ==
  ASSUME Inv, ~ Over, NEW j \in DOMAIN jurors, NEW r \in Juror,
         jurors' = [jurors EXCEPT ![j] = r],
         r.status \in Statuses \ {"sworn"},
         r.status = "candidate" => r.struck_by = {},
         UNCHANGED <<policy, config, phase, issued, disallowed, declined>>, Accepted,
         proposed' \subseteq Matter, asked' \subseteq Matter, challenged' \subseteq Matter
  PROVE  Inv'
<1>1. /\ jurors' \in Seq(Juror) /\ DOMAIN jurors' = DOMAIN jurors
      /\ \A i \in DOMAIN jurors : jurors'[i] = IF i = j THEN r ELSE jurors[i]
  BY Types, JurorChanged
<1>2. TypeOK'
  BY <1>1, Types DEF TypeOK, Matter, Accepted
<1>3. Unstruck'
  BY <1>1 DEF Inv, Unstruck, Candidates, WithStatus
<1>4. Jury' = {} /\ phase' # "openings"
  BY <1>1 DEF Over, Jury, WithStatus
<1>. QED BY <1>2, <1>3, <1>4, SelectionStep

\* No turn but the judge's advance is taken once selection is over.
LEMMA TurnFacts ==
  ASSUME Inv, NEW role \in Sides \cup {"judge", "clerk", "juror"}, NEW tool,
         tool \notin {"advance_trial_phase", DismissalTool}, Turn(role, tool)
  PROVE  ~ Over
BY OnlyAdvance DEF Turn, Sides

\* Who is questioned, or awaited, is a candidate.
LEMMA Questioned ==
  ASSUME Inv
  PROVE  /\ \A side \in Sides : Turn(side, "record_voir_dire_question") =>
              Min(NeedsQuestionFrom(side)) \in Candidates
         /\ Turn("juror", "answer_juror_questionnaire") => Min(Unanswered) \in Candidates
         /\ AwaitedJurors \subseteq Candidates
         /\ AwaitedJurors # {} => ~ Over
<1>1. Candidates \subseteq DOMAIN jurors /\ DOMAIN jurors \subseteq Nat
  BY Types DEF Candidates, WithStatus
<1>2. ASSUME NEW side \in Sides, Turn(side, "record_voir_dire_question")
      PROVE  Min(NeedsQuestionFrom(side)) \in Candidates
  <2>1. NeedsQuestionFrom(side) # {}
    BY <1>2 DEF Turn, CurrentTurn, VoirDireTurn, ChallengeTurn, Sides
  <2>2. NeedsQuestionFrom(side) \subseteq Candidates
    BY DEF NeedsQuestionFrom
  <2>3. NeedsQuestionFrom(side) \in SUBSET Nat
    BY <1>1, <2>2
  <2>. QED BY <2>1, <2>2, <2>3, LeastIsMin
<1>3. ASSUME Turn("juror", "answer_juror_questionnaire")
      PROVE  Min(Unanswered) \in Candidates
  <2>1. Unanswered # {}
    BY <1>3 DEF Turn, CurrentTurn, VoirDireTurn, ChallengeTurn
  <2>2. Unanswered \subseteq Candidates
    BY DEF Unanswered
  <2>3. Unanswered \in SUBSET Nat
    BY <1>1, <2>2
  <2>. QED BY <2>1, <2>2, <2>3, LeastIsMin
<1>4. AwaitedJurors \subseteq Candidates
  BY <1>3 DEF AwaitedJurors, Live
<1>5. AwaitedJurors # {} => ~ Over
  BY TurnFacts DEF DismissalTool, AwaitedJurors
<1>. QED BY <1>2, <1>3, <1>4, <1>5

\* A candidate has a record, and nobody has struck him.
LEMMA CandidateFacts ==
  ASSUME Inv, NEW j \in Candidates
  PROVE  /\ j \in DOMAIN jurors /\ jurors[j] \in Juror /\ jurors[j].status = "candidate"
         /\ jurors[j].struck_by = {}
BY Types DEF Inv, Unstruck, Candidates, WithStatus

-----------------------------------------------------------------------------
(* The steps.                                                              *)

\* The clerk's and the judge's preparations, and the passes on challenges.
LEMMA PreparingKeepsInv ==
  ASSUME Inv, SetJuryConfiguration \/ IssueQuestionnaire \/ \E side \in Sides : Declines(side)
  PROVE  Inv'
<1>1. ~ Over
  BY TurnFacts DEF DismissalTool, SetJuryConfiguration, IssueQuestionnaire, Declines, Sides
<1>2. /\ UNCHANGED <<policy, phase, jurors, proposed, asked, disallowed, challenged>>
      /\ issued' \in BOOLEAN
  BY Types DEF SetJuryConfiguration, IssueQuestionnaire, Declines
<1>3. config' \in {NoConfig} \cup [juror_count : SmallestJury..LargestJury,
                                   minimum_concurring : SmallestJury..LargestJury]
  <2>1. CASE SetJuryConfiguration
    <3>1. /\ policy.juror_count \in SmallestJury..LargestJury
          /\ policy.minimum \in SmallestJury..LargestJury
      BY Types, SelectionAssumption DEF CourtPolicy
    <3>. QED BY <2>1, <3>1 DEF SetJuryConfiguration
  <2>2. CASE IssueQuestionnaire \/ \E side \in Sides : Declines(side)
    BY <2>2, Types DEF IssueQuestionnaire, Declines
  <2>. QED BY <2>1, <2>2
<1>4. declined' \subseteq Sides \X {"for_cause", "peremptory"}
  BY Types DEF SetJuryConfiguration, IssueQuestionnaire, Declines
<1>5. TypeOK'
  BY <1>2, <1>3, <1>4, Types DEF TypeOK, Matter, Accepted, SetJuryConfiguration,
     IssueQuestionnaire, Declines
<1>6. Unstruck' /\ Jury' = {} /\ phase' # "openings"
  BY <1>1, <1>2 DEF Inv, Unstruck, Candidates, Over, Jury, WithStatus
<1>. QED BY <1>5, <1>6, SelectionStep

\* New jurors are candidates nobody has struck.
LEMMA NewJurorFacts ==
  NewJuror \in Juror /\ NewJuror.status = "candidate" /\ NewJuror.struck_by = {}
BY DEF NewJuror, Juror, Statuses, Sides

\* The clerk's jurors join a panel that stays as it is.
LEMMA AddedPanel ==
  ASSUME Inv, AddJurors
  PROVE  /\ jurors' \in Seq(Juror) /\ DOMAIN jurors \subseteq DOMAIN jurors'
         /\ \A i \in DOMAIN jurors : jurors'[i] = jurors[i]
         /\ \A i \in DOMAIN jurors' \ DOMAIN jurors : jurors'[i] = NewJuror
<1>. DEFINE count == CandidateTarget - Cardinality(Candidates)
            more == [i \in 1..count |-> NewJuror]
<1>2. count \in Int
  <2>1. config.juror_count \in Nat /\ config # NoConfig
    BY Types DEF AddJurors, Turn, CurrentTurn, VoirDireTurn, ChallengeTurn
  <2>2. policy.panel \in Nat /\ policy.for_cause \in Nat /\ policy.peremptory \in Nat
    BY Types DEF CourtPolicy
  <2>3. CandidateTarget \in Nat
    BY <2>1, <2>2, TargetIsNumber DEF CandidateTarget
  <2>4. Cardinality(Candidates) \in Nat
    <3>1. Candidates \subseteq 1..Len(jurors) /\ Len(jurors) \in Nat
      BY Types DEF Candidates, WithStatus
    <3>2. IsFiniteSet(1..Len(jurors))
      BY <3>1, FS_Interval
    <3>3. IsFiniteSet(Candidates)
      BY <3>1, <3>2, FS_Subset
    <3>. QED BY <3>3, FS_CardinalityType
  <2>. QED BY <2>3, <2>4
<1>. HIDE DEF count
<1>3. more \in Seq(Juror) /\ \A i \in DOMAIN more : more[i] = NewJuror
  <2>1. CASE count \in Nat
    BY <2>1, NewJurorFacts
  <2>2. CASE count \notin Nat
    <3>1. 1..count = 1..0 /\ 1..0 = {}
      BY <1>2, <2>2
    <3>2. [i \in 1..0 |-> NewJuror] \in Seq(Juror) /\ DOMAIN [i \in 1..0 |-> NewJuror] = 1..0
      BY NewJurorFacts
    <3>3. more = [i \in 1..0 |-> NewJuror]
      BY <3>1
    <3>. HIDE DEF more
    <3>. QED BY <3>1, <3>2, <3>3
  <2>. QED BY <2>1, <2>2
<1>. HIDE DEF more
<1>4. jurors' = jurors \o more
  BY DEF AddJurors, more, count
<1>. QED BY <1>3, <1>4, Types

LEMMA AddingKeepsInv ==
  ASSUME Inv, AddJurors
  PROVE  Inv'
<1>1. ~ Over
  BY TurnFacts DEF DismissalTool, AddJurors
<1>2. /\ jurors' \in Seq(Juror) /\ DOMAIN jurors \subseteq DOMAIN jurors'
      /\ \A i \in DOMAIN jurors : jurors'[i] = jurors[i]
      /\ \A i \in DOMAIN jurors' \ DOMAIN jurors : jurors'[i] = NewJuror
  BY AddedPanel
<1>3. /\ UNCHANGED <<policy, config, phase, issued, proposed, asked, disallowed, challenged, declined>>
  BY DEF AddJurors
<1>4. TypeOK'
  BY <1>2, <1>3, Types DEF TypeOK, Matter, AddJurors, Accepted
<1>5. Unstruck' /\ Jury' = {} /\ phase' # "openings"
  BY <1>1, <1>2, <1>3, NewJurorFacts DEF Inv, Unstruck, Candidates, Over, Jury, WithStatus
<1>. QED BY <1>4, <1>5, SelectionStep

\* A juror who does not answer leaves, and another joins.
LEMMA ReplacedPanel ==
  ASSUME Inv, JurorTimesOut
  PROVE  /\ ~ Over /\ jurors' \in Seq(Juror) /\ DOMAIN jurors \subseteq DOMAIN jurors'
         /\ \A i \in DOMAIN jurors :
              \/ jurors'[i] = jurors[i]
              \/ /\ jurors'[i].status = "timed_out"
                 /\ jurors'[i].struck_by = jurors[i].struck_by
                 /\ jurors'[i].challenged_by = jurors[i].challenged_by
         /\ \A i \in DOMAIN jurors' \ DOMAIN jurors : jurors'[i] = NewJuror
<1>1. PICK j \in AwaitedJurors : jurors' = PanelAfterTimeout(j)
  BY DEF JurorTimesOut
<1>2. ~ Over /\ j \in Candidates
  BY <1>1, Questioned
<1>3. j \in DOMAIN jurors /\ jurors[j] \in Juror
  BY <1>2, CandidateFacts
<1>. DEFINE r == [jurors[j] EXCEPT !.status = "timed_out"]
            panel == [jurors EXCEPT ![j] = r]
<1>4. /\ r \in Juror /\ r.status = "timed_out"
      /\ r.struck_by = jurors[j].struck_by /\ r.challenged_by = jurors[j].challenged_by
  BY <1>3 DEF Juror, Statuses
<1>5. jurors' = Append(panel, NewJuror)
  BY <1>1 DEF PanelAfterTimeout
<1>. HIDE DEF r
<1>6. /\ panel \in Seq(Juror) /\ DOMAIN panel = DOMAIN jurors
      /\ \A i \in DOMAIN jurors : panel[i] = IF i = j THEN r ELSE jurors[i]
  BY <1>3, <1>4, Types, JurorChanged
<1>. HIDE DEF panel
<1>7. /\ jurors' \in Seq(Juror) /\ DOMAIN jurors \subseteq DOMAIN jurors'
      /\ \A i \in DOMAIN jurors : jurors'[i] = panel[i]
      /\ \A i \in DOMAIN jurors' \ DOMAIN jurors : jurors'[i] = NewJuror
  BY <1>5, <1>6, NewJurorFacts
<1>. QED BY <1>2, <1>4, <1>6, <1>7

LEMMA TimeoutKeepsInv ==
  ASSUME Inv, JurorTimesOut
  PROVE  Inv'
<1>1. /\ ~ Over /\ jurors' \in Seq(Juror) /\ DOMAIN jurors \subseteq DOMAIN jurors'
      /\ \A i \in DOMAIN jurors : jurors'[i].status \in {jurors[i].status, "timed_out"}
      /\ \A i \in DOMAIN jurors : jurors'[i].struck_by = jurors[i].struck_by
      /\ \A i \in DOMAIN jurors' \ DOMAIN jurors : jurors'[i] = NewJuror
  BY ReplacedPanel
<1>2. UNCHANGED <<policy, config, phase, issued, proposed, asked, disallowed, challenged, declined>>
  BY DEF JurorTimesOut
<1>3. TypeOK'
  BY <1>1, <1>2, Types DEF TypeOK, Matter, JurorTimesOut, Accepted
<1>4. Unstruck' /\ Jury' = {} /\ phase' # "openings"
  BY <1>1, <1>2, NewJurorFacts
  DEF Inv, Unstruck, Candidates, Over, Jury, WithStatus
<1>. QED BY <1>3, <1>4, SelectionStep

\* The questionnaire, and questions that are proposed, passed, and answered.
LEMMA QuestioningKeepsInv ==
  ASSUME Inv, \/ AnswerQuestionnaire \/ AnswerQuestion
              \/ \E side \in Sides : ProposeQuestion(side) \/ PassQuestion(side)
              \/ \E allow \in BOOLEAN : DecideQuestion(allow)
  PROVE  Inv'
<1>0. Accepted
  BY DEF AnswerQuestionnaire, AnswerQuestion, ProposeQuestion, PassQuestion, DecideQuestion
<1>1. ~ Over
  BY TurnFacts DEF DismissalTool, AnswerQuestionnaire, AnswerQuestion, ProposeQuestion,
                   PassQuestion, DecideQuestion, Sides
<1>2. CASE AnswerQuestionnaire
  <2>. DEFINE j == Min(Unanswered)
              r == [jurors[j] EXCEPT !.responded = TRUE]
  <2>1. j \in Candidates
    BY <1>2, Questioned DEF AnswerQuestionnaire
  <2>2. PICK k \in Candidates : k = j
    BY <2>1
  <2>3. k \in DOMAIN jurors /\ jurors[k] \in Juror /\ jurors[k].status = "candidate"
        /\ jurors[k].struck_by = {}
    BY CandidateFacts
  <2>. DEFINE s == [jurors[k] EXCEPT !.responded = TRUE]
  <2>4. s \in Juror /\ s.status = "candidate" /\ s.struck_by = {}
    BY <2>3 DEF Juror
  <2>5. jurors' = [jurors EXCEPT ![k] = s]
    BY <1>2, <2>2 DEF AnswerQuestionnaire
  <2>6. UNCHANGED <<policy, config, phase, issued, proposed, asked, disallowed, challenged, declined>>
    BY <1>2 DEF AnswerQuestionnaire
  <2>. HIDE DEF s
  <2>. QED BY <1>0, <1>1, <2>3, <2>4, <2>5, <2>6, Types, OneJuror DEF Statuses
<1>3. CASE AnswerQuestion
  <2>1. PICK q \in Live(asked) : /\ asked' = asked \ {q}
                                 /\ jurors' = [jurors EXCEPT ![q.juror].answered[q.by] = @ + 1]
    BY <1>3 DEF AnswerQuestion
  <2>2. PICK k \in Candidates, side \in Sides : k = q.juror /\ side = q.by
    BY Types DEF Live, Matter
  <2>3. k \in DOMAIN jurors /\ jurors[k] \in Juror /\ jurors[k].status = "candidate"
        /\ jurors[k].struck_by = {}
    BY CandidateFacts
  <2>. DEFINE s == [jurors[k] EXCEPT !.answered[side] = @ + 1]
  <2>4. s \in Juror /\ s.status = "candidate" /\ s.struck_by = {}
    BY <2>3 DEF Juror
  <2>5. jurors' = [jurors EXCEPT ![k] = s]
    BY <2>1, <2>2
  <2>6. UNCHANGED <<policy, config, phase, issued, proposed, disallowed, challenged, declined>>
        /\ asked' \subseteq Matter
    BY <1>3, <2>1, Types DEF AnswerQuestion
  <2>. HIDE DEF s
  <2>. QED BY <1>0, <1>1, <2>3, <2>4, <2>5, <2>6, Types, OneJuror DEF Statuses
<1>4. ASSUME NEW side \in Sides, PassQuestion(side)
      PROVE  Inv'
  <2>1. PICK k \in Candidates : k = Min(NeedsQuestionFrom(side))
    BY <1>4, Questioned DEF PassQuestion
  <2>2. k \in DOMAIN jurors /\ jurors[k] \in Juror /\ jurors[k].status = "candidate"
        /\ jurors[k].struck_by = {}
    BY CandidateFacts
  <2>. DEFINE s == [jurors[k] EXCEPT !.passed = @ \cup {side}]
  <2>3. s \in Juror /\ s.status = "candidate" /\ s.struck_by = {}
    BY <2>2 DEF Juror
  <2>4. jurors' = [jurors EXCEPT ![k] = s]
    BY <1>4, <2>1 DEF PassQuestion
  <2>5. UNCHANGED <<policy, config, phase, issued, proposed, asked, disallowed, challenged, declined>>
    BY <1>4 DEF PassQuestion
  <2>. HIDE DEF s
  <2>. QED BY <1>0, <1>1, <2>2, <2>3, <2>4, <2>5, Types, OneJuror DEF Statuses
<1>5. ASSUME UNCHANGED <<policy, config, phase, jurors, issued, challenged, declined>>,
             proposed' \subseteq Matter, asked' \subseteq Matter, disallowed' \in [Sides -> Nat]
      PROVE  Inv'
  <2>1. TypeOK'
    BY <1>0, <1>5, Types DEF TypeOK, Matter, Accepted
  <2>2. Unstruck' /\ Jury' = {} /\ phase' # "openings"
    BY <1>1, <1>5 DEF Inv, Unstruck, Candidates, Over, Jury, WithStatus
  <2>. QED BY <2>1, <2>2, SelectionStep
<1>6. ASSUME NEW side \in Sides, ProposeQuestion(side)
      PROVE  Inv'
  <2>1. PICK k \in Candidates : k = Min(NeedsQuestionFrom(side))
    BY <1>6, Questioned DEF ProposeQuestion
  <2>2. k \in DOMAIN jurors
    BY CandidateFacts
  <2>3. [juror |-> k, by |-> side] \in Matter
    BY <2>2 DEF Matter
  <2>4. proposed' = proposed \cup {[juror |-> k, by |-> side]}
    BY <1>6, <2>1 DEF ProposeQuestion
  <2>5. UNCHANGED <<policy, config, phase, jurors, issued, asked, disallowed, challenged, declined>>
    BY <1>6 DEF ProposeQuestion
  <2>. QED BY <1>5, <2>3, <2>4, <2>5, Types
<1>7. ASSUME NEW allow \in BOOLEAN, DecideQuestion(allow)
      PROVE  Inv'
  <2>1. PICK q \in Live(proposed) :
          /\ proposed' = proposed \ {q}
          /\ IF allow THEN asked' = asked \cup {q} /\ UNCHANGED disallowed
                      ELSE disallowed' = DisallowedAfter(q.by) /\ UNCHANGED asked
    BY <1>7 DEF DecideQuestion
  <2>2. q \in Matter /\ q.by \in Sides
    BY Types DEF Live, Matter
  <2>3. disallowed' \in [Sides -> Nat] /\ asked' \subseteq Matter /\ proposed' \subseteq Matter
    BY <2>1, <2>2, Types DEF DisallowedAfter
  <2>4. UNCHANGED <<policy, config, phase, jurors, issued, challenged, declined>>
    BY <1>7 DEF DecideQuestion
  <2>. QED BY <1>5, <2>3, <2>4
<1>. QED BY <1>2, <1>3, <1>4, <1>6, <1>7

\* Challenges for cause, rulings on them, and strikes.
LEMMA ChallengingKeepsInv ==
  ASSUME Inv, \/ \E side \in Sides : ChallengeForCause(side) \/ StrikePeremptorily(side)
              \/ \E granted \in BOOLEAN : DecideChallenge(granted)
  PROVE  Inv'
<1>0. Accepted
  BY DEF ChallengeForCause, StrikePeremptorily, DecideChallenge
<1>1. ~ Over
  BY TurnFacts DEF DismissalTool, ChallengeForCause, StrikePeremptorily, DecideChallenge, Sides
<1>2. ASSUME NEW side \in Sides, ChallengeForCause(side)
      PROVE  Inv'
  <2>1. PICK k \in Candidates : /\ challenged' = challenged \cup {[juror |-> k, by |-> side]}
                                /\ jurors' = [jurors EXCEPT ![k].challenged_by = @ \cup {side}]
    BY <1>2 DEF ChallengeForCause
  <2>2. k \in DOMAIN jurors /\ jurors[k] \in Juror /\ jurors[k].status = "candidate"
        /\ jurors[k].struck_by = {}
    BY CandidateFacts
  <2>. DEFINE s == [jurors[k] EXCEPT !.challenged_by = @ \cup {side}]
  <2>3. s \in Juror /\ s.status = "candidate" /\ s.struck_by = {}
    BY <2>2 DEF Juror
  <2>4. jurors' = [jurors EXCEPT ![k] = s]
    BY <2>1
  <2>5. UNCHANGED <<policy, config, phase, issued, proposed, asked, disallowed, declined>>
    BY <1>2 DEF ChallengeForCause
  <2>6. [juror |-> k, by |-> side] \in Matter
    BY <2>2 DEF Matter
  <2>7. challenged' \subseteq Matter
    BY <2>1, <2>6, Types
  <2>. HIDE DEF s
  <2>. QED BY <1>0, <1>1, <2>2, <2>3, <2>4, <2>5, <2>7, Types, OneJuror DEF Statuses
<1>3. ASSUME NEW side \in Sides, StrikePeremptorily(side)
      PROVE  Inv'
  <2>1. PICK k \in Candidates :
          jurors' = [jurors EXCEPT ![k].status = "struck_peremptory",
                                   ![k].struck_by = @ \cup {side}]
    BY <1>3 DEF StrikePeremptorily
  <2>2. k \in DOMAIN jurors /\ jurors[k] \in Juror
    BY CandidateFacts
  <2>. DEFINE s == [jurors[k] EXCEPT !.status = "struck_peremptory", !.struck_by = @ \cup {side}]
  <2>3. s \in Juror /\ s.status = "struck_peremptory"
    BY <2>2 DEF Juror, Statuses
  <2>4. jurors' = [jurors EXCEPT ![k] = s]
    BY <2>1
  <2>5. UNCHANGED <<policy, config, phase, issued, proposed, asked, disallowed, challenged, declined>>
    BY <1>3 DEF StrikePeremptorily
  <2>. HIDE DEF s
  <2>. QED BY <1>0, <1>1, <2>2, <2>3, <2>4, <2>5, Types, OneJuror DEF Statuses
<1>4. ASSUME NEW granted \in BOOLEAN, DecideChallenge(granted)
      PROVE  Inv'
  <2>1. PICK c \in Live(challenged) :
          /\ challenged' = challenged \ {c}
          /\ jurors' = IF granted
                       THEN [jurors EXCEPT ![c.juror].status = "excused_for_cause"]
                       ELSE jurors
    BY <1>4 DEF DecideChallenge
  <2>2. PICK k \in Candidates : k = c.juror
    BY DEF Live
  <2>3. k \in DOMAIN jurors /\ jurors[k] \in Juror /\ jurors[k].status = "candidate"
        /\ jurors[k].struck_by = {}
    BY CandidateFacts
  <2>4. UNCHANGED <<policy, config, phase, issued, proposed, asked, disallowed, declined>>
        /\ challenged' \subseteq Matter
    BY <1>4, <2>1, Types DEF DecideChallenge
  <2>5. CASE granted
    <3>. DEFINE s == [jurors[k] EXCEPT !.status = "excused_for_cause"]
    <3>1. s \in Juror /\ s.status = "excused_for_cause"
      BY <2>3 DEF Juror, Statuses
    <3>2. jurors' = [jurors EXCEPT ![k] = s]
      BY <2>1, <2>2, <2>5
    <3>. HIDE DEF s
    <3>. QED BY <1>0, <1>1, <2>3, <2>4, <3>1, <3>2, Types, OneJuror DEF Statuses
  <2>6. CASE ~ granted
    <3>1. jurors' = [jurors EXCEPT ![k] = jurors[k]]
      BY <2>1, <2>6, Types
    <3>. QED BY <1>0, <1>1, <2>3, <2>4, <3>1, Types, OneJuror DEF Statuses
  <2>. QED BY <2>5, <2>6
<1>. QED BY <1>2, <1>3, <1>4

\* The jury is sworn from the candidates.
LEMMA EmpanelingKeepsInv ==
  ASSUME Inv, EmpanelJury
  PROVE  Inv'
<1>1. ~ Over
  BY TurnFacts DEF DismissalTool, EmpanelJury
<1>2. config # NoConfig /\ phase = "voir_dire" /\ config.juror_count \in Nat
  BY Types DEF EmpanelJury, Turn, CurrentTurn, VoirDireTurn, ChallengeTurn
<1>3. PICK selected \in SUBSET (DOMAIN jurors) :
        /\ SelectionOK(selected)
        /\ jurors' = [j \in DOMAIN jurors |->
             IF j \in selected THEN [jurors[j] EXCEPT !.status = "sworn"]
             ELSE IF j \in Candidates
                  THEN [jurors[j] EXCEPT !.status = "excused_after_voir_dire"]
                  ELSE jurors[j]]
  BY DEF EmpanelJury
<1>4. UNCHANGED <<policy, config, phase, issued, proposed, asked, disallowed, challenged, declined>>
  BY DEF EmpanelJury
<1>5. ASSUME NEW j \in DOMAIN jurors
      PROVE  /\ jurors'[j] \in Juror /\ jurors'[j].struck_by = jurors[j].struck_by
             /\ jurors'[j].responded = jurors[j].responded
             /\ jurors'[j].status = IF j \in selected THEN "sworn"
                                    ELSE IF j \in Candidates THEN "excused_after_voir_dire"
                                    ELSE jurors[j].status
  <2>1. jurors[j] \in Juror
    BY Types
  <2>2. \A st \in Statuses :
          /\ [jurors[j] EXCEPT !.status = st] \in Juror
          /\ [jurors[j] EXCEPT !.status = st].status = st
          /\ [jurors[j] EXCEPT !.status = st].struck_by = jurors[j].struck_by
          /\ [jurors[j] EXCEPT !.status = st].responded = jurors[j].responded
    BY <2>1 DEF Juror
  <2>3. CASE j \in selected
    <3>1. jurors'[j] = [jurors[j] EXCEPT !.status = "sworn"] /\ "sworn" \in Statuses
      BY <1>3, <2>3 DEF Statuses
    <3>. QED BY <2>2, <2>3, <3>1
  <2>4. CASE j \notin selected /\ j \in Candidates
    <3>1. /\ jurors'[j] = [jurors[j] EXCEPT !.status = "excused_after_voir_dire"]
          /\ "excused_after_voir_dire" \in Statuses
      BY <1>3, <2>4 DEF Statuses
    <3>. QED BY <2>2, <2>4, <3>1
  <2>5. CASE j \notin selected /\ j \notin Candidates
    BY <1>3, <2>1, <2>5
  <2>. QED BY <2>3, <2>4, <2>5
<1>6. DOMAIN jurors' = DOMAIN jurors /\ jurors' \in Seq(Juror)
  <2>1. DOMAIN jurors' = 1..Len(jurors) /\ Len(jurors) \in Nat
    BY <1>3, Types
  <2>2. jurors' = [j \in 1..Len(jurors) |-> jurors'[j]]
    BY <1>3, Types
  <2>. QED BY <1>5, <2>1, <2>2, Types
<1>7. TypeOK'
  BY <1>4, <1>6, Types DEF TypeOK, Matter, EmpanelJury, Accepted
<1>8. Jury' = selected /\ Candidates' = {}
  BY <1>1, <1>5, <1>6 DEF Over, Jury, Candidates, WithStatus
<1>9. Settled'
  BY <1>2, <1>3, <1>4, <1>8 DEF Settled, Over, SelectionOK
<1>10. JuryIsVetted'
  <2>1. Cardinality(selected) = config.juror_count /\ selected \subseteq Candidates
    BY <1>3 DEF SelectionOK
  <2>2. \A j \in selected : jurors'[j].struck_by = {}
    BY <1>5, <2>1, CandidateFacts
  <2>3. ASSUME ~ policy.skip
        PROVE  /\ \A j \in selected : jurors'[j].responded
               /\ \A m \in proposed \cup asked \cup challenged : m.juror \notin selected
    <3>1. \A j \in selected : jurors[j].responded
      BY <1>3, <2>3 DEF SelectionOK, ReadyForEmpanelment
    <3>2. Live(proposed) = {} /\ Live(asked) = {} /\ Live(challenged) = {}
      BY <2>3 DEF EmpanelJury, EmpanelOK
    <3>. QED BY <1>5, <2>1, <3>1, <3>2 DEF Live
  <2>. QED BY <1>4, <1>8, <2>1, <2>2, <2>3 DEF JuryIsVetted, Jury
<1>11. Unstruck'
  BY <1>8 DEF Unstruck
<1>. QED BY <1>7, <1>9, <1>10, <1>11 DEF Inv

\* The judge opens the voir dire, or the trial once the jury is sworn.
LEMMA AdvancingKeepsInv ==
  ASSUME Inv, AdvanceTrialPhase
  PROVE  Inv'
<1>1. UNCHANGED <<policy, config, jurors, issued, proposed, asked, disallowed, challenged, declined>>
  BY DEF AdvanceTrialPhase
<1>2. TypeOK'
  BY <1>1, Types DEF AdvanceTrialPhase, TypeOK, Matter, Accepted
<1>3. Unstruck' /\ Jury' = Jury
  BY <1>1 DEF Inv, Unstruck, Candidates, Jury, WithStatus
<1>4. CASE phase = "none" /\ phase' = "voir_dire"
  <2>1. Jury = {}
    BY <1>4 DEF Inv, Settled, Over
  <2>. QED BY <1>2, <1>3, <1>4, <2>1, SelectionStep
<1>5. CASE phase = "voir_dire" /\ JuryEmpaneled /\ phase' = "openings"
  <2>1. Jury # {}
    <3>1. Cardinality(Jury) >= config.juror_count /\ config.juror_count > 0
          /\ config.juror_count \in Nat
      BY <1>5, Types DEF JuryEmpaneled, Jury
    <3>. QED BY <3>1, FS_EmptySet
  <2>2. config # NoConfig /\ Cardinality(Jury) = config.juror_count /\ JuryIsVetted
    BY <2>1 DEF Inv, Settled, Over
  <2>3. Settled'
    BY <1>1, <1>3, <1>5, <2>2 DEF Settled
  <2>4. JuryIsVetted'
    BY <1>1, <2>1, <2>2 DEF JuryIsVetted, Jury, WithStatus
  <2>. QED BY <1>2, <1>3, <2>3, <2>4 DEF Inv
<1>. QED BY <1>4, <1>5 DEF AdvanceTrialPhase

-----------------------------------------------------------------------------
(* The invariant.                                                          *)

LEMMA InitInv ==
  ASSUME Init
  PROVE  Inv
<1>1. DOMAIN jurors = {} /\ jurors \in Seq(Juror)
  BY DEF Init
<1>2. TypeOK
  BY <1>1 DEF Init, TypeOK, Sides
<1>3. Jury = {} /\ Candidates = {} /\ phase # "openings"
  BY <1>1 DEF Init, Jury, Candidates, WithStatus
<1>. QED BY <1>2, <1>3 DEF Inv, Unstruck, Settled, Over, JuryIsVetted, Jury

\* Whether the judge dismisses the case or declines to, its selection stays as it is.
LEMMA StutterKeepsInv ==
  ASSUME Inv, \/ DismissForLackOfJurisdiction \/ DeclineDismissal
              \/ SelectionOver \/ UNCHANGED vars
  PROVE  Inv'
<1>1. /\ UNCHANGED <<policy, config, phase, jurors, issued, proposed, asked, disallowed,
                     challenged, declined>>
      /\ dismissal' \in {"open", "passed", "entered"}
  BY Types DEF vars, DismissForLackOfJurisdiction, DeclineDismissal, SelectionOver
<1>2. TypeOK'
  BY <1>1, Types DEF TypeOK, Matter
<1>3. Unstruck' /\ Settled' /\ JuryIsVetted'
  BY <1>1 DEF Inv, Unstruck, Settled, Over, JuryIsVetted, Jury, Candidates, WithStatus
<1>. QED BY <1>2, <1>3 DEF Inv

LEMMA NextInv ==
  ASSUME Inv, [Next]_vars
  PROVE  Inv'
BY PreparingKeepsInv, AddingKeepsInv, TimeoutKeepsInv, QuestioningKeepsInv,
   ChallengingKeepsInv, EmpanelingKeepsInv, AdvancingKeepsInv, StutterKeepsInv
DEF Next

(***************************************************************************)
(* However selection goes, candidates, challenges and the jury sworn agree *)
(* as Inv says.                                                            *)
(***************************************************************************)
THEOREM Invariance == Spec => []Inv
<1>1. Init => Inv
  BY InitInv
<1>2. Inv /\ [Next]_vars => Inv'
  BY NextInv
<1>. QED BY <1>1, <1>2, PTL DEF Spec

\* The panel is well formed, and every matter is of a juror on record.
THEOREM TypeCorrect == Spec => []TypeOK
<1>1. Inv => TypeOK
  BY DEF Inv
<1>. QED BY <1>1, Invariance, PTL

(***************************************************************************)
(* Whoever times out or is replaced, challenged or struck, the jury sworn  *)
(* has the configured size, and after a voir dire its members have         *)
(* answered and leave nothing about them open.                             *)
(***************************************************************************)
THEOREM JuryVetted == Spec => []JuryIsVetted
<1>1. Inv => JuryIsVetted
  BY DEF Inv
<1>. QED BY <1>1, Invariance, PTL

-----------------------------------------------------------------------------
(* What the sides are owed: the invariant of BothSidesHeard.               *)

\* No side has more challenges or strikes than the policy gives it.
Bounded ==
  \A side \in Sides : /\ Cardinality(ForCauseRequests(side)) <= policy.for_cause
                      /\ Cardinality(Strikes(side)) <= policy.peremptory

Dismissed == WithStatus("excused_after_voir_dire")

BothHeard == Bounded /\ (~ Over => Dismissed = {}) /\ BothSidesHeard

\* The panel n is the panel as it is, with its challenges, strikes and jury;
\* a juror may have left, others may have joined.
Kept(n) ==
  /\ DOMAIN jurors \subseteq DOMAIN n
  /\ \A i \in DOMAIN jurors :
       /\ n[i].challenged_by = jurors[i].challenged_by
       /\ n[i].struck_by = jurors[i].struck_by
       /\ n[i].status \in {jurors[i].status, "timed_out", "excused_for_cause"}
  /\ \A i \in DOMAIN n \ DOMAIN jurors : n[i] = NewJuror

\* The challenges of a side, and its strikes, can be counted.
LEMMA Countable ==
  ASSUME Inv, NEW S \in SUBSET (DOMAIN jurors)
  PROVE  IsFiniteSet(S) /\ Cardinality(S) \in Nat
<1>1. DOMAIN jurors = 1..Len(jurors) /\ Len(jurors) \in Nat
  BY Types
<1>2. IsFiniteSet(1..Len(jurors))
  BY <1>1, FS_Interval
<1>. QED BY <1>1, <1>2, FS_Subset, FS_CardinalityType

\* While nobody is sworn, such a step takes nothing from either side.
LEMMA KeptHeard ==
  ASSUME Inv, BothHeard, ~ Over, Kept(jurors'), policy' = policy
  PROVE  BothHeard'
<1>1. \A side \in Sides : ForCauseRequests(side)' = ForCauseRequests(side)
                          /\ Strikes(side)' = Strikes(side)
  BY DEF Kept, ForCauseRequests, Strikes, NewJuror
<1>2. Jury' = {} /\ Dismissed' = {}
  BY DEF Kept, BothHeard, Over, Jury, Dismissed, WithStatus, NewJuror
<1>3. Bounded'
  BY <1>1 DEF BothHeard, Bounded
<1>. QED BY <1>2, <1>3 DEF BothHeard, BothSidesHeard, Jury

LEMMA SamePanelKept ==
  ASSUME jurors' = jurors
  PROVE  Kept(jurors')
BY DEF Kept

LEMMA PreparingHeard ==
  ASSUME Inv, BothHeard, \/ SetJuryConfiguration \/ IssueQuestionnaire \/ AddJurors
                     \/ JurorTimesOut \/ \E side \in Sides : Declines(side)
  PROVE  BothHeard'
<1>1. CASE SetJuryConfiguration \/ IssueQuestionnaire \/ \E side \in Sides : Declines(side)
  <2>1. ~ Over
    BY <1>1, TurnFacts DEF DismissalTool, SetJuryConfiguration, IssueQuestionnaire, Declines, Sides
  <2>2. jurors' = jurors /\ policy' = policy
    BY <1>1 DEF SetJuryConfiguration, IssueQuestionnaire, Declines
  <2>. QED BY <2>1, <2>2, SamePanelKept, KeptHeard
<1>2. CASE AddJurors
  <2>1. ~ Over
    BY <1>2, TurnFacts DEF DismissalTool, AddJurors
  <2>2. Kept(jurors') /\ policy' = policy
    BY <1>2, AddedPanel DEF Kept, AddJurors
  <2>. QED BY <2>1, <2>2, KeptHeard
<1>3. CASE JurorTimesOut
  <2>1. ~ Over /\ Kept(jurors')
    BY <1>3, ReplacedPanel DEF Kept
  <2>2. policy' = policy
    BY <1>3 DEF JurorTimesOut
  <2>. QED BY <2>1, <2>2, KeptHeard
<1>. QED BY <1>1, <1>2, <1>3

LEMMA QuestioningHeard ==
  ASSUME Inv, BothHeard,
         \/ AnswerQuestionnaire \/ AnswerQuestion
         \/ \E side \in Sides : ProposeQuestion(side) \/ PassQuestion(side)
         \/ \E allow \in BOOLEAN : DecideQuestion(allow)
         \/ \E granted \in BOOLEAN : DecideChallenge(granted)
  PROVE  BothHeard'
<1>1. ~ Over
  BY TurnFacts DEF DismissalTool, AnswerQuestionnaire, AnswerQuestion, ProposeQuestion,
                   PassQuestion, DecideQuestion, DecideChallenge, Sides
<1>2. policy' = policy
  BY DEF AnswerQuestionnaire, AnswerQuestion, ProposeQuestion, PassQuestion,
         DecideQuestion, DecideChallenge
<1>3. CASE AnswerQuestionnaire
  <2>1. PICK k \in Candidates : jurors' = [jurors EXCEPT ![k].responded = TRUE]
    BY <1>3, Questioned DEF AnswerQuestionnaire
  <2>2. k \in DOMAIN jurors /\ jurors[k] \in Juror
    BY CandidateFacts
  <2>3. Kept(jurors')
    BY <2>1, <2>2 DEF Kept, Juror
  <2>. QED BY <1>1, <1>2, <2>3, KeptHeard
<1>4. CASE AnswerQuestion
  <2>1. PICK k \in DOMAIN jurors, side \in Sides :
          /\ jurors[k] \in Juror
          /\ jurors' = [jurors EXCEPT ![k].answered[side] = @ + 1]
    BY <1>4, Types DEF AnswerQuestion, Live, Matter
  <2>2. Kept(jurors')
    BY <2>1 DEF Kept, Juror
  <2>. QED BY <1>1, <1>2, <2>2, KeptHeard
<1>5. ASSUME NEW side \in Sides, PassQuestion(side)
      PROVE  BothHeard'
  <2>1. PICK k \in Candidates : jurors' = [jurors EXCEPT ![k].passed = @ \cup {side}]
    BY <1>5, Questioned DEF PassQuestion
  <2>2. k \in DOMAIN jurors /\ jurors[k] \in Juror
    BY CandidateFacts
  <2>3. Kept(jurors')
    BY <2>1, <2>2 DEF Kept, Juror
  <2>. QED BY <1>1, <1>2, <2>3, KeptHeard
<1>6. ASSUME NEW granted \in BOOLEAN, DecideChallenge(granted)
      PROVE  BothHeard'
  <2>1. PICK k \in Candidates :
          jurors' = IF granted THEN [jurors EXCEPT ![k].status = "excused_for_cause"]
                    ELSE jurors
    BY <1>6 DEF DecideChallenge, Live
  <2>2. k \in DOMAIN jurors /\ jurors[k] \in Juror
    BY CandidateFacts
  <2>3. Kept(jurors')
    BY <2>1, <2>2 DEF Kept, Juror
  <2>. QED BY <1>1, <1>2, <2>3, KeptHeard
<1>7. CASE \/ \E side \in Sides : ProposeQuestion(side)
           \/ \E allow \in BOOLEAN : DecideQuestion(allow)
  <2>1. jurors' = jurors
    BY <1>7 DEF ProposeQuestion, DecideQuestion
  <2>. QED BY <1>1, <1>2, <2>1, SamePanelKept, KeptHeard
<1>. QED BY <1>3, <1>4, <1>5, <1>6, <1>7

\* A challenge or a strike is one more of its side, which had one left.
LEMMA ChallengingHeard ==
  ASSUME Inv, BothHeard, NEW side \in Sides, ChallengeForCause(side) \/ StrikePeremptorily(side)
  PROVE  BothHeard'
<1>1. ~ Over
  BY TurnFacts DEF DismissalTool, ChallengeForCause, StrikePeremptorily, Sides
<1>2. policy' = policy /\ policy.for_cause \in Nat /\ policy.peremptory \in Nat
  BY Types DEF ChallengeForCause, StrikePeremptorily, CourtPolicy
<1>3. PICK k \in Candidates :
        \/ /\ Cardinality(ForCauseRequests(side)) < policy.for_cause
           /\ jurors' = [jurors EXCEPT ![k].challenged_by = @ \cup {side}]
        \/ /\ Cardinality(Strikes(side)) < policy.peremptory
           /\ jurors' = [jurors EXCEPT ![k].status = "struck_peremptory",
                                       ![k].struck_by = @ \cup {side}]
  BY DEF ChallengeForCause, StrikePeremptorily
<1>4. k \in DOMAIN jurors /\ jurors[k] \in Juror /\ jurors[k].status = "candidate"
  BY CandidateFacts
<1>5. /\ DOMAIN jurors' = DOMAIN jurors
      /\ \A i \in DOMAIN jurors : jurors'[i].status \in {jurors[i].status, "struck_peremptory"}
  BY <1>3, <1>4 DEF Juror
<1>6. Jury' = {} /\ Dismissed' = {}
  BY <1>1, <1>5 DEF BothHeard, Over, Jury, Dismissed, WithStatus
<1>7. ASSUME NEW S \in SUBSET (DOMAIN jurors), NEW limit \in Nat, Cardinality(S) < limit
      PROVE  Cardinality(S \cup {k}) <= limit
  <2>1. IsFiniteSet(S) /\ Cardinality(S) \in Nat
    BY Countable
  <2>2. Cardinality(S \cup {k}) = IF k \in S THEN Cardinality(S) ELSE Cardinality(S) + 1
    BY <2>1, FS_AddElement
  <2>. QED BY <1>7, <2>1, <2>2
<1>8. Bounded'
  <2>. SUFFICES ASSUME NEW other \in Sides
                PROVE  /\ Cardinality(ForCauseRequests(other)') <= policy.for_cause
                       /\ Cardinality(Strikes(other)') <= policy.peremptory
    BY <1>2 DEF Bounded
  <2>1. /\ Cardinality(ForCauseRequests(other)) <= policy.for_cause
        /\ Cardinality(Strikes(other)) <= policy.peremptory
        /\ ForCauseRequests(other) \subseteq DOMAIN jurors
        /\ Strikes(other) \subseteq DOMAIN jurors
    BY DEF BothHeard, Bounded, ForCauseRequests, Strikes
  <2>2. CASE /\ Cardinality(ForCauseRequests(side)) < policy.for_cause
             /\ jurors' = [jurors EXCEPT ![k].challenged_by = @ \cup {side}]
    <3>1. Strikes(other)' = Strikes(other)
      BY <1>4, <2>2 DEF Strikes, Juror
    <3>2. CASE other = side
      <4>1. ForCauseRequests(side)' = ForCauseRequests(side) \cup {k}
        BY <1>4, <2>2 DEF ForCauseRequests, Juror
      <4>. QED BY <1>2, <1>7, <2>1, <2>2, <3>1, <3>2, <4>1
    <3>3. CASE other # side
      <4>1. ForCauseRequests(other)' = ForCauseRequests(other)
        BY <1>4, <2>2, <3>3 DEF ForCauseRequests, Juror
      <4>. QED BY <2>1, <3>1, <4>1
    <3>. QED BY <3>2, <3>3
  <2>3. CASE /\ Cardinality(Strikes(side)) < policy.peremptory
             /\ jurors' = [jurors EXCEPT ![k].status = "struck_peremptory",
                                         ![k].struck_by = @ \cup {side}]
    <3>1. ForCauseRequests(other)' = ForCauseRequests(other)
      BY <1>4, <2>3 DEF ForCauseRequests, Juror
    <3>2. CASE other = side
      <4>1. Strikes(side)' = Strikes(side) \cup {k}
        BY <1>4, <2>3 DEF Strikes, Juror
      <4>. QED BY <1>2, <1>7, <2>1, <2>3, <3>1, <3>2, <4>1
    <3>3. CASE other # side
      <4>1. Strikes(other)' = Strikes(other)
        BY <1>4, <2>3, <3>3 DEF Strikes, Juror
      <4>. QED BY <2>1, <3>1, <4>1
    <3>. QED BY <3>2, <3>3
  <2>. QED BY <1>3, <2>2, <2>3
<1>. QED BY <1>6, <1>8 DEF BothHeard, BothSidesHeard, Jury

\* The jury is sworn when no side has anything left to ask or to challenge.
LEMMA EmpanelingHeard ==
  ASSUME Inv, BothHeard, EmpanelJury
  PROVE  BothHeard'
<1>1. ~ Over
  BY TurnFacts DEF DismissalTool, EmpanelJury
<1>2. PICK selected \in SUBSET (DOMAIN jurors) :
        /\ SelectionOK(selected)
        /\ jurors' = [j \in DOMAIN jurors |->
             IF j \in selected THEN [jurors[j] EXCEPT !.status = "sworn"]
             ELSE IF j \in Candidates
                  THEN [jurors[j] EXCEPT !.status = "excused_after_voir_dire"]
                  ELSE jurors[j]]
  BY DEF EmpanelJury
<1>3. UNCHANGED <<policy, config, phase, disallowed, declined>>
  BY DEF EmpanelJury
<1>4. DOMAIN jurors' = DOMAIN jurors
  BY <1>2
<1>5. ASSUME NEW j \in DOMAIN jurors
      PROVE  /\ jurors'[j].challenged_by = jurors[j].challenged_by
             /\ jurors'[j].struck_by = jurors[j].struck_by
             /\ jurors'[j].answered = jurors[j].answered
             /\ jurors'[j].passed = jurors[j].passed
             /\ jurors'[j].status = IF j \in selected THEN "sworn"
                                    ELSE IF j \in Candidates THEN "excused_after_voir_dire"
                                    ELSE jurors[j].status
  <2>1. jurors[j] \in Juror
    BY Types
  <2>. QED BY <1>2, <2>1 DEF Juror
<1>6. \A side \in Sides : ForCauseRequests(side)' = ForCauseRequests(side)
                          /\ Strikes(side)' = Strikes(side)
  BY <1>4, <1>5 DEF ForCauseRequests, Strikes
<1>7. Bounded'
  BY <1>3, <1>6 DEF BothHeard, Bounded
<1>8. Jury' \cup Dismissed' = Candidates /\ Jury' = selected
  <2>1. Jury = {} /\ Dismissed = {} /\ selected \subseteq Candidates
    BY <1>1, <1>2 DEF BothHeard, Over, SelectionOK
  <2>. QED BY <1>4, <1>5, <2>1 DEF Jury, Dismissed, Candidates, WithStatus
<1>9. config # NoConfig /\ phase = "voir_dire" /\ Candidates # {} /\ selected # {}
  <2>1. config # NoConfig /\ phase = "voir_dire"
    BY Types DEF EmpanelJury, Turn, CurrentTurn, VoirDireTurn, ChallengeTurn
  <2>2. Cardinality(selected) = config.juror_count /\ config.juror_count \in Nat
        /\ config.juror_count > 0 /\ selected \subseteq Candidates
    BY <1>2, <2>1, Types DEF SelectionOK
  <2>3. selected # {}
    BY <2>2, FS_EmptySet
  <2>. QED BY <2>1, <2>2, <2>3
<1>10. Over'
  BY <1>8, <1>9 DEF Over
<1>11. ASSUME ~ policy.skip, NEW side \in Sides
       PROVE  /\ \A j \in Candidates : FinishedWith(side, j)'
              /\ \/ Cardinality(ForCauseRequests(side)) = policy.for_cause
                 \/ <<side, "for_cause">> \in declined
                 \/ Candidates \subseteq ForCauseRequests(side)
              /\ \/ Cardinality(Strikes(side)) = policy.peremptory
                 \/ <<side, "peremptory">> \in declined
  <2>1. /\ ~ MayChallenge(side) /\ ~ MayStrike(side)
        /\ \A j \in Candidates : ReadyForEmpanelment(j)
    BY <1>11 DEF EmpanelJury, Turn, CurrentTurn, VoirDireTurn, ChallengeTurn, Sides
  <2>2. \A j \in Candidates : FinishedWith(side, j)
    BY <2>1 DEF ReadyForEmpanelment
  <2>3. \A j \in Candidates : FinishedWith(side, j)'
    BY <1>3, <1>5, <2>2, CandidateFacts DEF FinishedWith
  <2>4. /\ Cardinality(ForCauseRequests(side)) \in Nat
        /\ Cardinality(Strikes(side)) \in Nat
        /\ policy.for_cause \in Nat /\ policy.peremptory \in Nat
    BY Countable, Types DEF ForCauseRequests, Strikes, CourtPolicy
  <2>5. /\ Cardinality(ForCauseRequests(side)) <= policy.for_cause
        /\ Cardinality(Strikes(side)) <= policy.peremptory
    BY DEF BothHeard, Bounded
  <2>6. Candidates \ Strikes(side) # {}
    BY <1>9, CandidateFacts DEF Strikes
  <2>. QED BY <2>1, <2>3, <2>4, <2>5, <2>6 DEF MayChallenge, MayStrike
<1>12. BothSidesHeard'
  BY <1>3, <1>6, <1>8, <1>11 DEF BothSidesHeard, Jury, Dismissed
<1>. QED BY <1>7, <1>10, <1>12 DEF BothHeard

\* The phase is nobody's entitlement, nor is a dismissal.
LEMMA AdvancingHeard ==
  ASSUME Inv, BothHeard, \/ AdvanceTrialPhase \/ DismissForLackOfJurisdiction
                         \/ DeclineDismissal \/ SelectionOver \/ UNCHANGED vars
  PROVE  BothHeard'
<1>1. UNCHANGED <<policy, jurors, disallowed, declined>>
  BY DEF AdvanceTrialPhase, DismissForLackOfJurisdiction, DeclineDismissal, SelectionOver, vars
<1>2. \A side \in Sides :
        /\ ForCauseRequests(side)' = ForCauseRequests(side)
        /\ Strikes(side)' = Strikes(side)
        /\ \A j : FinishedWith(side, j)' = FinishedWith(side, j)
  BY <1>1 DEF ForCauseRequests, Strikes, FinishedWith
<1>3. Bounded'
  BY <1>1, <1>2 DEF BothHeard, Bounded
<1>4. Jury' = Jury /\ Dismissed' = Dismissed
  BY <1>1 DEF Jury, Dismissed, WithStatus
<1>5. BothSidesHeard'
  BY <1>1, <1>2, <1>4 DEF BothHeard, BothSidesHeard, Jury, Dismissed
<1>6. Dismissed' = Dismissed /\ (Over => Over')
  BY <1>1 DEF AdvanceTrialPhase, DismissForLackOfJurisdiction, DeclineDismissal,
     SelectionOver, vars, Dismissed, Over, Jury, WithStatus
<1>. QED BY <1>3, <1>5, <1>6 DEF BothHeard

LEMMA InitHeard ==
  ASSUME Init
  PROVE  BothHeard
<1>1. DOMAIN jurors = {}
  BY DEF Init
<1>2. /\ Jury = {} /\ Dismissed = {}
      /\ \A side \in Sides : ForCauseRequests(side) = {} /\ Strikes(side) = {}
  BY <1>1 DEF Jury, Dismissed, WithStatus, ForCauseRequests, Strikes
<1>3. policy.for_cause \in Nat /\ policy.peremptory \in Nat
  BY SelectionAssumption DEF Init, CourtPolicy
<1>4. Bounded
  BY <1>2, <1>3, FS_EmptySet DEF Bounded
<1>. QED BY <1>2, <1>4 DEF BothHeard, BothSidesHeard, Jury

LEMMA NextHeard ==
  ASSUME Inv, BothHeard, [Next]_vars
  PROVE  BothHeard'
BY PreparingHeard, QuestioningHeard, ChallengingHeard, EmpanelingHeard, AdvancingHeard
DEF Next

(***************************************************************************)
(* No side is cut short, for any policy and panel: when the jury is sworn  *)
(* each side has asked every juror who stayed what it may, and has used or *)
(* declined its challenges and its strikes.                                *)
(***************************************************************************)
THEOREM NobodyCutShort == Spec => []BothSidesHeard
<1>1. Init => BothHeard
  BY InitHeard
<1>2. Inv /\ BothHeard /\ [Next]_vars => BothHeard'
  BY NextHeard
<1>3. BothHeard => BothSidesHeard
  BY DEF BothHeard
<1>. QED BY <1>1, <1>2, <1>3, Invariance, PTL DEF Spec

-----------------------------------------------------------------------------
(* The agendas of a case before trial.                                     *)

\* The tools whose effect is more than a single fact.
Special == {"file_answer", "resolve_trial_mode", "transition_case", "import_case_file",
            "submit_technical_report"}

\* The tool by which a fact that matters comes onto the record.
Leads(fact, tool) ==
  /\ fact = "rule 12 motion" => tool = "file_rule12_motion"
  /\ fact = "rule 37 motion" => tool = "file_rule37_motion"
  /\ fact = "rule 56 motion" => tool = "file_rule56_motion"
  /\ fact = "rule 59 motion" => tool = "file_rule59_motion"
  /\ fact = "rule 60 motion" => tool = "file_rule60_motion"
  /\ fact = "interrogatories" => tool = "serve_interrogatories"
  /\ fact = "production request" => tool = "serve_request_for_production"
  /\ fact = "admission requests" => tool = "serve_requests_for_admission"
  /\ fact = "rule 12 order" => tool = "decide_rule12_motion"
  /\ fact = "rule 56 order" => tool = "decide_rule56_motion"
  /\ fact \in {"jury trial", "bench trial"} => tool = "resolve_trial_mode"

\* A tool that leaves its own fact and nothing else.
Plain(tool) == tool \in DOMAIN FactOf /\ Leads(FactOf[tool], tool)

\* The side of a tool whose use obliges the other side or the judge.
OfSide(item) ==
  /\ item.tool \in {"file_rule12_motion", "file_rule56_motion", "file_rule59_motion",
                    "file_rule60_motion"} => item.role = "defendant"
  /\ item.tool \in {"file_rule37_motion", "serve_interrogatories",
                    "serve_request_for_production", "serve_requests_for_admission"}
       => item.role = "plaintiff"
  /\ item.tool = "transition_case" => item.role = "judge"
  /\ item.tool \notin Special => Plain(item.tool)

\* What holds of the items of each agenda, and where the decisive ones stand.
FiledItem(item, i) ==
  /\ item.kind # "none"
  /\ OfSide(item)
  /\ item.tool \in {"oppose_rule56_motion", "decide_rule56_motion"} => FALSE
  /\ item.tool = "decide_rule12_motion" => i = 4
  /\ item.tool = "resolve_trial_mode" => i = 19
  /\ item.tool = "transition_case" => i = 20

PretrialItem(item, i) ==
  /\ item.kind # "none"
  /\ OfSide(item)
  /\ item.tool \notin {"file_rule12_motion", "decide_rule12_motion", "resolve_trial_mode"}
  /\ item.tool = "decide_rule56_motion" => i = 20
  /\ item.tool = "transition_case" => i = 25

PostJudgmentItem(item, i) ==
  /\ item.kind # "none"
  /\ OfSide(item)
  /\ item.tool \notin {"decide_rule12_motion", "decide_rule56_motion", "resolve_trial_mode",
                       "transition_case"}

\* A tool with one effect leaves its own fact.
LEMMA PlainFacts ==
  /\ Plain("file_rule12_motion")
  /\ Plain("oppose_rule12_motion")
  /\ Plain("reply_rule12_motion")
  /\ Plain("decide_rule12_motion")
  /\ Plain("file_amended_complaint")
  /\ Plain("serve_rule11_safe_harbor_notice")
  /\ Plain("withdraw_or_correct_filing")
  /\ Plain("file_rule11_motion")
  /\ Plain("decide_rule11_motion")
  /\ Plain("enter_default")
  /\ Plain("enter_default_judgment")
  /\ Plain("make_rule68_offer")
  /\ Plain("accept_rule68_offer")
  /\ Plain("expire_rule68_offers")
  /\ Plain("evaluate_rule68_cost_shift")
  /\ Plain("set_last_pleading_served_on")
  /\ Plain("record_jury_demand")
  /\ Plain("enter_protective_order")
  /\ Plain("lift_protective_order")
  /\ Plain("enter_partial_judgment")
  /\ Plain("serve_initial_disclosures")
  /\ Plain("serve_interrogatories")
  /\ Plain("respond_interrogatories")
  /\ Plain("serve_request_for_production")
  /\ Plain("produce_case_file")
  /\ Plain("respond_request_for_production")
  /\ Plain("serve_requests_for_admission")
  /\ Plain("respond_requests_for_admission")
  /\ Plain("file_rule37_motion")
  /\ Plain("decide_rule37_motion")
  /\ Plain("file_rule56_motion")
  /\ Plain("oppose_rule56_motion")
  /\ Plain("reply_rule56_motion")
  /\ Plain("decide_rule56_motion")
  /\ Plain("dismiss_case_rule41")
  /\ Plain("enter_settlement")
  /\ Plain("enter_pretrial_order")
  /\ Plain("file_rule59_motion")
  /\ Plain("resolve_rule59_motion")
  /\ Plain("file_rule60_motion")
  /\ Plain("resolve_rule60_motion")
  /\ Plain("post_supersedeas_bond")
  /\ Plain("order_discretionary_stay")
  /\ Plain("lift_stay")
  /\ Plain("dismiss_for_lack_of_subject_matter_jurisdiction")
<1>1. Plain("file_rule12_motion")
  BY DEF Plain, FactOf, Leads
<1>2. Plain("oppose_rule12_motion")
  BY DEF Plain, FactOf, Leads
<1>3. Plain("reply_rule12_motion")
  BY DEF Plain, FactOf, Leads
<1>4. Plain("decide_rule12_motion")
  BY DEF Plain, FactOf, Leads
<1>5. Plain("file_amended_complaint")
  BY DEF Plain, FactOf, Leads
<1>6. Plain("serve_rule11_safe_harbor_notice")
  BY DEF Plain, FactOf, Leads
<1>7. Plain("withdraw_or_correct_filing")
  BY DEF Plain, FactOf, Leads
<1>8. Plain("file_rule11_motion")
  BY DEF Plain, FactOf, Leads
<1>9. Plain("decide_rule11_motion")
  BY DEF Plain, FactOf, Leads
<1>10. Plain("enter_default")
  BY DEF Plain, FactOf, Leads
<1>11. Plain("enter_default_judgment")
  BY DEF Plain, FactOf, Leads
<1>12. Plain("make_rule68_offer")
  BY DEF Plain, FactOf, Leads
<1>13. Plain("accept_rule68_offer")
  BY DEF Plain, FactOf, Leads
<1>14. Plain("expire_rule68_offers")
  BY DEF Plain, FactOf, Leads
<1>15. Plain("evaluate_rule68_cost_shift")
  BY DEF Plain, FactOf, Leads
<1>16. Plain("set_last_pleading_served_on")
  BY DEF Plain, FactOf, Leads
<1>17. Plain("record_jury_demand")
  BY DEF Plain, FactOf, Leads
<1>18. Plain("enter_protective_order")
  BY DEF Plain, FactOf, Leads
<1>19. Plain("lift_protective_order")
  BY DEF Plain, FactOf, Leads
<1>20. Plain("enter_partial_judgment")
  BY DEF Plain, FactOf, Leads
<1>21. Plain("serve_initial_disclosures")
  BY DEF Plain, FactOf, Leads
<1>22. Plain("serve_interrogatories")
  BY DEF Plain, FactOf, Leads
<1>23. Plain("respond_interrogatories")
  BY DEF Plain, FactOf, Leads
<1>24. Plain("serve_request_for_production")
  BY DEF Plain, FactOf, Leads
<1>25. Plain("produce_case_file")
  BY DEF Plain, FactOf, Leads
<1>26. Plain("respond_request_for_production")
  BY DEF Plain, FactOf, Leads
<1>27. Plain("serve_requests_for_admission")
  BY DEF Plain, FactOf, Leads
<1>28. Plain("respond_requests_for_admission")
  BY DEF Plain, FactOf, Leads
<1>29. Plain("file_rule37_motion")
  BY DEF Plain, FactOf, Leads
<1>30. Plain("decide_rule37_motion")
  BY DEF Plain, FactOf, Leads
<1>31. Plain("file_rule56_motion")
  BY DEF Plain, FactOf, Leads
<1>32. Plain("oppose_rule56_motion")
  BY DEF Plain, FactOf, Leads
<1>33. Plain("reply_rule56_motion")
  BY DEF Plain, FactOf, Leads
<1>34. Plain("decide_rule56_motion")
  BY DEF Plain, FactOf, Leads
<1>35. Plain("dismiss_case_rule41")
  BY DEF Plain, FactOf, Leads
<1>36. Plain("enter_settlement")
  BY DEF Plain, FactOf, Leads
<1>37. Plain("enter_pretrial_order")
  BY DEF Plain, FactOf, Leads
<1>38. Plain("file_rule59_motion")
  BY DEF Plain, FactOf, Leads
<1>39. Plain("resolve_rule59_motion")
  BY DEF Plain, FactOf, Leads
<1>40. Plain("file_rule60_motion")
  BY DEF Plain, FactOf, Leads
<1>41. Plain("resolve_rule60_motion")
  BY DEF Plain, FactOf, Leads
<1>42. Plain("post_supersedeas_bond")
  BY DEF Plain, FactOf, Leads
<1>43. Plain("order_discretionary_stay")
  BY DEF Plain, FactOf, Leads
<1>44. Plain("lift_stay")
  BY DEF Plain, FactOf, Leads
<1>45. Plain("dismiss_for_lack_of_subject_matter_jurisdiction")
  BY DEF Plain, FactOf, Leads
<1> QED
  BY <1>1, <1>2, <1>3, <1>4, <1>5, <1>6, <1>7, <1>8, <1>9, <1>10, <1>11, <1>12, <1>13,
     <1>14, <1>15, <1>16, <1>17, <1>18, <1>19, <1>20, <1>21, <1>22, <1>23, <1>24, <1>25,
     <1>26, <1>27, <1>28, <1>29, <1>30, <1>31, <1>32, <1>33, <1>34, <1>35, <1>36, <1>37,
     <1>38, <1>39, <1>40, <1>41, <1>42, <1>43, <1>44, <1>45

\* The items of the agendas, one by one.
LEMMA FiledItems ==
  /\ DOMAIN FiledAgenda = 1..20
  /\ \A i \in 1..20 : FiledItem(FiledAgenda[i], i)
<1>0. DOMAIN FiledAgenda = 1..20
  BY DEF FiledAgenda
<1>1. FiledItem(FiledAgenda[1], 1)
  BY PlainFacts DEF FiledAgenda, Item, FiledItem, OfSide, Special
<1>2. FiledItem(FiledAgenda[2], 2)
  BY PlainFacts DEF FiledAgenda, Item, FiledItem, OfSide, Special
<1>3. FiledItem(FiledAgenda[3], 3)
  BY PlainFacts DEF FiledAgenda, Item, FiledItem, OfSide, Special
<1>4. FiledItem(FiledAgenda[4], 4)
  BY PlainFacts DEF FiledAgenda, Item, FiledItem, OfSide, Special
<1>5. FiledItem(FiledAgenda[5], 5)
  BY PlainFacts DEF FiledAgenda, Item, FiledItem, OfSide, Special
<1>6. FiledItem(FiledAgenda[6], 6)
  BY PlainFacts DEF FiledAgenda, Item, FiledItem, OfSide, Special
<1>7. FiledItem(FiledAgenda[7], 7)
  BY PlainFacts DEF FiledAgenda, Item, FiledItem, OfSide, Special
<1>8. FiledItem(FiledAgenda[8], 8)
  BY PlainFacts DEF FiledAgenda, Item, FiledItem, OfSide, Special
<1>9. FiledItem(FiledAgenda[9], 9)
  BY PlainFacts DEF FiledAgenda, Item, FiledItem, OfSide, Special
<1>10. FiledItem(FiledAgenda[10], 10)
  BY PlainFacts DEF FiledAgenda, Item, FiledItem, OfSide, Special
<1>11. FiledItem(FiledAgenda[11], 11)
  BY PlainFacts DEF FiledAgenda, Item, FiledItem, OfSide, Special
<1>12. FiledItem(FiledAgenda[12], 12)
  BY PlainFacts DEF FiledAgenda, Item, FiledItem, OfSide, Special
<1>13. FiledItem(FiledAgenda[13], 13)
  BY PlainFacts DEF FiledAgenda, Item, FiledItem, OfSide, Special
<1>14. FiledItem(FiledAgenda[14], 14)
  BY PlainFacts DEF FiledAgenda, Item, FiledItem, OfSide, Special
<1>15. FiledItem(FiledAgenda[15], 15)
  BY PlainFacts DEF FiledAgenda, Item, FiledItem, OfSide, Special
<1>16. FiledItem(FiledAgenda[16], 16)
  BY PlainFacts DEF FiledAgenda, Item, FiledItem, OfSide, Special
<1>17. FiledItem(FiledAgenda[17], 17)
  BY PlainFacts DEF FiledAgenda, Item, FiledItem, OfSide, Special
<1>18. FiledItem(FiledAgenda[18], 18)
  BY PlainFacts DEF FiledAgenda, Item, FiledItem, OfSide, Special
<1>19. FiledItem(FiledAgenda[19], 19)
  BY PlainFacts DEF FiledAgenda, Item, FiledItem, OfSide, Special
<1>20. FiledItem(FiledAgenda[20], 20)
  BY PlainFacts DEF FiledAgenda, Item, FiledItem, OfSide, Special
<1>21. \A i \in 1..20 : i = 1 \/ i = 2 \/ i = 3 \/ i = 4 \/ i = 5 \/ i = 6 \/ i = 7 \/ i =
   8 \/ i = 9 \/ i = 10 \/ i = 11 \/ i = 12 \/ i = 13 \/ i = 14 \/ i = 15 \/ i = 16 \/ i =
   17 \/ i = 18 \/ i = 19 \/ i = 20
  OBVIOUS
<1> QED
  BY <1>0, <1>1, <1>2, <1>3, <1>4, <1>5, <1>6, <1>7, <1>8, <1>9, <1>10, <1>11, <1>12,
     <1>13, <1>14, <1>15, <1>16, <1>17, <1>18, <1>19, <1>20, <1>21

LEMMA PretrialItems ==
  /\ DOMAIN PretrialAgenda = 1..25
  /\ \A i \in 1..25 : PretrialItem(PretrialAgenda[i], i)
<1>0. DOMAIN PretrialAgenda = 1..25
  BY DEF PretrialAgenda
<1>1. PretrialItem(PretrialAgenda[1], 1)
  BY PlainFacts DEF PretrialAgenda, Item, PretrialItem, OfSide, Special
<1>2. PretrialItem(PretrialAgenda[2], 2)
  BY PlainFacts DEF PretrialAgenda, Item, PretrialItem, OfSide, Special
<1>3. PretrialItem(PretrialAgenda[3], 3)
  BY PlainFacts DEF PretrialAgenda, Item, PretrialItem, OfSide, Special
<1>4. PretrialItem(PretrialAgenda[4], 4)
  BY PlainFacts DEF PretrialAgenda, Item, PretrialItem, OfSide, Special
<1>5. PretrialItem(PretrialAgenda[5], 5)
  BY PlainFacts DEF PretrialAgenda, Item, PretrialItem, OfSide, Special
<1>6. PretrialItem(PretrialAgenda[6], 6)
  BY PlainFacts DEF PretrialAgenda, Item, PretrialItem, OfSide, Special
<1>7. PretrialItem(PretrialAgenda[7], 7)
  BY PlainFacts DEF PretrialAgenda, Item, PretrialItem, OfSide, Special
<1>8. PretrialItem(PretrialAgenda[8], 8)
  BY PlainFacts DEF PretrialAgenda, Item, PretrialItem, OfSide, Special
<1>9. PretrialItem(PretrialAgenda[9], 9)
  BY PlainFacts DEF PretrialAgenda, Item, PretrialItem, OfSide, Special
<1>10. PretrialItem(PretrialAgenda[10], 10)
  BY PlainFacts DEF PretrialAgenda, Item, PretrialItem, OfSide, Special
<1>11. PretrialItem(PretrialAgenda[11], 11)
  BY PlainFacts DEF PretrialAgenda, Item, PretrialItem, OfSide, Special
<1>12. PretrialItem(PretrialAgenda[12], 12)
  BY PlainFacts DEF PretrialAgenda, Item, PretrialItem, OfSide, Special
<1>13. PretrialItem(PretrialAgenda[13], 13)
  BY PlainFacts DEF PretrialAgenda, Item, PretrialItem, OfSide, Special
<1>14. PretrialItem(PretrialAgenda[14], 14)
  BY PlainFacts DEF PretrialAgenda, Item, PretrialItem, OfSide, Special
<1>15. PretrialItem(PretrialAgenda[15], 15)
  BY PlainFacts DEF PretrialAgenda, Item, PretrialItem, OfSide, Special
<1>16. PretrialItem(PretrialAgenda[16], 16)
  BY PlainFacts DEF PretrialAgenda, Item, PretrialItem, OfSide, Special
<1>17. PretrialItem(PretrialAgenda[17], 17)
  BY PlainFacts DEF PretrialAgenda, Item, PretrialItem, OfSide, Special
<1>18. PretrialItem(PretrialAgenda[18], 18)
  BY PlainFacts DEF PretrialAgenda, Item, PretrialItem, OfSide, Special
<1>19. PretrialItem(PretrialAgenda[19], 19)
  BY PlainFacts DEF PretrialAgenda, Item, PretrialItem, OfSide, Special
<1>20. PretrialItem(PretrialAgenda[20], 20)
  BY PlainFacts DEF PretrialAgenda, Item, PretrialItem, OfSide, Special
<1>21. PretrialItem(PretrialAgenda[21], 21)
  BY PlainFacts DEF PretrialAgenda, Item, PretrialItem, OfSide, Special
<1>22. PretrialItem(PretrialAgenda[22], 22)
  BY PlainFacts DEF PretrialAgenda, Item, PretrialItem, OfSide, Special
<1>23. PretrialItem(PretrialAgenda[23], 23)
  BY PlainFacts DEF PretrialAgenda, Item, PretrialItem, OfSide, Special
<1>24. PretrialItem(PretrialAgenda[24], 24)
  BY PlainFacts DEF PretrialAgenda, Item, PretrialItem, OfSide, Special
<1>25. PretrialItem(PretrialAgenda[25], 25)
  BY PlainFacts DEF PretrialAgenda, Item, PretrialItem, OfSide, Special
<1>26. \A i \in 1..25 : i = 1 \/ i = 2 \/ i = 3 \/ i = 4 \/ i = 5 \/ i = 6 \/ i = 7 \/ i =
   8 \/ i = 9 \/ i = 10 \/ i = 11 \/ i = 12 \/ i = 13 \/ i = 14 \/ i = 15 \/ i = 16 \/ i =
   17 \/ i = 18 \/ i = 19 \/ i = 20 \/ i = 21 \/ i = 22 \/ i = 23 \/ i = 24 \/ i = 25
  OBVIOUS
<1> QED
  BY <1>0, <1>1, <1>2, <1>3, <1>4, <1>5, <1>6, <1>7, <1>8, <1>9, <1>10, <1>11, <1>12,
     <1>13, <1>14, <1>15, <1>16, <1>17, <1>18, <1>19, <1>20, <1>21, <1>22, <1>23, <1>24,
     <1>25, <1>26

LEMMA PostJudgmentItems ==
  /\ DOMAIN PostJudgmentAgenda = 1..7
  /\ \A i \in 1..7 : PostJudgmentItem(PostJudgmentAgenda[i], i)
<1>0. DOMAIN PostJudgmentAgenda = 1..7
  BY DEF PostJudgmentAgenda
<1>1. PostJudgmentItem(PostJudgmentAgenda[1], 1)
  BY PlainFacts DEF PostJudgmentAgenda, Item, PostJudgmentItem, OfSide, Special
<1>2. PostJudgmentItem(PostJudgmentAgenda[2], 2)
  BY PlainFacts DEF PostJudgmentAgenda, Item, PostJudgmentItem, OfSide, Special
<1>3. PostJudgmentItem(PostJudgmentAgenda[3], 3)
  BY PlainFacts DEF PostJudgmentAgenda, Item, PostJudgmentItem, OfSide, Special
<1>4. PostJudgmentItem(PostJudgmentAgenda[4], 4)
  BY PlainFacts DEF PostJudgmentAgenda, Item, PostJudgmentItem, OfSide, Special
<1>5. PostJudgmentItem(PostJudgmentAgenda[5], 5)
  BY PlainFacts DEF PostJudgmentAgenda, Item, PostJudgmentItem, OfSide, Special
<1>6. PostJudgmentItem(PostJudgmentAgenda[6], 6)
  BY PlainFacts DEF PostJudgmentAgenda, Item, PostJudgmentItem, OfSide, Special
<1>7. PostJudgmentItem(PostJudgmentAgenda[7], 7)
  BY PlainFacts DEF PostJudgmentAgenda, Item, PostJudgmentItem, OfSide, Special
<1>8. \A i \in 1..7 : i = 1 \/ i = 2 \/ i = 3 \/ i = 4 \/ i = 5 \/ i = 6 \/ i = 7
  OBVIOUS
<1> QED
  BY <1>0, <1>1, <1>2, <1>3, <1>4, <1>5, <1>6, <1>7, <1>8

\* The decisive items themselves.
LEMMA Rule12Items ==
  /\ FiledAgenda[2] = Item("optional", "plaintiff", "oppose_rule12_motion",
                           {"rule 12 motion"}, {"rule 12 opposition"})
  /\ FiledAgenda[3] = Item("optional", "defendant", "reply_rule12_motion",
                           {"rule 12 opposition"}, {"rule 12 reply"})
  /\ FiledAgenda[4] = Item("required", "judge", "decide_rule12_motion",
                           {"rule 12 motion"}, {"rule 12 order"})
<1>1. FiledAgenda[2] = Item("optional", "plaintiff", "oppose_rule12_motion",
                           {"rule 12 motion"}, {"rule 12 opposition"})
  BY DEF FiledAgenda
<1>2. FiledAgenda[3] = Item("optional", "defendant", "reply_rule12_motion",
                           {"rule 12 opposition"}, {"rule 12 reply"})
  BY DEF FiledAgenda
<1>3. FiledAgenda[4] = Item("required", "judge", "decide_rule12_motion",
                           {"rule 12 motion"}, {"rule 12 order"})
  BY DEF FiledAgenda
<1> QED BY <1>1, <1>2, <1>3

LEMMA TrialModeItem ==
  FiledAgenda[19] = Item("automatic", "judge", "resolve_trial_mode",
                         {}, {"jury trial", "bench trial"})
BY DEF FiledAgenda

LEMMA Rule56Items ==
  /\ PretrialAgenda[18] = Item("optional", "plaintiff", "oppose_rule56_motion",
                               {"rule 56 motion"}, {"rule 56 opposition"})
  /\ PretrialAgenda[19] = Item("optional", "defendant", "reply_rule56_motion",
                               {"rule 56 opposition"}, {"rule 56 reply"})
  /\ PretrialAgenda[20] = Item("required", "judge", "decide_rule56_motion",
                               {"rule 56 motion"}, {"rule 56 order"})
<1>1. PretrialAgenda[18] = Item("optional", "plaintiff", "oppose_rule56_motion",
                               {"rule 56 motion"}, {"rule 56 opposition"})
  BY DEF PretrialAgenda
<1>2. PretrialAgenda[19] = Item("optional", "defendant", "reply_rule56_motion",
                               {"rule 56 opposition"}, {"rule 56 reply"})
  BY DEF PretrialAgenda
<1>3. PretrialAgenda[20] = Item("required", "judge", "decide_rule56_motion",
                               {"rule 56 motion"}, {"rule 56 order"})
  BY DEF PretrialAgenda
<1> QED BY <1>1, <1>2, <1>3

\* Doing nothing and the dismissal are on no agenda.
LEMMA OtherItems ==
  /\ Nothing.kind = "none" /\ Nothing.tool = "none"
  /\ JurisdictionDismissal.tool = "dismiss_for_lack_of_subject_matter_jurisdiction"
<1>1. Nothing.kind = "none" /\ Nothing.tool = "none"
  BY DEF Nothing, Item
<1>2. JurisdictionDismissal.tool = "dismiss_for_lack_of_subject_matter_jurisdiction"
  BY DEF JurisdictionDismissal, Item
<1> QED BY <1>1, <1>2

\* What the decisive items wait for, and what closes the one for the mode.
LEMMA ItemParts ==
  /\ FiledAgenda[4].after = {"rule 12 motion"}
  /\ PretrialAgenda[20].after = {"rule 56 motion"}
  /\ FiledAgenda[19].unless = {"jury trial", "bench trial"}
<1>1. FiledAgenda[4].after = {"rule 12 motion"}
  BY DEF FiledAgenda, Item
<1>2. PretrialAgenda[20].after = {"rule 56 motion"}
  BY DEF PretrialAgenda, Item
<1>3. FiledAgenda[19].unless = {"jury trial", "bench trial"}
  BY DEF FiledAgenda, Item
<1> QED BY <1>1, <1>2, <1>3

LEMMA AgendaLengths ==
  /\ DOMAIN FiledAgenda = 1..20
  /\ DOMAIN PretrialAgenda = 1..25
  /\ DOMAIN PostJudgmentAgenda = 1..7
BY FiledItems, PretrialItems, PostJudgmentItems

\* The items that answer what was asked for or moved.
LEMMA AnswerItems ==
  /\ PretrialAgenda[9] = Item("automatic", "defendant", "respond_interrogatories",
                              {"interrogatories"}, {"interrogatory responses"})
  /\ PretrialAgenda[12] = Item("automatic", "defendant", "respond_request_for_production",
                               {"production request"}, {"production responses"})
  /\ PretrialAgenda[14] = Item("automatic", "defendant", "respond_requests_for_admission",
                               {"admission requests"}, {"admission responses"})
  /\ PretrialAgenda[16] = Item("automatic", "judge", "decide_rule37_motion",
                               {"rule 37 motion"}, {"rule 37 order"})
  /\ PostJudgmentAgenda[2] = Item("automatic", "judge", "resolve_rule59_motion",
                                  {"rule 59 motion"}, {"rule 59 order"})
  /\ PostJudgmentAgenda[4] = Item("required", "judge", "resolve_rule60_motion",
                                  {"rule 60 motion"}, {"rule 60 order"})
<1>1. PretrialAgenda[9] = Item("automatic", "defendant", "respond_interrogatories",
                              {"interrogatories"}, {"interrogatory responses"})
  BY DEF PretrialAgenda
<1>2. PretrialAgenda[12] = Item("automatic", "defendant", "respond_request_for_production",
                               {"production request"}, {"production responses"})
  BY DEF PretrialAgenda
<1>3. PretrialAgenda[14] = Item("automatic", "defendant", "respond_requests_for_admission",
                               {"admission requests"}, {"admission responses"})
  BY DEF PretrialAgenda
<1>4. PretrialAgenda[16] = Item("automatic", "judge", "decide_rule37_motion",
                               {"rule 37 motion"}, {"rule 37 order"})
  BY DEF PretrialAgenda
<1>5. PostJudgmentAgenda[2] = Item("automatic", "judge", "resolve_rule59_motion",
                                  {"rule 59 motion"}, {"rule 59 order"})
  BY DEF PostJudgmentAgenda
<1>6. PostJudgmentAgenda[4] = Item("required", "judge", "resolve_rule60_motion",
                                  {"rule 60 motion"}, {"rule 60 order"})
  BY DEF PostJudgmentAgenda
<1> QED BY <1>1, <1>2, <1>3, <1>4, <1>5, <1>6

-----------------------------------------------------------------------------
(* Acts and turns.                                                         *)

\* Whatever may be on the record of a case.
Recordable ==
  Range(FactOf) \cup Settings \cup
    {"answer", "granted", "leave to amend", "jury trial", "bench trial", "imported",
     "plaintiff report", "defendant report", "rule 56 declined"}

\* Two facts that tools leave together with others are also somebody's own.
LEMMA OwnFacts == "served" \in Range(FactOf) /\ "rule 12 order" \in Range(FactOf)
<1>1. FactOf["set_last_pleading_served_on"] = "served"
  BY DEF FactOf
<1>2. FactOf["decide_rule12_motion"] = "rule 12 order"
  BY DEF FactOf
<1>3. "set_last_pleading_served_on" \in DOMAIN FactOf /\ "decide_rule12_motion" \in DOMAIN
   FactOf
  BY DEF FactOf
<1> QED BY <1>1, <1>2, <1>3 DEF Range

LEMMA LeavesParts ==
  ASSUME NEW added, NEW next
  PROVE  Leaves(added, next).added = added /\ Leaves(added, next).status = next
BY DEF Leaves

\* What an act leaves, as far as it matters: a fact comes by its tool, the
\* case goes on by a transition only, and the trial mode is one.
LEMMA ActLeaves ==
  ASSUME NEW item, OfSide(item), NEW effect \in EffectsOf(item)
  PROVE  /\ \A fact \in effect.added : Leads(fact, item.tool)
         /\ \/ effect.status \in {status, "closed", "judgment_entered"}
            \/ /\ item.tool = "transition_case"
               /\ effect.status = IF status = "filed" THEN "pretrial" ELSE "trial"
         /\ item.tool = "resolve_trial_mode" =>
              effect.added \in {{"jury trial"}, {"bench trial"}}
         /\ effect.added \subseteq Recordable
<1>1. CASE item.tool = "file_answer"
  <2>1. \/ effect = Leaves({"answer"}, status)
        \/ effect = Leaves({"answer", "served"}, status)
    BY <1>1 DEF EffectsOf
  <2>2. /\ effect.added \in {{"answer"}, {"answer", "served"}}
        /\ effect.status \in {status}
    <3>1. CASE effect = Leaves({"answer"}, status)
      <4>1. effect.added = {"answer"} /\ effect.status = status
        BY <3>1, LeavesParts
      <4> QED BY <4>1
    <3>2. CASE effect = Leaves({"answer", "served"}, status)
      <4>1. effect.added = {"answer", "served"} /\ effect.status = status
        BY <3>2, LeavesParts
      <4> QED BY <4>1
    <3> QED BY <2>1, <3>1, <3>2
  <2>3. \A fact \in effect.added : Leads(fact, "file_answer")
    BY <2>2 DEF Leads
  <2>4. effect.added \subseteq Recordable
    BY <2>2, OwnFacts DEF Recordable, Settings
  <2> QED BY <1>1, <2>2, <2>3, <2>4
<1>2. CASE item.tool = "decide_rule12_motion"
  <2>1. \/ effect = Leaves({"rule 12 order"}, status)
        \/ effect = Leaves({"rule 12 order", "granted"}, "closed")
        \/ effect = Leaves({"rule 12 order", "granted", "leave to amend"}, "closed")
    BY <1>2 DEF EffectsOf
  <2>2. /\ effect.added \in
             {{"rule 12 order"}, {"rule 12 order", "granted"},
              {"rule 12 order", "granted", "leave to amend"}}
        /\ effect.status \in {status, "closed"}
    <3>1. CASE effect = Leaves({"rule 12 order"}, status)
      <4>1. effect.added = {"rule 12 order"} /\ effect.status = status
        BY <3>1, LeavesParts
      <4> QED BY <4>1
    <3>2. CASE effect = Leaves({"rule 12 order", "granted"}, "closed")
      <4>1. effect.added = {"rule 12 order", "granted"} /\ effect.status = "closed"
        BY <3>2, LeavesParts
      <4> QED BY <4>1
    <3>3. CASE effect = Leaves({"rule 12 order", "granted", "leave to amend"}, "closed")
      <4>1. effect.added = {"rule 12 order", "granted", "leave to amend"} /\ effect.status = "closed"
        BY <3>3, LeavesParts
      <4> QED BY <4>1
    <3> QED BY <2>1, <3>1, <3>2, <3>3
  <2>3. \A fact \in effect.added : Leads(fact, "decide_rule12_motion")
    BY <2>2 DEF Leads
  <2>4. effect.added \subseteq Recordable
    BY <2>2, OwnFacts DEF Recordable, Settings
  <2> QED BY <1>2, <2>2, <2>3, <2>4
<1>3. CASE item.tool = "resolve_trial_mode"
  <2>1. \/ effect = Leaves({"jury trial"}, status)
        \/ effect = Leaves({"bench trial"}, status)
    BY <1>3 DEF EffectsOf
  <2>2. /\ effect.added \in {{"jury trial"}, {"bench trial"}}
        /\ effect.status \in {status}
    <3>1. CASE effect = Leaves({"jury trial"}, status)
      <4>1. effect.added = {"jury trial"} /\ effect.status = status
        BY <3>1, LeavesParts
      <4> QED BY <4>1
    <3>2. CASE effect = Leaves({"bench trial"}, status)
      <4>1. effect.added = {"bench trial"} /\ effect.status = status
        BY <3>2, LeavesParts
      <4> QED BY <4>1
    <3> QED BY <2>1, <3>1, <3>2
  <2>3. \A fact \in effect.added : Leads(fact, "resolve_trial_mode")
    BY <2>2 DEF Leads
  <2>4. effect.added \subseteq Recordable
    BY <2>2, OwnFacts DEF Recordable, Settings
  <2> QED BY <1>3, <2>2, <2>3, <2>4
<1>4. CASE item.tool = "transition_case"
  <2>1. effect = Leaves({}, IF status = "filed" THEN "pretrial" ELSE "trial")
    BY <1>4 DEF EffectsOf
  <2>2. effect.added \in {{}}
    BY <2>1, LeavesParts
  <2>3. effect.status \in {IF status = "filed" THEN "pretrial" ELSE "trial"}
    BY <2>1, LeavesParts
  <2>4. \A fact \in effect.added : Leads(fact, "transition_case")
    BY <2>2 DEF Leads
  <2>5. effect.added \subseteq Recordable
    BY <2>2, OwnFacts DEF Recordable, Settings
  <2> QED BY <1>4, <2>2, <2>3, <2>4, <2>5
<1>5. CASE item.tool = "import_case_file"
  <2>1. effect = Leaves({"case file", "imported"}, status)
    BY <1>5 DEF EffectsOf
  <2>2. effect.added \in {{"case file", "imported"}}
    BY <2>1, LeavesParts
  <2>3. effect.status \in {status}
    BY <2>1, LeavesParts
  <2>4. \A fact \in effect.added : Leads(fact, "import_case_file")
    BY <2>2 DEF Leads
  <2>5. effect.added \subseteq Recordable
    BY <2>2, OwnFacts DEF Recordable, Settings
  <2> QED BY <1>5, <2>2, <2>3, <2>4, <2>5
<1>6. CASE item.tool = "submit_technical_report"
  <2>1. \/ effect = Leaves({"plaintiff report"}, status)
        \/ effect = Leaves({"defendant report"}, status)
    BY <1>6 DEF EffectsOf
  <2>2. /\ effect.added \in {{"plaintiff report"}, {"defendant report"}}
        /\ effect.status \in {status}
    <3>1. CASE effect = Leaves({"plaintiff report"}, status)
      <4>1. effect.added = {"plaintiff report"} /\ effect.status = status
        BY <3>1, LeavesParts
      <4> QED BY <4>1
    <3>2. CASE effect = Leaves({"defendant report"}, status)
      <4>1. effect.added = {"defendant report"} /\ effect.status = status
        BY <3>2, LeavesParts
      <4> QED BY <4>1
    <3> QED BY <2>1, <3>1, <3>2
  <2>3. \A fact \in effect.added : Leads(fact, "submit_technical_report")
    BY <2>2 DEF Leads
  <2>4. effect.added \subseteq Recordable
    BY <2>2, OwnFacts DEF Recordable, Settings
  <2> QED BY <1>6, <2>2, <2>3, <2>4
<1>7. CASE item.tool \notin Special \cup {"decide_rule12_motion"}
  <2>1. \E next \in {status, "closed", "judgment_entered"} :
          EffectsOf(item) = {Leaves({FactOf[item.tool]}, next)}
    BY <1>7 DEF EffectsOf, Special
  <2>2. Leads(FactOf[item.tool], item.tool)
    BY <1>7 DEF OfSide, Plain
  <2>3. item.tool # "resolve_trial_mode"
    BY <1>7 DEF Special
  <2>4. effect.added = {FactOf[item.tool]}
    BY <2>1, LeavesParts
  <2>5. effect.status \in {status, "closed", "judgment_entered"}
    BY <2>1, LeavesParts
  <2>6. effect.added \subseteq Recordable
    BY <1>7, <2>4 DEF OfSide, Plain, Recordable, Range
  <2> QED BY <2>2, <2>3, <2>4, <2>5, <2>6
<1> QED BY <1>1, <1>2, <1>3, <1>4, <1>5, <1>6, <1>7 DEF Special

\* The runner takes the dismissal, or the first item open to it.
LEMMA FirstOfOpen ==
  ASSUME NEW known, DOMAIN Agenda \subseteq Nat, ~ DismissalOpen(known),
         OpenItems(known) # {}
  PROVE  \E i \in DOMAIN Agenda :
           /\ FirstOpen(known) = Agenda[i]
           /\ Open(Agenda[i], known)
           /\ \A j \in DOMAIN Agenda : j < i => ~ Open(Agenda[j], known)
<1> DEFINE open == OpenItems(known)
<1>1. open \in SUBSET Nat /\ open # {}
  BY DEF OpenItems
<1>2. Min(open) \in open /\ \A y \in open : Min(open) <= y
  BY <1>1, LeastIsMin
<1>3. FirstOpen(known) = Agenda[Min(open)]
  BY DEF FirstOpen
<1>4. \A j \in DOMAIN Agenda : j < Min(open) => ~ Open(Agenda[j], known)
  BY <1>1, <1>2 DEF OpenItems
<1>5. Min(open) \in DOMAIN Agenda /\ Open(Agenda[Min(open)], known)
  BY <1>2 DEF OpenItems
<1> QED BY <1>3, <1>4, <1>5

\* Each status has its agenda.
LEMMA AgendaOf ==
  /\ status = "filed" => Agenda = FiledAgenda
  /\ status = "pretrial" => Agenda = PretrialAgenda
  /\ status = "judgment_entered" => Agenda = PostJudgmentAgenda
  /\ status \notin {"filed", "pretrial", "judgment_entered"} => Agenda = <<>>
  /\ DOMAIN Agenda \subseteq Nat
<1>1. status = "filed" => Agenda = FiledAgenda
  BY DEF Agenda
<1>2. status = "pretrial" => Agenda = PretrialAgenda
  BY DEF Agenda
<1>3. status = "judgment_entered" => Agenda = PostJudgmentAgenda
  BY DEF Agenda
<1>4. status \notin {"filed", "pretrial", "judgment_entered"} => Agenda = <<>>
  BY DEF Agenda
<1>5. DOMAIN Agenda \subseteq Nat
  BY <1>1, <1>2, <1>3, <1>4, FiledItems, PretrialItems, PostJudgmentItems
<1> QED BY <1>1, <1>2, <1>3, <1>4, <1>5

\* The turn is the first open item of the agenda: everything before it is closed.
First(i, agenda) ==
  /\ CurrentItem = agenda[i]
  /\ Open(agenda[i], Known)
  /\ \A j \in DOMAIN agenda : j < i => ~ Open(agenda[j], Known)

LEMMA Taken ==
  ASSUME CurrentItem # Nothing
  PROVE  \/ CurrentItem = JurisdictionDismissal
         \/ /\ status = "filed"
            /\ \E i \in 1..20 : First(i, FiledAgenda) /\ FiledItem(CurrentItem, i)
         \/ /\ status = "pretrial"
            /\ \E i \in 1..25 : First(i, PretrialAgenda) /\ PretrialItem(CurrentItem, i)
         \/ /\ status = "judgment_entered"
            /\ \E i \in 1..7 : First(i, PostJudgmentAgenda) /\ PostJudgmentItem(CurrentItem, i)
<1>1. CurrentItem = FirstOpen(Known) /\ ~ Halted
  BY DEF CurrentItem
<1>2. CASE DismissalOpen(Known)
  BY <1>1, <1>2 DEF FirstOpen
<1>3. CASE ~ DismissalOpen(Known)
  <2>1. OpenItems(Known) # {}
    BY <1>1, <1>3 DEF FirstOpen
  <2>2. PICK i \in DOMAIN Agenda : First(i, Agenda)
    BY <1>1, <1>3, <2>1, FirstOfOpen, AgendaOf DEF First
  <2>3. CASE status = "filed"
    BY <2>2, <2>3, AgendaOf, FiledItems DEF First
  <2>4. CASE status = "pretrial"
    BY <2>2, <2>4, AgendaOf, PretrialItems DEF First
  <2>5. CASE status = "judgment_entered"
    BY <2>2, <2>5, AgendaOf, PostJudgmentItems DEF First
  <2>6. status \in {"filed", "pretrial", "judgment_entered"}
    BY <2>2, AgendaOf
  <2> QED BY <2>3, <2>4, <2>5, <2>6
<1> QED BY <1>2, <1>3

\* When nothing is open after judgment, nothing of that agenda is.
LEMMA AtRest ==
  ASSUME CurrentItem = Nothing, status = "judgment_entered", ~ case.stops
  PROVE  \A j \in 1..7 : ~ Open(PostJudgmentAgenda[j], Known)
<1>1. ~ Halted /\ ~ DismissalOpen(Known)
  BY DEF Halted, DismissalOpen
<1>2. FirstOpen(Known) = Nothing
  BY <1>1 DEF CurrentItem
<1>3. SUFFICES ASSUME OpenItems(Known) # {} PROVE FALSE
  BY AgendaOf, PostJudgmentItems DEF OpenItems
<1>4. PICK i \in DOMAIN Agenda : FirstOpen(Known) = Agenda[i]
  BY <1>1, <1>3, FirstOfOpen, AgendaOf
<1>5. Nothing.kind # "none"
  BY <1>2, <1>4, AgendaOf, PostJudgmentItems DEF PostJudgmentItem
<1> QED BY <1>5 DEF Nothing, Item

-----------------------------------------------------------------------------
(* What obliges someone came from a role that uses the tool for it.        *)
Brought(fact, role, tool) == fact \in facts => <<role, tool>> \in case.tools

AllBrought ==
  /\ Brought("rule 12 motion", "defendant", "file_rule12_motion")
  /\ Brought("rule 37 motion", "plaintiff", "file_rule37_motion")
  /\ Brought("rule 56 motion", "defendant", "file_rule56_motion")
  /\ Brought("rule 59 motion", "defendant", "file_rule59_motion")
  /\ Brought("rule 60 motion", "defendant", "file_rule60_motion")
  /\ Brought("interrogatories", "plaintiff", "serve_interrogatories")
  /\ Brought("production request", "plaintiff", "serve_request_for_production")
  /\ Brought("admission requests", "plaintiff", "serve_requests_for_admission")

(* Only what may be passed was passed.                                     *)
PassedOptional == \A item \in passed : item.kind = "optional"

OneModeAtMost == ~ ({"jury trial", "bench trial"} \subseteq facts)

(* The pleadings are settled before the case leaves its filing ...         *)
PleadingsSettled ==
  status \in {"pretrial", "trial"} =>
    /\ Followed("rule 12 motion", "rule 12 order")
    /\ facts \cap {"jury trial", "bench trial"} # {}

(* ... and what was asked or moved in pretrial is answered before trial.   *)
DiscoverySettled ==
  status = "trial" =>
    /\ Followed("rule 37 motion", "rule 37 order")
    /\ Followed("rule 56 motion", "rule 56 order")
    /\ Followed("interrogatories", "interrogatory responses")
    /\ Followed("production request", "production responses")
    /\ Followed("admission requests", "admission responses")

(***************************************************************************)
(* The inductive invariant.  What is asked for at trial's door could not   *)
(* be shown of the last turn alone: that a motion has its ruling there     *)
(* needs that the motion came from a roster with the tool for it (so the   *)
(* roster can answer), and that a ruling cannot have been passed.  Once    *)
(* the case has left its filing, no Rule 12 motion comes any more.         *)
(***************************************************************************)
CaseSettled ==
  /\ case \in Cases
  /\ AllBrought
  /\ PassedOptional
  /\ OneModeAtMost
  /\ PleadingsSettled
  /\ DiscoverySettled

\* Rosters are answerable.
LEMMA Answers ==
  ASSUME case \in Cases
  PROVE  /\ <<"defendant", "file_rule12_motion">> \in case.tools =>
              <<"judge", "decide_rule12_motion">> \in case.tools
         /\ <<"plaintiff", "file_rule37_motion">> \in case.tools =>
              <<"judge", "decide_rule37_motion">> \in case.tools
         /\ <<"defendant", "file_rule56_motion">> \in case.tools =>
              <<"judge", "decide_rule56_motion">> \in case.tools
         /\ <<"defendant", "file_rule59_motion">> \in case.tools =>
              <<"judge", "resolve_rule59_motion">> \in case.tools
         /\ <<"defendant", "file_rule60_motion">> \in case.tools =>
              <<"judge", "resolve_rule60_motion">> \in case.tools
         /\ <<"plaintiff", "serve_interrogatories">> \in case.tools =>
              <<"defendant", "respond_interrogatories">> \in case.tools
         /\ <<"plaintiff", "serve_request_for_production">> \in case.tools =>
              <<"defendant", "respond_request_for_production">> \in case.tools
         /\ <<"plaintiff", "serve_requests_for_admission">> \in case.tools =>
              <<"defendant", "respond_requests_for_admission">> \in case.tools
         /\ <<"judge", "transition_case">> \in case.tools =>
              <<"judge", "resolve_trial_mode">> \in case.tools
<1>1. \A pair \in Answerable : pair[1] \in case.tools => pair[2] \in case.tools
  BY PretrialAssumption
<1>2. \A p, q : <<p, q>> \in Answerable => (p \in case.tools => q \in case.tools)
  BY <1>1
<1> QED BY <1>2 DEF Answerable

\* A filed case has nothing behind it but its settings.
LEMMA SettledAtFirst == PretrialInit => CaseSettled
<1> SUFFICES ASSUME PretrialInit PROVE CaseSettled
  OBVIOUS
<1>1. case \in Case
  BY PretrialAssumption DEF PretrialInit
<1>2. facts \subseteq {"rule 11 screening", "jury demand", "case file", "defective"}
  BY <1>1 DEF PretrialInit, Case, Settings
<1>3. case \in Cases /\ status = "filed" /\ passed = {}
  BY DEF PretrialInit
<1> QED
  BY <1>2, <1>3 DEF CaseSettled, AllBrought, Brought, PassedOptional, OneModeAtMost,
     PleadingsSettled, DiscoverySettled

\* What the record shows beyond the facts are only the three pending matters.
LEMMA KnownIsOnRecord ==
  /\ facts \subseteq Known
  /\ \A fact \in Known :
       fact \in facts \cup {"rule 37 pending", "leave pending", "offer pending"}
BY DEF Known

\* An item that is not open although it follows something known is answered,
\* passed or not its role's to take.
LEMMA ClosedItem ==
  ASSUME NEW kind, NEW role, NEW tool, NEW first, NEW second,
         ~ Open(Item(kind, role, tool, {first}, {second}), Known),
         <<role, tool>> \in case.tools, first \in facts,
         second \notin {"rule 37 pending", "leave pending", "offer pending"}
  PROVE  second \in facts \/ Item(kind, role, tool, {first}, {second}) \in passed
<1> DEFINE item == Item(kind, role, tool, {first}, {second})
<1>1. /\ item.role = role /\ item.tool = tool
      /\ item.after = {first} /\ item.unless = {second}
  BY DEF Item
<1> HIDE DEF item
<1>2. ~ Open(item, Known)
  BY DEF item
<1>3. item.unless \cap Known # {} \/ item \in passed
  BY <1>1, <1>2, KnownIsOnRecord DEF Open
<1>4. second \in Known \/ item \in passed
  BY <1>1, <1>3
<1> QED BY <1>4, KnownIsOnRecord DEF item

\* A required or automatic item cannot have been passed.
LEMMA MustBeAnswered ==
  ASSUME PassedOptional, NEW kind \in {"required", "automatic"},
         NEW role, NEW tool, NEW first, NEW second,
         ~ Open(Item(kind, role, tool, {first}, {second}), Known),
         <<role, tool>> \in case.tools,
         second \notin {"rule 37 pending", "leave pending", "offer pending"}
  PROVE  Followed(first, second)
<1>1. Item(kind, role, tool, {first}, {second}).kind = kind
  BY DEF Item
<1>2. Item(kind, role, tool, {first}, {second}) \notin passed
  BY <1>1 DEF PassedOptional
<1> QED BY <1>2, ClosedItem DEF Followed

\* The effect of an act, and the item it acts on.
Acts(item, effect) ==
  /\ CurrentItem = item /\ item # Nothing
  /\ effect \in EffectsOf(item)
  /\ facts' = (facts \ Reopened(item.tool)) \cup effect.added
  /\ status' = effect.status
  /\ passed' = {}
  /\ case' = case

\* An act is what the current item's tool leaves.
LEMMA ActIsOne ==
  ASSUME Act
  PROVE  \E effect : Acts(CurrentItem, effect)
BY DEF Act, Acts

\* The role on turn has the tool, by itself or by the dismissal.
LEMMA TurnKnown ==
  ASSUME CurrentItem # Nothing
  PROVE  OfSide(CurrentItem) /\ <<CurrentItem.role, CurrentItem.tool>> \in case.tools
<1>1. OfSide(JurisdictionDismissal)
  BY PlainFacts DEF JurisdictionDismissal, Item, OfSide, Special
<1>2. OfSide(CurrentItem)
  BY <1>1, Taken DEF FiledItem, PretrialItem, PostJudgmentItem
<1>3. CurrentItem = FirstOpen(Known)
  BY DEF CurrentItem
<1>4. CASE DismissalOpen(Known)
  BY <1>2, <1>3, <1>4 DEF FirstOpen, DismissalOpen, Open
<1>5. CASE ~ DismissalOpen(Known)
  <2>1. OpenItems(Known) # {}
    BY <1>3, <1>5 DEF FirstOpen
  <2> QED BY <1>2, <1>3, <1>5, <2>1, FirstOfOpen, AgendaOf DEF Open
<1> QED BY <1>4, <1>5

-----------------------------------------------------------------------------
\* A turn that goes on from an agenda comes after all the others on it.
LEMMA LeavingFiled ==
  ASSUME CaseSettled, status = "filed", CurrentItem.tool = "transition_case"
  PROVE  /\ Followed("rule 12 motion", "rule 12 order")
         /\ facts \cap {"jury trial", "bench trial"} # {}
<1>1. CurrentItem # Nothing /\ CurrentItem # JurisdictionDismissal
  BY OtherItems
<1>2. First(20, FiledAgenda)
  BY <1>1, Taken DEF FiledItem
<1>3. ~ Open(FiledAgenda[4], Known) /\ ~ Open(FiledAgenda[19], Known)
  BY <1>2, AgendaLengths DEF First
<1>4. <<"judge", "transition_case">> \in case.tools
  BY <1>1, TurnKnown DEF OfSide
<1>5. Followed("rule 12 motion", "rule 12 order")
  <2>1. SUFFICES ASSUME "rule 12 motion" \in facts
                 PROVE  "rule 12 order" \in facts
    BY DEF Followed
  <2>2. <<"judge", "decide_rule12_motion">> \in case.tools
    BY <2>1, Answers DEF CaseSettled, AllBrought, Brought
  <2>3. PassedOptional
    BY DEF CaseSettled
  <2>4. ~ Open(Item("required", "judge", "decide_rule12_motion",
                    {"rule 12 motion"}, {"rule 12 order"}), Known)
    BY <1>3, Rule12Items
  <2> QED BY <2>1, <2>2, <2>3, <2>4, MustBeAnswered DEF Followed
<1>6. facts \cap {"jury trial", "bench trial"} # {}
  <2> DEFINE item == Item("automatic", "judge", "resolve_trial_mode",
                          {}, {"jury trial", "bench trial"})
  <2>1. <<"judge", "resolve_trial_mode">> \in case.tools
    BY <1>4, Answers DEF CaseSettled
  <2>2. ~ Open(item, Known)
    BY <1>3, TrialModeItem
  <2>3. /\ item.kind = "automatic" /\ item.role = "judge"
        /\ item.tool = "resolve_trial_mode" /\ item.after = {}
        /\ item.unless = {"jury trial", "bench trial"}
    BY DEF Item
  <2> HIDE DEF item
  <2>4. item \notin passed
    BY <2>3 DEF CaseSettled, PassedOptional
  <2>5. item.unless \cap Known # {}
    BY <2>1, <2>2, <2>3, <2>4 DEF Open
  <2> QED BY <2>3, <2>5, KnownIsOnRecord
<1> QED BY <1>5, <1>6

\* The same of discovery and the motions of pretrial.
LEMMA LeavingPretrial ==
  ASSUME CaseSettled, status = "pretrial", CurrentItem.tool = "transition_case"
  PROVE  /\ Followed("rule 37 motion", "rule 37 order")
         /\ Followed("rule 56 motion", "rule 56 order")
         /\ Followed("interrogatories", "interrogatory responses")
         /\ Followed("production request", "production responses")
         /\ Followed("admission requests", "admission responses")
<1>1. CurrentItem # Nothing /\ CurrentItem # JurisdictionDismissal
  BY OtherItems
<1>2. First(25, PretrialAgenda)
  BY <1>1, Taken DEF PretrialItem
<1>3. \A j \in {9, 12, 14, 16, 20} : ~ Open(PretrialAgenda[j], Known)
  BY <1>2, AgendaLengths DEF First
<1>4. PassedOptional /\ case \in Cases /\ AllBrought
  BY DEF CaseSettled
<1>5. Followed("rule 37 motion", "rule 37 order")
  <2>1. SUFFICES ASSUME "rule 37 motion" \in facts PROVE "rule 37 order" \in facts
    BY DEF Followed
  <2>2. <<"judge", "decide_rule37_motion">> \in case.tools
    BY <1>4, <2>1, Answers DEF AllBrought, Brought
    <2>3. ~ Open(Item("automatic", "judge", "decide_rule37_motion",
                  {"rule 37 motion"}, {"rule 37 order"}), Known)
      BY <1>3, AnswerItems
    <2> QED BY <1>4, <2>1, <2>2, <2>3, MustBeAnswered DEF Followed
<1>6. Followed("rule 56 motion", "rule 56 order")
  <2>1. SUFFICES ASSUME "rule 56 motion" \in facts PROVE "rule 56 order" \in facts
    BY DEF Followed
  <2>2. <<"judge", "decide_rule56_motion">> \in case.tools
    BY <1>4, <2>1, Answers DEF AllBrought, Brought
  <2>3. ~ Open(Item("required", "judge", "decide_rule56_motion",
                    {"rule 56 motion"}, {"rule 56 order"}), Known)
    BY <1>3, Rule56Items
  <2> QED BY <1>4, <2>1, <2>2, <2>3, MustBeAnswered DEF Followed
<1>7. Followed("interrogatories", "interrogatory responses")
  <2>1. SUFFICES ASSUME "interrogatories" \in facts
                 PROVE  "interrogatory responses" \in facts
    BY DEF Followed
  <2>2. <<"defendant", "respond_interrogatories">> \in case.tools
    BY <1>4, <2>1, Answers DEF AllBrought, Brought
    <2>3. ~ Open(Item("automatic", "defendant", "respond_interrogatories",
                  {"interrogatories"}, {"interrogatory responses"}), Known)
      BY <1>3, AnswerItems
    <2> QED BY <1>4, <2>1, <2>2, <2>3, MustBeAnswered DEF Followed
<1>8. Followed("production request", "production responses")
  <2>1. SUFFICES ASSUME "production request" \in facts
                 PROVE  "production responses" \in facts
    BY DEF Followed
  <2>2. <<"defendant", "respond_request_for_production">> \in case.tools
    BY <1>4, <2>1, Answers DEF AllBrought, Brought
    <2>3. ~ Open(Item("automatic", "defendant", "respond_request_for_production",
                  {"production request"}, {"production responses"}), Known)
      BY <1>3, AnswerItems
    <2> QED BY <1>4, <2>1, <2>2, <2>3, MustBeAnswered DEF Followed
<1>9. Followed("admission requests", "admission responses")
  <2>1. SUFFICES ASSUME "admission requests" \in facts
                 PROVE  "admission responses" \in facts
    BY DEF Followed
  <2>2. <<"defendant", "respond_requests_for_admission">> \in case.tools
    BY <1>4, <2>1, Answers DEF AllBrought, Brought
    <2>3. ~ Open(Item("automatic", "defendant", "respond_requests_for_admission",
                  {"admission requests"}, {"admission responses"}), Known)
      BY <1>3, AnswerItems
    <2> QED BY <1>4, <2>1, <2>2, <2>3, MustBeAnswered DEF Followed
<1> QED BY <1>5, <1>6, <1>7, <1>8, <1>9

\* One step for each part of the invariant, by the status the act leaves.
LEMMA ActKeepsSettled ==
  ASSUME CaseSettled, Act
  PROVE  CaseSettled'
<1> DEFINE item == CurrentItem
<1>1. PICK effect : Acts(item, effect)
  BY ActIsOne
<1>2. OfSide(item) /\ <<item.role, item.tool>> \in case.tools
  BY <1>1, TurnKnown DEF Acts
<1>3. /\ \A fact \in effect.added : Leads(fact, item.tool)
      /\ \/ effect.status \in {status, "closed", "judgment_entered"}
         \/ /\ item.tool = "transition_case"
            /\ effect.status = IF status = "filed" THEN "pretrial" ELSE "trial"
      /\ item.tool = "resolve_trial_mode" => effect.added \in {{"jury trial"}, {"bench trial"}}
  BY <1>1, <1>2, ActLeaves DEF Acts
<1>4. \A fact \in facts' : fact \in facts \/ Leads(fact, item.tool)
  BY <1>1, <1>3 DEF Acts
<1>5. \A fact \in facts : fact \in facts' \/ fact = "rule 56 declined"
  BY <1>1 DEF Acts, Reopened
<1>6. case' = case /\ passed' = {} /\ status' = effect.status /\ item # Nothing
  BY <1>1 DEF Acts
<1>7. \/ item.tool = "dismiss_for_lack_of_subject_matter_jurisdiction"
      \/ status = "filed" /\ \E i \in 1..20 : First(i, FiledAgenda) /\ FiledItem(item, i)
      \/ status = "pretrial" /\ \E i \in 1..25 : PretrialItem(item, i)
      \/ status = "judgment_entered" /\ \E i \in 1..7 : PostJudgmentItem(item, i)
  BY <1>6, Taken, OtherItems
<1>8. status # "trial"
  BY <1>6 DEF CurrentItem, Halted
<1> HIDE DEF item
<1>9. AllBrought'
  <2>1. Brought("rule 12 motion", "defendant", "file_rule12_motion")'
    BY <1>2, <1>4, <1>6 DEF CaseSettled, AllBrought, Brought, Leads, OfSide
  <2>2. Brought("rule 37 motion", "plaintiff", "file_rule37_motion")'
    BY <1>2, <1>4, <1>6 DEF CaseSettled, AllBrought, Brought, Leads, OfSide
  <2>3. Brought("rule 56 motion", "defendant", "file_rule56_motion")'
    BY <1>2, <1>4, <1>6 DEF CaseSettled, AllBrought, Brought, Leads, OfSide
  <2>4. Brought("rule 59 motion", "defendant", "file_rule59_motion")'
    BY <1>2, <1>4, <1>6 DEF CaseSettled, AllBrought, Brought, Leads, OfSide
  <2>5. Brought("rule 60 motion", "defendant", "file_rule60_motion")'
    BY <1>2, <1>4, <1>6 DEF CaseSettled, AllBrought, Brought, Leads, OfSide
  <2>6. Brought("interrogatories", "plaintiff", "serve_interrogatories")'
    BY <1>2, <1>4, <1>6 DEF CaseSettled, AllBrought, Brought, Leads, OfSide
  <2>7. Brought("production request", "plaintiff", "serve_request_for_production")'
    BY <1>2, <1>4, <1>6 DEF CaseSettled, AllBrought, Brought, Leads, OfSide
  <2>8. Brought("admission requests", "plaintiff", "serve_requests_for_admission")'
    BY <1>2, <1>4, <1>6 DEF CaseSettled, AllBrought, Brought, Leads, OfSide
  <2> QED BY <2>1, <2>2, <2>3, <2>4, <2>5, <2>6, <2>7, <2>8 DEF AllBrought
<1>10. OneModeAtMost'
  <2>1. CASE item.tool = "resolve_trial_mode"
    <3>1. First(19, FiledAgenda)
      BY <1>7, <2>1 DEF FiledItem, PretrialItem, PostJudgmentItem
    <3>2. FiledAgenda[19].unless = {"jury trial", "bench trial"}
      BY ItemParts
    <3>3. facts \cap {"jury trial", "bench trial"} = {}
      BY <3>1, <3>2, KnownIsOnRecord DEF First, Open
    <3>4. effect.added \in {{"jury trial"}, {"bench trial"}}
      BY <1>3, <2>1
    <3>5. facts' \subseteq facts \cup effect.added
      BY <1>1 DEF Acts
    <3> QED BY <3>3, <3>4, <3>5 DEF OneModeAtMost
  <2>2. CASE item.tool # "resolve_trial_mode"
    BY <1>4, <2>2 DEF CaseSettled, OneModeAtMost, Leads
  <2> QED BY <2>1, <2>2
<1>11. CASE status' = "pretrial" /\ status = "filed"
  <2>1. item.tool = "transition_case"
    BY <1>3, <1>6, <1>11
  <2>2. /\ Followed("rule 12 motion", "rule 12 order")
        /\ facts \cap {"jury trial", "bench trial"} # {}
    BY <1>11, <2>1, LeavingFiled DEF item
  <2>3. "rule 12 motion" \in facts' => "rule 12 motion" \in facts
    BY <1>4, <2>1 DEF Leads
  <2>4. PleadingsSettled'
    BY <1>5, <2>2, <2>3 DEF PleadingsSettled, Followed
  <2> QED BY <1>6, <1>9, <1>10, <1>11, <2>4 DEF CaseSettled, PassedOptional, DiscoverySettled
<1>12. CASE status' = "pretrial" /\ status = "pretrial"
  <2>1. item.tool # "file_rule12_motion"
    BY <1>7, <1>12 DEF PretrialItem
  <2>2. "rule 12 motion" \in facts' => "rule 12 motion" \in facts
    BY <1>4, <2>1 DEF Leads
  <2>3. PleadingsSettled'
    BY <1>5, <1>12, <2>2 DEF CaseSettled, PleadingsSettled, Followed
  <2> QED BY <1>6, <1>9, <1>10, <1>12, <2>3 DEF CaseSettled, PassedOptional, DiscoverySettled
<1>13. CASE status' = "trial"
  <2>1. item.tool = "transition_case" /\ status # "filed"
    BY <1>3, <1>6, <1>8, <1>13
  <2>2. status = "pretrial"
    BY <1>7, <2>1 DEF PostJudgmentItem
  <2>3. /\ Followed("rule 37 motion", "rule 37 order")
        /\ Followed("rule 56 motion", "rule 56 order")
        /\ Followed("interrogatories", "interrogatory responses")
        /\ Followed("production request", "production responses")
        /\ Followed("admission requests", "admission responses")
    BY <2>1, <2>2, LeavingPretrial DEF item
  <2>4. \A fact \in facts' :
          fact \in {"rule 12 motion", "rule 37 motion", "rule 56 motion", "interrogatories",
                    "production request", "admission requests"} => fact \in facts
    BY <1>4, <2>1 DEF Leads
  <2>5. PleadingsSettled'
    BY <1>5, <2>2, <2>4 DEF CaseSettled, PleadingsSettled, Followed
  <2>6. DiscoverySettled'
    BY <1>5, <2>3, <2>4 DEF DiscoverySettled, Followed
  <2> QED BY <1>6, <1>9, <1>10, <2>5, <2>6 DEF CaseSettled, PassedOptional
<1>14. CASE status' \notin {"pretrial", "trial"}
  BY <1>6, <1>9, <1>10, <1>14
  DEF CaseSettled, PassedOptional, PleadingsSettled, DiscoverySettled
<1>15. status' = "pretrial" => status \in {"filed", "pretrial"}
  BY <1>3, <1>6
<1> QED BY <1>11, <1>12, <1>13, <1>14, <1>15

\* A pass adds a declined window, or one more optional item passed.
LEMMA PassKeepsSettled ==
  ASSUME CaseSettled, Pass
  PROVE  CaseSettled'
<1>1. facts \subseteq facts' /\ facts' \subseteq facts \cup {"rule 56 declined"}
  BY DEF Pass, AfterPass
<1>2. case' = case /\ status' = status
  BY DEF Pass
<1>3. \A item \in passed' : item \in passed \/ item.kind = "optional"
  BY DEF Pass, AfterPass, MayPass
<1>4. PassedOptional'
  BY <1>3 DEF CaseSettled, PassedOptional
<1>5. AllBrought'
  BY <1>1, <1>2 DEF CaseSettled, AllBrought, Brought
<1>6. OneModeAtMost'
  BY <1>1 DEF CaseSettled, OneModeAtMost
<1>7. PleadingsSettled'
  BY <1>1, <1>2 DEF CaseSettled, PleadingsSettled, Followed
<1>8. DiscoverySettled'
  BY <1>1, <1>2 DEF CaseSettled, DiscoverySettled, Followed
<1> QED BY <1>2, <1>4, <1>5, <1>6, <1>7, <1>8 DEF CaseSettled

\* Every step keeps the invariant.
LEMMA SettledStep == CaseSettled /\ [PretrialNext]_pretrialVars => CaseSettled'
<1> SUFFICES ASSUME CaseSettled, [PretrialNext]_pretrialVars PROVE CaseSettled'
  OBVIOUS
<1>1. CASE Act
  BY <1>1, ActKeepsSettled
<1>2. CASE Pass
  BY <1>2, PassKeepsSettled
<1>3. CASE UNCHANGED pretrialVars
  BY <1>3 DEF pretrialVars, CaseSettled, AllBrought, Brought, PassedOptional, OneModeAtMost,
     PleadingsSettled, DiscoverySettled, Followed
<1> QED BY <1>1, <1>2, <1>3 DEF PretrialNext, Stop

\* So every case stays settled.
LEMMA CasesSettle == PretrialSpec => []CaseSettled
BY SettledAtFirst, SettledStep, PTL DEF PretrialSpec

\* At trial's door and at rest after judgment the invariant is the property.
LEMMA SettledIsDecided == CaseSettled => NothingLeftUndecided
<1> SUFFICES ASSUME CaseSettled PROVE NothingLeftUndecided
  OBVIOUS
<1>1. ASSUME status = "trial"
      PROVE  Cardinality(facts \cap {"jury trial", "bench trial"}) = 1
  <2>1. PICK mode : facts \cap {"jury trial", "bench trial"} = {mode}
    <3>1. \E mode \in {"jury trial", "bench trial"} :
            facts \cap {"jury trial", "bench trial"} = {mode}
      BY <1>1 DEF CaseSettled, PleadingsSettled, OneModeAtMost
    <3> QED BY <3>1
  <2> QED BY <2>1, FS_Singleton
<1>2. ASSUME status = "judgment_entered", CurrentItem = Nothing, ~ case.stops
      PROVE  /\ Followed("rule 59 motion", "rule 59 order")
             /\ Followed("rule 60 motion", "rule 60 order")
  <2>1. ~ Open(PostJudgmentAgenda[2], Known) /\ ~ Open(PostJudgmentAgenda[4], Known)
    BY <1>2, AtRest
  <2>2. PassedOptional /\ case \in Cases /\ AllBrought
    BY DEF CaseSettled
  <2>3. Followed("rule 59 motion", "rule 59 order")
    <3>1. SUFFICES ASSUME "rule 59 motion" \in facts PROVE "rule 59 order" \in facts
      BY DEF Followed
    <3>2. <<"judge", "resolve_rule59_motion">> \in case.tools
      BY <2>2, <3>1, Answers DEF AllBrought, Brought
      <3>3. ~ Open(Item("automatic", "judge", "resolve_rule59_motion",
                    {"rule 59 motion"}, {"rule 59 order"}), Known)
        BY <2>1, AnswerItems
      <3> QED BY <2>2, <3>1, <3>2, <3>3, MustBeAnswered DEF Followed
  <2>4. Followed("rule 60 motion", "rule 60 order")
    <3>1. SUFFICES ASSUME "rule 60 motion" \in facts PROVE "rule 60 order" \in facts
      BY DEF Followed
    <3>2. <<"judge", "resolve_rule60_motion">> \in case.tools
      BY <2>2, <3>1, Answers DEF AllBrought, Brought
      <3>3. ~ Open(Item("required", "judge", "resolve_rule60_motion",
                    {"rule 60 motion"}, {"rule 60 order"}), Known)
        BY <2>1, AnswerItems
      <3> QED BY <2>2, <3>1, <3>2, <3>3, MustBeAnswered DEF Followed
  <2> QED BY <2>3, <2>4
<1> QED BY <1>1, <1>2 DEF NothingLeftUndecided, CaseSettled, PleadingsSettled, DiscoverySettled

(***************************************************************************)
(* For every roster that can answer what it can be asked, every complaint  *)
(* and policy, and whatever is passed: a case goes to trial with every     *)
(* motion ruled on, every request answered and one trial mode, and the     *)
(* runner rests after judgment with no Rule 59 or 60 motion left open.     *)
(***************************************************************************)
THEOREM NothingIsLeftUndecided == PretrialSpec => []NothingLeftUndecided
BY CasesSettle, SettledIsDecided, PTL

-----------------------------------------------------------------------------
\* An optional item that is not open although its turn has come was heard.
LEMMA PassedIsHeard ==
  ASSUME NEW role, NEW tool, NEW first, NEW fact,
         FactOf[tool] = fact, first \in facts,
         fact \notin {"rule 37 pending", "leave pending", "offer pending"},
         ~ Open(Item("optional", role, tool, {first}, {fact}), Known)
  PROVE  Heard(role, tool)
<1>1. Item("optional", role, tool, {first}, {fact}).tool = tool
  BY DEF Item
<1>2. CASE <<role, tool>> \in case.tools
  BY <1>1, <1>2, ClosedItem DEF Heard
<1> QED BY <1>2 DEF Heard

\* The facts the opposition and the reply leave.
LEMMA OpposedAndReplied ==
  /\ FactOf["oppose_rule12_motion"] = "rule 12 opposition"
  /\ FactOf["reply_rule12_motion"] = "rule 12 reply"
  /\ FactOf["oppose_rule56_motion"] = "rule 56 opposition"
  /\ FactOf["reply_rule56_motion"] = "rule 56 reply"
<1>1. FactOf["oppose_rule12_motion"] = "rule 12 opposition"
  BY DEF FactOf
<1>2. FactOf["reply_rule12_motion"] = "rule 12 reply"
  BY DEF FactOf
<1>3. FactOf["oppose_rule56_motion"] = "rule 56 opposition"
  BY DEF FactOf
<1>4. FactOf["reply_rule56_motion"] = "rule 56 reply"
  BY DEF FactOf
<1> QED BY <1>1, <1>2, <1>3, <1>4

\* The opposition and the reply come before the ruling.
LEMMA HearingFirst ==
  /\ First(4, FiledAgenda) => \A j \in {2, 3} : ~ Open(FiledAgenda[j], Known)
  /\ First(20, PretrialAgenda) => \A j \in {18, 19} : ~ Open(PretrialAgenda[j], Known)
<1>1. First(4, FiledAgenda) => \A j \in {2, 3} : ~ Open(FiledAgenda[j], Known)
  BY AgendaLengths DEF First
<1>2. First(20, PretrialAgenda) => \A j \in {18, 19} : ~ Open(PretrialAgenda[j], Known)
  BY AgendaLengths DEF First
<1> QED BY <1>1, <1>2

\* The property for one order.
HeardBefore(order, opposition, reply) ==
  order \in facts' \ facts =>
    /\ Heard("plaintiff", opposition)
    /\ FactOf[opposition] \in facts => Heard("defendant", reply)

\* A Rule 12 order is the ruling's own act, taken when nothing before it was open.
LEMMA Rule12IsHeard ==
  ASSUME Act
  PROVE  HeardBefore("rule 12 order", "oppose_rule12_motion", "reply_rule12_motion")
<1> SUFFICES ASSUME "rule 12 order" \in facts' \ facts
             PROVE  /\ Heard("plaintiff", "oppose_rule12_motion")
                    /\ FactOf["oppose_rule12_motion"] \in facts =>
                         Heard("defendant", "reply_rule12_motion")
  BY DEF HeardBefore
<1>1. PICK effect : Acts(CurrentItem, effect)
  BY ActIsOne
<1>2. CurrentItem.tool = "decide_rule12_motion"
  BY <1>1, TurnKnown, ActLeaves DEF Acts, Leads
<1>3. CurrentItem # Nothing /\ CurrentItem # JurisdictionDismissal
  BY <1>2, OtherItems
<1>4. First(4, FiledAgenda)
  BY <1>2, <1>3, Taken DEF FiledItem, PretrialItem, PostJudgmentItem
<1>5. \A j \in {2, 3} : ~ Open(FiledAgenda[j], Known)
  BY <1>4, HearingFirst
<1>6. FiledAgenda[4].after = {"rule 12 motion"}
  BY ItemParts
<1>7. "rule 12 motion" \in facts
  BY <1>4, <1>6, KnownIsOnRecord DEF First, Open
<1>8. Heard("plaintiff", "oppose_rule12_motion")
  <2>1. ~ Open(Item("optional", "plaintiff", "oppose_rule12_motion",
                    {"rule 12 motion"}, {"rule 12 opposition"}), Known)
    BY <1>5, Rule12Items
  <2> QED BY <1>7, <2>1, OpposedAndReplied, PassedIsHeard
<1>9. ASSUME "rule 12 opposition" \in facts PROVE Heard("defendant", "reply_rule12_motion")
  <2>1. ~ Open(Item("optional", "defendant", "reply_rule12_motion",
                    {"rule 12 opposition"}, {"rule 12 reply"}), Known)
    BY <1>5, Rule12Items
  <2> QED BY <1>9, <2>1, OpposedAndReplied, PassedIsHeard
<1> QED BY <1>8, <1>9, OpposedAndReplied

\* A Rule 56 order likewise.
LEMMA Rule56IsHeard ==
  ASSUME Act
  PROVE  HeardBefore("rule 56 order", "oppose_rule56_motion", "reply_rule56_motion")
<1> SUFFICES ASSUME "rule 56 order" \in facts' \ facts
             PROVE  /\ Heard("plaintiff", "oppose_rule56_motion")
                    /\ FactOf["oppose_rule56_motion"] \in facts =>
                         Heard("defendant", "reply_rule56_motion")
  BY DEF HeardBefore
<1>1. PICK effect : Acts(CurrentItem, effect)
  BY ActIsOne
<1>2. CurrentItem.tool = "decide_rule56_motion"
  BY <1>1, TurnKnown, ActLeaves DEF Acts, Leads
<1>3. CurrentItem # Nothing /\ CurrentItem # JurisdictionDismissal
  BY <1>2, OtherItems
<1>4. First(20, PretrialAgenda)
  BY <1>2, <1>3, Taken DEF FiledItem, PretrialItem, PostJudgmentItem
<1>5. \A j \in {18, 19} : ~ Open(PretrialAgenda[j], Known)
  BY <1>4, HearingFirst
<1>6. PretrialAgenda[20].after = {"rule 56 motion"}
  BY ItemParts
<1>7. "rule 56 motion" \in facts
  BY <1>4, <1>6, KnownIsOnRecord DEF First, Open
<1>8. Heard("plaintiff", "oppose_rule56_motion")
  <2>1. ~ Open(Item("optional", "plaintiff", "oppose_rule56_motion",
                    {"rule 56 motion"}, {"rule 56 opposition"}), Known)
    BY <1>5, Rule56Items
  <2> QED BY <1>7, <2>1, OpposedAndReplied, PassedIsHeard
<1>9. ASSUME "rule 56 opposition" \in facts PROVE Heard("defendant", "reply_rule56_motion")
  <2>1. ~ Open(Item("optional", "defendant", "reply_rule56_motion",
                    {"rule 56 opposition"}, {"rule 56 reply"}), Known)
    BY <1>5, Rule56Items
  <2> QED BY <1>9, <2>1, OpposedAndReplied, PassedIsHeard
<1> QED BY <1>8, <1>9, OpposedAndReplied

RulingHeard ==
  \A rule \in {<<"rule 12 order", "oppose_rule12_motion", "reply_rule12_motion">>,
               <<"rule 56 order", "oppose_rule56_motion", "reply_rule56_motion">>} :
    rule[1] \in facts' \ facts =>
      /\ Heard("plaintiff", rule[2])
      /\ FactOf[rule[2]] \in facts => Heard("defendant", rule[3])

\* No other step makes an order.
LEMMA StepIsHeard == [PretrialNext]_pretrialVars => [RulingHeard]_pretrialVars
<1> SUFFICES ASSUME PretrialNext PROVE RulingHeard
  OBVIOUS
<1>1. /\ HeardBefore("rule 12 order", "oppose_rule12_motion", "reply_rule12_motion")
      /\ HeardBefore("rule 56 order", "oppose_rule56_motion", "reply_rule56_motion")
  <2>1. CASE Act
    BY <2>1, Rule12IsHeard, Rule56IsHeard
  <2>2. CASE Pass \/ Stop
    BY <2>2 DEF Pass, AfterPass, Stop, pretrialVars, HeardBefore
  <2> QED BY <2>1, <2>2 DEF PretrialNext
<1> SUFFICES ASSUME NEW rule \in
                      {<<"rule 12 order", "oppose_rule12_motion", "reply_rule12_motion">>,
                       <<"rule 56 order", "oppose_rule56_motion", "reply_rule56_motion">>}
             PROVE  HeardBefore(rule[1], rule[2], rule[3])
  BY DEF RulingHeard, HeardBefore
<1>2. CASE rule = <<"rule 12 order", "oppose_rule12_motion", "reply_rule12_motion">>
  <2>1. /\ rule[1] = "rule 12 order" /\ rule[2] = "oppose_rule12_motion"
        /\ rule[3] = "reply_rule12_motion"
    BY <1>2
  <2> QED BY <1>1, <2>1
<1>3. CASE rule = <<"rule 56 order", "oppose_rule56_motion", "reply_rule56_motion">>
  <2>1. /\ rule[1] = "rule 56 order" /\ rule[2] = "oppose_rule56_motion"
        /\ rule[3] = "reply_rule56_motion"
    BY <1>3
  <2> QED BY <1>1, <2>1
<1> QED BY <1>2, <1>3

(***************************************************************************)
(* For every roster, complaint and policy, the judge rules on a Rule 12 or *)
(* Rule 56 motion only after the opponent opposed it or declined to, and   *)
(* then the movant replied or declined to.                                 *)
(***************************************************************************)
THEOREM RulingsAlwaysHeard == PretrialSpec => RulingsAreHeard
BY StepIsHeard, PTL DEF PretrialSpec, RulingsAreHeard, RulingHeard

-----------------------------------------------------------------------------
(* Types, and the limit on dispositive motions.                            *)

\* The motions of the two rules, on record and in all.
Moved == facts \cap DispositiveMotions

\* One more element adds at most one to the size of a set.
LEMMA OneMore ==
  ASSUME NEW set, NEW element, IsFiniteSet(set), Cardinality(set) \in Nat
  PROVE  /\ IsFiniteSet(set \cup {element})
         /\ Cardinality(set \cup {element}) <= Cardinality(set) + 1
  BY FS_AddElement

\* There are at most two of them, so they can be counted.
LEMMA MovedIsFinite ==
  ASSUME NEW record
  PROVE  /\ IsFiniteSet(record \cap DispositiveMotions)
         /\ Cardinality(record \cap DispositiveMotions) \in Nat
<1>1. IsFiniteSet({"rule 12 motion"})
  BY FS_Singleton
<1>2. IsFiniteSet({"rule 12 motion"} \cup {"rule 56 motion"})
  BY <1>1, FS_AddElement
<1>3. record \cap DispositiveMotions \in SUBSET ({"rule 12 motion"} \cup
   {"rule 56 motion"})
  BY DEF DispositiveMotions
<1>4. IsFiniteSet(record \cap DispositiveMotions)
  BY <1>2, <1>3, FS_Subset
<1> QED BY <1>4, FS_CardinalityType

\* The item on turn is one of the agendas' or the dismissal.
LEMMA TurnIsItem ==
  ASSUME CurrentItem # Nothing
  PROVE  CurrentItem \in Items
<1>1. CASE CurrentItem = JurisdictionDismissal
  BY <1>1 DEF Items
<1>2. CASE CurrentItem # JurisdictionDismissal
  <2>1. \/ CurrentItem \in Range(FiledAgenda)
        \/ CurrentItem \in Range(PretrialAgenda)
        \/ CurrentItem \in Range(PostJudgmentAgenda)
    BY <1>2, Taken, AgendaLengths DEF First, Range
  <2> QED BY <2>1 DEF Items
<1> QED BY <1>1, <1>2

\* Types, beside those in CaseSettled, and the limit.
TypesOfFacts ==
  /\ status \in {"filed", "pretrial", "trial", "judgment_entered", "closed"}
  /\ facts \subseteq Recordable
  /\ passed \subseteq {item \in Items : item.kind = "optional"}

WithinPolicy == Cardinality(Moved) <= case.motions

\* Nobody has moved when a case begins.
LEMMA TypesAtFirst == PretrialInit => TypesOfFacts /\ WithinPolicy
<1> SUFFICES ASSUME PretrialInit PROVE TypesOfFacts /\ WithinPolicy
  OBVIOUS
<1>1. case \in Case
  BY PretrialAssumption DEF PretrialInit
<1>2. facts \subseteq Settings /\ case.motions \in Nat
  BY <1>1 DEF PretrialInit, Case
<1>3. Moved = {}
  BY <1>2 DEF Moved, Settings, DispositiveMotions
<1>4. Cardinality(Moved) = 0
  BY <1>3, FS_EmptySet
<1>5. facts \subseteq Recordable
  BY <1>2 DEF Recordable
<1>6. TypesOfFacts
  BY <1>5 DEF PretrialInit, TypesOfFacts
<1>7. WithinPolicy
  BY <1>2, <1>4 DEF WithinPolicy
<1> QED BY <1>6, <1>7

\* Only the two motions' own tools add one, and only below the limit.
LEMMA ActKeepsTypes ==
  ASSUME CaseSettled, TypesOfFacts, WithinPolicy, Act
  PROVE  TypesOfFacts' /\ WithinPolicy'
<1>1. PICK effect : Acts(CurrentItem, effect) /\ StepAccepts(CurrentItem.tool)
  BY DEF Act, Acts
<1>2. OfSide(CurrentItem)
  BY <1>1, TurnKnown DEF Acts
<1>3. /\ \A fact \in effect.added : Leads(fact, CurrentItem.tool)
      /\ effect.status \in {status, "closed", "judgment_entered", "pretrial", "trial"}
      /\ effect.added \subseteq Recordable
  BY <1>1, <1>2, ActLeaves DEF Acts
<1>4. TypesOfFacts'
  BY <1>1, <1>3 DEF Acts, TypesOfFacts, Recordable
<1>5. /\ Cardinality(Moved) \in Nat /\ IsFiniteSet(Moved)
      /\ Cardinality(Moved') \in Nat
  BY MovedIsFinite DEF Moved
<1>6. case.motions \in Nat /\ case' = case
  BY <1>1, PretrialAssumption DEF CaseSettled, Acts, Case
<1>7. facts' \subseteq facts \cup effect.added
  BY <1>1 DEF Acts
<1>8. CASE CurrentItem.tool \in {"file_rule12_motion", "file_rule56_motion"}
  <2>1. Cardinality(Moved) < case.motions
    BY <1>1, <1>8 DEF StepAccepts, Moved
  <2>2. PICK motion : Moved' \subseteq Moved \cup {motion}
    <3>1. CASE CurrentItem.tool = "file_rule12_motion"
      BY <1>3, <1>7, <3>1 DEF Moved, DispositiveMotions, Leads
    <3>2. CASE CurrentItem.tool = "file_rule56_motion"
      BY <1>3, <1>7, <3>2 DEF Moved, DispositiveMotions, Leads
    <3> QED BY <1>8, <3>1, <3>2
  <2>3. /\ IsFiniteSet(Moved \cup {motion})
        /\ Cardinality(Moved \cup {motion}) <= Cardinality(Moved) + 1
    BY <1>5, OneMore
  <2>4. Cardinality(Moved') <= Cardinality(Moved \cup {motion})
    BY <2>2, <2>3, FS_Subset
  <2>5. Cardinality(Moved \cup {motion}) \in Nat
    BY <2>3, FS_CardinalityType
  <2> QED BY <1>4, <1>5, <1>6, <2>1, <2>3, <2>4, <2>5 DEF WithinPolicy
<1>9. CASE CurrentItem.tool \notin {"file_rule12_motion", "file_rule56_motion"}
  <2>1. Moved' \subseteq Moved
    BY <1>3, <1>7, <1>9 DEF Moved, DispositiveMotions, Leads
  <2>2. Cardinality(Moved') <= Cardinality(Moved)
    BY <1>5, <2>1, FS_Subset
  <2> QED BY <1>4, <1>5, <1>6, <2>2 DEF WithinPolicy
<1> QED BY <1>8, <1>9

\* A pass adds no motion, and passes what may be passed.
LEMMA PassKeepsTypes ==
  ASSUME TypesOfFacts, WithinPolicy, Pass
  PROVE  TypesOfFacts' /\ WithinPolicy'
<1>1. CurrentItem.kind = "optional" /\ status' = status /\ case' = case
  BY DEF Pass, MayPass
<1>2. CurrentItem # Nothing
  BY <1>1, OtherItems
<1>3. passed' \subseteq passed \cup {CurrentItem}
  BY DEF Pass, AfterPass
<1>4. facts' \subseteq facts \cup {"rule 56 declined"} /\ facts \subseteq facts'
  BY DEF Pass, AfterPass
<1>5. TypesOfFacts'
  BY <1>1, <1>2, <1>3, <1>4, TurnIsItem DEF TypesOfFacts, Recordable
<1>6. Moved' = Moved
  BY <1>4 DEF Moved, DispositiveMotions
<1> QED BY <1>1, <1>5, <1>6 DEF WithinPolicy

\* Every step keeps types and limit.
LEMMA TypesStep ==
  CaseSettled /\ TypesOfFacts /\ WithinPolicy /\ [PretrialNext]_pretrialVars
    => TypesOfFacts' /\ WithinPolicy'
<1> SUFFICES ASSUME CaseSettled, TypesOfFacts, WithinPolicy, [PretrialNext]_pretrialVars
             PROVE  TypesOfFacts' /\ WithinPolicy'
  OBVIOUS
<1>1. CASE Act
  BY <1>1, ActKeepsTypes
<1>2. CASE Pass
  BY <1>2, PassKeepsTypes
<1>3. CASE UNCHANGED pretrialVars
  BY <1>3 DEF pretrialVars, TypesOfFacts, WithinPolicy, Moved
<1> QED BY <1>1, <1>2, <1>3 DEF PretrialNext, Stop

(***************************************************************************)
(* For every roster, complaint and policy the state of a case stays well   *)
(* formed, only optional items are passed, and no more dispositive motions *)
(* are on record than the policy allows.                                   *)
(***************************************************************************)
THEOREM PretrialTypeCorrect == PretrialSpec => []PretrialTypeOK
<1>1. CaseSettled /\ TypesOfFacts /\ WithinPolicy => PretrialTypeOK
  BY DEF CaseSettled, TypesOfFacts, WithinPolicy, Moved, Recordable, PretrialTypeOK
<1> QED BY <1>1, TypesAtFirst, TypesStep, CasesSettle, PTL DEF PretrialSpec
=============================================================================
