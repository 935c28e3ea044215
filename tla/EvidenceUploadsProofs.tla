------------------------ MODULE EvidenceUploadsProofs ------------------------
(***************************************************************************)
(* Custody of evidence for any contents, limits, number of uploads, writes *)
(* that fail, and deadlines that pass under a call.                        *)
(***************************************************************************)
EXTENDS EvidenceUploads, FiniteSetTheorems, TLAPS

-----------------------------------------------------------------------------
(* Turns, actions and counts.                                              *)

\* In an open turn there is a side and a phase, the first in two turns.
LEMMA TurnFacts ==
  /\ DOMAIN EvidenceTurns = 1..4
  /\ turn \in 1..4 =>
       /\ Current.role \in Sides /\ Current.phase \in Phases
       /\ Current.phase = "arguments" <=> turn \in {1, 2}
BY DEF Current, EvidenceTurns, Sides, Phases

\* Evidence added to a list counts for its side.
LEMMA CountAdded ==
  ASSUME NEW items \in Seq(Item), NEW item \in Item, NEW role
  PROVE  /\ CountForRole(items, role) \in Nat
         /\ CountForRole(Append(items, item), role) =
              IF item.role = role THEN CountForRole(items, role) + 1
              ELSE CountForRole(items, role)
<1>. DEFINE Of(list) == {i \in DOMAIN list : list[i].role = role}
            added == Append(items, item)
            n == Len(items) + 1
<1>1. /\ Len(items) \in Nat /\ DOMAIN items = 1..Len(items)
      /\ DOMAIN added = 1..n /\ added[n] = item
      /\ \A i \in DOMAIN items : added[i] = items[i]
  OBVIOUS
<1>2. IsFiniteSet(Of(items))
  <2>1. IsFiniteSet(1..Len(items))
    BY <1>1, FS_Interval
  <2>. QED BY <1>1, <2>1, FS_Subset
<1>3. n \notin Of(items)
  BY <1>1
<1>4. Of(added) = IF item.role = role THEN Of(items) \cup {n} ELSE Of(items)
  BY <1>1
<1>5. /\ Cardinality(Of(items)) \in Nat
      /\ Cardinality(Of(items) \cup {n}) = Cardinality(Of(items)) + 1
  BY <1>2, <1>3, FS_CardinalityType, FS_AddElement
<1>. QED BY <1>4, <1>5 DEF CountForRole

Acts == EndingAct \cup EvidenceAct

\* The case after an action that the engine accepted.
LEMMA AfterFacts ==
  ASSUME NEW s \in CaseState, NEW a \in Acts, StepOK(s, a)
  PROVE  /\ AfterStep(s, a) \in CaseState
         /\ a.kind = "evidence" =>
              /\ a.item \in Item
              /\ AfterStep(s, a).record = Append(s.record, a.item)
              /\ AfterStep(s, a).turn = s.turn /\ ~AfterStep(s, a).failed
         /\ a.kind # "evidence" => AfterStep(s, a).record = s.record
         /\ a.kind = "file" => AfterStep(s, a).turn = s.turn + 1 /\ ~AfterStep(s, a).failed
         /\ a.kind = "fail" => AfterStep(s, a).turn = s.turn /\ AfterStep(s, a).failed
<1>1. /\ s.turn \in 1..5 /\ s.record \in Seq(Item) /\ s.failed = FALSE
      /\ s.turn = a.turn /\ a.turn \in 1..4
      /\ s.turn + 1 \in 1..5
  BY DEF CaseState, StepOK, Acts, EndingAct, EvidenceAct
<1>2. CASE a.kind = "evidence"
  <2>1. a.item \in Item
    BY <1>2 DEF Acts, EndingAct, EvidenceAct
  <2>2. Append(s.record, a.item) \in Seq(Item)
    BY <1>1, <2>1
  <2>3. AfterStep(s, a) = [s EXCEPT !.record = Append(s.record, a.item)]
    BY <1>2 DEF AfterStep
  <2>. QED BY <1>1, <1>2, <2>1, <2>2, <2>3 DEF CaseState
<1>3. CASE a.kind = "file"
  <2>1. AfterStep(s, a) = [s EXCEPT !.turn = s.turn + 1]
    BY <1>3 DEF AfterStep
  <2>. QED BY <1>1, <1>3, <2>1 DEF CaseState
<1>4. CASE a.kind = "fail"
  <2>1. AfterStep(s, a) = [s EXCEPT !.failed = TRUE]
    BY <1>4 DEF AfterStep
  <2>. QED BY <1>1, <1>4, <2>1 DEF CaseState
<1>5. a.kind \in {"evidence", "file", "fail"}
  BY DEF Acts, EndingAct, EvidenceAct
<1>. QED BY <1>2, <1>3, <1>4, <1>5

\* A replay stays a replay; it goes on with what the engine accepts.
LEMMA RecordedFacts ==
  ASSUME NEW c \in [replays : BOOLEAN, state : CaseState], NEW a \in Acts
  PROVE  /\ Recorded(c, a) \in [replays : BOOLEAN, state : CaseState]
         /\ \A s \in CaseState :
              c = [replays |-> TRUE, state |-> s] /\ StepOK(s, a) =>
                Recorded(c, a) = [replays |-> TRUE, state |-> AfterStep(s, a)]
<1>1. c.replays \in BOOLEAN /\ c.state \in CaseState
  OBVIOUS
<1>2. CASE c.replays /\ StepOK(c.state, a)
  <2>1. Recorded(c, a) = [c EXCEPT !.state = AfterStep(c.state, a)]
    BY <1>2 DEF Recorded
  <2>2. AfterStep(c.state, a) \in CaseState
    BY <1>1, <1>2, AfterFacts
  <2>. HIDE DEF Recorded
  <2>3. [c EXCEPT !.state = AfterStep(c.state, a)]
          \in [replays : BOOLEAN, state : CaseState]
    BY <1>1, <2>2
  <2>4. ASSUME NEW s \in CaseState, c = [replays |-> TRUE, state |-> s]
        PROVE  Recorded(c, a) = [replays |-> TRUE, state |-> AfterStep(s, a)]
    BY <2>1, <2>4
  <2>. QED BY <2>1, <2>3, <2>4
<1>3. CASE ~(c.replays /\ StepOK(c.state, a))
  <2>1. Recorded(c, a) = [replays |-> FALSE, state |-> NewCase]
    BY <1>3 DEF Recorded
  <2>2. NewCase \in CaseState
    BY DEF NewCase, CaseState
  <2>. QED BY <1>3, <2>1, <2>2
<1>. QED BY <1>2, <1>3

\* The case, as it is read.
LEMMA CaseFacts ==
  ASSUME Inv
  PROVE  /\ turn \in 0..4
         /\ turn # 0 => turn \in 1..4
         /\ st \in CaseState /\ st.turn \in 1..5 /\ st.record \in Seq(Item)
         /\ st.failed \in BOOLEAN
         /\ cert \in [replays : BOOLEAN, state : CaseState]
         /\ met \in BOOLEAN /\ faults \in Nat
         /\ ~st.failed => Backed(st.record) /\ Len(st.record) = Len(registry)
BY DEF Inv, TypeOK, CaseState, RecordIsRegistered, AnnouncedIsAdmitted, Backed

\* A call of the engine, by a handler or by the timer.
LEMMA CallFacts ==
  ASSUME Inv, ~Free
  PROVE  /\ call.pc \in {"asked", "certified"} /\ call.act \in Acts /\ call.seen \in CaseState
         /\ call.act.kind = "evidence" => call.act \in EvidenceAct
         /\ call.act.kind # "evidence" => call \in Asked(EndingAct)
         /\ call.act.turn = turn /\ turn \in 1..4
         /\ call.seen.turn = turn /\ ~call.seen.failed
         /\ StepOK(call.seen, call.act)
<1>1. call \in Asked(EndingAct) \cup Asked(EvidenceAct)
  BY DEF Inv, TypeOK, Free, Idle
<1>2. call.act.turn \in 1..4
  BY <1>1 DEF Asked, EndingAct, EvidenceAct
<1>. QED BY <1>1, <1>2 DEF Inv, CallIsSound, StepOK, Asked, Acts, EndingAct, EvidenceAct

LEMMA TimerFacts ==
  ASSUME Inv, timer.pc \in {"asked", "certified"}
  PROVE  /\ timer \in Asked(EndingAct) /\ timer.act \in Acts /\ timer.seen \in CaseState
         /\ timer.act.kind = "fail" /\ ~timer.seen.failed
         /\ StepOK(timer.seen, timer.act)
<1>1. timer \in Asked(EndingAct)
  BY DEF Inv, TypeOK, Idle
<1>. QED BY <1>1 DEF Inv, TimerIsSound, StepOK, Asked, Acts

LEMMA AskingFacts ==
  ASSUME Inv, NEW acts, NEW a \in acts
  PROVE  /\ Asking(a) \in Asked(acts)
         /\ Asking(a).pc = "asked" /\ Asking(a).act = a /\ Asking(a).seen = st
BY CaseFacts DEF Asking, Asked

LEMMA EndingFacts ==
  ASSUME NEW kind \in {"file", "fail"}, turn \in 1..4
  PROVE  /\ Ending(kind) \in EndingAct /\ Ending(kind).kind = kind
         /\ Ending(kind).turn = turn
BY DEF Ending, EndingAct

-----------------------------------------------------------------------------
(* Steps that leave the evidence alone.                                    *)

\* What the invariant says of the evidence alone.
EvidenceInv ==
  /\ Numbered /\ AdmittedOnRecord /\ StoreIsWhole /\ NoneLeftOver
  /\ SidesWithinLimit /\ EvidenceIsReadable

EvidenceType ==
  /\ uploads \in Seq(Upload)
  /\ files \subseteq [id : EvidenceId, extension : Extensions]
  /\ stored \subseteq Seq(Bytes) /\ broken \subseteq Seq(Bytes)
  /\ registry \in Seq(Item)
  /\ faults \in Nat

LEMMA EvidenceStays ==
  ASSUME Inv, UNCHANGED evidence
  PROVE  EvidenceInv' /\ EvidenceType'
BY DEF Inv, TypeOK, evidence, EvidenceInv, EvidenceType, Numbered, AdmittedOnRecord,
       StoreIsWhole, NoneLeftOver, SidesWithinLimit, CountForRole, EvidenceIsReadable

\* What is backed stays backed while neither registry nor sessions change.
LEMMA BackedStays ==
  ASSUME UNCHANGED evidence, NEW record, Backed(record)
  PROVE  Backed(record)'
BY DEF evidence, Backed, Matches, SizesTold

LEMMA TimerSoundStays ==
  ASSUME Inv, UNCHANGED evidence, timer' = timer
  PROVE  TimerIsSound'
BY DEF Inv, TimerIsSound, evidence, Backed, Matches, SizesTold, StepOK, Accepts, CountForRole

LEMMA RecordStays ==
  ASSUME Inv, UNCHANGED evidence, st' = st, met => met'
  PROVE  RecordIsRegistered' /\ AnnouncedIsAdmitted'
BY DEF Inv, RecordIsRegistered, AnnouncedIsAdmitted, evidence, Matches, SizesTold

LEMMA StartTurnKeeps == ASSUME Inv, StartTurn PROVE Inv'
<1>1. /\ UNCHANGED <<evidence, st, cert, call, timer, met>> /\ UNCHANGED evidence
      /\ turn' = st.turn /\ Free /\ timer.pc = "idle" /\ ~st.failed /\ st.turn \in 1..4
  BY TurnFacts DEF StartTurn, MoreTurns
<1>2. EvidenceInv' /\ EvidenceType' /\ TimerIsSound' /\ RecordIsRegistered' /\ AnnouncedIsAdmitted'
  BY <1>1, EvidenceStays, TimerSoundStays, RecordStays
<1>3. TypeOK'
  BY <1>1, <1>2 DEF Inv, TypeOK, EvidenceType
<1>4. BegunInTime' /\ TurnIsCurrent' /\ CallIsSound'
  BY <1>1 DEF Inv, evidence, BegunInTime, TurnIsCurrent, CallIsSound, Free
<1>5. OneAtATime' /\ CertIsCurrent'
  BY <1>1 DEF Inv, evidence, OneAtATime, CertIsCurrent, Expected, Free
<1>. QED BY <1>2, <1>3, <1>4, <1>5 DEF Inv, EvidenceInv

\* A filing, a pass or a failure is brought to the engine.
LEMMA AskEndingKeeps ==
  ASSUME Inv, turn # 0, Free, NEW kind \in {"file", "fail"}, StepOK(st, Ending(kind)),
         call' = Asking(Ending(kind)),
         met' \in BOOLEAN, met => met', timer.pc # "idle" => met',
         UNCHANGED <<turn, evidence, st, cert, timer>>
  PROVE  Inv'
<1>1. UNCHANGED evidence /\ turn \in 1..4
  BY CaseFacts
<1>2. EvidenceInv' /\ EvidenceType' /\ TimerIsSound' /\ RecordIsRegistered' /\ AnnouncedIsAdmitted'
  BY <1>1, EvidenceStays, TimerSoundStays, RecordStays
<1>3. /\ call' \in Asked(EndingAct) /\ call'.pc = "asked"
      /\ call'.act = Ending(kind) /\ call'.seen = st
      /\ call'.act.turn = turn /\ call'.act.kind # "evidence"
  <2>1. /\ Ending(kind) \in EndingAct /\ Ending(kind).turn = turn
        /\ Ending(kind).kind = kind
    BY <1>1, EndingFacts
  <2>2. kind # "evidence"
    OBVIOUS
  <2>. QED BY <2>1, <2>2, AskingFacts
<1>4. TypeOK'
  BY <1>2, <1>3 DEF Inv, TypeOK, EvidenceType
<1>5. BegunInTime' /\ TurnIsCurrent'
  BY <1>1 DEF Inv, evidence, BegunInTime, TurnIsCurrent
<1>6. CallIsSound'
  <2>1. Backed(st.record)' /\ Len(st.record) = Len(registry)'
    <3>1. Backed(st.record) /\ Len(st.record) = Len(registry)
      BY CaseFacts DEF StepOK
    <3>. QED BY <1>1, <3>1 DEF evidence, Backed, Matches, SizesTold
  <2>2. StepOK(st, Ending(kind))' /\ st' = st
    BY DEF StepOK, Accepts, CountForRole, Ending
  <2>. QED BY <1>1, <1>3, <2>1, <2>2 DEF CallIsSound, evidence, StepOK
<1>7. OneAtATime' /\ CertIsCurrent'
  BY <1>1, <1>3 DEF Inv, evidence, OneAtATime, CertIsCurrent, Expected, Free
<1>. QED BY <1>2, <1>4, <1>5, <1>6, <1>7 DEF Inv, EvidenceInv

LEMMA SubmitDecisionKeeps == ASSUME Inv, SubmitDecision PROVE Inv'
<1>1. met' \in BOOLEAN
  BY CaseFacts DEF SubmitDecision
<1>. QED BY <1>1, AskEndingKeeps DEF SubmitDecision, InTime

LEMMA FailTurnKeeps == ASSUME Inv, FailTurn PROVE Inv'
<1>1. met' \in BOOLEAN
  BY CaseFacts DEF FailTurn
<1>. QED BY <1>1, AskEndingKeeps DEF FailTurn

LEMMA AnsweredKeeps == ASSUME Inv, Answered PROVE Inv'
<1>1. /\ UNCHANGED <<turn, evidence, st, timer, met>> /\ UNCHANGED evidence
      /\ ~Free /\ call' = [call EXCEPT !.pc = "certified"]
      /\ cert' = Recorded(cert, call.act)
  BY DEF Answered, Free
<1>2. EvidenceInv' /\ EvidenceType' /\ TimerIsSound' /\ RecordIsRegistered' /\ AnnouncedIsAdmitted'
  BY <1>1, EvidenceStays, TimerSoundStays, RecordStays
<1>3. /\ call' \in Asked(EndingAct) \cup Asked(EvidenceAct) /\ call'.pc = "certified"
      /\ call'.act = call.act /\ call'.seen = call.seen
  BY <1>1 DEF Inv, TypeOK, Free, Idle, Asked
<1>4. cert' \in [replays : BOOLEAN, state : CaseState]
  BY <1>1, CaseFacts, CallFacts, RecordedFacts
<1>5. TypeOK'
  BY <1>1, <1>2, <1>3, <1>4 DEF Inv, TypeOK, EvidenceType
<1>6. BegunInTime' /\ TurnIsCurrent'
  BY <1>1 DEF Inv, evidence, BegunInTime, TurnIsCurrent
<1>7. CallIsSound'
  BY <1>1, <1>3 DEF Inv, CallIsSound, evidence, Backed, Matches, SizesTold, StepOK, Accepts,
     CountForRole, SubmissionIsSound, Current, Id, Free
<1>8. OneAtATime'
  BY <1>1, <1>3 DEF Inv, OneAtATime, Free
<1>9. CertIsCurrent'
  <2>. SUFFICES ASSUME faults = 0, ~met
                PROVE  cert' = [replays |-> TRUE, state |-> AfterStep(st, call.act)]
    BY <1>1, <1>3 DEF CertIsCurrent, Expected, evidence
  <2>1. call.seen = st /\ timer.pc = "idle" /\ call.pc = "asked"
    BY <1>1 DEF Inv, OneAtATime, Answered
  <2>2. cert = [replays |-> TRUE, state |-> st]
    BY <2>1 DEF Inv, CertIsCurrent, Expected
  <2>. QED BY <1>1, <2>1, <2>2, CaseFacts, CallFacts, RecordedFacts
<1>. QED BY <1>2, <1>5, <1>6, <1>7, <1>8, <1>9 DEF Inv, EvidenceInv

LEMMA TurnEndsKeeps == ASSUME Inv, TurnEnds PROVE Inv'
<1>1. /\ UNCHANGED <<evidence, cert, timer, met>> /\ UNCHANGED evidence
      /\ ~Free /\ call.pc = "certified" /\ call.act.kind \in {"file", "fail"}
      /\ call' = Idle /\ turn' = 0 /\ st' = AfterStep(call.seen, call.act)
  BY DEF TurnEnds, Free
<1>2. /\ st' \in CaseState /\ st'.record = call.seen.record
      /\ st'.failed \/ st'.turn = turn + 1
      /\ turn \in 1..4
  BY <1>1, CallFacts, AfterFacts
<1>3. EvidenceInv' /\ EvidenceType' /\ TimerIsSound'
  BY <1>1, EvidenceStays, TimerSoundStays
<1>4. TypeOK'
  BY <1>1, <1>2, <1>3 DEF Inv, TypeOK, EvidenceType
<1>5. BegunInTime' /\ TurnIsCurrent' /\ CallIsSound'
  BY <1>1, <1>2 DEF Inv, evidence, BegunInTime, TurnIsCurrent, CallIsSound, Free, Idle
<1>6. RecordIsRegistered' /\ AnnouncedIsAdmitted'
  <2>1. Backed(call.seen.record) /\ Len(call.seen.record) = Len(registry)
    BY <1>1 DEF Inv, CallIsSound
  <2>. QED BY <1>1, <1>2, <2>1 DEF Inv, evidence, Backed, RecordIsRegistered, Matches,
         AnnouncedIsAdmitted, SizesTold
<1>7. OneAtATime' /\ CertIsCurrent'
  <2>1. ~met => timer.pc = "idle" /\ call.seen = st
    BY <1>1 DEF Inv, OneAtATime
  <2>. QED BY <1>1, <2>1 DEF Inv, evidence, OneAtATime, CertIsCurrent, Expected, Free, Idle
<1>. QED BY <1>3, <1>4, <1>5, <1>6, <1>7 DEF Inv, EvidenceInv

-----------------------------------------------------------------------------
(* The timer of the turn.                                                  *)

LEMMA ExpireKeeps == ASSUME Inv, Expire PROVE Inv'
<1>1. /\ UNCHANGED <<turn, evidence, st, cert, call>> /\ UNCHANGED evidence
      /\ turn \in 1..4 /\ timer.pc = "idle" /\ StepOK(st, Ending("fail"))
      /\ timer' = Asking(Ending("fail")) /\ met' = (met \/ ~Free)
      /\ met \in BOOLEAN
  BY CaseFacts DEF Expire
<1>2. EvidenceInv' /\ EvidenceType' /\ RecordIsRegistered' /\ AnnouncedIsAdmitted'
  BY <1>1, EvidenceStays, RecordStays
<1>3. /\ timer' \in Asked(EndingAct) /\ timer'.pc = "asked"
      /\ timer'.act = Ending("fail") /\ timer'.seen = st /\ timer'.act.kind = "fail"
  <2>1. Ending("fail") \in EndingAct /\ Ending("fail").kind = "fail"
    BY <1>1, EndingFacts
  <2>. QED BY <1>1, <2>1, AskingFacts
<1>4. TypeOK'
  <2>1. met' \in BOOLEAN
    BY <1>1
  <2>. QED BY <1>1, <1>2, <1>3, <2>1 DEF Inv, TypeOK, EvidenceType
<1>5. BegunInTime' /\ TurnIsCurrent'
  BY <1>1 DEF Inv, evidence, BegunInTime, TurnIsCurrent
<1>6. CallIsSound'
  BY <1>1 DEF Inv, CallIsSound, evidence, Backed, Matches, SizesTold, StepOK, Accepts,
     CountForRole, SubmissionIsSound, Current, Id, Free
<1>7. TimerIsSound'
  <2>1. Backed(st.record)
    BY <1>1, CaseFacts DEF StepOK
  <2>2. Backed(st.record)'
    BY <1>1, <2>1 DEF evidence, Backed, Matches, SizesTold
  <2>3. StepOK(timer.seen, timer.act)' /\ st' = st
    BY <1>1, <1>3 DEF StepOK
  <2>. QED BY <1>3, <2>2, <2>3 DEF TimerIsSound
<1>8. OneAtATime'
  BY <1>1, <1>3 DEF Inv, OneAtATime, Free
<1>9. CertIsCurrent'
  BY <1>1, <1>3 DEF Inv, evidence, CertIsCurrent, Expected, Free
<1>. QED BY <1>2, <1>4, <1>5, <1>6, <1>7, <1>8, <1>9 DEF Inv, EvidenceInv

LEMMA ExpiryAnsweredKeeps == ASSUME Inv, ExpiryAnswered PROVE Inv'
<1>1. /\ UNCHANGED <<turn, evidence, st, call, met>> /\ UNCHANGED evidence
      /\ timer.pc = "asked" /\ timer' = [timer EXCEPT !.pc = "certified"]
      /\ cert' = Recorded(cert, timer.act)
  BY DEF ExpiryAnswered
<1>2. EvidenceInv' /\ EvidenceType' /\ RecordIsRegistered' /\ AnnouncedIsAdmitted'
  BY <1>1, EvidenceStays, RecordStays
<1>3. /\ timer' \in Asked(EndingAct) /\ timer'.pc = "certified"
      /\ timer'.act = timer.act /\ timer'.seen = timer.seen
  <2>1. timer \in Asked(EndingAct)
    BY <1>1, TimerFacts
  <2>. QED BY <1>1, <2>1 DEF Asked
<1>4. cert' \in [replays : BOOLEAN, state : CaseState]
  BY <1>1, CaseFacts, TimerFacts, RecordedFacts
<1>5. TypeOK'
  BY <1>1, <1>2, <1>3, <1>4 DEF Inv, TypeOK, EvidenceType
<1>6. BegunInTime' /\ TurnIsCurrent'
  BY <1>1 DEF Inv, evidence, BegunInTime, TurnIsCurrent
<1>7. CallIsSound'
  BY <1>1 DEF Inv, CallIsSound, evidence, Backed, Matches, SizesTold, StepOK, Accepts,
     CountForRole, SubmissionIsSound, Current, Id, Free
<1>8. TimerIsSound'
  BY <1>1, <1>3 DEF Inv, TimerIsSound, evidence, Backed, Matches, SizesTold, StepOK, Accepts,
     CountForRole
<1>9. OneAtATime'
  BY <1>1, <1>3 DEF Inv, OneAtATime, Free
<1>10. CertIsCurrent'
  <2>. SUFFICES ASSUME faults = 0, ~met
                PROVE  cert' = [replays |-> TRUE, state |-> Expected']
    BY <1>1 DEF CertIsCurrent, evidence
  <2>1. Free /\ timer.seen = st
    BY <1>1 DEF Inv, OneAtATime
  <2>2. cert = [replays |-> TRUE, state |-> st]
    BY <1>1, <2>1 DEF Inv, CertIsCurrent, Expected, Free
  <2>3. Expected' = AfterStep(st, timer.act)
    BY <1>1, <1>3, <2>1 DEF Expected, Free
  <2>4. cert' = [replays |-> TRUE, state |-> AfterStep(st, timer.act)]
    BY <1>1, <2>1, <2>2, CaseFacts, TimerFacts, RecordedFacts
  <2>. QED BY <2>3, <2>4
<1>. QED BY <1>2, <1>5, <1>6, <1>7, <1>8, <1>9, <1>10 DEF Inv, EvidenceInv

LEMMA ExpiryStoredKeeps == ASSUME Inv, ExpiryStored PROVE Inv'
<1>1. /\ UNCHANGED <<turn, evidence, cert, call, met>> /\ UNCHANGED evidence
      /\ timer.pc = "certified" /\ timer' = [pc |-> "stored"]
      /\ st' = AfterStep(timer.seen, timer.act)
  BY DEF ExpiryStored
<1>2. /\ st' \in CaseState /\ st'.record = timer.seen.record /\ st'.failed
      /\ Backed(timer.seen.record)
  BY <1>1, TimerFacts, AfterFacts DEF Inv, TimerIsSound
<1>3. EvidenceInv' /\ EvidenceType'
  BY <1>1, EvidenceStays
<1>4. TypeOK'
  BY <1>1, <1>2, <1>3 DEF Inv, TypeOK, EvidenceType
<1>5. BegunInTime' /\ TurnIsCurrent' /\ TimerIsSound'
  BY <1>1, <1>2 DEF Inv, evidence, BegunInTime, TurnIsCurrent, TimerIsSound
<1>6. CallIsSound'
  BY <1>1 DEF Inv, CallIsSound, evidence, Backed, Matches, SizesTold, StepOK, Accepts,
     CountForRole, SubmissionIsSound, Current, Id, Free
<1>7. RecordIsRegistered' /\ AnnouncedIsAdmitted'
  <2>1. Len(st'.record) = Len(registry) \/ met
    <3>1. ~met => timer.seen = st /\ ~st.failed
      BY <1>1, TimerFacts DEF Inv, OneAtATime
    <3>. QED BY <1>2, <3>1, CaseFacts
  <2>. QED BY <1>1, <1>2, <2>1 DEF Inv, evidence, Backed, RecordIsRegistered, Matches,
         AnnouncedIsAdmitted, SizesTold
<1>8. OneAtATime' /\ CertIsCurrent'
  <2>1. ~met => Free /\ timer.seen = st
    BY <1>1 DEF Inv, OneAtATime
  <2>2. OneAtATime'
    BY <1>1, <1>2, <2>1 DEF OneAtATime, Free
  <2>3. CertIsCurrent'
    BY <1>1, <2>1 DEF Inv, evidence, CertIsCurrent, Expected, Free
  <2>. QED BY <2>2, <2>3
<1>. QED BY <1>3, <1>4, <1>5, <1>6, <1>7, <1>8 DEF Inv, EvidenceInv

LEMMA ExpiredKeeps == ASSUME Inv, Expired PROVE Inv'
<1>1. /\ UNCHANGED <<evidence, st, cert, call, met>> /\ UNCHANGED evidence
      /\ timer.pc = "stored" /\ Free /\ timer' = Idle /\ turn' = 0
  BY DEF Expired
<1>2. EvidenceInv' /\ EvidenceType' /\ RecordIsRegistered' /\ AnnouncedIsAdmitted'
  BY <1>1, EvidenceStays, RecordStays
<1>3. TypeOK'
  BY <1>1, <1>2 DEF Inv, TypeOK, EvidenceType
<1>4. BegunInTime' /\ TurnIsCurrent' /\ CallIsSound' /\ TimerIsSound'
  BY <1>1 DEF Inv, evidence, BegunInTime, TurnIsCurrent, CallIsSound, TimerIsSound, Free, Idle
<1>5. OneAtATime' /\ CertIsCurrent'
  BY <1>1 DEF Inv, evidence, OneAtATime, CertIsCurrent, Expected, Free, Idle
<1>. QED BY <1>2, <1>3, <1>4, <1>5 DEF Inv, EvidenceInv

-----------------------------------------------------------------------------
(* Sessions.                                                               *)

LEMMA InTimeFacts ==
  ASSUME Inv, InTime
  PROVE  /\ turn \in 1..4 /\ Free /\ timer.pc = "idle"
         /\ Current.role \in Sides /\ Current.phase \in Phases
         /\ Current.phase = "arguments" <=> turn \in {1, 2}
BY CaseFacts, TurnFacts DEF InTime

\* A step that leaves the registry, the files and the case alone, keeps of
\* sessions what they began with, and admits none, keeps the invariant.
LEMMA SessionsChanged ==
  ASSUME Inv, InTime,
         UNCHANGED <<turn, files, stored, broken, registry, st, cert, call, timer, met>>,
         faults' \in Nat, faults <= faults',
         uploads' \in Seq(Upload),
         BegunInTime', AdmittedOnRecord', AnnouncedIsAdmitted'
  PROVE  Inv'
<1>1. TypeOK'
  BY DEF Inv, TypeOK
<1>2. faults' = 0 => faults = 0
  BY CaseFacts
<1>3. /\ Numbered' /\ StoreIsWhole' /\ RecordIsRegistered' /\ SidesWithinLimit'
      /\ EvidenceIsReadable' /\ TurnIsCurrent' /\ NoneLeftOver'
  BY <1>2 DEF Inv, Numbered, StoreIsWhole, RecordIsRegistered, Matches, SidesWithinLimit,
         CountForRole, EvidenceIsReadable, TurnIsCurrent, NoneLeftOver
<1>4. CallIsSound' /\ TimerIsSound' /\ OneAtATime' /\ CertIsCurrent'
  BY <1>2, InTimeFacts DEF Inv, CallIsSound, TimerIsSound, OneAtATime, CertIsCurrent,
     Expected, Free
<1>. QED BY <1>1, <1>3, <1>4 DEF Inv

LEMMA BeginKeeps ==
  ASSUME Inv, NEW content \in Contents, NEW announced \in BOOLEAN,
         BeginUpload(content, announced)
  PROVE  Inv'
<1>. DEFINE upload == [role |-> Current.role, phase |-> Current.phase, wanted |-> content,
                       announced |-> announced, received |-> 0, part |-> <<>>,
                       admitted |-> 0]
            n == Len(uploads) + 1
<1>1. /\ InTime /\ turn \in 1..4 /\ Current.role \in Sides /\ Current.phase \in Phases
      /\ Current.phase = "arguments" <=> turn \in {1, 2}
  BY InTimeFacts DEF BeginUpload
<1>2. upload \in Upload /\ upload.phase = Current.phase /\ upload.admitted = 0
  BY <1>1, EvidenceAssumption DEF Upload
<1>3. /\ uploads \in Seq(Upload) /\ Len(registry) \in Nat
      /\ uploads' = Append(uploads, upload)
      /\ UNCHANGED <<turn, files, stored, broken, registry, faults, st, cert, call, timer, met>>
  BY DEF Inv, TypeOK, BeginUpload
<1>. HIDE DEF upload
<1>4. /\ uploads' \in Seq(Upload) /\ DOMAIN uploads' = DOMAIN uploads \cup {n}
      /\ uploads'[n] = upload
      /\ \A v \in DOMAIN uploads : uploads'[v] = uploads[v]
  BY <1>2, <1>3
<1>5. BegunInTime'
  <2>1. turn \in {1, 2} \/ (~st.failed /\ st.turn <= 2) => Current.phase = "arguments"
    BY <1>1, CaseFacts DEF Inv, TurnIsCurrent
  <2>. QED BY <1>2, <1>3, <1>4, <2>1 DEF Inv, BegunInTime
<1>6. AdmittedOnRecord'
  BY <1>2, <1>3, <1>4 DEF Inv, AdmittedOnRecord
<1>7. AnnouncedIsAdmitted'
  <2>1. DOMAIN st.record = 1..Len(st.record)
    BY CaseFacts
  <2>2. 0 \notin DOMAIN st.record
    BY <2>1
  <2>. QED BY <1>2, <1>3, <1>4, <2>2 DEF Inv, AnnouncedIsAdmitted, SizesTold
<1>. QED BY <1>1, <1>3, <1>4, <1>5, <1>6, <1>7, SessionsChanged, CaseFacts

\* One session of the current side is changed and stays open.
LEMMA OpenUploadChanged ==
  ASSUME Inv, NEW u \in OpenUploads, NEW upload \in Upload,
         uploads' = [uploads EXCEPT ![u] = upload],
         upload.phase = uploads[u].phase, upload.admitted = 0,
         UNCHANGED <<turn, registry, st>>
  PROVE  /\ uploads' \in Seq(Upload) /\ DOMAIN uploads' = DOMAIN uploads
         /\ uploads'[u] = upload
         /\ \A v \in DOMAIN uploads : v # u => uploads'[v] = uploads[v]
         /\ BegunInTime' /\ AdmittedOnRecord' /\ AnnouncedIsAdmitted'
<1>1. /\ uploads \in Seq(Upload) /\ u \in DOMAIN uploads /\ Len(registry) \in Nat
  BY DEF Inv, TypeOK, OpenUploads
<1>2. /\ uploads' \in Seq(Upload) /\ DOMAIN uploads' = DOMAIN uploads
      /\ uploads'[u] = upload
      /\ \A v \in DOMAIN uploads : v # u => uploads'[v] = uploads[v]
  BY <1>1
<1>3. BegunInTime' /\ AdmittedOnRecord'
  BY <1>1, <1>2 DEF Inv, BegunInTime, AdmittedOnRecord
<1>4. AnnouncedIsAdmitted'
  <2>1. DOMAIN st.record = 1..Len(st.record)
    BY CaseFacts
  <2>2. 0 \notin DOMAIN st.record
    BY <2>1
  <2>. QED BY <1>1, <1>2, <2>2 DEF Inv, AnnouncedIsAdmitted, SizesTold
<1>. QED BY <1>2, <1>3, <1>4

LEMMA ChunkKeeps ==
  ASSUME Inv, InTime, NEW u \in OpenUploads, NEW byte \in Bytes,
         WriteChunk(u, byte) \/ ChunkTorn(u, byte)
  PROVE  Inv'
<1>1. /\ uploads \in Seq(Upload) /\ u \in DOMAIN uploads /\ uploads[u] \in Upload
      /\ uploads[u].admitted = 0
  BY DEF Inv, TypeOK, OpenUploads
<1>0. /\ uploads[u].part \in Seq(Bytes) /\ uploads[u].received \in Nat
      /\ Append(uploads[u].part, byte) \in Seq(Bytes) /\ uploads[u].received + 1 \in Nat
  BY <1>1 DEF Upload
<1>2. PICK upload \in Upload :
        /\ uploads' = [uploads EXCEPT ![u] = upload]
        /\ upload.phase = uploads[u].phase /\ upload.admitted = 0
  <2>1. CASE WriteChunk(u, byte)
    <3>. DEFINE upload == [uploads[u] EXCEPT !.part = Append(@, byte), !.received = @ + 1]
    <3>1. upload \in Upload /\ upload.phase = uploads[u].phase /\ upload.admitted = 0
      BY <1>1, <1>0 DEF Upload
    <3>2. uploads' = [uploads EXCEPT ![u] = upload]
      BY <2>1 DEF WriteChunk
    <3>. QED BY <3>1, <3>2
  <2>2. CASE ChunkTorn(u, byte)
    <3>. DEFINE upload == [uploads[u] EXCEPT !.part = Append(@, byte)]
    <3>1. upload \in Upload /\ upload.phase = uploads[u].phase /\ upload.admitted = 0
      BY <1>1, <1>0 DEF Upload
    <3>2. uploads' = [uploads EXCEPT ![u] = upload]
      BY <2>2 DEF ChunkTorn
    <3>. QED BY <3>1, <3>2
  <2>. QED BY <2>1, <2>2
<1>3. /\ UNCHANGED <<turn, files, stored, broken, registry, st, cert, call, timer, met>>
      /\ faults' \in Nat /\ faults <= faults'
  BY CaseFacts DEF WriteChunk, ChunkTorn
<1>4. uploads' \in Seq(Upload) /\ BegunInTime' /\ AdmittedOnRecord' /\ AnnouncedIsAdmitted'
  BY <1>2, <1>3, OpenUploadChanged
<1>. QED BY <1>3, <1>4, SessionsChanged

\* What a commit announces changes nothing else of the session.
LEMMA AnnouncingFacts ==
  ASSUME Inv, NEW u \in OpenUploads, NEW announce \in BOOLEAN
  PROVE  /\ u \in DOMAIN uploads /\ u \in Nat /\ u # 0 /\ uploads \in Seq(Upload)
         /\ Announcing(u, announce) \in Upload
         /\ Announcing(u, announce).phase = uploads[u].phase
         /\ Announcing(u, announce).role = Current.role
         /\ Announcing(u, announce).admitted = 0
<1>1. /\ uploads \in Seq(Upload) /\ u \in DOMAIN uploads /\ uploads[u] \in Upload
      /\ uploads[u].admitted = 0 /\ uploads[u].role = Current.role
      /\ u \in Nat /\ u # 0
  BY DEF Inv, TypeOK, OpenUploads
<1>. QED BY <1>1 DEF Announcing, Upload

LEMMA RefusedKeeps ==
  ASSUME Inv, InTime, NEW u \in OpenUploads, NEW announce \in BOOLEAN,
         CommitRefused(u, announce)
  PROVE  Inv'
<1>. DEFINE upload == Announcing(u, announce)
<1>1. /\ upload \in Upload /\ upload.phase = uploads[u].phase /\ upload.admitted = 0
  BY AnnouncingFacts
<1>2. /\ uploads' = [uploads EXCEPT ![u] = upload]
      /\ UNCHANGED <<turn, files, stored, broken, registry, faults, st, cert, call, timer, met>>
  BY DEF CommitRefused
<1>. HIDE DEF upload
<1>3. uploads' \in Seq(Upload) /\ BegunInTime' /\ AdmittedOnRecord' /\ AnnouncedIsAdmitted'
  BY <1>1, <1>2, OpenUploadChanged
<1>. QED BY <1>2, <1>3, SessionsChanged, CaseFacts

-----------------------------------------------------------------------------
(* Admission.                                                              *)

\* Evidence is brought to the engine, of a session or at once.
LEMMA AskEvidenceKeeps ==
  ASSUME Inv, InTime, NEW a \in EvidenceAct, StepOK(st, a), a.turn = turn,
         call' = Asking(a),
         UNCHANGED <<turn, files, stored, broken, registry, faults, st, cert, timer, met>>,
         uploads' \in Seq(Upload),
         BegunInTime', AdmittedOnRecord', AnnouncedIsAdmitted', SubmissionIsSound(a)'
  PROVE  Inv'
<1>1. Free /\ timer.pc = "idle" /\ a.kind = "evidence"
  BY InTimeFacts DEF EvidenceAct
<1>2. /\ call' \in Asked(EvidenceAct) /\ call'.pc = "asked"
      /\ call'.act = a /\ call'.seen = st
  BY AskingFacts
<1>3. TypeOK'
  BY <1>2 DEF Inv, TypeOK
<1>4. /\ Numbered' /\ StoreIsWhole' /\ RecordIsRegistered' /\ SidesWithinLimit'
      /\ EvidenceIsReadable' /\ TurnIsCurrent' /\ NoneLeftOver'
  BY DEF Inv, Numbered, StoreIsWhole, RecordIsRegistered, Matches, SidesWithinLimit,
         CountForRole, EvidenceIsReadable, TurnIsCurrent, NoneLeftOver
<1>5. CallIsSound'
  <2>1. Backed(st.record) /\ Len(st.record) = Len(registry)
    BY CaseFacts DEF StepOK
  <2>2. Backed(st.record)' /\ Len(st.record)' = Len(registry)'
    BY <2>1 DEF Inv, Backed, Matches, AnnouncedIsAdmitted
  <2>3. StepOK(call.seen, call.act)'
    BY <1>2 DEF StepOK, Accepts, CountForRole
  <2>. QED BY <1>2, <2>2, <2>3 DEF CallIsSound
<1>6. TimerIsSound' /\ OneAtATime' /\ CertIsCurrent'
  BY <1>1, <1>2 DEF Inv, TimerIsSound, OneAtATime, CertIsCurrent, Expected, Free
<1>. QED BY <1>3, <1>4, <1>5, <1>6 DEF Inv

\* What is brought of some bytes, begun in time, under any size.
LEMMA SubmissionFacts ==
  ASSUME Inv, InTime, NEW bytes \in Seq(Bytes), NEW size \in Nat, NEW begun \in Phases,
         turn \in {1, 2} => begun = "arguments",
         NEW extension \in Extensions, NEW upload \in Nat
  PROVE  LET a == Submission(bytes, size, begun, extension, upload) IN
           /\ a \in EvidenceAct /\ a.turn = turn /\ a.upload = upload
           /\ a.item.role = Current.role /\ a.item.id = Id(Current.role, bytes)
           /\ a.item.id.bytes = bytes /\ a.item.size = size
           /\ a.item.phase = "arguments" => a.begun = "arguments"
<1>. DEFINE id == Id(Current.role, bytes)
            item == [id |-> id, role |-> Current.role, phase |-> Current.phase, size |-> size]
            a == Submission(bytes, size, begun, extension, upload)
<1>1. /\ turn \in 1..4 /\ Current.role \in Sides /\ Current.phase \in Phases
      /\ Current.phase = "arguments" <=> turn \in {1, 2}
  BY InTimeFacts
<1>2. id \in EvidenceId /\ id.bytes = bytes
  <2>1. Len(registry) + 1 \in Nat
    BY DEF Inv, TypeOK
  <2>. QED BY <1>1, <2>1 DEF Id, EvidenceId
<1>3. item \in Item
  BY <1>1, <1>2 DEF Item
<1>4. a = [kind |-> "evidence", turn |-> turn, item |-> item, begun |-> begun,
           extension |-> extension, upload |-> upload]
  BY DEF Submission
<1>5. item.role = Current.role /\ item.id = id /\ item.phase = Current.phase /\ item.size = size
  OBVIOUS
<1>. HIDE DEF id, item, a
<1>6. a \in EvidenceAct
  BY <1>1, <1>3, <1>4 DEF EvidenceAct
<1>7. /\ a.turn = turn /\ a.upload = upload /\ a.item = item /\ a.begun = begun
  BY <1>4
<1>. QED BY <1>1, <1>2, <1>5, <1>6, <1>7 DEF a, id

LEMMA SubmitKeeps ==
  ASSUME Inv, NEW content \in Contents, NEW extension \in Extensions,
         SubmitEvidence(content, extension)
  PROVE  Inv'
<1>1. /\ InTime /\ UNCHANGED <<turn, evidence, st, cert, timer, met>> /\ UNCHANGED evidence
  BY DEF SubmitEvidence
<1>2. /\ content \in Seq(Bytes) /\ Len(content) \in Nat /\ Current.phase \in Phases
      /\ turn \in {1, 2} => Current.phase = "arguments"
  BY <1>1, InTimeFacts, EvidenceAssumption
<1>3. PICK a \in EvidenceAct :
        /\ a = Submission(content, Len(content), Current.phase, extension, 0)
        /\ a.turn = turn /\ a.upload = 0
        /\ a.item.role = Current.role /\ a.item.id = Id(Current.role, content)
        /\ a.item.id.bytes = content
        /\ a.item.phase = "arguments" => a.begun = "arguments"
  BY <1>1, <1>2, SubmissionFacts
<1>4. StepOK(st, a) /\ call' = Asking(a)
  BY <1>3 DEF SubmitEvidence
<1>5. EvidenceType' /\ AdmittedOnRecord' /\ BegunInTime' /\ AnnouncedIsAdmitted'
  BY <1>1, EvidenceStays, RecordStays DEF Inv, BegunInTime, evidence, EvidenceInv
<1>6. SubmissionIsSound(a)'
  BY <1>1, <1>3 DEF SubmissionIsSound, Current, Id, evidence
<1>. QED BY <1>1, <1>3, <1>4, <1>5, <1>6, AskEvidenceKeeps DEF evidence, EvidenceType

LEMMA CommitKeeps ==
  ASSUME Inv, InTime, NEW u \in OpenUploads, NEW announce \in BOOLEAN,
         NEW extension \in Extensions, CommitUpload(u, announce, extension)
  PROVE  Inv'
<1>1. PICK upload \in Upload :
        /\ upload = Announcing(u, announce)
        /\ upload.phase = uploads[u].phase /\ upload.role = Current.role
        /\ upload.admitted = 0
  BY AnnouncingFacts
<1>2. /\ CommitOK(u, upload) /\ uploads' = [uploads EXCEPT ![u] = upload]
      /\ call' = Asking(Commission(u, upload, extension))
      /\ UNCHANGED <<turn, files, stored, broken, registry, faults, st, cert, timer, met>>
  BY <1>1 DEF CommitUpload
<1>3. /\ uploads' \in Seq(Upload) /\ DOMAIN uploads' = DOMAIN uploads
      /\ uploads'[u] = upload /\ BegunInTime' /\ AdmittedOnRecord' /\ AnnouncedIsAdmitted'
  BY <1>1, <1>2, OpenUploadChanged
<1>4. u \in DOMAIN uploads /\ u \in Nat /\ u # 0
  BY AnnouncingFacts
<1>5. /\ upload.phase \in Phases
      /\ turn \in {1, 2} => upload.phase = "arguments"
      /\ upload.part \in Seq(Bytes) /\ upload.received \in Nat
  BY <1>1, <1>4 DEF Upload, Inv, BegunInTime
<1>6. PICK a \in EvidenceAct :
        /\ a = Submission(upload.part, upload.received, upload.phase, extension, u)
        /\ a.turn = turn /\ a.upload = u
        /\ a.item.role = Current.role /\ a.item.id = Id(Current.role, upload.part)
        /\ a.item.id.bytes = upload.part /\ a.item.size = upload.received
        /\ a.item.phase = "arguments" => a.begun = "arguments"
  BY <1>4, <1>5, SubmissionFacts
<1>7. StepOK(st, a) /\ call' = Asking(a)
  BY <1>2, <1>6 DEF CommitOK, Commission
<1>8. SubmissionIsSound(a)'
  <2>1. upload.announced =>
          upload.part = upload.wanted /\ upload.received = Len(upload.part)
    BY <1>2 DEF CommitOK
  <2>. QED BY <1>1, <1>2, <1>3, <1>4, <1>6, <2>1 DEF SubmissionIsSound, Current, Id
<1>. QED BY <1>2, <1>3, <1>6, <1>7, <1>8, AskEvidenceKeeps

-----------------------------------------------------------------------------

\* What the files of accepted evidence come to.
LEMMA FinalizeFacts ==
  ASSUME Inv, ~Free, NEW a \in EvidenceAct, a = call.act, SubmissionIsSound(a),
         NEW file, file = File(a.item.id, a.extension),
         NEW ending \in Endings(file, a.item.id.bytes),
         Finalize(a, file, ending)
  PROVE  /\ files' \subseteq [id : EvidenceId, extension : Extensions]
         /\ stored' \subseteq Seq(Bytes) /\ broken' \subseteq Seq(Bytes)
         /\ faults' \in Nat
         /\ stored \subseteq stored' /\ StoreIsWhole'
         /\ ending = "admitted" =>
              /\ a.item.id.bytes \in stored' /\ faults' = faults
              /\ broken' = broken /\ files' = files \cup {file}
         /\ ending # "admitted" => faults' # 0
<1>. DEFINE bytes == a.item.id.bytes
<1>1. /\ a.item.id \in EvidenceId /\ bytes \in Seq(Bytes) /\ a.extension \in Extensions
      /\ a.item.id.number = Len(registry) + 1 /\ Len(registry) \in Nat
  BY DEF EvidenceAct, Item, EvidenceId, SubmissionIsSound, Id, Inv, TypeOK
<1>2. file \in [id : EvidenceId, extension : Extensions] /\ file.id = a.item.id
  BY <1>1 DEF File
<1>3. /\ files' \subseteq [id : EvidenceId, extension : Extensions]
      /\ stored' \subseteq Seq(Bytes) /\ broken' \subseteq Seq(Bytes)
      /\ faults' \in Nat /\ stored \subseteq stored'
  BY <1>1, <1>2 DEF Inv, TypeOK, Finalize
<1>4. StoreIsWhole'
  BY DEF Inv, StoreIsWhole, Finalize, Endings, AlreadyInStore
<1>5. ending = "admitted" =>
        /\ bytes \in stored' /\ faults' = faults
        /\ broken' = broken /\ files' = files \cup {file}
  BY DEF Finalize, Brought, NeedsFault
<1>6. ASSUME ending # "admitted" PROVE faults' # 0
  <2>1. CASE faults = 0
    <3>1. file \notin files /\ bytes \notin broken
      BY <1>1, <1>2, <2>1 DEF Inv, NoneLeftOver
    <3>2. ending \in {"unwritten", "unregistered", "torn"}
      BY <1>6, <3>1 DEF Endings
    <3>. QED BY <2>1, <3>1, <3>2 DEF Finalize, NeedsFault
  <2>2. CASE faults # 0
    BY <1>3, <2>2, CaseFacts DEF Finalize
  <2>. QED BY <2>1, <2>2
<1>. QED BY <1>3, <1>4, <1>5, <1>6

\* The session of the evidence, if it came by one, and all others.
LEMMA LeftFacts ==
  ASSUME Inv, NEW a \in EvidenceAct, SubmissionIsSound(a), NEW ending,
         uploads' = IF a.upload = 0 THEN uploads
                    ELSE [uploads EXCEPT ![a.upload] = Left(@, ending)]
  PROVE  /\ uploads' \in Seq(Upload) /\ DOMAIN uploads' = DOMAIN uploads
         /\ \A v \in DOMAIN uploads :
              /\ uploads'[v].phase = uploads[v].phase /\ uploads'[v].wanted = uploads[v].wanted
              /\ uploads'[v].announced = uploads[v].announced
              /\ uploads'[v].admitted \in Nat /\ uploads[v].admitted \in 0..Len(registry)
              /\ \/ uploads'[v].admitted = uploads[v].admitted
                 \/ /\ v = a.upload /\ v # 0 /\ ending = "admitted"
                    /\ uploads'[v].admitted = Len(registry) + 1
<1>1. /\ uploads \in Seq(Upload) /\ Len(registry) \in Nat
      /\ \A v \in DOMAIN uploads : uploads[v] \in Upload
  BY DEF Inv, TypeOK
<1>2. \A v \in DOMAIN uploads :
        uploads[v].admitted \in Nat /\ uploads[v].admitted \in 0..Len(registry)
  <2>. SUFFICES ASSUME NEW v \in DOMAIN uploads
                PROVE  uploads[v].admitted \in Nat /\ uploads[v].admitted \in 0..Len(registry)
    OBVIOUS
  <2>1. uploads[v].admitted \in Nat
    BY <1>1 DEF Upload
  <2>. QED BY <1>1, <2>1 DEF Inv, AdmittedOnRecord
<1>3. CASE a.upload = 0
  BY <1>1, <1>2, <1>3
<1>4. CASE a.upload # 0
  <2>. DEFINE u == a.upload
              left == Left(uploads[u], ending)
              part == IF Brought(ending) THEN <<>> ELSE uploads[u].part
              admitted == IF ending = "admitted" THEN Len(registry) + 1 ELSE 0
  <2>1. u \in DOMAIN uploads /\ uploads[u] \in Upload /\ uploads[u].admitted = 0
    BY <1>1, <1>4 DEF SubmissionIsSound
  <2>2. left = [uploads[u] EXCEPT !.part = part, !.admitted = admitted]
    BY DEF Left
  <2>3. part \in Seq(Bytes) /\ admitted \in Nat
    BY <1>1, <2>1 DEF Upload
  <2>4. admitted = 0 \/ (ending = "admitted" /\ admitted = Len(registry) + 1)
    OBVIOUS
  <2>5. uploads' = [uploads EXCEPT ![u] = left]
    BY <1>4
  <2>. HIDE DEF part, admitted, left
  <2>6. /\ left \in Upload /\ left.phase = uploads[u].phase
        /\ left.wanted = uploads[u].wanted /\ left.announced = uploads[u].announced
        /\ left.admitted = admitted
    BY <2>1, <2>2, <2>3 DEF Upload
  <2>7. /\ uploads' \in Seq(Upload) /\ DOMAIN uploads' = DOMAIN uploads
        /\ uploads'[u] = left
        /\ \A v \in DOMAIN uploads : v # u => uploads'[v] = uploads[v]
    BY <1>1, <2>1, <2>5, <2>6
  <2>. QED BY <1>2, <1>4, <2>1, <2>3, <2>4, <2>6, <2>7
<1>. QED BY <1>3, <1>4

LEMMA AdmitKeeps ==
  ASSUME Inv, call.pc = "certified", call.act.kind = "evidence",
         NEW ending, Admit(ending)
  PROVE  Inv'
<1>1. ~Free
  BY DEF Free
<1>2. PICK a \in EvidenceAct : a = call.act /\ a.kind = "evidence"
  BY <1>1, CallFacts
<1>. DEFINE file == File(a.item.id, a.extension)
            bytes == a.item.id.bytes
            seen == call.seen
            n == Len(registry) + 1
            entry == [a.item EXCEPT !.phase = a.begun, !.size = Len(bytes)]
<1>3. /\ ending \in Endings(file, bytes) /\ Finalize(a, file, ending)
      /\ uploads' = IF a.upload = 0 THEN uploads
                    ELSE [uploads EXCEPT ![a.upload] = Left(@, ending)]
      /\ call' = Idle /\ UNCHANGED <<turn, cert, timer, met>>
  BY <1>2 DEF Admit
<1>4. SubmissionIsSound(a) /\ Backed(seen.record) /\ Len(seen.record) = Len(registry)
  BY <1>1, <1>2 DEF Inv, CallIsSound
<1>5. /\ files' \subseteq [id : EvidenceId, extension : Extensions]
      /\ stored' \subseteq Seq(Bytes) /\ broken' \subseteq Seq(Bytes)
      /\ faults' \in Nat
      /\ stored \subseteq stored' /\ StoreIsWhole'
      /\ ending = "admitted" =>
           /\ bytes \in stored' /\ faults' = faults
           /\ broken' = broken /\ files' = files \cup {file}
      /\ ending # "admitted" => faults' # 0
  BY <1>1, <1>2, <1>3, <1>4, FinalizeFacts
<1>6. /\ uploads' \in Seq(Upload) /\ DOMAIN uploads' = DOMAIN uploads
      /\ \A v \in DOMAIN uploads :
           /\ uploads'[v].phase = uploads[v].phase /\ uploads'[v].wanted = uploads[v].wanted
           /\ uploads'[v].announced = uploads[v].announced
           /\ uploads'[v].admitted \in Nat /\ uploads[v].admitted \in 0..Len(registry)
           /\ \/ uploads'[v].admitted = uploads[v].admitted
              \/ /\ v = a.upload /\ v # 0 /\ ending = "admitted"
                 /\ uploads'[v].admitted = n
  BY <1>3, <1>4, LeftFacts
<1>7. /\ registry \in Seq(Item) /\ Len(registry) \in Nat
      /\ DOMAIN registry = 1..Len(registry)
      /\ turn \in 1..4 /\ seen \in CaseState /\ seen.record \in Seq(Item)
      /\ seen.turn = turn /\ ~seen.failed /\ StepOK(seen, a)
      /\ DOMAIN seen.record = 1..Len(registry)
  BY <1>1, <1>2, <1>4, CallFacts DEF Inv, TypeOK, CaseState
<1>8. /\ a.item \in Item /\ a.begun \in Phases /\ bytes \in Seq(Bytes)
      /\ a.item.id.number = n /\ a.item.id = [a.item.id EXCEPT !.number = n]
      /\ a.item.phase = "arguments" => a.begun = "arguments"
      /\ a.upload # 0 /\ uploads[a.upload].announced =>
           bytes = uploads[a.upload].wanted /\ a.item.size = Len(bytes)
  BY <1>4 DEF EvidenceAct, Item, EvidenceId, SubmissionIsSound, Id
<1>9. CASE ending = "admitted"
  <2>1. /\ st' = AfterStep(seen, a) /\ registry' = Append(registry, entry)
        /\ stored' = stored \cup {bytes}
    BY <1>2, <1>3, <1>9 DEF Finalize
  <2>2. /\ st' \in CaseState /\ st'.record = Append(seen.record, a.item)
        /\ st'.turn = turn /\ ~st'.failed
    BY <1>2, <1>7, <2>1, AfterFacts DEF Acts
  <2>3. /\ entry \in Item /\ entry.id = a.item.id /\ entry.role = a.item.role
        /\ entry.phase = a.begun /\ entry.size = Len(bytes)
    <3>1. Len(bytes) \in Nat
      BY <1>8
    <3>. HIDE DEF bytes
    <3>. QED BY <1>8, <3>1 DEF Item
  <2>. HIDE DEF entry
  <2>4. /\ registry' \in Seq(Item) /\ Len(registry') = n
        /\ DOMAIN registry' = 1..n /\ DOMAIN st'.record = 1..n /\ Len(st'.record) = n
        /\ registry'[n] = entry /\ st'.record[n] = a.item
        /\ \A i \in 1..Len(registry) :
             /\ registry'[i] = registry[i] /\ st'.record[i] = seen.record[i]
        /\ \A i \in 1..n : i = n \/ i \in 1..Len(registry)
    BY <1>7, <1>8, <2>1, <2>2, <2>3, <1>4
  <2>5. TypeOK'
    BY <1>3, <1>5, <1>6, <2>2, <2>4 DEF Inv, TypeOK
  <2>6. Numbered'
    <3>1. \A i \in 1..Len(registry) : registry[i].id.number = i
      BY <1>7 DEF Inv, Numbered
    <3>2. registry'[n].id.number = n
      BY <1>8, <2>3, <2>4
    <3>. QED BY <2>4, <3>1, <3>2 DEF Numbered
  <2>7. AdmittedOnRecord'
    BY <1>6, <1>7, <2>4 DEF AdmittedOnRecord
  <2>8. NoneLeftOver'
    BY <1>5, <1>7, <1>8, <1>9, <2>4 DEF Inv, TypeOK, NoneLeftOver, EvidenceId, File
  <2>9. BegunInTime' /\ TurnIsCurrent'
    BY <1>3, <1>6, <1>7, <2>2 DEF Inv, BegunInTime, TurnIsCurrent
  <2>10. CallIsSound' /\ OneAtATime'
    BY <1>1, <1>3 DEF Inv, CallIsSound, OneAtATime, Free, Idle
  <2>11. TimerIsSound'
    <3>. SUFFICES ASSUME timer.pc \in {"asked", "certified"}
                  PROVE  Backed(timer.seen.record)'
      <4>1. timer.pc \in {"asked", "certified"} => StepOK(timer.seen, timer.act)'
        BY <1>3, TimerFacts DEF StepOK
      <4>. QED BY <1>3, <4>1, TimerFacts DEF TimerIsSound
    <3>1. PICK earlier \in Seq(Item) : earlier = timer.seen.record /\ Backed(earlier)
      BY TimerFacts DEF Inv, TimerIsSound, CaseState
    <3>2. /\ Len(earlier) \in Nat /\ Len(earlier) <= Len(registry)
          /\ DOMAIN earlier = 1..Len(earlier)
      BY <3>1 DEF Backed, Matches
    <3>3. Matches(earlier)'
      BY <1>7, <2>4, <3>1, <3>2 DEF Backed, Matches
    <3>4. SizesTold(earlier)'
      <4>. SUFFICES ASSUME NEW v \in DOMAIN uploads, uploads'[v].announced,
                           uploads'[v].admitted \in DOMAIN earlier
                    PROVE  earlier[uploads'[v].admitted].size
                             = registry'[uploads'[v].admitted].size
        BY <1>6 DEF SizesTold
      <4>1. uploads'[v].admitted = uploads[v].admitted /\ uploads[v].announced
        BY <1>6, <1>7, <3>2
      <4>2. uploads[v].admitted \in 1..Len(registry)
        BY <4>1, <3>2, <1>7
      <4>. QED BY <2>4, <3>1, <4>1, <4>2 DEF Backed, SizesTold
    <3>. QED BY <1>3, <3>1, <3>3, <3>4 DEF Backed
  <2>12. RecordIsRegistered'
    <3>1. \A i \in 1..n :
            /\ st'.record[i].id = registry'[i].id /\ st'.record[i].role = registry'[i].role
            /\ st'.record[i].phase = "arguments" => registry'[i].phase = "arguments"
      <4>1. /\ st'.record[n].id = registry'[n].id /\ st'.record[n].role = registry'[n].role
            /\ st'.record[n].phase = "arguments" => registry'[n].phase = "arguments"
        BY <1>8, <2>3, <2>4
      <4>2. \A i \in 1..Len(registry) :
              /\ seen.record[i].id = registry[i].id /\ seen.record[i].role = registry[i].role
              /\ seen.record[i].phase = "arguments" => registry[i].phase = "arguments"
        BY <1>4, <1>7 DEF Backed, Matches
      <4>. HIDE DEF n, seen
      <4>. QED BY <2>4, <4>1, <4>2
    <3>2. \A i, j \in 1..n : st'.record[i].id = st'.record[j].id => i = j
      BY <2>4, <2>6, <3>1 DEF Numbered
    <3>. QED BY <1>7, <2>4, <3>1, <3>2 DEF RecordIsRegistered, Matches
  <2>13. SidesWithinLimit'
    <3>1. \A role : CountForRole(seen.record, role) = CountForRole(registry, role)
      <4>. SUFFICES ASSUME NEW role
                    PROVE  {i \in DOMAIN seen.record : seen.record[i].role = role}
                             = {i \in DOMAIN registry : registry[i].role = role}
        BY DEF CountForRole
      <4>. QED BY <1>4, <1>7 DEF Backed, Matches
    <3>2. \A role \in Sides :
            /\ CountForRole(registry, role) \in Nat
            /\ CountForRole(registry', role) =
                 IF entry.role = role THEN CountForRole(registry, role) + 1
                 ELSE CountForRole(registry, role)
      BY <1>7, <2>1, <2>3, CountAdded
    <3>3. CountForRole(registry, a.item.role) + 1 <= PerSide
      BY <1>2, <1>7, <3>1 DEF StepOK, Accepts
    <3>4. \A role \in Sides : CountForRole(registry', role) <= PerSide
      BY <2>3, <3>2, <3>3 DEF Inv, SidesWithinLimit
    <3>. QED BY <3>4 DEF SidesWithinLimit, CountForRole
  <2>14. EvidenceIsReadable'
    <3>1. bytes \in stored' \ broken' /\ registry'[n].size = Len(bytes)
          /\ registry'[n].id.bytes = bytes
      BY <1>5, <1>9, <2>3, <2>4 DEF StoreIsWhole
    <3>. QED BY <1>5, <1>7, <1>9, <2>4, <3>1 DEF Inv, EvidenceIsReadable
  <2>15. AnnouncedIsAdmitted'
    <3>1. ASSUME NEW v \in DOMAIN uploads, uploads'[v].admitted # 0, uploads'[v].announced
          PROVE  /\ registry'[uploads'[v].admitted].id.bytes = uploads'[v].wanted
                 /\ st'.record[uploads'[v].admitted].size
                      = registry'[uploads'[v].admitted].size
      <4>1. CASE uploads'[v].admitted = uploads[v].admitted
        <5>1. PICK i \in 1..Len(registry) :
                i = uploads'[v].admitted /\ i = uploads[v].admitted
          BY <1>6, <1>7, <3>1, <4>1
        <5>2. uploads[v].announced /\ i # 0 /\ i \in DOMAIN seen.record
          BY <1>6, <1>7, <3>1, <5>1
        <5>3. registry[i].id.bytes = uploads[v].wanted
          BY <5>1, <5>2 DEF Inv, AnnouncedIsAdmitted
        <5>4. seen.record[i].size = registry[i].size
          BY <1>4, <5>1, <5>2 DEF Backed, SizesTold
        <5>. QED BY <1>6, <2>4, <5>1, <5>3, <5>4
      <4>2. CASE v = a.upload /\ v # 0 /\ uploads'[v].admitted = n
        BY <1>6, <1>8, <2>3, <2>4, <3>1, <4>2
      <4>. QED BY <1>6, <4>1, <4>2
    <3>2. 0 \notin DOMAIN st'.record
      BY <2>4
    <3>. QED BY <1>6, <3>1, <3>2 DEF AnnouncedIsAdmitted, SizesTold
  <2>16. CertIsCurrent'
    <3>1. ~met => timer.pc = "idle" /\ seen = st
      BY <1>1 DEF Inv, OneAtATime
    <3>2. faults = 0 /\ ~met => cert = [replays |-> TRUE, state |-> AfterStep(st, a)]
      BY <1>2 DEF Inv, CertIsCurrent, Expected
    <3>. QED BY <1>3, <1>5, <1>9, <2>1, <3>1, <3>2 DEF CertIsCurrent, Expected, Idle
  <2>. QED BY <1>5, <2>5, <2>6, <2>7, <2>8, <2>9, <2>10, <2>11, <2>12, <2>13, <2>14, <2>15,
              <2>16 DEF Inv
<1>10. CASE ending # "admitted"
  <2>1. /\ st' = st /\ registry' = registry /\ stored' = stored /\ faults' # 0
    BY <1>2, <1>3, <1>5, <1>10 DEF Finalize
  <2>2. \A v \in DOMAIN uploads : uploads'[v].admitted = uploads[v].admitted
    BY <1>6, <1>10
  <2>3. TypeOK'
    BY <1>3, <1>5, <1>6, <2>1 DEF Inv, TypeOK
  <2>4. Numbered' /\ AdmittedOnRecord' /\ NoneLeftOver' /\ SidesWithinLimit'
    BY <1>6, <2>1, <2>2 DEF Inv, Numbered, AdmittedOnRecord, NoneLeftOver, SidesWithinLimit,
       CountForRole
  <2>5. BegunInTime' /\ TurnIsCurrent'
    BY <1>3, <1>6, <2>1 DEF Inv, BegunInTime, TurnIsCurrent
  <2>6. CallIsSound' /\ OneAtATime'
    BY <1>1, <1>3, <2>1 DEF Inv, CallIsSound, OneAtATime, Free, Idle
  <2>7. TimerIsSound'
    BY <1>3, <1>6, <2>1, <2>2 DEF Inv, TimerIsSound, Backed, Matches, SizesTold, StepOK,
       Accepts, CountForRole
  <2>8. RecordIsRegistered' /\ AnnouncedIsAdmitted'
    BY <1>3, <1>6, <2>1, <2>2 DEF Inv, RecordIsRegistered, Matches, AnnouncedIsAdmitted,
       SizesTold
  <2>9. EvidenceIsReadable'
    <3>1. ASSUME NEW i \in DOMAIN registry PROVE registry[i].id.bytes \notin broken'
      <4>1. registry[i].id.bytes \in stored
        BY DEF Inv, EvidenceIsReadable
      <4>. QED BY <1>5, <2>1, <4>1 DEF StoreIsWhole
    <3>. QED BY <2>1, <3>1 DEF Inv, EvidenceIsReadable
  <2>10. CertIsCurrent'
    BY <2>1 DEF CertIsCurrent
  <2>. QED BY <1>5, <2>3, <2>4, <2>5, <2>6, <2>7, <2>8, <2>9, <2>10 DEF Inv
<1>. QED BY <1>9, <1>10

-----------------------------------------------------------------------------
(* The invariant.                                                          *)

LEMMA InitInv == Init => Inv
<1>. SUFFICES ASSUME Init PROVE Inv
  OBVIOUS
<1>1. NewCase \in CaseState
  BY DEF NewCase, CaseState
<1>2. TypeOK
  <2>1. cert \in [replays : BOOLEAN, state : CaseState]
    BY <1>1 DEF Init
  <2>2. /\ st \in CaseState /\ turn \in 0..4 /\ faults \in Nat
        /\ uploads \in Seq(Upload) /\ registry \in Seq(Item)
    BY <1>1 DEF Init
  <2>3. met \in BOOLEAN
    BY DEF Init
  <2>4. /\ files = {} /\ stored = {} /\ broken = {} /\ call = Idle /\ timer = Idle
    BY DEF Init
  <2>. QED BY <2>1, <2>2, <2>3, <2>4 DEF TypeOK
<1>3. \A role : CountForRole(registry, role) = 0
  <2>1. \A role : {i \in DOMAIN registry : registry[i].role = role} = {}
    BY DEF Init
  <2>. QED BY <2>1, FS_EmptySet DEF CountForRole
<1>4. SidesWithinLimit
  BY <1>3, EvidenceAssumption DEF SidesWithinLimit
<1>5. /\ Numbered /\ AdmittedOnRecord /\ StoreIsWhole /\ NoneLeftOver
      /\ BegunInTime /\ TurnIsCurrent /\ EvidenceIsReadable
  BY DEF Init, Numbered, AdmittedOnRecord, StoreIsWhole, NoneLeftOver, BegunInTime,
         TurnIsCurrent, EvidenceIsReadable
<1>6. RecordIsRegistered /\ AnnouncedIsAdmitted
  BY DEF Init, NewCase, RecordIsRegistered, Matches, AnnouncedIsAdmitted, SizesTold
<1>7. CallIsSound /\ TimerIsSound /\ OneAtATime /\ CertIsCurrent
  BY DEF Init, Idle, Free, CallIsSound, TimerIsSound, OneAtATime, CertIsCurrent, Expected
<1>. QED BY <1>2, <1>4, <1>5, <1>6, <1>7 DEF Inv

LEMMA NothingKeeps == ASSUME Inv, UNCHANGED vars PROVE Inv'
<1>1. /\ UNCHANGED <<turn, evidence, st, cert, call, timer, met>> /\ UNCHANGED evidence
  BY DEF vars
<1>2. EvidenceInv' /\ EvidenceType' /\ TimerIsSound' /\ RecordIsRegistered' /\ AnnouncedIsAdmitted'
  BY <1>1, EvidenceStays, TimerSoundStays, RecordStays
<1>3. TypeOK'
  BY <1>1, <1>2 DEF Inv, TypeOK, EvidenceType
<1>4. BegunInTime' /\ TurnIsCurrent' /\ OneAtATime' /\ CertIsCurrent'
  BY <1>1 DEF Inv, evidence, BegunInTime, TurnIsCurrent, OneAtATime, CertIsCurrent, Expected,
     Free
<1>5. CallIsSound'
  BY <1>1 DEF Inv, CallIsSound, evidence, Backed, Matches, SizesTold, StepOK, Accepts,
     CountForRole, SubmissionIsSound, Current, Id, Free
<1>. QED BY <1>2, <1>3, <1>4, <1>5 DEF Inv, EvidenceInv

LEMMA StepInv == ASSUME Inv, [Next]_vars PROVE Inv'
<1>1. CASE EvidenceClosed \/ UNCHANGED vars
  BY <1>1, NothingKeeps DEF EvidenceClosed
<1>2. CASE StartTurn \/ SubmitDecision \/ FailTurn \/ Answered \/ TurnEnds
  BY <1>2, StartTurnKeeps, SubmitDecisionKeeps, FailTurnKeeps, AnsweredKeeps, TurnEndsKeeps
<1>3. CASE Timer
  BY <1>3, ExpireKeeps, ExpiryAnsweredKeeps, ExpiryStoredKeeps, ExpiredKeeps DEF Timer
<1>4. CASE \E content \in Contents, announced \in BOOLEAN : BeginUpload(content, announced)
  BY <1>4, BeginKeeps
<1>5. ASSUME InTime, NEW u \in OpenUploads,
             \/ \E byte \in Bytes : WriteChunk(u, byte) \/ ChunkTorn(u, byte)
             \/ \E announce \in BOOLEAN :
                  \/ \E extension \in Extensions : CommitUpload(u, announce, extension)
                  \/ CommitRefused(u, announce)
      PROVE  Inv'
  BY <1>5, ChunkKeeps, CommitKeeps, RefusedKeeps
<1>6. CASE \E content \in Contents, extension \in Extensions :
             SubmitEvidence(content, extension)
  BY <1>6, SubmitKeeps
<1>7. ASSUME call.pc = "certified", call.act.kind = "evidence",
             NEW ending \in AllEndings, Admit(ending)
      PROVE  Inv'
  BY <1>7, AdmitKeeps
<1>. QED BY <1>1, <1>2, <1>3, <1>4, <1>5, <1>6, <1>7 DEF Next

(***************************************************************************)
(* The inductive invariant: besides what is on the record, in the registry *)
(* and in the store, that evidence is numbered in the order of its         *)
(* admission, that whoever has read the case has read one that the         *)
(* registry backs, that a handler's submission carries the next number,    *)
(* and that nothing of a file is left over before a write fails.           *)
(***************************************************************************)
THEOREM Invariance == Spec => []Inv
<1>. QED BY InitInv, StepInv, PTL DEF Spec

(***************************************************************************)
(* Custody of submitted evidence (evidence.go, lawyerapi.go), for all      *)
(* contents and limits, any number of uploads and failed writes, and a     *)
(* timer that stores the case without the lock: the record is registered,  *)
(* what is registered is whole in the store, within each side's limit and  *)
(* what its announced hash said; it is on the record, and the certificate  *)
(* replays to the case, unless a deadline passed under a call.             *)
(***************************************************************************)
THEOREM CustodyIsKept == Spec => []CustodyKept
<1>1. Inv => CertificateReplays
  <2>. SUFFICES ASSUME Inv, faults = 0, ~met, Free, timer.pc # "certified"
                PROVE  cert = [replays |-> TRUE, state |-> st]
    BY DEF CertificateReplays
  <2>. QED BY DEF Inv, CertIsCurrent, Expected, Free
<1>2. Inv => CustodyKept
  BY <1>1 DEF Inv, CustodyKept
<1>. QED BY <1>2, Invariance, PTL
==============================================================================
