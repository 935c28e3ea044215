---------------------------- MODULE ArbProceeding ----------------------------
(***************************************************************************)
(* One run of the arbitration runtime (src/arb/runtime/proceeding): the    *)
(* main loop asks the engine for the next opportunity, opens a turn on the *)
(* lawyer API or the council API and waits for the answer, for the         *)
(* deadline or for an interrupt, while HTTP handlers answer on behalf of   *)
(* the agents.  A handler works under the lock of its API; the main loop   *)
(* works without one.  Both read the case state, have the engine compute   *)
(* the next one in a separate process, append the accepted action to the   *)
(* replay certificate and store the new state, so a call has steps others  *)
(* can come between.                                                       *)
(*                                                                         *)
(* The council answers over its API (council backend "api").  Filings have *)
(* one length and no exhibits: ArbCase has the rules about those.          *)
(***************************************************************************)
EXTENDS ArbEngine

CONSTANTS
  ThePolicy, Roster,  \* the case
  AttemptLimit,       \* Runtime.InvalidAttemptLimit
  Machines            \* the machines and agents a run may have

ASSUME ProceedingAssumption ==
  /\ ThePolicy \in Policy
  /\ Roster \in Seq(MemberIds)
  /\ InitializeCaseOK(DraftState(ThePolicy), Roster)
  /\ AttemptLimit \in Nat \ {0}
  /\ Machines \subseteq
       [late : BOOLEAN, faults : SUBSET {"engine", "file", "event", "cancel"}]

VARIABLES
  machine,  \* what may go wrong in this run
  st,       \* rc.state
  cert,     \* what replaying rc.certificateActions yields
  turn,     \* the active turn of each API
  call,     \* each thread's engine call; an API's lock is held while it has one
  main,     \* "draft", "next", the API whose turn is awaited, or "ended"
  outcome   \* "running", or what the process exits with

vars == <<machine, st, cert, turn, call, main, outcome>>

\* May a deadline pass under an answer, or an answer follow it?
LateAnswers == machine.late

Faults == machine.faults

APIs == {"lawyer", "council"}

Threads == APIs \cup {"main"}

APIOf(opportunity) == IF opportunity.role = "council" THEN "council" ELSE "lawyer"

Other(api) == IF api = "lawyer" THEN "council" ELSE "lawyer"

-----------------------------------------------------------------------------
(* Actions sent to the engine.  opp is the opportunity the engine is told, *)
(* named the one the request named, which is the one of the turn.  They    *)
(* differ only when the details of a failure report overwrite the first.   *)

Kinds == {"file", "pass", "evidence", "vote", "fail", "none"}

Action(kind, opp, named, value) ==
  [kind |-> kind, opp |-> opp, named |-> named, value |-> value]

NoAction == Action("none", NoOpportunity, NoOpportunity, "")

StepOK(s, a) ==
  LET o == a.opp IN
  CASE a.kind = "file" /\ o.phase = "openings" -> OpeningStatementOK(s, o.role, 1)
    [] a.kind = "file" /\ o.phase = "closings" -> ClosingStatementOK(s, o.role, 1, 0, 0)
    [] a.kind = "file" /\ o.phase \in EvidencePhases ->
         MeritsSubmissionOK(s, o.phase, o.role, 1, 0, 0)
    [] a.kind = "pass"     -> PassPhaseOK(s, o.role)
    [] a.kind = "evidence" -> SubmitEvidenceOK(s, o.role, a.value, 1)
    [] a.kind = "vote"     -> CouncilVoteOK(s, "council", o.member, a.value)
    [] a.kind = "fail"     -> FailOpportunityOK(s, "system", o, a.named.member)

AfterStep(s, a) ==
  LET o == a.opp IN
  CASE a.kind = "file" /\ o.phase = "openings" -> AfterOpeningStatement(s, o.role)
    [] a.kind = "file" /\ o.phase = "closings" -> AfterClosingStatement(s, o.role)
    [] a.kind = "file" /\ o.phase \in EvidencePhases ->
         AfterMeritsSubmission(s, o.phase, o.role, 0, 0)
    [] a.kind = "pass"     -> AfterPassPhase(s)
    [] a.kind = "evidence" -> AfterSubmitEvidence(s, o.role, a.value)
    [] a.kind = "vote"     -> AfterCouncilVote(s, o.member, a.value)
    [] a.kind = "fail"     -> AfterFailOpportunity(s, o, a.named.member, a.value)

-----------------------------------------------------------------------------
(* The replay certificate, kept as the state its replay ends in.  A replay *)
(* that meets an action the engine refuses fails for good.                 *)

Draft == DraftState(ThePolicy)

Broken == [replays |-> FALSE, state |-> Draft]

Recorded(c, a) ==
  IF c.replays /\ StepOK(c.state, a)
    THEN [replays |-> TRUE, state |-> AfterStep(c.state, a)] ELSE Broken

-----------------------------------------------------------------------------
(* Turns and calls.                                                        *)

NoTurn == [opp |-> NoOpportunity, completed |-> FALSE, attempts |-> 0,
           done |-> "empty", expired |-> FALSE]

NewTurn(opportunity) ==
  [NoTurn EXCEPT !.opp = opportunity, !.attempts = AttemptLimit]

Active(api) == turn[api].opp # NoOpportunity /\ ~ turn[api].completed

\* finishTurnLocked: only the first answer to a turn counts.
Finished(t, result) ==
  IF t.completed THEN t ELSE [t EXCEPT !.completed = TRUE, !.done = result]

Idle == [pc |-> "idle", act |-> NoAction, seen |-> Draft]

Free(thread) == call[thread].pc = "idle"

\* The call reads rc.state and hands it to the engine.
Calling(a) == [pc |-> "engine", act |-> a, seen |-> st]

At(thread, pc) == [call EXCEPT ![thread].pc = pc]

Failing(opportunity, reason) == Action("fail", opportunity, opportunity, reason)

Init ==
  /\ machine \in Machines
  /\ st = Draft
  /\ cert = [replays |-> TRUE, state |-> Draft]
  /\ turn = [api \in APIs |-> NoTurn]
  /\ call = [thread \in Threads |-> Idle]
  /\ main = "draft"
  /\ outcome = "running"

-----------------------------------------------------------------------------
(* The main loop.                                                          *)

InitializeCase ==
  /\ main = "draft"
  /\ outcome = "running"
  /\ st' = AfterInitializeCase(st, Roster)
  /\ cert' = [cert EXCEPT !.state = AfterInitializeCase(@, Roster)]
  /\ main' = "next"
  /\ UNCHANGED <<machine, turn, call, outcome>>

StartTurn ==
  LET next == NextOpportunity(st) IN
    /\ main = "next"
    /\ outcome = "running"
    /\ next # NoOpportunity
    /\ ~ Active(APIOf(next)) /\ Free(APIOf(next))
    /\ turn' = [turn EXCEPT ![APIOf(next)] = NewTurn(next)]
    /\ main' = APIOf(next)
    /\ UNCHANGED <<machine, st, cert, call, outcome>>

\* The loop stops on a terminal state and writes the packet: result, state
\* and certificate.  (setTerminal finds both locks free: TurnIsolation.)
FinishCase ==
  /\ main = "next"
  /\ NextOpportunity(st) = NoOpportunity
  /\ turn' = [api \in APIs |-> NoTurn]
  /\ main' = "ended"
  /\ outcome' = "ok"
  /\ UNCHANGED <<machine, st, cert, call>>

\* Any error returned to the loop ends the process with a nonzero exit.
Exit(api) ==
  /\ turn' = [turn EXCEPT ![api] = NoTurn]
  /\ main' = "ended"
  /\ outcome' = "error"

\* The interrupt ends the run during a turn; the engine or the disk may fail
\* when the next turn is prepared or the packet is written.
Interrupted ==
  \/ /\ main \in APIs /\ Free("main") /\ Free(main)
     /\ "cancel" \in Faults
     /\ Exit(main)
     /\ UNCHANGED <<machine, st, cert, call>>
  \/ /\ main = "next"
     /\ Faults \cap {"engine", "file"} # {}
     /\ main' = "ended"
     /\ outcome' = "error"
     /\ UNCHANGED <<machine, st, cert, turn, call>>

Waiting(api) == main = api /\ Free("main")

Expire(api) ==
  /\ Waiting(api)
  /\ ~ turn[api].expired
  /\ ~ LateAnswers => Free(api) /\ turn[api].done = "empty"
  /\ turn' = [turn EXCEPT ![api].expired = TRUE]
  /\ UNCHANGED <<machine, st, cert, call, main, outcome>>

\* The timer of a lawyer turn: the failure is recorded without the lock and
\* before the turn is completed.
LawyerTimeout ==
  /\ Waiting("lawyer")
  /\ turn["lawyer"].expired
  /\ call' = [call EXCEPT !["main"] =
                Calling(Failing(turn["lawyer"].opp, "deadline_expired"))]
  /\ UNCHANGED <<machine, st, cert, turn, main, outcome>>

\* Deviation: the council timer works like the lawyer timer.
UnlockedCouncilTimeout ==
  /\ Waiting("council")
  /\ turn["council"].expired
  /\ call' = [call EXCEPT !["main"] =
                Calling(Failing(turn["council"].opp, "deadline_expired"))]
  /\ UNCHANGED <<machine, st, cert, turn, main, outcome>>

\* The timer of a council turn: the turn is completed first, under the lock.
CouncilTimeout ==
  /\ Waiting("council")
  /\ turn["council"].expired
  /\ Free("council")
  /\ turn' = [turn EXCEPT !["council"] = Finished(@, "error")]
  /\ call' = [call EXCEPT !["main"] =
                Calling(Failing(turn["council"].opp, "deadline_expired"))]
  /\ UNCHANGED <<machine, st, cert, main, outcome>>

\* The answer of a turn is picked up.  An error from a council turn removes
\* the member, one from a lawyer turn ends the run.
TakeAnswer(api) ==
  /\ Waiting(api)
  /\ Free(api)
  /\ \/ /\ turn[api].done = "ok"
        /\ turn' = [turn EXCEPT ![api] = NoTurn]
        /\ main' = "next"
        /\ UNCHANGED <<call, outcome>>
     \/ /\ turn[api].done = "error" /\ api = "lawyer"
        /\ Exit(api)
        /\ UNCHANGED call
     \/ /\ turn[api].done = "error" /\ api = "council"
        /\ call' = [call EXCEPT !["main"] =
                      Calling(Failing(turn[api].opp, "attempts_exhausted"))]
        /\ UNCHANGED <<turn, main, outcome>>
  /\ UNCHANGED <<machine, st, cert>>

\* Deviation: the loop goes on without waiting for the handler's lock.
ResumeUnlocked ==
  /\ call["main"].pc \in {"accepted", "refused"}
  /\ call' = [call EXCEPT !["main"] = Idle]
  /\ turn' = [turn EXCEPT ![main] = NoTurn]
  /\ main' = IF call["main"].pc = "accepted" THEN "next" ELSE "ended"
  /\ outcome' = IF call["main"].pc = "accepted" THEN outcome ELSE "error"
  /\ UNCHANGED <<machine, st, cert>>

\* Deviation: a failure the engine refuses is tried again.
ResumeAndRetry ==
  /\ call["main"].pc \in {"accepted", "refused"}
  /\ Free(main)
  /\ call' = [call EXCEPT !["main"] = Idle]
  /\ IF call["main"].pc = "accepted"
       THEN turn' = [turn EXCEPT ![main] = NoTurn] /\ main' = "next"
       ELSE UNCHANGED <<turn, main>>
  /\ UNCHANGED <<machine, st, cert, outcome>>

\* The main loop's own failure call is over; clearTurn needs the lock.
Resume ==
  /\ call["main"].pc \in {"accepted", "refused"}
  /\ Free(main)
  /\ call' = [call EXCEPT !["main"] = Idle]
  /\ \/ /\ call["main"].pc = "accepted"
        /\ turn' = [turn EXCEPT ![main] = NoTurn]
        /\ main' = "next"
        /\ UNCHANGED outcome
     \/ /\ call["main"].pc = "refused"
        /\ Exit(main)
  /\ UNCHANGED <<machine, st, cert>>

-----------------------------------------------------------------------------
(* Requests.  The lock is taken, the turn is there, and the request names  *)
(* its opportunity; every other request is answered with an error and      *)
(* changes nothing.                                                        *)

Entered(api) ==
  /\ outcome # "error"
  /\ Free(api)
  /\ Active(api)
  /\ turn[api].expired => LateAnswers

\* Deviation: the opportunity a request names is not compared.
AcceptsAnyName(api, named) ==
  /\ Entered(api)
  /\ ~ turn[api].expired

Accepts(api, named) ==
  /\ Entered(api)
  /\ ~ turn[api].expired
  /\ named = turn[api].opp

Begin(api, a) ==
  /\ call' = [call EXCEPT ![api] = Calling(a)]
  /\ UNCHANGED <<machine, st, cert, turn, main, outcome>>

\* The opportunities a request may name, past ones and made up ones too.
CouncilOpportunities ==
  [phase : {"deliberation"}, role : {"council"}, round : {1, 2}, member : MemberIds]

Nameable ==
  [phase : MeritsPhases, role : Sides, round : {0}, member : {NoMember}]
    \cup CouncilOpportunities

SubmitDecision(named) ==
  LET o == turn["lawyer"].opp IN
    /\ Accepts("lawyer", named)
    /\ \/ Begin("lawyer", Action("file", o, named, ""))
       \/ /\ o.phase \in {"rebuttals", "surrebuttals"}
          /\ Begin("lawyer", Action("pass", o, named, ""))

SubmitEvidence(named, id) ==
  LET o == turn["lawyer"].opp IN
    /\ Accepts("lawyer", named)
    /\ o.phase \in EvidencePhases
    /\ Begin("lawyer", Action("evidence", o, named, id))

SubmitCouncilVote(named, ballot) ==
  /\ Accepts("council", named)
  /\ Begin("council", Action("vote", turn["council"].opp, named, ballot))

\* A request the runtime refuses before it asks the engine.
Malformed(api, named) ==
  /\ Accepts(api, named)
  /\ call' = At(api, "refused")
  /\ UNCHANGED <<machine, st, cert, turn, main, outcome>>

\* The first request after the deadline fails the turn, whatever it names.
RequestAfterDeadline(api) ==
  /\ Entered(api)
  /\ turn[api].expired
  /\ Begin(api, Failing(turn[api].opp, "deadline_expired"))

\* The supervisor of a council agent reports that it died; no deadline check.
\* The details of the report are copied over the failure, all but the member:
\* told is what it then names, NoOpportunity anything that is no council seat's.
AgentFailed(named, told, reason) ==
  /\ Entered("council")
  /\ named = turn["council"].opp
  /\ Begin("council", Action("fail", told, named, reason))

-----------------------------------------------------------------------------
(* A call: stepForCertificate, the assignment of rc.state, the event.      *)

Answers(thread) ==
  /\ call[thread].pc = "engine"
  /\ StepOK(call[thread].seen, call[thread].act)

\* Deviation: failures are stepped without being certified.
AcceptUncertified(thread) ==
  /\ Answers(thread)
  /\ cert' = IF call[thread].act.kind = "fail" THEN cert ELSE Recorded(cert, call[thread].act)
  /\ call' = At(thread, "assign")
  /\ UNCHANGED <<machine, st, turn, main, outcome>>

EngineAccepts(thread) ==
  /\ Answers(thread)
  /\ cert' = Recorded(cert, call[thread].act)
  /\ call' = At(thread, "assign")
  /\ UNCHANGED <<machine, st, turn, main, outcome>>

\* The append to rc.certificateActions is not synchronised: of two appends
\* at the same time one may be lost.
RacingAppends(kept, lost) ==
  /\ kept # lost
  /\ Answers(kept) /\ Answers(lost)
  /\ cert' = Recorded(cert, call[kept].act)
  /\ call' = [call EXCEPT ![kept].pc = "assign", ![lost].pc = "assign"]
  /\ UNCHANGED <<machine, st, turn, main, outcome>>

\* Deviation: the engine's "ok" is not looked at.
RefusalIgnored(thread) ==
  /\ call[thread].pc = "engine"
  /\ ~ Answers(thread)
  /\ call' = At(thread, "assign")
  /\ UNCHANGED <<machine, st, cert, turn, main, outcome>>

EngineRefuses(thread) ==
  /\ call[thread].pc = "engine"
  /\ ~ Answers(thread) \/ "engine" \in Faults
  /\ call' = At(thread, "refused")
  /\ UNCHANGED <<machine, st, cert, turn, main, outcome>>

Assign(thread) ==
  /\ call[thread].pc = "assign"
  /\ st' = AfterStep(call[thread].seen, call[thread].act)
  /\ call' = At(thread, "event")
  /\ UNCHANGED <<machine, cert, turn, main, outcome>>

\* The file of new evidence is written between the engine's answer and the
\* assignment.
FileNotWritten ==
  /\ call["lawyer"].pc = "assign"
  /\ call["lawyer"].act.kind = "evidence"
  /\ "file" \in Faults
  /\ call' = At("lawyer", "refused")
  /\ UNCHANGED <<machine, st, cert, turn, main, outcome>>

\* A handler signals the other API, which takes that API's lock as well.
Signals(thread) ==
  thread \in APIs /\ call[thread].act.kind # "fail" => Free(Other(thread))

WriteEvent(thread) ==
  /\ call[thread].pc = "event"
  /\ Signals(thread)
  /\ \/ call' = At(thread, "accepted")
     \/ "event" \in Faults /\ call' = At(thread, "refused")
  /\ UNCHANGED <<machine, st, cert, turn, main, outcome>>

\* Deviation: a pass does not complete the turn.
ReturnWithoutFinish(api) ==
  /\ call[api].pc = "accepted"
  /\ call' = [call EXCEPT ![api] = Idle]
  /\ turn' = IF call[api].act.kind \in {"evidence", "pass"} THEN turn
             ELSE [turn EXCEPT ![api] = Finished(@, "ok")]
  /\ UNCHANGED <<machine, st, cert, main, outcome>>

\* The handler completes the turn, unless it took evidence, and unlocks.
ReturnAccepted(api) ==
  /\ call[api].pc = "accepted"
  /\ call' = [call EXCEPT ![api] = Idle]
  /\ turn' = IF call[api].act.kind = "evidence" THEN turn
             ELSE [turn EXCEPT ![api] = Finished(@, "ok")]
  /\ UNCHANGED <<machine, st, cert, main, outcome>>

\* consumeAttemptLocked: the last invalid attempt fails the opportunity.
ConsumeAttempt(api) ==
  /\ call[api].pc = "refused"
  /\ call[api].act.kind # "fail"
  /\ turn' = [turn EXCEPT ![api].attempts = IF @ > 0 THEN @ - 1 ELSE 0]
  /\ call' = [call EXCEPT ![api] =
                IF turn'[api].attempts = 0
                  THEN Calling(Failing(turn[api].opp, "attempts_exhausted")) ELSE Idle]
  /\ UNCHANGED <<machine, st, cert, main, outcome>>

\* A failure the engine refused completes the turn with the error.
ReturnRefused(api) ==
  /\ call[api].pc = "refused"
  /\ call[api].act.kind = "fail"
  /\ call' = [call EXCEPT ![api] = Idle]
  /\ turn' = [turn EXCEPT ![api] = Finished(@, "error")]
  /\ UNCHANGED <<machine, st, cert, main, outcome>>

-----------------------------------------------------------------------------

Loop ==
  \/ InitializeCase \/ StartTurn \/ FinishCase \/ Resume
  \/ LawyerTimeout \/ CouncilTimeout
  \/ \E api \in APIs : TakeAnswer(api)

Request ==
  \/ \E named \in Nameable :
       \/ SubmitDecision(named)
       \/ \E id \in EvidenceIds : SubmitEvidence(named, id)
       \/ \E ballot \in Ballots : SubmitCouncilVote(named, ballot)
       \/ \E api \in APIs : Malformed(api, named)
       \/ \E reason \in {"agent_exited", "agent_output_limit_exceeded"} :
            \E told \in CouncilOpportunities \cup {NoOpportunity} : AgentFailed(named, told, reason)
  \/ \E api \in APIs : RequestAfterDeadline(api)

CallStep(thread) ==
  \/ EngineAccepts(thread) \/ EngineRefuses(thread) \/ Assign(thread)
  \/ WriteEvent(thread)

Return(api) == ReturnAccepted(api) \/ ConsumeAttempt(api) \/ ReturnRefused(api)

Next ==
  \/ Loop
  \/ \E api \in APIs : Expire(api) \/ Return(api)
  \/ Request
  \/ \E thread \in Threads : CallStep(thread)
  \/ \E kept, lost \in Threads : RacingAppends(kept, lost)
  \/ FileNotWritten
  \/ Interrupted

Spec == Init /\ [][Next]_vars

(***************************************************************************)
(* The loop and the handlers are goroutines that run, the engine process   *)
(* answers, and deadlines pass.  Agents need not send anything.            *)
(***************************************************************************)
Fairness ==
  /\ WF_vars(Loop)
  /\ \A api \in APIs : WF_vars(Expire(api)) /\ WF_vars(Return(api))
  /\ \A thread \in Threads : WF_vars(CallStep(thread))

FairSpec == Spec /\ Fairness

-----------------------------------------------------------------------------
(***************************************************************************)
(* One turn at a time.  At most one turn is open, it is the one the main   *)
(* loop waits for, and a handler at work belongs to it: between turns no   *)
(* answer is still under way (startTurn, clearTurn and the API locks), and *)
(* none is when the packet of a run that ended well is written.            *)
(***************************************************************************)
TurnIsolation ==
  \A api \in APIs :
    (turn[api] # NoTurn \/ ~ Free(api)) /\ outcome # "error" => main = api

(***************************************************************************)
(* A council vote that has been stored is never lost, even when answers    *)
(* race the deadline: the council timer takes the lock before it reads the *)
(* state it fails the member in.                                           *)
(***************************************************************************)
VotesNeverLost ==
  [][ /\ Len(st.votes) <= Len(st'.votes)
      /\ \A i \in DOMAIN st.votes : st'.votes[i] = st.votes[i] ]_vars

\* Whatever the agents do or fail to do, a run ends.
RunEnds == <>(outcome # "running")

(***************************************************************************)
(* Participants never cause an error exit (arb/docs/case-failures.md).  It *)
(* is promised of every run, and kept when no answer meets its deadline    *)
(* and nothing fails.                                                      *)
(***************************************************************************)
ParticipantsNeverAbort == outcome # "error"

Punctual == ~ LateAnswers

PunctualRunsSucceed == Punctual /\ Faults = {} => ParticipantsNeverAbort

\* The certificate keeps up with the case (CHANGES.md, arb/manual.md): whenever
\* no accepted action is still to be stored, replaying it gives the current
\* state, and so the state the run writes at its end.  (Not after a race with
\* a deadline, nor when the file of accepted evidence could not be written.)
CertificateKeepsUp ==
  /\ Punctual /\ "file" \notin Faults
  /\ \A thread \in Threads : call[thread].pc # "assign"
  => cert = [replays |-> TRUE, state |-> st]

\* What reaches the engine answers the opportunity the case has open: a turn
\* does not outlive its opportunity and delayed or repeated requests for an
\* earlier one are stopped before the engine sees them.  A failure report may
\* name the open one and carry details that name another, which the engine then
\* refuses: nobody fails an opportunity that is not open.  (A turn whose answer
\* was stored but not noted down stays open; the engine refuses the next one.)
AnswersCurrent ==
  Punctual /\ "event" \notin Faults =>
    \A thread \in Threads : call[thread].pc = "engine" =>
      /\ call[thread].act.named = NextOpportunity(st)
      /\ \/ call[thread].act.opp = NextOpportunity(st)
         \/ call[thread].act.kind = "fail" /\ ~ Answers(thread)

\* A punctual run, whatever fails in it, runs the case: every change of its
\* state is a step the engine allows there, from the policy to the outcome.
Case == INSTANCE ArbCase WITH
  st <- IF Punctual THEN st ELSE Draft,
  Policies <- {ThePolicy}, Rosters <- {Roster},
  Chars <- {1}, Amounts <- {0}, Sizes <- {1}

ImplementsCase == Case!Spec
-----------------------------------------------------------------------------
(***************************************************************************)
(* What makes the properties above inductive (proved in                    *)
(* ArbProceedingProofs).  The first parts hold of every run; those after   *)
(* Exclusive are about the runs and the turns in which answers and         *)
(* deadlines do not meet.                                                  *)
(***************************************************************************)

\* Whatever a thread has read or stored is a case the engine has answered
\* with, and nobody has voted before the deliberation.
Sound(s) ==
  /\ s \in State
  /\ s.round >= 1
  /\ s.phase \in {"draft"} \cup MeritsPhases => s.votes = <<>>

Turns == [opp : Opportunity, completed : BOOLEAN, attempts : Nat,
          done : {"empty", "ok", "error"}, expired : BOOLEAN]

Actions == [kind : Kinds, opp : Opportunity, named : Opportunity,
            value : {""} \cup EvidenceIds \cup Ballots \cup FailureReasons]

Calls == [pc : {"idle", "engine", "assign", "event", "accepted", "refused"},
          act : Actions, seen : State]

TypeOK ==
  /\ machine \in Machines
  /\ Sound(st)
  /\ cert \in [replays : BOOLEAN, state : State] /\ Sound(cert.state)
  /\ turn \in [APIs -> Turns]
  /\ call \in [Threads -> Calls]
  /\ \A thread \in Threads : Sound(call[thread].seen)
  /\ main \in {"draft", "next", "ended"} \cup APIs
  /\ outcome \in {"running", "ok", "error"}

\* What a thread may send the engine, made for one opportunity.
WellMade(thread, a) ==
  /\ a.named # a.opp => thread = "council" /\ a.kind = "fail"
  /\ a.kind = "file" => a.opp.phase \in MeritsPhases
  /\ a.kind = "evidence" => a.value \in EvidenceIds
  /\ a.kind = "vote" => a.value \in Ballots
  /\ a.kind = "fail" => a.value \in FailureReasons
  /\ CASE thread = "main"    -> a.kind = "fail"
       [] thread = "lawyer"  -> a.kind \in {"file", "pass", "evidence", "fail"}
       [] thread = "council" -> a.kind \in {"vote", "fail"}

\* A call under way answers the open turn, one about to be stored was accepted;
\* the only other calls are requests refused before the engine is asked.
CallsInOrder ==
  \A thread \in Threads :
    LET c == call[thread] IN
      /\ c.pc = "idle" => c = Idle
      /\ c.pc # "idle" =>
           \/ WellMade(thread, c.act) /\ c.act.named = turn[main].opp
           \/ thread \in APIs /\ c.pc = "refused" /\ c.act = NoAction
      /\ c.pc = "assign" => StepOK(c.seen, c.act)

\* Only the turn that is awaited is open or has a call under way.
TurnsInOrder ==
  /\ main = "ended" <=> outcome # "running"
  /\ main = "draft" => st = Draft /\ cert = [replays |-> TRUE, state |-> Draft]
  /\ main \notin APIs => Free("main")
  /\ \A api \in APIs :
       /\ main # api => turn[api] = NoTurn /\ Free(api)
       /\ main = api => turn[api].opp # NoOpportunity /\ APIOf(turn[api].opp) = api
       /\ main = api /\ api = "lawyer" => turn[api].opp.phase \in MeritsPhases
       /\ turn[api].completed <=> turn[api].done # "empty"
       /\ ~ Free(api) => ~ turn[api].completed

\* Nobody votes during a lawyer turn, whatever its answers overtake.
NoVotesYet ==
  main = "lawyer" =>
    /\ st.votes = <<>>
    /\ \A thread \in Threads : ~ Free(thread) => call[thread].seen.votes = <<>>

\* The main loop fails a council turn once its handler is locked out, a lawyer
\* turn once its deadline has passed.
Exclusive ==
  ~ Free("main") =>
    /\ main = "council" => turn["council"].completed
    /\ main = "lawyer" => turn["lawyer"].expired
    /\ Punctual => turn[main].done # "ok"

\* In a punctual run a deadline passes only when nobody answers, and then
\* nobody does.
DeadlinesFinal ==
  Punctual => \A api \in APIs :
    turn[api].expired => Free(api) /\ (turn[api].done = "empty" \/ ~ Free("main"))

\* One call at a time: what it read is still the case.
ReadingsFresh ==
  main = "council" \/ Punctual =>
    \A thread \in Threads : call[thread].pc \in {"engine", "assign"} => call[thread].seen = st

\* The turn is about the opportunity the case has open until its answer is stored.
TurnCurrent ==
  /\ Punctual /\ "event" \notin Faults
  /\ main \in APIs /\ turn[main].done # "ok"
  /\ \A thread \in Threads :
       call[thread].pc \in {"event", "accepted"} => call[thread].act.kind = "evidence"
  => turn[main].opp = NextOpportunity(st)

\* The certificate is one accepted action ahead of the case, or level with it.
CertificateAhead ==
  Punctual /\ "file" \notin Faults =>
    \A thread \in Threads : call[thread].pc = "assign" =>
      cert = [replays |-> TRUE, state |-> AfterStep(call[thread].seen, call[thread].act)]

\* When nothing fails the engine takes every failure that names its own turn.
FailuresTaken ==
  Punctual /\ Faults = {} =>
    /\ turn["lawyer"].done # "error"
    /\ \A thread \in Threads :
         LET a == call[thread].act IN
           call[thread].pc = "refused" /\ a.kind = "fail" => a.opp # a.named

Inv ==
  /\ TypeOK /\ CallsInOrder /\ TurnsInOrder /\ NoVotesYet
  /\ Exclusive /\ DeadlinesFinal /\ ReadingsFresh /\ TurnCurrent
  /\ CertificateAhead /\ CertificateKeepsUp /\ FailuresTaken /\ PunctualRunsSucceed
==============================================================================
