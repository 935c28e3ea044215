------------------------------ MODULE RoleTurns ------------------------------
(***************************************************************************)
(* The runner of the civil court (src/adc/runtime/runner) conducts a trial *)
(* whose sides and jurors act over the role API.  The runner's loop asks   *)
(* the engine for the next opportunity, opens a turn and waits; requests,  *)
(* the deadline and an interrupt compete for it.  A handler holds the lock *)
(* of the API from the look at the turn to the answer, so that each is one *)
(* step here.  The judge acts in the runner's own process.                 *)
(*                                                                         *)
(* What the engine offers and does is JuryTrial, whose variables are       *)
(* r.state.  Turns beyond max_turns are not counted, and support tools,    *)
(* which read only, are left out.                                          *)
(***************************************************************************)
EXTENDS JuryTrial

CONSTANTS
  AttemptLimit,   \* InvalidAttemptLimit
  Faults          \* what may fail, of "engine", "record", "interrupt", "listener"

ASSUME RoleAssumption ==
  /\ AttemptLimit \in Nat \ {0}
  /\ Faults \subseteq {"engine", "record", "interrupt", "listener"}

VARIABLES
  main,       \* the loop: "next", "waiting", or how Run has returned
  turn,       \* the turn it waits for
  active,     \* is it api.active?
  listening,  \* does the server accept connections?
  unrecorded  \* has an act that was taken not been written to the store?

trial == vars

runnerVars == <<trial, main, turn, active, listening, unrecorded>>

-----------------------------------------------------------------------------
(* Opportunities.  An id is a hash of what is asked of whom: it may recur. *)

NoOpportunity == [kind |-> "none", role |-> "none", juror |-> 0, title |-> <<>>]

NextOpportunity ==
  LET kind   == CurrentTurn
      filing == FilingsOf(phase)[Min(FilingsOpen)]
      Asked(role) == [NoOpportunity EXCEPT !.kind = kind, !.role = role]
  IN CASE kind = "filing"   -> [Asked(filing.by) EXCEPT !.title = filing.title]
       [] kind = "evidence" -> Asked(Presenter)
       [] kind = "vote"     -> [Asked("juror") EXCEPT !.juror = Min(Awaited)]
       [] kind = "none"     -> NoOpportunity
       [] OTHER             -> Asked("judge")

RoleIsExternal(role) == role \in Sides \cup {"juror"}

(* fresh: is the state still the one the turn was opened in (stateVersion)? *)
NoTurn == [opp |-> NoOpportunity, fresh |-> FALSE, attempts |-> 0, done |-> "no"]

NewTurn(opportunity) ==
  [opp |-> opportunity, fresh |-> TRUE, attempts |-> AttemptLimit, done |-> "no"]

(* finishTurnLocked: the first result counts.                              *)
Finished(result) == [turn EXCEPT !.done = IF @ = "no" THEN result ELSE @]

(* The turn a handler finds: set, not completed, not overdue.              *)
Open == active /\ turn.done = "no"

RunnerInit ==
  /\ Init
  /\ main = "next"
  /\ turn = NoTurn
  /\ active = FALSE
  /\ listening = TRUE
  /\ unrecorded = FALSE

-----------------------------------------------------------------------------
(* The loop.                                                               *)

StartTurn ==
  /\ main = "next"
  /\ RoleIsExternal(NextOpportunity.role)
  /\ turn' = NewTurn(NextOpportunity)
  /\ active' = TRUE
  /\ main' = "waiting"
  /\ UNCHANGED <<trial, listening, unrecorded>>

(* Does the event of an act get written?                                   *)
Written == UNCHANGED unrecorded

NotWritten == "record" \in Faults /\ unrecorded' = TRUE

JudgeActs ==
  /\ main = "next"
  /\ \/ DismissForLackOfJurisdiction \/ DeclineDismissal
     \/ SettleInstructions \/ DeliverInstructions
     \/ FileBenchOpinion \/ AdvanceTrialPhase
     \/ EnterJudgment \/ CloseAfterHungJury
  /\ \/ Written /\ main' = "next"
     \/ NotWritten /\ main' = "failed"
  /\ UNCHANGED <<turn, active, listening>>

Return ==
  /\ main = "next"
  /\ NextOpportunity = NoOpportunity
  /\ main' = "returned"
  /\ UNCHANGED <<trial, turn, active, listening, unrecorded>>

Abandon == turn' = NoTurn /\ active' = FALSE /\ main' = "failed"

(* The engine or the store fails between two turns.                        *)
LoopFails ==
  /\ main = "next"
  /\ "engine" \in Faults
  /\ Abandon
  /\ UNCHANGED <<trial, listening, unrecorded>>

Interrupted ==
  /\ main = "waiting"
  /\ "interrupt" \in Faults
  /\ Abandon
  /\ UNCHANGED <<trial, listening, unrecorded>>

(* Deviation: an error ends the turn and not the run.                      *)
TakeAnyResult ==
  /\ main = "waiting"
  /\ turn.done # "no"
  /\ turn' = NoTurn /\ active' = FALSE /\ main' = "next"
  /\ UNCHANGED <<trial, listening, unrecorded>>

TakeResult ==
  /\ main = "waiting"
  /\ \/ turn.done = "ok" /\ turn' = NoTurn /\ active' = FALSE /\ main' = "next"
     \/ turn.done = "error" /\ Abandon
  /\ UNCHANGED <<trial, listening, unrecorded>>

(* The server stops serving.  setTerminal takes the turn away from every   *)
(* later request and from the deadline, and the loop is not told.          *)
ListenerFails ==
  /\ "listener" \in Faults
  /\ listening
  /\ main \in {"next", "waiting"}
  /\ listening' = FALSE
  /\ active' = FALSE
  /\ UNCHANGED <<trial, main, turn, unrecorded>>

-----------------------------------------------------------------------------
(* Requests of the role whose turn it is.  Others are answered with an     *)
(* error and change nothing, as is one during which the engine fails.      *)

(* Deviation: the version of the state is not compared.                    *)
SameOpportunity == turn.opp = NextOpportunity

Current == turn.fresh /\ turn.opp = NextOpportunity

Act ==
  \/ File \/ Pass \/ RestCase
  \/ \E f \in Files : OfferExhibit(f)
  \/ \E b \in Ballots : SubmitJurorVote(b)

(* The act changes the state and enters the certificate before its event   *)
(* is written; without the event the turn stays open.                      *)
SubmitDecision ==
  /\ Open
  /\ Current
  /\ Act
  /\ \/ Written /\ turn' = [Finished("ok") EXCEPT !.fresh = FALSE]
     \/ NotWritten /\ turn' = [turn EXCEPT !.fresh = FALSE]
  /\ UNCHANGED <<main, active, listening>>

(* rejectDecisionLocked: one that is malformed, not allowed or stale.  The *)
(* last invalid attempt ends the turn in an error, also a juror's.         *)
RejectDecision ==
  /\ Open
  /\ turn' = LET left == turn.attempts - 1 IN
       [Finished(IF left = 0 THEN "error" ELSE "no") EXCEPT !.attempts = left]
  /\ UNCHANGED <<trial, main, active, listening, unrecorded>>

-----------------------------------------------------------------------------
(* The deadline passes, which the loop's ticker or the next request finds, *)
(* or the agent of the turn reports its own failure.                       *)

TimeoutOK(j) == phase = "deliberation" /\ jurors[j] = "sworn"

ProcessJurorTimeout(j) ==
  /\ TimeoutOK(j)
  /\ jurors' = [jurors EXCEPT ![j] = "timed_out"]
  /\ TakeOutcome(DeriveVerdict(votes, Sworn \ {j}))
  /\ passed' = {}
  /\ UNCHANGED <<court, status, phase, docket, offered>>

(* Deviation: a turn that was answered, but not yet left, can still fail.  *)
ActiveTurn == active

Failable == Open

TurnFails ==
  /\ Failable
  /\ \/ /\ turn.opp.role = "juror"
        /\ ProcessJurorTimeout(turn.opp.juror)
        /\ \/ Written /\ turn' = Finished("ok")
           \/ NotWritten /\ turn' = Finished("error")
     \/ /\ \/ turn.opp.role # "juror"
           \/ ~TimeoutOK(turn.opp.juror)
           \/ "engine" \in Faults
        /\ turn' = Finished("error")
        /\ UNCHANGED <<trial, unrecorded>>
  /\ UNCHANGED <<main, active, listening>>

Loop == StartTurn \/ JudgeActs \/ Return \/ TakeResult

RunnerNext ==
  \/ Loop \/ LoopFails \/ Interrupted \/ ListenerFails
  \/ SubmitDecision \/ RejectDecision
  \/ TurnFails

RunnerSpec == RunnerInit /\ [][RunnerNext]_runnerVars

(***************************************************************************)
(* The loop runs, and it finds a deadline that has passed within a second. *)
(* Roles need not send anything.                                           *)
(***************************************************************************)
FairRunnerSpec == RunnerSpec /\ WF_runnerVars(Loop) /\ WF_runnerVars(TurnFails)

-----------------------------------------------------------------------------
(* Properties.                                                             *)

(* An act whose event was not written is in the case, and its turn is      *)
(* still open: a juror who has voted may then be dismissed all the same.   *)
VoterDismissed ==
  /\ unrecorded /\ ~turn.fresh
  /\ \E j \in DOMAIN jurors : jurors' = [jurors EXCEPT ![j] = "timed_out"]

(***************************************************************************)
(* Whatever roles send, repeat or omit, whoever fails and whatever breaks, *)
(* the case over the role API is a trial, and no turn changes it twice: an *)
(* answer repeated because it was not confirmed is refused although the    *)
(* same opportunity may be open again, none counts after the deadline, and *)
(* a juror who has voted stays, unless the vote's event was not written.   *)
(***************************************************************************)
ImplementsTrial ==
  /\ Init
  /\ [][(Next /\ (main = "next" \/ turn.fresh)) \/ VoterDismissed]_trial

(***************************************************************************)
(* A run ends, in a result or an error, whatever roles do or do not do:    *)
(* but if the server fails during a turn, the loop waits for ever.         *)
(***************************************************************************)
Unreachable == main = "waiting" /\ ~active /\ turn.done = "no"

RunEnds == <>(main \in {"returned", "failed"} \/ Unreachable)
==============================================================================
