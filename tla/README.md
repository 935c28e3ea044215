# Agent Court in TLA+

A TLA+ development of the arbitration system and the civil court in this
repository: what their Lean engines decide, how the Go runtimes drive them while
agents answer over HTTP, how evidence gets on the record, how a supervised run looks after
its containers, and how the service keeps the records of its cases. TLC checks the modules on small instances;
TLAPS proves the safety properties that matter most for every council, jury, panel,
policy, upload and number of failures.

Contents: [inventory](#inventory) · [modules](#modules) · [runs](#runs) ·
[what the runs found](#what-the-runs-found) · [proofs](#proofs) ·
[abstractions](#abstractions) · [plan](#plan)

To repeat a check: `tlc -workers 2 -config ArbCase.cfg MCArbCase.tla`; to repeat
the proofs: `tlapm` on each module whose name ends in `Proofs`. The table of runs
below names the module and the configuration of each.

## Inventory

The repository holds three procedures and what they share.

| System | Engine | Runtime |
|---|---|---|
| **arb** (`aar`, Agent Arbitration) | `src/arb/engine/Main.lean` | `src/arb/runtime` |
| **arbd** (`aard`, graded arbitration) | `src/arbd/engine/Main.lean` | `src/arbd/runtime` |
| **adc** (district court) | `src/adc/engine/Main.lean` | `src/adc/runtime` |

`src/vmcp` is a separate gateway with its own Lean proofs, `src/common` the clients and
proxies of model services, `src/web` the consoles. The development has two pillars:
**arb** from engine to service, and the rules of **adc** from a filed complaint to
judgment. `arbd` is a sibling of arb.

```
client ── service ──(child process)── aar case = proceeding ──(process per step)── engine
            │  registry/<id>.json        │  run.json, events, certificate
            └─ clerk ──(child)── aar run = localrun ── containers ──(HTTP role APIs)── case
               <out_dir>/clerk.json
```

### Components of arb

**Engine** (`engine/Main.lean`). Pure: a case state and an action in, a new state or
an error out. *State*: status, phase, policy, council seats, filings, exhibits,
reports, submitted evidence, round, votes, resolution, failure, version.
*Operations*: `initialize_case`, opening, argument, rebuttal, surrebuttal, closing,
`submit_evidence`, `pass_phase_opportunity`, `submit_council_vote`,
`remove_council_member`, `fail_opportunity`, `next_opportunity`. *Hard*: the rule
that settles a round is applied after votes, removals and failures in any order;
caps that hold over three phases. *Correct when*: filings form one schedule, caps
hold over all phases, one ballot per member and round, outcomes rest on votes, a
live case always has a next opportunity, every case can end.

**Proceeding** (`runtime/proceeding`). *State*: `rc.state`, `rc.certificateActions`,
one active turn for the lawyer API and one for the council API, each with deadline,
attempts and a one-place `done` channel. *Operations*: the main loop (next
opportunity, start turn, wait for answer, deadline or interrupt, remove a council
member, write the packet), and the handlers (decision, evidence, vote, failure
report, invalid attempt). *Interaction*: handlers run in HTTP goroutines under their
API's mutex; the main loop runs without one except where it finishes or clears a
turn; both call the engine process and then assign `rc.state`. *Hard*: a deadline
that meets an answer; stale requests; faults between engine, certificate, file,
event log. *Correct when*: turns stay apart, accepted votes survive, only answers to
the open opportunity reach the engine, the certificate replays to the state written,
participants cannot make the process fail, every run ends.

**Service, direct cases** (`runtime/service/service.go`). *State*: the record of each
case in memory, its JSON file, the child process. *Operations*: create, health poll,
wait for the child, cancel, save, load and reconcile after a restart. *Hard*: saves
made outside the lock through one temporary file; a cancel that meets start or exit;
a crash between any two steps. *Correct when*: a recorded outcome is backed by what
the child did, every active record has somebody who will settle it, outcomes are
final, cancellations end, the saved record agrees with the one in memory.

**Clerk** (`service/clerk.go`). Whole `aar run` children in the service. *State*: the
id-to-record map (unknown, reserved, listed), a `clerk.json` in the output directory of
each, the child. *Operations*: reserve, look at the directory, publish, save, start,
mark running, wait, kill (interrupt, grace, kill), listing with reconciliation. *Hard*:
every step is apart from the next; a kill request meets a case that is starting or
ending; saves may fail; the service may die anywhere, and a restarted one has forgotten its
ids; requests choose id and directory freely. *Correct when*: each living child is on record
in its directory, an id runs once in a directory, an end on record is real, a signaled child
goes.

**Localrun** (`runtime/localrun/localrun.go`). *State*: the case and MCP goroutines and
their channels, one command and container for each agent, `councilStarts`, staged
credentials and which of them are tracked. *Operations*: one `select` over case, MCP server, agent errors, ticker and
cancellation; starts; a goroutine that judges each agent's exit by asking the case API
and may report a failure; cleanup. *Hard*: containers outlive commands, one container
name serves a member in every round, several events are ready at once. *Correct when*:
nothing is left behind, a seat is lost only for the agent of that very turn, open
opportunities are served, the run returns.

**Evidence store and uploads** (`proceeding/evidence.go`, the evidence handlers in
`lawyerapi.go`). *State*: upload sessions with their part files, the
`submitted-evidence` directory, the store addressed by hash, the runtime's registry, the
record in the case state. *Operations*: begin, chunk and commit of an upload, direct
submission; reads within a budget. *Hard*: an upload begun in one turn is committed in a
later one; the engine accepts first and files are moved, copied and registered afterwards,
each of which may fail; a chunk or a copy may be cut short; a call that failed is tried
again; the timer of the turn asks the engine without the lock the calls hold. *Correct when*: what is on the record is registered, stored whole and what its side
announced, no side has more than it may, and the certificate says the same.

**MCP gateway, command line, packet, prompts, options, preflight.** Translation,
input preparation and formatting; they hold no protocol state, apart from exit codes
and what the engine client returns, which the modules contain.

### Components of adc

**Engine** (`src/adc/engine/Main.lean`). *State*: the case with docket, decision traces,
dates, offers, panel, votes, verdict, claims, judgment. *Operations*: an agenda for each
status of a case and phase of a trial (`next_opportunity`), and a step for each tool.
*Hard*: an item is open or not by what lies many steps back; passes are forgotten when
the case changes, so that a declined filing may be offered again; jurors time out in
the middle of selection and deliberation. *Correct when*: nothing is left undecided,
rulings follow the opponent's chance to be heard, the jury sworn is vetted and both sides
examined it, verdicts rest on the remaining jurors' votes, the case always ends
somewhere lawful.

**Runner** (`runtime/runner`). The loop that asks for the next opportunity, carries out
the court's own acts at once (`turns.go`), has a role answer the others, records passes
and replaces jurors who time out (`timeouts.go`, `autopilot.go`); it stops when nothing
is open. The modules contain it.

**Role API** (`runner/roleapi.go`). *State*: the active turn with its opportunity, state
version, deadline, attempts and one-place `done` channel. *Operations*: start and clear a
turn, `do` (decision, support tool), `fail`, deadline checks by the loop's ticker and by
every request, `setTerminal`. *Interaction*: handlers and deadline checks run under one
mutex; the loop waits for `done` or the interrupt. *Hard*: a deadline that meets an answer;
an act that is in the case when its event cannot be written, and is sent again; opportunity
ids that recur; a server that stops during a turn. *Correct when*: the case remains a trial,
a turn changes it once, every run ends.

The SQLite store's own tables and the service of adc are not modelled.

### Other systems

**arbd**: same phases and runtime as arb, council answers are numbers from 0 to 100.
**common, web, evals**: clients of external services, presentation, offline scripts.

`PROJECT.json` lists the components with their status, and the hazards with the line
where each bites.

## Modules

| Module | What it is |
|---|---|
| `ArbEngine` | the rules: a pair `XOK`/`AfterX` for each engine action, `NextOpportunity` |
| `ArbCase` | the engine as a state machine under unconstrained requests; its properties; the inductive invariant |
| `CouncilBallot` | the abstract promise about the council: benches, ballots, rounds, verdicts |
| `ArbCaseProofs` | the theorems about `ArbCase`: type, invariant, safety, failures; what its steps never undo, and that they implement `CouncilBallot` |
| `ArbProceeding` | one run of the runtime over the same rules; its inductive invariant |
| `ArbProceedingProofs` | turns, answers, certificate and votes, for every council and number of requests; that the runtime implements `ArbCase` |
| `EvidenceUploads` | evidence submitted at once or uploaded in chunks, and where its bytes go |
| `EvidenceUploadsProofs` | custody, for all contents and limits and any number of uploads and faults |
| `CaseRegistry` | one record of a direct case in the service |
| `CaseRegistryProofs` | what that record may say, for any number of clients and crashes |
| `ClerkCases` | the Clerk's cases: requests, saves, children, kills, restarts |
| `ClerkCasesProofs` | what its records may say, for any number of ids and failures |
| `LocalRun` | `aar run`: the supervisor, its containers and agents |
| `LocalRunProofs` | cleanup and blame, for panels of every size |
| `Pretrial` | an adc case from the filed complaint to trial, judgment or close |
| `JurySelection` | jury selection, up to openings or a dismissal for lack of jurisdiction |
| `BeforeTrialProofs` | theorems about `JurySelection` (the jury that is sworn, what the sides were owed) and `Pretrial` (nothing left undecided, rulings heard, types) |
| `JuryTrial` | a jury or bench trial from openings to judgment or close |
| `JuryTrialProofs` | verdicts, outcomes and the turns of both sides, for juries of every size; that `RoleTurns` implements `JuryTrial` |
| `RoleTurns` | a trial conducted over the role API of the runner |
| `MC...` | the instances TLC checks, one module for each of the above |

How they compose: `ArbCase` and `ArbProceeding` both extend `ArbEngine`, so the run is
driven by exactly the rules that are proved about. `ArbProceeding` is shown to
implement `ArbCase` (`ImplementsCase`), and `ArbCase` to implement `CouncilBallot`
(`ImplementsBallot`). `EvidenceUploads` opens up what is one call with one file fault in
`ArbProceeding`. `CaseRegistry` uses one fact of `ArbProceeding`, that a child ends by itself (`RunEnds`),
as a fairness assumption; `LocalRun` reduces the case to what the supervisor sees of it.
`RoleTurns` extends `JuryTrial`, which is its engine, and is shown to implement it
(`ImplementsTrial`).
`Pretrial`, `JurySelection` and `JuryTrial` are the three stages of one case: a case that
`Pretrial` takes to trial by jury is where `JurySelection` starts, and the jury sworn
there is the one `JuryTrial` starts from.

### ArbEngine and ArbCase

`st` is Lean's `ArbitrationState`. Each action of `ArbCase` is one branch of `stepCore`
with the checks of `step`, and contains every call that branch makes: a vote, a removal
and a council failure all end in `ContinueDeliberation` (`continueDeliberation`), a
filing in `AdvanceAfterMerits` (`advanceAfterMerits`). Roles, members, ids, texts and
amounts in a request are arbitrary: what is refused is refused by the engine's own
guards. `FailSomeOpportunity` lets a failure name the turn of any side or seat.

### CouncilBallot

Written from what the council is for: everyone on the bench votes once in a round, a
member that has not voted may leave, and a round is settled in the very step that
completes it. The refinement mapping reads the bench off the seats and the ballots of
the round off the vote list.

### ArbProceeding

| Variable | In the code |
|---|---|
| `machine` | what may go wrong in this run: faults, and answers that meet their deadline |
| `st` | `rc.state` |
| `cert` | `rc.certificateActions`, kept as the state their replay ends in |
| `turn[api]` | `activeLawyerTurn` / `activeCouncilTurn`: opportunity, completed, attempts, `done`, deadline passed |
| `call[t]` | where a goroutine is in its call of the engine: the handler of each API, and the main loop |
| `main`, `outcome` | the loop in `runConfigured`, and the exit of the process |

A handler that has a call under way holds its API's mutex; `Free(api)` is the guard of
everything that needs that mutex. A call has the steps of the code: read `rc.state` and
have the engine step it (`EngineAccepts` also appends to the certificate), write the
evidence file, assign `rc.state` (`Assign`), write the event, complete the turn. The
two deadline branches differ as in the code: `LawyerTimeout` fails the opportunity with
no lock, `CouncilTimeout` finishes the turn under the lock first. `Nameable` lets every
request name a wrong opportunity. `AgentFailed` passes on the details of a council agent's
report, which `failOpportunity` copies over the failure (`failures.go:39`): what it then tells
the engine may be any seat's opportunity or none (`told`), and the engine judges that. `RacingAppends` is the unsynchronised append. A run is
`Punctual` when no answer is under way as its deadline passes; some properties are about
those only.

### EvidenceUploads

| Variable | In the code |
|---|---|
| `turn` | the turn open on the lawyer API |
| `uploads` | `rc.uploadSessions` with the part file of each; `wanted` is what its side means to send |
| `files` | names in `submitted-evidence` |
| `stored`, `broken` | files of `evidence-store`, whole or cut short |
| `registry` | `rc.evidence` and `rc.submittedEvidence` |
| `st` | `rc.state`: its turn, `submitted_evidence`, whether the case failed |
| `cert` | where a replay of `rc.certificateActions` ends |
| `call` | the call of the engine by a handler: what it read, what it asked, accepted or not |
| `timer` | the same of the timer of the turn |
| `met` | whether a deadline has passed under a call |

A handler holds the lock of the lawyer API from beginning to end, so a call that asks the
engine nothing (`BeginUpload`, `WriteChunk`, a commit that is refused) is one step. The timer
takes no lock (`lawyerapi.go:157`): it too reads the case, has the engine fail it, certifies
that and stores what it got (`Expire`, `ExpiryAnswered`, `ExpiryStored`), so whatever asks the
engine is split where the other can come between. `SubmitEvidence` and `CommitUpload` read the
case and ask; `Answered` certifies; `Admit` lets the files end in one of the ways of `Endings`
(the name is taken, the file is not written, it is written but not registered, the copy to the
store is cut short, all is done) and stores the case only in the last. `SubmitDecision`,
`FailTurn` and `TurnEnds` are the filings, passes and failures between which evidence comes in.
`ChunkTorn` is a chunk that is on disk when the call reports an error. If a failure is stored
over by a handler, the loop finds the same turn open again, as in the code.

### CaseRegistry

`rec` is `s.cases[id]`, `final` and `tmp` are the files, `child` and `run` are the process
and its `run.json`, `pc` the goroutines of a case (creator, poller, waiter, one per
cancel request), `saver` their `persistRecord` calls. A save is four steps: copy, open
(truncate), write, rename. A write goes to the file that was opened, wherever a rename
has moved it. `Crash` loses everything but the files and the child; `Restart` is
`loadRegistry` with `reconcileDetachedCaseRecord`.

### ClerkCases

A create request has an id and a directory (`CaseOf`, `DirOf`), any pair: `out_dir` belongs to
the request. `held[c]` is the request that has reserved the id in `s.clerkCases` or is listed
there; `rec[r]`, `child[r]`, `request[r]` and `waiter[r]` are the record, the process and the
goroutines of each request, `killer[k]` the place of a kill request and the record it has in
hand, `saver` the `persistClerkRecord` call each is in. `tmp` and `disk` are the two files of a
directory, `used` the requests that put files there, `run` its `run.json`. A request is `Reserve`, `CheckDirectory`, `Publish`, the save, `Launch`,
`MarkRunning`, the save, `HandOver`, with a failure branch at each; a kill is `Kill`, the
save, `Interrupt`, `ForceKill`, `KillAnswer`. `Taken` is all that
`reserveClerkCase` asks: is the id known in memory, has the directory named a `clerk.json`.
`Restart` forgets everything in memory, so that an id may then be started in another directory
beside its living child; `Reconcile` is what a listing does with a record it finds on disk.

### LocalRun

`runner.pc` is where `Run` is: waiting for the case API, starting the MCP server and the
lawyers, in the loop, starting a council agent, waiting for the outcome or the server,
stopping and cleaning up. `agent[a]` is the command of an agent and the goroutine that
waits for it (`Watch`: exit, status query, failure report), `container[n]` what runs
under a container name, which has the member in it but not the round. An output limit
(`LimitKills`) ends the command and leaves the container; a name that is taken makes the
next agent's command fail; removals and starts may fail. `secrets` tells whose credentials are
written and which of them `cleanupSecrets` knows of: a start may fail with none written, with
some written that are not tracked yet (`StagedOnly`), or after both.

### Pretrial

The record of a case is the set of `facts` its agendas read: a docket title, a trace, an
offer, a date. `Item` is one entry of an agenda with what must and must not have happened;
`CurrentItem` takes the first open item in the order the engine ranks them, `Act` is the
step of its tool, `Pass` a declined optional item. `case.tools` is the roster, the tools
the roles of a case have: an item no role has a tool for never opens.

### JurySelection and JuryTrial

`JurySelection`: `jurors` is the panel with what each side has asked, passed, challenged
and struck; `proposed`, `asked`, `challenged` are matters that wait for a ruling or an
answer. `AdvanceTrialPhase`, `AddJurors`, `EmpanelJury` are the court's acts. In both modules a
`defective` case, whose complaint pleads no jurisdiction, is one the judge may dismiss: the
engine offers that before everything else, again after every act of the case
(`jurisdictionDismissalCandidates`), and it closes the case (`DismissForLackOfJurisdiction`);
`DeclineDismissal` is the pass. `JuryTrial`:
`FilingsOf(phase)` is the agenda of a phase, `docket` the titles filed, `passed` what has
been declined since the case last changed, `votes` the ballots; `DeriveVerdict` is the rule
that ends a deliberation round in a verdict, a notice of a hung jury or another round, and
it is applied after each vote and after each juror that times out.

### RoleTurns

The variables of `JuryTrial` are `r.state`; `main` is where the loop of
`runAutopilot` is, `turn` what `executeExternalOpportunityTurn` waits for, `active` whether
`api.active` still is that turn, `listening` the server. `fresh` says whether the state is
still of the version the turn was opened with. Handlers hold the API's mutex from beginning
to end, so each is a step: `SubmitDecision`, `RejectDecision`, and `TurnFails` for a deadline
or a reported failure, which dismisses a juror and ends a side's run. `NotWritten` is an
event that cannot be stored after the act is in the case: `unrecorded` remembers it. The
judge acts in the runner's own process (`JudgeActs`).

## Runs

| Run | Module, configuration | Properties | Distinct states |
|---|---|---|---|
| `arb_case` | `MCArbCase`, `ArbCase.cfg` | `MeritsShape`, `MaterialLimits`, `NeverStranded`, `VoteIntegrity`, `DecisionSound`, `FailureIsCurrent`, `FixedFrameProgress`, `Termination`, `ImplementsBallot` | 85 553 |
| `arb_evidence` | `MCEvidenceUploads`, `ArbEvidence.cfg` | `CustodyKept` | 2 880 831 |
| `arb_turns` | `MCArbProceeding`, `ArbTurns.cfg` | `PunctualRunsSucceed`, `CertificateKeepsUp`, `AnswersCurrent`, `TurnIsolation`, `ImplementsCase`, `VotesNeverLost`, `RunEnds` | 297 880 |
| `arb_registry` | `MCCaseRegistry`, `ArbRegistry.cfg` | `OutcomeBacked`, `ActiveHasOwner`, `DecidedIsFinal`, `CancelSettles` | 130 715 |
| `arb_clerk` | `MCClerkCases`, `ArbClerk.cfg` | `ChildIsOnRecord`, `EndIsReal`, `KillSettles` | 620 957 |
| `arb_localrun` | `MCLocalRun`, `ArbLocalRun.cfg` | `NothingLeftBehind`, `BlamedAgentsAreGone`, `OpportunitiesAreServed`, `RunReturns` | 308 991 |
| `adc_pretrial` | `MCPretrial`, `AdcPretrial.cfg` | `NothingLeftUndecided`, `RulingsAreHeard`, `PretrialEnds` | 22 748 |
| `adc_jury_selection` | `MCJurySelection`, `AdcJurySelection.cfg` | `JuryIsVetted`, `BothSidesHeard`, `SelectionEnds` | 281 481 |
| `adc_trial` | `MCJuryTrial`, `AdcTrial.cfg` | `VerdictSound`, `OutcomeIsLawful`, `NoSideSkipped`, `TrialEnds` | 8 647 |
| `adc_turns` | `MCRoleTurns`, `AdcTurns.cfg` | `ImplementsTrial`, `RunEnds` | 101 786 |
| `arb_deadline_exit` | `MCArbProceeding`, `ArbDeadlineExit.cfg` | `ParticipantsNeverAbort` (violated) | |
| `arb_clerk_kill_lost` | `MCClerkCases`, `ArbClerkKillLost.cfg` | `KillReachesChild` (violated) | |

**`arb_case`.** Five policies. Under the first there is one seat and the sides file: texts
of 0, 1 and 2 characters against a limit of 1; 0 to 2 exhibits and reports a filing against
caps of 2 and 1, both a filing and a side; evidence of 1 and 2 bytes against 1, two ids
against one a side.
Each limit is met from both sides and can be exceeded by two filings that are each within
theirs. The others are councils of two and three seats: unanimity, a bare majority, and a
threshold that is no majority and must be refused; two rounds; rosters with a repeated id
and of wrong length. Three seats and two rounds are the least in which a member leaves in
one round and a majority is still open in the next, and in which the bench falls below the
threshold. The sides of these file no exhibits; their rules do not touch the council.

**`arb_evidence`.** Two uploads and direct submissions in all four turns with evidence, one
content of one byte, two extensions, one piece of evidence a side, one write that fails
anywhere, and deadlines that pass at any step of a call. Two uploads are the least with which a
side passes its limit or the two sides submit the same bytes; a torn chunk that is sent again
makes a part file of two bytes that is not what was announced. That nothing changes with more
contents, uploads and failures is the theorem.

**`arb_turns`.** Two members who must agree, one round, two invalid attempts, one evidence
id a case, every order of requests: silence, stale or repeated requests, malformed ones,
agent deaths, reports whose details name another opportunity, and deadlines. Four machines (`MCMachines`): one on which nothing fails, one
whose evidence file may not be written, one on which the engine may fail at any call, an
event may not be written and the run be interrupted, and one with all of these and answers
that race their deadlines. `TurnIsolation`, `VotesNeverLost` and `RunEnds` hold on each.
`PunctualRunsSucceed` needs answers in time and no fault, not honest reports: one the engine
refuses fails the seat in a second try by the loop. `ImplementsCase` needs answers in
time only, whatever fails; so does `AnswersCurrent` as long as events are written, and
`CertificateKeepsUp` as long as evidence files are. `arb_deadline_exit` shows that the first
condition is needed; observation 1 why the certificate needs the last.

**`arb_registry`.** One case, one cancel request, two deaths of the service: after the first
the restarted service has no handle on the child, after the second it finds what it wrote
itself. The cancel may come at any time, also when the case is over: it reopens the record
then (observation 2), and `DecidedIsFinal` says that nothing else does.

**`arb_clerk`.** Two create requests for one id in two directories, one kill request, one
failure (of a save, a directory, a log or a start) and one death of the service. Two requests
and a death are the least with which an id runs beside its own earlier child, and a late child
writes the `run.json` of a record already reconciled. Two ids that share a directory, and any
number of requests, failures and deaths, are the theorems'.

**`arb_localrun`.** Two lawyers, a panel of one member, two rounds, every fault switched on.
One member in two rounds is the least in which a late agent of one turn meets the next
turn and holds the container name of the agent for it; panels of every size are the
theorem's. What `NothingLeftBehind` excepts is a container whose pid file could not be written
and the credentials of the one start that failed between writing and tracking them; both end
the run in an error.

**`adc_pretrial`.** Eight cases: the two rosters the case generator writes (bench and jury, in a
court that screens jurisdiction),
rosters with every tool or all but one, complaints with and without a jury demand, a
screening under Rule 11 and a pleading defect, one and two dispositive motions a side.
Every optional act is both taken and passed at each place it is offered.

**`adc_jury_selection`.** Five policies: challenges and strikes without questions, questions
with strikes, two jurors with questions, a jury drawn without an oral voir dire, and one juror
with questions in a case the judge may dismiss. In each with a voir dire one juror may time out
and be replaced. The engine's smallest jury is six; the constant is one here, because a panel
must have room for the jury and for every challenge and strike.

**`adc_trial`.** Two of three jurors in two rounds, two of two in three (so that a round can
repeat the one before, which ends a deliberation); and, with no jurisdiction pleaded, one of two
jurors and a bench trial, which the judge may dismiss at any turn. One exhibit a side.
Jurors time out in any round, also below the minimum.

**`adc_turns`.** Two jurors who must agree within two rounds, without exhibits, and a bench
trial in which a side offers up to two of two files; and a jury of one and the bench in cases the
judge may dismiss. Two exhibits are the least with which
the same opportunity is open twice in a row, two jurors and rounds the least in which a
dismissal decides, hangs or reopens a deliberation. Two invalid attempts. The engine and the
store may fail at any call, the run may be interrupted and the server stop. With three
jurors, a majority of two and exhibits for the jury, `ImplementsTrial` was checked once
(510 882 states).

**Fairness.** `ArbCase`: weak fairness of the next step, because the runtime's loop does not
stop before the engine answers terminal. Every accepted request is progress, so no
stronger assumption is needed. `ArbProceeding`: the loop and the handlers are goroutines
that run, the engine process answers or fails, deadlines pass; agents need send nothing.
`CaseRegistry`: goroutines run and the child ends by itself; requests, crashes and
restarts need not happen, and the health poll need not succeed. `ClerkCases`: goroutines
run, grace periods pass and a process that was killed dies; a child need not end or react
to the interrupt. `LocalRun`: `Run` runs, the ticker ticks, the case and the MCP server do
what they are told; agents need neither vote nor exit, turns need not time out. `RoleTurns`:
the loop runs, and its ticker finds a deadline that has passed within a second; roles need
send nothing. The other adc modules: the runner's loop takes turn after turn; who answers a turn, and how, is
open. `CHECK_DEADLOCK FALSE` is set where cases, runs and records end; the liveness
property of each module excludes that anything stops before. The adc runs need it not:
there the end is an explicit `Stop` or `SelectionOver`.

**Mutants.** For every property of a passing run `PROJECT.json` names a deviation from the
code that the property must catch; the deviations stand beside the definitions they
replace, each under a comment that begins with "Deviation".

## What the runs found

1. **A deadline that meets an answer ends the run with an error**
   (`arb_deadline_exit`; `proceeding/lawyerapi.go:159`). The lawyer timer fails the
   opportunity without the lock and without asking whether the turn is complete. When an
   answer has just been accepted, the engine refuses the failure and the process exits
   with an error, although `docs/case-failures.md:35` and `docs/aar-spec.md:17` promise
   that participants cannot cause that. The council branch takes the lock first.
2. **A kill request that comes before the child** (`arb_clerk_kill_lost`;
   `service/clerk.go:501`). A case is listed before its child is started. A kill request in
   between finds no process, signals nothing and answers 200; the child is then started and
   its case set back to running. `arb/manual.md:876` says that a kill interrupts and then
   kills.

Both are found with no fault and no crash.

### Observations

Met while modelling, in the code and, where noted, in the model; no run is devoted to them.

1. The certificate is appended to without the API lock (`proceeding/certificate.go:84`). In
   the race of finding 1 both actions may be computed from one state and both be appended;
   `RacingAppends` has it, and `CertificateKeepsUp` holds only with no late answer. Evidence is
   certified when the engine accepts it, before its files are written (`lawyerapi.go:726`,
   `lawyerapi.go:771`): if a write then fails, the replay holds evidence that the case does
   not have, although `docs/evidence-handling.md:72` says that a failed upload is not
   evidence. When the unlocked timer meets a submission, no write need fail: the failure may be
   stored over evidence already registered, which is then missing from the record of the failed
   case, or the evidence be stored over the failure, so that the case goes on; the certificate has
   both. `CertificateReplays` is stated for cases in which no write failed and no deadline passed
   under a call, and `RecordIsRegistered` excepts the record of a case that failed so.
2. Cancelling a case that has ended sets its record back to `canceling`
   (`service/service.go:604`); `docs/aar-spec.md:53` describes cancelling an active one.
3. Direct cases: saves share one temporary file and copy the record without the lock
   (`service.go:1227`), so an older record may be saved last.
4. `LocalRun`: the ticker's branch returns the error of `startReadyCouncil` when the API was
   shut down in between (`localrun.go:431`), and the result of a closed case is lost;
   `devnotes.md:1407` describes the same race for agent errors only. A pid file that cannot
   be written (1483) leaves a container without a record. A model configuration that fails
   midway (1291), or a mode that cannot be set (1061), leaves credentials on disk that are not
   tracked, so that nothing removes them. Both are in the model, as the two exceptions of
   `NothingLeftBehind`.
5. Clerk: a record that could not be saved is marked failed while its child runs
   (`clerk.go:742`), and a failed case cannot be killed. Two ids with one custom `out_dir`
   may both find it empty (`clerk.go:924`). After a restart only the `clerk.json` of the
   directory a request names is asked about (`clerk.go:383`): an id whose detached child still
   runs is accepted again with another `out_dir`, and two children run under one id.
6. Evidence: a copy to the store that was cut short stays there, and the same bytes are
   refused for the rest of the case (`evidence.go:80`). Without an announced hash, a chunk
   that was written but reported as failed, and was sent again, is admitted twice in one
   file, and the record tells the size that was announced (`evidence.go:512`). The parent
   and method of derived evidence are lost, as it is registered twice and the second time
   refused (`evidence.go:562`); `docs/evidence-handling.md:119` expects them.
7. Council failures: the `details` of a report may replace the opportunity, role, phase and reason
   it is about (`councilapi.go:437`, `failures.go:39`). The engine refuses what is not the open
   turn, and the loop then fails the same seat itself (`councilapi.go:173`); a reason goes through.
8. adc pretrial: opposition and reply to a motion are still offered after the order on it,
   when the step refuses them (`engine/Main.lean:2283`; `adc/manual.md:17`). A Rule 12
   motion granted with leave to amend closes the case, so that the leave cannot be used.
   A denied one obliges the plaintiff to amend (2291). The defendant's own initial
   disclosures are never served when the plaintiff's are on the docket (2449).
9. adc trial: a side that declines its proposed instructions or its closing strands the
   trial, as the phase waits for the filing and nobody is asked again (3012;
   `docs/logic.md:9`). `TrialEnds` states exactly this exception.
10. adc runner: when the event of an act cannot be written, the role is told that its act
   failed, its turn stays open, and every repetition is refused as stale; a juror whose vote
   is in the case may then be dismissed at the deadline (`roleapi.go:832`). If the server
   stops during a turn, nothing but an interrupt ends the run (`roleapi.go:270`). A juror's
   invalid attempts end the whole run (`roleapi.go:867`), while `adc/manual.md:328` speaks
   of dismissal for a juror's failure. `Run` reports its end to clients with an error variable that the failing paths
   do not set (`runner.go:327`), so that a run that failed is told as done;
   `adc/manual.md:261` names a failed status.

## Proofs

The eight modules whose names end in `Proofs` have no unproved step. They assume only the
named assumptions on constants in the modules they extend, which TLC evaluates in every
run, and what a theorem states in its own `ASSUME`.

| Module | Theorem | Statement |
|---|---|---|
| `ArbCaseProofs` | `TypeCorrect` | `Spec => []TypeOK` |
| | `Invariance` | `Spec => []Inv` |
| | `MeritsShapeHolds` | `Spec => []MeritsShape` |
| | `MaterialLimitsHold` | `Spec => []MaterialLimits` |
| | `VoteIntegrityHolds` | `Spec => []VoteIntegrity` |
| | `DecisionIsSound` | `Spec => []DecisionSound` |
| | `NeverStrandedHolds` | `Spec => []NeverStranded` |
| | `UndecidedHolds` | `Spec => []Undecided` |
| | `FailureIsCurrentHolds` | `Spec => FailureIsCurrent` |
| | `FixedFrameProgressHolds` | `Spec => FixedFrameProgress` |
| | `EngineImplementsBallot` | `Spec => ImplementsBallot` |
| `ArbProceedingProofs` | `Invariance` | `Spec => []Inv` |
| | `TurnIsolationHolds` | `Spec => []TurnIsolation` |
| | `AnswersAreCurrent` | `Spec => []AnswersCurrent` |
| | `CertificateIsKept` | `Spec => []CertificateKeepsUp` |
| | `PunctualRunsDoSucceed` | `Spec => []PunctualRunsSucceed` |
| | `VotesAreNeverLost` | `Spec => VotesNeverLost` |
| | `ProceedingImplementsCase` | `Spec => ImplementsCase` |
| `EvidenceUploadsProofs` | `Invariance` | `Spec => []Inv` |
| | `CustodyIsKept` | `Spec => []CustodyKept` |
| `CaseRegistryProofs` | `Invariance`, `TypeCorrect` | `Spec => []Inv`, `[]TypeOK` |
| | `OutcomeIsBacked` | `Spec => []OutcomeBacked` |
| | `ActiveIsOwned` | `Spec => []ActiveHasOwner` |
| | `DecidedStaysFinal` | `Spec => DecidedIsFinal` |
| `ClerkCasesProofs` | `Invariance`, `TypeCorrect` | `Spec => []Inv`, `[]TypeOK` |
| | `EndsAreReal` | `Spec => []EndIsReal` |
| | `ChildrenAreOnRecord` | `Spec => []ChildIsOnRecord` |
| `LocalRunProofs` | `Invariance`, `TypeCorrect` | `Spec => []Inv`, `[]TypeOK` |
| | `NothingIsLeftBehind` | `Spec => []NothingLeftBehind` |
| | `BlameIsJust` | `Spec => []BlamedAgentsAreGone` |
| `BeforeTrialProofs` | `Invariance`, `TypeCorrect` | `Spec => []Inv`, `[]TypeOK` (jury selection) |
| | `JuryVetted` | `Spec => []JuryIsVetted` |
| | `NobodyCutShort` | `Spec => []BothSidesHeard` |
| | `NothingIsLeftUndecided` | `PretrialSpec => []NothingLeftUndecided` |
| | `RulingsAlwaysHeard` | `PretrialSpec => RulingsAreHeard` |
| | `PretrialTypeCorrect` | `PretrialSpec => []PretrialTypeOK` |
| `JuryTrialProofs` | `Invariance`, `TypeCorrect` | `Spec => []Inv`, `[]TypeOK` |
| | `VerdictIsSound` | `Spec => []VerdictSound` |
| | `OutcomeLawful` | `Spec => []OutcomeIsLawful` |
| | `NobodySkipped` | `Spec => NoSideSkipped` |
| | `RolesImplementTrial` | `RunnerSpec => ImplementsTrial` |
| | `RoleVerdictsAreSound` | `RunnerSpec => [](~ unrecorded => VerdictSound /\ OutcomeIsLawful)` |

**ArbCase.** `Inv` adds two parts to the properties. `Frame`
ties status, phase and policy together: only filing phases can fail, a case past its
draft has a valid policy and a full roster. `CouncilReady` says that seats have distinct
ids, that nobody has voted or left before deliberation, and that an open deliberation
has fewer votes in its round than seats. The last part is the heart of it: it says that
`ContinueDeliberation` was applied to every state that needed it, and without it neither
`DecisionSound` nor `NeverStranded` is preserved by a step. Its own preservation rests on
`VoteIntegrity`: votes of a round map one to one into the seats (`VotesFitBench`), so equal
counts mean that everyone has voted, and a seat may leave only without a vote.
`SettleBench` is the lemma about `ContinueDeliberation`: from a consistent
bench it yields either an open round that still waits for a seat or a sound outcome.
`DeliberationStep` turns it into preservation by votes, removals and council failures;
`FilingStep` and `ScheduleAdvances` do the same for filings. `NeverStrandedHolds` follows
from `Inv` by `SomebodyAwaited` (fewer votes than seats leaves a member to ask) and `Least`
(a set of positions has a first one, so `NextCouncilMember` names one). `OutcomeStep` says
what each request does to status and resolution and gives `FailureIsCurrentHolds`;
`ProgressStep` says what each request keeps of the frame.

`EngineImplementsBallot` proves the refinement that the run `arb_case` checks on small
councils. `RoundCounts` is its heart: as every seat has its own id and every member one ballot
a round, counting list entries, as the engine does, is counting members and ballots, as
`CouncilBallot` does, and equal counts mean that bench and voters are the same set.
`SettleIsBallot` then takes `ContinueDeliberation` to `Settle` branch by branch; `VoteIsCast`,
`UnseatIsLeave`, `OnCourseIsBallot` and `FailIsBallot` take each request to `Cast`, `Leave`,
`Convene`, `Abort` or a stutter.

**ArbProceeding.** `Inv` stands in the module itself, so that TLC can check it on the instance
of `arb_turns` (297 880 states). Its first parts hold of every run: `CallsInOrder` says of
every place a call can be at what was read there and that it answers the turn that is open,
`TurnsInOrder` that only the turn the loop waits for is open or has a call under way; they
are `TurnIsolation`. `Exclusive` says what lets the main loop ask the engine while a handler
could: in a council turn the handler is locked out by then, in a lawyer turn it is not, and
its deadline has passed. `NoVotesYet` is why even that race loses no vote: with `Exclusive`
it leaves stale readings to turns of lawyers, when nobody has voted. The later parts are
about punctual runs. `ReadingsFresh` says that what a call has read is still the case when it
is assigned; it needs `DeadlinesFinal`, that a deadline which passed in a punctual run finds
nobody at work and lets nobody in. From it follow `TurnCurrent` (the turn is about the open
opportunity until its answer is stored), hence `AnswersCurrent` (but for a failure report whose
details name another opportunity, which the engine refuses and which changes nothing); `CertificateAhead`, hence
`CertificateKeepsUp`, since the one act the certificate may be ahead by is the one about to
be assigned; and `FailuresTaken`, hence `PunctualRunsSucceed`, since the engine can only
refuse the failure of a turn that is not current. What the engine keeps of a sound case is
proved once for each of its actions (`Sound` of `AfterStep`).

`ProceedingImplementsCase` proves the refinement `arb_turns` checks. The mapping is `st` in a
punctual run and the draft in any other (whether a run is punctual is fixed when it starts),
so runs in which an answer meets its deadline map to one long stutter: of them the theorem
says nothing, and `VotesAreNeverLost` and `TurnIsolationHolds` are what is proved. In a
punctual run only `Assign` and the first steps of the main loop change the case, and
`ReadingsFresh` makes what is assigned the engine's answer to the case as it is (`CaseChanges`,
`StepOfCase`). The theorems about `ArbCase` thereby hold of every punctual run by substitution;
that last inference is not made in the prover, which cannot use the theorems of an
instantiated module.

**EvidenceUploads.** `Inv` stands in the module, so that TLC can check it. `Numbered` says that
evidence carries the number of its place, so that names on the record never meet; `NoneLeftOver`
that until a write fails every file is that of evidence admitted, so that a name is free;
`StoreIsWhole` keeps copies cut short apart from whole ones. `CallIsSound` and `TimerIsSound` say
of each case somebody has read and will store again, changed, that the registry backs it
(`Backed`): so whichever of handler and timer stores last, what is on the record is registered.
`OneAtATime` says that until a deadline passes under a call there is only one of them and what it
read is the case as it is; from it follow `CertIsCurrent`, and that nothing registered is missing.
`CountAdded` is the arithmetic of a side's limit, `AfterFacts` and `RecordedFacts` what an action
does to the case and the certificate; there is a lemma for each action, with `AdmitKeeps` the
long one.

**CaseRegistry.** The outcome of a case is written in five places at once (memory, the copy
of each save, two files, what a restart reads back). `AllBacked` says of every one of them
that the facts bear it out; facts do not go away, so a save that comes late cannot make it
false. `Duties` and `Owners` say which goroutine exists in which status: they give
`ActiveHasOwner` and, with `AllBacked`, that a decided record meets no goroutine that would
decide it otherwise.

**ClerkCases.** `Post` tells, for every place of a request and of the goroutine that waits, who
holds the id; `FreshOf` that a request which listed a record or started a child has put files
into its directory, and found none there before of its id; `Sole` that therefore an id uses a
directory once, and that a directory a single request uses has the `run.json` of its child;
`Truth` follows "completed" from the `run.json` to record, copy, temporary file and `clerk.json`;
`Filed` says whose the files are and that a child is never born before its record is on disk.
`OneRequest` reduces a step to the request it is about. Nothing is assumed of what requests name:
an id may have several directories and a directory several ids, and where the file is the last
writer's the property says so (`Contested`).

**LocalRun.** `Naming` says that a container name only ever has an agent of that name,
`Course` where `Run` may be with what to start, `OnlyStarted` that an agent is on
`councilStarts`, `Swept` what is left once `Run` cleans up, `Accounted` that credentials on disk are
tracked but for those of the one start that failed in between, which ended the run. The hard step is a member's vote
in a round: the next turn is the first open one in the order of rounds and seats, which
exists because numbers are well-founded (`FirstOpportunity`).

**JurySelection** (in `BeforeTrialProofs`). `Settled` says that once a jury is sworn it has the configured size and
only the phase may still change (`OnlyAdvance`: no turn but the judge's advance and dismissal is
open);
`Unstruck` that until then a candidate is somebody no side has struck, so the jurors that
empaneling swears are vetted (`EmpanelingKeepsInv`). `JurorChanged` and `OneJuror` reduce a
question, challenge, strike or time-out to the one juror it changes. `NobodyCutShort` adds a second
invariant on what each side has asked, passed, challenged and struck of each candidate; its
hard cases are those that bring in somebody new, who must be heard before the phase moves on
(`KeptHeard`, `EmpanelingHeard`, `AdvancingHeard`).

**Pretrial** (in `BeforeTrialProofs`). The agendas are tables of 20, 25 and 7 items, so what the
argument needs of them is read off item by item (`FiledItems`, `PretrialItems`,
`PostJudgmentItems`, `PlainFacts`): which item brings which fact, whose it is, and where the
ruling and the transition stand. `Taken` is the runner's rule: the item on turn is the first
open one, so everything before it on its agenda is not open. An item is not open for one of
four reasons, and the invariant `CaseSettled` excludes three of them for an answer that is
owed: the motion that calls for it is on record; the motion came from a role with the tool for
it, so a roster that is `Answerable` has the tool for the answer (`AllBrought`, `Answers`); and
an item that is not optional was not passed (`PassedOptional`). What is left is that the answer
is there (`MustBeAnswered`), and it is so of every item before the transition
(`LeavingFiled`, `LeavingPretrial`). `PleadingsSettled` carries what was true on leaving the
first agenda through the second. The assumption on rosters is the one TLC evaluates; without
it a case goes to trial with its motion undecided, in the code as in the model.
`RulingsAlwaysHeard` needs no invariant beyond `Taken`.
`PretrialTypeCorrect` covers, beside the types, the policy's limit on dispositive motions:
each item records only facts its tool leads to, so only the tools of the two motions can
add one, and `StepAccepts` refuses them at the limit.

**JuryTrial.** `Docketed` tells how a trial came to its phase, `Proper` that ballots of the
round are one each of jurors still sworn. Together they let the number of ballots stand for
the number of jurors when `DeriveVerdict` counts; that only one side has the minimum is what
the rule itself establishes and later time-outs do not undo, since a verdict ends the round.
A dismissal is on the docket of a defective case only and ends it (`DocketStep`), so every other
close is that of a hung jury.
`NobodySkipped` needs no invariant: only the judge's advance changes the phase, and the
agenda opens it when nothing due is left but what was declined since the case last changed.

**RoleTurns** (in `JuryTrialProofs`). `TurnsKept` says that while a turn is open and nothing was
stored since it began, its opportunity is the one the trial has next, and that a turn which is
open although something was stored has lost an event. With the first half every act over the
role API is an act of the trial at its place, with the second nothing is done twice, except
that the deadline may dismiss a juror whose vote lost its event: `RolesImplementTrial` says
exactly this. `RoleVerdictsAreSound` carries the invariant of the trial over, as long as every
event could be written; after a dismissed voter the number of ballots no longer is the number
of jurors, and the theorem says nothing.

**Only model-checked.** Liveness under fairness (`Termination`, `RunEnds`, `CancelSettles`,
`KillSettles`, `OpportunitiesAreServed`, `RunReturns`, `SelectionEnds`, `TrialEnds`,
`PretrialEnds`), which is beyond this prover: it has neither `ENABLED` nor rules for fairness.
Every safety invariant, action property and refinement of a passing run is proved. The two
violations are counterexamples and need no proof.

## Abstractions

*arb*

- A text is its length, an exhibit or report counts, an evidence file is its id and size.
  Model, persona and rationale of a member are left out. Trimming and JSON decoding are
  left out: the engine is called by a runtime that has validated both.
- `ArbProceeding` covers the council backend `api`. With the direct backends the main loop
  asks the model itself and no handler competes with it. Reads, long polls, the observer
  role change no state. The `details` of a failure report may put another opportunity, or one that
  is none, before the engine; that they may also replace the reason it records is left out.
- `ArbProceeding` files texts of one length without exhibits: `ArbCase` covers the limits.
- The certificate is the state its replay ends in, or broken. That loses which actions it
  holds and keeps whether `verify-certificate` accepts it.
- `EvidenceUploads` takes a hash for the content it is the hash of and a chunk for one byte.
  Case files that were there from the start, titles, sources, types, the manifest and the
  event log are left out, and attempts, which `ArbProceeding` counts. A failure that the engine
  refuses, after which the run ends, is left out with what follows it.
- `CaseRegistry` has one case id and saves status and error of a record; the copy a save
  starts from is one step, so a copy that mixes two versions is not represented. The
  first save succeeds (the registry directory can be written). A `run.json` is written
  whole. A child that receives the interrupt is gone at the latest when it is killed.
- `ClerkCases` writes the temporary file in one step (`CaseRegistry` has the truncation).
  The attested branch is left out, and direct cases, whose ids the Clerk also refuses: they have
  `CaseRegistry`. The branch for a
  case that is not attached is left out: the kill route lists, and so reconciles, first.
- `LocalRun` reduces the case to its phase, the open turn and the members removed. Pending
  agent errors are one flag, since taking one ends the run; at most one removal fails;
  creating a container is one step with the start of its command. After cleanup the case
  and the MCP server are no longer observed.

*adc*

- Texts, citations, amounts but damages, reports' contents and participants' errors that
  abort the runner are left out, and `max_turns`: the properties are about runs it does not
  cut short. Steps that no agenda offers are left out, since the runner only takes turns
  that were offered; all that the agendas offer from filing to judgment, the judge's dismissal
  included, are modelled.
- `Pretrial`: a docket title, trace, offer or date is a fact; `filed_on` is given, and the
  alternative that drafts interrogatories by a model is left out.
- `JurySelection`: `SmallestJury` is a constant (six in the engine) and `MaxReplaced` bounds
  replacements. Policies are valid ones.
- `RoleTurns`: support tools, work notes and long polls, which leave the case and the turn's
  fate alone, are left out, and so are scripted turns. The deadline may pass at any time.
  Which role a request comes from is its guard: those of other roles change nothing.
- `JuryTrial`: when a phase or a round ends, the docket and the votes keep what a later rule
  reads.

*Bounds.* `AttemptLimit`, `CrashLimit`, `FaultLimit`, `MaxUploads`,
`MaxFaults`, `Clients`, `Requests`, `Killers`, `Rounds` and `MaxReplaced` bound retries, crashes, failures,
uploads, requests, rounds and replacements; policies,
rosters and courts bound seats, rounds and amounts.

## Not modelled

- **Evidence reads**: the budget of bytes a side may read and the copies made for an agent.
  They change nothing of the case.
- **arbd**: its council answers with grades; phases, turns and service are arb's.
- **Attested runs and council replay** (`clerk_attested.go`, `council_replay.go`), packet,
  prompts, options, preflight, the MCP gateway: preparation and translation of inputs.
- **adc's store and service, its role API during pretrial and jury selection**: `RoleTurns`
  has the protocol of a turn over the trial; the other two modules have what an answer does
  to a case, not how it reaches it.
- **vmcp**: stated and proved in Lean in this repository.
- **common, web, evals**: clients of external services, presentation, offline scripts.

## Plan

1. A graded council for arbd, with an abstract panel beside `CouncilBallot`.
2. Proofs: of the liveness properties the safety half, that each module's measure of progress
   never grows.
3. `RoleTurns` over `JurySelection`, where a time-out replaces a candidate in two steps.
4. New modules keep to the bounds above: one case, two actors that compete, one retry or
   crash more than the code needs to go wrong.
