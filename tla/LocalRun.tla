------------------------------ MODULE LocalRun ------------------------------
(***************************************************************************)
(* `aar run` (src/arb/runtime/localrun/localrun.go): one process that runs *)
(* a case and its MCP server in goroutines, starts a container for each    *)
(* lawyer and, once a second, one for each council opportunity it finds    *)
(* ready, watches all of them, and must in the end return the result of    *)
(* the case and leave neither containers nor staged secrets behind.        *)
(*                                                                         *)
(* The case itself is ArbProceeding; here it is reduced to what the        *)
(* supervisor sees of it: its phase, the council opportunity that is open, *)
(* whether its private API answers, and the outcome sent on caseDone.      *)
(***************************************************************************)
EXTENDS Naturals, Sequences, FiniteSets

CONSTANTS
  AutoLawyers,   \* the roles whose lawyer is started here: opts.AutoLawyers
  Panel,         \* the council members, a sequence in the order of their turns
  Rounds,        \* bound on deliberation rounds
  Faults         \* what may go wrong: "case", "mcp", "agent", "rm", "start", "interrupt"

Roles == {"plaintiff", "defendant"}

Members == {Panel[i] : i \in DOMAIN Panel}

ASSUME LocalRunAssumption ==
  /\ AutoLawyers \subseteq Roles
  /\ Panel \in Seq(Members)
  /\ Rounds \in Nat \ {0}
  /\ Faults \subseteq {"case", "mcp", "agent", "rm", "start", "interrupt"}

\* A council opportunity is a turn of a member in a round; each has its agent.
Opportunities == Members \X (1..Rounds)

Lawyers == AutoLawyers \X {0}

Agents == Lawyers \cup Opportunities

NoAgent == <<>>

\* The name of an agent's container has the member in it but not the round.
NameOf(a) == a[1]

Names == AutoLawyers \cup Members

VARIABLES
  runner,      \* pc of Run, the opportunity it is starting an agent for, and what it returns
  cancelled,   \* runCtx is cancelled
  case,        \* where proceeding.Run is, the open opportunity, members removed
  outcome,     \* caseDone: is there an outcome, and which
  mcp,         \* the MCP server, until its end is taken from mcpDone
  agent,       \* the process of each agent and the goroutine that waits for it
  container,   \* which agent runs under each container name
  starts,      \* councilStarts
  failed,      \* is there an error in agentErrs?  Taking one ends Run, so they need no count
  secrets,     \* names with credentials on disk, names whose credentials are tracked for
               \* removal, and (history) the name that failed between the two
  blamed       \* history: opportunities failed by a report of this supervisor

vars == <<runner, cancelled, case, outcome, mcp, agent, container, starts, failed, secrets, blamed>>

Init ==
  /\ runner = [pc |-> "api", target |-> NoAgent, result |-> "none",
               leftovers |-> {}]
  /\ cancelled = FALSE
  /\ case = [at |-> "booting", turn |-> NoAgent, removed |-> {}]
  /\ outcome = "none"
  /\ mcp = "off"
  /\ agent = [a \in Agents |-> "none"]
  /\ container = [n \in Names |-> NoAgent]
  /\ starts = {}
  /\ failed = FALSE
  /\ secrets = [staged |-> {}, tracked |-> {}, torn |-> {}]
  /\ blamed = {}

\* The private case API is served until proceeding.Run shuts it down.
ApiUp == case.at \in {"merits", "council", "closed"}

At(pc) == runner.pc = pc

\* Run, cleaning up, no longer looks at the case and its server.
Observed == runner.pc \notin {"stop", "cleanup", "returned"}

-----------------------------------------------------------------------------
(* proceeding.Run, seen from outside.                                      *)

CaseOpens ==
  /\ Observed
  /\ case.at = "booting"
  /\ case' = [case EXCEPT !.at = "merits"]
  /\ UNCHANGED <<runner, cancelled, outcome, mcp, agent, container, starts, failed, secrets, blamed>>

\* The seats that come after a turn, in this round and the next one.
After(m, r) ==
  LET seat == CHOOSE i \in DOMAIN Panel : Panel[i] = m
      rest == {<<Panel[i], r>> : i \in {j \in DOMAIN Panel : j > seat}} IN
    rest \cup (IF r < Rounds THEN {<<x, r + 1>> : x \in Members} ELSE {})

Before(o, p) ==
  \/ o[2] < p[2]
  \/ o[2] = p[2] /\ \E i, j \in DOMAIN Panel : i < j /\ Panel[i] = o[1] /\ Panel[j] = p[1]

\* The next turn of a member who has not been removed, or the end.
Turned(next, removed) ==
  LET open == {o \in next : o[1] \notin removed} IN
    IF open = {} THEN [at |-> "closed", turn |-> NoAgent, removed |-> removed]
    ELSE [at |-> "council", removed |-> removed,
          turn |-> CHOOSE o \in open : \A p \in open \ {o} : Before(o, p)]

Closed(removed) == [at |-> "closed", turn |-> NoAgent, removed |-> removed]

\* The lawyers have filed, or one has failed the case.
MeritsEnd ==
  /\ Observed
  /\ case.at = "merits"
  /\ case' \in {Turned(Members \X {1}, {}), Closed({})}
  /\ UNCHANGED <<runner, cancelled, outcome, mcp, agent, container, starts, failed, secrets, blamed>>

\* Any running agent of the member can answer for it.
Vote ==
  /\ Observed
  /\ case.at = "council"
  /\ container[case.turn[1]] # NoAgent
  /\ case' \in {Turned(After(case.turn[1], case.turn[2]), case.removed), Closed(case.removed)}
  /\ UNCHANGED <<runner, cancelled, outcome, mcp, agent, container, starts, failed, secrets, blamed>>

\* What the removal of the member whose turn it is makes of the case.
Removed ==
  LET removed == case.removed \cup {case.turn[1]} IN
    {Turned(After(case.turn[1], case.turn[2]), removed), Closed(removed)}

TurnTimesOut ==
  /\ Observed
  /\ case.at = "council"
  /\ case' \in Removed
  /\ UNCHANGED <<runner, cancelled, outcome, mcp, agent, container, starts, failed, secrets, blamed>>

\* The deferred shutdown of the API comes before the outcome is sent.
CaseShutsDown ==
  /\ Observed
  /\ \/ case.at = "closed"
     \/ case.at \in {"booting", "merits", "council"} /\ (cancelled \/ "case" \in Faults)
  /\ case' = [case EXCEPT !.at = IF case.at = "closed" THEN "down" ELSE "aborted"]
  /\ UNCHANGED <<runner, cancelled, outcome, mcp, agent, container, starts, failed, secrets, blamed>>

CaseReturns ==
  /\ Observed
  /\ case.at \in {"down", "aborted"}
  /\ outcome' = IF case.at = "down" THEN "ok" ELSE "error"
  /\ case' = [case EXCEPT !.at = "returned"]
  /\ UNCHANGED <<runner, cancelled, mcp, agent, container, starts, failed, secrets, blamed>>

-----------------------------------------------------------------------------
(* mcp.Run: it ends when it is told to, or by a fault.                     *)

McpEnds ==
  /\ Observed
  /\ mcp = "up"
  /\ \/ cancelled /\ mcp' = "stopped"
     \/ "mcp" \in Faults /\ mcp' = "failed"
  /\ UNCHANGED <<runner, cancelled, case, outcome, agent, container, starts, failed, secrets, blamed>>

McpEnded == mcp \in {"stopped", "failed"}

-----------------------------------------------------------------------------
(* Run: every select takes any of the channels that are ready.             *)

Goto(pc) == runner' = [runner EXCEPT !.pc = pc]

\* Every error path cancels runCtx before the deferred cleanup.
GiveUp ==
  /\ cancelled' = TRUE
  /\ runner' = [runner EXCEPT !.pc = "stop", !.result = "error"]

\* ctx is cancelled by the operator; the selects notice it.
Interrupt ==
  /\ "interrupt" \in Faults
  /\ ~ cancelled
  /\ Observed
  /\ cancelled' = TRUE
  /\ UNCHANGED <<runner, case, outcome, mcp, agent, container, starts, failed, secrets, blamed>>

Interrupted ==
  /\ cancelled
  /\ runner.pc \in {"api", "mcp", "delay", "roster", "loop"}
  /\ GiveUp
  /\ UNCHANGED <<case, outcome, mcp, agent, container, starts, failed, secrets, blamed>>

\* waitForCaseAPI, waitForMCP and waitForCouncilRoster: the case ends too early.
CaseEndsEarly ==
  /\ runner.pc \in {"api", "mcp", "roster"}
  /\ outcome # "none"
  /\ outcome' = "none"
  /\ GiveUp
  /\ UNCHANGED <<case, mcp, agent, container, starts, failed, secrets, blamed>>

McpEndsEarly ==
  /\ runner.pc \in {"mcp", "roster", "loop"}
  /\ McpEnded
  /\ mcp' = "taken"
  /\ GiveUp
  /\ UNCHANGED <<case, outcome, agent, container, starts, failed, secrets, blamed>>

ApiHealthy ==
  /\ At("api")
  /\ ApiUp
  /\ Goto("mcp")
  /\ mcp' = "up"
  /\ UNCHANGED <<cancelled, case, outcome, agent, container, starts, failed, secrets, blamed>>

FirstLawyer == IF "plaintiff" \in AutoLawyers THEN "plaintiff"
               ELSE IF "defendant" \in AutoLawyers THEN "defendant" ELSE "roster"

McpHealthy ==
  /\ At("mcp")
  /\ mcp = "up"
  /\ Goto(FirstLawyer)
  /\ UNCHANGED <<cancelled, case, outcome, mcp, agent, container, starts, failed, secrets, blamed>>

\* writePiConfig and stageOpenClawCodexAuth write credentials; they are tracked after it.
StagedAndTracked(n) ==
  secrets' = [secrets EXCEPT !.staged = @ \cup {n}, !.tracked = @ \cup {n}]

StagedOnly(n) ==
  secrets' = [secrets EXCEPT !.staged = @ \cup {n}, !.torn = {n}]

\* startProcess: with a name that is taken the runtime refuses to start a container.
Started(a) ==
  /\ agent' = [agent EXCEPT ![a] = "running"]
  /\ container' = [container EXCEPT ![NameOf(a)] = IF @ = NoAgent THEN a ELSE @]
  /\ StagedAndTracked(NameOf(a))

\* startOpenClawLawyer.
StartLawyer(role) ==
  /\ At(role)
  /\ Started(<<role, 0>>)
  /\ Goto(IF role = "plaintiff" /\ "defendant" \in AutoLawyers THEN "delay" ELSE "roster")
  /\ UNCHANGED <<cancelled, case, outcome, mcp, starts, failed, blamed>>

\* The agent that Run is starting.
Starting == IF At("start") THEN runner.target ELSE <<runner.pc, 0>>

\* A start fails with nothing written, with credentials written that are not
\* tracked, or after that.
StartFails ==
  /\ "start" \in Faults
  /\ runner.pc \in Roles \cup {"start"}
  /\ LET n == NameOf(Starting) IN
       UNCHANGED secrets \/ StagedOnly(n) \/ StagedAndTracked(n)
  /\ GiveUp
  /\ UNCHANGED <<case, outcome, mcp, agent, container, starts, failed, blamed>>

\* The pid file cannot be written: the command is killed, its container is not
\* removed, and startProcess returns no record of it.
PidNotWritten ==
  /\ "start" \in Faults
  /\ runner.pc \in Roles \cup {"start"}
  /\ container' = [container EXCEPT ![NameOf(Starting)] = IF @ = NoAgent THEN Starting ELSE @]
  /\ StagedAndTracked(NameOf(Starting))
  /\ GiveUp
  /\ UNCHANGED <<case, outcome, mcp, agent, starts, failed, blamed>>

\* waitOpenClawStartDelay.
DelayOver ==
  /\ At("delay")
  /\ Goto("defendant")
  /\ UNCHANGED <<cancelled, case, outcome, mcp, agent, container, starts, failed, secrets, blamed>>

\* In the start delay and while the roster is awaited an agent's error is final.
AgentFailsEarly ==
  /\ runner.pc \in {"delay", "roster"}
  /\ failed
  /\ GiveUp
  /\ UNCHANGED <<case, outcome, mcp, agent, container, starts, failed, secrets, blamed>>

RosterRead ==
  /\ At("roster")
  /\ ApiUp
  /\ Goto("loop")
  /\ UNCHANGED <<cancelled, case, outcome, mcp, agent, container, starts, failed, secrets, blamed>>

-----------------------------------------------------------------------------
(* The main loop.                                                          *)

\* Deviation: the MCP server is awaited without being told to stop.
TakeOutcomeOnly ==
  /\ At("loop") \/ At("grace")
  /\ outcome # "none"
  /\ runner' = [runner EXCEPT !.pc = "mcpWait", !.result = outcome]
  /\ outcome' = "none"
  /\ UNCHANGED <<cancelled, case, mcp, agent, container, starts, failed, secrets, blamed>>

TakeOutcome ==
  /\ At("loop") \/ At("grace")
  /\ outcome # "none"
  /\ cancelled' = TRUE
  /\ runner' = [runner EXCEPT !.pc = "mcpWait", !.result = outcome]
  /\ outcome' = "none"
  /\ UNCHANGED <<case, mcp, agent, container, starts, failed, secrets, blamed>>

\* Blocks until mcp.Run has returned; the summary is written unless that failed.
McpAwaited ==
  /\ At("mcpWait")
  /\ McpEnded
  /\ mcp' = "taken"
  /\ runner' = [runner EXCEPT !.pc = "stop", !.result = IF mcp = "failed" THEN "error" ELSE @]
  /\ UNCHANGED <<cancelled, case, outcome, agent, container, starts, failed, secrets, blamed>>

TakeAgentError ==
  /\ At("loop")
  /\ failed
  /\ Goto("grace")
  /\ UNCHANGED <<cancelled, case, outcome, mcp, agent, container, starts, failed, secrets, blamed>>

\* waitForCaseOutcome: defaultAgentErrorCaseWait is over.
GraceOver ==
  /\ At("grace")
  /\ GiveUp
  /\ UNCHANGED <<case, outcome, mcp, agent, container, starts, failed, secrets, blamed>>

\* Deviation: a member is given an agent for its first opportunity only.
UnservedMember(o) == \A s \in starts : s[1] # o[1]

\* councilStarts remembers opportunities.
Unserved(o) == o \notin starts

\* councilTicker and startReadyCouncil: ask for each member, start what is new.
Tick ==
  /\ At("loop")
  /\ case.at = "council" /\ ~ cancelled
  /\ Unserved(case.turn)
  /\ starts' = starts \cup {case.turn}
  /\ runner' = [runner EXCEPT !.pc = "start", !.target = case.turn]
  /\ UNCHANGED <<cancelled, case, outcome, mcp, agent, container, failed, secrets, blamed>>

\* An API that does not answer is an error like any other.
TickFails ==
  /\ At("loop")
  /\ ~ ApiUp \/ cancelled
  /\ GiveUp
  /\ UNCHANGED <<case, outcome, mcp, agent, container, starts, failed, secrets, blamed>>

\* startPiCouncil; the opportunity may be over by now.
StartCouncil ==
  /\ At("start")
  /\ Started(runner.target)
  /\ Goto("loop")
  /\ UNCHANGED <<cancelled, case, outcome, mcp, starts, failed, blamed>>

-----------------------------------------------------------------------------
(* The deferred cleanup.                                                   *)

\* A process whose container is removed ends, and its goroutine sees runCtx cancelled.
Stopped(names) ==
  /\ container' = [n \in Names |-> IF n \in names THEN NoAgent ELSE container[n]]
  /\ agent' = [a \in Agents |->
       IF agent[a] = "running" /\ NameOf(a) \in names THEN "over" ELSE agent[a]]

ProcessNames == {NameOf(a) : a \in {b \in Agents : agent[b] # "none"}}

\* Deviation: the container of a process that has exited is not removed.
StopRunning ==
  /\ At("stop")
  /\ Stopped({NameOf(a) : a \in {b \in Agents : agent[b] = "running"}})
  /\ Goto("cleanup")
  /\ UNCHANGED <<cancelled, case, outcome, mcp, starts, failed, secrets, blamed>>

\* stopAgents: a removal that fails (one at most, here) is reported in the error of Run.
StopAgents ==
  /\ At("stop")
  /\ \E kept \in {{}} \cup IF "rm" \in Faults THEN {{n} : n \in ProcessNames} ELSE {} :
       /\ Stopped(ProcessNames \ kept)
       /\ runner' = [runner EXCEPT !.pc = "cleanup",
                        !.leftovers = IF kept = {} THEN {} ELSE {"container"}]
  /\ UNCHANGED <<cancelled, case, outcome, mcp, starts, failed, secrets, blamed>>

\* cleanupSecrets: so is a removal of credentials.
CleanUp ==
  /\ At("cleanup")
  /\ \E kept \in {{}} \cup IF "rm" \in Faults THEN {{n} : n \in secrets.tracked} ELSE {} :
       /\ secrets' = [secrets EXCEPT !.staged = @ \ (secrets.tracked \ kept)]
       /\ runner' = [runner EXCEPT !.pc = "returned",
                        !.leftovers = @ \cup IF kept = {} THEN {} ELSE {"secret"}]
  /\ UNCHANGED <<cancelled, case, outcome, mcp, agent, container, starts, failed, blamed>>

-----------------------------------------------------------------------------
(* The goroutine that waits for a process, until Run has returned and with *)
(* it the whole process is over.                                           *)

\* The process is over; with runCtx cancelled nobody asks why.
Ended(a) == agent' = [agent EXCEPT ![a] = IF cancelled THEN "over" ELSE "check"]

Vacated(a) == [container EXCEPT ![NameOf(a)] = IF @ = a THEN NoAgent ELSE @]

\* An agent ends by itself, is stopped at its output limit, or was refused its name.
AgentExits(a) ==
  /\ ~ At("returned")
  /\ agent[a] = "running"
  /\ container' = Vacated(a)
  /\ Ended(a)
  /\ UNCHANGED <<runner, cancelled, case, outcome, mcp, starts, failed, secrets, blamed>>

\* runCtx kills the command, not the container.
CommandKilled(a) ==
  /\ ~ At("returned")
  /\ agent[a] = "running"
  /\ cancelled
  /\ agent' = [agent EXCEPT ![a] = "over"]
  /\ UNCHANGED <<runner, cancelled, case, outcome, mcp, container, starts, failed, secrets, blamed>>

\* monitorCouncilOutput cannot remove the container and kills the command.
LimitKills(a) ==
  /\ ~ At("returned")
  /\ "rm" \in Faults
  /\ a \in Opportunities
  /\ agent[a] = "running"
  /\ Ended(a)
  /\ failed' = TRUE
  /\ UNCHANGED <<runner, cancelled, case, outcome, mcp, container, starts, secrets, blamed>>

Over(a) == agent' = [agent EXCEPT ![a] = "over"]

\* A lawyer's process that fails is an error in every phase.
LawyerFails(a) ==
  /\ ~ At("returned")
  /\ "agent" \in Faults
  /\ a \in Lawyers /\ agent[a] = "check"
  /\ failed' = TRUE
  /\ Over(a)
  /\ UNCHANGED <<runner, cancelled, case, outcome, mcp, container, starts, secrets, blamed>>

\* handleOpenClawLawyerExit: the case is asked when the process is gone.
LawyerCheck(a) ==
  /\ ~ At("returned")
  /\ a \in Lawyers /\ agent[a] = "check"
  /\ failed' = (failed \/ case.at \notin {"council", "closed"})
  /\ Over(a)
  /\ UNCHANGED <<runner, cancelled, case, outcome, mcp, container, starts, secrets, blamed>>

\* Deviation: the open opportunity of the member is reported, whichever it is.
CouncilCheckMember(a) ==
  /\ ~ At("returned")
  /\ a \in Opportunities /\ agent[a] = "check"
  /\ IF case.at = "council" /\ case.turn[1] = a[1] /\ case.turn \notin blamed
       THEN /\ case' \in Removed
            /\ blamed' = blamed \cup {case.turn}
       ELSE UNCHANGED <<case, blamed>>
  /\ Over(a)
  /\ UNCHANGED <<runner, cancelled, outcome, mcp, container, starts, failed, secrets>>

\* handleCouncilProcessExit: is its opportunity still open?
CouncilCheck(a) ==
  /\ ~ At("returned")
  /\ a \in Opportunities /\ agent[a] = "check"
  /\ agent' = [agent EXCEPT ![a] = IF case.at = "council" /\ case.turn = a /\ ~ cancelled
                                     THEN "report" ELSE "over"]
  /\ failed' = (failed \/ ~ ApiUp)
  /\ UNCHANGED <<runner, cancelled, case, outcome, mcp, container, starts, secrets, blamed>>

\* reportCouncilFailure: the case takes it only for the opportunity that is open.
Report(a) ==
  /\ ~ At("returned")
  /\ agent[a] = "report"
  /\ IF case.at = "council" /\ case.turn = a /\ ~ cancelled
       THEN /\ case' \in Removed
            /\ blamed' = blamed \cup {a}
            /\ UNCHANGED failed
       ELSE /\ failed' = TRUE
            /\ UNCHANGED <<case, blamed>>
  /\ Over(a)
  /\ UNCHANGED <<runner, cancelled, outcome, mcp, container, starts, secrets>>

-----------------------------------------------------------------------------

Case == CaseOpens \/ MeritsEnd \/ Vote \/ TurnTimesOut \/ CaseShutsDown \/ CaseReturns

Run ==
  \/ Interrupted \/ CaseEndsEarly \/ McpEndsEarly \/ ApiHealthy \/ McpHealthy
  \/ \E role \in Roles : StartLawyer(role)
  \/ StartFails \/ PidNotWritten \/ DelayOver \/ AgentFailsEarly \/ RosterRead
  \/ TakeOutcome \/ McpAwaited \/ TakeAgentError \/ GraceOver
  \/ Tick \/ TickFails \/ StartCouncil
  \/ StopAgents \/ CleanUp

Watch(a) ==
  \/ CommandKilled(a) \/ LawyerFails(a) \/ LawyerCheck(a) \/ CouncilCheck(a) \/ Report(a)

Next ==
  \/ Case \/ McpEnds \/ Interrupt \/ Run
  \/ \E a \in Agents : AgentExits(a) \/ LimitKills(a) \/ Watch(a)

Spec == Init /\ [][Next]_vars

(***************************************************************************)
(* Run runs, the ticker ticks, the case opens its API and winds up once it *)
(* is closed or cancelled, and the MCP server stops when told to.  Nothing *)
(* makes agents vote or exit, turns time out or the operator interrupt;    *)
(* that a case closes is ArbProceeding's RunEnds.  Each of these steps is  *)
(* taken a bounded number of times, so that fairness to the two groups is  *)
(* fairness to each step.                                                  *)
(***************************************************************************)
Told ==
  \/ CaseOpens \/ CaseReturns
  \/ (case.at = "closed" \/ cancelled) /\ CaseShutsDown
  \/ cancelled /\ McpEnds

FairSpec ==
  /\ Spec
  /\ WF_vars(Told) /\ WF_vars(Run)

-----------------------------------------------------------------------------
\* Type correctness of the supervisor, the case and the processes.
TypeOK ==
  /\ runner \in [pc : {"api", "mcp", "delay", "roster", "loop", "start", "grace", "mcpWait",
                       "stop", "cleanup", "returned"} \cup Roles,
                 target : Opportunities \cup {NoAgent},
                 result : {"none", "ok", "error"},
                 leftovers : SUBSET {"container", "secret"}]
  /\ cancelled \in BOOLEAN
  /\ case \in [at : {"booting", "merits", "council", "closed", "down", "aborted", "returned"},
               turn : Opportunities \cup {NoAgent}, removed : SUBSET Members]
  /\ outcome \in {"none", "ok", "error"}
  /\ mcp \in {"off", "up", "stopped", "failed", "taken"}
  /\ agent \in [Agents -> {"none", "running", "check", "report", "over"}]
  /\ container \in [Names -> Agents \cup {NoAgent}]
  /\ starts \subseteq Opportunities
  /\ failed \in BOOLEAN
  /\ secrets \in [staged : SUBSET Names, tracked : SUBSET Names, torn : SUBSET Names]
  /\ blamed \subseteq Opportunities

(***************************************************************************)
(* However a run ends, it leaves nothing behind (arb/manual.md:1126): when *)
(* Run has returned without reporting what it could not remove, no         *)
(* container of it runs, not even one whose command was killed or whose    *)
(* name a later agent asked for, and no staged credentials are on disk.    *)
(* Two exceptions, both of a start that fails and so ends the run: the     *)
(* container that startProcess kept no record of because its pid file      *)
(* could not be written, and the credentials of the one agent whose        *)
(* staging failed before they were tracked.                                *)
(***************************************************************************)
NothingLeftBehind ==
  At("returned") =>
    /\ \/ "container" \in runner.leftovers
       \/ \A n \in Names : container[n] # NoAgent => agent[container[n]] = "none"
    /\ \/ "secret" \in runner.leftovers
       \/ secrets.staged \subseteq secrets.torn \ secrets.tracked
    /\ secrets.torn # {} => runner.result = "error" /\ \E n \in Names : secrets.torn = {n}

(***************************************************************************)
(* A member loses its seat by a report of the supervisor only for the      *)
(* agent that was started for that very opportunity and is gone; an agent  *)
(* of an earlier round that ends late does not cost the member the next.   *)
(***************************************************************************)
BlamedAgentsAreGone ==
  \A o \in blamed : agent[o] \in {"report", "over"}

(***************************************************************************)
(* Every council opportunity is served: when one is open, an agent is      *)
(* started for it, also in a later round, unless the opportunity or the    *)
(* run is over first.                                                      *)
(***************************************************************************)
OpportunitiesAreServed ==
  \A o \in Opportunities :
    (case.turn = o) ~> (o \in starts \/ case.turn # o \/ At("returned"))

(***************************************************************************)
(* Run returns once the case has closed or the run was cancelled: nobody   *)
(* waits for an outcome another select has taken or for a server that was  *)
(* not told to stop.                                                       *)
(***************************************************************************)
RunReturns ==
  (case.at = "closed" \/ cancelled) ~> At("returned")
=============================================================================
