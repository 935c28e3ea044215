--------------------------- MODULE LocalRunProofs ---------------------------
(***************************************************************************)
(* What a supervised run guarantees for every panel, number of rounds and  *)
(* choice of lawyers started here, and under any of the faults.            *)
(***************************************************************************)
EXTENDS LocalRun, WellFoundedInduction, TLAPS

-----------------------------------------------------------------------------
(* The next turn.                                                          *)

\* Every set of numbers has a least one.
LEMMA LeastNumber ==
  ASSUME NEW T \in SUBSET Nat, T # {}
  PROVE  \E x \in T : \A y \in T : x <= y
<1>1. PICK x \in T : \A y \in T : <<y, x>> \notin OpToRel(<, Nat)
  BY NatLessThanWellFounded, WFMin
<1>2. ASSUME NEW y \in T PROVE x <= y
  <2>1. y \in Nat /\ x \in Nat
    OBVIOUS
  <2>2. ~ (y < x)
    BY <1>1, <2>1 DEF OpToRel
  <2>. QED BY <2>1, <2>2
<1>. QED BY <1>2

\* Every set of opportunities has a first one.
LEMMA FirstOpportunity ==
  ASSUME NEW open \in SUBSET Opportunities, open # {}
  PROVE  \E o \in open : \A p \in open \ {o} : Before(o, p)
<1>. DEFINE RoundsOf == {o[2] : o \in open}
<1>1. /\ DOMAIN Panel \subseteq Nat
      /\ \A o \in open : o[2] \in Nat /\ \E i \in DOMAIN Panel : Panel[i] = o[1]
      /\ \A o \in open : o = <<o[1], o[2]>>
  BY LocalRunAssumption DEF Opportunities, Members
<1>2. PICK r \in RoundsOf : \A s \in RoundsOf : r <= s
  <2>1. RoundsOf \in SUBSET Nat /\ RoundsOf # {}
    BY <1>1
  <2>. HIDE DEF RoundsOf
  <2>. QED BY <2>1, LeastNumber
<1>. DEFINE Seats == {i \in DOMAIN Panel : <<Panel[i], r>> \in open}
<1>3. Seats # {} /\ Seats \subseteq Nat
  BY <1>1
<1>4. PICK i \in Seats : \A j \in Seats : i <= j
  BY <1>3, LeastNumber
<1>. DEFINE o == <<Panel[i], r>>
<1>5. ASSUME NEW p \in open, p # o PROVE Before(o, p)
  <2>1. CASE p[2] = r
    <3>1. PICK j \in DOMAIN Panel : Panel[j] = p[1]
      BY <1>1
    <3>2. p = <<Panel[j], r>>
      BY <1>1, <2>1, <3>1
    <3>3. j \in Seats /\ j # i
      BY <1>5, <3>2
    <3>4. i < j
      BY <1>1, <1>4, <3>3
    <3>. QED BY <2>1, <3>1, <3>4, <1>4 DEF Before
  <2>2. CASE p[2] # r
    <3>1. r <= p[2] /\ r \in Nat /\ p[2] \in Nat
      BY <1>1, <1>2
    <3>. QED BY <2>2, <3>1 DEF Before
  <2>. QED BY <2>1, <2>2
<1>. QED BY <1>4, <1>5

-----------------------------------------------------------------------------
(* The inductive invariant.                                                *)

\* A container runs the agent its name was given to.
Naming == \A n \in Names : container[n] # NoAgent => NameOf(container[n]) = n

\* Where Run is tells what it may start.
Course ==
  /\ runner.pc \in Roles => runner.pc \in AutoLawyers
  /\ At("delay") => "defendant" \in AutoLawyers
  /\ At("start") => runner.target \in starts /\ agent[runner.target] = "none"
  /\ case.at = "council" => case.turn \in Opportunities

\* Only what is on councilStarts has an agent.
OnlyStarted == \A o \in Opportunities : agent[o] # "none" => o \in starts

\* After the removal of the containers only unrecorded ones are left, after
\* that of the credentials only untracked ones.
Swept ==
  /\ runner.pc \in {"cleanup", "returned"} =>
       \/ "container" \in runner.leftovers
       \/ \A n \in Names : container[n] # NoAgent => agent[container[n]] = "none"
  /\ At("returned") =>
       \/ "secret" \in runner.leftovers
       \/ secrets.staged \cap secrets.tracked = {}

Ending == {"stop", "cleanup", "returned"}

\* Credentials are tracked, but for those whose staging ended the run.
Accounted ==
  /\ secrets.staged \subseteq secrets.tracked \cup secrets.torn
  /\ secrets.torn # {} =>
       /\ runner.pc \in Ending /\ runner.result = "error"
       /\ \E n \in Names : secrets.torn = {n}

Inv == TypeOK /\ Naming /\ Course /\ OnlyStarted /\ Swept /\ Accounted /\ BlamedAgentsAreGone

-----------------------------------------------------------------------------
(* Agents, names and what the case may become.                             *)

\* What is an agent, a lawyer and an opportunity, and what each is called.
LEMMA AgentFacts ==
  /\ Opportunities \subseteq Agents /\ NoAgent \notin Agents
  /\ \A a \in Agents : NameOf(a) \in Names
  /\ \A role \in AutoLawyers : <<role, 0>> \in Agents \ Opportunities
  /\ \A a \in Lawyers : a \in Agents \ Opportunities
  /\ \A a \in Agents \ Opportunities : a \in Lawyers
BY LocalRunAssumption DEF Agents, Opportunities, Lawyers, Names, NameOf, NoAgent

CaseType ==
  [at : {"booting", "merits", "council", "closed", "down", "aborted", "returned"},
   turn : Opportunities \cup {NoAgent}, removed : SUBSET Members]

CaseOK(c) == c \in CaseType /\ (c.at = "council" => c.turn \in Opportunities)

\* The case after a turn is closed, or at the turn of a member.
LEMMA TurnedOK ==
  ASSUME NEW next \in SUBSET Opportunities, NEW removed \in SUBSET Members
  PROVE  CaseOK(Turned(next, removed)) /\ CaseOK(Closed(removed))
<1>. DEFINE open == {o \in next : o[1] \notin removed}
            first == CHOOSE o \in open : \A p \in open \ {o} : Before(o, p)
<1>1. CASE open = {}
  BY <1>1 DEF Turned, Closed, CaseOK, CaseType
<1>2. CASE open # {}
  <2>1. first \in Opportunities
    BY <1>2, FirstOpportunity
  <2>. QED BY <1>2, <2>1 DEF Turned, Closed, CaseOK, CaseType
<1>. QED BY <1>1, <1>2

\* Every opportunity the case goes on to is one of the panel or the sides.
LEMMA AfterOK ==
  ASSUME NEW o \in Opportunities
  PROVE  After(o[1], o[2]) \in SUBSET Opportunities /\ Members \X {1} \in SUBSET Opportunities
<1>1. o[1] \in Members /\ o[2] \in 1..Rounds /\ Rounds \in Nat \ {0}
  BY LocalRunAssumption DEF Opportunities
<1>. QED BY <1>1 DEF After, Opportunities, Members

\* A member that is removed leaves a case that is still well formed.
LEMMA RemovedOK ==
  ASSUME Inv, case.at = "council"
  PROVE  \A c \in Removed : CaseOK(c)
<1>1. case.turn \in Opportunities /\ case.turn[1] \in Members /\ case.removed \in SUBSET Members
  BY DEF Inv, Course, TypeOK, Opportunities
<1>. QED BY <1>1, TurnedOK, AfterOK DEF Removed

-----------------------------------------------------------------------------
(* Every step preserves the invariant.                                     *)

Rest == <<runner, cancelled, mcp, agent, container, starts, failed, secrets, blamed>>

\* proceeding.Run changes the case and sends its outcome, nothing else.
LEMMA CaseStep ==
  ASSUME Inv, CaseOK(case'), outcome' \in {"none", "ok", "error"}, UNCHANGED Rest
  PROVE  Inv'
<1>1. TypeOK'
  BY DEF Inv, TypeOK, CaseOK, CaseType, Rest
<1>2. Naming' /\ OnlyStarted' /\ Swept' /\ Accounted' /\ BlamedAgentsAreGone'
  BY DEF Inv, Naming, OnlyStarted, Swept, Accounted, BlamedAgentsAreGone, Rest, At
<1>3. Course'
  BY DEF Inv, Course, CaseOK, Rest, At
<1>. QED BY <1>1, <1>2, <1>3 DEF Inv

\* The steps of the case preserve the invariant.
LEMMA CaseKeepsInv ==
  ASSUME Inv, Case
  PROVE  Inv'
<1>1. CaseOK(case) /\ outcome \in {"none", "ok", "error"}
  BY DEF Inv, TypeOK, Course, CaseOK, CaseType
<1>2. CASE CaseOpens
  BY <1>1, <1>2, CaseStep DEF CaseOpens, CaseOK, CaseType, Rest
<1>3. CASE MeritsEnd
  <2>1. case' \in {Turned(Members \X {1}, {}), Closed({})}
    BY <1>3 DEF MeritsEnd
  <2>2. Members \X {1} \in SUBSET Opportunities
    BY LocalRunAssumption DEF Opportunities
  <2>3. CaseOK(case')
    BY <2>1, <2>2, TurnedOK
  <2>. QED BY <1>1, <1>3, <2>3, CaseStep DEF MeritsEnd, Rest
<1>4. CASE Vote
  <2>1. case.turn \in Opportunities /\ case.removed \in SUBSET Members
    BY <1>1, <1>4 DEF Vote, CaseOK, CaseType
  <2>2. CaseOK(case')
    BY <1>4, <2>1, TurnedOK, AfterOK DEF Vote
  <2>. QED BY <1>1, <1>4, <2>2, CaseStep DEF Vote, Rest
<1>5. CASE TurnTimesOut
  BY <1>1, <1>5, RemovedOK, CaseStep DEF TurnTimesOut, Rest
<1>6. CASE CaseShutsDown
  BY <1>1, <1>6, CaseStep DEF CaseShutsDown, CaseOK, CaseType, Rest
<1>7. CASE CaseReturns
  BY <1>1, <1>7, CaseStep DEF CaseReturns, CaseOK, CaseType, Rest
<1>. QED BY <1>2, <1>3, <1>4, <1>5, <1>6, <1>7 DEF Case

\* A step that starts nothing and has not begun to clean up.
LEMMA QuietStep ==
  ASSUME Inv, TypeOK', UNCHANGED <<case, agent, container, starts, blamed>>,
         runner'.pc \in Roles => runner'.pc \in AutoLawyers,
         runner'.pc = "delay" => "defendant" \in AutoLawyers,
         runner'.pc = "start" => runner' = runner,
         runner.pc \notin Ending, runner'.pc \notin {"cleanup", "returned"}, secrets' = secrets
  PROVE  Inv'
BY DEF Inv, Naming, Course, OnlyStarted, Swept, Accounted, Ending, BlamedAgentsAreGone, At

\* Environment, waiting and giving up.
LEMMA QuietKeepsInv ==
  ASSUME Inv,
         \/ McpEnds \/ Interrupt \/ Interrupted \/ CaseEndsEarly \/ McpEndsEarly \/ ApiHealthy
         \/ McpHealthy \/ DelayOver \/ AgentFailsEarly \/ RosterRead
         \/ TakeOutcome \/ McpAwaited \/ TakeAgentError \/ GraceOver \/ TickFails
  PROVE  Inv'
<1>. USE DEF Goto, GiveUp, At, Ending
<1>1. TypeOK /\ Course
  BY DEF Inv
<1>2. FirstLawyer \in AutoLawyers \cup {"roster"} /\ AutoLawyers \subseteq Roles
  BY LocalRunAssumption DEF FirstLawyer
<1>3. CASE McpEnds
  <2>1. TypeOK'
    BY <1>1, <1>3 DEF McpEnds, TypeOK, Roles
  <2>. QED BY <1>1, <1>3, <2>1, QuietStep DEF McpEnds, TypeOK, Course, Roles, Observed
<1>4. CASE Interrupt
  <2>1. TypeOK'
    BY <1>1, <1>4 DEF Interrupt, TypeOK, Roles
  <2>. QED BY <1>1, <1>4, <2>1, QuietStep DEF Interrupt, TypeOK, Course, Roles, Observed
<1>5. CASE Interrupted
  <2>1. TypeOK'
    BY <1>1, <1>5 DEF Interrupted, TypeOK, Roles
  <2>. QED BY <1>1, <1>5, <2>1, QuietStep DEF Interrupted, TypeOK, Course, Roles
<1>6. CASE CaseEndsEarly
  <2>1. TypeOK'
    BY <1>1, <1>6 DEF CaseEndsEarly, TypeOK, Roles
  <2>. QED BY <1>1, <1>6, <2>1, QuietStep DEF CaseEndsEarly, TypeOK, Course, Roles
<1>7. CASE McpEndsEarly
  <2>1. TypeOK'
    BY <1>1, <1>7 DEF McpEndsEarly, TypeOK, Roles
  <2>. QED BY <1>1, <1>7, <2>1, QuietStep DEF McpEndsEarly, TypeOK, Course, Roles
<1>8. CASE ApiHealthy
  <2>1. TypeOK'
    BY <1>1, <1>8 DEF ApiHealthy, TypeOK, Roles
  <2>. QED BY <1>1, <1>8, <2>1, QuietStep DEF ApiHealthy, TypeOK, Course, Roles
<1>9. CASE McpHealthy
  <2>1. TypeOK'
    BY <1>1, <1>2, <1>9 DEF McpHealthy, TypeOK, Roles
  <2>. QED BY <1>1, <1>2, <1>9, <2>1, QuietStep DEF McpHealthy, TypeOK, Course, Roles
<1>10. CASE DelayOver
  <2>1. TypeOK'
    BY <1>1, <1>10 DEF DelayOver, TypeOK, Roles
  <2>. QED BY <1>1, <1>10, <2>1, QuietStep DEF DelayOver, TypeOK, Course, Roles
<1>11. CASE AgentFailsEarly
  <2>1. TypeOK'
    BY <1>1, <1>11 DEF AgentFailsEarly, TypeOK, Roles
  <2>. QED BY <1>1, <1>11, <2>1, QuietStep DEF AgentFailsEarly, TypeOK, Course, Roles
<1>12. CASE RosterRead
  <2>1. TypeOK'
    BY <1>1, <1>12 DEF RosterRead, TypeOK, Roles
  <2>. QED BY <1>1, <1>12, <2>1, QuietStep DEF RosterRead, TypeOK, Course, Roles
<1>13. CASE TakeOutcome
  <2>1. TypeOK'
    BY <1>1, <1>13 DEF TakeOutcome, TypeOK, Roles
  <2>. QED BY <1>1, <1>13, <2>1, QuietStep DEF TakeOutcome, TypeOK, Course, Roles
<1>14. CASE McpAwaited
  <2>1. TypeOK'
    BY <1>1, <1>14 DEF McpAwaited, TypeOK, Roles
  <2>. QED BY <1>1, <1>14, <2>1, QuietStep DEF McpAwaited, TypeOK, Course, Roles
<1>15. CASE TakeAgentError
  <2>1. TypeOK'
    BY <1>1, <1>15 DEF TakeAgentError, TypeOK, Roles
  <2>. QED BY <1>1, <1>15, <2>1, QuietStep DEF TakeAgentError, TypeOK, Course, Roles
<1>16. CASE GraceOver
  <2>1. TypeOK'
    BY <1>1, <1>16 DEF GraceOver, TypeOK, Roles
  <2>. QED BY <1>1, <1>16, <2>1, QuietStep DEF GraceOver, TypeOK, Course, Roles
<1>17. CASE TickFails
  <2>1. TypeOK'
    BY <1>1, <1>17 DEF TickFails, TypeOK, Roles
  <2>. QED BY <1>1, <1>17, <2>1, QuietStep DEF TickFails, TypeOK, Course, Roles
<1>. QED BY <1>3, <1>4, <1>5, <1>6, <1>7, <1>8, <1>9, <1>10, <1>11, <1>12, <1>13, <1>14, <1>15, <1>16, <1>17

-----------------------------------------------------------------------------
(* Starting agents.                                                        *)

\* A new agent gets its name, if that is free.
LEMMA NamingKept ==
  ASSUME Inv, NEW a \in Agents,
         container' = [container EXCEPT ![NameOf(a)] = IF @ = NoAgent THEN a ELSE @]
  PROVE  Naming' /\ container' \in [Names -> Agents \cup {NoAgent}]
BY AgentFacts DEF Inv, TypeOK, Naming

\* Credentials that are staged, or staged and tracked.
LEMMA StagingFacts ==
  ASSUME Inv, NEW n \in Names
  PROVE  /\ StagedAndTracked(n) =>
              /\ secrets' \in [staged : SUBSET Names, tracked : SUBSET Names, torn : SUBSET Names]
              /\ secrets'.staged = secrets.staged \cup {n}
              /\ secrets'.tracked = secrets.tracked \cup {n} /\ secrets'.torn = secrets.torn
         /\ StagedOnly(n) =>
              /\ secrets' \in [staged : SUBSET Names, tracked : SUBSET Names, torn : SUBSET Names]
              /\ secrets'.staged = secrets.staged \cup {n}
              /\ secrets'.tracked = secrets.tracked /\ secrets'.torn = {n}
<1>. DEFINE Type == [staged : SUBSET Names, tracked : SUBSET Names, torn : SUBSET Names]
<1>1. secrets \in Type
  BY DEF Inv, TypeOK
<1>2. CASE StagedAndTracked(n)
  <2>1. PICK s, t \in SUBSET Names :
          /\ s = secrets.staged \cup {n} /\ t = secrets.tracked \cup {n}
          /\ secrets' = [secrets EXCEPT !.staged = s, !.tracked = t]
    BY <1>1, <1>2 DEF StagedAndTracked
  <2>2. secrets' \in Type /\ secrets'.staged = s /\ secrets'.tracked = t /\ secrets'.torn = secrets.torn
    BY <1>1, <2>1
  <2>3. StagedOnly(n) => secrets'.torn = {n} /\ secrets'.tracked = secrets.tracked
    BY <1>1 DEF StagedOnly
  <2>. QED BY <2>1, <2>2, <2>3
<1>3. CASE StagedOnly(n)
  <2>1. PICK s, t \in SUBSET Names :
          /\ s = secrets.staged \cup {n} /\ t = {n}
          /\ secrets' = [secrets EXCEPT !.staged = s, !.torn = t]
    BY <1>1, <1>3 DEF StagedOnly
  <2>2. secrets' \in Type /\ secrets'.staged = s /\ secrets'.torn = t /\ secrets'.tracked = secrets.tracked
    BY <1>1, <2>1
  <2>3. StagedAndTracked(n) => secrets'.torn = secrets.torn /\ secrets'.tracked = secrets.tracked \cup {n}
    BY <1>1 DEF StagedAndTracked
  <2>. QED BY <2>1, <2>2, <2>3
<1>. QED BY <1>2, <1>3

\* An agent started before the cleanup has not run, nor been blamed, before.
LEMMA StartedKeepsInv ==
  ASSUME Inv, NEW a \in Agents, Started(a), runner.pc \notin Ending,
         a \in Opportunities => a \in starts /\ agent[a] = "none",
         NEW pc \in {"delay", "roster", "loop"}, runner' = [runner EXCEPT !.pc = pc],
         pc = "delay" => "defendant" \in AutoLawyers,
         UNCHANGED <<cancelled, case, outcome, mcp, starts, failed, blamed>>
  PROVE  Inv'
<1>1. TypeOK'
  BY AgentFacts, NamingKept, StagingFacts DEF Inv, TypeOK, Started
<1>2. Naming'
  BY NamingKept DEF Started
<1>3. agent \in [Agents -> {"none", "running", "check", "report", "over"}]
      /\ agent' = [agent EXCEPT ![a] = "running"] /\ runner'.pc = pc
  BY DEF Inv, TypeOK, Started
<1>4. Course' /\ OnlyStarted' /\ Swept' /\ BlamedAgentsAreGone'
  BY <1>3, AgentFacts DEF Inv, TypeOK, Course, OnlyStarted, Swept, BlamedAgentsAreGone, At, Roles
<1>5. Accounted'
  BY AgentFacts, StagingFacts DEF Inv, Accounted, Started
<1>. QED BY <1>1, <1>2, <1>4, <1>5 DEF Inv

\* What Run is starting is one of its agents.
LEMMA StartingFacts ==
  ASSUME Inv, runner.pc \in Roles \cup {"start"}
  PROVE  Starting \in Agents /\ NameOf(Starting) \in Names /\ runner.pc \notin Ending
BY AgentFacts DEF Inv, TypeOK, Course, Starting, At, Roles, Ending

\* A start that fails ends the run; its credentials are tracked or the last.
LEMMA StartFailsKeepsInv ==
  ASSUME Inv, StartFails
  PROVE  Inv'
<1>. USE DEF At
<1>1. /\ UNCHANGED <<case, outcome, mcp, agent, container, starts, failed, blamed>>
      /\ cancelled' = TRUE /\ runner' = [runner EXCEPT !.pc = "stop", !.result = "error"]
      /\ runner.pc \notin Ending /\ NameOf(Starting) \in Names
  BY StartingFacts DEF StartFails, GiveUp
<1>2. runner'.pc = "stop" /\ runner'.result = "error"
  BY <1>1 DEF Inv, TypeOK
<1>3. PICK n \in Names : UNCHANGED secrets \/ StagedOnly(n) \/ StagedAndTracked(n)
  BY <1>1 DEF StartFails
<1>4. /\ secrets' \in [staged : SUBSET Names, tracked : SUBSET Names, torn : SUBSET Names]
      /\ secrets.torn = {}
      /\ secrets.staged \subseteq secrets.tracked
      /\ secrets'.staged \subseteq secrets'.tracked \cup secrets'.torn
      /\ secrets'.torn \in {{}, {n}}
  BY <1>1, <1>3, StagingFacts DEF Inv, TypeOK, Accounted
<1>5. TypeOK'
  BY <1>1, <1>4 DEF Inv, TypeOK
<1>6. Accounted'
  BY <1>2, <1>4 DEF Accounted, Ending
<1>7. Course'
  BY <1>1, <1>2 DEF Inv, Course, Roles
<1>8. Naming' /\ OnlyStarted' /\ Swept' /\ BlamedAgentsAreGone'
  BY <1>1, <1>2 DEF Inv, Naming, OnlyStarted, Swept, BlamedAgentsAreGone
<1>. QED BY <1>5, <1>6, <1>7, <1>8 DEF Inv

\* Starting a container, successfully or not, preserves the invariant.
LEMMA StartsKeepInv ==
  ASSUME Inv, Tick \/ StartCouncil \/ PidNotWritten \/ \E role \in Roles : StartLawyer(role)
  PROVE  Inv'
<1>. USE DEF At, Goto, GiveUp
<1>1. CASE Tick
  <2>1. case.turn \in Opportunities
    BY <1>1 DEF Tick, Inv, Course
  <2>2. agent[case.turn] = "none"
    BY <1>1, <2>1 DEF Tick, Inv, OnlyStarted, Unserved
  <2>3. TypeOK'
    BY <1>1, <2>1 DEF Tick, Inv, TypeOK
  <2>4. Naming' /\ OnlyStarted' /\ Swept' /\ Accounted' /\ BlamedAgentsAreGone'
    BY <1>1 DEF Tick, Inv, TypeOK, Naming, OnlyStarted, Swept, Accounted, Ending,
       BlamedAgentsAreGone
  <2>5. Course'
    BY <1>1, <2>1, <2>2 DEF Tick, Inv, TypeOK, Course, Roles
  <2>. QED BY <2>3, <2>4, <2>5 DEF Inv
<1>2. CASE StartCouncil
  <2>1. runner.target \in starts /\ agent[runner.target] = "none" /\ runner.target \in Agents
    BY <1>2, AgentFacts DEF StartCouncil, Inv, TypeOK, Course
  <2>. QED BY <1>2, <2>1, StartedKeepsInv DEF StartCouncil, Ending
<1>3. ASSUME NEW role \in Roles, StartLawyer(role) PROVE Inv'
  <2>1. <<role, 0>> \in Agents \ Opportunities
    BY <1>3, AgentFacts DEF StartLawyer, Inv, Course
  <2>. QED BY <1>3, <2>1, StartedKeepsInv DEF StartLawyer, Roles, Ending
<1>4. CASE PidNotWritten
  <2>1. PICK a \in Agents :
          /\ container' = [container EXCEPT ![NameOf(a)] = IF @ = NoAgent THEN a ELSE @]
          /\ StagedAndTracked(NameOf(a)) /\ NameOf(a) \in Names
    BY <1>4, StartingFacts DEF PidNotWritten
  <2>2. runner' = [runner EXCEPT !.pc = "stop", !.result = "error"] /\ cancelled' = TRUE
        /\ UNCHANGED <<case, outcome, mcp, agent, starts, failed, blamed>>
    BY <1>4 DEF PidNotWritten
  <2>3. Naming' /\ TypeOK'
    <3>1. Naming' /\ container' \in [Names -> Agents \cup {NoAgent}]
      BY <2>1, NamingKept
    <3>2. secrets' \in [staged : SUBSET Names, tracked : SUBSET Names, torn : SUBSET Names]
      BY <2>1, StagingFacts
    <3>. QED BY <2>2, <3>1, <3>2 DEF Inv, TypeOK
  <2>4. runner'.pc = "stop"
    BY <2>2 DEF Inv, TypeOK
  <2>5. Course'
    BY <2>2, <2>4 DEF Inv, Course, Roles
  <2>6. OnlyStarted' /\ Swept' /\ BlamedAgentsAreGone'
    BY <2>2, <2>4 DEF Inv, OnlyStarted, Swept, BlamedAgentsAreGone
  <2>7. Accounted'
    BY <1>4, <2>1, <2>4, StartingFacts, StagingFacts DEF Inv, Accounted, PidNotWritten
  <2>. QED BY <2>3, <2>5, <2>6, <2>7 DEF Inv
<1>. QED BY <1>1, <1>2, <1>3, <1>4

-----------------------------------------------------------------------------
(* The cleanup.                                                            *)

\* stopAgents removes the container of every agent on record but those kept.
LEMMA StopSweeps ==
  ASSUME Inv, StopAgents
  PROVE  Inv'
<1>. USE DEF At
<1>1. PICK kept \in SUBSET ProcessNames :
        /\ Stopped(ProcessNames \ kept)
        /\ runner' = [runner EXCEPT !.pc = "cleanup",
                         !.leftovers = IF kept = {} THEN {} ELSE {"container"}]
  BY DEF StopAgents
<1>2. /\ container' = [n \in Names |-> IF n \in ProcessNames \ kept THEN NoAgent ELSE container[n]]
      /\ agent' = [a \in Agents |->
           IF agent[a] = "running" /\ NameOf(a) \in ProcessNames \ kept THEN "over" ELSE agent[a]]
      /\ UNCHANGED <<cancelled, case, outcome, mcp, starts, failed, secrets, blamed>>
  BY <1>1 DEF Stopped, StopAgents
<1>3. TypeOK'
  <2>1. TypeOK
    BY DEF Inv
  <2>2. container' \in [Names -> Agents \cup {NoAgent}]
    BY <1>2, <2>1 DEF TypeOK
  <2>3. agent' \in [Agents -> {"none", "running", "check", "report", "over"}]
    BY <1>2, <2>1 DEF TypeOK
  <2>4. runner'.pc = "cleanup" /\ runner' = [runner EXCEPT !.pc = "cleanup", !.leftovers = runner'.leftovers]
        /\ runner'.leftovers \subseteq {"container", "secret"}
    BY <1>1, <2>1 DEF TypeOK
  <2>5. /\ UNCHANGED <<cancelled, case, outcome, mcp, starts, failed, secrets, blamed>>
    BY <1>2
  <2>6. runner' \in [pc : {"cleanup"}, target : Opportunities \cup {NoAgent},
                     result : {"none", "ok", "error"}, 
                     leftovers : SUBSET {"container", "secret"}]
    BY <2>1, <2>4 DEF TypeOK
  <2>. QED BY <2>1, <2>2, <2>3, <2>5, <2>6 DEF TypeOK
<1>4. Naming' /\ Course' /\ OnlyStarted'
  <2>1. runner'.pc = "cleanup"
    BY <1>1 DEF Inv, TypeOK
  <2>2. Naming'
    BY <1>2, AgentFacts DEF Inv, Naming
  <2>3. Course'
    BY <1>2, <2>1 DEF Inv, Course, Roles
  <2>4. OnlyStarted'
    BY <1>2, AgentFacts DEF Inv, OnlyStarted
  <2>. QED BY <2>2, <2>3, <2>4
<1>5. BlamedAgentsAreGone'
  BY <1>2, AgentFacts DEF Inv, TypeOK, BlamedAgentsAreGone
<1>6. ASSUME kept = {}, NEW n \in Names, container'[n] # NoAgent
      PROVE  agent'[container'[n]] = "none"
  <2>1. n \notin ProcessNames /\ container'[n] = container[n] /\ container[n] \in Agents
    BY <1>2, <1>6 DEF Inv, TypeOK
  <2>2. NameOf(container[n]) = n
    BY <1>6, <2>1 DEF Inv, Naming
  <2>3. agent[container[n]] = "none"
    BY <2>1, <2>2 DEF ProcessNames
  <2>. QED BY <1>2, <2>1, <2>3
<1>7. Swept'
  <2>1. runner'.pc = "cleanup" /\ (kept # {} => "container" \in runner'.leftovers)
    BY <1>1 DEF Inv, TypeOK
  <2>. QED BY <1>6, <2>1 DEF Swept
<1>8. Accounted'
  <2>1. runner'.pc = "cleanup" /\ runner'.result = runner.result
    BY <1>1 DEF Inv, TypeOK
  <2>. QED BY <1>2, <2>1 DEF Inv, Accounted, Ending
<1>. QED BY <1>3, <1>4, <1>5, <1>7, <1>8 DEF Inv

\* cleanupSecrets removes what is tracked, but for what it reports.
LEMMA CleanUpKeepsInv ==
  ASSUME Inv, CleanUp
  PROVE  Inv'
<1>. USE DEF At
<1>1. PICK kept :
        /\ secrets' = [secrets EXCEPT !.staged = @ \ (secrets.tracked \ kept)]
        /\ runner' = [runner EXCEPT !.pc = "returned",
                         !.leftovers = @ \cup IF kept = {} THEN {} ELSE {"secret"}]
  BY DEF CleanUp
<1>2. /\ UNCHANGED <<cancelled, case, outcome, mcp, agent, container, starts, failed, blamed>>
      /\ runner.pc = "cleanup"
  BY DEF CleanUp
<1>3. /\ runner'.pc = "returned" /\ runner'.result = runner.result
      /\ runner'.leftovers = runner.leftovers \cup IF kept = {} THEN {} ELSE {"secret"}
      /\ runner'.target = runner.target
      /\ secrets'.staged = secrets.staged \ (secrets.tracked \ kept)
      /\ secrets'.tracked = secrets.tracked /\ secrets'.torn = secrets.torn
      /\ secrets' \in [staged : SUBSET Names, tracked : SUBSET Names, torn : SUBSET Names]
  <2>1. PICK left :
          /\ left = runner.leftovers \cup IF kept = {} THEN {} ELSE {"secret"}
          /\ runner' = [runner EXCEPT !.pc = "returned", !.leftovers = left]
    BY <1>1
  <2>2. PICK staged \in SUBSET Names :
          /\ staged = secrets.staged \ (secrets.tracked \ kept)
          /\ secrets' = [secrets EXCEPT !.staged = staged]
    BY <1>1 DEF Inv, TypeOK
  <2>3. /\ runner'.pc = "returned" /\ runner'.result = runner.result
        /\ runner'.leftovers = left /\ runner'.target = runner.target
    BY <2>1 DEF Inv, TypeOK
  <2>4. /\ secrets'.staged = staged /\ secrets'.tracked = secrets.tracked
        /\ secrets'.torn = secrets.torn
        /\ secrets' \in [staged : SUBSET Names, tracked : SUBSET Names, torn : SUBSET Names]
    BY <2>2 DEF Inv, TypeOK
  <2>. QED BY <2>1, <2>2, <2>3, <2>4
<1>4. TypeOK'
  <2>1. runner'.leftovers \subseteq {"container", "secret"}
    BY <1>3 DEF Inv, TypeOK
  <2>2. runner' = [runner EXCEPT !.pc = "returned", !.leftovers = runner'.leftovers]
    BY <1>1, <1>3
  <2>. QED BY <1>2, <1>3, <2>1, <2>2 DEF Inv, TypeOK
<1>5. Naming' /\ Course' /\ OnlyStarted' /\ BlamedAgentsAreGone'
  BY <1>2, <1>3 DEF Inv, Naming, Course, OnlyStarted, BlamedAgentsAreGone, Roles
<1>6. Swept' /\ Accounted'
  BY <1>2, <1>3 DEF Inv, Swept, Accounted, Ending
<1>. QED BY <1>4, <1>5, <1>6 DEF Inv

-----------------------------------------------------------------------------
(* The goroutines that wait for the agents.                                *)

(***************************************************************************)
(* The end of an agent vacates at most its own name; one that is not yet   *)
(* started or that has been blamed does not come back.                     *)
(***************************************************************************)
LEMMA WatchStep ==
  ASSUME Inv, NEW a \in Agents, agent[a] # "none", NEW to \in {"check", "report", "over"},
         agent' = [agent EXCEPT ![a] = to],
         agent[a] \in {"report", "over"} => to \in {"report", "over"},
         \A n \in Names : container'[n] \in {container[n], NoAgent},
         container' \in [Names -> Agents \cup {NoAgent}],
         CaseOK(case'), failed' \in BOOLEAN,
         \A o \in blamed' \ blamed : o = a /\ a \in Opportunities /\ to \in {"report", "over"},
         UNCHANGED <<runner, cancelled, outcome, mcp, starts, secrets>>
  PROVE  Inv'
<1>1. agent \in [Agents -> {"none", "running", "check", "report", "over"}]
      /\ blamed \subseteq Opportunities
  BY DEF Inv, TypeOK
<1>2. TypeOK'
  BY <1>1 DEF Inv, TypeOK, CaseOK, CaseType
<1>3. Naming'
  BY DEF Inv, Naming
<1>4. Course'
  BY <1>1, AgentFacts DEF Inv, TypeOK, Course, CaseOK, At
<1>5. OnlyStarted'
  BY <1>1, AgentFacts DEF Inv, OnlyStarted
<1>6. Swept' /\ Accounted'
  BY <1>1 DEF Inv, TypeOK, Swept, Accounted, At
<1>7. BlamedAgentsAreGone'
  BY <1>1, AgentFacts DEF Inv, BlamedAgentsAreGone
<1>. QED BY <1>2, <1>3, <1>4, <1>5, <1>6, <1>7 DEF Inv

\* What agents do by themselves preserves the invariant.
LEMMA AgentsKeepInv ==
  ASSUME Inv, NEW a \in Agents, AgentExits(a) \/ LimitKills(a) \/ Watch(a)
  PROVE  Inv'
<1>1. /\ CaseOK(case) /\ failed \in BOOLEAN
      /\ container \in [Names -> Agents \cup {NoAgent}]
  BY DEF Inv, TypeOK, Course, CaseOK, CaseType
<1>2. CASE AgentExits(a)
  BY <1>1, <1>2, WatchStep DEF AgentExits, Vacated, Ended
<1>3. CASE CommandKilled(a)
  BY <1>1, <1>3, WatchStep DEF CommandKilled
<1>4. CASE LimitKills(a)
  BY <1>1, <1>4, WatchStep DEF LimitKills, Ended
<1>5. CASE LawyerFails(a)
  BY <1>1, <1>5, WatchStep DEF LawyerFails, Over
<1>6. CASE LawyerCheck(a)
  BY <1>1, <1>6, WatchStep DEF LawyerCheck, Over
<1>7. CASE CouncilCheck(a)
  BY <1>1, <1>7, WatchStep DEF CouncilCheck
<1>8. CASE Report(a)
  <2>1. case.at = "council" => \A c \in Removed : CaseOK(c)
    BY RemovedOK
  <2>2. CaseOK(case') /\ failed' \in BOOLEAN
    BY <1>1, <1>8, <2>1 DEF Report
  <2>3. \A o \in blamed' \ blamed : o = a /\ a \in Opportunities
    BY <1>8 DEF Report, Inv, Course
  <2>. QED BY <1>1, <1>8, <2>2, <2>3, WatchStep DEF Report, Over
<1>. QED BY <1>2, <1>3, <1>4, <1>5, <1>6, <1>7, <1>8 DEF Watch

-----------------------------------------------------------------------------
(* The theorems.                                                           *)

\* The supervisor starts in the invariant.
LEMMA InitInv == Init => Inv
<1>1. AutoLawyers \subseteq Roles /\ Rounds \in Nat
  BY LocalRunAssumption
<1>2. Init => TypeOK
  <2>. SUFFICES ASSUME Init PROVE TypeOK
    OBVIOUS
  <2>1. agent \in [Agents -> {"none", "running", "check", "report", "over"}]
    BY DEF Init
  <2>2. container \in [Names -> Agents \cup {NoAgent}]
    BY DEF Init
  <2>. QED BY <1>1, <2>1, <2>2 DEF Init, TypeOK
<1>3. Init => Naming /\ Course
  BY DEF Init, Naming, Course, At, Roles
<1>4. Init => OnlyStarted /\ Swept /\ Accounted /\ BlamedAgentsAreGone
  BY AgentFacts DEF Init, OnlyStarted, Swept, Accounted, BlamedAgentsAreGone, At
<1>. QED BY <1>2, <1>3, <1>4 DEF Inv

\* Every step of the supervisor and what it watches preserves it.
LEMMA NextInv == Inv /\ [Next]_vars => Inv'
<1>. SUFFICES ASSUME Inv, [Next]_vars PROVE Inv'
  OBVIOUS
<1>1. CASE Next
  <2>1. CASE Case
    BY <2>1, CaseKeepsInv
  <2>2. CASE McpEnds \/ Interrupt
    BY <2>2, QuietKeepsInv
  <2>3. CASE Run
    BY <2>3, QuietKeepsInv, StartsKeepInv, StartFailsKeepsInv, StopSweeps, CleanUpKeepsInv DEF Run
  <2>4. CASE \E a \in Agents : AgentExits(a) \/ LimitKills(a) \/ Watch(a)
    BY <2>4, AgentsKeepInv
  <2>. QED BY <1>1, <2>1, <2>2, <2>3, <2>4 DEF Next
<1>2. CASE UNCHANGED vars
  BY <1>2 DEF vars, Inv, TypeOK, Naming, Course, OnlyStarted, Swept, Accounted,
     BlamedAgentsAreGone, At
<1>. QED BY <1>1, <1>2

(***************************************************************************)
(* The inductive invariant holds of every run: among it that the state is  *)
(* well formed, that a container name belongs to one agent at a time, and  *)
(* that an agent is started at most for what councilStarts remembers.      *)
(***************************************************************************)
THEOREM Invariance == Spec => []Inv
<1>. QED BY InitInv, NextInv, PTL DEF Spec

\* The state of the supervisor is well formed.
THEOREM TypeCorrect == Spec => []TypeOK
<1>1. Inv => TypeOK
  BY DEF Inv
<1>. QED BY <1>1, Invariance, PTL

(***************************************************************************)
(* However a run ends, whichever agents it started and whoever exited or   *)
(* was killed before, no container on record and no credentials are left   *)
(* but what it reports, for every panel and number of rounds; unless its   *)
(* last start failed between writing an agent's credentials and tracking   *)
(* them (localrun.go:1061, 1291): then those are left, and no others.      *)
(***************************************************************************)
THEOREM NothingIsLeftBehind == Spec => []NothingLeftBehind
<1>1. Inv => NothingLeftBehind
  BY DEF Inv, Swept, Accounted, NothingLeftBehind, At
<1>. QED BY <1>1, Invariance, PTL

(***************************************************************************)
(* No member loses its seat by a report of the supervisor unless the agent *)
(* started for the very opportunity is gone.                               *)
(***************************************************************************)
THEOREM BlameIsJust == Spec => []BlamedAgentsAreGone
<1>1. Inv => BlamedAgentsAreGone
  BY DEF Inv
<1>. QED BY <1>1, Invariance, PTL
=============================================================================
