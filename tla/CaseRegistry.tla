---------------------------- MODULE CaseRegistry ----------------------------
(***************************************************************************)
(* The record of one direct case in the arbitration service                *)
(* (src/arb/runtime/service/service.go): a request creates the record and  *)
(* starts a child process, one goroutine polls until the child's API       *)
(* answers, one waits for its exit, clients cancel.  They change the       *)
(* record under the server's lock and save it after unlocking, all of them *)
(* through the same temporary file.  The service may die and restart; the  *)
(* child then runs on by itself, and the restarted service reconciles the  *)
(* saved record with the run.json the child may have written.              *)
(***************************************************************************)
EXTENDS Integers, FiniteSets

CONSTANTS
  Clients,     \* cancel requests, each made at most once
  CrashLimit   \* bound on the deaths of the service

ASSUME RegistryAssumption ==
  /\ CrashLimit \in Nat
  /\ Clients \cap {"creator", "poller", "waiter"} = {}

VARIABLES
  up,       \* the service is running
  rec,      \* s.cases[id]
  child,    \* the aar process
  run,      \* the run.json it wrote
  pc,       \* where each goroutine is
  saver,    \* its persistRecord call
  tmp,      \* content of <id>.json.tmp
  final,    \* content of <id>.json
  crashes

vars == <<up, rec, child, run, pc, saver, tmp, final, crashes>>

Actors == {"creator", "poller", "waiter"} \cup Clients

Active == {"starting", "running", "canceling"}

Terminal == {"completed", "failed", "canceled"}

\* error: whether rec.Error is empty, the detached message, or another text.
NoRecord == [status |-> "none", error |-> "", canceling |-> FALSE, attached |-> FALSE]

\* What of a record is saved (publicRecord).
Public(r) == [status |-> r.status, error |-> r.error]

Absent == [status |-> "none", error |-> ""]

Empty == [status |-> "empty", error |-> ""]

Garbled == [status |-> "garbled", error |-> ""]

NotSaving == [pc |-> "idle", copy |-> Absent, file |-> "none"]

Init ==
  /\ up = TRUE
  /\ rec = NoRecord
  /\ child = [at |-> "unborn", code |-> 0, summary |-> "none"]
  /\ run = "none"
  /\ pc = [a \in Actors |-> "off"]
  /\ saver = [a \in Actors |-> NotSaving]
  /\ tmp = Absent
  /\ final = Absent
  /\ crashes = 0

-----------------------------------------------------------------------------
(* persistRecord: copy the record, write the temporary file, rename it.    *)

Save(a) == [saver EXCEPT ![a] = [NotSaving EXCEPT !.pc = "copy"]]

Copy(a) ==
  /\ saver[a].pc = "copy"
  /\ saver' = [saver EXCEPT ![a].pc = "open", ![a].copy = Public(rec)]
  /\ UNCHANGED <<up, rec, child, run, pc, tmp, final, crashes>>

\* os.WriteFile truncates the file first ...
Open(a) ==
  /\ saver[a].pc = "open"
  /\ tmp' = Empty
  /\ saver' = [saver EXCEPT ![a].pc = "write", ![a].file = "tmp"]
  /\ UNCHANGED <<up, rec, child, run, pc, final, crashes>>

\* ... and writes to the file it opened, wherever that has been moved.  Over
\* a longer record it leaves the end of that one; a record with an outcome,
\* an exit code or an error in it is longer than an active one.
MayLeaveTail(old, new) ==
  /\ old \notin {Empty, new}
  /\ ~ (old.status \in Active /\ new.status \in Terminal)

Write(a) ==
  LET new == saver[a].copy
      Result(old) == {new} \cup IF MayLeaveTail(old, new) THEN {Garbled} ELSE {} IN
    /\ saver[a].pc = "write"
    /\ saver' = [saver EXCEPT ![a].pc = "rename"]
    /\ tmp' \in IF saver[a].file = "tmp" THEN Result(tmp) ELSE {tmp}
    /\ final' \in IF saver[a].file = "final" THEN Result(final) ELSE {final}
    /\ UNCHANGED <<up, rec, child, run, pc, crashes>>

\* The rename fails, and nobody notices, if another goroutine was faster.
Moved(file) == CASE file = "tmp" -> "final" [] file = "final" -> "gone" [] OTHER -> file

Rename(a) ==
  /\ saver[a].pc = "rename"
  /\ IF tmp = Absent
       THEN /\ saver' = [saver EXCEPT ![a] = NotSaving]
            /\ UNCHANGED <<tmp, final>>
       ELSE /\ final' = tmp
            /\ tmp' = Absent
            /\ saver' = [b \in Actors |->
                 IF b = a THEN NotSaving
                          ELSE [saver[b] EXCEPT !.file = Moved(@)]]
  /\ UNCHANGED <<up, rec, child, run, pc, crashes>>

Saving == \E a \in Actors : Copy(a) \/ Open(a) \/ Write(a) \/ Rename(a)

Saved(a) == saver[a].pc = "idle"

-----------------------------------------------------------------------------
(* startCase: insert the record, save it, start the child, save its pid.   *)

StartCase ==
  /\ up
  /\ rec = NoRecord
  /\ child.at = "unborn"
  /\ rec' = [NoRecord EXCEPT !.status = "starting", !.attached = TRUE]
  /\ pc' = [pc EXCEPT !["creator"] = "start"]
  /\ saver' = Save("creator")
  /\ UNCHANGED <<up, child, run, tmp, final, crashes>>

StartChild ==
  /\ pc["creator"] = "start"
  /\ Saved("creator")
  /\ child' = [child EXCEPT !.at = "booting"]
  /\ pc' = [pc EXCEPT !["creator"] = "started"]
  /\ saver' = Save("creator")
  /\ UNCHANGED <<up, rec, run, tmp, final, crashes>>

StartFails ==
  /\ pc["creator"] = "start"
  /\ Saved("creator")
  /\ rec' = [rec EXCEPT !.status = "failed", !.error = "text"]
  /\ pc' = [pc EXCEPT !["creator"] = "off"]
  /\ saver' = Save("creator")
  /\ UNCHANGED <<up, child, run, tmp, final, crashes>>

\* The goroutines that wait for the child and poll its API.
Spawn ==
  /\ pc["creator"] = "started"
  /\ Saved("creator")
  /\ pc' = [pc EXCEPT !["creator"] = "off", !["poller"] = "poll", !["waiter"] = "wait"]
  /\ UNCHANGED <<up, rec, child, run, saver, tmp, final, crashes>>

\* pollCaseAPIStartup: the health check is made without the lock.
Poll ==
  /\ pc["poller"] = "poll"
  /\ pc' = [pc EXCEPT !["poller"] =
              IF rec.status # "starting" THEN "off"
              ELSE IF child.at = "serving" THEN "healthy" ELSE "late"]
  /\ UNCHANGED <<up, rec, child, run, saver, tmp, final, crashes>>

\* Deviation: the health check is trusted however old it is.
MarkAnyway(status, error) ==
  /\ pc' = [pc EXCEPT !["poller"] = "off"]
  /\ rec' = [rec EXCEPT !.status = status, !.error = error]
  /\ saver' = Save("poller")
  /\ UNCHANGED <<up, child, run, tmp, final, crashes>>

Mark(status, error) ==
  /\ pc' = [pc EXCEPT !["poller"] = "off"]
  /\ IF rec.status # "starting"
       THEN UNCHANGED <<rec, saver>>
       ELSE /\ rec' = [rec EXCEPT !.status = status, !.error = error]
            /\ saver' = Save("poller")
  /\ UNCHANGED <<up, child, run, tmp, final, crashes>>

MarkRunning == pc["poller"] = "healthy" /\ Mark("running", rec.error)

\* Only after StartupWait; the child is left running.
MarkStartupFailed == pc["poller"] = "late" /\ Mark("failed", "text")

\* Unhealthy before StartupWait is over: poll again.
PollAgain ==
  /\ pc["poller"] = "late"
  /\ pc' = [pc EXCEPT !["poller"] = "poll"]
  /\ UNCHANGED <<up, rec, child, run, saver, tmp, final, crashes>>

\* Deviation: exit code 0 means completed.
ExitCodeStatus(r) ==
  IF r.canceling THEN "canceled"
  ELSE IF child.code # 0 THEN "failed"
  ELSE "completed"

\* Deviation: a canceled record is left to the cancel request.
StatusUnlessCanceling(r) ==
  IF r.canceling THEN r.status
  ELSE IF child.code # 0 \/ child.summary = "failed" THEN "failed"
  ELSE "completed"

\* waitChild: what the exit of the child makes of the record.
ExitStatus(r) ==
  IF r.canceling THEN "canceled"
  ELSE IF \/ r.error # "" /\ child.summary = "none"
          \/ child.code # 0
          \/ child.summary = "failed" THEN "failed"
  ELSE "completed"

ExitError(r) ==
  IF ExitStatus(r) = "failed" THEN "text" ELSE r.error

WaitChild ==
  /\ pc["waiter"] = "wait"
  /\ child.at = "exited"
  /\ rec' = [rec EXCEPT !.status = ExitStatus(rec), !.error = ExitError(rec),
                        !.attached = FALSE]
  /\ pc' = [pc EXCEPT !["waiter"] = "off"]
  /\ saver' = Save("waiter")
  /\ UNCHANGED <<up, child, run, tmp, final, crashes>>

-----------------------------------------------------------------------------
(* handleCancelCase: mark, interrupt, kill two seconds later, save.  Every *)
(* case can be canceled, one that has ended included.                      *)

Cancel(c) ==
  /\ up
  /\ pc[c] = "off"
  /\ rec # NoRecord
  /\ rec' = [rec EXCEPT !.status = "canceling", !.canceling = TRUE]
  /\ IF rec.attached
       THEN pc' = [pc EXCEPT ![c] = "signal"] /\ UNCHANGED saver
       ELSE pc' = [pc EXCEPT ![c] = "done"] /\ saver' = Save(c)
  /\ UNCHANGED <<up, child, run, tmp, final, crashes>>

\* A child that has not been started yet cannot be signaled and will run.
Signal(c) ==
  /\ pc[c] = "signal"
  /\ IF child.at = "unborn"
       THEN pc' = [pc EXCEPT ![c] = "done"] /\ saver' = Save(c)
       ELSE pc' = [pc EXCEPT ![c] = "kill"] /\ UNCHANGED saver
  /\ UNCHANGED <<up, rec, child, run, tmp, final, crashes>>

Kill(c) ==
  /\ pc[c] = "kill"
  /\ pc' = [pc EXCEPT ![c] = "done"]
  /\ saver' = Save(c)
  /\ child' = IF child.at = "exited" THEN child
              ELSE [at |-> "exited", code |-> 1, summary |-> "none"]
  /\ UNCHANGED <<up, rec, run, tmp, final, crashes>>

-----------------------------------------------------------------------------
(* The child, aar case: it opens its API, writes run.json when the case is *)
(* over, prints its summary and exits 0; an error or the interrupt makes   *)
(* it print an error summary and exit 1, at any time.                      *)

ChildServes ==
  /\ child.at = "booting"
  /\ child' = [child EXCEPT !.at = "serving"]
  /\ UNCHANGED <<up, rec, run, pc, saver, tmp, final, crashes>>

ChildWritesRun ==
  /\ child.at = "serving"
  /\ run = "none"
  /\ run' \in {"ok", "failed"}
  /\ UNCHANGED <<up, rec, child, pc, saver, tmp, final, crashes>>

ChildExits ==
  /\ child.at \in {"booting", "serving"}
  /\ \/ run # "none" /\ child' = [at |-> "exited", code |-> 0, summary |-> run]
     \/ child' = [at |-> "exited", code |-> 1, summary |-> "error"]
  /\ UNCHANGED <<up, rec, run, pc, saver, tmp, final, crashes>>

-----------------------------------------------------------------------------
(* The service dies with everything in memory.  loadRegistry reads the     *)
(* saved record; one it cannot parse keeps the service from starting.      *)

Crash ==
  /\ up
  /\ crashes < CrashLimit
  /\ up' = FALSE
  /\ crashes' = crashes + 1
  /\ rec' = NoRecord
  /\ pc' = [a \in Actors |-> IF a \in Clients /\ pc[a] # "off" THEN "done" ELSE "off"]
  /\ saver' = [a \in Actors |-> NotSaving]
  /\ UNCHANGED <<child, run, tmp, final>>

\* Deviation: only records with a run.json are reconciled.
ReconciledFromRun(saved) ==
  IF saved.status \in Active /\ run = "ok" THEN [status |-> "completed", error |-> ""]
  ELSE IF saved.status \in Active /\ run = "failed"
    THEN [status |-> "failed", error |-> "text"]
  ELSE saved

\* reconcileDetachedCaseRecord and applyRunJSONToRecord.
Reconciled(saved) ==
  IF saved.status \notin Active /\ saved.error # "detached" THEN saved
  ELSE IF run = "ok" THEN [status |-> "completed", error |-> ""]
  ELSE IF run = "failed" THEN [status |-> "failed", error |-> "text"]
  ELSE IF saved.status \in Active
    THEN [status |-> "failed",
          error |-> IF saved.error = "" THEN "detached" ELSE saved.error]
  ELSE saved

Loaded(saved) ==
  [NoRecord EXCEPT !.status = Reconciled(saved).status, !.error = Reconciled(saved).error]

\* The changed record is saved before the service serves requests.
Restart ==
  /\ ~ up
  /\ final \notin {Empty, Garbled}
  /\ up' = TRUE
  /\ rec' = IF final = Absent THEN NoRecord ELSE Loaded(final)
  /\ final' = IF final = Absent THEN final ELSE Reconciled(final)
  /\ tmp' = IF final' = final THEN tmp ELSE Absent
  /\ UNCHANGED <<child, run, pc, saver, crashes>>

-----------------------------------------------------------------------------

Goroutines ==
  \/ Saving
  \/ StartChild \/ StartFails \/ Spawn
  \/ Poll \/ MarkRunning \/ MarkStartupFailed \/ PollAgain
  \/ WaitChild
  \/ \E c \in Clients : Signal(c) \/ Kill(c)

Child == ChildServes \/ ChildWritesRun \/ ChildExits

Next ==
  \/ StartCase \/ \E c \in Clients : Cancel(c)
  \/ Goroutines \/ Child
  \/ Crash \/ Restart

Spec == Init /\ [][Next]_vars

(***************************************************************************)
(* Goroutines run, StartupWait passes, and a child ends by itself at the   *)
(* latest when the deadlines of its turns have passed (ArbProceeding's     *)
(* RunEnds).  Nothing makes the service crash, restart or get requests.    *)
(***************************************************************************)
Fairness ==
  /\ \A a \in Actors : WF_vars(Copy(a)) /\ WF_vars(Open(a)) /\ WF_vars(Write(a)) /\ WF_vars(Rename(a))
  /\ WF_vars(StartChild) /\ WF_vars(Spawn) /\ WF_vars(WaitChild)
  /\ \A c \in Clients : WF_vars(Signal(c)) /\ WF_vars(Kill(c))
  /\ WF_vars(ChildExits)

FairSpec == Spec /\ Fairness

-----------------------------------------------------------------------------
\* Type correctness of the record, the files and the goroutines.
TypeOK ==
  LET Saves == [status : {"none", "empty", "garbled"} \cup Active \cup Terminal,
                error : {"", "text", "detached"}] IN
    /\ up \in BOOLEAN
    /\ rec \in [status : {"none"} \cup Active \cup Terminal,
                error : {"", "text", "detached"}, canceling : BOOLEAN, attached : BOOLEAN]
    /\ child \in [at : {"unborn", "booting", "serving", "exited"}, code : 0..1,
                  summary : {"none", "ok", "failed", "error"}]
    /\ run \in {"none", "ok", "failed"}
    /\ pc \in [Actors -> {"off", "start", "started", "poll", "healthy", "late", "wait",
                          "signal", "kill", "done"}]
    /\ saver \in [Actors -> [pc : {"idle", "copy", "open", "write", "rename"},
                             copy : Saves, file : {"none", "tmp", "final", "gone"}]]
    /\ tmp \in Saves /\ final \in Saves
    /\ crashes \in 0..CrashLimit

(***************************************************************************)
(* An outcome on record is backed by the facts, in memory and on disk,     *)
(* whatever crashed in between: "canceled" only when the child is dead,    *)
(* "completed" only when a run.json of a case that did not fail exists.    *)
(***************************************************************************)
OutcomeBacked ==
  \A r \in {Public(rec), final} :
    /\ r.status = "canceled" => child.at = "exited"
    /\ r.status = "completed" => run = "ok"

InHand == rec.attached /\ child.at \in {"booting", "serving"}

(***************************************************************************)
(* Every active record has a goroutine that will settle it: the one that   *)
(* is creating the case or the one that waits for its child.  Only a case  *)
(* without a living child in the service's hand can be canceled and have   *)
(* none: one that has ended, or that an earlier service left.              *)
(***************************************************************************)
ActiveHasOwner ==
  rec.status \in {"starting", "running"} \/ (rec.status = "canceling" /\ InHand) =>
    pc["creator"] # "off" \/ pc["waiter"] # "off"

(***************************************************************************)
(* Once a case is completed or canceled the running service does not       *)
(* change its mind: a health check or a cancellation that was under way    *)
(* when the child ended does not revive the record, only a new request to  *)
(* cancel the case does.                                                   *)
(***************************************************************************)
DecidedIsFinal ==
  [][rec.status \in {"completed", "canceled"} /\ up' =>
       rec'.status = rec.status \/ \E c \in Clients : Cancel(c)]_vars

(***************************************************************************)
(* A cancellation of a case whose child the service has in hand ends       *)
(* (arb/docs/aar-spec.md): the record leaves "canceling".                  *)
(***************************************************************************)
CancelSettles == (rec.status = "canceling" /\ InHand) ~> (rec.status # "canceling")
==============================================================================
