----------------------------- MODULE ClerkCases -----------------------------
(***************************************************************************)
(* The Clerk of the arbitration service                                    *)
(* (src/arb/runtime/service/clerk.go): it starts whole `aar run` children, *)
(* keeps one clerk.json in the output directory of each, kills a child on  *)
(* request and reconciles what an earlier service left behind.  A request  *)
(* reserves its case id, looks at the directory, publishes and saves the   *)
(* record, starts the child and hands it to a goroutine that waits for its *)
(* exit; each does so in several steps between which kill requests and the *)
(* death of the service come.  All save the record through one temporary   *)
(* file, and here, unlike in CaseRegistry, a failed save is noticed: what  *)
(* the handlers do about it is part of the model.                          *)
(*                                                                         *)
(* A request names a case id and, with out_dir, any directory: several may *)
(* name one id in different directories, and several ids one directory.    *)
(* The service knows records by id, the disk by directory, so record and   *)
(* child belong to the request that made them.                             *)
(***************************************************************************)
EXTENDS Integers, FiniteSets

CONSTANTS
  Cases,        \* case ids
  Dirs,         \* immediate children of the service's output root
  Requests,     \* create requests, each made at most once
  CaseOf,       \* the case id a create request names
  DirOf,        \* the output directory it names
  Killers,      \* kill requests
  NoCase, NoRequest,
  FaultLimit,   \* bound on failures of the file system and of cmd.Start
  CrashLimit    \* bound on the deaths of the service

ASSUME ClerkAssumption ==
  /\ CaseOf \in [Requests -> Cases] /\ DirOf \in [Requests -> Dirs]
  /\ NoCase \notin Cases /\ NoRequest \notin Requests
  /\ FaultLimit \in Nat /\ CrashLimit \in Nat

VARIABLES
  held,      \* s.clerkCases: the request that has reserved an id or is listed with it
  rec,       \* the ClerkRecord each create request made, in memory
  child,     \* and its child process
  request,   \* where each create request is
  waiter,    \* and the goroutine that waits for its child
  killer,    \* where each kill request is, and the record it has in hand
  saver,     \* the persistClerkRecord call each of them is in
  tmp,       \* content of clerk.json.tmp in each directory
  disk,      \* content of clerk.json
  used,      \* the requests that have put files into the directory
  run,       \* run.json in the directory
  faults, crashes

vars == <<held, rec, child, request, waiter, killer, saver, tmp, disk, used, run,
          faults, crashes>>

Creator(r) == <<"create", r>>
Waiter(r) == <<"wait", r>>
Killer(k) == <<"kill", k>>

Actors ==
  {Creator(r) : r \in Requests} \cup {Waiter(r) : r \in Requests} \cup {Killer(k) : k \in Killers}

\* isActiveClerk.
Active == {"starting", "running", "killing"}

NoRecord == [status |-> "none", killing |-> FALSE, done |-> FALSE]

NoFile == [case |-> NoCase, status |-> "none"]

NotSaving == [pc |-> "idle", of |-> NoRequest, copy |-> "none"]

NewChild(at) == [at |-> at, signal |-> "none", run |-> "none", exit |-> "none"]

\* Is there a record under the id?  A reservation is a nil entry.
Listed(c) ==
  held[c] # NoRequest /\ request[held[c]] \notin {"directory", "publish"}

\* The service has the child's command in hand.
Attended(r) == request[r] \in {"mark", "handover"} \/ waiter[r] # "idle"

Init ==
  /\ held = [c \in Cases |-> NoRequest]
  /\ rec = [r \in Requests |-> NoRecord]
  /\ child = [r \in Requests |-> NewChild("unborn")]
  /\ request = [r \in Requests |-> "idle"]
  /\ waiter = [r \in Requests |-> "idle"]
  /\ killer = [k \in Killers |-> [pc |-> "idle", of |-> NoRequest]]
  /\ saver = [a \in Actors |-> NotSaving]
  /\ tmp = [d \in Dirs |-> NoFile]
  /\ disk = [d \in Dirs |-> NoFile]
  /\ used = [d \in Dirs |-> {}]
  /\ run = [d \in Dirs |-> "none"]
  /\ faults = 0
  /\ crashes = 0

Fault == faults < FaultLimit /\ faults' = faults + 1

-----------------------------------------------------------------------------
(* persistClerkRecord: copy the record, write the temporary file, rename   *)
(* it.  The rename fails if another goroutine's rename has taken the file. *)

Save(a, r) == [saver EXCEPT ![a] = [NotSaving EXCEPT !.pc = "copy", !.of = r]]

Copy(a) ==
  /\ saver[a].pc = "copy"
  /\ saver' = [saver EXCEPT ![a].pc = "write", ![a].copy = rec[saver[a].of].status]
  /\ UNCHANGED <<held, rec, child, request, waiter, killer, tmp, disk, used, run, faults, crashes>>

Write(a) ==
  LET r == saver[a].of IN
    /\ saver[a].pc = "write"
    /\ \/ /\ tmp' = [tmp EXCEPT ![DirOf[r]] = [case |-> CaseOf[r], status |-> saver[a].copy]]
          /\ saver' = [saver EXCEPT ![a].pc = "rename", ![a].copy = "none"]
          /\ UNCHANGED faults
       \/ /\ Fault
          /\ saver' = [saver EXCEPT ![a].pc = "error"]
          /\ UNCHANGED tmp
    /\ UNCHANGED <<held, rec, child, request, waiter, killer, disk, used, run, crashes>>

Rename(a) ==
  LET d == DirOf[saver[a].of] IN
    /\ saver[a].pc = "rename"
    /\ IF tmp[d] = NoFile
         THEN saver' = [saver EXCEPT ![a].pc = "error"] /\ UNCHANGED <<tmp, disk>>
         ELSE /\ disk' = [disk EXCEPT ![d] = tmp[d]]
              /\ tmp' = [tmp EXCEPT ![d] = NoFile]
              /\ saver' = [saver EXCEPT ![a].pc = "saved"]
    /\ UNCHANGED <<held, rec, child, request, waiter, killer, used, run, faults, crashes>>

Saving(a) == Copy(a) \/ Write(a) \/ Rename(a)

Saved(a) == saver[a].pc = "saved"
NotSaved(a) == saver[a].pc = "error"
SaveOver(a) == [saver EXCEPT ![a] = NotSaving]

-----------------------------------------------------------------------------
(* startClerkCase.                                                         *)

\* reserveClerkCase: the id is known, or the directory named holds a record.
\* After a restart only the latter tells of an earlier case under the id.
Taken(r) == held[CaseOf[r]] # NoRequest \/ disk[DirOf[r]] # NoFile

Reserve(r) ==
  /\ request[r] = "idle"
  /\ ~ Taken(r)
  /\ held' = [held EXCEPT ![CaseOf[r]] = r]
  /\ request' = [request EXCEPT ![r] = "directory"]
  /\ UNCHANGED <<rec, child, waiter, killer, saver, tmp, disk, used, run, faults, crashes>>

Unreserve(r) ==
  /\ held' = [held EXCEPT ![CaseOf[r]] = NoRequest]
  /\ request' = [request EXCEPT ![r] = "over"]

\* MkdirAll and rejectNonemptyClerkDir.
CheckDirectory(r) ==
  /\ request[r] = "directory"
  /\ IF used[DirOf[r]] # {}
       THEN Unreserve(r)
       ELSE request' = [request EXCEPT ![r] = "publish"] /\ UNCHANGED held
  /\ UNCHANGED <<rec, child, waiter, killer, saver, tmp, disk, used, run, faults, crashes>>

\* The directory cannot be made or read, or the second log after the first.
DirectoryFails(r) ==
  /\ request[r] \in {"directory", "publish"}
  /\ Fault
  /\ Unreserve(r)
  /\ \/ UNCHANGED used
     \/ request[r] = "publish" /\ used' = [used EXCEPT ![DirOf[r]] = @ \cup {r}]
  /\ UNCHANGED <<rec, child, waiter, killer, saver, tmp, disk, run, crashes>>

\* The logs are created and the record is listed: from here on it can be killed.
Publish(r) ==
  /\ request[r] = "publish"
  /\ used' = [used EXCEPT ![DirOf[r]] = @ \cup {r}]
  /\ rec' = [rec EXCEPT ![r] = [NoRecord EXCEPT !.status = "starting"]]
  /\ request' = [request EXCEPT ![r] = "launch"]
  /\ saver' = Save(Creator(r), r)
  /\ UNCHANGED <<held, child, waiter, killer, tmp, disk, run, faults, crashes>>

PublishFails(r) ==
  /\ request[r] = "launch"
  /\ NotSaved(Creator(r))
  /\ Unreserve(r)
  /\ saver' = SaveOver(Creator(r))
  /\ UNCHANGED <<rec, child, waiter, killer, tmp, disk, used, run, faults, crashes>>

\* Deviation: the child is started without waiting for its record to be saved.
LaunchAtOnce(r) ==
  /\ request[r] = "launch"
  /\ child' = [child EXCEPT ![r] = NewChild("alive")]
  /\ request' = [request EXCEPT ![r] = "mark"]
  /\ saver' = SaveOver(Creator(r))
  /\ UNCHANGED <<held, rec, waiter, killer, tmp, disk, used, run, faults, crashes>>

\* cmd.Start: cmd.Process is set.
Launch(r) ==
  /\ request[r] = "launch"
  /\ Saved(Creator(r))
  /\ child' = [child EXCEPT ![r] = NewChild("alive")]
  /\ request' = [request EXCEPT ![r] = "mark"]
  /\ saver' = SaveOver(Creator(r))
  /\ UNCHANGED <<held, rec, waiter, killer, tmp, disk, used, run, faults, crashes>>

\* markClerkFailed.
LaunchFails(r) ==
  /\ request[r] = "launch"
  /\ Saved(Creator(r))
  /\ Fault
  /\ rec' = [rec EXCEPT ![r].status = "failed"]
  /\ request' = [request EXCEPT ![r] = "failed"]
  /\ saver' = Save(Creator(r), r)
  /\ UNCHANGED <<held, child, waiter, killer, tmp, disk, used, run, crashes>>

FailureSaved(r) ==
  /\ request[r] = "failed"
  /\ Saved(Creator(r)) \/ NotSaved(Creator(r))
  /\ rec' = [rec EXCEPT ![r].done = TRUE]
  /\ request' = [request EXCEPT ![r] = "over"]
  /\ saver' = SaveOver(Creator(r))
  /\ UNCHANGED <<held, child, waiter, killer, tmp, disk, used, run, faults, crashes>>

\* Whatever the status has become since.
MarkRunning(r) ==
  /\ request[r] = "mark"
  /\ rec' = [rec EXCEPT ![r].status = "running"]
  /\ request' = [request EXCEPT ![r] = "handover"]
  /\ saver' = Save(Creator(r), r)
  /\ UNCHANGED <<held, child, waiter, killer, tmp, disk, used, run, faults, crashes>>

\* A record that cannot be saved is marked failed, its child running.
HandOver(r) ==
  /\ request[r] = "handover"
  /\ \/ Saved(Creator(r)) /\ UNCHANGED rec
     \/ NotSaved(Creator(r)) /\ rec' = [rec EXCEPT ![r].status = "failed"]
  /\ request' = [request EXCEPT ![r] = "over"]
  /\ waiter' = [waiter EXCEPT ![r] = "wait"]
  /\ saver' = SaveOver(Creator(r))
  /\ UNCHANGED <<held, child, killer, tmp, disk, used, run, faults, crashes>>

-----------------------------------------------------------------------------
(* waitClerkChild.                                                         *)

\* Deviation: an exit code of 0 completes even a case that reports failure.
ExitCodeStatus(r) ==
  IF rec[r].killing THEN "killed"
  ELSE IF child[r].exit = "error" THEN "failed" ELSE "completed"

ExitStatus(r) ==
  IF rec[r].killing THEN "killed"
  ELSE IF child[r].exit = "ok" THEN "completed" ELSE "failed"

Reap(r) ==
  /\ waiter[r] = "wait"
  /\ child[r].at = "exited"
  /\ child' = [child EXCEPT ![r].at = "reaped", ![r].exit = "none"]
  /\ rec' = [rec EXCEPT ![r].status = ExitStatus(r)]
  /\ waiter' = [waiter EXCEPT ![r] = "save"]
  /\ saver' = Save(Waiter(r), r)
  /\ UNCHANGED <<held, request, killer, tmp, disk, used, run, faults, crashes>>

\* The logs cannot be closed or read.
ReapBlind(r) ==
  /\ waiter[r] = "wait"
  /\ child[r].at = "exited"
  /\ Fault
  /\ child' = [child EXCEPT ![r].at = "reaped", ![r].exit = "none"]
  /\ rec' = [rec EXCEPT ![r].status = IF rec[r].killing THEN "killed" ELSE "failed"]
  /\ waiter' = [waiter EXCEPT ![r] = "save"]
  /\ saver' = Save(Waiter(r), r)
  /\ UNCHANGED <<held, request, killer, tmp, disk, used, run, crashes>>

Reaped(r) ==
  /\ waiter[r] = "save"
  /\ \/ Saved(Waiter(r)) /\ rec' = [rec EXCEPT ![r].done = TRUE]
     \/ NotSaved(Waiter(r)) /\ rec' = [rec EXCEPT ![r].done = TRUE, ![r].status = "failed"]
  /\ waiter' = [waiter EXCEPT ![r] = "idle"]
  /\ saver' = SaveOver(Waiter(r))
  /\ UNCHANGED <<held, child, request, killer, tmp, disk, used, run, faults, crashes>>

-----------------------------------------------------------------------------
(* handleKillClerkCase.  "answered" is the reply 200, "refused" an error.  *)

Step(k, pc) == killer' = [killer EXCEPT ![k].pc = pc]

Kill(k, c) ==
  LET r == held[c] IN
    /\ killer[k].pc = "idle"
    /\ Listed(c)
    /\ rec[r].status \in Active
    /\ rec' = [rec EXCEPT ![r].killing = TRUE, ![r].status = "killing"]
    /\ killer' = [killer EXCEPT ![k] = [pc |-> "signal", of |-> r]]
    /\ saver' = Save(Killer(k), r)
    /\ UNCHANGED <<held, child, request, waiter, tmp, disk, used, run, faults, crashes>>

\* Without a saved record nothing is signaled.
KillNotSaved(k) ==
  /\ killer[k].pc = "signal"
  /\ NotSaved(Killer(k))
  /\ Step(k, "refused")
  /\ saver' = SaveOver(Killer(k))
  /\ UNCHANGED <<held, rec, child, request, waiter, tmp, disk, used, run, faults, crashes>>

Weaker(signal, other) == IF signal = "kill" THEN signal ELSE other

\* A child that has not been started has no process to signal.
Interrupt(k) ==
  LET r == killer[k].of IN
    /\ killer[k].pc = "signal"
    /\ Saved(Killer(k))
    /\ CASE child[r].at = "unborn" -> Step(k, "answered") /\ UNCHANGED child
         [] child[r].at = "alive" ->
              /\ Step(k, "grace")
              /\ child' = [child EXCEPT ![r].signal = Weaker(@, "interrupt")]
         [] child[r].at = "exited" -> Step(k, "grace") /\ UNCHANGED child
         [] child[r].at = "reaped" ->
              /\ Step(k, IF rec[r].done THEN "answered" ELSE "refused")
              /\ UNCHANGED child
    /\ saver' = SaveOver(Killer(k))
    /\ UNCHANGED <<held, rec, request, waiter, tmp, disk, used, run, faults, crashes>>

\* Deviation: the second grace period follows the first without a kill.
GraceOnly(k) ==
  /\ killer[k].pc = "grace"
  /\ ~ rec[killer[k].of].done
  /\ Step(k, "last")
  /\ UNCHANGED <<held, rec, child, request, waiter, saver, tmp, disk, used, run, faults, crashes>>

\* clerkKillGrace has passed.
ForceKill(k) ==
  LET r == killer[k].of IN
    /\ killer[k].pc = "grace"
    /\ ~ rec[r].done
    /\ CASE child[r].at = "alive" ->
              Step(k, "last") /\ child' = [child EXCEPT ![r].signal = "kill"]
         [] child[r].at = "reaped" -> Step(k, "refused") /\ UNCHANGED child
         [] OTHER -> Step(k, "last") /\ UNCHANGED child
    /\ UNCHANGED <<held, rec, request, waiter, saver, tmp, disk, used, run, faults, crashes>>

\* The child is done with, or the last grace period is over.
KillAnswer(k) ==
  /\ \/ killer[k].pc = "grace" /\ rec[killer[k].of].done
     \/ killer[k].pc = "last"
  /\ Step(k, "answered")
  /\ UNCHANGED <<held, rec, child, request, waiter, saver, tmp, disk, used, run, faults, crashes>>

-----------------------------------------------------------------------------
(* listClerkRecords: a record on disk whose id is not listed in memory is  *)
(* what an earlier service left; it is reconciled with the run.json.       *)

\* "detached" stands for failed with detachedProcessMessage.
Repaired(d) ==
  IF disk[d].status \notin Active \cup {"detached"} THEN disk[d].status
  ELSE CASE run[d] = "ok" -> "completed"
         [] run[d] = "failed" -> "failed"
         [] OTHER -> "detached"

Reconcile(d) ==
  /\ disk[d] # NoFile
  /\ ~ Listed(disk[d].case)
  /\ Repaired(d) # disk[d].status
  /\ disk' = [disk EXCEPT ![d].status = Repaired(d)]
  /\ tmp' = [tmp EXCEPT ![d] = NoFile]
  /\ UNCHANGED <<held, rec, child, request, waiter, killer, saver, used, run, faults, crashes>>

-----------------------------------------------------------------------------
(* The child, `aar run`: it writes run.json when its case is over and      *)
(* exits; an interrupted one usually ends, one that is killed does.        *)

WriteRun(r) ==
  /\ child[r].at = "alive"
  /\ child[r].run = "none"
  /\ \E result \in {"ok", "failed"} :
       /\ child' = [child EXCEPT ![r].run = result]
       /\ run' = [run EXCEPT ![DirOf[r]] = result]
  /\ UNCHANGED <<held, rec, request, waiter, killer, saver, tmp, disk, used, faults, crashes>>

\* A child whose service has died is reaped by the system.
Exit(r) ==
  /\ child[r].at = "alive"
  /\ \/ /\ Attended(r)
        /\ \E e \in {"error"} \cup ({child[r].run} \ {"none"}) :
             child' = [child EXCEPT ![r].at = "exited", ![r].signal = "none", ![r].exit = e]
     \/ /\ ~ Attended(r)
        /\ child' = [child EXCEPT ![r].at = "reaped", ![r].signal = "none"]
  /\ UNCHANGED <<held, rec, request, waiter, killer, saver, tmp, disk, used, run, faults, crashes>>

Die(r) == child[r].signal = "kill" /\ Exit(r)

\* The service dies and is started again; children live on, unattached.
Restart ==
  /\ crashes < CrashLimit
  /\ crashes' = crashes + 1
  /\ held' = [c \in Cases |-> NoRequest]
  /\ rec' = [r \in Requests |-> NoRecord]
  /\ request' = [r \in Requests |-> IF request[r] = "idle" THEN "idle" ELSE "over"]
  /\ waiter' = [r \in Requests |-> "idle"]
  /\ killer' = [k \in Killers |->
       IF killer[k].pc = "idle" THEN killer[k] ELSE [pc |-> "refused", of |-> NoRequest]]
  /\ saver' = [a \in Actors |-> NotSaving]
  /\ child' = [r \in Requests |->
       IF child[r].at = "exited" THEN [child[r] EXCEPT !.at = "reaped", !.exit = "none"]
                                 ELSE child[r]]
  /\ UNCHANGED <<tmp, disk, used, run, faults>>

-----------------------------------------------------------------------------

Create(r) ==
  \/ CheckDirectory(r) \/ Publish(r) \/ PublishFails(r) \/ Launch(r)
  \/ FailureSaved(r) \/ MarkRunning(r) \/ HandOver(r)

KillOn(k) == KillNotSaved(k) \/ Interrupt(k) \/ ForceKill(k) \/ KillAnswer(k)

Next ==
  \/ \E a \in Actors : Saving(a)
  \/ \E r \in Requests : Reserve(r) \/ DirectoryFails(r) \/ LaunchFails(r) \/ Create(r)
  \/ \E r \in Requests : Reap(r) \/ ReapBlind(r) \/ Reaped(r)
  \/ \E k \in Killers : KillOn(k) \/ \E c \in Cases : Kill(k, c)
  \/ \E d \in Dirs : Reconcile(d)
  \/ \E r \in Requests : WriteRun(r) \/ Exit(r)
  \/ Restart

Spec == Init /\ [][Next]_vars

(***************************************************************************)
(* Goroutines run, grace periods pass, and a killed process dies.  Nothing *)
(* makes a request come, a child end by itself or the service restart.     *)
(***************************************************************************)
FairSpec ==
  /\ Spec
  /\ \A a \in Actors : WF_vars(Saving(a))
  /\ \A r \in Requests : WF_vars(Create(r)) /\ WF_vars(Reap(r) \/ Reaped(r)) /\ WF_vars(Die(r))
  /\ \A k \in Killers : WF_vars(KillOn(k))

-----------------------------------------------------------------------------
\* Type correctness of the records, the files and the goroutines.
TypeOK ==
  LET Statuses == {"none", "completed", "failed", "killed"} \cup Active
      Files == [case : Cases \cup {NoCase}, status : Statuses \cup {"detached"}] IN
    /\ held \in [Cases -> Requests \cup {NoRequest}]
    /\ rec \in [Requests -> [status : Statuses, killing : BOOLEAN, done : BOOLEAN]]
    /\ child \in [Requests -> [at : {"unborn", "alive", "exited", "reaped"},
                               signal : {"none", "interrupt", "kill"},
                               run : {"none", "ok", "failed"},
                               exit : {"none", "ok", "failed", "error"}]]
    /\ request \in [Requests -> {"idle", "directory", "publish", "launch", "failed", "mark",
                                 "handover", "over"}]
    /\ waiter \in [Requests -> {"idle", "wait", "save"}]
    /\ killer \in [Killers -> [pc : {"idle", "signal", "grace", "last", "answered", "refused"},
                               of : Requests \cup {NoRequest}]]
    /\ saver \in [Actors -> [pc : {"idle", "copy", "write", "rename", "saved", "error"},
                             of : Requests \cup {NoRequest}, copy : Statuses]]
    /\ tmp \in [Dirs -> Files] /\ disk \in [Dirs -> Files]
    /\ used \in [Dirs -> SUBSET Requests]
    /\ run \in [Dirs -> {"none", "ok", "failed"}]
    /\ faults \in 0..FaultLimit /\ crashes \in 0..CrashLimit

\* Two ids found the directory empty at the same time (nothing excludes it:
\* rejectNonemptyClerkDir is called without the lock).
Contested(d) == \E r, q \in used[d] : CaseOf[r] # CaseOf[q]

(***************************************************************************)
(* No child without a record.  A restart forgets the ids, so an id can be  *)
(* started again in another directory while its earlier child still lives. *)
(* Yet every living child is named by the clerk.json of its directory, so  *)
(* that a later service can find it (unless two ids put files there at     *)
(* once); no directory is run in twice for one id, across failures and     *)
(* restarts; and the child a service attends is the one its id is listed   *)
(* with, so that a kill request reaches it and not an earlier one.         *)
(***************************************************************************)
ChildIsOnRecord ==
  \A r \in Requests :
    /\ child[r].at = "alive" => disk[DirOf[r]].case = CaseOf[r] \/ Contested(DirOf[r])
    /\ \A q \in Requests \ {r} :
         /\ child[r].at # "unborn" /\ child[q].at # "unborn"
         /\ CaseOf[r] = CaseOf[q]
         => DirOf[r] # DirOf[q]
    /\ Attended(r) => held[CaseOf[r]] = r /\ Listed(CaseOf[r])

(***************************************************************************)
(* An end on record is a real one: a record that is "completed" or         *)
(* "killed" has no child left, and "completed" is said in memory only of a *)
(* child whose case did not fail, and on disk only next to a run.json that *)
(* says so (unless two ids share the directory).                           *)
(***************************************************************************)
EndIsReal ==
  /\ \A r \in Requests :
       /\ rec[r].status \in {"completed", "killed"} => child[r].at = "reaped"
       /\ rec[r].status = "completed" => child[r].run = "ok"
  /\ \A d \in Dirs : disk[d].status = "completed" => run[d] = "ok" \/ Contested(d)

(***************************************************************************)
(* A signaled child goes: once a kill request has reached the process, the *)
(* record becomes inactive, unless the service dies meanwhile and leaves   *)
(* the child to itself.                                                    *)
(***************************************************************************)
KillSettles ==
  \A k \in Killers :
    killer[k].pc = "grace" ~>
      \/ killer[k].of = NoRequest
      \/ rec[killer[k].of].status \notin Active /\ child[killer[k].of].at # "alive"

(***************************************************************************)
(* What the manual says of the kill route (arb/manual.md:876): it sends an *)
(* interrupt and kills the child if it has not exited.  A request that was *)
(* answered therefore leaves no child that was never signaled.             *)
(***************************************************************************)
KillReachesChild ==
  \A k \in Killers :
    killer[k].pc = "answered" /\ child[killer[k].of].at = "alive" =>
      child[killer[k].of].signal # "none"
=============================================================================
