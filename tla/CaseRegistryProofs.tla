------------------------- MODULE CaseRegistryProofs -------------------------
(***************************************************************************)
(* What the record of a direct case may say, for any number of cancel      *)
(* requests and of deaths of the service.                                  *)
(*                                                                         *)
(* The invariant follows an outcome on its way: a record in memory, the    *)
(* copy a save has taken of it, the temporary file, the file.  Each of     *)
(* them is backed by the facts because facts do not go away: a dead child  *)
(* stays dead and a run.json stays as it was written.  The rest says who   *)
(* is at work on which record.                                             *)
(***************************************************************************)
EXTENDS CaseRegistry, TLAPS

Backed(r) ==
  /\ r.status = "canceled" => child.at = "exited"
  /\ r.status = "completed" => run = "ok"

\* A file whose record cannot be read has no error text either.
Torn(r) == r.status \in {"empty", "garbled"} => r \in {Empty, Garbled}

\* Every place that holds the record or a copy of it.
AllBacked ==
  /\ Backed(rec) /\ Backed(tmp) /\ Backed(final)
  /\ \A a \in Actors : Backed(saver[a].copy)

NothingTorn ==
  /\ Torn(tmp) /\ Torn(final)
  /\ \A a \in Actors : saver[a].copy.status \notin {"empty", "garbled"}

\* A child that has exited with code 0 has written the run.json it names.
ChildFacts ==
  /\ child.at = "exited" /\ child.code = 0 => run # "none" /\ child.summary = run
  /\ child.at = "unborn" => run = "none"

\* Who is at work on the record, and what it may say then.
Duties ==
  /\ ~ up => rec = NoRecord
  /\ pc["creator"] # "off" =>
       /\ rec.status \in {"starting", "canceling"}
       /\ pc["waiter"] = "off" /\ pc["poller"] = "off"
       /\ pc["creator"] = "start" <=> child.at = "unborn"
  /\ pc["waiter"] # "off" =>
       rec.status \in Active \cup {"failed"} /\ child.at # "unborn"
  /\ pc["poller"] # "off" => child.at # "unborn"
  /\ \A c \in Clients : pc[c] = "kill" => child.at # "unborn"

Owned == pc["creator"] # "off" \/ pc["waiter"] # "off"

Owners ==
  /\ rec.status \in {"starting", "running"} => Owned
  /\ InHand => Owned

Inv == TypeOK /\ AllBacked /\ NothingTorn /\ ChildFacts /\ Duties /\ Owners

Saves ==
  [status : {"none", "empty", "garbled"} \cup Active \cup Terminal,
   error : {"", "text", "detached"}]

Savers ==
  [pc : {"idle", "copy", "open", "write", "rename"}, copy : Saves,
   file : {"none", "tmp", "final", "gone"}]

Records ==
  [status : {"none"} \cup Active \cup Terminal, error : {"", "text", "detached"},
   canceling : BOOLEAN, attached : BOOLEAN]

Children ==
  [at : {"unborn", "booting", "serving", "exited"}, code : 0..1,
   summary : {"none", "ok", "failed", "error"}]

Places ==
  {"off", "start", "started", "poll", "healthy", "late", "wait", "signal", "kill", "done"}

-----------------------------------------------------------------------------
Typed ==
  /\ up \in BOOLEAN /\ rec \in Records /\ child \in Children
  /\ run \in {"none", "ok", "failed"} /\ pc \in [Actors -> Places]
  /\ saver \in [Actors -> Savers] /\ tmp \in Saves /\ final \in Saves
  /\ crashes \in 0..CrashLimit

\* TypeOK with its sets named, in a state and in the next.
LEMMA TypeNamed == (TypeOK <=> Typed) /\ (TypeOK' <=> Typed')
BY DEF TypeOK, Typed, Records, Children, Places, Savers, Saves

\* Records that no case has, as saves and as records.
LEMMA Blank ==
  /\ Absent \in Saves /\ Empty \in Saves /\ Garbled \in Saves
  /\ NotSaving \in Savers /\ NoRecord \in Records
  /\ NoRecord.status = "none" /\ NoRecord.attached = FALSE
  /\ \A r \in Records : Public(r) \in Saves
BY DEF Absent, Empty, Garbled, NotSaving, NoRecord, Public, Saves, Savers, Records, Active, Terminal

\* The names of the goroutines are different.
LEMMA ActorFacts ==
  /\ "creator" \in Actors /\ "poller" \in Actors /\ "waiter" \in Actors
  /\ \A c \in Clients : c \in Actors /\ c \notin {"creator", "poller", "waiter"}
BY RegistryAssumption DEF Actors

\* Nothing is recorded at first.
LEMMA InitInv == Init => Inv
<1>. SUFFICES ASSUME Init PROVE Inv
  OBVIOUS
<1>. USE DEF Init
<1>1. TypeOK
  <2>1. child \in Children /\ run \in {"none", "ok", "failed"}
    BY DEF Children
  <2>2. pc \in [Actors -> Places] /\ saver \in [Actors -> Savers]
    BY Blank DEF Places
  <2>3. crashes \in 0..CrashLimit
    BY RegistryAssumption
  <2>. QED BY <2>1, <2>2, <2>3, Blank, TypeNamed DEF Typed
<1>2. AllBacked /\ NothingTorn /\ ChildFacts
  BY DEF AllBacked, Backed, NothingTorn, Torn, ChildFacts, NoRecord, NotSaving, Absent
<1>3. Duties /\ Owners
  BY ActorFacts DEF Duties, Owners, InHand, NoRecord
<1>. QED BY <1>1, <1>2, <1>3 DEF Inv

-----------------------------------------------------------------------------
(* Saving.                                                                 *)

\* A step of a save moves copies of the record and nothing else.
LEMMA SaveStep ==
  ASSUME Inv, UNCHANGED <<up, rec, child, run, pc, crashes>>,
         TypeOK', Backed(tmp'), Backed(final'), Torn(tmp'), Torn(final'),
         \A b \in Actors : /\ Backed(saver'[b].copy)
                           /\ saver'[b].copy.status \notin {"empty", "garbled"}
  PROVE  Inv'
<1>1. AllBacked' /\ NothingTorn'
  BY DEF Inv, AllBacked, NothingTorn, Backed, Torn
<1>2. ChildFacts' /\ Duties' /\ Owners'
  BY DEF Inv, ChildFacts, Duties, Owners, Owned, InHand
<1>. QED BY <1>1, <1>2 DEF Inv

\* A save, step by step, preserves the invariant.
LEMMA SavingKeepsInv ==
  ASSUME Inv, NEW a \in Actors, Copy(a) \/ Open(a) \/ Write(a) \/ Rename(a)
  PROVE  Inv'
<1>0. /\ saver \in [Actors -> Savers] /\ tmp \in Saves /\ final \in Saves
      /\ Public(rec) \in Saves
  BY TypeNamed, Blank DEF Inv, Typed
<1>1. /\ rec.status \notin {"empty", "garbled"}
      /\ Backed(Absent) /\ Backed(Empty) /\ Backed(Garbled) /\ Backed(Public(rec))
      /\ Torn(Empty) /\ Torn(Garbled) /\ Torn(Absent)
      /\ Public(rec).status = rec.status /\ Absent.status = "none"
  BY DEF Inv, TypeOK, Public, Absent, Empty, Garbled, Active, Terminal, AllBacked, Backed, Torn
<1>2. ASSUME saver' \in [Actors -> Savers], tmp' \in Saves, final' \in Saves,
             UNCHANGED <<up, rec, child, run, pc, crashes>>,
             \A b \in Actors : saver'[b].copy \in {saver[b].copy, Public(rec), Absent},
             tmp' \in {tmp, saver[a].copy, Absent, Empty, Garbled},
             final' \in {final, tmp, saver[a].copy, Garbled}
      PROVE  Inv'
  <2>1. TypeOK'
    <3>1. TypeOK
      BY DEF Inv
    <3>. QED BY <1>2, <3>1, TypeNamed DEF Typed
  <2>2. Backed(tmp') /\ Backed(final') /\ Torn(tmp') /\ Torn(final')
    BY <1>1, <1>2 DEF Inv, AllBacked, NothingTorn, Torn
  <2>3. \A b \in Actors : /\ Backed(saver'[b].copy)
                          /\ saver'[b].copy.status \notin {"empty", "garbled"}
    BY <1>1, <1>2 DEF Inv, AllBacked, NothingTorn
  <2>. QED BY <1>2, <2>1, <2>2, <2>3, SaveStep
<1>3. CASE Copy(a)
  <2>1. /\ saver' \in [Actors -> Savers]
        /\ \A b \in Actors : saver'[b].copy \in {saver[b].copy, Public(rec), Absent}
    BY <1>0, <1>3 DEF Copy, Savers
  <2>. QED BY <1>0, <1>2, <1>3, <2>1 DEF Copy
<1>4. CASE Open(a)
  <2>1. /\ saver' \in [Actors -> Savers]
        /\ \A b \in Actors : saver'[b].copy \in {saver[b].copy, Public(rec), Absent}
    BY <1>0, <1>4 DEF Open, Savers
  <2>. QED BY <1>0, <1>2, <1>4, <2>1, Blank DEF Open
<1>5. CASE Write(a)
  <2>1. /\ saver' \in [Actors -> Savers]
        /\ \A b \in Actors : saver'[b].copy \in {saver[b].copy, Public(rec), Absent}
    BY <1>0, <1>5 DEF Write, Savers
  <2>2. tmp' \in {saver[a].copy, Garbled, tmp} /\ final' \in {saver[a].copy, Garbled, final}
    BY <1>5 DEF Write
  <2>3. saver[a].copy \in Saves
    BY <1>0 DEF Savers
  <2>. QED BY <1>0, <1>2, <1>5, <2>1, <2>2, <2>3, Blank DEF Write
<1>6. CASE Rename(a)
  <2>1. /\ saver' \in [Actors -> Savers]
        /\ \A b \in Actors : saver'[b].copy \in {saver[b].copy, Public(rec), Absent}
    <3>1. ASSUME NEW s \in Savers
          PROVE  [s EXCEPT !.file = Moved(@)] \in Savers /\ [s EXCEPT !.file = Moved(@)].copy = s.copy
      BY DEF Savers, Moved
    <3>2. NotSaving.copy = Absent
      BY DEF NotSaving
    <3>3. CASE tmp = Absent
      BY <1>0, <1>6, <3>2, <3>3, Blank DEF Rename
    <3>4. CASE tmp # Absent
      BY <1>0, <1>6, <3>1, <3>2, <3>4, Blank DEF Rename
    <3>. QED BY <3>3, <3>4
  <2>. QED BY <1>0, <1>2, <1>6, <2>1, Blank DEF Rename
<1>. QED BY <1>3, <1>4, <1>5, <1>6
-----------------------------------------------------------------------------
(* The record.                                                             *)

\* Whoever begins a save, or none, has taken no copy yet.
LEMMA SaveBegins ==
  ASSUME Inv, NEW a \in Actors, saver' = Save(a) \/ UNCHANGED saver
  PROVE  /\ saver' \in [Actors -> Savers]
         /\ \A b \in Actors : saver'[b].copy \in {saver[b].copy, Absent}
<1>1. saver \in [Actors -> Savers] /\ NotSaving.copy = Absent
  BY TypeNamed DEF Inv, Typed, NotSaving
<1>2. [NotSaving EXCEPT !.pc = "copy"] \in Savers
  BY Blank DEF Savers
<1>3. [NotSaving EXCEPT !.pc = "copy"].copy = Absent
  BY DEF NotSaving
<1>. QED BY <1>1, <1>2, <1>3 DEF Save

(***************************************************************************)
(* A step of a goroutine that leaves the files and the service alone: the  *)
(* copies stay backed when facts are not taken back, and the record must   *)
(* be backed by the facts as they are after the step.                      *)
(***************************************************************************)
LEMMA RecordStep ==
  ASSUME Inv, NEW a \in Actors, saver' = Save(a) \/ UNCHANGED saver,
         UNCHANGED <<up, tmp, final, crashes>>,
         child.at = "exited" => child'.at = "exited", run = "ok" => run' = "ok",
         rec' \in Records, child' \in Children, run' \in {"none", "ok", "failed"},
         pc' \in [Actors -> Places],
         Backed(rec)', ChildFacts', Duties', Owners'
  PROVE  Inv'
<1>1. TypeOK'
  BY SaveBegins, TypeNamed DEF Inv, Typed
<1>2. \A b \in Actors : saver'[b].copy \in {saver[b].copy, Absent}
  BY SaveBegins
<1>0. Absent.status = "none"
  BY DEF Absent
<1>3. AllBacked'
  <2>1. ASSUME NEW b \in Actors PROVE Backed(saver[b].copy)'
    <3>1. Backed(saver[b].copy) /\ saver'[b].copy \in {saver[b].copy, Absent}
      BY <1>2 DEF Inv, AllBacked
    <3>. QED BY <1>0, <3>1 DEF Backed
  <2>2. Backed(tmp)' /\ Backed(final)'
    BY DEF Inv, AllBacked, Backed
  <2>. QED BY <2>1, <2>2 DEF AllBacked
<1>4. NothingTorn'
  <2>1. \A b \in Actors : saver'[b].copy.status \notin {"empty", "garbled"}
    BY <1>0, <1>2 DEF Inv, NothingTorn
  <2>. QED BY <2>1 DEF Inv, NothingTorn, Torn
<1>. QED BY <1>1, <1>3, <1>4 DEF Inv
\* The steps of the goroutine that creates the case preserve the invariant.
LEMMA CreatorKeepsInv ==
  ASSUME Inv, StartCase \/ StartChild \/ StartFails \/ Spawn
  PROVE  Inv'
<1>0. rec \in Records /\ child \in Children /\ run \in {"none", "ok", "failed"} /\ pc \in [Actors -> Places]
  BY TypeNamed DEF Inv, Typed
<1>1. CASE StartCase
  <2>. USE <1>1
  <2>1. rec' \in Records /\ child' \in Children /\ run' \in {"none", "ok", "failed"}
        /\ pc' \in [Actors -> Places]
    BY <1>0 DEF StartCase, Records, Children, Places, Active, Terminal, NoRecord
  <2>2. rec'.status = "starting" /\ rec'.attached = TRUE
    BY <1>0 DEF StartCase, Records, NoRecord
  <2>3. child'.at = child.at /\ child'.code = child.code
    BY <1>0 DEF StartCase, Children
  <2>4. /\ pc'["creator"] = "start" /\ pc'["poller"] = pc["poller"] /\ pc'["waiter"] = pc["waiter"]
        /\ \A c \in Clients : pc'[c] = pc[c]
    BY <1>0, ActorFacts DEF StartCase
  <2>5. Backed(rec)' /\ ChildFacts'
    BY <2>2, <2>3 DEF StartCase, Backed, ChildFacts, Inv, AllBacked, Duties
  <2>6. Duties'
    BY <1>0, <2>2, <2>3, <2>4, Blank DEF StartCase, Duties, Inv, Active
  <2>7. Owners'
    BY <2>2, <2>3, <2>4 DEF StartCase, Owners, Owned, InHand, Duties, Inv
  <2>. QED BY <2>1, <2>5, <2>6, <2>7, ActorFacts, RecordStep DEF StartCase, Inv, Duties
<1>2. CASE StartChild
  <2>. USE <1>2
  <2>1. rec' \in Records /\ child' \in Children /\ run' \in {"none", "ok", "failed"}
        /\ pc' \in [Actors -> Places]
    BY <1>0 DEF StartChild, Records, Children, Places, Active, Terminal, NoRecord
  <2>2. rec'.status = rec.status /\ rec'.attached = rec.attached
    BY <1>0 DEF StartChild, Records, NoRecord
  <2>3. child'.at = "booting" /\ child'.code = child.code
    BY <1>0 DEF StartChild, Children
  <2>4. /\ pc'["creator"] = "started" /\ pc'["poller"] = pc["poller"] /\ pc'["waiter"] = pc["waiter"]
        /\ \A c \in Clients : pc'[c] = pc[c]
    BY <1>0, ActorFacts DEF StartChild
  <2>5. Backed(rec)' /\ ChildFacts'
    BY <2>2, <2>3 DEF StartChild, Backed, ChildFacts, Inv, AllBacked, Duties
  <2>6. Duties'
    BY <1>0, <2>2, <2>3, <2>4, Blank DEF StartChild, Duties, Inv, Active
  <2>7. Owners'
    BY <2>2, <2>3, <2>4 DEF StartChild, Owners, Owned, InHand, Duties, Inv
  <2>. QED BY <2>1, <2>5, <2>6, <2>7, ActorFacts, RecordStep DEF StartChild, Inv, Duties
<1>3. CASE StartFails
  <2>. USE <1>3
  <2>1. rec' \in Records /\ child' \in Children /\ run' \in {"none", "ok", "failed"}
        /\ pc' \in [Actors -> Places]
    BY <1>0 DEF StartFails, Records, Children, Places, Active, Terminal, NoRecord
  <2>2. rec'.status = "failed" /\ rec'.attached = rec.attached
    BY <1>0 DEF StartFails, Records, NoRecord
  <2>3. child'.at = child.at /\ child'.code = child.code
    BY <1>0 DEF StartFails, Children
  <2>4. /\ pc'["creator"] = "off" /\ pc'["poller"] = pc["poller"] /\ pc'["waiter"] = pc["waiter"]
        /\ \A c \in Clients : pc'[c] = pc[c]
    BY <1>0, ActorFacts DEF StartFails
  <2>5. Backed(rec)' /\ ChildFacts'
    BY <2>2, <2>3 DEF StartFails, Backed, ChildFacts, Inv, AllBacked, Duties
  <2>6. Duties'
    BY <1>0, <2>2, <2>3, <2>4, Blank DEF StartFails, Duties, Inv, Active
  <2>7. Owners'
    BY <2>2, <2>3, <2>4 DEF StartFails, Owners, Owned, InHand, Duties, Inv
  <2>. QED BY <2>1, <2>5, <2>6, <2>7, ActorFacts, RecordStep DEF StartFails, Inv, Duties
<1>4. CASE Spawn
  <2>. USE <1>4
  <2>1. rec' \in Records /\ child' \in Children /\ run' \in {"none", "ok", "failed"}
        /\ pc' \in [Actors -> Places]
    <3>1. pc' \in [Actors -> Places]
      BY <1>0 DEF Spawn, Places
    <3>. QED BY <1>0, <3>1 DEF Spawn
  <2>2. rec'.status = rec.status /\ rec'.attached = rec.attached
    BY <1>0 DEF Spawn, Records, NoRecord
  <2>3. child'.at = child.at /\ child'.code = child.code
    BY <1>0 DEF Spawn, Children
  <2>4. /\ pc'["creator"] = "off" /\ pc'["poller"] = "poll" /\ pc'["waiter"] = "wait"
        /\ \A c \in Clients : pc'[c] = pc[c]
    BY <1>0, ActorFacts DEF Spawn
  <2>5. Backed(rec)' /\ ChildFacts'
    BY <2>2, <2>3 DEF Spawn, Backed, ChildFacts, Inv, AllBacked, Duties
  <2>6. Duties'
    BY <1>0, <2>2, <2>3, <2>4, Blank DEF Spawn, Duties, Inv, Active
  <2>7. Owners'
    BY <2>2, <2>3, <2>4 DEF Spawn, Owners, Owned, InHand, Duties, Inv
  <2>. QED BY <2>1, <2>5, <2>6, <2>7, ActorFacts, RecordStep DEF Spawn, Inv, Duties
<1>. QED BY <1>1, <1>2, <1>3, <1>4

\* The steps of the goroutine that polls the child's API preserve the invariant.
LEMMA PollerKeepsInv ==
  ASSUME Inv, Poll \/ MarkRunning \/ MarkStartupFailed \/ PollAgain
  PROVE  Inv'
<1>0. rec \in Records /\ child \in Children /\ run \in {"none", "ok", "failed"} /\ pc \in [Actors -> Places]
  BY TypeNamed DEF Inv, Typed
<1>1. CASE Poll
  <2>. USE <1>1
  <2>1. rec' \in Records /\ child' \in Children /\ run' \in {"none", "ok", "failed"}
        /\ pc' \in [Actors -> Places]
    <3>1. pc' \in [Actors -> Places]
      BY <1>0 DEF Poll, Places
    <3>. QED BY <1>0, <3>1 DEF Poll
  <2>2. rec'.status = rec.status /\ rec'.attached = rec.attached
    BY <1>0 DEF Poll, Records, NoRecord
  <2>3. child'.at = child.at /\ child'.code = child.code
    BY <1>0 DEF Poll, Children
  <2>4. /\ pc'["creator"] = pc["creator"] /\ pc'["poller"] = pc'["poller"] /\ pc'["waiter"] = pc["waiter"]
        /\ \A c \in Clients : pc'[c] = pc[c]
    BY <1>0, ActorFacts DEF Poll
  <2>5. Backed(rec)' /\ ChildFacts'
    BY <2>2, <2>3 DEF Poll, Backed, ChildFacts, Inv, AllBacked, Duties
  <2>6. Duties'
    BY <1>0, <2>2, <2>3, <2>4, Blank DEF Poll, Duties, Inv, Active
  <2>7. Owners'
    BY <2>2, <2>3, <2>4 DEF Poll, Owners, Owned, InHand, Duties, Inv
  <2>. QED BY <2>1, <2>5, <2>6, <2>7, ActorFacts, RecordStep DEF Poll, Inv, Duties
<1>2. CASE MarkRunning
  <2>. USE <1>2
  <2>1. rec' \in Records /\ child' \in Children /\ run' \in {"none", "ok", "failed"}
        /\ pc' \in [Actors -> Places]
    BY <1>0 DEF MarkRunning, Mark, Records, Children, Places, Active, Terminal, NoRecord
  <2>2. rec'.status = (IF rec.status = "starting" THEN "running" ELSE rec.status) /\ rec'.attached = rec.attached
    BY <1>0 DEF MarkRunning, Mark, Records, NoRecord
  <2>3. child'.at = child.at /\ child'.code = child.code
    BY <1>0 DEF MarkRunning, Mark, Children
  <2>4. /\ pc'["creator"] = pc["creator"] /\ pc'["poller"] = "off" /\ pc'["waiter"] = pc["waiter"]
        /\ \A c \in Clients : pc'[c] = pc[c]
    BY <1>0, ActorFacts DEF MarkRunning, Mark
  <2>5. Backed(rec)' /\ ChildFacts'
    BY <2>2, <2>3 DEF MarkRunning, Mark, Backed, ChildFacts, Inv, AllBacked, Duties
  <2>6. Duties'
    BY <1>0, <2>2, <2>3, <2>4, Blank DEF MarkRunning, Mark, Duties, Inv, Active
  <2>7. Owners'
    BY <2>2, <2>3, <2>4 DEF MarkRunning, Mark, Owners, Owned, InHand, Duties, Inv
  <2>. QED BY <2>1, <2>5, <2>6, <2>7, ActorFacts, RecordStep DEF MarkRunning, Mark, Inv, Duties
<1>3. CASE MarkStartupFailed
  <2>. USE <1>3
  <2>1. rec' \in Records /\ child' \in Children /\ run' \in {"none", "ok", "failed"}
        /\ pc' \in [Actors -> Places]
    BY <1>0 DEF MarkStartupFailed, Mark, Records, Children, Places, Active, Terminal, NoRecord
  <2>2. rec'.status = (IF rec.status = "starting" THEN "failed" ELSE rec.status) /\ rec'.attached = rec.attached
    BY <1>0 DEF MarkStartupFailed, Mark, Records, NoRecord
  <2>3. child'.at = child.at /\ child'.code = child.code
    BY <1>0 DEF MarkStartupFailed, Mark, Children
  <2>4. /\ pc'["creator"] = pc["creator"] /\ pc'["poller"] = "off" /\ pc'["waiter"] = pc["waiter"]
        /\ \A c \in Clients : pc'[c] = pc[c]
    BY <1>0, ActorFacts DEF MarkStartupFailed, Mark
  <2>5. Backed(rec)' /\ ChildFacts'
    BY <2>2, <2>3 DEF MarkStartupFailed, Mark, Backed, ChildFacts, Inv, AllBacked, Duties
  <2>6. Duties'
    BY <1>0, <2>2, <2>3, <2>4, Blank DEF MarkStartupFailed, Mark, Duties, Inv, Active
  <2>7. Owners'
    BY <2>2, <2>3, <2>4 DEF MarkStartupFailed, Mark, Owners, Owned, InHand, Duties, Inv
  <2>. QED BY <2>1, <2>5, <2>6, <2>7, ActorFacts, RecordStep DEF MarkStartupFailed, Mark, Inv, Duties
<1>4. CASE PollAgain
  <2>. USE <1>4
  <2>1. rec' \in Records /\ child' \in Children /\ run' \in {"none", "ok", "failed"}
        /\ pc' \in [Actors -> Places]
    <3>1. pc' \in [Actors -> Places]
      BY <1>0 DEF PollAgain, Places
    <3>. QED BY <1>0, <3>1 DEF PollAgain
  <2>2. rec'.status = rec.status /\ rec'.attached = rec.attached
    BY <1>0 DEF PollAgain, Records, NoRecord
  <2>3. child'.at = child.at /\ child'.code = child.code
    BY <1>0 DEF PollAgain, Children
  <2>4. /\ pc'["creator"] = pc["creator"] /\ pc'["poller"] = "poll" /\ pc'["waiter"] = pc["waiter"]
        /\ \A c \in Clients : pc'[c] = pc[c]
    BY <1>0, ActorFacts DEF PollAgain
  <2>5. Backed(rec)' /\ ChildFacts'
    BY <2>2, <2>3 DEF PollAgain, Backed, ChildFacts, Inv, AllBacked, Duties
  <2>6. Duties'
    BY <1>0, <2>2, <2>3, <2>4, Blank DEF PollAgain, Duties, Inv, Active
  <2>7. Owners'
    BY <2>2, <2>3, <2>4 DEF PollAgain, Owners, Owned, InHand, Duties, Inv
  <2>. QED BY <2>1, <2>5, <2>6, <2>7, ActorFacts, RecordStep DEF PollAgain, Inv, Duties
<1>. QED BY <1>1, <1>2, <1>3, <1>4

\* What the child does, and what its exit makes of the record, preserves the invariant.
LEMMA ChildKeepsInv ==
  ASSUME Inv, WaitChild \/ Child
  PROVE  Inv'
<1>0. rec \in Records /\ child \in Children /\ run \in {"none", "ok", "failed"} /\ pc \in [Actors -> Places]
  BY TypeNamed DEF Inv, Typed
<1>1. CASE WaitChild
  <2>. USE <1>1
  <2>1. rec' \in Records /\ child' \in Children /\ run' \in {"none", "ok", "failed"}
        /\ pc' \in [Actors -> Places]
    BY <1>0 DEF WaitChild, ExitStatus, ExitError, Records, Children, Places, Active, Terminal, NoRecord
  <2>2. rec'.status = rec'.status /\ rec'.attached = FALSE
    BY <1>0 DEF WaitChild, ExitStatus, ExitError, Records, NoRecord
  <2>3. child'.at = child.at /\ child'.code = child.code
    BY <1>0 DEF WaitChild, ExitStatus, ExitError, Children
  <2>4. /\ pc'["creator"] = pc["creator"] /\ pc'["poller"] = pc["poller"] /\ pc'["waiter"] = "off"
        /\ \A c \in Clients : pc'[c] = pc[c]
    BY <1>0, ActorFacts DEF WaitChild, ExitStatus, ExitError
  <2>5. Backed(rec)' /\ ChildFacts'
    <3>1. rec'.status = ExitStatus(rec) /\ UNCHANGED <<child, run>> /\ child.at = "exited"
      BY <1>0 DEF WaitChild, Records
    <3>2. ExitStatus(rec) = "completed" => child.code = 0 /\ child.summary # "failed"
      BY DEF ExitStatus
    <3>3. ExitStatus(rec) = "completed" => run = "ok"
      BY <1>0, <3>1, <3>2 DEF Inv, ChildFacts
    <3>. QED BY <3>1, <3>3 DEF Backed, ChildFacts, Inv
  <2>6. Duties'
    BY <1>0, <2>2, <2>3, <2>4, Blank DEF WaitChild, ExitStatus, ExitError, Duties, Inv, Active
  <2>7. Owners'
    BY <2>2, <2>3, <2>4 DEF WaitChild, ExitStatus, ExitError, Owners, Owned, InHand, Duties, Inv
  <2>. QED BY <2>1, <2>5, <2>6, <2>7, ActorFacts, RecordStep DEF WaitChild, ExitStatus, ExitError, Inv, Duties
<1>2. CASE ChildServes
  <2>. USE <1>2
  <2>1. rec' \in Records /\ child' \in Children /\ run' \in {"none", "ok", "failed"}
        /\ pc' \in [Actors -> Places]
    BY <1>0 DEF ChildServes, Records, Children, Places, Active, Terminal, NoRecord
  <2>2. rec'.status = rec.status /\ rec'.attached = rec.attached
    BY <1>0 DEF ChildServes, Records, NoRecord
  <2>3. child'.at = "serving" /\ child'.code = child.code
    BY <1>0 DEF ChildServes, Children
  <2>4. /\ pc'["creator"] = pc["creator"] /\ pc'["poller"] = pc["poller"] /\ pc'["waiter"] = pc["waiter"]
        /\ \A c \in Clients : pc'[c] = pc[c]
    BY <1>0, ActorFacts DEF ChildServes
  <2>5. Backed(rec)' /\ ChildFacts'
    BY <2>2, <2>3 DEF ChildServes, Backed, ChildFacts, Inv, AllBacked, Duties
  <2>6. Duties'
    BY <1>0, <2>2, <2>3, <2>4, Blank DEF ChildServes, Duties, Inv, Active
  <2>7. Owners'
    BY <2>2, <2>3, <2>4 DEF ChildServes, Owners, Owned, InHand, Duties, Inv
  <2>. QED BY <2>1, <2>5, <2>6, <2>7, ActorFacts, RecordStep DEF ChildServes, Inv, Duties
<1>3. CASE ChildWritesRun
  <2>. USE <1>3
  <2>1. rec' \in Records /\ child' \in Children /\ run' \in {"none", "ok", "failed"}
        /\ pc' \in [Actors -> Places]
    BY <1>0 DEF ChildWritesRun, Records, Children, Places, Active, Terminal, NoRecord
  <2>2. rec'.status = rec.status /\ rec'.attached = rec.attached
    BY <1>0 DEF ChildWritesRun, Records, NoRecord
  <2>3. child'.at = child.at /\ child'.code = child.code
    BY <1>0 DEF ChildWritesRun, Children
  <2>4. /\ pc'["creator"] = pc["creator"] /\ pc'["poller"] = pc["poller"] /\ pc'["waiter"] = pc["waiter"]
        /\ \A c \in Clients : pc'[c] = pc[c]
    BY <1>0, ActorFacts DEF ChildWritesRun
  <2>5. Backed(rec)' /\ ChildFacts'
    BY <2>2, <2>3 DEF ChildWritesRun, Backed, ChildFacts, Inv, AllBacked, Duties
  <2>6. Duties'
    BY <1>0, <2>2, <2>3, <2>4, Blank DEF ChildWritesRun, Duties, Inv, Active
  <2>7. Owners'
    BY <2>2, <2>3, <2>4 DEF ChildWritesRun, Owners, Owned, InHand, Duties, Inv
  <2>. QED BY <2>1, <2>5, <2>6, <2>7, ActorFacts, RecordStep DEF ChildWritesRun, Inv, Duties
<1>4. CASE ChildExits
  <2>. USE <1>4
  <2>1. rec' \in Records /\ child' \in Children /\ run' \in {"none", "ok", "failed"}
        /\ pc' \in [Actors -> Places]
    <3>1. child' \in Children
      BY <1>0 DEF ChildExits, Children
    <3>. QED BY <1>0, <3>1 DEF ChildExits, Places
  <2>2. rec'.status = rec.status /\ rec'.attached = rec.attached
    BY <1>0 DEF ChildExits, Records, NoRecord
  <2>3. child'.at = "exited" /\ child'.code = child'.code
    BY <1>0 DEF ChildExits, Children
  <2>4. /\ pc'["creator"] = pc["creator"] /\ pc'["poller"] = pc["poller"] /\ pc'["waiter"] = pc["waiter"]
        /\ \A c \in Clients : pc'[c] = pc[c]
    BY <1>0, ActorFacts DEF ChildExits
  <2>5. Backed(rec)' /\ ChildFacts'
    BY <2>2, <2>3 DEF ChildExits, Backed, ChildFacts, Inv, AllBacked, Duties
  <2>6. Duties'
    BY <1>0, <2>2, <2>3, <2>4, Blank DEF ChildExits, Duties, Inv, Active
  <2>7. Owners'
    BY <2>2, <2>3, <2>4 DEF ChildExits, Owners, Owned, InHand, Duties, Inv
  <2>. QED BY <2>1, <2>5, <2>6, <2>7, ActorFacts, RecordStep DEF ChildExits, Inv, Duties
<1>. QED BY <1>1, <1>2, <1>3, <1>4 DEF Child

\* A cancel request, from the mark to the kill, preserves the invariant.
LEMMA CancelKeepsInv ==
  ASSUME Inv, NEW c \in Clients, Cancel(c) \/ Signal(c) \/ Kill(c)
  PROVE  Inv'
<1>0. rec \in Records /\ child \in Children /\ run \in {"none", "ok", "failed"} /\ pc \in [Actors -> Places]
  BY TypeNamed DEF Inv, Typed
<1>1. CASE Cancel(c)
  <2>. USE <1>1
  <2>1. rec' \in Records /\ child' \in Children /\ run' \in {"none", "ok", "failed"}
        /\ pc' \in [Actors -> Places]
    BY <1>0 DEF Cancel, Records, Children, Places, Active, Terminal, NoRecord
  <2>2. rec'.status = "canceling" /\ rec'.attached = rec.attached
    BY <1>0 DEF Cancel, Records, NoRecord
  <2>3. child'.at = child.at /\ child'.code = child.code
    BY <1>0 DEF Cancel, Children
  <2>4. /\ pc'["creator"] = pc["creator"] /\ pc'["poller"] = pc["poller"] /\ pc'["waiter"] = pc["waiter"]
        /\ \A k \in Clients \ {c} : pc'[k] = pc[k]
    BY <1>0, ActorFacts DEF Cancel
  <2>5. Backed(rec)' /\ ChildFacts'
    BY <2>2, <2>3 DEF Cancel, Backed, ChildFacts, Inv, AllBacked, Duties
  <2>6. Duties'
    BY <1>0, <2>2, <2>3, <2>4, Blank DEF Cancel, Duties, Inv, Active
  <2>7. Owners'
    BY <2>2, <2>3, <2>4 DEF Cancel, Owners, Owned, InHand, Duties, Inv
  <2>. QED BY <2>1, <2>5, <2>6, <2>7, ActorFacts, RecordStep DEF Cancel, Inv, Duties
<1>2. CASE Signal(c)
  <2>. USE <1>2
  <2>1. rec' \in Records /\ child' \in Children /\ run' \in {"none", "ok", "failed"}
        /\ pc' \in [Actors -> Places]
    <3>1. pc' \in [Actors -> Places]
      BY <1>0 DEF Signal, Places
    <3>. QED BY <1>0, <3>1 DEF Signal
  <2>2. rec'.status = rec.status /\ rec'.attached = rec.attached
    BY <1>0 DEF Signal, Records, NoRecord
  <2>3. child'.at = child.at /\ child'.code = child.code
    BY <1>0 DEF Signal, Children
  <2>4. /\ pc'["creator"] = pc["creator"] /\ pc'["poller"] = pc["poller"] /\ pc'["waiter"] = pc["waiter"]
        /\ \A k \in Clients \ {c} : pc'[k] = pc[k]
    BY <1>0, ActorFacts DEF Signal
  <2>5. Backed(rec)' /\ ChildFacts'
    BY <2>2, <2>3 DEF Signal, Backed, ChildFacts, Inv, AllBacked, Duties
  <2>6. Duties'
    BY <1>0, <2>2, <2>3, <2>4, Blank DEF Signal, Duties, Inv, Active
  <2>7. Owners'
    BY <2>2, <2>3, <2>4 DEF Signal, Owners, Owned, InHand, Duties, Inv
  <2>. QED BY <2>1, <2>5, <2>6, <2>7, ActorFacts, RecordStep DEF Signal, Inv, Duties
<1>3. CASE Kill(c)
  <2>. USE <1>3
  <2>1. rec' \in Records /\ child' \in Children /\ run' \in {"none", "ok", "failed"}
        /\ pc' \in [Actors -> Places]
    <3>1. child' \in Children
      BY <1>0 DEF Kill, Children
    <3>. QED BY <1>0, <3>1 DEF Kill, Places
  <2>2. rec'.status = rec.status /\ rec'.attached = rec.attached
    BY <1>0 DEF Kill, Records, NoRecord
  <2>3. child'.at = "exited" /\ child'.code = child'.code
    BY <1>0 DEF Kill, Children
  <2>4. /\ pc'["creator"] = pc["creator"] /\ pc'["poller"] = pc["poller"] /\ pc'["waiter"] = pc["waiter"]
        /\ \A k \in Clients \ {c} : pc'[k] = pc[k]
    BY <1>0, ActorFacts DEF Kill
  <2>5. Backed(rec)' /\ ChildFacts'
    BY <2>2, <2>3 DEF Kill, Backed, ChildFacts, Inv, AllBacked, Duties
  <2>6. Duties'
    BY <1>0, <2>2, <2>3, <2>4, Blank DEF Kill, Duties, Inv, Active
  <2>7. Owners'
    BY <2>2, <2>3, <2>4 DEF Kill, Owners, Owned, InHand, Duties, Inv
  <2>. QED BY <2>1, <2>5, <2>6, <2>7, ActorFacts, RecordStep DEF Kill, Inv, Duties
<1>. QED BY <1>1, <1>2, <1>3

-----------------------------------------------------------------------------
(* The service.                                                            *)

\* The death of the service preserves the invariant.
LEMMA CrashKeepsInv ==
  ASSUME Inv, Crash
  PROVE  Inv'
<1>0. /\ rec' = NoRecord /\ saver' = [b \in Actors |-> NotSaving] /\ up' = FALSE
      /\ UNCHANGED <<child, run, tmp, final>>
      /\ NotSaving.copy = Absent /\ Absent.status = "none"
  BY DEF Crash, NotSaving, Absent
<1>1. TypeOK'
  <2>1. pc' \in [Actors -> Places]
    BY DEF Crash, Places
  <2>2. crashes' \in 0..CrashLimit
    BY RegistryAssumption, TypeNamed DEF Crash, Inv, Typed
  <2>. QED BY <1>0, <2>1, <2>2, Blank, TypeNamed DEF Inv, Typed
<1>2. AllBacked' /\ NothingTorn'
  BY <1>0, Blank DEF Inv, AllBacked, NothingTorn, Backed, Torn
<1>3. pc'["creator"] = "off" /\ pc'["poller"] = "off" /\ pc'["waiter"] = "off"
      /\ \A c \in Clients : pc'[c] # "kill"
  BY ActorFacts DEF Crash
<1>4. ChildFacts' /\ Duties' /\ Owners'
  BY <1>0, <1>3, Blank DEF Inv, ChildFacts, Duties, Owners, Owned, InHand
<1>. QED BY <1>1, <1>2, <1>4 DEF Inv

\* What loadRegistry makes of a saved record is backed and not active.
LEMMA ReconciledOK ==
  ASSUME Inv, final \notin {Empty, Garbled}
  PROVE  /\ Reconciled(final) \in Saves
         /\ Reconciled(final).status \in {"none"} \cup Terminal
         /\ Backed(Reconciled(final))
<1>1. final \in Saves /\ final.status \notin {"empty", "garbled"} /\ Backed(final)
  BY TypeNamed DEF Inv, Typed, NothingTorn, Torn, AllBacked
<1>2. CASE final.status \notin Active /\ final.error # "detached"
  BY <1>1, <1>2 DEF Reconciled, Saves, Active
<1>3. CASE ~ (final.status \notin Active /\ final.error # "detached")
  BY <1>1, <1>3 DEF Reconciled, Saves, Backed, Active, Terminal
<1>. QED BY <1>2, <1>3

\* The start of the service over what an earlier one saved preserves it.
LEMMA RestartKeepsInv ==
  ASSUME Inv, Restart
  PROVE  Inv'
<1>0. /\ UNCHANGED <<child, run, pc, saver, crashes>> /\ up' = TRUE /\ ~ up
      /\ final \notin {Empty, Garbled}
      /\ rec' \in {NoRecord, Loaded(final)} /\ final' \in {final, Reconciled(final)}
      /\ tmp' \in {tmp, Absent}
  BY DEF Restart
<1>1. /\ Loaded(final) \in Records
      /\ Loaded(final).status = Reconciled(final).status
      /\ Loaded(final).attached = FALSE
  BY <1>0, ReconciledOK DEF Loaded, NoRecord, Records, Saves, Terminal
<1>2. rec'.status \in {"none"} \cup Terminal /\ rec'.attached = FALSE
  BY <1>0, <1>1, ReconciledOK, Blank
<1>3. TypeOK'
  BY <1>0, <1>1, ReconciledOK, Blank, TypeNamed DEF Inv, Typed
<1>4. Backed(rec)' /\ Backed(final)' /\ Backed(tmp)'
  <2>1. /\ rec'.status \in {"none", Reconciled(final).status}
        /\ final'.status \in {final.status, Reconciled(final).status}
        /\ tmp'.status \in {tmp.status, "none"}
    <3>1. Absent.status = "none"
      BY DEF Absent
    <3>. QED BY <1>0, <1>1, <3>1, Blank
  <2>2. Backed(tmp) /\ Backed(final) /\ Backed(Reconciled(final))
    BY <1>0, ReconciledOK DEF Inv, AllBacked
  <2>. QED BY <1>0, <2>1, <2>2 DEF Backed
<1>5. AllBacked' /\ NothingTorn'
  <2>1. \A a \in Actors : Backed(saver[a].copy)'
    BY <1>0 DEF Inv, AllBacked, Backed
  <2>2. Torn(final)' /\ Torn(tmp)'
    <3>1. Torn(Absent) /\ Torn(Reconciled(final))
      BY <1>0, ReconciledOK DEF Torn, Absent, Terminal
    <3>. QED BY <1>0, <3>1 DEF Inv, NothingTorn
  <2>. QED BY <1>0, <1>4, <2>1, <2>2 DEF Inv, AllBacked, NothingTorn
<1>6. pc["creator"] = "off" /\ pc["waiter"] = "off" /\ rec.status = "none"
  BY <1>0, Blank DEF Inv, Duties, Active
<1>7. ChildFacts' /\ Duties' /\ Owners'
  BY <1>0, <1>2, <1>6 DEF Inv, ChildFacts, Duties, Owners, Owned, InHand, Terminal
<1>. QED BY <1>3, <1>5, <1>7 DEF Inv

-----------------------------------------------------------------------------
(* The theorems.                                                           *)

\* Every step preserves the invariant.
LEMMA NextInv == Inv /\ [Next]_vars => Inv'
<1>. SUFFICES ASSUME Inv, [Next]_vars PROVE Inv'
  OBVIOUS
<1>1. CASE UNCHANGED vars
  <2>1. TypeOK'
    BY <1>1, TypeNamed DEF vars, Inv, Typed
  <2>2. AllBacked' /\ NothingTorn' /\ ChildFacts'
    BY <1>1 DEF vars, Inv, AllBacked, Backed, NothingTorn, Torn, ChildFacts
  <2>3. Duties' /\ Owners'
    BY <1>1 DEF vars, Inv, Duties, Owners, Owned, InHand
  <2>. QED BY <2>1, <2>2, <2>3 DEF Inv
<1>2. CASE Saving
  BY <1>2, SavingKeepsInv DEF Saving
<1>3. CASE StartCase \/ StartChild \/ StartFails \/ Spawn
  BY <1>3, CreatorKeepsInv
<1>4. CASE Poll \/ MarkRunning \/ MarkStartupFailed \/ PollAgain
  BY <1>4, PollerKeepsInv
<1>5. CASE WaitChild \/ Child
  BY <1>5, ChildKeepsInv
<1>6. CASE \E c \in Clients : Cancel(c) \/ Signal(c) \/ Kill(c)
  BY <1>6, CancelKeepsInv
<1>7. CASE Crash
  BY <1>7, CrashKeepsInv
<1>8. CASE Restart
  BY <1>8, RestartKeepsInv
<1>. QED BY <1>1, <1>2, <1>3, <1>4, <1>5, <1>6, <1>7, <1>8 DEF Next, Goroutines

(***************************************************************************)
(* The inductive invariant: type, the backing of every copy of the record, *)
(* what the exit of the child tells, who is at work.                       *)
(***************************************************************************)
THEOREM Invariance == Spec => []Inv
BY InitInv, NextInv, PTL DEF Spec

\* The record, the files and the goroutines are well formed.
THEOREM TypeCorrect == Spec => []TypeOK
<1>1. Inv => TypeOK
  BY DEF Inv
<1>. QED BY <1>1, Invariance, PTL

(***************************************************************************)
(* Whatever crashed and whichever save came last, what is on record as     *)
(* completed or canceled, in memory or on disk, is.                        *)
(***************************************************************************)
THEOREM OutcomeIsBacked == Spec => []OutcomeBacked
<1>1. Inv => OutcomeBacked
  BY DEF Inv, AllBacked, Backed, OutcomeBacked, Public
<1>. QED BY <1>1, Invariance, PTL

\* No active record is left without a goroutine that will settle it.
THEOREM ActiveIsOwned == Spec => []ActiveHasOwner
<1>1. Inv => ActiveHasOwner
  BY DEF Inv, Owners, Owned, ActiveHasOwner
<1>. QED BY <1>1, Invariance, PTL

(***************************************************************************)
(* A step that changes a record that says completed or canceled, in a      *)
(* service that goes on running, is a new request to cancel the case.      *)
(***************************************************************************)
LEMMA DecidedStep ==
  ASSUME Inv, [Next]_vars, rec.status \in {"completed", "canceled"}, up'
  PROVE  rec'.status = rec.status \/ \E c \in Clients : Cancel(c)
<1>0. pc["creator"] = "off" /\ pc["waiter"] = "off" /\ up /\ rec # NoRecord
  BY Blank DEF Inv, Duties, Active
<1>1. CASE UNCHANGED vars \/ Saving \/ Child
  BY <1>1 DEF vars, Saving, Copy, Open, Write, Rename, Child, ChildServes, ChildWritesRun, ChildExits
<1>2. CASE StartCase \/ StartChild \/ StartFails \/ Spawn \/ WaitChild
  BY <1>0, <1>2 DEF StartCase, StartChild, StartFails, Spawn, WaitChild
<1>3. CASE Poll \/ MarkRunning \/ MarkStartupFailed \/ PollAgain
  BY <1>3 DEF Poll, MarkRunning, MarkStartupFailed, Mark, PollAgain
<1>4. CASE \E c \in Clients : Signal(c) \/ Kill(c)
  BY <1>4 DEF Signal, Kill
<1>5. CASE Crash \/ Restart
  BY <1>0, <1>5 DEF Crash, Restart
<1>. QED BY <1>1, <1>2, <1>3, <1>4, <1>5 DEF Next, Goroutines

\* An outcome does not change by itself.
THEOREM DecidedStaysFinal == Spec => DecidedIsFinal
<1>1. Inv /\ [Next]_vars =>
        [rec.status \in {"completed", "canceled"} /\ up' =>
           rec'.status = rec.status \/ \E c \in Clients : Cancel(c)]_vars
  BY DecidedStep
<1>. QED BY <1>1, Invariance, PTL DEF Spec, DecidedIsFinal
=============================================================================
