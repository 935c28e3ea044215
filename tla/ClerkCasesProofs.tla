------------------------- MODULE ClerkCasesProofs -------------------------
(***************************************************************************)
(* What the records of the Clerk may say, for any create and kill          *)
(* requests, whatever ids and directories they name, any failures of the   *)
(* file system and any deaths of the service.                              *)
(*                                                                         *)
(* The invariant says what holds at every place of a request and of the    *)
(* goroutine that waits, that one id uses a directory once, and follows    *)
(* "completed" from the child to the record, the copy of a save, the       *)
(* temporary file and clerk.json.                                          *)
(***************************************************************************)
EXTENDS ClerkCases, TLAPS

\* Where a request or a goroutine is tells who holds the id it is for.
Post(r) ==
  /\ request[r] \notin {"idle", "over"} => held[CaseOf[r]] = r
  /\ waiter[r] # "idle" => held[CaseOf[r]] = r /\ request[r] = "over"
  /\ request[r] = "launch" => rec[r].status \in {"starting", "killing"}

\* Only a directory without files is taken, so whoever listed a record or
\* started a child put files into it, and nobody else for the same id.
FreshOf(r) ==
  /\ request[r] \in {"idle", "directory", "publish", "launch"} => child[r].at = "unborn"
  /\ child[r].at = "unborn" => child[r].run = "none"
  /\ held[CaseOf[r]] = r => request[r] # "idle"
  /\ \/ child[r].at # "unborn"
     \/ held[CaseOf[r]] = r /\ request[r] \notin {"directory", "publish"}
     => r \in used[DirOf[r]]
  /\ request[r] = "publish" => \A q \in used[DirOf[r]] : CaseOf[q] # CaseOf[r]

\* A child said to be over has been waited for.
EndedOf(r) == rec[r].status \in {"completed", "killed"} => child[r].at = "reaped"

Posts == \A r \in Requests : Post(r)
Fresh == \A r \in Requests : FreshOf(r)
Ended == \A r \in Requests : EndedOf(r)

\* An id is held by a request that names it, a kill request is for one that has
\* put its files in place.
Called ==
  /\ \A c \in Cases : held[c] # NoRequest => CaseOf[held[c]] = c
  /\ \A k \in Killers : killer[k].of # NoRequest => killer[k].of \in used[DirOf[killer[k].of]]
  /\ \A k \in Killers : killer[k].pc \in {"signal", "grace", "last"} => killer[k].of # NoRequest

\* One id uses a directory once; a directory that a single request uses has the
\* run.json of its child.
Sole(d) ==
  /\ \A r \in used[d] : DirOf[r] = d
  /\ \A r, q \in used[d] : CaseOf[r] = CaseOf[q] => r = q
  /\ \/ Contested(d)
     \/ /\ \A r \in used[d] : child[r].run = run[d]
        /\ run[d] # "none" => used[d] # {}

Apart == \A d \in Dirs : Sole(d)

\* Whatever says "completed" of a child is about one whose case did not fail.
Backed(r, status) == status = "completed" => child[r].run = "ok"

Told(d) == run[d] = "ok" \/ Contested(d)

Truth ==
  /\ \A r \in Requests : Backed(r, rec[r].status) /\ (child[r].exit = "ok" => child[r].run = "ok")
  /\ \A a \in Actors : saver[a].of \in Requests => Backed(saver[a].of, saver[a].copy)
  /\ \A d \in Dirs : "completed" \in {tmp[d].status, disk[d].status} => Told(d)

\* A clerk.json, and the temporary file, is of an id that put files there.
Own(d, file) == file = NoFile \/ \E r \in used[d] : file.case = CaseOf[r]

\* Whoever saves does so for such a request, a creator for itself; what is saved
\* is on disk.
Filed ==
  /\ \A d \in Dirs : Own(d, tmp[d]) /\ Own(d, disk[d])
  /\ \A a \in Actors : saver[a].pc # "idle" =>
       saver[a].of \in Requests /\ saver[a].of \in used[DirOf[saver[a].of]]
  /\ \A r \in Requests : saver[Creator(r)].pc # "idle" => saver[Creator(r)].of = r
  /\ \A a \in Actors : saver[a].pc = "saved" => disk[DirOf[saver[a].of]] # NoFile
  /\ \A r \in Requests : child[r].at # "unborn" => disk[DirOf[r]] # NoFile

Inv == TypeOK /\ Posts /\ Fresh /\ Ended /\ Called /\ Apart /\ Truth /\ Filed

-----------------------------------------------------------------------------
(* Types.                                                                  *)

Statuses == {"none", "completed", "failed", "killed"} \cup Active

Files == [case : Cases \cup {NoCase}, status : Statuses \cup {"detached"}]

Records == [status : Statuses, killing : BOOLEAN, done : BOOLEAN]

Results == {"none", "ok", "failed"}

Stages == {"unborn", "alive", "exited", "reaped"}

Signals == {"none", "interrupt", "kill"}

Exits == Results \cup {"error"}

Children == [at : Stages, signal : Signals, run : Results, exit : Exits]

Places == {"idle", "directory", "publish", "launch", "failed", "mark", "handover", "over"}

Kills ==
  [pc : {"idle", "signal", "grace", "last", "answered", "refused"},
   of : Requests \cup {NoRequest}]

Savers ==
  [pc : {"idle", "copy", "write", "rename", "saved", "error"}, of : Requests \cup {NoRequest},
   copy : Statuses]

Typed ==
  /\ held \in [Cases -> Requests \cup {NoRequest}]
  /\ rec \in [Requests -> Records] /\ child \in [Requests -> Children]
  /\ request \in [Requests -> Places] /\ waiter \in [Requests -> {"idle", "wait", "save"}]
  /\ killer \in [Killers -> Kills] /\ saver \in [Actors -> Savers]
  /\ tmp \in [Dirs -> Files] /\ disk \in [Dirs -> Files] /\ used \in [Dirs -> SUBSET Requests]
  /\ run \in [Dirs -> Results]
  /\ faults \in 0..FaultLimit /\ crashes \in 0..CrashLimit

\* TypeOK with its sets named, in a state and in the next.
LEMMA TypeNamed == (TypeOK <=> Typed) /\ (TypeOK' <=> Typed')
BY DEF TypeOK, Typed, Statuses, Files, Records, Children, Stages, Signals, Exits,
       Results, Places, Kills, Savers

\* What no case has is well formed, and no file is of no case.
LEMMA Blank ==
  /\ NoRecord \in Records /\ NoRecord.status = "none" /\ NoFile \in Files
  /\ NotSaving \in Savers /\ NotSaving.pc = "idle" /\ NotSaving.of = NoRequest
  /\ NoFile.case = NoCase /\ NoFile.status = "none" /\ NoCase \notin Cases
  /\ NoRequest \notin Requests
  /\ \A r \in Requests : DirOf[r] \in Dirs /\ CaseOf[r] \in Cases
BY ClerkAssumption DEF NoRecord, NoFile, NotSaving, Records, Files, Savers, Statuses

\* Creators, waiters and killers are different actors.
LEMMA ActorFacts ==
  /\ \A r \in Requests : Creator(r) \in Actors /\ Waiter(r) \in Actors
  /\ \A k \in Killers : Killer(k) \in Actors
  /\ \A r, q \in Requests : Creator(r) = Creator(q) => r = q
  /\ \A r, q \in Requests : Creator(r) # Waiter(q)
  /\ \A r \in Requests, k \in Killers : Creator(r) # Killer(k)
BY DEF Actors, Creator, Waiter, Killer

\* A directory once contested stays so.
LEMMA StaysTold ==
  ASSUME NEW d, used[d] \subseteq used'[d]
  PROVE  Contested(d) => Contested(d)'
BY DEF Contested

-----------------------------------------------------------------------------
(* Saving.                                                                 *)

\* A save begun, or one that is over, has copied nothing.
LEMMA SaverKept ==
  ASSUME Inv, NEW a \in Actors, NEW r \in Requests,
         \A d \in Dirs : used[d] \subseteq used'[d],
         \/ /\ saver' = Save(a, r) /\ r \in used'[DirOf[r]]
            /\ \A q \in Requests : a = Creator(q) => q = r
         \/ saver' = SaveOver(a)
         \/ UNCHANGED saver
  PROVE  /\ saver' \in [Actors -> Savers]
         /\ \A b \in Actors : \/ saver'[b] = saver[b]
                              \/ saver'[b].pc \in {"idle", "copy"} /\ saver'[b].copy = "none"
         /\ \A b \in Actors : saver'[b].pc # "idle" =>
              saver'[b].of \in Requests /\ saver'[b].of \in used'[DirOf[saver'[b].of]]
         /\ \A q \in Requests : saver'[Creator(q)].pc # "idle" => saver'[Creator(q)].of = q
<1>1. saver \in [Actors -> Savers]
  BY TypeNamed DEF Inv, Typed
<1>2. /\ \A b \in Actors : saver[b].pc # "idle" =>
           saver[b].of \in Requests /\ saver[b].of \in used'[DirOf[saver[b].of]]
      /\ \A q \in Requests : saver[Creator(q)].pc # "idle" => saver[Creator(q)].of = q
  BY Blank DEF Inv, Filed
<1>. DEFINE new == [NotSaving EXCEPT !.pc = "copy", !.of = r]
<1>3. new \in Savers /\ new.pc = "copy" /\ new.of = r /\ new.copy = "none" /\ NotSaving.copy = "none"
  BY DEF NotSaving, Savers, Statuses
<1>. HIDE DEF new
<1>4. \/ /\ saver' = [saver EXCEPT ![a] = new] /\ r \in used'[DirOf[r]]
         /\ \A q \in Requests : a = Creator(q) => q = r
      \/ saver' = [saver EXCEPT ![a] = NotSaving]
      \/ saver' = saver
  BY DEF Save, SaveOver, new
<1>. QED BY <1>1, <1>2, <1>3, <1>4, Blank, ActorFacts

(***************************************************************************)
(* A step that leaves the files alone: facts are not taken back, and what  *)
(* the records say must be true as things are after the step.              *)
(***************************************************************************)
LEMMA RecordStep ==
  ASSUME Inv, NEW a \in Actors, NEW r \in Requests,
         \/ /\ saver' = Save(a, r) /\ r \in used'[DirOf[r]]
            /\ \A q \in Requests : a = Creator(q) => q = r
         \/ saver' = SaveOver(a)
         \/ UNCHANGED saver,
         UNCHANGED <<tmp, disk>>, TypeOK', Posts', Fresh', Ended', Called', Apart',
         \A d \in Dirs : used[d] \subseteq used'[d] /\ (Told(d) => Told(d)'),
         \A q \in Requests :
           /\ child[q].run = "ok" => child'[q].run = "ok"
           /\ rec'[q].status = "completed" \/ child'[q].exit = "ok" => child'[q].run = "ok"
           /\ child'[q].at # "unborn" => disk[DirOf[q]] # NoFile
  PROVE  Inv'
<1>1. /\ \A b \in Actors : \/ saver'[b] = saver[b]
                           \/ saver'[b].pc \in {"idle", "copy"} /\ saver'[b].copy = "none"
      /\ \A b \in Actors : saver'[b].pc # "idle" =>
           saver'[b].of \in Requests /\ saver'[b].of \in used'[DirOf[saver'[b].of]]
      /\ \A q \in Requests : saver'[Creator(q)].pc # "idle" => saver'[Creator(q)].of = q
  BY SaverKept
<1>2. Truth'
  <2>1. \A b \in Actors : saver'[b].of \in Requests /\ saver'[b].copy = "completed" =>
                            child'[saver'[b].of].run = "ok"
    BY <1>1, Blank DEF Inv, Truth, Backed
  <2>2. \A d \in Dirs : "completed" \in {tmp'[d].status, disk'[d].status} => Told(d)'
    BY DEF Inv, Truth
  <2>. QED BY <2>1, <2>2 DEF Truth, Backed
<1>3. Filed'
  <2>1. \A d \in Dirs : Own(d, tmp[d])' /\ Own(d, disk[d])'
    BY DEF Inv, Filed, Own
  <2>2. \A b \in Actors : saver'[b].pc = "saved" => disk'[DirOf[saver'[b].of]] # NoFile
    BY <1>1 DEF Inv, Filed
  <2>. QED BY <1>1, <2>1, <2>2 DEF Filed
<1>. QED BY <1>2, <1>3 DEF Inv

\* A save moves on, with what it has copied.
Moved(n, m, a, pc, copy) ==
  \/ n = [m EXCEPT ![a].pc = pc] /\ copy = m[a].copy
  \/ n = [m EXCEPT ![a].pc = pc, ![a].copy = copy]

LEMMA SaverMoved ==
  ASSUME NEW m \in [Actors -> Savers], NEW a \in Actors,
         NEW pc \in {"idle", "copy", "write", "rename", "saved", "error"}, NEW copy \in Statuses,
         NEW n, Moved(n, m, a, pc, copy)
  PROVE  /\ n \in [Actors -> Savers]
         /\ \A b \in Actors : /\ n[b].of = m[b].of
                              /\ n[b].pc = IF b = a THEN pc ELSE m[b].pc
                              /\ n[b].copy = IF b = a THEN copy ELSE m[b].copy
<1>. DEFINE r == [m[a] EXCEPT !.pc = pc, !.copy = copy]
            t == [m[a] EXCEPT !.pc = pc]
<1>1. m[a] \in Savers
  OBVIOUS
<1>2. r \in Savers /\ r.of = m[a].of /\ r.copy = copy /\ r.pc = pc
  BY <1>1 DEF Savers
<1>3. t \in Savers /\ t.of = m[a].of /\ t.copy = m[a].copy /\ t.pc = pc
  BY <1>1 DEF Savers
<1>4. \/ n = [m EXCEPT ![a] = r]
      \/ n = [m EXCEPT ![a] = t] /\ copy = m[a].copy
  BY DEF Moved
<1>. HIDE DEF r, t
<1>. QED BY <1>2, <1>3, <1>4

\* The steps of a save preserve the invariant.
LEMMA SavingKeepsInv ==
  ASSUME Inv, NEW a \in Actors, Saving(a)
  PROVE  Inv'
<1>. DEFINE r == saver[a].of
            d == DirOf[r]
<1>0. /\ saver \in [Actors -> Savers] /\ tmp \in [Dirs -> Files] /\ disk \in [Dirs -> Files]
      /\ rec \in [Requests -> Records] /\ TypeOK
      /\ r \in Requests /\ d \in Dirs /\ r \in used[d] /\ rec[r].status \in Statuses
      /\ saver[a].copy \in Statuses
      /\ faults \in 0..FaultLimit /\ FaultLimit \in Nat
  <2>1. /\ saver \in [Actors -> Savers] /\ tmp \in [Dirs -> Files] /\ disk \in [Dirs -> Files]
        /\ rec \in [Requests -> Records] /\ TypeOK
        /\ faults \in 0..FaultLimit /\ FaultLimit \in Nat
    BY TypeNamed, ClerkAssumption DEF Inv, Typed
  <2>2. r \in Requests /\ r \in used[d]
    BY DEF Saving, Copy, Write, Rename, Inv, Filed
  <2>. QED BY <2>1, <2>2, Blank DEF Records, Savers
<1>1. ASSUME UNCHANGED <<held, rec, child, request, waiter, killer, used, run>>
      PROVE  /\ Posts' /\ Fresh' /\ Ended' /\ Called' /\ Apart'
             /\ \A q \in Requests : \A status : Backed(q, status)' <=> Backed(q, status)
             /\ \A e \in Dirs : /\ Told(e)' <=> Told(e)
                                /\ \A file : Own(e, file)' <=> Own(e, file)
  <2>1. Posts' /\ Fresh' /\ Ended' /\ Called'
    BY <1>1 DEF Inv, Posts, Fresh, Ended, Post, FreshOf, EndedOf, Called
  <2>2. Apart'
    BY <1>1 DEF Inv, Apart, Sole, Contested
  <2>3. \A q \in Requests : \A status : Backed(q, status)' <=> Backed(q, status)
    BY <1>1 DEF Backed
  <2>4. \A e \in Dirs : /\ Told(e)' <=> Told(e)
                        /\ \A file : Own(e, file)' <=> Own(e, file)
    BY <1>1 DEF Told, Contested, Own
  <2>. QED BY <2>1, <2>2, <2>3, <2>4
<1>2. CASE Copy(a)
  <2>1. /\ saver' \in [Actors -> Savers]
        /\ \A b \in Actors : /\ saver'[b].of = saver[b].of
                             /\ saver'[b].copy = IF b = a THEN rec[r].status ELSE saver[b].copy
                             /\ saver'[b].pc = IF b = a THEN "write" ELSE saver[b].pc
    <3>1. Moved(saver', saver, a, "write", rec[r].status)
      BY <1>2 DEF Copy, Moved
    <3>2. rec[r].status \in Statuses /\ saver \in [Actors -> Savers]
      BY <1>0
    <3>. HIDE DEF r
    <3>. QED BY <3>1, <3>2, SaverMoved
  <2>2. UNCHANGED <<held, rec, child, request, waiter, killer, tmp, disk, used, run, faults, crashes>>
    BY <1>2 DEF Copy
  <2>3. TypeOK'
    BY <1>0, <2>1, <2>2, TypeNamed DEF Typed
  <2>4. Truth'
    BY <1>0, <1>1, <2>1, <2>2 DEF Inv, Truth, Backed
  <2>5. Filed'
    BY <1>0, <1>1, <2>1, <2>2, ActorFacts, <1>2 DEF Inv, Filed, Copy
  <2>. QED BY <1>1, <2>2, <2>3, <2>4, <2>5 DEF Inv
<1>3. CASE Write(a)
  <2>1. /\ saver' \in [Actors -> Savers]
        /\ \A b \in Actors : /\ saver'[b].of = saver[b].of
                             /\ saver'[b].copy \in {saver[b].copy, "none"}
                             /\ saver'[b].pc = saver[b].pc \/
                                (b = a /\ saver'[b].pc \in {"rename", "error"})
    <3>1. \/ Moved(saver', saver, a, "rename", "none")
          \/ Moved(saver', saver, a, "error", saver[a].copy)
      BY <1>3 DEF Write, Moved
    <3>2. "none" \in Statuses /\ saver[a].copy \in Statuses /\ saver \in [Actors -> Savers]
      BY <1>0 DEF Statuses
    <3>3. CASE Moved(saver', saver, a, "rename", "none")
      BY <3>2, <3>3, SaverMoved
    <3>4. CASE Moved(saver', saver, a, "error", saver[a].copy)
      BY <3>2, <3>4, SaverMoved
    <3>. QED BY <3>1, <3>3, <3>4
  <2>2. /\ UNCHANGED <<held, rec, child, request, waiter, killer, disk, used, run, crashes>>
        /\ faults' \in 0..FaultLimit
    BY <1>0, <1>3 DEF Write, Fault
  <2>. DEFINE file == [case |-> CaseOf[r], status |-> saver[a].copy]
  <2>3. tmp' = tmp \/ tmp' = [tmp EXCEPT ![d] = file]
    BY <1>3 DEF Write
  <2>4. file \in Files /\ Own(d, file) /\ (file.status = "completed" => Told(d))
    <3>1. file \in Files /\ Own(d, file)
      BY <1>0, Blank DEF Files, Own
    <3>2. ASSUME file.status = "completed"
          PROVE  Told(d)
      <4>1. child[r].run = "ok"
        BY <1>0, <3>2 DEF Inv, Truth, Backed
      <4>2. Sole(d)
        BY <1>0 DEF Inv, Apart
      <4>. QED BY <1>0, <4>1, <4>2 DEF Sole, Told
    <3>. QED BY <3>1, <3>2
  <2>. HIDE DEF file
  <2>5. \A e \in Dirs : tmp'[e] = tmp[e] \/ (e = d /\ tmp'[e] = file)
    <3>1. tmp \in [Dirs -> Files] /\ d \in Dirs
      BY <1>0
    <3>. HIDE DEF d
    <3>. QED BY <2>3, <3>1
  <2>6. tmp' \in [Dirs -> Files]
    BY <1>0, <2>3, <2>4
  <2>7. TypeOK'
    BY <1>0, <2>1, <2>2, <2>6, TypeNamed DEF Typed
  <2>8. Truth'
    <3>1. \A e \in Dirs : "completed" \in {tmp'[e].status, disk'[e].status} => Told(e)
      BY <2>2, <2>4, <2>5 DEF Inv, Truth
    <3>. QED BY <1>1, <2>1, <2>2, <3>1 DEF Inv, Truth, Backed
  <2>9. Filed'
    <3>1. \A e \in Dirs : Own(e, tmp[e])' /\ Own(e, disk[e])'
      <4>1. \A e \in Dirs : Own(e, tmp'[e]) /\ Own(e, disk'[e])
        BY <2>2, <2>4, <2>5 DEF Inv, Filed
      <4>. QED BY <2>2, <4>1 DEF Own
    <3>. QED BY <1>0, <2>1, <2>2, <3>1, ActorFacts, <1>3 DEF Inv, Filed, Write
  <2>. QED BY <1>1, <2>2, <2>7, <2>8, <2>9 DEF Inv
<1>4. CASE Rename(a)
  <2>1. /\ saver' \in [Actors -> Savers]
        /\ \A b \in Actors : /\ saver'[b].of = saver[b].of /\ saver'[b].copy = saver[b].copy
                             /\ saver'[b].pc = saver[b].pc \/
                                (b = a /\ saver'[b].pc \in {"saved", "error"})
        /\ saver'[a].pc = IF tmp[d] = NoFile THEN "error" ELSE "saved"
    <3>. DEFINE pc == IF tmp[d] = NoFile THEN "error" ELSE "saved"
    <3>1. pc \in {"error", "saved"} /\ Moved(saver', saver, a, pc, saver[a].copy)
      BY <1>4 DEF Rename, Moved
    <3>2. saver[a].copy \in Statuses /\ saver \in [Actors -> Savers]
      BY <1>0
    <3>. HIDE DEF pc
    <3>3. /\ saver' \in [Actors -> Savers]
          /\ \A b \in Actors : /\ saver'[b].of = saver[b].of
                               /\ saver'[b].pc = IF b = a THEN pc ELSE saver[b].pc
                               /\ saver'[b].copy = IF b = a THEN saver[a].copy ELSE saver[b].copy
      BY <3>1, <3>2, SaverMoved
    <3>. QED BY <3>1, <3>3 DEF pc
  <2>2. UNCHANGED <<held, rec, child, request, waiter, killer, used, run, faults, crashes>>
    BY <1>4 DEF Rename
  <2>3. /\ tmp' \in [Dirs -> Files] /\ disk' \in [Dirs -> Files]
        /\ \A e \in Dirs : tmp'[e] \in {tmp[e], NoFile} /\ disk'[e] \in {tmp[e], disk[e]}
        /\ \A e \in Dirs : disk[e] # NoFile => disk'[e] # NoFile
        /\ saver'[a].pc = "saved" => disk'[d] # NoFile
    <3>1. d \in Dirs
      BY <1>0
    <3>2. \/ tmp[d] = NoFile /\ UNCHANGED <<tmp, disk>>
          \/ /\ tmp[d] # NoFile /\ disk' = [disk EXCEPT ![d] = tmp[d]]
             /\ tmp' = [tmp EXCEPT ![d] = NoFile]
      BY <1>4 DEF Rename
    <3>. HIDE DEF r, d
    <3>. QED BY <1>0, <2>1, <3>1, <3>2, Blank
  <2>4. TypeOK'
    BY <1>0, <2>1, <2>2, <2>3, TypeNamed DEF Typed
  <2>5. Truth'
    <3>1. \A e \in Dirs : "completed" \in {tmp'[e].status, disk'[e].status} => Told(e)
      BY <2>3, Blank DEF Inv, Truth
    <3>. QED BY <1>1, <2>1, <2>2, <3>1 DEF Inv, Truth, Backed
  <2>6. Filed'
    <3>1. \A e \in Dirs : Own(e, tmp[e])' /\ Own(e, disk[e])'
      <4>1. \A e \in Dirs : Own(e, tmp'[e]) /\ Own(e, disk'[e])
        BY <2>3, Blank DEF Inv, Filed, Own
      <4>. QED BY <2>2, <4>1 DEF Own
    <3>2. \A b \in Actors : saver'[b].pc = "saved" => disk'[DirOf[saver'[b].of]] # NoFile
      <4>1. ASSUME NEW b \in Actors, saver'[b].pc = "saved"
            PROVE  disk'[DirOf[saver'[b].of]] # NoFile
        <5>1. CASE b = a
          BY <2>1, <2>3, <4>1, <5>1
        <5>2. CASE b # a
          <6>1. saver[b].pc = "saved" /\ saver[b].of \in Requests
            BY <2>1, <4>1, <5>2 DEF Inv, Filed
          <6>. QED BY <2>1, <2>3, <6>1, Blank DEF Inv, Filed
        <5>. QED BY <5>1, <5>2
      <4>. QED BY <4>1
    <3>3. \A q \in Requests : child'[q].at # "unborn" => disk'[DirOf[q]] # NoFile
      BY <2>2, <2>3, Blank DEF Inv, Filed
    <3>4. /\ \A b \in Actors : saver'[b].pc # "idle" =>
               saver'[b].of \in Requests /\ saver'[b].of \in used'[DirOf[saver'[b].of]]
          /\ \A q \in Requests : saver'[Creator(q)].pc # "idle" => saver'[Creator(q)].of = q
      BY <1>0, <1>4, <2>1, <2>2, ActorFacts DEF Inv, Filed, Rename
    <3>. QED BY <3>1, <3>2, <3>3, <3>4 DEF Filed
  <2>. QED BY <1>1, <2>2, <2>4, <2>5, <2>6 DEF Inv
<1>. QED BY <1>2, <1>3, <1>4 DEF Saving

-----------------------------------------------------------------------------
(* Requests, the goroutines that wait, and the children.                   *)

\* The changes a record comes in for: it ends up with status s.
Changed(n, m, r, s) ==
  \/ n = [m EXCEPT ![r].status = s]
  \/ n = [m EXCEPT ![r].killing = TRUE, ![r].status = s]
  \/ n = [m EXCEPT ![r].done = TRUE, ![r].status = s]
  \/ n = [m EXCEPT ![r].done = TRUE] /\ m[r].status = s
  \/ n = [m EXCEPT ![r] = [NoRecord EXCEPT !.status = s]]

\* It stays well formed, and the others are left alone.
Sound(n, m, r, s) ==
  /\ n \in [Requests -> Records] /\ n[r].status = s
  /\ \A q \in Requests \ {r} : n[q] = m[q]

LEMMA RecordChanged ==
  ASSUME NEW m \in [Requests -> Records], NEW n, NEW r \in Requests, NEW s \in Statuses,
         Changed(n, m, r, s)
  PROVE  Sound(n, m, r, s)
<1>1. m[r] \in Records
  OBVIOUS
<1>2. ASSUME NEW t \in Records, t.status = s, n = [m EXCEPT ![r] = t]
      PROVE  Sound(n, m, r, s)
  BY <1>2 DEF Sound
<1>3. CASE n = [m EXCEPT ![r].status = s]
  <2>1. [m[r] EXCEPT !.status = s] \in Records /\ [m[r] EXCEPT !.status = s].status = s
    BY <1>1 DEF Records
  <2>. QED BY <1>2, <1>3, <2>1
<1>4. CASE n = [m EXCEPT ![r].killing = TRUE, ![r].status = s]
  <2>. DEFINE t == [m[r] EXCEPT !.killing = TRUE, !.status = s]
  <2>1. t \in Records /\ t.status = s
    BY <1>1 DEF Records
  <2>2. n = [m EXCEPT ![r] = t]
    BY <1>4
  <2>. HIDE DEF t
  <2>. QED BY <1>2, <2>1, <2>2
<1>5. CASE n = [m EXCEPT ![r].done = TRUE, ![r].status = s]
  <2>. DEFINE t == [m[r] EXCEPT !.done = TRUE, !.status = s]
  <2>1. t \in Records /\ t.status = s
    BY <1>1 DEF Records
  <2>2. n = [m EXCEPT ![r] = t]
    BY <1>5
  <2>. HIDE DEF t
  <2>. QED BY <1>2, <2>1, <2>2
<1>6. CASE n = [m EXCEPT ![r].done = TRUE] /\ m[r].status = s
  <2>. DEFINE t == [m[r] EXCEPT !.done = TRUE]
  <2>1. t \in Records /\ t.status = s
    BY <1>1, <1>6 DEF Records
  <2>2. n = [m EXCEPT ![r] = t]
    BY <1>6
  <2>. HIDE DEF t
  <2>. QED BY <1>2, <2>1, <2>2
<1>7. CASE n = [m EXCEPT ![r] = [NoRecord EXCEPT !.status = s]]
  <2>1. [NoRecord EXCEPT !.status = s] \in Records /\ [NoRecord EXCEPT !.status = s].status = s
    BY DEF Records, NoRecord
  <2>. QED BY <1>2, <1>7, <2>1
<1>. QED BY <1>3, <1>4, <1>5, <1>6, <1>7 DEF Changed

\* And those of a child.
Became(n, m, r, at, signal, result, exit) ==
  \/ n = [m EXCEPT ![r].at = at, ![r].exit = exit] /\ m[r].signal = signal /\ m[r].run = result
  \/ n = [m EXCEPT ![r].at = at, ![r].signal = signal, ![r].exit = exit] /\ m[r].run = result
  \/ n = [m EXCEPT ![r].at = at, ![r].signal = signal] /\ m[r].run = result /\ m[r].exit = exit
  \/ n = [m EXCEPT ![r].signal = signal] /\ m[r].at = at /\ m[r].run = result /\ m[r].exit = exit
  \/ n = [m EXCEPT ![r].run = result] /\ m[r].at = at /\ m[r].signal = signal /\ m[r].exit = exit
  \/ n = [m EXCEPT ![r] = [at |-> at, signal |-> signal, run |-> result, exit |-> exit]]

LEMMA ChildChanged ==
  ASSUME NEW m \in [Requests -> Children], NEW n, NEW r \in Requests,
         NEW at \in Stages, NEW signal \in Signals, NEW result \in Results, NEW exit \in Exits,
         Became(n, m, r, at, signal, result, exit)
  PROVE  /\ n \in [Requests -> Children]
         /\ n[r].at = at /\ n[r].run = result /\ n[r].exit = exit
         /\ \A q \in Requests \ {r} : n[q] = m[q]
<1>. DEFINE new == [at |-> at, signal |-> signal, run |-> result, exit |-> exit]
<1>1. m[r] \in Children
  OBVIOUS
<1>2. new \in Children /\ new.at = at /\ new.run = result /\ new.exit = exit
  BY DEF Children
<1>3. n = [m EXCEPT ![r] = new]
  <2>1. m[r] = [at |-> m[r].at, signal |-> m[r].signal, run |-> m[r].run, exit |-> m[r].exit]
    BY <1>1 DEF Children
  <2>2. CASE n = [m EXCEPT ![r].at = at, ![r].exit = exit] /\ m[r].signal = signal
             /\ m[r].run = result
    <3>1. [m[r] EXCEPT !.at = at, !.exit = exit] = new
      BY <2>1, <2>2
    <3>2. n = [m EXCEPT ![r] = [m[r] EXCEPT !.at = at, !.exit = exit]]
      BY <2>2
    <3>. QED BY <3>1, <3>2
  <2>3. CASE n = [m EXCEPT ![r].at = at, ![r].signal = signal, ![r].exit = exit]
             /\ m[r].run = result
    <3>1. [m[r] EXCEPT !.at = at, !.signal = signal, !.exit = exit] = new
      BY <2>1, <2>3
    <3>2. n = [m EXCEPT ![r] = [m[r] EXCEPT !.at = at, !.signal = signal, !.exit = exit]]
      BY <2>3
    <3>. QED BY <3>1, <3>2
  <2>4. CASE n = [m EXCEPT ![r].at = at, ![r].signal = signal] /\ m[r].run = result
             /\ m[r].exit = exit
    <3>1. [m[r] EXCEPT !.at = at, !.signal = signal] = new
      BY <2>1, <2>4
    <3>2. n = [m EXCEPT ![r] = [m[r] EXCEPT !.at = at, !.signal = signal]]
      BY <2>4
    <3>. QED BY <3>1, <3>2
  <2>5. CASE n = [m EXCEPT ![r].signal = signal] /\ m[r].at = at /\ m[r].run = result
             /\ m[r].exit = exit
    <3>1. [m[r] EXCEPT !.signal = signal] = new
      BY <2>1, <2>5
    <3>2. n = [m EXCEPT ![r] = [m[r] EXCEPT !.signal = signal]]
      BY <2>5
    <3>. QED BY <3>1, <3>2
  <2>6. CASE n = [m EXCEPT ![r].run = result] /\ m[r].at = at /\ m[r].signal = signal
             /\ m[r].exit = exit
    <3>1. [m[r] EXCEPT !.run = result] = new
      BY <2>1, <2>6
    <3>2. n = [m EXCEPT ![r] = [m[r] EXCEPT !.run = result]]
      BY <2>6
    <3>. QED BY <3>1, <3>2
  <2>. QED BY <2>2, <2>3, <2>4, <2>5, <2>6 DEF Became
<1>. HIDE DEF new
<1>. QED BY <1>2, <1>3

(***************************************************************************)
(* A step about one request needs looking at for that request alone: it    *)
(* takes or gives back its own id and puts files into its own directory.   *)
(***************************************************************************)
LEMMA OneRequest ==
  ASSUME Inv, NEW a \in Actors, NEW r \in Requests,
         \/ /\ saver' = Save(a, r) /\ r \in used'[DirOf[r]]
            /\ \A q \in Requests : a = Creator(q) => q = r
         \/ saver' = SaveOver(a)
         \/ UNCHANGED saver,
         UNCHANGED <<tmp, disk, crashes>>, faults' \in 0..FaultLimit,
         rec' \in [Requests -> Records], child' \in [Requests -> Children],
         request' \in [Requests -> Places], waiter' \in [Requests -> {"idle", "wait", "save"}],
         killer' \in [Killers -> Kills], used' \in [Dirs -> SUBSET Requests],
         run' \in [Dirs -> Results], held' \in [Cases -> Requests \cup {NoRequest}],
         \/ UNCHANGED held
         \/ /\ held[CaseOf[r]] \in {r, NoRequest} /\ held'[CaseOf[r]] \in {r, NoRequest}
            /\ \A c \in Cases \ {CaseOf[r]} : held'[c] = held[c],
         \A q \in Requests \ {r} : /\ rec'[q] = rec[q] /\ child'[q] = child[q]
                                   /\ request'[q] = request[q] /\ waiter'[q] = waiter[q],
         \A d \in Dirs : /\ used[d] \subseteq used'[d]
                         /\ \A q \in used'[d] \ used[d] : q = r /\ request[r] = "publish"
                         /\ Told(d) => Told(d)',
         Post(r)', FreshOf(r)', EndedOf(r)', Apart',
         \A k \in Killers :
           /\ killer'[k].of \in {killer[k].of, NoRequest}
              \/ (killer'[k].of = r /\ r \in used[DirOf[r]])
           /\ killer'[k].pc \in {"signal", "grace", "last"} => killer'[k].of # NoRequest,
         child[r].run = "ok" => child'[r].run = "ok",
         rec'[r].status = "completed" \/ child'[r].exit = "ok" => child'[r].run = "ok",
         child'[r].at # "unborn" => disk[DirOf[r]] # NoFile
  PROVE  Inv'
<1>1. TypeOK'
  <2>1. saver' \in [Actors -> Savers]
    BY SaverKept
  <2>. QED BY <2>1, TypeNamed DEF Inv, Typed
<1>2. \A q \in Requests \ {r} : (held'[CaseOf[q]] = q) <=> (held[CaseOf[q]] = q)
  BY Blank
<1>3. \A q \in Requests \ {r} : Post(q)' /\ EndedOf(q)'
  BY <1>2, Blank DEF Inv, Posts, Ended, Post, EndedOf
<1>4. ASSUME NEW q \in Requests, q # r
      PROVE  FreshOf(q)'
  <2>1. /\ FreshOf(q) /\ Post(q) /\ Post(r) /\ DirOf[q] \in Dirs
        /\ request'[q] = request[q] /\ child'[q] = child[q]
        /\ used[DirOf[q]] \subseteq used'[DirOf[q]]
    BY <1>4, Blank DEF Inv, Fresh, Posts
  <2>2. request[q] = "publish" => \A p \in used'[DirOf[q]] : CaseOf[p] # CaseOf[q]
    <3>1. ASSUME request[q] = "publish", NEW p \in used'[DirOf[q]], CaseOf[p] = CaseOf[q]
          PROVE  FALSE
      <4>1. p = r /\ request[r] = "publish"
        BY <2>1, <3>1 DEF FreshOf
      <4>2. held[CaseOf[q]] = q /\ held[CaseOf[r]] = r
        BY <2>1, <3>1, <4>1 DEF Post
      <4>. QED BY <1>4, <3>1, <4>1, <4>2
    <3>. QED BY <3>1
  <2>3. (held'[CaseOf[q]] = q) <=> (held[CaseOf[q]] = q)
    BY <1>2, <1>4
  <2>. QED BY <2>1, <2>2, <2>3 DEF FreshOf
<1>5. Posts' /\ Fresh' /\ Ended'
  BY <1>3, <1>4 DEF Posts, Fresh, Ended
<1>6. Called'
  <2>1. \A c \in Cases : held'[c] # NoRequest => CaseOf[held'[c]] = c
    BY Blank DEF Inv, Called
  <2>2. ASSUME NEW k \in Killers, killer'[k].of # NoRequest
        PROVE  killer'[k].of \in used'[DirOf[killer'[k].of]]
    <3>1. killer'[k].of \in Requests
      BY <2>2 DEF Kills
    <3>2. killer'[k].of \in used[DirOf[killer'[k].of]]
      BY <2>2 DEF Inv, Called
    <3>. QED BY <3>1, <3>2, Blank
  <2>. QED BY <2>1, <2>2 DEF Called
<1>7. \A q \in Requests :
        /\ child[q].run = "ok" => child'[q].run = "ok"
        /\ rec'[q].status = "completed" \/ child'[q].exit = "ok" => child'[q].run = "ok"
        /\ child'[q].at # "unborn" => disk[DirOf[q]] # NoFile
  BY DEF Inv, Truth, Backed, Filed
<1>. QED BY <1>1, <1>5, <1>6, <1>7, RecordStep

\* What the steps of a request are proved from.
LEMMA RequestFacts ==
  ASSUME Inv, NEW r \in Requests
  PROVE  /\ held \in [Cases -> Requests \cup {NoRequest}]
         /\ rec \in [Requests -> Records] /\ child \in [Requests -> Children]
         /\ request \in [Requests -> Places] /\ waiter \in [Requests -> {"idle", "wait", "save"}]
         /\ killer \in [Killers -> Kills] /\ used \in [Dirs -> SUBSET Requests]
         /\ run \in [Dirs -> Results]
         /\ faults \in 0..FaultLimit /\ (Fault => faults' \in 0..FaultLimit)
         /\ DirOf[r] \in Dirs /\ CaseOf[r] \in Cases /\ r # NoRequest
         /\ Post(r) /\ FreshOf(r) /\ EndedOf(r)
         /\ (rec[r].status = "completed" => child[r].run = "ok")
         /\ (child[r].exit = "ok" => child[r].run = "ok")
         /\ (child[r].at # "unborn" => disk[DirOf[r]] # NoFile)
         /\ \A k \in Killers : killer[k].pc \in {"signal", "grace", "last"} => killer[k].of # NoRequest
<1>1. Fault => faults' \in 0..FaultLimit
  BY TypeNamed, ClerkAssumption DEF Inv, Typed, Fault
<1>. QED BY <1>1, TypeNamed, Blank DEF Inv, Typed, Posts, Fresh, Ended, Called, Truth, Backed, Filed

\* A step that puts no files anywhere and writes no run.json.
LEMMA ApartKept ==
  ASSUME Inv, UNCHANGED <<used, run>>, \A q \in Requests : child'[q].run = child[q].run
  PROVE  /\ Apart'
         /\ \A d \in Dirs : /\ used[d] \subseteq used'[d] /\ used'[d] \ used[d] = {}
                            /\ Told(d) => Told(d)'
<1>1. used \in [Dirs -> SUBSET Requests]
  BY TypeNamed DEF Inv, Typed
<1>. QED BY <1>1 DEF Inv, Apart, Sole, Told, Contested

\* The files of a request join those of other ids.
LEMMA ApartJoined ==
  ASSUME Inv, NEW r \in Requests, request[r] = "publish",
         UNCHANGED <<child, run>>, used' = [used EXCEPT ![DirOf[r]] = @ \cup {r}]
  PROVE  /\ Apart' /\ used' \in [Dirs -> SUBSET Requests] /\ r \in used'[DirOf[r]]
         /\ \A d \in Dirs : /\ used[d] \subseteq used'[d]
                            /\ \A q \in used'[d] \ used[d] : q = r /\ request[r] = "publish"
                            /\ Told(d) => Told(d)'
<1>. DEFINE e == DirOf[r]
<1>1. /\ used \in [Dirs -> SUBSET Requests] /\ e \in Dirs
      /\ \A q \in used[e] : CaseOf[q] # CaseOf[r]
      /\ child[r].run = "none"
  BY RequestFacts DEF FreshOf
<1>2. /\ used' \in [Dirs -> SUBSET Requests] /\ used'[e] = used[e] \cup {r}
      /\ \A d \in Dirs \ {e} : used'[d] = used[d]
  <2>1. used' = [used EXCEPT ![e] = used[e] \cup {r}]
    OBVIOUS
  <2>. HIDE DEF e
  <2>. QED BY <1>1, <2>1
<1>3. \A d \in Dirs : Told(d) => Told(d)'
  BY <1>2 DEF Told, Contested
<1>4. ASSUME NEW d \in Dirs
      PROVE  Sole(d)'
  <2>1. Sole(d)
    BY DEF Inv, Apart
  <2>2. CASE d # e
    BY <1>2, <2>1, <2>2 DEF Sole, Contested
  <2>3. CASE d = e
    <3>1. /\ \A q \in used'[e] : DirOf[q] = e
          /\ \A p, q \in used'[e] : CaseOf[p] = CaseOf[q] => p = q
      BY <1>1, <1>2, <2>1, <2>3 DEF Sole
    <3>2. CASE used[e] = {}
      <4>1. ~ Contested(e)
        BY <3>2 DEF Contested
      <4>2. run[e] = "none"
        BY <2>1, <2>3, <3>2, <4>1 DEF Sole
      <4>3. \A q \in used'[e] : child'[q].run = run'[e]
        BY <1>1, <1>2, <3>2, <4>2
      <4>. QED BY <1>2, <2>3, <3>1, <4>2, <4>3 DEF Sole
    <3>3. CASE used[e] # {}
      <4>1. PICK q \in used[e] : TRUE
        BY <3>3
      <4>2. Contested(e)'
        BY <1>1, <1>2, <4>1 DEF Contested
      <4>. QED BY <2>3, <3>1, <4>2 DEF Sole
    <3>. QED BY <3>2, <3>3
  <2>. QED BY <2>2, <2>3
<1>5. Apart'
  BY <1>4 DEF Apart
<1>. QED BY <1>2, <1>3, <1>5

\* A request before its record is listed.
LEMMA ReservingKeepsInv ==
  ASSUME Inv, NEW r \in Requests, Reserve(r) \/ CheckDirectory(r) \/ DirectoryFails(r)
  PROVE  Inv'
<1>0. Creator(r) \in Actors
  BY ActorFacts
<1>1. /\ UNCHANGED <<rec, child, waiter, killer, saver, tmp, disk, run, crashes>>
      /\ faults' \in 0..FaultLimit
  BY RequestFacts DEF Reserve, CheckDirectory, DirectoryFails
<1>2. /\ \/ /\ request[r] = "idle" /\ held[CaseOf[r]] = NoRequest
            /\ held'[CaseOf[r]] = r /\ request'[r] = "directory"
         \/ /\ request[r] \in {"directory", "publish"}
            /\ held'[CaseOf[r]] = NoRequest /\ request'[r] = "over"
         \/ /\ request[r] = "directory" /\ held' = held /\ used[DirOf[r]] = {}
            /\ request'[r] = "publish" /\ used' = used
      /\ held' \in [Cases -> Requests \cup {NoRequest}] /\ request' \in [Requests -> Places]
      /\ \A c \in Cases \ {CaseOf[r]} : held'[c] = held[c]
      /\ \A q \in Requests \ {r} : request'[q] = request[q]
  BY RequestFacts DEF Reserve, CheckDirectory, DirectoryFails, Unreserve, Taken, Places
<1>3. held[CaseOf[r]] \in {r, NoRequest} /\ held'[CaseOf[r]] \in {r, NoRequest}
  BY <1>2, RequestFacts DEF Post
<1>4. /\ Apart' /\ used' \in [Dirs -> SUBSET Requests]
      /\ \A d \in Dirs : /\ used[d] \subseteq used'[d]
                         /\ \A q \in used'[d] \ used[d] : q = r /\ request[r] = "publish"
                         /\ Told(d) => Told(d)'
  <2>1. CASE UNCHANGED used
    BY <1>1, <2>1, RequestFacts, ApartKept
  <2>2. CASE request[r] = "publish" /\ used' = [used EXCEPT ![DirOf[r]] = @ \cup {r}]
    BY <1>1, <2>2, ApartJoined
  <2>3. UNCHANGED used \/ (request[r] = "publish" /\ used' = [used EXCEPT ![DirOf[r]] = @ \cup {r}])
    BY DEF Reserve, CheckDirectory, DirectoryFails
  <2>. QED BY <2>1, <2>2, <2>3
<1>5. Post(r)' /\ FreshOf(r)' /\ EndedOf(r)'
  BY <1>1, <1>2, <1>4, RequestFacts DEF Post, FreshOf, EndedOf
<1>. QED BY <1>0, <1>1, <1>2, <1>3, <1>4, <1>5, RequestFacts, OneRequest

\* The record is listed, and the child is started or not.
LEMMA StartingKeepsInv ==
  ASSUME Inv, NEW r \in Requests, Publish(r) \/ PublishFails(r) \/ Launch(r)
  PROVE  Inv'
<1>0. Creator(r) \in Actors /\ \A q \in Requests : Creator(r) = Creator(q) => q = r
  BY ActorFacts
<1>1. CASE Publish(r)
  <2>1. /\ UNCHANGED <<held, child, waiter, killer, tmp, disk, run, faults, crashes>>
        /\ saver' = Save(Creator(r), r) /\ used' = [used EXCEPT ![DirOf[r]] = @ \cup {r}]
        /\ request[r] = "publish" /\ request'[r] = "launch" /\ request' \in [Requests -> Places]
        /\ \A q \in Requests \ {r} : request'[q] = request[q]
    BY <1>1, RequestFacts DEF Publish, Places
  <2>2. Sound(rec', rec, r, "starting")
    <3>1. "starting" \in Statuses /\ Changed(rec', rec, r, "starting")
      BY <1>1 DEF Publish, Statuses, Active, Changed
    <3>2. rec \in [Requests -> Records]
      BY RequestFacts
    <3>. QED BY <3>1, <3>2, RecordChanged
  <2>3. /\ Apart' /\ used' \in [Dirs -> SUBSET Requests] /\ r \in used'[DirOf[r]]
        /\ \A d \in Dirs : /\ used[d] \subseteq used'[d]
                           /\ \A q \in used'[d] \ used[d] : q = r /\ request[r] = "publish"
                           /\ Told(d) => Told(d)'
    BY <2>1, ApartJoined
  <2>4. Post(r)' /\ FreshOf(r)' /\ EndedOf(r)'
    BY <2>1, <2>2, <2>3, RequestFacts DEF Post, FreshOf, EndedOf, Sound
  <2>. QED BY <1>0, <2>1, <2>2, <2>3, <2>4, RequestFacts, OneRequest DEF Sound
<1>2. CASE PublishFails(r)
  <2>1. /\ UNCHANGED <<rec, child, waiter, killer, tmp, disk, used, run, faults, crashes>>
        /\ saver' = SaveOver(Creator(r))
        /\ request[r] = "launch" /\ request'[r] = "over" /\ request' \in [Requests -> Places]
        /\ held'[CaseOf[r]] = NoRequest /\ held' \in [Cases -> Requests \cup {NoRequest}]
        /\ \A c \in Cases \ {CaseOf[r]} : held'[c] = held[c]
        /\ \A q \in Requests \ {r} : request'[q] = request[q]
    BY <1>2, RequestFacts DEF PublishFails, Unreserve, Places
  <2>2. held[CaseOf[r]] = r
    BY <2>1, RequestFacts DEF Post
  <2>3. Post(r)' /\ FreshOf(r)' /\ EndedOf(r)'
    BY <2>1, RequestFacts DEF Post, FreshOf, EndedOf
  <2>4. /\ Apart' 
        /\ \A d \in Dirs : /\ used[d] \subseteq used'[d] /\ used'[d] \ used[d] = {}
                           /\ Told(d) => Told(d)'
    BY <2>1, ApartKept
  <2>. QED BY <1>0, <2>1, <2>2, <2>3, <2>4, RequestFacts, OneRequest
<1>3. CASE Launch(r)
  <2>1. /\ UNCHANGED <<held, rec, waiter, killer, tmp, disk, used, run, faults, crashes>>
        /\ saver' = SaveOver(Creator(r))
        /\ request[r] = "launch" /\ request'[r] = "mark" /\ request' \in [Requests -> Places]
        /\ \A q \in Requests \ {r} : request'[q] = request[q]
    BY <1>3, RequestFacts DEF Launch, Places
  <2>2. /\ child' \in [Requests -> Children] /\ child'[r].at = "alive"
        /\ child'[r].run = "none" /\ child'[r].exit = "none"
        /\ \A q \in Requests \ {r} : child'[q] = child[q]
    <3>1. Became(child', child, r, "alive", "none", "none", "none")
      BY <1>3 DEF Launch, NewChild, Became
    <3>2. /\ child \in [Requests -> Children] /\ "none" \in Results
          /\ "none" \in Exits /\ "none" \in Signals /\ "alive" \in Stages
      BY RequestFacts DEF Results, Exits, Signals, Stages
    <3>. QED BY <3>1, <3>2, ChildChanged
  <2>3. child[r].at = "unborn" /\ child[r].run = "none" /\ r \in used[DirOf[r]]
    BY <2>1, RequestFacts DEF FreshOf, Post
  <2>4. disk[DirOf[r]] # NoFile
    BY <1>0, <1>3 DEF Launch, Saved, Inv, Filed
  <2>5. Post(r)' /\ FreshOf(r)' /\ EndedOf(r)'
    BY <2>1, <2>2, <2>3, RequestFacts DEF Post, FreshOf, EndedOf
  <2>6. /\ Apart'
        /\ \A d \in Dirs : /\ used[d] \subseteq used'[d] /\ used'[d] \ used[d] = {}
                           /\ Told(d) => Told(d)'
    BY <2>1, <2>2, <2>3, ApartKept
  <2>. QED BY <1>0, <2>1, <2>2, <2>3, <2>4, <2>5, <2>6, RequestFacts, OneRequest
<1>. QED BY <1>1, <1>2, <1>3

\* What a request does once its child was, or was not, started.
LEMMA StartedKeepsInv ==
  ASSUME Inv, NEW r \in Requests,
         LaunchFails(r) \/ FailureSaved(r) \/ MarkRunning(r) \/ HandOver(r)
  PROVE  Inv'
<1>0. Creator(r) \in Actors /\ \A q \in Requests : Creator(r) = Creator(q) => q = r
  BY ActorFacts
<1>1. /\ UNCHANGED <<held, child, killer, tmp, disk, used, run, crashes>>
      /\ faults' \in 0..FaultLimit
      /\ saver' = Save(Creator(r), r) \/ saver' = SaveOver(Creator(r))
      /\ request[r] \in {"launch", "failed", "mark", "handover"}
      /\ request'[r] \in {"failed", "over", "handover"} /\ request' \in [Requests -> Places]
      /\ waiter'[r] = waiter[r] \/ (request'[r] = "over" /\ waiter'[r] = "wait")
      /\ waiter' \in [Requests -> {"idle", "wait", "save"}]
      /\ \A q \in Requests \ {r} : request'[q] = request[q] /\ waiter'[q] = waiter[q]
  BY RequestFacts DEF LaunchFails, FailureSaved, MarkRunning, HandOver, Places
<1>2. \E s \in {rec[r].status, "failed", "running"} : Sound(rec', rec, r, s)
  <2>1. {rec[r].status, "failed", "running"} \subseteq Statuses
    BY RequestFacts DEF Records, Statuses, Active
  <2>2. \/ Changed(rec', rec, r, "failed")
        \/ Changed(rec', rec, r, "running")
        \/ Changed(rec', rec, r, rec[r].status)
        \/ rec' = rec
    BY DEF LaunchFails, FailureSaved, MarkRunning, HandOver, Changed
  <2>3. rec \in [Requests -> Records]
    BY RequestFacts
  <2>4. \A s \in Statuses : Changed(rec', rec, r, s) => Sound(rec', rec, r, s)
    BY <2>3, RecordChanged
  <2>5. rec' = rec => Sound(rec', rec, r, rec[r].status)
    BY <2>3 DEF Sound
  <2>. QED BY <2>1, <2>2, <2>4, <2>5
<1>3. held[CaseOf[r]] = r /\ r \in used'[DirOf[r]]
  BY <1>1, RequestFacts DEF Post, FreshOf
<1>4. Post(r)' /\ FreshOf(r)' /\ EndedOf(r)'
  BY <1>1, <1>2, <1>3, RequestFacts DEF Post, FreshOf, EndedOf, Sound
<1>5. /\ Apart'
      /\ \A d \in Dirs : /\ used[d] \subseteq used'[d] /\ used'[d] \ used[d] = {}
                         /\ Told(d) => Told(d)'
  BY <1>1, ApartKept
<1>. QED BY <1>0, <1>1, <1>2, <1>3, <1>4, <1>5, RequestFacts, OneRequest DEF Sound

\* The goroutine that waits for the child.
LEMMA WaitingKeepsInv ==
  ASSUME Inv, NEW r \in Requests, Reap(r) \/ ReapBlind(r) \/ Reaped(r)
  PROVE  Inv'
<1>0. Waiter(r) \in Actors /\ \A q \in Requests : Waiter(r) = Creator(q) => q = r
  BY ActorFacts
<1>1. /\ UNCHANGED <<held, request, killer, tmp, disk, used, run, crashes>>
      /\ faults' \in 0..FaultLimit
      /\ saver' = Save(Waiter(r), r) \/ saver' = SaveOver(Waiter(r))
      /\ waiter[r] # "idle" /\ waiter' \in [Requests -> {"idle", "wait", "save"}]
      /\ \A q \in Requests \ {r} : waiter'[q] = waiter[q]
  BY RequestFacts DEF Reap, ReapBlind, Reaped
<1>2. held[CaseOf[r]] = r /\ request[r] = "over" /\ r \in used'[DirOf[r]]
  BY <1>1, RequestFacts DEF Post, FreshOf
<1>3. CASE Reap(r) \/ ReapBlind(r)
  <2>1. /\ child' \in [Requests -> Children] /\ child'[r].at = "reaped"
        /\ child'[r].run = child[r].run /\ child'[r].exit = "none"
        /\ \A q \in Requests \ {r} : child'[q] = child[q]
    <3>1. /\ child \in [Requests -> Children]
          /\ child[r].signal \in Signals /\ child[r].run \in Results
          /\ "none" \in Exits /\ "reaped" \in Stages
      BY RequestFacts DEF Children, Results, Exits, Stages
    <3>2. PICK signal \in Signals, result \in Results :
            signal = child[r].signal /\ result = child[r].run
      BY <3>1
    <3>3. Became(child', child, r, "reaped", signal, result, "none")
      BY <1>3, <3>2 DEF Reap, ReapBlind, Became
    <3>4. child \in [Requests -> Children] /\ "none" \in Exits /\ "reaped" \in Stages
      BY <3>1
    <3>5. /\ child' \in [Requests -> Children]
          /\ child'[r].at = "reaped" /\ child'[r].run = result /\ child'[r].exit = "none"
          /\ \A q \in Requests \ {r} : child'[q] = child[q]
      BY <3>3, <3>4, ChildChanged
    <3>. QED BY <3>2, <3>5
  <2>2. \E s \in {"completed", "failed", "killed"} :
          Sound(rec', rec, r, s) /\ (s = "completed" => child[r].run = "ok")
    <3>1. {"completed", "failed", "killed"} \subseteq Statuses
      BY DEF Statuses
    <3>2. \E s \in {"completed", "failed", "killed"} :
            Changed(rec', rec, r, s) /\ (s = "completed" => child[r].exit = "ok")
      BY <1>3 DEF Reap, ReapBlind, ExitStatus, Changed
    <3>3. rec \in [Requests -> Records]
      BY RequestFacts
    <3>4. child[r].exit = "ok" => child[r].run = "ok"
      BY RequestFacts
    <3>. QED BY <3>1, <3>2, <3>3, <3>4, RecordChanged
  <2>3. child[r].at # "unborn"
    BY <1>3 DEF Reap, ReapBlind
  <2>4. Post(r)' /\ FreshOf(r)' /\ EndedOf(r)'
    BY <1>1, <1>2, <2>1, <2>2, <2>3, RequestFacts DEF Post, FreshOf, EndedOf, Sound
  <2>5. /\ Apart'
        /\ \A d \in Dirs : /\ used[d] \subseteq used'[d] /\ used'[d] \ used[d] = {}
                           /\ Told(d) => Told(d)'
    BY <1>1, <2>1, ApartKept
  <2>. QED BY <1>0, <1>1, <1>2, <2>1, <2>2, <2>3, <2>4, <2>5, RequestFacts, OneRequest DEF Sound
<1>4. CASE Reaped(r)
  <2>1. UNCHANGED child
    BY <1>4 DEF Reaped
  <2>2. \E s \in {rec[r].status, "failed"} : Sound(rec', rec, r, s)
    <3>1. {rec[r].status, "failed"} \subseteq Statuses
      BY RequestFacts DEF Records, Statuses
    <3>2. Changed(rec', rec, r, rec[r].status) \/ Changed(rec', rec, r, "failed")
      BY <1>4 DEF Reaped, Changed
    <3>3. rec \in [Requests -> Records]
      BY RequestFacts
    <3>. QED BY <3>1, <3>2, <3>3, RecordChanged
  <2>3. Post(r)' /\ FreshOf(r)' /\ EndedOf(r)'
    BY <1>1, <1>2, <2>1, <2>2, RequestFacts DEF Post, FreshOf, EndedOf, Sound
  <2>4. /\ Apart'
        /\ \A d \in Dirs : /\ used[d] \subseteq used'[d] /\ used'[d] \ used[d] = {}
                           /\ Told(d) => Told(d)'
    BY <1>1, <2>1, ApartKept
  <2>. QED BY <1>0, <1>1, <1>2, <2>1, <2>2, <2>3, <2>4, RequestFacts, OneRequest DEF Sound
<1>. QED BY <1>3, <1>4

-----------------------------------------------------------------------------
(* Kill requests, the child, what was left behind, and the service's death *)

\* A kill request that moves on is for the same record.
LEMMA CallKept ==
  ASSUME Inv, NEW k \in Killers,
         \E pc \in {"signal", "grace", "last", "answered", "refused"} : Step(k, pc),
         killer[k].pc \in {"signal", "grace", "last"}
  PROVE  /\ killer' \in [Killers -> Kills]
         /\ \A j \in Killers :
              /\ killer'[j].of = killer[j].of
              /\ killer'[j].pc \in {"signal", "grace", "last"} => killer'[j].of # NoRequest
<1>1. PICK pc \in {"signal", "grace", "last", "answered", "refused"} :
        killer' = [killer EXCEPT ![k].pc = pc]
  BY DEF Step
<1>2. /\ killer \in [Killers -> Kills] /\ killer[k] \in Kills
      /\ \A j \in Killers : killer[j].pc \in {"signal", "grace", "last"} => killer[j].of # NoRequest
  BY TypeNamed DEF Inv, Typed, Called
<1>. DEFINE t == [killer[k] EXCEPT !.pc = pc]
<1>3. t \in Kills /\ t.of = killer[k].of
  BY <1>2 DEF Kills
<1>4. killer' = [killer EXCEPT ![k] = t]
  BY <1>1
<1>. HIDE DEF t
<1>. QED BY <1>2, <1>3, <1>4

LEMMA KillingKeepsInv ==
  ASSUME Inv, NEW k \in Killers, KillOn(k) \/ \E c \in Cases : Kill(k, c)
  PROVE  Inv'
<1>0. Killer(k) \in Actors /\ \A q \in Requests : Killer(k) # Creator(q)
  BY ActorFacts
<1>1. ASSUME NEW c \in Cases, Kill(k, c)
      PROVE  Inv'
  <2>1. PICK r \in Requests :
          r = held[c] /\ CaseOf[r] = c /\ request[r] \notin {"directory", "publish"}
    BY <1>1, TypeNamed DEF Kill, Listed, Inv, Typed, Called
  <2>2. /\ UNCHANGED <<held, child, request, waiter, tmp, disk, used, run, faults, crashes>>
        /\ saver' = Save(Killer(k), r) /\ Changed(rec', rec, r, "killing")
        /\ rec[r].status \in Active
        /\ killer' = [killer EXCEPT ![k] = [pc |-> "signal", of |-> r]]
    BY <1>1, <2>1 DEF Kill, Changed
  <2>3. held[CaseOf[r]] = r
    BY <2>1
  <2>4. r \in used[DirOf[r]]
    BY <2>1, <2>3, RequestFacts DEF FreshOf
  <2>5. Sound(rec', rec, r, "killing")
    <3>1. rec \in [Requests -> Records] /\ "killing" \in Statuses
      BY <2>1, RequestFacts DEF Statuses, Active
    <3>. QED BY <2>1, <2>2, <3>1, RecordChanged
  <2>6. /\ killer' \in [Killers -> Kills]
        /\ \A j \in Killers :
             /\ killer'[j].of = killer[j].of \/ killer'[j].of = r
             /\ killer'[j].pc \in {"signal", "grace", "last"} => killer'[j].of # NoRequest
    <3>. DEFINE call == [pc |-> "signal", of |-> r]
    <3>1. call \in Kills /\ call.of = r /\ r # NoRequest
      BY <2>1, Blank DEF Kills
    <3>2. /\ killer' = [killer EXCEPT ![k] = call] /\ killer \in [Killers -> Kills]
          /\ \A j \in Killers : killer[j].pc \in {"signal", "grace", "last"} =>
                                  killer[j].of # NoRequest
      BY <2>1, <2>2, RequestFacts
    <3>. HIDE DEF call
    <3>. QED BY <3>1, <3>2
  <2>7. Post(r)' /\ FreshOf(r)' /\ EndedOf(r)'
    <3>1. rec'[r].status = "killing" /\ Post(r) /\ FreshOf(r)
      BY <2>1, <2>5, RequestFacts DEF Sound
    <3>. QED BY <2>2, <3>1 DEF Post, FreshOf, EndedOf
  <2>8. /\ Apart'
        /\ \A d \in Dirs : /\ used[d] \subseteq used'[d] /\ used'[d] \ used[d] = {}
                           /\ Told(d) => Told(d)'
    BY <2>2, ApartKept
  <2>9. rec'[r].status # "completed" /\ rec' \in [Requests -> Records]
        /\ \A q \in Requests \ {r} : rec'[q] = rec[q]
    BY <2>5 DEF Sound
  <2>. QED BY <1>0, <2>1, <2>2, <2>3, <2>4, <2>6, <2>7, <2>8, <2>9, RequestFacts, OneRequest
<1>2. CASE KillOn(k)
  <2>0. killer[k].pc \in {"signal", "grace", "last"}
    BY <1>2 DEF KillOn, KillNotSaved, Interrupt, ForceKill, KillAnswer
  <2>1. PICK r \in Requests : r = killer[k].of
    BY <2>0, TypeNamed DEF Inv, Typed, Called, Kills
  <2>2. child \in [Requests -> Children] /\ child[r] \in Children
    BY <2>1, RequestFacts
  <2>3. /\ child[r].at \in Stages /\ child[r].signal \in Signals
        /\ child[r].run \in Results /\ child[r].exit \in Exits
    BY <2>2 DEF Children
  <2>4. /\ UNCHANGED <<held, rec, request, waiter, tmp, disk, used, run, faults, crashes>>
        /\ saver' = SaveOver(Killer(k)) \/ UNCHANGED saver
        /\ \E pc \in {"signal", "grace", "last", "answered", "refused"} : Step(k, pc)
        /\ \/ UNCHANGED child
           \/ \E signal \in Signals : child' = [child EXCEPT ![r].signal = signal]
    <3>1. CASE KillNotSaved(k) \/ KillAnswer(k)
      BY <3>1 DEF KillNotSaved, KillAnswer
    <3>2. CASE Interrupt(k)
      BY <2>1, <2>3, <3>2 DEF Interrupt, Weaker, Stages, Signals
    <3>3. CASE ForceKill(k)
      BY <2>1, <2>3, <3>3 DEF ForceKill, Stages, Signals
    <3>. QED BY <1>2, <3>1, <3>2, <3>3 DEF KillOn
  <2>5. /\ killer' \in [Killers -> Kills]
        /\ \A j \in Killers :
             /\ killer'[j].of = killer[j].of
             /\ killer'[j].pc \in {"signal", "grace", "last"} => killer'[j].of # NoRequest
    BY <2>0, <2>4, CallKept
  <2>6. \/ UNCHANGED child
        \/ \E signal \in Signals :
             Became(child', child, r, child[r].at, signal, child[r].run, child[r].exit)
    BY <2>4 DEF Became
  <2>7. /\ child' \in [Requests -> Children] /\ child'[r].at = child[r].at
        /\ child'[r].run = child[r].run /\ child'[r].exit = child[r].exit
        /\ \A q \in Requests \ {r} : child'[q] = child[q]
    BY <2>2, <2>3, <2>6, ChildChanged
  <2>8. Post(r)' /\ FreshOf(r)' /\ EndedOf(r)'
    BY <2>4, <2>7, RequestFacts DEF Post, FreshOf, EndedOf
  <2>9. /\ Apart'
        /\ \A d \in Dirs : /\ used[d] \subseteq used'[d] /\ used'[d] \ used[d] = {}
                           /\ Told(d) => Told(d)'
    BY <2>4, <2>7, ApartKept
  <2>. QED BY <1>0, <2>4, <2>5, <2>7, <2>8, <2>9, RequestFacts, OneRequest
<1>. QED BY <1>1, <1>2

\* The child's own steps.
LEMMA ChildKeepsInv ==
  ASSUME Inv, NEW r \in Requests, WriteRun(r) \/ Exit(r)
  PROVE  Inv'
<1>0. Creator(r) \in Actors /\ DirOf[r] \in Dirs
  BY ActorFacts, Blank
<1>1. CASE WriteRun(r)
  <2>. DEFINE e == DirOf[r]
  <2>1. PICK result \in Results :
          child' = [child EXCEPT ![r].run = result] /\ run' = [run EXCEPT ![e] = result]
    BY <1>1 DEF WriteRun, Results
  <2>2. /\ UNCHANGED <<held, rec, request, waiter, killer, saver, tmp, disk, used, faults, crashes>>
        /\ child[r].at = "alive" /\ child[r].run = "none"
    BY <1>1 DEF WriteRun
  <2>3. /\ child' \in [Requests -> Children] /\ child'[r].at = child[r].at
        /\ child'[r].run = result /\ child'[r].exit = child[r].exit
        /\ \A q \in Requests \ {r} : child'[q] = child[q]
    <3>1. /\ child \in [Requests -> Children]
          /\ child[r].at \in Stages /\ child[r].signal \in Signals /\ child[r].exit \in Exits
      BY RequestFacts DEF Children, Results
    <3>2. PICK at \in Stages, signal \in Signals, exit \in Exits :
            at = child[r].at /\ signal = child[r].signal /\ exit = child[r].exit
      BY <3>1
    <3>3. Became(child', child, r, at, signal, result, exit)
      BY <2>1, <3>2 DEF Became
    <3>4. child \in [Requests -> Children]
      BY <3>1
    <3>5. /\ child' \in [Requests -> Children]
          /\ child'[r].at = at /\ child'[r].run = result /\ child'[r].exit = exit
          /\ \A q \in Requests \ {r} : child'[q] = child[q]
      BY <3>3, <3>4, ChildChanged
    <3>. QED BY <3>2, <3>5
  <2>4. /\ run' \in [Dirs -> Results] /\ run'[e] = result
        /\ \A d \in Dirs \ {e} : run'[d] = run[d]
    <3>1. run \in [Dirs -> Results] /\ e \in Dirs /\ result \in Results
      BY <1>0, RequestFacts DEF Results
    <3>. HIDE DEF e
    <3>. QED BY <2>1, <3>1
  <2>5. r \in used[e] /\ Sole(e)
    BY <1>0, <2>2, RequestFacts DEF FreshOf, Inv, Apart
  <2>6. \A d \in Dirs : Told(d) => Told(d)'
    <3>1. Contested(e) \/ run[e] = "none"
      BY <2>2, <2>5 DEF Sole
    <3>. QED BY <2>2, <2>4, <3>1 DEF Told, Contested
  <2>7. ASSUME NEW d \in Dirs
        PROVE  Sole(d)'
    <3>1. Sole(d)
      BY DEF Inv, Apart
    <3>2. CASE d = e
      BY <2>2, <2>3, <2>4, <2>5, <3>1, <3>2 DEF Sole, Contested
    <3>3. CASE d # e
      <4>1. \A q \in used[d] : q \in Requests \ {r}
        BY <3>1, <3>3, RequestFacts DEF Sole
      <4>. QED BY <2>2, <2>3, <2>4, <3>1, <3>3, <4>1 DEF Sole, Contested
    <3>. QED BY <3>2, <3>3
  <2>8. Apart'
    BY <2>7 DEF Apart
  <2>9. Post(r)' /\ FreshOf(r)' /\ EndedOf(r)'
    BY <2>2, <2>3, RequestFacts DEF Post, FreshOf, EndedOf
  <2>10. \A d \in Dirs : used[d] \subseteq used'[d] /\ used'[d] \ used[d] = {}
    BY <2>2
  <2>11. rec'[r].status = "completed" \/ child'[r].exit = "ok" => child'[r].run = "ok"
    BY <2>2, <2>3, RequestFacts
  <2>. QED BY <1>0, <2>2, <2>3, <2>4, <2>6, <2>8, <2>9, <2>10, <2>11, RequestFacts, OneRequest
<1>2. CASE Exit(r)
  <2>1. /\ UNCHANGED <<held, rec, request, waiter, killer, saver, tmp, disk, used, run,
                       faults, crashes>>
        /\ child[r].at = "alive"
    BY <1>2 DEF Exit
  <2>2. /\ child \in [Requests -> Children] /\ child[r].run \in Results /\ child[r].exit \in Exits
        /\ {"error", child[r].run} \subseteq Exits
        /\ "none" \in Signals /\ {"exited", "reaped"} \subseteq Stages
    BY RequestFacts DEF Children, Results, Exits, Signals, Stages
  <2>3. PICK at \in {"exited", "reaped"}, result \in Results, exit \in Exits :
          /\ result = child[r].run /\ (exit = "ok" => result = "ok")
          /\ Became(child', child, r, at, "none", result, exit)
    BY <1>2, <2>2, RequestFacts DEF Exit, Became
  <2>4. /\ child' \in [Requests -> Children] /\ child'[r].at \in {"exited", "reaped"}
        /\ child'[r].run = child[r].run /\ child'[r].exit = exit
        /\ \A q \in Requests \ {r} : child'[q] = child[q]
    <3>1. at \in Stages
      BY <2>2
    <3>. QED BY <2>2, <2>3, <3>1, ChildChanged
  <2>5. Post(r)' /\ FreshOf(r)' /\ EndedOf(r)'
    BY <2>1, <2>4, RequestFacts DEF Post, FreshOf, EndedOf
  <2>6. /\ Apart'
        /\ \A d \in Dirs : /\ used[d] \subseteq used'[d] /\ used'[d] \ used[d] = {}
                           /\ Told(d) => Told(d)'
    BY <2>1, <2>4, ApartKept
  <2>. QED BY <1>0, <2>1, <2>3, <2>4, <2>5, <2>6, RequestFacts, OneRequest
<1>. QED BY <1>1, <1>2


\* A record that an earlier service left is put right by the run.json next to it.
LEMMA ReconcileKeepsInv ==
  ASSUME Inv, NEW d \in Dirs, Reconcile(d)
  PROVE  Inv'
<1>1. /\ UNCHANGED <<held, rec, child, request, waiter, killer, saver, used, run, faults, crashes>>
      /\ disk[d] # NoFile /\ tmp' = [tmp EXCEPT ![d] = NoFile]
      /\ disk' = [disk EXCEPT ![d].status = Repaired(d)]
  BY DEF Reconcile
<1>2. tmp \in [Dirs -> Files] /\ disk \in [Dirs -> Files] /\ run \in [Dirs -> Results] /\ TypeOK
  BY TypeNamed DEF Inv, Typed
<1>3. /\ Repaired(d) \in Statuses \cup {"detached"}
      /\ Repaired(d) = "completed" => disk[d].status = "completed" \/ run[d] = "ok"
  BY <1>2 DEF Repaired, Files, Statuses
<1>. DEFINE file == [disk[d] EXCEPT !.status = Repaired(d)]
<1>4. file \in Files /\ file.case = disk[d].case /\ file.status = Repaired(d)
  <2>1. disk[d] \in Files
    BY <1>2
  <2>. QED BY <1>3, <2>1 DEF Files
<1>5. file # NoFile /\ Own(d, file)
  <2>1. PICK r \in used[d] : disk[d].case = CaseOf[r]
    BY <1>1 DEF Inv, Filed, Own
  <2>2. r \in Requests
    BY TypeNamed DEF Inv, Typed
  <2>. QED BY <1>4, <2>1, <2>2, Blank DEF Own
<1>6. disk' = [disk EXCEPT ![d] = file]
  BY <1>1
<1>. HIDE DEF file
<1>7. /\ tmp' \in [Dirs -> Files] /\ disk' \in [Dirs -> Files]
      /\ \A e \in Dirs : tmp'[e] \in {tmp[e], NoFile}
      /\ \A e \in Dirs : disk'[e] = disk[e] \/ (e = d /\ disk'[e] = file)
  BY <1>1, <1>2, <1>4, <1>6, Blank
<1>8. TypeOK'
  BY <1>1, <1>2, <1>7, TypeNamed DEF Typed
<1>9. Posts' /\ Fresh' /\ Ended' /\ Called'
  BY <1>1 DEF Inv, Posts, Fresh, Ended, Post, FreshOf, EndedOf, Called
<1>10. Apart' /\ \A e \in Dirs : Told(e) => Told(e)'
  BY <1>1, ApartKept
<1>11. Truth'
  <2>1. \A e \in Dirs : "completed" \in {tmp'[e].status, disk'[e].status} => Told(e)
    <3>1. file.status = "completed" => Told(d)
      BY <1>3, <1>4 DEF Inv, Truth, Told
    <3>. QED BY <1>7, <3>1, Blank DEF Inv, Truth
  <2>. QED BY <1>1, <1>10, <2>1 DEF Inv, Truth, Backed
<1>12. Filed'
  <2>1. \A e \in Dirs : /\ Own(e, tmp'[e]) /\ Own(e, disk'[e])
                        /\ disk[e] # NoFile => disk'[e] # NoFile
    BY <1>5, <1>7 DEF Inv, Filed, Own
  <2>2. \A e \in Dirs : Own(e, tmp[e])' /\ Own(e, disk[e])'
    BY <1>1, <2>1 DEF Own
  <2>3. \A a \in Actors : saver[a].pc = "saved" => DirOf[saver[a].of] \in Dirs
    BY Blank DEF Inv, Filed
  <2>4. /\ \A a \in Actors : saver[a].pc = "saved" => disk'[DirOf[saver[a].of]] # NoFile
        /\ \A r \in Requests : child[r].at # "unborn" => disk'[DirOf[r]] # NoFile
    BY <2>1, <2>3, Blank DEF Inv, Filed
  <2>. QED BY <1>1, <2>2, <2>4 DEF Inv, Filed
<1>. QED BY <1>8, <1>9, <1>10, <1>11, <1>12 DEF Inv

\* A death of the service forgets requests and records; children and files stay.
LEMMA RestartKeepsInv ==
  ASSUME Inv, Restart
  PROVE  Inv'
<1>1. /\ held' = [c \in Cases |-> NoRequest] /\ rec' = [r \in Requests |-> NoRecord]
      /\ request' = [r \in Requests |-> IF request[r] = "idle" THEN "idle" ELSE "over"]
      /\ waiter' = [r \in Requests |-> "idle"] /\ saver' = [a \in Actors |-> NotSaving]
      /\ UNCHANGED <<tmp, disk, used, run, faults>>
  BY DEF Restart
<1>2. /\ killer' \in [Killers -> Kills]
      /\ \A k \in Killers : killer'[k].of \in {killer[k].of, NoRequest}
                            /\ killer'[k].pc \in {"idle", "refused"}
  <2>1. /\ killer \in [Killers -> Kills]
        /\ killer' = [k \in Killers |-> IF killer[k].pc = "idle" THEN killer[k]
                                        ELSE [pc |-> "refused", of |-> NoRequest]]
    BY TypeNamed DEF Inv, Typed, Restart
  <2>. QED BY <2>1 DEF Kills
<1>3. /\ child' \in [Requests -> Children]
      /\ \A r \in Requests : /\ child'[r].run = child[r].run
                             /\ child'[r].at = "unborn" <=> child[r].at = "unborn"
                             /\ child'[r].exit \in {child[r].exit, "none"}
  <2>1. ASSUME NEW r \in Requests
        PROVE  /\ child'[r] \in Children /\ child'[r].run = child[r].run
               /\ child'[r].at = "unborn" <=> child[r].at = "unborn"
               /\ child'[r].exit \in {child[r].exit, "none"}
    <3>. DEFINE gone == [child[r] EXCEPT !.at = "reaped", !.exit = "none"]
    <3>1. /\ child[r] \in Children
          /\ child'[r] = IF child[r].at = "exited" THEN gone ELSE child[r]
      <4>1. child \in [Requests -> Children]
        BY TypeNamed DEF Inv, Typed
      <4>. QED BY <4>1 DEF Restart
    <3>2. gone \in Children /\ gone.run = child[r].run /\ gone.at = "reaped" /\ gone.exit = "none"
      BY <3>1 DEF Children, Stages, Exits, Results
    <3>. HIDE DEF gone
    <3>. QED BY <3>1, <3>2
  <2>2. child' = [r \in Requests |-> child'[r]]
    BY DEF Restart
  <2>. QED BY <2>1, <2>2
<1>4. TypeOK'
  <2>1. crashes' \in 0..CrashLimit
    <3>1. crashes \in 0..CrashLimit /\ CrashLimit \in Nat
      BY TypeNamed, ClerkAssumption DEF Inv, Typed
    <3>2. crashes < CrashLimit /\ crashes' = crashes + 1
      BY DEF Restart
    <3>. QED BY <3>1, <3>2
  <2>2. /\ held' \in [Cases -> Requests \cup {NoRequest}] /\ rec' \in [Requests -> Records]
        /\ request' \in [Requests -> Places] /\ waiter' \in [Requests -> {"idle", "wait", "save"}]
        /\ saver' \in [Actors -> Savers]
    BY <1>1, Blank DEF Places
  <2>. QED BY <1>1, <1>2, <1>3, <2>1, <2>2, TypeNamed DEF Inv, Typed
<1>5. Posts' /\ Ended'
  BY <1>1, Blank DEF Posts, Ended, Post, EndedOf
<1>6. Fresh'
  <2>1. \A r \in Requests : /\ request'[r] \in {"idle", "over"}
                            /\ request'[r] = "idle" => request[r] = "idle"
                            /\ held'[CaseOf[r]] # r
    BY <1>1, Blank
  <2>. QED BY <1>1, <1>3, <2>1 DEF Inv, Fresh, FreshOf
<1>7. Called'
  BY <1>1, <1>2, Blank DEF Inv, Called
<1>8. Apart' /\ \A d \in Dirs : Told(d) => Told(d)'
  BY <1>1, <1>3, ApartKept
<1>9. Truth'
  <2>1. \A a \in Actors : saver'[a].of \notin Requests
    BY <1>1, Blank
  <2>2. \A r \in Requests : rec'[r].status # "completed"
    BY <1>1, Blank
  <2>. QED BY <1>1, <1>3, <1>8, <2>1, <2>2 DEF Inv, Truth, Backed
<1>10. Filed'
  <2>1. \A a \in Actors : saver'[a].pc = "idle"
    BY <1>1, Blank
  <2>. QED BY <1>1, <1>3, <2>1, ActorFacts DEF Inv, Filed, Own
<1>. QED BY <1>4, <1>5, <1>6, <1>7, <1>8, <1>9, <1>10 DEF Inv

-----------------------------------------------------------------------------
(* The invariant.                                                          *)

LEMMA InitInv ==
  ASSUME Init
  PROVE  Inv
<1>1. TypeOK
  <2>1. NewChild("unborn") \in Children /\ [pc |-> "idle", of |-> NoRequest] \in Kills
    BY DEF NewChild, Children, Kills, Stages, Signals, Results, Exits
  <2>2. "idle" \in Places /\ "none" \in Results
    BY DEF Places, Results
  <2>. QED BY <2>1, <2>2, Blank, TypeNamed, ClerkAssumption DEF Init, Typed
<1>2. \A r \in Requests : child[r].at = "unborn" /\ child[r].run = "none" /\ child[r].exit = "none"
  BY DEF Init, NewChild
<1>3. Posts /\ Fresh /\ Ended /\ Called
  BY <1>2, Blank DEF Init, Posts, Fresh, Ended, Called, Post, FreshOf, EndedOf
<1>4. Apart
  BY DEF Init, Apart, Sole
<1>5. Truth
  BY <1>2, Blank DEF Init, Truth, Backed
<1>6. Filed
  BY <1>2, Blank, ActorFacts DEF Init, Filed, Own
<1>. QED BY <1>1, <1>3, <1>4, <1>5, <1>6 DEF Inv

LEMMA StutterKeepsInv ==
  ASSUME Inv, UNCHANGED vars
  PROVE  Inv'
<1>1. UNCHANGED <<held, rec, child, request, waiter, killer, saver, tmp, disk, used, run,
                  faults, crashes>>
  BY DEF vars
<1>2. TypeOK'
  BY <1>1, TypeNamed DEF Inv, Typed
<1>3. Posts' /\ Fresh' /\ Ended' /\ Called'
  BY <1>1 DEF Inv, Posts, Fresh, Ended, Called, Post, FreshOf, EndedOf
<1>4. Apart' /\ \A d \in Dirs : Told(d) => Told(d)'
  BY <1>1, ApartKept
<1>5. Truth' /\ Filed'
  BY <1>1, <1>4 DEF Inv, Truth, Backed, Filed, Own
<1>. QED BY <1>2, <1>3, <1>4, <1>5 DEF Inv

LEMMA NextInv ==
  ASSUME Inv, [Next]_vars
  PROVE  Inv'
<1>1. ASSUME NEW r \in Requests, Create(r)
      PROVE  Inv'
  BY <1>1, ReservingKeepsInv, StartingKeepsInv, StartedKeepsInv DEF Create
<1>. QED BY <1>1, SavingKeepsInv, ReservingKeepsInv, StartedKeepsInv, WaitingKeepsInv,
            KillingKeepsInv, ChildKeepsInv, ReconcileKeepsInv, RestartKeepsInv,
            StutterKeepsInv DEF Next

(***************************************************************************)
(* Whatever requests, failures and deaths of the service come, whatever    *)
(* directories the requests name, the places of the requests, the records, *)
(* the children and the files agree as Inv says.                           *)
(***************************************************************************)
THEOREM Invariance == Spec => []Inv
<1>1. Init => Inv
  BY InitInv
<1>2. Inv /\ [Next]_vars => Inv'
  BY NextInv
<1>. QED BY <1>1, <1>2, PTL DEF Spec

\* The records, the files and the goroutines keep their types.
THEOREM TypeCorrect == Spec => []TypeOK
<1>1. Inv => TypeOK
  BY DEF Inv
<1>. QED BY <1>1, Invariance, PTL

(***************************************************************************)
(* The memory says "completed" only of a child whose case did not fail,    *)
(* the disk only next to the run.json that does (unless two ids put files  *)
(* into one directory), and neither of a child that is still there,        *)
(* however many services died and saves failed in between.                 *)
(***************************************************************************)
THEOREM EndsAreReal == Spec => []EndIsReal
<1>1. Inv => EndIsReal
  BY DEF Inv, Ended, EndedOf, Truth, Backed, Told, EndIsReal
<1>. QED BY <1>1, Invariance, PTL

(***************************************************************************)
(* No child without a record, whatever directories the requests name: the  *)
(* clerk.json next to a living child is of its id, unless another id put   *)
(* files there too; one id runs in a directory once, over all restarts;    *)
(* and the child a service attends is the one listed under its id.         *)
(***************************************************************************)
THEOREM ChildrenAreOnRecord == Spec => []ChildIsOnRecord
<1>1. ASSUME Inv
      PROVE  ChildIsOnRecord
  <2>1. ASSUME NEW r \in Requests
        PROVE  /\ child[r].at # "unborn" => r \in used[DirOf[r]] /\ disk[DirOf[r]] # NoFile
               /\ Sole(DirOf[r]) /\ DirOf[r] \in Dirs
    BY <1>1, Blank DEF Inv, Fresh, FreshOf, Filed, Apart
  <2>2. ASSUME NEW r \in Requests, child[r].at = "alive"
        PROVE  disk[DirOf[r]].case = CaseOf[r] \/ Contested(DirOf[r])
    <3>1. r \in used[DirOf[r]] /\ Own(DirOf[r], disk[DirOf[r]]) /\ disk[DirOf[r]] # NoFile
      BY <1>1, <2>1, <2>2 DEF Inv, Filed
    <3>2. PICK q \in used[DirOf[r]] : disk[DirOf[r]].case = CaseOf[q]
      BY <3>1 DEF Own
    <3>. QED BY <3>1, <3>2 DEF Contested
  <2>3. ASSUME NEW r \in Requests, NEW q \in Requests \ {r},
               child[r].at # "unborn", child[q].at # "unborn", CaseOf[r] = CaseOf[q]
        PROVE  DirOf[r] # DirOf[q]
    BY <2>1, <2>3 DEF Sole
  <2>4. ASSUME NEW r \in Requests, Attended(r)
        PROVE  held[CaseOf[r]] = r /\ Listed(CaseOf[r])
    BY <1>1, <2>4, Blank DEF Attended, Inv, Posts, Post, Listed
  <2>. QED BY <2>2, <2>3, <2>4 DEF ChildIsOnRecord
<1>. QED BY <1>1, Invariance, PTL
=============================================================================
