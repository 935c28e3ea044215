---------------------------- MODULE EvidenceUploads ----------------------------
(***************************************************************************)
(* Evidence that the sides bring into an arbitration: at once, or begun,   *)
(* written chunk by chunk and committed, perhaps in a later turn.  Bytes   *)
(* pass through a part file and the submitted-evidence directory into a    *)
(* store addressed by their hash; the engine takes the evidence on the     *)
(* record, the runtime in its registry.  A write may fail at any step.     *)
(*                                                                         *)
(* Calls hold the lock of the lawyer API from beginning to end, so one     *)
(* that asks the engine nothing is one step.  One that does reads the      *)
(* case, has the engine compute the next, certifies the action and at last *)
(* stores the case: the timer of the turn does so without the lock, and    *)
(* each may overwrite what the other stored.                               *)
(*                                                                         *)
(* A hash is the content it is taken of; chunks are one byte.  Left out:   *)
(* the files of the case packet, titles, sources and types, the manifest   *)
(* and the events, which repeat the registry and whose failure undoes      *)
(* nothing, and reads, which change only their budget.  A call that is     *)
(* refused changes nothing, unless its step says so; attempts are counted  *)
(* in ArbProceeding.                                                       *)
(***************************************************************************)
EXTENDS Integers, Sequences, FiniteSets

CONSTANTS
  Bytes,
  Contents,    \* what a side may want to submit
  Extensions,  \* of the names of files
  MaxDirect,   \* max_direct_submitted_evidence_bytes
  MaxUpload,   \* max_evidence_upload_bytes
  MaxRecord,   \* max_submitted_evidence_bytes
  PerSide,     \* max_submitted_evidence_per_side
  MaxUploads,  \* bound: uploads begun
  MaxFaults    \* bound: writes that fail

ASSUME EvidenceAssumption ==
  /\ Contents \subseteq Seq(Bytes) \ {<<>>}
  /\ {MaxDirect, MaxUpload, MaxRecord, PerSide, MaxUploads, MaxFaults} \subseteq Nat
  /\ MaxDirect <= MaxRecord /\ MaxUpload <= MaxRecord

VARIABLES
  turn,      \* the turn open on the lawyer API, or 0
  uploads,   \* sessions, in the order of their beginning
  files,     \* names taken in submitted-evidence
  stored,    \* contents in the evidence store
  broken,    \* contents of which a failed copy left a part there
  registry,  \* the runtime's evidence, and its submittedEvidence
  st,        \* rc.state: its turn, submitted_evidence, and whether the case failed
  cert,      \* what replaying rc.certificateActions yields
  call,      \* the call of the engine by a handler, which holds the lock
  timer,     \* that by the timer of the turn, which does not
  met,       \* has a deadline passed under a call?
  faults     \* writes that have failed

evidence == <<uploads, files, stored, broken, registry, faults>>

vars == <<turn, evidence, st, cert, call, timer, met>>

Sides == {"plaintiff", "defendant"}

(* The turns in which the engine and the API take evidence.                *)
EvidenceTurns ==
  << [phase |-> "arguments", role |-> "plaintiff"],
     [phase |-> "arguments", role |-> "defendant"],
     [phase |-> "rebuttals", role |-> "plaintiff"],
     [phase |-> "surrebuttals", role |-> "defendant"] >>

Current == EvidenceTurns[turn]

CountForRole(items, role) == Cardinality({i \in DOMAIN items : items[i].role = role})

RoomLeft == CountForRole(registry, Current.role) < PerSide

-----------------------------------------------------------------------------
(* The engine, and the replay of what it accepted.  A replay that meets an *)
(* action the engine refuses fails for good.                               *)

(* What the engine asks of new evidence.                                   *)
Accepts(items, item) ==
  /\ \A i \in DOMAIN items : items[i].id # item.id
  /\ item.size <= MaxRecord
  /\ CountForRole(items, item.role) + 1 <= PerSide

StepOK(s, a) ==
  /\ ~s.failed
  /\ s.turn = a.turn
  /\ a.kind = "evidence" => Accepts(s.record, a.item)

AfterStep(s, a) ==
  CASE a.kind = "evidence" -> [s EXCEPT !.record = Append(@, a.item)]
    [] a.kind = "file" -> [s EXCEPT !.turn = @ + 1]
    [] a.kind = "fail" -> [s EXCEPT !.failed = TRUE]

NewCase == [turn |-> 1, record |-> <<>>, failed |-> FALSE]

Recorded(c, a) ==
  IF c.replays /\ StepOK(c.state, a)
    THEN [c EXCEPT !.state = AfterStep(@, a)]
    ELSE [replays |-> FALSE, state |-> NewCase]

-----------------------------------------------------------------------------
(* Turns and calls.                                                        *)

Idle == [pc |-> "idle"]

Asking(a) == [pc |-> "asked", act |-> a, seen |-> st]

Ending(kind) == [kind |-> kind, turn |-> turn]

Free == call.pc = "idle"

(* A request that finds the lock free and the deadline ahead.              *)
InTime == turn # 0 /\ Free /\ timer.pc = "idle"

Init ==
  /\ turn = 0
  /\ uploads = <<>>
  /\ files = {} /\ stored = {} /\ broken = {} /\ registry = <<>>
  /\ st = NewCase
  /\ cert = [replays |-> TRUE, state |-> NewCase]
  /\ call = Idle /\ timer = Idle
  /\ met = FALSE
  /\ faults = 0

(* The main loop opens a turn while the case has one with evidence, again  *)
(* the same one if its failure was overwritten.                            *)
MoreTurns == ~st.failed /\ st.turn \in DOMAIN EvidenceTurns

StartTurn ==
  /\ turn = 0 /\ Free /\ timer.pc = "idle"
  /\ MoreTurns
  /\ turn' = st.turn
  /\ UNCHANGED <<evidence, st, cert, call, timer, met>>

EvidenceClosed == turn = 0 /\ Free /\ timer.pc = "idle" /\ ~MoreTurns /\ UNCHANGED vars

(* A filing or a pass.                                                     *)
SubmitDecision ==
  /\ InTime
  /\ StepOK(st, Ending("file"))
  /\ call' = Asking(Ending("file"))
  /\ UNCHANGED <<turn, evidence, st, cert, timer, met>>

(* The last attempt was invalid, or the request found the deadline past.   *)
FailTurn ==
  /\ turn # 0 /\ Free
  /\ StepOK(st, Ending("fail"))
  /\ call' = Asking(Ending("fail"))
  /\ met' = (met \/ timer.pc # "idle")
  /\ UNCHANGED <<turn, evidence, st, cert, timer>>

(* An action the engine has accepted is certified before it is stored,     *)
(* whatever comes of the files.                                            *)
Answered ==
  /\ call.pc = "asked"
  /\ call' = [call EXCEPT !.pc = "certified"]
  /\ cert' = Recorded(cert, call.act)
  /\ UNCHANGED <<turn, evidence, st, timer, met>>

(* The turn is over; uploads stay open.                                    *)
TurnEnds ==
  /\ call.pc = "certified" /\ call.act.kind \in {"file", "fail"}
  /\ st' = AfterStep(call.seen, call.act)
  /\ call' = Idle
  /\ turn' = 0
  /\ UNCHANGED <<evidence, cert, timer, met>>

(* The timer of the turn fails it, without the lock; then the turn is      *)
(* closed, when no call is on its way.  If the engine refuses the failure, *)
(* the run ends.                                                           *)
Expire ==
  /\ turn # 0 /\ timer.pc = "idle"
  /\ StepOK(st, Ending("fail"))
  /\ timer' = Asking(Ending("fail"))
  /\ met' = (met \/ ~Free)
  /\ UNCHANGED <<turn, evidence, st, cert, call>>

ExpiryAnswered ==
  /\ timer.pc = "asked"
  /\ timer' = [timer EXCEPT !.pc = "certified"]
  /\ cert' = Recorded(cert, timer.act)
  /\ UNCHANGED <<turn, evidence, st, call, met>>

ExpiryStored ==
  /\ timer.pc = "certified"
  /\ timer' = [pc |-> "stored"]
  /\ st' = AfterStep(timer.seen, timer.act)
  /\ UNCHANGED <<turn, evidence, cert, call, met>>

Expired ==
  /\ timer.pc = "stored" /\ Free
  /\ timer' = Idle
  /\ turn' = 0
  /\ UNCHANGED <<evidence, st, cert, call, met>>

Timer == Expire \/ ExpiryAnswered \/ ExpiryStored \/ Expired

-----------------------------------------------------------------------------
(* Upload sessions.  The hash of what the side means to send is announced  *)
(* now, or with the commit, or never.                                      *)

BeginUpload(content, announced) ==
  /\ InTime
  /\ Len(uploads) < MaxUploads
  /\ Len(content) <= MaxUpload
  /\ RoomLeft
  /\ uploads' = Append(uploads,
       [role |-> Current.role, phase |-> Current.phase, wanted |-> content,
        announced |-> announced, received |-> 0, part |-> <<>>, admitted |-> 0])
  /\ UNCHANGED <<turn, files, stored, broken, registry, faults, st, cert, call, timer, met>>

(* The sessions the current side can name: an id is random, and told only  *)
(* to the side that began the upload.  Phase and turn do not matter.       *)
OpenUploads ==
  {u \in DOMAIN uploads : uploads[u].admitted = 0 /\ uploads[u].role = Current.role}

ChunkFits(u) == uploads[u].received < Len(uploads[u].wanted)

WriteChunk(u, byte) ==
  /\ ChunkFits(u)
  /\ uploads' = [uploads EXCEPT ![u].part = Append(@, byte), ![u].received = @ + 1]
  /\ UNCHANGED <<turn, files, stored, broken, registry, faults, st, cert, call, timer, met>>

(* The byte is on disk when the write or the close reports an error; the   *)
(* side is told the call failed.                                           *)
ChunkTorn(u, byte) ==
  /\ ChunkFits(u)
  /\ faults < MaxFaults
  /\ uploads' = [uploads EXCEPT ![u].part = Append(@, byte)]
  /\ faults' = faults + 1
  /\ UNCHANGED <<turn, files, stored, broken, registry, st, cert, call, timer, met>>

-----------------------------------------------------------------------------
(* Admission.  The name of the file carries the number of the submission,  *)
(* the side, the hash and an extension the side may choose; the evidence   *)
(* id is made from the hash and the name without the extension.            *)

Id(role, bytes) == [number |-> Len(registry) + 1, role |-> role, bytes |-> bytes]

(* The engine is told the side and phase of the turn and the size that was *)
(* announced; begun, extension and upload are for the runtime.             *)
Submission(bytes, size, begun, extension, upload) ==
  [kind |-> "evidence", turn |-> turn,
   item |-> [id |-> Id(Current.role, bytes), role |-> Current.role,
             phase |-> Current.phase, size |-> size],
   begun |-> begun, extension |-> extension, upload |-> upload]

SubmitEvidence(content, extension) ==
  LET a == Submission(content, Len(content), Current.phase, extension, 0) IN
    /\ InTime
    /\ Len(content) <= MaxDirect /\ Len(content) <= MaxRecord
    /\ RoomLeft
    /\ StepOK(st, a)
    /\ call' = Asking(a)
    /\ UNCHANGED <<turn, evidence, st, cert, timer, met>>

(* The hash a commit announces stays with the session even if it fails.    *)
Announcing(u, announce) ==
  [uploads[u] EXCEPT !.announced = @ \/ announce]

Commission(u, upload, extension) ==
  Submission(upload.part, upload.received, upload.phase, extension, u)

(* May the upload, as the commit call leaves its session, be admitted?     *)
CommitOK(u, upload) ==
  /\ upload.received = Len(upload.wanted)
  /\ upload.part # <<>>
  /\ upload.announced => upload.part = upload.wanted
  /\ \A extension \in Extensions : StepOK(st, Commission(u, upload, extension))

CommitUpload(u, announce, extension) ==
  LET upload == Announcing(u, announce) IN
    /\ CommitOK(u, upload)
    /\ uploads' = [uploads EXCEPT ![u] = upload]
    /\ call' = Asking(Commission(u, upload, extension))
    /\ UNCHANGED <<turn, files, stored, broken, registry, faults, st, cert, timer, met>>

CommitRefused(u, announce) ==
  /\ ~CommitOK(u, Announcing(u, announce))
  /\ uploads' = [uploads EXCEPT ![u] = Announcing(u, announce)]
  /\ UNCHANGED <<turn, files, stored, broken, registry, faults, st, cert, call, timer, met>>

(* Deviation: a file found in the store is taken for the evidence.         *)
AnyCopyInStore(bytes) == bytes \in stored \cup broken

AlreadyInStore(bytes) == bytes \in stored

File(id, extension) == [id |-> id, extension |-> extension]

(* How the files of accepted evidence can end: its name is taken, the file *)
(* is not brought there, it is there but not registered, the copy to the   *)
(* store is cut short, or all is done.  A copy cut short stays where it is *)
(* and no later copy replaces it.                                          *)
Endings(file, bytes) ==
  IF file \in files THEN {"taken"}
  ELSE {"unwritten", "unregistered"} \cup
       (IF AlreadyInStore(bytes) THEN {"admitted"}
        ELSE IF bytes \in broken THEN {}
        ELSE {"torn", "admitted"})

(* A file that was brought to its name stays there.                        *)
Brought(ending) == ending \in {"unregistered", "torn", "admitted"}

NeedsFault(ending, bytes) ==
  \/ ending \in {"unwritten", "torn"}
  \/ ending = "unregistered" /\ bytes \notin broken

(* The engine's new state is kept only when the file is registered.        *)
Finalize(a, file, ending) ==
  LET bytes == a.item.id.bytes IN
    /\ files' = IF Brought(ending) THEN files \cup {file} ELSE files
    /\ broken' = IF ending = "torn" THEN broken \cup {bytes} ELSE broken
    /\ faults' = IF NeedsFault(ending, bytes) THEN faults + 1 ELSE faults
    /\ faults' <= MaxFaults
    /\ IF ending = "admitted"
         THEN /\ stored' = stored \cup {bytes}
              /\ st' = AfterStep(call.seen, a)
              /\ registry' = Append(registry,
                   [a.item EXCEPT !.phase = a.begun, !.size = Len(bytes)])
         ELSE UNCHANGED <<stored, st, registry>>

Left(upload, ending) ==
  [upload EXCEPT !.part = IF Brought(ending) THEN <<>> ELSE @,
                 !.admitted = IF ending = "admitted" THEN Len(registry) + 1 ELSE 0]

Admit(ending) ==
  LET a == call.act
      file == File(a.item.id, a.extension) IN
    /\ ending \in Endings(file, a.item.id.bytes)
    /\ Finalize(a, file, ending)
    /\ uploads' = IF a.upload = 0 THEN uploads
                  ELSE [uploads EXCEPT ![a.upload] = Left(@, ending)]
    /\ call' = Idle
    /\ UNCHANGED <<turn, cert, timer, met>>

AllEndings == {"taken", "unwritten", "unregistered", "torn", "admitted"}

Next ==
  \/ StartTurn
  \/ EvidenceClosed
  \/ SubmitDecision
  \/ FailTurn
  \/ Answered
  \/ TurnEnds
  \/ Timer
  \/ \E content \in Contents, announced \in BOOLEAN : BeginUpload(content, announced)
  \/ /\ InTime
     /\ \E u \in OpenUploads :
          \/ \E byte \in Bytes : WriteChunk(u, byte) \/ ChunkTorn(u, byte)
          \/ \E announce \in BOOLEAN :
               \/ \E extension \in Extensions : CommitUpload(u, announce, extension)
               \/ CommitRefused(u, announce)
  \/ \E content \in Contents, extension \in Extensions : SubmitEvidence(content, extension)
  \/ /\ call.pc = "certified" /\ call.act.kind = "evidence"
     /\ \E ending \in AllEndings : Admit(ending)

Spec == Init /\ [][Next]_vars

-----------------------------------------------------------------------------
(* Properties.                                                             *)

(* What is on the record is registered, in the same order, each once and   *)
(* from the same side; the registry tells when it was begun, which is not  *)
(* after it was admitted.                                                  *)
Matches(record) ==
  /\ Len(record) <= Len(registry)
  /\ \A i \in DOMAIN record :
       /\ record[i].id = registry[i].id /\ record[i].role = registry[i].role
       /\ record[i].phase = "arguments" => registry[i].phase = "arguments"
       /\ \A j \in DOMAIN record : record[i].id = record[j].id => i = j

(* And what is registered is on the record, unless the deadline of a turn  *)
(* passed under a call and so the case has failed: then the failure was    *)
(* stored over what the engine had accepted since.                         *)
RecordIsRegistered ==
  /\ Matches(st.record)
  /\ Len(st.record) = Len(registry) \/ (st.failed /\ met)

(* No side has more evidence than it may, however many uploads it began    *)
(* while it had room.                                                      *)
SidesWithinLimit == \A role \in Sides : CountForRole(registry, role) <= PerSide

(* Whoever reads evidence gets its bytes: what the registry says is there, *)
(* whole, whichever copies were cut short before.                          *)
EvidenceIsReadable ==
  \A i \in DOMAIN registry :
    /\ registry[i].id.bytes \in stored \ broken
    /\ registry[i].size = Len(registry[i].id.bytes)

(* An upload whose hash was announced is admitted as what was announced,   *)
(* and the record tells its size.  A chunk retried after a torn write is   *)
(* in the file twice; without a hash the record's size is then wrong.      *)
SizesTold(record) ==
  \A u \in DOMAIN uploads :
    uploads[u].announced /\ uploads[u].admitted \in DOMAIN record =>
      record[uploads[u].admitted].size = registry[uploads[u].admitted].size

AnnouncedIsAdmitted ==
  /\ \A u \in DOMAIN uploads :
       uploads[u].admitted # 0 /\ uploads[u].announced =>
         registry[uploads[u].admitted].id.bytes = uploads[u].wanted
  /\ SizesTold(st.record)

(* A replay of the certificate ends at the case, as long as no write has   *)
(* failed and no deadline passed under a call.  After either it may not:   *)
(* what the engine accepted stays certified.                               *)
CertificateReplays ==
  faults = 0 /\ ~met /\ Free /\ timer.pc # "certified" =>
    cert = [replays |-> TRUE, state |-> st]

(* The custody of arb/docs/evidence-handling.md: what a side reads on the  *)
(* record was registered, is stored, and is what was announced, whatever   *)
(* failed on the way and was tried again, and whenever deadlines pass.     *)
CustodyKept ==
  /\ RecordIsRegistered
  /\ SidesWithinLimit
  /\ EvidenceIsReadable
  /\ AnnouncedIsAdmitted
  /\ CertificateReplays

-----------------------------------------------------------------------------
(* The inductive invariant.                                                *)

Phases == {EvidenceTurns[t].phase : t \in DOMAIN EvidenceTurns}

EvidenceId == [number : Nat, role : Sides, bytes : Seq(Bytes)]

Upload ==
  [role : Sides, phase : Phases, wanted : Seq(Bytes), announced : BOOLEAN,
   received : Nat, part : Seq(Bytes), admitted : Nat]

Item == [id : EvidenceId, role : Sides, phase : Phases, size : Nat]

CaseState == [turn : 1..5, record : Seq(Item), failed : BOOLEAN]

EndingAct == [kind : {"file", "fail"}, turn : 1..4]

EvidenceAct ==
  [kind : {"evidence"}, turn : 1..4, item : Item, begun : Phases, extension : Extensions,
   upload : Nat]

Asked(acts) == [pc : {"asked", "certified"}, act : acts, seen : CaseState]

TypeOK ==
  /\ turn \in 0..4
  /\ uploads \in Seq(Upload)
  /\ files \subseteq [id : EvidenceId, extension : Extensions]
  /\ stored \subseteq Seq(Bytes) /\ broken \subseteq Seq(Bytes)
  /\ registry \in Seq(Item)
  /\ st \in CaseState
  /\ cert \in [replays : BOOLEAN, state : CaseState]
  /\ call \in {Idle} \cup Asked(EndingAct) \cup Asked(EvidenceAct)
  /\ timer \in {Idle, [pc |-> "stored"]} \cup Asked(EndingAct)
  /\ met \in BOOLEAN
  /\ faults \in Nat

(* Evidence is numbered in the order of its admission.                     *)
Numbered == \A i \in DOMAIN registry : registry[i].id.number = i

AdmittedOnRecord == \A u \in DOMAIN uploads : uploads[u].admitted <= Len(registry)

StoreIsWhole == stored \cap broken = {}

(* Until a write fails, every file is that of admitted evidence.           *)
NoneLeftOver ==
  faults = 0 => broken = {} /\ \A file \in files : file.id.number <= Len(registry)

(* What is admitted in the first phase was begun in it.                    *)
BegunInTime ==
  turn \in {1, 2} \/ (~st.failed /\ st.turn <= 2) =>
    \A u \in DOMAIN uploads : uploads[u].phase = "arguments"

(* An open turn is the one of the case, until its timer has failed it.     *)
TurnIsCurrent == turn # 0 /\ ~st.failed => st.turn = turn

(* The case as someone has read it who will store it again, changed.       *)
Backed(record) == Matches(record) /\ SizesTold(record)

(* Evidence on its way carries the next number, and is what was announced. *)
SubmissionIsSound(a) ==
  LET item == a.item IN
    /\ item.role = Current.role /\ item.id = Id(item.role, item.id.bytes)
    /\ item.phase = "arguments" => a.begun = "arguments"
    /\ a.upload # 0 =>
         /\ a.upload \in DOMAIN uploads /\ uploads[a.upload].admitted = 0
         /\ uploads[a.upload].announced =>
              /\ item.id.bytes = uploads[a.upload].wanted
              /\ item.size = Len(item.id.bytes)

(* A handler's call is about the open turn, and no other evidence comes in *)
(* before it is over.                                                      *)
CallIsSound ==
  ~Free =>
    /\ call.act.turn = turn /\ StepOK(call.seen, call.act)
    /\ Backed(call.seen.record) /\ Len(call.seen.record) = Len(registry)
    /\ call.act.kind = "evidence" => SubmissionIsSound(call.act)

(* The timer's failure was computed of a case that had not failed.         *)
TimerIsSound ==
  timer.pc \in {"asked", "certified"} =>
    /\ timer.act.kind = "fail" /\ StepOK(timer.seen, timer.act)
    /\ Backed(timer.seen.record)

(* As long as no deadline passes under a call, whoever stores the case     *)
(* stores the one that he has read, changed.                               *)
OneAtATime ==
  ~met =>
    /\ Free \/ timer.pc = "idle"
    /\ ~Free => call.seen = st
    /\ timer.pc \in {"asked", "certified"} => timer.seen = st
    /\ timer.pc = "stored" => st.failed

(* The certificate runs ahead of the case by an action not stored yet.     *)
Expected ==
  IF call.pc = "certified" THEN AfterStep(st, call.act)
  ELSE IF timer.pc = "certified" THEN AfterStep(st, timer.act)
  ELSE st

CertIsCurrent ==
  faults = 0 /\ ~met => cert = [replays |-> TRUE, state |-> Expected]

Inv ==
  /\ TypeOK
  /\ Numbered /\ AdmittedOnRecord /\ StoreIsWhole /\ NoneLeftOver
  /\ BegunInTime /\ TurnIsCurrent
  /\ CallIsSound /\ TimerIsSound /\ OneAtATime /\ CertIsCurrent
  /\ RecordIsRegistered /\ SidesWithinLimit /\ EvidenceIsReadable /\ AnnouncedIsAdmitted
==============================================================================
