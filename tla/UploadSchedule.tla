--------------------------- MODULE UploadSchedule ---------------------------
(***************************************************************************)
(* Which upload runs when: the pull scheduler of pkg/vfs/upload/service.go *)
(* (scheduled, claimed, the deadline heap, Admission), the worker loop     *)
(* (upload.go uploadWorker, worker.go ProcessPending, the outcomes of      *)
(* Engine.Execute), the operations that feed it (Flush, explicit retry,    *)
(* discard, rename, remove) and the life of the VFS around it (Start,      *)
(* Resume, Close, a crash).                                                *)
(*                                                                         *)
(* The bytes of a generation, its staging file and the remote directory    *)
(* are the subject of UploadGeneration; here a record is reduced to what   *)
(* scheduling reads.  Time is the pair Ripen (the record's quiet window    *)
(* and retry deadline have passed) and Due (the deadline of a queued task  *)
(* has passed); a task with no delay is one that is due at once.  The heap *)
(* hands out the earliest due task; the model lets it hand out any.        *)
(***************************************************************************)
EXTENDS Integers, FiniteSets

CONSTANTS
  Paths,        \* virtual paths
  Workers,      \* upload workers (upload_workers)
  MaxVer,       \* how many versions of records may be saved
  MaxFaults,    \* how many journal appends of the workers and of Resume may fail
  MaxCrashes,   \* how many times the process may stop and restart
  Requests,     \* the operations the environment may issue
  None          \* no path

AllRequests == {"write", "flush", "retry", "discard", "rename", "remove", "close"}

ASSUME ScheduleAssumption ==
  /\ MaxVer \in Nat /\ MaxFaults \in Nat /\ MaxCrashes \in Nat
  /\ Requests \subseteq AllRequests /\ None \notin Paths
  /\ IsFiniteSet(Workers)

VARIABLES
  life,      \* VFS.lifecycle
  closed,    \* Service.closed
  rec,       \* PendingStore.pending: path -> record in memory
  disk,      \* path -> the record the journal replays to
  task,      \* Service.scheduled and the heap: path -> state of its task
  claimed,   \* Service.claimed
  active,    \* Admission: activeSmall, activeLarge
  wk,        \* worker -> where it is and the record copy it carries
  flushing,  \* paths between Flush's save and its enqueue
  rty,       \* the explicit retry in progress
  ren,       \* the rename in progress, after the store moved the record
  dropping,  \* paths whose record RemovePending removed, task not yet cancelled
  dismissed, \* paths whose task Discard cancelled, record not yet removed
  resume,    \* path -> the copy Resume listed and has not handled
  wrote,     \* path -> version of the last write to its staging file
  ver,       \* the last version handed out
  faults, crashes

env == <<flushing, rty, ren, dropping, dismissed, resume, wrote>>
vars == <<life, closed, rec, disk, task, claimed, active, wk, env, ver, faults,
          crashes>>

-----------------------------------------------------------------------------
(* Records.  ver = 0 is the absent record.  gen names the staging file by  *)
(* the version that created it; open: written to since the last flush.     *)

NoRec == [ver |-> 0, gen |-> 0, frozen |-> FALSE, fail |-> FALSE,
          started |-> FALSE, open |-> FALSE, ripe |-> FALSE, large |-> FALSE]

Present(r) == r.ver # 0

\* Receive: only a frozen, not permanently failed record may be uploaded
Eligible(r) == Present(r) /\ r.frozen /\ ~r.fail

\* SameUploadRecord: every save stamps UpdatedAt, which is compared
Same(a, b) == Present(a) /\ a.ver = b.ver

\* lifecycleRunning; "starting" until Resume has listed the records
Running == life \in {"starting", "running"}
Locked(p) == p \in flushing \/ p \in dropping \/ p = ren.old

Tick == ver < MaxVer /\ ver' = ver + 1
Faulty == faults < MaxFaults /\ faults' = faults + 1

\* saveUpload: the journal line, then the record in memory
Save(p, r) == rec' = [rec EXCEPT ![p] = r] /\ disk' = [disk EXCEPT ![p] = r]

-----------------------------------------------------------------------------
(* Service.                                                                *)

\* mutant of Schedule: a task of a claimed path goes into the heap
ScheduleHeap(p) ==
  task' = IF closed THEN task ELSE [task EXCEPT ![p] = "waiting"]

\* mutant of Schedule: a closed service still accepts tasks
ScheduleClosed(p) ==
  task' = [task EXCEPT ![p] = IF p \in claimed THEN "parked" ELSE "waiting"]

\* scheduleUpload: the one task of the path is replaced; it stays out of the
\* heap while a worker holds the path
Schedule(p) ==
  task' = IF closed THEN task
          ELSE [task EXCEPT ![p] = IF p \in claimed THEN "parked" ELSE "waiting"]

\* schedulingAllowed, then scheduleUpload: a caller that passed the gate may
\* reach the service after the lifecycle is closing
Gated(p) ==
  \/ life # "new" /\ Schedule(p)
  \/ ~Running /\ UNCHANGED task

\* Domain.Enqueue
Enqueue(p, r) == IF r.fail THEN UNCHANGED task ELSE Gated(p)

\* removeScheduledLocked
Cancel(p) == task' = [task EXCEPT ![p] = "none"]

Goto(w, pc) == wk' = [wk EXCEPT ![w].pc = pc]

\* Receive by an idle worker of a due task
Receive(w, p) ==
  /\ wk[w].pc = "idle" /\ ~closed /\ task[p] = "due"
  /\ \/ ~Eligible(rec[p]) /\ Cancel(p) /\ UNCHANGED <<claimed, wk>>
     \/ /\ Eligible(rec[p]) /\ ~rec[p].ripe
        /\ task' = [task EXCEPT ![p] = "waiting"] /\ UNCHANGED <<claimed, wk>>
     \/ /\ Eligible(rec[p]) /\ rec[p].ripe
        /\ Cancel(p) /\ claimed' = claimed \cup {p}
        /\ wk' = [wk EXCEPT ![w] = [pc |-> "check", path |-> p, rec |-> rec[p]]]
  /\ UNCHANGED <<life, closed, rec, disk, active, env, ver, faults, crashes>>

\* mutant of CompleteReceive: the parked task is left out of the heap
CompleteReceiveOnly(w) ==
  /\ wk[w].pc = "done"
  /\ claimed' = claimed \ {wk[w].path}
  /\ wk' = [wk EXCEPT ![w] = [pc |-> "idle", path |-> None, rec |-> NoRec]]
  /\ UNCHANGED <<life, closed, rec, disk, task, active, env, ver, faults, crashes>>

CompleteReceive(w) ==
  /\ wk[w].pc = "done"
  /\ claimed' = claimed \ {wk[w].path}
  /\ task' = [p \in Paths |-> IF p = wk[w].path /\ task[p] = "parked"
                              THEN "waiting" ELSE task[p]]
  /\ wk' = [wk EXCEPT ![w] = [pc |-> "idle", path |-> None, rec |-> NoRec]]
  /\ UNCHANGED <<life, closed, rec, disk, active, env, ver, faults, crashes>>

\* Receive returns false on a closed service and the worker exits
WorkerExit(w) ==
  /\ wk[w].pc = "idle" /\ closed
  /\ Goto(w, "off")
  /\ UNCHANGED <<life, closed, rec, disk, task, claimed, active, env, ver, faults,
                 crashes>>

-----------------------------------------------------------------------------
(* ProcessPending and the outcomes of Engine.Execute.                      *)

\* the record is re-read; a newer frozen one is queued in its place.  The
\* quiet window cannot reopen for an unchanged record.
CheckLatest(w) ==
  LET p == wk[w].path IN
  /\ wk[w].pc = "check"
  /\ \/ Same(rec[p], wk[w].rec) /\ Goto(w, "admit") /\ UNCHANGED task
     \/ /\ ~Same(rec[p], wk[w].rec) /\ Goto(w, "done")
        /\ IF Present(rec[p]) /\ rec[p].frozen THEN Enqueue(p, rec[p]) ELSE UNCHANGED task
  /\ UNCHANGED <<life, closed, rec, disk, claimed, active, env, ver, faults, crashes>>

\* mutant of Admits: a large upload only waits for another large one
AdmitsBesideSmall(r) ==
  ~active.large /\ (r.large \/ active.small < Cardinality(Workers))

\* Admission.TryAcquire: one large upload alone, or as many small ones as workers
Admits(r) ==
  /\ ~active.large
  /\ active.small < IF r.large THEN 1 ELSE Cardinality(Workers)

Admit(w) ==
  LET r == wk[w].rec IN
  /\ wk[w].pc = "admit"
  /\ \/ /\ Admits(r) /\ Goto(w, "claim")
        /\ active' = IF r.large THEN [active EXCEPT !.large = TRUE]
                     ELSE [active EXCEPT !.small = @ + 1]
        /\ UNCHANGED task
     \/ /\ ~Admits(r) /\ Goto(w, "done")
        /\ Gated(wk[w].path)
        /\ UNCHANGED active
  /\ UNCHANGED <<life, closed, rec, disk, claimed, env, ver, faults, crashes>>

\* the current record is queued again if it is frozen (RequeueIfFrozen)
RequeueLatest(p) == IF rec[p].frozen THEN Enqueue(p, rec[p]) ELSE UNCHANGED task

\* MarkUploadStarted
Claim(w) ==
  LET p == wk[w].path IN
  /\ wk[w].pc = "claim"
  /\ \/ /\ Same(rec[p], wk[w].rec) /\ Goto(w, "exec")
        /\ rec' = [rec EXCEPT ![p].started = TRUE] /\ UNCHANGED task
     \/ /\ ~Same(rec[p], wk[w].rec) /\ Goto(w, "release")
        /\ RequeueLatest(p) /\ UNCHANGED rec
  /\ UNCHANGED <<life, closed, disk, claimed, active, env, ver, faults, crashes>>

\* the upload was committed, and removing its record succeeded
Committed(w) ==
  LET p == wk[w].path IN
  /\ wk[w].pc = "exec" /\ Same(rec[p], wk[w].rec)
  /\ Save(p, NoRec) /\ Goto(w, "release")
  /\ UNCHANGED <<life, closed, task, claimed, active, env, ver, faults, crashes>>

\* the record moved on: roll back, queue the newer one
Superseded(w) ==
  /\ wk[w].pc = "exec" /\ ~Same(rec[wk[w].path], wk[w].rec)
  /\ RequeueLatest(wk[w].path) /\ Goto(w, "release")
  /\ UNCHANGED <<life, closed, rec, disk, claimed, active, env, ver, faults, crashes>>

\* recordFailure of an unchanged record: retry later, or never again
Failed(w) ==
  LET p == wk[w].path IN
  /\ wk[w].pc = "exec" /\ Running /\ Same(rec[p], wk[w].rec) /\ Tick
  /\ \/ Save(p, [rec[p] EXCEPT !.ver = ver', !.ripe = FALSE]) /\ Goto(w, "requeue")
     \/ Save(p, [rec[p] EXCEPT !.ver = ver', !.fail = TRUE]) /\ Goto(w, "release")
  /\ UNCHANGED <<life, closed, task, claimed, active, env, faults, crashes>>

\* a failure that records nothing: the context is cancelled, or the record
\* moved on
FailedSilently(w) ==
  /\ wk[w].pc = "exec" /\ (~Running \/ ~Same(rec[wk[w].path], wk[w].rec))
  /\ Goto(w, "release")
  /\ UNCHANGED <<life, closed, rec, disk, task, claimed, active, env, ver, faults,
                 crashes>>

\* the journal append of the outcome fails: the error is returned, nothing more
SaveFailed(w) ==
  /\ wk[w].pc = "exec" /\ Same(rec[wk[w].path], wk[w].rec) /\ Faulty
  /\ Goto(w, "release")
  /\ UNCHANGED <<life, closed, rec, disk, task, claimed, active, env, ver, crashes>>

\* Requeue(latest) after a recorded failure
Requeue(w) ==
  /\ wk[w].pc = "requeue" /\ Goto(w, "release")
  /\ Gated(wk[w].path)
  /\ UNCHANGED <<life, closed, rec, disk, claimed, active, env, ver, faults, crashes>>

\* Admission.Release, deferred by ProcessPending: by the size of its own copy
Release(w) ==
  /\ wk[w].pc = "release" /\ Goto(w, "done")
  /\ active' = IF wk[w].rec.large THEN [active EXCEPT !.large = FALSE]
               ELSE [active EXCEPT !.small = IF @ > 0 THEN @ - 1 ELSE 0]
  /\ UNCHANGED <<life, closed, rec, disk, task, claimed, env, ver, faults, crashes>>

WorkerStep(w) ==
  \/ CheckLatest(w) \/ Admit(w) \/ Claim(w) \/ Committed(w) \/ Superseded(w)
  \/ Failed(w) \/ FailedSilently(w) \/ SaveFailed(w) \/ Requeue(w) \/ Release(w)
  \/ CompleteReceive(w) \/ WorkerExit(w) \/ \E p \in Paths : Receive(w, p)

-----------------------------------------------------------------------------
(* The operations that save and queue records.  They hold the path lock,   *)
(* except retry, discard and Resume.                                       *)

\* WriteAt or Truncate: an upload that has started keeps its generation, which
\* a write leaves for a new one or, appending, extends in place
Write(p, large) ==
  LET r == rec[p]
      leaves == ~Present(r) \/ (r.frozen /\ (r.started \/ r.fail)) IN
  /\ "write" \in Requests /\ ~Locked(p) /\ Tick
  /\ \/ /\ leaves
        /\ Save(p, [NoRec EXCEPT !.ver = ver', !.gen = ver', !.large = large])
     \/ /\ ~leaves
        /\ rec' = [rec EXCEPT ![p] = [r EXCEPT !.ver = ver', !.frozen = FALSE,
                                               !.ripe = FALSE, !.large = large]]
        /\ UNCHANGED disk
     \/ /\ Present(r) /\ r.frozen /\ r.started
        /\ rec' = [rec EXCEPT ![p] = [r EXCEPT !.ver = ver', !.open = TRUE,
                                               !.ripe = FALSE, !.large = large \/ r.large]]
        /\ UNCHANGED disk
  /\ wrote' = [wrote EXCEPT ![p] = ver']
  /\ UNCHANGED <<life, closed, task, claimed, active, wk, flushing, rty, ren,
                 dropping, dismissed, resume, faults, crashes>>

FlushSave(p) ==
  /\ "flush" \in Requests /\ ~Locked(p) /\ Present(rec[p]) /\ Tick
  /\ Save(p, [rec[p] EXCEPT !.ver = ver', !.frozen = TRUE, !.open = FALSE, !.ripe = FALSE])
  /\ flushing' = flushing \cup {p}
  /\ UNCHANGED <<life, closed, task, claimed, active, wk, rty, ren, dropping, dismissed,
                 resume, wrote, faults, crashes>>

\* enqueueAfter: before Start the upload is left to Resume
FlushEnqueue(p) ==
  /\ p \in flushing /\ flushing' = flushing \ {p}
  /\ Gated(p)
  /\ UNCHANGED <<life, closed, rec, disk, claimed, active, wk, rty, ren, dropping,
                 dismissed, resume, wrote, ver, faults, crashes>>

NoRty == [pc |-> "idle", path |-> None, rec |-> NoRec]

\* RetryByID reads the record, Service.Retry saves its copy, ...
RetryRead(p) ==
  /\ "retry" \in Requests /\ rty.pc = "idle" /\ Present(rec[p])
  /\ rty' = [pc |-> "save", path |-> p, rec |-> rec[p]]
  /\ UNCHANGED <<life, closed, rec, disk, task, claimed, active, wk, flushing, ren,
                 dropping, dismissed, resume, wrote, ver, faults, crashes>>

RetrySave ==
  /\ rty.pc = "save" /\ Tick
  /\ Save(rty.path, [rty.rec EXCEPT !.ver = ver', !.fail = FALSE, !.ripe = TRUE])
  /\ rty' = [rty EXCEPT !.pc = "cancel"]
  /\ UNCHANGED <<life, closed, task, claimed, active, wk, flushing, ren, dropping,
                 dismissed, resume, wrote, faults, crashes>>

\* ... then cancels the queued task, ...
RetryCancel ==
  /\ rty.pc = "cancel" /\ Cancel(rty.path)
  /\ rty' = [rty EXCEPT !.pc = "enqueue"]
  /\ UNCHANGED <<life, closed, rec, disk, claimed, active, wk, flushing, ren, dropping,
                 dismissed, resume, wrote, ver, faults, crashes>>

\* ... and queues it anew; Service.EnqueueAfter has no lifecycle gate
RetryEnqueue ==
  /\ rty.pc = "enqueue" /\ Schedule(rty.path) /\ rty' = NoRty
  /\ UNCHANGED <<life, closed, rec, disk, claimed, active, wk, flushing, ren, dropping,
                 dismissed, resume, wrote, ver, faults, crashes>>

\* Domain.Discard cancels the task, ...
DiscardCancel(p) ==
  /\ "discard" \in Requests /\ Present(rec[p]) /\ p \notin dismissed
  /\ dismissed' = dismissed \cup {p} /\ Cancel(p)
  /\ UNCHANGED <<life, closed, rec, disk, claimed, active, wk, flushing, rty, ren,
                 dropping, resume, wrote, ver, faults, crashes>>

\* ... then removes the record, unless the journal append fails
DiscardRemove(p) ==
  /\ p \in dismissed /\ dismissed' = dismissed \ {p}
  /\ \/ Save(p, NoRec) /\ UNCHANGED faults
     \/ Faulty /\ UNCHANGED <<rec, disk>>
  /\ UNCHANGED <<life, closed, task, claimed, active, wk, flushing, rty, ren, dropping,
                 resume, wrote, ver, crashes>>

\* RemovePending removes the record, ...
RemoveRecord(p) ==
  /\ "remove" \in Requests /\ ~Locked(p) /\ Present(rec[p])
  /\ Save(p, NoRec)
  /\ dropping' = dropping \cup {p}
  /\ UNCHANGED <<life, closed, task, claimed, active, wk, flushing, rty, ren, dismissed,
                 resume, wrote, ver, faults, crashes>>

\* ... then cancels the task
RemoveCancel(p) ==
  /\ p \in dropping /\ dropping' = dropping \ {p} /\ Cancel(p)
  /\ UNCHANGED <<life, closed, rec, disk, claimed, active, wk, flushing, rty, ren,
                 dismissed, resume, wrote, ver, faults, crashes>>

NoRen == [old |-> None, new |-> None, rec |-> NoRec]

\* RenamePending: the store moves the record to a path with none, ...
RenameMove(p, q) ==
  /\ "rename" \in Requests /\ ren = NoRen /\ ~Locked(p)
  /\ p # q /\ Present(rec[p]) /\ ~Present(rec[q])
  /\ rec' = [rec EXCEPT ![q] = rec[p], ![p] = NoRec]
  /\ disk' = [disk EXCEPT ![q] = rec[p], ![p] = NoRec]
  /\ wrote' = [wrote EXCEPT ![q] = wrote[p]]
  /\ ren' = [old |-> p, new |-> q, rec |-> rec[p]]
  /\ UNCHANGED <<life, closed, task, claimed, active, wk, flushing, rty, dropping,
                 dismissed, resume, ver, faults, crashes>>

\* ... the old path's task is cancelled and the new path's queued
RenameQueue ==
  /\ ren # NoRen /\ ren' = NoRen
  /\ \/ /\ life # "new"
        /\ task' = [p \in Paths |->
                      IF p = ren.old THEN "none"
                      ELSE IF p = ren.new /\ Eligible(ren.rec) /\ ~closed
                      THEN IF p \in claimed THEN "parked" ELSE "waiting" ELSE task[p]]
     \/ ~Running /\ UNCHANGED task
  /\ UNCHANGED <<life, closed, rec, disk, claimed, active, wk, flushing, rty, dropping,
                 dismissed, resume, wrote, ver, faults, crashes>>

-----------------------------------------------------------------------------
(* Life of the VFS.                                                        *)

NoResume == [p \in Paths |-> NoRec]
Off == [pc |-> "off", path |-> None, rec |-> NoRec]

\* Start: the lifecycle is running and the workers receive ...
Start ==
  /\ life = "new" /\ life' = "starting"
  /\ wk' = [w \in Workers |-> [Off EXCEPT !.pc = "idle"]]
  /\ UNCHANGED <<closed, rec, disk, task, claimed, active, env, ver, faults, crashes>>

\* ... when Resume lists the records
ResumeList ==
  /\ life = "starting" /\ life' = "running"
  /\ resume' = rec
  /\ UNCHANGED <<closed, rec, disk, task, claimed, active, wk, flushing, rty, ren,
                 dropping, dismissed, wrote, ver, faults, crashes>>

\* what os.Stat of the listed copy's staging file may find
StatResults(p) ==
  {"same"}
  \cup (IF \A q \in Paths : rec[q].gen # resume[p].gen THEN {"gone"} ELSE {})
  \cup (IF rec[p].gen = resume[p].gen /\ wrote[p] > resume[p].ver
        THEN {"grown", "shrunk"} ELSE {})

\* a staging file that is missing or short of a frozen record fails it; another
\* size makes it mutable
Damaged(c, stat) == c.frozen /\ stat \in {"gone", "shrunk"}
Resized(c, stat) == stat = "grown" \/ (stat = "shrunk" /\ ~c.frozen)

\* one iteration of Resume, for the copy listed for p; it saves its copy over
\* whatever the record has become
ResumeRecord(p) ==
  LET c == resume[p] IN
  /\ life \in {"running", "closing"} /\ Present(c)
  /\ resume' = [resume EXCEPT ![p] = NoRec]
  /\ \E stat \in StatResults(p) :
       \/ /\ Damaged(c, stat) /\ Tick
          /\ Save(p, [c EXCEPT !.ver = ver', !.fail = TRUE, !.ripe = FALSE])
          /\ UNCHANGED <<task, faults>>
       \/ /\ Resized(c, stat) /\ Tick
          /\ Save(p, [c EXCEPT !.ver = ver', !.frozen = FALSE, !.ripe = FALSE])
          /\ UNCHANGED <<task, faults>>
       \/ /\ Damaged(c, stat) \/ Resized(c, stat)
          /\ Faulty /\ UNCHANGED <<rec, disk, task, ver>>
       \/ /\ ~Damaged(c, stat) /\ ~Resized(c, stat)
          /\ IF Eligible(c) THEN Enqueue(p, c) ELSE UNCHANGED task
          /\ UNCHANGED <<rec, disk, ver, faults>>
  /\ UNCHANGED <<life, closed, claimed, active, wk, flushing, rty, ren, dropping,
                 dismissed, wrote, crashes>>

\* teardown flips the lifecycle and cancels the context, ...
CloseFlip ==
  /\ "close" \in Requests /\ Running /\ life' = "closing"
  /\ UNCHANGED <<closed, rec, disk, task, claimed, active, wk, env, ver, faults,
                 crashes>>

\* ... then Service.Close drops every task; a claimed path keeps its worker
CloseService ==
  /\ life = "closing" /\ ~closed /\ closed' = TRUE
  /\ task' = [p \in Paths |-> "none"]
  /\ UNCHANGED <<life, rec, disk, claimed, active, wk, env, ver, faults, crashes>>

NoActive == [small |-> 0, large |-> FALSE]

\* the process stops; a new one replays the journal
Crash ==
  /\ crashes < MaxCrashes /\ crashes' = crashes + 1
  /\ life' = "new" /\ closed' = FALSE
  /\ rec' = [p \in Paths |-> [disk[p] EXCEPT !.started = FALSE]]
  /\ disk' = rec'
  /\ task' = [p \in Paths |-> "none"] /\ claimed' = {} /\ active' = NoActive
  /\ wk' = [w \in Workers |-> Off]
  /\ flushing' = {} /\ rty' = NoRty /\ ren' = NoRen /\ dropping' = {}
  /\ dismissed' = {} /\ resume' = NoResume
  /\ UNCHANGED <<wrote, ver, faults>>

\* the quiet window and the retry deadline of a record pass
Ripen(p) ==
  /\ Present(rec[p]) /\ ~rec[p].ripe
  /\ rec' = [rec EXCEPT ![p].ripe = TRUE]
  /\ UNCHANGED <<life, closed, disk, task, claimed, active, wk, env, ver, faults,
                 crashes>>

\* the deadline of a task in the heap passes
Due(p) ==
  /\ task[p] = "waiting" /\ task' = [task EXCEPT ![p] = "due"]
  /\ UNCHANGED <<life, closed, rec, disk, claimed, active, wk, env, ver, faults,
                 crashes>>

-----------------------------------------------------------------------------
Init ==
  /\ life = "new" /\ closed = FALSE
  /\ rec = [p \in Paths |-> NoRec] /\ disk = rec
  /\ task = [p \in Paths |-> "none"] /\ claimed = {} /\ active = NoActive
  /\ wk = [w \in Workers |-> Off]
  /\ flushing = {} /\ rty = NoRty /\ ren = NoRen /\ dropping = {} /\ dismissed = {}
  /\ resume = NoResume /\ wrote = [p \in Paths |-> 0]
  /\ ver = 0 /\ faults = 0 /\ crashes = 0

\* steps of operations already begun
Continue ==
  \/ \E p \in Paths : FlushEnqueue(p) \/ DiscardRemove(p) \/ RemoveCancel(p) \/ ResumeRecord(p)
  \/ RetrySave \/ RetryCancel \/ RetryEnqueue \/ RenameQueue \/ ResumeList \/ CloseService

Begin ==
  \/ \E p \in Paths, large \in BOOLEAN : Write(p, large)
  \/ \E p \in Paths : FlushSave(p) \/ RetryRead(p) \/ DiscardCancel(p) \/ RemoveRecord(p)
  \/ \E p, q \in Paths : RenameMove(p, q)
  \/ Start \/ CloseFlip

Next ==
  \/ \E w \in Workers : WorkerStep(w)
  \/ \E p \in Paths : Ripen(p) \/ Due(p)
  \/ Begin \/ Continue \/ Crash

\* Goroutines are scheduled, remote calls return, time passes: a worker, an
\* operation already begun and a timer that can act eventually does.  Nothing
\* obliges users to act, a fault to happen or the process to stop.
Fairness ==
  /\ \A w \in Workers : WF_vars(WorkerStep(w))
  /\ \A p \in Paths : WF_vars(Ripen(p)) /\ WF_vars(Due(p))
  /\ WF_vars(Continue) /\ WF_vars(Start)

Spec == Init /\ [][Next]_vars
FairSpec == Spec /\ Fairness

-----------------------------------------------------------------------------
(* Properties.                                                             *)

Recs == [ver : 0 .. MaxVer, gen : 0 .. MaxVer, frozen : BOOLEAN, fail : BOOLEAN,
         started : BOOLEAN, open : BOOLEAN, ripe : BOOLEAN, large : BOOLEAN]
Stages == {"off", "idle", "check", "admit", "claim", "exec", "requeue", "release", "done"}
WorkerState == [pc : Stages, path : Paths \cup {None}, rec : Recs]
RetryState == [pc : {"idle", "save", "cancel", "enqueue"}, path : Paths \cup {None}, rec : Recs]
RenameState == [old : Paths \cup {None}, new : Paths \cup {None}, rec : Recs]

\* The state of the scheduler has its shape.
TypeOK ==
  /\ life \in {"new", "starting", "running", "closing"} /\ closed \in BOOLEAN
  /\ rec \in [Paths -> Recs] /\ disk \in [Paths -> Recs]
  /\ task \in [Paths -> {"none", "parked", "waiting", "due"}]
  /\ claimed \subseteq Paths /\ active \in [small : Nat, large : BOOLEAN]
  /\ wk \in [Workers -> WorkerState]
  /\ flushing \subseteq Paths /\ dropping \subseteq Paths /\ dismissed \subseteq Paths
  /\ rty \in RetryState /\ ren \in RenameState
  /\ resume \in [Paths -> Recs] /\ wrote \in [Paths -> 0 .. MaxVer]
  /\ ver \in 0 .. MaxVer /\ faults \in 0 .. MaxFaults /\ crashes \in 0 .. MaxCrashes

Holds(w, p) == wk[w].path = p

\* Two workers never hold the same path, from Receive to CompleteReceive, however
\* often the path is queued again meanwhile; and a task of a held path is never
\* in the heap.
OneWorkerPerPath ==
  /\ \A w, v \in Workers : wk[w].path # None /\ wk[w].path = wk[v].path => w = v
  /\ \A w \in Workers : wk[w].path # None => task[wk[w].path] \in {"none", "parked"}

Admitted == {w \in Workers : wk[w].pc \in {"claim", "exec", "requeue", "release"}}

\* A large upload runs alone, whatever sizes the records take while their copies
\* are being uploaded, and the admission counters are exactly the uploads running,
\* so that nothing is refused for ever on behalf of an upload that has ended.
AdmissionExact ==
  /\ \A w, v \in Admitted : wk[w].rec.large => w = v
  /\ active.large <=> \E w \in Admitted : wk[w].rec.large
  /\ active.small = Cardinality({w \in Admitted : ~wk[w].rec.large})

\* p is in somebody's hands, who will queue it, upload it or remove it
Handled(p) ==
  \/ task[p] \in {"waiting", "due"}
  \/ \E w \in Workers :
       /\ Holds(w, p)
       /\ \/ wk[w].pc \in {"check", "admit", "claim", "exec"} /\ Same(rec[p], wk[w].rec)
          \/ wk[w].pc = "requeue" \/ task[p] = "parked"
  \/ p \in flushing \/ p \in dismissed \/ p = ren.new
  \/ rty.path = p /\ rty.pc \in {"cancel", "enqueue"}
  \/ Present(resume[p])

\* No upload is forgotten: while the VFS runs, a record that is frozen, has not
\* failed for good and was not written to since its flush is queued or in the
\* hands of a worker or operation that will queue, upload or remove it - as long
\* as no journal append failed, after which recordFailure and finalizeUpload leave
\* the record to the next start.
NothingStranded ==
  life = "running" /\ faults = 0 =>
    \A p \in Paths : Eligible(rec[p]) /\ ~rec[p].open => Handled(p)

\* Everything flushed is uploaded: a record that may be uploaded is eventually
\* uploaded, replaced, failed for good or removed, unless the VFS closes.
EventuallyUploaded ==
  \A p \in Paths :
    (Running /\ Eligible(rec[p]) /\ ~rec[p].open)
      ~> (~Running \/ ~Eligible(rec[p]) \/ rec[p].open)

\* After Close no new upload starts: workers only finish what they hold.
ClosedStaysQuiet ==
  [][closed /\ closed' => claimed' \subseteq claimed /\ \A p \in Paths : task'[p] = "none"]_vars
=============================================================================
