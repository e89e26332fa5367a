------------------------ MODULE UploadScheduleProofs ------------------------
(***************************************************************************)
(* Proofs about UploadSchedule, for every set of paths and workers: the    *)
(* state keeps its type; no two workers hold a path; nothing is claimed or *)
(* queued after Close; the admission counters are exact; no upload is      *)
(* forgotten.                                                              *)
(***************************************************************************)
EXTENDS UploadSchedule, FiniteSetTheorems, TLAPS

-----------------------------------------------------------------------------
(* Types.                                                                  *)

Counters == [small : Nat, large : BOOLEAN]

LEMMA RecFields ==
  ASSUME NEW r \in Recs
  PROVE  /\ r.ver \in 0 .. MaxVer /\ r.gen \in 0 .. MaxVer
         /\ r.frozen \in BOOLEAN /\ r.fail \in BOOLEAN /\ r.started \in BOOLEAN
         /\ r.open \in BOOLEAN /\ r.ripe \in BOOLEAN /\ r.large \in BOOLEAN
BY DEF Recs

LEMMA NoRecType == NoRec \in Recs /\ ~Present(NoRec)
BY ScheduleAssumption DEF NoRec, Recs, Present

\* Every update of a record the code makes yields a record.
LEMMA RecUpdates ==
  ASSUME NEW r \in Recs, NEW v \in 0 .. MaxVer, NEW large \in BOOLEAN
  PROVE  /\ [r EXCEPT !.started = TRUE] \in Recs
         /\ [r EXCEPT !.started = FALSE] \in Recs
         /\ [r EXCEPT !.ripe = TRUE] \in Recs
         /\ [r EXCEPT !.ver = v, !.ripe = FALSE] \in Recs
         /\ [r EXCEPT !.ver = v, !.fail = TRUE] \in Recs
         /\ [r EXCEPT !.ver = v, !.gen = v, !.large = large] \in Recs
         /\ [r EXCEPT !.ver = v, !.frozen = FALSE, !.ripe = FALSE, !.large = large] \in Recs
         /\ [r EXCEPT !.ver = v, !.open = TRUE, !.ripe = FALSE, !.large = large] \in Recs
         /\ [r EXCEPT !.ver = v, !.frozen = TRUE, !.open = FALSE, !.ripe = FALSE] \in Recs
         /\ [r EXCEPT !.ver = v, !.fail = FALSE, !.ripe = TRUE] \in Recs
         /\ [r EXCEPT !.ver = v, !.fail = TRUE, !.ripe = FALSE] \in Recs
         /\ [r EXCEPT !.ver = v, !.frozen = FALSE, !.ripe = FALSE] \in Recs
BY ZenonT(60) DEF Recs

LEMMA StateFields ==
  /\ \A s \in WorkerState : s.pc \in Stages /\ s.path \in Paths \cup {None} /\ s.rec \in Recs
  /\ \A s \in RetryState : s.path \in Paths \cup {None} /\ s.rec \in Recs
  /\ \A s \in RenameState : /\ s.old \in Paths \cup {None} /\ s.new \in Paths \cup {None}
                            /\ s.rec \in Recs
BY DEF WorkerState, RetryState, RenameState

LEMMA IdleTypes ==
  /\ Off \in WorkerState /\ [Off EXCEPT !.pc = "idle"] \in WorkerState
  /\ NoRty \in RetryState /\ NoRen \in RenameState /\ NoResume \in [Paths -> Recs]
  /\ NoActive \in Counters
BY NoRecType DEF Off, WorkerState, Stages, NoRty, RetryState, NoRen, RenameState, NoResume, NoActive, Counters

\* What a change of a worker's stage leaves alone.
LEMMA GotoMoves ==
  ASSUME NEW w \in Workers, NEW pc \in Stages, wk \in [Workers -> WorkerState], Goto(w, pc)
  PROVE  /\ wk' \in [Workers -> WorkerState]
         /\ wk'[w].pc = pc /\ wk'[w].path = wk[w].path /\ wk'[w].rec = wk[w].rec
         /\ \A v \in Workers : v # w => wk'[v] = wk[v]
<1>1. wk[w] \in WorkerState /\ wk' = [wk EXCEPT ![w] = [wk[w] EXCEPT !.pc = pc]]
  BY DEF Goto
<1>2. /\ [wk[w] EXCEPT !.pc = pc] \in WorkerState
      /\ [wk[w] EXCEPT !.pc = pc].pc = pc
      /\ [wk[w] EXCEPT !.pc = pc].path = wk[w].path
      /\ [wk[w] EXCEPT !.pc = pc].rec = wk[w].rec
  BY <1>1 DEF WorkerState
<1> QED
  BY <1>1, <1>2

TaskType == [Paths -> {"none", "parked", "waiting", "due"}]

\* What the service's own operations make of the tasks.
LEMMA TaskTypes ==
  ASSUME NEW p, NEW r, task \in TaskType
  PROVE  /\ Cancel(p) => task' \in TaskType
         /\ Schedule(p) => task' \in TaskType
         /\ Gated(p) => task' \in TaskType
         /\ Enqueue(p, r) => task' \in TaskType
         /\ RequeueLatest(p) => task' \in TaskType
BY DEF TaskType, Cancel, Schedule, Gated, Enqueue, RequeueLatest

LEMMA SaveTypes ==
  ASSUME NEW p, NEW r, p \in Paths => r \in Recs, Save(p, r),
         rec \in [Paths -> Recs], disk \in [Paths -> Recs]
  PROVE  rec' \in [Paths -> Recs] /\ disk' \in [Paths -> Recs]
<1>1. CASE p \in Paths
  BY <1>1 DEF Save
<1>2. CASE p \notin Paths
  BY ZenonT(60), <1>2 DEF Save
<1> QED
  BY <1>1, <1>2

LEMMA CounterUpdates ==
  ASSUME NEW a \in Counters
  PROVE  /\ a.small \in Nat /\ a.large \in BOOLEAN
         /\ [a EXCEPT !.large = TRUE] \in Counters /\ [a EXCEPT !.large = FALSE] \in Counters
         /\ [a EXCEPT !.small = @ + 1] \in Counters
         /\ [a EXCEPT !.small = IF @ > 0 THEN @ - 1 ELSE 0] \in Counters
<1>1. a.small \in Nat /\ a.large \in BOOLEAN
  BY DEF Counters
<1>2. a.small + 1 \in Nat /\ (IF a.small > 0 THEN a.small - 1 ELSE 0) \in Nat
  BY <1>1
<1>3. \A n \in Nat : [a EXCEPT !.small = n] \in Counters
  BY ZenonT(60), Zenon DEF Counters
<1>4. [a EXCEPT !.large = TRUE] \in Counters /\ [a EXCEPT !.large = FALSE] \in Counters
  BY ZenonT(60), Zenon DEF Counters
<1> QED
  BY <1>1, <1>2, <1>3, <1>4

LEMMA TypeInit == Init => TypeOK
<1> SUFFICES ASSUME Init PROVE TypeOK
  OBVIOUS
<1>1. rec \in [Paths -> Recs] /\ disk \in [Paths -> Recs]
  BY NoRecType DEF Init
<1>2. wk \in [Workers -> WorkerState] /\ rty \in RetryState /\ ren \in RenameState
      /\ resume \in [Paths -> Recs] /\ active \in Counters
  BY IdleTypes DEF Init, Counters
<1>3. ver \in 0 .. MaxVer /\ faults \in 0 .. MaxFaults /\ crashes \in 0 .. MaxCrashes
      /\ wrote \in [Paths -> 0 .. MaxVer]
  BY ScheduleAssumption DEF Init
<1> QED
  BY ZenonT(60), Zenon, <1>1, <1>2, <1>3 DEF Init, TypeOK, Counters

LEMMA TickType == TypeOK /\ Tick => ver' \in 0 .. MaxVer
BY ScheduleAssumption DEF TypeOK, Tick

LEMMA FaultyType == TypeOK /\ Faulty => faults' \in 0 .. MaxFaults
BY ScheduleAssumption DEF TypeOK, Faulty

LEMMA TypeWorker == ASSUME TypeOK, NEW w \in Workers, WorkerStep(w) PROVE TypeOK'
<1> DEFINE p == wk[w].path
<1>0. /\ task \in TaskType /\ wk \in [Workers -> WorkerState]
      /\ rec \in [Paths -> Recs] /\ disk \in [Paths -> Recs]
      /\ active \in Counters /\ wk[w] \in WorkerState
      /\ \A st \in Stages : Goto(w, st) => wk' \in [Workers -> WorkerState]
      /\ \A q \in Paths : rec[q] \in Recs
  BY GotoMoves DEF TypeOK, TaskType, Counters
<1> USE <1>0 DEF Stages
\* the steps that change the worker and the tasks only
<1>a. ASSUME wk' \in [Workers -> WorkerState], task' \in TaskType,
             rec' \in [Paths -> Recs], disk' \in [Paths -> Recs],
             active' \in Counters, claimed' \subseteq Paths,
             ver' \in 0 .. MaxVer, faults' \in 0 .. MaxFaults,
             UNCHANGED <<life, closed, env, crashes>>
      PROVE  TypeOK'
  BY <1>a DEF TypeOK, env, TaskType, Counters
<1>b. claimed \subseteq Paths /\ ver \in 0 .. MaxVer /\ faults \in 0 .. MaxFaults
  BY DEF TypeOK
<1> USE <1>b
<1>1. CASE CheckLatest(w)
  BY <1>a, <1>1, TaskTypes DEF CheckLatest
<1>2. CASE Admit(w)
  <2>1. active' \in Counters
    BY ZenonT(60), <1>2, CounterUpdates DEF Admit
  <2> QED
    BY <1>a, <1>2, <2>1, TaskTypes DEF Admit
<1>3. CASE Claim(w)
  <2>1. rec' \in [Paths -> Recs]
    <3>1. rec' = rec \/ rec' = [rec EXCEPT ![p] = [rec[p] EXCEPT !.started = TRUE]]
      BY <1>3 DEF Claim
    <3>2. CASE p \in Paths
      <4>1. [rec[p] EXCEPT !.started = TRUE] \in Recs
        BY ZenonT(60), <3>2, RecUpdates
      <4> QED
        BY <3>1, <3>2, <4>1
    <3>3. CASE p \notin Paths
      BY <3>1, <3>3
    <3> QED
      BY <3>2, <3>3
  <2> QED
    BY <1>a, <1>3, <2>1, TaskTypes DEF Claim
<1>4. CASE Committed(w)
  BY <1>a, <1>4, SaveTypes, NoRecType DEF Committed
<1>5. CASE Superseded(w)
  BY <1>a, <1>5, TaskTypes DEF Superseded
<1>6. CASE Failed(w)
  <2>1. ver' \in 0 .. MaxVer
    BY SMTT(60), <1>6, TickType DEF Failed
  <2>2. p \in Paths => /\ [rec[p] EXCEPT !.ver = ver', !.ripe = FALSE] \in Recs
                       /\ [rec[p] EXCEPT !.ver = ver', !.fail = TRUE] \in Recs
    BY ZenonT(60), <2>1, RecUpdates
  <2>3. rec' \in [Paths -> Recs] /\ disk' \in [Paths -> Recs]
    BY <1>6, <2>2, SaveTypes DEF Failed
  <2> QED
    BY <1>a, <1>6, <2>1, <2>3 DEF Failed
<1>7. CASE FailedSilently(w)
  BY <1>a, <1>7 DEF FailedSilently
<1>8. CASE SaveFailed(w)
  BY <1>a, <1>8, FaultyType DEF SaveFailed
<1>9. CASE Requeue(w)
  BY <1>a, <1>9, TaskTypes DEF Requeue
<1>10. CASE Release(w)
  <2>1. active' \in Counters
    BY ZenonT(60), <1>10, CounterUpdates DEF Release
  <2> QED
    BY <1>a, <1>10, <2>1 DEF Release
<1>11. CASE CompleteReceive(w)
  <2>1. task' \in TaskType
    BY <1>11 DEF CompleteReceive, TaskType
  <2>2. wk' \in [Workers -> WorkerState]
    BY <1>11, NoRecType DEF CompleteReceive, WorkerState
  <2> QED
    BY <1>a, <1>11, <2>1, <2>2 DEF CompleteReceive
<1>12. CASE WorkerExit(w)
  BY <1>a, <1>12 DEF WorkerExit
<1>13. ASSUME NEW q \in Paths, Receive(w, q) PROVE TypeOK'
  <2>1. task' \in TaskType
    BY ZenonT(60), <1>13, TaskTypes DEF Receive, TaskType
  <2>2. wk' \in [Workers -> WorkerState]
    BY <1>13 DEF Receive, WorkerState
  <2>3. claimed' \subseteq Paths
    BY <1>13 DEF Receive
  <2> QED
    BY ZenonT(60), <1>a, <1>13, <2>1, <2>2, <2>3 DEF Receive
<1> QED
  BY ZenonT(60), <1>1, <1>2, <1>3, <1>4, <1>5, <1>6, <1>7, <1>8, <1>9, <1>10, <1>11, <1>12, <1>13
     DEF WorkerStep

\* The operations that begin, go on or are begun by the life of the VFS.
LEMMA TypeUser == ASSUME TypeOK, Begin \/ Continue PROVE TypeOK'
<1>0. /\ task \in TaskType /\ rec \in [Paths -> Recs] /\ disk \in [Paths -> Recs]
      /\ resume \in [Paths -> Recs] /\ rty \in RetryState /\ ren \in RenameState
      /\ wrote \in [Paths -> 0 .. MaxVer] /\ wk \in [Workers -> WorkerState]
      /\ flushing \subseteq Paths /\ dropping \subseteq Paths /\ dismissed \subseteq Paths
      /\ life \in {"new", "starting", "running", "closing"} /\ closed \in BOOLEAN
      /\ ver \in 0 .. MaxVer /\ faults \in 0 .. MaxFaults
      /\ \A q \in Paths : rec[q] \in Recs /\ resume[q] \in Recs
  BY DEF TypeOK, TaskType
<1> USE <1>0
<1>a. ASSUME life' \in {"new", "starting", "running", "closing"}, closed' \in BOOLEAN,
             rec' \in [Paths -> Recs], disk' \in [Paths -> Recs], task' \in TaskType,
             wk' \in [Workers -> WorkerState],
             flushing' \subseteq Paths, dropping' \subseteq Paths, dismissed' \subseteq Paths,
             rty' \in RetryState, ren' \in RenameState, resume' \in [Paths -> Recs],
             wrote' \in [Paths -> 0 .. MaxVer], ver' \in 0 .. MaxVer,
             faults' \in 0 .. MaxFaults, UNCHANGED <<claimed, active, crashes>>
      PROVE  TypeOK'
  BY <1>a DEF TypeOK, TaskType
<1>1. ASSUME NEW p \in Paths, NEW large \in BOOLEAN, Write(p, large) PROVE TypeOK'
  <2>1. ver' \in 0 .. MaxVer
    BY <1>1, TickType DEF Write
  <2>2. rec[p] \in Recs /\ rec[p].large \in BOOLEAN
    BY SMTT(60), RecFields
  <2>3. /\ [NoRec EXCEPT !.ver = ver', !.gen = ver', !.large = large] \in Recs
        /\ [rec[p] EXCEPT !.ver = ver', !.frozen = FALSE, !.ripe = FALSE, !.large = large] \in Recs
        /\ [rec[p] EXCEPT !.ver = ver', !.open = TRUE, !.ripe = FALSE,
                         !.large = large \/ rec[p].large] \in Recs
    BY ZenonT(60), <2>1, <2>2, RecUpdates, NoRecType
  <2>4. rec' \in [Paths -> Recs] /\ disk' \in [Paths -> Recs]
    BY <1>1, <2>3, SaveTypes DEF Write
  <2>5. wrote' \in [Paths -> 0 .. MaxVer]
    BY <1>1, <2>1 DEF Write
  <2> QED
    BY <1>1, <1>a, <2>1, <2>4, <2>5 DEF Write
<1>2. ASSUME NEW p \in Paths, FlushSave(p) PROVE TypeOK'
  <2>1. ver' \in 0 .. MaxVer
    BY SMTT(60), <1>2, TickType DEF FlushSave
  <2>2. rec' \in [Paths -> Recs] /\ disk' \in [Paths -> Recs]
    BY ZenonT(60), <1>2, <2>1, SaveTypes, RecUpdates DEF FlushSave
  <2> QED
    BY <1>2, <1>a, <2>1, <2>2 DEF FlushSave
<1>3. ASSUME NEW p \in Paths, FlushEnqueue(p) PROVE TypeOK'
  BY <1>3, <1>a, TaskTypes DEF FlushEnqueue
<1>4. ASSUME NEW p \in Paths, RetryRead(p) PROVE TypeOK'
  <2>1. rty' \in RetryState
    BY <1>4 DEF RetryRead, RetryState
  <2> QED
    BY <1>4, <1>a, <2>1 DEF RetryRead
<1>5. ASSUME rty' = [rty EXCEPT !.pc = "cancel"] \/ rty' = [rty EXCEPT !.pc = "enqueue"]
      PROVE  rty' \in RetryState
  BY <1>5 DEF RetryState
<1>6. CASE RetrySave
  <2>1. ver' \in 0 .. MaxVer
    BY SMTT(60), <1>6, TickType DEF RetrySave
  <2>2. [rty.rec EXCEPT !.ver = ver', !.fail = FALSE, !.ripe = TRUE] \in Recs
    BY ZenonT(60), <2>1, RecUpdates, StateFields
  <2>3. rec' \in [Paths -> Recs] /\ disk' \in [Paths -> Recs]
    BY <1>6, <2>2, SaveTypes DEF RetrySave
  <2> QED
    BY <1>5, <1>6, <1>a, <2>1, <2>3 DEF RetrySave
<1>7. CASE RetryCancel
  BY <1>5, <1>7, <1>a, TaskTypes DEF RetryCancel
<1>8. CASE RetryEnqueue
  BY <1>8, <1>a, TaskTypes, IdleTypes DEF RetryEnqueue
<1>9. ASSUME NEW p \in Paths, DiscardCancel(p) PROVE TypeOK'
  BY <1>9, <1>a, TaskTypes DEF DiscardCancel
<1>10. ASSUME NEW p \in Paths, DiscardRemove(p) PROVE TypeOK'
  <2>1. rec' \in [Paths -> Recs] /\ disk' \in [Paths -> Recs] /\ faults' \in 0 .. MaxFaults
    BY <1>10, SaveTypes, NoRecType, FaultyType DEF DiscardRemove
  <2> QED
    BY <1>10, <1>a, <2>1 DEF DiscardRemove
<1>11. ASSUME NEW p \in Paths, RemoveRecord(p) PROVE TypeOK'
  <2>1. rec' \in [Paths -> Recs] /\ disk' \in [Paths -> Recs]
    BY <1>11, SaveTypes, NoRecType DEF RemoveRecord
  <2> QED
    BY <1>11, <1>a, <2>1 DEF RemoveRecord
<1>12. ASSUME NEW p \in Paths, RemoveCancel(p) PROVE TypeOK'
  BY ZenonT(60), <1>12, <1>a, TaskTypes DEF RemoveCancel
<1>13. ASSUME NEW p \in Paths, NEW q \in Paths, RenameMove(p, q) PROVE TypeOK'
  <2>1. rec' \in [Paths -> Recs] /\ disk' \in [Paths -> Recs]
    BY <1>13, NoRecType DEF RenameMove
  <2>2. ren' \in RenameState
    BY <1>13 DEF RenameMove, RenameState
  <2>3. wrote' \in [Paths -> 0 .. MaxVer]
    BY <1>13 DEF RenameMove
  <2> QED
    BY ZenonT(60), <1>13, <1>a, <2>1, <2>2, <2>3 DEF RenameMove
<1>14. CASE RenameQueue
  <2>1. task' \in TaskType
    BY <1>14 DEF RenameQueue, TaskType
  <2> QED
    BY <1>14, <1>a, <2>1, IdleTypes DEF RenameQueue
<1>15. CASE Start
  <2>1. wk' \in [Workers -> WorkerState]
    BY <1>15, IdleTypes DEF Start
  <2> QED
    BY <1>15, <1>a, <2>1 DEF Start, env
<1>16. CASE ResumeList
  BY <1>16, <1>a DEF ResumeList
<1>17. ASSUME NEW p \in Paths, ResumeRecord(p) PROVE TypeOK'
  <2>1. resume' \in [Paths -> Recs]
    BY <1>17, NoRecType DEF ResumeRecord
  <2>2. PICK stat \in StatResults(p) :
         \/ /\ Tick /\ UNCHANGED <<task, faults>>
            /\ \/ Save(p, [resume[p] EXCEPT !.ver = ver', !.fail = TRUE, !.ripe = FALSE])
               \/ Save(p, [resume[p] EXCEPT !.ver = ver', !.frozen = FALSE, !.ripe = FALSE])
         \/ Faulty /\ UNCHANGED <<rec, disk, task, ver>>
         \/ /\ Enqueue(p, resume[p]) \/ UNCHANGED task
            /\ UNCHANGED <<rec, disk, ver, faults>>
    BY <1>17 DEF ResumeRecord
  <2>3. CASE Tick /\ UNCHANGED <<task, faults>>
             /\ \/ Save(p, [resume[p] EXCEPT !.ver = ver', !.fail = TRUE, !.ripe = FALSE])
                \/ Save(p, [resume[p] EXCEPT !.ver = ver', !.frozen = FALSE, !.ripe = FALSE])
    <3>1. ver' \in 0 .. MaxVer
      BY SMTT(60), <2>3, TickType
    <3>2. rec' \in [Paths -> Recs] /\ disk' \in [Paths -> Recs]
      BY ZenonT(60), <2>3, <3>1, SaveTypes, RecUpdates
    <3> QED
      BY <1>17, <1>a, <2>1, <2>3, <3>1, <3>2 DEF ResumeRecord
  <2>4. CASE Faulty /\ UNCHANGED <<rec, disk, task, ver>>
    BY ZenonT(60), <1>17, <1>a, <2>1, <2>4, FaultyType DEF ResumeRecord
  <2>5. CASE /\ Enqueue(p, resume[p]) \/ UNCHANGED task
             /\ UNCHANGED <<rec, disk, ver, faults>>
    BY ZenonT(60), <1>17, <1>a, <2>1, <2>5, TaskTypes DEF ResumeRecord
  <2> QED
    BY <2>2, <2>3, <2>4, <2>5
<1>18. CASE CloseFlip
  BY <1>18, <1>a DEF CloseFlip, env
<1>19. CASE CloseService
  <2>1. task' \in TaskType
    BY <1>19 DEF CloseService, TaskType
  <2> QED
    BY <1>19, <1>a, <2>1 DEF CloseService, env
<1> QED
  BY ZenonT(60), <1>1, <1>2, <1>3, <1>4, <1>6, <1>7, <1>8, <1>9, <1>10, <1>11, <1>12, <1>13, <1>14,
     <1>15, <1>16, <1>17, <1>18, <1>19 DEF Begin, Continue

LEMMA TypeNext == TypeOK /\ [Next]_vars => TypeOK'
<1> SUFFICES ASSUME TypeOK, [Next]_vars PROVE TypeOK'
  OBVIOUS
<1>1. ASSUME NEW p \in Paths, Ripen(p) PROVE TypeOK'
  <2>1. rec' = [rec EXCEPT ![p] = [rec[p] EXCEPT !.ripe = TRUE]] /\ rec[p] \in Recs
    BY <1>1 DEF Ripen, TypeOK
  <2>2. [rec[p] EXCEPT !.ripe = TRUE] \in Recs
    BY ZenonT(60), <2>1 DEF Recs
  <2>3. rec' \in [Paths -> Recs]
    BY <2>1, <2>2 DEF TypeOK
  <2> QED
    BY <1>1, <2>3 DEF Ripen, TypeOK, env
<1>2. ASSUME NEW p \in Paths, Due(p) PROVE TypeOK'
  <2>1. task' \in TaskType
    BY <1>2 DEF Due, TypeOK, TaskType
  <2> QED
    BY <1>2, <2>1 DEF Due, TypeOK, TaskType, env
<1>3. CASE Crash
  <2>1. \A p \in Paths : disk[p] \in Recs /\ [disk[p] EXCEPT !.started = FALSE] \in Recs
    BY ZenonT(60), RecUpdates, ScheduleAssumption DEF TypeOK
  <2>2. rec' \in [Paths -> Recs] /\ disk' \in [Paths -> Recs]
    BY <1>3, <2>1 DEF Crash
  <2>3. crashes' \in 0 .. MaxCrashes
    BY <1>3, ScheduleAssumption DEF Crash, TypeOK
  <2>4. task' \in TaskType /\ wk' \in [Workers -> WorkerState]
    BY <1>3, IdleTypes DEF Crash, TaskType
  <2> QED
    BY ZenonT(60), <1>3, <2>2, <2>3, <2>4, IdleTypes DEF Crash, TypeOK, TaskType, Counters
<1>4. CASE UNCHANGED vars
  BY <1>4 DEF vars, env, TypeOK
<1> QED
  BY <1>1, <1>2, <1>3, <1>4, TypeWorker, TypeUser DEF Next

\* The state of the scheduler keeps its shape: records, tasks, workers and the
\* operations in progress, for every set of paths and workers.
THEOREM ScheduleTypes == Spec => []TypeOK
BY TypeInit, TypeNext, PTL DEF Spec

-----------------------------------------------------------------------------
(* Who holds a path.                                                       *)

\* A worker has a path exactly while it is in the loop's body; the paths held
\* are the claimed ones, each held by one worker; the tasks of claimed paths are
\* out of the heap and only theirs are; a closed service has no task.
HoldInv ==
  /\ \A w \in Workers : wk[w].path = None <=> wk[w].pc \in {"off", "idle"}
  /\ \A w \in Workers : wk[w].path # None => wk[w].path \in claimed
  /\ \A w, v \in Workers : wk[w].path # None /\ wk[w].path = wk[v].path => w = v
  /\ \A p \in claimed : \E w \in Workers : wk[w].path = p
  /\ \A p \in Paths : /\ task[p] \in {"waiting", "due"} => p \notin claimed
                      /\ task[p] = "parked" => p \in claimed
  /\ closed => life = "closing" /\ \A p \in Paths : task[p] = "none"
  /\ life = "new" => claimed = {} /\ \A w \in Workers : wk[w].pc = "off"

\* How a step that leaves the claims alone may change the tasks.
TaskStep ==
  \A p \in Paths :
    \/ task'[p] = task[p] \/ task'[p] = "none"
    \/ ~closed /\ task'[p] = IF p \in claimed THEN "parked" ELSE "waiting"
    \/ task[p] \in {"waiting", "due"} /\ task'[p] \in {"waiting", "due"}

LEMMA TaskMoves ==
  ASSUME NEW p, NEW r, task \in TaskType
  PROVE  /\ Cancel(p) => TaskStep
         /\ Schedule(p) => TaskStep
         /\ Gated(p) => TaskStep
         /\ Enqueue(p, r) => TaskStep
         /\ RequeueLatest(p) => TaskStep
         /\ UNCHANGED task => TaskStep
BY DEF TaskType, TaskStep, Cancel, Schedule, Gated, Enqueue, RequeueLatest

\* A step that claims and releases nothing keeps the invariant.
LEMMA HoldKeep ==
  ASSUME TypeOK, HoldInv, TaskStep, UNCHANGED <<claimed, closed>>,
         life' = life \/ (life # "closing" /\ life' # "new"),
         \A v \in Workers : /\ wk'[v].path = wk[v].path
                            /\ wk'[v].pc \in {"off", "idle"} <=> wk[v].pc \in {"off", "idle"}
                            /\ life' = "new" => wk'[v].pc = wk[v].pc
  PROVE  HoldInv'
<1>1. \A p \in Paths : /\ task'[p] \in {"waiting", "due"} => p \notin claimed
                       /\ task'[p] = "parked" => p \in claimed
  BY DEF HoldInv, TaskStep
<1>2. closed => \A p \in Paths : task'[p] = "none"
  BY DEF HoldInv, TaskStep
<1>3. closed' => life' = "closing" /\ \A p \in Paths : task'[p] = "none"
  BY <1>2 DEF HoldInv
<1>4. life' = "new" => claimed' = {} /\ \A w \in Workers : wk'[w].pc = "off"
  BY DEF HoldInv
<1>5. /\ \A w \in Workers : wk'[w].path = None <=> wk'[w].pc \in {"off", "idle"}
      /\ \A w \in Workers : wk'[w].path # None => wk'[w].path \in claimed'
      /\ \A w, v \in Workers : wk'[w].path # None /\ wk'[w].path = wk'[v].path => w = v
      /\ \A p \in claimed' : \E w \in Workers : wk'[w].path = p
  BY DEF HoldInv
<1> QED
  BY ZenonT(60), <1>1, <1>3, <1>4, <1>5 DEF HoldInv

LEMMA HoldInit == Init => HoldInv
BY DEF Init, HoldInv, Off

LEMMA HoldWorker == ASSUME TypeOK, HoldInv, NEW w \in Workers, WorkerStep(w) PROVE HoldInv'
<1>0. /\ task \in TaskType /\ wk \in [Workers -> WorkerState] /\ wk[w] \in WorkerState
      /\ wk[w].path \in Paths \cup {None}
  BY StateFields DEF TypeOK, TaskType
<1>1. ASSUME NEW st \in Stages \ {"off", "idle"}, Goto(w, st), wk[w].pc \notin {"off", "idle"},
             TaskStep, UNCHANGED <<life, claimed, closed>>
      PROVE  HoldInv'
  <2>1. /\ wk'[w].pc = st /\ wk'[w].path = wk[w].path
        /\ \A v \in Workers : v # w => wk'[v] = wk[v]
    BY ZenonT(60), <1>0, <1>1, GotoMoves
  <2>2. life # "new"
    BY ZenonT(60), <1>1 DEF HoldInv
  <2> QED
    BY <1>1, <2>1, <2>2, HoldKeep
<1>2. CASE CheckLatest(w)
  BY <1>0, <1>1, <1>2, TaskMoves DEF CheckLatest, Stages
<1>3. CASE Admit(w)
  BY <1>0, <1>1, <1>3, TaskMoves DEF Admit, Stages
<1>4. CASE Claim(w)
  BY <1>0, <1>1, <1>4, TaskMoves DEF Claim, Stages
<1>5. CASE Committed(w) \/ FailedSilently(w) \/ SaveFailed(w) \/ Release(w)
  BY <1>0, <1>1, <1>5, TaskMoves DEF Committed, FailedSilently, SaveFailed, Release, Stages
<1>6. CASE Failed(w)
  BY ZenonT(60), <1>0, <1>1, <1>6, TaskMoves DEF Failed, Stages
<1>7. CASE Superseded(w) \/ Requeue(w)
  BY ZenonT(60), <1>0, <1>1, <1>7, TaskMoves DEF Superseded, Requeue, Stages
<1>8. CASE CompleteReceive(w)
  <2> DEFINE p == wk[w].path
  <2>1. /\ wk'[w].pc = "idle" /\ wk'[w].path = None /\ claimed' = claimed \ {p}
        /\ \A v \in Workers : v # w => wk'[v] = wk[v]
        /\ p # None /\ p \in claimed /\ p \in Paths /\ life # "new" /\ life' = life
        /\ UNCHANGED closed
    BY SMTT(60), <1>0, <1>8 DEF CompleteReceive, HoldInv
  <2>2. \A v \in Workers : v # w => wk[v].path # p
    BY ZenonT(60), <2>1 DEF HoldInv
  <2>3. /\ \A q \in Paths : q # p => task'[q] = task[q]
        /\ task'[p] = IF task[p] = "parked" THEN "waiting" ELSE task[p]
    BY ZenonT(60), <1>8, <2>1 DEF CompleteReceive
  <2>4. /\ \A v \in Workers : wk'[v].path = None <=> wk'[v].pc \in {"off", "idle"}
        /\ \A v \in Workers : wk'[v].path # None => wk'[v].path \in claimed'
    BY SMTT(60), <2>1, <2>2 DEF HoldInv
  <2>5. \A u, v \in Workers : wk'[u].path # None /\ wk'[u].path = wk'[v].path => u = v
    BY SMTT(60), <2>1, <2>2 DEF HoldInv
  <2>6. \A q \in claimed' : \E v \in Workers : wk'[v].path = q
    BY SMTT(60), <2>1, <2>2 DEF HoldInv
  <2>7. \A q \in Paths : /\ task'[q] \in {"waiting", "due"} => q \notin claimed'
                         /\ task'[q] = "parked" => q \in claimed'
    BY SMTT(60), <1>0, <2>1, <2>3 DEF HoldInv, TaskType
  <2>8. closed' => life' = "closing" /\ \A q \in Paths : task'[q] = "none"
    BY ZenonT(60), <2>1, <2>3 DEF HoldInv
  <2> QED
    BY ZenonT(60), <2>1, <2>4, <2>5, <2>6, <2>7, <2>8 DEF HoldInv
<1>9. CASE WorkerExit(w)
  <2>1. /\ wk'[w].pc = "off" /\ wk'[w].path = wk[w].path /\ life # "new" /\ life' = life
        /\ \A v \in Workers : v # w => wk'[v] = wk[v]
    BY <1>0, <1>9, GotoMoves DEF WorkerExit, HoldInv, Stages
  <2> QED
    BY ZenonT(60), <1>0, <1>9, <2>1, HoldKeep, TaskMoves DEF WorkerExit
<1>10. ASSUME NEW p \in Paths, Receive(w, p) PROVE HoldInv'
  <2>1. life # "new" /\ UNCHANGED <<life, closed>> /\ ~closed /\ p # None /\ p \notin claimed
        /\ wk[w].path = None
    BY <1>10, ScheduleAssumption DEF Receive, HoldInv
  <2>2. CASE UNCHANGED <<claimed, wk>>
    <3>1. TaskStep
      BY ZenonT(60), <1>0, <1>10, TaskMoves DEF Receive, TaskStep, TaskType
    <3> QED
      BY ZenonT(60), <2>1, <2>2, <3>1, HoldKeep
  <2>3. CASE Cancel(p) /\ claimed' = claimed \cup {p}
             /\ wk' = [wk EXCEPT ![w] = [pc |-> "check", path |-> p, rec |-> rec[p]]]
    <3>1. /\ wk'[w].pc = "check" /\ wk'[w].path = p
          /\ \A v \in Workers : v # w => wk'[v] = wk[v]
          /\ \A q \in Paths : q # p => task'[q] = task[q]
          /\ task'[p] = "none"
      BY ZenonT(60), <1>0, <2>3 DEF Cancel, TaskType
    <3>2. \A v \in Workers : wk[v].path # p
      BY ZenonT(60), <2>1 DEF HoldInv
    <3>3. /\ \A v \in Workers : wk'[v].path = None <=> wk'[v].pc \in {"off", "idle"}
          /\ \A v \in Workers : wk'[v].path # None => wk'[v].path \in claimed'
      BY SMTT(60), <2>1, <2>3, <3>1 DEF HoldInv
    <3>4. \A u, v \in Workers : wk'[u].path # None /\ wk'[u].path = wk'[v].path => u = v
      BY <3>1, <3>2 DEF HoldInv
    <3>5. \A q \in claimed' : \E v \in Workers : wk'[v].path = q
      <4>1. wk'[w].path = p
        BY <3>1
      <4>2. ASSUME NEW q \in claimed PROVE \E v \in Workers : wk'[v].path = q
        <5>1. PICK v \in Workers : wk[v].path = q
          BY DEF HoldInv
        <5>2. v # w
          BY ZenonT(60), <2>1, <5>1, ScheduleAssumption DEF TypeOK
        <5> QED
          BY ZenonT(60), <3>1, <5>1, <5>2
      <4> QED
        BY <2>3, <4>1, <4>2
    <3>6. \A q \in Paths : /\ task'[q] \in {"waiting", "due"} => q \notin claimed'
                           /\ task'[q] = "parked" => q \in claimed'
      BY <2>3, <3>1 DEF HoldInv
    <3> QED
      BY ZenonT(60), <2>1, <3>3, <3>4, <3>5, <3>6 DEF HoldInv
  <2> QED
    BY ZenonT(60), <1>10, <2>2, <2>3 DEF Receive
<1> QED
  BY ZenonT(60), <1>2, <1>3, <1>4, <1>5, <1>6, <1>7, <1>8, <1>9, <1>10 DEF WorkerStep

LEMMA HoldNext == TypeOK /\ HoldInv /\ [Next]_vars => HoldInv'
<1> SUFFICES ASSUME TypeOK, HoldInv, [Next]_vars PROVE HoldInv'
  OBVIOUS
<1>0. task \in TaskType
  BY DEF TypeOK, TaskType
<1>a. ASSUME TaskStep, UNCHANGED <<life, closed, claimed, wk>> PROVE HoldInv'
  BY <1>a, HoldKeep
<1>1. ASSUME NEW p \in Paths, NEW large \in BOOLEAN, Write(p, large) PROVE HoldInv'
  BY <1>0, <1>1, <1>a, TaskMoves DEF Write
<1>2. ASSUME NEW p \in Paths, FlushSave(p) \/ RetryRead(p) \/ DiscardCancel(p) \/ RemoveRecord(p)
      PROVE  HoldInv'
  BY ZenonT(60), <1>0, <1>2, <1>a, TaskMoves DEF FlushSave, RetryRead, DiscardCancel, RemoveRecord
<1>3. ASSUME NEW p \in Paths, FlushEnqueue(p) \/ DiscardRemove(p) \/ RemoveCancel(p)
      PROVE  HoldInv'
  BY ZenonT(60), <1>0, <1>3, <1>a, TaskMoves DEF FlushEnqueue, DiscardRemove, RemoveCancel
<1>4. ASSUME NEW p \in Paths, ResumeRecord(p) PROVE HoldInv'
  <2>1. UNCHANGED task \/ Enqueue(p, resume[p])
    BY ZenonT(60), <1>4 DEF ResumeRecord
  <2> QED
    BY ZenonT(60), <1>0, <1>4, <1>a, <2>1, TaskMoves DEF ResumeRecord
<1>5. ASSUME NEW p \in Paths, NEW q \in Paths, RenameMove(p, q) PROVE HoldInv'
  BY <1>0, <1>5, <1>a, TaskMoves DEF RenameMove
<1>6. CASE RetrySave \/ RetryCancel \/ RetryEnqueue
  BY ZenonT(60), <1>0, <1>6, <1>a, TaskMoves DEF RetrySave, RetryCancel, RetryEnqueue
<1>7. CASE RenameQueue
  <2>1. TaskStep
    BY ZenonT(60), <1>0, <1>7 DEF RenameQueue, TaskStep
  <2> QED
    BY ZenonT(60), <1>7, <1>a, <2>1 DEF RenameQueue
<1>8. CASE ResumeList \/ CloseFlip
  <2>1. life # "closing" /\ life' # "new" /\ UNCHANGED <<task, claimed, closed, wk>>
    BY <1>8 DEF ResumeList, CloseFlip, Running
  <2> QED
    BY ZenonT(60), <1>0, <2>1, HoldKeep, TaskMoves
<1>9. CASE Start
  <2>1. \A w \in Workers : wk'[w].pc = "idle" /\ wk'[w].path = None
    BY <1>9 DEF Start, Off
  <2>2. claimed' = {} /\ life' = "starting" /\ ~closed'
    BY ZenonT(60), <1>9 DEF Start, HoldInv
  <2> QED
    BY <1>9, <2>1, <2>2 DEF Start, HoldInv
<1>10. CASE CloseService
  BY <1>10 DEF CloseService, HoldInv
<1>11. CASE Crash
  BY <1>11 DEF Crash, HoldInv, Off
<1>12. ASSUME NEW p \in Paths, Ripen(p) PROVE HoldInv'
  BY <1>0, <1>12, <1>a, TaskMoves DEF Ripen
<1>13. ASSUME NEW p \in Paths, Due(p) PROVE HoldInv'
  <2>1. TaskStep
    BY <1>0, <1>13 DEF Due, TaskStep, TaskType
  <2> QED
    BY ZenonT(60), <1>13, <1>a, <2>1 DEF Due
<1>14. CASE UNCHANGED vars
  BY <1>0, <1>14, <1>a, TaskMoves DEF vars
<1> QED
  BY ZenonT(60), <1>1, <1>2, <1>3, <1>4, <1>5, <1>6, <1>7, <1>8, <1>9, <1>10, <1>11, <1>12, <1>13, <1>14,
     HoldWorker DEF Next, Begin, Continue

LEMMA Holding == Spec => [](TypeOK /\ HoldInv)
<1>1. Init => TypeOK /\ HoldInv
  BY TypeInit, HoldInit
<1>2. TypeOK /\ HoldInv /\ [Next]_vars => (TypeOK /\ HoldInv)'
  BY TypeNext, HoldNext
<1> QED
  BY <1>1, <1>2, PTL DEF Spec

\* Whatever queues a path while it is being uploaded, no two workers hold it and
\* its task waits outside the heap (Service.claimed in Receive, scheduleUpload and
\* CompleteReceive).
THEOREM WorkersExclusive == Spec => []OneWorkerPerPath
<1>1. TypeOK /\ HoldInv => OneWorkerPerPath
  <2> SUFFICES ASSUME TypeOK, HoldInv PROVE OneWorkerPerPath
    OBVIOUS
  <2>1. \A w \in Workers : wk[w].path \in Paths \cup {None}
    BY ZenonT(60), StateFields DEF TypeOK
  <2>2. \A w \in Workers : wk[w].path # None => task[wk[w].path] \in {"none", "parked"}
    BY <2>1 DEF HoldInv, TypeOK
  <2> QED
    BY <2>2 DEF HoldInv, OneWorkerPerPath
<1> QED
  BY <1>1, Holding, PTL

\* Only Receive adds a claim.
LEMMA OnlyReceiveClaims == ASSUME [Next]_vars, closed PROVE claimed' \subseteq claimed
<1>1. ASSUME NEW w \in Workers, WorkerStep(w) PROVE claimed' \subseteq claimed
  BY ZenonT(60), <1>1 DEF WorkerStep, CheckLatest, Admit, Claim, Committed, Superseded, Failed,
       FailedSilently, SaveFailed, Requeue, Release, CompleteReceive, WorkerExit, Receive
<1>2. ASSUME NEW p \in Paths, NEW large \in BOOLEAN, Write(p, large) PROVE claimed' = claimed
  BY <1>2 DEF Write
<1>3. ASSUME NEW p \in Paths, FlushSave(p) \/ RetryRead(p) \/ DiscardCancel(p) \/ RemoveRecord(p)
      PROVE  claimed' = claimed
  BY ZenonT(60), <1>3 DEF FlushSave, RetryRead, DiscardCancel, RemoveRecord
<1>4. ASSUME NEW p \in Paths, NEW q \in Paths, RenameMove(p, q) PROVE claimed' = claimed
  BY <1>4 DEF RenameMove
<1>5. ASSUME NEW p \in Paths,
             FlushEnqueue(p) \/ DiscardRemove(p) \/ RemoveCancel(p) \/ ResumeRecord(p)
      PROVE  claimed' = claimed
  BY ZenonT(60), <1>5 DEF FlushEnqueue, DiscardRemove, RemoveCancel, ResumeRecord
<1>6. CASE \/ RetrySave \/ RetryCancel \/ RetryEnqueue \/ RenameQueue \/ ResumeList
           \/ CloseService \/ Start \/ CloseFlip
  BY ZenonT(60), <1>6 DEF RetrySave, RetryCancel, RetryEnqueue, RenameQueue, ResumeList, CloseService,
       Start, CloseFlip
<1>7. CASE Crash
  BY <1>7 DEF Crash
<1>8. ASSUME NEW p \in Paths, Ripen(p) \/ Due(p) PROVE claimed' = claimed
  BY ZenonT(60), <1>8 DEF Ripen, Due
<1>9. CASE UNCHANGED vars
  BY <1>9 DEF vars
<1> QED
  BY ZenonT(60), <1>1, <1>2, <1>3, <1>4, <1>5, <1>6, <1>7, <1>8, <1>9 DEF Next, Begin, Continue

\* Once Service.Close has dropped the tasks no path is claimed and none is queued,
\* whichever operation or worker still had one to queue.
THEOREM CloseIsFinal == Spec => ClosedStaysQuiet
<1>1. TypeOK /\ HoldInv /\ (TypeOK /\ HoldInv)' /\ [Next]_vars =>
        [closed /\ closed' => claimed' \subseteq claimed /\ \A p \in Paths : task'[p] = "none"]_vars
  <2> SUFFICES ASSUME TypeOK, HoldInv, HoldInv', [Next]_vars, closed, closed'
               PROVE  claimed' \subseteq claimed /\ \A p \in Paths : task'[p] = "none"
    BY ZenonT(60)
  <2>1. \A p \in Paths : task'[p] = "none"
    BY ZenonT(60) DEF HoldInv
  <2>2. claimed' \subseteq claimed
    BY OnlyReceiveClaims DEF HoldInv
  <2> QED
    BY <2>1, <2>2
<1> QED
  BY <1>1, Holding, PTL DEF Spec, ClosedStaysQuiet

-----------------------------------------------------------------------------
(* Admission.                                                              *)

Smalls == {w \in Admitted : ~wk[w].rec.large}
Uploading == {"claim", "exec", "requeue", "release"}

\* A step that starts and ends no upload, nor touches the copies of those running.
LEMMA AdmissionKeep ==
  ASSUME AdmissionExact, active' = active,
         \A v \in Workers : /\ wk'[v].pc \in Uploading <=> wk[v].pc \in Uploading
                            /\ wk[v].pc \in Uploading => wk'[v].rec = wk[v].rec
  PROVE  AdmissionExact'
<1>1. Admitted' = Admitted
  BY DEF Admitted, Uploading
<1>2. \A v \in Admitted : wk'[v].rec = wk[v].rec
  BY DEF Admitted, Uploading
<1>3. {v \in Admitted' : ~wk'[v].rec.large} = {v \in Admitted : ~wk[v].rec.large}
  BY ZenonT(60), <1>1, <1>2
<1> QED
  BY ZenonT(60), <1>1, <1>2, <1>3 DEF AdmissionExact

LEMMA SmallsFinite == IsFiniteSet(Smalls) /\ Cardinality(Smalls) \in Nat
BY ZenonT(60), ScheduleAssumption, FS_Subset, FS_CardinalityType DEF Smalls, Admitted

LEMMA AdmissionInit == Init => AdmissionExact
<1> SUFFICES ASSUME Init PROVE AdmissionExact
  OBVIOUS
<1>1. Admitted = {}
  BY DEF Init, Admitted, Off
<1>2. {w \in Admitted : ~wk[w].rec.large} = {}
  BY <1>1
<1> QED
  BY <1>1, <1>2, FS_EmptySet DEF Init, AdmissionExact, NoActive

LEMMA AdmissionAdmit ==
  ASSUME TypeOK, AdmissionExact, NEW w \in Workers, Admit(w) PROVE AdmissionExact'
<1>0. /\ wk \in [Workers -> WorkerState] /\ active \in Counters
      /\ wk[w].rec \in Recs /\ wk[w].rec.large \in BOOLEAN
      /\ active.small \in Nat /\ active.large \in BOOLEAN
      /\ "claim" \in Stages /\ "done" \in Stages
  BY ZenonT(60), StateFields, RecFields, CounterUpdates DEF TypeOK, Counters, Stages
<1>1. CASE ~Admits(wk[w].rec)
  <2>1. Goto(w, "done") /\ active' = active /\ wk[w].pc = "admit"
    BY ZenonT(60), <1>1 DEF Admit
  <2>2. /\ wk'[w].pc = "done" /\ wk'[w].rec = wk[w].rec
        /\ \A v \in Workers : v # w => wk'[v] = wk[v]
    BY <1>0, <2>1, GotoMoves
  <2> QED
    BY <2>1, <2>2, AdmissionKeep DEF Uploading
<1>2. CASE Admits(wk[w].rec)
  <2>1. Goto(w, "claim") /\ wk[w].pc = "admit"
        /\ active' = IF wk[w].rec.large THEN [active EXCEPT !.large = TRUE]
                     ELSE [active EXCEPT !.small = @ + 1]
    BY <1>2 DEF Admit
  <2>2. /\ wk'[w].pc = "claim" /\ wk'[w].rec = wk[w].rec
        /\ \A v \in Workers : v # w => wk'[v] = wk[v]
    BY <1>0, <2>1, GotoMoves
  <2>3. Admitted' = Admitted \cup {w} /\ w \notin Admitted
    BY ZenonT(60), <2>1, <2>2 DEF Admitted
  <2>4. ~active.large /\ \A v \in Admitted : ~wk[v].rec.large
    BY ZenonT(60), <1>2 DEF Admits, AdmissionExact
  <2>5. \A v \in Admitted : v # w /\ wk'[v] = wk[v]
    BY ZenonT(60), <2>2, <2>3 DEF Admitted
  <2>6. Smalls = Admitted /\ active.small = Cardinality(Smalls)
    BY SMTT(60), <2>4 DEF Smalls, AdmissionExact
  <2>7. CASE wk[w].rec.large
    <3>1. active.small = 0
      BY <1>0, <1>2, <2>7 DEF Admits
    <3>2. Admitted = {}
      BY ZenonT(60), <2>6, <3>1, SmallsFinite, FS_EmptySet
    <3>3. Admitted' = {w} /\ {v \in Admitted' : ~wk'[v].rec.large} = {}
      BY <2>2, <2>3, <2>7, <3>2
    <3>4. active'.large = TRUE /\ active'.small = 0
      BY <1>0, <2>1, <2>7, <3>1 DEF Counters
    <3> QED
      BY ZenonT(60), <2>2, <2>7, <3>3, <3>4, FS_EmptySet DEF AdmissionExact
  <2>8. CASE ~wk[w].rec.large
    <3>1. {v \in Admitted' : ~wk'[v].rec.large} = Smalls \cup {w}
      BY ZenonT(60), <2>2, <2>3, <2>4, <2>5, <2>6, <2>8
    <3>2. Cardinality(Smalls \cup {w}) = Cardinality(Smalls) + 1
      BY <2>3, <2>6, SmallsFinite, FS_AddElement
    <3>3. active'.large = FALSE /\ active'.small = active.small + 1
      BY ZenonT(60), <1>0, <2>1, <2>4, <2>8 DEF Counters
    <3>4. \A v \in Admitted' : ~wk'[v].rec.large
      BY ZenonT(60), <2>2, <2>3, <2>4, <2>5, <2>8
    <3> QED
      BY ZenonT(60), <2>6, <3>1, <3>2, <3>3, <3>4 DEF AdmissionExact
  <2> QED
    BY <2>7, <2>8
<1> QED
  BY <1>1, <1>2

LEMMA AdmissionRelease ==
  ASSUME TypeOK, AdmissionExact, NEW w \in Workers, Release(w) PROVE AdmissionExact'
<1>0. /\ wk \in [Workers -> WorkerState] /\ active \in Counters
      /\ wk[w].rec \in Recs /\ wk[w].rec.large \in BOOLEAN
      /\ active.small \in Nat /\ active.large \in BOOLEAN /\ "done" \in Stages
  BY ZenonT(60), StateFields, RecFields, CounterUpdates DEF TypeOK, Counters, Stages
<1>1. Goto(w, "done") /\ wk[w].pc = "release"
      /\ active' = IF wk[w].rec.large THEN [active EXCEPT !.large = FALSE]
                   ELSE [active EXCEPT !.small = IF @ > 0 THEN @ - 1 ELSE 0]
  BY DEF Release
<1>2. /\ wk'[w].pc = "done" /\ wk'[w].rec = wk[w].rec
      /\ \A v \in Workers : v # w => wk'[v] = wk[v]
  BY <1>0, <1>1, GotoMoves
<1>3. Admitted' = Admitted \ {w} /\ w \in Admitted
  BY ZenonT(60), <1>1, <1>2 DEF Admitted
<1>4. \A v \in Admitted' : wk'[v] = wk[v]
  BY ZenonT(60), <1>2, <1>3 DEF Admitted
<1>5. CASE wk[w].rec.large
  <2>1. Admitted = {w}
    BY <1>3, <1>5 DEF AdmissionExact
  <2>2. Admitted' = {} /\ {v \in Admitted' : ~wk'[v].rec.large} = {}
    BY <1>3, <2>1
  <2>3. {v \in Admitted : ~wk[v].rec.large} = {}
    BY <1>5, <2>1
  <2>4. active.small = 0
    BY ZenonT(60), <2>3, FS_EmptySet DEF AdmissionExact
  <2>5. active'.large = FALSE /\ active'.small = 0
    BY <1>0, <1>1, <1>5, <2>4 DEF Counters
  <2> QED
    BY <2>2, <2>5, FS_EmptySet DEF AdmissionExact
<1>6. CASE ~wk[w].rec.large
  <2>1. \A v \in Admitted : ~wk[v].rec.large
    BY ZenonT(60), <1>3, <1>6 DEF AdmissionExact
  <2>2. ~active.large /\ active.small = Cardinality(Smalls) /\ w \in Smalls
    BY ZenonT(60), <1>3, <1>6, <2>1 DEF AdmissionExact, Smalls
  <2>3. {v \in Admitted' : ~wk'[v].rec.large} = Smalls \ {w}
    BY <1>3, <1>4 DEF Smalls
  <2>4. Cardinality(Smalls \ {w}) = Cardinality(Smalls) - 1
    BY ZenonT(60), <2>2, SmallsFinite, FS_RemoveElement
  <2>5. Cardinality(Smalls) # 0
    BY ZenonT(60), <2>2, SmallsFinite, FS_EmptySet
  <2>6. active.small > 0
    BY <1>0, <2>2, <2>5
  <2>7. active'.large = FALSE /\ active'.small = active.small - 1
    BY ZenonT(60), <1>0, <1>1, <1>6, <2>2, <2>6 DEF Counters
  <2>8. \A v \in Admitted' : ~wk'[v].rec.large
    BY ZenonT(60), <1>3, <1>4, <2>1
  <2> QED
    BY ZenonT(60), <2>2, <2>3, <2>4, <2>7, <2>8 DEF AdmissionExact
<1> QED
  BY <1>5, <1>6

LEMMA AdmissionNext ==
  TypeOK /\ HoldInv /\ AdmissionExact /\ [Next]_vars => AdmissionExact'
<1> SUFFICES ASSUME TypeOK, HoldInv, AdmissionExact, [Next]_vars PROVE AdmissionExact'
  OBVIOUS
<1>0. wk \in [Workers -> WorkerState]
  BY DEF TypeOK
<1>a. ASSUME UNCHANGED <<active, wk>> PROVE AdmissionExact'
  BY <1>a, AdmissionKeep
<1>1. ASSUME NEW w \in Workers, WorkerStep(w) PROVE AdmissionExact'
  <2>1. ASSUME NEW st \in Stages, Goto(w, st), wk[w].pc \in Uploading <=> st \in Uploading,
               active' = active
        PROVE  AdmissionExact'
    <3>1. /\ wk'[w].pc = st /\ wk'[w].rec = wk[w].rec
          /\ \A v \in Workers : v # w => wk'[v] = wk[v]
      BY ZenonT(60), <1>0, <2>1, GotoMoves
    <3> QED
      BY <2>1, <3>1, AdmissionKeep
  <2>2. CASE CheckLatest(w) \/ WorkerExit(w)
    BY <2>1, <2>2 DEF CheckLatest, WorkerExit, Stages, Uploading
  <2>3. CASE Claim(w)
    BY SMTT(60), <2>1, <2>3 DEF Claim, Stages, Uploading
  <2>4. CASE Committed(w) \/ Superseded(w) \/ FailedSilently(w) \/ SaveFailed(w) \/ Requeue(w)
    BY ZenonT(60), <2>1, <2>4 DEF Committed, Superseded, FailedSilently, SaveFailed, Requeue, Stages, Uploading
  <2>5. CASE Failed(w)
    BY ZenonT(60), <2>1, <2>5 DEF Failed, Stages, Uploading
  <2>6. CASE CompleteReceive(w)
    <3>1. /\ wk[w].pc = "done" /\ wk'[w].pc = "idle" /\ active' = active
          /\ \A v \in Workers : v # w => wk'[v] = wk[v]
      BY ZenonT(60), <1>0, <2>6 DEF CompleteReceive
    <3> QED
      BY ZenonT(60), <3>1, AdmissionKeep DEF Uploading
  <2>7. ASSUME NEW p \in Paths, Receive(w, p) PROVE AdmissionExact'
    <3>1. /\ wk[w].pc = "idle" /\ wk'[w].pc \in {"idle", "check"} /\ active' = active
          /\ \A v \in Workers : v # w => wk'[v] = wk[v]
      BY <1>0, <2>7 DEF Receive
    <3> QED
      BY ZenonT(60), <3>1, AdmissionKeep DEF Uploading
  <2> QED
    BY ZenonT(60), <1>1, <2>2, <2>3, <2>4, <2>5, <2>6, <2>7, AdmissionAdmit, AdmissionRelease DEF WorkerStep
<1>2. ASSUME NEW p \in Paths, NEW large \in BOOLEAN, Write(p, large) PROVE AdmissionExact'
  BY <1>2, <1>a DEF Write
<1>3. ASSUME NEW p \in Paths, FlushSave(p) \/ RetryRead(p) \/ DiscardCancel(p) \/ RemoveRecord(p)
      PROVE  AdmissionExact'
  BY ZenonT(60), <1>3, <1>a DEF FlushSave, RetryRead, DiscardCancel, RemoveRecord
<1>4. ASSUME NEW p \in Paths, NEW q \in Paths, RenameMove(p, q) PROVE AdmissionExact'
  BY ZenonT(60), <1>4, <1>a DEF RenameMove
<1>5. ASSUME NEW p \in Paths,
             FlushEnqueue(p) \/ DiscardRemove(p) \/ RemoveCancel(p) \/ ResumeRecord(p)
      PROVE  AdmissionExact'
  BY ZenonT(60), <1>5, <1>a DEF FlushEnqueue, DiscardRemove, RemoveCancel, ResumeRecord
<1>6. CASE \/ RetrySave \/ RetryCancel \/ RetryEnqueue \/ RenameQueue \/ ResumeList
           \/ CloseService \/ CloseFlip
  BY ZenonT(60), <1>6, <1>a DEF RetrySave, RetryCancel, RetryEnqueue, RenameQueue, ResumeList,
       CloseService, CloseFlip
<1>7. CASE Start
  <2>1. active' = active /\ \A v \in Workers : wk[v].pc = "off" /\ wk'[v].pc = "idle"
    BY ZenonT(60), <1>7 DEF Start, Off, HoldInv
  <2> QED
    BY <2>1, AdmissionKeep DEF Uploading
<1>8. CASE Crash
  <2>1. Admitted' = {} /\ active' = NoActive
    BY <1>8 DEF Crash, Admitted, Off
  <2>2. {w \in Admitted' : ~wk'[w].rec.large} = {}
    BY <2>1
  <2> QED
    BY <2>1, <2>2, FS_EmptySet DEF AdmissionExact, NoActive
<1>9. ASSUME NEW p \in Paths, Ripen(p) \/ Due(p) PROVE AdmissionExact'
  BY <1>9, <1>a DEF Ripen, Due
<1>10. CASE UNCHANGED vars
  BY <1>10, <1>a DEF vars
<1> QED
  BY ZenonT(60), <1>1, <1>2, <1>3, <1>4, <1>5, <1>6, <1>7, <1>8, <1>9, <1>10 DEF Next, Begin, Continue

\* The counters of Admission are the uploads between TryAcquire and Release, and a
\* large one is alone among them, for any number of workers and however the size
\* of a record changes while its copy is being uploaded.
THEOREM AdmissionCounts == Spec => []AdmissionExact
<1>1. TypeOK /\ HoldInv /\ AdmissionExact /\ [Next]_vars => AdmissionExact'
  BY AdmissionNext
<1> QED
  BY <1>1, AdmissionInit, Holding, PTL DEF Spec

-----------------------------------------------------------------------------
(* No upload is forgotten.                                                 *)

\* The operations that cancel a task after a step of their own, or revive a
\* record another operation has put away: at most one of them is in use.
OneCanceller == \A a, b \in Requests \cap {"remove", "rename", "retry"} : a = b

\* Handled, restricted to the hands that queue an upload that is eligible.
InHand(p) ==
  \/ task[p] \in {"waiting", "due"}
  \/ \E w \in Workers :
       /\ Holds(w, p)
       /\ \/ wk[w].pc \in {"check", "admit", "claim", "exec"} /\ Same(rec[p], wk[w].rec)
          \/ wk[w].pc = "requeue" \/ task[p] = "parked"
  \/ p \in flushing \/ p \in dismissed
  \/ p = ren.new /\ Eligible(ren.rec)
  \/ rty.path = p /\ rty.pc \in {"cancel", "enqueue"}
  \/ Eligible(resume[p])

\* What the updates of a record mean for its eligibility.
LEMMA EligibleUpdates ==
  ASSUME NEW r \in Recs, NEW v \in 0 .. MaxVer, NEW large \in BOOLEAN
  PROVE  /\ [r EXCEPT !.started = TRUE].ver = r.ver /\ [r EXCEPT !.ripe = TRUE].ver = r.ver
         /\ Eligible([r EXCEPT !.started = TRUE]) <=> Eligible(r)
         /\ Eligible([r EXCEPT !.ripe = TRUE]) <=> Eligible(r)
         /\ [r EXCEPT !.started = TRUE].open <=> r.open
         /\ [r EXCEPT !.ripe = TRUE].open <=> r.open
         /\ Eligible([r EXCEPT !.ver = v, !.ripe = FALSE]) /\ Present(r) => Eligible(r)
         /\ ~Eligible([r EXCEPT !.ver = v, !.fail = TRUE])
         /\ ~Eligible([r EXCEPT !.ver = v, !.fail = TRUE, !.ripe = FALSE])
         /\ ~Eligible([r EXCEPT !.ver = v, !.frozen = FALSE, !.ripe = FALSE, !.large = large])
         /\ ~Eligible([r EXCEPT !.ver = v, !.frozen = FALSE, !.ripe = FALSE])
         /\ [r EXCEPT !.ver = v, !.open = TRUE, !.ripe = FALSE, !.large = large].open
         /\ ~Eligible([NoRec EXCEPT !.ver = v, !.gen = v, !.large = large])
         /\ ~Eligible(NoRec)
BY SMTT(60) DEF Recs, Eligible, Present, NoRec

\* Hands that a step leaves as they are, or moves forward, still hold the path.
LEMMA InHandFrame ==
  ASSUME NEW p \in Paths, InHand(p),
         task[p] \in {"waiting", "due"} => task'[p] \in {"waiting", "due"},
         task[p] = "parked" => task'[p] = "parked",
         rec'[p].ver = rec[p].ver,
         \A w \in Workers : wk[w].path = p =>
           /\ wk'[w].path = p /\ wk'[w].rec = wk[w].rec
           /\ wk[w].pc = "requeue" => wk'[w].pc = "requeue"
           /\ wk[w].pc \in {"check", "admit", "claim", "exec"} /\ Same(rec[p], wk[w].rec) =>
                wk'[w].pc \in {"check", "admit", "claim", "exec"},
         p \in flushing => p \in flushing', p \in dismissed => p \in dismissed',
         p = ren.new /\ Eligible(ren.rec) => ren' = ren,
         rty.path = p /\ rty.pc \in {"cancel", "enqueue"} => rty' = rty,
         Eligible(resume[p]) => resume'[p] = resume[p]
  PROVE  InHand(p)'
<1>1. CASE \E w \in Workers :
             /\ wk[w].path = p
             /\ \/ wk[w].pc \in {"check", "admit", "claim", "exec"} /\ Same(rec[p], wk[w].rec)
                \/ wk[w].pc = "requeue" \/ task[p] = "parked"
  <2>1. PICK w \in Workers :
             /\ wk[w].path = p
             /\ \/ wk[w].pc \in {"check", "admit", "claim", "exec"} /\ Same(rec[p], wk[w].rec)
                \/ wk[w].pc = "requeue" \/ task[p] = "parked"
    BY ZenonT(60), <1>1
  <2>2. Same(rec[p], wk[w].rec) => Same(rec[p], wk[w].rec)'
    BY ZenonT(60), <2>1 DEF Same, Present
  <2>3. \/ wk'[w].pc \in {"check", "admit", "claim", "exec"} /\ Same(rec[p], wk[w].rec)'
        \/ wk'[w].pc = "requeue" \/ task'[p] = "parked"
    BY SMTT(60), <2>1, <2>2
  <2> QED
    BY ZenonT(60), <2>1, <2>3 DEF InHand, Holds
<1>2. CASE Eligible(resume[p])
  BY ZenonT(60), <1>2 DEF InHand, Eligible, Present
<1>3. CASE p = ren.new /\ Eligible(ren.rec)
  BY ZenonT(60), <1>3 DEF InHand, Eligible, Present
<1> QED
  BY ZenonT(60), <1>1, <1>2, <1>3 DEF InHand, Holds

\* What queueing a path does while the VFS runs.
LEMMA QueueRunning ==
  ASSUME TypeOK, HoldInv, life = "running", NEW p \in Paths, NEW r,
         \/ Schedule(p) \/ Gated(p) \/ (Enqueue(p, r) /\ ~r.fail)
  PROVE  /\ task'[p] = IF p \in claimed THEN "parked" ELSE "waiting"
         /\ \A q \in Paths : q # p => task'[q] = task[q]
<1>1. ~closed
  BY ZenonT(60) DEF HoldInv
<1>2. Schedule(p)
  BY ZenonT(60) DEF Gated, Enqueue, Running
<1> QED
  BY ZenonT(60), <1>1, <1>2 DEF Schedule, TypeOK

LEMMA QueuedInHand ==
  ASSUME HoldInv, NEW p \in Paths,
         task'[p] = IF p \in claimed THEN "parked" ELSE "waiting",
         \A w \in Workers : wk'[w].path = wk[w].path
  PROVE  InHand(p)'
<1>1. CASE p \in claimed
  <2>1. PICK w \in Workers : wk[w].path = p
    BY ZenonT(60), <1>1 DEF HoldInv
  <2>2. wk'[w].path = p /\ task'[p] = "parked"
    BY ZenonT(60), <1>1, <2>1
  <2> QED
    BY ZenonT(60), <2>2 DEF InHand, Holds
<1>2. CASE p \notin claimed
  BY ZenonT(60), <1>2 DEF InHand
<1> QED
  BY ZenonT(60), <1>1, <1>2

LEMMA FaultsGrow == TypeOK /\ Faulty => faults' # 0
BY SMTT(60), ScheduleAssumption DEF TypeOK, Faulty

\* Every frozen upload is in somebody's hands.
AllInHand == \A p \in Paths : Eligible(rec[p]) /\ ~rec[p].open => InHand(p)

\* A path whose record was removed, or renamed away, has none that may be uploaded
\* until its task has been cancelled too.
SideInv ==
  /\ \A p \in dropping : ~Eligible(rec[p]) /\ "remove" \in Requests
  /\ ren # NoRen => ~Eligible(rec[ren.old]) /\ ren.old \in Paths /\ "rename" \in Requests
  /\ rty.pc # "idle" => rty.path \in Paths /\ "retry" \in Requests

StrandInv ==
  /\ life = "running" /\ faults = 0 => AllInHand
  /\ SideInv

\* What a worker step does to the path it holds and to the others.
LEMMA StrandWorker ==
  ASSUME TypeOK, HoldInv, life = "running", AllInHand, NEW w \in Workers, WorkerStep(w),
         faults' = 0
  PROVE  AllInHand'
<1> DEFINE p == wk[w].path
<1>0. /\ wk \in [Workers -> WorkerState] /\ wk[w] \in WorkerState /\ task \in TaskType
      /\ rec \in [Paths -> Recs] /\ p \in Paths \cup {None}
      /\ wk[w].pc \notin {"off", "idle"} => p \in Paths
  BY SMTT(60), StateFields DEF TypeOK, HoldInv, TaskType
<1>1. SUFFICES ASSUME NEW q \in Paths, Eligible(rec[q])', ~rec'[q].open PROVE InHand(q)'
  BY ZenonT(60) DEF AllInHand
<1>a. ASSUME NEW st \in Stages, Goto(w, st) PROVE
        /\ wk'[w].pc = st /\ wk'[w].rec = wk[w].rec
        /\ \A v \in Workers : wk'[v].path = wk[v].path
        /\ \A v \in Workers : v # w => wk'[v] = wk[v]
  BY ZenonT(60), <1>0, <1>a, GotoMoves
<1>b. ASSUME rec'[q] = rec[q], UNCHANGED env, \A v \in Workers : v # w => wk'[v] = wk[v],
             q # p, task'[q] = task[q] \/ (task[q] \in {"waiting", "due"} /\ task'[q] = "waiting")
      PROVE  InHand(q)'
  <2>1. InHand(q)
    BY ZenonT(60), <1>1, <1>b DEF AllInHand, Eligible, Present
  <2> QED
    BY ZenonT(60), <1>b, <2>1, InHandFrame DEF env
<1>c. ASSUME NEW st \in Stages, Goto(w, st), task' = task, UNCHANGED env, q = p,
             rec'[q].ver = rec[q].ver, Eligible(rec[q]), ~rec[q].open, wk[w].pc # "requeue",
             Same(rec[q], wk[w].rec) /\ wk[w].pc \in {"check", "admit", "claim", "exec"} =>
               st \in {"check", "admit", "claim", "exec"}
      PROVE  InHand(q)'
  <2>1. InHand(q)
    BY ZenonT(60), <1>c DEF AllInHand
  <2>2. \A v \in Workers : wk[v].path = q => v = w
    BY ZenonT(60), <1>0, <1>c, ScheduleAssumption DEF HoldInv
  <2>3. wk'[w].pc = st /\ wk'[w].rec = wk[w].rec /\ wk'[w].path = wk[w].path
    BY ZenonT(60), <1>a, <1>c
  <2> QED
    BY ZenonT(60), <1>c, <2>1, <2>2, <2>3, InHandFrame DEF env
<1>d. ASSUME NEW st \in Stages, Goto(w, st), NEW r, UNCHANGED <<env, rec>>,
             Gated(p) \/ (Enqueue(p, r) /\ ~r.fail), p \in Paths
      PROVE  InHand(q)'
  <2>1. /\ task'[p] = IF p \in claimed THEN "parked" ELSE "waiting"
        /\ \A s \in Paths : s # p => task'[s] = task[s]
    BY ZenonT(60), <1>d, QueueRunning
  <2>2. CASE q = p
    BY ZenonT(60), <1>a, <1>d, <2>1, <2>2, QueuedInHand
  <2>3. CASE q # p
    BY ZenonT(60), <1>a, <1>b, <1>d, <2>1, <2>3
  <2> QED
    BY ZenonT(60), <2>2, <2>3
<1>2. CASE CheckLatest(w)
  <2>1. CASE Same(rec[p], wk[w].rec)
    <3>1. Goto(w, "admit") /\ task' = task /\ UNCHANGED <<env, rec>> /\ wk[w].pc = "check"
      BY ZenonT(60), <1>2, <2>1 DEF CheckLatest
    <3> QED
      BY ZenonT(60), <1>0, <1>1, <1>a, <1>b, <1>c, <3>1 DEF Stages, Eligible, Present
  <2>2. CASE ~Same(rec[p], wk[w].rec)
    <3>1. Goto(w, "done") /\ UNCHANGED <<env, rec>> /\ wk[w].pc = "check"
          /\ IF Present(rec[p]) /\ rec[p].frozen THEN Enqueue(p, rec[p]) ELSE UNCHANGED task
      BY ZenonT(60), <1>2, <2>2 DEF CheckLatest
    <3>2. CASE Eligible(rec[p])
      <4>1. Enqueue(p, rec[p]) /\ ~rec[p].fail
        BY ZenonT(60), <3>1, <3>2 DEF Eligible
      <4> QED
        BY ZenonT(60), <1>0, <1>d, <3>1, <4>1 DEF Stages
    <3>3. CASE ~Eligible(rec[p])
      <4>1. q # p
        BY ZenonT(60), <1>1, <3>1, <3>3 DEF Eligible, Present
      <4>2. task'[q] = task[q]
        BY ZenonT(60), <1>0, <3>1, <4>1 DEF Enqueue, Gated, Schedule, TaskType
      <4> QED
        BY ZenonT(60), <1>a, <1>b, <3>1, <4>1, <4>2 DEF Stages
    <3> QED
      BY ZenonT(60), <3>2, <3>3
  <2> QED
    BY ZenonT(60), <2>1, <2>2
<1>3. CASE Admit(w)
  <2>1. CASE Admits(wk[w].rec)
    <3>1. Goto(w, "claim") /\ task' = task /\ UNCHANGED <<env, rec>> /\ wk[w].pc = "admit"
      BY ZenonT(60), <1>3, <2>1 DEF Admit
    <3> QED
      BY ZenonT(60), <1>0, <1>1, <1>a, <1>b, <1>c, <3>1 DEF Stages, Eligible, Present
  <2>2. CASE ~Admits(wk[w].rec)
    BY ZenonT(60), <1>0, <1>3, <1>d, <2>2 DEF Admit, Stages
  <2> QED
    BY ZenonT(60), <2>1, <2>2
<1>e. ASSUME Goto(w, "release"), UNCHANGED <<env, rec>>, RequeueLatest(p), p \in Paths
      PROVE  InHand(q)'
  <2>1. CASE Eligible(rec[p])
    <3>1. Enqueue(p, rec[p]) /\ ~rec[p].fail
      BY SMTT(60), <1>e, <2>1 DEF Eligible, RequeueLatest
    <3> QED
      BY ZenonT(60), <1>d, <1>e, <3>1 DEF Stages
  <2>2. CASE ~Eligible(rec[p])
    <3>1. q # p
      BY ZenonT(60), <1>1, <1>e, <2>2 DEF Eligible, Present
    <3>2. task'[q] = task[q]
      BY ZenonT(60), <1>0, <1>e, <3>1 DEF RequeueLatest, Enqueue, Gated, Schedule, TaskType
    <3> QED
      BY ZenonT(60), <1>a, <1>b, <1>e, <3>1, <3>2 DEF Stages
  <2> QED
    BY ZenonT(60), <2>1, <2>2
<1>4. CASE Claim(w)
  <2>1. CASE Same(rec[p], wk[w].rec)
    <3>1. Goto(w, "exec") /\ task' = task /\ UNCHANGED env /\ wk[w].pc = "claim"
          /\ rec' = [rec EXCEPT ![p].started = TRUE] /\ p \in Paths /\ rec[p] \in Recs
      BY <1>0, <1>4, <2>1 DEF Claim
    <3>2. rec'[p] = [rec[p] EXCEPT !.started = TRUE] /\ (q # p => rec'[q] = rec[q])
      BY ZenonT(60), <1>0, <3>1
    <3>3. CASE q # p
      BY ZenonT(60), <1>a, <1>b, <3>1, <3>2, <3>3 DEF Stages
    <3>4. CASE q = p
      <4>1. Eligible(rec'[p]) /\ ~rec'[p].open
        BY ZenonT(60), <1>1, <3>4 DEF Eligible, Present
      <4>2. rec'[q].ver = rec[q].ver /\ Eligible(rec[q]) /\ ~rec[q].open
        BY SMTT(60), <3>1, <3>2, <3>4, <4>1 DEF Recs, Eligible, Present
      <4> QED
        BY ZenonT(60), <1>c, <3>1, <3>4, <4>2 DEF Stages
    <3> QED
      BY <3>3, <3>4
  <2>2. CASE ~Same(rec[p], wk[w].rec)
    BY ZenonT(60), <1>0, <1>4, <1>e, <2>2 DEF Claim
  <2> QED
    BY ZenonT(60), <2>1, <2>2
<1>f. ASSUME NEW r, Save(p, r), p \in Paths, NEW st \in Stages, Goto(w, st), task' = task,
             UNCHANGED env, ~Eligible(r)
      PROVE  InHand(q)'
  <2>1. rec'[p] = r /\ (q # p => rec'[q] = rec[q])
    BY ZenonT(60), <1>0, <1>f DEF Save
  <2>2. q # p
    BY ZenonT(60), <1>1, <1>f, <2>1 DEF Eligible, Present
  <2> QED
    BY ZenonT(60), <1>a, <1>b, <1>f, <2>1, <2>2
<1>5. CASE Committed(w)
  <2>1. ~Eligible(NoRec)
    BY ZenonT(60) DEF Eligible, Present, NoRec
  <2> QED
    BY ZenonT(60), <1>0, <1>5, <1>f, <2>1 DEF Committed, Stages
<1>6. CASE Superseded(w)
  BY <1>0, <1>6, <1>e DEF Superseded
<1>7. CASE Failed(w)
  <2>1. ver' \in 0 .. MaxVer /\ p \in Paths /\ rec[p] \in Recs /\ task' = task /\ UNCHANGED env
    BY ZenonT(60), <1>0, <1>7, TickType DEF Failed
  <2>2. CASE Save(p, [rec[p] EXCEPT !.ver = ver', !.ripe = FALSE]) /\ Goto(w, "requeue")
    <3>1. CASE q = p
      <4>1. wk'[w].path = q /\ wk'[w].pc = "requeue"
        BY ZenonT(60), <1>a, <2>2, <3>1 DEF Stages
      <4> QED
        BY ZenonT(60), <4>1 DEF InHand, Holds
    <3>2. CASE q # p
      BY SMTT(60), <1>a, <1>b, <2>1, <2>2, <3>2 DEF Stages, Save
    <3> QED
      BY ZenonT(60), <3>1, <3>2
  <2>3. CASE Save(p, [rec[p] EXCEPT !.ver = ver', !.fail = TRUE]) /\ Goto(w, "release")
    <3>1. ~Eligible([rec[p] EXCEPT !.ver = ver', !.fail = TRUE])
      BY SMTT(60), <2>1 DEF Recs, Eligible
    <3> QED
      BY ZenonT(60), <1>f, <2>1, <2>3, <3>1 DEF Stages
  <2> QED
    BY <1>7, <2>2, <2>3 DEF Failed
<1>8. CASE FailedSilently(w)
  <2>1. Goto(w, "release") /\ task' = task /\ UNCHANGED <<env, rec>> /\ wk[w].pc = "exec"
        /\ ~Same(rec[p], wk[w].rec)
    BY ZenonT(60), <1>8 DEF FailedSilently, Running
  <2> QED
    BY ZenonT(60), <1>0, <1>1, <1>a, <1>b, <1>c, <2>1 DEF Stages, Eligible, Present
<1>9. CASE SaveFailed(w)
  BY ZenonT(60), <1>9, FaultsGrow DEF SaveFailed
<1>10. CASE Requeue(w)
  BY ZenonT(60), <1>0, <1>10, <1>d DEF Requeue, Stages
<1>11. CASE Release(w)
  <2>1. Goto(w, "done") /\ task' = task /\ UNCHANGED <<env, rec>> /\ wk[w].pc = "release"
    BY <1>11 DEF Release
  <2> QED
    BY ZenonT(60), <1>0, <1>1, <1>a, <1>b, <1>c, <2>1 DEF Stages, Eligible, Present
<1>12. CASE CompleteReceive(w)
  <2>1. /\ wk[w].pc = "done" /\ p \in Paths /\ UNCHANGED <<env, rec>>
        /\ \A v \in Workers : v # w => wk'[v] = wk[v]
        /\ \A s \in Paths : task'[s] = IF s = p /\ task[s] = "parked" THEN "waiting" ELSE task[s]
    BY SMTT(60), <1>0, <1>12 DEF CompleteReceive
  <2>2. CASE q # p
    BY ZenonT(60), <1>b, <2>1, <2>2
  <2>3. CASE q = p
    <3>1. InHand(q)
      BY ZenonT(60), <1>1, <2>1 DEF AllInHand, Eligible, Present
    <3>2. \A v \in Workers : wk[v].path = q => v = w
      BY ZenonT(60), <1>0, <2>1, <2>3, ScheduleAssumption DEF HoldInv
    <3>3. CASE task[q] = "parked"
      BY ZenonT(60), <2>1, <2>3, <3>3 DEF InHand
    <3>4. CASE task[q] # "parked"
      <4>1. task'[q] = task[q]
        BY ZenonT(60), <2>1, <3>4
      <4>2. \/ task[q] \in {"waiting", "due"} \/ q \in flushing \/ q \in dismissed
            \/ q = ren.new /\ Eligible(ren.rec)
            \/ rty.path = q /\ rty.pc \in {"cancel", "enqueue"}
            \/ Eligible(resume[q])
        BY ZenonT(60), <2>1, <3>1, <3>2, <3>4 DEF InHand, Holds
      <4> QED
        BY ZenonT(60), <2>1, <4>1, <4>2 DEF InHand, env, Eligible, Present
    <3> QED
      BY ZenonT(60), <3>3, <3>4
  <2> QED
    BY ZenonT(60), <2>2, <2>3
<1>13. CASE WorkerExit(w)
  BY ZenonT(60), <1>13 DEF WorkerExit, HoldInv
<1>14. ASSUME NEW s \in Paths, Receive(w, s) PROVE InHand(q)'
  <2>1. wk[w].pc = "idle" /\ p = None /\ task[s] = "due" /\ UNCHANGED <<env, rec>> /\ q # p
        /\ \A v \in Workers : v # w => wk'[v] = wk[v]
    <3>1. wk[w].pc = "idle" /\ task[s] = "due" /\ UNCHANGED <<env, rec>>
      BY ZenonT(60), <1>14 DEF Receive
    <3>2. p = None /\ q # p
      BY ZenonT(60), <3>1, ScheduleAssumption DEF HoldInv
    <3>3. \A v \in Workers : v # w => wk'[v] = wk[v]
      BY ZenonT(60), <1>0, <1>14 DEF Receive
    <3> QED
      BY ZenonT(60), Zenon, <3>1, <3>2, <3>3
  <2>2. CASE q # s
    <3>1. task'[q] = task[q]
      BY ZenonT(60), <1>0, <1>14, <2>2 DEF Receive, Cancel, TaskType
    <3> QED
      BY ZenonT(60), <1>b, <2>1, <3>1
  <2>3. CASE q = s
    <3>1. Eligible(rec[s])
      BY ZenonT(60), <1>1, <2>1, <2>3 DEF Eligible, Present
    <3>2. CASE ~rec[s].ripe
      <4>1. task'[q] = "waiting"
        BY ZenonT(60), <1>0, <1>14, <2>3, <3>1, <3>2 DEF Receive, TaskType
      <4> QED
        BY SMTT(60), <4>1 DEF InHand
    <3>3. CASE rec[s].ripe
      <4>1. wk'[w] = [pc |-> "check", path |-> s, rec |-> rec[s]]
        BY ZenonT(60), <1>0, <1>14, <3>1, <3>3 DEF Receive
      <4>2. Same(rec[q], wk[w].rec)' /\ wk'[w].path = q /\ wk'[w].pc = "check"
        BY SMTT(60), <2>1, <2>3, <3>1, <4>1 DEF Same, Eligible, Present
      <4> QED
        BY ZenonT(60), <4>2 DEF InHand, Holds
    <3> QED
      BY ZenonT(60), <3>2, <3>3
  <2> QED
    BY SMTT(60), <2>2, <2>3
<1> QED
  BY ZenonT(60), <1>2, <1>3, <1>4, <1>5, <1>6, <1>7, <1>8, <1>9, <1>10, <1>11, <1>12, <1>13, <1>14
     DEF WorkerStep

\* The operations, time and the VFS's life.
LEMMA StrandUser ==
  ASSUME TypeOK, HoldInv, StrandInv, life = "running", life' = "running", faults' = 0, AllInHand,
         Begin \/ Continue \/ \E p \in Paths : Ripen(p) \/ Due(p)
  PROVE  AllInHand'
<1>0. /\ task \in TaskType /\ rec \in [Paths -> Recs] /\ ren \in RenameState /\ rty \in RetryState
      /\ resume \in [Paths -> Recs] /\ wk \in [Workers -> WorkerState]
      /\ \A s \in Paths : rec[s] \in Recs /\ resume[s] \in Recs
      /\ ~closed /\ ~Eligible(NoRec) /\ None \notin Paths
  BY SMTT(60), ScheduleAssumption DEF TypeOK, HoldInv, TaskType, Eligible, Present, NoRec
<1>1. SUFFICES ASSUME NEW q \in Paths, Eligible(rec'[q]), ~rec'[q].open PROVE InHand(q)'
  BY ZenonT(60) DEF AllInHand, Eligible, Present
<1>b. ASSUME rec'[q] = rec[q], wk' = wk,
             task'[q] = task[q] \/ (task[q] \in {"waiting", "due"} /\ task'[q] \in {"waiting", "due"}),
             q \in flushing => q \in flushing', q \in dismissed => q \in dismissed',
             q = ren.new /\ Eligible(ren.rec) => ren' = ren,
             rty.path = q /\ rty.pc \in {"cancel", "enqueue"} => rty' = rty,
             Eligible(resume[q]) => resume'[q] = resume[q]
      PROVE  InHand(q)'
  <2>1. InHand(q)
    BY ZenonT(60), <1>1, <1>b DEF AllInHand
  <2> QED
    BY ZenonT(60), <1>b, <2>1, InHandFrame
<1>c. ASSUME NEW p \in Paths, NEW r, wk' = wk,
             Schedule(p) \/ Gated(p) \/ (Enqueue(p, r) /\ ~r.fail)
      PROVE  InHand(p)' /\ (q # p => task'[q] = task[q])
  BY ZenonT(60), <1>c, QueueRunning, QueuedInHand
<1>2. ASSUME NEW p \in Paths, NEW large \in BOOLEAN, Write(p, large) PROVE InHand(q)'
  <2>1. ver' \in 0 .. MaxVer /\ rec[p].large \in BOOLEAN /\ rec[p] \in Recs
    BY ZenonT(60), <1>0, <1>2, TickType, RecFields DEF Write
  <2>2. PICK r : rec' = [rec EXCEPT ![p] = r] /\ (~Eligible(r) \/ r.open)
    <3>1. /\ ~Eligible([NoRec EXCEPT !.ver = ver', !.gen = ver', !.large = large])
          /\ ~Eligible([rec[p] EXCEPT !.ver = ver', !.frozen = FALSE, !.ripe = FALSE, !.large = large])
          /\ [rec[p] EXCEPT !.ver = ver', !.open = TRUE, !.ripe = FALSE,
                            !.large = large \/ rec[p].large].open
      BY ZenonT(60), <2>1, EligibleUpdates
    <3> QED
      BY ZenonT(60), <1>2, <3>1 DEF Write, Save
  <2>3. q # p /\ rec'[q] = rec[q]
    BY ZenonT(60), <1>0, <1>1, <2>2
  <2> QED
    BY ZenonT(60), <1>2, <1>b, <2>3 DEF Write
<1>3. ASSUME NEW p \in Paths, FlushSave(p) PROVE InHand(q)'
  <2>1. q # p => rec'[q] = rec[q]
    BY <1>0, <1>3 DEF FlushSave, Save
  <2>2. q = p => q \in flushing'
    BY SMTT(60), <1>3 DEF FlushSave
  <2> QED
    BY ZenonT(60), <1>3, <1>b, <2>1, <2>2 DEF FlushSave, InHand
<1>4. ASSUME NEW p \in Paths, FlushEnqueue(p) PROVE InHand(q)'
  <2>1. InHand(p)' /\ (q # p => task'[q] = task[q])
    BY ZenonT(60), <1>4, <1>c DEF FlushEnqueue
  <2>2. CASE q # p
    BY ZenonT(60), <1>4, <1>b, <2>1, <2>2 DEF FlushEnqueue
  <2> QED
    BY ZenonT(60), <2>1, <2>2
<1>5. ASSUME NEW p \in Paths, RetryRead(p) PROVE InHand(q)'
  BY ZenonT(60), <1>5, <1>b DEF RetryRead
<1>6. CASE RetrySave
  <2>1. rty.path \in Paths /\ rty' = [rty EXCEPT !.pc = "cancel"]
    BY <1>6 DEF RetrySave, StrandInv, SideInv
  <2>2. rty'.path = rty.path /\ rty'.pc = "cancel"
    BY SMTT(60), <1>0, <2>1 DEF RetryState
  <2>3. CASE q = rty.path
    BY ZenonT(60), <2>2, <2>3 DEF InHand
  <2>4. CASE q # rty.path
    <3>1. rec'[q] = rec[q]
      BY ZenonT(60), <1>0, <1>6, <2>1, <2>4 DEF RetrySave, Save
    <3> QED
      BY ZenonT(60), <1>6, <1>b, <2>4, <3>1 DEF RetrySave
  <2> QED
    BY <2>3, <2>4
<1>7. CASE RetryCancel
  <2>1. rty' = [rty EXCEPT !.pc = "enqueue"]
    BY <1>7 DEF RetryCancel
  <2>2. rty'.path = rty.path /\ rty'.pc = "enqueue"
    BY ZenonT(60), <1>0, <2>1 DEF RetryState
  <2>3. CASE q = rty.path
    BY <2>2, <2>3 DEF InHand
  <2>4. CASE q # rty.path
    <3>1. task'[q] = task[q]
      BY ZenonT(60), <1>0, <1>7, <2>4 DEF RetryCancel, Cancel, TaskType
    <3> QED
      BY ZenonT(60), <1>7, <1>b, <2>4, <3>1 DEF RetryCancel
  <2> QED
    BY <2>3, <2>4
<1>8. CASE RetryEnqueue
  <2>1. PICK p \in Paths : p = rty.path
    BY ZenonT(60), <1>8 DEF RetryEnqueue, StrandInv, SideInv
  <2>2. InHand(p)' /\ (q # p => task'[q] = task[q])
    BY ZenonT(60), <1>8, <1>c, <2>1 DEF RetryEnqueue
  <2>3. CASE q # p
    BY ZenonT(60), <1>8, <1>b, <2>1, <2>2, <2>3 DEF RetryEnqueue
  <2> QED
    BY ZenonT(60), <2>2, <2>3
<1>9. ASSUME NEW p \in Paths, DiscardCancel(p) PROVE InHand(q)'
  <2>1. CASE q = p
    BY ZenonT(60), <1>9, <2>1 DEF DiscardCancel, InHand
  <2>2. CASE q # p
    <3>1. task'[q] = task[q]
      BY ZenonT(60), <1>0, <1>9, <2>2 DEF DiscardCancel, Cancel, TaskType
    <3> QED
      BY ZenonT(60), <1>9, <1>b, <3>1 DEF DiscardCancel
  <2> QED
    BY SMTT(60), <2>1, <2>2
<1>10. ASSUME NEW p \in Paths, DiscardRemove(p) PROVE InHand(q)'
  <2>1. Save(p, NoRec)
    BY ZenonT(60), <1>10, FaultsGrow DEF DiscardRemove
  <2>2. q # p /\ rec'[q] = rec[q]
    BY ZenonT(60), <1>0, <1>1, <2>1 DEF Save
  <2> QED
    BY ZenonT(60), <1>10, <1>b, <2>2 DEF DiscardRemove
<1>11. ASSUME NEW p \in Paths, RemoveRecord(p) PROVE InHand(q)'
  <2>1. q # p /\ rec'[q] = rec[q]
    BY ZenonT(60), <1>0, <1>1, <1>11 DEF RemoveRecord, Save
  <2> QED
    BY ZenonT(60), <1>11, <1>b, <2>1 DEF RemoveRecord
<1>12. ASSUME NEW p \in Paths, RemoveCancel(p) PROVE InHand(q)'
  <2>1. q # p
    BY ZenonT(60), <1>1, <1>12 DEF RemoveCancel, StrandInv, SideInv
  <2>2. task'[q] = task[q]
    BY ZenonT(60), <1>0, <1>12, <2>1 DEF RemoveCancel, Cancel, TaskType
  <2> QED
    BY ZenonT(60), <1>12, <1>b, <2>2 DEF RemoveCancel
<1>13. ASSUME NEW p \in Paths, NEW s \in Paths, RenameMove(p, s) PROVE InHand(q)'
  <2>1. /\ p # s /\ ren' = [old |-> p, new |-> s, rec |-> rec[p]] /\ ren.new = None
        /\ rec'[p] = NoRec /\ rec'[s] = rec[p] /\ \A t \in Paths \ {p, s} : rec'[t] = rec[t]
    BY ZenonT(60), <1>0, <1>13 DEF RenameMove, NoRen
  <2>2. q # p
    BY ZenonT(60), <1>0, <1>1, <2>1
  <2>3. CASE q = s
    <3>1. q = ren'.new /\ Eligible(ren'.rec)
      BY ZenonT(60), <1>1, <2>1, <2>3
    <3> QED
      BY ZenonT(60), <3>1 DEF InHand, Eligible, Present
  <2>4. CASE q # s
    BY ZenonT(60), <1>0, <1>13, <1>b, <2>1, <2>2, <2>4 DEF RenameMove
  <2> QED
    BY ZenonT(60), <2>3, <2>4
<1>14. CASE RenameQueue
  <2>1. ren # NoRen /\ UNCHANGED <<rec, wk, flushing, rty, dismissed, resume>>
    BY ZenonT(60), <1>14 DEF RenameQueue
  <2>2. q # ren.old
    BY ZenonT(60), <1>1, <2>1 DEF StrandInv, SideInv
  <2>3. task' = [p \in Paths |->
                   IF p = ren.old THEN "none"
                   ELSE IF p = ren.new /\ Eligible(ren.rec) /\ ~closed
                   THEN IF p \in claimed THEN "parked" ELSE "waiting" ELSE task[p]]
    BY ZenonT(60), <1>14 DEF RenameQueue, Running
  <2>4. CASE q = ren.new /\ Eligible(ren.rec)
    <3>1. task'[q] = IF q \in claimed THEN "parked" ELSE "waiting"
      BY ZenonT(60), <1>0, <2>2, <2>3, <2>4
    <3>2. \A w \in Workers : wk'[w].path = wk[w].path
      BY ZenonT(60), <2>1
    <3> QED
      BY ZenonT(60), <3>1, <3>2, QueuedInHand
  <2>5. CASE ~(q = ren.new /\ Eligible(ren.rec))
    <3>1. task'[q] = task[q]
      BY ZenonT(60), <2>2, <2>3, <2>5, <1>14 DEF RenameQueue
    <3>2. InHand(q)
      BY <1>1, <2>1 DEF AllInHand
    <3> QED
      BY ZenonT(60), <2>1, <2>5, <3>1, <3>2, InHandFrame
  <2> QED
    BY ZenonT(60), Zenon, <2>4, <2>5
<1>15. ASSUME NEW p \in Paths, ResumeRecord(p) PROVE InHand(q)'
  <2> DEFINE c == resume[p]
  <2>1. /\ UNCHANGED <<wk, flushing, rty, ren, dismissed>>
        /\ resume' = [resume EXCEPT ![p] = NoRec]
    BY <1>15 DEF ResumeRecord
  <2>2. \/ /\ Tick /\ task' = task
           /\ \/ Save(p, [c EXCEPT !.ver = ver', !.fail = TRUE, !.ripe = FALSE])
              \/ Save(p, [c EXCEPT !.ver = ver', !.frozen = FALSE, !.ripe = FALSE])
        \/ Faulty
        \/ rec' = rec /\ Eligible(c) /\ Enqueue(p, c)
        \/ rec' = rec /\ ~Eligible(c) /\ task' = task
    BY ZenonT(60), <1>15 DEF ResumeRecord
  <2>3. q # p => resume'[q] = resume[q]
    BY <1>0, <2>1
  <2>4. CASE /\ Tick /\ task' = task
             /\ \/ Save(p, [c EXCEPT !.ver = ver', !.fail = TRUE, !.ripe = FALSE])
                \/ Save(p, [c EXCEPT !.ver = ver', !.frozen = FALSE, !.ripe = FALSE])
    <3>1. ver' \in 0 .. MaxVer /\ c \in Recs
      BY ZenonT(60), <1>0, <2>4, TickType
    <3>2. PICK r : Save(p, r) /\ ~Eligible(r)
      <4>1. /\ ~Eligible([c EXCEPT !.ver = ver', !.fail = TRUE, !.ripe = FALSE])
            /\ ~Eligible([c EXCEPT !.ver = ver', !.frozen = FALSE, !.ripe = FALSE])
        BY ZenonT(60), <3>1 DEF Recs, Eligible
      <4> HIDE DEF c
      <4> QED
        BY <2>4, <4>1
    <3>3. q # p /\ rec'[q] = rec[q]
      BY ZenonT(60), <1>0, <1>1, <3>2 DEF Save
    <3> QED
      BY ZenonT(60), <1>b, <2>1, <2>3, <2>4, <3>3
  <2>5. CASE Faulty
    BY ZenonT(60), <2>5, FaultsGrow
  <2>6. CASE rec' = rec /\ Eligible(c) /\ Enqueue(p, c)
    <3>1. ~c.fail /\ wk' = wk
      BY ZenonT(60), <2>1, <2>6 DEF Eligible
    <3>2. InHand(p)' /\ (q # p => task'[q] = task[q])
      BY ZenonT(60), <1>c, <2>6, <3>1
    <3>3. CASE q # p
      BY ZenonT(60), <1>b, <2>1, <2>3, <2>6, <3>2, <3>3
    <3> QED
      BY ZenonT(60), <3>2, <3>3
  <2>7. CASE rec' = rec /\ ~Eligible(c) /\ task' = task
    BY ZenonT(60), <1>b, <2>1, <2>3, <2>7
  <2> QED
    BY ZenonT(60), <2>2, <2>4, <2>5, <2>6, <2>7
<1>16. ASSUME NEW p \in Paths, Ripen(p) PROVE InHand(q)'
  <2>1. rec' = [rec EXCEPT ![p] = [rec[p] EXCEPT !.ripe = TRUE]]
    BY ZenonT(60), <1>0, <1>16 DEF Ripen
  <2>2. CASE q # p
    <3>1. rec'[q] = rec[q]
      BY ZenonT(60), <1>0, <2>1, <2>2
    <3> QED
      BY ZenonT(60), <1>16, <1>b, <3>1 DEF Ripen, env
  <2>3. CASE q = p
    <3>1. rec'[q].ver = rec[q].ver /\ Eligible(rec[q]) /\ ~rec[q].open
      <4>1. rec'[q] = [rec[q] EXCEPT !.ripe = TRUE] /\ rec[q] \in Recs
        BY ZenonT(60), <1>0, <2>1, <2>3
      <4> QED
        BY ZenonT(60), <1>1, <4>1 DEF Recs, Eligible, Present
    <3>2. InHand(q)
      BY ZenonT(60), <3>1 DEF AllInHand
    <3> QED
      BY ZenonT(60), <1>16, <3>1, <3>2, InHandFrame DEF Ripen, env
  <2> QED
    BY ZenonT(60), <2>2, <2>3
<1>17. ASSUME NEW p \in Paths, Due(p) PROVE InHand(q)'
  <2>1. task'[q] = task[q] \/ (task[q] \in {"waiting", "due"} /\ task'[q] \in {"waiting", "due"})
    BY ZenonT(60), <1>0, <1>17 DEF Due, TaskType
  <2> QED
    BY ZenonT(60), <1>17, <1>b, <2>1 DEF Due, env
<1>18. ~Start /\ ~CloseFlip /\ ~ResumeList /\ ~CloseService
  BY SMTT(60) DEF Start, CloseFlip, ResumeList, CloseService
<1>19. CASE Begin
  BY ZenonT(60), <1>2, <1>3, <1>5, <1>9, <1>11, <1>13, <1>18, <1>19 DEF Begin
<1>20. CASE Continue
  BY ZenonT(60), <1>4, <1>6, <1>7, <1>8, <1>10, <1>12, <1>14, <1>15, <1>18, <1>20 DEF Continue
<1> QED
  BY ZenonT(60), <1>16, <1>17, <1>19, <1>20

\* A step that begins none of the three operations keeps what is known of them
\* unless it revives a record they have put away.
LEMMA SideKeep ==
  ASSUME TypeOK, SideInv, dropping' \subseteq dropping, ren' = ren \/ ren' = NoRen,
         rty'.pc # "idle" => rty.pc # "idle" /\ rty'.path = rty.path,
         \A p \in Paths : Eligible(rec'[p]) =>
           Eligible(rec[p]) \/ (p \notin dropping /\ (ren # NoRen => p # ren.old))
  PROVE  SideInv'
<1>1. ASSUME NEW p \in dropping' PROVE ~Eligible(rec'[p])
  BY ZenonT(60), <1>1 DEF SideInv, TypeOK
<1>2. ASSUME ren' # NoRen PROVE ~Eligible(rec'[ren'.old])
  BY ZenonT(60), <1>2 DEF SideInv, TypeOK
<1> QED
  BY ZenonT(60), <1>1, <1>2 DEF SideInv, Eligible, Present

LEMMA SideWorker ==
  ASSUME TypeOK, HoldInv, SideInv, NEW w \in Workers, WorkerStep(w) PROVE SideInv'
<1> DEFINE p == wk[w].path
<1>0. /\ rec \in [Paths -> Recs] /\ wk \in [Workers -> WorkerState]
      /\ wk[w].pc \notin {"off", "idle"} => p \in Paths
      /\ ~Eligible(NoRec)
  BY ZenonT(60), StateFields DEF TypeOK, HoldInv, Eligible, Present, NoRec
<1>a. ASSUME UNCHANGED <<rec, env>> PROVE SideInv'
  BY SMTT(60), <1>a, SideKeep DEF env
<1>b. ASSUME NEW r, rec' = [rec EXCEPT ![p] = r], Eligible(r) => Eligible(rec[p]), UNCHANGED env,
             p \in Paths
      PROVE  SideInv'
  <2>1. \A q \in Paths : Eligible(rec'[q]) => Eligible(rec[q])
    BY ZenonT(60), <1>0, <1>b
  <2> QED
    BY ZenonT(60), <1>b, <2>1, SideKeep DEF env
<1>1. CASE Claim(w)
  <2>1. CASE UNCHANGED rec
    BY <1>1, <1>a, <2>1 DEF Claim
  <2>2. CASE rec' = [rec EXCEPT ![p].started = TRUE]
    <3>1. p \in Paths /\ rec[p] \in Recs /\ UNCHANGED env
      BY ZenonT(60), <1>0, <1>1 DEF Claim
    <3>2. Eligible([rec[p] EXCEPT !.started = TRUE]) => Eligible(rec[p])
      BY <3>1 DEF Recs, Eligible, Present
    <3> QED
      BY ZenonT(60), <1>b, <2>2, <3>1, <3>2
  <2> QED
    BY ZenonT(60), <1>1, <2>1, <2>2 DEF Claim
<1>2. CASE Committed(w)
  BY ZenonT(60), <1>0, <1>2, <1>b DEF Committed, Save
<1>3. CASE Failed(w)
  <2>1. p \in Paths /\ rec[p] \in Recs /\ UNCHANGED env /\ Present(rec[p])
    BY ZenonT(60), <1>0, <1>3 DEF Failed, Same
  <2>2. /\ Eligible([rec[p] EXCEPT !.ver = ver', !.ripe = FALSE]) => Eligible(rec[p])
        /\ ~Eligible([rec[p] EXCEPT !.ver = ver', !.fail = TRUE])
    BY ZenonT(60), <2>1 DEF Recs, Eligible, Present
  <2> QED
    BY ZenonT(60), <1>3, <1>b, <2>1, <2>2 DEF Failed, Save
<1>4. CASE CheckLatest(w) \/ Admit(w) \/ Superseded(w) \/ FailedSilently(w) \/ SaveFailed(w)
  BY <1>4, <1>a DEF CheckLatest, Admit, Superseded, FailedSilently, SaveFailed
<1>5. CASE Requeue(w) \/ Release(w) \/ CompleteReceive(w) \/ WorkerExit(w)
  BY ZenonT(60), <1>5, <1>a DEF Requeue, Release, CompleteReceive, WorkerExit
<1>6. ASSUME NEW q \in Paths, Receive(w, q) PROVE SideInv'
  BY <1>6, <1>a DEF Receive
<1> QED
  BY ZenonT(60), <1>1, <1>2, <1>3, <1>4, <1>5, <1>6 DEF WorkerStep

LEMMA SideUser ==
  ASSUME TypeOK, SideInv, OneCanceller,
         Begin \/ Continue \/ \E p \in Paths : Ripen(p) \/ Due(p)
  PROVE  SideInv'
<1>0. /\ rec \in [Paths -> Recs] /\ resume \in [Paths -> Recs]
      /\ rty \in RetryState /\ \A q \in Paths : rec[q] \in Recs /\ resume[q] \in Recs
      /\ ~Eligible(NoRec) /\ NoRty.pc = "idle"
  BY SMTT(60) DEF TypeOK, Eligible, Present, NoRec, NoRty
<1>a. ASSUME rec' = rec, dropping' \subseteq dropping, ren' = ren \/ ren' = NoRen,
             rty'.pc # "idle" => rty.pc # "idle" /\ rty'.path = rty.path
      PROVE  SideInv'
  BY ZenonT(60), <1>a, SideKeep
<1>b. ASSUME NEW p \in Paths, NEW r, rec' = [rec EXCEPT ![p] = r], UNCHANGED <<dropping, ren, rty>>,
             (Eligible(r) => Eligible(rec[p])) \/ ~Locked(p)
      PROVE  SideInv'
  <2>1. \A q \in Paths : Eligible(rec'[q]) =>
          Eligible(rec[q]) \/ (q \notin dropping /\ (ren # NoRen => q # ren.old))
    BY <1>0, <1>b DEF Locked
  <2> QED
    BY ZenonT(60), <1>b, <2>1, SideKeep
<1>1. ASSUME NEW p \in Paths, NEW large \in BOOLEAN, Write(p, large) PROVE SideInv'
  <2>1. \E r : rec' = [rec EXCEPT ![p] = r]
    BY <1>1 DEF Write, Save
  <2> QED
    BY ZenonT(60), <1>1, <1>b, <2>1 DEF Write
<1>2. ASSUME NEW p \in Paths, FlushSave(p) PROVE SideInv'
  BY ZenonT(60), <1>2, <1>b DEF FlushSave, Save
<1>3. ASSUME NEW p \in Paths, FlushEnqueue(p) \/ DiscardCancel(p) PROVE SideInv'
  BY <1>3, <1>a DEF FlushEnqueue, DiscardCancel
<1>4. ASSUME NEW p \in Paths, RetryRead(p) PROVE SideInv'
  <2>1. rty'.path = p /\ "retry" \in Requests /\ UNCHANGED <<rec, dropping, ren>>
    BY <1>4 DEF RetryRead
  <2> QED
    BY ZenonT(60), <2>1 DEF SideInv, Eligible, Present
<1>5. CASE RetrySave
  <2>1. /\ rty.path \in Paths /\ "retry" \in Requests /\ UNCHANGED <<dropping, ren>>
        /\ rty' = [rty EXCEPT !.pc = "cancel"]
    BY <1>5 DEF RetrySave, SideInv
  <2>2. dropping = {} /\ ren = NoRen
    BY <2>1 DEF SideInv, OneCanceller
  <2>3. rty'.path = rty.path
    BY <1>0, <2>1 DEF RetryState
  <2> QED
    BY ZenonT(60), <2>1, <2>2, <2>3 DEF SideInv
<1>6. CASE RetryCancel
  <2>1. rty.pc = "cancel" /\ rty' = [rty EXCEPT !.pc = "enqueue"]
    BY <1>6 DEF RetryCancel
  <2>2. rty.pc # "idle" /\ rty'.path = rty.path
    BY ZenonT(60), <1>0, <2>1 DEF RetryState
  <2> QED
    BY <1>6, <1>a, <2>2 DEF RetryCancel
<1>7. CASE RetryEnqueue
  BY ZenonT(60), <1>0, <1>7, <1>a DEF RetryEnqueue
<1>8. ASSUME NEW p \in Paths, DiscardRemove(p) PROVE SideInv'
  <2>1. CASE Save(p, NoRec)
    BY ZenonT(60), <1>0, <1>8, <1>b, <2>1 DEF DiscardRemove, Save
  <2>2. CASE rec' = rec
    BY ZenonT(60), <1>8, <1>a, <2>2 DEF DiscardRemove
  <2> QED
    BY ZenonT(60), <1>8, <2>1, <2>2 DEF DiscardRemove
<1>9. ASSUME NEW p \in Paths, RemoveRecord(p) PROVE SideInv'
  <2>1. /\ rec'[p] = NoRec /\ \A q \in Paths : q # p => rec'[q] = rec[q]
        /\ dropping' = dropping \cup {p} /\ "remove" \in Requests /\ UNCHANGED <<ren, rty>>
    BY ZenonT(60), <1>0, <1>9 DEF RemoveRecord, Save
  <2>2. \A q \in dropping' : ~Eligible(rec'[q])
    BY ZenonT(60), <1>0, <2>1 DEF SideInv, TypeOK
  <2>3. ren # NoRen => ~Eligible(rec'[ren.old])
    BY ZenonT(60), <1>0, <2>1 DEF SideInv, TypeOK
  <2> QED
    BY ZenonT(60), <2>1, <2>2, <2>3 DEF SideInv, Eligible, Present
<1>10. ASSUME NEW p \in Paths, RemoveCancel(p) PROVE SideInv'
  BY SMTT(60), <1>10, <1>a DEF RemoveCancel
<1>11. ASSUME NEW p \in Paths, NEW s \in Paths, RenameMove(p, s) PROVE SideInv'
  <2>1. /\ rec'[p] = NoRec /\ ren' = [old |-> p, new |-> s, rec |-> rec[p]]
        /\ "rename" \in Requests /\ UNCHANGED <<dropping, rty>>
    BY ZenonT(60), <1>0, <1>11 DEF RenameMove
  <2>2. dropping' = {} /\ ren'.old = p /\ "rename" \in Requests
    BY SMTT(60), <2>1 DEF SideInv, OneCanceller
  <2> QED
    BY ZenonT(60), <1>0, <2>1, <2>2 DEF SideInv, Eligible, Present
<1>12. CASE RenameQueue
  BY ZenonT(60), <1>12, <1>a DEF RenameQueue
<1>13. ASSUME NEW p \in Paths, ResumeRecord(p) PROVE SideInv'
  <2> DEFINE c == resume[p]
  <2>1. UNCHANGED <<dropping, ren, rty>> /\ c \in Recs
    BY ZenonT(60), <1>0, <1>13 DEF ResumeRecord
  <2>2. \/ rec' = rec
        \/ rec' = [rec EXCEPT ![p] = [c EXCEPT !.ver = ver', !.fail = TRUE, !.ripe = FALSE]]
        \/ rec' = [rec EXCEPT ![p] = [c EXCEPT !.ver = ver', !.frozen = FALSE, !.ripe = FALSE]]
    BY <1>13 DEF ResumeRecord, Save
  <2>3. /\ ~Eligible([c EXCEPT !.ver = ver', !.fail = TRUE, !.ripe = FALSE])
        /\ ~Eligible([c EXCEPT !.ver = ver', !.frozen = FALSE, !.ripe = FALSE])
    BY <2>1 DEF Recs, Eligible
  <2> HIDE DEF c
  <2> QED
    BY ZenonT(60), <1>a, <1>b, <2>1, <2>2, <2>3
<1>14. CASE Start \/ CloseFlip \/ ResumeList \/ CloseService
  BY <1>14, <1>a DEF Start, CloseFlip, ResumeList, CloseService, env
<1>15. ASSUME NEW p \in Paths, Ripen(p) PROVE SideInv'
  <2>1. rec' = [rec EXCEPT ![p] = [rec[p] EXCEPT !.ripe = TRUE]] /\ UNCHANGED <<dropping, ren, rty>>
    BY <1>15 DEF Ripen, env
  <2>2. Eligible([rec[p] EXCEPT !.ripe = TRUE]) => Eligible(rec[p])
    BY ZenonT(60), <1>0 DEF Recs, Eligible, Present
  <2> QED
    BY ZenonT(60), <1>b, <2>1, <2>2
<1>16. ASSUME NEW p \in Paths, Due(p) PROVE SideInv'
  BY ZenonT(60), <1>16, <1>a DEF Due, env
<1>17. CASE Begin
  BY ZenonT(60), <1>1, <1>2, <1>3, <1>4, <1>9, <1>11, <1>14, <1>17 DEF Begin
<1>18. CASE Continue
  BY ZenonT(60), <1>3, <1>5, <1>6, <1>7, <1>8, <1>10, <1>12, <1>13, <1>14, <1>18 DEF Continue
<1> QED
  BY ZenonT(60), <1>15, <1>16, <1>17, <1>18

\* Only ResumeList makes the lifecycle running, and faults are never forgotten.
LEMMA BecomesRunning ==
  ASSUME TypeOK, Next, life' = "running", faults' = 0
  PROVE  ResumeList \/ (life = "running" /\ faults = 0)
<1>0. Faulty => faults' # 0
  BY ZenonT(60), FaultsGrow
<1>1. ASSUME NEW w \in Workers, WorkerStep(w) PROVE UNCHANGED life /\ (Faulty \/ faults' = faults)
  <2>1. CASE CheckLatest(w) \/ Admit(w) \/ Claim(w) \/ Committed(w) \/ Superseded(w) \/ Failed(w)
    BY <2>1 DEF CheckLatest, Admit, Claim, Committed, Superseded, Failed
  <2>2. CASE \/ FailedSilently(w) \/ SaveFailed(w) \/ Requeue(w) \/ Release(w)
             \/ CompleteReceive(w) \/ WorkerExit(w)
    BY ZenonT(60), <2>2 DEF FailedSilently, SaveFailed, Requeue, Release, CompleteReceive, WorkerExit
  <2>3. CASE \E p \in Paths : Receive(w, p)
    BY <2>3 DEF Receive
  <2> QED
    BY ZenonT(60), <1>1, <2>1, <2>2, <2>3 DEF WorkerStep
<1>2. ASSUME NEW p \in Paths, NEW large \in BOOLEAN, Write(p, large)
      PROVE  life' = life /\ faults' = faults
  BY ZenonT(60), <1>2 DEF Write
<1>3. ASSUME NEW p \in Paths, FlushSave(p) \/ RetryRead(p) \/ DiscardCancel(p) \/ RemoveRecord(p)
      PROVE  life' = life /\ faults' = faults
  BY ZenonT(60), <1>3 DEF FlushSave, RetryRead, DiscardCancel, RemoveRecord
<1>4. ASSUME NEW p \in Paths, NEW q \in Paths, RenameMove(p, q)
      PROVE  life' = life /\ faults' = faults
  BY ZenonT(60), <1>4 DEF RenameMove
<1>5. ASSUME NEW p \in Paths, FlushEnqueue(p) \/ DiscardRemove(p) \/ RemoveCancel(p)
      PROVE  life' = life /\ (Faulty \/ faults' = faults)
  BY <1>5 DEF FlushEnqueue, DiscardRemove, RemoveCancel
<1>6. ASSUME NEW p \in Paths, ResumeRecord(p)
      PROVE  life' = life /\ (Faulty \/ faults' = faults)
  BY <1>6 DEF ResumeRecord
<1>7. CASE RetrySave \/ RetryCancel \/ RetryEnqueue \/ RenameQueue
  BY <1>7 DEF RetrySave, RetryCancel, RetryEnqueue, RenameQueue
<1>8. ASSUME NEW p \in Paths, Ripen(p) \/ Due(p) PROVE life' = life /\ faults' = faults
  BY <1>8 DEF Ripen, Due
<1>9. ~Start /\ ~CloseFlip /\ ~CloseService /\ ~Crash
  BY DEF Start, CloseFlip, CloseService, Crash
<1>10. CASE Begin
  BY ZenonT(60), <1>2, <1>3, <1>4, <1>9, <1>10 DEF Begin
<1>11. CASE Continue
  BY ZenonT(60), <1>0, <1>5, <1>6, <1>7, <1>9, <1>11 DEF Continue
<1> QED
  BY ZenonT(60), <1>0, <1>1, <1>8, <1>9, <1>10, <1>11 DEF Next

LEMMA StrandInit == Init => StrandInv
BY DEF Init, StrandInv, SideInv, NoRty, NoRen

LEMMA StrandNext ==
  ASSUME OneCanceller, TypeOK, HoldInv, StrandInv, [Next]_vars
  PROVE  StrandInv'
<1>1. CASE UNCHANGED vars
  <2>1. SideInv'
    BY ZenonT(60), <1>1, SideKeep DEF vars, env, StrandInv
  <2>2. ASSUME AllInHand PROVE AllInHand'
    <3>1. ASSUME NEW p \in Paths, InHand(p) PROVE InHand(p)'
      BY ZenonT(60), <1>1, <3>1, InHandFrame DEF vars, env
    <3>2. rec' = rec
      BY <1>1 DEF vars
    <3> QED
      BY ZenonT(60), <2>2, <3>1, <3>2 DEF AllInHand, Eligible, Present
  <2> QED
    BY ZenonT(60), <1>1, <2>1, <2>2 DEF vars, StrandInv
<1>2. CASE Next
  <2>1. SideInv'
    <3>1. CASE Crash
      BY ZenonT(60), <3>1 DEF Crash, SideInv, NoRty, NoRen
    <3> QED
      BY ZenonT(60), <1>2, <3>1, SideWorker, SideUser DEF Next, StrandInv
  <2>2. ASSUME life' = "running", faults' = 0 PROVE AllInHand'
    <3>1. CASE ResumeList
      <4>1. resume' = rec /\ rec' = rec
        BY ZenonT(60), <3>1 DEF ResumeList
      <4> QED
        BY ZenonT(60), <4>1 DEF AllInHand, InHand, Eligible, Present
    <3>2. CASE life = "running" /\ faults = 0
      <4>1. AllInHand
        BY <3>2 DEF StrandInv
      <4>2. ~Crash
        BY <2>2 DEF Crash
      <4> QED
        BY ZenonT(60), <1>2, <2>2, <3>2, <4>1, <4>2, StrandWorker, StrandUser DEF Next
    <3> QED
      BY ZenonT(60), <1>2, <2>2, <3>1, <3>2, BecomesRunning
  <2> QED
    BY ZenonT(60), <2>1, <2>2 DEF StrandInv
<1> QED
  BY <1>1, <1>2

\* No upload is forgotten while the VFS runs, for every set of paths and workers,
\* as long as only one of RemovePending, RenamePending and an explicit retry is in
\* use: each cancels a task some steps after it put its record away, and a second
\* one of them can queue an upload in between that the first then cancels.
THEOREM NoUploadStranded ==
  ASSUME OneCanceller
  PROVE  Spec => []NothingStranded
<1>1. StrandInv => NothingStranded
  <2> SUFFICES ASSUME StrandInv, life = "running", faults = 0, NEW p \in Paths,
                      Eligible(rec[p]), ~rec[p].open
               PROVE  Handled(p)
    BY DEF NothingStranded
  <2>1. InHand(p)
    BY DEF StrandInv, AllInHand
  <2> QED
    BY ZenonT(60), <2>1 DEF InHand, Handled, Eligible
<1>2. TypeOK /\ HoldInv /\ StrandInv /\ [Next]_vars => StrandInv'
  BY StrandNext
<1> QED
  BY <1>1, <1>2, StrandInit, Holding, PTL DEF Spec
=============================================================================
