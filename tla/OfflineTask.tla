----------------------------- MODULE OfflineTask -----------------------------
(***************************************************************************)
(* One durable offline task of pkg/core: offline_runner.go stages a source *)
(* at the provider, offline_fetch.go brings the result to its destination  *)
(* and deletes the cloud copy, offline_task.go retries and recovers it.    *)
(* The run function executes under the task manager, whose generation      *)
(* check drops the updates of a superseded run (TaskManager models the     *)
(* manager itself; here its fetch and its start are one step).  A file     *)
(* transfer is what FileTransfer promises: the destination is truncated    *)
(* first and ends complete or removed (UrlTransfer).                       *)
(***************************************************************************)
EXTENDS Naturals, FiniteSetsExt

CONSTANTS Files,       \* the files of the source, numbered in listing order
          Slots,       \* numbers of the manager goroutines alive at once
          Retriers,    \* numbers of the concurrent callers of RetryTask
          MaxPid,      \* provider tasks that may be created
          offlineTransientFailureLimit,
          Budgets      \* how many faults, restarts, retries, cancels and lost
                       \* journal writes to explore

VARIABLES mode,       \* "download", "fetch" or "keep" (fetch, KeepCloud)
          task,       \* the managed task with its offline detail
          runners,    \* slot -> one manager goroutine
          active,     \* the offlineActive registry holds the task
          retriers,   \* RetryTask calls in progress
          canceler,   \* slot whose context a CancelTask call is about to cancel
          provider,   \* provider task id -> its state at the provider
          cloud,      \* staged copies <<id, file>>
          removed,    \* staged copies that cleanup has deleted
          delivered,  \* files complete at the destination
          unrelated,  \* someone else's entry in the resource folder
          stopping,   \* the manager's context is canceled
          overlap,    \* two RetryTask calls have been in progress at once
          saved,      \* the task as the journal's last record has it
          lost,       \* journal writes that have failed
          stale,      \* a restart has read a record older than memory
          budget      \* faults, restarts, retries and cancels still to come

svars == <<provider, cloud, removed, delivered, unrelated>>
mvars == <<retriers, canceler, stopping, overlap>>
vars == <<mode, task, runners, active, retriers, canceler, provider, cloud,
          removed, delivered, unrelated, stopping, overlap, saved, lost, stale,
          budget>>

Pids == 1 .. MaxPid
fetch == mode # "download"
IsTerminal(st) == st \in {"succeeded", "failed", "canceled"}
NoDetail == [phase |-> "staging", pid |-> 0, avail |-> FALSE, files |-> {}]

\* ctx says who canceled the run's context; made is the provider task it asked
\* for and cur the file it is copying.
Free == [at |-> "none", gen |-> 0, ctx |-> "no", detail |-> NoDetail,
         trans |-> 0, todo |-> {}, cur |-> {}, made |-> 0, result |-> "none"]
Idle == [at |-> "idle", detail |-> NoDetail]

Spend(kind) == budget[kind] > 0 /\ budget' = [budget EXCEPT ![kind] = @ - 1]
Fault == Spend("faults")
NoFault == UNCHANGED budget

-----------------------------------------------------------------------------
(* The manager around the run function.                                     *)

Current(r) == runners[r].gen = task.gen

\* UpdateManaged: a change of the task is journaled inside the store's lock.  A
\* failed append is remembered as a persistence error, but the memory record
\* changes and the run goes on.
Journal ==
    IF [task' EXCEPT !.cancel = 0] = [task EXCEPT !.cancel = 0]
      THEN UNCHANGED <<saved, lost>>
      ELSE \/ saved' = task' /\ UNCHANGED lost
           \/ lost < budget.lost /\ lost' = lost + 1 /\ UNCHANGED saved

\* Manager.RecoverTask: a new generation and a goroutine in a free slot.
RecoverTask(t, rs) ==
    LET free == {r \in Slots : rs[r].at = "none"}
        r == Min(free) IN
    /\ free # {}
    /\ runners' = [rs EXCEPT ![r] = [Free EXCEPT !.at = "launched",
                     !.ctx = IF stopping' THEN "stop" ELSE "no"]]
    /\ task' = [t EXCEPT !.state = "queued", !.error = "none",
                         !.gen = @ + 1, !.cancel = r]

\* A cancel function no longer reaches a goroutine that has ended.
Detached(r, ended) ==
    canceler' = IF ended /\ canceler = {r} THEN {} ELSE canceler

\* Manager.run and startRun: a canceled or interrupted task does not run.
RunStart(r) ==
    LET canceling == task.state = "canceling"
        interrupted == runners[r].ctx # "no" IN
    /\ runners[r].at = "launched"
    /\ runners' = [runners EXCEPT ![r] =
         IF IsTerminal(task.state) \/ canceling \/ interrupted THEN Free
         ELSE [@ EXCEPT !.at = "begin", !.gen = task.gen]]
    /\ task' = CASE IsTerminal(task.state) -> task
                 [] canceling -> [task EXCEPT !.state = "canceled",
                                              !.error = "plain"]
                 [] interrupted -> [task EXCEPT !.state = "failed",
                                                !.error = "interrupted"]
                 [] OTHER -> [task EXCEPT !.state = "running"]
    /\ Detached(r, runners'[r].at = "none")
    /\ UNCHANGED <<mode, active, retriers, stopping, overlap, svars, budget>>

\* What Manager.run records for a run that returned res.
Outcome(r, res) ==
    CASE res = "ok" -> [task EXCEPT !.state = "succeeded", !.error = "none"]
      [] res = "canceled" -> [task EXCEPT !.state = "canceled", !.error = "plain"]
      [] res \in {"ctx", "plain"} /\ runners[r].ctx # "no" ->
           IF task.state = "canceling"
             THEN [task EXCEPT !.state = "canceled", !.error = "plain"]
             ELSE [task EXCEPT !.state = "failed", !.error =
                     IF res = "ctx" THEN "interrupted" ELSE "plain"]
      [] OTHER -> [task EXCEPT !.state = "failed", !.error = "plain"]

RunFinal(r) ==
    /\ runners[r].at = "final"
    /\ task' = IF Current(r) THEN Outcome(r, runners[r].result) ELSE task
    /\ runners' = [runners EXCEPT ![r] = Free]
    /\ Detached(r, TRUE)
    /\ UNCHANGED <<mode, active, retriers, stopping, overlap, svars, budget>>

-----------------------------------------------------------------------------
(* The run function.                                                        *)

\* persist and applyObservation: the task takes the detail, unless the run has
\* been superseded.
Persist(r, d) == task' = IF Current(r) THEN [task EXCEPT !.detail = d] ELSE task

\* The run continues at another step.
Go(r, at) == /\ runners' = [runners EXCEPT ![r].at = at]
             /\ UNCHANGED active

\* The run function returns; its deferred endOfflineRun goes first.
Return(r, result) == /\ runners' = [runners EXCEPT ![r].at = "final",
                                                   ![r].result = result]
                     /\ active' = FALSE

\* newOfflineRun: the run resumes at the phase the task retains.
Resume(r) ==
    [runners[r] EXCEPT !.detail = task.detail,
       !.at = IF task.detail.phase = "staging" \/ ~fetch THEN "provider"
              ELSE task.detail.phase,
       !.todo = IF fetch /\ task.detail.phase \in {"transfer", "cleanup"}
                  THEN task.detail.files ELSE {}]

\* runOfflineTask: one runner per task in the registry, or an error.
Begin(r) ==
    /\ runners[r].at = "begin"
    /\ active' = TRUE
    /\ runners' = [runners EXCEPT ![r] =
         IF active THEN [@ EXCEPT !.at = "final", !.result = "plain"]
         ELSE Resume(r)]
    /\ UNCHANGED <<mode, task, mvars, svars, budget>>

\* CancelOfflineDownload; a failed call is ignored.
CancelProvider(p) ==
    provider' = IF p \in Pids /\ provider[p] = "running"
                  THEN [provider EXCEPT ![p] = "dropped"] ELSE provider

\* A mutation: every interruption drops the provider task.
CancelOnInterruptAlways(r, p) == CancelProvider(p)
\* cancelOnInterrupt: only when the task shows an explicit user cancel.
CancelOnInterrupt(r, p) ==
    IF task.state = "canceling" THEN CancelProvider(p) ELSE UNCHANGED provider

\* ensureProvider sends the source to the provider, unless the identifier of a
\* provider task is retained.
EnsureProvider(r) ==
    /\ runners[r].at = "provider"
    /\ IF runners[r].detail.pid # 0
         THEN /\ Go(r, IF fetch THEN "observe" ELSE "poll")
              /\ UNCHANGED provider /\ NoFault
         ELSE IF runners[r].ctx # "no"
         THEN Return(r, "ctx") /\ UNCHANGED provider /\ NoFault
         ELSE \/ Return(r, "plain") /\ UNCHANGED provider /\ Fault
              \/ \E p \in Pids :
                   /\ provider[p] = "none"
                   /\ \A q \in 1 .. p - 1 : provider[q] # "none"
                   /\ provider' = [provider EXCEPT ![p] = "running"]
                   /\ runners' = [runners EXCEPT ![r].at = "creating",
                                                 ![r].made = p]
                   /\ UNCHANGED active /\ NoFault
    /\ UNCHANGED <<mode, task, mvars, cloud, removed, delivered, unrelated>>

\* ... and journals the identifier when the answer arrives.  A canceled call
\* or a broken connection leaves the identifier unknown.
CreateAnswer(r) ==
    LET p == runners[r].made
        d == [runners[r].detail EXCEPT !.pid = p]
        ctx == runners[r].ctx # "no" IN
    /\ runners[r].at = "creating"
    /\ \/ /\ Persist(r, d) /\ NoFault
          /\ IF ctx THEN CancelOnInterrupt(r, p) ELSE UNCHANGED provider
          /\ runners' = [runners EXCEPT ![r].detail = d,
               ![r].at = IF ctx THEN "final"
                         ELSE IF fetch THEN "observe" ELSE "poll",
               ![r].result = IF ctx THEN "ctx" ELSE @]
          /\ active' = ~ctx
       \/ /\ Return(r, IF ctx THEN "ctx" ELSE "plain")
          /\ IF ctx THEN NoFault ELSE Fault
          /\ UNCHANGED <<task, provider>>
    /\ UNCHANGED <<mode, mvars, cloud, removed, delivered, unrelated>>

\* What one answer about task p may list: nothing, or what is staged so far
\* (everything once it has succeeded).
Listed(p) == {{}, IF provider[p] = "succeeded" THEN Files
                  ELSE {f \in Files : <<p, f>> \in cloud}}

\* recordObservation: a thin answer erases neither files nor availability.
Merge(d, files, avail) == [d EXCEPT !.files = IF files = {} THEN @ ELSE files,
                                    !.avail = @ \/ avail]

fetchReady(d) == d.avail /\ d.files # {}

\* The run with retained detail d enters the transfer phase, journaled.
EnterTransfer(r, d) ==
    LET e == [d EXCEPT !.phase = "transfer"] IN
    /\ runners' = [runners EXCEPT ![r].at = "transfer", ![r].detail = e,
                                  ![r].todo = e.files]
    /\ Persist(r, e)
    /\ UNCHANGED active

\* An answer with the latest provider state; a failed or canceled one wins
\* over an earlier availability.
Answered(r) ==
    LET p == runners[r].detail.pid IN
    /\ provider[p] \in {"running", "succeeded", "failed", "canceled"}
    /\ \E files \in Listed(p), avail \in BOOLEAN :
         LET d == Merge(runners[r].detail, files, avail) IN
         /\ avail => files = Files
         /\ CASE provider[p] = "canceled" -> Return(r, "canceled") /\ Persist(r, d)
              [] provider[p] = "failed" -> Return(r, "plain") /\ Persist(r, d)
              [] provider[p] = "succeeded" /\ ~fetch -> Return(r, "ok") /\ Persist(r, d)
              [] fetch /\ (provider[p] = "succeeded" \/ fetchReady(d)) ->
                   EnterTransfer(r, d)
              [] OTHER ->
                   /\ runners' = [runners EXCEPT ![r].at = "poll",
                                     ![r].detail = d, ![r].trans = 0]
                   /\ Persist(r, d)
                   /\ UNCHANGED active
    /\ UNCHANGED provider /\ NoFault

\* Observation ends because the run's context is canceled.
Interrupted(r) ==
    /\ runners[r].ctx # "no"
    /\ CancelOnInterrupt(r, runners[r].detail.pid)
    /\ Return(r, "ctx")
    /\ UNCHANGED task /\ NoFault

Missing(r) == provider[runners[r].detail.pid] \in {"dropped", "gone"}

\* observeStagedFiles: one fresh lookup; an error is left to the polling loop.
Observe(r) ==
    /\ runners[r].at = "observe"
    /\ \/ Answered(r)
       \/ Interrupted(r)
       \/ /\ runners[r].ctx = "no"
          /\ Go(r, "poll")
          /\ IF Missing(r) THEN NoFault ELSE Fault
          /\ UNCHANGED <<task, provider>>
    /\ UNCHANGED <<mode, mvars, cloud, removed, delivered, unrelated>>

\* pollToTerminal's transient failure.
PollTransient(r) ==
    /\ runners[r].ctx = "no" /\ ~Missing(r) /\ Fault
    /\ IF runners[r].trans = offlineTransientFailureLimit
         THEN Return(r, "plain")
         ELSE /\ runners' = [runners EXCEPT ![r].trans = @ + 1]
              /\ UNCHANGED active
    /\ UNCHANGED <<task, provider>>

\* A mutation: a task the provider has forgotten is polled for ever.
PollMissingForever(r) ==
    LET d == runners[r].detail IN
    /\ runners[r].ctx = "no" /\ Missing(r) /\ NoFault
    /\ d.files # {} /\ \A f \in d.files : <<d.pid, f>> \in cloud
    /\ IF fetch THEN EnterTransfer(r, d) ELSE Return(r, "ok") /\ Persist(r, d)
    /\ UNCHANGED provider

\* The provider no longer knows the task: reconcileMissing takes the listed
\* files for success when all of them are staged; otherwise the window passes.
PollMissing(r) ==
    LET d == runners[r].detail IN
    /\ runners[r].ctx = "no" /\ Missing(r) /\ NoFault
    /\ IF d.files # {} /\ \A f \in d.files : <<d.pid, f>> \in cloud
         THEN IF fetch THEN EnterTransfer(r, d)
              ELSE Return(r, "ok") /\ Persist(r, d)
         ELSE Return(r, "plain") /\ UNCHANGED task
    /\ UNCHANGED provider

Poll(r) ==
    /\ runners[r].at = "poll"
    /\ Answered(r) \/ Interrupted(r) \/ PollTransient(r) \/ PollMissing(r)
    /\ UNCHANGED <<mode, mvars, cloud, removed, delivered, unrelated>>

\* A mutation: an empty result set counts as transferred.
OpenFileEmptyPasses(r) ==
    /\ runners[r].at = "transfer" /\ runners[r].todo = {}
    /\ Go(r, "transferred")
    /\ UNCHANGED <<mode, task, mvars, svars, budget>>

\* transferPhase and transferFile: the next destination is opened truncated.
OpenFile(r) ==
    /\ runners[r].at = "transfer"
    /\ IF runners[r].detail.files = {}
         THEN Return(r, "plain") /\ UNCHANGED delivered
         ELSE LET f == Min(runners[r].todo) IN
              /\ delivered' = delivered \ {f}
              /\ runners' = [runners EXCEPT ![r].at = "copy", ![r].cur = {f},
                                            ![r].todo = @ \ {f}]
              /\ UNCHANGED active
    /\ UNCHANGED <<mode, task, mvars, provider, cloud, removed, unrelated, budget>>

\* A mutation: a file that failed is skipped.
CopyEndSkips(r) ==
    /\ runners[r].at = "copy"
    /\ delivered' \in {delivered, delivered \cup runners[r].cur}
    /\ runners' = [runners EXCEPT ![r].cur = {},
         ![r].at = IF runners[r].todo = {} THEN "transferred" ELSE "transfer"]
    /\ UNCHANGED <<mode, task, active, mvars, provider, cloud, removed, unrelated,
                   budget>>

\* The file is complete, or it has been aborted and the run fails.
CopyEnd(r) ==
    LET d == runners[r].detail
        staged == \A f \in runners[r].cur : <<d.pid, f>> \in cloud IN
    /\ runners[r].at = "copy"
    /\ \/ /\ staged
          /\ delivered' = delivered \cup runners[r].cur
          /\ runners' = [runners EXCEPT ![r].cur = {},
               ![r].at = IF runners[r].todo = {} THEN "transferred" ELSE "transfer"]
          /\ UNCHANGED <<active, provider>> /\ NoFault
       \/ /\ runners[r].ctx # "no"                  \* failInterrupted
          /\ Return(r, "ctx")
          /\ CancelOnInterrupt(r, d.pid)
          /\ UNCHANGED delivered /\ NoFault
       \/ /\ Return(r, "plain")
          /\ IF staged THEN Fault ELSE NoFault
          /\ UNCHANGED <<delivered, provider>>
    /\ UNCHANGED <<mode, task, mvars, cloud, removed, unrelated>>

\* The cleanup phase is journaled before it starts.
EnterCleanup(r) ==
    LET d == [runners[r].detail EXCEPT !.phase = "cleanup"] IN
    /\ runners[r].at = "transferred"
    /\ runners' = [runners EXCEPT ![r].at = "cleanup", ![r].detail = d,
                                  ![r].todo = d.files]
    /\ Persist(r, d)
    /\ UNCHANGED <<mode, active, mvars, svars, budget>>

\* cleanupPhase: each file this task listed is removed; a failure is logged
\* (the file stays in cur) and the next one is tried.
CleanupFile(r) ==
    /\ runners[r].at = "cleanup" /\ runners[r].todo # {}
    /\ LET f == Min(runners[r].todo)
           copy == <<runners[r].detail.pid, f>> IN
         \/ /\ cloud' = cloud \ {copy}
            /\ removed' = removed \cup ({copy} \cap cloud)
            /\ runners' = [runners EXCEPT ![r].todo = @ \ {f}]
            /\ NoFault
         \/ /\ IF runners[r].ctx = "no" THEN Fault ELSE NoFault
            /\ runners' = [runners EXCEPT ![r].todo = @ \ {f}, ![r].cur = @ \cup {f}]
            /\ UNCHANGED <<cloud, removed>>
    /\ mode = "fetch"
    /\ UNCHANGED <<mode, task, active, mvars, provider, delivered, unrelated>>

\* stagedTreeOwned: the first attempt lists the folder through the cache, which
\* may predate an entry someone else has added.
FolderOwned == {unrelated = "none", TRUE}

\* The end of cleanupPhase: the resource folder goes, with all it holds, when
\* every file was removed and the listing shows nothing else.
CleanupEnd(r) ==
    LET d == [runners[r].detail EXCEPT !.phase = "complete"] IN
    /\ runners[r].at = "cleanup"
    /\ mode = "keep" \/ runners[r].todo = {}
    /\ \E owned \in FolderOwned :
         unrelated' = IF mode = "fetch" /\ runners[r].cur = {} /\ owned
                         /\ unrelated = "present"
                        THEN "removed" ELSE unrelated
    /\ runners' = [runners EXCEPT ![r].at = "complete", ![r].detail = d,
                                  ![r].todo = {}, ![r].cur = {}]
    /\ Persist(r, d)
    /\ UNCHANGED <<mode, active, mvars, provider, cloud, removed, delivered, budget>>

Complete(r) ==
    /\ runners[r].at = "complete"
    /\ Return(r, "ok")
    /\ UNCHANGED <<mode, task, mvars, svars, budget>>

RunStep(r) ==
    RunStart(r) \/ Begin(r) \/ EnsureProvider(r) \/ CreateAnswer(r) \/ Observe(r)
    \/ Poll(r) \/ OpenFile(r) \/ CopyEnd(r) \/ EnterCleanup(r) \/ CleanupFile(r)
    \/ CleanupEnd(r) \/ Complete(r) \/ RunFinal(r)

-----------------------------------------------------------------------------
(* Callers, shutdown and restart.                                           *)

\* Manager.CancelTask marks the task, then cancels the run's context.
CancelMark ==
    /\ canceler = {} /\ ~IsTerminal(task.state) /\ Spend("cancels")
    /\ task' = [task EXCEPT !.state = "canceling"]
    /\ canceler' = IF runners[task.cancel].at = "none" THEN {} ELSE {task.cancel}
    /\ UNCHANGED <<mode, runners, active, retriers, stopping, overlap, svars>>

CancelFire ==
    /\ \E r \in canceler :
         runners' = [runners EXCEPT ![r].ctx = IF @ = "no" THEN "user" ELSE @]
    /\ canceler' = {}
    /\ UNCHANGED <<mode, task, active, retriers, stopping, overlap, svars, budget>>

\* What a staging retry keeps: the provider task, if it was re-queued.
RetryDetail(d, inPlace) == [NoDetail EXCEPT !.pid = IF inPlace THEN d.pid ELSE 0]

\* retryOfflineTask refuses a task that is still stopping, or not stopped.
Retryable == ~active /\ task.state \in {"failed", "canceled"}

\* A staging retry asks the provider to re-queue its task, or forgets it; a
\* later phase is kept and only re-run.
RetryCheck(c) ==
    LET d == task.detail IN
    /\ c = Min({x \in Retriers : retriers[x].at = "idle"} \cup {c})
    /\ retriers[c].at = "idle" /\ Retryable /\ Spend("retries")
    /\ IF d.phase \notin {"staging", "complete"}
         THEN /\ retriers' = [retriers EXCEPT ![c] = [at |-> "checked", detail |-> d]]
              /\ UNCHANGED provider
         ELSE \E inPlace \in BOOLEAN :
                /\ inPlace => d.pid # 0 /\ provider[d.pid] \in {"failed", "canceled"}
                /\ retriers' = [retriers EXCEPT ![c] = [at |-> "checked",
                                                        detail |-> RetryDetail(d, inPlace)]]
                /\ provider' = IF inPlace THEN [provider EXCEPT ![d.pid] = "running"]
                               ELSE provider
    /\ overlap' = (overlap \/ \E x \in Retriers \ {c} : retriers[x].at # "idle")
    /\ UNCHANGED <<mode, task, runners, active, canceler, stopping, cloud, removed,
                   delivered, unrelated>>

\* Manager.UpdateTask rewrites the detail from the caller's snapshot ...
RetryUpdate(c) ==
    /\ retriers[c].at = "checked"
    /\ task' = [task EXCEPT !.detail = retriers[c].detail, !.error = "none"]
    /\ retriers' = [retriers EXCEPT ![c].at = "updated"]
    /\ UNCHANGED <<mode, runners, active, canceler, stopping, overlap, svars, budget>>

\* ... and RecoverTask starts the next generation.
RetryRecover(c) ==
    /\ retriers[c].at = "updated"
    /\ UNCHANGED <<mode, active, canceler, stopping, overlap, svars, budget>>
    /\ retriers' = [retriers EXCEPT ![c] = Idle]
    /\ RecoverTask(task, runners)

\* Manager.Close cancels every run's context.
Shutdown ==
    /\ ~stopping /\ budget["stops"] > 0
    /\ stopping' = TRUE
    /\ runners' = [r \in Slots |-> IF runners[r].at # "none" /\ runners[r].ctx = "no"
                     THEN [runners[r] EXCEPT !.ctx = "stop"] ELSE runners[r]]
    /\ UNCHANGED <<mode, task, active, retriers, canceler, overlap, svars, budget>>

\* The process ends, gracefully or not; the journal is replayed and
\* recoverOfflineTasks resumes what was interrupted.
Restart ==
    LET t == IF IsTerminal(saved.state) THEN saved
             ELSE [saved EXCEPT !.state = "failed", !.error = "interrupted"]
        none == [r \in Slots |-> Free] IN
    /\ Spend("stops")
    /\ active' = FALSE /\ canceler' = {} /\ stopping' = FALSE
    /\ retriers' = [c \in Retriers |-> Idle]
    /\ IF t.error = "interrupted" THEN RecoverTask(t, none) /\ saved' = task'
       ELSE task' = t /\ runners' = none /\ UNCHANGED saved
    /\ stale' = (stale \/ saved.detail # task.detail)
    /\ UNCHANGED <<mode, overlap, lost, svars>>

-----------------------------------------------------------------------------
(* The provider, and whoever else uses the resource folder.                 *)

Stage ==
    \E p \in Pids :
       LET left == {f \in Files : <<p, f>> \notin cloud} IN
       /\ provider[p] = "running" /\ left # {}
       /\ cloud' = cloud \cup {<<p, Min(left)>>}
       /\ UNCHANGED <<mode, task, runners, active, mvars, provider, removed,
                      delivered, unrelated, budget>>

ProviderSucceeds ==
    \E p \in Pids :
       /\ provider[p] = "running" /\ \A f \in Files : <<p, f>> \in cloud
       /\ provider' = [provider EXCEPT ![p] = "succeeded"]
       /\ UNCHANGED <<mode, task, runners, active, mvars, cloud, removed,
                      delivered, unrelated, budget>>

\* The provider fails, cancels or forgets one of its tasks.
ProviderFails ==
    \E p \in Pids, st \in {"failed", "canceled", "gone"} :
       /\ provider[p] = "running" \/ (provider[p] = "succeeded" /\ st = "gone")
       /\ provider' = [provider EXCEPT ![p] = st]
       /\ Fault
       /\ UNCHANGED <<mode, task, runners, active, mvars, cloud, removed,
                      delivered, unrelated>>

AddUnrelated ==
    /\ mode = "fetch" /\ unrelated = "none" /\ cloud # {}
    /\ unrelated' = "present"
    /\ Fault
    /\ UNCHANGED <<mode, task, runners, active, mvars, provider, cloud, removed,
                   delivered>>

-----------------------------------------------------------------------------
\* A task that has just been submitted, its record journaled.
Init ==
    /\ mode \in {"download", "fetch", "keep"}
    /\ runners = [r \in Slots |-> IF r = Min(Slots)
                    THEN [Free EXCEPT !.at = "launched"] ELSE Free]
    /\ task = [state |-> "queued", gen |-> 1, error |-> "none",
               cancel |-> Min(Slots), detail |-> NoDetail]
    /\ saved = task /\ lost = 0 /\ stale = FALSE
    /\ active = FALSE /\ stopping = FALSE /\ overlap = FALSE
    /\ retriers = [c \in Retriers |-> Idle]
    /\ canceler = {}
    /\ provider = [p \in Pids |-> "none"]
    /\ cloud = {} /\ removed = {} /\ delivered = {} /\ unrelated = "none"
    /\ budget \in Budgets

Working ==
    \/ \E r \in Slots : RunStep(r)
    \/ CancelMark \/ CancelFire
    \/ \E c \in Retriers : RetryCheck(c) \/ RetryUpdate(c) \/ RetryRecover(c)
    \/ Shutdown
    \/ Stage \/ ProviderSucceeds \/ ProviderFails \/ AddUnrelated

Next == (Working /\ Journal /\ UNCHANGED stale) \/ Restart

Spec == Init /\ [][Next]_vars

\* What goes on by itself: goroutines, callers inside a call, the provider.
Progress ==
    /\ \/ \E r \in Slots : RunStep(r)
       \/ \E c \in Retriers : RetryUpdate(c) \/ RetryRecover(c)
       \/ CancelFire \/ Stage \/ ProviderSucceeds
    /\ Journal /\ UNCHANGED stale

\* Nobody has to cancel, retry, stop or restart.
FairSpec == Spec /\ WF_vars(Progress)

-----------------------------------------------------------------------------
(* Properties.                                                              *)

Details == [phase : {"staging", "transfer", "cleanup", "complete"},
            pid : 0 .. MaxPid, avail : BOOLEAN, files : SUBSET Files]

\* The type of the state.  Availability and a later phase are retained only
\* together with the provider task they are about (ensureProvider journals the
\* identifier before any observation).
TypeOK ==
    /\ task.state \in {"queued", "running", "canceling", "succeeded", "failed",
                       "canceled"}
    /\ task.error \in {"none", "plain", "interrupted"}
    /\ task.detail \in Details /\ task.cancel \in Slots
    /\ task.detail.pid = 0 => task.detail = NoDetail
    /\ \A r \in Slots : runners[r].detail \in Details
                        /\ runners[r].trans <= offlineTransientFailureLimit
    /\ canceler \in SUBSET Slots
    /\ cloud \in SUBSET (Pids \X Files) /\ removed \in SUBSET (Pids \X Files)
    /\ delivered \in SUBSET Files

\* cleanupPhase deletes only what is safe: a file whose staged copy the task
\* has deleted is complete at the destination, or can still be had from another
\* staged copy, whatever crashes, cancels and later retries follow.
NothingLost ==
    \A c \in removed : c[2] \in delivered \/ \E p \in Pids : <<p, c[2]>> \in cloud

\* The same for users that do not call RetryTask twice at once, which the next
\* one also assumes, and as long as no restart reads a detail older than the one
\* in memory: persist swallows a failed append, and a crash in the cleanup phase
\* whose record was lost transfers again what is already deleted.
NothingLostInTurn == ~overlap /\ ~stale => NothingLost

\* A fetch that is reported successful has delivered every file of its result
\* set, and the set is not empty (transferPhase, the persisted phases).
SucceededDelivered ==
    fetch /\ task.state = "succeeded" /\ ~overlap =>
       task.detail.files # {} /\ task.detail.files \subseteq delivered

\* "A shutdown ... must leave the provider task ... intact for restart recovery"
\* (cancelOnInterrupt): a task that nothing fails, that nobody cancels or
\* retries and whose records are all written ends successfully after any number
\* of shutdowns and crashes in any phase, unless it is left shut down, or its
\* provider reported success without listing a file to fetch.
Calm == budget.faults + budget.retries + budget.cancels + budget.lost = 0
NothingListed == task.state = "failed" /\ task.detail.phase = "transfer"
                 /\ task.detail.files = {}
Resumed == stopping \/ NothingListed \/ task.state = "succeeded"
InterruptedResumes == Calm => []<>Resumed

\* Every submitted, retried or recovered task reaches a terminal state, as long
\* as the provider makes progress (pollToTerminal, the phases of runFetch).
TaskSettles == []<>IsTerminal(task.state)

\* ensureProvider's comment: "A cancel that arrives before the identifier is
\* known prevents or removes the provider task."
CancelRemovesCreated ==
    \A r \in Slots :
       runners[r].at = "final" /\ runners[r].result = "ctx"
         /\ runners[r].ctx = "user" /\ runners[r].made # 0
       => provider[runners[r].made] # "running"

\* "a folder that still holds an unrelated entry is left untouched"
\* (cleanupStagedRootFolder's comment, and the user guide).
UnrelatedKept == unrelated # "removed"
=============================================================================
