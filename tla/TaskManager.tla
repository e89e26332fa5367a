---------------------------- MODULE TaskManager ----------------------------
(***************************************************************************)
(* The task manager of pkg/task with the task journal under it.            *)
(*                                                                         *)
(* Callers submit, cancel, retry and dismiss tasks; every submission,      *)
(* retry or recovery starts one goroutine (a runner) that runs the task's  *)
(* function and records its outcome.  A task carries an execution          *)
(* generation; a runner's updates count only while the generation it read  *)
(* is still the current one.  Each store call is atomic (the store's       *)
(* mutex); a handler that makes several store calls is several steps, and  *)
(* what it read in the first is what it acts on in the last.               *)
(*                                                                         *)
(* The journal is modelled by what a replay of it reads: the last record   *)
(* of each task, and the condition of its last line.                       *)
(***************************************************************************)
EXTENDS Naturals, FiniteSets

CONSTANTS Ids,          \* task ids, numbers in the order they are made
          Recoverable,  \* ids whose type has a startup recovery
          Keys,         \* idempotency keys
          Callers, Slots,
          None,
          MaxGen, MaxCalls, MaxStops, MaxFaults

VARIABLES tasks,    \* the memory store
          made,     \* ids submitted so far
          disk,     \* per id, the last journal record, or None
          line,     \* the journal's tail: "ok", "open" (no newline yet), "bad"
          fresh,    \* the last step appended a line
          journal,  \* "on", "degraded" (a write failed), "off" (memory store)
          ctxDone,  \* canceled run contexts, as <<id, generation>>
          closing,  \* Close: "no", "waiting" (all contexts canceled), "done"
          runners, callers,
          calls, stops, faults,
          barred,   \* history: <<id, gen>> canceled before its run started
          won,      \* history: <<id, gen>> whose run returned no error
          dismissed \* history: ids removed by a dismissal

journalVars == <<disk, line, fresh, journal, faults>>
historyVars == <<barred, won, dismissed>>
vars == <<tasks, made, journalVars, ctxDone, closing, runners, callers,
          calls, stops, historyVars>>

Terminal == {"succeeded", "partial_failed", "failed", "canceled"}
Active == {"queued", "running", "retry_wait", "canceling"}

TaskRecord ==
    [state : Terminal \cup Active, gen : 1..MaxGen, cancelable : BOOLEAN,
     retryable : BOOLEAN, dismissReq : BOOLEAN,
     code : {"none", "interrupted", "provider"}, key : Keys,
     run : BOOLEAN, ctx : 0..MaxGen]

NoRunner == [pc |-> "idle", id |-> None, ctx |-> 0, gen |-> 0, out |-> "none"]
NoCaller == [pc |-> "idle", id |-> None, ctx |-> 0, item |-> None]

Present(id) == tasks[id] # None
IsTerminal(t) == t.state \in Terminal
Done(r) == closing # "no" \/ <<runners[r].id, runners[r].ctx>> \in ctxDone

(***************************************************************************)
(* The journal.                                                            *)
(***************************************************************************)
\* What a journal record keeps of a task: not its function, nor its cancel.
Recorded(t) == [t EXCEPT !.run = FALSE, !.ctx = 0]

\* The fields whose change is journaled; a late dismiss mark is not one.
taskDurableKey(t) == [Recorded(t) EXCEPT !.dismissReq = FALSE]

Append(id, rec) ==
    IF journal = "off"
    THEN fresh' = FALSE /\ UNCHANGED <<disk, line, journal, faults>>
    ELSE \/ /\ disk' = [disk EXCEPT ![id] = rec]
            /\ line' = IF line = "ok" THEN "ok" ELSE "bad"
            /\ fresh' = TRUE
            /\ UNCHANGED <<journal, faults>>
         \/ /\ faults < MaxFaults
            /\ faults' = faults + 1
            /\ journal' = "degraded"
            /\ fresh' = FALSE
            /\ UNCHANGED <<disk, line>>

NoAppend == fresh' = FALSE /\ UNCHANGED <<disk, line, journal, faults>>

\* A variant that journals changes of state only.
UpdateManagedStateOnly(id, t) ==
    /\ tasks' = [tasks EXCEPT ![id] = t]
    /\ IF t.state # tasks[id].state THEN Append(id, Recorded(t)) ELSE NoAppend

UpdateManaged(id, t) ==
    /\ tasks' = [tasks EXCEPT ![id] = t]
    /\ IF taskDurableKey(t) # taskDurableKey(tasks[id])
       THEN Append(id, Recorded(t))
       ELSE NoAppend

normalizeReplayedTask(t) ==
    IF t.state \in Active
    THEN [t EXCEPT !.state = "failed", !.cancelable = FALSE,
                   !.retryable = FALSE, !.code = "interrupted"]
    ELSE [t EXCEPT !.cancelable = FALSE, !.retryable = FALSE]

replay == [id \in Ids |->
             IF disk[id] = None THEN None ELSE normalizeReplayedTask(disk[id])]

\* What a new process loads from a journal that ends in tail: nothing at all,
\* in the memory store, when a line does not parse.
loaded(tail) == IF tail = "bad" THEN [id \in Ids |-> None] ELSE replay

\* How the journal may end if the process stops now: perhaps between the two
\* writes of the last line.
Tails == {line} \cup (IF fresh /\ line = "ok" THEN {"open"} ELSE {})

normalizeCapabilities(t) ==
    [t EXCEPT !.cancelable = t.state \notin Terminal \cup {"canceling"}]

(***************************************************************************)
(* Runners.                                                                *)
(***************************************************************************)
Free == {r \in Slots : runners[r].pc = "idle"}

Launch(id, ctx) ==
    \E r \in Free :
        /\ \A s \in Free : r <= s
        /\ runners' = [runners EXCEPT
                         ![r] = [NoRunner EXCEPT !.pc = "fetch", !.id = id,
                                                 !.ctx = ctx]]

Exit(r) == runners' = [runners EXCEPT ![r] = NoRunner]

RunFetch(r) ==
    /\ runners[r].pc = "fetch"
    /\ LET id == runners[r].id IN
       IF Present(id) /\ tasks[id].run
       THEN runners' = [runners EXCEPT ![r].pc = "start",
                                       ![r].gen = tasks[id].gen]
       ELSE Exit(r)
    /\ NoAppend
    /\ UNCHANGED <<tasks, made, ctxDone, closing, callers, calls, stops,
                   historyVars>>

\* A variant without the generation check.
CurrentAnyGeneration(r) == Present(runners[r].id)

\* updateForGeneration's guard.
Current(r) == /\ Present(runners[r].id)
              /\ tasks[runners[r].id].gen = runners[r].gen

AfterEnd(r, t) == IF t.dismissReq
                  THEN runners' = [runners EXCEPT ![r].pc = "remove"]
                  ELSE Exit(r)

Halted(t) ==
    [t EXCEPT !.state = IF t.state = "canceling" THEN "canceled" ELSE "failed",
              !.retryable = t.retryable /\ t.state = "canceling",
              !.code = IF t.state # "canceling" /\ t.code = "none"
                       THEN "interrupted" ELSE t.code]

startRunOn(r, halt, halted) ==
    /\ runners[r].pc = "start"
    /\ LET id == runners[r].id
           t == tasks[id]
       IN \/ /\ ~Current(r)
             /\ Exit(r) /\ NoAppend /\ UNCHANGED tasks
          \/ /\ Current(r) /\ IsTerminal(t)
             /\ UpdateManaged(id, normalizeCapabilities(t))
             /\ AfterEnd(r, t)
          \/ /\ Current(r) /\ ~IsTerminal(t) /\ halt
             /\ UpdateManaged(id, normalizeCapabilities(halted))
             /\ AfterEnd(r, t)
          \/ /\ Current(r) /\ ~IsTerminal(t) /\ ~halt
             /\ UpdateManaged(id,
                  normalizeCapabilities([t EXCEPT !.state = "running"]))
             /\ runners' = [runners EXCEPT ![r].pc = "run"]
    /\ UNCHANGED <<made, ctxDone, closing, callers, calls, stops, historyVars>>

\* Variants of startRun with a bug: only the context is looked at, and
\* a task canceled before its start is left as it is.
startRunByContext(r) == LET t == tasks[runners[r].id]
                        IN startRunOn(r, Done(r), Halted(t))
startRunSilent(r) == LET t == tasks[runners[r].id]
                     IN startRunOn(r, t.state = "canceling" \/ Done(r), t)

startRun(r) == LET t == tasks[runners[r].id]
               IN startRunOn(r, t.state = "canceling" \/ Done(r), Halted(t))

RunUpdate(r, t) ==
    IF Current(r)
    THEN UpdateManaged(runners[r].id, normalizeCapabilities(t))
    ELSE NoAppend /\ UNCHANGED tasks

\* A direct upload backs off (retry offered meanwhile) and resumes.
RunBackoff(r) ==
    /\ runners[r].pc = "run"
    /\ LET t == tasks[runners[r].id] IN
       IF ~Current(r) THEN RunUpdate(r, t)
       ELSE \/ RunUpdate(r, [t EXCEPT !.state = "retry_wait",
                                      !.retryable = TRUE, !.code = "provider"])
            \/ /\ t.state = "retry_wait"
               /\ RunUpdate(r, [t EXCEPT !.state = "running", !.code = "none"])
    /\ UNCHANGED <<made, ctxDone, closing, runners, callers, calls, stops,
                   historyVars>>

\* The run function's last update and its return.
RunReturns(r) ==
    /\ runners[r].pc = "run"
    /\ \E out \in {"ok", "fail", "partial", "canceled", "interrupted"} :
         LET t == IF Current(r) THEN tasks[runners[r].id] ELSE None IN
         /\ out = "interrupted" => Done(r)
         /\ IF out \in {"fail", "partial"} /\ t # None
            THEN RunUpdate(r, [t EXCEPT !.retryable = TRUE, !.code = "none",
                                        !.state = IF out = "partial"
                                                  THEN "partial_failed" ELSE @])
            ELSE NoAppend /\ UNCHANGED tasks
         /\ runners' = [runners EXCEPT ![r].pc = "end", ![r].out = out]
         /\ won' = IF out \in {"ok", "partial"}
                   THEN won \cup {<<runners[r].id, runners[r].gen>>} ELSE won
    /\ UNCHANGED <<made, ctxDone, closing, callers, calls, stops, barred,
                   dismissed>>

Outcome(t, out, done) ==
    IF out = "canceled" THEN [t EXCEPT !.state = "canceled"]
    ELSE IF out \in {"fail", "interrupted"} /\ done
    THEN IF t.state = "canceling"
         THEN [t EXCEPT !.state = "canceled", !.code = "none"]
         ELSE [t EXCEPT !.state = "failed", !.retryable = FALSE,
                        !.code = IF t.code = "none" THEN "interrupted" ELSE @]
    ELSE IF out \in {"fail", "interrupted"} THEN [t EXCEPT !.state = "failed"]
    ELSE IF t.state = "partial_failed" THEN t
    ELSE [t EXCEPT !.state = "succeeded", !.code = "none"]

RunFinal(r) ==
    /\ runners[r].pc = "end"
    /\ LET t == tasks[runners[r].id] IN
       IF Current(r)
       THEN /\ RunUpdate(r, Outcome(t, runners[r].out, Done(r)))
            /\ AfterEnd(r, t)
       ELSE Exit(r) /\ NoAppend /\ UNCHANGED tasks
    /\ UNCHANGED <<made, ctxDone, closing, callers, calls, stops, historyVars>>

(***************************************************************************)
(* DismissManaged: the memory record goes first, its journal line after.   *)
(***************************************************************************)
DropMemory(id) ==
    /\ tasks' = [tasks EXCEPT ![id] = None]
    /\ dismissed' = dismissed \cup {id}
    /\ NoAppend

RunRemove(r) ==
    /\ runners[r].pc = "remove"
    /\ IF Present(runners[r].id)
       THEN /\ DropMemory(runners[r].id)
            /\ runners' = [runners EXCEPT ![r].pc = "unlink"]
       ELSE Exit(r) /\ NoAppend /\ UNCHANGED <<tasks, dismissed>>
    /\ UNCHANGED <<made, ctxDone, closing, callers, calls, stops, barred, won>>

RunUnlink(r) ==
    /\ runners[r].pc = "unlink"
    /\ Append(runners[r].id, None)
    /\ Exit(r)
    /\ UNCHANGED <<tasks, made, ctxDone, closing, callers, calls, stops,
                   historyVars>>

(***************************************************************************)
(* Callers.                                                                *)
(***************************************************************************)
\* Callers and slots are interchangeable: the first free one is taken.
Idle(c) == /\ callers[c].pc = "idle" /\ calls < MaxCalls
           /\ \A d \in Callers : d < c => callers[d].pc # "idle"
Step(c, rec) == callers' = [callers EXCEPT ![c] = rec]
Finish(c) == Step(c, NoCaller)

NewTask(key) ==
    [state |-> "queued", gen |-> 1, cancelable |-> TRUE, retryable |-> FALSE,
     dismissReq |-> FALSE, code |-> "none", key |-> key, run |-> TRUE, ctx |-> 1]

\* findIdempotent: the key is held by a task, whatever its state.
KeyHeld(key) == \E id \in Ids : Present(id) /\ tasks[id].key = key

\* The lookup and the put: submitMu is held from here to SubmitPersist.  A
\* known key starts nothing, whether it returns its task or a conflict.
SubmitPut(c, key) ==
    /\ Idle(c) /\ made # Ids
    /\ \A d \in Callers : callers[d].pc # "persist"
    /\ calls' = calls + 1
    /\ LET id == CHOOSE i \in Ids \ made : \A j \in Ids \ made : i <= j IN
       IF KeyHeld(key)
       THEN UNCHANGED <<tasks, made, callers>>
       ELSE /\ tasks' = [tasks EXCEPT ![id] = NewTask(key)]
            /\ made' = made \cup {id}
            /\ Step(c, [NoCaller EXCEPT !.pc = "persist", !.id = id,
                                        !.item = NewTask(key)])
    /\ NoAppend
    /\ UNCHANGED <<ctxDone, closing, runners, stops, historyVars>>

\* persistTask outside the store's lock, of the task as it was put.
SubmitPersist(c) ==
    /\ callers[c].pc = "persist"
    /\ Append(callers[c].id, Recorded(callers[c].item))
    /\ Launch(callers[c].id, 1)
    /\ Finish(c)
    /\ UNCHANGED <<tasks, made, ctxDone, closing, calls, stops, historyVars>>

\* GetManaged and the handler's checks on the copy it returns.
Get(c, id, next) ==
    /\ Idle(c) /\ Present(id)
    /\ calls' = calls + 1
    /\ Step(c, [NoCaller EXCEPT !.pc = next, !.id = id, !.ctx = tasks[id].ctx])
    /\ NoAppend
    /\ UNCHANGED <<tasks, made, ctxDone, closing, runners, stops, historyVars>>

CancelGet(c, id) == Present(id) /\ tasks[id].cancelable /\ Get(c, id, "cancel")

RetryGet(c, id) ==
    Present(id) /\ tasks[id].retryable /\ tasks[id].run /\ Get(c, id, "retry")

DismissGet(c, id) ==
    /\ Present(id)
    /\ \/ tasks[id].cancelable /\ Get(c, id, "mark")
       \/ /\ ~tasks[id].cancelable /\ IsTerminal(tasks[id])
          /\ Get(c, id, "drop")

\* CancelTask and DismissTask of an active task: Canceling, then the cancel
\* function the handler read.
MarkCanceling(c) ==
    /\ callers[c].pc \in {"cancel", "mark"}
    /\ LET id == callers[c].id
           t == tasks[id]
           marked == [t EXCEPT
             !.state = IF IsTerminal(t) THEN @ ELSE "canceling",
             !.dismissReq = @ \/ callers[c].pc = "mark"]
       IN IF Present(id)
          THEN /\ UpdateManaged(id, marked)
               /\ barred' = IF t.state = "queued"
                            THEN barred \cup {<<id, t.gen>>} ELSE barred
          ELSE NoAppend /\ UNCHANGED <<tasks, barred>>
    /\ Step(c, [callers[c] EXCEPT !.pc = "fire"])
    /\ UNCHANGED <<made, ctxDone, closing, runners, calls, stops, won, dismissed>>

FireCancel(c) ==
    /\ callers[c].pc = "fire"
    /\ ctxDone' = ctxDone \cup {<<callers[c].id, callers[c].ctx>>}
    /\ Finish(c)
    /\ NoAppend
    /\ UNCHANGED <<tasks, made, closing, runners, calls, stops, historyVars>>

\* RetryTask's update; the goroutine starts even when the task has gone.
RetryApply(c) ==
    /\ callers[c].pc = "retry"
    /\ LET id == callers[c].id
           t == tasks[id]
       IN IF Present(id)
          THEN /\ t.gen < MaxGen
               /\ UpdateManaged(id, [t EXCEPT !.state = "queued",
                      !.code = "none", !.gen = @ + 1, !.ctx = t.gen + 1])
               /\ Launch(id, t.gen + 1)
          ELSE Launch(id, 0) /\ NoAppend /\ UNCHANGED tasks
    /\ Finish(c)
    /\ UNCHANGED <<made, ctxDone, closing, calls, stops, historyVars>>

\* DismissManaged after the checks of DismissTask or DismissFinishedTasks.
DropTask(c) ==
    /\ callers[c].pc = "drop"
    /\ IF Present(callers[c].id)
       THEN /\ DropMemory(callers[c].id)
            /\ Step(c, [callers[c] EXCEPT !.pc = "unlink"])
       ELSE Finish(c) /\ NoAppend /\ UNCHANGED <<tasks, dismissed>>
    /\ UNCHANGED <<made, ctxDone, closing, runners, calls, stops, barred, won>>

DropUnlink(c) ==
    /\ callers[c].pc = "unlink"
    /\ Append(callers[c].id, None)
    /\ Finish(c)
    /\ UNCHANGED <<tasks, made, ctxDone, closing, runners, calls, stops,
                   historyVars>>

(***************************************************************************)
(* Shutdown, crash and restart.                                            *)
(***************************************************************************)
Close ==
    /\ stops < MaxStops
    /\ \/ closing = "no" /\ closing' = "waiting"
       \/ /\ closing = "waiting" /\ closing' = "done"
          /\ \A r \in Slots : runners[r].pc = "idle"
    /\ NoAppend
    /\ UNCHANGED <<tasks, made, ctxDone, runners, callers, calls, stops,
                   historyVars>>

\* RecoverTask, for one task, at startup.
Recovered(t) ==
    [t EXCEPT !.state = "queued", !.code = "none", !.gen = @ + 1,
              !.ctx = t.gen + 1, !.run = TRUE, !.cancelable = TRUE,
              !.retryable = FALSE]

\* A new process: replay, or the memory store when the journal does not read,
\* then newTaskManager's recovery of interrupted work.
Restart(tail) ==
    LET found == loaded(tail)
        back == {id \in Recoverable : /\ found[id] # None
                                      /\ found[id].state = "failed"
                                      /\ found[id].code = "interrupted"
                                      /\ found[id].gen < MaxGen}
        live == [id \in Ids |-> IF id \in back THEN Recovered(found[id])
                                               ELSE found[id]]
    IN /\ stops < MaxStops
       /\ stops' = stops + 1
       /\ tasks' = live
       /\ journal' = IF tail = "bad" THEN "off" ELSE "on"
       /\ disk' = [id \in Ids |-> IF id \in back THEN Recorded(live[id])
                                                 ELSE disk[id]]
       /\ line' = IF tail = "open" /\ back # {} THEN "bad" ELSE tail
       /\ LET slot == CHOOSE f \in [back -> Slots] :
                        \A i, j \in back : i # j => f[i] # f[j]
          IN runners' = [r \in Slots |->
               IF \E id \in back : slot[id] = r
               THEN LET id == CHOOSE i \in back : slot[i] = r
                    IN [NoRunner EXCEPT !.pc = "fetch", !.id = id,
                                        !.ctx = live[id].ctx]
               ELSE NoRunner]
       /\ callers' = [c \in Callers |-> NoCaller]
       /\ ctxDone' = {} /\ closing' = "no" /\ fresh' = FALSE
       /\ UNCHANGED <<made, calls, faults, historyVars>>

\* The process stops anywhere (after Close too).
Crash == \E tail \in Tails : Restart(tail)

Init ==
    /\ tasks = [id \in Ids |-> None] /\ made = {}
    /\ disk = [id \in Ids |-> None] /\ line = "ok" /\ fresh = FALSE
    /\ journal = "on" /\ ctxDone = {} /\ closing = "no"
    /\ runners = [r \in Slots |-> NoRunner]
    /\ callers = [c \in Callers |-> NoCaller]
    /\ stops = 0
    /\ \/ calls = 0 /\ faults = MaxFaults   \* every write succeeds, or
       \/ calls = 1 /\ faults = 0           \* one call less, and some may fail
    /\ barred = {} /\ won = {} /\ dismissed = {}

RunnerStep(r) == \/ RunFetch(r) \/ startRun(r) \/ RunReturns(r) \/ RunFinal(r)
                 \/ RunRemove(r) \/ RunUnlink(r)
CallerStep(c) == \/ SubmitPersist(c) \/ MarkCanceling(c) \/ FireCancel(c)
                 \/ RetryApply(c) \/ DropTask(c) \/ DropUnlink(c)

Next == \/ \E r \in Slots : RunnerStep(r) \/ RunBackoff(r)
        \/ \E c \in Callers : CallerStep(c)
        \/ \E c \in Callers, key \in Keys : SubmitPut(c, key)
        \/ \E c \in Callers, id \in Ids :
             \/ CancelGet(c, id) \/ RetryGet(c, id) \/ DismissGet(c, id)
        \/ Close \/ Crash

Spec == Init /\ [][Next]_vars

\* Goroutines run, handlers finish, and every run function returns.
FairSpec == /\ Spec
            /\ \A r \in Slots : WF_vars(RunnerStep(r))
            /\ \A c \in Callers : WF_vars(CallerStep(c))

(***************************************************************************)
(* Properties.                                                             *)
(***************************************************************************)
\* Tasks, runners and handlers have their types.
TypeOK ==
    /\ tasks \in [Ids -> TaskRecord \cup {None}]
    /\ disk \in [Ids -> TaskRecord \cup {None}]
    /\ line \in {"ok", "open", "bad"} /\ journal \in {"on", "degraded", "off"}
    /\ \A r \in Slots : runners[r].pc \in {"idle", "fetch", "start", "run",
                                            "end", "remove", "unlink"}
    /\ \A c \in Callers : callers[c].pc \in {"idle", "persist", "cancel",
                            "retry", "mark", "fire", "drop", "unlink"}

\* A task reported as succeeded had its run function return no error in the
\* very generation the task is in: no runner of an earlier attempt, however
\* late it ends, writes its outcome over the current one
\* (updateForGeneration, and the generation the goroutine reads at its start).
SucceededRan ==
    \A id \in Ids : Present(id) /\ tasks[id].state = "succeeded" =>
        <<id, tasks[id].gen>> \in won

\* "canceled work must not produce its side effects" (manager.go:246): once
\* CancelTask or DismissTask has marked a queued generation, its run function
\* is never entered, whatever the goroutine had already read.
CanceledNeverRuns ==
    \A r \in Slots : runners[r].pc \in {"run", "end"} =>
        <<runners[r].id, runners[r].gen>> \notin barred

\* Ids whose put or dismissal is between its memory and its journal half.
InWindow(id) ==
    \/ \E c \in Callers : callers[c].pc \in {"persist", "unlink"} /\ callers[c].id = id
    \/ \E r \in Slots : runners[r].pc = "unlink" /\ runners[r].id = id

Seen(t) == IF t = None THEN None
           ELSE LET n == normalizeReplayedTask(t)
                IN [state |-> n.state, gen |-> n.gen, code |-> n.code, key |-> n.key]

\* A restart at this moment, the process stopping inside the last line included,
\* loads of every task what memory says of it once interrupted work is
\* normalised (UpdateManaged journals inside the store's lock, durable changes
\* only).  Three cases are left out: a write failed, which is remembered; the
\* task is half way through its put or its removal; and a line is glued to one
\* that an earlier crash left without its newline, after which replay refuses
\* the whole journal (JournalSurvives).
ReplayAgrees ==
    journal = "on" /\ line # "bad" =>
        \A id \in Ids : ~InWindow(id) =>
            \A tail \in Tails : Seen(loaded(tail)[id]) = Seen(tasks[id])

\* Every task comes to rest: it is terminal, or gone, again and again.
TasksSettle ==
    \A id \in Ids : []<>(~Present(id) \/ IsTerminal(tasks[id]))

(***************************************************************************)
(* What the task-api specification says, which the code does not keep.     *)
(***************************************************************************)
\* "at most one valid runner": no two goroutines run the function of one task
\* in its current generation.
OneValidRunner ==
    \A r, s \in Slots :
        /\ r # s /\ runners[r].pc = "run" /\ runners[s].pc = "run"
        /\ runners[r].id = runners[s].id
        => ~(Current(r) /\ Current(s))

\* Dismissing a task that is still executing does not discard its record.
DismissKeepsActive ==
    [][\A id \in Ids :
         Present(id) /\ ~IsTerminal(tasks[id]) => tasks'[id] # None \/ stops' # stops]_vars

\* A task whose journal record was written, and that nobody dismissed, is
\* known after a restart.
JournalSurvives ==
    [][stops' # stops => \A id \in Ids :
         disk[id] # None /\ id \notin dismissed => tasks'[id] # None]_vars

\* A dismissal that was accepted removes the task in the end.
DismissHappens ==
    \A id \in Ids : (Present(id) /\ tasks[id].dismissReq) ~> ~Present(id)
=============================================================================
