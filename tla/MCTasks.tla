---------------------------- MODULE MCTasks ----------------------------
(***************************************************************************)
(* Instances for TLC of the background tasks: the task manager of pkg/task *)
(* with its journal, its event channels, the transfer of one file of an    *)
(* offline fetch, and the durable offline task that stages, transfers and  *)
(* cleans up.  A behavior is of one of them (part), chosen at the start,   *)
(* and leaves the others at rest.                                          *)
(***************************************************************************)
EXTENDS UrlTransfer

CONSTANTS Files, Slots, Retriers, MaxPid, offlineTransientFailureLimit, Budgets,
          Ids, Recoverable, Keys, Callers, None, MaxGen, MaxCalls, MaxStops,
          Clients, eventHistoryLimit, defaultSubscriptionBuffer, MaxSeq, Parts

VARIABLES mode, task, runners, active, retriers, canceler, provider, cloud,
          removed, delivered, unrelated, stopping, overlap, saved, lost, stale, budget,
          tasks, made, disk, line, fresh, journal, runDone, closing, goroutines,
          callers, calls, stops, errors, barred, won, dismissed,
          eventSeq, eventHistory, subs, client, todo, full, part

Offline == INSTANCE OfflineTask
Manager == INSTANCE TaskManager WITH
             ctxDone <- runDone, runners <- goroutines, faults <- errors, MaxFaults <- 1
Events == INSTANCE TaskEvents

offlineVars == <<mode, task, runners, active, retriers, canceler, provider, cloud,
                 removed, delivered, unrelated, stopping, overlap, saved, lost, stale,
                 budget>>
managerVars == <<tasks, made, disk, line, fresh, journal, runDone, closing, goroutines,
                 callers, calls, stops, errors, barred, won, dismissed>>
eventVars == <<eventSeq, eventHistory, subs, client, todo, full>>

Budget(f, s, r, c, l) ==
    [faults |-> f, stops |-> s, retries |-> r, cancels |-> c, lost |-> l]

\* A fault, a restart and a retry; a cancel among faults, restarts and retries;
\* two retries that may overlap; a lost journal write with a restart and a
\* retry; restarts alone.
MCBudgets == {Budget(1, 1, 1, 0, 0), Budget(1, 0, 1, 1, 0), Budget(0, 1, 1, 1, 0),
              Budget(0, 0, 2, 1, 0), Budget(0, 1, 1, 0, 1), Budget(0, 2, 0, 0, 0)}

\* Two overlapping retries after a failure.
MCOverlap == {Budget(1, 0, 2, 0, 0)}

FileAtRest == ~prefersURL /\ listed = 0
OfflineAtRest == mode = "fetch" /\ budget = CHOOSE b \in Budgets : TRUE

SumInit == /\ Init /\ Offline!Init /\ Manager!Init /\ Events!Init
           /\ part \in Parts
           /\ part = "file" \/ FileAtRest
           /\ part = "task" \/ OfflineAtRest
           /\ budget.retries = 2 => mode = "fetch"
           /\ part = "manager" \/ calls = 0

SumNext ==
  \/ part = "file" /\ Next /\ UNCHANGED <<offlineVars, managerVars, eventVars, part>>
  \/ part = "task" /\ Offline!Next /\ UNCHANGED <<vars, managerVars, eventVars, part>>
  \/ part = "manager" /\ Manager!Next /\ UNCHANGED <<vars, offlineVars, eventVars, part>>
  \/ part = "events" /\ Events!Next /\ UNCHANGED <<vars, offlineVars, managerVars, part>>

sumVars == <<vars, offlineVars, managerVars, eventVars, part>>
SumSpec == SumInit /\ [][SumNext]_sumVars

SumStep ==
  \/ part = "file" /\ Step /\ UNCHANGED <<offlineVars, managerVars, eventVars, part>>
  \/ part = "task" /\ Offline!Progress /\ UNCHANGED <<vars, managerVars, eventVars, part>>

FairSumSpec == /\ SumSpec /\ WF_sumVars(SumStep)
               /\ \A r \in Slots : WF_managerVars(part = "manager" /\ Manager!RunnerStep(r))
               /\ \A c \in Callers : WF_managerVars(part = "manager" /\ Manager!CallerStep(c))

-----------------------------------------------------------------------------
\* Every offline task reaches a terminal state while the provider makes progress
\* (OfflineTask, TaskSettles).
TaskSettles == []<>(part = "task" => Offline!IsTerminal(task.state))

\* No staged copy is deleted before its file is delivered, also when two calls of
\* RetryTask overlap (OfflineTask, NothingLost).
NothingLost == Offline!NothingLost

\* The same when RetryTask is called once at a time (OfflineTask).
NothingLostInTurn == Offline!NothingLostInTurn

\* A fetch reported successful has delivered every file (OfflineTask).
SucceededDelivered == Offline!SucceededDelivered

\* An undisturbed task survives any shutdowns and crashes (OfflineTask,
\* cancelOnInterrupt and recoverOfflineTasks).
InterruptedResumes ==
    part = "task" /\ Offline!Calm => []<>Offline!Resumed

\* A succeeded task ran to its end in its own generation (TaskManager,
\* updateForGeneration).
SucceededRan == Manager!SucceededRan

\* Work canceled while queued is never entered (TaskManager, manager.go:246).
CanceledNeverRuns == Manager!CanceledNeverRuns

\* A restart reads what memory says (TaskManager, UpdateManaged).
ReplayAgrees == Manager!ReplayAgrees

\* Every managed task becomes terminal or is removed (TaskManager).
TasksSettle == part = "manager" => Manager!TasksSettle

\* A client that is owed an event finds it or a gap (TaskEvents, broadcast).
NoSilentLoss == Events!NoSilentLoss
=============================================================================
