--------------------------- MODULE KeyedScheduler ---------------------------
(* The timer-backed keyed scheduler of pkg/vfs/scheduler/scheduler.go.  A     *)
(* task is one generation of a key; its timer's callback runs on a goroutine  *)
(* of its own, so it may already have been launched when the task is replaced *)
(* or cancelled and Stop comes too late.  The callback then takes the lock,   *)
(* compares its own task with the current one and only then deletes the entry *)
(* and runs its function.                                                     *)
EXTENDS Naturals

CONSTANTS
    Keys,       \* the keys: virtual paths
    Under,      \* the pairs <<k, p>> with k strictly under p (IsPathUnder)
    MaxGen      \* bound: calls of Schedule

VARIABLES
    tasks,      \* key -> generation of its current task, 0 when it has none
    nextGen,    \* the next generation minus one (the code counts from 0)
    ticking,    \* <<key, generation>> of the timers not yet expired nor stopped
    launched,   \* <<key, generation>> of callbacks that wait for the lock
    ran         \* generations whose function was run

vars == <<tasks, nextGen, ticking, launched, ran>>

TypeOK ==
    /\ tasks \in [Keys -> 0..nextGen]
    /\ nextGen \in Nat
    /\ ticking \subseteq Keys \X (1..nextGen)
    /\ launched \subseteq Keys \X (1..nextGen)
    /\ ran \subseteq 1..nextGen

Init ==
    /\ tasks = [k \in Keys |-> 0]
    /\ nextGen = 0
    /\ ticking = {}
    /\ launched = {}
    /\ ran = {}

\* timer.Stop on the current tasks of K: it reaches only timers still ticking.
Stopped(K) == {t \in ticking : t[1] \in K /\ t[2] = tasks[t[1]]}

Dropped(K) == [k \in Keys |-> IF k \in K THEN 0 ELSE tasks[k]]

\* Schedule: stop the old timer, start the new one and install the new task.
Schedule(k) ==
    /\ nextGen < MaxGen
    /\ nextGen' = nextGen + 1
    /\ ticking' = (ticking \ Stopped({k})) \cup {<<k, nextGen + 1>>}
    /\ tasks' = [tasks EXCEPT ![k] = nextGen + 1]
    /\ UNCHANGED <<launched, ran>>

Cancel(k) ==
    /\ tasks[k] # 0
    /\ ticking' = ticking \ Stopped({k})
    /\ tasks' = Dropped({k})
    /\ UNCHANGED <<nextGen, launched, ran>>

\* CancelUnder: the keys equal to prefix or under it.
CancelUnder(prefix) ==
    LET K == {k \in Keys : k = prefix \/ <<k, prefix>> \in Under}
    IN  /\ ticking' = ticking \ Stopped(K)
        /\ tasks' = Dropped(K)
        /\ UNCHANGED <<nextGen, launched, ran>>

CancelAll ==
    /\ ticking' = ticking \ Stopped(Keys)
    /\ tasks' = Dropped(Keys)
    /\ UNCHANGED <<nextGen, launched, ran>>

\* time.AfterFunc: the delay is over and the callback's goroutine is started.
Expire(t) ==
    /\ t \in ticking
    /\ ticking' = ticking \ {t}
    /\ launched' = launched \cup {t}
    /\ UNCHANGED <<tasks, nextGen, ran>>

\* The defect the generation token prevents: the callback does not compare.
CallbackUnchecked(t) ==
    /\ t \in launched
    /\ launched' = launched \ {t}
    /\ ran' = ran \cup {t[2]}
    /\ tasks' = [tasks EXCEPT ![t[1]] = 0]
    /\ UNCHANGED <<nextGen, ticking>>

\* The callback under the lock: a replaced or cancelled generation returns,
\* the current one deletes its entry and runs its function.
Callback(t) ==
    /\ t \in launched
    /\ launched' = launched \ {t}
    /\ IF tasks[t[1]] = t[2]
         THEN /\ ran' = ran \cup {t[2]}
              /\ tasks' = [tasks EXCEPT ![t[1]] = 0]
         ELSE UNCHANGED <<ran, tasks>>
    /\ UNCHANGED <<nextGen, ticking>>

Timers == Keys \X (1..MaxGen)

Next ==
    \/ \E k \in Keys : Schedule(k)
    \/ \E k \in Keys : Cancel(k)
    \/ \E k \in Keys : CancelUnder(k)
    \/ CancelAll
    \/ \E t \in Timers : Expire(t)
    \/ \E t \in Timers : Callback(t)

Spec == Init /\ [][Next]_vars

\* Timers expire and goroutines run: the runtime guarantees both.
Fairness == \A t \in Timers : WF_vars(Expire(t)) /\ WF_vars(Callback(t))

FairSpec == Spec /\ Fairness

-----------------------------------------------------------------------------
Map == INSTANCE TimerMap WITH armed <- tasks, calls <- nextGen, Calls <- 1..MaxGen

(* The scheduler, with its goroutines and late timers, is the map TimerMap    *)
(* describes: whatever runs was the armed callback of its key at that         *)
(* instant, so a replaced or cancelled delete or upload never runs, and what  *)
(* stays armed does run ("a stale callback from a replaced/cancelled          *)
(* generation can never ... execute its own superseded work").                *)
ImplementsTimerMap == Map!FairSpec
=============================================================================
