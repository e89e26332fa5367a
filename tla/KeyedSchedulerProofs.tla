------------------------ MODULE KeyedSchedulerProofs ------------------------
(* The keyed scheduler implements the map of TimerMap, and starts no callback *)
(* twice, for every set of keys and every bound.                              *)
EXTENDS KeyedScheduler, TLAPS

(* An armed generation has not run yet, and no generation is armed under two  *)
(* keys: the function handed to one call of Schedule is run at most once,     *)
(* whatever timers were stopped too late.                                     *)
Unspent ==
    /\ \A k \in Keys : tasks[k] \notin ran
    /\ \A j, k \in Keys : tasks[j] = tasks[k] /\ tasks[j] # 0 => j = k

-----------------------------------------------------------------------------
(* The generations in timers, goroutines and the map are ones handed out.     *)

LEMMA TypeInit == Init => TypeOK
BY DEF Init, TypeOK

LEMMA DroppedType ==
  ASSUME TypeOK, NEW K
  PROVE  Dropped(K) \in [Keys -> 0 .. nextGen]
BY DEF TypeOK, Dropped

LEMMA TypeNext == TypeOK /\ [Next]_vars => TypeOK'
<1> SUFFICES ASSUME TypeOK, [Next]_vars PROVE TypeOK'
  OBVIOUS
<1> USE DEF TypeOK
<1>1. ASSUME NEW k \in Keys, Schedule(k) PROVE TypeOK'
  <2>1. 0 .. nextGen \subseteq 0 .. nextGen' /\ 1 .. nextGen \subseteq 1 .. nextGen'
        /\ nextGen' \in Nat /\ nextGen' = nextGen + 1 /\ nextGen' \in 1 .. nextGen'
    BY <1>1 DEF Schedule
  <2>2. tasks' \in [Keys -> 0 .. nextGen'] /\ ran' \subseteq 1 .. nextGen'
    BY <1>1, <2>1 DEF Schedule
  <2>3. ticking' \subseteq Keys \X (1 .. nextGen')
    <3>1. ticking' \subseteq ticking \cup {<<k, nextGen'>>}
      BY <1>1, <2>1 DEF Schedule
    <3>2. <<k, nextGen'>> \in Keys \X (1 .. nextGen')
      BY <2>1
    <3> QED
      BY <2>1, <3>1, <3>2
  <2>4. launched' \subseteq Keys \X (1 .. nextGen')
    BY <1>1, <2>1 DEF Schedule
  <2> QED
    BY <2>1, <2>2, <2>3, <2>4
<1>2. ASSUME NEW k \in Keys, Cancel(k) PROVE TypeOK'
  BY <1>2, DroppedType DEF Cancel
<1>3. ASSUME NEW k \in Keys, CancelUnder(k) PROVE TypeOK'
  BY <1>3, DroppedType DEF CancelUnder
<1>4. ASSUME CancelAll PROVE TypeOK'
  BY <1>4, DroppedType DEF CancelAll
<1>5. ASSUME NEW t \in Timers, Expire(t) PROVE TypeOK'
  BY <1>5 DEF Expire
<1>6. ASSUME NEW t \in Timers, Callback(t) PROVE TypeOK'
  <2>1. t[1] \in Keys /\ t[2] \in 1 .. nextGen
    BY <1>6 DEF Callback
  <2>2. launched' \subseteq launched /\ UNCHANGED <<nextGen, ticking>>
    BY <1>6 DEF Callback
  <2>3. \/ ran' = ran \cup {t[2]} /\ tasks' = [tasks EXCEPT ![t[1]] = 0]
        \/ UNCHANGED <<ran, tasks>>
    BY <1>6 DEF Callback
  <2>4. ran' \subseteq 1 .. nextGen
    BY Zenon, <2>1, <2>3
  <2>5. tasks' \in [Keys -> 0 .. nextGen]
    <3>1. 0 \in 0 .. nextGen /\ tasks \in [Keys -> 0 .. nextGen]
      OBVIOUS
    <3> QED
      BY <2>1, <2>3, <3>1
  <2> QED
    BY <2>2, <2>4, <2>5
<1>7. ASSUME UNCHANGED vars PROVE TypeOK'
  BY <1>7 DEF vars
<1> QED
  BY <1>1, <1>2, <1>3, <1>4, <1>5, <1>6, <1>7 DEF Next

\* Timers, launched callbacks and the map hold only generations that Schedule
\* has handed out.
THEOREM SchedulerTypes == Spec => []TypeOK
BY TypeInit, TypeNext, PTL DEF Spec

-----------------------------------------------------------------------------
(* The refinement.  tasks is the map, nextGen the number of callbacks handed  *)
(* in; timers and launched goroutines have no counterpart, so Expire and a    *)
(* callback that finds its task replaced are stuttering steps.                *)

\* The three ways the code cancels - one key, the keys under a prefix, all keys -
\* disarm the keys they drop.
LEMMA CancelDisarms ==
  ASSUME NEW K \in SUBSET Keys, tasks' = Dropped(K), UNCHANGED <<nextGen, ran>>
  PROVE  Map!Disarm(K)
BY DEF Dropped, Map!Disarm

\* The callback of the current generation fires its key; that of a replaced one
\* changes nothing the map knows.
LEMMA CallbackFires ==
  ASSUME TypeOK, NEW t \in Timers, Callback(t)
  PROVE  (\E k \in Keys : Map!Fire(k)) \/ UNCHANGED Map!vars
<1>1. t[1] \in Keys /\ t[2] \in 1 .. nextGen /\ t[2] # 0
  BY DEF Callback, TypeOK
<1>2. ASSUME tasks[t[1]] = t[2] PROVE Map!Fire(t[1])
  BY <1>1, <1>2 DEF Callback, Map!Fire
<1>3. ASSUME tasks[t[1]] # t[2] PROVE UNCHANGED Map!vars
  BY <1>3 DEF Callback, Map!vars
<1> QED
  BY <1>1, <1>2, <1>3

\* Every step of the scheduler is a step of the map or leaves it as it is.
LEMMA SchedulerStep == TypeOK /\ [Next]_vars => [Map!Next]_Map!vars
<1> SUFFICES ASSUME TypeOK, [Next]_vars PROVE [Map!Next]_Map!vars
  OBVIOUS
<1>1. ASSUME NEW k \in Keys, Schedule(k) PROVE Map!Arm(k)
  BY <1>1 DEF Schedule, Map!Arm
<1>2. ASSUME NEW k \in Keys, Cancel(k) PROVE Map!Disarm({k})
  BY <1>2, CancelDisarms DEF Cancel
<1>3. ASSUME NEW k \in Keys, CancelUnder(k)
      PROVE  \E K \in SUBSET Keys : Map!Disarm(K)
  <2> DEFINE K == {j \in Keys : j = k \/ <<j, k>> \in Under}
  <2>1. K \in SUBSET Keys /\ tasks' = Dropped(K) /\ UNCHANGED <<nextGen, ran>>
    BY <1>3 DEF CancelUnder
  <2> QED
    BY Zenon, <2>1, CancelDisarms
<1>4. ASSUME CancelAll PROVE Map!Disarm(Keys)
  BY <1>4, CancelDisarms DEF CancelAll
<1>5. ASSUME NEW t \in Timers, Expire(t) PROVE UNCHANGED Map!vars
  BY <1>5 DEF Expire, Map!vars
<1>6. ASSUME NEW t \in Timers, Callback(t)
      PROVE  (\E k \in Keys : Map!Fire(k)) \/ UNCHANGED Map!vars
  BY <1>6, CallbackFires
<1>7. ASSUME UNCHANGED vars PROVE UNCHANGED Map!vars
  BY <1>7 DEF vars, Map!vars
<1> QED
  BY Zenon, <1>1, <1>2, <1>3, <1>4, <1>5, <1>6, <1>7 DEF Next, Map!Next

\* The scheduler with its timers, goroutines and late callbacks is the map: what
\* runs is the armed callback of its key at that instant, so the callback of a
\* replaced or cancelled generation never does its work (Schedule, Cancel,
\* CancelUnder, CancelAll and the callback of scheduler.go).
THEOREM SchedulerIsTimerMap == Spec => Map!Spec
<1>1. Init => Map!Init
  BY DEF Init, Map!Init
<1> QED
  BY <1>1, SchedulerTypes, SchedulerStep, PTL DEF Spec, Map!Spec

-----------------------------------------------------------------------------
(* No callback is started twice.                                              *)

LEMMA UnspentNext == TypeOK /\ Unspent /\ [Next]_vars => Unspent'
<1> SUFFICES ASSUME TypeOK, Unspent, [Next]_vars PROVE Unspent'
  OBVIOUS
\* a step that only empties entries of the map and starts nothing
<1>0. ASSUME NEW K, tasks' = Dropped(K), ran' = ran PROVE Unspent'
  <2>1. \A k \in Keys : tasks'[k] = 0 \/ tasks'[k] = tasks[k]
    BY <1>0 DEF Dropped
  <2>2. 0 \notin ran
    BY DEF TypeOK
  <2> QED
    BY <1>0, <2>1, <2>2 DEF Unspent
<1>1. ASSUME NEW k \in Keys, Schedule(k) PROVE Unspent'
  <2>1. nextGen + 1 \notin ran /\ \A j \in Keys : tasks[j] # nextGen + 1
    BY DEF TypeOK
  <2>2. tasks' = [tasks EXCEPT ![k] = nextGen + 1] /\ ran' = ran
    BY <1>1 DEF Schedule
  <2> QED
    BY <2>1, <2>2 DEF Unspent, TypeOK
<1>2. ASSUME NEW k \in Keys, Cancel(k) PROVE Unspent'
  BY <1>0, <1>2 DEF Cancel
<1>3. ASSUME NEW k \in Keys, CancelUnder(k) PROVE Unspent'
  BY <1>0, <1>3 DEF CancelUnder
<1>4. ASSUME CancelAll PROVE Unspent'
  BY <1>0, <1>4 DEF CancelAll
<1>5. ASSUME NEW t \in Timers, Expire(t) PROVE Unspent'
  BY <1>5 DEF Expire, Unspent
<1>6. ASSUME NEW t \in Timers, Callback(t) PROVE Unspent'
  <2>1. t[1] \in Keys /\ t[2] \in 1 .. nextGen /\ t[2] # 0
    BY <1>6 DEF Callback, TypeOK
  <2>2. CASE tasks[t[1]] = t[2]
    <3>1. ran' = ran \cup {t[2]} /\ tasks' = [tasks EXCEPT ![t[1]] = 0]
      BY <1>6, <2>2 DEF Callback
    <3>2. 0 \notin ran'
      BY <2>1, <3>1 DEF TypeOK
    <3> QED
      BY <2>1, <2>2, <3>1, <3>2 DEF Unspent, TypeOK
  <2>3. CASE tasks[t[1]] # t[2]
    BY <1>6, <2>3 DEF Callback, Unspent
  <2> QED
    BY <2>2, <2>3
<1>7. ASSUME UNCHANGED vars PROVE Unspent'
  BY <1>7 DEF vars, Unspent
<1> QED
  BY <1>1, <1>2, <1>3, <1>4, <1>5, <1>6, <1>7 DEF Next

\* A callback handed to Schedule once is run at most once, and never after it
\* was replaced or cancelled: an armed generation is not among those that ran.
THEOREM CallbacksRunOnce == Spec => []Unspent
<1>1. Init => Unspent
  BY DEF Init, Unspent
<1> QED
  BY <1>1, UnspentNext, SchedulerTypes, PTL DEF Spec
=============================================================================
