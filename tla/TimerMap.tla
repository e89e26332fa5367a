------------------------------ MODULE TimerMap ------------------------------
(* What the keyed scheduler of pkg/vfs/scheduler promises its users, the      *)
(* upload debounce and the delayed delete: a map from keys to the callback    *)
(* that will run next for the key.  Arming a key replaces its callback,       *)
(* cancelling drops it, and a callback that runs is the one the map holds at  *)
(* that instant.  No timer, goroutine or lock appears here.                   *)
EXTENDS Naturals

CONSTANTS
    Keys,       \* what a callback is filed under
    Calls       \* the numbers callbacks can have

VARIABLES
    armed,      \* key -> the number of its callback, 0 when it has none
    calls,      \* callbacks handed to the scheduler so far
    ran         \* the callbacks that have been started

vars == <<armed, calls, ran>>

Init ==
    /\ armed = [k \in Keys |-> 0]
    /\ calls = 0
    /\ ran = {}

\* Schedule: the key's callback becomes the new one, whatever was armed.
Arm(k) ==
    /\ calls' = calls + 1
    /\ armed' = [armed EXCEPT ![k] = calls + 1]
    /\ UNCHANGED ran

\* Cancel, CancelUnder and CancelAll: the keys of K have no callback any more.
Disarm(K) ==
    /\ armed' = [k \in Keys |-> IF k \in K THEN 0 ELSE armed[k]]
    /\ UNCHANGED <<calls, ran>>

\* The callback of k starts; it is armed no longer.
Fire(k) ==
    /\ armed[k] # 0
    /\ ran' = ran \cup {armed[k]}
    /\ armed' = [armed EXCEPT ![k] = 0]
    /\ UNCHANGED calls

Next ==
    \/ \E k \in Keys : Arm(k)
    \/ \E K \in SUBSET Keys : Disarm(K)
    \/ \E k \in Keys : Fire(k)

Spec == Init /\ [][Next]_vars

\* A callback that stays armed is started.  The fairness is one of callbacks,
\* not of keys: a key armed again and again need never fire.
FairSpec ==
    Spec /\ \A k \in Keys, n \in Calls : WF_vars(armed[k] = n /\ Fire(k))
=============================================================================
