----------------------------- MODULE MCRemoval -----------------------------
(* Instances of the removal modules for TLC: a behaviour is one of            *)
(* DelayedDelete or one of KeyedScheduler, whose variables are the other      *)
(* module's idle ones meanwhile.                                              *)
EXTENDS DelayedDelete

CONSTANTS Keys, KeysUnder, MaxGen

VARIABLES part, tasks, nextGen, ticking, launched, ran

MCUnder == {<<"d/f", "d">>}
MCKeysUnder == {<<"k1", "k2">>}

Sched == INSTANCE KeyedScheduler WITH Under <- KeysUnder

schedVars == <<tasks, nextGen, ticking, launched, ran>>
allvars == <<part, vars, schedVars>>

SumInit == part \in {"delete", "scheduler"} /\ Init /\ Sched!Init

SumNext ==
    \/ part = "delete" /\ Next /\ UNCHANGED <<part, schedVars>>
    \/ part = "scheduler" /\ Sched!Next /\ UNCHANGED <<part, vars>>

SumSpec == SumInit /\ [][SumNext]_allvars

FairSumSpec == SumSpec /\ Fairness /\ Sched!Fairness

(* KeyedScheduler implements TimerMap (see ImplementsTimerMap there).         *)
ImplementsTimerMap == Sched!ImplementsTimerMap
=============================================================================
