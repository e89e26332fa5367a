------------------------- MODULE TaskManagerProofs -------------------------
(***************************************************************************)
(* Proofs about TaskManager, for every set of ids, callers and goroutines, *)
(* any number of calls and restarts, and any bound on generations: the     *)
(* types, and what each kind of step may do to tasks, journal, goroutines  *)
(* and handlers, which TaskOutcomeProofs builds on.                        *)
(***************************************************************************)
EXTENDS TaskManager, WellFoundedInduction, TLAPS

\* Ids are numbers in the order they are made; None is no task and no id.
Constants ==
    /\ MaxGen \in Nat \ {0} /\ MaxFaults \in Nat /\ MaxStops \in Nat
    /\ Ids \subseteq Nat /\ Recoverable \subseteq Ids
    /\ None \notin Ids /\ None \notin TaskRecord

RunnerRecord ==
    [pc : {"idle", "fetch", "start", "run", "end", "remove", "unlink"},
     id : Ids \cup {None}, ctx : 0..MaxGen, gen : 0..MaxGen,
     out : {"none", "ok", "fail", "partial", "canceled", "interrupted"}]
CallerRecord ==
    [pc : {"idle", "persist", "cancel", "retry", "mark", "fire", "drop", "unlink"},
     id : Ids \cup {None}, ctx : 0..MaxGen, item : TaskRecord \cup {None}]

\* The types, and that whoever works works on an id that was submitted.
Shape ==
    /\ tasks \in [Ids -> TaskRecord \cup {None}]
    /\ disk \in [Ids -> TaskRecord \cup {None}]
    /\ line \in {"ok", "open", "bad"} /\ journal \in {"on", "degraded", "off"}
    /\ runners \in [Slots -> RunnerRecord] /\ callers \in [Callers -> CallerRecord]
    /\ faults \in Nat /\ stops \in Nat /\ made \subseteq Ids
    /\ \A r \in Slots : runners[r].pc # "idle" => runners[r].id \in made
    /\ \A c \in Callers : callers[c].pc # "idle" => callers[c].id \in made
    /\ \A c \in Callers : callers[c].pc = "persist" =>
         callers[c].item \in {NewTask(k) : k \in Keys}
    /\ \A id \in Ids : tasks[id] # None \/ disk[id] # None => id \in made

-----------------------------------------------------------------------------
(* What the updates of a task and the writes of the journal do.            *)

\* u is a task like t, in the same generation and under the same key.
SameTask(u, t) == u \in TaskRecord /\ u.gen = t.gen /\ u.key = t.key

LEMMA SetState ==
  ASSUME NEW t \in TaskRecord, NEW s \in Terminal \cup Active
  PROVE  SameTask([t EXCEPT !.state = s], t) /\ [t EXCEPT !.state = s].state = s
BY DEF TaskRecord, SameTask, Terminal, Active

LEMMA SetOffered ==
  ASSUME NEW t \in TaskRecord, NEW s \in Terminal \cup Active
  PROVE  /\ SameTask([t EXCEPT !.retryable = TRUE, !.code = "none", !.state = s], t)
         /\ [t EXCEPT !.retryable = TRUE, !.code = "none", !.state = s].state = s
BY ZenonT(60) DEF TaskRecord, SameTask, Terminal, Active

LEMMA SetBackoff ==
  ASSUME NEW t \in TaskRecord
  PROVE  /\ SameTask([t EXCEPT !.state = "retry_wait", !.retryable = TRUE, !.code = "provider"], t)
         /\ [t EXCEPT !.state = "retry_wait", !.retryable = TRUE,
                      !.code = "provider"].state = "retry_wait"
         /\ SameTask([t EXCEPT !.state = "running", !.code = "none"], t)
         /\ [t EXCEPT !.state = "running", !.code = "none"].state = "running"
BY ZenonT(60) DEF TaskRecord, SameTask, Terminal, Active

LEMMA Normalized ==
  ASSUME NEW t \in TaskRecord
  PROVE  SameTask(normalizeCapabilities(t), t) /\ normalizeCapabilities(t).state = t.state
BY ZenonT(60) DEF TaskRecord, SameTask, normalizeCapabilities

LEMMA HaltedTask ==
  ASSUME NEW t \in TaskRecord
  PROVE  SameTask(Halted(t), t) /\ Halted(t).state \in {"canceled", "failed"}
BY ZenonT(60) DEF TaskRecord, SameTask, Halted, Terminal, Active

LEMMA OutcomeTask ==
  ASSUME NEW t \in TaskRecord, NEW out, NEW done \in BOOLEAN
  PROVE  /\ SameTask(Outcome(t, out, done), t) /\ Outcome(t, out, done).state \in Terminal
         /\ out \in {"canceled", "fail", "interrupted"} =>
              Outcome(t, out, done).state # "succeeded"
BY ZenonT(60) DEF TaskRecord, SameTask, Outcome, Terminal, Active

Marking(t, s, b) == [t EXCEPT !.state = s, !.dismissReq = b]

LEMMA MarkedTask ==
  ASSUME NEW t \in TaskRecord, NEW s \in Terminal \cup Active, NEW b \in BOOLEAN
  PROVE  /\ SameTask(Marking(t, s, b), t) /\ Marking(t, s, b).state = s
         /\ Marking(t, s, b).retryable = t.retryable
BY ZenonT(60) DEF TaskRecord, SameTask, Terminal, Active, Marking

Requeue(t) == [t EXCEPT !.state = "queued", !.code = "none", !.gen = @ + 1, !.ctx = t.gen + 1]

LEMMA RequeuedTask ==
  ASSUME NEW t \in TaskRecord, t.gen < MaxGen, Constants
  PROVE  LET u == Requeue(t)
         IN u \in TaskRecord /\ u.gen = t.gen + 1 /\ u.state = "queued" /\ u.key = t.key
<1>1. t.gen \in 1..MaxGen /\ t.gen + 1 \in 1..MaxGen /\ t.gen + 1 \in 0..MaxGen
  BY DEF TaskRecord, Constants
<1> QED
  BY ZenonT(60), <1>1 DEF TaskRecord, Terminal, Active, Requeue

LEMMA RecoveredTask ==
  ASSUME NEW t \in TaskRecord, t.gen < MaxGen, Constants
  PROVE  /\ Recovered(t) \in TaskRecord /\ Recovered(t).gen = t.gen + 1
         /\ Recovered(t).state = "queued" /\ Recovered(t).ctx = t.gen + 1
<1>1. t.gen \in 1..MaxGen /\ t.gen + 1 \in 1..MaxGen /\ t.gen + 1 \in 0..MaxGen
  BY DEF TaskRecord, Constants
<1> QED
  BY ZenonT(60), <1>1 DEF TaskRecord, Terminal, Active, Recovered

LEMMA RecordedTask ==
  ASSUME NEW t \in TaskRecord, Constants
  PROVE  /\ SameTask(Recorded(t), t) /\ Recorded(t).state = t.state
         /\ Recorded(t).code = t.code
<1>1. 0 \in 0..MaxGen
  BY DEF Constants
<1> QED
  BY ZenonT(60), <1>1, Zenon DEF TaskRecord, SameTask, Recorded

LEMMA ReplayedTask ==
  ASSUME NEW t \in TaskRecord
  PROVE  /\ SameTask(normalizeReplayedTask(t), t)
         /\ normalizeReplayedTask(t).state \in Terminal
         /\ normalizeReplayedTask(t).state = "succeeded" => t.state = "succeeded"
BY ZenonT(60) DEF TaskRecord, SameTask, normalizeReplayedTask, Terminal, Active

LEMMA FirstTask ==
  ASSUME Constants, NEW k \in Keys
  PROVE  /\ NewTask(k) \in TaskRecord /\ NewTask(k).state = "queued" /\ NewTask(k).gen = 1
         /\ NewTask(k).key = k /\ ~NewTask(k).retryable
BY DEF Constants, NewTask, TaskRecord, Terminal, Active

\* Replay reads the same of a task and of its record, and of two tasks that agree
\* on what is journaled.
LEMMA SeenAlike ==
  ASSUME NEW t \in TaskRecord, NEW u \in TaskRecord, Constants
  PROVE  /\ Seen(Recorded(t)) = Seen(t)
         /\ taskDurableKey(t) = taskDurableKey(u) => Seen(t) = Seen(u)
         /\ Seen(normalizeReplayedTask(t)) = Seen(t)
         /\ t.state \in Active /\ u.state \in Active /\ t.gen = u.gen /\ t.key = u.key =>
              Seen(t) = Seen(u)
<1>a. ASSUME NEW v \in TaskRecord
      PROVE  /\ Seen(v) = [state |-> normalizeReplayedTask(v).state,
                           gen |-> normalizeReplayedTask(v).gen,
                           code |-> normalizeReplayedTask(v).code,
                           key |-> normalizeReplayedTask(v).key]
             /\ normalizeReplayedTask(v).state = IF v.state \in Active THEN "failed" ELSE v.state
             /\ normalizeReplayedTask(v).code = IF v.state \in Active THEN "interrupted" ELSE v.code
             /\ normalizeReplayedTask(v).gen = v.gen /\ normalizeReplayedTask(v).key = v.key
  <2>1. v # None
    BY DEF Constants
  <2>2. Seen(v) = [state |-> normalizeReplayedTask(v).state, gen |-> normalizeReplayedTask(v).gen,
                   code |-> normalizeReplayedTask(v).code, key |-> normalizeReplayedTask(v).key]
    BY ZenonT(60), <2>1, Zenon DEF Seen
  <2>3. CASE v.state \in Active
    BY ZenonT(60), <2>2, <2>3, Zenon DEF normalizeReplayedTask, TaskRecord
  <2>4. CASE v.state \notin Active
    BY ZenonT(60), <2>2, <2>4, Zenon DEF normalizeReplayedTask, TaskRecord
  <2> QED
    BY <2>3, <2>4
<1>b. ASSUME NEW v \in TaskRecord, NEW w \in TaskRecord, v.gen = w.gen, v.key = w.key,
             (v.state = w.state /\ v.code = w.code) \/ (v.state \in Active /\ w.state \in Active)
      PROVE  Seen(v) = Seen(w)
  <2>1. /\ normalizeReplayedTask(v).state = normalizeReplayedTask(w).state
        /\ normalizeReplayedTask(v).code = normalizeReplayedTask(w).code
    BY <1>a, <1>b
  <2>2. /\ normalizeReplayedTask(v).gen = normalizeReplayedTask(w).gen
        /\ normalizeReplayedTask(v).key = normalizeReplayedTask(w).key
    BY <1>a, <1>b
  <2> QED
    BY ZenonT(60), <1>a, <2>1, <2>2, Zenon
<1>1. Seen(Recorded(t)) = Seen(t)
  BY ZenonT(60), <1>b, RecordedTask, Zenon DEF SameTask
<1>2. ASSUME taskDurableKey(t) = taskDurableKey(u) PROVE Seen(t) = Seen(u)
  <2>1. \A v \in TaskRecord : /\ taskDurableKey(v).state = v.state /\ taskDurableKey(v).gen = v.gen
                              /\ taskDurableKey(v).code = v.code /\ taskDurableKey(v).key = v.key
    BY ZenonT(60), Zenon DEF taskDurableKey, Recorded, TaskRecord
  <2>2. t.state = u.state /\ t.gen = u.gen /\ t.code = u.code /\ t.key = u.key
    BY ZenonT(60), <1>2, <2>1, Zenon
  <2> QED
    BY ZenonT(60), <1>b, <2>2, Zenon
<1>3. Seen(normalizeReplayedTask(t)) = Seen(t)
  <2> DEFINE n == normalizeReplayedTask(t)
  <2>1. n \in TaskRecord /\ n.gen = t.gen /\ n.key = t.key /\ n.state \in Terminal
    BY ReplayedTask DEF SameTask
  <2>2. n.state \notin Active
    BY <2>1 DEF Terminal, Active
  <2>3. normalizeReplayedTask(n).state = n.state /\ normalizeReplayedTask(n).code = n.code
        /\ normalizeReplayedTask(n).gen = n.gen /\ normalizeReplayedTask(n).key = n.key
    BY <1>a, <2>1, <2>2
  <2> HIDE DEF n
  <2>4. Seen(n) = [state |-> n.state, gen |-> n.gen, code |-> n.code, key |-> n.key]
    BY ZenonT(60), <1>a, <2>1, <2>3, Zenon
  <2>5. Seen(t) = [state |-> n.state, gen |-> n.gen, code |-> n.code, key |-> n.key]
    BY ZenonT(60), <1>a, Zenon DEF n
  <2> QED
    BY <2>4, <2>5 DEF n
<1> QED
  BY ZenonT(60), <1>1, <1>2, <1>3, <1>b, Zenon

LEMMA AppendFacts ==
  ASSUME Shape, NEW id \in Ids, NEW rec \in TaskRecord \cup {None}, Append(id, rec)
  PROVE  /\ disk' \in [Ids -> TaskRecord \cup {None}]
         /\ line' \in {"ok", "open", "bad"} /\ journal' \in {"on", "degraded", "off"}
         /\ faults' \in Nat
         /\ \A j \in Ids : j # id => disk'[j] = disk[j]
         /\ disk'[id] \in {disk[id], rec}
         /\ journal' = "on" => journal = "on" /\ disk'[id] = rec
         /\ journal' = "off" <=> journal = "off"
         /\ journal = "off" => disk' = disk
         /\ MaxFaults = 0 /\ journal # "off" => disk'[id] = rec
BY DEF Shape, Append

LEMMA NoAppendFacts ==
  ASSUME NoAppend PROVE disk' = disk /\ line' = line /\ journal' = journal /\ faults' = faults
BY DEF NoAppend

LEMMA UpdateFacts ==
  ASSUME Constants, Shape, NEW id \in Ids, NEW t \in TaskRecord, UpdateManaged(id, t)
  PROVE  /\ tasks' \in [Ids -> TaskRecord \cup {None}]
         /\ tasks'[id] = t /\ \A j \in Ids : j # id => tasks'[j] = tasks[j]
         /\ disk' \in [Ids -> TaskRecord \cup {None}]
         /\ line' \in {"ok", "open", "bad"} /\ journal' \in {"on", "degraded", "off"}
         /\ faults' \in Nat
         /\ \A j \in Ids : j # id => disk'[j] = disk[j]
         /\ disk'[id] \in {disk[id], Recorded(t)}
         /\ journal' = "off" <=> journal = "off"
         /\ journal = "off" => disk' = disk
         /\ journal' = "on" =>
              /\ journal = "on"
              /\ \/ disk'[id] = Recorded(t)
                 \/ disk' = disk /\ taskDurableKey(t) = taskDurableKey(tasks[id])
         /\ MaxFaults = 0 /\ journal # "off" =>
              \/ disk'[id] = Recorded(t)
              \/ disk' = disk /\ taskDurableKey(t) = taskDurableKey(tasks[id])
<1>1. tasks' = [tasks EXCEPT ![id] = t] /\ tasks \in [Ids -> TaskRecord \cup {None}]
  BY DEF UpdateManaged, Shape
<1>2. Recorded(t) \in TaskRecord
  BY RecordedTask DEF SameTask
<1>3. CASE Append(id, Recorded(t))
  BY <1>1, <1>2, <1>3, AppendFacts
<1>4. CASE NoAppend /\ taskDurableKey(t) = taskDurableKey(tasks[id])
  BY <1>1, <1>4, NoAppendFacts DEF Shape
<1> QED
  BY <1>3, <1>4 DEF UpdateManaged

-----------------------------------------------------------------------------
(* Types.                                                                  *)

LEMMA RunnerPc ==
  ASSUME NEW x \in RunnerRecord, NEW pc \in {"start", "run", "end", "remove", "unlink"}
  PROVE  LET y == [x EXCEPT !.pc = pc] IN
         /\ y \in RunnerRecord /\ y.pc = pc /\ y.id = x.id /\ y.gen = x.gen /\ y.out = x.out
BY ZenonT(60), Zenon DEF RunnerRecord

LEMMA RunnerGen ==
  ASSUME NEW x \in RunnerRecord, NEW g \in 0..MaxGen
  PROVE  LET y == [x EXCEPT !.pc = "start", !.gen = g] IN
         y \in RunnerRecord /\ y.pc = "start" /\ y.id = x.id /\ y.gen = g
BY ZenonT(60), Zenon DEF RunnerRecord

LEMMA RunnerOut ==
  ASSUME NEW x \in RunnerRecord, NEW out \in {"ok", "fail", "partial", "canceled", "interrupted"}
  PROVE  LET y == [x EXCEPT !.pc = "end", !.out = out] IN
         /\ y \in RunnerRecord /\ y.pc = "end" /\ y.id = x.id /\ y.gen = x.gen /\ y.out = out
BY ZenonT(60), Zenon DEF RunnerRecord

Fetching(i, k) == [NoRunner EXCEPT !.pc = "fetch", !.id = i, !.ctx = k]

LEMMA NewRunner ==
  ASSUME Constants, NEW i \in Ids, NEW k \in 0..MaxGen
  PROVE  LET y == Fetching(i, k) IN y \in RunnerRecord /\ y.pc = "fetch" /\ y.id = i
<1>1. 0 \in 0..MaxGen
  BY DEF Constants
<1> QED
  BY ZenonT(60), <1>1, Zenon DEF NoRunner, RunnerRecord, Fetching

LEMMA CallerPc ==
  ASSUME NEW x \in CallerRecord, NEW pc \in {"fire", "unlink"}
  PROVE  LET y == [x EXCEPT !.pc = pc] IN y \in CallerRecord /\ y.pc = pc /\ y.id = x.id
BY ZenonT(60), Zenon DEF CallerRecord

LEMMA NewPut ==
  ASSUME Constants, NEW i \in Ids, NEW t \in TaskRecord
  PROVE  LET y == [NoCaller EXCEPT !.pc = "persist", !.id = i, !.item = t] IN
         y \in CallerRecord /\ y.pc = "persist" /\ y.id = i /\ y.item = t
<1>1. 0 \in 0..MaxGen
  BY DEF Constants
<1> QED
  BY ZenonT(60), <1>1, Zenon DEF NoCaller, CallerRecord

Handling(pc, i, k) == [NoCaller EXCEPT !.pc = pc, !.id = i, !.ctx = k]

LEMMA NewHandler ==
  ASSUME NEW i \in Ids, NEW k \in 0..MaxGen, NEW pc \in {"cancel", "retry", "mark", "drop"}
  PROVE  LET y == Handling(pc, i, k) IN y \in CallerRecord /\ y.pc = pc /\ y.id = i
BY ZenonT(60), Zenon DEF NoCaller, CallerRecord, Handling

\* Numbers have a least one among them: the next id to be made.
LEMMA NextId ==
  ASSUME Constants, made \subseteq Ids, made # Ids
  PROVE  (CHOOSE i \in Ids \ made : \A j \in Ids \ made : i <= j) \in Ids \ made
<1>1. Ids \ made \subseteq Nat /\ Ids \ made # {}
  BY ZenonT(60) DEF Constants
<1>2. PICK x \in Ids \ made : \A y \in Ids \ made : ~(<<y, x>> \in OpToRel(<, Nat))
  BY ZenonT(60), <1>1, NatLessThanWellFounded, WFMin
<1>3. \A y \in Ids \ made : x <= y
  <2>1. TAKE y \in Ids \ made
  <2>2. y \in Nat /\ x \in Nat
    BY <1>1
  <2>3. ~(<<y, x>> \in OpToRel(<, Nat))
    BY ZenonT(60), <1>2
  <2>4. ~(y < x)
    BY <2>2, <2>3 DEF OpToRel
  <2> QED
    BY <2>2, <2>4
<1> DEFINE P(i) == \A y \in Ids \ made : i <= y
<1>4. \E i \in Ids \ made : P(i)
  BY <1>3
<1>5. (CHOOSE i \in Ids \ made : P(i)) \in Ids \ made
  <2> HIDE DEF P
  <2> QED
    BY ZenonT(60), <1>4, Zenon
<1> QED
  BY <1>5

-----------------------------------------------------------------------------
(* What a step of a goroutine does, whichever it is: it moves the goroutine *)
(* on, and leaves its task alone, updates it in the generation it belongs   *)
(* to, takes it out of memory, or takes it out of the journal.              *)

Failing == {"canceled", "fail", "interrupted"}

Moved(r, y) ==
    LET x == runners[r]
        id == runners[r].id
    IN /\ y.pc # "idle" => y.id = id
       /\ y.pc = "start" => x.pc = "fetch" /\ tasks[id] # None /\ y.gen = tasks[id].gen
       /\ y.pc = "run" => x.pc \in {"start", "run"} /\ y.gen = x.gen
       /\ y.pc = "end" => /\ x.pc = "run" /\ y.gen = x.gen
                          /\ y.out \notin Failing => <<id, y.gen>> \in won'
       /\ y.pc = "run" /\ x.pc = "start" =>
            /\ tasks[id] # None /\ tasks[id].gen = x.gen
            /\ tasks[id].state \notin Terminal \cup {"canceling"}
            /\ tasks'[id].state = "running"
       /\ y.pc = "unlink" => x.pc = "remove" /\ tasks'[id] = None

Updated(r, u) ==
    LET x == runners[r]
        t == tasks[runners[r].id]
    IN /\ SameTask(u, t) /\ UpdateManaged(runners[r].id, u)
       /\ u.state = "queued" => t.state = "queued"
       /\ u.state = "succeeded" => \/ t.state = "succeeded"
                                   \/ x.pc = "end" /\ x.out \notin Failing
       /\ x.pc = "start" /\ t.state \in Terminal \cup {"canceling"} => u.state \in Terminal

RunnerEffect(r) ==
    LET x == runners[r]
        id == runners[r].id
    IN /\ x.pc # "idle"
       /\ made' = made /\ callers' = callers /\ stops' = stops /\ barred' = barred
       /\ won \subseteq won'
       /\ \E y \in RunnerRecord : runners' = [runners EXCEPT ![r] = y] /\ Moved(r, y)
       /\ \/ tasks' = tasks /\ x.pc # "unlink" /\ NoAppend
          \/ tasks' = tasks /\ x.pc = "unlink" /\ Append(id, None)
          \/ /\ tasks[id] # None /\ tasks' = [tasks EXCEPT ![id] = None] /\ NoAppend
             /\ runners'[r].pc = "unlink" /\ runners'[r].id = id
          \/ /\ tasks[id] # None /\ tasks[id].gen = x.gen /\ x.pc \in {"start", "run", "end"}
             /\ \E u \in TaskRecord : Updated(r, u)

\* The goroutine exits, or goes on to remove the task it was asked to dismiss.
LEMMA Ends ==
  ASSUME Constants, Shape, NEW r \in Slots, runners[r].pc # "idle",
         Exit(r) \/ runners' = [runners EXCEPT ![r].pc = "remove"]
  PROVE  \E y \in RunnerRecord : runners' = [runners EXCEPT ![r] = y] /\ Moved(r, y)
<1>0. runners \in [Slots -> RunnerRecord] /\ runners[r] \in RunnerRecord
  BY DEF Shape
<1>1. CASE Exit(r)
  <2>1. NoRunner \in RunnerRecord /\ Moved(r, NoRunner)
    <3>1. 0 \in 0..MaxGen
      BY DEF Constants
    <3> QED
      BY ZenonT(60), <3>1, Zenon DEF NoRunner, RunnerRecord, Moved
  <2> QED
    BY ZenonT(60), <1>1, <2>1 DEF Exit
<1>2. CASE runners' = [runners EXCEPT ![r].pc = "remove"]
  <2> DEFINE y == [runners[r] EXCEPT !.pc = "remove"]
  <2>1. y \in RunnerRecord /\ y.pc = "remove" /\ y.id = runners[r].id
    BY ZenonT(60), <1>0, RunnerPc, Zenon
  <2>2. runners' = [runners EXCEPT ![r] = y]
    BY <1>2
  <2> HIDE DEF y
  <2>3. Moved(r, y)
    BY <2>1 DEF Moved
  <2> QED
    BY ZenonT(60), <2>1, <2>2, <2>3
<1> QED
  BY <1>1, <1>2

LEMMA FetchEffect ==
  ASSUME Constants, Shape, NEW r \in Slots, RunFetch(r)
  PROVE  RunnerEffect(r)
<1>0. runners \in [Slots -> RunnerRecord] /\ runners[r] \in RunnerRecord
      /\ runners[r].id \in Ids /\ tasks[runners[r].id] \in TaskRecord \cup {None}
  BY DEF Shape, RunFetch
<1>1. \E y \in RunnerRecord : runners' = [runners EXCEPT ![r] = y] /\ Moved(r, y)
  <2>1. CASE Exit(r)
    BY <2>1, Ends DEF RunFetch
  <2>2. CASE /\ tasks[runners[r].id] # None
             /\ runners' = [runners EXCEPT ![r].pc = "start", ![r].gen = tasks[runners[r].id].gen]
    <3> DEFINE g == tasks[runners[r].id].gen
               y == [runners[r] EXCEPT !.pc = "start", !.gen = g]
    <3>1. g \in 0..MaxGen
      BY <1>0, <2>2 DEF TaskRecord
    <3>2. y \in RunnerRecord /\ y.pc = "start" /\ y.id = runners[r].id /\ y.gen = g
      BY ZenonT(60), <1>0, <3>1, RunnerGen, Zenon
    <3>3. runners' = [runners EXCEPT ![r] = y]
      BY ZenonT(60), <1>0, <2>2
    <3> HIDE DEF y
    <3>4. Moved(r, y)
      BY <2>2, <3>2 DEF Moved, RunFetch
    <3> QED
      BY ZenonT(60), <3>2, <3>3, <3>4
  <2> QED
    BY <2>1, <2>2 DEF RunFetch, Present
<1> QED
  BY ZenonT(60), <1>1 DEF RunFetch, RunnerEffect, historyVars

LEMMA StartEffect ==
  ASSUME Constants, Shape, NEW r \in Slots, startRun(r)
  PROVE  RunnerEffect(r)
<1> DEFINE x == runners[r]
           id == runners[r].id
           t == tasks[id]
           halt == t.state = "canceling" \/ Done(r)
<1>0. /\ runners \in [Slots -> RunnerRecord] /\ x \in RunnerRecord /\ x.pc = "start"
      /\ id \in Ids /\ t \in TaskRecord \cup {None} /\ tasks \in [Ids -> TaskRecord \cup {None}]
      /\ made' = made /\ callers' = callers /\ stops' = stops /\ barred' = barred /\ won' = won
  BY DEF Shape, startRun, startRunOn, historyVars
<1>1. CASE ~Current(r) /\ Exit(r) /\ NoAppend /\ UNCHANGED tasks
  <2>1. \E y \in RunnerRecord : runners' = [runners EXCEPT ![r] = y] /\ Moved(r, y)
    BY <1>0, <1>1, Ends
  <2> QED
    BY ZenonT(60), <1>0, <1>1, <2>1 DEF RunnerEffect
<1>2. ASSUME Current(r), NEW u, SameTask(u, t), UpdateManaged(id, normalizeCapabilities(u)),
             u.state \in Terminal, u.state = "succeeded" => t.state = "succeeded", AfterEnd(r, t)
      PROVE  RunnerEffect(r)
  <2> DEFINE v == normalizeCapabilities(u)
  <2>1. v \in TaskRecord /\ v.gen = u.gen /\ v.key = u.key /\ v.state = u.state
    BY <1>2, Normalized DEF SameTask
  <2>2. UpdateManaged(id, v)
    BY <1>2
  <2>3. tasks[id] # None /\ tasks[id].gen = x.gen
    BY ZenonT(60), <1>2 DEF Current, Present
  <2> HIDE DEF v
  <2>4. Updated(r, v)
    BY <1>2, <2>1, <2>2 DEF Updated, SameTask, Terminal
  <2>5. \E y \in RunnerRecord : runners' = [runners EXCEPT ![r] = y] /\ Moved(r, y)
    BY SMTT(60), <1>0, <1>2, Ends DEF AfterEnd
  <2> QED
    BY ZenonT(60), <1>0, <2>1, <2>3, <2>4, <2>5 DEF RunnerEffect
<1>3. CASE Current(r) /\ IsTerminal(t) /\ UpdateManaged(id, normalizeCapabilities(t)) /\ AfterEnd(r, t)
  BY ZenonT(60), <1>0, <1>2, <1>3 DEF IsTerminal, SameTask, Current, Present
<1>4. CASE Current(r) /\ UpdateManaged(id, normalizeCapabilities(Halted(t))) /\ AfterEnd(r, t)
  <2>1. t \in TaskRecord
    BY <1>0, <1>4 DEF Current, Present
  <2>2. SameTask(Halted(t), t) /\ Halted(t).state \in {"canceled", "failed"}
    BY SMTT(60), <2>1, HaltedTask
  <2> QED
    BY <1>2, <1>4, <2>2 DEF Terminal
<1>5. CASE /\ Current(r) /\ ~IsTerminal(t) /\ ~halt
           /\ UpdateManaged(id, normalizeCapabilities([t EXCEPT !.state = "running"]))
           /\ runners' = [runners EXCEPT ![r].pc = "run"]
  <2> DEFINE u == [t EXCEPT !.state = "running"]
             v == normalizeCapabilities(u)
             y == [x EXCEPT !.pc = "run"]
  <2>1. t \in TaskRecord /\ tasks[id] # None /\ tasks[id].gen = x.gen
    BY <1>0, <1>5 DEF Current, Present
  <2>2. SameTask(u, t) /\ u.state = "running"
    BY ZenonT(60), <2>1, SetState, Zenon DEF Active
  <2>3. v \in TaskRecord /\ SameTask(v, t) /\ v.state = "running"
    BY ZenonT(60), <2>2, Normalized DEF SameTask
  <2>4. UpdateManaged(id, v) /\ t.state \notin Terminal \cup {"canceling"}
    BY <1>5 DEF IsTerminal
  <2>5. y \in RunnerRecord /\ y.pc = "run" /\ y.id = id /\ y.gen = x.gen
    BY ZenonT(60), <1>0, RunnerPc, Zenon
  <2>6. runners' = [runners EXCEPT ![r] = y]
    BY <1>5
  <2> HIDE DEF v, y
  <2>7. tasks'[id] = v
    BY ZenonT(60), <1>0, <2>4 DEF UpdateManaged
  <2>8. Moved(r, y)
    BY ZenonT(60), <1>0, <2>1, <2>3, <2>4, <2>5, <2>7 DEF Moved
  <2>9. Updated(r, v)
    BY <2>3, <2>4 DEF Updated
  <2> QED
    BY ZenonT(60), <1>0, <2>1, <2>3, <2>5, <2>6, <2>8, <2>9 DEF RunnerEffect
<1> QED
  BY ZenonT(60), <1>1, <1>3, <1>4, <1>5, Zenon DEF startRun, startRunOn

\* An update of the task by the goroutine whose generation is current.
LEMMA Writes ==
  ASSUME Constants, Shape, NEW r \in Slots, runners[r].pc \in {"run", "end"}, Current(r),
         NEW u, SameTask(u, tasks[runners[r].id]), RunUpdate(r, u),
         u.state = "queued" => tasks[runners[r].id].state = "queued",
         u.state = "succeeded" => \/ tasks[runners[r].id].state = "succeeded"
                                  \/ runners[r].pc = "end" /\ runners[r].out \notin Failing
  PROVE  /\ tasks[runners[r].id] # None /\ tasks[runners[r].id].gen = runners[r].gen
         /\ runners[r].pc \in {"start", "run", "end"}
         /\ \E v \in TaskRecord : Updated(r, v)
<1> DEFINE v == normalizeCapabilities(u)
<1>1. v \in TaskRecord /\ v.gen = u.gen /\ v.key = u.key /\ v.state = u.state
  BY Normalized DEF SameTask
<1>2. UpdateManaged(runners[r].id, v)
  BY DEF RunUpdate
<1>3. tasks[runners[r].id] # None /\ tasks[runners[r].id].gen = runners[r].gen
  BY DEF Current, Present
<1> HIDE DEF v
<1>4. Updated(r, v)
  BY <1>1, <1>2 DEF Updated, SameTask
<1> QED
  BY <1>1, <1>3, <1>4

LEMMA BackoffEffect ==
  ASSUME Constants, Shape, NEW r \in Slots, RunBackoff(r)
  PROVE  RunnerEffect(r)
<1> DEFINE x == runners[r]
           id == runners[r].id
           t == tasks[id]
<1>0. /\ runners \in [Slots -> RunnerRecord] /\ x \in RunnerRecord /\ x.pc = "run" /\ id \in Ids
      /\ t \in TaskRecord \cup {None} /\ runners' = runners
      /\ made' = made /\ callers' = callers /\ stops' = stops /\ barred' = barred /\ won' = won
  BY DEF Shape, RunBackoff, historyVars
<1>1. runners' = [runners EXCEPT ![r] = x] /\ Moved(r, x)
  BY <1>0 DEF Moved
<1>2. CASE ~Current(r)
  <2>1. tasks' = tasks /\ NoAppend
    BY <1>2 DEF RunBackoff, RunUpdate
  <2> QED
    BY <1>0, <1>1, <2>1 DEF RunnerEffect
<1>3. CASE Current(r)
  <2> DEFINE a == [t EXCEPT !.state = "retry_wait", !.retryable = TRUE, !.code = "provider"]
             b == [t EXCEPT !.state = "running", !.code = "none"]
  <2>1. t \in TaskRecord
    BY <1>0, <1>3 DEF Current, Present
  <2>2. SameTask(a, t) /\ a.state = "retry_wait" /\ SameTask(b, t) /\ b.state = "running"
    BY ZenonT(60), <2>1, SetBackoff, Zenon
  <2>3. RunUpdate(r, a) \/ RunUpdate(r, b)
    BY <1>3 DEF RunBackoff
  <2> HIDE DEF a, b
  <2>4. /\ tasks[id] # None /\ tasks[id].gen = x.gen /\ x.pc \in {"start", "run", "end"}
        /\ \E v \in TaskRecord : Updated(r, v)
    <3>1. CASE RunUpdate(r, a)
      BY ZenonT(60), <1>0, <1>3, <2>2, <3>1, Writes
    <3>2. CASE RunUpdate(r, b)
      BY <1>0, <1>3, <2>2, <3>2, Writes
    <3> QED
      BY ZenonT(60), <2>3, <3>1, <3>2
  <2> QED
    BY <1>0, <1>1, <2>4 DEF RunnerEffect
<1> QED
  BY <1>2, <1>3

LEMMA ReturnEffect ==
  ASSUME Constants, Shape, NEW r \in Slots, RunReturns(r)
  PROVE  RunnerEffect(r)
<1> DEFINE x == runners[r]
           id == runners[r].id
           t == tasks[id]
<1>0. /\ runners \in [Slots -> RunnerRecord] /\ x \in RunnerRecord /\ x.pc = "run" /\ id \in Ids
      /\ t \in TaskRecord \cup {None}
      /\ made' = made /\ callers' = callers /\ stops' = stops /\ barred' = barred
  BY DEF Shape, RunReturns
<1>1. PICK out \in {"ok", "fail", "partial", "canceled", "interrupted"} :
        LET c == IF Current(r) THEN t ELSE None IN
        /\ IF out \in {"fail", "partial"} /\ c # None
           THEN RunUpdate(r, [c EXCEPT !.retryable = TRUE, !.code = "none",
                                       !.state = IF out = "partial" THEN "partial_failed" ELSE @])
           ELSE NoAppend /\ UNCHANGED tasks
        /\ runners' = [runners EXCEPT ![r].pc = "end", ![r].out = out]
        /\ won' = IF out \in {"ok", "partial"} THEN won \cup {<<id, x.gen>>} ELSE won
  BY ZenonT(60), Zenon DEF RunReturns
<1> DEFINE y == [x EXCEPT !.pc = "end", !.out = out]
<1>2. y \in RunnerRecord /\ y.pc = "end" /\ y.id = id /\ y.gen = x.gen /\ y.out = out
  BY ZenonT(60), <1>0, RunnerOut, Zenon
<1>3. runners' = [runners EXCEPT ![r] = y]
  BY ZenonT(60), <1>0, <1>1
<1> HIDE DEF y
<1>4. won \subseteq won' /\ (out \notin Failing => <<id, x.gen>> \in won')
  BY <1>1 DEF Failing
<1>5. Moved(r, y)
  BY <1>0, <1>2, <1>4 DEF Moved
<1>6. \/ tasks' = tasks /\ NoAppend
      \/ /\ tasks[id] # None /\ tasks[id].gen = x.gen /\ x.pc \in {"start", "run", "end"}
         /\ \E v \in TaskRecord : Updated(r, v)
  <2>1. CASE Current(r) /\ out \in {"fail", "partial"}
    <3> DEFINE s == IF out = "partial" THEN "partial_failed" ELSE t.state
               u == [t EXCEPT !.retryable = TRUE, !.code = "none", !.state = s]
    <3>1. t \in TaskRecord /\ t # None
      BY ZenonT(60), <1>0, <2>1 DEF Current, Present
    <3>2. s \in Terminal \cup Active
      BY <3>1 DEF TaskRecord, Terminal
    <3>3. SameTask(u, t) /\ u.state = s
      BY ZenonT(60), <3>1, <3>2, SetOffered, Zenon
    <3>4. RunUpdate(r, u)
      BY <1>1, <2>1, <3>1
    <3>5. s \in {t.state, "partial_failed"}
      OBVIOUS
    <3> HIDE DEF u, s
    <3> QED
      BY ZenonT(60), <1>0, <2>1, <3>3, <3>4, <3>5, Writes
  <2> QED
    BY ZenonT(60), <1>1, <2>1
<1> QED
  BY ZenonT(60), <1>0, <1>2, <1>3, <1>4, <1>5, <1>6, Zenon DEF RunnerEffect

LEMMA FinalEffect ==
  ASSUME Constants, Shape, NEW r \in Slots, RunFinal(r)
  PROVE  RunnerEffect(r)
<1> DEFINE x == runners[r]
           id == runners[r].id
           t == tasks[id]
           u == Outcome(t, x.out, Done(r))
<1>0. /\ runners \in [Slots -> RunnerRecord] /\ x \in RunnerRecord /\ x.pc = "end" /\ id \in Ids
      /\ t \in TaskRecord \cup {None}
      /\ made' = made /\ callers' = callers /\ stops' = stops /\ barred' = barred /\ won' = won
  BY DEF Shape, RunFinal, historyVars
<1>1. \E y \in RunnerRecord : runners' = [runners EXCEPT ![r] = y] /\ Moved(r, y)
  BY <1>0, Ends DEF RunFinal, AfterEnd
<1>2. CASE ~Current(r)
  BY ZenonT(60), <1>0, <1>1, <1>2 DEF RunnerEffect, RunFinal
<1>3. CASE Current(r)
  <2>1. t \in TaskRecord /\ Done(r) \in BOOLEAN
    BY <1>0, <1>3 DEF Current, Present, Done
  <2>2. SameTask(u, t) /\ u.state \in Terminal /\ (x.out \in Failing => u.state # "succeeded")
    BY <2>1, OutcomeTask DEF Failing
  <2>3. RunUpdate(r, u)
    BY ZenonT(60), <1>3 DEF RunFinal
  <2> HIDE DEF u
  <2>4. /\ tasks[id] # None /\ tasks[id].gen = x.gen /\ x.pc \in {"start", "run", "end"}
        /\ \E v \in TaskRecord : Updated(r, v)
    <3>1. u.state # "queued"
      BY <2>2 DEF Terminal
    <3> QED
      BY ZenonT(60), <1>0, <1>3, <2>2, <2>3, <3>1, Writes
  <2> QED
    BY ZenonT(60), <1>0, <1>1, <2>4 DEF RunnerEffect
<1> QED
  BY ZenonT(60), <1>2, <1>3

LEMMA RemoveEffect ==
  ASSUME Constants, Shape, NEW r \in Slots, RunRemove(r)
  PROVE  RunnerEffect(r)
<1> DEFINE x == runners[r]
           id == runners[r].id
<1>0. /\ runners \in [Slots -> RunnerRecord] /\ x \in RunnerRecord /\ x.pc = "remove" /\ id \in Ids
      /\ tasks \in [Ids -> TaskRecord \cup {None}]
      /\ made' = made /\ callers' = callers /\ stops' = stops /\ barred' = barred /\ won' = won
  BY DEF Shape, RunRemove
<1>1. CASE ~Present(id)
  <2>1. \E y \in RunnerRecord : runners' = [runners EXCEPT ![r] = y] /\ Moved(r, y)
    BY <1>0, <1>1, Ends DEF RunRemove
  <2> QED
    BY ZenonT(60), <1>0, <1>1, <2>1 DEF RunnerEffect, RunRemove
<1>2. CASE Present(id)
  <2> DEFINE y == [x EXCEPT !.pc = "unlink"]
  <2>1. y \in RunnerRecord /\ y.pc = "unlink" /\ y.id = id
    BY ZenonT(60), <1>0, RunnerPc, Zenon
  <2>2. tasks[id] # None /\ tasks' = [tasks EXCEPT ![id] = None] /\ NoAppend
    BY <1>2 DEF RunRemove, DropMemory, Present
  <2>3. runners' = [runners EXCEPT ![r] = y]
    BY <1>2 DEF RunRemove
  <2> HIDE DEF y
  <2>4. Moved(r, y)
    BY ZenonT(60), <1>0, <2>1, <2>2 DEF Moved
  <2> QED
    BY ZenonT(60), <1>0, <2>1, <2>2, <2>3, <2>4 DEF RunnerEffect
<1> QED
  BY <1>1, <1>2

LEMMA UnlinkEffect ==
  ASSUME Constants, Shape, NEW r \in Slots, RunUnlink(r)
  PROVE  RunnerEffect(r)
<1>1. \E y \in RunnerRecord : runners' = [runners EXCEPT ![r] = y] /\ Moved(r, y)
  BY Ends DEF RunUnlink
<1> QED
  BY ZenonT(60), <1>1 DEF RunUnlink, RunnerEffect, historyVars

LEMMA RunnerEffects ==
  ASSUME Constants, Shape, NEW r \in Slots, RunnerStep(r) \/ RunBackoff(r)
  PROVE  RunnerEffect(r)
<1>1. CASE RunFetch(r) \/ startRun(r) \/ RunReturns(r)
  BY <1>1, FetchEffect, StartEffect, ReturnEffect
<1>2. CASE RunFinal(r) \/ RunRemove(r) \/ RunUnlink(r)
  BY <1>2, FinalEffect, RemoveEffect, UnlinkEffect
<1>3. CASE RunBackoff(r)
  BY ZenonT(60), <1>3, BackoffEffect
<1> QED
  BY <1>1, <1>2, <1>3 DEF RunnerStep

-----------------------------------------------------------------------------
(* The invariants under a step of a goroutine.                             *)

\* What the step may do to tasks and to the journal, in one list.
LEMMA RunnerWrites ==
  ASSUME Constants, Shape, NEW r \in Slots, RunnerEffect(r), NEW id, id = runners[r].id
  PROVE  /\ id \in made /\ id \in Ids /\ made' = made
         /\ tasks' \in [Ids -> TaskRecord \cup {None}]
         /\ disk' \in [Ids -> TaskRecord \cup {None}]
         /\ line' \in {"ok", "open", "bad"} /\ journal' \in {"on", "degraded", "off"}
         /\ faults' \in Nat
         /\ \A j \in Ids : j # id => tasks'[j] = tasks[j] /\ disk'[j] = disk[j]
         /\ tasks'[id] # None => /\ tasks[id] # None
                                 /\ tasks'[id].gen = tasks[id].gen /\ tasks'[id].key = tasks[id].key
         /\ journal' = "off" <=> journal = "off"
         /\ journal = "off" => disk' = disk
<1>0. id \in made /\ id \in Ids /\ made' = made /\ tasks \in [Ids -> TaskRecord \cup {None}]
  BY DEF Shape, RunnerEffect
<1>1. CASE tasks' = tasks /\ NoAppend
  BY <1>0, <1>1, NoAppendFacts DEF Shape
<1>2. CASE tasks' = tasks /\ Append(id, None)
  BY SMTT(60), <1>0, <1>2, AppendFacts
<1>3. CASE tasks[id] # None /\ tasks' = [tasks EXCEPT ![id] = None] /\ NoAppend
  BY ZenonT(60), <1>0, <1>3, NoAppendFacts DEF Shape
<1>4. CASE tasks[id] # None /\ \E u \in TaskRecord : Updated(r, u)
  <2>1. PICK u \in TaskRecord : SameTask(u, tasks[id]) /\ UpdateManaged(id, u)
    BY ZenonT(60), <1>4 DEF Updated
  <2> QED
    BY ZenonT(60), <1>0, <1>4, <2>1, UpdateFacts DEF SameTask
<1> QED
  BY ZenonT(60), <1>1, <1>2, <1>3, <1>4 DEF RunnerEffect

LEMMA RunnerShape ==
  ASSUME Constants, Shape, NEW r \in Slots, RunnerEffect(r)
  PROVE  Shape'
<1> DEFINE id == runners[r].id
<1>1. /\ id \in made /\ id \in Ids /\ made' = made
      /\ tasks' \in [Ids -> TaskRecord \cup {None}]
      /\ disk' \in [Ids -> TaskRecord \cup {None}]
      /\ line' \in {"ok", "open", "bad"} /\ journal' \in {"on", "degraded", "off"}
      /\ faults' \in Nat
      /\ \A j \in Ids : j # id => tasks'[j] = tasks[j] /\ disk'[j] = disk[j]
  BY ZenonT(60), RunnerWrites, Zenon
<1>2. PICK y \in RunnerRecord : runners' = [runners EXCEPT ![r] = y] /\ Moved(r, y)
  BY ZenonT(60) DEF RunnerEffect
<1>3. runners' \in [Slots -> RunnerRecord]
      /\ \A q \in Slots : runners'[q].pc # "idle" => runners'[q].id \in made
  BY <1>1, <1>2 DEF Shape, Moved
<1>4. callers' = callers /\ stops' = stops
  BY DEF RunnerEffect
<1>5. \A j \in Ids : tasks'[j] # None \/ disk'[j] # None => j \in made
  BY <1>1 DEF Shape
<1> QED
  BY <1>1, <1>3, <1>4, <1>5 DEF Shape


-----------------------------------------------------------------------------
(* What a step of a caller does, by kind.                                  *)

Spawned(id) ==
    \E r \in Slots, y \in RunnerRecord :
        /\ runners[r].pc = "idle" /\ y.pc = "fetch" /\ y.id = id
        /\ runners' = [runners EXCEPT ![r] = y]

\* A look at a task, a cancel function called, or a handler whose task has gone.
Quiet(c, y) ==
    /\ tasks' = tasks /\ NoAppend /\ made' = made /\ barred' = barred
    /\ callers[c].pc \notin {"persist", "unlink"} /\ y.pc \notin {"persist", "unlink"}
    /\ y.pc # "idle" => y.id \in made
    /\ y.pc = "retry" => tasks[y.id] # None /\ tasks[y.id].retryable
    /\ y.pc = "drop" => tasks[y.id] # None /\ tasks[y.id].state \in Terminal
    /\ runners' = runners \/ (callers[c].pc = "retry" /\ Spawned(callers[c].id))

PutNew(c, y) ==
    /\ callers[c].pc = "idle" /\ \A d \in Callers : callers[d].pc # "persist"
    /\ NoAppend /\ barred' = barred /\ runners' = runners
    /\ \E key \in Keys, id \in Ids \ made :
         /\ tasks' = [tasks EXCEPT ![id] = NewTask(key)] /\ made' = made \cup {id}
         /\ y.pc = "persist" /\ y.id = id /\ y.item = NewTask(key)

Persisted(c, y) ==
    /\ callers[c].pc = "persist" /\ y.pc = "idle"
    /\ tasks' = tasks /\ made' = made /\ barred' = barred
    /\ Append(callers[c].id, Recorded(callers[c].item)) /\ Spawned(callers[c].id)

MarkedBy(c, y) ==
    LET id == callers[c].id
        t == tasks[callers[c].id]
    IN /\ callers[c].pc \in {"cancel", "mark"} /\ y.pc = "fire" /\ y.id = id
       /\ t # None /\ made' = made /\ runners' = runners
       /\ \E u : /\ SameTask(u, t) /\ u.retryable = t.retryable
                 /\ u.state = IF t.state \in Terminal THEN t.state ELSE "canceling"
                 /\ UpdateManaged(id, u)
       /\ barred' = IF t.state = "queued" THEN barred \cup {<<id, t.gen>>} ELSE barred

Requeued(c, y) ==
    LET id == callers[c].id
        t == tasks[callers[c].id]
    IN /\ callers[c].pc = "retry" /\ y.pc = "idle"
       /\ t # None /\ made' = made /\ barred' = barred /\ Spawned(id)
       /\ \E u \in TaskRecord : /\ u.gen = t.gen + 1 /\ u.state = "queued" /\ u.key = t.key
                                /\ UpdateManaged(id, u)

Dropped(c, y) ==
    LET id == callers[c].id
    IN /\ callers[c].pc = "drop" /\ y.pc = "unlink" /\ y.id = id
       /\ tasks[id] # None /\ tasks' = [tasks EXCEPT ![id] = None] /\ NoAppend
       /\ made' = made /\ barred' = barred /\ runners' = runners

Unlinked(c, y) ==
    /\ callers[c].pc = "unlink" /\ y.pc = "idle"
    /\ tasks' = tasks /\ Append(callers[c].id, None)
    /\ made' = made /\ barred' = barred /\ runners' = runners

CallerEffect(c) ==
    /\ stops' = stops /\ won' = won
    /\ \E y \in CallerRecord :
         /\ callers' = [callers EXCEPT ![c] = y]
         /\ \/ Quiet(c, y) \/ PutNew(c, y) \/ Persisted(c, y) \/ MarkedBy(c, y)
            \/ Requeued(c, y) \/ Dropped(c, y) \/ Unlinked(c, y)

LEMMA Spawns ==
  ASSUME Constants, NEW i \in Ids, NEW k \in 0..MaxGen, Launch(i, k)
  PROVE  Spawned(i)
<1> DEFINE y == Fetching(i, k)
<1>1. PICK r \in Slots : runners[r].pc = "idle" /\ runners' = [runners EXCEPT ![r] = y]
  BY ZenonT(60), Zenon DEF Launch, Free, Fetching
<1>2. y \in RunnerRecord /\ y.pc = "fetch" /\ y.id = i
  BY ZenonT(60), NewRunner, Zenon
<1> HIDE DEF y
<1> QED
  BY ZenonT(60), <1>1, <1>2, Zenon DEF Spawned

\* The types a caller's step starts from.
CallerAt(c) ==
    /\ callers \in [Callers -> CallerRecord] /\ callers[c] \in CallerRecord
    /\ callers[c].pc # "idle" => callers[c].id \in made /\ callers[c].id \in Ids
    /\ tasks \in [Ids -> TaskRecord \cup {None}] /\ NoCaller \in CallerRecord
    /\ NoCaller.pc = "idle" /\ 0 \in 0..MaxGen

LEMMA CallerTypes ==
  ASSUME Constants, Shape, NEW c \in Callers
  PROVE  CallerAt(c)
<1>1. NoCaller \in CallerRecord /\ NoCaller.pc = "idle" /\ 0 \in 0..MaxGen
  <2>1. 0 \in 0..MaxGen
    BY DEF Constants
  <2> QED
    BY ZenonT(60), <2>1, Zenon DEF NoCaller, CallerRecord
<1> QED
  BY <1>1 DEF Shape, CallerAt

LEMMA PutEffect ==
  ASSUME Constants, Shape, NEW c \in Callers, NEW key \in Keys, SubmitPut(c, key)
  PROVE  CallerEffect(c)
<1>0. CallerAt(c) /\ callers[c].pc = "idle" /\ made # Ids /\ made \subseteq Ids
  BY CallerTypes DEF SubmitPut, Idle, Shape
<1>1. stops' = stops /\ won' = won /\ barred' = barred /\ runners' = runners /\ NoAppend
  BY DEF SubmitPut, historyVars
<1>2. CASE KeyHeld(key)
  <2>1. callers' = [callers EXCEPT ![c] = callers[c]]
    BY <1>0, <1>2 DEF SubmitPut, CallerAt
  <2>2. Quiet(c, callers[c])
    BY <1>0, <1>1, <1>2 DEF SubmitPut, Quiet
  <2> QED
    BY ZenonT(60), <1>0, <1>1, <2>1, <2>2 DEF CallerEffect, CallerAt
<1>3. CASE ~KeyHeld(key)
  <2> DEFINE id == CHOOSE i \in Ids \ made : \A j \in Ids \ made : i <= j
             y == [NoCaller EXCEPT !.pc = "persist", !.id = id, !.item = NewTask(key)]
  <2>1. id \in Ids \ made
    BY <1>0, NextId
  <2>2. NewTask(key) \in TaskRecord
    BY FirstTask
  <2>3. tasks' = [tasks EXCEPT ![id] = NewTask(key)] /\ made' = made \cup {id}
        /\ callers' = [callers EXCEPT ![c] = y]
    BY ZenonT(60), <1>3, Zenon DEF SubmitPut, Step
  <2> HIDE DEF id
  <2>4. y \in CallerRecord /\ y.pc = "persist" /\ y.id = id /\ y.item = NewTask(key)
    BY ZenonT(60), <2>1, <2>2, NewPut, Zenon
  <2> HIDE DEF y
  <2>5. PutNew(c, y)
    BY ZenonT(60), <1>0, <1>1, <2>1, <2>3, <2>4 DEF PutNew, SubmitPut
  <2> QED
    BY ZenonT(60), <1>1, <2>3, <2>4, <2>5 DEF CallerEffect
<1> QED
  BY <1>2, <1>3

LEMMA PersistEffect ==
  ASSUME Constants, Shape, NEW c \in Callers, SubmitPersist(c)
  PROVE  CallerEffect(c)
<1>0. CallerAt(c) /\ callers[c].pc = "persist" /\ callers[c].id \in Ids
  BY CallerTypes DEF SubmitPersist, CallerAt
<1>1. 1 \in 0..MaxGen
  BY SMTT(60) DEF Constants
<1>2. Spawned(callers[c].id)
  BY ZenonT(60), <1>0, <1>1, Spawns DEF SubmitPersist
<1>3. Persisted(c, NoCaller) /\ stops' = stops /\ won' = won
  BY <1>0, <1>2 DEF Persisted, SubmitPersist, historyVars, CallerAt
<1> QED
  BY ZenonT(60), <1>0, <1>3 DEF CallerEffect, SubmitPersist, Finish, Step, CallerAt

LEMMA GetEffect ==
  ASSUME Constants, Shape, NEW c \in Callers, NEW id \in Ids,
         CancelGet(c, id) \/ RetryGet(c, id) \/ DismissGet(c, id)
  PROVE  CallerEffect(c)
<1>0. CallerAt(c) /\ callers[c].pc = "idle" /\ tasks[id] # None
  BY CallerTypes DEF CancelGet, RetryGet, DismissGet, Get, Idle, Present
<1>1. PICK pc \in {"cancel", "retry", "mark", "drop"} :
        /\ Get(c, id, pc)
        /\ pc = "retry" => tasks[id].retryable
        /\ pc = "drop" => tasks[id].state \in Terminal
  BY ZenonT(60) DEF CancelGet, RetryGet, DismissGet, IsTerminal
<1> DEFINE y == Handling(pc, id, tasks[id].ctx)
<1>2. tasks[id].ctx \in 0..MaxGen /\ id \in made
  BY ZenonT(60), <1>0 DEF CallerAt, TaskRecord, Shape
<1>3. y \in CallerRecord /\ y.pc = pc /\ y.id = id
  BY <1>2, NewHandler
<1>4. callers' = [callers EXCEPT ![c] = y]
  BY <1>1 DEF Get, Step, Handling
<1> HIDE DEF y
<1>5. Quiet(c, y) /\ stops' = stops /\ won' = won
  BY ZenonT(60), <1>0, <1>1, <1>2, <1>3 DEF Quiet, Get, historyVars
<1> QED
  BY ZenonT(60), <1>3, <1>4, <1>5 DEF CallerEffect

LEMMA MarkEffect ==
  ASSUME Constants, Shape, NEW c \in Callers, MarkCanceling(c)
  PROVE  CallerEffect(c)
<1> DEFINE id == callers[c].id
           t == tasks[id]
           y == [callers[c] EXCEPT !.pc = "fire"]
<1>0. CallerAt(c) /\ callers[c].pc \in {"cancel", "mark"} /\ id \in Ids /\ id \in made
  BY CallerTypes DEF MarkCanceling, CallerAt
<1>1. y \in CallerRecord /\ y.pc = "fire" /\ y.id = id
  BY ZenonT(60), <1>0, CallerPc, Zenon DEF CallerAt
<1>2. callers' = [callers EXCEPT ![c] = y] /\ stops' = stops /\ won' = won /\ made' = made
      /\ runners' = runners
  BY DEF MarkCanceling, Step
<1> HIDE DEF y
<1>3. CASE t = None
  <2>1. Quiet(c, y)
    BY <1>0, <1>1, <1>2, <1>3 DEF Quiet, MarkCanceling, Present
  <2> QED
    BY ZenonT(60), <1>1, <1>2, <2>1 DEF CallerEffect
<1>4. CASE t # None
  <2> DEFINE s == IF IsTerminal(t) THEN t.state ELSE "canceling"
             b == t.dismissReq \/ callers[c].pc = "mark"
             u == Marking(t, s, b)
  <2>1. t \in TaskRecord
    BY ZenonT(60), <1>0, <1>4 DEF CallerAt
  <2>2. s \in Terminal \cup Active /\ b \in BOOLEAN
    BY <2>1 DEF TaskRecord, Active
  <2>3. SameTask(u, t) /\ u.state = s /\ u.retryable = t.retryable
    BY ZenonT(60), <2>1, <2>2, MarkedTask
  <2>4. /\ UpdateManaged(id, u)
        /\ barred' = IF t.state = "queued" THEN barred \cup {<<id, t.gen>>} ELSE barred
    BY <1>4 DEF MarkCanceling, Present, Marking
  <2>5. s = IF t.state \in Terminal THEN t.state ELSE "canceling"
    BY DEF IsTerminal
  <2> HIDE DEF u, s
  <2>6. MarkedBy(c, y)
    BY ZenonT(60), <1>0, <1>1, <1>2, <1>4, <2>3, <2>4, <2>5, Zenon DEF MarkedBy
  <2> QED
    BY ZenonT(60), <1>1, <1>2, <2>6 DEF CallerEffect
<1> QED
  BY <1>3, <1>4

LEMMA FireEffect ==
  ASSUME Constants, Shape, NEW c \in Callers, FireCancel(c)
  PROVE  CallerEffect(c)
<1>0. CallerAt(c) /\ callers[c].pc = "fire"
  BY CallerTypes DEF FireCancel
<1>1. Quiet(c, NoCaller) /\ stops' = stops /\ won' = won
  BY ZenonT(60), <1>0 DEF Quiet, FireCancel, historyVars, CallerAt
<1> QED
  BY ZenonT(60), <1>0, <1>1 DEF CallerEffect, FireCancel, Finish, Step, CallerAt

LEMMA RetryEffect ==
  ASSUME Constants, Shape, NEW c \in Callers, RetryApply(c)
  PROVE  CallerEffect(c)
<1> DEFINE id == callers[c].id
           t == tasks[id]
<1>0. CallerAt(c) /\ callers[c].pc = "retry" /\ id \in Ids /\ id \in made
  BY CallerTypes DEF RetryApply, CallerAt
<1>1. stops' = stops /\ won' = won /\ made' = made /\ barred' = barred
      /\ callers' = [callers EXCEPT ![c] = NoCaller]
  BY DEF RetryApply, historyVars, Finish, Step
<1>2. CASE t = None
  <2>1. Launch(id, 0) /\ NoAppend /\ tasks' = tasks
    BY <1>2 DEF RetryApply, Present
  <2>2. Spawned(id)
    BY ZenonT(60), <1>0, <2>1, Spawns DEF CallerAt
  <2>3. Quiet(c, NoCaller)
    BY <1>0, <1>1, <2>1, <2>2 DEF Quiet, CallerAt
  <2> QED
    BY ZenonT(60), <1>0, <1>1, <2>3 DEF CallerEffect, CallerAt
<1>3. CASE t # None
  <2>1. t \in TaskRecord /\ t.gen < MaxGen /\ t.gen + 1 \in 0..MaxGen
    BY <1>0, <1>3 DEF RetryApply, Present, CallerAt, TaskRecord, Constants
  <2>2. UpdateManaged(id, Requeue(t)) /\ Launch(id, t.gen + 1)
    BY ZenonT(60), <1>3 DEF RetryApply, Present, Requeue
  <2>3. Spawned(id)
    BY <1>0, <2>1, <2>2, Spawns
  <2>4. /\ Requeue(t) \in TaskRecord /\ Requeue(t).gen = t.gen + 1
        /\ Requeue(t).state = "queued" /\ Requeue(t).key = t.key
    BY ZenonT(60), <2>1, RequeuedTask
  <2>5. Requeued(c, NoCaller)
    BY ZenonT(60), <1>0, <1>1, <1>3, <2>2, <2>3, <2>4 DEF Requeued, CallerAt
  <2> QED
    BY ZenonT(60), <1>0, <1>1, <2>5 DEF CallerEffect, CallerAt
<1> QED
  BY <1>2, <1>3

LEMMA DropEffect ==
  ASSUME Constants, Shape, NEW c \in Callers, DropTask(c)
  PROVE  CallerEffect(c)
<1> DEFINE id == callers[c].id
           y == [callers[c] EXCEPT !.pc = "unlink"]
<1>0. CallerAt(c) /\ callers[c].pc = "drop" /\ id \in Ids
  BY CallerTypes DEF DropTask, CallerAt
<1>1. stops' = stops /\ won' = won /\ made' = made /\ barred' = barred /\ runners' = runners
  BY DEF DropTask
<1>2. CASE tasks[id] = None
  <2>1. Quiet(c, NoCaller)
    BY <1>0, <1>1, <1>2 DEF Quiet, CallerAt, DropTask, Present
  <2> QED
    BY <1>0, <1>1, <1>2, <2>1 DEF CallerEffect, CallerAt, DropTask, Present, Finish, Step
<1>3. CASE tasks[id] # None
  <2>1. y \in CallerRecord /\ y.pc = "unlink" /\ y.id = id
    BY ZenonT(60), <1>0, CallerPc, Zenon DEF CallerAt
  <2>2. callers' = [callers EXCEPT ![c] = y]
    BY <1>3 DEF DropTask, Present, Step
  <2>3. tasks' = [tasks EXCEPT ![id] = None] /\ NoAppend
    BY <1>3 DEF DropTask, Present, DropMemory
  <2> HIDE DEF y
  <2>4. Dropped(c, y)
    BY <1>0, <1>1, <1>3, <2>1, <2>3 DEF Dropped
  <2> QED
    BY ZenonT(60), <1>1, <2>1, <2>2, <2>4 DEF CallerEffect
<1> QED
  BY <1>2, <1>3

LEMMA DropUnlinkEffect ==
  ASSUME Constants, Shape, NEW c \in Callers, DropUnlink(c)
  PROVE  CallerEffect(c)
<1>0. CallerAt(c) /\ callers[c].pc = "unlink"
  BY CallerTypes DEF DropUnlink
<1>1. Unlinked(c, NoCaller) /\ stops' = stops /\ won' = won
  BY <1>0 DEF Unlinked, DropUnlink, historyVars, CallerAt
<1> QED
  BY ZenonT(60), <1>0, <1>1 DEF CallerEffect, DropUnlink, Finish, Step, CallerAt

LEMMA CallerEffects ==
  ASSUME Constants, Shape, NEW c \in Callers,
         \/ CallerStep(c)
         \/ \E key \in Keys : SubmitPut(c, key)
         \/ \E id \in Ids : CancelGet(c, id) \/ RetryGet(c, id) \/ DismissGet(c, id)
  PROVE  CallerEffect(c)
<1>1. CASE SubmitPersist(c) \/ MarkCanceling(c) \/ FireCancel(c)
  BY <1>1, PersistEffect, MarkEffect, FireEffect
<1>2. CASE RetryApply(c) \/ DropTask(c) \/ DropUnlink(c)
  BY <1>2, RetryEffect, DropEffect, DropUnlinkEffect
<1>3. CASE \E key \in Keys : SubmitPut(c, key)
  BY <1>3, PutEffect
<1>4. CASE \E id \in Ids : CancelGet(c, id) \/ RetryGet(c, id) \/ DismissGet(c, id)
  BY ZenonT(60), <1>4, GetEffect
<1> QED
  BY ZenonT(60), <1>1, <1>2, <1>3, <1>4 DEF CallerStep

-----------------------------------------------------------------------------
(* The invariants under a step of a caller.                                *)

\* What the step may do to tasks and to the journal, in one list.
LEMMA CallerWrites ==
  ASSUME Constants, Shape, NEW c \in Callers, NEW y \in CallerRecord,
         \/ Quiet(c, y) \/ PutNew(c, y) \/ Persisted(c, y) \/ MarkedBy(c, y)
         \/ Requeued(c, y) \/ Dropped(c, y) \/ Unlinked(c, y)
  PROVE  /\ tasks' \in [Ids -> TaskRecord \cup {None}]
         /\ disk' \in [Ids -> TaskRecord \cup {None}]
         /\ line' \in {"ok", "open", "bad"} /\ journal' \in {"on", "degraded", "off"}
         /\ faults' \in Nat /\ made \subseteq made' /\ made' \subseteq Ids
         /\ \A j \in Ids : tasks'[j] # None \/ disk'[j] # None => j \in made'
         /\ y.pc # "idle" => y.id \in made'
         /\ y.pc = "persist" => y.item \in {NewTask(k) : k \in Keys}
<1> DEFINE id == callers[c].id
<1>0. /\ tasks \in [Ids -> TaskRecord \cup {None}] /\ made \subseteq Ids
      /\ callers[c].pc # "idle" => id \in made /\ id \in Ids
      /\ \A j \in Ids : tasks[j] # None \/ disk[j] # None => j \in made
      /\ callers[c].pc = "persist" => callers[c].item \in TaskRecord
  BY ZenonT(60), FirstTask DEF Shape
<1>1. CASE Quiet(c, y)
  BY ZenonT(60), <1>1, NoAppendFacts DEF Quiet, Shape
<1>2. CASE PutNew(c, y)
  <2>1. PICK key \in Keys, i \in Ids \ made :
          /\ tasks' = [tasks EXCEPT ![i] = NewTask(key)] /\ made' = made \cup {i}
          /\ y.pc = "persist" /\ y.id = i /\ y.item = NewTask(key)
    BY ZenonT(60), <1>2 DEF PutNew
  <2>2. NewTask(key) \in TaskRecord /\ disk' = disk /\ line' = line /\ journal' = journal
        /\ faults' = faults
    BY ZenonT(60), <1>2, FirstTask, NoAppendFacts DEF PutNew
  <2>3. tasks' \in [Ids -> TaskRecord \cup {None}] /\ made' \subseteq Ids
        /\ \A j \in Ids : tasks'[j] # None => j \in made'
    BY <1>0, <2>1, <2>2
  <2>4. disk' \in [Ids -> TaskRecord \cup {None}] /\ line' \in {"ok", "open", "bad"}
        /\ journal' \in {"on", "degraded", "off"} /\ faults' \in Nat
    BY ZenonT(60), <2>2 DEF Shape
  <2>5. \A j \in Ids : disk'[j] # None => j \in made'
    BY ZenonT(60), <1>0, <2>1, <2>2
  <2>6. y.id \in made' /\ y.item \in {NewTask(k) : k \in Keys} /\ made \subseteq made'
    BY ZenonT(60), <2>1
  <2> QED
    BY ZenonT(60), <2>3, <2>4, <2>5, <2>6
<1>3. CASE Persisted(c, y)
  <2>1. Recorded(callers[c].item) \in TaskRecord
    BY ZenonT(60), <1>0, <1>3, RecordedTask DEF Persisted, SameTask
  <2> QED
    BY ZenonT(60), <1>0, <1>3, <2>1, AppendFacts DEF Persisted
<1>4. CASE MarkedBy(c, y)
  <2>1. PICK u \in TaskRecord : UpdateManaged(id, u)
    BY ZenonT(60), <1>4 DEF MarkedBy, SameTask
  <2> QED
    BY ZenonT(60), <1>0, <1>4, <2>1, UpdateFacts DEF MarkedBy
<1>5. CASE Requeued(c, y)
  <2>1. PICK u \in TaskRecord : UpdateManaged(id, u)
    BY ZenonT(60), <1>5 DEF Requeued
  <2> QED
    BY ZenonT(60), <1>0, <1>5, <2>1, UpdateFacts DEF Requeued
<1>6. CASE Dropped(c, y)
  BY ZenonT(60), <1>0, <1>6, NoAppendFacts DEF Dropped, Shape
<1>7. CASE Unlinked(c, y)
  BY <1>0, <1>7, AppendFacts DEF Unlinked
<1> QED
  BY ZenonT(60), <1>1, <1>2, <1>3, <1>4, <1>5, <1>6, <1>7

LEMMA SpawnShape ==
  ASSUME Constants, runners \in [Slots -> RunnerRecord], NEW id \in made,
         \A r \in Slots : runners[r].pc # "idle" => runners[r].id \in made,
         runners' = runners \/ Spawned(id)
  PROVE  /\ runners' \in [Slots -> RunnerRecord]
         /\ \A r \in Slots : runners'[r].pc # "idle" => runners'[r].id \in made
BY ZenonT(60) DEF Spawned

LEMMA CallerShape ==
  ASSUME Constants, Shape, NEW c \in Callers, CallerEffect(c)
  PROVE  Shape'
<1>1. PICK y \in CallerRecord :
        /\ callers' = [callers EXCEPT ![c] = y]
        /\ \/ Quiet(c, y) \/ PutNew(c, y) \/ Persisted(c, y) \/ MarkedBy(c, y)
           \/ Requeued(c, y) \/ Dropped(c, y) \/ Unlinked(c, y)
  BY ZenonT(60) DEF CallerEffect
<1>2. /\ tasks' \in [Ids -> TaskRecord \cup {None}]
      /\ disk' \in [Ids -> TaskRecord \cup {None}]
      /\ line' \in {"ok", "open", "bad"} /\ journal' \in {"on", "degraded", "off"}
      /\ faults' \in Nat /\ made \subseteq made' /\ made' \subseteq Ids
      /\ \A j \in Ids : tasks'[j] # None \/ disk'[j] # None => j \in made'
      /\ y.pc # "idle" => y.id \in made'
      /\ y.pc = "persist" => y.item \in {NewTask(k) : k \in Keys}
  BY ZenonT(60), <1>1, CallerWrites, Zenon
<1>3. /\ callers' \in [Callers -> CallerRecord]
      /\ \A d \in Callers : callers'[d].pc # "idle" => callers'[d].id \in made'
  BY ZenonT(60), <1>1, <1>2 DEF Shape
<1>4. \A d \in Callers : callers'[d].pc = "persist" => callers'[d].item \in {NewTask(k) : k \in Keys}
  BY <1>1, <1>2 DEF Shape
<1>5. /\ runners' \in [Slots -> RunnerRecord]
      /\ \A r \in Slots : runners'[r].pc # "idle" => runners'[r].id \in made
  <2>1. CASE runners' = runners
    BY ZenonT(60), <2>1 DEF Shape
  <2>2. CASE callers[c].pc # "idle" /\ Spawned(callers[c].id)
    BY ZenonT(60), <2>2, SpawnShape DEF Shape
  <2> QED
    BY ZenonT(60), <1>1, <2>1, <2>2 DEF Quiet, PutNew, Persisted, MarkedBy, Requeued, Dropped, Unlinked
<1>6. stops' \in Nat
  BY ZenonT(60) DEF CallerEffect, Shape
<1>7. \A r \in Slots : runners'[r].pc # "idle" => runners'[r].id \in made'
  BY <1>2, <1>5
<1> QED
  BY ZenonT(60), <1>2, <1>3, <1>4, <1>5, <1>6, <1>7 DEF Shape

-----------------------------------------------------------------------------
(* A restart: what is known of each task afterwards comes from its last    *)
(* record, as it is or recovered; or nothing is, when the journal is bad.  *)

Found(id) == normalizeReplayedTask(disk[id])

ReplayedAs(id) ==
    \/ tasks'[id] = None /\ disk'[id] = disk[id]
    \/ disk[id] # None /\ tasks'[id] = Found(id) /\ disk'[id] = disk[id]
    \/ /\ disk[id] # None /\ Found(id).gen < MaxGen
       /\ tasks'[id] = Recovered(Found(id)) /\ disk'[id] = Recorded(tasks'[id])

RestartEffect ==
    /\ made' = made /\ won' = won /\ barred' = barred /\ faults' = faults
    /\ stops < MaxStops /\ stops' = stops + 1
    /\ line' \in {"ok", "open", "bad"} /\ journal' \in {"on", "off"}
    /\ DOMAIN tasks' = Ids /\ DOMAIN disk' = Ids
    /\ tasks' = [id \in Ids |-> tasks'[id]] /\ disk' = [id \in Ids |-> disk'[id]]
    /\ \A id \in Ids : ReplayedAs(id)
    /\ journal' = "on" => \A id \in Ids : disk[id] # None => tasks'[id] # None
    /\ journal' = "off" => \A id \in Ids : tasks'[id] = None
    /\ callers' = [c \in Callers |-> NoCaller]
    /\ runners' = [r \in Slots |-> runners'[r]]
    /\ \A r \in Slots :
         \/ runners'[r] = NoRunner
         \/ \E id \in Ids : /\ tasks'[id] # None
                            /\ runners'[r] = Fetching(id, tasks'[id].ctx)

LEMMA Restarts ==
  ASSUME Constants, Shape, NEW tail \in {"ok", "open", "bad"}, Restart(tail)
  PROVE  RestartEffect
<1> DEFINE found == IF tail = "bad" THEN [id \in Ids |-> None] ELSE replay
           back == {id \in Recoverable : /\ found[id] # None
                                         /\ found[id].state = "failed"
                                         /\ found[id].code = "interrupted"
                                         /\ found[id].gen < MaxGen}
           live == [id \in Ids |-> IF id \in back THEN Recovered(found[id]) ELSE found[id]]
           slot == CHOOSE f \in [back -> Slots] : \A i, j \in back : i # j => f[i] # f[j]
           who == [r \in Slots |->
                     IF \E id \in back : slot[id] = r
                     THEN LET id == CHOOSE i \in back : slot[i] = r
                          IN Fetching(id, live[id].ctx)
                     ELSE NoRunner]
<1>1. /\ stops < MaxStops /\ stops' = stops + 1 /\ tasks' = live
      /\ journal' = IF tail = "bad" THEN "off" ELSE "on"
      /\ disk' = [id \in Ids |-> IF id \in back THEN Recorded(live[id]) ELSE disk[id]]
      /\ line' = IF tail = "open" /\ back # {} THEN "bad" ELSE tail
      /\ runners' = who
      /\ callers' = [c \in Callers |-> NoCaller]
      /\ made' = made /\ won' = won /\ barred' = barred /\ faults' = faults
  BY ZenonT(60), Zenon DEF Restart, loaded, historyVars, Fetching
<1> HIDE DEF slot
<1>2. \A id \in Ids : found[id] = IF tail = "bad" \/ disk[id] = None THEN None ELSE Found(id)
  BY DEF replay, Found
<1> HIDE DEF found
<1>3. back \subseteq Ids /\ \A id \in back : found[id] # None /\ found[id].gen < MaxGen
  BY ZenonT(60) DEF Constants
<1> HIDE DEF back
<1>4. \A id \in Ids : tasks'[id] = IF id \in back THEN Recovered(found[id]) ELSE found[id]
  BY ZenonT(60), <1>1
<1>5. \A id \in Ids : disk'[id] = IF id \in back THEN Recorded(tasks'[id]) ELSE disk[id]
  BY ZenonT(60), <1>1
<1>6. \A id \in Ids : ReplayedAs(id)
  BY ZenonT(60), <1>2, <1>3, <1>4, <1>5 DEF ReplayedAs
<1>7. \A id \in Ids : disk[id] # None => Found(id) # None
  BY ZenonT(60), ReplayedTask DEF Shape, Constants, SameTask, Found
<1>8. \A id \in Ids : id \in back => Recovered(found[id]) # None
  <2>1. TAKE id \in Ids
  <2>2. HAVE id \in back
  <2>3. Found(id) \in TaskRecord /\ Found(id).gen < MaxGen /\ found[id] = Found(id)
    BY ZenonT(60), <1>2, <1>3, <2>2, ReplayedTask DEF Shape, SameTask, Found
  <2> QED
    BY <2>3, RecoveredTask DEF Constants
<1>9. ASSUME NEW r \in Slots
      PROVE  \/ who[r] = NoRunner
             \/ \E id \in Ids : /\ tasks'[id] # None
                                /\ who[r] = Fetching(id, tasks'[id].ctx)
  <2>1. CASE \E id \in back : slot[id] = r
    <3> DEFINE id == CHOOSE i \in back : slot[i] = r
    <3>1. id \in back
      BY ZenonT(60), <2>1, Zenon
    <3>2. who[r] = Fetching(id, live[id].ctx)
      BY ZenonT(60), <2>1, Zenon
    <3> HIDE DEF id, who
    <3>3. id \in Ids /\ tasks'[id] # None
      BY ZenonT(60), <1>3, <1>4, <1>8, <3>1
    <3>4. tasks'[id].ctx = live[id].ctx
      BY <1>1
    <3> QED
      BY ZenonT(60), <3>2, <3>3, <3>4, Zenon
  <2>2. CASE ~\E id \in back : slot[id] = r
    BY ZenonT(60), <2>2, Zenon
  <2> QED
    BY <2>1, <2>2
<1>10. runners' = [r \in Slots |-> runners'[r]]
  <2>1. DOMAIN runners' = Slots /\ runners' = [r \in DOMAIN runners' |-> runners'[r]]
    BY <1>1
  <2> QED
    BY ZenonT(60), <2>1
<1>11. /\ DOMAIN tasks' = Ids /\ DOMAIN disk' = Ids
       /\ tasks' = [id \in Ids |-> tasks'[id]] /\ disk' = [id \in Ids |-> disk'[id]]
  BY ZenonT(60), <1>1, Zenon
<1> HIDE DEF who, live
<1>12. journal' = "on" => \A id \in Ids : disk[id] # None => tasks'[id] # None
  BY ZenonT(60), <1>1, <1>2, <1>4, <1>7, <1>8
<1>13. journal' = "off" => \A id \in Ids : tasks'[id] = None
  BY ZenonT(60), <1>1, <1>2, <1>3, <1>4
<1>14. line' \in {"ok", "open", "bad"} /\ journal' \in {"on", "off"}
  BY ZenonT(60), <1>1
<1>15. \A r \in Slots : runners'[r] = who[r]
  BY <1>1
<1>16. \A r \in Slots :
         \/ runners'[r] = NoRunner
         \/ \E id \in Ids : /\ tasks'[id] # None
                            /\ runners'[r] = Fetching(id, tasks'[id].ctx)
  BY ZenonT(60), <1>9, <1>15, Zenon
<1> QED
  BY ZenonT(60), <1>1, <1>6, <1>10, <1>11, <1>12, <1>13, <1>14, <1>16, Zenon DEF RestartEffect

LEMMA ReplayTypes ==
  ASSUME Constants, Shape, NEW id \in Ids, ReplayedAs(id)
  PROVE  /\ tasks'[id] \in TaskRecord \cup {None} /\ disk'[id] \in TaskRecord \cup {None}
         /\ tasks'[id] # None \/ disk'[id] # None => disk[id] # None
         /\ tasks'[id] # None => tasks'[id].ctx \in 0..MaxGen
<1>1. disk[id] # None => disk[id] \in TaskRecord /\ Found(id) \in TaskRecord
  BY ZenonT(60), ReplayedTask DEF Shape, SameTask, Found
<1>2. \A t \in TaskRecord : Recorded(t) \in TaskRecord /\ t.ctx \in 0..MaxGen
  BY RecordedTask DEF SameTask, TaskRecord
<1>3. disk[id] # None /\ Found(id).gen < MaxGen => Recovered(Found(id)) \in TaskRecord
  BY ZenonT(60), <1>1, RecoveredTask
<1> QED
  BY ZenonT(60), <1>1, <1>2, <1>3 DEF ReplayedAs

LEMMA RestartShape ==
  ASSUME Constants, Shape, RestartEffect
  PROVE  Shape'
<1>1. \A id \in Ids : /\ tasks'[id] \in TaskRecord \cup {None}
                      /\ disk'[id] \in TaskRecord \cup {None}
                      /\ tasks'[id] # None \/ disk'[id] # None => id \in made
                      /\ tasks'[id] # None => tasks'[id].ctx \in 0..MaxGen
  BY ZenonT(60), ReplayTypes DEF RestartEffect, Shape
<1>2. tasks' \in [Ids -> TaskRecord \cup {None}] /\ disk' \in [Ids -> TaskRecord \cup {None}]
  BY <1>1 DEF RestartEffect
<1>3. NoRunner \in RunnerRecord /\ NoRunner.pc = "idle"
      /\ NoCaller \in CallerRecord /\ NoCaller.pc = "idle"
  <2>1. 0 \in 0..MaxGen
    BY DEF Constants
  <2> QED
    BY ZenonT(60), <2>1, Zenon DEF NoRunner, RunnerRecord, NoCaller, CallerRecord
<1>4. \A r \in Slots : runners'[r] \in RunnerRecord
                       /\ (runners'[r].pc # "idle" => runners'[r].id \in made)
  <2>1. TAKE r \in Slots
  <2>2. CASE runners'[r] = NoRunner
    BY <1>3, <2>2
  <2>3. ASSUME NEW id \in Ids, tasks'[id] # None,
               runners'[r] = Fetching(id, tasks'[id].ctx)
        PROVE  runners'[r] \in RunnerRecord /\ runners'[r].id \in made
    <3>1. tasks'[id].ctx \in 0..MaxGen /\ id \in made
      BY <1>1, <2>3
    <3>2. runners'[r] \in RunnerRecord /\ runners'[r].id = id
      BY ZenonT(60), <2>3, <3>1, NewRunner, Zenon
    <3> QED
      BY ZenonT(60), <3>1, <3>2
  <2> QED
    BY <2>2, <2>3 DEF RestartEffect
<1>5. runners' \in [Slots -> RunnerRecord]
  BY ZenonT(60), <1>4 DEF RestartEffect
<1>6. callers' \in [Callers -> CallerRecord] /\ \A c \in Callers : callers'[c].pc = "idle"
  BY <1>3 DEF RestartEffect
<1>7. /\ line' \in {"ok", "open", "bad"} /\ journal' \in {"on", "degraded", "off"}
      /\ faults' \in Nat /\ made' = made
  BY ZenonT(60), Zenon DEF RestartEffect, Shape
<1>8. stops' \in Nat
  <2>1. stops \in Nat /\ stops' = stops + 1
    BY ZenonT(60), Zenon DEF RestartEffect, Shape
  <2> QED
    BY <2>1
<1> QED
  BY ZenonT(60), <1>1, <1>2, <1>4, <1>5, <1>6, <1>7, <1>8 DEF Shape

-----------------------------------------------------------------------------
(* The steps of the whole system, by who takes them.                       *)

Still == UNCHANGED <<tasks, made, disk, line, journal, faults, runners, callers, stops, barred, won>>

LEMMA Steps ==
  ASSUME Constants, Shape, [Next]_vars
  PROVE  \/ \E r \in Slots : RunnerEffect(r)
         \/ \E c \in Callers : CallerEffect(c)
         \/ RestartEffect
         \/ Still
<1>1. CASE \E r \in Slots : RunnerStep(r) \/ RunBackoff(r)
  BY <1>1, RunnerEffects
<1>2. CASE \E c \in Callers : CallerStep(c)
  BY ZenonT(60), <1>2, CallerEffects
<1>3. CASE \E c \in Callers, key \in Keys : SubmitPut(c, key)
  BY SMTT(60), <1>3, CallerEffects
<1>4. CASE \E c \in Callers, id \in Ids : CancelGet(c, id) \/ RetryGet(c, id) \/ DismissGet(c, id)
  BY ZenonT(60), <1>4, CallerEffects
<1>5. CASE Close
  BY <1>5 DEF Close, NoAppend, historyVars, Still
<1>6. CASE Crash
  <2>1. PICK tail \in {"ok", "open", "bad"} : Restart(tail)
    BY SMTT(60), <1>6 DEF Crash, Tails, Shape
  <2> QED
    BY ZenonT(60), <2>1, Restarts
<1>7. CASE UNCHANGED vars
  BY ZenonT(60), <1>7 DEF vars, journalVars, historyVars, Still
<1> QED
  BY ZenonT(60), <1>1, <1>2, <1>3, <1>4, <1>5, <1>6, <1>7 DEF Next

LEMMA InitShape ==
  ASSUME Constants, Init
  PROVE  Shape
<1>1. NoRunner \in RunnerRecord /\ NoRunner.pc = "idle"
      /\ NoCaller \in CallerRecord /\ NoCaller.pc = "idle"
  <2>1. 0 \in 0..MaxGen
    BY DEF Constants
  <2> QED
    BY ZenonT(60), <2>1, Zenon DEF NoRunner, RunnerRecord, NoCaller, CallerRecord
<1>2. faults \in Nat
  BY DEF Init, Constants
<1> QED
  BY <1>1, <1>2 DEF Init, Shape

LEMMA NextShape ==
  ASSUME Constants, Shape, [Next]_vars
  PROVE  Shape'
<1>1. CASE Still
  BY <1>1 DEF Still, Shape
<1> QED
  BY ZenonT(60), <1>1, Steps, RunnerShape, CallerShape, RestartShape

\* Whatever is called, canceled, retried, dismissed, written or lost, tasks,
\* journal records, goroutines and handlers keep their types, and nobody works
\* on an id that was never submitted.
THEOREM TasksTyped == ASSUME Constants PROVE Spec => [](TypeOK /\ Shape)
<1>1. Init => Shape
  BY InitShape
<1>2. Shape /\ [Next]_vars => Shape'
  BY NextShape
<1>3. Shape => TypeOK
  <2>1. SUFFICES ASSUME Shape PROVE TypeOK
    OBVIOUS
  <2>2. \A x \in RunnerRecord : x.pc \in {"idle", "fetch", "start", "run", "end", "remove", "unlink"}
    BY DEF RunnerRecord
  <2>3. \A x \in CallerRecord : x.pc \in {"idle", "persist", "cancel", "retry", "mark", "fire",
                                          "drop", "unlink"}
    BY ZenonT(60) DEF CallerRecord
  <2>4. \A r \in Slots : runners[r] \in RunnerRecord
    BY ZenonT(60), <2>1 DEF Shape
  <2>5. \A c \in Callers : callers[c] \in CallerRecord
    BY <2>1 DEF Shape
  <2> QED
    BY ZenonT(60), <2>1, <2>2, <2>3, <2>4, <2>5, Zenon DEF TypeOK, Shape
<1> QED
  BY <1>1, <1>2, <1>3, PTL DEF Spec
=============================================================================
