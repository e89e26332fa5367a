------------------------- MODULE TaskOutcomeProofs -------------------------
(***************************************************************************)
(* What memory and the journal may say of a task, which outcome it may     *)
(* show, and which canceled work may run: the safety invariants of         *)
(* TaskManager, for every value of its constants.                          *)
(***************************************************************************)
EXTENDS TaskManagerProofs

\* While a put is between its memory and its journal half its task is active, in
\* its first generation, and no goroutine, retry or removal knows of it; a task
\* being removed from the journal has left memory.
WindowInv ==
    /\ \A c \in Callers : callers[c].pc = "persist" =>
         LET id == callers[c].id IN
         /\ tasks[id] # None
         /\ tasks[id].state \in Active /\ tasks[id].gen = 1 /\ ~tasks[id].retryable
         /\ tasks[id].key = callers[c].item.key
         /\ \A r \in Slots : runners[r].pc # "idle" => runners[r].id # id
         /\ \A d \in Callers : d # c /\ callers[d].id = id =>
              callers[d].pc \in {"idle", "cancel", "mark", "fire"}
    /\ \A c \in Callers : callers[c].pc = "unlink" => tasks[callers[c].id] = None
    /\ \A r \in Slots : runners[r].pc = "unlink" => tasks[runners[r].id] = None

\* The last record of a task says what memory says of it.
DiskAgrees ==
    journal = "on" =>
        \A id \in Ids : ~InWindow(id) => Seen(disk[id]) = Seen(tasks[id])

\* Where "succeeded" may come from.
SuccessInv ==
    /\ SucceededRan
    /\ \A id \in Ids : disk[id] # None /\ disk[id].state = "succeeded" =>
         <<id, disk[id].gen>> \in won
    /\ \A r \in Slots : /\ runners[r].pc = "end"
                        /\ runners[r].out \notin {"canceled", "fail", "interrupted"}
                        => <<runners[r].id, runners[r].gen>> \in won

\* A canceled generation that is still the task's is terminal or canceling, and
\* a runner that has begun is of no later generation than the task, nor of one
\* that is queued again; what the journal holds is no older than that.
BarInv ==
    /\ CanceledNeverRuns
    /\ \A id \in Ids, g \in Nat : <<id, g>> \in barred =>
         /\ id \in made
         /\ tasks[id] # None => g <= tasks[id].gen
         /\ tasks[id] # None /\ g = tasks[id].gen =>
              tasks[id].state \in Terminal \cup {"canceling"}
         /\ MaxFaults = 0 /\ disk[id] # None => g <= disk[id].gen
    /\ \A r \in Slots :
         /\ runners[r].pc \in {"start", "run", "end"} /\ tasks[runners[r].id] # None
         => /\ runners[r].gen <= tasks[runners[r].id].gen
            /\ runners[r].pc # "start" /\ runners[r].gen = tasks[runners[r].id].gen =>
                 tasks[runners[r].id].state # "queued"
    /\ \A id \in Ids : tasks[id] # None /\ disk[id] # None =>
         /\ journal # "off"
         /\ MaxFaults = 0 => tasks[id].gen <= disk[id].gen

LEMMA Generation ==
  ASSUME NEW t \in TaskRecord
  PROVE  t.gen \in Nat
BY DEF TaskRecord

LEMMA Later ==
  ASSUME NEW m \in Nat, NEW n \in Nat
  PROVE  n <= n /\ (m <= n => m <= n + 1 /\ m # n + 1)
OBVIOUS

-----------------------------------------------------------------------------
(* The invariants under a step of a goroutine.                             *)

LEMMA RunnerWindow ==
  ASSUME Constants, Shape, WindowInv, NEW r \in Slots, RunnerEffect(r)
  PROVE  WindowInv'
<1> DEFINE id == runners[r].id
<1>1. /\ id \in made /\ id \in Ids
      /\ \A j \in Ids : j # id => tasks'[j] = tasks[j]
      /\ tasks'[id] # None => tasks[id] # None
  BY ZenonT(60), RunnerWrites, Zenon
<1>2. PICK y \in RunnerRecord : runners' = [runners EXCEPT ![r] = y] /\ Moved(r, y)
  BY ZenonT(60) DEF RunnerEffect
<1>3. callers' = callers /\ runners[r].pc # "idle" /\ runners \in [Slots -> RunnerRecord]
  BY DEF RunnerEffect, Shape
<1>4. /\ \A q \in Slots : runners'[q].pc # "idle" => runners[q].pc # "idle" /\ runners'[q].id = runners[q].id
      /\ \A q \in Slots : q # r => runners'[q] = runners[q]
      /\ runners'[r].pc = "unlink" => runners'[r].id = id /\ tasks'[id] = None
  BY <1>2, <1>3 DEF Moved
<1>5. \A c \in Callers : callers[c].pc # "idle" => callers[c].id \in Ids
  BY DEF Shape
<1>6. ASSUME NEW c \in Callers, callers[c].pc = "persist"
      PROVE  /\ callers[c].id # id /\ tasks'[callers[c].id] = tasks[callers[c].id]
             /\ \A q \in Slots : runners'[q].pc # "idle" => runners'[q].id # callers[c].id
  BY <1>1, <1>3, <1>4, <1>5, <1>6 DEF WindowInv
<1>7. \A c \in Callers : callers[c].pc = "unlink" => tasks'[callers[c].id] = None
  BY ZenonT(60), <1>1, <1>5 DEF WindowInv
<1>8. \A q \in Slots : runners'[q].pc = "unlink" => tasks'[runners'[q].id] = None
  <2>1. \A q \in Slots : runners[q].pc # "idle" => runners[q].id \in Ids
    BY DEF Shape
  <2> QED
    BY <1>1, <1>4, <2>1 DEF WindowInv
<1> QED
  BY ZenonT(60), <1>3, <1>6, <1>7, <1>8 DEF WindowInv

LEMMA RunnerReplay ==
  ASSUME Constants, Shape, WindowInv, DiskAgrees, NEW r \in Slots, RunnerEffect(r)
  PROVE  DiskAgrees'
<1> DEFINE id == runners[r].id
<1>1. /\ id \in made /\ id \in Ids
      /\ \A j \in Ids : j # id => tasks'[j] = tasks[j] /\ disk'[j] = disk[j]
  BY ZenonT(60), RunnerWrites, Zenon
<1>2. PICK y \in RunnerRecord : runners' = [runners EXCEPT ![r] = y] /\ Moved(r, y)
  BY ZenonT(60) DEF RunnerEffect
<1>3. callers' = callers /\ runners[r].pc # "idle" /\ runners \in [Slots -> RunnerRecord]
  BY DEF RunnerEffect, Shape
<1>4. \A c \in Callers : ~(callers[c].pc = "persist" /\ callers[c].id = id)
  BY <1>3 DEF WindowInv
<1>5. \A q \in Slots : q # r => runners'[q] = runners[q]
  BY <1>2, <1>3
<1>6. SUFFICES ASSUME journal' = "on", NEW j \in Ids, ~InWindow(j)'
               PROVE  Seen(disk'[j]) = Seen(tasks'[j])
  BY ZenonT(60), Zenon DEF DiskAgrees, Seen, normalizeReplayedTask
<1>7. /\ \A c \in Callers : ~(callers[c].pc \in {"persist", "unlink"} /\ callers[c].id = j)
      /\ \A q \in Slots : ~(runners'[q].pc = "unlink" /\ runners'[q].id = j)
  BY <1>3, <1>6 DEF InWindow
<1>8. InWindow(j) => j = id /\ runners[r].pc = "unlink"
  BY <1>5, <1>7 DEF InWindow
<1>9. CASE tasks' = tasks /\ runners[r].pc # "unlink" /\ NoAppend
  BY ZenonT(60), <1>6, <1>8, <1>9, NoAppendFacts, Zenon DEF DiskAgrees
<1>10. CASE tasks' = tasks /\ runners[r].pc = "unlink" /\ Append(id, None)
  <2>1. journal = "on" /\ disk'[id] = None
    BY ZenonT(60), <1>1, <1>6, <1>10, AppendFacts
  <2>2. tasks[id] = None
    BY <1>10 DEF WindowInv
  <2>3. CASE j = id
    BY ZenonT(60), <1>10, <2>1, <2>2, <2>3, Zenon
  <2>4. CASE j # id
    BY ZenonT(60), <1>1, <1>8, <2>1, <2>4, Zenon DEF DiskAgrees
  <2> QED
    BY <2>3, <2>4
<1>11. CASE /\ tasks' = [tasks EXCEPT ![id] = None] /\ NoAppend
            /\ runners'[r].pc = "unlink" /\ runners'[r].id = id
  <2>1. j # id /\ journal = "on"
    BY ZenonT(60), <1>6, <1>7, <1>11, NoAppendFacts
  <2> QED
    BY ZenonT(60), <1>1, <1>8, <2>1, Zenon DEF DiskAgrees
<1>12. CASE /\ tasks[id] # None /\ runners[r].pc \in {"start", "run", "end"}
            /\ \E u \in TaskRecord : Updated(r, u)
  <2>1. PICK u \in TaskRecord : UpdateManaged(id, u)
    BY <1>12 DEF Updated
  <2>2. /\ journal = "on" /\ tasks'[id] = u
        /\ \/ disk'[id] = Recorded(u)
           \/ disk' = disk /\ taskDurableKey(u) = taskDurableKey(tasks[id])
    BY ZenonT(60), <1>1, <1>6, <2>1, UpdateFacts
  <2>3. Seen(disk[j]) = Seen(tasks[j])
    BY <1>8, <1>12, <2>2 DEF DiskAgrees
  <2>4. CASE j # id
    BY ZenonT(60), <1>1, <2>3, <2>4, Zenon
  <2>5. CASE j = id
    <3>1. tasks[id] \in TaskRecord
      BY <1>1, <1>12 DEF Shape
    <3>2. Seen(Recorded(u)) = Seen(u)
          /\ (taskDurableKey(u) = taskDurableKey(tasks[id]) => Seen(u) = Seen(tasks[id]))
      BY ZenonT(60), <3>1, SeenAlike, Zenon
    <3> QED
      BY ZenonT(60), <2>2, <2>3, <2>5, <3>2, Zenon
  <2> QED
    BY ZenonT(60), <2>4, <2>5
<1> QED
  BY ZenonT(60), <1>9, <1>10, <1>11, <1>12, Zenon DEF RunnerEffect

\* Which states the step may give its task, and what it may leave in the journal.
LEMMA RunnerStates ==
  ASSUME Constants, Shape, NEW r \in Slots, RunnerEffect(r), NEW id, id = runners[r].id
  PROVE  /\ tasks'[id] # None =>
              /\ tasks'[id].state = "queued" => tasks[id].state = "queued"
              /\ tasks'[id].state = "succeeded" =>
                   \/ tasks[id].state = "succeeded"
                   \/ /\ runners[r].pc = "end" /\ runners[r].out \notin Failing
                      /\ tasks[id].gen = runners[r].gen
              /\ tasks[id].state \in Terminal \cup {"canceling"} =>
                   \/ tasks'[id].state \in Terminal \cup {"canceling"}
                   \/ runners[r].pc \in {"run", "end"} /\ tasks[id].gen = runners[r].gen
         /\ \/ disk'[id] = disk[id]
            \/ disk'[id] = None
            \/ /\ journal' # "off" /\ tasks'[id] # None
               /\ disk'[id].gen = tasks'[id].gen /\ disk'[id].state = tasks'[id].state
<1>0. id \in Ids /\ tasks \in [Ids -> TaskRecord \cup {None}]
  BY DEF Shape, RunnerEffect
<1>1. CASE tasks' = tasks /\ NoAppend
  BY ZenonT(60), <1>0, <1>1, NoAppendFacts
<1>2. CASE tasks' = tasks /\ Append(id, None)
  BY <1>0, <1>2, AppendFacts
<1>3. CASE tasks[id] # None /\ tasks' = [tasks EXCEPT ![id] = None] /\ NoAppend
  BY ZenonT(60), <1>0, <1>3, NoAppendFacts
<1>4. CASE /\ tasks[id] # None /\ tasks[id].gen = runners[r].gen
           /\ runners[r].pc \in {"start", "run", "end"} /\ \E u \in TaskRecord : Updated(r, u)
  <2>1. PICK u \in TaskRecord : Updated(r, u)
    BY ZenonT(60), <1>4
  <2>2. /\ UpdateManaged(id, u)
        /\ u.state = "queued" => tasks[id].state = "queued"
        /\ u.state = "succeeded" => \/ tasks[id].state = "succeeded"
                                    \/ runners[r].pc = "end" /\ runners[r].out \notin Failing
        /\ runners[r].pc = "start" /\ tasks[id].state \in Terminal \cup {"canceling"} =>
             u.state \in Terminal
    BY <2>1 DEF Updated
  <2>3. /\ tasks'[id] = u /\ disk'[id] \in {disk[id], Recorded(u)}
        /\ journal' = "off" <=> journal = "off"
        /\ journal = "off" => disk' = disk
    BY ZenonT(60), <1>0, <2>2, UpdateFacts, Zenon
  <2>4. Recorded(u).gen = u.gen /\ Recorded(u).state = u.state /\ u # None
    BY ZenonT(60), RecordedTask DEF SameTask, Constants
  <2>5. \/ disk'[id] = disk[id]
        \/ /\ journal' # "off" /\ tasks'[id] # None
           /\ disk'[id].gen = tasks'[id].gen /\ disk'[id].state = tasks'[id].state
    BY ZenonT(60), <2>3, <2>4
  <2> QED
    BY ZenonT(60), <1>4, <2>2, <2>3, <2>5
<1> QED
  BY ZenonT(60), <1>1, <1>2, <1>3, <1>4 DEF RunnerEffect

LEMMA RunnerSuccess ==
  ASSUME Constants, Shape, SuccessInv, NEW r \in Slots, RunnerEffect(r)
  PROVE  SuccessInv'
<1> DEFINE id == runners[r].id
<1>1. /\ id \in Ids
      /\ \A j \in Ids : j # id => tasks'[j] = tasks[j] /\ disk'[j] = disk[j]
      /\ tasks'[id] # None => tasks[id] # None /\ tasks'[id].gen = tasks[id].gen
  BY ZenonT(60), RunnerWrites, Zenon
<1>2. PICK y \in RunnerRecord : runners' = [runners EXCEPT ![r] = y] /\ Moved(r, y)
  BY ZenonT(60) DEF RunnerEffect
<1>3. won \subseteq won' /\ runners \in [Slots -> RunnerRecord]
  BY DEF RunnerEffect, Shape
<1>4. /\ tasks'[id] # None /\ tasks'[id].state = "succeeded" =>
           \/ tasks[id].state = "succeeded"
           \/ /\ runners[r].pc = "end" /\ runners[r].out \notin Failing
              /\ tasks[id].gen = runners[r].gen
      /\ \/ disk'[id] = disk[id]
         \/ disk'[id] = None
         \/ /\ tasks'[id] # None
            /\ disk'[id].gen = tasks'[id].gen /\ disk'[id].state = tasks'[id].state
  BY ZenonT(60), RunnerStates, Zenon
<1>5. ASSUME NEW j \in Ids, tasks'[j] # None, tasks'[j].state = "succeeded"
      PROVE  <<j, tasks'[j].gen>> \in won'
  <2>1. CASE j # id
    BY ZenonT(60), <1>1, <1>3, <1>5, <2>1 DEF SuccessInv, SucceededRan, Present
  <2>2. CASE j = id /\ tasks[id].state = "succeeded"
    BY ZenonT(60), <1>1, <1>3, <1>5, <2>2 DEF SuccessInv, SucceededRan, Present
  <2>3. CASE j = id /\ runners[r].pc = "end" /\ runners[r].out \notin Failing
             /\ tasks[id].gen = runners[r].gen
    BY ZenonT(60), <1>1, <1>3, <1>5, <2>3 DEF SuccessInv, Failing
  <2> QED
    BY ZenonT(60), <1>4, <1>5, <2>1, <2>2, <2>3
<1>6. ASSUME NEW j \in Ids, disk'[j] # None, disk'[j].state = "succeeded"
      PROVE  <<j, disk'[j].gen>> \in won'
  <2>1. CASE disk'[j] = disk[j]
    BY ZenonT(60), <1>3, <1>6, <2>1 DEF SuccessInv
  <2>2. CASE disk'[j] # disk[j]
    <3>1. j = id /\ tasks'[id] # None /\ disk'[id].gen = tasks'[id].gen
          /\ disk'[id].state = tasks'[id].state
      BY ZenonT(60), <1>1, <1>4, <1>6, <2>2
    <3> QED
      BY ZenonT(60), <1>5, <1>6, <3>1
  <2> QED
    BY <2>1, <2>2
<1>7. ASSUME NEW q \in Slots, runners'[q].pc = "end", runners'[q].out \notin Failing
      PROVE  <<runners'[q].id, runners'[q].gen>> \in won'
  <2>1. CASE q = r
    BY ZenonT(60), <1>2, <1>3, <1>7, <2>1 DEF Moved
  <2>2. CASE q # r
    BY ZenonT(60), <1>2, <1>3, <1>7, <2>2 DEF SuccessInv, Failing
  <2> QED
    BY ZenonT(60), <2>1, <2>2
<1> QED
  BY <1>5, <1>6, <1>7 DEF SuccessInv, SucceededRan, Present, Failing

LEMMA RunnerBars ==
  ASSUME Constants, Shape, BarInv, NEW r \in Slots, RunnerEffect(r)
  PROVE  BarInv'
<1> DEFINE id == runners[r].id
<1>1. /\ id \in Ids /\ made' = made
      /\ \A j \in Ids : j # id => tasks'[j] = tasks[j] /\ disk'[j] = disk[j]
      /\ tasks'[id] # None => tasks[id] # None /\ tasks'[id].gen = tasks[id].gen
      /\ journal' = "off" <=> journal = "off"
  BY ZenonT(60), RunnerWrites, Zenon
<1>2. PICK y \in RunnerRecord : runners' = [runners EXCEPT ![r] = y] /\ Moved(r, y)
  BY ZenonT(60) DEF RunnerEffect
<1>3. barred' = barred /\ runners \in [Slots -> RunnerRecord]
  BY DEF RunnerEffect, Shape
<1>4. /\ tasks'[id] # None =>
           /\ tasks'[id].state = "queued" => tasks[id].state = "queued"
           /\ tasks[id].state \in Terminal \cup {"canceling"} =>
                \/ tasks'[id].state \in Terminal \cup {"canceling"}
                \/ runners[r].pc \in {"run", "end"} /\ tasks[id].gen = runners[r].gen
      /\ \/ disk'[id] = disk[id]
         \/ disk'[id] = None
         \/ journal' # "off" /\ tasks'[id] # None /\ disk'[id].gen = tasks'[id].gen
  BY ZenonT(60), RunnerStates, Zenon
<1>5. \A j \in Ids : tasks'[j] # None =>
        /\ tasks[j] # None /\ tasks'[j].gen = tasks[j].gen
        /\ tasks'[j].state = "queued" => tasks[j].state = "queued"
  BY <1>1, <1>4
<1>6. \A q \in Slots : q # r => runners'[q] = runners[q]
  BY <1>2, <1>3
<1>7. runners'[r] = y
  BY ZenonT(60), <1>2, <1>3
<1>8. \A q \in Slots : runners'[q].pc # "idle" => runners'[q].id \in Ids
  <2>1. Shape'
    BY RunnerShape
  <2> QED
    BY <2>1 DEF Shape
<1>9. CanceledNeverRuns'
  <2>1. ASSUME NEW q \in Slots, runners'[q].pc \in {"run", "end"}
        PROVE  <<runners'[q].id, runners'[q].gen>> \notin barred
    <3>1. CASE q # r
      BY ZenonT(60), <1>6, <2>1, <3>1 DEF BarInv, CanceledNeverRuns
    <3>2. CASE q = r /\ runners[r].pc = "run"
      BY ZenonT(60), <1>2, <1>7, <2>1, <3>2 DEF BarInv, CanceledNeverRuns, Moved
    <3>3. CASE q = r /\ runners[r].pc # "run"
      <4>1. /\ y.gen = runners[r].gen /\ y.id = id /\ tasks[id] # None /\ tasks[id].gen = y.gen
            /\ tasks[id].state \notin Terminal \cup {"canceling"}
        BY ZenonT(60), <1>2, <1>7, <2>1, <3>3 DEF Moved
      <4>2. tasks[id].gen \in Nat
        BY <1>1, <4>1 DEF Shape, TaskRecord
      <4> QED
        BY ZenonT(60), <1>1, <1>7, <3>3, <4>1, <4>2 DEF BarInv
    <3> QED
      BY ZenonT(60), <3>1, <3>2, <3>3
  <2> QED
    BY <1>3, <2>1 DEF CanceledNeverRuns
<1>10. ASSUME NEW j \in Ids, NEW g \in Nat, <<j, g>> \in barred
       PROVE  /\ j \in made
              /\ tasks'[j] # None => g <= tasks'[j].gen
              /\ tasks'[j] # None /\ g = tasks'[j].gen =>
                   tasks'[j].state \in Terminal \cup {"canceling"}
              /\ MaxFaults = 0 /\ disk'[j] # None => g <= disk'[j].gen
  <2>1. /\ j \in made
        /\ tasks[j] # None => g <= tasks[j].gen
        /\ tasks[j] # None /\ g = tasks[j].gen => tasks[j].state \in Terminal \cup {"canceling"}
        /\ MaxFaults = 0 /\ disk[j] # None => g <= disk[j].gen
    BY ZenonT(60), <1>10 DEF BarInv
  <2>2. tasks'[j] # None /\ g = tasks'[j].gen => tasks'[j].state \in Terminal \cup {"canceling"}
    <3>1. CASE j # id
      BY ZenonT(60), <1>1, <2>1, <3>1
    <3>2. CASE j = id /\ runners[r].pc \in {"run", "end"} /\ tasks[id].gen = runners[r].gen
      BY ZenonT(60), <1>5, <1>10, <3>2 DEF BarInv, CanceledNeverRuns
    <3> QED
      BY ZenonT(60), <1>4, <1>5, <2>1, <3>1, <3>2
  <2>3. MaxFaults = 0 /\ disk'[j] # None => g <= disk'[j].gen
    BY ZenonT(60), <1>1, <1>4, <1>5, <2>1
  <2> QED
    BY ZenonT(60), <1>5, <2>1, <2>2, <2>3
<1>11. ASSUME NEW q \in Slots, runners'[q].pc \in {"start", "run", "end"},
              tasks'[runners'[q].id] # None
       PROVE  /\ runners'[q].gen <= tasks'[runners'[q].id].gen
              /\ runners'[q].pc # "start" /\ runners'[q].gen = tasks'[runners'[q].id].gen =>
                   tasks'[runners'[q].id].state # "queued"
  <2>0. runners'[q].id \in Ids
    BY ZenonT(60), <1>8, <1>11
  <2>1. CASE q # r
    <3>1. runners'[q] = runners[q] /\ tasks[runners[q].id] # None
          /\ tasks'[runners[q].id].gen = tasks[runners[q].id].gen
          /\ (tasks'[runners[q].id].state = "queued" => tasks[runners[q].id].state = "queued")
      BY ZenonT(60), <1>5, <1>6, <1>11, <2>0, <2>1
    <3>2. /\ runners[q].gen <= tasks[runners[q].id].gen
          /\ runners[q].pc # "start" /\ runners[q].gen = tasks[runners[q].id].gen =>
               tasks[runners[q].id].state # "queued"
      BY ZenonT(60), <1>11, <3>1 DEF BarInv
    <3> QED
      BY ZenonT(60), <3>1, <3>2
  <2>2. CASE q = r /\ y.pc = "start"
    <3>1. y.id = id /\ y.gen = tasks[id].gen /\ tasks'[id].gen = tasks[id].gen
          /\ tasks[id].gen \in Nat
      <4>1. y.id = id /\ y.gen = tasks[id].gen /\ tasks[id] # None
        BY ZenonT(60), <1>2, <2>2 DEF Moved
      <4>2. tasks[id] \in TaskRecord
        BY ZenonT(60), <1>1, <4>1 DEF Shape
      <4>3. tasks'[id].gen = tasks[id].gen
        BY ZenonT(60), <1>1, <1>7, <1>11, <2>2, <4>1
      <4> QED
        BY ZenonT(60), <4>1, <4>2, <4>3, Generation
    <3>2. tasks[id].gen <= tasks[id].gen
      BY ZenonT(60), <3>1, Later
    <3> QED
      BY ZenonT(60), <1>7, <2>2, <3>1, <3>2
  <2>3. CASE q = r /\ y.pc \in {"run", "end"}
    <3>1. y.id = id /\ y.gen = runners[r].gen /\ runners[r].pc \in {"start", "run"}
          /\ (runners[r].pc = "start" => tasks'[id].state = "running")
      BY ZenonT(60), <1>2, <2>3 DEF Moved
    <3>2. /\ tasks[id] # None /\ runners[r].gen <= tasks[id].gen
          /\ runners[r].pc # "start" /\ runners[r].gen = tasks[id].gen => tasks[id].state # "queued"
      BY ZenonT(60), <1>1, <1>7, <1>11, <2>3, <3>1 DEF BarInv
    <3> QED
      BY ZenonT(60), <1>1, <1>5, <1>7, <1>11, <2>3, <3>1, <3>2
  <2> QED
    BY ZenonT(60), <1>7, <1>11, <2>1, <2>2, <2>3
<1>12. \A j \in Ids : tasks'[j] # None /\ disk'[j] # None =>
         /\ journal' # "off"
         /\ MaxFaults = 0 => tasks'[j].gen <= disk'[j].gen
  <2>1. TAKE j \in Ids
  <2>2. HAVE tasks'[j] # None /\ disk'[j] # None
  <2>3. tasks[j] # None /\ tasks'[j].gen = tasks[j].gen
    BY ZenonT(60), <1>5, <2>2
  <2>4. CASE disk'[j] = disk[j]
    <3>1. journal # "off" /\ (MaxFaults = 0 => tasks[j].gen <= disk[j].gen)
      BY ZenonT(60), <2>2, <2>3, <2>4 DEF BarInv
    <3> QED
      BY ZenonT(60), <1>1, <2>3, <2>4, <3>1
  <2>5. CASE disk'[j] # disk[j]
    <3>1. j = id /\ journal' # "off" /\ disk'[id].gen = tasks'[id].gen
      BY ZenonT(60), <1>1, <1>4, <2>2, <2>5
    <3>2. tasks[j] \in TaskRecord
      BY ZenonT(60), <2>3 DEF Shape
    <3>3. tasks[j].gen <= tasks[j].gen
      BY ZenonT(60), <3>2, Generation, Later
    <3> QED
      BY ZenonT(60), <2>3, <3>1, <3>3
  <2> QED
    BY <2>4, <2>5
<1> QED
  BY ZenonT(60), <1>1, <1>3, <1>9, <1>10, <1>11, <1>12 DEF BarInv

-----------------------------------------------------------------------------
(* The invariants under a step of a caller.                                *)

CallerKind(c, y) ==
    \/ Quiet(c, y) \/ PutNew(c, y) \/ Persisted(c, y) \/ MarkedBy(c, y)
    \/ Requeued(c, y) \/ Dropped(c, y) \/ Unlinked(c, y)

\* The step touches the task it is about, and makes none of the others appear;
\* a goroutine it starts has read nothing yet.
LEMMA CallerTouches ==
  ASSUME Constants, Shape, NEW c \in Callers, NEW y \in CallerRecord, CallerKind(c, y)
  PROVE  /\ \A j \in made : j # callers[c].id => tasks'[j] = tasks[j] /\ disk'[j] = disk[j]
         /\ \A j \in made : tasks[j] = None => tasks'[j] = None
         /\ \A q \in Slots : \/ runners'[q] = runners[q]
                             \/ /\ callers[c].pc \in {"retry", "persist"}
                                /\ runners'[q].pc = "fetch" /\ runners'[q].id = callers[c].id
<1> DEFINE id == callers[c].id
<1>0. /\ tasks \in [Ids -> TaskRecord \cup {None}] /\ made \subseteq Ids
      /\ callers[c].pc # "idle" => id \in Ids
      /\ callers[c].pc = "persist" => Recorded(callers[c].item) \in TaskRecord
  <2>1. \A k \in Keys : Recorded(NewTask(k)) \in TaskRecord
    BY ZenonT(60), FirstTask, RecordedTask DEF SameTask
  <2> QED
    BY <2>1 DEF Shape
<1>1. \A q \in Slots : \/ runners'[q] = runners[q]
                       \/ /\ callers[c].pc \in {"retry", "persist"}
                          /\ runners'[q].pc = "fetch" /\ runners'[q].id = callers[c].id
  <2>1. CASE runners' = runners
    BY <2>1
  <2>2. CASE callers[c].pc \in {"retry", "persist"} /\ Spawned(id)
    BY ZenonT(60), <2>2 DEF Spawned, Shape
  <2> QED
    BY ZenonT(60), <2>1, <2>2 DEF CallerKind, Quiet, PutNew, Persisted, MarkedBy, Requeued, Dropped, Unlinked
<1>2. CASE Quiet(c, y)
  BY ZenonT(60), <1>1, <1>2, NoAppendFacts DEF Quiet
<1>3. CASE PutNew(c, y)
  BY ZenonT(60), <1>0, <1>1, <1>3, NoAppendFacts DEF PutNew
<1>4. CASE Persisted(c, y)
  BY ZenonT(60), <1>0, <1>1, <1>4, AppendFacts DEF Persisted
<1>5. CASE id \in Ids /\ tasks[id] # None /\ \E u \in TaskRecord : UpdateManaged(id, u)
  <2>1. PICK u \in TaskRecord : UpdateManaged(id, u)
    BY ZenonT(60), <1>5
  <2>2. (\A j \in Ids : j # id => tasks'[j] = tasks[j]) /\ (\A j \in Ids : j # id => disk'[j] = disk[j])
    BY ZenonT(60), <1>5, <2>1, UpdateFacts
  <2> QED
    BY ZenonT(60), <1>0, <1>1, <1>5, <2>2
<1>6. CASE MarkedBy(c, y)
  BY ZenonT(60), <1>0, <1>5, <1>6 DEF MarkedBy, SameTask
<1>7. CASE Requeued(c, y)
  BY ZenonT(60), <1>0, <1>5, <1>7 DEF Requeued
<1>8. CASE Dropped(c, y)
  BY ZenonT(60), <1>0, <1>1, <1>8, NoAppendFacts DEF Dropped
<1>9. CASE Unlinked(c, y)
  BY ZenonT(60), <1>0, <1>1, <1>9, AppendFacts DEF Unlinked
<1> QED
  BY ZenonT(60), <1>2, <1>3, <1>4, <1>6, <1>7, <1>8, <1>9 DEF CallerKind

\* A put that is under way, after a step of another caller.
LEMMA PutSurvives ==
  ASSUME Constants, Shape, WindowInv, NEW c \in Callers, NEW y \in CallerRecord, CallerKind(c, y),
         NEW d \in Callers, d # c, callers[d].pc = "persist"
  PROVE  LET p == callers[d].id IN
         /\ tasks'[p] # None
         /\ tasks'[p].state \in Active /\ tasks'[p].gen = 1 /\ ~tasks'[p].retryable
         /\ tasks'[p].key = callers[d].item.key
         /\ \A q \in Slots : runners'[q].pc # "idle" => runners'[q].id # p
         /\ y.id = p => y.pc \in {"idle", "cancel", "mark", "fire"}
<1> DEFINE p == callers[d].id
           id == callers[c].id
<1>0. p \in made /\ p \in Ids
  BY ZenonT(60) DEF Shape
<1>1. /\ tasks[p] # None
      /\ tasks[p].state \in Active /\ tasks[p].gen = 1 /\ ~tasks[p].retryable
      /\ tasks[p].key = callers[d].item.key
      /\ \A r \in Slots : runners[r].pc # "idle" => runners[r].id # p
      /\ id = p => callers[c].pc \in {"idle", "cancel", "mark", "fire"}
  BY ZenonT(60) DEF WindowInv
<1> HIDE DEF p
<1>2. \A q \in Slots : runners'[q].pc # "idle" => runners'[q].id # p
  <2>1. \A q \in Slots : \/ runners'[q] = runners[q]
                         \/ callers[c].pc \in {"retry", "persist"} /\ runners'[q].id = id
    BY ZenonT(60), CallerTouches
  <2> QED
    BY ZenonT(60), <1>1, <2>1
<1>3. CASE id # p
  <2>1. tasks'[p] = tasks[p]
    BY ZenonT(60), <1>0, <1>3, CallerTouches
  <2>2. y.id = p => y.pc \in {"idle", "cancel", "mark", "fire"}
    <3>1. CASE Quiet(c, y)
      <4>1. tasks[p].state \notin Terminal
        BY <1>1 DEF Active, Terminal
      <4>2. y.pc \in {"idle", "persist", "cancel", "retry", "mark", "fire", "drop", "unlink"}
        BY ZenonT(60) DEF CallerRecord
      <4> QED
        BY ZenonT(60), <1>1, <3>1, <4>1, <4>2 DEF Quiet
    <3>2. CASE ~Quiet(c, y)
      BY ZenonT(60), <1>3, <3>2 DEF CallerKind, PutNew, Persisted, MarkedBy, Requeued, Dropped, Unlinked
    <3> QED
      BY ZenonT(60), <3>1, <3>2
  <2> QED
    BY ZenonT(60), <1>1, <1>2, <2>1, <2>2 DEF p
<1>4. CASE id = p /\ MarkedBy(c, y)
  <2>1. PICK u : /\ SameTask(u, tasks[p]) /\ u.retryable = tasks[p].retryable
                 /\ u.state = IF tasks[p].state \in Terminal THEN tasks[p].state ELSE "canceling"
                 /\ UpdateManaged(p, u)
    BY ZenonT(60), <1>4 DEF MarkedBy
  <2>2. tasks'[p] = u /\ u # None
    BY ZenonT(60), <1>0, <2>1, UpdateFacts DEF SameTask, Constants
  <2>3. u.state \in Active
    BY ZenonT(60), <1>1, <2>1 DEF Active, Terminal
  <2>4. y.pc = "fire"
    BY ZenonT(60), <1>4 DEF MarkedBy
  <2> QED
    BY ZenonT(60), <1>1, <1>2, <2>1, <2>2, <2>3, <2>4 DEF SameTask, p
<1>5. CASE id = p /\ Quiet(c, y)
  <2>1. tasks'[p] = tasks[p]
    BY ZenonT(60), <1>5 DEF Quiet
  <2>2. y.id = p => y.pc \in {"idle", "cancel", "mark", "fire"}
    <3>1. tasks[p].state \notin Terminal
      BY ZenonT(60), <1>1 DEF Active, Terminal
    <3>2. y.pc \in {"idle", "persist", "cancel", "retry", "mark", "fire", "drop", "unlink"}
      BY ZenonT(60) DEF CallerRecord
    <3> QED
      BY ZenonT(60), <1>1, <1>5, <3>1, <3>2 DEF Quiet
  <2> QED
    BY ZenonT(60), <1>1, <1>2, <2>1, <2>2 DEF p
<1> QED
  BY ZenonT(60), <1>1, <1>3, <1>4, <1>5 DEF CallerKind, PutNew, Persisted, Requeued, Dropped, Unlinked, p

LEMMA CallerWindow ==
  ASSUME Constants, Shape, WindowInv, NEW c \in Callers, CallerEffect(c)
  PROVE  WindowInv'
<1>1. PICK y \in CallerRecord : callers' = [callers EXCEPT ![c] = y] /\ CallerKind(c, y)
  BY ZenonT(60) DEF CallerEffect, CallerKind
<1>2. /\ \A d \in Callers : callers'[d] = IF d = c THEN y ELSE callers[d]
      /\ \A d \in Callers : callers[d].pc # "idle" => callers[d].id \in made
      /\ \A q \in Slots : runners[q].pc # "idle" => runners[q].id \in made
  BY ZenonT(60), <1>1 DEF Shape
<1>3. ASSUME NEW d \in Callers, callers'[d].pc = "persist"
      PROVE  LET p == callers'[d].id IN
             /\ tasks'[p] # None
             /\ tasks'[p].state \in Active /\ tasks'[p].gen = 1 /\ ~tasks'[p].retryable
             /\ tasks'[p].key = callers'[d].item.key
             /\ \A q \in Slots : runners'[q].pc # "idle" => runners'[q].id # p
             /\ \A e \in Callers : e # d /\ callers'[e].id = p =>
                  callers'[e].pc \in {"idle", "cancel", "mark", "fire"}
  <2>1. CASE d # c
    <3> DEFINE p == callers[d].id
    <3>1. callers'[d] = callers[d] /\ callers[d].pc = "persist"
      BY ZenonT(60), <1>2, <1>3, <2>1
    <3>2. /\ tasks'[p] # None
          /\ tasks'[p].state \in Active /\ tasks'[p].gen = 1 /\ ~tasks'[p].retryable
          /\ tasks'[p].key = callers[d].item.key
          /\ \A q \in Slots : runners'[q].pc # "idle" => runners'[q].id # p
          /\ y.id = p => y.pc \in {"idle", "cancel", "mark", "fire"}
      BY ZenonT(60), <1>1, <2>1, <3>1, PutSurvives
    <3>3. \A e \in Callers : e # d /\ callers[e].id = p =>
            callers[e].pc \in {"idle", "cancel", "mark", "fire"}
      BY ZenonT(60), <3>1 DEF WindowInv
    <3>4. \A e \in Callers : e # d /\ callers'[e].id = p =>
            callers'[e].pc \in {"idle", "cancel", "mark", "fire"}
      BY ZenonT(60), <1>2, <3>2, <3>3
    <3> QED
      BY ZenonT(60), <3>1, <3>2, <3>4
  <2>2. CASE d = c
    <3>1. callers'[c] = y /\ y.pc = "persist"
      BY ZenonT(60), <1>2, <1>3, <2>2
    <3>2. PutNew(c, y)
      BY ZenonT(60), <1>1, <3>1 DEF CallerKind, Quiet, Persisted, MarkedBy, Requeued, Dropped, Unlinked
    <3>3. PICK key \in Keys, i \in Ids \ made :
            tasks' = [tasks EXCEPT ![i] = NewTask(key)] /\ y.id = i /\ y.item = NewTask(key)
      BY ZenonT(60), <3>2 DEF PutNew
    <3>4. /\ tasks'[i] = NewTask(key) /\ tasks'[i] # None
          /\ tasks'[i].state \in Active /\ tasks'[i].gen = 1 /\ ~tasks'[i].retryable
          /\ tasks'[i].key = y.item.key
      BY ZenonT(60), <3>3, FirstTask DEF Shape, Constants, Active
    <3>5. \A q \in Slots : runners'[q].pc # "idle" => runners'[q].id # i
      BY ZenonT(60), <1>2, <3>2, <3>3 DEF PutNew
    <3>6. \A e \in Callers : e # c /\ callers'[e].id = i => callers'[e].pc = "idle"
      BY ZenonT(60), <1>2, <3>3
    <3> QED
      BY ZenonT(60), <2>2, <3>1, <3>3, <3>4, <3>5, <3>6
  <2> QED
    BY ZenonT(60), <2>1, <2>2
<1>4. \A j \in made : tasks[j] = None => tasks'[j] = None
  BY ZenonT(60), <1>1, CallerTouches
<1>5. \A d \in Callers : callers'[d].pc = "unlink" => tasks'[callers'[d].id] = None
  <2>1. y.pc = "unlink" => tasks'[y.id] = None
    <3>1. Dropped(c, y) => callers[c].id \in Ids
      BY ZenonT(60) DEF Dropped, Shape
    <3> QED
      BY ZenonT(60), <1>1, <3>1
         DEF CallerKind, Quiet, PutNew, Persisted, MarkedBy, Requeued, Dropped, Unlinked, Shape
  <2>2. \A d \in Callers : callers[d].pc = "unlink" => tasks'[callers[d].id] = None
    BY ZenonT(60), <1>2, <1>4 DEF WindowInv
  <2> QED
    BY ZenonT(60), <1>2, <2>1, <2>2
<1>6. \A q \in Slots : runners'[q].pc = "unlink" => tasks'[runners'[q].id] = None
  <2>1. \A q \in Slots : runners'[q] = runners[q] \/ runners'[q].pc = "fetch"
    BY ZenonT(60), <1>1, CallerTouches
  <2> QED
    BY ZenonT(60), <1>2, <1>4, <2>1 DEF WindowInv
<1> QED
  BY ZenonT(60), <1>3, <1>5, <1>6 DEF WindowInv

LEMMA CallerReplay ==
  ASSUME Constants, Shape, WindowInv, DiskAgrees, NEW c \in Callers, CallerEffect(c)
  PROVE  DiskAgrees'
<1> DEFINE id == callers[c].id
<1>1. PICK y \in CallerRecord : callers' = [callers EXCEPT ![c] = y] /\ CallerKind(c, y)
  BY ZenonT(60) DEF CallerEffect, CallerKind
<1>2. /\ \A d \in Callers : callers'[d] = IF d = c THEN y ELSE callers[d]
      /\ callers[c].pc # "idle" => id \in made /\ id \in Ids
      /\ \A j \in Ids : tasks[j] # None \/ disk[j] # None => j \in made
  BY ZenonT(60), <1>1 DEF Shape
<1>3. SUFFICES ASSUME journal' = "on", NEW j \in Ids, ~InWindow(j)'
               PROVE  Seen(disk'[j]) = Seen(tasks'[j])
  BY ZenonT(60), Zenon DEF DiskAgrees, Seen, normalizeReplayedTask
<1>4. /\ \A d \in Callers : ~(callers'[d].pc \in {"persist", "unlink"} /\ callers'[d].id = j)
      /\ \A q \in Slots : ~(runners'[q].pc = "unlink" /\ runners'[q].id = j)
  BY ZenonT(60), <1>3 DEF InWindow
<1>5. InWindow(j) => j = id /\ callers[c].pc \in {"persist", "unlink"}
  <2>1. \A q \in Slots : runners[q].pc = "unlink" =>
          runners'[q] = runners[q]
    <3>1. CASE runners' = runners
      BY ZenonT(60), <3>1
    <3>2. CASE Spawned(id)
      BY <3>2 DEF Spawned, Shape
    <3> QED
      BY ZenonT(60), <1>1, <3>1, <3>2
         DEF CallerKind, Quiet, PutNew, Persisted, MarkedBy, Requeued, Dropped, Unlinked
  <2> QED
    BY ZenonT(60), <1>2, <1>4, <2>1 DEF InWindow
<1>6. ASSUME journal = "on", ~InWindow(j), disk'[j] = disk[j], tasks'[j] = tasks[j]
      PROVE  Seen(disk'[j]) = Seen(tasks'[j])
  BY ZenonT(60), <1>6, Zenon DEF DiskAgrees
<1>7. CASE Quiet(c, y)
  BY ZenonT(60), <1>3, <1>5, <1>6, <1>7, NoAppendFacts DEF Quiet
<1>8. CASE PutNew(c, y)
  <2>1. PICK i \in Ids \ made : (\E key \in Keys : tasks' = [tasks EXCEPT ![i] = NewTask(key)])
                                /\ y.id = i /\ y.pc = "persist"
    BY ZenonT(60), <1>8 DEF PutNew
  <2>2. j # i
    BY ZenonT(60), <1>2, <1>4, <2>1
  <2>3. tasks'[j] = tasks[j] /\ disk'[j] = disk[j] /\ journal = "on"
    BY ZenonT(60), <1>3, <1>8, <2>1, <2>2, NoAppendFacts DEF Shape, PutNew
  <2> QED
    BY ZenonT(60), <1>5, <1>6, <1>8, <2>3 DEF PutNew
<1>9. CASE Persisted(c, y)
  <2> DEFINE t == callers[c].item
  <2>1. PICK key \in Keys : t = NewTask(key)
    BY ZenonT(60), <1>9 DEF Persisted, Shape
  <2>2. t \in TaskRecord /\ t.state = "queued" /\ t.gen = 1 /\ Recorded(t) \in TaskRecord
    BY SMTT(60), <2>1, FirstTask, RecordedTask DEF SameTask
  <2>3. /\ tasks[id] # None /\ tasks[id].state \in Active /\ tasks[id].gen = 1
        /\ tasks[id].key = t.key
    BY ZenonT(60), <1>9 DEF WindowInv, Persisted
  <2>4. /\ \A i \in Ids : i # id => disk'[i] = disk[i]
        /\ journal = "on" /\ disk'[id] = Recorded(t) /\ tasks' = tasks
    BY ZenonT(60), <1>2, <1>3, <1>9, <2>2, AppendFacts DEF Persisted
  <2>5. CASE j # id
    BY ZenonT(60), <1>5, <1>6, <2>4, <2>5
  <2>6. CASE j = id
    <3>1. tasks[id] \in TaskRecord
      BY ZenonT(60), <2>3, <2>6 DEF Shape
    <3>2. t.state \in Active
      BY ZenonT(60), <2>2 DEF Active
    <3> HIDE DEF t
    <3>3. Seen(Recorded(t)) = Seen(t) /\ Seen(t) = Seen(tasks[id])
      BY ZenonT(60), <2>2, <2>3, <3>1, <3>2, SeenAlike
    <3> QED
      BY ZenonT(60), <2>4, <2>6, <3>3, Zenon
  <2> QED
    BY ZenonT(60), <2>5, <2>6
<1>10. CASE id \in Ids /\ tasks[id] # None /\ callers[c].pc \notin {"persist", "unlink"}
            /\ \E u \in TaskRecord : UpdateManaged(id, u)
  <2>1. PICK u \in TaskRecord : UpdateManaged(id, u)
    BY ZenonT(60), <1>10
  <2>2. /\ journal = "on" /\ tasks'[id] = u
        /\ \/ disk'[id] = Recorded(u)
           \/ disk' = disk /\ taskDurableKey(u) = taskDurableKey(tasks[id])
        /\ \A i \in Ids : i # id => tasks'[i] = tasks[i]
        /\ \A i \in Ids : i # id => disk'[i] = disk[i]
    BY ZenonT(60), <1>3, <1>10, <2>1, UpdateFacts
  <2>3. Seen(disk[j]) = Seen(tasks[j])
    BY ZenonT(60), <1>5, <1>10, <2>2 DEF DiskAgrees
  <2>4. CASE j # id
    BY ZenonT(60), <2>2, <2>3, <2>4, Zenon
  <2>5. CASE j = id
    <3>1. tasks[id] \in TaskRecord
      BY <1>10 DEF Shape
    <3>2. Seen(Recorded(u)) = Seen(u)
          /\ (taskDurableKey(u) = taskDurableKey(tasks[id]) => Seen(u) = Seen(tasks[id]))
      BY ZenonT(60), <3>1, SeenAlike, Zenon
    <3> QED
      BY ZenonT(60), <2>2, <2>3, <2>5, <3>2, Zenon
  <2> QED
    BY ZenonT(60), <2>4, <2>5
<1>11. CASE MarkedBy(c, y)
  BY ZenonT(60), <1>2, <1>10, <1>11 DEF MarkedBy, SameTask
<1>12. CASE Requeued(c, y)
  BY ZenonT(60), <1>2, <1>10, <1>12 DEF Requeued
<1>13. CASE Dropped(c, y)
  <2>1. j # id
    BY ZenonT(60), <1>2, <1>4, <1>13 DEF Dropped
  <2>2. tasks'[j] = tasks[j] /\ disk'[j] = disk[j] /\ journal = "on"
    BY ZenonT(60), <1>3, <1>13, <2>1, NoAppendFacts DEF Shape, Dropped
  <2> QED
    BY ZenonT(60), <1>5, <1>6, <1>13, <2>1, <2>2
<1>14. CASE Unlinked(c, y)
  <2>1. /\ journal = "on" /\ disk'[id] = None /\ tasks' = tasks /\ tasks[id] = None
        /\ \A i \in Ids : i # id => disk'[i] = disk[i]
    BY ZenonT(60), <1>2, <1>3, <1>14, AppendFacts DEF Unlinked, WindowInv
  <2>2. CASE j = id
    BY ZenonT(60), <2>1, <2>2, Zenon
  <2>3. CASE j # id
    BY ZenonT(60), <1>5, <1>6, <2>1, <2>3
  <2> QED
    BY ZenonT(60), <2>2, <2>3
<1> QED
  BY ZenonT(60), <1>1, <1>7, <1>8, <1>9, <1>11, <1>12, <1>13, <1>14 DEF CallerKind

\* Which states a caller's step may give a task, what it may leave in the journal,
\* and which generation it may bar.
Became(j) ==
    \/ /\ tasks[j] # None /\ tasks'[j].gen = tasks[j].gen
       /\ tasks'[j].state \in {tasks[j].state, "canceling"}
    \/ /\ tasks[j] # None /\ tasks'[j].gen = tasks[j].gen + 1 /\ tasks'[j].state = "queued"
       /\ MaxFaults = 0 /\ journal # "off" => disk'[j] # None /\ disk'[j].gen = tasks'[j].gen
    \/ j \notin made /\ tasks'[j].state = "queued"
JournaledAs(j) ==
    \/ disk'[j] = disk[j]
    \/ disk'[j] = None
    \/ /\ journal' # "off" /\ tasks'[j] # None /\ disk'[j].gen = tasks'[j].gen
       /\ disk'[j].state \in {tasks'[j].state, "queued"}
BarredNow(j, g) ==
    \/ <<j, g>> \in barred
    \/ /\ j \in made /\ tasks[j] # None /\ tasks'[j] # None /\ tasks[j].state = "queued"
       /\ g = tasks[j].gen /\ tasks'[j].gen = g /\ tasks'[j].state = "canceling"

LEMMA CallerStates ==
  ASSUME Constants, Shape, WindowInv, NEW c \in Callers, NEW y \in CallerRecord, CallerKind(c, y)
  PROVE  /\ \A j \in Ids : tasks'[j] # None => Became(j)
         /\ \A j \in Ids : JournaledAs(j)
         /\ \A j \in Ids, g \in Nat : <<j, g>> \in barred' => BarredNow(j, g)
         /\ journal' = "off" <=> journal = "off"
<1> DEFINE id == callers[c].id
<1>0. /\ tasks \in [Ids -> TaskRecord \cup {None}] /\ made \subseteq Ids
      /\ callers[c].pc # "idle" => id \in made /\ id \in Ids
  BY ZenonT(60) DEF Shape
<1>1. ASSUME NEW j \in Ids, tasks'[j] = tasks[j], tasks'[j] # None PROVE Became(j)
  BY ZenonT(60), <1>1 DEF Became
<1>2. CASE Quiet(c, y)
  BY ZenonT(60), <1>1, <1>2, NoAppendFacts DEF Quiet, JournaledAs, BarredNow
<1>3. CASE PutNew(c, y)
  <2>1. PICK key \in Keys, i \in Ids \ made : tasks' = [tasks EXCEPT ![i] = NewTask(key)]
    BY ZenonT(60), <1>3 DEF PutNew
  <2>2. disk' = disk /\ journal' = journal /\ barred' = barred
    BY ZenonT(60), <1>3, NoAppendFacts DEF PutNew
  <2>3. Became(i)
    BY ZenonT(60), <1>0, <2>1, FirstTask DEF Became
  <2>4. \A j \in Ids : j # i => tasks'[j] = tasks[j]
    BY ZenonT(60), <1>0, <2>1
  <2> QED
    BY ZenonT(60), <1>1, <2>2, <2>3, <2>4 DEF JournaledAs, BarredNow
<1>4. CASE Persisted(c, y)
  <2> DEFINE t == callers[c].item
  <2>1. PICK key \in Keys : t = NewTask(key)
    BY ZenonT(60), <1>4 DEF Persisted, Shape
  <2>2. Recorded(t) \in TaskRecord /\ Recorded(t).state = "queued" /\ Recorded(t).gen = 1
    BY SMTT(60), <2>1, FirstTask, RecordedTask DEF SameTask
  <2>3. tasks[id] # None /\ tasks[id].gen = 1
    BY ZenonT(60), <1>4 DEF WindowInv, Persisted
  <2>4. /\ \A i \in Ids : i # id => disk'[i] = disk[i]
        /\ disk'[id] \in {disk[id], Recorded(t)} /\ tasks' = tasks /\ barred' = barred
        /\ journal' = "off" <=> journal = "off"
        /\ journal = "off" => disk' = disk
    BY ZenonT(60), <1>0, <1>4, <2>2, AppendFacts DEF Persisted
  <2> HIDE DEF t
  <2>5. JournaledAs(id)
    BY ZenonT(60), <2>2, <2>3, <2>4 DEF JournaledAs
  <2>6. \A j \in Ids : j # id => JournaledAs(j)
    BY ZenonT(60), <2>4 DEF JournaledAs
  <2> QED
    BY ZenonT(60), <1>1, <2>4, <2>5, <2>6 DEF BarredNow
<1>5. ASSUME id \in Ids, tasks[id] # None, NEW u \in TaskRecord, UpdateManaged(id, u)
      PROVE  /\ tasks'[id] = u /\ (\A j \in Ids : j # id => tasks'[j] = tasks[j])
             /\ \A j \in Ids : JournaledAs(j)
             /\ journal' = "off" <=> journal = "off"
             /\ u.gen # tasks[id].gen /\ MaxFaults = 0 /\ journal # "off" =>
                  disk'[id] # None /\ disk'[id].gen = u.gen
  <2>1. /\ tasks'[id] = u /\ (\A j \in Ids : j # id => tasks'[j] = tasks[j])
        /\ (\A j \in Ids : j # id => disk'[j] = disk[j])
        /\ disk'[id] \in {disk[id], Recorded(u)}
        /\ journal' = "off" <=> journal = "off"
        /\ journal = "off" => disk' = disk
        /\ MaxFaults = 0 /\ journal # "off" =>
             \/ disk'[id] = Recorded(u)
             \/ disk' = disk /\ taskDurableKey(u) = taskDurableKey(tasks[id])
    BY ZenonT(60), <1>5, UpdateFacts
  <2>2. Recorded(u).gen = u.gen /\ Recorded(u).state = u.state /\ u # None /\ Recorded(u) # None
    BY ZenonT(60), RecordedTask DEF SameTask, Constants
  <2>3. tasks[id] \in TaskRecord
    BY ZenonT(60), <1>0, <1>5
  <2>4. u.gen # tasks[id].gen => taskDurableKey(u) # taskDurableKey(tasks[id])
    <3>1. \A v \in TaskRecord : taskDurableKey(v).gen = v.gen
      BY ZenonT(60), Zenon DEF taskDurableKey, Recorded, TaskRecord
    <3> QED
      BY ZenonT(60), <2>3, <3>1
  <2>5. \A j \in Ids : JournaledAs(j)
    BY ZenonT(60), <2>1, <2>2 DEF JournaledAs
  <2> QED
    BY ZenonT(60), <2>1, <2>2, <2>4, <2>5
<1>6. CASE MarkedBy(c, y)
  <2>1. PICK u : /\ SameTask(u, tasks[id])
                 /\ u.state = IF tasks[id].state \in Terminal THEN tasks[id].state ELSE "canceling"
                 /\ UpdateManaged(id, u)
    BY ZenonT(60), <1>6 DEF MarkedBy
  <2>2. u \in TaskRecord /\ u.gen = tasks[id].gen /\ tasks[id] # None /\ id \in Ids /\ id \in made
    BY ZenonT(60), <1>0, <1>6, <2>1 DEF SameTask, MarkedBy
  <2>3. /\ tasks'[id] = u /\ (\A j \in Ids : j # id => tasks'[j] = tasks[j])
        /\ (\A j \in Ids : JournaledAs(j)) /\ (journal' = "off" <=> journal = "off")
    BY ZenonT(60), <1>5, <2>1, <2>2
  <2>4. Became(id)
    BY ZenonT(60), <2>1, <2>2, <2>3 DEF Became
  <2>5. barred' = IF tasks[id].state = "queued" THEN barred \cup {<<id, tasks[id].gen>>} ELSE barred
    BY ZenonT(60), <1>6 DEF MarkedBy
  <2>6. tasks[id].state = "queued" => BarredNow(id, tasks[id].gen)
    <3>1. u # None
      BY ZenonT(60), <2>2 DEF Constants
    <3> QED
      BY ZenonT(60), <2>1, <2>2, <2>3, <3>1 DEF BarredNow, Terminal
  <2>7. \A j \in Ids, g \in Nat : <<j, g>> \in barred' => BarredNow(j, g)
    BY ZenonT(60), <2>5, <2>6 DEF BarredNow
  <2> QED
    BY ZenonT(60), <1>1, <2>3, <2>4, <2>7
<1>7. CASE Requeued(c, y)
  <2>1. PICK u \in TaskRecord : /\ u.gen = tasks[id].gen + 1 /\ u.state = "queued"
                                /\ UpdateManaged(id, u)
    BY ZenonT(60), <1>7 DEF Requeued
  <2>2. tasks[id] # None /\ id \in Ids /\ barred' = barred
    BY ZenonT(60), <1>0, <1>7 DEF Requeued
  <2>3. tasks[id].gen \in Nat
    <3>1. tasks[id] \in TaskRecord
      BY ZenonT(60), <1>0, <2>2
    <3> QED
      BY ZenonT(60), <3>1, Generation
  <2>4. /\ tasks'[id] = u /\ (\A j \in Ids : j # id => tasks'[j] = tasks[j])
        /\ (\A j \in Ids : JournaledAs(j)) /\ (journal' = "off" <=> journal = "off")
        /\ u.gen # tasks[id].gen /\ MaxFaults = 0 /\ journal # "off" =>
             disk'[id] # None /\ disk'[id].gen = u.gen
    BY ZenonT(60), <1>5, <2>1, <2>2
  <2>5. Became(id)
    <3>1. tasks[id].gen # tasks[id].gen + 1
      BY ZenonT(60), <2>3, Later
    <3> QED
      BY ZenonT(60), <2>1, <2>2, <2>4, <3>1 DEF Became
  <2> QED
    BY ZenonT(60), <1>1, <2>2, <2>4, <2>5 DEF BarredNow
<1>8. CASE Dropped(c, y)
  <2>1. disk' = disk /\ journal' = journal /\ barred' = barred
        /\ \A j \in Ids : tasks'[j] # None => tasks'[j] = tasks[j]
    BY ZenonT(60), <1>0, <1>8, NoAppendFacts DEF Dropped
  <2> QED
    BY ZenonT(60), <1>1, <2>1 DEF JournaledAs, BarredNow
<1>9. CASE Unlinked(c, y)
  <2>1. /\ tasks' = tasks /\ barred' = barred /\ (journal' = "off" <=> journal = "off")
        /\ (\A j \in Ids : j # id => disk'[j] = disk[j]) /\ disk'[id] \in {disk[id], None}
    BY ZenonT(60), <1>0, <1>9, AppendFacts DEF Unlinked
  <2>2. \A j \in Ids : JournaledAs(j)
    BY ZenonT(60), <2>1 DEF JournaledAs
  <2> QED
    BY ZenonT(60), <1>1, <2>1, <2>2 DEF BarredNow
<1> QED
  BY ZenonT(60), <1>2, <1>3, <1>4, <1>6, <1>7, <1>8, <1>9 DEF CallerKind

LEMMA CallerSuccess ==
  ASSUME Constants, Shape, WindowInv, SuccessInv, NEW c \in Callers, CallerEffect(c)
  PROVE  SuccessInv'
<1>1. PICK y \in CallerRecord : CallerKind(c, y)
  BY DEF CallerEffect, CallerKind
<1>2. won' = won
  BY DEF CallerEffect
<1>3. \A j \in Ids : (tasks'[j] # None => Became(j)) /\ JournaledAs(j)
  BY ZenonT(60), <1>1, CallerStates
<1>4. ASSUME NEW j \in Ids, tasks'[j] # None, tasks'[j].state = "succeeded"
      PROVE  <<j, tasks'[j].gen>> \in won
  BY ZenonT(60), <1>3, <1>4 DEF Became, SuccessInv, SucceededRan, Present
<1>5. ASSUME NEW j \in Ids, disk'[j] # None, disk'[j].state = "succeeded"
      PROVE  <<j, disk'[j].gen>> \in won
  BY ZenonT(60), <1>3, <1>4, <1>5 DEF JournaledAs, SuccessInv
<1>6. \A q \in Slots : runners'[q] = runners[q] \/ runners'[q].pc = "fetch"
  BY ZenonT(60), <1>1, CallerTouches
<1>7. ASSUME NEW q \in Slots, runners'[q].pc = "end",
             runners'[q].out \notin {"canceled", "fail", "interrupted"}
      PROVE  <<runners'[q].id, runners'[q].gen>> \in won
  BY ZenonT(60), <1>6, <1>7 DEF SuccessInv
<1> QED
  BY ZenonT(60), <1>2, <1>4, <1>5, <1>7 DEF SuccessInv, SucceededRan, Present

LEMMA CallerBars ==
  ASSUME Constants, Shape, WindowInv, BarInv, NEW c \in Callers, CallerEffect(c)
  PROVE  BarInv'
<1>1. PICK y \in CallerRecord : CallerKind(c, y) /\ callers' = [callers EXCEPT ![c] = y]
  BY ZenonT(60) DEF CallerEffect, CallerKind
<1>2. /\ \A j \in Ids : (tasks'[j] # None => Became(j)) /\ JournaledAs(j)
      /\ \A j \in Ids, g \in Nat : <<j, g>> \in barred' => BarredNow(j, g)
      /\ journal' = "off" <=> journal = "off"
  BY ZenonT(60), <1>1, CallerStates
<1>3. \A q \in Slots : runners'[q] = runners[q] \/ runners'[q].pc = "fetch"
  BY ZenonT(60), <1>1, CallerTouches
<1>4. made \subseteq made'
  BY ZenonT(60), <1>1 DEF CallerKind, Quiet, PutNew, Persisted, MarkedBy, Requeued, Dropped, Unlinked
<1>5. /\ \A j \in Ids : tasks[j] # None => tasks[j].gen \in Nat
      /\ \A j \in Ids : tasks[j] # None \/ disk[j] # None => j \in made
      /\ \A q \in Slots : runners[q].pc # "idle" => runners[q].id \in made /\ runners[q].id \in Ids
      /\ \A q \in Slots : runners[q].gen \in Nat
  <2>1. \A j \in Ids : tasks[j] # None => tasks[j].gen \in Nat
    BY ZenonT(60), Generation DEF Shape
  <2>2. \A q \in Slots : runners[q].gen \in Nat
    <3>1. \A x \in RunnerRecord : x.gen \in Nat
      BY DEF RunnerRecord
    <3> QED
      BY ZenonT(60), <3>1 DEF Shape
  <2> QED
    BY ZenonT(60), <2>1, <2>2 DEF Shape
<1>6. \A j \in Ids : tasks'[j] # None => tasks'[j].gen \in Nat
  <2>1. Shape'
    BY ZenonT(60), CallerShape
  <2> QED
    BY ZenonT(60), <2>1, Generation DEF Shape
<1>7. CanceledNeverRuns'
  <2>1. ASSUME NEW q \in Slots, runners'[q].pc \in {"run", "end"},
               <<runners'[q].id, runners'[q].gen>> \in barred'
        PROVE  FALSE
    <3>1. runners'[q] = runners[q] /\ runners[q].pc \in {"run", "end"}
      BY ZenonT(60), <1>3, <2>1
    <3>2. BarredNow(runners[q].id, runners[q].gen)
      BY ZenonT(60), <1>2, <1>5, <2>1, <3>1
    <3>3. <<runners[q].id, runners[q].gen>> \notin barred
      BY ZenonT(60), <3>1 DEF BarInv, CanceledNeverRuns
    <3> QED
      BY ZenonT(60), <3>1, <3>2, <3>3 DEF BarredNow, BarInv
  <2> QED
    BY ZenonT(60), <2>1 DEF CanceledNeverRuns
<1>8. ASSUME NEW j \in Ids, NEW g \in Nat, <<j, g>> \in barred'
      PROVE  /\ j \in made'
             /\ tasks'[j] # None => g <= tasks'[j].gen
             /\ tasks'[j] # None /\ g = tasks'[j].gen =>
                  tasks'[j].state \in Terminal \cup {"canceling"}
             /\ MaxFaults = 0 /\ disk'[j] # None => g <= disk'[j].gen
  <2>0. BarredNow(j, g) /\ JournaledAs(j) /\ (tasks'[j] # None => Became(j))
    BY ZenonT(60), <1>2, <1>8
  <2>1. CASE <<j, g>> \in barred
    <3>1. /\ j \in made
          /\ tasks[j] # None => g <= tasks[j].gen
          /\ tasks[j] # None /\ g = tasks[j].gen => tasks[j].state \in Terminal \cup {"canceling"}
          /\ MaxFaults = 0 /\ disk[j] # None => g <= disk[j].gen
      BY ZenonT(60), <2>1 DEF BarInv
    <3>2. /\ tasks'[j] # None => g <= tasks'[j].gen
          /\ tasks'[j] # None /\ g = tasks'[j].gen =>
               tasks'[j].state \in Terminal \cup {"canceling"}
      <4>1. tasks[j] # None => /\ g <= tasks[j].gen + 1 \/ ~(g <= tasks[j].gen)
                               /\ g # tasks[j].gen + 1 \/ ~(g <= tasks[j].gen)
        BY ZenonT(60), <1>5, Later
      <4> QED
        BY ZenonT(60), <2>0, <3>1, <4>1 DEF Became
    <3>3. MaxFaults = 0 /\ disk'[j] # None => g <= disk'[j].gen
      BY ZenonT(60), <2>0, <3>1, <3>2 DEF JournaledAs
    <3> QED
      BY ZenonT(60), <1>4, <3>1, <3>2, <3>3
  <2>2. CASE <<j, g>> \notin barred
    <3>1. /\ j \in made /\ tasks[j] # None /\ tasks'[j] # None /\ g = tasks[j].gen
          /\ tasks'[j].gen = g /\ tasks'[j].state = "canceling"
      BY ZenonT(60), <2>0, <2>2 DEF BarredNow
    <3>2. MaxFaults = 0 /\ disk'[j] # None => g <= disk'[j].gen
      <4>1. g <= g
        BY ZenonT(60), Later
      <4>2. MaxFaults = 0 /\ disk[j] # None => tasks[j].gen <= disk[j].gen
        BY ZenonT(60), <3>1 DEF BarInv
      <4> QED
        BY ZenonT(60), <2>0, <3>1, <4>1, <4>2 DEF JournaledAs
    <3>3. g <= g
      BY ZenonT(60), Later
    <3> QED
      BY ZenonT(60), <1>4, <3>1, <3>2, <3>3
  <2> QED
    BY ZenonT(60), <2>1, <2>2
<1>9. ASSUME NEW q \in Slots, runners'[q].pc \in {"start", "run", "end"},
             tasks'[runners'[q].id] # None
      PROVE  /\ runners'[q].gen <= tasks'[runners'[q].id].gen
             /\ runners'[q].pc # "start" /\ runners'[q].gen = tasks'[runners'[q].id].gen =>
                  tasks'[runners'[q].id].state # "queued"
  <2>1. runners'[q] = runners[q]
    BY ZenonT(60), <1>3, <1>9
  <2> DEFINE j == runners[q].id
             k == runners[q].gen
  <2>2. j \in Ids /\ j \in made /\ k \in Nat /\ Became(j)
    BY ZenonT(60), <1>2, <1>5, <1>9, <2>1
  <2>3. tasks[j] # None => /\ k <= tasks[j].gen
                           /\ runners[q].pc # "start" /\ k = tasks[j].gen =>
                                tasks[j].state # "queued"
    BY ZenonT(60), <1>9, <2>1 DEF BarInv
  <2> HIDE DEF j, k
  <2>4. /\ k <= tasks'[j].gen
        /\ runners[q].pc # "start" /\ k = tasks'[j].gen => tasks'[j].state # "queued"
    <3>1. tasks[j] # None /\ k <= tasks[j].gen => k <= tasks[j].gen + 1 /\ k # tasks[j].gen + 1
      BY ZenonT(60), <1>5, <2>2, Later
    <3> QED
      BY ZenonT(60), <2>2, <2>3, <3>1 DEF Became
  <2> QED
    BY ZenonT(60), <2>1, <2>4 DEF j, k
<1>10. ASSUME NEW j \in Ids, tasks'[j] # None, disk'[j] # None
       PROVE  journal' # "off" /\ (MaxFaults = 0 => tasks'[j].gen <= disk'[j].gen)
  <2>0. JournaledAs(j) /\ Became(j) /\ tasks'[j].gen \in Nat
    BY ZenonT(60), <1>2, <1>6, <1>10
  <2>1. CASE disk'[j] # disk[j]
    <3>1. tasks'[j].gen <= tasks'[j].gen
      BY ZenonT(60), <2>0, Later
    <3> QED
      BY ZenonT(60), <1>10, <2>0, <2>1, <3>1 DEF JournaledAs
  <2>2. CASE disk'[j] = disk[j]
    <3>1. j \in made /\ tasks[j] # None
      BY ZenonT(60), <1>5, <1>10, <2>0, <2>2 DEF Became
    <3>2. journal # "off" /\ (MaxFaults = 0 => tasks[j].gen <= disk[j].gen)
      BY ZenonT(60), <1>10, <2>2, <3>1 DEF BarInv
    <3> QED
      <4>1. tasks'[j].gen <= tasks'[j].gen
        BY ZenonT(60), <2>0, Later
      <4> QED
        BY ZenonT(60), <1>2, <2>0, <2>2, <3>1, <3>2, <4>1 DEF Became
  <2> QED
    BY ZenonT(60), <2>1, <2>2
<1> QED
  BY ZenonT(60), <1>7, <1>8, <1>9, <1>10 DEF BarInv

-----------------------------------------------------------------------------
(* The invariants after a restart.                                         *)

LEMMA RestartTasks ==
  ASSUME Constants, Shape, RestartEffect, NEW j \in Ids
  PROVE  /\ tasks'[j] # None =>
              /\ disk[j] # None /\ disk[j].gen \in Nat
              /\ \/ /\ tasks'[j].gen = disk[j].gen /\ tasks'[j].state \in Terminal
                    /\ tasks'[j].state = "succeeded" => disk[j].state = "succeeded"
                 \/ tasks'[j].gen = disk[j].gen + 1 /\ tasks'[j].state = "queued"
         /\ \/ disk'[j] = disk[j] /\ (tasks'[j] # None => tasks'[j].gen = disk[j].gen)
            \/ /\ disk'[j].gen = disk[j].gen + 1 /\ disk'[j].state = "queued"
               /\ disk[j] # None /\ tasks'[j] # None /\ tasks'[j].gen = disk'[j].gen
         /\ journal' = "on" => Seen(disk'[j]) = Seen(tasks'[j])
<1>1. disk[j] # None => disk[j] \in TaskRecord /\ disk[j].gen \in Nat
  BY DEF Shape, TaskRecord
<1>2. ReplayedAs(j) /\ (journal' = "on" /\ disk[j] # None => tasks'[j] # None)
  BY ZenonT(60) DEF RestartEffect
<1>3. CASE tasks'[j] = None /\ disk'[j] = disk[j]
  BY ZenonT(60), <1>2, <1>3
<1>4. CASE disk[j] # None /\ tasks'[j] = Found(j) /\ disk'[j] = disk[j]
  <2>1. SameTask(Found(j), disk[j]) /\ Found(j).state \in Terminal
        /\ (Found(j).state = "succeeded" => disk[j].state = "succeeded")
    BY ZenonT(60), <1>1, <1>4, ReplayedTask DEF Found
  <2>2. Seen(Found(j)) = Seen(disk[j])
    BY ZenonT(60), <1>1, <1>4, SeenAlike DEF Found
  <2> QED
    BY ZenonT(60), <1>1, <1>4, <2>1, <2>2 DEF SameTask
<1>5. CASE /\ disk[j] # None /\ Found(j).gen < MaxGen
           /\ tasks'[j] = Recovered(Found(j)) /\ disk'[j] = Recorded(tasks'[j])
  <2>1. Found(j) \in TaskRecord /\ Found(j).gen = disk[j].gen
    BY ZenonT(60), <1>1, <1>5, ReplayedTask DEF Found, SameTask
  <2>2. tasks'[j] \in TaskRecord /\ tasks'[j].gen = disk[j].gen + 1 /\ tasks'[j].state = "queued"
    BY ZenonT(60), <1>5, <2>1, RecoveredTask
  <2>3. /\ disk'[j].gen = tasks'[j].gen /\ disk'[j].state = "queued"
    BY ZenonT(60), <1>5, <2>2, RecordedTask DEF SameTask
  <2>4. Seen(disk'[j]) = Seen(tasks'[j])
    BY ZenonT(60), <1>5, <2>2, SeenAlike
  <2>5. tasks'[j] # None
    BY ZenonT(60), <2>2 DEF Constants
  <2> QED
    BY ZenonT(60), <1>1, <1>5, <2>2, <2>3, <2>4, <2>5
<1> QED
  BY ZenonT(60), <1>2, <1>3, <1>4, <1>5 DEF ReplayedAs

\* Nobody is past its first step yet.
LEMMA RestartIdle ==
  ASSUME Constants, Shape, RestartEffect
  PROVE  /\ \A r \in Slots : runners'[r].pc \in {"idle", "fetch"}
         /\ \A c \in Callers : callers'[c].pc = "idle"
<1>1. \A r \in Slots : runners'[r].pc \in {"idle", "fetch"}
  <2>1. TAKE r \in Slots
  <2>2. CASE runners'[r] = NoRunner
    BY <2>2 DEF NoRunner
  <2>3. ASSUME NEW id \in Ids, tasks'[id] # None, runners'[r] = Fetching(id, tasks'[id].ctx)
        PROVE  runners'[r].pc = "fetch"
    BY ZenonT(60), <2>3 DEF Fetching, NoRunner
  <2> QED
    BY ZenonT(60), <2>2, <2>3 DEF RestartEffect
<1>2. \A c \in Callers : callers'[c].pc = "idle"
  BY DEF RestartEffect, NoCaller
<1> QED
  BY ZenonT(60), <1>1, <1>2

LEMMA RestartAgrees ==
  ASSUME Constants, Shape, RestartEffect
  PROVE  WindowInv' /\ DiskAgrees'
<1>1. WindowInv'
  BY ZenonT(60), RestartIdle DEF WindowInv
<1>2. journal' = "on" => \A j \in Ids : Seen(disk'[j]) = Seen(tasks'[j])
  BY ZenonT(60), RestartTasks
<1> QED
  BY ZenonT(60), <1>1, <1>2, Zenon DEF DiskAgrees, Seen, normalizeReplayedTask

LEMMA RestartSuccess ==
  ASSUME Constants, Shape, SuccessInv, RestartEffect
  PROVE  SuccessInv'
<1>1. won' = won
  BY ZenonT(60) DEF RestartEffect
<1>2. ASSUME NEW j \in Ids, tasks'[j] # None, tasks'[j].state = "succeeded"
      PROVE  <<j, tasks'[j].gen>> \in won
  <2>1. disk[j] # None /\ disk[j].state = "succeeded" /\ tasks'[j].gen = disk[j].gen
    BY ZenonT(60), <1>2, RestartTasks
  <2> QED
    BY ZenonT(60), <2>1 DEF SuccessInv
<1>3. ASSUME NEW j \in Ids, disk'[j] # None, disk'[j].state = "succeeded"
      PROVE  <<j, disk'[j].gen>> \in won
  <2>1. disk'[j] = disk[j]
    BY ZenonT(60), <1>3, RestartTasks
  <2> QED
    BY ZenonT(60), <1>3, <2>1 DEF SuccessInv
<1> QED
  BY ZenonT(60), <1>1, <1>2, <1>3, RestartIdle DEF SuccessInv, SucceededRan, Present

LEMMA RestartBars ==
  ASSUME Constants, Shape, BarInv, RestartEffect, MaxFaults = 0 \/ MaxStops = 0
  PROVE  BarInv'
<1>1. MaxFaults = 0 /\ barred' = barred /\ made' = made
  <2>1. stops \in Nat /\ stops < MaxStops /\ barred' = barred /\ made' = made
    BY ZenonT(60), Zenon DEF RestartEffect, Shape
  <2> QED
    BY <2>1 DEF Constants
<1>2. \A r \in Slots : runners'[r].pc \in {"idle", "fetch"}
  BY ZenonT(60), RestartIdle
<1>3. ASSUME NEW j \in Ids, NEW g \in Nat, <<j, g>> \in barred
      PROVE  /\ j \in made
             /\ tasks'[j] # None => g <= tasks'[j].gen
             /\ tasks'[j] # None /\ g = tasks'[j].gen =>
                  tasks'[j].state \in Terminal \cup {"canceling"}
             /\ MaxFaults = 0 /\ disk'[j] # None => g <= disk'[j].gen
  <2>1. j \in made /\ (disk[j] # None => g <= disk[j].gen)
    BY ZenonT(60), <1>1, <1>3 DEF BarInv
  <2>2. disk[j] # None => disk[j].gen \in Nat
    BY DEF Shape, TaskRecord
  <2> QED
    BY SMTT(60), <2>1, <2>2, RestartTasks
<1>4. ASSUME NEW j \in Ids, tasks'[j] # None, disk'[j] # None
      PROVE  journal' # "off" /\ (MaxFaults = 0 => tasks'[j].gen <= disk'[j].gen)
  <2>1. tasks'[j].gen = disk'[j].gen /\ disk[j].gen \in Nat
        /\ tasks'[j].gen \in {disk[j].gen, disk[j].gen + 1}
    BY ZenonT(60), <1>4, RestartTasks
  <2>2. journal' # "off"
    BY ZenonT(60), <1>4, Zenon DEF RestartEffect
  <2> QED
    BY SMTT(60), <2>1, <2>2
<1> QED
  BY ZenonT(60), <1>1, <1>2, <1>3, <1>4 DEF BarInv, CanceledNeverRuns

-----------------------------------------------------------------------------
(* The theorems.                                                           *)

LEMMA NextAgrees ==
  ASSUME Constants, Shape, WindowInv, DiskAgrees, [Next]_vars
  PROVE  WindowInv' /\ DiskAgrees'
<1>1. CASE Still
  BY ZenonT(60), <1>1, Zenon DEF Still, WindowInv, DiskAgrees, InWindow, Seen, normalizeReplayedTask
<1> QED
  BY ZenonT(60), <1>1, Steps, RunnerWindow, RunnerReplay, CallerWindow, CallerReplay, RestartAgrees

LEMMA NextSuccess ==
  ASSUME Constants, Shape, WindowInv, SuccessInv, [Next]_vars
  PROVE  SuccessInv'
<1>1. CASE Still
  BY ZenonT(60), <1>1 DEF Still, SuccessInv, SucceededRan, Present
<1> QED
  BY <1>1, Steps, RunnerSuccess, CallerSuccess, RestartSuccess

LEMMA NextBars ==
  ASSUME Constants, Shape, WindowInv, BarInv, [Next]_vars, MaxFaults = 0 \/ MaxStops = 0
  PROVE  BarInv'
<1>1. CASE Still
  BY <1>1 DEF Still, BarInv, CanceledNeverRuns
<1> QED
  BY ZenonT(60), <1>1, Steps, RunnerBars, CallerBars, RestartBars

LEMMA Starts ==
  ASSUME Constants, Init
  PROVE  WindowInv /\ DiskAgrees /\ SuccessInv /\ BarInv
<1>1. /\ \A id \in Ids : tasks[id] = None /\ disk[id] = None
      /\ \A r \in Slots : runners[r].pc = "idle"
      /\ \A c \in Callers : callers[c].pc = "idle"
      /\ barred = {}
  BY ZenonT(60) DEF Init, NoRunner, NoCaller
<1>2. WindowInv /\ SuccessInv
  BY ZenonT(60), <1>1 DEF WindowInv, SuccessInv, SucceededRan, Present
<1>3. BarInv
  BY ZenonT(60), <1>1 DEF BarInv, CanceledNeverRuns
<1>4. DiskAgrees
  BY ZenonT(60), <1>1, Zenon DEF DiskAgrees
<1> QED
  BY ZenonT(60), <1>2, <1>3, <1>4

\* The journal read back is the last record of each task, normalised; normalising
\* it twice changes nothing.
LEMMA LoadedSeen ==
  ASSUME Constants, Shape, NEW id \in Ids, NEW tail, tail # "bad"
  PROVE  Seen(loaded(tail)[id]) = Seen(disk[id])
<1>1. loaded(tail)[id] = IF disk[id] = None THEN None ELSE normalizeReplayedTask(disk[id])
  BY DEF loaded, replay
<1>2. disk[id] # None => Seen(normalizeReplayedTask(disk[id])) = Seen(disk[id])
  BY ZenonT(60), SeenAlike DEF Shape
<1> QED BY ZenonT(60), <1>1, <1>2

\* Every durable change of a task is journaled inside the store's lock: as long as
\* no write failed and no line is glued to one that an earlier crash left without
\* its newline, a restart at any moment, also one inside the line being written,
\* loads of every task, but those half way through a put or a removal, what memory
\* says of it (UpdateManaged, taskDurableKey, normalizeReplayedTask, replay).
THEOREM JournalAgrees == ASSUME Constants PROVE Spec => []ReplayAgrees
<1>1. Init => Shape /\ WindowInv /\ DiskAgrees
  BY ZenonT(60), InitShape, Starts
<1>2. Shape /\ WindowInv /\ DiskAgrees /\ [Next]_vars => (Shape /\ WindowInv /\ DiskAgrees)'
  BY ZenonT(60), NextShape, NextAgrees
<1>3. Shape /\ DiskAgrees => ReplayAgrees
  <2>1. SUFFICES ASSUME Shape, DiskAgrees, journal = "on", line # "bad",
                        NEW id \in Ids, ~InWindow(id), NEW tail \in Tails
                 PROVE  Seen(loaded(tail)[id]) = Seen(tasks[id])
    BY ZenonT(60), Zenon DEF ReplayAgrees
  <2>2. tail # "bad"
    BY <2>1 DEF Tails
  <2>3. Seen(disk[id]) = Seen(tasks[id])
    BY ZenonT(60), <2>1, Zenon DEF DiskAgrees
  <2> QED BY ZenonT(60), <2>1, <2>2, <2>3, LoadedSeen
<1> QED
  BY <1>1, <1>2, <1>3, PTL DEF Spec

\* A task shown as succeeded ran to the end without error in the generation it is
\* in, over any cancels, retries, dismissals, failed writes and restarts: the
\* generation check of updateForGeneration keeps late outcomes out.
THEOREM SuccessIsEarned == ASSUME Constants PROVE Spec => []SucceededRan
<1>1. Init => Shape /\ WindowInv /\ DiskAgrees /\ SuccessInv
  BY ZenonT(60), InitShape, Starts
<1>2. Shape /\ WindowInv /\ DiskAgrees /\ SuccessInv /\ [Next]_vars
        => (Shape /\ WindowInv /\ DiskAgrees /\ SuccessInv)'
  BY ZenonT(60), NextShape, NextAgrees, NextSuccess
<1>3. SuccessInv => SucceededRan
  BY DEF SuccessInv
<1> QED
  BY <1>1, <1>2, <1>3, PTL DEF Spec

\* Work canceled while it was queued is never entered (manager.go:246).  A
\* generation number names one attempt as long as the journal is complete or the
\* process is not restarted: when a cancel's record could not be written, a
\* restart recovers the task from the record before it, and a later attempt may
\* carry the number of the canceled one.
THEOREM CanceledStaysOut ==
  ASSUME Constants, MaxFaults = 0 \/ MaxStops = 0
  PROVE  Spec => []CanceledNeverRuns
<1>1. Init => Shape /\ WindowInv /\ DiskAgrees /\ BarInv
  BY ZenonT(60), InitShape, Starts
<1>2. Shape /\ WindowInv /\ DiskAgrees /\ BarInv /\ [Next]_vars
        => (Shape /\ WindowInv /\ DiskAgrees /\ BarInv)'
  BY ZenonT(60), NextShape, NextAgrees, NextBars
<1>3. BarInv => CanceledNeverRuns
  BY DEF BarInv
<1> QED
  BY <1>1, <1>2, <1>3, PTL DEF Spec
=============================================================================
