--------------------------- MODULE UploadSession ---------------------------
(***************************************************************************)
(* What every resumable driver shares: the binding index of               *)
(* pkg/drive/session, the provider's side of an upload, and the frame of   *)
(* one PutSource attempt with the retries around it.                       *)
(*                                                                         *)
(* One target path is uploaded.  The content decides the key of its        *)
(* binding (Identity.Key), so a content is its own key.  A source without   *)
(* a hash has the key Anon, or NoKey where the driver then keeps no        *)
(* binding.  An upload has the same Parts whatever the content.  A handle  *)
(* is the number of the provider upload it names, and the provider keeps   *)
(* for each upload which content every part holds, so that a mixture of    *)
(* contents or a missing part can be seen.                                 *)
(*                                                                         *)
(* Two threads use the index: the upload attempt ("up") and the expiry     *)
(* pass ("exp").  A driver's module adds the steps of its PutSource.       *)
(***************************************************************************)
EXTENDS Naturals, Sequences, FiniteSets, Functions, TLC

CONSTANTS Contents,     \* the contents the file may have
          Parts,        \* 1..n, the parts of an upload
          MaxTroubles,  \* how many things go wrong: errors, lapses, crashes
          MaxEntries,   \* DefaultMaxEntries
          Expiry        \* whether bindings grow old and expiry passes run

ASSUME UploadAssumption == /\ Parts = 1 .. Cardinality(Parts)
                           /\ MaxTroubles \in Nat
                           /\ MaxEntries \in Nat \ {0}
                           /\ Expiry \in BOOLEAN

VARIABLES mem,      \* Index.sessions: the bindings in memory, key -> binding
          disk,     \* the bindings in the state file
          ops,      \* the index write each thread has in flight
          pc,       \* where each thread is
          up,       \* the attempt's local variables
          exp,      \* the expiry pass's local variables
          remote,   \* the provider's uploads, by handle
          file,     \* what the provider shows under the target name
          want,     \* the content the file has locally
          result,   \* what the last attempt reported
          troubles  \* how many things went wrong so far

vars == <<mem, disk, ops, pc, up, exp, remote, file, want, result, troubles>>

Anon == "anon"
NoKey == "none"
Nothing == "nothing"
NoHandle == 0
Empty == [p \in Parts |-> Nothing]
Full(c) == [p \in Parts |-> c]
Held(data) == {p \in Parts : data[p] # Nothing}
NoBindings == [k \in {} |-> Nothing]

\* A binding (Session): the handle in its token, NoHandle for a reservation,
\* the parts its token says are confirmed, and whether it has been idle for
\* longer than the driver's maximal age.
Binding(h) == [h |-> h, conf |-> {}, old |-> FALSE]
Reserved == Binding(NoHandle)

Idle == [st |-> "none"]
NoAttempt == [c |-> Nothing, key |-> Nothing, h |-> NoHandle, have |-> {},
              stale |-> NoHandle, since |-> 0, again |-> 0, ret |-> "none",
              data |-> Empty, beside |-> FALSE, misread |-> FALSE]
NoPass == [snap |-> NoBindings, done |-> NoBindings]
NoResult == [st |-> "none", c |-> Nothing, data |-> Empty, stale |-> NoHandle,
             clean |-> FALSE, misread |-> FALSE]

Init ==
  /\ mem = NoBindings /\ disk = NoBindings
  /\ ops = [a \in {"up", "exp"} |-> Idle]
  /\ pc = [a \in {"up", "exp"} |-> "idle"]
  /\ up = NoAttempt /\ exp = NoPass
  /\ remote = <<>> /\ file = Empty
  /\ want \in Contents
  /\ result = NoResult /\ troubles = 0

Goto(l) == pc' = [pc EXCEPT !["up"] = l]

----------------------------------------------------------------------------
(* The index.  A mutation clones the bindings and changes the clone under  *)
(* the lock, saves it without the lock, and installs it under the lock.    *)

\* evictOldest: the new binding is the youngest.
Evicted(next, k) ==
  IF Cardinality(DOMAIN next) <= MaxEntries
  THEN {next}
  ELSE LET olds == {j \in DOMAIN next : next[j].old}
           out == IF olds # {} THEN olds ELSE DOMAIN next \ {k}
       IN {Restrict(next, DOMAIN next \ {j}) : j \in out}

\* mutate, up to the unlock: the thread goes on at ok, or at err when the
\* write fails.
Mutate(a, next, ok, err) ==
  /\ ops' = [ops EXCEPT ![a] = [st |-> "save", next |-> next,
                                ok |-> ok, err |-> err]]
  /\ pc' = [pc EXCEPT ![a] = "index"]

Create(k, b, ok, err) ==
  \E next \in Evicted((k :> b) @@ mem, k) : Mutate("up", next, ok, err)

Delete(k, ok) == Mutate("up", Restrict(mem, DOMAIN mem \ {k}), ok, ok)

\* write: a snapshot goes to disk only.
Write(next, ok, err) ==
  /\ ops' = [ops EXCEPT !["up"] = [st |-> "write", next |-> next,
                                   ok |-> ok, err |-> err]]
  /\ Goto("index")

\* TouchWith: the binding changes in memory; whether it is also written is up
\* to the time of the last write.
TouchWith(k, b, ok) ==
  LET next == IF k \in DOMAIN mem THEN [mem EXCEPT ![k] = b] ELSE mem IN
  /\ mem' = next
  /\ \/ Goto(ok) /\ UNCHANGED ops
     \/ k \in DOMAIN mem /\ Write(next, ok, ok)

\* Touch
Touch(k, ok) ==
  TouchWith(k, IF k \in DOMAIN mem THEN [mem[k] EXCEPT !.old = FALSE]
                                   ELSE Reserved, ok)

\* MarkConfirmed in the token the key is bound to now, if it has a handle.
Marked(k, p) ==
  IF k \in DOMAIN mem /\ mem[k].h # NoHandle
  THEN [mem[k] EXCEPT !.conf = @ \cup {p}]
  ELSE IF k \in DOMAIN mem THEN mem[k] ELSE Reserved

\* SaveJSON replaces the file in one step.
Save(a) ==
  LET o == ops[a] IN
  /\ o.st \in {"save", "write"}
  /\ disk' = o.next
  /\ IF o.st = "save"
     THEN ops' = [ops EXCEPT ![a].st = "install"] /\ UNCHANGED pc
     ELSE ops' = [ops EXCEPT ![a] = Idle] /\ pc' = [pc EXCEPT ![a] = o.ok]
  /\ UNCHANGED <<mem, up, exp, remote, file, want, result, troubles>>

SaveFails(a) ==
  LET o == ops[a] IN
  /\ o.st \in {"save", "write"}
  /\ troubles < MaxTroubles /\ troubles' = troubles + 1
  /\ ops' = [ops EXCEPT ![a] = Idle]
  /\ pc' = [pc EXCEPT ![a] = o.err]
  /\ UNCHANGED <<mem, disk, up, exp, remote, file, want, result>>

Install(a) ==
  LET o == ops[a] IN
  /\ o.st = "install"
  /\ mem' = o.next
  /\ ops' = [ops EXCEPT ![a] = Idle]
  /\ pc' = [pc EXCEPT ![a] = o.ok]
  /\ UNCHANGED <<disk, up, exp, remote, file, want, result, troubles>>

----------------------------------------------------------------------------
(* The provider.  An upload is open until it is committed ("done") or      *)
(* lapses or is aborted ("gone").  A request is answered; or it fails,     *)
(* before or after it took effect; or it is refused.  tag is what one      *)
(* provider keeps besides.                                                 *)

Open(h) == h \in DOMAIN remote /\ remote[h].st = "open"
Troubles == IF troubles < MaxTroubles THEN {"fail", "lost", "refused"} ELSE {}
Replies == {"ok"} \cup Troubles
RepliesOf(h) == (IF Open(h) THEN {"ok"} ELSE {"gone"}) \cup Troubles

\* Where a driver tells the end of an upload from other errors by a status, a
\* code or a text, the provider may also say it in a way the driver does not
\* know ("odd").
AnswersOf(h) == RepliesOf(h) \cup (IF Open(h) THEN {} ELSE {"odd"})
Effective(r) == r \in {"ok", "lost"}
Spend(r) == troubles' = troubles + (IF r \in {"fail", "lost", "refused"}
                                    THEN 1 ELSE 0)

NewHandle == Len(remote) + 1
NewUpload(data) == Append(remote, [data |-> data, st |-> "open", tag |-> Nothing])
WithPart(h, p, c) == IF Open(h) THEN [remote EXCEPT ![h].data[p] = c] ELSE remote
Closed(h, st) == IF Open(h) THEN [remote EXCEPT ![h].st = st] ELSE remote

\* The attempt's requests, with the effect they have when answered by r.
SendCreate(r) == remote' = IF Effective(r) THEN NewUpload(Empty) ELSE remote
SendPart(p, r) == remote' = IF Effective(r) THEN WithPart(up.h, p, up.c) ELSE remote
SendAbort(r) == remote' = IF Effective(r) THEN Closed(up.h, "gone") ELSE remote
SendWhole(r) == file' = IF Effective(r) THEN Full(up.c) ELSE file
SendCommit(r) ==
  IF Effective(r) /\ Open(up.h)
  THEN remote' = Closed(up.h, "done") /\ file' = remote[up.h].data
  ELSE UNCHANGED <<remote, file>>

\* The provider forgets an upload.
Lapse ==
  /\ troubles < MaxTroubles /\ troubles' = troubles + 1
  /\ \E h \in DOMAIN remote : Open(h) /\ remote' = Closed(h, "gone")
  /\ UNCHANGED <<mem, disk, ops, pc, up, exp, file, want, result>>

----------------------------------------------------------------------------
(* The attempt.                                                            *)

\* The engine starts an attempt for the content the file has, again after a
\* failure.  A source may bring no hash.  The attempt notes the troubles there
\* were and whether an expiry pass runs beside it.
Start(keys) ==
  /\ pc["up"] = "idle"
  /\ ~(result.st = "ok" /\ result.c = want)
  /\ \E k \in keys :
       up' = [NoAttempt EXCEPT
                !.c = want, !.key = k,
                !.since = troubles, !.beside = pc["exp"] # "idle",
                !.stale = IF k \in DOMAIN mem /\ mem[k].h # NoHandle
                             /\ ~Open(mem[k].h)
                          THEN mem[k].h ELSE NoHandle]
  /\ Goto("begin")
  /\ result' = NoResult
  /\ UNCHANGED <<mem, disk, ops, exp, remote, file, want, troubles>>

\* The attempt returns: an entry whose data is d, or an error.
Outcome(st, d) == [st |-> st, c |-> up.c, data |-> d, stale |-> up.stale,
                   clean |-> up.since = troubles' /\ ~up.beside,
                   misread |-> up.misread]

Return(st, d) ==
  /\ Goto("idle")
  /\ result' = Outcome(st, d)
  /\ up' = NoAttempt
  /\ UNCHANGED ops

Fail(st) == Return(st, Empty)

\* The same for an odd answer, which passes for an error of another kind.
FailMisread(st) ==
  /\ Goto("idle")
  /\ result' = [Outcome(st, Empty) EXCEPT !.misread = TRUE]
  /\ up' = NoAttempt
  /\ UNCHANGED ops

\* The binding, if there is one, is deleted first.
DropAndGive(st, d) ==
  IF up.key = NoKey
  THEN Return(st, d)
  ELSE /\ up' = [up EXCEPT !.ret = st, !.data = d]
       /\ Delete(up.key, "return")
       /\ UNCHANGED result

DropAndReturn(st) == DropAndGive(st, IF st = "ok" THEN file' ELSE Empty)

\* The first part the attempt does not know to be uploaded.
Missing == Parts \ up.have
NextPart == CHOOSE p \in Missing : \A q \in Missing : p <= q

\* The end of an attempt that had to write the index last.
Finish ==
  /\ pc["up"] = "return"
  /\ UNCHANGED troubles
  /\ Return(up.ret, up.data)
  /\ UNCHANGED <<mem, disk, exp, remote, file, want>>

\* The file is changed while no attempt runs.
Edit ==
  /\ pc["up"] = "idle"
  /\ \E c \in Contents \ {want} : want' = c
  /\ troubles < MaxTroubles /\ troubles' = troubles + 1
  /\ UNCHANGED <<mem, disk, ops, pc, up, exp, remote, file, result>>

\* The process is killed and restarted: the index is loaded from the file.
Crash ==
  /\ troubles < MaxTroubles /\ troubles' = troubles + 1
  /\ mem' = disk
  /\ ops' = [a \in {"up", "exp"} |-> Idle]
  /\ pc' = [a \in {"up", "exp"} |-> "idle"]
  /\ up' = NoAttempt /\ exp' = NoPass
  /\ result' = IF pc["up"] = "idle" THEN result ELSE NoResult
  /\ UNCHANGED <<disk, remote, file, want>>

----------------------------------------------------------------------------
(* The expiry pass (Expire, RunExpirer).                                   *)

\* The last attempt found its binding stale and left it there.
StaleLeft == result.stale # NoHandle /\ \E k \in DOMAIN mem : mem[k].h = result.stale

\* Longer than the maximal age passes without a binding being renewed.  That is
\* one of the things that go wrong, and beyond their bound happens only to a stale
\* binding.
Aged(bindings) == [k \in DOMAIN bindings |-> [bindings[k] EXCEPT !.old = TRUE]]

TimePasses ==
  /\ Expiry /\ pc = [a \in {"up", "exp"} |-> "idle"]
  /\ mem # NoBindings
  /\ \/ troubles < MaxTroubles /\ troubles' = troubles + 1
     \/ troubles = MaxTroubles /\ StaleLeft /\ UNCHANGED troubles
  /\ mem' = Aged(mem) /\ disk' = Aged(disk)
  /\ UNCHANGED <<ops, pc, up, exp, remote, file, want, result>>

\* The candidates are collected under the lock.
ExpireScan ==
  LET olds == {k \in DOMAIN mem : mem[k].old} IN
  /\ Expiry /\ pc["exp"] = "idle" /\ olds # {}
  /\ exp' = [snap |-> Restrict(mem, olds), done |-> NoBindings]
  /\ up' = IF pc["up"] = "idle" THEN up ELSE [up EXCEPT !.beside = TRUE]
  /\ pc' = [pc EXCEPT !["exp"] = "reclaim"]
  /\ UNCHANGED <<mem, disk, ops, remote, file, want, result, troubles>>

\* Candidate k is reclaimed without the lock: cleaned is what the driver's
\* reclaim makes of the provider; a candidate whose reclaim fails is kept for
\* the next pass.
Reclaim(k, cleaned) ==
  /\ pc["exp"] = "reclaim"
  /\ \E r \in {"ok"} \cup (Troubles \cap {"fail"}) :
       /\ Spend(r)
       /\ exp' = [snap |-> Restrict(exp.snap, DOMAIN exp.snap \ {k}),
                  done |-> IF r = "ok" THEN (k :> exp.snap[k]) @@ exp.done
                                       ELSE exp.done]
       /\ remote' = IF r = "ok" THEN cleaned ELSE remote
  /\ UNCHANGED <<mem, disk, ops, pc, up, file, want, result>>

\* The reclaimed bindings go, unless touched or recreated meanwhile.
Reclaimed(k) == k \in DOMAIN exp.done /\ mem[k] = exp.done[k]

ExpireDrop ==
  /\ pc["exp"] = "reclaim" /\ exp.snap = NoBindings
  /\ IF exp.done = NoBindings
     THEN pc' = [pc EXCEPT !["exp"] = "idle"] /\ UNCHANGED ops
     ELSE Mutate("exp", Restrict(mem, {k \in DOMAIN mem : ~Reclaimed(k)}),
                 "idle", "idle")
  /\ exp' = NoPass
  /\ UNCHANGED <<mem, disk, up, remote, file, want, result, troubles>>

----------------------------------------------------------------------------
\* What every driver's next-state relation has besides its own steps.
Common ==
  \/ \E a \in {"up", "exp"} : Save(a) \/ SaveFails(a) \/ Install(a)
  \/ Finish
  \/ Edit \/ Crash
  \/ TimePasses \/ ExpireScan \/ ExpireDrop

=============================================================================
