-------------------------- MODULE UploadGeneration --------------------------
(***************************************************************************)
(* The life of the content of ONE virtual path: the write path that stages *)
(* it (pkg/vfs/staging.go), the pending record and its journal line        *)
(* (pkg/vfs/upload/store.go), the upload engine that publishes it          *)
(* (pkg/vfs/upload/{worker,engine,commit,replace}.go), explicit retry and  *)
(* discard (domain.go, service.go), and a process crash followed by        *)
(* recovery (NewPendingStore and pkg/vfs/upload_recovery.go).              *)
(*                                                                         *)
(* The write path holds the path lock and the engine does not, except      *)
(* while it snapshots.  A store transaction (txMu) of the engine is two    *)
(* steps, the journal append and the memory update, because                *)
(* UpdateUploadTransient takes only the inner mutex and can fall between.  *)
(*                                                                         *)
(* Content is a sequence of blocks; a block is the logical time of the     *)
(* write that produced it, or Hole.  A hash is a set holding the content   *)
(* it was computed from, empty when there is none.                         *)
(***************************************************************************)
EXTENDS Naturals, Sequences, FiniteSets

CONSTANTS
  MaxFid,      \* how many generations (staging files) may be created
  MaxClock,    \* how many stamps UpdatedAt and block values may take
  MaxSize,     \* largest file, in blocks
  MaxFaults,   \* how many remote or journal operations may fail
  MaxCrashes,  \* how many times the process may stop and recover
  Requests     \* the user-visible operations the environment may issue

AllRequests == {"create", "write", "truncate", "flush", "retry", "discard"}

ASSUME BoundsAssumption ==
  /\ MaxFid \in Nat /\ MaxClock \in Nat \ {0} /\ MaxSize \in Nat \ {0}
  /\ MaxFaults \in Nat /\ MaxCrashes \in Nat
  /\ Requests \subseteq AllRequests

VARIABLES
  rec,       \* PendingStore.pending[path]: the record in memory
  disk,      \* the record the journal replays to
  file,      \* staging directory: fid -> content
  trk,       \* HashTracker.byFID: fid -> the blocks hashed so far
  sched,     \* Service.scheduled[path]: fid of the queued generation, 0 if none
  eng,       \* the upload worker holding this path
  wr,        \* the write-path operation holding the path lock
  rty,       \* the record copy RetryByID holds between its read and its save
  remote,    \* remote parent directory: entry id -> [name, data]
  clock,     \* logical time: the last stamp handed out
  nfid,      \* the last fid handed out
  faults,    \* failures used so far
  crashes,   \* crashes used so far
  logical,   \* history: the content a POSIX reader of the path expects
  promised,  \* history: contents the path may durably hold, {} = no promise
  base,      \* history: content last committed to the remote, {} = none
  sealed,    \* history: contents a flush has confirmed, or the remote had first
  raced,     \* history: a stale record copy overwrote, or is bound to, a newer record
  torn       \* history: a discard, or an append cut off by a crash, hit an upload
             \* that was switching remote entries

store == <<rec, disk, file, trk, sched>>
history == <<logical, promised, base, sealed, raced, torn>>
vars == <<store, eng, wr, rty, remote, clock, nfid, faults, crashes, history>>

-----------------------------------------------------------------------------
(* Content.                                                                *)

Hole == 0
Fids == 1 .. MaxFid

\* mutant of Larger: the written block is added to the size
LargerAdds(m, n) == m + n

Larger(m, n) == IF m > n THEN m ELSE n
Prefix(c, n) == SubSeq(c, 1, n)

\* pwrite of one block at off; a gap reads back as holes
Patch(c, off, v) ==
  [i \in 1 .. Larger(Len(c), off + 1) |->
     IF i = off + 1 THEN v ELSE IF i <= Len(c) THEN c[i] ELSE Hole]

\* ftruncate
Resize(c, n) == [i \in 1 .. n |-> IF i <= Len(c) THEN c[i] ELSE Hole]

Put(f, k, v) == [x \in DOMAIN f \cup {k} |-> IF x = k THEN v ELSE f[x]]
Drop(f, k) == [x \in DOMAIN f \ {k} |-> f[x]]

-----------------------------------------------------------------------------
(* Records.  fid = 0 is the absent record.                                 *)

NoRepl == [id |-> 0, size |-> 0]

NoRec == [fid |-> 0, size |-> 0, stamp |-> 0, frozen |-> FALSE,
          started |-> FALSE, repl |-> NoRepl, hash |-> {}, fail |-> FALSE]

NewRec(f, n, t) == [NoRec EXCEPT !.fid = f, !.size = n, !.stamp = t]

Present(r) == r.fid # 0

\* mutant of Same: a generation is recognised by its fid alone
SameFidOnly(a, b) == Present(a) /\ a.fid = b.fid

\* sameUploadRecord: neither Frozen, SourceHashes nor UploadStarted is compared
Same(a, b) ==
  /\ Present(a) /\ a.fid = b.fid /\ a.size = b.size /\ a.stamp = b.stamp
  /\ a.repl = b.repl /\ a.fail = b.fail

\* what a journal line keeps of a record: UploadStarted is not serialized
Journaled(r) == [r EXCEPT !.started = FALSE]

NoTrk == [on |-> FALSE, dirty |-> FALSE, fed |-> <<>>]

\* mutant of HashWrite: a write out of order is skipped instead of ending the hash
HashWriteSkips(r, off, v) ==
  LET t == trk[r.fid] IN
  IF ~t.on
  THEN IF r.size = 0 /\ off = 0
       THEN [on |-> TRUE, dirty |-> FALSE, fed |-> <<v>>] ELSE NoTrk
  ELSE IF t.dirty \/ off # Len(t.fed) THEN t ELSE [t EXCEPT !.fed = Append(@, v)]

\* HashTracker.Write of block v at off for record r
HashWrite(r, off, v) ==
  LET t == trk[r.fid] IN
  IF ~t.on
  THEN IF r.size = 0 /\ off = 0
       THEN [on |-> TRUE, dirty |-> FALSE, fed |-> <<v>>] ELSE NoTrk
  ELSE IF t.dirty \/ off # Len(t.fed)
  THEN [t EXCEPT !.dirty = TRUE] ELSE [t EXCEPT !.fed = Append(@, v)]

\* HashTracker.Snapshot: the tracked hash, when it covers exactly n blocks
HashSnapshot(f, n) ==
  LET t == trk[f] IN IF t.on /\ ~t.dirty /\ Len(t.fed) = n THEN {t.fed} ELSE {}

\* HashTracker.Dirty
HashDirty(f) == [trk[f] EXCEPT !.dirty = trk[f].on]

-----------------------------------------------------------------------------
(* Engine and write-path control states.                                   *)

NoEng == [pc |-> "idle", rec |-> NoRec, hash |-> {}, ent |-> 0,
          existing |-> {}, swap |-> FALSE, next |-> NoRec, perm |-> FALSE]
NoWr == [pc |-> "idle", op |-> "none", rec |-> NoRec, new |-> NoRec, at |-> 0]

\* the engine is inside a store transaction and holds txMu
TxHeld == eng.pc \in {"replM", "cleanM", "failM"}

LockFree == wr.pc = "idle"

Finals == {i \in DOMAIN remote : remote[i].name = 0}
Temps(f) == {i \in DOMAIN remote : remote[i].name = f}
FinalData == {remote[i].data : i \in Finals}

\* RemoveStagingIfUnreferenced, given the record that is current afterwards
Unreferenced(fs, f, r) == IF r.fid = f THEN fs ELSE Drop(fs, f)

\* Service.EnqueueAfter of generation f while q is queued: the queue entry, and
\* the staging files left once a different generation has been displaced
Displaced(fs, q, f, r) == IF q \in {0, f} THEN fs ELSE Unreferenced(fs, q, r)

Faulty == faults < MaxFaults
Tick == clock < MaxClock

-----------------------------------------------------------------------------
Init ==
  /\ rec = NoRec /\ disk = NoRec /\ file = <<>> /\ sched = 0
  /\ trk = [f \in Fids |-> NoTrk]
  /\ eng = NoEng /\ wr = NoWr /\ rty = NoRec
  /\ clock = 1 /\ nfid = 0 /\ faults = 0 /\ crashes = 0
  /\ \/ /\ remote = <<>> /\ logical = <<>> /\ promised = {} /\ base = {}
     \/ /\ remote = [i \in {1} |-> [name |-> 0, data |-> <<1>>]]
        /\ logical = <<1>> /\ promised = {<<1>>} /\ base = {<<1>>}
  /\ sealed = base /\ raced = FALSE /\ torn = FALSE

-----------------------------------------------------------------------------
(* The write path.  Every operation runs under the path lock.              *)

\* VFS.Create: a new empty generation replaces whatever record there is
Create ==
  /\ "create" \in Requests /\ LockFree /\ ~TxHeld /\ nfid < MaxFid /\ Tick
  /\ LET f == nfid + 1
         r == NewRec(f, 0, clock + 1)
         gone == IF rec.frozen THEN 0 ELSE rec.fid
     IN /\ rec' = r /\ disk' = r
        /\ file' = Drop(Put(file, f, <<>>), gone)
        /\ trk' = [g \in Fids |-> IF g = f THEN [NoTrk EXCEPT !.on = TRUE]
                                  ELSE IF g = gone THEN NoTrk ELSE trk[g]]
  /\ nfid' = nfid + 1 /\ clock' = clock + 1
  /\ logical' = <<>>
  /\ promised' = IF promised = {} THEN {} ELSE promised \cup {<<>>}
  /\ UNCHANGED <<sched, eng, wr, rty, remote, faults, crashes, base, raced, torn, sealed>>

\* WriteAt and Truncate, first part: read the record under the path lock
OpenForWrite(op, at) ==
  /\ op \in Requests /\ LockFree /\ Tick /\ Present(rec)
  /\ wr' = [NoWr EXCEPT !.pc = "read", !.op = op, !.rec = rec, !.at = at]
  /\ UNCHANGED <<store, eng, rty, remote, clock, nfid, faults, crashes, history>>

\* the same without a record: stage the remote content (stageExisting), or
\* create an empty file
StageForWrite(op, at) ==
  /\ op \in Requests /\ LockFree /\ Tick /\ ~Present(rec) /\ ~TxHeld /\ nfid < MaxFid
  /\ \E c \in IF Finals = {} THEN {<<>>} ELSE FinalData :
       LET f == nfid + 1
           r == NewRec(f, Len(c), clock + 1)
       IN /\ rec' = r /\ disk' = r /\ file' = Put(file, f, c)
          /\ trk' = [trk EXCEPT ![f] = [on |-> TRUE, dirty |-> FALSE, fed |-> c]]
          /\ wr' = [NoWr EXCEPT !.pc = "read", !.op = op, !.rec = r, !.at = at]
          /\ logical' = IF promised = {} THEN c ELSE logical
  /\ nfid' = nfid + 1 /\ clock' = clock + 1
  /\ UNCHANGED <<sched, eng, rty, remote, faults, crashes, promised, base, sealed, raced, torn>>

\* appendsToFrozenGeneration
AppendsToFrozen(r, off) ==
  r.frozen /\ r.started /\ r.repl = NoRepl /\ off >= r.size

\* the read record can be written where it is
InPlace ==
  \/ ~wr.rec.frozen
  \/ wr.op = "write" /\ AppendsToFrozen(wr.rec, wr.at)

\* mutant of Reusable: the claim of an upload is not respected
ReusableClaimed ==
  rec.fid = wr.rec.fid /\ rec.frozen /\ rec.repl = NoRepl /\ ~rec.fail

\* mutant of Reusable: a recorded replacement candidate is not respected
ReusableSwitching ==
  rec.fid = wr.rec.fid /\ rec.frozen /\ ~rec.started /\ ~rec.fail

\* TryReuseFrozenStaging succeeds on the current record
Reusable ==
  /\ rec.fid = wr.rec.fid /\ rec.frozen /\ ~rec.started
  /\ rec.repl = NoRepl /\ ~rec.fail

\* writeTarget: keep the generation, revive the frozen one, or rotate to a
\* copy of it (CopyStagingContent copies nothing when the source is gone)
WriteTarget ==
  /\ wr.pc = "read"
  /\ \/ /\ InPlace
        /\ wr' = [wr EXCEPT !.pc = "target"]
        /\ UNCHANGED <<rec, disk, file, trk, nfid, clock>>
     \/ /\ ~InPlace /\ Reusable /\ ~TxHeld /\ Tick
        /\ LET r == [rec EXCEPT !.frozen = FALSE, !.hash = {}, !.stamp = clock + 1]
           IN rec' = r /\ wr' = [wr EXCEPT !.pc = "target", !.rec = r]
        /\ clock' = clock + 1
        /\ UNCHANGED <<disk, file, trk, nfid>>
     \/ /\ ~InPlace /\ ~Reusable /\ ~TxHeld /\ Tick /\ nfid < MaxFid
        /\ LET f == nfid + 1
               c == IF wr.rec.fid \in DOMAIN file THEN file[wr.rec.fid] ELSE <<>>
               r == NewRec(f, Len(c), clock + 1)
           IN /\ rec' = r /\ disk' = r /\ file' = Put(file, f, c)
              /\ trk' = [trk EXCEPT ![f] = [on |-> TRUE, dirty |-> FALSE, fed |-> c]]
              /\ wr' = [wr EXCEPT !.pc = "target", !.rec = r]
        /\ nfid' = nfid + 1 /\ clock' = clock + 1
  /\ raced' = (raced \/ (~InPlace /\ ~Reusable /\ rec.fid # wr.rec.fid))
  /\ UNCHANGED <<sched, eng, rty, remote, faults, crashes, logical, promised, base, torn, sealed>>

\* WriteStagingAt (opened with O_CREATE) and HashTracker.Write
WriteFile ==
  /\ wr.pc = "target" /\ wr.op = "write" /\ Tick
  /\ LET f == wr.rec.fid
         v == clock + 1
         c == IF f \in DOMAIN file THEN file[f] ELSE <<>>
     IN /\ file' = Put(file, f, Patch(c, wr.at, v))
        /\ trk' = [trk EXCEPT ![f] = HashWrite(wr.rec, wr.at, v)]
        /\ logical' = Patch(logical, wr.at, v)
  /\ promised' = IF promised = {} THEN {} ELSE promised \cup {logical'}
  /\ wr' = [wr EXCEPT !.pc = "wrote"]
  /\ UNCHANGED <<rec, disk, sched, eng, rty, remote, clock, nfid, faults, crashes,
                 base, sealed, raced, torn>>

\* a local failure: the copy of a rotation is abandoned, or the staging file cannot
\* be written or truncated; what writeTarget already did stays
WriteFails ==
  /\ wr.pc = "target" \/ (wr.pc = "read" /\ ~InPlace /\ ~Reusable)
  /\ Faulty /\ faults' = faults + 1
  /\ wr' = NoWr
  /\ UNCHANGED <<store, eng, rty, remote, clock, nfid, crashes, history>>

\* UpdateUploadTransient: the copy read at the start, with the new size and
\* stamp, becomes the record whatever the record is now
WriteUpdate ==
  /\ wr.pc = "wrote" /\ Tick
  /\ rec' = [wr.rec EXCEPT !.size = Larger(wr.rec.size, wr.at + 1), !.stamp = clock + 1]
  /\ raced' = (raced \/ ~Same(rec, wr.rec))
  /\ wr' = NoWr /\ clock' = clock + 1
  /\ UNCHANGED <<disk, file, trk, sched, eng, rty, remote, nfid, faults, crashes,
                 logical, promised, base, sealed, torn>>

\* Truncate, second part: TruncateStaging and HashTracker.Dirty, then SavePending;
\* when the save fails the file is truncated all the same
TruncateFile ==
  /\ wr.pc = "target" /\ wr.op = "truncate" /\ ~TxHeld
  /\ LET f == wr.rec.fid
         c == IF f \in DOMAIN file THEN file[f] ELSE <<>>
         r == [wr.rec EXCEPT !.size = wr.at, !.stamp = clock + 1]
     IN /\ file' = Put(file, f, Resize(c, wr.at))
        /\ trk' = [trk EXCEPT ![f] = HashDirty(f)]
        /\ \/ /\ Tick /\ clock' = clock + 1
              /\ rec' = r /\ disk' = Journaled(r)
              /\ raced' = (raced \/ ~Same(rec, wr.rec))
              /\ UNCHANGED faults
           \/ /\ Faulty /\ faults' = faults + 1
              /\ UNCHANGED <<rec, disk, raced, clock>>
  /\ logical' = Resize(logical, wr.at)
  /\ promised' = IF promised = {} THEN {} ELSE promised \cup {Resize(logical, wr.at)}
  /\ wr' = NoWr
  /\ UNCHANGED <<sched, eng, rty, remote, nfid, crashes, base, torn, sealed>>

\* Flush, first part: sync, size and hash of the staging file of the record
FlushRead ==
  /\ "flush" \in Requests /\ LockFree /\ Present(rec) /\ rec.fid \in DOMAIN file
  /\ LET n == Len(file[rec.fid])
         h == HashSnapshot(rec.fid, n)
         r == [rec EXCEPT !.size = n, !.frozen = TRUE,
                          !.hash = IF h = {} THEN @ ELSE h]
     IN wr' = [NoWr EXCEPT !.pc = "flush", !.op = "flush", !.rec = rec, !.new = r]
  /\ UNCHANGED <<store, eng, rty, remote, clock, nfid, faults, crashes, history>>

\* Flush without a pending record is ignored, and succeeds
FlushIgnored ==
  /\ "flush" \in Requests /\ LockFree /\ ~Present(rec) /\ promised # {logical}
  /\ promised # {}
  /\ promised' = {logical}
  /\ UNCHANGED <<store, eng, wr, rty, remote, clock, nfid, faults, crashes,
                 logical, base, raced, torn, sealed>>

\* Flush, second part: SavePending and EnqueueAfter; or the save fails
FlushSave ==
  /\ wr.pc = "flush" /\ ~TxHeld
  /\ \/ /\ Tick
        /\ LET r == [wr.new EXCEPT !.stamp = clock + 1]
           IN /\ rec' = r /\ disk' = Journaled(r) /\ sched' = r.fid
              /\ file' = Displaced(file, sched, r.fid, r)
        /\ raced' = (raced \/ ~Same(rec, wr.rec) \/ rec.started # wr.rec.started)
        /\ promised' = {logical} /\ sealed' = sealed \cup {logical}
        /\ clock' = clock + 1 /\ UNCHANGED faults
     \/ /\ Faulty /\ faults' = faults + 1
        /\ UNCHANGED <<rec, disk, file, sched, promised, sealed, raced, clock>>
  /\ wr' = NoWr
  /\ UNCHANGED <<trk, eng, rty, remote, nfid, crashes, logical, base, torn>>

-----------------------------------------------------------------------------
(* Explicit retry and discard.  Neither takes the path lock.               *)

\* RetryByID: PendingByID
RetryRead ==
  /\ "retry" \in Requests /\ ~Present(rty) /\ Present(rec)
  /\ rty' = rec
  /\ UNCHANGED <<store, eng, wr, remote, clock, nfid, faults, crashes, history>>

\* Service.Retry: SaveUploadExact of the copy with the failure cleared, then
\* CancelUpload and EnqueueAfter of the record now stored
RetrySave ==
  /\ Present(rty) /\ ~TxHeld /\ Tick
  /\ LET r == [rty EXCEPT !.fail = FALSE, !.stamp = clock + 1]
     IN rec' = r /\ disk' = Journaled(r) /\ sched' = r.fid
  /\ raced' = (raced \/ ~Same(rec, rty) \/ rec.frozen # rty.frozen
                             \/ rec.started # rty.started)
  /\ rty' = NoRec /\ clock' = clock + 1
  /\ UNCHANGED <<file, trk, eng, wr, remote, nfid, faults, crashes,
                 logical, promised, base, torn, sealed>>

\* the committed remote entry is gone, or is the entry an upload may roll back
Switching ==
  /\ base # {}
  /\ \/ Finals = {}
     \/ eng.pc = "swap"
     \/ eng.pc # "idle" /\ {eng.ent, eng.rec.repl.id} \cap Finals # {}

\* Domain.Discard: drop the queue entry, the record, its staging and its hashes
Discard ==
  /\ "discard" \in Requests /\ Present(rec) /\ ~TxHeld
  /\ rec' = NoRec /\ disk' = NoRec /\ sched' = 0
  /\ file' = Drop(file, rec.fid)
  /\ trk' = [trk EXCEPT ![rec.fid] = NoTrk]
  /\ raced' = (raced \/ ~LockFree \/ Present(rty))
  /\ torn' = (torn \/ Switching)
  /\ promised' = IF base = {} THEN {} ELSE base \cup FinalData
  /\ logical' = CHOOSE c \in IF FinalData # {} THEN FinalData
                              ELSE IF base # {} THEN base ELSE {<<>>} : TRUE
  /\ UNCHANGED <<eng, wr, rty, remote, clock, nfid, faults, crashes, base, sealed>>

-----------------------------------------------------------------------------
(* The upload worker: Receive, ProcessPending and Engine.Execute.          *)

Released == eng' = NoEng

\* RequeueIfFrozen(rec) after fs is what is left of the staging directory
RequeueIfFrozen(fs) ==
  IF Present(rec) /\ rec.frozen /\ ~rec.fail
  THEN sched' = rec.fid /\ file' = Displaced(fs, sched, rec.fid, rec)
  ELSE sched' = sched /\ file' = fs

\* Service.Receive: claim the queued path if its current record is eligible
Receive ==
  /\ eng.pc = "idle" /\ sched # 0
  /\ sched' = 0
  /\ IF Present(rec) /\ rec.frozen /\ ~rec.fail
     THEN eng' = [NoEng EXCEPT !.pc = "recv", !.rec = rec]
     ELSE UNCHANGED eng
  /\ UNCHANGED <<rec, disk, file, trk, wr, rty, remote, clock, nfid, faults, crashes, history>>

\* ProcessPending's checks and MarkUploadStarted
Claim ==
  /\ eng.pc = "recv"
  /\ IF Same(rec, eng.rec)
     THEN /\ rec' = [rec EXCEPT !.started = TRUE]
          /\ eng' = [eng EXCEPT !.pc = "claimed", !.rec = rec']
          /\ UNCHANGED <<file, sched>>
     ELSE /\ RequeueIfFrozen(Unreferenced(file, eng.rec.fid, rec))
          /\ Released /\ UNCHANGED rec
  /\ UNCHANGED <<disk, trk, wr, rty, remote, clock, nfid, faults, crashes, history>>

\* snapshotPending, under the path lock
Snapshot ==
  /\ eng.pc = "claimed" /\ LockFree
  /\ LET f == eng.rec.fid
         n == eng.rec.size
     IN IF f \in DOMAIN file /\ Len(file[f]) >= n
        THEN LET h == IF eng.rec.hash # {} THEN eng.rec.hash ELSE HashSnapshot(f, n)
             IN eng' = [eng EXCEPT !.pc = "snapped",
                                   !.hash = IF h # {} THEN h ELSE {Prefix(file[f], n)}]
        ELSE eng' = [eng EXCEPT !.pc = "fail", !.perm = FALSE]
  /\ UNCHANGED <<store, wr, rty, remote, clock, nfid, faults, crashes, history>>

\* freezeSnapshot: the record must still be current
Recheck ==
  /\ eng.pc = "snapped"
  /\ IF Same(rec, eng.rec)
     THEN eng' = [eng EXCEPT !.pc = "prepare"] /\ UNCHANGED <<file, sched>>
     ELSE RequeueIfFrozen(Unreferenced(file, eng.rec.fid, rec)) /\ Released
  /\ UNCHANGED <<rec, disk, trk, wr, rty, remote, clock, nfid, faults, crashes, history>>

\* a remote or journal call of the engine fails: the attempt is a failure
Fails(perm) ==
  /\ Faulty /\ faults' = faults + 1
  /\ eng' = [eng EXCEPT !.pc = "fail", !.perm = perm]

\* TargetIndex.prepare: choose the upload name, remove stale temporaries
Prepare ==
  /\ eng.pc = "prepare"
  /\ LET r == eng.rec.repl
         existing == Finals \ {r.id}
         stale == Temps(eng.rec.fid) \ {r.id}
     IN \/ /\ remote' = [i \in DOMAIN remote \ stale |-> remote[i]]
           /\ eng' = [eng EXCEPT !.existing = existing,
                                 !.swap = r.id \notin Finals /\ (r # NoRepl \/ existing # {}),
                                 !.ent = r.id,
                                 !.perm = TRUE,
                                 !.pc = IF r = NoRepl THEN "put"
                                        ELSE IF r.size = eng.rec.size THEN "check"
                                        ELSE "fail"]
           /\ UNCHANGED faults
        \/ /\ \E perm \in BOOLEAN : Fails(perm)
           /\ \E gone \in SUBSET stale :
                remote' = [i \in DOMAIN remote \ gone |-> remote[i]]
  /\ UNCHANGED <<store, wr, rty, clock, nfid, crashes, history>>

\* PutSource streams the first Size blocks of the staging file; a failed call
\* may have created the entry all the same
PutSource ==
  /\ eng.pc = "put"
  /\ LET f == eng.rec.fid
         n == eng.rec.size
         readable == f \in DOMAIN file /\ Len(file[f]) >= n
         entry == [name |-> IF eng.existing = {} THEN 0 ELSE f,
                   data |-> Prefix(file[f], n)]
     IN \/ /\ readable /\ Tick
           /\ remote' = Put(remote, clock + 1, entry) /\ clock' = clock + 1
           /\ \/ /\ eng' = [eng EXCEPT !.ent = clock + 1,
                              !.pc = IF eng.existing = {} THEN "check" ELSE "record"]
                 /\ UNCHANGED faults
              \/ Fails(FALSE)
        \/ /\ \E perm \in BOOLEAN : Fails(perm)
           /\ UNCHANGED <<remote, clock>>
        \/ /\ ~readable /\ eng' = [eng EXCEPT !.pc = "fail", !.perm = FALSE]
           /\ UNCHANGED <<remote, clock, faults>>
  /\ UNCHANGED <<store, wr, rty, nfid, crashes, history>>

\* RecordUploadReplacementIfUnchanged, up to the journal append
RecordReplacement ==
  /\ eng.pc = "record"
  /\ \/ /\ Same(rec, eng.rec) /\ Tick
        /\ LET r == [rec EXCEPT !.repl = [id |-> eng.ent, size |-> rec.size],
                                !.stamp = clock + 1]
           IN disk' = Journaled(r) /\ eng' = [eng EXCEPT !.pc = "replM", !.next = r]
        /\ clock' = clock + 1 /\ UNCHANGED faults
     \/ /\ Same(rec, eng.rec) /\ Fails(FALSE)
        /\ UNCHANGED <<disk, clock>>
     \/ /\ ~Same(rec, eng.rec) /\ eng' = [eng EXCEPT !.pc = "rollback"]
        /\ UNCHANGED <<disk, clock, faults>>
  /\ UNCHANGED <<rec, file, trk, sched, wr, rty, remote, nfid, crashes, history>>

\* RecordUploadReplacementIfUnchanged, the memory update
RecordReplacementApply ==
  /\ eng.pc = "replM"
  /\ rec' = eng.next
  /\ raced' = (raced \/ ~Same(rec, eng.rec))
  /\ eng' = [eng EXCEPT !.pc = "check", !.rec = eng.next]
  /\ UNCHANGED <<disk, file, trk, sched, wr, rty, remote, clock, nfid, faults, crashes,
                 logical, promised, base, torn, sealed>>

\* Execute: the record must still be current before the remote is switched
Check ==
  /\ eng.pc = "check"
  /\ eng' = [eng EXCEPT !.pc = IF ~Same(rec, eng.rec) THEN "rollback"
                               ELSE IF eng.swap THEN "swap" ELSE "commit"]
  /\ UNCHANGED <<store, wr, rty, remote, clock, nfid, faults, crashes, history>>

\* replaceUploadedFile: remove the existing entries one by one, then rename; a
\* failed call may have taken effect all the same
Swap ==
  /\ eng.pc = "swap"
  /\ \/ /\ \E i \in eng.existing :
             /\ remote' = Drop(remote, i)
             /\ \/ eng' = [eng EXCEPT !.existing = @ \ {i}] /\ UNCHANGED faults
                \/ Fails(FALSE)
     \/ /\ eng.existing = {} /\ eng.ent \in DOMAIN remote
        /\ remote' = [remote EXCEPT ![eng.ent].name = 0]
        /\ \/ eng' = [eng EXCEPT !.pc = "commit"] /\ UNCHANGED faults
           \/ Fails(FALSE)
     \/ /\ \E perm \in BOOLEAN : Fails(perm)
        /\ UNCHANGED remote
     \/ /\ eng.existing = {} /\ eng.ent \notin DOMAIN remote
        /\ eng' = [eng EXCEPT !.pc = "fail", !.perm = FALSE]
        /\ UNCHANGED <<remote, faults>>
  /\ UNCHANGED <<store, wr, rty, clock, nfid, crashes, history>>

\* finalizeUpload: RemoveUploadIfUnchanged, up to the journal append; when the
\* append fails the attempt ends without being queued again
Commit ==
  /\ eng.pc = "commit"
  /\ \/ /\ Same(rec, eng.rec)
        /\ disk' = NoRec /\ eng' = [eng EXCEPT !.pc = "cleanM"]
        /\ UNCHANGED faults
     \/ /\ Same(rec, eng.rec) /\ Faulty /\ faults' = faults + 1
        /\ Released /\ UNCHANGED disk
     \/ /\ ~Same(rec, eng.rec) /\ eng' = [eng EXCEPT !.pc = "rollback"]
        /\ UNCHANGED <<disk, faults>>
  /\ UNCHANGED <<rec, file, trk, sched, wr, rty, remote, clock, nfid, crashes, history>>

\* RemoveUploadIfUnchanged, the memory update: a record that moved while the
\* clean line was being appended stays, and is rolled back
CommitApply ==
  /\ eng.pc = "cleanM"
  /\ IF Same(rec, eng.rec)
     THEN /\ rec' = NoRec /\ file' = Drop(file, eng.rec.fid)
          /\ base' = FinalData
          /\ eng' = [eng EXCEPT !.pc = "sweep"]
     ELSE /\ eng' = [eng EXCEPT !.pc = "rollback"]
          /\ UNCHANGED <<rec, file, base>>
  /\ raced' = (raced \/ ~Same(rec, eng.rec) \/ wr.rec.fid = eng.rec.fid)
  /\ UNCHANGED <<disk, trk, sched, wr, rty, remote, clock, nfid, faults, crashes,
                 logical, promised, torn, sealed>>

\* finalizeUpload: RemoveStaging and ClearUploadHashes of the finished upload
Sweep ==
  /\ eng.pc = "sweep"
  /\ file' = Drop(file, eng.rec.fid)
  /\ trk' = [trk EXCEPT ![eng.rec.fid] = NoTrk]
  /\ Released
  /\ UNCHANGED <<rec, disk, sched, wr, rty, remote, clock, nfid, faults, crashes, history>>

\* rollbackUploadedEntry: the error of the remote removal is ignored
Rollback ==
  /\ eng.pc = "rollback"
  /\ \/ remote' = Drop(remote, eng.ent) /\ UNCHANGED faults
     \/ Faulty /\ faults' = faults + 1 /\ UNCHANGED remote
  /\ RequeueIfFrozen(Unreferenced(file, eng.rec.fid, rec))
  /\ trk' = [trk EXCEPT ![eng.rec.fid] = NoTrk]
  /\ Released
  /\ UNCHANGED <<rec, disk, wr, rty, clock, nfid, crashes, history>>

\* recordFailure, up to the journal append; when the append fails, or the
\* record moved on, the attempt ends without being queued again
RecordFailure ==
  /\ eng.pc = "fail"
  /\ \/ /\ Same(rec, eng.rec) /\ Tick
        /\ LET r == [rec EXCEPT !.fail = eng.perm, !.stamp = clock + 1]
           IN disk' = Journaled(r) /\ eng' = [eng EXCEPT !.pc = "failM", !.next = r]
        /\ clock' = clock + 1 /\ UNCHANGED <<file, faults>>
     \/ /\ Same(rec, eng.rec) /\ Faulty /\ faults' = faults + 1
        /\ Released /\ UNCHANGED <<disk, clock, file>>
     \/ /\ ~Same(rec, eng.rec) /\ file' = Unreferenced(file, eng.rec.fid, rec)
        /\ Released /\ UNCHANGED <<disk, clock, faults>>
  /\ UNCHANGED <<rec, trk, sched, wr, rty, remote, nfid, crashes, history>>

\* recordFailure, the memory update and the requeue of a retryable failure
RecordFailureApply ==
  /\ eng.pc = "failM"
  /\ rec' = eng.next
  /\ raced' = (raced \/ ~Same(rec, eng.rec))
  /\ IF eng.perm THEN UNCHANGED <<sched, file>>
     ELSE sched' = eng.next.fid /\ file' = Displaced(file, sched, eng.next.fid, eng.next)
  /\ Released
  /\ UNCHANGED <<disk, trk, wr, rty, remote, clock, nfid, faults, crashes,
                 logical, promised, base, torn, sealed>>

-----------------------------------------------------------------------------
(* The process stops at any point and starts again.                        *)

\* loadJournal: a record whose staging file is missing is skipped
Loaded == IF disk.fid \in DOMAIN file THEN disk ELSE NoRec

\* Resume: a frozen file that shrank has failed, any other change of size
\* makes the generation mutable again
Resumed(r, t) ==
  IF ~Present(r) \/ Len(file[r.fid]) = r.size THEN r
  ELSE IF r.frozen /\ Len(file[r.fid]) < r.size
  THEN [r EXCEPT !.fail = TRUE, !.stamp = t]
  ELSE [r EXCEPT !.size = Len(file[r.fid]), !.hash = {}, !.frozen = FALSE, !.stamp = t]

CrashAndResume ==
  /\ crashes < MaxCrashes /\ Tick
  /\ LET r == Resumed(Loaded, clock + 1)
     IN /\ rec' = r /\ disk' = r
        /\ file' = [f \in DOMAIN file \cap {r.fid} |-> file[f]]
        /\ sched' = IF Present(r) /\ r.frozen /\ ~r.fail THEN r.fid ELSE 0
        /\ logical' \in IF Present(r) THEN {file[r.fid]}
                        ELSE IF Finals # {} THEN FinalData ELSE {<<>>}
        /\ torn' = (torn \/ (r.repl # NoRepl /\ ~r.frozen))
  /\ trk' = [f \in Fids |-> NoTrk]
  /\ eng' = NoEng /\ wr' = NoWr /\ rty' = NoRec
  /\ clock' = clock + 1 /\ crashes' = crashes + 1
  /\ UNCHANGED <<remote, nfid, faults, promised, base, raced, sealed>>

-----------------------------------------------------------------------------
UserStep ==
  \/ Create
  \/ \E n \in 0 .. MaxSize - 1 : OpenForWrite("write", n) \/ StageForWrite("write", n)
  \/ \E n \in 0 .. MaxSize : OpenForWrite("truncate", n) \/ StageForWrite("truncate", n)
  \/ WriteTarget \/ WriteFile \/ WriteFails \/ WriteUpdate \/ TruncateFile
  \/ FlushRead \/ FlushIgnored \/ FlushSave
  \/ RetryRead \/ RetrySave \/ Discard

EngineStep ==
  \/ Receive \/ Claim \/ Snapshot \/ Recheck \/ Prepare \/ PutSource
  \/ RecordReplacement \/ RecordReplacementApply \/ Check \/ Swap
  \/ Commit \/ CommitApply \/ Sweep \/ Rollback
  \/ RecordFailure \/ RecordFailureApply

Next == UserStep \/ EngineStep \/ CrashAndResume

Spec == Init /\ [][Next]_vars

-----------------------------------------------------------------------------
(* Properties.                                                             *)

Content == {c \in Seq(0 .. MaxClock) : Len(c) <= MaxSize}

Record ==
  [fid : 0 .. MaxFid, size : 0 .. MaxSize, stamp : 0 .. MaxClock,
   frozen : BOOLEAN, started : BOOLEAN,
   repl : [id : 0 .. MaxClock, size : 0 .. MaxSize],
   hash : SUBSET Content, fail : BOOLEAN]

EnginePCs == {"idle", "recv", "claimed", "snapped", "prepare", "put", "record", "replM",
              "check", "swap", "commit", "cleanM", "sweep", "rollback", "fail", "failM"}

Engine ==
  [pc : EnginePCs, rec : Record, hash : SUBSET Content, ent : 0 .. MaxClock,
   existing : SUBSET (1 .. MaxClock), swap : BOOLEAN, next : Record, perm : BOOLEAN]

Writer ==
  [pc : {"idle", "read", "target", "wrote", "flush"},
   op : {"none", "write", "truncate", "flush"},
   rec : Record, new : Record, at : 0 .. MaxSize]

Tracker == [on : BOOLEAN, dirty : BOOLEAN, fed : Content]

TypeStore ==
  /\ rec \in Record /\ disk \in Record /\ sched \in 0 .. MaxFid
  /\ DOMAIN file \subseteq Fids /\ \A f \in DOMAIN file : file[f] \in Content
  /\ trk \in [Fids -> Tracker]

TypeActors ==
  /\ eng \in Engine /\ wr \in Writer
  /\ wr.op = "write" \/ wr.pc = "wrote" => wr.at < MaxSize
  /\ wr.pc # "idle" => Present(wr.rec)
  /\ rty \in Record

TypeWorld ==
  /\ DOMAIN remote \subseteq 1 .. MaxClock
  /\ \A i \in DOMAIN remote : remote[i] \in [name : 0 .. MaxFid, data : Content]
  /\ clock \in 1 .. MaxClock /\ nfid \in 0 .. MaxFid
  /\ faults \in 0 .. MaxFaults /\ crashes \in 0 .. MaxCrashes

TypeHistory ==
  /\ logical \in Content /\ promised \subseteq Content /\ base \subseteq Content
  /\ sealed \subseteq Content /\ raced \in BOOLEAN /\ torn \in BOOLEAN

\* Every variable keeps its shape: sizes never exceed the largest write, fids
\* and stamps are ones that can be handed out (PendingUpload in vfstypes.go).
TypeOK == TypeStore /\ TypeActors /\ TypeWorld /\ TypeHistory

\* What a crash at this moment would leave under the path: the staged content
\* of the journaled record, or else the remote file.
Recovered == IF disk.fid \in DOMAIN file THEN {file[disk.fid]} ELSE FinalData

\* Content that Flush confirmed is never lost: at every moment, whatever the
\* engine, the write path, the remote or a crash did, what recovery would find
\* is the last flushed content or a later write to it (Flush, Execute,
\* replaceUploadedFile, rollbackUploadedEntry, finalizeUpload, Resume) - as
\* long as no stale record copy was written back and no discard fell into a
\* switch of remote entries.
FlushedContentSafe ==
  promised # {} /\ ~raced /\ ~torn => Recovered # {} /\ Recovered \subseteq promised

\* When finalizeUpload retires a record, the remote holds exactly one file under
\* the final name and it is what a reader of the path expects.
CommitIsCurrent ==
  [][ eng.pc = "cleanM" /\ eng'.pc = "sweep" /\ ~raced' /\ ~torn
        => FinalData = {logical} ]_vars

\* A replacement candidate that is recorded and still on the remote holds the
\* staged bytes of its record, also after a crash: Execute does not upload them
\* again, and replaceUploadedFile removes the old entries for it.
CandidateIntact ==
  /\ ~raced /\ ~torn /\ disk.frozen /\ disk.repl.size = disk.size
  /\ disk.repl.id \in DOMAIN remote /\ disk.fid \in DOMAIN file
  => remote[disk.repl.id].data = Prefix(file[disk.fid], disk.size)

Streaming == {"claimed", "snapped", "prepare", "put"}

\* MarkUploadStarted and TryReuseFrozenStaging exclude each other: while an
\* engine is reading a generation, no step of the write path changes the bytes
\* below the claimed size (CONTEXT.md, "Claimed Upload Generation").
ClaimedBytesImmutable ==
  [][ LET f == eng.rec.fid IN
      eng.pc \in Streaming /\ eng'.pc \in Streaming /\ ~raced'
        /\ f \in DOMAIN file /\ f \in DOMAIN file'
        => \A i \in 1 .. eng.rec.size : i \in DOMAIN file[f] => file'[f][i] = file[f][i] ]_vars

\* The hashes handed to the driver, which may publish a file by its hash alone,
\* were computed from the bytes of this generation and not from bytes that a
\* write, a truncation or a reuse has replaced since: they describe the upload,
\* or a shorter state of it that later appends left in place (HashTracker,
\* snapshotPending).  A reuse is not journaled, so this holds until a restart.
HashesDescribePrefix ==
  eng.pc = "put" /\ eng.rec.fid \in DOMAIN file /\ ~raced /\ crashes = 0 =>
    \E n \in 0 .. eng.rec.size : eng.hash = {Prefix(file[eng.rec.fid], n)}

-----------------------------------------------------------------------------
(* What comments and documents of the code say, and the code does not do.  *)

\* upload_recovery.go:13 and upload-scheduling.md:38: content that was not
\* flushed stays local until the next explicit flush.
UnflushedStaysLocal ==
  \A i \in DOMAIN remote : remote[i].data \in sealed

\* staging.go:69: rotation seeds the new generation with the old staging content,
\* so flushed content is always recoverable, whatever copies were written back.
FlushedContentAlwaysSafe ==
  promised # {} /\ ~torn => Recovered # {} /\ Recovered \subseteq promised

=============================================================================
