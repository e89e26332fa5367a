-------------------------- MODULE UploadSafetyProofs --------------------------
(***************************************************************************)
(* FlushedContentSafe, CandidateIntact and CommitIsCurrent hold for every  *)
(* value of the constants.                                                 *)
(*                                                                         *)
(* SafeInv relates the staged, the journaled and the remote content to     *)
(* what was promised, as long as no stale record copy was written back and *)
(* no discard fell into a switch.  It rests on ClaimInv and RemoteInv.     *)
(***************************************************************************)
EXTENDS UploadClaimProofs

-----------------------------------------------------------------------------
(* The promised content.                                                   *)

\* The staged content of the record.
Staged == file[rec.fid]

\* The first n blocks of the staged content are there, and remote entry i, if it
\* is there too, holds them.
Holds(i, n) ==
  /\ n <= Len(Staged)
  /\ i \in DOMAIN remote => remote[i].data = Prefix(Staged, n)

\* A record stands for the content a reader expects, and the journal names it.
RecordInv ==
  Present(rec) =>
    /\ Staged = logical
    /\ promised # {} => logical \in promised
    /\ rec.frozen => Len(Staged) <= Reach
    /\ eng.pc # "cleanM" => disk.fid = rec.fid

\* A record with a replacement candidate is frozen, has the size it was uploaded
\* with, and the candidate holds its bytes.
CandidateInv ==
  Present(rec) /\ rec.repl # NoRepl =>
    /\ rec.frozen /\ rec.repl.size = rec.size /\ rec.repl.id <= clock
    /\ Holds(rec.repl.id, rec.size)

\* The candidate in the journal is the one in memory, except while the engine has
\* appended the line and not yet updated the memory.
JournalInv ==
  /\ Present(disk) /\ disk.repl # NoRepl /\ eng.pc # "replM" =>
       disk.repl = rec.repl /\ disk.size = rec.size
  /\ eng.pc = "replM" =>
       /\ Present(rec) /\ rec.fid = eng.rec.fid /\ disk.fid = rec.fid
       /\ rec.frozen /\ rec.started /\ disk.size <= rec.size
       /\ disk.size = eng.rec.size /\ disk.repl = [id |-> eng.ent, size |-> disk.size]
       /\ eng.next.frozen /\ eng.next.started /\ eng.next.repl = disk.repl
       /\ Holds(eng.ent, disk.size)
  /\ eng.pc = "failM" => eng.next.repl = eng.rec.repl

\* The write path never works on a generation that has a candidate.
WriterInv ==
  wr.pc # "idle" =>
    /\ wr.rec.repl # NoRepl => wr.rec.frozen /\ wr.pc \notin {"target", "wrote"}
    /\ wr.pc = "flush" => wr.new.repl = wr.rec.repl

Uploading == {"snapped", "prepare", "put", "record", "replM", "check", "swap", "commit", "cleanM"}
Uploaded == {"record", "replM", "check", "swap", "commit", "cleanM"}

\* As long as the record is the one the engine works on, its bytes up to its size
\* are there, may be what the path durably holds, and are what was uploaded.
UploadInv ==
  eng.pc \in Uploading /\ Same(rec, eng.rec) =>
    /\ rec.frozen /\ rec.started /\ rec.size <= Len(Staged)
    /\ promised # {} => Prefix(Staged, rec.size) \in promised
    /\ eng.pc \in Uploaded => Holds(eng.ent, rec.size)

\* Nothing the engine may still do removes the final entry.
Harmless ==
  \/ eng.pc \in {"idle", "sweep", "fail", "failM"}
  \/ /\ eng.pc \notin {"replM", "swap", "commit", "cleanM"}
     /\ eng.ent \notin Finals /\ eng.rec.repl.id \notin Finals

\* Without a record the remote holds the promised content.
VacantInv ==
  ~Present(rec) /\ promised # {} => FinalData = {logical} /\ logical \in promised /\ Harmless

\* Between the clean line and the removal from memory, the remote does.
CleanInv ==
  eng.pc = "cleanM" => Present(rec) /\ (promised # {} => FinalData \subseteq promised)

Safe ==
  RecordInv /\ CandidateInv /\ JournalInv /\ WriterInv /\ UploadInv /\ VacantInv /\ CleanInv

SafeInv == ~raced /\ ~torn => Safe

\* The initial states satisfy it.
LEMMA SafeInit == Init => SafeInv
<1> SUFFICES ASSUME Init PROVE Safe
  BY DEF SafeInv
<1>1. /\ NoRec.fid = 0 /\ NoEng.pc = "idle" /\ NoWr.pc = "idle" /\ rec = NoRec /\ disk = NoRec
      /\ eng = NoEng /\ wr = NoWr
  BY DEF NoRec, NoEng, NoWr, Init
<1>2. RecordInv /\ CandidateInv /\ JournalInv /\ WriterInv /\ UploadInv /\ CleanInv
  BY <1>1 DEF RecordInv, CandidateInv, JournalInv, WriterInv, UploadInv, CleanInv, Present, Same,
              Uploading
<1>3. VacantInv
  <2>1. CASE promised = {}
    BY <2>1 DEF VacantInv
  <2>2. CASE promised # {}
    <3>1. remote = [i \in {1} |-> [name |-> 0, data |-> <<1>>]] /\ logical = <<1>> /\ promised = {<<1>>}
      BY <2>2 DEF Init
    <3>2. Finals = {1}
      BY <3>1 DEF Finals
    <3>3. FinalData = {<<1>>}
      BY <3>1, <3>2 DEF FinalData
    <3> QED
      BY <1>1, <3>1, <3>3 DEF VacantInv, Harmless
  <2> QED
    BY <2>1, <2>2
<1> QED
  BY <1>2, <1>3 DEF Safe

\* Entries the remote keeps have the data they had, and a new one has a new id.
DataKept ==
  \A i \in DOMAIN remote' :
    i = clock + 1 \/ (i \in DOMAIN remote /\ remote'[i].data = remote[i].data)

\* The record and its staged bytes are what they were.
RecordKept ==
  /\ rec'.fid = rec.fid /\ rec'.size = rec.size /\ rec'.frozen = rec.frozen /\ rec'.repl = rec.repl
  /\ Present(rec) => file'[rec.fid] = file[rec.fid]

\* A candidate that was recorded earlier keeps its bytes.
LEMMA HoldsKept ==
  ASSUME clock \in Nat, DataKept, RecordKept, Present(rec),
         NEW i \in Nat, NEW n, i <= clock, Holds(i, n)
  PROVE  n <= Len(file'[rec'.fid]) /\ (i \in DOMAIN remote' => remote'[i].data = Prefix(file'[rec'.fid], n))
BY DEF DataKept, RecordKept, Holds, Staged

\* An engine step that leaves the record, the journal and the write path alone
\* keeps what is said of them.
LEMMA EngineFrame ==
  ASSUME TypeOK, TypeOK', Safe, RecordKept, DataKept, UNCHANGED <<disk, wr, logical, promised>>,
         clock <= clock', eng.pc \notin {"replM", "cleanM"}, eng'.pc \notin {"replM", "failM", "cleanM"}
  PROVE  RecordInv' /\ CandidateInv' /\ JournalInv' /\ WriterInv' /\ CleanInv'
<1>1. clock \in Nat /\ clock' \in Nat /\ rec.repl.id \in Nat /\ Reach' = Reach
  BY RecordType, BoundsAssumption DEF TypeOK, TypeStore, TypeWorld, Reach, RecordKept
<1>2. RecordInv'
  BY <1>1 DEF Safe, RecordInv, RecordKept, Staged, Present
<1>3. CandidateInv'
  <2> SUFFICES ASSUME Present(rec)', (rec.repl # NoRepl)'
               PROVE  (/\ rec.frozen /\ rec.repl.size = rec.size /\ rec.repl.id <= clock
                       /\ Holds(rec.repl.id, rec.size))'
    BY DEF CandidateInv
  <2>1. Present(rec) /\ rec.repl # NoRepl
    BY DEF RecordKept, Present
  <2>2. rec.frozen /\ rec.repl.size = rec.size /\ rec.repl.id <= clock /\ Holds(rec.repl.id, rec.size)
    BY <2>1 DEF Safe, CandidateInv
  <2>3. /\ rec.size <= Len(file'[rec'.fid])
        /\ rec.repl.id \in DOMAIN remote' => remote'[rec.repl.id].data = Prefix(file'[rec'.fid], rec.size)
    BY ZenonT(60), <1>1, <2>1, <2>2, HoldsKept
  <2> QED
    BY <1>1, <2>2, <2>3 DEF RecordKept, Holds, Staged
<1>4. JournalInv'
  BY DEF Safe, JournalInv, RecordKept
<1>5. WriterInv' /\ CleanInv'
  BY DEF Safe, WriterInv, CleanInv
<1> QED
  BY ZenonT(60), <1>2, <1>3, <1>4, <1>5

\* The same of what the engine uploads, when the step neither begins nor
\* publishes an upload.
LEMMA UploadFrame ==
  ASSUME TypeOK, TypeOK', Safe, RecordKept, rec' = rec, promised' = promised,
         eng'.pc \in Uploading => eng.pc \in Uploading /\ eng'.rec = eng.rec,
         eng'.pc \in Uploaded =>
           /\ eng.pc \in Uploaded /\ eng'.ent = eng.ent
           /\ \A i \in DOMAIN remote' : i \in DOMAIN remote /\ remote'[i].data = remote[i].data
  PROVE  UploadInv'
<1> SUFFICES ASSUME eng'.pc \in Uploading, Same(rec', eng'.rec)
             PROVE  /\ rec'.frozen /\ rec'.started /\ rec'.size <= Len(file'[rec'.fid])
                    /\ promised' # {} => Prefix(file'[rec'.fid], rec'.size) \in promised'
                    /\ eng'.pc \in Uploaded => Holds(eng.ent, rec.size)'
  BY DEF UploadInv, Staged, Uploading, Uploaded
<1>1. eng.pc \in Uploading /\ Same(rec, eng.rec) /\ Present(rec)
  BY DEF Same
<1>2. file'[rec'.fid] = Staged
  BY <1>1 DEF RecordKept, Staged
<1>3. /\ rec.frozen /\ rec.started /\ rec.size <= Len(Staged)
      /\ promised # {} => Prefix(Staged, rec.size) \in promised
      /\ eng.pc \in Uploaded => Holds(eng.ent, rec.size)
  BY <1>1 DEF Safe, UploadInv
<1>4. ASSUME eng'.pc \in Uploaded PROVE Holds(eng.ent, rec.size)'
  BY <1>2, <1>3, <1>4 DEF Holds, Staged
<1> QED
  BY <1>2, <1>3, <1>4

\* The same of a path without a record.
LEMMA VacantFrame ==
  ASSUME Safe, UNCHANGED <<rec, logical, promised>>,
         ~Present(rec) /\ promised # {} =>
           Harmless' /\ Finals' = Finals /\ \A i \in Finals : remote'[i].data = remote[i].data
  PROVE  VacantInv'
<1> SUFFICES ASSUME ~Present(rec), promised # {} PROVE VacantInv'
  BY DEF VacantInv
<1>1. FinalData' = FinalData
  BY DEF FinalData
<1> QED
  BY <1>1 DEF Safe, VacantInv

\* A requeue keeps the staging file of the record.
LEMMA RequeueFiles ==
  ASSUME RequeueIfFrozen(Unreferenced(file, eng.rec.fid, rec)), rec.fid \in DOMAIN file
  PROVE  file'[rec.fid] = file[rec.fid]
<1> DEFINE fs == Unreferenced(file, eng.rec.fid, rec)
<1>1. rec.fid \in DOMAIN fs /\ fs[rec.fid] = file[rec.fid]
  BY UnreferencedFiles
<1>2. RequeueIfFrozen(fs)
  OBVIOUS
<1> HIDE DEF fs
<1>3. \A q, f : rec.fid \in DOMAIN Displaced(fs, q, f, rec)
               /\ Displaced(fs, q, f, rec)[rec.fid] = fs[rec.fid]
  BY <1>1, DisplacedFiles
<1> QED
  BY <1>1, <1>2, <1>3 DEF RequeueIfFrozen

\* Engine steps before the upload, without a transaction of the store.
LEMMA SafeBefore ==
  ASSUME TypeOK, TypeOK', ClaimInv, RemoteInv, RemoteInv', Safe, ~raced,
         Receive \/ Claim \/ Snapshot \/ Recheck
  PROVE  Safe'
<1>0. /\ clock \in Nat /\ NoEng.pc = "idle" /\ TypeActors /\ eng \in Engine
      /\ rec \in Record /\ rec' \in Record /\ eng.rec \in Record /\ NoEng.ent = 0
      /\ (Present(rec) => rec.fid \in DOMAIN file)
  BY BoundsAssumption, ActorType DEF TypeOK, TypeStore, TypeWorld, TypeActors, NoEng, ClaimInv, Backed
<1> USE <1>0
<1>1. ASSUME UNCHANGED <<rec, disk, wr, remote, clock, logical, promised>>,
             Present(rec) => file'[rec.fid] = file[rec.fid],
             eng.pc \notin {"replM", "cleanM"}, eng'.pc \notin {"replM", "failM", "cleanM"}
      PROVE  RecordInv' /\ CandidateInv' /\ JournalInv' /\ WriterInv' /\ CleanInv' /\ RecordKept
  <2>1. RecordKept /\ DataKept
    BY <1>1 DEF RecordKept, DataKept
  <2> QED
    BY <1>1, <2>1, EngineFrame
<1>2. CASE Receive
  <2>1. UNCHANGED <<rec, disk, file, wr, remote, clock, logical, promised>> /\ eng.pc = "idle"
    BY <1>2 DEF Receive, history
  <2>2. CASE Present(rec) /\ rec.frozen /\ ~rec.fail
    <3>1. eng'.pc = "recv"
      BY ZenonT(60), <1>2, <2>2, NoType DEF Receive, Engine, NoEng
    <3>2. RecordInv' /\ CandidateInv' /\ JournalInv' /\ WriterInv' /\ CleanInv' /\ RecordKept
      BY ZenonT(60), <1>1, <2>1, <3>1
    <3>3. UploadInv' /\ VacantInv'
      BY <2>1, <2>2, <3>1 DEF UploadInv, Uploading, VacantInv
    <3> QED
      BY <3>2, <3>3 DEF Safe
  <2>3. CASE eng' = eng
    <3>1. RecordInv' /\ CandidateInv' /\ JournalInv' /\ WriterInv' /\ CleanInv' /\ RecordKept
      BY <1>1, <2>1, <2>3
    <3>2. UploadInv'
      BY ZenonT(60), <2>1, <2>3 DEF UploadInv, Uploading
    <3>3. VacantInv'
      BY <2>1, <2>3, VacantFrame DEF Finals, Harmless
    <3> QED
      BY <3>1, <3>2, <3>3 DEF Safe
  <2> QED
    BY <1>2, <2>2, <2>3 DEF Receive
<1>3. ASSUME eng' = NoEng, RequeueIfFrozen(Unreferenced(file, eng.rec.fid, rec)),
             UNCHANGED <<rec, disk, wr, remote, clock, logical, promised>>,
             eng.pc \notin {"replM", "cleanM"}
      PROVE  Safe'
  <2>1. Present(rec) => file'[rec.fid] = file[rec.fid]
    BY ZenonT(60), <1>3, RequeueFiles
  <2>2. RecordInv' /\ CandidateInv' /\ JournalInv' /\ WriterInv' /\ CleanInv' /\ RecordKept
    BY ZenonT(60), <1>1, <1>3, <2>1
  <2>3. UploadInv'
    BY <1>3 DEF UploadInv, Uploading
  <2>4. VacantInv'
    BY <1>3, VacantFrame DEF Finals, Harmless
  <2> QED
    BY <2>2, <2>3, <2>4 DEF Safe
<1>4. CASE Claim
  <2>1. CASE Same(rec, eng.rec)
    <3>1. /\ rec' = [rec EXCEPT !.started = TRUE] /\ eng' = [eng EXCEPT !.pc = "claimed", !.rec = rec']
          /\ eng.pc = "recv" /\ UNCHANGED <<disk, file, wr, remote, clock, logical, promised>>
      BY <1>4, <2>1 DEF Claim, history
    <3>2. RecordKept /\ DataKept /\ eng'.pc = "claimed"
      BY <3>1 DEF Record, Engine, RecordKept, DataKept
    <3>3. RecordInv' /\ CandidateInv' /\ JournalInv' /\ WriterInv' /\ CleanInv'
      BY <3>1, <3>2, EngineFrame
    <3>4. UploadInv' /\ VacantInv'
      BY <2>1, <3>2 DEF UploadInv, Uploading, VacantInv, RecordKept, Same, Present
    <3> QED
      BY <3>3, <3>4 DEF Safe
  <2>2. CASE ~Same(rec, eng.rec)
    BY <1>3, <1>4, <2>2 DEF Claim, Released, history
  <2> QED
    BY <2>1, <2>2
<1>5. CASE Snapshot
  <2>1. /\ UNCHANGED <<rec, disk, file, wr, remote, clock, logical, promised>> /\ eng.pc = "claimed"
        /\ wr.pc = "idle"
    BY <1>5 DEF Snapshot, store, history, LockFree
  <2>2. /\ eng'.pc \in {"snapped", "fail"} /\ eng'.rec = eng.rec /\ eng'.ent = eng.ent
        /\ eng'.pc = "snapped" =>
             eng.rec.fid \in DOMAIN file /\ eng.rec.size <= Len(file[eng.rec.fid])
    <3>1. CASE eng.rec.fid \in DOMAIN file /\ Len(file[eng.rec.fid]) >= eng.rec.size
      <4>1. \E h : eng' = [eng EXCEPT !.pc = "snapped", !.hash = h]
        BY ZenonT(60), <1>5, <3>1 DEF Snapshot
      <4>2. file[eng.rec.fid] \in Content /\ eng.rec.size \in Nat
        BY <3>1, RecordType DEF TypeOK, TypeStore
      <4> QED
        BY <3>1, <4>1, <4>2 DEF Engine, Content
    <3>2. CASE ~(eng.rec.fid \in DOMAIN file /\ Len(file[eng.rec.fid]) >= eng.rec.size)
      <4>1. eng' = [eng EXCEPT !.pc = "fail", !.perm = FALSE]
        BY ZenonT(60), <1>5, <3>2 DEF Snapshot
      <4> QED
        BY <4>1 DEF Engine
    <3> QED
      BY <3>1, <3>2
  <2>3. RecordInv' /\ CandidateInv' /\ JournalInv' /\ WriterInv' /\ CleanInv' /\ RecordKept
    BY ZenonT(60), <1>1, <2>1, <2>2
  <2>4. VacantInv'
    BY ZenonT(60), <2>1, <2>2, VacantFrame DEF Finals, Harmless, Safe, VacantInv
  <2>5. ASSUME eng'.pc = "snapped", Same(rec, eng.rec)
        PROVE  /\ rec.frozen /\ rec.started /\ rec.size <= Len(Staged)
               /\ promised # {} => Prefix(Staged, rec.size) \in promised
    <3>1. Present(rec) /\ rec.fid = eng.rec.fid /\ rec.size = eng.rec.size
      BY ZenonT(60), <2>5 DEF Same
    <3>2. rec.frozen /\ rec.started
      BY ZenonT(60), <2>1, <3>1 DEF ClaimInv, Claimed, Streaming
    <3>3. rec.size <= Len(Staged) /\ Staged \in Content /\ rec.size \in Nat
      BY SMTT(60), <2>2, <2>5, <3>1, RecordType DEF Staged, TypeOK, TypeStore
    <3>4. Len(Staged) <= rec.size /\ Staged = logical /\ (promised # {} => logical \in promised)
      BY ZenonT(60), <2>1, <3>1, <3>2 DEF Safe, RecordInv, Reach
    <3>5. rec.size = Len(Staged)
      BY SMTT(60), <3>3, <3>4 DEF Content
    <3>6. Prefix(Staged, rec.size) = Staged
      BY ZenonT(60), <3>3, <3>5, PrefixWhole
    <3> QED
      BY ZenonT(60), <3>2, <3>3, <3>4, <3>6
  <2>6. UploadInv'
    BY ZenonT(60), <2>1, <2>2, <2>5 DEF UploadInv, Uploading, Uploaded, Staged
  <2> QED
    BY <2>3, <2>4, <2>6 DEF Safe
<1>6. CASE Recheck
  <2>1. CASE Same(rec, eng.rec)
    <3>1. /\ UNCHANGED <<rec, disk, file, wr, remote, clock, logical, promised>> /\ eng.pc = "snapped"
          /\ eng'.pc = "prepare" /\ eng'.rec = eng.rec /\ Present(rec)
      BY ZenonT(60), <1>6, <2>1, PcFields DEF Recheck, history, Same
    <3>2. RecordInv' /\ CandidateInv' /\ JournalInv' /\ WriterInv' /\ CleanInv' /\ RecordKept
      BY ZenonT(60), <1>1, <3>1
    <3>3. UploadInv'
      BY <3>1, <3>2, UploadFrame DEF Uploading, Uploaded
    <3>4. VacantInv'
      BY <3>1 DEF VacantInv
    <3> QED
      BY <3>2, <3>3, <3>4 DEF Safe
  <2>2. CASE ~Same(rec, eng.rec)
    BY <1>3, <1>6, <2>2 DEF Recheck, Released, history
  <2> QED
    BY <2>1, <2>2
<1> QED
  BY ZenonT(60), <1>2, <1>4, <1>5, <1>6

\* Engine steps that work on the remote directory.
LEMMA SafeRemote ==
  ASSUME TypeOK, TypeOK', ClaimInv, RemoteInv, RemoteInv', Safe, ~raced,
         Prepare \/ PutSource \/ Check \/ Swap \/ Sweep \/ Rollback
  PROVE  Safe'
<1>0. /\ clock \in Nat /\ clock' \in Nat /\ NoEng.pc = "idle" /\ TypeActors /\ eng \in Engine
      /\ rec \in Record /\ eng.rec \in Record /\ DOMAIN remote \subseteq Nat
      /\ (Present(rec) => rec.fid \in DOMAIN file)
  BY SMTT(60), BoundsAssumption, ActorType DEF TypeOK, TypeStore, TypeWorld, TypeActors, NoEng, ClaimInv, Backed
<1> USE <1>0
<1>1. ASSUME UNCHANGED <<rec, disk, wr, logical, promised>>, clock <= clock', DataKept,
             Present(rec) => file'[rec.fid] = file[rec.fid],
             eng.pc \notin {"replM", "cleanM"}, eng'.pc \notin {"replM", "failM", "cleanM"}
      PROVE  RecordInv' /\ CandidateInv' /\ JournalInv' /\ WriterInv' /\ CleanInv' /\ RecordKept
  <2>1. RecordKept
    BY <1>1 DEF RecordKept
  <2> QED
    BY ZenonT(60), <1>1, <2>1, EngineFrame
<1>2. CASE Prepare
  <2> DEFINE r == eng.rec.repl
             existing == Finals \ {r.id}
             stale == Temps(eng.rec.fid) \ {r.id}
  <2>0. /\ eng.pc = "prepare" /\ Present(eng.rec)
        /\ UNCHANGED <<rec, disk, file, wr, clock, logical, promised>>
    BY ZenonT(60), <1>2 DEF Prepare, RemoteInv, SwitchInv, store, history
  <2>1. ASSUME NEW gone \in SUBSET stale, remote' = [i \in DOMAIN remote \ gone |-> remote[i]]
        PROVE  /\ Finals' = Finals /\ \A i \in Finals : remote'[i].data = remote[i].data
               /\ \A i \in DOMAIN remote' : i \in DOMAIN remote /\ remote'[i].data = remote[i].data
    BY ZenonT(60), <2>0, <2>1 DEF Finals, Temps, Present
  <2>2. CASE /\ remote' = [i \in DOMAIN remote \ stale |-> remote[i]]
             /\ eng' = [eng EXCEPT !.existing = existing,
                                   !.swap = r.id \notin Finals /\ (r # NoRepl \/ existing # {}),
                                   !.ent = r.id,
                                   !.perm = TRUE,
                                   !.pc = IF r = NoRepl THEN "put"
                                          ELSE IF r.size = eng.rec.size THEN "check"
                                          ELSE "fail"]
    <3>1. /\ eng'.ent = r.id /\ eng'.rec = eng.rec
          /\ eng'.pc = IF r = NoRepl THEN "put"
                       ELSE IF r.size = eng.rec.size THEN "check" ELSE "fail"
      BY SMTT(60), <2>2 DEF Engine
    <3>2. /\ Finals' = Finals /\ \A i \in Finals : remote'[i].data = remote[i].data
          /\ \A i \in DOMAIN remote' : i \in DOMAIN remote /\ remote'[i].data = remote[i].data
      BY ZenonT(60), <2>1, <2>2
    <3> HIDE DEF existing, stale
    <3>3. RecordInv' /\ CandidateInv' /\ JournalInv' /\ WriterInv' /\ CleanInv' /\ RecordKept
      BY <1>1, <2>0, <3>1, <3>2 DEF DataKept
    <3>4. VacantInv'
      <4>1. ~Present(rec) /\ promised # {} => r.id \notin Finals
        BY ZenonT(60), <2>0 DEF Safe, VacantInv, Harmless
      <4>2. ~Present(rec) /\ promised # {} => Harmless'
        BY ZenonT(60), <3>1, <3>2, <4>1 DEF Harmless
      <4> QED
        BY ZenonT(60), <2>0, <3>2, <4>2, VacantFrame
    <3>5. CASE eng'.pc # "check"
      <4>1. eng'.pc \in Uploading => eng.pc \in Uploading /\ eng'.rec = eng.rec
        BY ZenonT(60), <2>0, <3>1 DEF Uploading
      <4>2. eng'.pc \notin Uploaded
        BY ZenonT(60), <3>1, <3>5 DEF Uploaded
      <4>3. UploadInv'
        BY ZenonT(60), <2>0, <3>3, <4>1, <4>2, UploadFrame
      <4> QED
        BY ZenonT(60), <3>3, <3>4, <4>3 DEF Safe
    <3>6. CASE eng'.pc = "check"
      <4>1. r # NoRepl /\ r.size = eng.rec.size
        BY ZenonT(60), <3>1, <3>6
      <4>2. UploadInv'
        <5> SUFFICES ASSUME Same(rec', eng'.rec)
                     PROVE  /\ rec'.frozen /\ rec'.started /\ rec'.size <= Len(file'[rec'.fid])
                            /\ promised' # {} => Prefix(file'[rec'.fid], rec'.size) \in promised'
                            /\ Holds(eng.ent, rec.size)'
          BY ZenonT(60) DEF UploadInv, Staged
        <5>1. Same(rec, eng.rec) /\ Present(rec) /\ rec.repl = r
          BY ZenonT(60), <2>0, <3>1 DEF Same
        <5>2. /\ rec.frozen /\ rec.started /\ rec.size <= Len(Staged)
              /\ promised # {} => Prefix(Staged, rec.size) \in promised
          BY ZenonT(60), <2>0, <5>1 DEF Safe, UploadInv, Uploading
        <5>3. Holds(r.id, rec.size)
          BY ZenonT(60), <4>1, <5>1 DEF Safe, CandidateInv
        <5>4. Holds(eng.ent, rec.size)'
          BY ZenonT(60), <2>0, <3>1, <3>2, <5>3 DEF Holds, Staged
        <5> QED
          BY ZenonT(60), <2>0, <5>2, <5>4 DEF Staged
      <4> QED
        BY ZenonT(60), <3>3, <3>4, <4>2 DEF Safe
    <3> QED
      BY <3>5, <3>6
  <2>3. ASSUME NEW b \in BOOLEAN, Fails(b), NEW gone \in SUBSET stale,
               remote' = [i \in DOMAIN remote \ gone |-> remote[i]]
        PROVE  Safe'
    <3>1. eng'.pc = "fail"
      BY <2>3, FailsFields
    <3>2. /\ Finals' = Finals /\ \A i \in Finals : remote'[i].data = remote[i].data
          /\ \A i \in DOMAIN remote' : i \in DOMAIN remote /\ remote'[i].data = remote[i].data
      BY ZenonT(60), <2>1, <2>3
    <3>3. RecordInv' /\ CandidateInv' /\ JournalInv' /\ WriterInv' /\ CleanInv' /\ RecordKept
      BY <1>1, <2>0, <3>1, <3>2 DEF DataKept
    <3>4. VacantInv'
      BY ZenonT(60), <2>0, <3>1, <3>2, VacantFrame DEF Harmless
    <3>5. UploadInv'
      BY <3>1 DEF UploadInv, Uploading
    <3> QED
      BY ZenonT(60), <3>3, <3>4, <3>5 DEF Safe
  <2> QED
    BY ZenonT(60), <1>2, <2>2, <2>3 DEF Prepare
<1>3. CASE PutSource
  <2> DEFINE f == eng.rec.fid
             n == eng.rec.size
             readable == f \in DOMAIN file /\ Len(file[f]) >= n
             entry == [name |-> IF eng.existing = {} THEN 0 ELSE f, data |-> Prefix(file[f], n)]
  <2>0. /\ eng.pc = "put" /\ Present(eng.rec) /\ eng.existing = Finals /\ eng.rec.repl = NoRepl
        /\ UNCHANGED <<rec, disk, file, wr, logical, promised>>
    BY ZenonT(60), <1>3 DEF PutSource, RemoteInv, SwitchInv, store, history
  <2>1. CASE /\ readable /\ remote' = Put(remote, clock + 1, entry) /\ clock' = clock + 1
             /\ \/ eng' = [eng EXCEPT !.ent = clock + 1,
                              !.pc = IF eng.existing = {} THEN "check" ELSE "record"]
                \/ Fails(FALSE)
    <3>1. /\ DOMAIN remote' = DOMAIN remote \cup {clock + 1}
          /\ remote'[clock + 1].name = IF eng.existing = {} THEN 0 ELSE f
          /\ remote'[clock + 1].data = Prefix(file[f], n)
          /\ \A i \in DOMAIN remote : remote'[i] = remote[i]
      BY <2>1 DEF Put, RemoteInv, Numbered
    <3>2. /\ eng'.rec = eng.rec /\ eng'.pc \in {"check", "record", "fail"}
          /\ eng'.pc # "fail" => eng'.ent = clock + 1
      BY ZenonT(60), <2>1, FailsFields DEF Engine
    <3>3. RecordInv' /\ CandidateInv' /\ JournalInv' /\ WriterInv' /\ CleanInv' /\ RecordKept
      BY <1>1, <2>0, <2>1, <3>1, <3>2 DEF DataKept
    <3>4. UploadInv'
      <4> SUFFICES ASSUME eng'.pc # "fail", Same(rec', eng'.rec)
                   PROVE  /\ rec'.frozen /\ rec'.started /\ rec'.size <= Len(file'[rec'.fid])
                          /\ promised' # {} => Prefix(file'[rec'.fid], rec'.size) \in promised'
                          /\ Holds(eng.ent, rec.size)'
        BY ZenonT(60), <3>2 DEF UploadInv, Staged, Uploading
      <4>1. Same(rec, eng.rec) /\ Present(rec) /\ rec.fid = f /\ rec.size = n
        BY ZenonT(60), <2>0, <3>2 DEF Same
      <4>2. /\ rec.frozen /\ rec.started /\ rec.size <= Len(Staged)
            /\ promised # {} => Prefix(Staged, rec.size) \in promised
        BY ZenonT(60), <2>0, <4>1 DEF Safe, UploadInv, Uploading
      <4>3. Holds(eng.ent, rec.size)'
        BY ZenonT(60), <2>0, <3>1, <3>2, <4>1, <4>2 DEF Holds, Staged
      <4> QED
        BY ZenonT(60), <2>0, <4>2, <4>3 DEF Staged
    <3>5. VacantInv'
      <4> SUFFICES ASSUME ~Present(rec), promised # {} PROVE VacantInv'
        BY ZenonT(60), <2>0 DEF VacantInv
      <4>1. FinalData = {logical}
        BY ZenonT(60) DEF Safe, VacantInv
      <4>2. Finals # {} /\ 0 \notin Finals
        BY SMTT(60), <4>1, BoundsAssumption DEF FinalData, Finals, TypeOK, TypeWorld
      <4>3. Finals' = Finals /\ clock + 1 \notin Finals
        BY ZenonT(60), <2>0, <3>1, <4>2 DEF Finals, Present, RemoteInv, Numbered
      <4>4. \A i \in Finals : remote'[i].data = remote[i].data
        BY ZenonT(60), <3>1 DEF Finals
      <4>5. Harmless'
        BY <2>0, <3>2, <4>2, <4>3 DEF Harmless, NoRepl
      <4> QED
        BY ZenonT(60), <2>0, <4>3, <4>4, <4>5, VacantFrame
    <3> QED
      BY ZenonT(60), <3>3, <3>4, <3>5 DEF Safe
  <2>2. CASE UNCHANGED <<remote, clock>> /\ eng'.pc = "fail"
    <3>1. RecordInv' /\ CandidateInv' /\ JournalInv' /\ WriterInv' /\ CleanInv' /\ RecordKept
      BY SMTT(60), <1>1, <2>0, <2>2 DEF DataKept
    <3>2. VacantInv' /\ UploadInv'
      BY <2>0, <2>2, VacantFrame DEF Harmless, Finals, UploadInv, Uploading
    <3> QED
      BY ZenonT(60), <3>1, <3>2 DEF Safe
  <2>3. ASSUME eng' = [eng EXCEPT !.pc = "fail", !.perm = FALSE] PROVE eng'.pc = "fail"
    BY ZenonT(60), <2>3 DEF Engine
  <2>4. ASSUME NEW b \in BOOLEAN, Fails(b) PROVE eng'.pc = "fail"
    BY ZenonT(60), <2>4, FailsFields
  <2> QED
    BY ZenonT(60), <1>3, <2>1, <2>2, <2>3, <2>4 DEF PutSource
<1>4. CASE Check
  <2>1. /\ UNCHANGED <<rec, disk, file, wr, remote, clock, logical, promised>> /\ eng.pc = "check"
    BY <1>4 DEF Check, store, history
  <2>2. /\ eng'.pc = IF ~Same(rec, eng.rec) THEN "rollback" ELSE IF eng.swap THEN "swap" ELSE "commit"
        /\ eng'.rec = eng.rec /\ eng'.ent = eng.ent
    BY ZenonT(60), <1>4 DEF Check, Engine
  <2>3. RecordInv' /\ CandidateInv' /\ JournalInv' /\ WriterInv' /\ CleanInv' /\ RecordKept
    BY SMTT(60), <1>1, <2>1, <2>2 DEF DataKept
  <2>4. UploadInv'
    BY ZenonT(60), <2>1, <2>2, <2>3, UploadFrame DEF Uploading, Uploaded
  <2>5. VacantInv'
    <3>1. ~Present(rec) => eng'.pc = "rollback"
      BY ZenonT(60), <2>2 DEF Same
    <3>2. ~Present(rec) /\ promised # {} => eng.ent \notin Finals /\ eng.rec.repl.id \notin Finals
      BY <2>1 DEF Safe, VacantInv, Harmless
    <3>3. Finals' = Finals
      BY <2>1 DEF Finals
    <3> QED
      BY ZenonT(60), <2>1, <2>2, <3>1, <3>2, <3>3, VacantFrame DEF Harmless
  <2> QED
    BY ZenonT(60), <2>3, <2>4, <2>5 DEF Safe
<1>5. CASE Swap
  <2>0. /\ eng.pc = "swap" /\ UNCHANGED <<rec, disk, file, wr, clock, logical, promised>>
    BY <1>5 DEF Swap, store, history
  <2>1. ASSUME \A i \in DOMAIN remote' : i \in DOMAIN remote /\ remote'[i].data = remote[i].data,
               eng'.pc \in {"swap", "commit", "fail"}, eng'.rec = eng.rec, eng'.ent = eng.ent
        PROVE  Safe'
    <3>1. RecordInv' /\ CandidateInv' /\ JournalInv' /\ WriterInv' /\ CleanInv' /\ RecordKept
      BY SMTT(60), <1>1, <2>0, <2>1 DEF DataKept
    <3>2. UploadInv'
      BY ZenonT(60), <2>0, <2>1, <3>1, UploadFrame DEF Uploading, Uploaded
    <3>3. VacantInv'
      BY <2>0 DEF Safe, VacantInv, Harmless
    <3> QED
      BY ZenonT(60), <3>1, <3>2, <3>3 DEF Safe
  <2>2. ASSUME NEW i, remote' = Drop(remote, i)
        PROVE  \A x \in DOMAIN remote' : x \in DOMAIN remote /\ remote'[x].data = remote[x].data
    BY <2>2 DEF Drop
  <2>3. ASSUME eng.ent \in DOMAIN remote, remote' = [remote EXCEPT ![eng.ent].name = 0]
        PROVE  \A x \in DOMAIN remote' : x \in DOMAIN remote /\ remote'[x].data = remote[x].data
    <3>1. remote[eng.ent] \in [name : 0 .. MaxFid, data : Content]
      BY <2>3 DEF TypeOK, TypeWorld
    <3>2. remote'[eng.ent].data = remote[eng.ent].data
      BY <2>3, <3>1
    <3> QED
      BY <2>3, <3>2
  <2>4. /\ eng'.pc \in {"swap", "commit", "fail"} /\ eng'.rec = eng.rec /\ eng'.ent = eng.ent
    <3>1. ASSUME NEW i, eng' = [eng EXCEPT !.existing = @ \ {i}]
          PROVE  eng'.pc = "swap" /\ eng'.rec = eng.rec /\ eng'.ent = eng.ent
      BY <2>0, <3>1 DEF Engine
    <3>2. ASSUME eng' = [eng EXCEPT !.pc = "fail", !.perm = FALSE]
          PROVE  eng'.pc = "fail" /\ eng'.rec = eng.rec /\ eng'.ent = eng.ent
      BY ZenonT(60), <3>2 DEF Engine
    <3> QED
      BY ZenonT(60), <1>5, <3>1, <3>2, FailsFields, PcFields DEF Swap
  <2> QED
    BY ZenonT(60), <1>5, <2>1, <2>2, <2>3, <2>4 DEF Swap
<1>6. CASE Sweep
  <2>1. /\ UNCHANGED <<rec, disk, wr, remote, clock, logical, promised>> /\ eng.pc = "sweep"
        /\ eng' = NoEng /\ file' = Drop(file, eng.rec.fid)
    BY ZenonT(60), <1>6 DEF Sweep, history, Released
  <2>2. Present(rec) => file'[rec.fid] = file[rec.fid]
    BY ZenonT(60), <2>1 DEF Drop, ClaimInv, Backed
  <2>3. RecordInv' /\ CandidateInv' /\ JournalInv' /\ WriterInv' /\ CleanInv' /\ RecordKept
    BY SMTT(60), <1>1, <2>1, <2>2 DEF DataKept
  <2>4. UploadInv' /\ VacantInv'
    BY ZenonT(60), <2>1, VacantFrame DEF UploadInv, Uploading, Harmless, Finals
  <2> QED
    BY ZenonT(60), <2>3, <2>4 DEF Safe
<1>7. CASE Rollback
  <2>1. /\ UNCHANGED <<rec, disk, wr, clock, logical, promised>> /\ eng.pc = "rollback"
        /\ eng' = NoEng /\ (remote' = remote \/ remote' = Drop(remote, eng.ent))
        /\ RequeueIfFrozen(Unreferenced(file, eng.rec.fid, rec))
    BY ZenonT(60), <1>7 DEF Rollback, history, Released
  <2>2. Present(rec) => file'[rec.fid] = file[rec.fid]
    BY ZenonT(60), <2>1, RequeueFiles
  <2>3. DataKept
    BY SMTT(60), <2>1 DEF DataKept, Drop
  <2>4. RecordInv' /\ CandidateInv' /\ JournalInv' /\ WriterInv' /\ CleanInv' /\ RecordKept
    <3>1. eng'.pc = "idle" /\ clock <= clock'
      BY <2>1
    <3> QED
      BY ZenonT(60), <1>1, <2>1, <2>2, <2>3, <3>1
  <2>5. VacantInv'
    <3>1. ~Present(rec) /\ promised # {} => eng.ent \notin Finals
      BY ZenonT(60), <2>1 DEF Safe, VacantInv, Harmless
    <3>2. eng.ent \notin Finals => Finals' = Finals /\ \A i \in Finals : remote'[i].data = remote[i].data
      BY ZenonT(60), <2>1 DEF Finals, Drop
    <3> QED
      BY ZenonT(60), <2>1, <3>1, <3>2, VacantFrame DEF Harmless
  <2>6. UploadInv'
    BY ZenonT(60), <2>1 DEF UploadInv, Uploading
  <2> QED
    BY ZenonT(60), <2>4, <2>5, <2>6 DEF Safe
<1> QED
  BY ZenonT(60), <1>2, <1>3, <1>4, <1>5, <1>6, <1>7

\* Engine steps in and around transactions of the store.
LEMMA SafeStore ==
  ASSUME TypeOK, TypeOK', ClaimInv, RemoteInv, RemoteInv', Safe, ~raced, ~raced',
         \/ RecordReplacement \/ RecordReplacementApply \/ Commit \/ CommitApply
         \/ RecordFailure \/ RecordFailureApply
  PROVE  Safe'
<1>0. /\ clock \in Nat /\ clock' \in Nat /\ NoEng.pc = "idle" /\ TypeActors /\ eng \in Engine
      /\ rec \in Record /\ eng.rec \in Record /\ eng.next \in Record /\ disk \in Record
      /\ DOMAIN remote \subseteq Nat /\ eng.ent \in Nat
      /\ (Present(rec) => rec.fid \in DOMAIN file)
  BY BoundsAssumption, ActorType DEF TypeOK, TypeStore, TypeWorld, TypeActors, NoEng, ClaimInv, Backed
<1> USE <1>0
\* the attempt ends, fails or is rolled back without touching the record
<1>1. ASSUME UNCHANGED <<rec, disk, wr, remote, logical, promised>>, clock <= clock',
             Present(rec) => file'[rec.fid] = file[rec.fid],
             eng.pc \in {"record", "commit", "fail"},
             eng'.pc \in {"idle", "fail", "rollback"},
             eng'.pc = "rollback" => eng.pc # "fail" /\ eng'.ent = eng.ent /\ eng'.rec = eng.rec
      PROVE  Safe'
  <2>1. RecordKept /\ DataKept
    BY ZenonT(60), <1>1 DEF RecordKept, DataKept
  <2>2. RecordInv' /\ CandidateInv' /\ JournalInv' /\ WriterInv' /\ CleanInv'
    BY ZenonT(60), <1>1, <2>1, EngineFrame
  <2>3. UploadInv'
    BY ZenonT(60), <1>1 DEF UploadInv, Uploading
  <2>4. VacantInv'
    <3>1. Finals' = Finals
      BY ZenonT(60), <1>1 DEF Finals
    <3>2. ~Present(rec) /\ promised # {} => Harmless'
      BY ZenonT(60), <1>1, <3>1 DEF Safe, VacantInv, Harmless
    <3> QED
      BY ZenonT(60), <1>1, <3>1, <3>2, VacantFrame
  <2> QED
    BY ZenonT(60), <2>2, <2>3, <2>4 DEF Safe
\* the journal gets a line for the record, with new attributes r
<1>2. ASSUME NEW r \in Record, Same(rec, eng.rec), UNCHANGED <<rec, file, wr, remote, logical, promised>>,
             disk' = Journaled(r), r.fid = rec.fid, clock' = clock + 1,
             eng.pc \notin {"replM", "cleanM"}, eng'.pc \in {"replM", "failM"},
             JournalInv', UploadInv'
      PROVE  Safe'
  <2>1. Present(rec) /\ disk'.fid = rec.fid /\ rec.repl.id \in Nat
    BY SMTT(60), <1>2, RecordType DEF Same, Journaled, Record
  <2>2. RecordInv'
    BY ZenonT(60), <1>2, <2>1 DEF Safe, RecordInv, Staged, Reach
  <2>3. CandidateInv'
    BY SMTT(60), <1>2, <2>1 DEF Safe, CandidateInv, Holds, Staged
  <2>4. WriterInv' /\ VacantInv' /\ CleanInv'
    BY <1>2, <2>1 DEF Safe, WriterInv, VacantInv, CleanInv
  <2> QED
    BY ZenonT(60), <1>2, <2>2, <2>3, <2>4 DEF Safe
<1>3. CASE RecordReplacement
  <2> DEFINE r == [rec EXCEPT !.repl = [id |-> eng.ent, size |-> rec.size], !.stamp = clock + 1]
  <2>0. /\ eng.pc = "record"
        /\ UNCHANGED <<rec, file, wr, remote, logical, promised>>
    BY <1>3 DEF RecordReplacement, history
  <2>1. CASE /\ Same(rec, eng.rec) /\ disk' = Journaled(r) /\ clock' = clock + 1
             /\ eng' = [eng EXCEPT !.pc = "replM", !.next = r]
    <3>1. /\ eng'.pc = "replM" /\ eng'.rec = eng.rec /\ eng'.ent = eng.ent /\ eng'.next = r
      BY <2>1 DEF Engine
    <3>2. r \in Record
      BY <3>1, ActorType DEF TypeOK, TypeActors, Engine
    <3>3. /\ r.fid = rec.fid /\ r.size = rec.size /\ r.frozen = rec.frozen /\ r.started = rec.started
          /\ r.repl = [id |-> eng.ent, size |-> rec.size]
      BY DEF Record
    <3>4. disk'.fid = r.fid /\ disk'.size = r.size /\ disk'.repl = r.repl
      BY <2>1, <3>2 DEF Journaled, Record
    <3> HIDE DEF r
    <3>5. /\ Present(rec) /\ rec.fid = eng.rec.fid /\ rec.size = eng.rec.size /\ rec.size \in Nat
      BY <2>1, RecordType DEF Same
    <3>6. rec.frozen /\ rec.started /\ Holds(eng.ent, rec.size)
      BY ZenonT(60), <2>0, <2>1 DEF Safe, UploadInv, Uploading, Uploaded
    <3>7. JournalInv'
      BY SMTT(60), <2>0, <3>1, <3>3, <3>4, <3>5, <3>6 DEF JournalInv, Holds, Staged, Present
    <3>8. UploadInv'
      <4>1. RecordKept
        BY ZenonT(60), <2>0 DEF RecordKept
      <4> QED
        BY ZenonT(60), <2>0, <3>1, <4>1, UploadFrame DEF Uploading, Uploaded
    <3> QED
      BY ZenonT(60), <1>2, <2>0, <2>1, <3>1, <3>2, <3>3, <3>7, <3>8
  <2>2. CASE Fails(FALSE) /\ UNCHANGED <<disk, clock>>
    <3>1. eng'.pc = "fail"
      BY ZenonT(60), <2>2, FailsFields
    <3> QED
      BY <1>1, <2>0, <2>2, <3>1
  <2>3. CASE eng' = [eng EXCEPT !.pc = "rollback"] /\ UNCHANGED <<disk, clock>>
    BY <1>1, <2>0, <2>3, PcFields
  <2> QED
    BY ZenonT(60), <1>3, <2>1, <2>2, <2>3 DEF RecordReplacement
<1>4. CASE RecordReplacementApply
  <2>1. /\ eng.pc = "replM" /\ rec' = eng.next /\ Same(rec, eng.rec)
        /\ UNCHANGED <<disk, file, wr, remote, clock, logical, promised>>
    BY ZenonT(60), <1>4 DEF RecordReplacementApply
  <2>2. /\ eng'.pc = "check" /\ eng'.rec = eng.next /\ eng'.ent = eng.ent
    BY ZenonT(60), <1>4 DEF RecordReplacementApply, Engine
  <2>3. /\ Present(rec) /\ rec.fid = eng.rec.fid /\ rec.size = eng.rec.size /\ rec.size \in Nat
    BY <2>1, RecordType DEF Same
  <2>4. /\ eng.next.fid = rec.fid /\ eng.next.size = rec.size
        /\ eng.next.frozen = rec.frozen
    BY ZenonT(60), <2>1, <2>3 DEF ClaimInv, EngineCopy
  <2>5. /\ disk.fid = rec.fid /\ disk.size = rec.size /\ rec.frozen /\ eng.next.started
        /\ disk.repl = [id |-> eng.ent, size |-> disk.size] /\ eng.next.repl = disk.repl
        /\ Holds(eng.ent, rec.size)
    BY ZenonT(60), <2>1, <2>3 DEF Safe, JournalInv
  <2>6. eng.ent <= clock
    BY ZenonT(60), <2>1 DEF RemoteInv, Numbered
  <2>7. Holds(eng.ent, rec.size)'
    BY ZenonT(60), <2>1, <2>2, <2>4, <2>5 DEF Holds, Staged
  <2>8. RecordInv'
    BY ZenonT(60), <2>1, <2>2, <2>3, <2>4, <2>5 DEF Safe, RecordInv, Staged, Reach, Present
  <2>9. CandidateInv'
    <3>1. rec'.repl.id = eng.ent /\ rec'.repl.size = rec.size
      BY <2>1, <2>5
    <3>2. rec'.frozen /\ rec'.size = rec.size
      BY ZenonT(60), <2>1, <2>4, <2>5
    <3>3. Holds(rec.repl.id, rec.size)'
      BY ZenonT(60), <2>1, <2>2, <2>4, <2>5, <2>7, <3>1, <3>2 DEF Holds
    <3> QED
      BY ZenonT(60), <2>1, <2>6, <3>1, <3>2, <3>3 DEF CandidateInv
  <2>10. JournalInv' /\ WriterInv' /\ CleanInv'
    BY ZenonT(60), <2>1, <2>2, <2>4, <2>5 DEF Safe, JournalInv, WriterInv, CleanInv
  <2>11. VacantInv'
    BY ZenonT(60), <2>1, <2>3, <2>4 DEF VacantInv, Present
  <2>12. UploadInv'
    <3>1. promised # {} => Prefix(Staged, rec.size) \in promised
      BY ZenonT(60), <2>1 DEF Safe, UploadInv, Uploading
    <3>2. rec.size <= Len(Staged)
      BY <2>5 DEF Holds
    <3> QED
      BY ZenonT(60), <2>1, <2>2, <2>4, <2>5, <2>7, <3>1, <3>2 DEF UploadInv, Staged
  <2> QED
    BY ZenonT(60), <2>8, <2>9, <2>10, <2>11, <2>12 DEF Safe
<1>5. CASE Commit
  <2>0. /\ eng.pc = "commit" /\ Finals = {eng.ent}
        /\ UNCHANGED <<rec, file, wr, remote, clock, logical, promised>>
    BY SMTT(60), <1>5 DEF Commit, history, RemoteInv, SwitchInv
  <2>1. CASE Same(rec, eng.rec) /\ disk' = NoRec /\ eng' = [eng EXCEPT !.pc = "cleanM"]
    <3>1. eng'.pc = "cleanM" /\ eng'.rec = eng.rec /\ eng'.ent = eng.ent
      BY <2>1, PcFields
    <3>2. Present(rec) /\ ~Present(disk')
      BY SMTT(60), <2>1 DEF Same, Present, NoRec
    <3>3. RecordInv' /\ CandidateInv' /\ JournalInv' /\ WriterInv' /\ VacantInv'
      BY ZenonT(60), <2>0, <3>1, <3>2
      DEF Safe, RecordInv, CandidateInv, JournalInv, WriterInv, VacantInv, Staged, Holds, Reach, Present
    <3>4. UploadInv'
      <4>1. RecordKept
        BY SMTT(60), <2>0 DEF RecordKept
      <4> QED
        BY ZenonT(60), <2>0, <3>1, <4>1, UploadFrame DEF Uploading, Uploaded
    <3>5. CleanInv'
      <4>1. eng.ent \in DOMAIN remote
        BY ZenonT(60), <2>0 DEF Finals
      <4>2. /\ promised # {} => Prefix(Staged, rec.size) \in promised
            /\ Holds(eng.ent, rec.size)
        BY SMTT(60), <2>0, <2>1 DEF Safe, UploadInv, Uploading, Uploaded
      <4>3. FinalData = {Prefix(Staged, rec.size)}
        BY SMTT(60), <2>0, <4>1, <4>2 DEF FinalData, Holds
      <4>4. FinalData' = FinalData
        BY SMTT(60), <2>0 DEF FinalData, Finals
      <4> QED
        BY ZenonT(60), <2>0, <3>2, <4>2, <4>3, <4>4 DEF CleanInv
    <3> QED
      BY <3>3, <3>4, <3>5 DEF Safe
  <2>2. CASE eng' = NoEng /\ UNCHANGED disk
    BY <1>1, <2>0, <2>2
  <2>3. CASE eng' = [eng EXCEPT !.pc = "rollback"] /\ UNCHANGED disk
    BY SMTT(60), <1>1, <2>0, <2>3, PcFields
  <2> QED
    BY ZenonT(60), <1>5, <2>1, <2>2, <2>3 DEF Commit, Released
<1>6. CASE CommitApply
  <2>1. /\ eng.pc = "cleanM" /\ Same(rec, eng.rec) /\ wr.rec.fid # eng.rec.fid
        /\ rec' = NoRec /\ eng' = [eng EXCEPT !.pc = "sweep"]
        /\ UNCHANGED <<disk, wr, remote, clock, logical, promised>>
    BY ZenonT(60), <1>6 DEF CommitApply
  <2>2. eng'.pc = "sweep"
    BY <2>1, PcFields
  <2>3. ~Present(rec') /\ ~Present(disk) /\ Present(rec)
    BY <2>1 DEF Present, NoRec, ClaimInv, Backed, Same
  <2>4. RecordInv' /\ CandidateInv' /\ JournalInv' /\ WriterInv' /\ UploadInv' /\ CleanInv'
    BY <2>1, <2>2, <2>3
    DEF Safe, RecordInv, CandidateInv, JournalInv, WriterInv, UploadInv, CleanInv, Uploading, Present
  <2>5. wr.pc = "idle"
    BY SMTT(60), <2>1 DEF ClaimInv, WriterCopy, Same
  <2>6. FinalData = {logical}
    <3>1. Finals = {eng.ent} /\ eng.ent \in DOMAIN remote
      BY <2>1 DEF RemoteInv, SwitchInv, Finals
    <3>2. rec.frozen /\ rec.size <= Len(Staged) /\ Holds(eng.ent, rec.size)
      BY SMTT(60), <2>1 DEF Safe, UploadInv, Uploading, Uploaded
    <3>3. Len(Staged) <= rec.size /\ Staged = logical
      BY SMTT(60), <2>3, <2>5, <3>2 DEF Safe, RecordInv, Reach
    <3>4. Staged \in Content /\ rec.size \in Nat /\ Len(Staged) \in Nat
      BY SMTT(60), <2>3, RecordType DEF TypeOK, TypeStore, Staged, Content
    <3>5. Prefix(Staged, rec.size) = logical
      BY <3>2, <3>3, <3>4, PrefixWhole
    <3> QED
      BY <3>1, <3>2, <3>5 DEF FinalData, Holds
  <2>7. VacantInv'
    <3>1. FinalData' = FinalData
      BY <2>1 DEF FinalData, Finals
    <3>2. promised # {} => logical \in promised
      BY <2>3 DEF Safe, RecordInv
    <3> QED
      BY <2>1, <2>2, <2>6, <3>1, <3>2 DEF VacantInv, Harmless
  <2> QED
    BY <2>4, <2>7 DEF Safe
<1>7. CASE RecordFailure
  <2> DEFINE r == [rec EXCEPT !.fail = eng.perm, !.stamp = clock + 1]
  <2>0. eng.pc = "fail" /\ UNCHANGED <<rec, wr, remote, logical, promised>>
    BY <1>7 DEF RecordFailure, history
  <2>1. CASE /\ Same(rec, eng.rec) /\ disk' = Journaled(r) /\ clock' = clock + 1 /\ file' = file
             /\ eng' = [eng EXCEPT !.pc = "failM", !.next = r]
    <3>1. eng'.pc = "failM" /\ eng'.rec = eng.rec /\ eng'.next = r
      BY <2>1 DEF Engine
    <3>2. r \in Record
      BY <3>1, ActorType DEF TypeOK, TypeActors, Engine
    <3>3. r.fid = rec.fid /\ r.size = rec.size /\ r.repl = rec.repl
      BY DEF Record
    <3>4. disk'.size = r.size /\ disk'.repl = r.repl
      BY <2>1, <3>2 DEF Journaled, Record
    <3> HIDE DEF r
    <3>5. JournalInv' /\ UploadInv'
      BY SMTT(60), <2>0, <2>1, <3>1, <3>3, <3>4 DEF JournalInv, UploadInv, Uploading, Same
    <3> QED
      BY <1>2, <2>0, <2>1, <3>1, <3>2, <3>3, <3>5
  <2>2. CASE eng' = NoEng /\ UNCHANGED <<disk, clock>> /\ (file' = file \/ file' = Unreferenced(file, eng.rec.fid, rec))
    <3>1. Present(rec) => file'[rec.fid] = file[rec.fid]
      BY SMTT(60), <2>2, UnreferencedFiles
    <3> QED
      BY SMTT(60), <1>1, <2>0, <2>2, <3>1
  <2> QED
    BY ZenonT(60), <1>7, <2>1, <2>2 DEF RecordFailure, Released
<1>8. CASE RecordFailureApply
  <2>1. /\ eng.pc = "failM" /\ rec' = eng.next /\ Same(rec, eng.rec) /\ eng' = NoEng
        /\ UNCHANGED <<disk, wr, remote, clock, logical, promised>>
        /\ file' = file \/ file' = Displaced(file, sched, eng.next.fid, eng.next)
    BY ZenonT(60), <1>8 DEF RecordFailureApply, Released
  <2>2. Present(rec) /\ rec.size = eng.rec.size /\ rec.fid = eng.rec.fid /\ rec.repl = eng.rec.repl
    BY ZenonT(60), <2>1 DEF Same
  <2>3. /\ eng.next.fid = rec.fid /\ eng.next.size = rec.size /\ eng.next.frozen = rec.frozen
        /\ eng.next.repl = rec.repl
    BY ZenonT(60), <2>1, <2>2 DEF ClaimInv, EngineCopy, Safe, JournalInv
  <2>4. file'[rec.fid] = file[rec.fid]
    BY SMTT(60), <2>1, <2>2, <2>3, DisplacedFiles
  <2>5. RecordKept /\ DataKept
    BY ZenonT(60), <2>1, <2>3, <2>4 DEF RecordKept, DataKept
  <2>6. RecordInv' /\ CandidateInv' /\ JournalInv' /\ WriterInv' /\ CleanInv'
    BY SMTT(60), <2>1, <2>5, EngineFrame
  <2>7. UploadInv' /\ VacantInv'
    BY ZenonT(60), <2>1, <2>2, <2>3 DEF UploadInv, Uploading, VacantInv, Present
  <2> QED
    BY ZenonT(60), <2>6, <2>7 DEF Safe
<1> QED
  BY ZenonT(60), <1>3, <1>4, <1>5, <1>6, <1>7, <1>8

\* Every engine step preserves the invariant.
LEMMA SafeEngine ==
  TypeOK /\ TypeOK' /\ ClaimInv /\ RemoteInv /\ RemoteInv' /\ SafeInv /\ EngineStep => SafeInv'
<1> SUFFICES ASSUME TypeOK, TypeOK', ClaimInv, RemoteInv, RemoteInv', SafeInv, EngineStep,
                    ~raced', ~torn'
             PROVE  Safe'
  BY DEF SafeInv
<1>1. CASE Receive \/ Claim \/ Snapshot \/ Recheck
  <2>1. ~raced /\ ~torn
    BY <1>1 DEF Receive, Claim, Snapshot, Recheck, history
  <2> QED
    BY ZenonT(60), <1>1, <2>1, SafeBefore DEF SafeInv
<1>2. CASE Prepare \/ PutSource \/ Check \/ Swap \/ Sweep \/ Rollback
  <2>1. UNCHANGED history
    BY ZenonT(60), <1>2 DEF Prepare, PutSource, Check, Swap, Sweep, Rollback
  <2>2. ~raced /\ ~torn
    BY <2>1 DEF history
  <2> QED
    BY <1>2, <2>2, SafeRemote DEF SafeInv
<1>3. CASE \/ RecordReplacement \/ RecordReplacementApply \/ Commit \/ CommitApply
           \/ RecordFailure \/ RecordFailureApply
  <2>1. CASE RecordReplacement \/ Commit \/ RecordFailure
    <3>1. UNCHANGED history
      BY ZenonT(60), <2>1 DEF RecordReplacement, Commit, RecordFailure
    <3> QED
      BY <2>1, <3>1, SafeStore DEF SafeInv, history
  <2>2. CASE RecordReplacementApply \/ CommitApply \/ RecordFailureApply
    <3>1. ~raced /\ torn' = torn
      BY ZenonT(60), <2>2 DEF RecordReplacementApply, CommitApply, RecordFailureApply, TypeOK, TypeHistory
    <3> QED
      BY ZenonT(60), <2>2, <3>1, SafeStore DEF SafeInv
  <2> QED
    BY ZenonT(60), <1>3, <2>1, <2>2
<1> QED
  BY ZenonT(60), <1>1, <1>2, <1>3 DEF EngineStep

\* A new generation takes the place of the record and has the expected content.
LEMMA SafeNew ==
  ASSUME TypeOK, TypeOK', ClaimInv, NEW c \in Content,
         nfid + 1 \in 0 .. MaxFid, clock + 1 \in 0 .. MaxClock,
         rec' = NewRec(nfid + 1, Len(c), clock + 1), disk' = rec', file'[nfid + 1] = c,
         logical' = c, promised' # {} => c \in promised', ~TxHeld, eng' = eng,
         (wr' = wr /\ wr.pc = "idle") \/ (wr'.rec = rec' /\ wr'.pc \in {"read", "target"})
  PROVE  Safe'
<1>1. /\ rec'.fid = nfid + 1 /\ ~rec'.frozen /\ Len(c) \in 0 .. MaxSize /\ nfid \in Nat
  <2>1. Len(c) \in 0 .. MaxSize
    BY BoundsAssumption DEF Content
  <2>2. nfid \in Nat
    BY BoundsAssumption DEF TypeOK, TypeWorld
  <2> QED
    BY ZenonT(60), <2>1, <2>2, NewRecType
<1>2. rec'.repl = NoRepl
  <2>1. NewRec(nfid + 1, Len(c), clock + 1).repl = NoRec.repl
    BY NoType DEF Record, NewRec
  <2> QED
    BY <2>1 DEF NoRec
<1>3. Present(rec') /\ rec'.fid # eng.rec.fid
  BY <1>1, ActorType, RecordType DEF Present, ClaimInv, Handed, TypeOK
<1>4. RecordInv' /\ CandidateInv'
  BY SMTT(60), <1>1, <1>2 DEF RecordInv, CandidateInv, Staged
<1>5. JournalInv' /\ CleanInv'
  BY ZenonT(60), <1>2 DEF JournalInv, CleanInv, TxHeld
<1>6. WriterInv'
  BY ZenonT(60), <1>2 DEF WriterInv
<1>7. UploadInv' /\ VacantInv'
  BY ZenonT(60), <1>3 DEF UploadInv, VacantInv, Same
<1> QED
  BY ZenonT(60), <1>4, <1>5, <1>6, <1>7 DEF Safe

\* A record that keeps its generation and gets a new stamp is not the one the
\* engine works on any more.
LEMMA SafeStamp ==
  ASSUME TypeOK, ClaimInv, eng' = eng, rec'.fid = rec.fid, Present(rec), rec'.stamp = clock + 1
  PROVE  UploadInv' /\ VacantInv' /\ Present(rec')
<1>1. eng.rec.stamp # clock + 1
  <2>1. eng.rec.stamp \in 0 .. MaxClock
    BY ZenonT(60), ActorType, RecordType DEF TypeOK
  <2>2. clock \in Nat /\ eng.rec.stamp <= clock
    BY BoundsAssumption DEF ClaimInv, Handed, TypeOK, TypeWorld
  <2> QED
    BY <2>1, <2>2
<1> QED
  BY ZenonT(60), <1>1 DEF UploadInv, VacantInv, Same, Present

\* Only the state of the write path changes.
LEMMA WriterFrame ==
  ASSUME Safe, UNCHANGED <<rec, disk, file, eng, remote, clock, logical, promised>>,
         Reach' = Reach, WriterInv'
  PROVE  Safe'
<1>1. RecordInv' /\ CandidateInv' /\ JournalInv'
  BY ZenonT(60) DEF Safe, RecordInv, CandidateInv, JournalInv, Staged, Holds
<1>2. UploadInv' /\ VacantInv' /\ CleanInv'
  BY ZenonT(60) DEF Safe, UploadInv, VacantInv, CleanInv, Staged, Holds, Harmless, FinalData, Finals
<1> QED
  BY <1>1, <1>2 DEF Safe

\* The write path as long as it does not touch the staging file.
LEMMA SafeOpen ==
  ASSUME TypeOK, TypeOK', ClaimInv, Safe, ~raced, ~raced',
         \/ Create
         \/ \E op, n : OpenForWrite(op, n)
         \/ \E op, n : StageForWrite(op, n)
         \/ WriteTarget \/ WriteFails
  PROVE  Safe'
<1>0. /\ clock \in Nat /\ nfid \in Nat /\ wr \in Writer /\ rec \in Record /\ rec' \in Record
      /\ wr.rec \in Record /\ NoWr.pc = "idle"
      /\ (Present(rec) => rec.fid \in DOMAIN file)
  BY BoundsAssumption, ActorType
     DEF TypeOK, TypeStore, TypeWorld, TypeActors, NoWr, ClaimInv, Backed
<1> USE <1>0
<1>2. CASE Create
  <2>1. /\ clock + 1 \in 0 .. MaxClock /\ nfid + 1 \in 0 .. MaxFid /\ Len(<<>>) = 0
        /\ <<>> \in Content
    BY ZenonT(60), <1>2, NextStamp, EmptyContent, BoundsAssumption DEF Create, TypeOK, TypeWorld
  <2> DEFINE gone == IF rec.frozen THEN 0 ELSE rec.fid
  <2>2. gone # nfid + 1
    BY RecordType DEF ClaimInv, Handed
  <2>3. file' = Drop(Put(file, nfid + 1, <<>>), gone)
    BY ZenonT(60), <1>2 DEF Create
  <2> HIDE DEF gone
  <2>4. file'[nfid + 1] = <<>>
    BY ZenonT(60), <2>2, <2>3 DEF Drop, Put
  <2> QED
    BY ZenonT(60), <1>2, <2>1, <2>4, SafeNew DEF Create, LockFree
<1>3. ASSUME NEW op, NEW n, OpenForWrite(op, n) PROVE Safe'
  <2>1. wr'.pc = "read" /\ wr'.rec = rec
    BY ZenonT(60), <1>3, NoType DEF OpenForWrite, Writer, NoWr
  <2>2. /\ Present(rec) /\ wr.pc = "idle"
        /\ UNCHANGED <<rec, disk, file, eng, remote, clock, logical, promised>>
    BY ZenonT(60), <1>3 DEF OpenForWrite, store, history, LockFree
  <2>3. WriterInv'
    BY ZenonT(60), <2>1, <2>2 DEF Safe, CandidateInv, WriterInv
  <2>4. Reach' = Reach
    BY <2>1, <2>2 DEF Reach
  <2> QED
    BY ZenonT(60), <2>2, <2>3, <2>4, WriterFrame
<1>4. ASSUME NEW op, NEW n, StageForWrite(op, n) PROVE Safe'
  <2>0. Tick /\ nfid < MaxFid
    BY ZenonT(60), <1>4 DEF StageForWrite
  <2>1. clock + 1 \in 0 .. MaxClock /\ nfid + 1 \in 0 .. MaxFid
    BY SMTT(60), <2>0, NextStamp, BoundsAssumption DEF TypeOK, TypeWorld
  <2>2. ~Present(rec) /\ ~TxHeld /\ eng' = eng /\ promised' = promised
    BY ZenonT(60), <1>4 DEF StageForWrite
  <2>3. PICK c \in IF Finals = {} THEN {<<>>} ELSE FinalData :
          LET r == NewRec(nfid + 1, Len(c), clock + 1) IN
          /\ rec' = r /\ disk' = r /\ file' = Put(file, nfid + 1, c)
          /\ wr' = [NoWr EXCEPT !.pc = "read", !.op = op, !.rec = r, !.at = n]
          /\ logical' = IF promised = {} THEN c ELSE logical
    BY ZenonT(60), <1>4 DEF StageForWrite
  <2>4. c \in Content
    BY EmptyContent DEF FinalData, Finals, TypeOK, TypeWorld
  <2>5. wr'.pc = "read" /\ wr'.rec = rec'
    BY <2>3, NoType DEF Writer, NoWr
  <2>6. file'[nfid + 1] = c
    BY ZenonT(60), <2>3 DEF Put
  <2>7. logical' = c /\ (promised # {} => c \in promised)
    <3>1. CASE promised = {}
      BY <2>3, <3>1
    <3>2. CASE promised # {}
      <4>1. FinalData = {logical} /\ logical \in promised
        BY ZenonT(60), <2>2, <3>2 DEF Safe, VacantInv
      <4>2. Finals # {}
        BY ZenonT(60), <4>1 DEF FinalData
      <4> QED
        BY ZenonT(60), <2>3, <3>2, <4>1, <4>2
    <3> QED
      BY <3>1, <3>2
  <2> QED
    BY ZenonT(60), <2>1, <2>2, <2>3, <2>4, <2>5, <2>6, <2>7, SafeNew
<1>5. CASE WriteTarget
  <2>0. wr.pc = "read" /\ UNCHANGED <<eng, remote, logical, promised>>
    BY ZenonT(60), <1>5 DEF WriteTarget
  <2>1. Present(rec) /\ wr.rec.fid = rec.fid /\ Staged = logical /\ (promised # {} => logical \in promised)
    BY ZenonT(60), <2>0 DEF ClaimInv, WriterCopy, Safe, RecordInv
  <2>2. CASE InPlace
    <3>1. /\ wr'.pc = "target" /\ wr'.rec = wr.rec /\ wr'.new = wr.new
          /\ UNCHANGED <<rec, disk, file, clock>>
      BY ZenonT(60), <1>5, <2>2 DEF WriteTarget, Writer
    <3>2. WriterInv'
      BY ZenonT(60), <2>0, <2>2, <3>1 DEF Safe, WriterInv, InPlace, AppendsToFrozen
    <3>3. Reach' = Reach
      BY ZenonT(60), <2>0, <3>1 DEF Reach
    <3> QED
      BY ZenonT(60), <2>0, <3>1, <3>2, <3>3, WriterFrame
  <2>3. CASE ~InPlace /\ Reusable
    <3>1. /\ rec' = [rec EXCEPT !.frozen = FALSE, !.hash = {}, !.stamp = clock + 1]
          /\ wr' = [wr EXCEPT !.pc = "target", !.rec = rec']
          /\ ~TxHeld /\ UNCHANGED <<disk, file>>
      BY ZenonT(60), <1>5, <2>3 DEF WriteTarget
    <3>2. /\ rec'.fid = rec.fid /\ rec'.stamp = clock + 1 /\ ~rec'.frozen
          /\ rec'.repl = NoRepl /\ rec.repl = NoRepl
      BY <2>3, <3>1 DEF Record, Reusable
    <3>3. wr'.pc = "target" /\ wr'.rec = rec'
      BY ZenonT(60), <3>1 DEF Writer
    <3>4. UploadInv' /\ VacantInv' /\ Present(rec')
      BY ZenonT(60), <2>0, <2>1, <3>2, SafeStamp
    <3>5. RecordInv' /\ CandidateInv'
      BY <2>0, <2>1, <3>1, <3>2 DEF Safe, RecordInv, CandidateInv, Staged, TxHeld
    <3>6. JournalInv' /\ CleanInv' /\ WriterInv'
      BY ZenonT(60), <2>0, <3>1, <3>2, <3>3 DEF Safe, JournalInv, CleanInv, WriterInv, TxHeld
    <3> QED
      BY <3>4, <3>5, <3>6 DEF Safe
  <2>4. CASE ~InPlace /\ ~Reusable
    <3>1. clock + 1 \in 0 .. MaxClock /\ nfid + 1 \in 0 .. MaxFid
      BY ZenonT(60), <1>5, <2>4, NextStamp, BoundsAssumption DEF WriteTarget, TypeOK, TypeWorld
    <3>2. Staged \in Content /\ wr.rec.fid \in DOMAIN file /\ file[wr.rec.fid] = Staged
      BY <2>1 DEF Staged, TypeOK, TypeStore
    <3>3. /\ rec' = NewRec(nfid + 1, Len(Staged), clock + 1) /\ disk' = rec'
          /\ file' = Put(file, nfid + 1, Staged) /\ wr' = [wr EXCEPT !.pc = "target", !.rec = rec']
          /\ ~TxHeld
      BY ZenonT(60), <1>5, <2>4, <3>2 DEF WriteTarget
    <3>4. wr'.pc = "target" /\ wr'.rec = rec'
      BY <3>3 DEF Writer
    <3>5. file'[nfid + 1] = Staged
      BY ZenonT(60), <3>3 DEF Put
    <3> QED
      BY ZenonT(60), <2>0, <2>1, <3>1, <3>2, <3>3, <3>4, <3>5, SafeNew
  <2> QED
    BY ZenonT(60), <2>2, <2>3, <2>4
<1>6. CASE WriteFails
  <2>1. /\ wr' = NoWr /\ wr.pc \in {"read", "target"}
        /\ UNCHANGED <<rec, disk, file, eng, remote, clock, logical, promised>>
    BY SMTT(60), <1>6 DEF WriteFails, store, history
  <2>2. WriterInv' /\ Reach' = Reach
    BY ZenonT(60), <2>1 DEF WriterInv, Reach
  <2> QED
    BY ZenonT(60), <2>1, <2>2, WriterFrame
<1> QED
  BY ZenonT(60), <1>2, <1>3, <1>4, <1>5, <1>6

\* The write path on the staging file.
LEMMA SafeWrite ==
  ASSUME TypeOK, TypeOK', ClaimInv, Safe, ~raced, ~raced', WriteFile \/ WriteUpdate \/ TruncateFile
  PROVE  Safe'
<1>0. /\ wr \in Writer /\ rec \in Record /\ rec' \in Record /\ disk \in Record /\ wr.rec \in Record
      /\ NoWr.pc = "idle" /\ wr.at \in Nat /\ wr.at \in 0 .. MaxSize /\ wr.rec.size \in Nat
      /\ rec.size \in Nat /\ disk.size \in Nat
  <2>1. /\ wr \in Writer /\ rec \in Record /\ rec' \in Record /\ disk \in Record
        /\ wr.rec \in Record /\ wr.at \in 0 .. MaxSize
    BY ZenonT(60), ActorType DEF TypeOK, TypeStore, TypeActors
  <2>2. rec.size \in 0 .. MaxSize /\ disk.size \in 0 .. MaxSize /\ wr.rec.size \in 0 .. MaxSize
    BY ZenonT(60), <2>1, RecordType
  <2>3. NoWr.pc = "idle"
    BY DEF NoWr
  <2> QED
    BY <2>1, <2>2, <2>3
<1> USE <1>0
<1>1. ASSUME wr.pc # "idle"
      PROVE  /\ Present(rec) /\ wr.rec.fid = rec.fid /\ rec.fid \in DOMAIN file
             /\ wr.rec.frozen = rec.frozen /\ wr.rec.size = rec.size
             /\ Staged \in Content /\ Staged = logical /\ Len(Staged) \in Nat
             /\ eng.pc # "cleanM" => disk.fid = rec.fid
  <2>1. /\ Present(rec) /\ wr.rec.fid = rec.fid /\ rec.fid \in DOMAIN file
        /\ wr.rec.frozen = rec.frozen /\ wr.rec.size = rec.size
    BY ZenonT(60), <1>1 DEF ClaimInv, WriterCopy, Backed
  <2>2. Staged \in Content /\ Staged = logical /\ (eng.pc # "cleanM" => disk.fid = rec.fid)
    BY ZenonT(60), <2>1 DEF Staged, TypeOK, TypeStore, Safe, RecordInv
  <2>3. Len(Staged) \in Nat
    BY <2>2 DEF Content
  <2> QED
    BY ZenonT(60), <2>1, <2>2, <2>3
<1>2. CASE WriteFile
  <2> DEFINE v == clock + 1
             c == Patch(Staged, wr.at, v)
  <2>0. /\ wr.pc = "target" /\ wr.op = "write" /\ Tick
        /\ UNCHANGED <<rec, disk, eng, remote, clock>>
        /\ promised' = IF promised = {} THEN {} ELSE promised \cup {logical'}
        /\ logical' = Patch(logical, wr.at, v)
        /\ wr' = [wr EXCEPT !.pc = "wrote"]
    BY <1>2 DEF WriteFile
  <2>1. /\ Present(rec) /\ wr.rec.fid = rec.fid /\ rec.fid \in DOMAIN file
        /\ wr.rec.frozen = rec.frozen /\ wr.rec.size = rec.size
        /\ Staged \in Content /\ Staged = logical /\ Len(Staged) \in Nat
    BY ZenonT(60), <1>1, <2>0
  <2>2. file' = Put(file, rec.fid, c)
    BY <1>2, <2>1 DEF WriteFile, Staged
  <2>3. Staged' = c /\ logical' = c
    BY <2>0, <2>1, <2>2 DEF Staged, Put
  <2>4. v \in 0 .. MaxClock /\ wr.at < MaxSize
    BY <2>0, NextStamp DEF TypeOK, TypeActors
  <2>5. wr'.pc = "wrote" /\ wr'.rec = wr.rec /\ wr'.at = wr.at
    BY ZenonT(60), <2>0 DEF Writer
  <2>6. ASSUME NEW n \in Nat, rec.frozen, n <= rec.size, n <= Len(Staged)
        PROVE  n <= Len(Staged') /\ Prefix(Staged', n) = Prefix(Staged, n)
    <3>1. n <= wr.at
      BY SMTT(60), <2>0, <2>1, <2>6 DEF ClaimInv, Target
    <3>2. n <= Len(c) /\ Prefix(c, n) = Prefix(Staged, n)
      BY <2>1, <2>4, <2>6, <3>1, PrefixPatch
    <3> HIDE DEF c
    <3> QED
      BY <2>3, <3>2
  <2>6a. ASSUME NEW n \in Nat, NEW i, rec.frozen, n <= rec.size, Holds(i, n)
         PROVE  Holds(i, n)'
    BY ZenonT(60), <2>0, <2>6, <2>6a DEF Holds
  <2>7. rec.frozen => Len(c) = Larger(Len(Staged), wr.at + 1)
    <3>1. ASSUME rec.frozen PROVE 0 <= Len(Staged) /\ 0 <= wr.at
      BY <2>1
    <3> QED
      BY SMTT(60), <2>1, <2>4, <3>1, PrefixPatch
  <2> HIDE DEF c, v
  <2>8. RecordInv'
    <3>1. rec.frozen => Len(Staged) <= rec.size
      BY <2>0, <2>1 DEF Safe, RecordInv, Reach
    <3>2. Reach' = Larger(rec.size, wr.at + 1)
      BY ZenonT(60), <2>0, <2>5 DEF Reach
    <3>3. rec.frozen => Len(c) <= Reach'
      BY <2>1, <2>7, <3>1, <3>2 DEF Larger
    <3>4. eng.pc # "cleanM" => disk.fid = rec.fid
      BY <2>0, <1>1
    <3> QED
      BY ZenonT(60), <2>0, <2>3, <3>3, <3>4 DEF RecordInv
  <2>9. CandidateInv'
    <3>1. ASSUME rec.repl # NoRepl
          PROVE  /\ rec.frozen /\ rec.repl.size = rec.size /\ rec.repl.id <= clock
                 /\ Holds(rec.repl.id, rec.size) /\ rec.size <= Len(Staged)
      BY <2>1, <3>1 DEF Safe, CandidateInv, Holds
    <3>2. ASSUME rec.repl # NoRepl PROVE Holds(rec.repl.id, rec.size)'
      BY <2>0, <2>6a, <3>1, <3>2
    <3> QED
      BY ZenonT(60), <2>0, <3>1, <3>2 DEF CandidateInv
  <2>10. JournalInv'
    <3>1. ASSUME eng.pc = "replM" PROVE Holds(eng.ent, disk.size)'
      <4>1. rec.frozen /\ disk.size <= rec.size /\ Holds(eng.ent, disk.size) /\ disk.size <= Len(Staged)
        BY ZenonT(60), <3>1 DEF Safe, JournalInv, Holds
      <4> QED
        BY ZenonT(60), <2>0, <2>6a, <4>1
    <3> QED
      BY <2>0, <3>1 DEF Safe, JournalInv
  <2>11. WriterInv'
    BY <2>0, <2>5 DEF Safe, WriterInv
  <2>12. UploadInv'
    <3>1. SUFFICES ASSUME eng.pc \in Uploading, Same(rec, eng.rec)
                   PROVE  /\ rec.frozen /\ rec.started /\ rec.size <= Len(Staged')
                          /\ promised' # {} => Prefix(Staged', rec.size) \in promised'
                          /\ eng.pc \in Uploaded => Holds(eng.ent, rec.size)'
      BY ZenonT(60), <2>0 DEF UploadInv
    <3>2. /\ rec.frozen /\ rec.started /\ rec.size <= Len(Staged)
          /\ promised # {} => Prefix(Staged, rec.size) \in promised
          /\ eng.pc \in Uploaded => Holds(eng.ent, rec.size)
      BY ZenonT(60), <3>1 DEF Safe, UploadInv
    <3>3. rec.size <= Len(Staged') /\ Prefix(Staged', rec.size) = Prefix(Staged, rec.size)
      <4>1. rec.frozen /\ rec.size <= rec.size /\ rec.size <= Len(Staged)
        BY <3>2
      <4> QED
        BY ZenonT(60), <2>6, <4>1
    <3>4. ASSUME eng.pc \in Uploaded PROVE Holds(eng.ent, rec.size)'
      <4>1. Holds(eng.ent, rec.size) /\ rec.frozen /\ rec.size <= rec.size /\ rec.size <= Len(Staged)
        BY <3>2, <3>4
      <4> QED
        BY ZenonT(60), <2>0, <2>6a, <4>1
    <3> QED
      BY ZenonT(60), <2>0, <3>2, <3>3, <3>4
  <2>13. VacantInv' /\ CleanInv'
    BY ZenonT(60), <2>0, <2>1 DEF VacantInv, CleanInv, Safe, FinalData, Finals
  <2> QED
    BY ZenonT(60), <2>8, <2>9, <2>10, <2>11, <2>12, <2>13 DEF Safe
<1>3. CASE WriteUpdate
  <2>1. /\ wr.pc = "wrote" /\ Same(rec, wr.rec) /\ wr' = NoWr
        /\ rec' = [wr.rec EXCEPT !.size = Larger(wr.rec.size, wr.at + 1), !.stamp = clock + 1]
        /\ UNCHANGED <<disk, file, eng, remote, logical, promised>>
    BY ZenonT(60), <1>3 DEF WriteUpdate
  <2>2. /\ Present(rec) /\ wr.rec.fid = rec.fid /\ wr.rec.frozen = rec.frozen /\ wr.rec.size = rec.size
        /\ Staged = logical /\ wr.rec.repl = rec.repl
    BY <1>1, <2>1 DEF Same
  <2>3. rec.repl = NoRepl
    BY ZenonT(60), <2>1, <2>2 DEF Safe, WriterInv
  <2>4. /\ rec'.fid = rec.fid /\ rec'.frozen = rec.frozen /\ rec'.repl = NoRepl
        /\ rec'.stamp = clock + 1 /\ rec'.started = wr.rec.started /\ rec'.size = Reach
    BY ZenonT(60), <2>1, <2>2, <2>3 DEF Record, Reach
  <2>5. rec.size <= rec'.size /\ Reach' = rec'.size
    BY <2>1, <2>4 DEF Reach, Larger
  <2>6. UploadInv' /\ VacantInv' /\ Present(rec')
    BY ZenonT(60), <2>1, <2>2, <2>4, SafeStamp
  <2>7. RecordInv' /\ CandidateInv'
    BY ZenonT(60), <2>1, <2>2, <2>4, <2>5 DEF Safe, RecordInv, CandidateInv, Staged
  <2>8. JournalInv'
    <3>1. rec.frozen => rec'.started
      BY ZenonT(60), <2>1, <2>2, <2>4 DEF ClaimInv, Target
    <3>2. ASSUME eng.pc = "replM"
          PROVE  /\ Present(rec') /\ rec'.fid = eng.rec.fid /\ disk.fid = rec'.fid
                 /\ rec'.frozen /\ rec'.started /\ disk.size <= rec'.size
                 /\ Holds(eng.ent, disk.size)'
      <4>1. /\ rec.fid = eng.rec.fid /\ disk.fid = rec.fid /\ rec.frozen /\ disk.size <= rec.size
            /\ Holds(eng.ent, disk.size)
        BY ZenonT(60), <3>2 DEF Safe, JournalInv
      <4>2. Holds(eng.ent, disk.size)'
        BY ZenonT(60), <2>1, <2>4, <4>1 DEF Holds, Staged
      <4>3. disk.size <= rec'.size
        BY SMTT(60), <2>5, <4>1, RecordType
      <4> QED
        BY ZenonT(60), <2>4, <2>6, <3>1, <4>1, <4>2, <4>3
    <3>3. Present(disk) /\ disk.repl # NoRepl => eng.pc = "replM"
      BY <2>3 DEF Safe, JournalInv
    <3> QED
      BY ZenonT(60), <2>1, <3>2, <3>3 DEF Safe, JournalInv
  <2>9. WriterInv' /\ CleanInv'
    BY <2>1, <2>6 DEF Safe, WriterInv, CleanInv, FinalData, Finals
  <2> QED
    BY ZenonT(60), <2>6, <2>7, <2>8, <2>9 DEF Safe
<1>4. CASE TruncateFile
  <2> DEFINE c == Resize(Staged, wr.at)
  <2>0. /\ wr.pc = "target" /\ wr.op = "truncate" /\ ~TxHeld /\ wr' = NoWr
        /\ logical' = Resize(logical, wr.at) /\ UNCHANGED <<eng, remote>>
        /\ promised' = IF promised = {} THEN {} ELSE promised \cup {Resize(logical, wr.at)}
    BY SMTT(60), <1>4 DEF TruncateFile
  <2>1. /\ Present(rec) /\ wr.rec.fid = rec.fid /\ rec.fid \in DOMAIN file
        /\ wr.rec.frozen = rec.frozen /\ Staged = logical /\ disk.fid = rec.fid
    BY ZenonT(60), <1>1, <2>0 DEF TxHeld
  <2>2. file' = Put(file, rec.fid, c)
    BY ZenonT(60), <1>4, <2>1 DEF TruncateFile, Staged
  <2>3. file'[rec.fid] = c /\ logical' = c /\ (promised' # {} => c \in promised')
    BY ZenonT(60), <2>0, <2>1, <2>2 DEF Put
  <2> HIDE DEF c
  <2>4. ~rec.frozen /\ rec.repl = NoRepl /\ disk.repl = NoRepl /\ wr.rec.repl = NoRepl
    <3>1. ~wr.rec.frozen
      BY ZenonT(60), <2>0 DEF ClaimInv, Target
    <3>2. rec.repl = NoRepl
      BY ZenonT(60), <2>1, <3>1 DEF Safe, CandidateInv
    <3>3. disk.repl = NoRepl
      BY ZenonT(60), <2>0, <2>1, <3>2 DEF Safe, JournalInv, TxHeld, Present
    <3> QED
      BY ZenonT(60), <2>0, <2>1, <3>1, <3>2, <3>3 DEF Safe, WriterInv
  <2>5. ASSUME rec'.fid = rec.fid, ~rec'.frozen, rec'.repl = NoRepl, disk'.fid = rec.fid, disk'.repl = NoRepl
        PROVE  RecordInv' /\ CandidateInv' /\ JournalInv' /\ WriterInv' /\ CleanInv' /\ VacantInv'
    <3>1. RecordInv' /\ CandidateInv'
      BY ZenonT(60), <2>3, <2>5 DEF RecordInv, CandidateInv, Staged
    <3>2. JournalInv' /\ WriterInv' /\ CleanInv' /\ VacantInv'
      BY ZenonT(60), <2>0, <2>1, <2>5 DEF JournalInv, WriterInv, CleanInv, VacantInv, TxHeld, Present
    <3> QED
      BY ZenonT(60), <3>1, <3>2
  <2>6. CASE UNCHANGED <<rec, disk, raced, clock>>
    <3>1. UploadInv'
      BY ZenonT(60), <2>0, <2>4, <2>6 DEF Safe, UploadInv
    <3> QED
      BY ZenonT(60), <2>1, <2>4, <2>5, <2>6, <3>1 DEF Safe
  <2>7. CASE /\ rec' = [wr.rec EXCEPT !.size = wr.at, !.stamp = clock + 1] /\ disk' = Journaled(rec')
    <3>1. /\ rec'.fid = rec.fid /\ rec'.frozen = rec.frozen /\ rec'.repl = NoRepl
          /\ rec'.stamp = clock + 1
      BY ZenonT(60), <2>1, <2>4, <2>7 DEF Record
    <3>2. disk'.fid = rec'.fid /\ disk'.repl = rec'.repl
      BY ZenonT(60), <2>7 DEF Journaled, Record
    <3>3. UploadInv'
      BY ZenonT(60), <2>0, <2>1, <3>1, SafeStamp
    <3> QED
      BY ZenonT(60), <2>4, <2>5, <3>1, <3>2, <3>3 DEF Safe
  <2> QED
    BY ZenonT(60), <1>4, <2>6, <2>7 DEF TruncateFile
<1> QED
  BY ZenonT(60), <1>2, <1>3, <1>4

\* Flush, the explicit retry and the discard.
LEMMA SafeFlush ==
  ASSUME TypeOK, TypeOK', ClaimInv, RemoteInv, Safe, ~raced, ~raced', ~torn',
         FlushRead \/ FlushIgnored \/ FlushSave \/ RetryRead \/ RetrySave \/ Discard
  PROVE  Safe'
<1>0. /\ wr \in Writer /\ rec \in Record /\ rec' \in Record /\ wr.rec \in Record /\ wr.new \in Record
      /\ rty \in Record /\ NoWr.pc = "idle" /\ rec.size \in Nat /\ clock \in Nat
  BY SMTT(60), BoundsAssumption, ActorType, RecordType DEF TypeOK, TypeStore, TypeActors, TypeWorld, NoWr
<1> USE <1>0
\* the record keeps its content and its candidate, and gets a new stamp
<1>1. ASSUME ~TxHeld, eng' = eng, remote' = remote, clock' = clock + 1, logical' = logical,
             Present(rec), rec'.fid = rec.fid, rec'.repl = rec.repl, rec'.stamp = clock + 1,
             file'[rec.fid] = Staged, disk' = Journaled(rec'),
             rec.repl # NoRepl => rec'.frozen /\ rec'.size = rec.size,
             rec'.frozen => Len(Staged) <= Reach',
             promised' # {} => logical \in promised', WriterInv'
      PROVE  Safe'
  <2>1. disk'.fid = rec'.fid /\ disk'.repl = rec'.repl /\ disk'.size = rec'.size
    BY SMTT(60), <1>1 DEF Journaled, Record
  <2>2. UploadInv' /\ VacantInv'
    BY ZenonT(60), <1>1, SafeStamp
  <2>3. Staged' = Staged /\ Staged = logical
    BY SMTT(60), <1>1 DEF Staged, Safe, RecordInv
  <2>4. RecordInv'
    BY ZenonT(60), <1>1, <2>1, <2>3 DEF RecordInv
  <2>5. CandidateInv'
    <3>1. ASSUME rec.repl # NoRepl
          PROVE  /\ rec.repl.size = rec.size /\ rec.repl.id <= clock /\ Holds(rec.repl.id, rec.size)
                 /\ rec.repl.id \in Nat
      <4>1. rec.repl.id \in 0 .. MaxClock
        BY ZenonT(60), RecordType
      <4>2. rec.repl.size = rec.size /\ rec.repl.id <= clock /\ Holds(rec.repl.id, rec.size)
        BY ZenonT(60), <1>1, <3>1 DEF Safe, CandidateInv
      <4> QED
        BY <4>1, <4>2
    <3>2. ASSUME rec.repl # NoRepl PROVE rec'.repl.id <= clock' /\ Holds(rec.repl.id, rec.size)'
      <4>1. rec.repl.id <= clock + 1
        BY <3>1, <3>2
      <4>2. Holds(rec.repl.id, rec.size)'
        BY ZenonT(60), <1>1, <2>3, <3>1, <3>2 DEF Holds
      <4> QED
        BY ZenonT(60), <1>1, <4>1, <4>2
    <3> QED
      BY ZenonT(60), <1>1, <3>1, <3>2 DEF CandidateInv, Holds
  <2>6. JournalInv' /\ CleanInv'
    BY ZenonT(60), <1>1, <2>1 DEF JournalInv, CleanInv, TxHeld
  <2> QED
    BY ZenonT(60), <1>1, <2>2, <2>4, <2>5, <2>6 DEF Safe
<1>2. CASE FlushRead
  <2>1. /\ Present(rec) /\ wr.pc = "idle"
        /\ UNCHANGED <<rec, disk, file, eng, remote, clock, logical, promised>>
    BY <1>2 DEF FlushRead, store, history, LockFree
  <2>2. wr'.pc = "flush" /\ wr'.rec = rec /\ wr'.new.repl = rec.repl
    <3> DEFINE n == Len(file[rec.fid])
               h == HashSnapshot(rec.fid, n)
               r == [rec EXCEPT !.size = n, !.frozen = TRUE, !.hash = IF h = {} THEN @ ELSE h]
    <3>1. wr' = [NoWr EXCEPT !.pc = "flush", !.op = "flush", !.rec = rec, !.new = r]
      BY <1>2 DEF FlushRead
    <3>2. r.repl = rec.repl
      BY SMTT(60) DEF Record
    <3> HIDE DEF r
    <3> QED
      BY ZenonT(60), <3>1, <3>2, NoType DEF Writer
  <2>3. WriterInv'
    BY ZenonT(60), <2>1, <2>2 DEF Safe, CandidateInv, WriterInv
  <2>4. Reach' = Reach
    BY ZenonT(60), <2>1, <2>2 DEF Reach
  <2> QED
    BY ZenonT(60), <2>1, <2>3, <2>4, WriterFrame
<1>3. CASE FlushIgnored
  <2>1. /\ ~Present(rec) /\ promised # {} /\ promised' = {logical}
        /\ UNCHANGED <<rec, disk, file, wr, eng, remote, clock, logical>>
    BY ZenonT(60), <1>3 DEF FlushIgnored, store
  <2>2. FinalData = {logical} /\ Harmless /\ eng.pc \notin {"cleanM", "replM"}
    BY ZenonT(60), <2>1 DEF Safe, VacantInv, CleanInv, JournalInv
  <2>3. RecordInv' /\ CandidateInv' /\ UploadInv'
    BY ZenonT(60), <2>1 DEF RecordInv, CandidateInv, UploadInv, Same
  <2>4. VacantInv' /\ CleanInv'
    BY ZenonT(60), <2>1, <2>2 DEF VacantInv, CleanInv, FinalData, Finals, Harmless
  <2>5. JournalInv' /\ WriterInv'
    BY ZenonT(60), <2>1, <2>2 DEF Safe, JournalInv, WriterInv
  <2> QED
    BY ZenonT(60), <2>3, <2>4, <2>5 DEF Safe
<1>4. CASE FlushSave
  <2>0. /\ wr.pc = "flush" /\ ~TxHeld /\ wr' = NoWr /\ UNCHANGED <<eng, remote, logical>>
    BY SMTT(60), <1>4 DEF FlushSave
  <2>1. CASE UNCHANGED <<rec, disk, file, sched, promised, sealed, raced, clock>>
    <3>1. WriterInv' /\ Reach' = Reach
      BY ZenonT(60), <2>0, <2>1 DEF WriterInv, Reach
    <3> QED
      BY ZenonT(60), <2>0, <2>1, <3>1, WriterFrame
  <2>2. CASE /\ rec' = [wr.new EXCEPT !.stamp = clock + 1] /\ disk' = Journaled(rec')
             /\ file' = Displaced(file, sched, rec'.fid, rec') /\ promised' = {logical}
             /\ clock' = clock + 1 /\ Same(rec, wr.rec)
    <3>1. /\ Present(rec) /\ wr.rec.fid = rec.fid /\ rec.fid \in DOMAIN file /\ wr.new.fid = rec.fid
          /\ wr.new.frozen /\ wr.new.size = Len(Staged) /\ wr.rec.repl = rec.repl
      BY ZenonT(60), <2>0, <2>2 DEF ClaimInv, WriterCopy, Backed, Staged, Same
    <3>2. /\ rec'.fid = rec.fid /\ rec'.frozen /\ rec'.size = Len(Staged) /\ rec'.stamp = clock + 1
          /\ rec'.repl = rec.repl
      BY ZenonT(60), <2>0, <2>2, <3>1 DEF Record, Safe, WriterInv
    <3>3. file'[rec.fid] = Staged
      <4>1. rec'.fid \in DOMAIN file
        BY SMTT(60), <3>1, <3>2
      <4>2. Displaced(file, sched, rec'.fid, rec')[rec'.fid] = file[rec'.fid]
        BY SMTT(60), <4>1, DisplacedFiles
      <4> QED
        BY SMTT(60), <2>2, <3>2, <4>2 DEF Staged
    <3>4. Staged \in Content /\ Len(Staged) \in Nat
      BY SMTT(60), <3>1 DEF Staged, TypeOK, TypeStore, Content
    <3>5. ASSUME rec.repl # NoRepl PROVE rec'.size = rec.size
      <4>1. rec.frozen /\ rec.size <= Len(Staged)
        BY ZenonT(60), <3>1, <3>5 DEF Safe, CandidateInv, Holds
      <4>2. Len(Staged) <= rec.size
        BY ZenonT(60), <2>0, <3>1, <4>1 DEF Safe, RecordInv, Reach
      <4> QED
        BY SMTT(60), <3>2, <3>4, <4>1, <4>2
    <3>6. Len(Staged) <= Reach' /\ WriterInv'
      <4>1. WriterInv'
        BY ZenonT(60), <2>0 DEF WriterInv
      <4>2. Reach' = rec'.size
        BY <2>0 DEF Reach
      <4> QED
        BY SMTT(60), <3>2, <3>4, <4>1, <4>2
    <3>7. promised' # {} => logical \in promised'
      BY ZenonT(60), <2>2
    <3> QED
      BY ZenonT(60), <1>1, <2>0, <2>2, <3>1, <3>2, <3>3, <3>5, <3>6, <3>7
  <2> QED
    BY ZenonT(60), <1>4, <2>1, <2>2 DEF FlushSave
<1>5. CASE RetryRead
  <2>1. UNCHANGED <<rec, disk, file, wr, eng, remote, clock, logical, promised>>
    BY ZenonT(60), <1>5 DEF RetryRead, store, history
  <2>2. WriterInv' /\ Reach' = Reach
    BY <2>1 DEF Safe, WriterInv, Reach
  <2> QED
    BY ZenonT(60), <2>1, <2>2, WriterFrame
<1>6. CASE RetrySave
  <2>1. /\ rec' = [rty EXCEPT !.fail = FALSE, !.stamp = clock + 1] /\ disk' = Journaled(rec')
        /\ ~TxHeld /\ Same(rec, rty) /\ rec.frozen = rty.frozen /\ clock' = clock + 1
        /\ UNCHANGED <<file, wr, eng, remote, logical, promised>>
    BY ZenonT(60), <1>6, RecordType DEF RetrySave, Same
  <2>2. /\ Present(rec) /\ rec'.fid = rec.fid /\ rec'.frozen = rec.frozen /\ rec'.size = rec.size
        /\ rec'.stamp = clock + 1 /\ rec'.repl = rec.repl
    BY <2>1 DEF Record, Same
  <2>3. /\ file'[rec.fid] = Staged /\ Reach' = Reach /\ WriterInv'
    BY <2>1, <2>2 DEF Staged, Reach, Safe, WriterInv
  <2>4. /\ rec.frozen => Len(Staged) <= Reach
        /\ promised # {} => logical \in promised
        /\ rec.repl # NoRepl => rec.frozen
    BY ZenonT(60), <2>2 DEF Safe, RecordInv, CandidateInv
  <2> QED
    BY ZenonT(60), <1>1, <2>1, <2>2, <2>3, <2>4
<1>7. CASE Discard
  <2>1. /\ ~TxHeld /\ rec' = NoRec /\ disk' = NoRec /\ wr.pc = "idle" /\ ~Switching
        /\ promised' = IF base = {} THEN {} ELSE base \cup FinalData
        /\ logical' = CHOOSE c \in IF FinalData # {} THEN FinalData
                                   ELSE IF base # {} THEN base ELSE {<<>>} : TRUE
        /\ UNCHANGED <<eng, wr, remote>>
    BY ZenonT(60), <1>7 DEF Discard, LockFree
  <2>2. ~Present(rec') /\ ~Present(disk')
    BY SMTT(60), <2>1 DEF NoRec, Present
  <2>3. RecordInv' /\ CandidateInv' /\ UploadInv' /\ WriterInv'
    BY ZenonT(60), <2>1, <2>2 DEF RecordInv, CandidateInv, UploadInv, WriterInv, Same
  <2>4. JournalInv' /\ CleanInv'
    BY ZenonT(60), <2>1, <2>2 DEF JournalInv, CleanInv, TxHeld
  <2>5. VacantInv'
    <3>1. SUFFICES ASSUME base # {}
                   PROVE  FinalData = {logical'} /\ logical' \in promised' /\ Harmless
      BY ZenonT(60), <2>1 DEF VacantInv, FinalData, Finals, Harmless
    <3>2. Finals # {} /\ eng.pc # "swap" /\ (eng.pc # "idle" => {eng.ent, eng.rec.repl.id} \cap Finals = {})
      BY ZenonT(60), <2>1, <3>1 DEF Switching
    <3>3. PICK i \in Finals : TRUE
      BY ZenonT(60), <3>2
    <3>4. FinalData = {remote[i].data}
      BY ZenonT(60), <3>3 DEF FinalData, RemoteInv, OneFinal
    <3>5. logical' = remote[i].data
      BY SMTT(60), <2>1, <3>4
    <3>6. eng.pc # "commit"
      BY ZenonT(60), <3>2 DEF RemoteInv, SwitchInv
    <3>7. Harmless
      BY ZenonT(60), <2>1, <3>2, <3>6 DEF Harmless, TxHeld
    <3> QED
      BY ZenonT(60), <2>1, <3>1, <3>4, <3>5, <3>7
  <2> QED
    BY SMTT(60), <2>3, <2>4, <2>5 DEF Safe
<1> QED
  BY ZenonT(60), <1>2, <1>3, <1>4, <1>5, <1>6, <1>7

\* What the journal names is the record's content, and a candidate in the journal
\* holds its bytes.
LEMMA JournalHolds ==
  ASSUME TypeOK, ClaimInv, RemoteInv, Safe, ~raced, disk.fid \in DOMAIN file
  PROVE  /\ Present(disk) /\ Present(rec) /\ disk.fid = rec.fid
         /\ Staged = logical /\ (promised # {} => logical \in promised)
         /\ disk.repl # NoRepl => /\ disk.repl.size = disk.size /\ disk.repl.id <= clock
                                  /\ Holds(disk.repl.id, disk.size)
<1>1. 0 \notin DOMAIN file
  BY DEF TypeOK, TypeStore, Fids
<1>2. Present(disk) /\ Present(rec) /\ disk.fid = rec.fid
  BY ZenonT(60), <1>1 DEF ClaimInv, Backed, Present
<1>3. Staged = logical /\ (promised # {} => logical \in promised)
  BY ZenonT(60), <1>2 DEF Safe, RecordInv
<1>4. ASSUME disk.repl # NoRepl
      PROVE  disk.repl.size = disk.size /\ disk.repl.id <= clock /\ Holds(disk.repl.id, disk.size)
  <2>1. CASE eng.pc # "replM"
    BY ZenonT(60), <1>2, <1>4, <2>1 DEF Safe, JournalInv, CandidateInv
  <2>2. CASE eng.pc = "replM"
    BY SMTT(60), <2>2 DEF Safe, JournalInv, RemoteInv, Numbered
  <2> QED
    BY ZenonT(60), <2>1, <2>2
<1> QED
  BY ZenonT(60), <1>2, <1>3, <1>4

\* When the journal names no staged content, the remote holds the promised one.
LEMMA RemoteHolds ==
  ASSUME ClaimInv, RemoteInv, Safe, ~raced, disk.fid \notin DOMAIN file, promised # {}
  PROVE  FinalData \subseteq promised /\ FinalData # {}
<1>1. ~Present(rec) \/ eng.pc = "cleanM"
  BY ZenonT(60) DEF Safe, RecordInv, ClaimInv, Backed
<1>2. CASE ~Present(rec)
  BY ZenonT(60), <1>2 DEF Safe, VacantInv
<1>3. CASE eng.pc = "cleanM"
  BY <1>3 DEF Safe, CleanInv, RemoteInv, SwitchInv, FinalData
<1> QED
  BY ZenonT(60), <1>1, <1>2, <1>3

\* The process stops and starts again.
LEMMA SafeCrash ==
  ASSUME TypeOK, TypeOK', ClaimInv, RemoteInv, Safe, ~raced, ~torn', CrashAndResume
  PROVE  Safe'
<1>0. /\ rec \in Record /\ disk \in Record /\ clock \in Nat /\ clock' = clock + 1
      /\ NoEng.pc = "idle" /\ NoWr.pc = "idle" /\ ~Present(NoRec)
      /\ DOMAIN file \subseteq Fids /\ 0 \notin DOMAIN file
      /\ eng' = NoEng /\ wr' = NoWr /\ UNCHANGED <<remote, promised>>
  <2>1. clock' = clock + 1 /\ eng' = NoEng /\ wr' = NoWr /\ UNCHANGED <<remote, promised>>
    BY SMTT(60) DEF CrashAndResume
  <2>2. rec \in Record /\ disk \in Record /\ clock \in Nat
    BY BoundsAssumption DEF TypeOK, TypeStore, TypeWorld
  <2>3. NoEng.pc = "idle" /\ NoWr.pc = "idle" /\ ~Present(NoRec)
    BY ZenonT(60) DEF NoEng, NoWr, NoRec, Present
  <2>4. DOMAIN file \subseteq Fids /\ 0 \notin DOMAIN file
    BY DEF TypeOK, TypeStore, Fids
  <2> QED
    BY SMTT(60), <2>1, <2>2, <2>3, <2>4
<1> USE <1>0
<1> DEFINE r == Resumed(Loaded, clock + 1)
<1>1. /\ rec' = r /\ disk' = r /\ file' = [f \in DOMAIN file \cap {r.fid} |-> file[f]]
      /\ logical' \in IF Present(r) THEN {file[r.fid]} ELSE IF Finals # {} THEN FinalData ELSE {<<>>}
      /\ r.repl # NoRepl => r.frozen
  BY ZenonT(60) DEF CrashAndResume
<1> HIDE DEF r
<1>2. WriterInv' /\ UploadInv' /\ CleanInv'
  BY ZenonT(60) DEF WriterInv, UploadInv, CleanInv, Uploading
<1>3. JournalInv'
  BY ZenonT(60), <1>1 DEF JournalInv
<1>4. CASE disk.fid \in DOMAIN file
  <2>1. Present(disk) /\ Present(rec) /\ disk.fid = rec.fid
    BY ZenonT(60), <1>4, JournalHolds
  <2>2. Staged \in Content /\ Len(Staged) \in Nat /\ disk.size \in Nat /\ file[disk.fid] = Staged
    BY SMTT(60), <1>4, <2>1, RecordType DEF Staged, TypeOK, TypeStore, Content
  <2>3. /\ r.fid = disk.fid /\ r.repl = disk.repl
        /\ r.frozen => r.size = disk.size /\ Len(Staged) <= disk.size
    <3>1. r = Resumed(disk, clock + 1)
      BY <1>4 DEF r, Loaded
    <3>2. CASE Len(Staged) = disk.size
      BY <2>2, <3>1, <3>2 DEF Resumed
    <3>3. CASE Len(Staged) # disk.size /\ (disk.frozen /\ Len(Staged) < disk.size)
      <4>1. r = [disk EXCEPT !.fail = TRUE, !.stamp = clock + 1]
        BY ZenonT(60), <2>1, <2>2, <3>1, <3>3 DEF Resumed
      <4> QED
        BY SMTT(60), <2>2, <3>3, <4>1 DEF Record
    <3>4. CASE Len(Staged) # disk.size /\ ~(disk.frozen /\ Len(Staged) < disk.size)
      <4>1. r = [disk EXCEPT !.size = Len(Staged), !.hash = {}, !.frozen = FALSE, !.stamp = clock + 1]
        BY ZenonT(60), <2>1, <2>2, <3>1, <3>4 DEF Resumed
      <4> QED
        BY <4>1 DEF Record
    <3> QED
      BY ZenonT(60), <3>2, <3>3, <3>4
  <2>4. Present(rec') /\ Staged' = Staged /\ logical' = Staged /\ rec'.fid = rec.fid
    BY ZenonT(60), <1>1, <1>4, <2>1, <2>2, <2>3 DEF Present, Staged
  <2>5. Staged = logical /\ (promised # {} => logical \in promised)
    BY ZenonT(60), <1>4, JournalHolds
  <2>6. RecordInv'
    <3>1. Reach' = rec'.size
      BY ZenonT(60) DEF Reach
    <3> QED
      BY ZenonT(60), <1>1, <2>3, <2>4, <2>5, <3>1 DEF RecordInv
  <2>7. CandidateInv'
    <3>1. ASSUME disk.repl # NoRepl
          PROVE  disk.repl.size = disk.size /\ disk.repl.id <= clock /\ Holds(disk.repl.id, disk.size)
      BY ZenonT(60), <1>4, <3>1, JournalHolds
    <3>2. SUFFICES ASSUME rec'.repl # NoRepl
                   PROVE  /\ rec'.frozen /\ rec'.repl.size = rec'.size /\ rec'.repl.id <= clock'
                          /\ rec'.size <= Len(Staged)
                          /\ rec'.repl.id \in DOMAIN remote =>
                               remote[rec'.repl.id].data = Prefix(Staged, rec'.size)
      BY ZenonT(60), <2>4 DEF CandidateInv, Holds
    <3>3. rec'.frozen /\ rec'.repl = disk.repl /\ rec'.size = disk.size
      BY ZenonT(60), <1>1, <2>3, <3>2
    <3>4. disk.repl.id <= clock => disk.repl.id <= clock'
      BY SMTT(60), RecordType
    <3> QED
      BY ZenonT(60), <3>1, <3>2, <3>3, <3>4 DEF Holds
  <2>8. VacantInv'
    BY ZenonT(60), <2>4 DEF VacantInv
  <2> QED
    BY ZenonT(60), <1>2, <1>3, <2>6, <2>7, <2>8 DEF Safe
<1>5. CASE disk.fid \notin DOMAIN file
  <2>1. r = NoRec
    BY ZenonT(60), <1>5 DEF r, Loaded, Resumed
  <2>2. ~Present(rec')
    BY ZenonT(60), <1>1, <2>1
  <2>3. VacantInv'
    <3>1. SUFFICES ASSUME promised # {} PROVE FinalData = {logical'} /\ logical' \in promised
      BY ZenonT(60), <2>2 DEF VacantInv, FinalData, Finals, Harmless
    <3>2. FinalData \subseteq promised /\ Finals # {}
      BY ZenonT(60), <1>5, <3>1, RemoteHolds DEF FinalData
    <3>3. logical' \in FinalData
      BY ZenonT(60), <1>1, <2>1, <3>2
    <3>4. \A x, y \in FinalData : x = y
      BY ZenonT(60) DEF FinalData, RemoteInv, OneFinal
    <3> QED
      BY ZenonT(60), <3>2, <3>3, <3>4
  <2>4. RecordInv' /\ CandidateInv'
    BY <2>2 DEF RecordInv, CandidateInv
  <2> QED
    BY <1>2, <1>3, <2>3, <2>4 DEF Safe
<1> QED
  BY SMTT(60), <1>4, <1>5

\* Every step preserves the invariant.
LEMMA SafeNext ==
  TypeOK /\ TypeOK' /\ ClaimInv /\ RemoteInv /\ RemoteInv' /\ SafeInv /\ [Next]_vars => SafeInv'
<1> SUFFICES ASSUME TypeOK, TypeOK', ClaimInv, RemoteInv, RemoteInv', SafeInv, [Next]_vars,
                    ~raced', ~torn'
             PROVE  Safe'
  BY ZenonT(60) DEF SafeInv
<1>1. CASE UNCHANGED vars
  <2>1. /\ UNCHANGED <<rec, disk, file, wr, eng, remote, clock, logical, promised>> /\ ~raced /\ ~torn
    BY ZenonT(60), <1>1 DEF vars, store, history
  <2>2. WriterInv' /\ Reach' = Reach
    BY <2>1 DEF SafeInv, Safe, WriterInv, Reach
  <2> QED
    BY ZenonT(60), <2>1, <2>2, WriterFrame DEF SafeInv
<1>2. CASE Next
  <2>0. ~raced /\ ~torn /\ Safe
    BY ZenonT(60), <1>2, Remembered DEF SafeInv
  <2>1. CASE EngineStep
    <3>1. SafeInv'
      BY ZenonT(60), <2>1, SafeEngine
    <3> QED
      BY ZenonT(60), <3>1 DEF SafeInv
  <2>2. CASE CrashAndResume
    BY <2>0, <2>2, SafeCrash
  <2>3. CASE UserStep
    <3>1. CASE \/ Create
               \/ \E op, n : OpenForWrite(op, n)
               \/ \E op, n : StageForWrite(op, n)
               \/ WriteTarget \/ WriteFails
      BY ZenonT(60), <2>0, <3>1, SafeOpen
    <3>2. CASE WriteFile \/ WriteUpdate \/ TruncateFile
      BY ZenonT(60), <2>0, <3>2, SafeWrite
    <3>3. CASE FlushRead \/ FlushIgnored \/ FlushSave \/ RetryRead \/ RetrySave \/ Discard
      BY <2>0, <3>3, SafeFlush
    <3> QED
      BY ZenonT(60), <2>3, <3>1, <3>2, <3>3 DEF UserStep
  <2> QED
    BY ZenonT(60), <1>2, <2>1, <2>2, <2>3 DEF Next
<1> QED
  BY ZenonT(60), <1>1, <1>2

LEMMA AlwaysSafe == Spec => [](TypeOK /\ ClaimInv /\ RemoteInv /\ SafeInv)
<1>1. Init => SafeInv
  BY ZenonT(60), SafeInit
<1>2. TypeOK /\ TypeOK' /\ ClaimInv /\ RemoteInv /\ RemoteInv' /\ SafeInv /\ [Next]_vars => SafeInv'
  BY SafeNext
<1> QED
  BY <1>1, <1>2, TypeCorrect, ClaimDiscipline, OneRemoteFile, PTL DEF Spec

\* Content that Flush confirmed is never lost: what a crash at this moment would
\* leave under the path is the last flushed content or a later write to it, for
\* every interleaving of the write path, the engine, the retry, the discard, remote
\* failures and crashes - unless a stale record copy was written back, or a discard
\* fell into a switch of remote entries (Flush, Execute, replaceUploadedFile,
\* rollbackUploadedEntry, finalizeUpload, Resume).
THEOREM FlushedContent == Spec => []FlushedContentSafe
<1>1. TypeOK /\ ClaimInv /\ RemoteInv /\ SafeInv => FlushedContentSafe
  <2> SUFFICES ASSUME TypeOK, ClaimInv, RemoteInv, Safe, promised # {}, ~raced
               PROVE  Recovered # {} /\ Recovered \subseteq promised
    BY ZenonT(60) DEF FlushedContentSafe, SafeInv
  <2>1. CASE disk.fid \in DOMAIN file
    <3>1. disk.fid = rec.fid /\ Staged = logical /\ logical \in promised
      BY ZenonT(60), <2>1, JournalHolds
    <3> QED
      BY ZenonT(60), <2>1, <3>1 DEF Recovered, Staged
  <2>2. CASE disk.fid \notin DOMAIN file
    BY <2>2, RemoteHolds DEF Recovered
  <2> QED
    BY <2>1, <2>2
<1> QED
  BY <1>1, AlwaysSafe, PTL

\* A replacement candidate that is recorded and still on the remote holds the staged
\* bytes of its record, so an upload that resumes with it - after a failure or after
\* a restart - removes the old entries for the right content (RecordUploadReplacement,
\* resumeReplacement, replaceUploadedFile).
THEOREM CandidateBytes == Spec => []CandidateIntact
<1>1. TypeOK /\ ClaimInv /\ RemoteInv /\ SafeInv => CandidateIntact
  <2> SUFFICES ASSUME TypeOK, ClaimInv, RemoteInv, Safe, ~raced,
                      disk.repl.id \in DOMAIN remote, disk.fid \in DOMAIN file
               PROVE  remote[disk.repl.id].data = Prefix(file[disk.fid], disk.size)
    BY ZenonT(60) DEF CandidateIntact, SafeInv
  <2>1. disk.repl # NoRepl
    BY DEF TypeOK, TypeWorld, NoRepl
  <2> QED
    BY ZenonT(60), <2>1, JournalHolds DEF Holds, Staged
<1> QED
  BY <1>1, AlwaysSafe, PTL

\* Only the second half of finalizeUpload leaves the state between the clean line
\* and the removal of the record for the sweep of the staging file.
LEMMA OnlyCommit == Next /\ eng.pc = "cleanM" /\ eng'.pc = "sweep" => CommitApply
<1> SUFFICES ASSUME Next, eng.pc = "cleanM", eng'.pc = "sweep" PROVE CommitApply
  OBVIOUS
<1>1. CASE UserStep
  <2>1. CASE \E op, n : StageForWrite(op, n)
    <3>1. ASSUME NEW op, NEW n, StageForWrite(op, n) PROVE eng' = eng
      BY <3>1 DEF StageForWrite
    <3> QED
      BY <2>1, <3>1
  <2>2. CASE ~\E op, n : StageForWrite(op, n)
    BY ZenonT(60), <1>1, <2>2
       DEF UserStep, Create, OpenForWrite, WriteTarget, WriteFile, WriteFails, WriteUpdate,
           TruncateFile, FlushRead, FlushIgnored, FlushSave, RetryRead, RetrySave, Discard
  <2> QED
    BY <2>1, <2>2
<1>2. CASE EngineStep
  BY ZenonT(60), <1>2 DEF EngineStep, Receive, Claim, Snapshot, Recheck, Prepare, PutSource,
     RecordReplacement, RecordReplacementApply, Check, Swap, Commit, Sweep, Rollback,
     RecordFailure, RecordFailureApply
<1>3. CASE CrashAndResume
  <2>1. eng' = NoEng
    BY <1>3 DEF CrashAndResume
  <2> QED
    BY ZenonT(60), <2>1 DEF NoEng
<1> QED
  BY ZenonT(60), <1>1, <1>2, <1>3 DEF Next

\* When finalizeUpload retires a record, the remote holds exactly one file under the
\* final name and it is what a reader of the path expects.
THEOREM CommitCurrent == Spec => CommitIsCurrent
<1> DEFINE Step == eng.pc = "cleanM" /\ eng'.pc = "sweep" /\ ~raced' /\ ~torn => FinalData = {logical}
<1>1. TypeOK /\ ClaimInv /\ RemoteInv /\ SafeInv /\ [Next]_vars => [Step]_vars
  <2> SUFFICES ASSUME TypeOK, ClaimInv, RemoteInv, SafeInv, Next,
                      eng.pc = "cleanM", eng'.pc = "sweep", ~raced', ~torn
               PROVE  FinalData = {logical}
    OBVIOUS
  <2>1. CommitApply
    BY OnlyCommit
  <2>2. ~raced /\ Same(rec, eng.rec) /\ wr.rec.fid # eng.rec.fid
    BY ZenonT(60), <2>1 DEF CommitApply
  <2>3. Safe
    BY ZenonT(60), <2>2 DEF SafeInv
  <2>4. Present(rec) /\ wr.pc = "idle"
    BY ZenonT(60), <2>2 DEF Same, ClaimInv, WriterCopy
  <2>5. rec.frozen /\ rec.size <= Len(Staged) /\ Holds(eng.ent, rec.size)
    BY ZenonT(60), <2>2, <2>3 DEF Safe, UploadInv, Uploading, Uploaded
  <2>6. Staged = logical /\ Len(Staged) <= rec.size
    BY ZenonT(60), <2>3, <2>4, <2>5 DEF Safe, RecordInv, Reach
  <2>7. Staged \in Content /\ Len(Staged) \in Nat /\ rec.size \in Nat
    <3>1. Staged \in Content /\ rec \in Record
      BY ZenonT(60), <2>2, <2>4 DEF ClaimInv, Backed, Staged, TypeOK, TypeStore
    <3> QED
      BY SMTT(60), <3>1, RecordType, BoundsAssumption DEF Content
  <2>8. rec.size = Len(Staged)
    BY <2>5, <2>6, <2>7
  <2>9. Prefix(Staged, rec.size) = logical
    BY ZenonT(60), <2>6, <2>7, <2>8, PrefixWhole
  <2>10. Finals = {eng.ent}
    BY ZenonT(60) DEF RemoteInv, SwitchInv
  <2>11. eng.ent \in DOMAIN remote
    BY <2>10 DEF Finals
  <2> QED
    BY ZenonT(60), <2>5, <2>9, <2>10, <2>11 DEF FinalData, Holds
<1> QED
  BY <1>1, AlwaysSafe, PTL DEF Spec, CommitIsCurrent

=============================================================================
