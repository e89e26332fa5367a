-------------------------- MODULE UploadClaimProofs --------------------------
(***************************************************************************)
(* What the claim discipline gives: the bytes an engine streams are left   *)
(* alone, and the hashes handed to the driver are hashes of such bytes.    *)
(* The last part describes what the engine does to the remote directory.   *)
(***************************************************************************)
EXTENDS UploadGenerationProofs

-----------------------------------------------------------------------------
(* The claimed bytes.                                                      *)

\* A block of a staging file below n survives a write at or above n.
LEMMA PatchKeeps ==
  ASSUME NEW c \in Content, NEW off \in Nat, NEW v, NEW i \in DOMAIN c, i <= off
  PROVE  Patch(c, off, v)[i] = c[i]
BY SMTT(60) DEF Patch, Larger, Content

\* What a step may do to the bytes of a generation that is being streamed.
BytesKept ==
  LET f == eng.rec.fid IN
  eng.pc \in Streaming /\ eng'.pc \in Streaming /\ ~raced' /\ f \in DOMAIN file /\ f \in DOMAIN file'
    => \A i \in 1 .. eng.rec.size : i \in DOMAIN file[f] => file'[f][i] = file[f][i]

\* No step changes a byte an engine may still read: generations that take the
\* place of the record have fresh fids, truncation needs a mutable record, and a
\* write to a frozen generation is an append beyond its size.
LEMMA ClaimStep == TypeOK /\ TypeOK' /\ ClaimInv /\ [Next]_vars => BytesKept
<1> SUFFICES ASSUME TypeOK, TypeOK', ClaimInv, [Next]_vars,
                    eng.pc \in Streaming, eng'.pc \in Streaming, ~raced',
                    eng.rec.fid \in DOMAIN file, eng.rec.fid \in DOMAIN file',
                    NEW i \in 1 .. eng.rec.size, i \in DOMAIN file[eng.rec.fid]
             PROVE  file'[eng.rec.fid][i] = file[eng.rec.fid][i]
  BY SMTT(60) DEF BytesKept
<1>0. /\ eng.rec \in Record /\ wr.rec \in Record /\ nfid \in Nat /\ wr.at \in Nat
      /\ rec \in Record /\ eng.rec.fid \in Nat /\ eng.rec.size \in Nat /\ rec.size \in Nat
      /\ file[eng.rec.fid] \in Content
  <2>1. eng.rec \in Record /\ wr.rec \in Record /\ wr.at \in Nat
    BY SMTT(60), ActorType, BoundsAssumption DEF TypeOK
  <2>2. rec \in Record /\ file[eng.rec.fid] \in Content
    BY SMTT(60) DEF TypeOK, TypeStore
  <2>3. nfid \in Nat
    BY SMTT(60), BoundsAssumption DEF TypeOK, TypeWorld
  <2> QED
    BY SMTT(60), <2>1, <2>2, <2>3, RecordType
<1>1. eng.rec.fid # nfid + 1
  BY SMTT(60), <1>0 DEF ClaimInv, Handed
<1>2. ASSUME \A x \in DOMAIN file' : x # nfid + 1 => file'[x] = file[x]
      PROVE  file'[eng.rec.fid][i] = file[eng.rec.fid][i]
  BY SMTT(60), <1>1, <1>2
<1>3. ASSUME NEW op, NEW n, StageForWrite(op, n)
      PROVE  file'[eng.rec.fid][i] = file[eng.rec.fid][i]
  BY SMTT(60), <1>2, <1>3 DEF StageForWrite, Put
<1>4. CASE Create \/ WriteTarget
  <2>1. CASE Create
    <3>1. \E g : file' = Drop(Put(file, nfid + 1, <<>>), g)
      BY SMTT(60), <2>1 DEF Create
    <3> QED
      BY <1>2, <3>1 DEF Put, Drop
  <2>2. CASE WriteTarget
    <3>1. file' = file \/ \E c : file' = Put(file, nfid + 1, c)
      BY SMTT(60), <2>2 DEF WriteTarget
    <3> QED
      BY <1>2, <3>1 DEF Put
  <2> QED
    BY ZenonT(60), <1>4, <2>1, <2>2
<1>5. CASE WriteFile
  <2>1. ~raced /\ wr.pc = "target" /\ wr.op = "write"
        /\ file' = Put(file, wr.rec.fid, Patch(IF wr.rec.fid \in DOMAIN file
                                               THEN file[wr.rec.fid] ELSE <<>>, wr.at, clock + 1))
    BY SMTT(60), <1>5 DEF WriteFile
  <2>2. CASE wr.rec.fid # eng.rec.fid
    BY SMTT(60), <2>1, <2>2 DEF Put
  <2>3. CASE wr.rec.fid = eng.rec.fid
    <3>1. Present(rec) /\ rec.fid = eng.rec.fid /\ wr.rec.size = rec.size /\ rec.frozen = wr.rec.frozen
      BY ZenonT(60), <2>1, <2>3 DEF ClaimInv, WriterCopy
    <3>2. rec.frozen /\ (eng.rec.size <= rec.size \/ Len(file[rec.fid]) <= rec.size)
      BY SMTT(60), <2>1, <3>1 DEF ClaimInv, Claimed, Reach
    <3>3. wr.rec.size <= wr.at
      BY SMTT(60), <2>1, <3>1, <3>2 DEF ClaimInv, Target
    <3>4. i <= wr.at
      <4>1. i \in Nat /\ i <= eng.rec.size /\ i <= Len(file[eng.rec.fid])
            /\ Len(file[eng.rec.fid]) \in Nat
        BY SMTT(60), <1>0 DEF Content
      <4> QED
        BY SMTT(60), <1>0, <3>1, <3>2, <3>3, <4>1
    <3>5. file'[eng.rec.fid] = Patch(file[eng.rec.fid], wr.at, clock + 1)
      BY SMTT(60), <2>1, <2>3 DEF Put
    <3> QED
      BY SMTT(60), <1>0, <3>4, <3>5, PatchKeeps
  <2> QED
    BY <2>2, <2>3
<1>6. CASE TruncateFile
  <2>1. /\ ~raced /\ wr.pc = "target" /\ wr.op = "truncate"
        /\ \E c : file' = Put(file, wr.rec.fid, c)
    BY SMTT(60), <1>6 DEF TruncateFile, TypeOK, TypeHistory
  <2>2. wr.rec.fid # eng.rec.fid
    BY <2>1 DEF ClaimInv, WriterCopy, Claimed, Target
  <2> QED
    BY ZenonT(60), <2>1, <2>2 DEF Put
<1>7. CASE FlushSave
  BY ZenonT(60), <1>2, <1>7 DEF FlushSave, Displaced, Unreferenced, Drop
<1>8. CASE Discard
  BY ZenonT(60), <1>2, <1>8 DEF Discard, Drop
<1>9. CASE CrashAndResume
  BY SMTT(60), <1>2, <1>9 DEF CrashAndResume
<1>10. CASE Claim \/ Recheck \/ Rollback
  BY ZenonT(60), <1>2, <1>10 DEF Claim, Recheck, Rollback, RequeueIfFrozen, Displaced, Unreferenced, Drop
<1>11. CASE CommitApply \/ Sweep \/ RecordFailure \/ RecordFailureApply
  BY <1>2, <1>11
  DEF CommitApply, Sweep, RecordFailure, RecordFailureApply, Displaced, Unreferenced, Drop
<1>12. ASSUME NEW op, NEW n, OpenForWrite(op, n)
       PROVE  file'[eng.rec.fid][i] = file[eng.rec.fid][i]
  BY ZenonT(60), <1>12 DEF OpenForWrite, store
<1>13. CASE WriteUpdate \/ WriteFails \/ FlushRead \/ FlushIgnored \/ RetryRead \/ RetrySave
  BY <1>13 DEF WriteUpdate, WriteFails, FlushRead, FlushIgnored, RetryRead, RetrySave, store
<1>14. CASE Receive \/ Snapshot \/ Prepare \/ PutSource \/ RecordReplacement
            \/ RecordReplacementApply \/ Check \/ Swap \/ Commit
  BY ZenonT(60), <1>14 DEF Receive, Snapshot, Prepare, PutSource, RecordReplacement,
               RecordReplacementApply, Check, Swap, Commit, store
<1>15. CASE UNCHANGED vars
  BY <1>15 DEF vars, store
<1> QED
  BY ZenonT(60), <1>3, <1>4, <1>5, <1>6, <1>7, <1>8, <1>9, <1>10, <1>11, <1>12, <1>13, <1>14, <1>15
  DEF Next, UserStep, EngineStep

\* MarkUploadStarted and TryReuseFrozenStaging exclude each other, and appends stay
\* beyond the claimed size: the bytes an engine streams never change under it,
\* whatever the number of generations, writes, failures and crashes.
THEOREM ClaimedBytes == Spec => ClaimedBytesImmutable
<1>1. TypeOK /\ TypeOK' /\ ClaimInv /\ [Next]_vars => [BytesKept]_vars
  BY SMTT(60), ClaimStep
<1>2. BytesKept <=> (LET f == eng.rec.fid IN
      eng.pc \in Streaming /\ eng'.pc \in Streaming /\ ~raced'
        /\ f \in DOMAIN file /\ f \in DOMAIN file'
        => \A i \in 1 .. eng.rec.size : i \in DOMAIN file[f] => file'[f][i] = file[f][i])
  BY DEF BytesKept
<1> QED
  BY <1>1, <1>2, TypeCorrect, ClaimDiscipline, PTL DEF Spec, ClaimedBytesImmutable

-----------------------------------------------------------------------------
(* The hashes.  HashesDescribePrefix speaks of the moment the source is     *)
(* handed to the driver; HashInv follows a hash from the tracker over the   *)
(* record and its copies to that moment.  A restart ends it: TryReuse is    *)
(* not journaled, so a hash can come back that a write has made stale.      *)

\* h is empty, or the hash of some first blocks of c, at most n.
Describes(h, c, n) ==
  h = {} \/ \E k \in 0 .. n : k <= Len(c) /\ h = {Prefix(c, k)}

\* A tracked hash that is not dirty covers the first blocks of its file.
Tracks(t, c) ==
  t.on /\ ~t.dirty => Len(t.fed) <= Len(c) /\ t.fed = Prefix(c, Len(t.fed))

TrackInv == \A f \in DOMAIN file : Tracks(trk[f], file[f])

\* The hash of the record describes the first blocks of its staging file; a
\* generation that is not frozen has none.
RecordHash ==
  Present(rec) => Describes(rec.hash, file[rec.fid], rec.size) /\ (~rec.frozen => rec.hash = {})

\* The write path works with the hash of the record, and a flush takes a new one
\* from the tracker.
WriterHash ==
  /\ wr.pc # "idle" => wr.rec.hash = rec.hash
  /\ wr.pc = "flush" => Describes(wr.new.hash, file[wr.rec.fid], wr.new.size)

\* So do a retry and the engine as long as their copy is the same record, which
\* a new stamp ends: the stamp of the record the engine is about to store is new.
CopyHash ==
  /\ rty.stamp <= clock /\ (Same(rec, rty) => rty.hash = rec.hash)
  /\ Same(rec, eng.rec) => eng.rec.hash = rec.hash
  /\ eng.pc \in {"replM", "failM"} =>
       /\ eng.next.hash = eng.rec.hash
       /\ rec.stamp # eng.next.stamp /\ rty.stamp # eng.next.stamp

\* So does the hash of the upload, until the source has been handed over.
StreamHash ==
  eng.rec.fid \in DOMAIN file =>
    /\ eng.pc = "claimed" => Describes(eng.rec.hash, file[eng.rec.fid], eng.rec.size)
    /\ eng.pc \in {"snapped", "prepare", "put"} =>
         eng.hash # {} /\ Describes(eng.hash, file[eng.rec.fid], eng.rec.size)

HashSafe == TrackInv /\ RecordHash /\ WriterHash /\ CopyHash /\ StreamHash

HashInv == ~raced /\ crashes = 0 => HashSafe

\* A hash of at most n blocks is one of at most m blocks, and one of at most as
\* many blocks as there are.
LEMMA DescribesMore ==
  ASSUME NEW h, NEW c, NEW n \in Nat, NEW m \in Nat, n <= m, Describes(h, c, n)
  PROVE  Describes(h, c, m)
BY SMTT(60) DEF Describes

LEMMA DescribesLen ==
  ASSUME NEW h, NEW c \in Content, NEW n \in Nat, Describes(h, c, n)
  PROVE  Describes(h, c, Len(c))
BY SMTT(60) DEF Describes, Content

\* WriteStagingAt beyond the described blocks, or beyond the end of the file,
\* leaves the hash valid.
LEMMA DescribesPatch ==
  ASSUME NEW h, NEW c \in Content, NEW n \in Nat, NEW off \in 0 .. MaxSize - 1,
         NEW v \in 0 .. MaxClock, n <= off \/ Len(c) <= off, Describes(h, c, n)
  PROVE  Describes(h, Patch(c, off, v), n)
<1>1. CASE h = {}
  BY SMTT(60), <1>1 DEF Describes
<1>2. CASE h # {}
  <2>1. PICK k \in 0 .. n : k <= Len(c) /\ h = {Prefix(c, k)}
    BY SMTT(60), <1>2 DEF Describes
  <2>2. Len(c) \in Nat /\ off \in Nat /\ off < MaxSize /\ k \in Nat /\ k <= off
    BY SMTT(60), <2>1, BoundsAssumption DEF Content
  <2>3. k <= Len(Patch(c, off, v)) /\ Prefix(Patch(c, off, v), k) = Prefix(c, k)
    BY SMTT(60), <2>1, <2>2, PrefixPatch
  <2> QED
    BY SMTT(60), <2>1, <2>3 DEF Describes
<1> QED
  BY SMTT(60), <1>1, <1>2

\* One block more of a prefix.
LEMMA PrefixAppend ==
  ASSUME NEW c \in Content, NEW n \in Nat, n < Len(c)
  PROVE  Prefix(c, n + 1) = Append(Prefix(c, n), c[n + 1])
<1>1. c \in Seq(0 .. MaxClock) /\ Len(c) \in Nat
  BY SMTT(60) DEF Content
<1>2. SubSeq(c, 1, n + 1) = [i \in 1 .. n + 1 |-> c[i]] /\ SubSeq(c, 1, n) = [i \in 1 .. n |-> c[i]]
  BY SMTT(60), <1>1
<1> QED
  BY SMTT(60), <1>1, <1>2 DEF Prefix

\* HashTracker.Write keeps the tracked hash in step with WriteStagingAt.
LEMMA TracksWrite ==
  ASSUME NEW r, NEW c \in Content, NEW off \in 0 .. MaxSize - 1, NEW v \in 0 .. MaxClock,
         trk[r.fid] \in Tracker, Tracks(trk[r.fid], c)
  PROVE  Tracks(HashWrite(r, off, v), Patch(c, off, v))
<1> DEFINE t == trk[r.fid]
           p == Patch(c, off, v)
<1>1. /\ p \in Content /\ Len(p) >= Len(c) /\ Len(p) > off /\ off \in Nat /\ off < MaxSize
      /\ Len(p) \in Nat /\ Len(c) \in Nat
  BY SMTT(60), PatchContent, BoundsAssumption DEF Content
<1>2. p[off + 1] = v
  <2>1. off + 1 \in 1 .. Larger(Len(c), off + 1)
    BY SMTT(60), <1>1 DEF Larger
  <2> QED
    BY SMTT(60), <2>1 DEF Patch
<1>3. \A n \in Nat : n <= Len(c) /\ n <= off => Prefix(p, n) = Prefix(c, n)
  BY ZenonT(60), <1>1, PrefixPatch
<1> HIDE DEF p
<1>4. CASE ~t.on
  <2>1. CASE r.size = 0 /\ off = 0
    <3>1. HashWrite(r, off, v) = [on |-> TRUE, dirty |-> FALSE, fed |-> <<v>>]
      BY SMTT(60), <1>4, <2>1 DEF HashWrite
    <3>2. Prefix(p, 0) = <<>>
      BY SMTT(60), <1>1 DEF Prefix, Content
    <3>3. Prefix(p, 0 + 1) = Append(<<>>, v)
      BY ZenonT(60), <1>1, <1>2, <2>1, <3>2, PrefixAppend
    <3>4. <<v>> = Prefix(p, 1) /\ Len(<<v>>) = 1 /\ 1 <= Len(p)
      BY SMTT(60), <1>1, <2>1, <3>3
    <3>5. HashWrite(r, off, v).fed = <<v>>
      BY SMTT(60), <3>1
    <3> QED
      BY SMTT(60), <3>4, <3>5 DEF Tracks, p
  <2>2. CASE ~(r.size = 0 /\ off = 0)
    BY SMTT(60), <1>4, <2>2 DEF HashWrite, Tracks, NoTrk
  <2> QED
    BY SMTT(60), <2>1, <2>2
<1>5. CASE t.on /\ (t.dirty \/ off # Len(t.fed))
  <2>1. HashWrite(r, off, v).dirty
    BY ZenonT(60), <1>5 DEF HashWrite, Tracker
  <2> QED
    BY SMTT(60), <2>1 DEF Tracks
<1>6. CASE t.on /\ ~t.dirty /\ off = Len(t.fed)
  <2>1. HashWrite(r, off, v).fed = Append(t.fed, v)
    BY ZenonT(60), <1>6 DEF HashWrite, Tracker
  <2>2. off <= Len(c) /\ t.fed = Prefix(c, off) /\ t.fed \in Content
    BY SMTT(60), <1>6 DEF Tracks, Tracker
  <2>3. t.fed = Prefix(p, off)
    BY SMTT(60), <1>1, <1>3, <2>2
  <2>4. Append(t.fed, v) = Prefix(p, off + 1)
    BY ZenonT(60), <1>1, <1>2, <2>3, PrefixAppend
  <2>5. Len(Append(t.fed, v)) = off + 1 /\ off + 1 <= Len(p)
    BY SMTT(60), <1>1, <1>6, <2>2 DEF Content
  <2> QED
    BY SMTT(60), <2>1, <2>4, <2>5 DEF Tracks, p
<1> QED
  BY ZenonT(60), <1>4, <1>5, <1>6 DEF Tracker

\* HashTracker.Snapshot of the first n blocks yields their hash, or none.
LEMMA SnapshotDescribes ==
  ASSUME NEW f, NEW c \in Content, NEW n \in Nat, n <= Len(c), Tracks(trk[f], c)
  PROVE  Describes(HashSnapshot(f, n), c, n)
BY SMTT(60) DEF Describes, HashSnapshot, Tracks

\* The initial states satisfy the invariant.
LEMMA HashInit == Init => HashInv
BY SMTT(60), NoType, BoundsAssumption
   DEF Init, HashInv, HashSafe, TrackInv, RecordHash, WriterHash, CopyHash, StreamHash, NoRec, NoEng,
       NoWr, Present, Same

\* Staging files that are left alone, or removed, keep their tracked hashes.
LEMMA TrackFrame ==
  ASSUME TrackInv, DOMAIN file' \subseteq DOMAIN file, \A x \in DOMAIN file' : file'[x] = file[x],
         \A x \in DOMAIN file' : trk'[x] \in {trk[x], NoTrk}
  PROVE  TrackInv'
<1>1. \A c : Tracks(NoTrk, c)
  BY SMTT(60) DEF Tracks, NoTrk
<1> QED
  BY ZenonT(60), <1>1 DEF TrackInv

\* Steps of the engine that at most mark the record as claimed and remove staging
\* files.
LEMMA HashMoves ==
  ASSUME TypeOK, TypeOK', ClaimInv, ClaimInv', HashSafe, ~raced, ~raced',
         UNCHANGED <<wr, rty>>, clock <= clock',
         rec' = rec \/ rec' = [rec EXCEPT !.started = TRUE],
         DOMAIN file' \subseteq DOMAIN file, \A x \in DOMAIN file' : file'[x] = file[x],
         \A x \in DOMAIN file' : trk'[x] \in {trk[x], NoTrk},
         Same(rec, eng'.rec) => eng'.rec.hash = rec.hash,
         eng'.pc \in {"replM", "failM"} =>
           /\ eng'.next.hash = eng'.rec.hash
           /\ rec.stamp # eng'.next.stamp /\ rty.stamp # eng'.next.stamp,
         StreamHash'
  PROVE  HashSafe'
<1>1. /\ rec'.fid = rec.fid /\ rec'.size = rec.size /\ rec'.stamp = rec.stamp /\ rec'.hash = rec.hash
      /\ rec'.frozen = rec.frozen /\ rec'.repl = rec.repl /\ rec'.fail = rec.fail
  BY SMTT(60) DEF TypeOK, TypeStore, Record
<1>2. TrackInv'
  BY SMTT(60), TrackFrame DEF HashSafe
<1>3. Present(rec) => rec.fid \in DOMAIN file' /\ file'[rec.fid] = file[rec.fid]
  BY SMTT(60), <1>1 DEF ClaimInv, Backed, Present
<1>4. RecordHash'
  BY SMTT(60), <1>1, <1>3 DEF HashSafe, RecordHash, Present
<1>5. WriterHash'
  <2>1. wr.pc # "idle" => Present(rec) /\ wr.rec.fid = rec.fid
    BY SMTT(60) DEF ClaimInv, WriterCopy
  <2> QED
    BY ZenonT(60), <1>1, <1>3, <2>1 DEF HashSafe, WriterHash
<1>6. \A r : Same(rec', r) <=> Same(rec, r)
  BY SMTT(60), <1>1 DEF Same, Present
<1>7. rty.stamp <= clock'
  <2>1. rty.stamp \in Nat /\ clock \in Nat /\ clock' \in Nat
    BY SMTT(60), RecordType, BoundsAssumption DEF TypeOK, TypeWorld, TypeActors
  <2> QED
    BY SMTT(60), <2>1 DEF HashSafe, CopyHash
<1>8. CopyHash'
  BY ZenonT(60), <1>1, <1>6, <1>7 DEF HashSafe, CopyHash
<1> QED
  BY ZenonT(60), <1>2, <1>4, <1>5, <1>8 DEF HashSafe

\* Among them the steps that leave the record alone and end, or have ended, the
\* reading of the staging file.
LEMMA HashQuiet ==
  ASSUME TypeOK, TypeOK', ClaimInv, ClaimInv', HashSafe, ~raced, ~raced',
         UNCHANGED <<rec, wr, rty>>, clock <= clock',
         DOMAIN file' \subseteq DOMAIN file, \A x \in DOMAIN file' : file'[x] = file[x],
         \A x \in DOMAIN file' : trk'[x] \in {trk[x], NoTrk},
         eng'.pc \notin Streaming, eng'.pc \notin {"replM", "failM"},
         eng' = NoEng \/ eng'.rec = eng.rec
  PROVE  HashSafe'
<1>1. Same(rec, eng'.rec) => eng'.rec.hash = rec.hash
  <2>1. CASE eng' = NoEng
    BY ZenonT(60), <2>1 DEF NoEng, NoRec, Same, Present
  <2>2. CASE eng'.rec = eng.rec
    BY ZenonT(60), <2>2 DEF HashSafe, CopyHash
  <2> QED
    BY ZenonT(60), <2>1, <2>2
<1>2. StreamHash'
  BY ZenonT(60) DEF StreamHash, Streaming
<1> QED
  BY ZenonT(60), <1>1, <1>2, HashMoves

\* The hash of an upload whose generation still has its staging file is kept
\* while that file is.
LEMMA StreamFrame ==
  ASSUME StreamHash, DOMAIN file' \subseteq DOMAIN file, \A x \in DOMAIN file' : file'[x] = file[x],
         eng'.rec = eng.rec, eng'.hash = eng.hash,
         eng'.pc = eng.pc \/ (eng.pc \in {"snapped", "prepare"} /\ eng'.pc \in {"prepare", "put"})
  PROVE  StreamHash'
BY SMTT(60) DEF StreamHash

\* Every engine step preserves the description of the hashes.
LEMMA HashEngine ==
  ASSUME TypeOK, TypeOK', ClaimInv, ClaimInv', HashSafe, ~raced, ~raced', EngineStep
  PROVE  HashSafe'
<1>0. /\ clock \in Nat /\ clock' \in Nat /\ rec \in Record /\ rec' \in Record /\ rty \in Record
      /\ eng.rec \in Record /\ eng.next \in Record /\ eng \in Engine /\ eng' \in Engine
      /\ trk \in [Fids -> Tracker]
  BY SMTT(60), ActorType, BoundsAssumption DEF TypeOK, TypeStore, TypeWorld, TypeActors
<1> USE <1>0
<1>1. ASSUME NEW fs, DOMAIN fs \subseteq DOMAIN file, \A x \in DOMAIN fs : fs[x] = file[x],
             RequeueIfFrozen(fs)
      PROVE  DOMAIN file' \subseteq DOMAIN file /\ \A x \in DOMAIN file' : file'[x] = file[x]
  BY SMTT(60), <1>1, DisplacedFiles DEF RequeueIfFrozen
<1>2. ASSUME RequeueIfFrozen(Unreferenced(file, eng.rec.fid, rec))
      PROVE  DOMAIN file' \subseteq DOMAIN file /\ \A x \in DOMAIN file' : file'[x] = file[x]
  BY SMTT(60), <1>1, <1>2, UnreferencedFiles
<1>3. ASSUME trk' = [trk EXCEPT ![eng.rec.fid] = NoTrk]
      PROVE  \A x \in DOMAIN file : trk'[x] \in {trk[x], NoTrk}
  BY ZenonT(60), <1>3 DEF TypeOK, TypeStore
<1>4. NoEng.pc = "idle"
  BY ZenonT(60) DEF NoEng
<1>5. CASE Receive
  <2>1. CASE Present(rec) /\ rec.frozen /\ ~rec.fail
    <3>1. eng'.pc = "recv" /\ eng'.rec = rec
      BY ZenonT(60), <1>5, <2>1, NoType DEF Receive, Engine, NoEng
    <3>2. StreamHash'
      BY SMTT(60), <3>1 DEF StreamHash
    <3> QED
      BY SMTT(60), <1>5, <3>1, <3>2, HashMoves DEF Receive
  <2>2. CASE ~(Present(rec) /\ rec.frozen /\ ~rec.fail)
    <3>1. eng' = eng /\ eng.pc = "idle"
      BY ZenonT(60), <1>5, <2>2 DEF Receive
    <3> QED
      BY SMTT(60), <1>5, <3>1, HashQuiet DEF Receive, Streaming
  <2> QED
    BY ZenonT(60), <2>1, <2>2
<1>6. CASE Claim
  <2>1. CASE Same(rec, eng.rec)
    <3>1. /\ rec' = [rec EXCEPT !.started = TRUE] /\ eng' = [eng EXCEPT !.pc = "claimed", !.rec = rec']
          /\ UNCHANGED <<file, trk, wr, rty, clock>>
      BY SMTT(60), <1>6, <2>1 DEF Claim
    <3>2. eng'.pc = "claimed" /\ eng'.rec = rec'
      BY SMTT(60), <3>1 DEF Engine
    <3>3. rec'.fid = rec.fid /\ rec'.size = rec.size /\ rec'.hash = rec.hash
      BY ZenonT(60), <3>1 DEF Record
    <3>4. Describes(rec.hash, file[rec.fid], rec.size)
      BY SMTT(60), <2>1 DEF HashSafe, RecordHash, Same
    <3>5. StreamHash'
      BY ZenonT(60), <3>1, <3>2, <3>3, <3>4 DEF StreamHash
    <3>6. eng'.rec.hash = rec.hash
      BY ZenonT(60), <3>2, <3>3
    <3>7. eng'.pc \notin {"replM", "failM"}
      BY SMTT(60), <3>2
    <3>8. clock <= clock'
      BY SMTT(60), <3>1
    <3> QED
      BY ZenonT(60), <3>1, <3>5, <3>6, <3>7, <3>8, HashMoves
  <2>2. CASE ~Same(rec, eng.rec)
    BY SMTT(60), <1>2, <1>4, <1>6, <2>2, HashQuiet DEF Claim, Released, Streaming
  <2> QED
    BY SMTT(60), <2>1, <2>2
<1>7. CASE Snapshot
  <2>1. eng'.rec = eng.rec /\ eng'.pc \in {"snapped", "fail"} /\ eng.pc = "claimed"
        /\ UNCHANGED <<rec, file, trk, wr, rty, clock>>
    BY ZenonT(60), <1>7 DEF Snapshot, Engine, store
  <2> DEFINE f == eng.rec.fid
             n == eng.rec.size
             h == IF eng.rec.hash # {} THEN eng.rec.hash ELSE HashSnapshot(f, n)
  <2>2. CASE f \in DOMAIN file /\ Len(file[f]) >= n
    <3>1. eng'.pc = "snapped" /\ eng'.hash = IF h # {} THEN h ELSE {Prefix(file[f], n)}
      BY ZenonT(60), <1>7, <2>2 DEF Snapshot, Engine
    <3>2. file[f] \in Content /\ n \in Nat /\ n <= Len(file[f]) /\ Tracks(trk[f], file[f])
      BY SMTT(60), <2>2, RecordType DEF TypeOK, TypeStore, HashSafe, TrackInv, Content
    <3>3. Describes(h, file[f], n)
      <4>1. CASE eng.rec.hash # {}
        BY ZenonT(60), <2>1, <2>2, <4>1 DEF HashSafe, StreamHash
      <4>2. CASE eng.rec.hash = {}
        BY ZenonT(60), <3>2, <4>2, SnapshotDescribes
      <4> QED
        BY ZenonT(60), <4>1, <4>2
    <3>4. Describes({Prefix(file[f], n)}, file[f], n)
      BY SMTT(60), <3>2 DEF Describes
    <3> HIDE DEF h
    <3>5. eng'.hash # {} /\ Describes(eng'.hash, file[f], n)
      BY ZenonT(60), <3>1, <3>3, <3>4
    <3>6. StreamHash'
      BY ZenonT(60), <2>1, <3>1, <3>5 DEF StreamHash
    <3>7. Same(rec, eng'.rec) => eng'.rec.hash = rec.hash
      BY ZenonT(60), <2>1 DEF HashSafe, CopyHash
    <3> QED
      BY SMTT(60), <2>1, <3>1, <3>6, <3>7, HashMoves
  <2>3. CASE ~(f \in DOMAIN file /\ Len(file[f]) >= n)
    <3>1. eng'.pc = "fail"
      BY ZenonT(60), <1>7, <2>3 DEF Snapshot, Engine
    <3> QED
      BY SMTT(60), <2>1, <3>1, HashQuiet DEF Streaming
  <2> QED
    BY SMTT(60), <2>2, <2>3
<1>8. CASE Recheck
  <2>1. CASE Same(rec, eng.rec)
    <3>1. /\ eng'.pc = "prepare" /\ eng.pc = "snapped" /\ eng'.rec = eng.rec /\ eng'.hash = eng.hash
          /\ UNCHANGED <<rec, file, trk, wr, rty, clock>>
      BY ZenonT(60), <1>8, <2>1 DEF Recheck, Engine
    <3>2. StreamHash'
      BY ZenonT(60), <3>1, StreamFrame DEF HashSafe
    <3>3. Same(rec, eng'.rec) => eng'.rec.hash = rec.hash
      BY SMTT(60), <3>1 DEF HashSafe, CopyHash
    <3> QED
      BY SMTT(60), <3>1, <3>2, <3>3, HashMoves
  <2>2. CASE ~Same(rec, eng.rec)
    BY SMTT(60), <1>2, <1>4, <1>8, <2>2, HashQuiet DEF Recheck, Released, Streaming
  <2> QED
    BY ZenonT(60), <2>1, <2>2
<1>9. CASE Prepare
  <2>1. /\ eng'.pc \in {"put", "check", "fail"} /\ eng.pc = "prepare" /\ eng'.rec = eng.rec
        /\ eng'.pc = "put" => eng'.hash = eng.hash
        /\ UNCHANGED <<rec, file, trk, wr, rty, clock>>
    <3>1. eng.pc = "prepare" /\ UNCHANGED <<rec, file, trk, wr, rty, clock>>
      BY ZenonT(60), <1>9 DEF Prepare, store
    <3>2. CASE \E perm \in BOOLEAN : Fails(perm)
      BY ZenonT(60), <3>1, <3>2, FailsFields DEF TypeOK
    <3>3. CASE ~\E perm \in BOOLEAN : Fails(perm)
      BY ZenonT(60), <1>9, <3>1, <3>3 DEF Prepare, Engine
    <3> QED
      BY SMTT(60), <3>2, <3>3
  <2>2. Same(rec, eng'.rec) => eng'.rec.hash = rec.hash
    BY SMTT(60), <2>1 DEF HashSafe, CopyHash
  <2>3. StreamHash'
    <3>1. CASE eng'.pc = "put"
      BY ZenonT(60), <2>1, <3>1, StreamFrame DEF HashSafe
    <3>2. CASE eng'.pc # "put"
      BY ZenonT(60), <2>1, <3>2 DEF StreamHash
    <3> QED
      BY SMTT(60), <3>1, <3>2
  <2> QED
    BY SMTT(60), <2>1, <2>2, <2>3, HashMoves
<1>10. CASE PutSource
  <2>1. eng'.pc \in {"check", "record", "fail"} /\ eng'.rec = eng.rec
    <3>1. CASE \E perm \in BOOLEAN : Fails(perm)
      BY ZenonT(60), <3>1, FailsFields DEF TypeOK
    <3>2. CASE ~\E perm \in BOOLEAN : Fails(perm)
      BY ZenonT(60), <1>10, <3>2 DEF PutSource, Engine
    <3> QED
      BY ZenonT(60), <3>1, <3>2
  <2>2. clock' \in {clock, clock + 1}
    BY ZenonT(60), <1>10 DEF PutSource
  <2> QED
    BY SMTT(60), <1>10, <2>1, <2>2, HashQuiet DEF PutSource, Streaming, store
<1>11. CASE Check \/ Swap
  <2>1. eng'.pc \in {"rollback", "swap", "commit", "fail"} /\ eng'.rec = eng.rec
    <3>1. CASE \E perm \in BOOLEAN : Fails(perm)
      BY SMTT(60), <3>1, FailsFields DEF TypeOK
    <3>2. CASE ~\E perm \in BOOLEAN : Fails(perm)
      BY ZenonT(60), <1>11, <3>2 DEF Check, Swap, Engine
    <3> QED
      BY ZenonT(60), <3>1, <3>2
  <2>2. UNCHANGED <<rec, file, trk, wr, rty, clock>>
    BY ZenonT(60), <1>11 DEF Check, Swap, store
  <2> QED
    BY SMTT(60), <2>1, <2>2, HashQuiet DEF Streaming
<1>12. CASE Commit
  <2>1. eng' = NoEng \/ (eng'.pc \in {"cleanM", "rollback"} /\ eng'.rec = eng.rec)
    BY ZenonT(60), <1>12 DEF Commit, Engine, Released
  <2> QED
    BY SMTT(60), <1>4, <1>12, <2>1, HashQuiet DEF Commit, Streaming
<1>13. CASE Rollback
  <2>1. DOMAIN file' \subseteq DOMAIN file /\ \A x \in DOMAIN file' : file'[x] = file[x]
    BY ZenonT(60), <1>2, <1>13 DEF Rollback
  <2>2. \A x \in DOMAIN file' : trk'[x] \in {trk[x], NoTrk}
    BY ZenonT(60), <1>3, <1>13, <2>1 DEF Rollback
  <2> QED
    BY SMTT(60), <1>4, <1>13, <2>1, <2>2, HashQuiet DEF Rollback, Released, Streaming
<1>14. CASE Sweep
  <2>1. DOMAIN file' \subseteq DOMAIN file /\ \A x \in DOMAIN file' : file'[x] = file[x]
    BY ZenonT(60), <1>14 DEF Sweep, Drop
  <2>2. \A x \in DOMAIN file' : trk'[x] \in {trk[x], NoTrk}
    BY ZenonT(60), <1>3, <1>14, <2>1 DEF Sweep
  <2> QED
    BY SMTT(60), <1>4, <1>14, <2>1, <2>2, HashQuiet DEF Sweep, Released, Streaming
\* the record to be stored carries a new stamp and the hash of the current one
<1>15. ASSUME NEW r, r.hash = rec.hash, r.stamp = clock + 1, eng'.next = r,
              eng'.pc \in {"replM", "failM"}, eng'.rec = eng.rec, Same(rec, eng.rec),
              clock' = clock + 1, UNCHANGED <<rec, file, trk, wr, rty>>
       PROVE  HashSafe'
  <2>1. eng.rec.hash = rec.hash /\ rty.stamp <= clock /\ rec.stamp <= clock
    BY ZenonT(60), <1>15 DEF HashSafe, CopyHash, ClaimInv, Handed
  <2>2. rec.stamp # clock + 1 /\ rty.stamp # clock + 1
    BY SMTT(60), <2>1, RecordType
  <2>3. StreamHash'
    BY SMTT(60), <1>15 DEF StreamHash
  <2> QED
    BY SMTT(60), <1>15, <2>1, <2>2, <2>3, HashMoves
<1>16. CASE RecordReplacement
  <2> DEFINE r == [rec EXCEPT !.repl = [id |-> eng.ent, size |-> rec.size], !.stamp = clock + 1]
  <2>1. CASE /\ Same(rec, eng.rec) /\ clock' = clock + 1 /\ eng' = [eng EXCEPT !.pc = "replM", !.next = r]
    <3>1. eng'.next = r /\ eng'.pc = "replM" /\ eng'.rec = eng.rec
      BY SMTT(60), <2>1 DEF Engine
    <3>2. r.hash = rec.hash /\ r.stamp = clock + 1
      BY SMTT(60) DEF Record
    <3> HIDE DEF r
    <3> QED
      BY ZenonT(60), <1>15, <1>16, <2>1, <3>1, <3>2 DEF RecordReplacement
  <2>2. CASE (Fails(FALSE) \/ eng' = [eng EXCEPT !.pc = "rollback"]) /\ UNCHANGED clock
    <3>1. eng'.pc \in {"fail", "rollback"} /\ eng'.rec = eng.rec
      BY ZenonT(60), <2>2, FailsFields DEF Engine, TypeOK
    <3> QED
      BY SMTT(60), <1>16, <2>2, <3>1, HashQuiet DEF RecordReplacement, Streaming
  <2> QED
    BY ZenonT(60), <1>16, <2>1, <2>2 DEF RecordReplacement
<1>17. CASE RecordFailure
  <2> DEFINE r == [rec EXCEPT !.fail = eng.perm, !.stamp = clock + 1]
  <2>1. CASE /\ Same(rec, eng.rec) /\ clock' = clock + 1 /\ UNCHANGED file
             /\ eng' = [eng EXCEPT !.pc = "failM", !.next = r]
    <3>1. eng'.next = r /\ eng'.pc = "failM" /\ eng'.rec = eng.rec
      BY SMTT(60), <2>1 DEF Engine
    <3>2. r.hash = rec.hash /\ r.stamp = clock + 1
      BY SMTT(60) DEF Record
    <3> HIDE DEF r
    <3> QED
      BY ZenonT(60), <1>15, <1>17, <2>1, <3>1, <3>2 DEF RecordFailure
  <2>2. CASE Released /\ UNCHANGED <<clock, file>>
    BY SMTT(60), <1>4, <1>17, <2>2, HashQuiet DEF RecordFailure, Released, Streaming
  <2>3. CASE file' = Unreferenced(file, eng.rec.fid, rec) /\ Released /\ UNCHANGED clock
    BY SMTT(60), <1>4, <1>17, <2>3, HashQuiet, UnreferencedFiles DEF RecordFailure, Released, Streaming
  <2> QED
    BY ZenonT(60), <1>17, <2>1, <2>2, <2>3 DEF RecordFailure
\* the engine stores it
<1>18. ASSUME rec' = eng.next, eng.pc \in {"replM", "failM"}, Same(rec, eng.rec),
              eng'.pc \in {"check", "idle"}, eng'.rec \in {eng.next, NoRec},
              UNCHANGED <<wr, rty, clock, trk>>,
              DOMAIN file' \subseteq DOMAIN file, \A x \in DOMAIN file' : file'[x] = file[x]
       PROVE  HashSafe'
  <2>1. /\ rec'.fid = rec.fid /\ rec'.size = rec.size /\ rec'.frozen = rec.frozen
        /\ rec'.hash = rec.hash /\ Present(rec) /\ Present(rec')
    BY ZenonT(60), <1>18 DEF ClaimInv, EngineCopy, Same, HashSafe, CopyHash, Present
  <2>2. rec.fid \in DOMAIN file' /\ file'[rec.fid] = file[rec.fid]
    BY ZenonT(60), <1>18, <2>1 DEF ClaimInv, Backed
  <2>3. TrackInv'
    BY ZenonT(60), <1>18, TrackFrame DEF HashSafe
  <2>4. RecordHash'
    BY ZenonT(60), <2>1, <2>2 DEF HashSafe, RecordHash
  <2>5. WriterHash'
    BY ZenonT(60), <1>18, <2>1, <2>2 DEF HashSafe, WriterHash, ClaimInv, WriterCopy
  <2>6. rty.stamp <= clock /\ ~Same(rec', rty)
    BY ZenonT(60), <1>18 DEF HashSafe, CopyHash, Same
  <2>7. CopyHash'
    <3>1. eng'.rec = NoRec => ~Same(rec', eng'.rec)
      <4>1. NoRec.fid = 0
        BY ZenonT(60) DEF NoRec
      <4> QED
        BY ZenonT(60), <2>1, <4>1 DEF Same, Present
    <3>2. eng'.rec = eng.next => eng'.rec.hash = rec'.hash
      BY ZenonT(60), <1>18
    <3>3. eng'.rec = eng.next \/ eng'.rec = NoRec
      BY ZenonT(60), <1>18
    <3> QED
      BY ZenonT(60), <1>18, <2>6, <3>1, <3>2, <3>3 DEF CopyHash
  <2>8. StreamHash'
    BY SMTT(60), <1>18 DEF StreamHash
  <2> QED
    BY ZenonT(60), <2>3, <2>4, <2>5, <2>7, <2>8 DEF HashSafe
<1>19. CASE RecordReplacementApply
  <2>1. eng'.pc = "check" /\ eng'.rec = eng.next
    BY SMTT(60), <1>19 DEF RecordReplacementApply, Engine
  <2>2. Same(rec, eng.rec)
    BY ZenonT(60), <1>19 DEF RecordReplacementApply
  <2> QED
    BY ZenonT(60), <1>18, <1>19, <2>1, <2>2 DEF RecordReplacementApply
<1>20. CASE RecordFailureApply
  <2>1. eng'.pc = "idle" /\ eng'.rec = NoRec
    BY SMTT(60), <1>20 DEF RecordFailureApply, Released, NoEng
  <2>2. Same(rec, eng.rec)
    BY ZenonT(60), <1>20 DEF RecordFailureApply
  <2>3. DOMAIN file' \subseteq DOMAIN file /\ \A x \in DOMAIN file' : file'[x] = file[x]
    BY SMTT(60), <1>20, DisplacedFiles DEF RecordFailureApply
  <2> QED
    BY ZenonT(60), <1>18, <1>20, <2>1, <2>2, <2>3 DEF RecordFailureApply
<1>21. CASE CommitApply
  <2>1. Same(rec, eng.rec) /\ wr.rec.fid # eng.rec.fid
    BY ZenonT(60), <1>21 DEF CommitApply
  <2>2. /\ rec' = NoRec /\ file' = Drop(file, eng.rec.fid) /\ eng' = [eng EXCEPT !.pc = "sweep"]
        /\ UNCHANGED <<trk, wr, rty, clock>>
    BY ZenonT(60), <1>21, <2>1 DEF CommitApply
  <2>3. wr.pc = "idle" /\ ~Present(rec') /\ eng'.pc = "sweep"
    BY ZenonT(60), <2>1, <2>2 DEF ClaimInv, WriterCopy, Same, NoRec, Present, Engine
  <2>4. TrackInv'
    BY SMTT(60), <2>2, TrackFrame DEF HashSafe, Drop
  <2>5. RecordHash' /\ WriterHash' /\ StreamHash'
    BY ZenonT(60), <2>2, <2>3 DEF RecordHash, WriterHash, StreamHash
  <2>6. CopyHash'
    BY ZenonT(60), <2>2, <2>3 DEF HashSafe, CopyHash, Same
  <2> QED
    BY ZenonT(60), <2>4, <2>5, <2>6 DEF HashSafe
<1> QED
  BY ZenonT(60), <1>5, <1>6, <1>7, <1>8, <1>9, <1>10, <1>11, <1>12, <1>13, <1>14, <1>16, <1>17, <1>19,
     <1>20, <1>21 DEF EngineStep

\* A new generation takes the place of the record; its hash is tracked from the
\* first block on.
LEMMA HashNew ==
  ASSUME TypeOK, TypeOK', ClaimInv, HashSafe, NEW c \in Content,
         rec' = NewRec(nfid + 1, Len(c), clock + 1), clock' = clock + 1,
         nfid + 1 \in 0 .. MaxFid, clock + 1 \in 0 .. MaxClock,
         nfid + 1 \in DOMAIN file', file'[nfid + 1] = c,
         DOMAIN file' \subseteq DOMAIN file \cup {nfid + 1},
         \A x \in DOMAIN file' : x # nfid + 1 => file'[x] = file[x] /\ trk'[x] \in {trk[x], NoTrk},
         Tracks(trk'[nfid + 1], c),
         ~TxHeld, UNCHANGED <<eng, rty>>,
         (wr' = wr /\ wr.pc = "idle") \/ (wr'.rec = rec' /\ wr'.pc \in {"read", "target"})
  PROVE  HashSafe'
<1>0. clock \in Nat /\ nfid \in Nat /\ rty \in Record /\ eng.rec \in Record
  BY SMTT(60), ActorType, BoundsAssumption DEF TypeOK, TypeStore, TypeWorld, TypeActors
<1>1. rec'.fid = nfid + 1 /\ rec'.stamp = clock + 1 /\ rec'.hash = {}
  BY ZenonT(60), NewRecType DEF Content, NewRec, NoRec
<1>2. TrackInv'
  <2>1. Tracks(trk'[nfid + 1], file'[nfid + 1])
    BY ZenonT(60)
  <2>2. \A x : Tracks(NoTrk, x)
    BY ZenonT(60) DEF Tracks, NoTrk
  <2>3. ASSUME NEW x \in DOMAIN file', x # nfid + 1 PROVE Tracks(trk'[x], file'[x])
    <3>1. Tracks(trk[x], file[x]) /\ file'[x] = file[x] /\ trk'[x] \in {trk[x], NoTrk}
      BY ZenonT(60), <2>3 DEF HashSafe, TrackInv
    <3> QED
      BY ZenonT(60), <2>2, <3>1
  <2> QED
    BY ZenonT(60), <2>1, <2>3 DEF TrackInv
<1>3. RecordHash'
  BY ZenonT(60), <1>1 DEF RecordHash, Describes
<1>4. WriterHash'
  BY ZenonT(60) DEF WriterHash
<1>5. rec'.stamp # rty.stamp /\ rec'.stamp # eng.rec.stamp /\ rty.stamp <= clock + 1
  <2>1. rty.stamp <= clock /\ eng.rec.stamp <= clock
    BY ZenonT(60) DEF HashSafe, CopyHash, ClaimInv, Handed
  <2> QED
    BY SMTT(60), <1>0, <1>1, <2>1, RecordType
<1>6. CopyHash'
  BY ZenonT(60), <1>5 DEF CopyHash, Same, TxHeld
<1>7. StreamHash'
  <2>1. eng.rec.fid # nfid + 1
    BY SMTT(60), <1>0, RecordType DEF ClaimInv, Handed
  <2>2. eng.rec.fid \in DOMAIN file' => eng.rec.fid \in DOMAIN file /\ file'[eng.rec.fid] = file[eng.rec.fid]
    BY ZenonT(60), <2>1
  <2> QED
    BY ZenonT(60), <2>2 DEF HashSafe, StreamHash
<1> QED
  BY ZenonT(60), <1>2, <1>3, <1>4, <1>6, <1>7 DEF HashSafe

\* A record that keeps its generation and gets a new stamp differs from every copy.
LEMMA HashRestamp ==
  ASSUME TypeOK, TypeOK', ClaimInv, HashSafe, rec'.stamp = clock + 1, clock' = clock + 1,
         eng' = eng, rty' = rty \/ (rty' = NoRec /\ ~TxHeld),
         TrackInv', RecordHash', WriterHash', StreamHash'
  PROVE  HashSafe'
<1>0. clock \in Nat /\ rty \in Record /\ eng.rec \in Record /\ eng.next \in Record
      /\ NoRec.stamp = 0 /\ NoRec \in Record
  BY SMTT(60), ActorType, BoundsAssumption, NoType DEF TypeOK, TypeStore, TypeWorld, TypeActors, NoRec
<1>1. rty.stamp <= clock /\ eng.rec.stamp <= clock /\ eng.next.stamp <= clock
  BY ZenonT(60) DEF HashSafe, CopyHash, ClaimInv, Handed
<1>2. /\ rec'.stamp # eng.rec.stamp /\ rec'.stamp # eng.next.stamp
      /\ rty'.stamp <= clock /\ rty'.stamp \in Nat
  BY SMTT(60), <1>0, <1>1, RecordType
<1>3. rec'.stamp # rty'.stamp /\ rty'.stamp <= clock'
  BY SMTT(60), <1>0, <1>2
<1>4. ~Same(rec', rty') /\ ~Same(rec', eng.rec)
  BY ZenonT(60), <1>2, <1>3 DEF Same
<1>5. eng.pc \in {"replM", "failM"} => rty'.stamp # eng.next.stamp
  BY ZenonT(60) DEF HashSafe, CopyHash, TxHeld
<1>6. CopyHash'
  BY ZenonT(60), <1>2, <1>3, <1>4, <1>5 DEF HashSafe, CopyHash
<1> QED
  BY ZenonT(60), <1>6 DEF HashSafe

\* Steps of the write path that change neither the record nor a staging file, and
\* the read of a retry.
LEMMA HashSame ==
  ASSUME ClaimInv, HashSafe, UNCHANGED <<rec, file, trk, eng, clock>>, rty' \in {rty, rec}, WriterHash'
  PROVE  HashSafe'
<1>1. TrackInv' /\ RecordHash' /\ StreamHash'
  BY ZenonT(60) DEF HashSafe, TrackInv, RecordHash, StreamHash
<1>2. rec.stamp <= clock
  BY ZenonT(60) DEF ClaimInv, Handed
<1>3. CopyHash'
  BY SMTT(60), <1>2 DEF HashSafe, CopyHash
<1> QED
  BY ZenonT(60), <1>1, <1>3 DEF HashSafe

\* Every step of the write path, an explicit retry and a discard preserve it.
LEMMA HashUser ==
  ASSUME TypeOK, TypeOK', ClaimInv, ClaimInv', HashSafe, ~raced, ~raced', UserStep
  PROVE  HashSafe'
<1>0. /\ clock \in Nat /\ clock' \in Nat /\ nfid \in Nat /\ wr \in Writer /\ wr' \in Writer
      /\ rec \in Record /\ rec' \in Record /\ eng.rec \in Record /\ wr.rec \in Record
      /\ wr.new \in Record /\ rty \in Record /\ wr.at \in Nat /\ trk \in [Fids -> Tracker]
      /\ DOMAIN file \subseteq Fids /\ \A x \in DOMAIN file : file[x] \in Content
  BY SMTT(60), ActorType, BoundsAssumption DEF TypeOK, TypeStore, TypeWorld, TypeActors
<1>00. NoWr.pc = "idle"
  BY ZenonT(60) DEF NoWr
<1> USE <1>0
<1>1. wr' = NoWr => WriterHash'
  BY ZenonT(60), <1>00 DEF WriterHash
\* the record while an operation of the write path is under way
<1>2. ASSUME wr.pc # "idle"
      PROVE  /\ Present(rec) /\ wr.rec.fid = rec.fid /\ wr.rec.size = rec.size
             /\ wr.rec.frozen = rec.frozen /\ wr.rec.hash = rec.hash /\ rec.fid \in DOMAIN file
             /\ Describes(rec.hash, file[rec.fid], rec.size) /\ (~rec.frozen => rec.hash = {})
  BY ZenonT(60), <1>2 DEF ClaimInv, WriterCopy, Backed, HashSafe, WriterHash, RecordHash
<1>3. CASE Create
  <2>1. /\ clock + 1 \in 0 .. MaxClock /\ nfid + 1 \in 0 .. MaxFid /\ Len(<<>>) = 0
        /\ <<>> \in Content
    BY ZenonT(60), <1>3, NextStamp, EmptyContent, BoundsAssumption DEF Create, TypeOK, TypeWorld
  <2> DEFINE gone == IF rec.frozen THEN 0 ELSE rec.fid
  <2>2. gone # nfid + 1
    BY SMTT(60), RecordType DEF ClaimInv, Handed
  <2>3. /\ file' = Drop(Put(file, nfid + 1, <<>>), gone)
        /\ trk' = [g \in Fids |-> IF g = nfid + 1 THEN [NoTrk EXCEPT !.on = TRUE]
                                  ELSE IF g = gone THEN NoTrk ELSE trk[g]]
        /\ rec' = NewRec(nfid + 1, 0, clock + 1) /\ clock' = clock + 1 /\ ~TxHeld /\ wr.pc = "idle"
        /\ UNCHANGED <<eng, rty, wr>>
    BY ZenonT(60), <1>3 DEF Create, LockFree
  <2> HIDE DEF gone
  <2>4. /\ DOMAIN file' \subseteq DOMAIN file \cup {nfid + 1}
        /\ nfid + 1 \in DOMAIN file' /\ file'[nfid + 1] = <<>>
        /\ \A x \in DOMAIN file' : x # nfid + 1 => x \in DOMAIN file /\ file'[x] = file[x]
    BY SMTT(60), <2>2, <2>3 DEF Drop, Put
  <2>5. \A x \in DOMAIN file' : x # nfid + 1 => trk'[x] \in {trk[x], NoTrk}
    BY ZenonT(60), <2>3, <2>4
  <2>6. Tracks(trk'[nfid + 1], <<>>)
    <3>1. nfid + 1 \in Fids
      BY SMTT(60), <2>1 DEF Fids
    <3>2. trk'[nfid + 1] = [NoTrk EXCEPT !.on = TRUE]
      BY SMTT(60), <2>3, <3>1
    <3>3. trk'[nfid + 1].fed = <<>>
      BY SMTT(60), <3>2 DEF NoTrk
    <3>4. Prefix(<<>>, 0) = <<>>
      BY ZenonT(60), <2>1, PrefixWhole
    <3> QED
      BY SMTT(60), <2>1, <3>3, <3>4 DEF Tracks
  <2> QED
    BY ZenonT(60), <2>1, <2>3, <2>4, <2>5, <2>6, HashNew
<1>4. ASSUME NEW op, NEW n, OpenForWrite(op, n) PROVE HashSafe'
  <2>1. wr'.pc = "read" /\ wr'.rec = rec
    BY SMTT(60), <1>4, NoType DEF OpenForWrite, Writer, NoWr
  <2>2. UNCHANGED <<rec, file, trk, eng, rty, clock>>
    BY ZenonT(60), <1>4 DEF OpenForWrite, store
  <2>3. WriterHash'
    BY ZenonT(60), <2>1, <2>2 DEF WriterHash
  <2> QED
    BY ZenonT(60), <2>2, <2>3, HashSame
\* the generation of a write, staged from the remote content or from a copy
<1>5. ASSUME NEW c \in Content, rec' = NewRec(nfid + 1, Len(c), clock + 1), clock' = clock + 1,
             nfid + 1 \in 0 .. MaxFid, clock + 1 \in 0 .. MaxClock, file' = Put(file, nfid + 1, c),
             trk' = [trk EXCEPT ![nfid + 1] = [on |-> TRUE, dirty |-> FALSE, fed |-> c]],
             ~TxHeld, UNCHANGED <<eng, rty>>, wr'.rec = rec', wr'.pc \in {"read", "target"}
      PROVE  HashSafe'
  <2>1. /\ DOMAIN file' \subseteq DOMAIN file \cup {nfid + 1}
        /\ nfid + 1 \in DOMAIN file' /\ file'[nfid + 1] = c
        /\ \A x \in DOMAIN file' : x # nfid + 1 => x \in DOMAIN file /\ file'[x] = file[x]
    BY ZenonT(60), <1>5 DEF Put
  <2>2. nfid + 1 \in Fids
    BY SMTT(60), <1>5 DEF Fids
  <2>3. trk'[nfid + 1] = [on |-> TRUE, dirty |-> FALSE, fed |-> c]
    BY ZenonT(60), <1>5, <2>2
  <2>4. \A x \in DOMAIN file' : x # nfid + 1 => trk'[x] = trk[x]
    BY ZenonT(60), <1>5, <2>1
  <2>5. Tracks(trk'[nfid + 1], c)
    BY SMTT(60), <1>5, <2>3, PrefixWhole DEF Tracks, Content
  <2> QED
    BY ZenonT(60), <1>5, <2>1, <2>4, <2>5, HashNew
<1>6. ASSUME NEW op, NEW n, StageForWrite(op, n) PROVE HashSafe'
  <2>1. clock + 1 \in 0 .. MaxClock /\ nfid + 1 \in 0 .. MaxFid
    <3>1. Tick /\ nfid < MaxFid
      BY ZenonT(60), <1>6 DEF StageForWrite
    <3> QED
      BY SMTT(60), <3>1, NextStamp, BoundsAssumption DEF TypeOK, TypeWorld
  <2>2. PICK c \in Content :
          LET r == NewRec(nfid + 1, Len(c), clock + 1) IN
          /\ rec' = r /\ file' = Put(file, nfid + 1, c)
          /\ trk' = [trk EXCEPT ![nfid + 1] = [on |-> TRUE, dirty |-> FALSE, fed |-> c]]
          /\ wr' = [NoWr EXCEPT !.pc = "read", !.op = op, !.rec = r, !.at = n]
    <3>1. FinalData \subseteq Content
      BY SMTT(60) DEF FinalData, Finals, TypeOK, TypeWorld
    <3> QED
      BY ZenonT(60), <1>6, <3>1, EmptyContent DEF StageForWrite
  <2>3. wr'.pc = "read" /\ wr'.rec = rec'
    BY ZenonT(60), <2>2, NoType DEF Writer, NoWr
  <2>4. ~TxHeld /\ UNCHANGED <<eng, rty>> /\ clock' = clock + 1
    BY ZenonT(60), <1>6 DEF StageForWrite
  <2> QED
    BY ZenonT(60), <1>5, <2>1, <2>2, <2>3, <2>4
<1>7. CASE WriteTarget
  <2>1. CASE InPlace
    <3>1. /\ wr'.pc = "target" /\ wr'.rec = wr.rec /\ wr.pc = "read"
          /\ UNCHANGED <<rec, file, trk, eng, rty, clock>>
      BY ZenonT(60), <1>7, <2>1 DEF WriteTarget, Writer
    <3>2. WriterHash'
      BY ZenonT(60), <3>1 DEF HashSafe, WriterHash
    <3> QED
      BY ZenonT(60), <3>1, <3>2, HashSame
  <2>2. CASE ~InPlace /\ Reusable
    <3>1. /\ rec' = [rec EXCEPT !.frozen = FALSE, !.hash = {}, !.stamp = clock + 1]
          /\ wr' = [wr EXCEPT !.pc = "target", !.rec = rec'] /\ clock' = clock + 1
          /\ UNCHANGED <<file, trk, eng, rty>>
      BY ZenonT(60), <1>7, <2>2 DEF WriteTarget
    <3>2. rec'.hash = {} /\ rec'.stamp = clock + 1
      BY SMTT(60), <3>1 DEF Record
    <3>3. wr'.pc = "target" /\ wr'.rec = rec'
      BY SMTT(60), <3>1 DEF Writer
    <3>4. TrackInv' /\ StreamHash'
      BY ZenonT(60), <3>1 DEF HashSafe, TrackInv, StreamHash
    <3>5. RecordHash' /\ WriterHash'
      BY ZenonT(60), <3>2, <3>3 DEF RecordHash, WriterHash, Describes
    <3> QED
      BY ZenonT(60), <3>1, <3>2, <3>4, <3>5, HashRestamp
  <2>3. CASE ~InPlace /\ ~Reusable
    <3>1. clock + 1 \in 0 .. MaxClock /\ nfid + 1 \in 0 .. MaxFid
      <4>1. Tick /\ nfid < MaxFid
        BY ZenonT(60), <1>7, <2>3 DEF WriteTarget
      <4> QED
        BY SMTT(60), <4>1, NextStamp, BoundsAssumption DEF TypeOK, TypeWorld
    <3>2. PICK c \in Content :
            LET r == NewRec(nfid + 1, Len(c), clock + 1) IN
            /\ rec' = r /\ file' = Put(file, nfid + 1, c)
            /\ trk' = [trk EXCEPT ![nfid + 1] = [on |-> TRUE, dirty |-> FALSE, fed |-> c]]
            /\ wr' = [wr EXCEPT !.pc = "target", !.rec = r]
      BY ZenonT(60), <1>7, <2>3, EmptyContent DEF WriteTarget
    <3>3. wr'.pc = "target" /\ wr'.rec = rec'
      BY SMTT(60), <3>2 DEF Writer
    <3>4. ~TxHeld /\ UNCHANGED <<eng, rty>> /\ clock' = clock + 1
      BY ZenonT(60), <1>7, <2>3 DEF WriteTarget
    <3> QED
      BY ZenonT(60), <1>5, <3>1, <3>2, <3>3, <3>4
  <2> QED
    BY ZenonT(60), <2>1, <2>2, <2>3
<1>8. CASE WriteFile
  <2> DEFINE f == wr.rec.fid
             c == file[f]
             p == Patch(c, wr.at, clock + 1)
  <2>1. wr.pc = "target" /\ wr.op = "write" /\ Tick
    BY ZenonT(60), <1>8 DEF WriteFile
  <2>2. /\ f = rec.fid /\ f \in DOMAIN file /\ Present(rec) /\ rec.size = wr.rec.size
        /\ rec.frozen = wr.rec.frozen /\ wr.rec.hash = rec.hash /\ c \in Content
        /\ Describes(rec.hash, c, rec.size) /\ (~rec.frozen => rec.hash = {})
    BY ZenonT(60), <1>2, <2>1
  <2>3. /\ file' = Put(file, f, p) /\ wr' = [wr EXCEPT !.pc = "wrote"]
        /\ trk' = [trk EXCEPT ![f] = HashWrite(wr.rec, wr.at, clock + 1)]
        /\ UNCHANGED <<rec, eng, rty, clock>>
    BY ZenonT(60), <1>8, <2>2 DEF WriteFile
  <2>4. wr.at \in 0 .. MaxSize - 1 /\ clock + 1 \in 0 .. MaxClock
    <3>1. wr.at < MaxSize
      BY SMTT(60), <2>1 DEF TypeOK, TypeActors
    <3> QED
      BY SMTT(60), <2>1, <3>1, NextStamp, BoundsAssumption DEF TypeOK, TypeWorld
  <2>5. wr'.pc = "wrote" /\ wr'.rec = wr.rec
    BY ZenonT(60), <2>3 DEF Writer
  <2>6. Tracks(HashWrite(wr.rec, wr.at, clock + 1), p)
    <3>1. trk[f] \in Tracker /\ Tracks(trk[f], c)
      BY ZenonT(60), <2>2 DEF HashSafe, TrackInv
    <3> QED
      BY ZenonT(60), <2>2, <2>4, <3>1, TracksWrite
  <2>7. rec.frozen => Describes(rec.hash, p, rec.size)
    <3>1. rec.frozen => rec.size <= wr.at
      BY ZenonT(60), <2>1, <2>2 DEF ClaimInv, Target
    <3>2. rec.size \in Nat
      BY SMTT(60), RecordType
    <3> QED
      BY ZenonT(60), <2>2, <2>4, <3>1, <3>2, DescribesPatch
  <2>8. ASSUME NEW h, eng.pc \in Streaming, eng.rec.fid = f, Describes(h, c, eng.rec.size)
        PROVE  Describes(h, p, eng.rec.size)
    <3>1. rec.frozen /\ (eng.rec.size <= rec.size \/ Len(c) <= rec.size)
      BY ZenonT(60), <2>1, <2>2, <2>8 DEF ClaimInv, Claimed, Reach
    <3>2. rec.size <= wr.at
      BY ZenonT(60), <2>1, <2>2, <3>1 DEF ClaimInv, Target
    <3>3. rec.size \in Nat /\ eng.rec.size \in Nat /\ Len(c) \in Nat
      BY SMTT(60), <2>2, RecordType DEF Content
    <3>4. eng.rec.size <= wr.at \/ Len(c) <= wr.at
      BY SMTT(60), <3>1, <3>2, <3>3
    <3> QED
      BY ZenonT(60), <2>2, <2>4, <2>8, <3>3, <3>4, DescribesPatch
  <2>9. /\ DOMAIN file' = DOMAIN file /\ file'[f] = p
        /\ \A x \in DOMAIN file : x # f => file'[x] = file[x]
    BY SMTT(60), <2>2, <2>3 DEF Put
  <2>10. /\ trk'[f] = HashWrite(wr.rec, wr.at, clock + 1)
         /\ \A x \in DOMAIN file : x # f => trk'[x] = trk[x]
    BY ZenonT(60), <2>2, <2>3
  <2> HIDE DEF p
  <2>11. TrackInv'
    <3>1. ASSUME NEW x \in DOMAIN file' PROVE Tracks(trk'[x], file'[x])
      <4>1. CASE x = f
        BY ZenonT(60), <2>6, <2>9, <2>10, <4>1
      <4>2. CASE x # f
        BY ZenonT(60), <2>9, <2>10, <4>2 DEF HashSafe, TrackInv
      <4> QED
        BY ZenonT(60), <4>1, <4>2
    <3> QED
      BY ZenonT(60), <3>1 DEF TrackInv
  <2>12. RecordHash'
    <3>1. rec.hash = {} => Describes(rec.hash, p, rec.size)
      BY ZenonT(60) DEF Describes
    <3>2. Describes(rec.hash, p, rec.size)
      BY ZenonT(60), <2>2, <2>7, <3>1
    <3> QED
      BY ZenonT(60), <2>2, <2>3, <2>9, <3>2 DEF RecordHash
  <2>13. WriterHash'
    BY ZenonT(60), <2>2, <2>3, <2>5 DEF WriterHash
  <2>14. CopyHash'
    BY ZenonT(60), <2>3 DEF HashSafe, CopyHash
  <2>15. StreamHash'
    <3>1. CASE eng.rec.fid = f
      <4>1. /\ eng.pc = "claimed" => Describes(eng.rec.hash, c, eng.rec.size)
            /\ eng.pc \in {"snapped", "prepare", "put"} => eng.hash # {} /\ Describes(eng.hash, c, eng.rec.size)
        BY ZenonT(60), <2>2, <3>1 DEF HashSafe, StreamHash
      <4>2. /\ eng.pc = "claimed" => Describes(eng.rec.hash, p, eng.rec.size)
            /\ eng.pc \in {"snapped", "prepare", "put"} => eng.hash # {} /\ Describes(eng.hash, p, eng.rec.size)
        BY SMTT(60), <2>8, <3>1, <4>1 DEF Streaming
      <4> QED
        BY ZenonT(60), <2>3, <2>9, <3>1, <4>2 DEF StreamHash
    <3>2. CASE eng.rec.fid # f
      BY ZenonT(60), <2>3, <2>9, <3>2 DEF HashSafe, StreamHash
    <3> QED
      BY SMTT(60), <3>1, <3>2
  <2> QED
    BY ZenonT(60), <2>11, <2>12, <2>13, <2>14, <2>15 DEF HashSafe
<1>9. CASE WriteFails
  BY ZenonT(60), <1>1, <1>9, HashSame DEF WriteFails, store
<1>10. CASE WriteUpdate
  <2>1. /\ rec' = [wr.rec EXCEPT !.size = Larger(wr.rec.size, wr.at + 1), !.stamp = clock + 1]
        /\ wr' = NoWr /\ clock' = clock + 1 /\ wr.pc = "wrote"
        /\ UNCHANGED <<file, trk, eng, rty>>
    BY ZenonT(60), <1>10 DEF WriteUpdate
  <2>2. /\ rec'.fid = wr.rec.fid /\ rec'.size = Larger(wr.rec.size, wr.at + 1) /\ rec'.hash = wr.rec.hash
        /\ rec'.stamp = clock + 1 /\ rec'.frozen = wr.rec.frozen
    BY ZenonT(60), <2>1 DEF Record
  <2>3. TrackInv' /\ StreamHash'
    BY SMTT(60), <2>1 DEF HashSafe, TrackInv, StreamHash
  <2>4. rec.size \in Nat /\ rec'.size \in Nat /\ rec.size <= rec'.size
    BY SMTT(60), <1>2, <2>1, <2>2, RecordType DEF Larger
  <2>5. Describes(rec.hash, file[rec.fid], rec'.size)
    BY ZenonT(60), <1>2, <2>1, <2>4, DescribesMore
  <2>6. RecordHash'
    BY ZenonT(60), <1>2, <2>1, <2>2, <2>5 DEF RecordHash
  <2> QED
    BY ZenonT(60), <1>1, <2>1, <2>2, <2>3, <2>6, HashRestamp
<1>11. CASE TruncateFile
  <2> DEFINE f == wr.rec.fid
             r == [wr.rec EXCEPT !.size = wr.at, !.stamp = clock + 1]
  <2>1. wr' = NoWr /\ wr.pc = "target" /\ wr.op = "truncate" /\ UNCHANGED <<eng, rty>>
        /\ trk' = [trk EXCEPT ![f] = HashDirty(f)]
    BY ZenonT(60), <1>11 DEF TruncateFile
  <2>2. f = rec.fid /\ f \in DOMAIN file /\ Present(rec) /\ ~rec.frozen /\ rec.hash = {}
        /\ wr.rec.hash = {}
    BY ZenonT(60), <1>2, <2>1 DEF ClaimInv, Target
  <2>3. eng.pc \in Streaming => eng.rec.fid # f
    BY SMTT(60), <2>2 DEF ClaimInv, Claimed
  <2>4. DOMAIN file' = DOMAIN file /\ \A x \in DOMAIN file : x # f => file'[x] = file[x]
    BY ZenonT(60), <1>11, <2>2 DEF TruncateFile, Put
  <2>5. TrackInv'
    <3>1. trk'[f] = HashDirty(f) /\ \A x \in DOMAIN file : x # f => trk'[x] = trk[x]
      BY SMTT(60), <2>1, <2>2
    <3>2. trk[f] \in Tracker
      BY ZenonT(60), <2>2
    <3>3. \A x : Tracks(HashDirty(f), x)
      BY ZenonT(60), <3>2 DEF HashDirty, Tracker, Tracks
    <3>4. ASSUME NEW x \in DOMAIN file' PROVE Tracks(trk'[x], file'[x])
      <4>1. CASE x = f
        BY ZenonT(60), <3>1, <3>3, <4>1
      <4>2. CASE x # f
        BY ZenonT(60), <2>4, <3>1, <4>2 DEF HashSafe, TrackInv
      <4> QED
        BY ZenonT(60), <4>1, <4>2
    <3> QED
      BY ZenonT(60), <3>4 DEF TrackInv
  <2>6. StreamHash'
    BY ZenonT(60), <2>1, <2>3, <2>4 DEF HashSafe, StreamHash, Streaming
  <2>7. CASE UNCHANGED <<rec, clock>>
    <3>1. RecordHash'
      BY ZenonT(60), <2>2, <2>7 DEF RecordHash, Describes
    <3>2. CopyHash'
      BY ZenonT(60), <2>1, <2>7 DEF HashSafe, CopyHash
    <3> QED
      BY ZenonT(60), <1>1, <2>1, <2>5, <2>6, <3>1, <3>2 DEF HashSafe
  <2>8. CASE rec' = r /\ clock' = clock + 1
    <3>1. r.hash = {} /\ r.stamp = clock + 1
      BY ZenonT(60), <2>2 DEF Record
    <3> HIDE DEF r
    <3>2. RecordHash'
      BY ZenonT(60), <2>8, <3>1 DEF RecordHash, Describes
    <3> QED
      BY ZenonT(60), <1>1, <2>1, <2>5, <2>6, <2>8, <3>1, <3>2, HashRestamp
  <2> QED
    BY ZenonT(60), <1>11, <2>7, <2>8 DEF TruncateFile
<1>12. CASE FlushRead
  <2> DEFINE c == file[rec.fid]
             n == Len(c)
             h == HashSnapshot(rec.fid, n)
             r == [rec EXCEPT !.size = n, !.frozen = TRUE, !.hash = IF h = {} THEN @ ELSE h]
  <2>1. /\ wr' = [NoWr EXCEPT !.pc = "flush", !.op = "flush", !.rec = rec, !.new = r]
        /\ Present(rec) /\ rec.fid \in DOMAIN file /\ UNCHANGED <<rec, file, trk, eng, rty, clock>>
    BY SMTT(60), <1>12 DEF FlushRead, store
  <2>2. r.size = n /\ r.hash = IF h = {} THEN rec.hash ELSE h
    BY SMTT(60) DEF Record
  <2>3. c \in Content /\ n \in Nat /\ Tracks(trk[rec.fid], c) /\ rec.size \in Nat
        /\ Describes(rec.hash, c, rec.size)
    BY SMTT(60), <2>1, RecordType DEF HashSafe, TrackInv, RecordHash, Content
  <2>4. Describes(h, c, n)
    BY SMTT(60), <2>3, SnapshotDescribes
  <2>5. Describes(rec.hash, c, n)
    BY ZenonT(60), <2>3, DescribesLen
  <2> HIDE DEF h
  <2>6. Describes(r.hash, c, r.size)
    BY ZenonT(60), <2>2, <2>4, <2>5
  <2> HIDE DEF r
  <2>7. wr'.pc = "flush" /\ wr'.rec = rec /\ wr'.new = r
    BY SMTT(60), <2>1 DEF NoWr
  <2>8. WriterHash'
    BY ZenonT(60), <2>1, <2>6, <2>7 DEF WriterHash
  <2> QED
    BY ZenonT(60), <2>1, <2>8, HashSame
<1>13. CASE FlushIgnored
  <2>1. UNCHANGED <<rec, file, trk, eng, rty, clock, wr>>
    BY ZenonT(60), <1>13 DEF FlushIgnored, store
  <2>2. WriterHash'
    BY ZenonT(60), <2>1 DEF HashSafe, WriterHash
  <2> QED
    BY ZenonT(60), <2>1, <2>2, HashSame
<1>14. CASE FlushSave
  <2>1. wr' = NoWr /\ wr.pc = "flush" /\ UNCHANGED <<trk, eng, rty>>
    BY ZenonT(60), <1>14 DEF FlushSave
  <2>2. CASE UNCHANGED <<rec, file, clock>>
    BY ZenonT(60), <1>1, <2>1, <2>2, HashSame
  <2> DEFINE r == [wr.new EXCEPT !.stamp = clock + 1]
  <2>3. CASE rec' = r /\ file' = Displaced(file, sched, r.fid, r) /\ clock' = clock + 1
    <3>1. /\ r.fid = wr.new.fid /\ r.size = wr.new.size /\ r.stamp = clock + 1
          /\ r.hash = wr.new.hash /\ r.frozen = wr.new.frozen
      BY ZenonT(60) DEF Record
    <3> HIDE DEF r
    <3>2. /\ DOMAIN file' \subseteq DOMAIN file /\ \A x \in DOMAIN file' : file'[x] = file[x]
          /\ r.fid \in DOMAIN file => r.fid \in DOMAIN file'
      BY SMTT(60), <2>3, DisplacedFiles
    <3>3. wr.new.fid = wr.rec.fid /\ wr.new.frozen /\ wr.rec.fid \in DOMAIN file
          /\ Describes(wr.new.hash, file[wr.rec.fid], wr.new.size)
      BY ZenonT(60), <1>2, <2>1 DEF ClaimInv, WriterCopy, HashSafe, WriterHash
    <3>4. RecordHash'
      BY ZenonT(60), <2>3, <3>1, <3>2, <3>3 DEF RecordHash
    <3>5. TrackInv' /\ StreamHash'
      BY ZenonT(60), <2>1, <3>2, TrackFrame, StreamFrame DEF HashSafe
    <3> QED
      BY ZenonT(60), <1>1, <2>1, <2>3, <3>1, <3>4, <3>5, HashRestamp
  <2> QED
    BY ZenonT(60), <1>14, <2>2, <2>3 DEF FlushSave
<1>15. CASE RetryRead
  <2>1. UNCHANGED <<rec, file, trk, eng, clock, wr>> /\ rty' = rec
    BY ZenonT(60), <1>15 DEF RetryRead, store
  <2>2. WriterHash'
    BY ZenonT(60), <2>1 DEF HashSafe, WriterHash
  <2> QED
    BY ZenonT(60), <2>1, <2>2, HashSame
<1>16. CASE RetrySave
  <2> DEFINE r == [rty EXCEPT !.fail = FALSE, !.stamp = clock + 1]
  <2>1. /\ rec' = r /\ rty' = NoRec /\ ~TxHeld /\ clock' = clock + 1
        /\ UNCHANGED <<file, trk, eng, wr>> /\ Same(rec, rty) /\ rec.frozen = rty.frozen
    BY ZenonT(60), <1>16 DEF RetrySave
  <2>2. /\ r.fid = rty.fid /\ r.size = rty.size /\ r.stamp = clock + 1 /\ r.hash = rty.hash
        /\ r.frozen = rty.frozen
    BY ZenonT(60) DEF Record
  <2> HIDE DEF r
  <2>3. /\ rec'.fid = rec.fid /\ rec'.size = rec.size /\ rec'.hash = rec.hash
        /\ rec'.frozen = rec.frozen /\ rec'.stamp = clock + 1
    BY ZenonT(60), <2>1, <2>2 DEF HashSafe, CopyHash, Same
  <2>4. TrackInv' /\ StreamHash'
    BY ZenonT(60), <2>1 DEF HashSafe, TrackInv, StreamHash
  <2>5. RecordHash' /\ WriterHash'
    BY ZenonT(60), <2>1, <2>3 DEF HashSafe, RecordHash, WriterHash, Present
  <2> QED
    BY ZenonT(60), <2>1, <2>3, <2>4, <2>5, HashRestamp
<1>17. CASE Discard
  <2>1. /\ rec' = NoRec /\ file' = Drop(file, rec.fid) /\ trk' = [trk EXCEPT ![rec.fid] = NoTrk]
        /\ wr.pc = "idle" /\ UNCHANGED <<eng, wr, rty, clock>> /\ ~TxHeld
    BY ZenonT(60), <1>17 DEF Discard, LockFree
  <2>2. DOMAIN file' \subseteq DOMAIN file /\ \A x \in DOMAIN file' : file'[x] = file[x]
    BY ZenonT(60), <2>1 DEF Drop
  <2>3. \A x \in DOMAIN file' : trk'[x] \in {trk[x], NoTrk}
    BY ZenonT(60), <2>1, <2>2
  <2>4. TrackInv'
    BY ZenonT(60), <2>2, <2>3, TrackFrame DEF HashSafe
  <2>5. StreamHash'
    BY ZenonT(60), <2>1, <2>2, StreamFrame DEF HashSafe
  <2>6. ~Present(rec')
    BY ZenonT(60), <2>1 DEF NoRec, Present
  <2>7. RecordHash' /\ WriterHash'
    BY ZenonT(60), <2>1, <2>6 DEF RecordHash, WriterHash
  <2>8. CopyHash'
    BY ZenonT(60), <2>1, <2>6 DEF HashSafe, CopyHash, Same, TxHeld
  <2> QED
    BY ZenonT(60), <2>4, <2>5, <2>7, <2>8 DEF HashSafe
<1> QED
  BY ZenonT(60), <1>3, <1>4, <1>6, <1>7, <1>8, <1>9, <1>10, <1>11, <1>12, <1>13, <1>14, <1>15, <1>16,
     <1>17 DEF UserStep

\* Only a restart counts as one.
LEMMA RestartsCounted == Next /\ ~CrashAndResume => crashes' = crashes
<1> SUFFICES ASSUME Next, ~CrashAndResume PROVE crashes' = crashes
  BY SMTT(60)
<1>1. CASE EngineStep
  <2>1. CASE Receive \/ Claim \/ Snapshot \/ Recheck \/ Prepare \/ PutSource \/ RecordReplacement
             \/ RecordReplacementApply
    BY ZenonT(60), <2>1 DEF Receive, Claim, Snapshot, Recheck, Prepare, PutSource, RecordReplacement,
         RecordReplacementApply
  <2>2. CASE Check \/ Swap \/ Commit \/ CommitApply \/ Sweep \/ Rollback \/ RecordFailure
             \/ RecordFailureApply
    BY ZenonT(60), <2>2 DEF Check, Swap, Commit, CommitApply, Sweep, Rollback, RecordFailure,
         RecordFailureApply
  <2> QED
    BY ZenonT(60), <1>1, <2>1, <2>2 DEF EngineStep
<1>2. ASSUME NEW op, NEW n, OpenForWrite(op, n) \/ StageForWrite(op, n) PROVE crashes' = crashes
  BY ZenonT(60), <1>2 DEF OpenForWrite, StageForWrite
<1>3. CASE Create \/ WriteTarget \/ WriteFile \/ WriteFails \/ WriteUpdate \/ TruncateFile
           \/ FlushRead \/ FlushIgnored \/ FlushSave \/ RetryRead \/ RetrySave \/ Discard
  BY ZenonT(60), <1>3 DEF Create, WriteTarget, WriteFile, WriteFails, WriteUpdate, TruncateFile,
       FlushRead, FlushIgnored, FlushSave, RetryRead, RetrySave, Discard
<1> QED
  BY ZenonT(60), <1>1, <1>2, <1>3 DEF Next, UserStep

\* Every step preserves the invariant.
LEMMA HashNext == TypeOK /\ TypeOK' /\ ClaimInv /\ ClaimInv' /\ HashInv /\ [Next]_vars => HashInv'
<1> SUFFICES ASSUME TypeOK, TypeOK', ClaimInv, ClaimInv', HashInv, [Next]_vars, ~raced', crashes' = 0
             PROVE  HashSafe'
  BY ZenonT(60) DEF HashInv
<1>1. CASE UNCHANGED vars
  <2>1. HashSafe
    BY ZenonT(60), <1>1 DEF HashInv, vars, history
  <2>2. UNCHANGED <<rec, file, trk, eng, clock, rty, wr>>
    BY ZenonT(60), <1>1 DEF vars, store
  <2>3. WriterHash'
    BY ZenonT(60), <2>1, <2>2 DEF HashSafe, WriterHash
  <2> QED
    BY ZenonT(60), <2>1, <2>2, <2>3, HashSame
<1>2. CASE Next
  <2>1. ~raced
    BY ZenonT(60), <1>2, Remembered
  <2>2. ~CrashAndResume /\ crashes = 0
    <3>1. crashes \in Nat
      BY SMTT(60), BoundsAssumption DEF TypeOK, TypeWorld
    <3>2. CrashAndResume => crashes' = crashes + 1
      BY ZenonT(60) DEF CrashAndResume
    <3> QED
      BY SMTT(60), <1>2, <3>1, <3>2, RestartsCounted
  <2>3. HashSafe
    BY SMTT(60), <2>1, <2>2 DEF HashInv
  <2> QED
    BY ZenonT(60), <1>2, <2>1, <2>2, <2>3, HashEngine, HashUser DEF Next
<1> QED
  BY ZenonT(60), <1>1, <1>2

\* The hashes a driver is given with the source describe bytes of the generation
\* that is being uploaded (HashTracker, snapshotPending), however writes, retries
\* and uploads interleave, as long as no stale record was written back and the
\* process was not restarted.
THEOREM HashesDescribe == Spec => []HashesDescribePrefix
<1>1. TypeOK /\ ClaimInv /\ HashInv => HashesDescribePrefix
  <2> SUFFICES ASSUME TypeOK, ClaimInv, HashInv, eng.pc = "put", eng.rec.fid \in DOMAIN file, ~raced,
                      crashes = 0
               PROVE  \E n \in 0 .. eng.rec.size : eng.hash = {Prefix(file[eng.rec.fid], n)}
    BY ZenonT(60) DEF HashesDescribePrefix
  <2>1. eng.hash # {} /\ Describes(eng.hash, file[eng.rec.fid], eng.rec.size)
    BY SMTT(60) DEF HashInv, HashSafe, StreamHash
  <2> QED
    BY ZenonT(60), <2>1 DEF Describes
<1>2. Init => TypeOK /\ ClaimInv /\ HashInv
  BY ZenonT(60), TypeInit, ClaimInit, HashInit
<1>3. TypeOK /\ ClaimInv /\ HashInv /\ [Next]_vars => (TypeOK /\ ClaimInv /\ HashInv)'
  BY ZenonT(60), TypeNext, ClaimNext, HashNext
<1> QED
  BY <1>1, <1>2, <1>3, PTL DEF Spec

-----------------------------------------------------------------------------
(* The remote directory.                                                   *)

\* Entry ids in use were handed out.
Numbered ==
  /\ \A i \in DOMAIN remote : i <= clock
  /\ eng.pc \in {"record", "replM"} => eng.ent <= clock

\* At most one remote entry has the final name.
OneFinal == \A i, j \in Finals : i = j

\* What the engine knows of the entries under the final name at each of its steps.
SwitchInv ==
  /\ eng.pc # "idle" => Present(eng.rec)
  /\ eng.pc = "replM" => Present(eng.next)
  /\ eng.pc = "put" => /\ eng.existing = Finals /\ eng.rec.repl = NoRepl
                       /\ eng.swap = (Finals # {})
  /\ eng.pc \in {"record", "replM", "swap"} => eng.existing = Finals /\ eng.ent \notin Finals
  /\ eng.pc \in {"record", "replM"} => eng.swap
  /\ eng.pc = "check" => IF eng.swap THEN eng.existing = Finals /\ eng.ent \notin Finals
                                     ELSE Finals = {eng.ent}
  /\ eng.pc \in {"commit", "cleanM"} => Finals = {eng.ent}

RemoteInv == Numbered /\ OneFinal /\ SwitchInv

\* The initial states satisfy it.
LEMMA RemoteInit == Init => RemoteInv
<1> SUFFICES ASSUME Init PROVE RemoteInv
  BY ZenonT(60)
<1>1. NoEng.pc = "idle" /\ eng = NoEng /\ clock = 1
  BY ZenonT(60) DEF NoEng, Init
<1>2. SwitchInv
  BY ZenonT(60), <1>1 DEF SwitchInv
<1>3. DOMAIN remote \subseteq {1}
  BY DEF Init
<1> QED
  BY <1>1, <1>2, <1>3 DEF RemoteInv, Numbered, OneFinal, Finals

\* Entries may disappear when the engine is not between choosing the name of its
\* upload and committing it.
LEMMA RemoteLess ==
  ASSUME TypeOK, TypeOK', RemoteInv, clock <= clock',
         DOMAIN remote' \subseteq DOMAIN remote, \A i \in DOMAIN remote' : remote'[i] = remote[i],
         \/ eng'.pc = "idle"
         \/ /\ eng'.pc \in {"recv", "claimed", "snapped", "prepare", "rollback", "fail", "failM",
                            "sweep"}
            /\ Present(eng'.rec)
  PROVE  RemoteInv'
<1>1. Finals' \subseteq Finals
  BY DEF Finals
<1>2. OneFinal'
  BY ZenonT(60), <1>1 DEF RemoteInv, OneFinal
<1>3. clock \in Nat /\ clock' \in Nat /\ DOMAIN remote \subseteq Nat
  BY BoundsAssumption DEF TypeOK, TypeWorld
<1>4. Numbered'
  BY <1>3 DEF RemoteInv, Numbered
<1>5. SwitchInv'
  BY DEF SwitchInv
<1> QED
  BY ZenonT(60), <1>2, <1>4, <1>5 DEF RemoteInv

\* Steps of the write path, and a crash, leave the remote directory alone.
LEMMA RemoteSame ==
  ASSUME TypeOK, TypeOK', RemoteInv, clock <= clock', UNCHANGED <<eng, remote>>
  PROVE  RemoteInv'
<1>1. Finals' = Finals
  BY ZenonT(60) DEF Finals
<1>2. clock \in Nat /\ clock' \in Nat /\ DOMAIN remote \subseteq Nat /\ eng.ent \in Nat
  BY BoundsAssumption, ActorType DEF TypeOK, TypeWorld
<1>3. Numbered' /\ OneFinal'
  BY SMTT(60), <1>1, <1>2 DEF RemoteInv, Numbered, OneFinal
<1>4. SwitchInv'
  BY ZenonT(60), <1>1 DEF RemoteInv, SwitchInv, Present
<1> QED
  BY ZenonT(60), <1>3, <1>4 DEF RemoteInv

\* A step of the engine that leaves the directory alone and moves on between
\* choosing the name and committing.
LEMMA RemoteOn ==
  ASSUME TypeOK, TypeOK', RemoteInv, clock <= clock', remote' = remote,
         eng'.existing = eng.existing, eng'.ent = eng.ent, eng'.swap = eng.swap, Present(eng'.rec),
         \/ eng.pc = "record" /\ eng'.pc = "replM" /\ Present(eng'.next)
         \/ eng.pc = "replM" /\ eng'.pc = "check"
         \/ eng.pc = "check" /\ eng'.pc = (IF eng.swap THEN "swap" ELSE "commit")
         \/ eng.pc = "commit" /\ eng'.pc = "cleanM"
  PROVE  RemoteInv'
<1>1. Finals' = Finals
  BY ZenonT(60) DEF Finals
<1>2. clock \in Nat /\ clock' \in Nat /\ DOMAIN remote \subseteq Nat /\ eng.ent \in Nat
  BY BoundsAssumption, ActorType DEF TypeOK, TypeWorld
<1>3. Numbered' /\ OneFinal'
  BY SMTT(60), <1>1, <1>2 DEF RemoteInv, Numbered, OneFinal
<1>4. SwitchInv'
  BY <1>1 DEF RemoteInv, SwitchInv
<1> QED
  BY ZenonT(60), <1>3, <1>4 DEF RemoteInv

\* Every engine step preserves the description of the remote directory.
LEMMA RemoteEngine == TypeOK /\ TypeOK' /\ RemoteInv /\ EngineStep => RemoteInv'
<1> SUFFICES ASSUME TypeOK, TypeOK', RemoteInv, EngineStep PROVE RemoteInv'
  BY ZenonT(60)
<1>0. /\ clock \in Nat /\ clock' \in Nat /\ NoEng.pc = "idle" /\ TypeActors /\ eng \in Engine
      /\ rec \in Record /\ rec' \in Record /\ DOMAIN remote \subseteq Nat
  BY BoundsAssumption DEF TypeOK, TypeStore, TypeWorld, TypeActors, NoEng
<1> USE <1>0
<1>1. CASE Receive
  <2>1. CASE Present(rec) /\ rec.frozen /\ ~rec.fail
    <3>1. eng'.pc = "recv" /\ eng'.rec = rec
      BY ZenonT(60), <1>1, <2>1, NoType DEF Receive, Engine, NoEng
    <3> QED
      BY <1>1, <2>1, <3>1, RemoteLess DEF Receive
  <2>2. CASE ~(Present(rec) /\ rec.frozen /\ ~rec.fail)
    BY <1>1, <2>2, RemoteSame DEF Receive
  <2> QED
    BY <2>1, <2>2
<1>2. CASE Claim
  <2>1. CASE Same(rec, eng.rec)
    <3>1. eng'.pc = "claimed" /\ eng'.rec = rec' /\ rec'.fid = rec.fid
      BY ZenonT(60), <1>2, <2>1 DEF Claim, Engine, Record
    <3> QED
      BY <1>2, <2>1, <3>1, RemoteLess DEF Claim, Same, Present
  <2>2. CASE ~Same(rec, eng.rec)
    BY <1>2, <2>2, RemoteLess DEF Claim, Released
  <2> QED
    BY <2>1, <2>2
<1>3. CASE Snapshot
  <2>1. eng'.pc \in {"snapped", "fail"} /\ eng'.rec = eng.rec
    BY ZenonT(60), <1>3 DEF Snapshot, Engine
  <2>2. Present(eng'.rec)
    BY ZenonT(60), <1>3, <2>1 DEF Snapshot, RemoteInv, SwitchInv
  <2> QED
    BY <1>3, <2>1, <2>2, RemoteLess DEF Snapshot
<1>4. CASE Recheck
  <2>1. eng' = NoEng \/ (eng'.pc = "prepare" /\ eng'.rec = eng.rec)
    BY <1>4 DEF Recheck, Engine, Released
  <2>2. eng'.pc = "idle" \/ (eng'.pc = "prepare" /\ Present(eng'.rec))
    BY <1>4, <2>1 DEF Recheck, RemoteInv, SwitchInv
  <2> QED
    BY <1>4, <2>2, RemoteLess DEF Recheck
<1>5. CASE Prepare
  <2> DEFINE r == eng.rec.repl
             existing == Finals \ {r.id}
             stale == Temps(eng.rec.fid) \ {r.id}
  <2>0. eng.pc = "prepare" /\ Present(eng.rec) /\ clock' = clock
    BY <1>5 DEF Prepare, RemoteInv, SwitchInv
  <2>1. CASE /\ remote' = [i \in DOMAIN remote \ stale |-> remote[i]]
             /\ eng' = [eng EXCEPT !.existing = existing,
                                   !.swap = r.id \notin Finals /\ (r # NoRepl \/ existing # {}),
                                   !.ent = r.id,
                                   !.perm = TRUE,
                                   !.pc = IF r = NoRepl THEN "put"
                                          ELSE IF r.size = eng.rec.size THEN "check"
                                          ELSE "fail"]
    <3>1. Finals' = Finals
      BY <2>0, <2>1 DEF Finals, Temps, Present
    <3>2. /\ eng'.existing = existing /\ eng'.ent = r.id /\ eng'.rec = eng.rec
          /\ eng'.swap = (r.id \notin Finals /\ (r # NoRepl \/ existing # {}))
          /\ eng'.pc = IF r = NoRepl THEN "put"
                       ELSE IF r.size = eng.rec.size THEN "check" ELSE "fail"
      BY <2>1 DEF Engine
    <3>3. Numbered' /\ OneFinal'
      BY <2>0, <2>1, <3>1, <3>2 DEF RemoteInv, Numbered, OneFinal
    <3>4. r = NoRepl => r.id \notin Finals
      BY BoundsAssumption DEF NoRepl, Finals, TypeOK, TypeWorld
    <3>5. SwitchInv'
      BY ZenonT(60), <2>0, <3>1, <3>2, <3>4 DEF RemoteInv, OneFinal, SwitchInv
    <3> QED
      BY ZenonT(60), <3>3, <3>5 DEF RemoteInv
  <2>2. ASSUME NEW b \in BOOLEAN, Fails(b), NEW gone \in SUBSET stale,
               remote' = [i \in DOMAIN remote \ gone |-> remote[i]]
        PROVE  RemoteInv'
    <3>1. eng'.pc = "fail" /\ eng'.rec = eng.rec
      BY <2>2, FailsFields
    <3> QED
      BY <2>0, <2>2, <3>1, RemoteLess
  <2> QED
    BY ZenonT(60), <1>5, <2>1, <2>2 DEF Prepare
<1>6. CASE PutSource
  <2> DEFINE entry == [name |-> IF eng.existing = {} THEN 0 ELSE eng.rec.fid,
                       data |-> Prefix(file[eng.rec.fid], eng.rec.size)]
  <2>0. /\ eng.pc = "put" /\ Present(eng.rec) /\ eng.existing = Finals
    BY <1>6 DEF PutSource, RemoteInv, SwitchInv
  <2>1. CASE /\ remote' = Put(remote, clock + 1, entry) /\ clock' = clock + 1
             /\ \/ eng' = [eng EXCEPT !.ent = clock + 1,
                              !.pc = IF eng.existing = {} THEN "check" ELSE "record"]
                \/ Fails(FALSE)
    <3>1. /\ DOMAIN remote' = DOMAIN remote \cup {clock + 1}
          /\ remote'[clock + 1].name = IF eng.existing = {} THEN 0 ELSE eng.rec.fid
          /\ \A i \in DOMAIN remote : remote'[i] = remote[i]
      BY <2>1 DEF Put, RemoteInv, Numbered
    <3>2. Finals' = IF eng.existing = {} THEN {clock + 1} ELSE Finals
      BY ZenonT(60), <2>0, <3>1 DEF Finals, Present, RemoteInv, Numbered
    <3>3. \A i \in DOMAIN remote' : i <= clock'
      BY <2>1, <3>1 DEF RemoteInv, Numbered
    <3>4. OneFinal'
      BY <3>2 DEF OneFinal, RemoteInv
    <3>5. CASE eng' = [eng EXCEPT !.ent = clock + 1,
                              !.pc = IF eng.existing = {} THEN "check" ELSE "record"]
      <4>1. /\ eng'.ent = clock + 1 /\ eng'.existing = eng.existing /\ eng'.rec = eng.rec
            /\ eng'.swap = eng.swap
            /\ eng'.pc = IF eng.existing = {} THEN "check" ELSE "record"
        BY ZenonT(60), <3>5 DEF Engine
      <4>2. clock + 1 \notin Finals
        BY DEF Finals, RemoteInv, Numbered
      <4>3. eng.swap = (eng.existing # {})
        BY ZenonT(60), <2>0 DEF RemoteInv, SwitchInv
      <4>4. SwitchInv'
        BY ZenonT(60), <2>0, <3>2, <4>1, <4>2, <4>3 DEF SwitchInv
      <4> QED
        BY <2>1, <3>3, <3>4, <4>1, <4>4 DEF RemoteInv, Numbered
    <3>6. CASE Fails(FALSE)
      <4>1. eng'.pc = "fail" /\ eng'.rec = eng.rec
        BY ZenonT(60), <3>6, FailsFields
      <4> QED
        BY ZenonT(60), <2>0, <3>3, <3>4, <4>1 DEF RemoteInv, Numbered, SwitchInv
    <3> QED
      BY ZenonT(60), <2>1, <3>5, <3>6
  <2>2. CASE UNCHANGED <<remote, clock>> /\ \E b \in BOOLEAN : Fails(b)
    BY <2>0, <2>2, FailsFields, RemoteLess
  <2>3. CASE UNCHANGED <<remote, clock>> /\ eng' = [eng EXCEPT !.pc = "fail", !.perm = FALSE]
    <3>1. eng'.pc = "fail" /\ eng'.rec = eng.rec
      BY <2>3 DEF Engine
    <3> QED
      BY <2>0, <2>3, <3>1, RemoteLess
  <2> QED
    BY ZenonT(60), <1>6, <2>1, <2>2, <2>3 DEF PutSource
<1>7. CASE RecordReplacement
  <2>1. CASE /\ Same(rec, eng.rec) /\ clock' = clock + 1
             /\ \E r \in Record : r.fid = rec.fid /\ eng' = [eng EXCEPT !.pc = "replM", !.next = r]
    <3>1. /\ eng'.pc = "replM" /\ eng'.rec = eng.rec /\ eng'.next.fid = rec.fid
          /\ eng'.existing = eng.existing /\ eng'.ent = eng.ent /\ eng'.swap = eng.swap
      BY <2>1 DEF Engine
    <3> QED
      BY <1>7, <2>1, <3>1, RemoteOn DEF RecordReplacement, Same, Present
  <2>2. CASE clock' = clock /\ (Fails(FALSE) \/ eng' = [eng EXCEPT !.pc = "rollback"])
    <3>1. eng'.pc \in {"fail", "rollback"} /\ eng'.rec = eng.rec
      BY ZenonT(60), <2>2, FailsFields, PcFields
    <3>2. Present(eng'.rec)
      BY <1>7, <3>1 DEF RecordReplacement, RemoteInv, SwitchInv
    <3> QED
      BY <1>7, <2>2, <3>1, <3>2, RemoteLess DEF RecordReplacement
  <2>3. ASSUME NEW r, r = [rec EXCEPT !.repl = [id |-> eng.ent, size |-> rec.size],
                                !.stamp = clock + 1],
               eng' = [eng EXCEPT !.pc = "replM", !.next = r]
        PROVE  r \in Record /\ r.fid = rec.fid
    <3>1. eng'.next = r
      BY ZenonT(60), <2>3 DEF Engine
    <3>2. r \in Record
      BY <3>1, ActorType DEF TypeOK, TypeActors, Engine
    <3> QED
      BY <2>3, <3>2 DEF Record
  <2> QED
    BY ZenonT(60), <1>7, <2>1, <2>2, <2>3 DEF RecordReplacement
<1>8. CASE RecordReplacementApply
  <2>1. /\ eng'.pc = "check" /\ eng'.rec = eng.next
        /\ eng'.existing = eng.existing /\ eng'.ent = eng.ent /\ eng'.swap = eng.swap
    BY <1>8 DEF RecordReplacementApply, Engine
  <2>2. Present(eng'.rec)
    BY ZenonT(60), <1>8, <2>1 DEF RecordReplacementApply, RemoteInv, SwitchInv
  <2> QED
    BY <1>8, <2>1, <2>2, RemoteOn DEF RecordReplacementApply
<1>9. CASE Check
  <2>1. /\ eng'.pc = IF ~Same(rec, eng.rec) THEN "rollback" ELSE IF eng.swap THEN "swap" ELSE "commit"
        /\ eng'.rec = eng.rec
        /\ eng'.existing = eng.existing /\ eng'.ent = eng.ent /\ eng'.swap = eng.swap
    BY <1>9 DEF Check, Engine
  <2>2. Present(eng'.rec)
    BY <1>9, <2>1 DEF Check, RemoteInv, SwitchInv
  <2>3. CASE Same(rec, eng.rec)
    BY <1>9, <2>1, <2>2, <2>3, RemoteOn DEF Check
  <2>4. CASE ~Same(rec, eng.rec)
    BY <1>9, <2>1, <2>2, <2>4, RemoteLess DEF Check
  <2> QED
    BY <2>3, <2>4
<1>10. CASE Swap
  <2>0. /\ eng.pc = "swap" /\ Present(eng.rec) /\ eng.existing = Finals /\ eng.ent \notin Finals
        /\ clock' = clock
    BY ZenonT(60), <1>10 DEF Swap, RemoteInv, SwitchInv
  <2>1. ASSUME NEW i \in eng.existing, remote' = Drop(remote, i),
               eng' = [eng EXCEPT !.existing = @ \ {i}]
        PROVE  RemoteInv'
    <3>1. /\ eng'.pc = "swap" /\ eng'.rec = eng.rec /\ eng'.ent = eng.ent
          /\ eng'.existing = eng.existing \ {i}
      BY <2>0, <2>1 DEF Engine
    <3>2. Finals' = Finals \ {i} /\ DOMAIN remote' \subseteq DOMAIN remote
      BY ZenonT(60), <2>1 DEF Finals, Drop
    <3>3. Numbered' /\ OneFinal'
      BY ZenonT(60), <2>0, <3>1, <3>2 DEF RemoteInv, Numbered, OneFinal
    <3>4. SwitchInv'
      BY ZenonT(60), <2>0, <3>1, <3>2 DEF SwitchInv
    <3> QED
      BY <3>3, <3>4 DEF RemoteInv
  <2>2. ASSUME NEW b \in BOOLEAN, Fails(b),
               remote' = remote \/ \E i : remote' = Drop(remote, i)
        PROVE  RemoteInv'
    <3>1. DOMAIN remote' \subseteq DOMAIN remote /\ \A i \in DOMAIN remote' : remote'[i] = remote[i]
      BY ZenonT(60), <2>2 DEF Drop
    <3>2. eng'.pc = "fail" /\ eng'.rec = eng.rec
      BY ZenonT(60), <2>2, FailsFields
    <3> QED
      BY <2>0, <3>1, <3>2, RemoteLess
  <2>3. ASSUME eng.existing = {}, eng.ent \in DOMAIN remote,
               remote' = [remote EXCEPT ![eng.ent].name = 0],
               eng' = [eng EXCEPT !.pc = "commit"] \/ Fails(FALSE)
        PROVE  RemoteInv'
    <3>1. eng'.pc \in {"commit", "fail"} /\ eng'.rec = eng.rec /\ eng'.ent = eng.ent
      BY ZenonT(60), <2>3, FailsFields, PcFields
    <3>2. DOMAIN remote' = DOMAIN remote /\ \A i \in DOMAIN remote : i # eng.ent => remote'[i] = remote[i]
      BY <2>3
    <3>3. remote[eng.ent] \in [name : 0 .. MaxFid, data : Content]
      BY <2>3 DEF TypeOK, TypeWorld
    <3>4. remote'[eng.ent].name = 0
      BY <2>3, <3>3
    <3>5. Finals' = {eng.ent}
      BY ZenonT(60), <2>0, <2>3, <3>2, <3>4 DEF Finals
    <3>6. Numbered' /\ OneFinal'
      BY ZenonT(60), <2>0, <3>1, <3>2, <3>5 DEF RemoteInv, Numbered, OneFinal
    <3>7. SwitchInv'
      BY <2>0, <3>1, <3>5 DEF SwitchInv
    <3> QED
      BY <3>6, <3>7 DEF RemoteInv
  <2>4. CASE remote' = remote /\ eng' = [eng EXCEPT !.pc = "fail", !.perm = FALSE]
    <3>1. eng'.pc = "fail" /\ eng'.rec = eng.rec
      BY <2>4 DEF Engine
    <3> QED
      BY <2>0, <2>4, <3>1, RemoteLess
  <2> QED
    BY ZenonT(60), <1>10, <2>1, <2>2, <2>3, <2>4 DEF Swap
<1>11. CASE Commit
  <2>1. CASE eng' = [eng EXCEPT !.pc = "cleanM"]
    <3>1. Present(eng.rec)
      BY <1>11 DEF Commit, RemoteInv, SwitchInv
    <3> QED
      BY <1>11, <2>1, <3>1, PcFields, RemoteOn DEF Commit
  <2>2. CASE eng' = [eng EXCEPT !.pc = "rollback"]
    <3>1. Present(eng.rec)
      BY <1>11 DEF Commit, RemoteInv, SwitchInv
    <3> QED
      BY <1>11, <2>2, <3>1, PcFields, RemoteLess DEF Commit
  <2>3. CASE eng' = NoEng
    BY <1>11, <2>3, RemoteLess DEF Commit
  <2> QED
    BY ZenonT(60), <1>11, <2>1, <2>2, <2>3 DEF Commit, Released
<1>12. CASE CommitApply
  <2>1. eng'.pc \in {"sweep", "rollback"} /\ eng'.rec = eng.rec
    BY <1>12 DEF CommitApply, Engine
  <2>2. Present(eng'.rec)
    BY ZenonT(60), <1>12, <2>1 DEF CommitApply, RemoteInv, SwitchInv
  <2> QED
    BY <1>12, <2>1, <2>2, RemoteLess DEF CommitApply
<1>13. CASE Sweep
  BY <1>13, RemoteLess DEF Sweep, Released
<1>14. CASE Rollback
  <2>1. DOMAIN remote' \subseteq DOMAIN remote /\ \A i \in DOMAIN remote' : remote'[i] = remote[i]
    BY <1>14 DEF Rollback, Drop
  <2> QED
    BY <1>14, <2>1, RemoteLess DEF Rollback, Released
<1>15. CASE RecordFailure
  <2>1. eng'.pc = "idle" \/ (eng'.pc = "failM" /\ eng'.rec = eng.rec)
    BY ZenonT(60), <1>15 DEF RecordFailure, Engine, Released
  <2>2. eng'.pc = "idle" \/ (eng'.pc = "failM" /\ Present(eng'.rec))
    BY <1>15, <2>1 DEF RecordFailure, RemoteInv, SwitchInv
  <2>3. clock <= clock'
    BY <1>15 DEF RecordFailure
  <2> QED
    BY ZenonT(60), <1>15, <2>2, <2>3, RemoteLess DEF RecordFailure
<1>16. CASE RecordFailureApply
  BY <1>16, RemoteLess DEF RecordFailureApply, Released
<1> QED
  BY ZenonT(60), <1>1, <1>2, <1>3, <1>4, <1>5, <1>6, <1>7, <1>8, <1>9, <1>10, <1>11, <1>12, <1>13, <1>14,
     <1>15, <1>16 DEF EngineStep

\* Every step, stuttering included, preserves it.
LEMMA RemoteNext == TypeOK /\ TypeOK' /\ RemoteInv /\ [Next]_vars => RemoteInv'
<1> SUFFICES ASSUME TypeOK, TypeOK', RemoteInv, [Next]_vars PROVE RemoteInv'
  BY ZenonT(60)
<1>0. clock \in Nat /\ NoEng.pc = "idle"
  BY BoundsAssumption DEF TypeOK, TypeWorld, NoEng
<1>1. ASSUME NEW op, NEW n, OpenForWrite(op, n) \/ StageForWrite(op, n) PROVE RemoteInv'
  <2>1. UNCHANGED <<eng, remote>> /\ clock' \in {clock, clock + 1}
    BY ZenonT(60), <1>1 DEF OpenForWrite, StageForWrite
  <2> QED
    BY <1>0, <2>1, RemoteSame
<1>2. CASE Create \/ WriteTarget \/ WriteFile \/ WriteFails \/ WriteUpdate \/ TruncateFile
  <2>1. UNCHANGED <<eng, remote>> /\ clock' \in {clock, clock + 1}
    BY ZenonT(60), <1>2 DEF Create, WriteTarget, WriteFile, WriteFails, WriteUpdate, TruncateFile
  <2> QED
    BY <1>0, <2>1, RemoteSame
<1>3. CASE FlushRead \/ FlushIgnored \/ FlushSave \/ RetryRead \/ RetrySave \/ Discard
  <2>1. UNCHANGED <<eng, remote>> /\ clock' \in {clock, clock + 1}
    BY ZenonT(60), <1>3 DEF FlushRead, FlushIgnored, FlushSave, RetryRead, RetrySave, Discard
  <2> QED
    BY <1>0, <2>1, RemoteSame
<1>4. CASE CrashAndResume
  BY <1>0, <1>4, RemoteLess DEF CrashAndResume
<1>5. CASE UNCHANGED vars
  BY <1>0, <1>5, RemoteSame DEF vars
<1> QED
  BY ZenonT(60), <1>1, <1>2, <1>3, <1>4, <1>5, RemoteEngine DEF Next, UserStep

\* Whatever fails and whenever the process stops, the path never has two remote
\* files under its final name, and the engine switches from exactly the entries
\* that are there (TargetIndex.prepare, replaceUploadedFile).
THEOREM OneRemoteFile == Spec => []RemoteInv
<1>1. Init => RemoteInv
  BY RemoteInit
<1> QED
  BY <1>1, RemoteNext, TypeCorrect, PTL DEF Spec

=============================================================================
