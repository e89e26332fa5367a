----------------------- MODULE UploadGenerationProofs -----------------------
(***************************************************************************)
(* Type correctness of UploadGeneration, and the discipline of its claims, *)
(* for every value of the constants.                                       *)
(*                                                                         *)
(* When the write path puts bytes into a staging file, nothing in          *)
(* WriteFile says that no engine is streaming them: the decision was taken *)
(* earlier, from a copy of the record, and the claim may fall after it.    *)
(* ClaimInv carries the decision to the write.                             *)
(***************************************************************************)
EXTENDS UploadGeneration, TLAPS

-----------------------------------------------------------------------------
(* Operators.                                                              *)

\* The empty content is one.
LEMMA EmptyContent == <<>> \in Content
BY BoundsAssumption DEF Content

\* WriteStagingAt of one block within the bound yields content, no shorter, that
\* differs at that block only.
LEMMA PatchContent ==
  ASSUME NEW c \in Content, NEW off \in 0 .. MaxSize - 1, NEW v \in 0 .. MaxClock
  PROVE  /\ Patch(c, off, v) \in Content
         /\ Len(Patch(c, off, v)) >= Len(c) /\ Len(Patch(c, off, v)) > off
         /\ \A i \in 1 .. Len(c) : i # off + 1 => Patch(c, off, v)[i] = c[i]
BY BoundsAssumption DEF Content, Patch, Larger, Hole

\* TruncateStaging within the bound yields content of that size.
LEMMA ResizeContent ==
  ASSUME NEW c \in Content, NEW n \in 0 .. MaxSize
  PROVE  Resize(c, n) \in Content /\ Len(Resize(c, n)) = n
BY BoundsAssumption DEF Content, Resize, Hole

\* The bytes an upload publishes are content.
LEMMA PrefixContent ==
  ASSUME NEW c \in Content, NEW n \in 0 .. MaxSize, n <= Len(c)
  PROVE  Prefix(c, n) \in Content
BY SMTT(60), BoundsAssumption DEF Content, Prefix

\* Prefixes of the whole length, and of content that is patched beyond them.
LEMMA PrefixWhole ==
  ASSUME NEW c \in Content, NEW n \in Nat, n = Len(c)
  PROVE  Prefix(c, n) = c
BY DEF Prefix, Content

LEMMA PrefixPatch ==
  ASSUME NEW c \in Content, NEW n \in Nat, NEW off \in Nat, NEW v \in 0 .. MaxClock, n <= Len(c),
         n <= off, off < MaxSize
  PROVE  /\ n <= Len(Patch(c, off, v)) /\ Prefix(Patch(c, off, v), n) = Prefix(c, n)
         /\ Len(Patch(c, off, v)) = Larger(Len(c), off + 1)
<1>1. Patch(c, off, v) \in Content /\ Len(Patch(c, off, v)) >= Len(c)
      /\ \A i \in 1 .. Len(c) : i # off + 1 => Patch(c, off, v)[i] = c[i]
  BY PatchContent, BoundsAssumption
<1>2. Len(Patch(c, off, v)) = Larger(Len(c), off + 1)
  BY DEF Patch, Larger, Content
<1>3. Len(Patch(c, off, v)) \in Nat /\ Len(c) \in Nat
  BY <1>1 DEF Content
<1>4. n <= Len(Patch(c, off, v))
  BY <1>1, <1>3
<1>5. \A i \in 1 .. n : Patch(c, off, v)[i] = c[i]
  BY <1>1, <1>3
<1> DEFINE p == Patch(c, off, v)
<1> HIDE DEF p
<1>6. p \in Seq(0 .. MaxClock) /\ c \in Seq(0 .. MaxClock) /\ n <= Len(p) /\ \A i \in 1 .. n : p[i] = c[i]
  BY <1>1, <1>4, <1>5 DEF Content, p
<1>7. SubSeq(p, 1, n) = [i \in 1 .. n |-> p[i]] /\ SubSeq(c, 1, n) = [i \in 1 .. n |-> c[i]]
  BY <1>6
<1> QED
  BY ZenonT(60), <1>2, <1>4, <1>6, <1>7 DEF Prefix, p

\* A directory that stored content keeps doing so when a file is stored or removed.
LEMMA PutDrop ==
  ASSUME NEW f, NEW k, NEW v
  PROVE  /\ DOMAIN Put(f, k, v) = DOMAIN f \cup {k}
         /\ Put(f, k, v)[k] = v
         /\ \A x \in DOMAIN f : x # k => Put(f, k, v)[x] = f[x]
         /\ DOMAIN Drop(f, k) = DOMAIN f \ {k}
         /\ \A x \in DOMAIN f : x # k => Drop(f, k)[x] = f[x]
BY DEF Put, Drop

-----------------------------------------------------------------------------
(* Type correctness.                                                       *)

\* The initial states are well typed.
LEMMA TypeInit == Init => TypeOK
<1> SUFFICES ASSUME Init PROVE TypeOK
  OBVIOUS
<1>1. NoRec \in Record
  BY BoundsAssumption DEF NoRec, Record, NoRepl
<1>2. <<1>> \in Content
  BY BoundsAssumption DEF Content
<1>3. TypeStore
  BY <1>1, EmptyContent, BoundsAssumption DEF Init, TypeStore, NoTrk, Fids, Tracker
<1>4. TypeActors
  BY <1>1, BoundsAssumption DEF Init, TypeActors, NoEng, NoWr, EnginePCs, Engine, Writer
<1>5. TypeWorld
  BY <1>2, BoundsAssumption DEF Init, TypeWorld
<1>6. TypeHistory
  BY ZenonT(60), <1>2, EmptyContent, BoundsAssumption DEF Init, TypeHistory
<1> QED
  BY <1>3, <1>4, <1>5, <1>6 DEF TypeOK

\* The constant records are of their types.
LEMMA NoType == NoRec \in Record /\ NoWr \in Writer /\ NoEng \in Engine /\ NoTrk \in Tracker
<1>1. NoRec \in Record
  BY BoundsAssumption DEF Record, NoRec, NoRepl
<1> QED
  BY <1>1, EmptyContent, BoundsAssumption
     DEF NoWr, Writer, NoEng, Engine, EnginePCs, NoTrk, Tracker

\* A new generation is mutable, unclaimed and has no replacement candidate.
LEMMA NewRecType ==
  ASSUME NEW f \in 0 .. MaxFid, NEW n \in 0 .. MaxSize, NEW t \in 0 .. MaxClock
  PROVE  /\ NewRec(f, n, t) \in Record
         /\ NewRec(f, n, t).fid = f /\ NewRec(f, n, t).size = n
         /\ NewRec(f, n, t).stamp = t /\ ~NewRec(f, n, t).frozen
<1>1. NewRec(f, n, t) \in Record
  BY ZenonT(60), NoType DEF Record, NewRec
<1>2. NewRec(f, n, t).fid = f /\ NewRec(f, n, t).size = n /\ NewRec(f, n, t).stamp = t
  BY NoType DEF Record, NewRec
<1>3. NewRec(f, n, t).frozen = NoRec.frozen
  BY NoType DEF Record, NewRec
<1> QED
  BY <1>1, <1>2, <1>3 DEF NoRec

\* The fields of a record, and the record with a new stamp, have their types.
LEMMA RecordType ==
  ASSUME NEW r \in Record
  PROVE  /\ r.fid \in 0 .. MaxFid /\ r.size \in 0 .. MaxSize /\ r.stamp \in 0 .. MaxClock
         /\ r.frozen \in BOOLEAN /\ r.started \in BOOLEAN /\ r.fail \in BOOLEAN
         /\ r.repl.id \in 0 .. MaxClock /\ r.repl.size \in 0 .. MaxSize
         /\ r.hash \subseteq Content
         /\ Journaled(r) \in Record
BY ZenonT(60) DEF Record, Journaled

\* The record copies the engine and the write path hold are records.
LEMMA ActorType ==
  ASSUME TypeActors
  PROVE  /\ eng.rec \in Record /\ eng.next \in Record /\ eng.hash \subseteq Content
         /\ eng.ent \in 0 .. MaxClock /\ eng.existing \subseteq 1 .. MaxClock
         /\ eng.perm \in BOOLEAN
         /\ wr.rec \in Record /\ wr.new \in Record /\ wr.at \in 0 .. MaxSize
BY DEF TypeActors, Engine, Writer

\* RemoveStagingIfUnreferenced never removes the staging file of the record.
LEMMA UnreferencedFiles ==
  ASSUME NEW fs, NEW f, NEW r
  PROVE  /\ DOMAIN Unreferenced(fs, f, r) \subseteq DOMAIN fs
         /\ r.fid \in DOMAIN fs => r.fid \in DOMAIN Unreferenced(fs, f, r)
         /\ \A x \in DOMAIN Unreferenced(fs, f, r) : Unreferenced(fs, f, r)[x] = fs[x]
BY DEF Unreferenced, Drop

\* Neither does a queue entry that is displaced.
LEMMA DisplacedFiles ==
  ASSUME NEW fs, NEW q, NEW f, NEW r
  PROVE  /\ DOMAIN Displaced(fs, q, f, r) \subseteq DOMAIN fs
         /\ r.fid \in DOMAIN fs => r.fid \in DOMAIN Displaced(fs, q, f, r)
         /\ \A x \in DOMAIN Displaced(fs, q, f, r) : Displaced(fs, q, f, r)[x] = fs[x]
BY UnreferencedFiles DEF Displaced

\* The next stamp is within the bound.
LEMMA NextStamp ==
  ASSUME TypeWorld, Tick
  PROVE  clock + 1 \in 0 .. MaxClock /\ clock + 1 \in 1 .. MaxClock
BY BoundsAssumption DEF TypeWorld, Tick

\* The next fid is within the bound.
LEMMA NextFid ==
  ASSUME TypeWorld, nfid < MaxFid
  PROVE  nfid + 1 \in Fids
BY BoundsAssumption DEF TypeWorld, Fids

\* What is at most b is at most its successor.
LEMMA LeqNext ==
  ASSUME NEW a \in Nat, NEW b \in Nat, a <= b
  PROVE  a <= b + 1 /\ b + 1 <= b + 1
OBVIOUS

\* The types of the counters make them natural numbers.
LEMMA CountersNat ==
  ASSUME TypeWorld
  PROVE  clock \in Nat /\ nfid \in Nat
BY BoundsAssumption DEF TypeWorld

\* Every step keeps the state well typed.
LEMMA TypeNext == TypeOK /\ [Next]_vars => TypeOK'
<1> SUFFICES ASSUME TypeOK, [Next]_vars PROVE TypeOK'
  OBVIOUS
<1>0. TypeStore /\ TypeActors /\ TypeWorld /\ TypeHistory
  BY DEF TypeOK
<1> USE BoundsAssumption, <1>0
<1>1. CASE Create
  <2>1. clock + 1 \in 1 .. MaxClock /\ nfid + 1 \in Fids
    BY SMTT(60), <1>1, NextStamp DEF Create, TypeWorld, Fids
  <2>2. NewRec(nfid + 1, 0, clock + 1) \in Record
    BY <2>1, NewRecType DEF Fids
  <2>3. DOMAIN file' \subseteq Fids /\ \A f \in DOMAIN file' : file'[f] \in Content
    BY <1>1, <2>1, EmptyContent DEF Create, TypeStore, Put, Drop
  <2>4. trk' \in [Fids -> Tracker]
    BY ZenonT(60), <1>1, NoType DEF Create, TypeStore, Tracker
  <2>5. TypeStore'
    BY ZenonT(60), <1>1, <2>2, <2>3, <2>4 DEF Create, TypeStore
  <2>6. TypeActors'
    BY <1>1 DEF Create, TypeActors
  <2>7. TypeWorld'
    BY SMTT(60), <1>1, <2>1 DEF Create, TypeWorld, Fids
  <2>8. TypeHistory'
    BY <1>1, EmptyContent DEF Create, TypeHistory
  <2> QED
    BY <2>5, <2>6, <2>7, <2>8 DEF TypeOK
<1>2. ASSUME NEW op \in {"write", "truncate"}, NEW n \in 0 .. MaxSize,
             op = "write" => n < MaxSize, OpenForWrite(op, n)
      PROVE  TypeOK'
  <2>1. [NoWr EXCEPT !.pc = "read", !.op = op, !.rec = rec, !.at = n] \in Writer
    BY ZenonT(60), NoType DEF Writer, TypeStore
  <2>2. TypeActors'
    BY <1>2, <2>1, NoType DEF OpenForWrite, TypeActors, Writer
  <2> QED
    BY <1>2, <2>2
       DEF OpenForWrite, TypeOK, TypeStore, TypeWorld, TypeHistory, store, history
<1>20. ASSUME NEW op \in {"write", "truncate"}, NEW n \in 0 .. MaxSize,
             op = "write" => n < MaxSize, StageForWrite(op, n)
      PROVE  TypeOK'
  <2>1. clock + 1 \in 1 .. MaxClock /\ nfid + 1 \in Fids
    BY ZenonT(60), <1>20, NextStamp, NextFid DEF StageForWrite
  <2>2. PICK c \in Content :
          LET r == NewRec(nfid + 1, Len(c), clock + 1) IN
          /\ rec' = r /\ disk' = r /\ file' = Put(file, nfid + 1, c)
          /\ trk' = [trk EXCEPT ![nfid + 1] = [on |-> TRUE, dirty |-> FALSE, fed |-> c]]
          /\ wr' = [NoWr EXCEPT !.pc = "read", !.op = op, !.rec = r, !.at = n]
          /\ logical' = IF promised = {} THEN c ELSE logical
    <3>1. FinalData \subseteq Content
      BY DEF FinalData, Finals, TypeWorld
    <3> QED
      BY ZenonT(60), <1>20, <3>1, EmptyContent DEF StageForWrite
  <2>3. rec' \in Record /\ Present(rec')
    <3>1. Len(c) \in 0 .. MaxSize /\ nfid + 1 \in 0 .. MaxFid /\ nfid + 1 # 0
          /\ clock + 1 \in 0 .. MaxClock
      BY <2>1 DEF Content, Fids
    <3> QED
      BY SMTT(60), <2>2, <3>1, NewRecType DEF Present
  <2>4. TypeStore'
    BY <1>20, <2>1, <2>2, <2>3 DEF StageForWrite, TypeStore, Put, Tracker
  <2>5. [NoWr EXCEPT !.pc = "read", !.op = op, !.rec = rec', !.at = n] \in Writer
    BY ZenonT(60), <2>3, NoType DEF Writer
  <2>6. TypeActors'
    BY ZenonT(60), <1>20, <2>2, <2>3, <2>5, NoType DEF StageForWrite, TypeActors, Writer
  <2>7. TypeWorld'
    BY SMTT(60), <1>20, <2>1 DEF StageForWrite, TypeWorld, Fids
  <2>8. TypeHistory'
    BY <1>20, <2>2 DEF StageForWrite, TypeHistory
  <2> QED
    BY <2>4, <2>6, <2>7, <2>8 DEF TypeOK
<1>3. CASE WriteTarget
  <2>1. TypeHistory'
    BY <1>3 DEF WriteTarget, TypeHistory
  <2>2. CASE InPlace
    <3>1. TypeActors'
      BY <1>3, <2>2 DEF WriteTarget, TypeActors, Writer
    <3> QED
      BY <1>3, <2>1, <2>2, <3>1 DEF WriteTarget, TypeOK, TypeStore, TypeWorld
  <2>3. CASE ~InPlace /\ Reusable
    <3>1. clock + 1 \in 1 .. MaxClock /\ clock + 1 \in 0 .. MaxClock
      BY <1>3, <2>3, NextStamp DEF WriteTarget
    <3>2. [rec EXCEPT !.frozen = FALSE, !.hash = {}, !.stamp = clock + 1] \in Record
      BY ZenonT(60), <3>1 DEF Record, TypeStore
    <3>3. TypeStore'
      BY <1>3, <2>3, <3>2 DEF WriteTarget, TypeStore
    <3>4. wr' \in Writer /\ wr'.op = wr.op /\ wr'.at = wr.at /\ wr'.pc = "target"
          /\ wr'.rec.fid = wr.rec.fid
      <4>1. wr' = [wr EXCEPT !.pc = "target", !.rec = rec'] /\ rec' \in Record
        BY ZenonT(60), <1>3, <2>3, <3>2 DEF WriteTarget
      <4>2. rec'.fid = rec.fid
        BY ZenonT(60), <1>3, <2>3 DEF WriteTarget, TypeStore, Record
      <4> QED
        BY ZenonT(60), <2>3, <4>1, <4>2 DEF TypeActors, Writer, Reusable
    <3>6. TypeActors'
      BY <1>3, <3>4 DEF WriteTarget, TypeActors, Present
    <3>5. TypeWorld'
      BY <1>3, <2>3, <3>1 DEF WriteTarget, TypeWorld
    <3> QED
      BY <2>1, <3>3, <3>5, <3>6 DEF TypeOK
  <2>4. CASE ~InPlace /\ ~Reusable
    <3>1. clock + 1 \in 1 .. MaxClock /\ nfid + 1 \in Fids
      BY ZenonT(60), <1>3, <2>4, NextStamp, NextFid DEF WriteTarget
    <3>2. PICK c \in Content :
            LET r == NewRec(nfid + 1, Len(c), clock + 1) IN
            /\ rec' = r /\ disk' = r /\ file' = Put(file, nfid + 1, c)
            /\ trk' = [trk EXCEPT ![nfid + 1] = [on |-> TRUE, dirty |-> FALSE, fed |-> c]]
            /\ wr' = [wr EXCEPT !.pc = "target", !.rec = r]
      BY ZenonT(60), <1>3, <2>4, EmptyContent DEF WriteTarget, TypeStore
    <3>3. rec' \in Record /\ Present(rec')
      BY SMTT(60), <3>1, <3>2, NewRecType DEF Content, Fids, Present
    <3>4. TypeStore'
      BY ZenonT(60), <1>3, <2>4, <3>1, <3>2, <3>3 DEF WriteTarget, TypeStore, Put, Tracker
    <3>5. TypeActors'
      <4>1. wr' \in Writer /\ wr'.op = wr.op /\ wr'.at = wr.at /\ wr'.pc = "target"
            /\ wr'.rec = rec'
        BY ZenonT(60), <3>2, <3>3 DEF TypeActors, Writer
      <4> QED
        BY <1>3, <3>3, <4>1 DEF WriteTarget, TypeActors
    <3>6. TypeWorld'
      BY SMTT(60), <1>3, <2>4, <3>1 DEF WriteTarget, TypeWorld, Fids
    <3> QED
      BY ZenonT(60), <2>1, <3>4, <3>5, <3>6 DEF TypeOK
  <2> QED
    BY <2>2, <2>3, <2>4
<1>4. CASE WriteFile
  <2> DEFINE f == wr.rec.fid
             c == IF f \in DOMAIN file THEN file[f] ELSE <<>>
  <2>1. wr.at \in 0 .. MaxSize - 1 /\ clock + 1 \in 0 .. MaxClock
    BY <1>4, NextStamp, ActorType DEF WriteFile, TypeActors
  <2>2. Patch(c, wr.at, clock + 1) \in Content /\ logical' \in Content
    BY ZenonT(60), <1>4, <2>1, PatchContent, EmptyContent DEF WriteFile, TypeStore, TypeHistory
  <2>3. f \in Fids /\ trk[f] \in Tracker
    BY <1>4, ActorType, RecordType DEF WriteFile, TypeActors, TypeStore, Fids, Present
  <2>4. HashWrite(wr.rec, wr.at, clock + 1) \in Tracker
    <3>1. <<clock + 1>> \in Content
      BY <2>1 DEF Content
    <3>2. trk[f].fed \in Content
      BY <2>3 DEF Tracker
    <3>3. wr.at = Len(trk[f].fed) => Append(trk[f].fed, clock + 1) \in Content
      BY SMTT(60), <2>1, <3>2 DEF Content
    <3>4. /\ [trk[f] EXCEPT !.dirty = TRUE] \in Tracker
          /\ wr.at = Len(trk[f].fed) =>
               [trk[f] EXCEPT !.fed = Append(trk[f].fed, clock + 1)] \in Tracker
          /\ [on |-> TRUE, dirty |-> FALSE, fed |-> <<clock + 1>>] \in Tracker
      BY ZenonT(60), <2>3, <3>1, <3>3 DEF Tracker
    <3> QED
      BY <3>4, NoType DEF HashWrite
  <2>5. file' = Put(file, f, Patch(c, wr.at, clock + 1))
    BY ZenonT(60), <1>4 DEF WriteFile
  <2>6. TypeStore'
    BY <1>4, <2>2, <2>3, <2>4, <2>5 DEF WriteFile, TypeStore, Put
  <2>7. TypeActors'
    BY <1>4 DEF WriteFile, TypeActors, Writer
  <2>8. TypeWorld' /\ TypeHistory'
    BY ZenonT(60), <1>4, <2>2 DEF WriteFile, TypeWorld, TypeHistory
  <2> QED
    BY <2>6, <2>7, <2>8 DEF TypeOK
<1>5. CASE WriteUpdate
  <2>1. wr.rec \in Record /\ Larger(wr.rec.size, wr.at + 1) \in 0 .. MaxSize
    BY <1>5, ActorType, RecordType DEF WriteUpdate, TypeActors, Larger
  <2>2. clock + 1 \in 0 .. MaxClock
    BY <1>5, NextStamp DEF WriteUpdate
  <2>3. [wr.rec EXCEPT !.size = Larger(wr.rec.size, wr.at + 1), !.stamp = clock + 1] \in Record
    BY ZenonT(60), <2>1, <2>2 DEF Record
  <2>4. TypeStore'
    BY <1>5, <2>3 DEF WriteUpdate, TypeStore
  <2>5. TypeActors'
    BY <1>5, NoType DEF WriteUpdate, TypeActors, NoWr
  <2>6. TypeWorld' /\ TypeHistory'
    BY <1>5, <2>2 DEF WriteUpdate, TypeWorld, TypeHistory
  <2> QED
    BY <2>4, <2>5, <2>6 DEF TypeOK
<1>6. CASE TruncateFile
  <2> DEFINE f == wr.rec.fid
             c == IF f \in DOMAIN file THEN file[f] ELSE <<>>
             r == [wr.rec EXCEPT !.size = wr.at, !.stamp = clock + 1]
  <2>1. wr.at \in 0 .. MaxSize /\ wr.rec \in Record
    BY ActorType
  <2>2. Resize(c, wr.at) \in Content /\ Resize(logical, wr.at) \in Content
    BY ZenonT(60), <2>1, ResizeContent, EmptyContent DEF TypeStore, TypeHistory
  <2>3. f \in Fids
    BY <1>6, <2>1, RecordType DEF TruncateFile, TypeActors, Fids, Present
  <2>4. [trk EXCEPT ![f] = HashDirty(f)] \in [Fids -> Tracker]
    BY <2>3 DEF TypeStore, HashDirty, Tracker
  <2>5. /\ file' = Put(file, f, Resize(c, wr.at)) /\ trk' = [trk EXCEPT ![f] = HashDirty(f)]
        /\ sched' = sched
    BY <1>6 DEF TruncateFile
  <2>6. rec' \in Record /\ disk' \in Record /\ clock' \in 1 .. MaxClock /\ faults' \in 0 .. MaxFaults
    <3>1. CASE UNCHANGED <<rec, disk, clock>>
      BY SMTT(60), <1>6, <3>1, BoundsAssumption DEF TruncateFile, Faulty, TypeStore, TypeWorld
    <3>2. CASE ~UNCHANGED <<rec, disk, clock>>
      <4>1. rec' = r /\ disk' = Journaled(r) /\ clock' = clock + 1 /\ Tick /\ faults' = faults
        BY <1>6, <3>2 DEF TruncateFile
      <4>2. clock + 1 \in 0 .. MaxClock /\ clock + 1 \in 1 .. MaxClock
        BY <4>1, NextStamp
      <4>3. r \in Record
        BY ZenonT(60), <2>1, <4>2 DEF Record
      <4> QED
        BY <4>1, <4>2, <4>3, RecordType DEF TypeWorld
    <3> QED
      BY <3>1, <3>2
  <2>7. TypeStore'
    BY ZenonT(60), <2>2, <2>3, <2>4, <2>5, <2>6 DEF TypeStore, Put
  <2>8. TypeActors'
    BY <1>6, NoType DEF TruncateFile, TypeActors, NoWr
  <2>9. TypeWorld' /\ TypeHistory'
    BY ZenonT(60), <1>6, <2>2, <2>6 DEF TruncateFile, TypeWorld, TypeHistory
  <2> QED
    BY <2>7, <2>8, <2>9 DEF TypeOK
<1>39. CASE WriteFails
  <2>1. faults' \in 0 .. MaxFaults
    BY <1>39, BoundsAssumption DEF WriteFails, Faulty, TypeWorld
  <2>2. TypeActors'
    BY <1>39, NoType DEF WriteFails, TypeActors, NoWr
  <2> QED
    BY <1>39, <2>1, <2>2
    DEF WriteFails, TypeOK, TypeStore, TypeWorld, TypeHistory, store, history
<1>7. CASE FlushRead
  <2> DEFINE n == Len(file[rec.fid])
             h == HashSnapshot(rec.fid, n)
             r == [rec EXCEPT !.size = n, !.frozen = TRUE, !.hash = IF h = {} THEN @ ELSE h]
  <2>1. rec.fid \in Fids /\ n \in 0 .. MaxSize
    BY <1>7 DEF FlushRead, TypeStore, Content
  <2>2. h \subseteq Content
    BY SMTT(60), <2>1 DEF HashSnapshot, TypeStore, Tracker
  <2>3. r \in Record
    BY ZenonT(60), <2>1, <2>2 DEF TypeStore, Record
  <2>4. wr' = [NoWr EXCEPT !.pc = "flush", !.op = "flush", !.rec = rec, !.new = r]
    BY <1>7 DEF FlushRead
  <2>5. wr' \in Writer /\ wr'.op = "flush" /\ wr'.pc = "flush" /\ wr'.rec = rec
    BY ZenonT(60), <2>3, <2>4, NoType DEF TypeStore, Writer
  <2>6. TypeActors'
    BY ZenonT(60), <1>7, <2>5 DEF FlushRead, TypeActors
  <2> QED
    BY <1>7, <2>6 DEF FlushRead, TypeOK, TypeStore, TypeWorld, TypeHistory, store, history
<1>8. CASE FlushIgnored
  BY <1>8 DEF FlushIgnored, TypeOK, TypeStore, TypeActors, TypeWorld, TypeHistory, store
<1>9. CASE FlushSave
  <2>1. TypeActors'
    BY <1>9, NoType DEF FlushSave, TypeActors, NoWr
  <2>2. CASE /\ Tick /\ clock' = clock + 1 /\ UNCHANGED faults
             /\ rec' = [wr.new EXCEPT !.stamp = clock + 1]
             /\ disk' = Journaled(rec') /\ sched' = rec'.fid
             /\ file' = Displaced(file, sched, rec'.fid, rec')
             /\ promised' = {logical} /\ sealed' = sealed \cup {logical}
             /\ raced' \in BOOLEAN
    <3>1. clock + 1 \in 0 .. MaxClock /\ wr.new \in Record
      BY <2>2, NextStamp, ActorType
    <3>2. rec' \in Record
      BY <2>2, <3>1 DEF Record
    <3>3. DOMAIN file' \subseteq Fids /\ \A f \in DOMAIN file' : file'[f] \in Content
      BY SMTT(60), <2>2, DisplacedFiles DEF TypeStore
    <3>4. TypeStore'
      BY ZenonT(60), <1>9, <2>2, <3>2, <3>3, RecordType DEF FlushSave, TypeStore
    <3>5. TypeWorld' /\ TypeHistory'
      BY <1>9, <2>2, <3>1 DEF FlushSave, TypeWorld, TypeHistory
    <3> QED
      BY <2>1, <3>4, <3>5 DEF TypeOK
  <2>3. CASE /\ Faulty /\ faults' = faults + 1
             /\ UNCHANGED <<rec, disk, file, sched, promised, sealed, raced, clock>>
    BY SMTT(60), <1>9, <2>1, <2>3 DEF FlushSave, Faulty, TypeOK, TypeStore, TypeWorld, TypeHistory
  <2> QED
    BY ZenonT(60), <1>9, <2>2, <2>3 DEF FlushSave
<1>10. CASE RetryRead
  BY <1>10 DEF RetryRead, TypeOK, TypeStore, TypeActors, TypeWorld, TypeHistory, store, history
<1>11. CASE RetrySave
  <2>1. clock + 1 \in 0 .. MaxClock
    BY <1>11, NextStamp DEF RetrySave
  <2>2. [rty EXCEPT !.fail = FALSE, !.stamp = clock + 1] \in Record
    BY ZenonT(60), <2>1 DEF TypeActors, Record
  <2>3. TypeStore'
    BY ZenonT(60), <1>11, <2>2, RecordType DEF RetrySave, TypeStore
  <2>4. TypeActors'
    BY <1>11, NoType DEF RetrySave, TypeActors
  <2>5. TypeWorld' /\ TypeHistory'
    BY SMTT(60), <1>11, <2>1 DEF RetrySave, TypeWorld, TypeHistory
  <2> QED
    BY <2>3, <2>4, <2>5 DEF TypeOK
<1>12. CASE Discard
  <2>1. FinalData \subseteq Content
    BY ZenonT(60) DEF FinalData, Finals, TypeWorld
  <2>2. TypeStore'
    <3>1. trk' \in [Fids -> Tracker]
      BY ZenonT(60), <1>12, NoType DEF Discard, TypeStore
    <3>2. DOMAIN file' \subseteq Fids /\ \A f \in DOMAIN file' : file'[f] \in Content
      BY <1>12 DEF Discard, TypeStore, Drop
    <3> QED
      BY SMTT(60), <1>12, <3>1, <3>2, NoType DEF Discard, TypeStore
  <2>3. TypeHistory'
    BY ZenonT(60), <1>12, <2>1, EmptyContent DEF Discard, TypeHistory
  <2> QED
    BY <1>12, <2>2, <2>3 DEF Discard, TypeOK, TypeActors, TypeWorld
<1>13. ASSUME NEW fs, DOMAIN fs \subseteq Fids, \A f \in DOMAIN fs : fs[f] \in Content,
              RequeueIfFrozen(fs)
       PROVE  /\ sched' \in 0 .. MaxFid
              /\ DOMAIN file' \subseteq Fids /\ \A f \in DOMAIN file' : file'[f] \in Content
  BY <1>13, DisplacedFiles, RecordType DEF RequeueIfFrozen, TypeStore
<1>14. /\ DOMAIN Unreferenced(file, eng.rec.fid, rec) \subseteq Fids
       /\ \A f \in DOMAIN Unreferenced(file, eng.rec.fid, rec) :
            Unreferenced(file, eng.rec.fid, rec)[f] \in Content
  BY UnreferencedFiles DEF TypeStore
<1>15. ASSUME Released PROVE eng' \in Engine
  BY <1>15, NoType DEF Released
<1>16. CASE Receive
  <2>1. [NoEng EXCEPT !.pc = "recv", !.rec = rec] \in Engine
    BY ZenonT(60), NoType DEF TypeStore, Engine, EnginePCs
  <2>2. TypeActors'
    BY <1>16, <2>1 DEF Receive, TypeActors
  <2> QED
    BY <1>16, <2>2 DEF Receive, TypeOK, TypeStore, TypeWorld, TypeHistory, history
<1>17. CASE Claim
  <2>1. CASE Same(rec, eng.rec)
    <3>1. rec' = [rec EXCEPT !.started = TRUE] /\ eng' = [eng EXCEPT !.pc = "claimed", !.rec = rec']
      BY <1>17, <2>1 DEF Claim
    <3>2. rec' \in Record
      BY ZenonT(60), <3>1 DEF TypeStore, Record
    <3>3. eng' \in Engine
      BY ZenonT(60), <3>1, <3>2 DEF TypeActors, Engine, EnginePCs
    <3> QED
      BY <1>17, <2>1, <3>2, <3>3
         DEF Claim, TypeOK, TypeStore, TypeActors, TypeWorld, TypeHistory, history
  <2>2. CASE ~Same(rec, eng.rec)
    BY ZenonT(60), <1>17, <2>2, <1>13, <1>14, <1>15
       DEF Claim, TypeOK, TypeStore, TypeActors, TypeWorld, TypeHistory, history
  <2> QED
    BY <2>1, <2>2
<1>18. CASE Snapshot
  <2>1. eng' \in Engine
    <3> DEFINE f == eng.rec.fid
               n == eng.rec.size
               h == IF eng.rec.hash # {} THEN eng.rec.hash ELSE HashSnapshot(f, n)
               g == IF h # {} THEN h ELSE {Prefix(file[f], n)}
    <3>1. CASE f \in DOMAIN file /\ Len(file[f]) >= n
      <4>1. n \in 0 .. MaxSize /\ eng.rec.hash \subseteq Content
        BY ZenonT(60), ActorType, RecordType
      <4>2. HashSnapshot(f, n) \subseteq Content /\ Prefix(file[f], n) \in Content
        BY ZenonT(60), <3>1, <4>1, PrefixContent DEF HashSnapshot, TypeStore, Tracker
      <4>3. g \subseteq Content
        BY <4>1, <4>2
      <4>4. eng' = [eng EXCEPT !.pc = "snapped", !.hash = g]
        BY <1>18, <3>1 DEF Snapshot
      <4> HIDE DEF g
      <4> QED
        BY ZenonT(60), <4>3, <4>4 DEF TypeActors, Engine, EnginePCs
    <3>2. CASE ~(f \in DOMAIN file /\ Len(file[f]) >= n)
      <4>1. eng' = [eng EXCEPT !.pc = "fail", !.perm = FALSE]
        BY <1>18, <3>2 DEF Snapshot
      <4> QED
        BY ZenonT(60), <4>1 DEF TypeActors, Engine, EnginePCs
    <3> QED
      BY <3>1, <3>2
  <2> QED
    BY ZenonT(60), <1>18, <2>1
       DEF Snapshot, TypeOK, TypeStore, TypeActors, TypeWorld, TypeHistory, store, history
<1>19. CASE Recheck
  <2>1. CASE Same(rec, eng.rec)
    <3>1. eng' \in Engine
      BY ZenonT(60), <1>19, <2>1 DEF Recheck, TypeActors, Engine, EnginePCs
    <3> QED
      BY <1>19, <2>1, <3>1
         DEF Recheck, TypeOK, TypeStore, TypeActors, TypeWorld, TypeHistory, history
  <2>2. CASE ~Same(rec, eng.rec)
    BY ZenonT(60), <1>19, <2>2, <1>13, <1>14, <1>15
       DEF Recheck, TypeOK, TypeStore, TypeActors, TypeWorld, TypeHistory, history
  <2> QED
    BY <2>1, <2>2
<1>21. ASSUME NEW b \in BOOLEAN, Fails(b)
       PROVE  eng' \in Engine /\ faults' \in 0 .. MaxFaults
  <2>1. eng' \in Engine
    BY ZenonT(60), <1>21 DEF Fails, TypeActors, Engine, EnginePCs
  <2> QED
    BY <1>21, <2>1 DEF Fails, Faulty, TypeWorld
<1>22. ASSUME NEW S, remote' = [i \in DOMAIN remote \ S |-> remote[i]]
       PROVE  /\ DOMAIN remote' \subseteq 1 .. MaxClock
              /\ \A i \in DOMAIN remote' : remote'[i] \in [name : 0 .. MaxFid, data : Content]
  BY ZenonT(60), <1>22 DEF TypeWorld
<1>23. CASE Prepare
  <2>1. eng' \in Engine /\ faults' \in 0 .. MaxFaults
    <3> DEFINE r == eng.rec.repl
               existing == Finals \ {r.id}
    <3>1. ASSUME NEW pc \in {"put", "check", "fail"}, NEW sw \in BOOLEAN,
                 eng' = [eng EXCEPT !.existing = existing, !.swap = sw, !.ent = r.id,
                                    !.perm = TRUE, !.pc = pc]
          PROVE  eng' \in Engine
      <4>1. existing \subseteq 1 .. MaxClock
        BY DEF Finals, TypeWorld
      <4>2. r.id \in 0 .. MaxClock
        BY ActorType, RecordType
      <4> HIDE DEF existing, r
      <4> QED
        BY ZenonT(60), <3>1, <4>1, <4>2 DEF TypeActors, Engine, EnginePCs
    <3> QED
      BY ZenonT(60), <1>23, <3>1, <1>21 DEF Prepare, TypeWorld
  <2>2. /\ DOMAIN remote' \subseteq 1 .. MaxClock
        /\ \A i \in DOMAIN remote' : remote'[i] \in [name : 0 .. MaxFid, data : Content]
    BY ZenonT(60), <1>23, <1>22 DEF Prepare
  <2> QED
    BY <1>23, <2>1, <2>2
       DEF Prepare, TypeOK, TypeStore, TypeActors, TypeWorld, TypeHistory, store, history
<1>24. ASSUME NEW pc \in EnginePCs, eng' = [eng EXCEPT !.pc = pc]
       PROVE  eng' \in Engine
  BY <1>24 DEF TypeActors, Engine
<1>25. CASE PutSource
  <2> DEFINE f == eng.rec.fid
             n == eng.rec.size
             readable == f \in DOMAIN file /\ Len(file[f]) >= n
             entry == [name |-> IF eng.existing = {} THEN 0 ELSE f, data |-> Prefix(file[f], n)]
  <2>1. CASE readable /\ Tick /\ remote' = Put(remote, clock + 1, entry) /\ clock' = clock + 1
             /\ \/ /\ eng' = [eng EXCEPT !.ent = clock + 1,
                                !.pc = IF eng.existing = {} THEN "check" ELSE "record"]
                   /\ UNCHANGED faults
                \/ Fails(FALSE)
    <3>1. clock + 1 \in 1 .. MaxClock /\ clock + 1 \in 0 .. MaxClock
      BY <2>1, NextStamp
    <3>2. entry \in [name : 0 .. MaxFid, data : Content]
      <4>1. f \in 0 .. MaxFid /\ n \in 0 .. MaxSize
        BY ActorType, RecordType
      <4>2. Prefix(file[f], n) \in Content
        BY <2>1, <4>1, PrefixContent DEF TypeStore
      <4> QED
        BY <4>1, <4>2
    <3>3. /\ DOMAIN remote' \subseteq 1 .. MaxClock
          /\ \A i \in DOMAIN remote' : remote'[i] \in [name : 0 .. MaxFid, data : Content]
      <4>1. remote' = Put(remote, clock + 1, entry)
        BY SMTT(60), <2>1
      <4> HIDE DEF entry
      <4> QED
        BY <3>1, <3>2, <4>1 DEF TypeWorld, Put
    <3>4. CASE eng' = [eng EXCEPT !.ent = clock + 1,
                         !.pc = IF eng.existing = {} THEN "check" ELSE "record"]
               /\ UNCHANGED faults
      <4>1. eng' \in Engine
        BY ZenonT(60), <3>1, <3>4 DEF TypeActors, Engine, EnginePCs
      <4> QED
        BY ZenonT(60), <1>25, <2>1, <3>1, <3>3, <3>4, <4>1
           DEF PutSource, TypeOK, TypeStore, TypeActors, TypeWorld, TypeHistory, store, history
    <3>5. CASE Fails(FALSE)
      BY ZenonT(60), <1>25, <2>1, <3>1, <3>3, <3>5, <1>21
         DEF PutSource, TypeOK, TypeStore, TypeActors, TypeWorld, TypeHistory, store, history
    <3> QED
      BY ZenonT(60), <2>1, <3>4, <3>5
  <2>2. CASE (\E b \in BOOLEAN : Fails(b)) /\ UNCHANGED <<remote, clock>>
    BY ZenonT(60), <1>25, <2>2, <1>21
       DEF PutSource, TypeOK, TypeStore, TypeActors, TypeWorld, TypeHistory, store, history
  <2>3. CASE eng' = [eng EXCEPT !.pc = "fail", !.perm = FALSE] /\ UNCHANGED <<remote, clock, faults>>
    <3>1. eng' \in Engine
      BY ZenonT(60), <2>3 DEF TypeActors, Engine, EnginePCs
    <3> QED
      BY ZenonT(60), <1>25, <2>3, <3>1
         DEF PutSource, TypeOK, TypeStore, TypeActors, TypeWorld, TypeHistory, store, history
  <2> QED
    BY ZenonT(60), <1>25, <2>1, <2>2, <2>3 DEF PutSource
<1>26. CASE RecordReplacement
  <2> DEFINE r == [rec EXCEPT !.repl = [id |-> eng.ent, size |-> rec.size], !.stamp = clock + 1]
  <2>1. CASE /\ Tick /\ clock' = clock + 1 /\ UNCHANGED faults
             /\ disk' = Journaled(r) /\ eng' = [eng EXCEPT !.pc = "replM", !.next = r]
    <3>1. clock + 1 \in 0 .. MaxClock /\ eng.ent \in 0 .. MaxClock
      BY <2>1, NextStamp, ActorType
    <3>2. r \in Record
      BY ZenonT(60), <3>1 DEF TypeStore, Record
    <3> HIDE DEF r
    <3>3. eng' \in Engine
      BY ZenonT(60), <2>1, <3>2 DEF TypeActors, Engine, EnginePCs
    <3>4. TypeStore'
      BY ZenonT(60), <1>26, <2>1, <3>2, RecordType DEF RecordReplacement, TypeStore
    <3> QED
      BY <1>26, <2>1, <3>1, <3>3, <3>4
         DEF RecordReplacement, TypeOK, TypeActors, TypeWorld, TypeHistory, history
  <2>2. CASE Fails(FALSE) /\ UNCHANGED <<disk, clock>>
    BY ZenonT(60), <1>26, <2>2, <1>21
       DEF RecordReplacement, TypeOK, TypeStore, TypeActors, TypeWorld, TypeHistory, history
  <2>3. CASE eng' = [eng EXCEPT !.pc = "rollback"] /\ UNCHANGED <<disk, clock, faults>>
    <3>1. eng' \in Engine
      BY ZenonT(60), <2>3, <1>24 DEF EnginePCs
    <3> QED
      BY ZenonT(60), <1>26, <2>3, <3>1
         DEF RecordReplacement, TypeOK, TypeStore, TypeActors, TypeWorld, TypeHistory, history
  <2> QED
    BY ZenonT(60), <1>26, <2>1, <2>2, <2>3 DEF RecordReplacement
<1>27. CASE RecordReplacementApply
  <2>1. eng' \in Engine /\ eng.next \in Record
    BY ZenonT(60), <1>27 DEF RecordReplacementApply, TypeActors, Engine, EnginePCs
  <2> QED
    BY <1>27, <2>1
       DEF RecordReplacementApply, TypeOK, TypeStore, TypeActors, TypeWorld, TypeHistory
<1>28. CASE Check
  <2>1. eng' \in Engine
    BY ZenonT(60), <1>28 DEF Check, TypeActors, Engine, EnginePCs
  <2> QED
    BY ZenonT(60), <1>28, <2>1
       DEF Check, TypeOK, TypeStore, TypeActors, TypeWorld, TypeHistory, store, history
<1>29. CASE Swap
  <2>1. eng' \in Engine /\ faults' \in 0 .. MaxFaults
    <3>1. CASE \E i \in eng.existing : eng' = [eng EXCEPT !.existing = @ \ {i}] /\ UNCHANGED faults
      BY <3>1 DEF TypeActors, TypeWorld, Engine
    <3>2. CASE eng' = [eng EXCEPT !.pc = "commit"] /\ UNCHANGED faults
      BY <3>2, <1>24 DEF TypeWorld, EnginePCs
    <3>3. CASE eng' = [eng EXCEPT !.pc = "fail", !.perm = FALSE] /\ UNCHANGED faults
      BY ZenonT(60), <3>3 DEF TypeActors, TypeWorld, Engine, EnginePCs
    <3>4. CASE \E b \in BOOLEAN : Fails(b)
      BY <3>4, <1>21
    <3> QED
      BY ZenonT(60), <1>29, <3>1, <3>2, <3>3, <3>4 DEF Swap
  <2>2. /\ DOMAIN remote' \subseteq 1 .. MaxClock
        /\ \A i \in DOMAIN remote' : remote'[i] \in [name : 0 .. MaxFid, data : Content]
    <3>1. CASE \E i : remote' = Drop(remote, i)
      BY ZenonT(60), <3>1, <1>22 DEF Drop
    <3>2. CASE eng.ent \in DOMAIN remote /\ remote' = [remote EXCEPT ![eng.ent].name = 0]
      <4>1. remote[eng.ent] \in [name : 0 .. MaxFid, data : Content]
        BY <3>2 DEF TypeWorld
      <4>2. [remote[eng.ent] EXCEPT !.name = 0] \in [name : 0 .. MaxFid, data : Content]
        BY <4>1
      <4> QED
        BY <3>2, <4>2 DEF TypeWorld
    <3>3. CASE UNCHANGED remote
      BY ZenonT(60), <3>3 DEF TypeWorld
    <3> QED
      BY ZenonT(60), <1>29, <3>1, <3>2, <3>3 DEF Swap
  <2> QED
    BY ZenonT(60), <1>29, <2>1, <2>2
       DEF Swap, TypeOK, TypeStore, TypeActors, TypeWorld, TypeHistory, store, history
<1>30. CASE Commit
  <2>1. eng' \in Engine /\ faults' \in 0 .. MaxFaults
    BY <1>30, <1>15, <1>24 DEF Commit, Faulty, TypeWorld, EnginePCs
  <2> QED
    BY ZenonT(60), <1>30, <2>1, NoType
       DEF Commit, TypeOK, TypeStore, TypeActors, TypeWorld, TypeHistory, history
<1>31. CASE CommitApply
  <2>1. eng' \in Engine
    BY ZenonT(60), <1>31, <1>24 DEF CommitApply, EnginePCs
  <2>2. FinalData \subseteq Content
    BY DEF FinalData, Finals, TypeWorld
  <2>3. TypeStore'
    BY ZenonT(60), <1>31, NoType DEF CommitApply, TypeStore, Drop
  <2> QED
    BY ZenonT(60), <1>31, <2>1, <2>2, <2>3 DEF CommitApply, TypeOK, TypeActors, TypeWorld, TypeHistory
<1>32. CASE Sweep
  <2>1. TypeStore'
    <3>1. trk' \in [Fids -> Tracker]
      BY ZenonT(60), <1>32, NoType DEF Sweep, TypeStore
    <3> QED
      BY <1>32, <3>1 DEF Sweep, TypeStore, Drop
  <2> QED
    BY ZenonT(60), <1>32, <2>1, <1>15 DEF Sweep, TypeOK, TypeActors, TypeWorld, TypeHistory, history
<1>33. CASE Rollback
  <2>1. trk' \in [Fids -> Tracker]
    BY ZenonT(60), <1>33, NoType DEF Rollback, TypeStore
  <2>2. TypeStore'
    BY ZenonT(60), <1>33, <2>1, <1>13, <1>14 DEF Rollback, TypeStore
  <2>3. TypeWorld'
    BY <1>33, <1>22 DEF Rollback, TypeWorld, Drop, Faulty
  <2> QED
    BY <1>33, <2>2, <2>3, <1>15 DEF Rollback, TypeOK, TypeActors, TypeHistory, history
<1>34. CASE RecordFailure
  <2> DEFINE r == [rec EXCEPT !.fail = eng.perm, !.stamp = clock + 1]
  <2>1. CASE /\ Tick /\ clock' = clock + 1 /\ UNCHANGED <<file, faults>>
             /\ disk' = Journaled(r) /\ eng' = [eng EXCEPT !.pc = "failM", !.next = r]
    <3>1. clock + 1 \in 0 .. MaxClock /\ eng.perm \in BOOLEAN
      BY <2>1, NextStamp, ActorType
    <3>2. r \in Record
      BY ZenonT(60), <3>1 DEF TypeStore, Record
    <3> HIDE DEF r
    <3>3. eng' \in Engine
      BY ZenonT(60), <2>1, <3>2 DEF TypeActors, Engine, EnginePCs
    <3>4. TypeStore'
      BY ZenonT(60), <1>34, <2>1, <3>2, RecordType DEF RecordFailure, TypeStore
    <3> QED
      BY SMTT(60), <1>34, <2>1, <3>1, <3>3, <3>4
         DEF RecordFailure, TypeOK, TypeActors, TypeWorld, TypeHistory, history
  <2>2. CASE Faulty /\ faults' = faults + 1 /\ Released /\ UNCHANGED <<disk, clock, file>>
    BY SMTT(60), <1>34, <2>2, <1>15
       DEF RecordFailure, Faulty, TypeOK, TypeStore, TypeActors, TypeWorld, TypeHistory, history
  <2>3. CASE /\ file' = Unreferenced(file, eng.rec.fid, rec)
             /\ Released /\ UNCHANGED <<disk, clock, faults>>
    BY ZenonT(60), <1>34, <2>3, <1>14, <1>15
       DEF RecordFailure, TypeOK, TypeStore, TypeActors, TypeWorld, TypeHistory, history
  <2> QED
    BY ZenonT(60), <1>34, <2>1, <2>2, <2>3 DEF RecordFailure
<1>35. CASE RecordFailureApply
  <2>1. /\ sched' \in 0 .. MaxFid
        /\ DOMAIN file' \subseteq Fids /\ \A f \in DOMAIN file' : file'[f] \in Content
    <3>1. eng.next \in Record /\ eng.next.fid \in 0 .. MaxFid
      BY ActorType DEF Record
    <3>2. CASE UNCHANGED <<sched, file>>
      BY ZenonT(60), <3>2 DEF TypeStore
    <3>3. CASE sched' = eng.next.fid /\ file' = Displaced(file, sched, eng.next.fid, eng.next)
      BY <3>1, <3>3, DisplacedFiles DEF TypeStore
    <3> QED
      BY ZenonT(60), <1>35, <3>2, <3>3 DEF RecordFailureApply
  <2> QED
    BY ZenonT(60), <1>35, <2>1, <1>15, ActorType
       DEF RecordFailureApply, TypeOK, TypeStore, TypeActors, TypeWorld, TypeHistory
<1>36. CASE CrashAndResume
  <2>1. Loaded \in Record
    BY ZenonT(60), NoType DEF Loaded, TypeStore
  <2>2. clock + 1 \in 0 .. MaxClock
    BY ZenonT(60), <1>36, NextStamp DEF CrashAndResume
  <2>3. Present(Loaded) => Loaded.fid \in DOMAIN file /\ Len(file[Loaded.fid]) \in 0 .. MaxSize
    BY DEF Loaded, NoRec, Present, TypeStore, Content
  <2>4. /\ [Loaded EXCEPT !.fail = TRUE, !.stamp = clock + 1] \in Record
        /\ Present(Loaded) =>
             [Loaded EXCEPT !.size = Len(file[Loaded.fid]), !.hash = {}, !.frozen = FALSE,
                            !.stamp = clock + 1] \in Record
    BY ZenonT(60), <2>1, <2>2, <2>3 DEF Record
  <2> DEFINE r == Resumed(Loaded, clock + 1)
  <2>5. r \in Record
    BY <2>1, <2>4 DEF Resumed
  <2>6. r.fid = Loaded.fid
    BY ZenonT(60), <2>1 DEF Resumed, Record
  <2>7. TypeStore'
    BY SMTT(60), <1>36, <2>5, NoType, RecordType DEF CrashAndResume, TypeStore
  <2>8. TypeActors'
    BY ZenonT(60), <1>36, NoType DEF CrashAndResume, TypeActors, NoWr
  <2>9. TypeWorld'
    BY SMTT(60), <1>36, <2>2 DEF CrashAndResume, TypeWorld
  <2>10. TypeHistory'
    <3>1. FinalData \subseteq Content
      BY DEF FinalData, Finals, TypeWorld
    <3>2. Present(r) => file[r.fid] \in Content
      BY ZenonT(60), <2>3, <2>6 DEF Present, TypeStore
    <3> QED
      BY ZenonT(60), <1>36, <3>1, <3>2, EmptyContent DEF CrashAndResume, TypeHistory
  <2> QED
    BY ZenonT(60), <2>7, <2>8, <2>9, <2>10 DEF TypeOK
<1>37. CASE UNCHANGED vars
  BY ZenonT(60), <1>37
     DEF vars, TypeOK, TypeStore, TypeActors, TypeWorld, TypeHistory, store, history, Finals
<1>38. ASSUME NEW n \in 0 .. MaxSize - 1 PROVE n \in 0 .. MaxSize /\ n < MaxSize
  OBVIOUS
<1> QED
  BY ZenonT(60), <1>1, <1>2, <1>3, <1>4, <1>5, <1>6, <1>7, <1>8, <1>9, <1>10, <1>11, <1>12, <1>16, <1>17,
     <1>18, <1>19, <1>20, <1>23, <1>25, <1>26, <1>27, <1>28, <1>29, <1>30, <1>31, <1>32, <1>33,
     <1>34, <1>35, <1>36, <1>37, <1>38, <1>39 DEF Next, UserStep, EngineStep

\* Every reachable state is well typed, for every value of the constants.
THEOREM TypeCorrect == Spec => []TypeOK
BY TypeInit, TypeNext, PTL DEF Spec

\* Neither a stale copy that was written back nor a discard that fell into a
\* switch is ever forgotten.
LEMMA Remembered == Next => (~raced' => ~raced) /\ (~torn' => ~torn)
<1> SUFFICES ASSUME Next PROVE (~raced' => ~raced) /\ (~torn' => ~torn)
  OBVIOUS
<1>1. UNCHANGED history => (~raced' => ~raced) /\ (~torn' => ~torn)
  BY DEF history
<1>2. CASE \/ Receive \/ Claim \/ Snapshot \/ Recheck \/ Prepare \/ PutSource
           \/ RecordReplacement \/ Check \/ Swap
           \/ Commit \/ Sweep \/ Rollback \/ RecordFailure
  <2>1. UNCHANGED history
    BY ZenonT(60), <1>2 DEF Receive, Claim, Snapshot, Recheck, Prepare, PutSource, RecordReplacement,
         Check, Swap, Commit, Sweep, Rollback, RecordFailure
  <2> QED
    BY <1>1, <2>1
<1>3. CASE RecordReplacementApply \/ CommitApply \/ RecordFailureApply
  <2>1. CASE RecordReplacementApply
    BY ZenonT(60), <2>1 DEF RecordReplacementApply
  <2>2. CASE CommitApply
    BY ZenonT(60), <2>2 DEF CommitApply
  <2>3. CASE RecordFailureApply
    BY ZenonT(60), <2>3 DEF RecordFailureApply
  <2> QED
    BY <1>3, <2>1, <2>2, <2>3
<1>4. CASE \/ \E op, n : OpenForWrite(op, n)
           \/ WriteFails \/ FlushRead \/ RetryRead
  <2>1. UNCHANGED history
    BY ZenonT(60), <1>4 DEF OpenForWrite, WriteFails, FlushRead, RetryRead
  <2> QED
    BY <1>1, <2>1
<1>5. CASE \E op, n : StageForWrite(op, n)
  <2>1. ASSUME NEW op, NEW n, StageForWrite(op, n) PROVE raced' = raced /\ torn' = torn
    BY <2>1 DEF StageForWrite
  <2> QED
    BY <1>5, <2>1
<1>6. CASE Create \/ WriteTarget \/ WriteFile \/ WriteUpdate
  <2>1. CASE Create
    BY ZenonT(60), <2>1 DEF Create
  <2>2. CASE WriteTarget
    BY ZenonT(60), <2>2 DEF WriteTarget
  <2>3. CASE WriteFile
    BY ZenonT(60), <2>3 DEF WriteFile
  <2>4. CASE WriteUpdate
    BY ZenonT(60), <2>4 DEF WriteUpdate
  <2> QED
    BY ZenonT(60), <1>6, <2>1, <2>2, <2>3, <2>4
<1>7. CASE TruncateFile \/ FlushIgnored \/ FlushSave \/ RetrySave \/ Discard
  <2>1. CASE TruncateFile
    <3>1. torn' = torn
      BY ZenonT(60), <2>1 DEF TruncateFile
    <3>2. \/ UNCHANGED <<rec, disk, raced, clock>>
          \/ raced' = (raced \/ ~Same(rec, wr.rec))
      BY ZenonT(60), <2>1 DEF TruncateFile
    <3>3. CASE UNCHANGED <<rec, disk, raced, clock>>
      BY <3>1, <3>3
    <3>4. CASE raced' = (raced \/ ~Same(rec, wr.rec))
      BY ZenonT(60), <3>1, <3>4
    <3> QED
      BY <3>2, <3>3, <3>4
  <2>2. CASE FlushIgnored
    BY ZenonT(60), <2>2 DEF FlushIgnored
  <2>3. CASE FlushSave
    <3>1. torn' = torn
      BY ZenonT(60), <2>3 DEF FlushSave
    <3>2. \/ UNCHANGED <<rec, disk, file, sched, promised, sealed, raced, clock>>
          \/ raced' = (raced \/ ~Same(rec, wr.rec) \/ rec.started # wr.rec.started)
      BY ZenonT(60), <2>3 DEF FlushSave
    <3>3. CASE UNCHANGED <<rec, disk, file, sched, promised, sealed, raced, clock>>
      BY <3>1, <3>3
    <3>4. CASE raced' = (raced \/ ~Same(rec, wr.rec) \/ rec.started # wr.rec.started)
      BY ZenonT(60), <3>1, <3>4
    <3> QED
      BY <3>2, <3>3, <3>4
  <2>4. CASE RetrySave
    BY ZenonT(60), <2>4 DEF RetrySave
  <2>5. CASE Discard
    BY ZenonT(60), <2>5 DEF Discard
  <2> QED
    BY ZenonT(60), <1>7, <2>1, <2>2, <2>3, <2>4, <2>5
<1>8. CASE CrashAndResume
  BY ZenonT(60), <1>8 DEF CrashAndResume
<1> QED
  BY ZenonT(60), <1>2, <1>3, <1>4, <1>5, <1>6, <1>7, <1>8 DEF Next, UserStep, EngineStep

\* A failed call leaves what the engine remembers alone.
LEMMA FailsFields ==
  ASSUME TypeActors, NEW b \in BOOLEAN, Fails(b)
  PROVE  /\ eng'.pc = "fail" /\ eng'.rec = eng.rec /\ eng'.next = eng.next /\ eng'.ent = eng.ent
         /\ eng'.existing = eng.existing /\ eng'.swap = eng.swap
BY DEF Fails, Engine, TypeActors

\* What a step to another pc keeps.
LEMMA PcFields ==
  ASSUME TypeActors, NEW p, eng' = [eng EXCEPT !.pc = p]
  PROVE  /\ eng'.pc = p /\ eng'.rec = eng.rec /\ eng'.next = eng.next /\ eng'.ent = eng.ent
         /\ eng'.existing = eng.existing /\ eng'.swap = eng.swap
BY ZenonT(60) DEF Engine, TypeActors

-----------------------------------------------------------------------------
(* The claim discipline.                                                   *)

\* Fids and stamps in use are ones that were handed out.
Handed ==
  /\ rec.fid <= nfid /\ disk.fid <= nfid /\ rty.fid <= nfid
  /\ eng.rec.fid <= nfid /\ eng.next.fid <= nfid
  /\ wr.rec.fid <= nfid /\ wr.new.fid <= nfid
  /\ \A f \in DOMAIN file : f <= nfid
  /\ rec.stamp <= clock /\ disk.stamp <= clock
  /\ eng.rec.stamp <= clock /\ eng.next.stamp <= clock

\* The current record has its staging file, and the journal names no other one.
Backed ==
  /\ Present(rec) => rec.fid \in DOMAIN file
  /\ disk.fid \in {0, rec.fid}
  /\ eng.pc = "sweep" /\ Present(rec) => rec.fid # eng.rec.fid
  /\ eng.pc = "cleanM" => ~Present(disk)

\* What the engine remembers of the record, as long as the record is the same.
EngineCopy ==
  /\ eng.pc = "recv" /\ Same(rec, eng.rec) => rec.frozen
  /\ eng.pc \in {"replM", "failM"} =>
       /\ eng.next.fid = eng.rec.fid /\ eng.next.size = eng.rec.size
       /\ Same(rec, eng.rec) => eng.next.frozen = rec.frozen

\* What the write path remembers of the record while it holds the path lock.
WriterCopy ==
  /\ wr.pc # "idle" =>
       /\ Present(rec) /\ wr.rec.fid = rec.fid
       /\ wr.rec.frozen = rec.frozen /\ wr.rec.size = rec.size
  /\ wr.pc = "flush" =>
       /\ wr.new.fid = wr.rec.fid /\ wr.new.frozen /\ wr.new.started = wr.rec.started
       /\ wr.new.size = Len(file[wr.rec.fid])

\* A frozen generation is written only by appending to a claimed one.
Target ==
  wr.pc \in {"target", "wrote"} /\ wr.rec.frozen =>
    wr.op = "write" /\ wr.rec.started /\ wr.rec.size <= wr.at

\* The size the record has, or will have once the write that is under way has
\* updated it.
Reach == IF wr.pc = "wrote" THEN Larger(rec.size, wr.at + 1) ELSE rec.size

\* The record of a generation an engine is streaming says so, and a write beyond
\* its size touches nothing the engine may read: it lies beyond the claimed size,
\* or beyond the end of a file that is too short for the claim.
Claimed ==
  eng.pc \in Streaming /\ Present(rec) /\ rec.fid = eng.rec.fid =>
    /\ rec.frozen /\ rec.started
    /\ eng.rec.size <= Reach \/ Len(file[rec.fid]) <= Reach

ClaimInv ==
  /\ Handed /\ Target
  /\ ~raced => Backed /\ EngineCopy /\ WriterCopy /\ Claimed

\* The initial states satisfy it.
LEMMA ClaimInit == Init => ClaimInv
BY NoType, BoundsAssumption
   DEF Init, ClaimInv, Handed, Target, Backed, EngineCopy, WriterCopy, Claimed, Streaming,
       NoRec, NoEng, NoWr, Present

\* Steps of the engine that leave the record alone, do not claim, and at most
\* remove staging files other than the record's.
LEMMA EngineMoves ==
  ASSUME TypeOK, TypeOK', ClaimInv,
         UNCHANGED <<rec, wr, rty, nfid, raced>>, clock <= clock',
         disk' = disk \/ disk' = NoRec,
         DOMAIN file' \subseteq DOMAIN file, \A x \in DOMAIN file' : file'[x] = file[x],
         ~raced /\ rec.fid \in DOMAIN file => rec.fid \in DOMAIN file',
         eng'.pc = "cleanM" => disk' = NoRec,
         eng'.pc \notin {"recv", "sweep", "replM", "failM"},
         eng'.pc \in Streaming => eng.pc \in Streaming,
         eng' = NoEng \/ (eng'.rec = eng.rec /\ eng'.next = eng.next)
  PROVE  ClaimInv'
<1>1. NoRec.fid = 0 /\ NoRec.stamp = 0 /\ NoEng.rec = NoRec /\ NoEng.next = NoRec
      /\ NoEng.pc = "idle"
  BY ZenonT(60) DEF NoRec, NoEng
<1>2. clock \in Nat /\ clock' \in Nat /\ nfid \in Nat
  BY BoundsAssumption DEF TypeOK, TypeWorld
<1>3. rec \in Record /\ disk \in Record /\ eng.rec \in Record /\ eng.next \in Record
  BY ZenonT(60), ActorType DEF TypeOK, TypeStore
<1>4. Handed'
  BY <1>1, <1>2, <1>3, RecordType DEF ClaimInv, Handed
<1>5. Target'
  BY ZenonT(60) DEF ClaimInv, Target
<1>6. ASSUME ~raced' PROVE Backed' /\ EngineCopy' /\ WriterCopy' /\ Claimed'
  <2>1. Backed
    BY ZenonT(60), <1>6 DEF ClaimInv
  <2>2. Backed'
    BY ZenonT(60), <1>1, <1>6, <2>1 DEF Backed, Present
  <2>3. EngineCopy'
    BY ZenonT(60) DEF EngineCopy
  <2>4. WriterCopy'
    BY ZenonT(60), <1>6, <2>1 DEF ClaimInv, WriterCopy, Backed, Present
  <2>5. Claimed'
    BY ZenonT(60), <1>1, <1>6, <2>1 DEF ClaimInv, Claimed, Streaming, Backed, Reach
  <2> QED
    BY ZenonT(60), <2>2, <2>3, <2>4, <2>5
<1> QED
  BY ZenonT(60), <1>4, <1>5, <1>6 DEF ClaimInv

\* Every engine step preserves the invariant.
LEMMA ClaimEngine == TypeOK /\ TypeOK' /\ ClaimInv /\ EngineStep => ClaimInv'
<1> SUFFICES ASSUME TypeOK, TypeOK', ClaimInv, EngineStep PROVE ClaimInv'
  BY ZenonT(60)
<1>0. /\ clock \in Nat /\ clock' \in Nat /\ nfid \in Nat /\ NoEng.pc = "idle"
      /\ rec \in Record /\ rec' \in Record /\ disk \in Record /\ eng.rec \in Record
      /\ eng.next \in Record /\ wr.rec \in Record /\ wr.new \in Record /\ eng \in Engine
  BY ActorType, BoundsAssumption DEF TypeOK, TypeStore, TypeWorld, TypeActors, NoEng
<1> USE <1>0
<1>1. ASSUME NEW b \in BOOLEAN, Fails(b)
      PROVE  eng'.pc = "fail" /\ eng'.rec = eng.rec /\ eng'.next = eng.next
  BY <1>1 DEF Fails, Engine
<1>2. ASSUME NEW fs, DOMAIN fs \subseteq DOMAIN file, \A x \in DOMAIN fs : fs[x] = file[x],
             rec.fid \in DOMAIN file => rec.fid \in DOMAIN fs, RequeueIfFrozen(fs)
      PROVE  /\ DOMAIN file' \subseteq DOMAIN file /\ \A x \in DOMAIN file' : file'[x] = file[x]
             /\ rec.fid \in DOMAIN file => rec.fid \in DOMAIN file'
  BY <1>2, DisplacedFiles DEF RequeueIfFrozen
<1>3. ASSUME RequeueIfFrozen(Unreferenced(file, eng.rec.fid, rec))
      PROVE  /\ DOMAIN file' \subseteq DOMAIN file /\ \A x \in DOMAIN file' : file'[x] = file[x]
             /\ rec.fid \in DOMAIN file => rec.fid \in DOMAIN file'
  BY <1>2, <1>3, UnreferencedFiles
<1>4. CASE Receive
  <2>1. CASE Present(rec) /\ rec.frozen /\ ~rec.fail
    <3>1. eng'.pc = "recv" /\ eng'.rec = rec /\ eng'.next = NoRec
      BY ZenonT(60), <1>4, <2>1, NoType DEF Receive, Engine, NoEng
    <3>2. Handed'
      BY <1>4, <3>1 DEF Receive, ClaimInv, Handed, history, NoRec
    <3>3. Target' /\ (~raced' => Backed' /\ WriterCopy' /\ EngineCopy' /\ Claimed')
      BY ZenonT(60), <1>4, <2>1, <3>1
         DEF Receive, ClaimInv, Target, Backed, WriterCopy, EngineCopy, Claimed, Streaming,
             history
    <3> QED
      BY <3>2, <3>3 DEF ClaimInv
  <2>2. CASE ~(Present(rec) /\ rec.frozen /\ ~rec.fail)
    BY <1>4, <2>2, EngineMoves DEF Receive, history
  <2> QED
    BY <2>1, <2>2
<1>5. CASE Claim
  <2>1. CASE Same(rec, eng.rec)
    <3>1. /\ rec' = [rec EXCEPT !.started = TRUE] /\ eng' = [eng EXCEPT !.pc = "claimed", !.rec = rec']
          /\ UNCHANGED <<disk, file, wr, rty, clock, nfid, raced>>
      BY ZenonT(60), <1>5, <2>1 DEF Claim, history
    <3>2. /\ rec'.fid = rec.fid /\ rec'.size = rec.size /\ rec'.stamp = rec.stamp
          /\ rec'.frozen = rec.frozen /\ rec'.started
      BY <3>1 DEF Record
    <3>3. eng'.pc = "claimed" /\ eng'.rec = rec' /\ eng'.next = eng.next
      BY <3>1 DEF Engine
    <3>4. Handed' /\ Target'
      BY ZenonT(60), <3>1, <3>2, <3>3 DEF ClaimInv, Handed, Target
    <3>5. ASSUME ~raced' PROVE Backed' /\ EngineCopy' /\ WriterCopy' /\ Claimed'
      <4>1. rec.frozen
        BY <1>5, <2>1, <3>1, <3>5 DEF Claim, ClaimInv, EngineCopy
      <4>2. Backed' /\ EngineCopy' /\ WriterCopy'
        BY <3>1, <3>2, <3>3, <3>5
           DEF ClaimInv, Backed, EngineCopy, WriterCopy, Present
      <4>3. rec'.size \in Nat /\ wr'.at \in Nat
        BY <3>1, <3>2, RecordType, ActorType DEF TypeOK
      <4>4. rec'.size <= Reach'
        BY <4>3 DEF Reach, Larger
      <4>5. Claimed'
        BY ZenonT(60), <3>2, <3>3, <4>1, <4>4 DEF Claimed
      <4> QED
        BY <4>2, <4>5
    <3> QED
      BY <3>4, <3>5 DEF ClaimInv
  <2>2. CASE ~Same(rec, eng.rec)
    BY <1>3, <1>5, <2>2, EngineMoves DEF Claim, Released, Streaming, history
  <2> QED
    BY ZenonT(60), <2>1, <2>2
<1>6. CASE Snapshot
  <2>1. /\ eng'.pc \in {"snapped", "fail"} /\ eng.pc = "claimed"
        /\ eng'.rec = eng.rec /\ eng'.next = eng.next
    BY ZenonT(60), <1>6 DEF Snapshot, Engine
  <2> QED
    BY <1>6, <2>1, EngineMoves DEF Snapshot, Streaming, store, history
<1>7. CASE Recheck
  <2>1. CASE Same(rec, eng.rec)
    <3>1. eng'.pc = "prepare" /\ eng.pc = "snapped" /\ eng'.rec = eng.rec /\ eng'.next = eng.next
      BY <1>7, <2>1 DEF Recheck, Engine
    <3> QED
      BY <1>7, <2>1, <3>1, EngineMoves DEF Recheck, Streaming, history
  <2>2. CASE ~Same(rec, eng.rec)
    BY <1>3, <1>7, <2>2, EngineMoves DEF Recheck, Released, Streaming, history
  <2> QED
    BY ZenonT(60), <2>1, <2>2
<1>8. CASE Prepare
  <2>1. /\ eng'.pc \in {"put", "check", "fail"} /\ eng.pc = "prepare"
        /\ eng'.rec = eng.rec /\ eng'.next = eng.next
    BY ZenonT(60), <1>1, <1>8 DEF Prepare, Engine
  <2> QED
    BY <1>8, <2>1, EngineMoves DEF Prepare, Streaming, store, history
<1>9. CASE PutSource
  <2>1. /\ eng'.pc \in {"check", "record", "fail"}
        /\ eng'.rec = eng.rec /\ eng'.next = eng.next
    BY ZenonT(60), <1>1, <1>9 DEF PutSource, Engine
  <2>2. clock' \in {clock, clock + 1}
    BY ZenonT(60), <1>9 DEF PutSource
  <2> QED
    BY <1>9, <2>1, <2>2, EngineMoves DEF PutSource, Streaming, store, history
<1>10. CASE Check
  <2>1. /\ eng'.pc \in {"rollback", "swap", "commit"}
        /\ eng'.rec = eng.rec /\ eng'.next = eng.next
    BY <1>10 DEF Check, Engine
  <2> QED
    BY <1>10, <2>1, EngineMoves DEF Check, Streaming, store, history
<1>11. CASE Swap
  <2>1. /\ eng'.pc \in {"swap", "commit", "fail"}
        /\ eng'.rec = eng.rec /\ eng'.next = eng.next
    BY ZenonT(60), <1>1, <1>11 DEF Swap, Engine
  <2> QED
    BY <1>11, <2>1, EngineMoves DEF Swap, Streaming, store, history
<1>12. CASE Commit
  <2>1. \/ eng' = NoEng
        \/ eng'.pc \in {"cleanM", "rollback"} /\ eng'.rec = eng.rec /\ eng'.next = eng.next
    BY <1>12 DEF Commit, Engine, Released
  <2>2. eng'.pc = "cleanM" => disk' = NoRec
    BY ZenonT(60), <1>12 DEF Commit, Engine, Released
  <2> QED
    BY <1>12, <2>1, <2>2, EngineMoves DEF Commit, Streaming, history
<1>13. CASE Rollback
  BY SMTT(60), <1>3, <1>13, EngineMoves DEF Rollback, Released, Streaming, history
<1>14. ASSUME NEW r \in Record, disk' = Journaled(r), eng' \in Engine, eng'.next = r,
              eng'.pc \in {"replM", "failM"}, eng'.rec = eng.rec, Same(rec, eng.rec),
              r.fid = rec.fid, r.size = rec.size, r.frozen = rec.frozen, r.stamp = clock + 1,
              clock' = clock + 1, UNCHANGED <<rec, file, wr, rty, nfid, raced>>
       PROVE  ClaimInv'
  <2>1. disk'.fid = rec.fid /\ disk'.size = rec.size /\ disk'.stamp = clock + 1
    BY ZenonT(60), <1>14 DEF Journaled, Record
  <2>2. Handed'
    BY SMTT(60), <1>14, <2>1, RecordType DEF ClaimInv, Handed
  <2>3. Target'
    BY ZenonT(60), <1>14 DEF ClaimInv, Target
  <2>4. ASSUME ~raced' PROVE Backed' /\ EngineCopy' /\ WriterCopy' /\ Claimed'
    <3>1. Backed'
      BY ZenonT(60), <1>14, <2>1, <2>4 DEF ClaimInv, Backed, Present
    <3>2. EngineCopy'
      BY ZenonT(60), <1>14 DEF EngineCopy, Same
    <3>3. WriterCopy' /\ Claimed'
      BY <1>14, <2>4 DEF ClaimInv, WriterCopy, Claimed, Streaming
    <3> QED
      BY ZenonT(60), <3>1, <3>2, <3>3
  <2> QED
    BY ZenonT(60), <2>2, <2>3, <2>4 DEF ClaimInv
<1>15. CASE RecordReplacement
  <2> DEFINE r == [rec EXCEPT !.repl = [id |-> eng.ent, size |-> rec.size], !.stamp = clock + 1]
  <2>1. CASE /\ Same(rec, eng.rec) /\ Tick /\ clock' = clock + 1
             /\ disk' = Journaled(r) /\ eng' = [eng EXCEPT !.pc = "replM", !.next = r]
    <3>1. eng'.next = r /\ eng'.pc = "replM" /\ eng'.rec = eng.rec /\ eng' \in Engine
      BY <2>1 DEF Engine, TypeOK, TypeActors
    <3>2. r \in Record
      BY <3>1 DEF Engine
    <3>3. r.fid = rec.fid /\ r.size = rec.size /\ r.frozen = rec.frozen /\ r.stamp = clock + 1
      BY DEF Record
    <3> HIDE DEF r
    <3> QED
      BY ZenonT(60), <1>14, <1>15, <2>1, <3>1, <3>2, <3>3 DEF RecordReplacement, history
  <2>2. CASE (Fails(FALSE) \/ eng' = [eng EXCEPT !.pc = "rollback"]) /\ UNCHANGED <<disk, clock>>
    <3>1. eng'.pc \in {"fail", "rollback"} /\ eng'.rec = eng.rec /\ eng'.next = eng.next
      BY ZenonT(60), <1>1, <2>2 DEF Engine
    <3> QED
      BY <1>15, <2>2, <3>1, EngineMoves DEF RecordReplacement, Streaming, history
  <2> QED
    BY ZenonT(60), <1>15, <2>1, <2>2 DEF RecordReplacement
<1>16. CASE RecordFailure
  <2> DEFINE r == [rec EXCEPT !.fail = eng.perm, !.stamp = clock + 1]
  <2>1. CASE /\ Same(rec, eng.rec) /\ Tick /\ clock' = clock + 1 /\ UNCHANGED file
             /\ disk' = Journaled(r) /\ eng' = [eng EXCEPT !.pc = "failM", !.next = r]
    <3>1. eng'.next = r /\ eng'.pc = "failM" /\ eng'.rec = eng.rec /\ eng' \in Engine
      BY <2>1 DEF Engine, TypeOK, TypeActors
    <3>2. r \in Record
      BY <3>1 DEF Engine
    <3>3. r.fid = rec.fid /\ r.size = rec.size /\ r.frozen = rec.frozen /\ r.stamp = clock + 1
      BY DEF Record
    <3> HIDE DEF r
    <3> QED
      BY ZenonT(60), <1>14, <1>16, <2>1, <3>1, <3>2, <3>3 DEF RecordFailure, history
  <2>2. CASE Released /\ UNCHANGED <<disk, clock, file>>
    BY <1>16, <2>2, EngineMoves DEF RecordFailure, Released, Streaming, history
  <2>3. CASE file' = Unreferenced(file, eng.rec.fid, rec) /\ Released /\ UNCHANGED <<disk, clock>>
    BY <1>16, <2>3, EngineMoves, UnreferencedFiles DEF RecordFailure, Released, Streaming, history
  <2> QED
    BY ZenonT(60), <1>16, <2>1, <2>2, <2>3 DEF RecordFailure
<1>17. ASSUME rec' = eng.next, eng.pc \in {"replM", "failM"}, ~raced' => Same(rec, eng.rec) /\ ~raced,
              eng'.pc \in {"check", "idle"}, eng'.rec \in {eng.next, NoRec},
              eng'.next \in {eng.next, NoRec}, UNCHANGED <<disk, wr, rty, nfid, clock>>,
              DOMAIN file' \subseteq DOMAIN file, \A x \in DOMAIN file' : file'[x] = file[x],
              rec'.fid \in DOMAIN file => rec'.fid \in DOMAIN file'
       PROVE  ClaimInv'
  <2>1. Handed'
    <3>1. NoRec.fid <= nfid /\ NoRec.stamp <= clock
      BY CountersNat DEF NoRec, TypeOK
    <3> QED
      BY ZenonT(60), <1>17, <3>1 DEF ClaimInv, Handed
  <2>2. Target'
    BY ZenonT(60), <1>17 DEF ClaimInv, Target
  <2>3. ASSUME ~raced' PROVE Backed' /\ EngineCopy' /\ WriterCopy' /\ Claimed'
    <3>1. rec'.fid = rec.fid /\ rec'.size = rec.size /\ rec'.frozen = rec.frozen /\ Present(rec)
      BY ZenonT(60), <1>17, <2>3 DEF ClaimInv, EngineCopy, Same
    <3>2. Backed'
      BY ZenonT(60), <1>17, <2>3, <3>1 DEF ClaimInv, Backed, Present
    <3>3. WriterCopy'
      BY SMTT(60), <1>17, <2>3, <3>1 DEF ClaimInv, WriterCopy, Backed, Present
    <3>4. EngineCopy' /\ Claimed'
      BY <1>17 DEF EngineCopy, Claimed, Streaming
    <3> QED
      BY ZenonT(60), <3>2, <3>3, <3>4
  <2> QED
    BY ZenonT(60), <2>1, <2>2, <2>3 DEF ClaimInv
<1>18. CASE RecordReplacementApply
  <2>1. eng'.pc = "check" /\ eng'.rec = eng.next /\ eng'.next = eng.next
    BY <1>18 DEF RecordReplacementApply, Engine
  <2> QED
    BY ZenonT(60), <1>17, <1>18, <2>1 DEF RecordReplacementApply
<1>19. CASE RecordFailureApply
  <2>1. eng'.pc = "idle" /\ eng'.rec = NoRec /\ eng'.next = NoRec
    BY ZenonT(60), <1>19 DEF RecordFailureApply, Released, NoEng
  <2>2. /\ DOMAIN file' \subseteq DOMAIN file /\ \A x \in DOMAIN file' : file'[x] = file[x]
        /\ rec'.fid \in DOMAIN file => rec'.fid \in DOMAIN file'
    BY SMTT(60), <1>19, DisplacedFiles DEF RecordFailureApply
  <2> QED
    BY ZenonT(60), <1>17, <1>19, <2>1, <2>2 DEF RecordFailureApply
<1>20. CASE CommitApply
  <2>1. CASE Same(rec, eng.rec)
    <3>1. /\ rec' = NoRec /\ file' = Drop(file, eng.rec.fid) /\ eng' = [eng EXCEPT !.pc = "sweep"]
          /\ UNCHANGED <<disk, wr, rty, clock, nfid>> /\ eng.pc = "cleanM"
          /\ ~raced' => ~raced /\ wr.rec.fid # eng.rec.fid
      BY ZenonT(60), <1>20, <2>1 DEF CommitApply
    <3>2. eng'.pc = "sweep" /\ eng'.rec = eng.rec /\ eng'.next = eng.next
      BY <3>1 DEF Engine
    <3>3. rec'.fid = 0 /\ rec'.stamp = 0 /\ DOMAIN file' \subseteq DOMAIN file
      BY ZenonT(60), <3>1 DEF NoRec, Drop
    <3>4. Handed' /\ Target'
      BY <3>1, <3>2, <3>3 DEF ClaimInv, Handed, Target
    <3>5. ASSUME ~raced' PROVE Backed' /\ EngineCopy' /\ WriterCopy' /\ Claimed'
      <4>1. Backed'
        BY ZenonT(60), <2>1, <3>1, <3>2, <3>3, <3>5 DEF ClaimInv, Backed, Same, Present
      <4>2. wr.pc = "idle"
        BY ZenonT(60), <2>1, <3>1, <3>5 DEF ClaimInv, WriterCopy, Same
      <4> QED
        BY ZenonT(60), <3>1, <3>2, <4>1, <4>2 DEF WriterCopy, EngineCopy, Claimed, Streaming
    <3> QED
      BY <3>4, <3>5 DEF ClaimInv
  <2>2. CASE ~Same(rec, eng.rec)
    <3>1. eng'.pc = "rollback" /\ eng'.rec = eng.rec /\ eng'.next = eng.next /\ raced'
          /\ UNCHANGED <<rec, disk, file, wr, rty, clock, nfid>>
      BY ZenonT(60), <1>20, <2>2 DEF CommitApply, Engine
    <3> QED
      BY <3>1 DEF ClaimInv, Handed, Target
  <2> QED
    BY ZenonT(60), <2>1, <2>2
<1>21. CASE Sweep
  <2>1. ~raced /\ rec.fid \in DOMAIN file => rec.fid # eng.rec.fid
    BY SMTT(60), <1>21, BoundsAssumption DEF Sweep, ClaimInv, Backed, Present, TypeOK, TypeStore, Fids
  <2>2. /\ DOMAIN file' \subseteq DOMAIN file /\ \A x \in DOMAIN file' : file'[x] = file[x]
        /\ rec.fid # eng.rec.fid /\ rec.fid \in DOMAIN file => rec.fid \in DOMAIN file'
    BY ZenonT(60), <1>21 DEF Sweep, Drop
  <2> QED
    BY SMTT(60), <1>21, <2>1, <2>2, EngineMoves DEF Sweep, Released, Streaming, history
<1> QED
  BY ZenonT(60), <1>4, <1>5, <1>6, <1>7, <1>8, <1>9, <1>10, <1>11, <1>12, <1>13, <1>15, <1>16, <1>18, <1>19,
     <1>20, <1>21 DEF EngineStep

\* Steps that leave the record, its staging files and the engine alone, and at most
\* end an operation of the write path or read a record for a retry.
LEMMA ClaimSame ==
  ASSUME ClaimInv, UNCHANGED <<rec, disk, file, eng, clock, nfid, raced>>,
         nfid \in Nat, rty' \in {rty, rec}, wr' = wr \/ (wr' = NoWr /\ wr.pc # "wrote")
  PROVE  ClaimInv'
<1>1. NoWr.rec.fid = 0 /\ NoWr.new.fid = 0 /\ NoWr.pc = "idle"
  BY ZenonT(60) DEF NoWr, NoRec
<1>2. Handed'
  BY SMTT(60), <1>1 DEF ClaimInv, Handed
<1>3. Target' /\ (~raced' => WriterCopy')
  BY ZenonT(60), <1>1 DEF ClaimInv, Target, WriterCopy, Present
<1>4. ~raced' => Backed' /\ EngineCopy'
  BY ZenonT(60) DEF ClaimInv, Backed, EngineCopy, Same, Present
<1>5. Reach' = Reach
  BY ZenonT(60), <1>1 DEF Reach
<1>6. ~raced' => Claimed'
  BY ZenonT(60), <1>5 DEF ClaimInv, Claimed, Present
<1> QED
  BY ZenonT(60), <1>2, <1>3, <1>4, <1>6 DEF ClaimInv

\* Every step of the write path, an explicit retry and a discard preserve it.
LEMMA ClaimUser == TypeOK /\ TypeOK' /\ ClaimInv /\ UserStep => ClaimInv'
<1> SUFFICES ASSUME TypeOK, TypeOK', ClaimInv, UserStep PROVE ClaimInv'
  BY ZenonT(60)
<1>0. /\ clock \in Nat /\ clock' \in Nat /\ nfid \in Nat /\ nfid' \in Nat /\ wr \in Writer
      /\ rec \in Record /\ rec' \in Record /\ disk \in Record /\ disk' \in Record
      /\ eng.rec \in Record /\ eng.next \in Record /\ wr.rec \in Record /\ wr.new \in Record
      /\ rty \in Record /\ wr.at \in Nat
  BY SMTT(60), ActorType, BoundsAssumption DEF TypeOK, TypeStore, TypeWorld, TypeActors
<1>00. NoRec.fid = 0 /\ NoWr.rec = NoRec /\ NoWr.new = NoRec /\ NoWr.pc = "idle"
  BY ZenonT(60) DEF NoRec, NoWr
<1> USE <1>0, <1>00
\* a new generation takes the place of the record
<1>1. ASSUME NEW c \in Content, rec' = NewRec(nfid + 1, Len(c), clock + 1), disk' = rec',
             nfid' = nfid + 1, nfid + 1 \in 0 .. MaxFid, clock' = clock + 1,
             clock + 1 \in 0 .. MaxClock,
             DOMAIN file' \subseteq DOMAIN file \cup {nfid + 1},
             nfid + 1 \in DOMAIN file', file'[nfid + 1] = c, ~TxHeld, UNCHANGED <<eng, rty>>,
             \/ wr' = wr /\ wr.pc = "idle"
             \/ wr'.rec = rec' /\ wr'.pc \in {"read", "target"} /\ wr'.new \in {wr.new, NoRec}
      PROVE  ClaimInv'
  <2>1. rec'.fid = nfid + 1 /\ rec'.size = Len(c) /\ rec'.stamp = clock + 1 /\ ~rec'.frozen
    BY SMTT(60), <1>1, NewRecType DEF Content
  <2>2. Handed'
    <3>0. /\ nfid' = nfid + 1 /\ clock' = clock + 1 /\ disk' = rec' /\ eng' = eng /\ rty' = rty
          /\ DOMAIN file' \subseteq DOMAIN file \cup {nfid + 1}
      BY ZenonT(60), <1>1
    <3>1. /\ rty.fid <= nfid /\ eng.rec.fid <= nfid /\ eng.next.fid <= nfid
          /\ wr.rec.fid <= nfid /\ wr.new.fid <= nfid /\ eng.rec.stamp <= clock
          /\ eng.next.stamp <= clock /\ \A f \in DOMAIN file : f \in Nat /\ f <= nfid
      BY SMTT(60), BoundsAssumption DEF ClaimInv, Handed, TypeOK, TypeStore, Fids
    <3>2. /\ rty.fid \in Nat /\ eng.rec.fid \in Nat /\ eng.next.fid \in Nat
          /\ wr.rec.fid \in Nat /\ wr.new.fid \in Nat /\ eng.rec.stamp \in Nat
          /\ eng.next.stamp \in Nat
      BY SMTT(60), RecordType
    <3>3. wr'.rec.fid <= nfid + 1 /\ wr'.new.fid <= nfid + 1
      <4>1. wr'.rec \in {wr.rec, rec'} /\ wr'.new \in {wr.new, NoRec}
        BY ZenonT(60), <1>1
      <4>2. wr'.rec.fid <= nfid \/ wr'.rec.fid = nfid + 1
        BY ZenonT(60), <2>1, <3>1, <4>1
      <4>3. wr'.new.fid <= nfid
        BY SMTT(60), <3>1, <4>1
      <4>4. wr'.rec.fid \in Nat /\ wr'.new.fid \in Nat
        BY SMTT(60), <4>1, RecordType
      <4> QED
        BY SMTT(60), <4>2, <4>3, <4>4
    <3>4. /\ rec'.fid <= nfid' /\ disk'.fid <= nfid' /\ rty'.fid <= nfid'
          /\ eng'.rec.fid <= nfid' /\ eng'.next.fid <= nfid'
      BY ZenonT(60), <2>1, <3>0, <3>1, <3>2, LeqNext
    <3>5. /\ rec'.stamp <= clock' /\ disk'.stamp <= clock'
          /\ eng'.rec.stamp <= clock' /\ eng'.next.stamp <= clock'
      BY ZenonT(60), <2>1, <3>0, <3>1, <3>2, LeqNext
    <3>6. \A f \in DOMAIN file' : f <= nfid'
      BY SMTT(60), <3>0, <3>1
    <3> QED
      BY ZenonT(60), <3>0, <3>3, <3>4, <3>5, <3>6 DEF Handed
  <2>3. Target'
    BY ZenonT(60), <1>1, <2>1 DEF Target
  <2>4. rec'.fid # eng.rec.fid
    BY SMTT(60), <2>1, RecordType DEF ClaimInv, Handed
  <2>5. Backed'
    BY ZenonT(60), <1>1, <2>1, <2>4 DEF Backed, Present, Content, TxHeld
  <2>6. EngineCopy'
    BY ZenonT(60), <1>1, <2>4 DEF EngineCopy, TxHeld, Same
  <2>7. WriterCopy'
    BY SMTT(60), <1>1, <2>1 DEF WriterCopy, Present
  <2>8. Claimed'
    BY ZenonT(60), <1>1, <2>4 DEF Claimed
  <2> QED
    BY ZenonT(60), <2>2, <2>3, <2>5, <2>6, <2>7, <2>8 DEF ClaimInv
\* the record keeps its generation and gets a new stamp
<1>2. ASSUME Tick, clock' = clock + 1, rec'.stamp = clock + 1, UNCHANGED <<eng, nfid>>,
             rec'.fid \in {rec.fid, wr.rec.fid, wr.new.fid, rty.fid},
             disk' = disk \/ (disk'.fid = rec'.fid /\ disk'.size = rec'.size
                              /\ disk'.stamp = clock + 1 /\ ~TxHeld),
             rty' \in {rty, NoRec}, wr' = wr \/ wr' = NoWr \/ (wr'.rec = rec' /\ wr'.new = wr.new),
             \A f \in DOMAIN file' : f <= nfid
      PROVE  Handed'
  <2>1. Handed /\ nfid' = nfid /\ eng' = eng /\ clock' = clock + 1
    BY ZenonT(60), <1>2 DEF ClaimInv
  <2>2. rec'.fid <= nfid
    BY ZenonT(60), <1>2, <2>1 DEF Handed
  <2>3. disk'.fid <= nfid /\ rty'.fid <= nfid
    BY SMTT(60), <1>2, <2>1, <2>2 DEF Handed
  <2>4. wr'.rec.fid <= nfid /\ wr'.new.fid <= nfid
    BY SMTT(60), <1>2, <2>1, <2>2 DEF Handed
  <2>5. /\ disk.stamp \in Nat /\ eng.rec.stamp \in Nat /\ eng.next.stamp \in Nat
    BY SMTT(60), RecordType
  <2>6. rec'.stamp <= clock' /\ disk'.stamp <= clock'
    BY SMTT(60), <1>2, <2>1, <2>5 DEF Handed
  <2>7. eng'.rec.stamp <= clock' /\ eng'.next.stamp <= clock'
    BY SMTT(60), <2>1, <2>5 DEF Handed
  <2> QED
    BY ZenonT(60), <1>2, <2>1, <2>2, <2>3, <2>4, <2>6, <2>7 DEF Handed
<1>3. ASSUME ~raced', ~raced, Tick, clock' = clock + 1, rec'.stamp = clock + 1,
             UNCHANGED <<eng, nfid>>, rec'.fid = rec.fid, Present(rec),
             disk' = disk \/ (disk'.fid = rec'.fid /\ ~TxHeld),
             rec.fid \in DOMAIN file'
      PROVE  Backed' /\ EngineCopy'
  <2>1. rec'.stamp # eng.rec.stamp
    BY SMTT(60), <1>3, RecordType DEF ClaimInv, Handed
  <2>2. EngineCopy'
    BY ZenonT(60), <1>3, <2>1 DEF ClaimInv, EngineCopy, Same
  <2>3. Backed'
    BY <1>3 DEF ClaimInv, Backed, Present, TxHeld
  <2> QED
    BY ZenonT(60), <2>2, <2>3
<1>4. CASE Create
  <2>1. /\ clock + 1 \in 0 .. MaxClock /\ nfid + 1 \in 0 .. MaxFid /\ Len(<<>>) = 0
        /\ <<>> \in Content
    BY ZenonT(60), <1>4, NextStamp, EmptyContent, BoundsAssumption DEF Create, TypeOK, TypeWorld
  <2> DEFINE gone == IF rec.frozen THEN 0 ELSE rec.fid
  <2>2. gone # nfid + 1
    BY RecordType DEF ClaimInv, Handed
  <2>3. file' = Drop(Put(file, nfid + 1, <<>>), gone)
    BY ZenonT(60), <1>4 DEF Create
  <2> HIDE DEF gone
  <2>4. /\ DOMAIN file' \subseteq DOMAIN file \cup {nfid + 1}
        /\ nfid + 1 \in DOMAIN file' /\ file'[nfid + 1] = <<>>
    BY ZenonT(60), <2>2, <2>3 DEF Drop, Put
  <2> QED
    BY ZenonT(60), <1>1, <1>4, <2>1, <2>4 DEF Create, LockFree
<1>5. ASSUME NEW op, NEW n, OpenForWrite(op, n) PROVE ClaimInv'
  <2>1. wr'.pc = "read" /\ wr'.rec = rec /\ wr'.new = NoRec
    BY <1>5, NoType DEF OpenForWrite, Writer, NoWr
  <2>2. Present(rec) /\ UNCHANGED <<rec, disk, file, eng, rty, clock, nfid, raced>>
    BY ZenonT(60), <1>5 DEF OpenForWrite, store, history
  <2>3. Handed' /\ Target'
    BY SMTT(60), <2>1, <2>2 DEF ClaimInv, Handed, Target
  <2>4. ~raced' => Backed' /\ EngineCopy' /\ WriterCopy' /\ Claimed'
    BY ZenonT(60), <1>5, <2>1, <2>2
    DEF OpenForWrite, LockFree, ClaimInv, Backed, EngineCopy, WriterCopy, Claimed, Reach
  <2> QED
    BY <2>3, <2>4 DEF ClaimInv
<1>6. ASSUME NEW op, NEW n, StageForWrite(op, n) PROVE ClaimInv'
  <2>1. clock + 1 \in 0 .. MaxClock /\ nfid + 1 \in 0 .. MaxFid
    BY SMTT(60), <1>6, NextStamp, BoundsAssumption DEF StageForWrite, TypeOK, TypeWorld
  <2>2. PICK c \in Content :
          LET r == NewRec(nfid + 1, Len(c), clock + 1) IN
          /\ rec' = r /\ disk' = r /\ file' = Put(file, nfid + 1, c)
          /\ wr' = [NoWr EXCEPT !.pc = "read", !.op = op, !.rec = r, !.at = n]
    <3>1. FinalData \subseteq Content
      BY DEF FinalData, Finals, TypeOK, TypeWorld
    <3> QED
      BY ZenonT(60), <1>6, <3>1, EmptyContent DEF StageForWrite
  <2>3. wr'.pc = "read" /\ wr'.rec = rec' /\ wr'.new = NoRec
    BY <2>2, NoType DEF Writer, NoWr
  <2>4. /\ DOMAIN file' \subseteq DOMAIN file \cup {nfid + 1}
        /\ nfid + 1 \in DOMAIN file' /\ file'[nfid + 1] = c
    BY <2>2 DEF Put
  <2> QED
    BY ZenonT(60), <1>1, <1>6, <2>1, <2>2, <2>3, <2>4 DEF StageForWrite
<1>7. CASE WriteTarget
  <2>1. CASE InPlace
    <3>1. /\ wr'.pc = "target" /\ wr'.op = wr.op /\ wr'.rec = wr.rec /\ wr'.new = wr.new
          /\ wr'.at = wr.at /\ wr.pc = "read"
          /\ UNCHANGED <<rec, disk, file, eng, rty, clock, nfid>> /\ raced' = raced
      BY <1>7, <2>1 DEF WriteTarget, Writer, TypeOK, TypeHistory
    <3>2. Handed'
      BY ZenonT(60), <3>1 DEF ClaimInv, Handed
    <3>3. Target'
      BY ZenonT(60), <2>1, <3>1, RecordType DEF Target, InPlace, AppendsToFrozen
    <3>4. ~raced' => Backed' /\ EngineCopy' /\ WriterCopy' /\ Claimed'
      BY ZenonT(60), <3>1 DEF ClaimInv, Backed, EngineCopy, WriterCopy, Claimed, Reach
    <3> QED
      BY ZenonT(60), <3>2, <3>3, <3>4 DEF ClaimInv
  <2>2. CASE ~InPlace /\ Reusable
    <3>1. /\ rec' = [rec EXCEPT !.frozen = FALSE, !.hash = {}, !.stamp = clock + 1]
          /\ wr' = [wr EXCEPT !.pc = "target", !.rec = rec'] /\ clock' = clock + 1 /\ Tick
          /\ ~TxHeld /\ wr.pc = "read"
          /\ UNCHANGED <<disk, file, nfid, eng, rty>> /\ raced' = raced
      BY ZenonT(60), <1>7, <2>2 DEF WriteTarget, TypeOK, TypeHistory
    <3>2. rec'.fid = rec.fid /\ rec'.size = rec.size /\ rec'.stamp = clock + 1 /\ ~rec'.frozen
      BY <3>1 DEF Record
    <3>3. wr'.pc = "target" /\ wr'.rec = rec' /\ wr'.new = wr.new
      BY <3>1 DEF Writer
    <3>4. Handed'
      <4>1. \A f \in DOMAIN file' : f <= nfid
        BY ZenonT(60), <3>1 DEF ClaimInv, Handed
      <4> QED
        BY ZenonT(60), <1>2, <3>1, <3>2, <3>3, <4>1
    <3>5. Target'
      BY ZenonT(60), <3>2, <3>3 DEF Target
    <3>6. ASSUME ~raced' PROVE Backed' /\ EngineCopy' /\ WriterCopy' /\ Claimed'
      <4>1. Present(rec) /\ rec.fid \in DOMAIN file
        BY <3>1, <3>6 DEF ClaimInv, WriterCopy, Backed
      <4>2. Backed' /\ EngineCopy'
        BY ZenonT(60), <1>3, <3>1, <3>2, <3>6, <4>1
      <4>3. WriterCopy'
        BY ZenonT(60), <3>2, <3>3, <4>1 DEF WriterCopy, Present
      <4>4. Claimed'
        BY ZenonT(60), <2>2, <3>1, <3>2, <3>6, <4>1 DEF ClaimInv, Claimed, Reusable
      <4> QED
        BY ZenonT(60), <4>2, <4>3, <4>4
    <3> QED
      BY <3>4, <3>5, <3>6 DEF ClaimInv
  <2>3. CASE ~InPlace /\ ~Reusable
    <3>1. clock + 1 \in 0 .. MaxClock /\ nfid + 1 \in 0 .. MaxFid
      BY ZenonT(60), <1>7, <2>3, NextStamp, BoundsAssumption DEF WriteTarget, TypeOK, TypeWorld
    <3>2. PICK c \in Content :
            LET r == NewRec(nfid + 1, Len(c), clock + 1) IN
            /\ rec' = r /\ disk' = r /\ file' = Put(file, nfid + 1, c)
            /\ wr' = [wr EXCEPT !.pc = "target", !.rec = r]
      BY ZenonT(60), <1>7, <2>3, EmptyContent DEF WriteTarget, TypeOK, TypeStore
    <3>3. wr'.pc = "target" /\ wr'.rec = rec' /\ wr'.new = wr.new
      BY <3>2 DEF Writer
    <3>4. /\ DOMAIN file' \subseteq DOMAIN file \cup {nfid + 1}
          /\ nfid + 1 \in DOMAIN file' /\ file'[nfid + 1] = c
      BY ZenonT(60), <3>2 DEF Put
    <3> QED
      BY ZenonT(60), <1>1, <1>7, <2>3, <3>1, <3>2, <3>3, <3>4 DEF WriteTarget
  <2> QED
    BY <2>1, <2>2, <2>3
<1>8. CASE WriteFile
  <2> DEFINE f == wr.rec.fid
             c == IF f \in DOMAIN file THEN file[f] ELSE <<>>
  <2>1. c \in Content
    BY EmptyContent DEF TypeOK, TypeStore
  <2>2. /\ file' = Put(file, f, Patch(c, wr.at, clock + 1)) /\ wr' = [wr EXCEPT !.pc = "wrote"]
        /\ wr.pc = "target" /\ UNCHANGED <<rec, disk, eng, rty, clock, nfid, raced>>
    BY <1>8 DEF WriteFile
  <2>3. wr'.pc = "wrote" /\ wr'.op = wr.op /\ wr'.rec = wr.rec /\ wr'.new = wr.new /\ wr'.at = wr.at
    BY ZenonT(60), <2>2 DEF Writer
  <2>4. /\ Len(Patch(c, wr.at, clock + 1)) \in Nat /\ Len(c) \in Nat
        /\ Len(Patch(c, wr.at, clock + 1)) = Larger(Len(c), wr.at + 1)
    BY <2>1 DEF Patch, Larger, Content
  <2>5. /\ DOMAIN file' = DOMAIN file \cup {f} /\ file'[f] = Patch(c, wr.at, clock + 1)
        /\ \A x \in DOMAIN file : x # f => file'[x] = file[x]
        /\ f \in DOMAIN file => c = file[f]
    BY <2>2 DEF Put
  <2> HIDE DEF c
  <2>6. Handed'
    BY <2>2, <2>3, <2>5 DEF ClaimInv, Handed
  <2>7. Target'
    BY ZenonT(60), <2>2, <2>3 DEF ClaimInv, Target
  <2>8. ASSUME ~raced' PROVE Backed' /\ EngineCopy' /\ WriterCopy' /\ Claimed'
    <3>1. Backed /\ EngineCopy /\ WriterCopy /\ Claimed
      BY <2>2, <2>8 DEF ClaimInv
    <3>2. rec.fid = f /\ f \in DOMAIN file /\ Present(rec)
      BY ZenonT(60), <2>2, <3>1 DEF WriterCopy, Backed
    <3>3. Backed' /\ EngineCopy' /\ WriterCopy'
      BY ZenonT(60), <2>2, <2>3, <2>5, <3>1, <3>2 DEF Backed, EngineCopy, WriterCopy, Same, Present
    <3>4. Reach = rec.size /\ Reach' = Larger(rec.size, wr.at + 1) /\ rec.size \in Nat
      BY SMTT(60), <2>2, <2>3, RecordType DEF Reach
    <3>5. rec.size <= Reach' /\ (Len(c) <= rec.size => Len(file'[f]) <= Reach')
      BY SMTT(60), <2>4, <2>5, <3>4 DEF Larger
    <3>6. eng.rec.size \in Nat /\ Reach' \in Nat
      BY SMTT(60), <3>4, RecordType DEF Larger
    <3>7. Claimed'
      BY SMTT(60), <2>2, <2>5, <3>1, <3>2, <3>4, <3>5, <3>6 DEF Claimed
    <3> QED
      BY <3>3, <3>7
  <2> QED
    BY ZenonT(60), <2>6, <2>7, <2>8 DEF ClaimInv
<1>9. CASE WriteUpdate
  <2>1. /\ rec' = [wr.rec EXCEPT !.size = Larger(wr.rec.size, wr.at + 1), !.stamp = clock + 1]
        /\ wr' = NoWr /\ clock' = clock + 1 /\ Tick /\ wr.pc = "wrote"
        /\ UNCHANGED <<disk, file, eng, rty, nfid>>
        /\ ~raced' => ~raced /\ Same(rec, wr.rec)
    BY ZenonT(60), <1>9 DEF WriteUpdate, TypeOK, TypeHistory
  <2>2. /\ rec'.fid = wr.rec.fid /\ rec'.size = Larger(wr.rec.size, wr.at + 1)
        /\ rec'.stamp = clock + 1 /\ rec'.frozen = wr.rec.frozen /\ rec'.started = wr.rec.started
    BY <2>1 DEF Record
  <2>3. Handed'
    <3>1. \A f \in DOMAIN file' : f <= nfid
      BY <2>1 DEF ClaimInv, Handed
    <3> QED
      BY ZenonT(60), <1>2, <2>1, <2>2, <3>1
  <2>4. Target'
    BY ZenonT(60), <2>1 DEF Target
  <2>5. ASSUME ~raced' PROVE Backed' /\ EngineCopy' /\ WriterCopy' /\ Claimed'
    <3>1. Backed /\ WriterCopy /\ Claimed /\ Target /\ ~raced
      BY <2>1, <2>5 DEF ClaimInv
    <3>2. /\ Present(rec) /\ rec.fid = wr.rec.fid /\ rec.size = wr.rec.size
          /\ rec.frozen = wr.rec.frozen /\ rec.fid \in DOMAIN file
      BY ZenonT(60), <2>1, <3>1 DEF WriterCopy, Backed
    <3>3. Backed' /\ EngineCopy'
      BY ZenonT(60), <1>3, <2>1, <2>2, <2>5, <3>1, <3>2
    <3>4. WriterCopy'
      BY <2>1 DEF WriterCopy
    <3>5. Reach' = Reach
      BY ZenonT(60), <2>1, <2>2, <3>2 DEF Reach
    <3>6. Claimed'
      BY ZenonT(60), <2>1, <2>2, <3>1, <3>2, <3>5 DEF Claimed, Target
    <3> QED
      BY ZenonT(60), <3>3, <3>4, <3>6
  <2> QED
    BY <2>3, <2>4, <2>5 DEF ClaimInv
<1>10. CASE TruncateFile
  <2> DEFINE f == wr.rec.fid
             r == [wr.rec EXCEPT !.size = wr.at, !.stamp = clock + 1]
  <2>1. /\ wr' = NoWr /\ ~TxHeld /\ wr.pc = "target" /\ wr.op = "truncate"
        /\ UNCHANGED <<eng, rty, nfid>>
        /\ ~raced' => ~raced
    BY <1>10 DEF TruncateFile, TypeOK, TypeHistory
  <2>2. DOMAIN file' = DOMAIN file \cup {f}
    BY ZenonT(60), <1>10 DEF TruncateFile, Put
  <2>3. \A x \in DOMAIN file' : x <= nfid
    BY ZenonT(60), <2>2 DEF ClaimInv, Handed
  <2>4. Target'
    BY ZenonT(60), <2>1 DEF Target
  <2>5. ~raced => Backed /\ EngineCopy /\ Present(rec) /\ rec.fid = f /\ ~rec.frozen
                  /\ (eng.pc \in Streaming => rec.fid # eng.rec.fid)
    BY ZenonT(60), <2>1 DEF ClaimInv, WriterCopy, Target, Claimed
  <2>6. CASE UNCHANGED <<rec, disk, raced, clock>>
    <3>1. Handed'
      BY SMTT(60), <2>1, <2>3, <2>6 DEF ClaimInv, Handed
    <3>2. ~raced' => Backed' /\ EngineCopy' /\ WriterCopy' /\ Claimed'
      BY ZenonT(60), <2>1, <2>2, <2>5, <2>6 DEF Backed, EngineCopy, WriterCopy, Claimed, Reach,
           Same, Present
    <3> QED
      BY ZenonT(60), <2>4, <3>1, <3>2 DEF ClaimInv
  <2>7. CASE ~UNCHANGED <<rec, disk, raced, clock>>
    <3>1. rec' = r /\ disk' = Journaled(r) /\ clock' = clock + 1 /\ Tick
      BY <1>10, <2>7 DEF TruncateFile
    <3>2. /\ r.fid = f /\ r.size = wr.at /\ r.stamp = clock + 1
          /\ Journaled(r).fid = f /\ Journaled(r).size = wr.at /\ Journaled(r).stamp = clock + 1
      BY ZenonT(60) DEF Record, Journaled
    <3> HIDE DEF r
    <3>3. Handed'
      BY ZenonT(60), <1>2, <2>1, <2>3, <3>1, <3>2
    <3>4. ~raced' => Backed' /\ EngineCopy'
      BY ZenonT(60), <1>3, <2>1, <2>2, <2>5, <3>1, <3>2
    <3>5. ~raced' => WriterCopy' /\ Claimed'
      BY ZenonT(60), <2>1, <2>5, <3>1, <3>2 DEF WriterCopy, Claimed
    <3> QED
      BY ZenonT(60), <2>4, <3>3, <3>4, <3>5 DEF ClaimInv
  <2> QED
    BY ZenonT(60), <2>6, <2>7
<1>11. CASE FlushRead
  <2> DEFINE n == Len(file[rec.fid])
             h == HashSnapshot(rec.fid, n)
             r == [rec EXCEPT !.size = n, !.frozen = TRUE, !.hash = IF h = {} THEN @ ELSE h]
  <2>1. /\ wr' = [NoWr EXCEPT !.pc = "flush", !.op = "flush", !.rec = rec, !.new = r]
        /\ Present(rec) /\ rec.fid \in DOMAIN file /\ LockFree
        /\ UNCHANGED <<rec, disk, file, eng, rty, clock, nfid, raced>>
    BY ZenonT(60), <1>11 DEF FlushRead, store, history
  <2>2. /\ r.fid = rec.fid /\ r.size = n /\ r.frozen /\ r.started = rec.started
    BY DEF Record
  <2> HIDE DEF r
  <2>3. wr'.pc = "flush" /\ wr'.rec = rec /\ wr'.new = r
    BY ZenonT(60), <2>1 DEF NoWr
  <2>4. Handed' /\ Target'
    BY ZenonT(60), <2>1, <2>2, <2>3 DEF ClaimInv, Handed, Target
  <2>6. ~raced' => Backed' /\ EngineCopy' /\ Claimed'
    BY ZenonT(60), <2>1, <2>3 DEF ClaimInv, Backed, EngineCopy, Claimed, Reach, LockFree
  <2>7. ~raced' => WriterCopy'
    BY ZenonT(60), <2>1, <2>2, <2>3 DEF WriterCopy
  <2> QED
    BY ZenonT(60), <2>4, <2>6, <2>7 DEF ClaimInv
<1>12. CASE FlushIgnored
  <2>1. UNCHANGED <<rec, disk, file, eng, wr, rty, clock, nfid, raced>>
    BY ZenonT(60), <1>12 DEF FlushIgnored, store
  <2> QED
    BY ZenonT(60), <2>1, ClaimSame
<1>13. CASE FlushSave
  <2>1. CASE UNCHANGED <<rec, disk, file, raced, clock>>
    <3>1. UNCHANGED <<eng, rty, nfid>> /\ wr' = NoWr /\ wr.pc = "flush"
      BY ZenonT(60), <1>13 DEF FlushSave
    <3> QED
      BY ZenonT(60), <2>1, <3>1, ClaimSame
  <2>2. CASE ~UNCHANGED <<rec, disk, file, raced, clock>>
    <3> DEFINE r == [wr.new EXCEPT !.stamp = clock + 1]
    <3>1. /\ rec' = r /\ disk' = Journaled(r) /\ file' = Displaced(file, sched, r.fid, r)
          /\ wr.pc = "flush" /\ Tick /\ ~TxHeld /\ wr' = NoWr /\ clock' = clock + 1
          /\ UNCHANGED <<eng, rty, nfid>>
          /\ ~raced' => ~raced /\ Same(rec, wr.rec) /\ rec.started = wr.rec.started
      BY ZenonT(60), <1>13, <2>2 DEF FlushSave, TypeOK, TypeHistory
    <3>2. /\ r.fid = wr.new.fid /\ r.size = wr.new.size /\ r.stamp = clock + 1
          /\ r.frozen = wr.new.frozen /\ r.started = wr.new.started
          /\ Journaled(r).fid = r.fid /\ Journaled(r).size = r.size
          /\ Journaled(r).stamp = r.stamp
      BY ZenonT(60) DEF Record, Journaled
    <3> HIDE DEF r
    <3>3. /\ DOMAIN file' \subseteq DOMAIN file /\ \A x \in DOMAIN file' : file'[x] = file[x]
          /\ r.fid \in DOMAIN file => r.fid \in DOMAIN file'
      BY ZenonT(60), <3>1 DEF Displaced, Unreferenced, Drop
    <3>4. Handed'
      <4>1. \A x \in DOMAIN file' : x <= nfid
        BY ZenonT(60), <3>3 DEF ClaimInv, Handed
      <4> QED
        BY ZenonT(60), <1>2, <3>1, <3>2, <4>1
    <3>5. Target'
      BY ZenonT(60), <3>1 DEF Target
    <3>6. ASSUME ~raced' PROVE Backed' /\ EngineCopy' /\ WriterCopy' /\ Claimed'
      <4>1. WriterCopy /\ Claimed /\ Backed /\ ~raced
        BY ZenonT(60), <3>1, <3>6 DEF ClaimInv
      <4>2. /\ Present(rec) /\ rec.fid = r.fid /\ r.frozen /\ r.size = Len(file[rec.fid])
            /\ r.started = rec.started /\ rec.fid \in DOMAIN file
        BY ZenonT(60), <3>1, <3>2, <3>6, <4>1 DEF WriterCopy, Backed
      <4>3. Backed' /\ EngineCopy'
        BY ZenonT(60), <1>3, <3>1, <3>2, <3>3, <3>6, <4>1, <4>2
      <4>4. WriterCopy'
        BY ZenonT(60), <3>1 DEF WriterCopy
      <4>5. Len(file'[rec'.fid]) <= Reach'
        <5>1. Reach' = r.size /\ rec' = r
          BY ZenonT(60), <3>1 DEF Reach
        <5>2. file'[r.fid] = file[rec.fid]
          <6>1. r.fid \in DOMAIN file'
            BY ZenonT(60), <3>3, <4>2
          <6>2. file'[r.fid] = file[r.fid]
            BY ZenonT(60), <3>3, <6>1
          <6> QED
            BY ZenonT(60), <4>2, <6>2
        <5>3. rec'.size \in 0 .. MaxSize
          BY ZenonT(60), RecordType
        <5>4. Len(file'[rec'.fid]) = rec'.size /\ Reach' = rec'.size
          BY ZenonT(60), <4>2, <5>1, <5>2
        <5> QED
          BY <5>3, <5>4
      <4>6. Claimed'
        BY ZenonT(60), <3>1, <4>1, <4>2, <4>5 DEF Claimed
      <4> QED
        BY ZenonT(60), <4>3, <4>4, <4>6
    <3> QED
      BY ZenonT(60), <3>4, <3>5, <3>6 DEF ClaimInv
  <2> QED
    BY ZenonT(60), <2>1, <2>2
<1>14. CASE RetryRead
  <2>1. rty' = rec /\ UNCHANGED <<rec, disk, file, eng, wr, clock, nfid, raced>>
    BY ZenonT(60), <1>14 DEF RetryRead, store, history
  <2> QED
    BY ZenonT(60), <2>1, ClaimSame
<1>15. CASE RetrySave
  <2> DEFINE r == [rty EXCEPT !.fail = FALSE, !.stamp = clock + 1]
  <2>1. /\ rec' = r /\ disk' = Journaled(r) /\ Tick /\ ~TxHeld /\ rty' = NoRec
        /\ clock' = clock + 1 /\ UNCHANGED <<file, eng, wr, nfid>>
        /\ ~raced' => ~raced /\ Same(rec, rty) /\ rec.frozen = rty.frozen /\ rec.started = rty.started
    BY ZenonT(60), <1>15 DEF RetrySave, TypeOK, TypeHistory
  <2>2. /\ r.fid = rty.fid /\ r.size = rty.size /\ r.stamp = clock + 1
        /\ r.frozen = rty.frozen /\ r.started = rty.started
        /\ Journaled(r).fid = r.fid /\ Journaled(r).size = r.size /\ Journaled(r).stamp = r.stamp
    BY ZenonT(60) DEF Record, Journaled
  <2> HIDE DEF r
  <2>3. Handed'
    <3>1. \A x \in DOMAIN file' : x <= nfid
      BY ZenonT(60), <2>1 DEF ClaimInv, Handed
    <3> QED
      BY ZenonT(60), <1>2, <2>1, <2>2, <3>1
  <2>4. Target'
    BY ZenonT(60), <2>1 DEF ClaimInv, Target
  <2>5. ASSUME ~raced' PROVE Backed' /\ EngineCopy' /\ WriterCopy' /\ Claimed'
    <3>1. WriterCopy /\ Claimed /\ Backed /\ ~raced
      BY ZenonT(60), <2>1, <2>5 DEF ClaimInv
    <3>2. /\ Present(rec) /\ rec.fid = r.fid /\ rec.size = r.size /\ rec.frozen = r.frozen
          /\ rec.started = r.started
      BY ZenonT(60), <2>1, <2>2, <2>5 DEF Same
    <3>3. rec.fid \in DOMAIN file /\ Reach' = Reach
      BY ZenonT(60), <2>1, <3>1, <3>2 DEF Backed, Reach
    <3>4. Backed' /\ EngineCopy'
      BY ZenonT(60), <1>3, <2>1, <2>2, <2>5, <3>1, <3>2, <3>3
    <3>5. WriterCopy' /\ Claimed'
      BY ZenonT(60), <2>1, <3>1, <3>2, <3>3 DEF WriterCopy, Claimed, Present
    <3> QED
      BY ZenonT(60), <3>4, <3>5
  <2> QED
    BY ZenonT(60), <2>3, <2>4, <2>5 DEF ClaimInv
<1>16. CASE Discard
  <2>1. /\ rec' = NoRec /\ disk' = NoRec /\ file' = Drop(file, rec.fid) /\ ~TxHeld
        /\ UNCHANGED <<eng, wr, rty, clock, nfid>> /\ (~raced' => ~raced /\ LockFree)
    BY ZenonT(60), <1>16 DEF Discard, TypeOK, TypeHistory
  <2>2. DOMAIN file' \subseteq DOMAIN file
    BY ZenonT(60), <2>1 DEF Drop
  <2>3. NoRec.stamp = 0 /\ ~Present(NoRec)
    BY ZenonT(60) DEF NoRec, Present
  <2>4. Handed'
    <3>1. Handed /\ UNCHANGED <<eng, wr, rty, clock, nfid>>
      BY ZenonT(60), <2>1 DEF ClaimInv
    <3>2. /\ rec'.fid = 0 /\ disk'.fid = 0 /\ rec'.stamp = 0 /\ disk'.stamp = 0
      BY ZenonT(60), <2>1, <2>3
    <3> QED
      BY SMTT(60), <2>2, <3>1, <3>2 DEF Handed
  <2>6. Target'
    BY ZenonT(60), <2>1 DEF ClaimInv, Target
  <2>5. ~raced' => Backed' /\ EngineCopy' /\ WriterCopy' /\ Claimed'
    BY ZenonT(60), <2>1, <2>3 DEF Backed, EngineCopy, WriterCopy, Claimed, LockFree, TxHeld, Same
  <2> QED
    BY ZenonT(60), <2>4, <2>5, <2>6 DEF ClaimInv
<1>17. CASE WriteFails
  <2>1. /\ wr' = NoWr /\ wr.pc \in {"read", "target"}
        /\ UNCHANGED <<rec, disk, file, eng, rty, clock, nfid, raced>>
    BY ZenonT(60), <1>17 DEF WriteFails, store, history
  <2> QED
    BY ZenonT(60), <2>1, ClaimSame
<1> QED
  BY ZenonT(60), <1>4, <1>5, <1>6, <1>7, <1>8, <1>9, <1>10, <1>11, <1>12, <1>13, <1>14, <1>15, <1>16, <1>17
  DEF UserStep

\* A crash keeps the journaled record and its staging file, and no actor holds a
\* copy of a record afterwards.
LEMMA ClaimCrash == TypeOK /\ TypeOK' /\ ClaimInv /\ CrashAndResume => ClaimInv'
<1> SUFFICES ASSUME TypeOK, TypeOK', ClaimInv, CrashAndResume PROVE ClaimInv'
  BY SMTT(60)
<1>1. /\ NoRec.fid = 0 /\ NoRec.stamp = 0 /\ ~Present(NoRec) /\ NoWr.rec = NoRec
      /\ NoWr.new = NoRec /\ NoWr.pc = "idle" /\ NoEng.rec = NoRec /\ NoEng.next = NoRec
      /\ NoEng.pc = "idle" /\ NoRec \in Record
  BY ZenonT(60), NoType DEF NoRec, NoWr, NoEng, Present
<1>2. clock \in Nat /\ nfid \in Nat /\ disk \in Record
  BY ZenonT(60), CountersNat DEF TypeOK, TypeStore
<1> DEFINE r == Resumed(Loaded, clock + 1)
<1>3. /\ rec' = r /\ disk' = r /\ file' = [f \in DOMAIN file \cap {r.fid} |-> file[f]]
      /\ eng' = NoEng /\ wr' = NoWr /\ rty' = NoRec /\ clock' = clock + 1
      /\ UNCHANGED <<nfid, raced>>
  BY ZenonT(60), <1>1 DEF CrashAndResume
<1>4. /\ Loaded \in Record /\ Loaded \in {disk, NoRec}
      /\ Present(Loaded) => Loaded.fid \in DOMAIN file
  BY ZenonT(60), <1>1, <1>2 DEF Loaded, Present
<1>5. /\ r.fid = Loaded.fid
      /\ r.stamp \in {Loaded.stamp, clock + 1}
  <2>1. CASE r = Loaded
    BY <2>1
  <2>2. CASE r = [Loaded EXCEPT !.fail = TRUE, !.stamp = clock + 1]
    BY ZenonT(60), <1>4, <2>2 DEF Record
  <2>3. CASE r = [Loaded EXCEPT !.size = Len(file[Loaded.fid]), !.hash = {}, !.frozen = FALSE,
                                !.stamp = clock + 1]
    BY ZenonT(60), <1>4, <2>3 DEF Record
  <2> QED
    BY ZenonT(60), <2>1, <2>2, <2>3 DEF Resumed
<1> HIDE DEF r
<1>6. Loaded.fid <= nfid /\ Loaded.stamp <= clock /\ Loaded.stamp \in Nat
  BY SMTT(60), <1>1, <1>2, <1>4, RecordType DEF ClaimInv, Handed
<1>7. Handed'
  <2>1. \A f \in DOMAIN file' : f <= nfid
    BY ZenonT(60), <1>3 DEF ClaimInv, Handed
  <2> QED
    BY SMTT(60), <1>1, <1>2, <1>3, <1>5, <1>6, <2>1 DEF Handed
<1>8. Target' /\ EngineCopy' /\ WriterCopy' /\ Claimed'
  BY <1>1, <1>3 DEF Target, EngineCopy, WriterCopy, Claimed, Streaming
<1>9. Present(r) => r.fid \in DOMAIN file'
  BY ZenonT(60), <1>3, <1>4, <1>5 DEF Present
<1>10. ~raced' => Backed'
  BY ZenonT(60), <1>1, <1>3, <1>9 DEF Backed, Present
<1> QED
  BY ZenonT(60), <1>7, <1>8, <1>10 DEF ClaimInv

\* Every step, stuttering included, preserves the invariant.
LEMMA ClaimNext == TypeOK /\ TypeOK' /\ ClaimInv /\ [Next]_vars => ClaimInv'
<1>1. ASSUME TypeOK, ClaimInv, UNCHANGED vars PROVE ClaimInv'
  <2>1. UNCHANGED <<rec, disk, file, eng, wr, rty, clock, nfid, raced>>
    BY ZenonT(60), <1>1 DEF vars, store, history
  <2>2. nfid \in Nat
    BY <1>1, BoundsAssumption DEF TypeOK, TypeWorld
  <2> QED
    BY ZenonT(60), <1>1, <2>1, <2>2, ClaimSame
<1> QED
  BY ZenonT(60), <1>1, ClaimEngine, ClaimUser, ClaimCrash DEF Next

\* The claim discipline holds in every reachable state: the records the engine and
\* the write path hold agree with the stored one unless a stale copy was written
\* back, and a record an engine streams is frozen, claimed and at least as long.
THEOREM ClaimDiscipline == Spec => []ClaimInv
<1>1. Init => ClaimInv
  BY ClaimInit
<1>2. TypeOK /\ TypeOK' /\ ClaimInv /\ [Next]_vars => ClaimInv'
  BY ClaimNext
<1> QED
  BY <1>1, <1>2, TypeCorrect, PTL DEF Spec

=============================================================================
