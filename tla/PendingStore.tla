---------------------------- MODULE PendingStore ----------------------------
(***************************************************************************)
(* The durable store of pending uploads (pkg/vfs/upload/store.go): the     *)
(* record map and its fid index, the append-only journal with compaction,  *)
(* the staging files, what a crash leaves of them and what the next open   *)
(* rebuilds, and the offline prune of the journal.                         *)
(*                                                                         *)
(* One durable operation runs at a time (txMu).  It appends its intent,    *)
(* may compact, and only then changes memory; UpdateUploadTransient takes  *)
(* just the inner mutex and falls between those steps.                     *)
(*                                                                         *)
(* Flush, Create, Remove and Rename call the store under the path lock that *)
(* WriteAt takes too.  The upload engine (RecordUpload*, RemoveUpload-     *)
(* IfUnchanged), the task commands (Retry, Discard), Resume and a directory *)
(* rename do not.                                                          *)
(*                                                                         *)
(* A record is the generation (fid, LocalPath) it stages and its size; the *)
(* other fields are carried along unchanged.  A journal line is one JSON   *)
(* object; a line that does not parse is Garbage.                          *)
(***************************************************************************)
EXTENDS Integers, Sequences, FiniteSets

CONSTANTS
  Paths,       \* virtual paths
  Gens,        \* generations: fids, each with its own staging file
  Moved,       \* a directory rename: path below the old directory -> new path
  MaxSize,     \* largest staged file, in blocks
  MaxLines,    \* how many lines the journal may grow to
  CompactAt,   \* compactMaxEntries: an append that reaches it compacts
  MaxFaults,   \* how many journal writes may fail
  MaxCrashes,  \* how many times the process may stop and restart
  Requests,    \* the operations the environment may issue
  FaultKinds   \* the ways a journal write may fail

AllRequests ==
  {"save", "write", "remove", "discard", "finish", "subtree", "record", "copy", "rename", "rebase", "prune"}
AllFaults == {"refused", "partial", "unsynced", "torn", "compact"}

ASSUME StoreAssumption ==
  /\ MaxSize \in Nat \ {0} /\ MaxLines \in Nat /\ CompactAt \in Nat
  /\ MaxFaults \in Nat /\ MaxCrashes \in Nat
  /\ DOMAIN Moved \subseteq Paths /\ \A p \in DOMAIN Moved : Moved[p] \in Paths \ DOMAIN Moved
  /\ Requests \subseteq AllRequests /\ FaultKinds \subseteq AllFaults

VARIABLES
  up,       \* the process runs and has opened the store
  mem,      \* PendingStore.pending: path -> record
  idx,      \* PendingStore.idIndex: fid -> path
  jrn,      \* pending.jsonl
  nl,       \* the journal ends in a newline
  files,    \* staging directory: fid -> size, for the files that exist
  tx,       \* the durable operation that holds txMu
  held,     \* the copy of a record that Retry or Resume will save
  faults, crashes,
  want,     \* history: what completed operations and compactions made durable
  raced,    \* history: an operation without the path lock saved an outdated copy
  astray    \* history: a rename failed after its line was written, or succeeded
            \* and its line was compacted or pruned away, or a later line was lost

vars == <<up, mem, idx, jrn, nl, files, tx, held, faults, crashes, want, raced, astray>>

-----------------------------------------------------------------------------
(* Records, lines and replay.                                              *)

Absent == [gen |-> 0, size |-> 0]
Present(r) == r.gen # 0

Dirty(p, r) == [op |-> "dirty", path |-> p, rec |-> r, old |-> p, paths |-> {}]
Clean(p) == [op |-> "clean", path |-> p, rec |-> Absent, old |-> p, paths |-> {}]
CleanBatch(ps, p) == [op |-> "clean_batch", path |-> p, rec |-> Absent, old |-> p, paths |-> ps]
RenameLine(o, p, r) == [op |-> "rename", path |-> p, rec |-> r, old |-> o, paths |-> {}]
Garbage(p) == [op |-> "garbage", path |-> p, rec |-> Absent, old |-> p, paths |-> {}]

Staged(r) == r.gen \in DOMAIN files

\* mutant of ReplayLine: a rename leaves the old path behind
ReplayLineNoDelete(m, l) ==
  CASE l.op = "dirty" -> IF Staged(l.rec) THEN [m EXCEPT ![l.path] = l.rec] ELSE m
    [] l.op = "clean" -> [m EXCEPT ![l.path] = Absent]
    [] l.op = "clean_batch" -> [p \in Paths |-> IF p \in l.paths THEN Absent ELSE m[p]]
    [] l.op = "rename" -> [m EXCEPT ![l.path] = l.rec]
    [] OTHER -> m

\* one line of loadJournal
ReplayLine(m, l) ==
  CASE l.op = "dirty" -> IF Staged(l.rec) THEN [m EXCEPT ![l.path] = l.rec] ELSE m
    [] l.op = "clean" -> [m EXCEPT ![l.path] = Absent]
    [] l.op = "clean_batch" -> [p \in Paths |-> IF p \in l.paths THEN Absent ELSE m[p]]
    [] l.op = "rename" -> [m EXCEPT ![l.old] = Absent, ![l.path] = l.rec]
    [] OTHER -> m

NoPending == [p \in Paths |-> Absent]

\* loadJournal
Replay(j) ==
  LET load[i \in 0 .. Len(j)] ==
        IF i = 0 THEN NoPending ELSE ReplayLine(load[i - 1], j[i])
  IN load[Len(j)]

Without(f, k) == [x \in DOMAIN f \ {k} |-> f[x]]
With(f, k, v) == [x \in DOMAIN f \cup {k} |-> IF x = k THEN v ELSE f[x]]

-----------------------------------------------------------------------------
(* The effect of an operation on memory.                                   *)

\* what saves do: saveUpload for the first two, the record operations of the
\* upload engine for the third
Saves == {"save", "copy", "record"}
Moves == {"rename", "rebase"}

Touched(t) == {t.line.path, t.line.old} \cup t.line.paths

\* RemoveUploadIfUnchanged looks at the record again before it deletes it
StillSame(m, t) == t.kind = "finish" => m[t.line.path] = t.snap[t.line.path]

\* memory after the operation: a save or a rename puts the record of its line
\* at the new path, a removal deletes
Outcome(m, t) ==
  [p \in Paths |->
     IF t.kind \in Saves \cup Moves /\ p = t.line.path THEN t.line.rec
     ELSE IF p \in Touched(t) /\ StillSame(m, t) THEN Absent
     ELSE m[p]]

\* the staging files the operation deletes: those of the records it removed
Dropped(t) ==
  IF t.kind \in {"remove", "discard", "finish", "subtree"} /\ StillSame(mem, t)
  THEN {t.snap[p].gen : p \in Touched(t)} ELSE {}

\* removeStagingLocked spares a file another record still uses
Kept(t) == IF t.kind = "finish" THEN {Outcome(mem, t)[p].gen : p \in Paths} ELSE {}

\* mutant of Reindexed: the fid of a renamed record is only deleted
ReindexedOldOnly(t) ==
  LET gone == {mem[p].gen : p \in Touched(t)} IN
  IF t.kind \in {"save", "copy"} THEN With(idx, t.line.rec.gen, t.line.path)
  ELSE [g \in DOMAIN idx \ gone |-> idx[g]]

\* idIndex after the operation: a save only adds its fid, the upload engine's
\* record operations leave the index alone
Reindexed(t) ==
  LET gone == {mem[p].gen : p \in Touched(t)} IN
  CASE t.kind \in {"save", "copy"} -> With(idx, t.line.rec.gen, t.line.path)
    [] t.kind = "record" -> idx
    [] t.kind \in Moves ->
         With([g \in DOMAIN idx \ gone |-> idx[g]], t.line.rec.gen, t.line.path)
    [] StillSame(mem, t) -> [g \in DOMAIN idx \ gone |-> idx[g]]
    [] OTHER -> idx

-----------------------------------------------------------------------------
(* The operations, each the holder of txMu from its first read to its      *)
(* return.                                                                 *)

SomePath == CHOOSE p \in Paths : TRUE
Idle == [pc |-> "idle", kind |-> "none", line |-> Garbage(SomePath), snap |-> NoPending, todo |-> {}]

\* an operation that starts from the records `seen`
BeginFrom(seen, kind, line, todo) ==
  /\ kind \in Requests /\ up /\ tx.pc = "idle" /\ Len(jrn) < MaxLines
  /\ tx' = [pc |-> "append", kind |-> kind, line |-> line, snap |-> seen, todo |-> todo]
  /\ raced' = (raced \/ seen # mem)
  /\ UNCHANGED <<up, mem, idx, jrn, nl, faults, crashes, want, astray>>

Begin(kind, line, todo) == BeginFrom(mem, kind, line, todo)

\* SaveUpload of the generation the path stages, or of a new one whose file
\* was created first
Save(p, g, n) ==
  /\ \/ g \in DOMAIN files /\ files[g] = n /\ mem[p].gen = g /\ UNCHANGED files
     \/ /\ g \notin DOMAIN files /\ \A i \in 1 .. Len(jrn) : jrn[i].rec.gen # g
        /\ files' = With(files, g, n)
  /\ Begin("save", Dirty(p, [gen |-> g, size |-> n]), {}) /\ UNCHANGED held

\* RecordUploadReplacementIfUnchanged, RecordUploadFailureIfUnchanged and
\* RecordUploadPermanentFailureIfUnchanged by an upload that still holds the
\* current record: only fields the model leaves out change
Record(p) ==
  Present(mem[p]) /\ Begin("record", Dirty(p, mem[p]), {}) /\ UNCHANGED <<files, held>>

NoCopy == [path |-> SomePath, was |-> Absent, rec |-> Absent]

\* Service.Retry (and failFrozenStaging) and the repair of Resume start from a
\* copy of the record; the repair takes the size from the file
TakeCopy(p) ==
  /\ "copy" \in Requests /\ up /\ held = NoCopy /\ Present(mem[p])
  /\ \E n \in {mem[p].size} \cup (IF Staged(mem[p]) THEN {files[mem[p].gen]} ELSE {}) :
       held' = [path |-> p, was |-> mem[p], rec |-> [mem[p] EXCEPT !.size = n]]
  /\ UNCHANGED <<up, mem, idx, jrn, nl, files, tx, faults, crashes, want, raced, astray>>

\* and save it with SaveUploadExact or SavePending
SaveCopy ==
  /\ Present(held.was) /\ held' = NoCopy
  /\ BeginFrom([mem EXCEPT ![held.path] = held.was], "copy", Dirty(held.path, held.rec), {})
  /\ UNCHANGED files

\* RemoveUpload, under the path lock (remove) or by a task command (discard)
Remove(p) ==
  /\ Present(mem[p])
  /\ \E kind \in {"remove", "discard"} : Begin(kind, Clean(p), {})
  /\ UNCHANGED <<files, held>>

\* RemoveUploadIfUnchanged by an upload that still holds the current record
Finish(p) ==
  Present(mem[p]) /\ Begin("finish", Clean(p), {}) /\ UNCHANGED <<files, held>>

Below == {p \in DOMAIN Moved : Present(mem[p])}

\* RemoveUploadsUnder
RemoveUnder ==
  /\ Below # {}
  /\ Begin("subtree", CleanBatch(Below, CHOOSE p \in Below : TRUE), {})
  /\ UNCHANGED <<files, held>>

\* RenameUpload, refused when the destination is taken
Rename(p, q) ==
  /\ p # q /\ Present(mem[p]) /\ ~Present(mem[q])
  /\ Begin("rename", RenameLine(p, q, mem[p]), {})
  /\ UNCHANGED <<files, held>>

\* RebaseUploadsUnder: every destination is checked first, then the records it
\* read at the start move one at a time
Rebase ==
  /\ \A p \in Below : ~Present(mem[Moved[p]])
  /\ \E p \in Below : Begin("rebase", RenameLine(p, Moved[p], mem[p]), Below \ {p})
  /\ UNCHANGED <<files, held>>

\* appendJournalLocked: a line written behind an unterminated one is part of it
Appended(l) ==
  IF nl THEN Append(jrn, l) ELSE [jrn EXCEPT ![Len(jrn)] = Garbage(l.path)]

\* only appendJournal, which saves and renames use, checks the watermark
AfterAppend(t) ==
  IF t.kind \in Saves \cup Moves /\ Len(jrn) + 1 >= CompactAt THEN "early" ELSE "apply"

Renamed == \E i \in DOMAIN jrn : jrn[i].op = "rename"

AppendLine ==
  /\ up /\ tx.pc = "append"
  /\ jrn' = Appended(tx.line) /\ nl' = TRUE
  /\ tx' = [tx EXCEPT !.pc = AfterAppend(tx)]
  /\ astray' = (astray \/ (~nl /\ Renamed))
  /\ UNCHANGED <<up, mem, idx, files, held, faults, crashes, want, raced>>

Fault(kind) == kind \in FaultKinds /\ faults < MaxFaults /\ faults' = faults + 1

\* what the write of a line leaves that did not complete: nothing, a prefix
\* (that may lack only the newline), or the line without the sync
Unwritten == UNCHANGED <<jrn, nl>>
Partly == jrn' = Appended(Garbage(tx.line.path)) /\ nl' = FALSE
Unterminated == jrn' = Appended(tx.line) /\ nl' = FALSE
Unsynced == jrn' = Appended(tx.line) /\ nl' = TRUE

\* history: the journal and the outcome of the operation differ
Strays == astray' = (astray \/ tx.kind \in Moves)

\* the append fails and the operation returns its error
AppendFails ==
  /\ up /\ tx.pc = "append" /\ tx' = Idle
  /\ \/ Fault("refused") /\ Unwritten /\ UNCHANGED astray
     \/ Fault("partial") /\ Partly /\ UNCHANGED astray
     \/ Fault("partial") /\ Unterminated /\ Strays
     \/ Fault("unsynced") /\ Unsynced /\ Strays
  /\ UNCHANGED <<up, mem, idx, files, held, crashes, want, raced>>

\* compactJournalLocked: one dirty line per record in memory, in map order
Compacted(m) ==
  LET live == {p \in Paths : Present(m[p])}
      order == CHOOSE f \in [1 .. Cardinality(live) -> live] : {f[i] : i \in DOMAIN f} = live
  IN [i \in 1 .. Cardinality(live) |-> Dirty(order[i], m[order[i]])]

Compact == jrn' = Compacted(mem) /\ nl' = TRUE /\ want' = mem

\* appendJournal compacts before the operation has changed memory, and returns
\* a failure of it
CompactEarly ==
  /\ up /\ tx.pc = "early"
  /\ \/ Compact /\ tx' = [tx EXCEPT !.pc = "apply"] /\ UNCHANGED faults
     \/ Fault("compact") /\ tx' = Idle /\ UNCHANGED <<jrn, nl, want>>
  /\ Strays
  /\ UNCHANGED <<up, mem, idx, files, held, crashes, raced>>

\* the next record of a rebase, or what follows the operation's last change
Advance(t) ==
  IF t.todo # {}
  THEN {[t EXCEPT !.pc = "append", !.line = RenameLine(p, Moved[p], t.snap[p]),
                  !.todo = @ \ {p}] : p \in t.todo}
  ELSE IF t.kind \in {"remove", "discard", "subtree", "rebase"} \/ (t.kind = "finish" /\ StillSame(mem, t))
  THEN {[t EXCEPT !.pc = "late"]}
  ELSE {Idle}

\* the record the operation started from has changed and it writes it back:
\* only the operations that hold no path lock may meet this
Outdated(t) ==
  t.kind \in {"record", "copy", "rebase"} /\ mem[t.line.old] # t.snap[t.line.old]

Apply ==
  /\ up /\ tx.pc = "apply"
  /\ mem' = Outcome(mem, tx)
  /\ idx' = Reindexed(tx)
  /\ files' = [g \in DOMAIN files \ (Dropped(tx) \ Kept(tx)) |-> files[g]]
  /\ want' = [p \in Paths |-> IF p \in Touched(tx) THEN mem'[p] ELSE want[p]]
  /\ tx' \in Advance(tx)
  /\ raced' = (raced \/ Outdated(tx))
  /\ UNCHANGED <<up, jrn, nl, held, faults, crashes, astray>>

\* the compaction after a removal or a rebase; its failure is only logged
CompactLate ==
  /\ up /\ tx.pc = "late" /\ tx' = Idle
  /\ \/ Compact /\ UNCHANGED faults
     \/ Fault("compact") /\ UNCHANGED <<jrn, nl, want>>
  /\ UNCHANGED <<up, mem, idx, files, held, crashes, raced, astray>>

-----------------------------------------------------------------------------
(* Steps beside the transactions.                                          *)

\* mutant of Excluded: writes take no lock
ExcludedNever(p) == FALSE

\* the path lock a save, a removal and a rename of the VFS are called under; a
\* directory removal excludes every write; the upload engine, a saved copy, a
\* discarded task and a directory rename exclude none
Excluded(p) ==
  tx.pc # "idle" /\ (tx.kind = "subtree" \/ (tx.kind \in {"save", "remove"} /\ p = tx.line.path)
                     \/ (tx.kind = "rename" /\ p = tx.line.old))

\* WriteAt past the end: the staging file grows and UpdateUploadTransient
\* replaces the record without journalling it
Write(p) ==
  /\ "write" \in Requests /\ up /\ Present(mem[p]) /\ ~Excluded(p)
  /\ Staged(mem[p]) /\ files[mem[p].gen] < MaxSize
  /\ files' = [files EXCEPT ![mem[p].gen] = @ + 1]
  /\ mem' = [mem EXCEPT ![p].size = files'[mem[p].gen]]
  /\ idx' = With(idx, mem[p].gen, p)
  /\ UNCHANGED <<up, jrn, nl, tx, held, faults, crashes, want, raced, astray>>

\* mutant of RemoveStagingIfUnreferenced: no reference check
RemoveStagingAnyway(g) ==
  /\ up /\ tx.pc = "idle" /\ g \in DOMAIN files
  /\ files' = Without(files, g)
  /\ UNCHANGED <<up, mem, idx, jrn, nl, tx, held, faults, crashes, want, raced, astray>>

RemoveStagingIfUnreferenced(g) ==
  /\ up /\ tx.pc = "idle" /\ g \in DOMAIN files /\ \A p \in Paths : mem[p].gen # g
  /\ files' = Without(files, g)
  /\ UNCHANGED <<up, mem, idx, jrn, nl, tx, held, faults, crashes, want, raced, astray>>

\* the process stops; a line it was writing may be there in part
Crash ==
  /\ up /\ crashes < MaxCrashes
  /\ up' = FALSE /\ crashes' = crashes + 1
  /\ \/ Unwritten /\ UNCHANGED faults
     \/ tx.pc = "append" /\ Unsynced /\ UNCHANGED faults
     \/ tx.pc = "append" /\ Fault("torn") /\ (Partly \/ Unterminated)
  /\ UNCHANGED <<mem, idx, files, tx, held, want, raced, astray>>

\* loadJournal rebuilds the index of the records it replayed
IdIndex(m) ==
  [g \in {m[p].gen : p \in Paths} \ {0} |-> CHOOSE p \in Paths : m[p].gen = g]

\* NewPendingStore
Open ==
  /\ ~up /\ up' = TRUE /\ tx' = Idle /\ held' = NoCopy
  /\ mem' = Replay(jrn) /\ want' = mem'
  /\ idx' = IdIndex(mem')
  /\ \/ Len(jrn) >= CompactAt /\ jrn' = Compacted(mem') /\ nl' = TRUE /\ UNCHANGED faults
     \/ Len(jrn) >= CompactAt /\ Fault("compact") /\ UNCHANGED <<jrn, nl>>
     \/ Len(jrn) < CompactAt /\ UNCHANGED <<jrn, nl, faults>>
  /\ files' = [g \in DOMAIN files \cap {mem'[p].gen : p \in Paths} |-> files[g]]
  /\ UNCHANGED <<crashes, raced, astray>>

\* one line of PruneUploadJournal, which knows dirty and clean lines only
PruneLine(m, l) ==
  CASE l.op = "dirty" -> [m EXCEPT ![l.path] = l.rec]
    [] l.op = "clean" -> [m EXCEPT ![l.path] = Absent]
    [] OTHER -> m

\* PruneUploadJournal, run on the journal of a stopped mount: records whose
\* file is gone or has another size are dropped
Prune ==
  LET load[i \in 0 .. Len(jrn)] == IF i = 0 THEN NoPending ELSE PruneLine(load[i - 1], jrn[i])
      whole(r) == Staged(r) /\ files[r.gen] = r.size
      final == load[Len(jrn)]
  IN
  /\ "prune" \in Requests /\ ~up
  /\ jrn' = Compacted([p \in Paths |-> IF whole(final[p]) THEN final[p] ELSE Absent])
  /\ nl' = TRUE
  /\ astray' = (astray \/ Renamed)
  /\ UNCHANGED <<up, mem, idx, files, tx, held, faults, crashes, want, raced>>

-----------------------------------------------------------------------------
Init ==
  /\ up = TRUE /\ mem = NoPending /\ idx = [g \in {} |-> SomePath]
  /\ jrn = <<>> /\ nl = TRUE /\ files = [g \in {} |-> 0] /\ tx = Idle
  /\ held = NoCopy /\ faults = 0 /\ crashes = 0
  /\ want = NoPending /\ raced = FALSE /\ astray = FALSE

Next ==
  \/ \E p \in Paths, g \in Gens, n \in 1 .. MaxSize : Save(p, g, n)
  \/ \E p \in Paths : Record(p) \/ TakeCopy(p) \/ Remove(p) \/ Finish(p) \/ Write(p)
  \/ SaveCopy
  \/ \E p, q \in Paths : Rename(p, q)
  \/ RemoveUnder \/ Rebase
  \/ AppendLine \/ AppendFails \/ CompactEarly \/ Apply \/ CompactLate
  \/ \E g \in Gens : RemoveStagingIfUnreferenced(g)
  \/ Crash \/ Open \/ Prune

Spec == Init /\ [][Next]_vars

-----------------------------------------------------------------------------
(* Properties.                                                             *)

Rec == [gen : Gens, size : 0 .. MaxSize] \cup {Absent}

\* The state is well formed: a record, a line and the index name known paths
\* and generations, and only the last line of the journal may be unterminated.
TypeOK ==
  /\ up \in BOOLEAN /\ nl \in BOOLEAN
  /\ mem \in [Paths -> Rec] /\ want \in [Paths -> Rec]
  /\ DOMAIN idx \subseteq Gens /\ \A g \in DOMAIN idx : idx[g] \in Paths
  /\ DOMAIN files \subseteq Gens /\ \A g \in DOMAIN files : files[g] \in 0 .. MaxSize
  /\ \A i \in 1 .. Len(jrn) : jrn[i].rec \in Rec /\ jrn[i].path \in Paths
  /\ Len(jrn) <= MaxLines + Cardinality(Paths) /\ (jrn = <<>> => nl)
  /\ tx.pc \in {"idle", "append", "early", "apply", "late"}
  /\ held.path \in Paths /\ held.was \in Rec /\ held.rec \in Rec
  /\ faults \in 0 .. MaxFaults /\ crashes \in 0 .. MaxCrashes
  /\ raced \in BOOLEAN /\ astray \in BOOLEAN

\* A crash at any point, between the append, a compaction, the change of memory
\* and the removal of staging files included, leaves a journal that replays to
\* the records before or after the operation in flight, and to exactly the
\* completed operations when there is none (saveUpload, RemoveUpload,
\* RemoveUploadsUnder, RemoveUploadIfUnchanged, RenameUpload,
\* RebaseUploadsUnder).
CrashAtomic ==
  \/ Replay(jrn) = want
  \/ /\ tx.pc \in {"append", "early", "apply"}
     /\ Replay(jrn) = [p \in Paths |-> IF p \in Touched(tx) THEN Outcome(mem, tx)[p] ELSE want[p]]

\* Neither memory nor the journal names a generation whose staging file was
\* removed: a record, the one a crash would bring back included, can always be
\* read and uploaded (RemoveStagingIfUnreferenced, the sweep of NewPendingStore
\* and the removals).  Two things end it: a rename that returned an error and
\* left its line behind, since the removal of the old path then deletes the file
\* the line names, and an outdated copy that brought a removed record back.
StagingKept ==
  ~astray /\ ~raced =>
    /\ up => \A p \in Paths : Present(mem[p]) => Staged(mem[p])
    /\ \A p \in Paths : Present(Replay(jrn)[p]) => Staged(Replay(jrn)[p])

\* A pending upload is found under its id whatever saves, renames, rebases,
\* removals and restarts came before (PendingByID, by which retry and cancel
\* address an upload), and no id finds another path's record.  An outdated copy
\* that brought a moved record back under its old path ends it, and so does a
\* rename gone astray: after the next save a restart finds the generation under
\* both paths.
PendingByIDExact ==
  up /\ ~raced /\ ~astray =>
    \A p \in Paths : Present(mem[p]) => mem[p].gen \in DOMAIN idx /\ idx[mem[p].gen] = p

\* The size in memory is the size of the staging file after any mix of writes,
\* saves, renames and removals that take the path lock, and of the operations
\* that take none as long as no write fell between the read and the write of the
\* same record by one of those: a growing write's transient record is never
\* replaced by an older one (UpdateUploadTransient beside the journalled
\* operations).  A growth is not journalled, so after a restart it is Resume that
\* has to compare the two.
SizeFollowsFile ==
  up /\ crashes = 0 /\ ~raced =>
    \A p \in Paths : Present(mem[p]) => mem[p].size = files[mem[p].gen]

\* "Journal commit FIRST: memory is only touched after the update is durable"
\* (saveUpload): with no operation in flight the journal replays to what the
\* completed operations wrote.
DurableBeforeMemory == up /\ tx.pc = "idle" => Replay(jrn) = want

\* "Replay the journal into the final per-path state, exactly like loadJournal"
\* (PruneUploadJournal): the pruned journal brings back the records the journal
\* brought back before, as long as their files are whole.
PruneLikeLoad ==
  ~up /\ tx.pc = "idle" =>
    \A p \in Paths : (Present(want[p]) => files[want[p].gen] = want[p].size)
                     => Replay(jrn)[p] = want[p]
=============================================================================
