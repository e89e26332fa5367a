-------------------------- MODULE ReadCacheStore --------------------------
(***************************************************************************)
(* The durable read cache (pkg/vfs/readcache, store.go and debounce.go) of *)
(* one file whose chunks share one batch file: the queue of asynchronous   *)
(* writes and its writer goroutine, the whole-file seeder (PutReader),     *)
(* invalidation, reads, clearing, the debounced save of the index, closing *)
(* and a restart after a crash.                                            *)
(*                                                                         *)
(* The cache key holds the file's id, size and modification time, so every *)
(* chunk has one right content; what can be wrong is a hole: a range of a  *)
(* batch file that was never written.  A file is modelled by the set of    *)
(* chunks that were written to it.                                         *)
(***************************************************************************)
EXTENDS Integers, Sequences, FiniteSets, SequencesExt, FiniteSetsExt

CONSTANTS
  Chunks,      \* the indices of the chunks, numbers
  Capacity,    \* max_size in chunks
  QueueSize,   \* readCacheWriteQueueSize
  Budgets      \* the operations one behaviour may contain: a set of records

Inodes == 1 .. 4       \* files with a name or an open descriptor
Objs == 1 .. 4         \* fileChunks objects in the table or held by an actor
None == 0

VARIABLES
  batch,      \* the inode the batch file's name refers to, or None
  data,       \* inode |-> the chunks written to it
  table,      \* the shard's fileChunks object of the file, or None
  chunks,     \* object |-> the indices it holds
  readBytes,  \* the counter, in chunks
  index,      \* the index file: the chunks it lists, {} when there is none
  save,       \* [dirty, armed, waiting]: readIndexDirty, the timer, a fired one
  flush,      \* the holder of readIndexSaveMu: [pc, snap, cleared]
  queue,      \* cacheWriteQueue
  inFlight,   \* cacheWritesInFlight
  wg,         \* cacheWriteWG
  writer,     \* runReadCacheWriter: [pc, all, todo, fd, fc, wrote, victims]
  seeder,     \* PutReader: [pc, fd, fc, victims]
  dropper,    \* InvalidateFile: [pc, fc, unlink]
  reader,     \* GetChunk: [pc, c, fc]
  closer,     \* Close, FlushReadCache and ClearReadCache: [pc, op]
  closed,     \* cacheWriteClosed
  left,       \* what remains of the budget
  served,     \* ghost: what the reader was served last
  tainted,    \* ghost: a batch file was unlinked under one who is using it, or a
              \* restart found the index listing chunks the memory had dropped
  lag         \* ghost: a save failed, or crossed a ClearReadCache

vars == <<batch, data, table, chunks, readBytes, index, save, flush, queue, inFlight,
          wg, writer, seeder, dropper, reader, closer, closed, left, served, tainted,
          lag>>

files == <<batch, data>>
memory == <<table, chunks, readBytes>>
actors == <<writer, seeder, dropper, reader, closer>>
intake == <<queue, inFlight, wg, closed>>
saving == <<index, save, flush>>
ghosts == <<left, served, tainted, lag>>

Idle == [pc |-> "idle", all |-> <<>>, todo |-> <<>>, fd |-> None, fc |-> None,
         wrote |-> FALSE, victims |-> {}]

Cached == IF table = None THEN {} ELSE chunks[table]

\* A read of chunk c in a file with the chunks D written to it.
Covered(c, D) == \E d \in D : d >= c

\* A file without a name and a descriptor is gone.
Released(i, name) == IF i \in {None, name} THEN data ELSE [data EXCEPT ![i] = {}]

FreeInode == Min(Inodes \ {batch, writer.fd, seeder.fd})
FreeObj == Min(Objs \ {table, writer.fc, seeder.fc, dropper.fc, reader.fc})

Spend(what) == left[what] > 0 /\ left' = [left EXCEPT ![what] = @ - 1]

(***************************************************************************)
(* scheduleReadIndexSave, in two steps: dirty is set under readIndexMu,    *)
(* the timer is armed after it is released.                                *)
(***************************************************************************)
MarkDirty == save' = [save EXCEPT !.dirty = TRUE]
Arm == save' = [save EXCEPT !.armed = TRUE]

\* The timer's function: the armed state is cleared, then the index flushed.
TimerFires ==
  /\ save.armed
  /\ save' = [save EXCEPT !.armed = FALSE, !.waiting = TRUE]
  /\ UNCHANGED <<files, memory, actors, intake, index, flush, ghosts>>

FlushStart ==
  /\ flush.pc = "off"
  /\ flush' = [pc |-> "loop", snap |-> {}, cleared |-> FALSE]

TimerFlush ==
  /\ save.waiting
  /\ FlushStart
  /\ save' = [save EXCEPT !.waiting = FALSE]
  /\ UNCHANGED <<files, memory, actors, intake, index, ghosts>>

\* One turn of FlushReadIndex: under readIndexMu the timer is stopped and dirty
\* is taken; then saveReadIndexNow takes its snapshot.
FlushLoop ==
  /\ flush.pc = "loop"
  /\ save' = [save EXCEPT !.armed = FALSE, !.dirty = FALSE]
  /\ flush' = IF ~save.dirty THEN [flush EXCEPT !.pc = "off"]
              ELSE [flush EXCEPT !.pc = "snapshot"]
  /\ UNCHANGED <<files, memory, actors, intake, index, ghosts>>

FlushSnapshot ==
  /\ flush.pc = "snapshot"
  /\ flush' = [flush EXCEPT !.pc = "save", !.snap = Cached, !.cleared = FALSE]
  /\ UNCHANGED <<files, memory, actors, intake, index, save, ghosts>>

\* writeFileAtomic: the index file is replaced by the snapshot, or the write
\* fails and the old file stays; either way the next turn follows.
FlushSave ==
  /\ flush.pc = "save"
  /\ \/ index' = flush.snap /\ lag' = flush.cleared /\ UNCHANGED left
     \/ Spend("faults") /\ lag' = TRUE /\ UNCHANGED index
  /\ flush' = [pc |-> "loop", snap |-> {}, cleared |-> FALSE]
  /\ UNCHANGED <<files, memory, actors, intake, save, served, tainted>>

(***************************************************************************)
(* PutChunkAsync and the writer goroutine.                                 *)
(***************************************************************************)
\* cacheWriteWGMu is held by a flush, a clear or the end of a close.
Locked == closer.pc \in {"wait", "undirty", "empty", "remove", "flush", "flushing"}

\* A chunk that is cached, in flight or does not fit the queue is dropped, and
\* so is every one after Close.  WaitReadCacheWrites, FlushReadCache and
\* ClearReadCache hold cacheWriteWGMu while they wait: the caller blocks.
PutChunkAsync(c) ==
  /\ Spend("puts")
  /\ c \notin Cached
  /\ ~Locked /\ ~closed
  /\ c \notin inFlight
  /\ Len(queue) < QueueSize
  /\ queue' = Append(queue, c)
  /\ inFlight' = inFlight \cup {c}
  /\ wg' = wg + 1
  /\ UNCHANGED <<files, memory, actors, closed, saving, served, tainted, lag>>

\* The writer takes what is queued (readCacheWriteBatchLimit is not reached).
WriterTake ==
  /\ writer.pc = "idle" /\ queue # <<>>
  /\ writer' = [Idle EXCEPT !.pc = "open", !.all = queue, !.todo = queue]
  /\ queue' = <<>>
  /\ UNCHANGED <<files, memory, seeder, dropper, reader, closer, inFlight, wg, closed,
                 saving, ghosts>>

\* A variant that goes back to the queue when the file cannot be opened.
WriterOpenGivesUp ==
  /\ writer.pc = "open"
  /\ \/ /\ batch' = IF batch = None THEN FreeInode ELSE batch
        /\ data' = IF batch = None THEN [data EXCEPT ![FreeInode] = {}] ELSE data
        /\ writer' = [writer EXCEPT !.pc = "write", !.fd = batch']
        /\ UNCHANGED left
     \/ Spend("faults") /\ writer' = Idle /\ UNCHANGED files
  /\ UNCHANGED <<memory, seeder, dropper, reader, closer, intake, saving, served, tainted, lag>>

\* OpenFile with O_CREATE, or an error: the group of writes is given up.
WriterOpen ==
  /\ writer.pc = "open"
  /\ \/ /\ batch' = IF batch = None THEN FreeInode ELSE batch
        /\ data' = IF batch = None THEN [data EXCEPT ![FreeInode] = {}] ELSE data
        /\ writer' = [writer EXCEPT !.pc = "write", !.fd = batch']
        /\ UNCHANGED left
     \/ Spend("faults") /\ writer' = [writer EXCEPT !.pc = "done"] /\ UNCHANGED files
  /\ UNCHANGED <<memory, seeder, dropper, reader, closer, intake, saving, served, tainted, lag>>

\* WriteAt, or an error: the next write of the group is tried.
WriterWrite ==
  /\ writer.pc = "write" /\ writer.todo # <<>>
  /\ \/ /\ data' = [data EXCEPT ![writer.fd] = @ \cup {Head(writer.todo)}]
        /\ writer' = [writer EXCEPT !.pc = "fileChunks"]
        /\ UNCHANGED left
     \/ /\ Spend("faults")
        /\ writer' = [writer EXCEPT !.todo = Tail(@)]
        /\ UNCHANGED data
  /\ UNCHANGED <<batch, memory, seeder, dropper, reader, closer, intake, saving, served, tainted, lag>>

\* fileChunks: the object of the table, made when there is none.
WriterObject ==
  /\ writer.pc = "fileChunks"
  /\ LET fc == IF table = None THEN FreeObj ELSE table
     IN  /\ table' = fc
         /\ chunks' = IF table = None THEN [chunks EXCEPT ![fc] = {}] ELSE chunks
         /\ writer' = [writer EXCEPT !.pc = "insert", !.fc = fc]
  /\ UNCHANGED <<files, readBytes, seeder, dropper, reader, closer, intake, saving, ghosts>>

\* The entry is inserted under the object's own lock, in the table or not.
WriterInsert ==
  /\ writer.pc = "insert"
  /\ LET c == Head(writer.todo)
         live == {table, seeder.fc, dropper.fc, reader.fc}
     IN  /\ chunks' = [chunks EXCEPT ![writer.fc] =
                          IF writer.fc \in live THEN @ \cup {c} ELSE {}]
         /\ readBytes' = readBytes + (IF c \in chunks[writer.fc] THEN 0 ELSE 1)
  /\ writer' = [writer EXCEPT !.pc = "write", !.todo = Tail(@), !.fc = None, !.wrote = TRUE]
  /\ UNCHANGED <<files, table, seeder, dropper, reader, closer, intake, saving, ghosts>>

WriterClose ==
  /\ writer.pc = "write" /\ writer.todo = <<>>
  /\ writer' = [writer EXCEPT !.fd = None,
                              !.pc = IF writer.wrote THEN "evict" ELSE "done"]
  /\ data' = Released(writer.fd, batch)
  /\ UNCHANGED <<batch, memory, seeder, dropper, reader, closer, intake, saving, ghosts>>

(***************************************************************************)
(* evictIfNeeded, run by the writer and by the seeder.  The choice of the  *)
(* victims is ReadCachePolicy's: here any that fit the cache again.        *)
(***************************************************************************)
Plan(V) == IF readBytes > Capacity /\ Cardinality(Cached) > Capacity
           THEN V \subseteq Cached /\ V # {} /\ Cardinality(Cached \ V) <= Capacity
           ELSE V = {}

\* The name of the batch file is removed.  Chunks inserted since the removal was
\* decided may still refer to it (stay), the writer may hold it open, the seeder
\* may have renamed a file to it that the index does not show yet, and a reader
\* may be about to open it by that name.
Unlinked(stay) ==
  /\ batch' = None
  /\ data' = IF batch \in {None, writer.fd} THEN data ELSE [data EXCEPT ![batch] = {}]
  /\ tainted' = (\/ tainted
                 \/ batch # None /\ \/ stay # {}
                                     \/ writer.fd = batch
                                     \/ seeder.pc = "replace"
                                     \/ reader.pc = "open")

\* A variant that removes the file with its first chunk.
removeReadChunkAlways(v) ==
  \/ /\ v \in Cached
     /\ Unlinked({})
     /\ chunks' = [chunks EXCEPT ![table] = @ \ {v}]
     /\ readBytes' = readBytes - 1
  \/ /\ v \notin Cached
     /\ UNCHANGED <<files, tainted, chunks, readBytes>>

\* removeReadChunk: one critical section of the object's lock.  The batch file
\* goes with the last chunk of the object that is in it.
removeReadChunk(v) ==
  \/ /\ v \in Cached
     /\ IF Cached = {v} THEN Unlinked({}) ELSE UNCHANGED <<files, tainted>>
     /\ chunks' = [chunks EXCEPT ![table] = @ \ {v}]
     /\ readBytes' = readBytes - 1
  \/ /\ v \notin Cached
     /\ UNCHANGED <<files, tainted, chunks, readBytes>>

WriterPlan ==
  /\ writer.pc = "evict"
  /\ \E V \in SUBSET Chunks :
       /\ Plan(V)
       /\ writer' = [writer EXCEPT !.pc = "apply", !.victims = V]
  /\ UNCHANGED <<files, memory, seeder, dropper, reader, closer, intake, saving, ghosts>>

WriterApply ==
  /\ writer.pc = "apply" /\ writer.victims # {}
  /\ removeReadChunk(Min(writer.victims))
  /\ writer' = [writer EXCEPT !.victims = @ \ {Min(@)}]
  /\ UNCHANGED <<table, seeder, dropper, reader, closer, intake, saving, left, served, lag>>

\* scheduleReadIndexSave of the writer (the pass's own one sets the same flags).
WriterDirty ==
  /\ writer.pc = "apply" /\ writer.victims = {}
  /\ MarkDirty
  /\ writer' = [writer EXCEPT !.pc = "arm"]
  /\ UNCHANGED <<files, memory, seeder, dropper, reader, closer, intake, index, flush, ghosts>>

WriterArm ==
  /\ writer.pc = "arm"
  /\ Arm
  /\ writer' = [writer EXCEPT !.pc = "done"]
  /\ UNCHANGED <<files, memory, seeder, dropper, reader, closer, intake, index, flush, ghosts>>

\* The deferred function of handleReadCacheWrites: the wait group first, then
\* the keys.
WriterDone ==
  /\ writer.pc = "done"
  /\ wg' = wg - Len(writer.all)
  /\ writer' = [writer EXCEPT !.pc = "forget"]
  /\ UNCHANGED <<files, memory, seeder, dropper, reader, closer, queue, inFlight, closed,
                 saving, ghosts>>

WriterForget ==
  /\ writer.pc = "forget"
  /\ inFlight' = inFlight \ ToSet(writer.all)
  /\ writer' = Idle
  /\ UNCHANGED <<files, memory, seeder, dropper, reader, closer, queue, wg, closed, saving, ghosts>>

(***************************************************************************)
(* PutReader: the whole file, from an upload, seeds the cache.             *)
(***************************************************************************)
IdleSeeder == [pc |-> "idle", fd |-> None, fc |-> None, victims |-> {}]

SeedRest == <<writer, dropper, reader, closer, intake>>

\* The reader is copied to a temporary file; a failed copy leaves nothing.
SeedCopy ==
  /\ seeder.pc = "idle" /\ Spend("seeds")
  /\ data' = [data EXCEPT ![FreeInode] = Chunks]
  /\ seeder' = [IdleSeeder EXCEPT !.pc = "rename", !.fd = FreeInode]
  /\ UNCHANGED <<batch, memory, SeedRest, saving, served, tainted, lag>>

SeedRename ==
  /\ seeder.pc = "rename"
  /\ \/ /\ batch' = seeder.fd
        /\ data' = Released(batch, writer.fd)
        /\ seeder' = [seeder EXCEPT !.pc = "replace", !.fd = None]
        /\ UNCHANGED left
     \/ /\ Spend("faults")
        /\ data' = Released(seeder.fd, None)
        /\ seeder' = IdleSeeder
        /\ UNCHANGED batch
  /\ UNCHANGED <<memory, SeedRest, saving, served, tainted, lag>>

\* replaceFileChunks: the table gets a new object under the shard's lock ...
SeedReplace ==
  /\ seeder.pc = "replace"
  /\ table' = FreeObj
  /\ chunks' = [chunks EXCEPT ![FreeObj] = Chunks]
  /\ seeder' = [seeder EXCEPT !.pc = "account", !.fc = table]
  /\ UNCHANGED <<files, readBytes, SeedRest, saving, ghosts>>

\* ... and the old one is emptied under its own.
SeedAccount ==
  /\ seeder.pc = "account"
  /\ LET old == IF seeder.fc = None THEN {} ELSE chunks[seeder.fc]
     IN  readBytes' = readBytes + Cardinality(Chunks) - Cardinality(old)
  /\ chunks' = IF seeder.fc = None THEN chunks ELSE [chunks EXCEPT ![seeder.fc] = {}]
  /\ seeder' = [seeder EXCEPT !.pc = "evict", !.fc = None]
  /\ UNCHANGED <<files, table, SeedRest, saving, ghosts>>

SeedPlan ==
  /\ seeder.pc = "evict"
  /\ \E V \in SUBSET Chunks :
       /\ Plan(V)
       /\ seeder' = [seeder EXCEPT !.pc = "apply", !.victims = V]
  /\ UNCHANGED <<files, memory, SeedRest, saving, ghosts>>

SeedApply ==
  /\ seeder.pc = "apply" /\ seeder.victims # {}
  /\ removeReadChunk(Min(seeder.victims))
  /\ seeder' = [seeder EXCEPT !.victims = @ \ {Min(@)}]
  /\ UNCHANGED <<table, SeedRest, saving, left, served, lag>>

SeedDirty ==
  /\ seeder.pc = "apply" /\ seeder.victims = {}
  /\ MarkDirty
  /\ seeder' = [seeder EXCEPT !.pc = "arm"]
  /\ UNCHANGED <<files, memory, SeedRest, index, flush, ghosts>>

SeedArm ==
  /\ seeder.pc = "arm"
  /\ Arm
  /\ seeder' = IdleSeeder
  /\ UNCHANGED <<files, memory, SeedRest, index, flush, ghosts>>

(***************************************************************************)
(* InvalidateFile.                                                         *)
(***************************************************************************)
IdleDropper == [pc |-> "idle", fc |-> None, unlink |-> FALSE]

DropRest == <<writer, seeder, reader, closer, intake>>

Detach ==
  /\ dropper.pc = "idle" /\ table # None /\ Spend("drops")
  /\ table' = None
  /\ dropper' = [IdleDropper EXCEPT !.pc = "empty", !.fc = table]
  /\ UNCHANGED <<files, chunks, readBytes, DropRest, saving, served, tainted, lag>>

DropEmpty ==
  /\ dropper.pc = "empty"
  /\ chunks' = [chunks EXCEPT ![dropper.fc] = {}]
  /\ readBytes' = readBytes - Cardinality(chunks[dropper.fc])
  /\ dropper' = [pc |-> "unlink", fc |-> None, unlink |-> chunks[dropper.fc] # {}]
  /\ UNCHANGED <<files, table, DropRest, saving, ghosts>>

DropUnlink ==
  /\ dropper.pc = "unlink"
  /\ IF dropper.unlink THEN Unlinked(Cached) ELSE UNCHANGED <<files, tainted>>
  /\ dropper' = [IdleDropper EXCEPT !.pc = "dirty"]
  /\ UNCHANGED <<memory, DropRest, saving, left, served, lag>>


DropDirty ==
  /\ dropper.pc = "dirty"
  /\ MarkDirty
  /\ dropper' = [dropper EXCEPT !.pc = "arm"]
  /\ UNCHANGED <<files, memory, DropRest, index, flush, ghosts>>

DropArm ==
  /\ dropper.pc = "arm"
  /\ Arm
  /\ dropper' = IdleDropper
  /\ UNCHANGED <<files, memory, DropRest, index, flush, ghosts>>

(***************************************************************************)
(* GetChunk and GetChunkRange.  A miss in the table is not modelled: it    *)
(* changes nothing but a counter.                                          *)
(***************************************************************************)
IdleReader == [pc |-> "idle", c |-> None, fc |-> None]

ReadRest == <<writer, seeder, dropper, closer, intake>>

\* The entry is looked up under the lock, the file opened after it.
Look(c) ==
  /\ reader.pc = "idle" /\ c \in Cached /\ Spend("reads")
  /\ reader' = [IdleReader EXCEPT !.pc = "open", !.c = c]
  /\ UNCHANGED <<files, memory, ReadRest, saving, served, tainted, lag>>

\* A file that is gone or too short is a miss, and the entry is stale.
ReadFile ==
  /\ reader.pc = "open"
  /\ IF batch # None /\ Covered(reader.c, data[batch])
     THEN /\ served' = IF reader.c \in data[batch] THEN "content" ELSE "hole"
          /\ reader' = IdleReader
     ELSE served' = "miss" /\ reader' = [reader EXCEPT !.pc = "drop"]
  /\ UNCHANGED <<files, memory, ReadRest, saving, left, tainted, lag>>

\* dropReadChunkIndex looks the file up again; an object left empty is then
\* taken out of the table.
DropEntry ==
  /\ reader.pc = "drop"
  /\ IF table = None
     THEN reader' = IdleReader /\ UNCHANGED <<chunks, readBytes>>
     ELSE /\ chunks' = [chunks EXCEPT ![table] = @ \ {reader.c}]
          /\ readBytes' = readBytes - (IF reader.c \in Cached THEN 1 ELSE 0)
          /\ reader' = IF Cached \subseteq {reader.c}
                       THEN [reader EXCEPT !.pc = "prune", !.fc = table]
                       ELSE [reader EXCEPT !.pc = "dirty"]
  /\ UNCHANGED <<files, table, ReadRest, saving, ghosts>>

Prune ==
  /\ reader.pc = "prune"
  /\ table' = IF table = reader.fc THEN None ELSE table
  /\ reader' = [reader EXCEPT !.pc = "dirty", !.fc = None]
  /\ UNCHANGED <<files, chunks, readBytes, ReadRest, saving, ghosts>>

ReadDirty ==
  /\ reader.pc = "dirty"
  /\ MarkDirty
  /\ reader' = [reader EXCEPT !.pc = "arm"]
  /\ UNCHANGED <<files, memory, ReadRest, index, flush, ghosts>>

ReadArm ==
  /\ reader.pc = "arm"
  /\ Arm
  /\ reader' = IdleReader
  /\ UNCHANGED <<files, memory, ReadRest, index, flush, ghosts>>

(***************************************************************************)
(* FlushReadCache, ClearReadCache and Close.                               *)
(***************************************************************************)
IdleCloser == [pc |-> "idle", op |-> ""]

CloseRest == <<writer, seeder, dropper, reader>>

FlushReadCache ==
  /\ closer.pc = "idle" /\ Spend("flushes")
  /\ closer' = [pc |-> "wait", op |-> "flush"]
  /\ UNCHANGED <<files, memory, CloseRest, intake, saving, served, tainted, lag>>

ClearReadCache ==
  /\ closer.pc = "idle" /\ Spend("clears")
  /\ closer' = [pc |-> "wait", op |-> "clear"]
  /\ UNCHANGED <<files, memory, CloseRest, intake, saving, served, tainted, lag>>

\* Close ends the queue, then waits for the writer goroutine to empty it.
Close ==
  /\ closer.pc = "idle" /\ Spend("closes")
  /\ closed' = TRUE
  /\ closer' = [pc |-> "writer", op |-> "close"]
  /\ UNCHANGED <<files, memory, CloseRest, queue, inFlight, wg, saving, served, tainted, lag>>

CloseWriterEnded ==
  /\ closer.pc = "writer" /\ queue = <<>> /\ writer.pc = "idle"
  /\ closer' = [closer EXCEPT !.pc = "wait"]
  /\ UNCHANGED <<files, memory, CloseRest, intake, saving, ghosts>>

\* cacheWriteWG.Wait under cacheWriteWGMu.
WaitWrites ==
  /\ closer.pc = "wait" /\ wg = 0
  /\ closer' = [closer EXCEPT !.pc = IF closer.op = "clear" THEN "undirty" ELSE "flush"]
  /\ UNCHANGED <<files, memory, CloseRest, intake, saving, ghosts>>

CloseFlush ==
  /\ closer.pc = "flush"
  /\ FlushStart
  /\ closer' = [closer EXCEPT !.pc = "flushing"]
  /\ UNCHANGED <<files, memory, CloseRest, intake, index, save, ghosts>>

CloseFlushed ==
  /\ closer.pc = "flushing" /\ flush.pc = "off"
  /\ closer' = IF closer.op = "close" THEN [closer EXCEPT !.pc = "closed"] ELSE IdleCloser
  /\ UNCHANGED <<files, memory, CloseRest, intake, saving, ghosts>>

ClearUndirty ==
  /\ closer.pc = "undirty"
  /\ save' = [save EXCEPT !.armed = FALSE, !.dirty = FALSE]
  /\ closer' = [closer EXCEPT !.pc = "empty"]
  /\ UNCHANGED <<files, memory, CloseRest, intake, index, flush, ghosts>>

ClearEmpty ==
  /\ closer.pc = "empty"
  /\ table' = None
  /\ chunks' = IF table = None THEN chunks ELSE [chunks EXCEPT ![table] = {}]
  /\ readBytes' = 0
  /\ closer' = [closer EXCEPT !.pc = "remove"]
  /\ UNCHANGED <<files, CloseRest, intake, saving, ghosts>>

\* RemoveAll: the batch file, the index file, and the seeder's temporary file,
\* whose rename then fails.  A flush under way does not notice.
ClearRemove ==
  /\ closer.pc = "remove"
  /\ Unlinked(Cached)
  /\ index' = {}
  /\ flush' = [flush EXCEPT !.cleared = flush.pc = "save"]
  /\ lag' = (Cached # {})
  /\ seeder' = IF seeder.pc = "rename" THEN IdleSeeder ELSE seeder
  /\ closer' = IdleCloser
  /\ UNCHANGED <<memory, writer, dropper, reader, intake, save, left, served>>

(***************************************************************************)
(* A restart, after a crash or after Close: loadReadIndex.  An entry is    *)
(* kept when the batch file is long enough; a batch file no entry refers   *)
(* to is removed.                                                          *)
(***************************************************************************)
Loaded == {c \in index : batch # None /\ Covered(c, data[batch])}

Restart ==
  /\ Spend("restarts")
  /\ index' = Loaded
  /\ batch' = IF Loaded = {} THEN None ELSE batch
  /\ table' = IF Loaded = {} THEN None ELSE 1
  /\ chunks' = [o \in Objs |-> IF o = 1 THEN Loaded ELSE {}]
  /\ readBytes' = Cardinality(Loaded)
  /\ tainted' = (tainted \/ ~(index \subseteq Cached))
  /\ lag' = FALSE
  /\ save' = [dirty |-> FALSE, armed |-> FALSE, waiting |-> FALSE]
  /\ flush' = [pc |-> "off", snap |-> {}, cleared |-> FALSE]
  /\ queue' = <<>> /\ inFlight' = {} /\ wg' = 0 /\ closed' = FALSE
  /\ writer' = Idle /\ seeder' = IdleSeeder /\ dropper' = IdleDropper
  /\ reader' = IdleReader /\ closer' = IdleCloser
  /\ UNCHANGED <<data, served>>

Init ==
  /\ batch = None
  /\ data = [i \in Inodes |-> {}]
  /\ table = None
  /\ chunks = [o \in Objs |-> {}]
  /\ readBytes = 0
  /\ index = {}
  /\ save = [dirty |-> FALSE, armed |-> FALSE, waiting |-> FALSE]
  /\ flush = [pc |-> "off", snap |-> {}, cleared |-> FALSE]
  /\ queue = <<>> /\ inFlight = {} /\ wg = 0 /\ closed = FALSE
  /\ writer = Idle /\ seeder = IdleSeeder /\ dropper = IdleDropper
  /\ reader = IdleReader /\ closer = IdleCloser
  /\ left \in Budgets
  /\ served = "" /\ tainted = FALSE /\ lag = FALSE

Step ==
  \/ TimerFires \/ TimerFlush \/ FlushLoop \/ FlushSnapshot \/ FlushSave
  \/ WriterTake \/ WriterOpen \/ WriterWrite \/ WriterObject \/ WriterInsert
  \/ WriterClose \/ WriterPlan \/ WriterApply \/ WriterDirty \/ WriterArm
  \/ WriterDone \/ WriterForget
  \/ SeedRename \/ SeedReplace \/ SeedAccount \/ SeedPlan \/ SeedApply
  \/ SeedDirty \/ SeedArm
  \/ DropEmpty \/ DropUnlink \/ DropDirty \/ DropArm
  \/ ReadFile \/ DropEntry \/ Prune \/ ReadDirty \/ ReadArm
  \/ CloseWriterEnded \/ WaitWrites \/ CloseFlush \/ CloseFlushed
  \/ ClearUndirty \/ ClearEmpty \/ ClearRemove

Call ==
  \/ \E c \in Chunks : PutChunkAsync(c) \/ Look(c)
  \/ SeedCopy \/ Detach \/ FlushReadCache \/ ClearReadCache \/ Close
  \/ Restart

Next == Step \/ Call

\* The goroutines run and the timer fires; the calls are the environment's.
Spec == Init /\ [][Next]_vars /\ WF_vars(Step)

(***************************************************************************)
(* Properties.                                                             *)
(***************************************************************************)
Quiet == /\ \A a \in {writer, seeder, dropper, reader} : a.pc = "idle"
         /\ closer.pc \in {"idle", "closed"} /\ flush.pc = "off" /\ ~save.dirty


\* A chunk in the index is in the batch file, or the file is gone or too short
\* and the read is a miss: content that was never written is not served.  The
\* ways out of this are those the ghost names, and there are no others.
HolesNotServed ==
  ~tainted => /\ \A c \in Cached : batch # None /\ Covered(c, data[batch]) => c \in data[batch]
              /\ served # "hole"

\* Every write that was accepted leaves the queue, and a Flush, a Clear or a
\* Close that waits for it ends.
WritesDrain == []<>(inFlight = {} /\ closer.pc \in {"idle", "closed"})

\* openspec/specs/read-cache/spec.md: as long as a chunk refers to a batch file
\* the file is kept.
BatchKept == Quiet => Cached = {} \/ (batch # None /\ Cached \subseteq data[batch])
=============================================================================
