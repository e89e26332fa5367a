---------------------------- MODULE DelayedDelete ----------------------------
(* Removal in the mount: a removed path is hidden at once by the overlay and  *)
(* its remote delete runs later, off a timer (pkg/vfs/view/visibility.go,     *)
(* pkg/vfs/delete/executor.go, mutation/remove.go and their adapters).  The   *)
(* module composes the operations that meet there: file and directory         *)
(* removal, create, mkdir, a direct source upload, the delete task's cancel   *)
(* and retry, the engine's upload of a pending record, the timers and         *)
(* the executor goroutines they start.                                        *)
(*                                                                            *)
(* One action is one critical section of the overlay lock (shared by the      *)
(* overlay and the delayed-delete state), of the scheduler or of the backend. *)
(* The scheduler is the atomic map KeyedScheduler is shown to implement.      *)
(* Listing caches, rename shadows and the restored-directory markers, which   *)
(* only decide whether a listing is refetched, are left out.                  *)
EXTENDS Naturals, FiniteSets, FiniteSetsExt

CONSTANTS
    Files, Dirs,    \* virtual paths, as strings
    Under,          \* the pairs <<p, d>> with p strictly under the directory d
    Users,          \* threads that call the VFS
    Slots,          \* goroutines that can run an executor at a time (bound)
    Ops,            \* the requests the users make
    MaxId,          \* bound: remote identities handed out
    MaxOps,         \* bound: requests made
    MaxFaults       \* bound: backend removals that report an error

VARIABLES
    remote,     \* path -> identity of the backend object there, 0 when none
    entries,    \* path -> identity in the view's entry cache, 0 when none
    deleted,    \* path -> identity hidden by the overlay, 0 when none
    takeovers,  \* directories taken over by a directory removal
    timers,     \* path -> identity captured by the armed delete, 0 when none
    active,     \* path -> identity of the in-flight delete, 0 when none
    failures,   \* paths with a recorded delete failure
    pending,    \* file -> parent identity of its pending upload, 0 when none
    upload,     \* file -> the engine's run of its pending upload
    user,       \* thread -> its request in progress
    exec,       \* slot -> its executor in progress
    closed,     \* the delete service was closed
    ids, ops, faults,
    requested,  \* history: <<path, identity>> the users asked to remove, with
                \* <<path, 0>> for the pending record a removal covers
    late,       \* history: identities restored while an executor held them
    sourced     \* history: identities stored by a source upload

overlay == <<deleted, takeovers, active, failures>>
records == <<pending, upload>>
bounds == <<ids, ops, faults>>
history == <<requested, late, sourced>>
vars == <<remote, entries, overlay, timers, records, user, exec, closed, bounds,
          history>>

Paths == Files \cup Dirs
Root == 1
Idle == [pc |-> "idle", path |-> "", id |-> 0, keys |-> {}]
NoUpload == [pc |-> "idle", parent |-> 0, id |-> 0, aside |-> FALSE, current |-> TRUE]

Above(p) == {d \in Dirs : <<p, d>> \in Under}
Below(d) == {p \in Paths : <<p, d>> \in Under}
Deepest(D) == CHOOSE d \in D : \A e \in D : e = d \/ d \in Below(e)

TypeOK ==
    /\ {remote, entries, deleted, timers, active} \subseteq [Paths -> 0..ids]
    /\ takeovers \subseteq Dirs
    /\ failures \subseteq Paths
    /\ pending \in [Files -> 0..ids]
    /\ \A p \in Files : upload[p].id \in 0..ids /\ upload[p].parent \in 0..ids
    /\ \A u \in Users : user[u].path \in Paths \cup {""} /\ user[u].id \in 0..ids
    /\ \A s \in Slots : exec[s].path \in Paths \cup {""} /\ exec[s].id \in 0..ids
    /\ closed \in BOOLEAN
    /\ <<ids, ops, faults>> \in (0..MaxId) \X (0..MaxOps) \X (0..MaxFaults)

\* The backend holds every path; nothing is cached, hidden or in flight.
Init ==
    /\ ids = Cardinality(Paths) + 1
    /\ remote = CHOOSE f \in [Paths -> 2..ids] : \A p, q \in Paths : f[p] = f[q] => p = q
    /\ entries = [p \in Paths |-> 0]
    /\ deleted = [p \in Paths |-> 0]
    /\ takeovers = {}
    /\ timers = [p \in Paths |-> 0]
    /\ active = [p \in Paths |-> 0]
    /\ failures = {}
    /\ pending = [p \in Files |-> 0]
    /\ upload = [p \in Files |-> NoUpload]
    /\ user = [u \in Users |-> Idle]
    /\ exec = [s \in Slots |-> Idle]
    /\ closed = FALSE
    /\ ops = 0 /\ faults = 0
    /\ requested = {} /\ late = {} /\ sourced = {}

-----------------------------------------------------------------------------
\* The overlay and resolution.

\* isDeletedPath: the path is deleted or lies under a deleted directory.
IsDeleted(p) == \E q \in {p} \cup Above(p) : deleted[q] # 0

\* Every directory above p resolves to the object the backend has there, so
\* the parent of p can be listed.
Known(d) == IF entries[d] # 0 THEN entries[d] ELSE remote[d]
Reached(p) == \A d \in Above(p) : Known(d) # 0 /\ Known(d) = remote[d]
Listed(p) == IF Reached(p) THEN remote[p] ELSE 0

\* ResolveWithRuntime: hidden paths fail, a cached entry answers, otherwise
\* the parent is listed.
Resolve(p) ==
    IF IsDeleted(p) THEN 0 ELSE IF entries[p] # 0 THEN entries[p] ELSE Listed(p)

\* remoteEntry: the parent's listing, with what only the cache still holds.
RemoteEntry(p) ==
    IF IsDeleted(p) THEN 0 ELSE IF Listed(p) # 0 THEN Listed(p) ELSE entries[p]

ParentId(p) == IF Above(p) = {} THEN Root ELSE Resolve(Deepest(Above(p)))

Held(p) == {exec[s].id : s \in {s \in Slots :
               exec[s].path = p /\ exec[s].pc \in {"mark", "wait", "remove"}}}

\* clearTakeoverLocked.
Lifted(p) == takeovers \ ({p} \cup Below(p))

\* The common part of RestoreDeletedPath and RestoreDeletedAncestor.
Restore(p) ==
    /\ deleted' = [deleted EXCEPT ![p] = 0]
    /\ failures' = failures \ {p}
    /\ takeovers' = Lifted(p)
    /\ timers' = [timers EXCEPT ![p] = 0]
    /\ entries' = [entries EXCEPT ![p] = deleted[p]]
    /\ late' = late \cup (Held(p) \cap {deleted[p]})

\* RestoreDeletedAncestor of the parent of p.
RestoreAncestor(p) ==
    LET D == {d \in Above(p) : deleted[d] # 0}
    IN  IF D = {}
          THEN UNCHANGED <<deleted, failures, takeovers, timers, entries, late>>
          ELSE Restore(Deepest(D))

\* CancelDeletedFile.
CancelDeletedFile(p) ==
    IF deleted[p] # 0
      THEN /\ deleted' = [deleted EXCEPT ![p] = 0]
           /\ failures' = failures \ {p}
           /\ timers' = [timers EXCEPT ![p] = 0]
           /\ late' = late \cup (Held(p) \cap {deleted[p]})
      ELSE UNCHANGED <<deleted, failures, timers, late>>

-----------------------------------------------------------------------------
\* Threads.  subtreeMu is held by whole requests, the path lock of a file by
\* its create and its source upload.

InRequest(pcs) == {u \in Users : user[u].pc \in pcs}
SubtreeReaders == InRequest({"cr_cancel", "cr_save", "mk_remote"})
SubtreeWriters == InRequest({"rd_prepare", "rd_keys", "rd_cancel", "rd_drop",
                             "rd_mark", "rd_schedule"})
PathLocked(p) == \E u \in InRequest({"cr_cancel", "cr_save", "src_restore", "src_cancel", "src_put"}) :
                    user[u].path = p

Request(u, op) ==
    /\ op \in Ops
    /\ user[u].pc = "idle"
    /\ ~closed
    /\ ops < MaxOps
    /\ ops' = ops + 1

Step(u, pc) == user' = [user EXCEPT ![u].pc = pc]
Done(u) == user' = [user EXCEPT ![u] = Idle]
At(u, pc) == user[u].pc = pc

\* Another record, or none, takes the place of the one an upload started from.
Outdate(p) == upload' = [upload EXCEPT ![p].current = @ /\ upload[p].pc = "idle"]

\* RemoveFile up to the commit: a pending record is removed under the path
\* lock together with the lookup of the backend object it replaces; without
\* one the path is resolved.
RemoveFile(u, p) ==
    LET found == IF pending[p] # 0 THEN RemoteEntry(p) ELSE Resolve(p)
    IN  /\ Request(u, "remove")
        /\ ~PathLocked(p)
        /\ pending[p] # 0 \/ found # 0
        /\ pending' = [pending EXCEPT ![p] = 0]
        /\ Outdate(p)
        /\ entries' = [entries EXCEPT ![p] = IF pending[p] # 0 THEN 0 ELSE found]
        /\ user' = [user EXCEPT ![u] = IF found = 0 THEN Idle
                        ELSE [pc |-> "rm_mark", path |-> p, id |-> found, keys |-> {}]]
        /\ UNCHANGED <<remote, timers, exec, closed, ids, faults, overlay, history>>

\* MarkDeleted through CommitRemove, for files and directories.
MarkDeleted(u) ==
    LET p == user[u].path
    IN  /\ user[u].pc \in {"rm_mark", "rd_mark"}
        /\ deleted' = [deleted EXCEPT ![p] = user[u].id]
        /\ failures' = failures \ {p}
        /\ entries' = [q \in Paths |-> IF q = p \/ q \in Below(p) THEN 0 ELSE entries[q]]
        /\ requested' = requested \cup {<<p, user[u].id>>, <<p, remote[p]>>, <<p, 0>>}
        /\ Step(u, IF At(u, "rm_mark") THEN "rm_schedule" ELSE "rd_schedule")
        /\ UNCHANGED <<remote, takeovers, timers, active, records, exec, closed,
                       late, sourced, bounds>>

\* ScheduleDelete: clear the failure, arm or move the timer.
ScheduleDelete(u) ==
    LET p == user[u].path
    IN  /\ user[u].pc \in {"rm_schedule", "rd_schedule", "tk_retry"}
        /\ failures' = failures \ {p}
        /\ timers' = [timers EXCEPT ![p] = user[u].id]
        /\ Done(u)
        /\ UNCHANGED <<remote, entries, deleted, takeovers, active, records, exec,
                       closed, bounds, history>>

\* ensureDirectoryEmpty: backend children and pending uploads that the overlay
\* does not hide make the directory non-empty.
Empty(d, id) ==
    \A p \in Below(d) :
        \/ IsDeleted(p)
        \/ /\ remote[d] = id => remote[p] = 0
           /\ p \in Files => pending[p] = 0

NoPendingBelow(d) == \A p \in Below(d) \cap Files : pending[p] # 0 => IsDeleted(p)

\* The defect the check prevents: the directory is removed unseen.
RemoveDirUnchecked(u, d) ==
    /\ Request(u, "rmdir")
    /\ SubtreeReaders \cup SubtreeWriters = {}
    /\ Resolve(d) # 0
    /\ user' = [user EXCEPT ![u] =
                   [pc |-> "rd_prepare", path |-> d, id |-> Resolve(d), keys |-> {}]]
    /\ UNCHANGED <<remote, entries, overlay, timers, records, exec, closed, ids,
                   faults, history>>

\* RemoveDir takes subtreeMu, resolves the directory and finds it empty.
RemoveDir(u, d) ==
    /\ Request(u, "rmdir")
    /\ SubtreeReaders \cup SubtreeWriters = {}
    /\ Resolve(d) # 0
    /\ Empty(d, Resolve(d))
    /\ user' = [user EXCEPT ![u] =
                   [pc |-> "rd_prepare", path |-> d, id |-> Resolve(d), keys |-> {}]]
    /\ UNCHANGED <<remote, entries, overlay, timers, records, exec, closed, ids,
                   faults, history>>

\* RemoveDirectory resolves again; PrepareDirectory re-checks the pending
\* records and marks the takeover.
PrepareDirectory(u) ==
    LET d == user[u].path
        ok == Resolve(d) # 0 /\ NoPendingBelow(d)
    IN  /\ At(u, "rd_prepare")
        /\ IF ok
             THEN /\ takeovers' = takeovers \cup {d}
                  /\ user' = [user EXCEPT ![u].pc = "rd_keys", ![u].id = Resolve(d)]
             ELSE Done(u) /\ UNCHANGED takeovers
        /\ UNCHANGED <<remote, entries, deleted, timers, active, failures, records,
                       exec, closed, bounds, history>>

\* TakeoverDirectory: the scheduled children are collected ...
TakeoverKeys(u) ==
    LET d == user[u].path
    IN  /\ At(u, "rd_keys")
        /\ user' = [user EXCEPT ![u].pc = "rd_cancel",
                                ![u].keys = {p \in Below(d) : timers[p] # 0}]
        /\ UNCHANGED <<remote, entries, overlay, timers, records, exec, closed,
                       bounds, history>>

\* ... the timers of the directory and its children are cancelled ...
TakeoverCancel(u) ==
    LET d == user[u].path
    IN  /\ At(u, "rd_cancel")
        /\ timers' = [p \in Paths |-> IF p = d \/ p \in Below(d) THEN 0 ELSE timers[p]]
        /\ Step(u, "rd_drop")
        /\ UNCHANGED <<remote, entries, overlay, records, exec, closed, bounds,
                       history>>

\* ... and the overlay forgets the children that were collected.
TakeoverDrop(u) ==
    /\ At(u, "rd_drop")
    /\ deleted' = [p \in Paths |-> IF p \in user[u].keys THEN 0 ELSE deleted[p]]
    /\ failures' = failures \ user[u].keys
    /\ Step(u, "rd_mark")
    /\ UNCHANGED <<remote, entries, takeovers, timers, active, records, exec,
                   closed, bounds, history>>

\* createLocked: restore the deleted ancestor ...
Create(u, p) ==
    /\ Request(u, "create")
    /\ SubtreeWriters = {}
    /\ ~PathLocked(p)
    /\ RestoreAncestor(p)
    /\ user' = [user EXCEPT ![u] =
                   [pc |-> "cr_cancel", path |-> p, id |-> 0, keys |-> {}]]
    /\ UNCHANGED <<remote, active, records, exec, closed, ids, faults, requested,
                   sourced>>

\* ... cancel the delete of the file itself ...
CreateCancel(u) ==
    /\ user[u].pc \in {"cr_cancel", "src_cancel"}
    /\ CancelDeletedFile(user[u].path)
    /\ Step(u, IF At(u, "cr_cancel") THEN "cr_save" ELSE "src_put")
    /\ UNCHANGED <<remote, entries, takeovers, active, records, exec, closed,
                   requested, sourced, bounds>>

\* ... resolve the parent and save the pending record.
CreateSave(u) ==
    LET p == user[u].path
    IN  /\ At(u, "cr_save")
        /\ IF ParentId(p) # 0
             THEN pending' = [pending EXCEPT ![p] = ParentId(p)] /\ Outdate(p)
             ELSE UNCHANGED records
        /\ requested' = {r \in requested : r # <<p, 0>> \/ deleted[p] # 0}
        /\ Done(u)
        /\ UNCHANGED <<remote, entries, overlay, timers, exec, closed, bounds, late,
                       sourced>>

\* Mkdir of a path that does not resolve: a deleted one is restored, otherwise
\* the deleted ancestor is and the directory is created.
Mkdir(u, d) ==
    /\ Request(u, "mkdir")
    /\ SubtreeWriters = {}
    /\ Resolve(d) = 0
    /\ IF deleted[d] # 0
         THEN Restore(d) /\ UNCHANGED user
         ELSE /\ RestoreAncestor(d)
              /\ user' = [user EXCEPT ![u] =
                             [pc |-> "mk_remote", path |-> d, id |-> 0, keys |-> {}]]
    /\ UNCHANGED <<remote, active, records, exec, closed, ids, faults, requested,
                   sourced>>

\* The backend creates the directory, or reports a conflict and the existing
\* one is taken; CommitMkdir caches it.
MkdirRemote(u) ==
    LET d == user[u].path
    IN  /\ At(u, "mk_remote")
        /\ IF ParentId(d) = 0
             THEN UNCHANGED <<remote, entries, ids>>
             ELSE IF remote[d] # 0
             THEN entries' = [entries EXCEPT ![d] = remote[d]] /\ UNCHANGED <<remote, ids>>
             ELSE /\ ids < MaxId
                  /\ ids' = ids + 1
                  /\ remote' = [remote EXCEPT ![d] = ids + 1]
                  /\ entries' = [entries EXCEPT ![d] = ids + 1]
        /\ Done(u)
        /\ UNCHANGED <<overlay, timers, records, exec, closed, ops, faults,
                       history>>

\* UploadSource resolves the parent, then restores and cancels like a create.
\* It takes the path lock but not subtreeMu.
UploadSource(u, p) ==
    /\ Request(u, "source")
    /\ ~PathLocked(p)
    /\ ParentId(p) # 0
    /\ user' = [user EXCEPT ![u] =
                   [pc |-> "src_restore", path |-> p, id |-> ParentId(p), keys |-> {}]]
    /\ UNCHANGED <<remote, entries, overlay, timers, records, exec, closed, ids,
                   faults, history>>

SourceRestore(u) ==
    /\ At(u, "src_restore")
    /\ RestoreAncestor(user[u].path)
    /\ Step(u, "src_cancel")
    /\ UNCHANGED <<remote, active, records, exec, closed, bounds, requested,
                   sourced>>

Present(i) == i = Root \/ \E d \in Dirs : remote[d] = i

\* PutSource stores the file under the parent resolved before, an object it
\* replaces is removed, and CommitUploadedEntry caches the new entry.  When the
\* upload or the switch fails the new object is removed again; the old one may
\* be gone by then.
PutSource(u) ==
    LET p == user[u].path
    IN  /\ At(u, "src_put")
        /\ \/ /\ Present(user[u].id)
              /\ ids < MaxId
              /\ ids' = ids + 1
              /\ remote' = [remote EXCEPT ![p] = ids + 1]
              /\ entries' = [entries EXCEPT ![p] = ids + 1]
              /\ sourced' = sourced \cup {ids + 1}
              /\ UNCHANGED faults
           \/ /\ ~Present(user[u].id)
              /\ UNCHANGED <<ids, remote, entries, sourced, faults>>
           \/ /\ faults < MaxFaults
              /\ faults' = faults + 1
              /\ remote' \in {remote, [remote EXCEPT ![p] = 0]}
              /\ UNCHANGED <<ids, entries, sourced>>
        /\ Done(u)
        /\ UNCHANGED <<overlay, timers, records, exec, closed, ops, requested, late>>

\* Cancel, Dismiss and Retry of the delete task: the record is read in one
\* critical section and acted on in another.
DeleteTask(u, p) ==
    /\ Request(u, "task")
    /\ deleted[p] # 0
    /\ active[p] = 0
    /\ \E pc \in {"tk_restore"} \cup (IF timers[p] = 0 THEN {"tk_retry"} ELSE {}) :
          user' = [user EXCEPT ![u] =
                      [pc |-> pc, path |-> p, id |-> deleted[p], keys |-> {}]]
    /\ UNCHANGED <<remote, entries, overlay, timers, records, exec, closed, ids,
                   faults, history>>

TaskRestore(u) ==
    /\ At(u, "tk_restore")
    /\ IF deleted[user[u].path] # 0
         THEN Restore(user[u].path)
         ELSE UNCHANGED <<deleted, failures, takeovers, timers, entries, late>>
    /\ Done(u)
    /\ UNCHANGED <<remote, active, records, exec, closed, requested, sourced,
                   bounds>>

-----------------------------------------------------------------------------
\* The engine's upload of a pending record (UploadGeneration has its details).
\* It takes no path lock and not subtreeMu.

Upload(p, pc) == upload[p].pc = pc
UpStep(p, pc) == upload' = [upload EXCEPT ![p].pc = pc]
UpFree(p) == upload' = [upload EXCEPT ![p] = NoUpload]

\* history: an object uploaded from a record the users have removed or replaced
\* counts as one they asked to remove
Stored(p, id) ==
    requested' = requested \cup
        (IF ~upload[p].current \/ <<p, 0>> \in requested THEN {<<p, id>>} ELSE {})

\* Execute claims the record.
UploadStart(p) ==
    /\ Upload(p, "idle") /\ pending[p] # 0
    /\ upload' = [upload EXCEPT ![p] = [NoUpload EXCEPT !.pc = "put", !.parent = pending[p]]]
    /\ UNCHANGED <<remote, entries, overlay, timers, pending, user, exec, closed, bounds,
                   history>>

\* PutSource under the record's parent: in place, or under another name when the
\* path is taken.  An error ends the run and keeps the record.
UploadPut(p) ==
    /\ Upload(p, "put")
    /\ \/ /\ Present(upload[p].parent) /\ ids < MaxId
          /\ ids' = ids + 1
          /\ remote' = IF remote[p] = 0 THEN [remote EXCEPT ![p] = ids'] ELSE remote
          /\ upload' = [upload EXCEPT ![p].pc = "check", ![p].id = ids',
                                      ![p].aside = remote[p] # 0]
          /\ Stored(p, ids')
       \/ /\ ~Present(upload[p].parent)
          /\ UpFree(p)
          /\ UNCHANGED <<ids, remote, requested>>
    /\ UNCHANGED <<entries, overlay, timers, pending, user, exec, closed, ops, faults,
                   late, sourced>>

Undone(p) == [remote EXCEPT ![p] = IF @ = upload[p].id THEN 0 ELSE @]

\* A record that moved on undoes the upload (rollbackUploadedEntry).
UploadCheck(p) ==
    /\ Upload(p, "check")
    /\ IF upload[p].current
         THEN UpStep(p, IF upload[p].aside THEN "switch" ELSE "commit") /\ UNCHANGED remote
         ELSE remote' = Undone(p) /\ UpFree(p)
    /\ UNCHANGED <<entries, overlay, timers, pending, user, exec, closed, bounds, history>>

\* replaceUploadedFile removes what was at the path and renames the new object.
UploadSwitch(p) ==
    /\ Upload(p, "switch")
    /\ IF Present(upload[p].parent)
         THEN /\ remote' = [remote EXCEPT ![p] = upload[p].id]
              /\ Stored(p, upload[p].id)
              /\ UpStep(p, "commit")
         ELSE UpFree(p) /\ UNCHANGED <<remote, requested>>
    /\ UNCHANGED <<entries, overlay, timers, pending, user, exec, closed, bounds, late,
                   sourced>>

\* CommitUploadedEntry.
UploadCommit(p) ==
    /\ Upload(p, "commit")
    /\ entries' = [entries EXCEPT ![p] = upload[p].id]
    /\ UpStep(p, "finish")
    /\ UNCHANGED <<remote, overlay, timers, pending, user, exec, closed, bounds, history>>

\* RemoveIfUnchanged; a record that moved on undoes the commit and the upload.
UploadFinish(p) ==
    /\ Upload(p, "finish")
    /\ IF upload[p].current
         THEN pending' = [pending EXCEPT ![p] = 0] /\ UNCHANGED <<remote, entries>>
         ELSE /\ entries' = [entries EXCEPT ![p] = 0]
              /\ remote' = Undone(p)
              /\ UNCHANGED pending
    /\ UpFree(p)
    /\ UNCHANGED <<overlay, timers, user, exec, closed, bounds, history>>

UploadStep(p) ==
    \/ UploadStart(p) \/ UploadPut(p) \/ UploadCheck(p)
    \/ UploadSwitch(p) \/ UploadCommit(p) \/ UploadFinish(p)

-----------------------------------------------------------------------------
\* The executor.

ExStep(s, pc) == exec' = [exec EXCEPT ![s].pc = pc]
ExFree(s) == exec' = [exec EXCEPT ![s] = Idle]
ExAt(s, pc) == exec[s].pc = pc

\* A timer fires and its callback calls Execute.
Fire(s, p) ==
    /\ timers[p] # 0
    /\ ExAt(s, "idle")
    /\ exec' = [exec EXCEPT ![s] =
                   [pc |-> "begin", path |-> p, id |-> timers[p], keys |-> {}]]
    /\ timers' = [timers EXCEPT ![p] = 0]
    /\ UNCHANGED <<remote, entries, overlay, records, user, closed, bounds,
                   history>>

\* BeginDelete: the overlay still hides this identity and no directory above
\* was taken over; otherwise the delete is skipped.
BeginDelete(s) ==
    LET p == exec[s].path
    IN  /\ ExAt(s, "begin")
        /\ IF deleted[p] = exec[s].id /\ Above(p) \cap takeovers = {}
             THEN ExStep(s, "mark")
             ELSE ExFree(s)
        /\ UNCHANGED <<remote, entries, overlay, timers, records, user, closed,
                       bounds, history>>

MarkDeleteActive(s) ==
    LET p == exec[s].path
    IN  /\ ExAt(s, "mark")
        /\ active' = [active EXCEPT ![p] = exec[s].id]
        /\ failures' = failures \ {p}
        /\ ExStep(s, IF p \in Dirs THEN "wait" ELSE "remove")
        /\ UNCHANGED <<remote, entries, deleted, takeovers, timers, records, user,
                       closed, bounds, history>>

\* WaitActiveChildren: until no delete below is active, or the context of the
\* closed VFS ends the wait with an error.
WaitActiveChildren(s) ==
    /\ ExAt(s, "wait")
    /\ \/ /\ \A p \in Below(exec[s].path) : active[p] = 0
          /\ ExStep(s, "remove")
       \/ closed /\ ExStep(s, "fail")
    /\ UNCHANGED <<remote, entries, overlay, timers, records, user, closed, bounds,
                   history>>

\* Driver.Remove by identity.  A backend may report an object that is already
\* gone as success or as an error, the context of a closed VFS ends the call,
\* and a fault may hide that the removal happened.
DriverRemove(s) ==
    LET p == exec[s].path
        found == remote[p] = exec[s].id
        gone == [q \in Paths |-> IF q = p \/ q \in Below(p) THEN 0 ELSE remote[q]]
    IN  /\ ExAt(s, "remove")
        /\ \/ /\ remote' = IF found THEN gone ELSE remote
              /\ ExStep(s, "complete")
              /\ UNCHANGED faults
           \/ /\ ~found \/ closed
              /\ ExStep(s, "fail")
              /\ UNCHANGED <<remote, faults>>
           \/ /\ found
              /\ faults < MaxFaults
              /\ faults' = faults + 1
              /\ remote' \in {remote, gone}
              /\ ExStep(s, "fail")
        /\ UNCHANGED <<entries, overlay, timers, records, user, closed, ids, ops,
                       history>>

\* The defect: the failure is not recorded.
MarkDeleteFailedSilently(s) ==
    /\ ExAt(s, "fail")
    /\ active' = [active EXCEPT ![exec[s].path] = 0]
    /\ ExFree(s)
    /\ UNCHANGED <<remote, entries, deleted, takeovers, timers, failures, records,
                   user, closed, bounds, history>>

MarkDeleteFailed(s) ==
    /\ ExAt(s, "fail")
    /\ active' = [active EXCEPT ![exec[s].path] = 0]
    /\ failures' = failures \cup {exec[s].path}
    /\ ExFree(s)
    /\ UNCHANGED <<remote, entries, deleted, takeovers, timers, records, user,
                   closed, bounds, history>>

\* The defect: the completed delete stays in the active set.
MarkDeleteCompleteLeaky(s) ==
    LET p == exec[s].path
    IN  /\ ExAt(s, "complete")
        /\ failures' = failures \ {p}
        /\ takeovers' = Lifted(p)
        /\ deleted' = [deleted EXCEPT ![p] = 0]
        /\ ExStep(s, "cleanup")
        /\ UNCHANGED <<remote, entries, timers, active, records, user, closed, bounds,
                       history>>

MarkDeleteComplete(s) ==
    LET p == exec[s].path
    IN  /\ ExAt(s, "complete")
        /\ active' = [active EXCEPT ![p] = 0]
        /\ failures' = failures \ {p}
        /\ takeovers' = Lifted(p)
        /\ deleted' = [deleted EXCEPT ![p] = 0]
        /\ ExStep(s, "cleanup")
        /\ UNCHANGED <<remote, entries, timers, records, user, closed, bounds,
                       history>>

\* RemoveUploadState: whatever pending record the path has is removed.
RemoveUploadState(s) ==
    LET p == exec[s].path
    IN  /\ ExAt(s, "cleanup")
        /\ pending' = [q \in Files |-> IF q = p THEN 0 ELSE pending[q]]
        /\ IF p \in Files THEN Outdate(p) ELSE UNCHANGED upload
        /\ ExFree(s)
        /\ UNCHANGED <<remote, entries, overlay, timers, user, closed, bounds,
                       history>>

\* DeleteService.Close: StopAll; the lifecycle context is cancelled.
Close ==
    /\ "close" \in Ops
    /\ ~closed
    /\ closed' = TRUE
    /\ timers' = [p \in Paths |-> 0]
    /\ UNCHANGED <<remote, entries, overlay, records, user, exec, bounds, history>>

UserNext(u) ==
    \/ \E p \in Files : RemoveFile(u, p) \/ Create(u, p) \/ UploadSource(u, p)
    \/ \E d \in Dirs : RemoveDir(u, d) \/ Mkdir(u, d)
    \/ \E p \in Paths : DeleteTask(u, p)

UserStep(u) ==
    \/ MarkDeleted(u)
    \/ ScheduleDelete(u)
    \/ PrepareDirectory(u)
    \/ TakeoverKeys(u)
    \/ TakeoverCancel(u)
    \/ TakeoverDrop(u)
    \/ CreateCancel(u)
    \/ CreateSave(u)
    \/ MkdirRemote(u)
    \/ SourceRestore(u)
    \/ PutSource(u)
    \/ TaskRestore(u)

ExecStep(s) ==
    \/ \E p \in Paths : Fire(s, p)
    \/ BeginDelete(s)
    \/ MarkDeleteActive(s)
    \/ WaitActiveChildren(s)
    \/ DriverRemove(s)
    \/ MarkDeleteFailed(s)
    \/ MarkDeleteComplete(s)
    \/ RemoveUploadState(s)

Next ==
    \/ \E u \in Users : UserNext(u) \/ UserStep(u)
    \/ \E s \in Slots : ExecStep(s)
    \/ \E p \in Files : UploadStep(p)
    \/ Close

Spec == Init /\ [][Next]_vars

\* Timers fire, goroutines run and backend calls return.
Fairness ==
    /\ \A s \in Slots : WF_vars(ExecStep(s))
    /\ \A u \in Users : WF_vars(UserStep(u))

FairSpec == Spec /\ Fairness

-----------------------------------------------------------------------------
\* Properties.

Working(p) == \/ timers[p] # 0
              \/ \E s \in Slots : exec[s].path = p
              \/ \E u \in Users : user[u].path = p

(* A top-level path the overlay hides is never forgotten: a timer, an         *)
(* executor or a request in progress owns it, or its failure is recorded and  *)
(* the delete task shows it for retry.  MarkDeleted, ScheduleDelete, the      *)
(* executor and the task operations hand this ownership over in separate      *)
(* critical sections.                                                         *)
HiddenHasOwner ==
    \A p \in Paths : Above(p) = {} /\ deleted[p] # 0 /\ ~closed
                        => Working(p) \/ p \in failures

Emptied(d) ==
    \A p \in Below(d) : remote[p] \in {0} \cup sourced \/ <<p, remote[p]>> \in requested

(* A directory the delayed delete removes contains nothing but what its users *)
(* removed: the emptiness check, subtreeMu, the pending re-check and the      *)
(* restore of ancestors in create keep every other file out of it, although   *)
(* the delete runs long after the check.  Directories restored while their    *)
(* delete was already executing, and files stored by UploadSource, which does *)
(* not take subtreeMu, are the exceptions.                                    *)
RemovedDirsWereEmpty ==
    [][\A d \in Dirs : remote[d] # 0 /\ remote'[d] = 0 /\ remote[d] \notin late
                          => Emptied(d)]_vars

(* "subtreeMu serializes directory removal (check through view commit)        *)
(* against mutations that can introduce descendants" (pkg/vfs/vfs.go:79): no  *)
(* removal takes away a file whose upload nobody asked to undo.               *)
SubtreeSerialized ==
    [][\A d \in Dirs : remote[d] # 0 /\ remote'[d] = 0 /\ remote[d] \notin late
         => \A p \in Below(d) : remote[p] = 0 \/ <<p, remote[p]>> \in requested]_vars

(* Every delete that starts comes to an end: a directory's executor waits for *)
(* the active deletes below it, and none of them waits for the directory.     *)
DeletesFinish == \A s \in Slots : exec[s].pc # "idle" ~> exec[s].pc = "idle"
=============================================================================
