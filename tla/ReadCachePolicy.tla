------------------------- MODULE ReadCachePolicy -------------------------
(***************************************************************************)
(* The replacement policy of the read cache (pkg/vfs/readcache,            *)
(* eviction.go): which chunks a capacity pass demotes and removes.  The    *)
(* pass has two steps, a plan over a snapshot and its application, and the *)
(* readers and writers of the cache run between them.                      *)
(*                                                                         *)
(* Sizes are in units chosen by the instance.  accessAt is kept as a rank: *)
(* only the order of two accesses is ever compared.                        *)
(***************************************************************************)
EXTENDS Naturals, FiniteSetsExt

CONSTANTS
  Length,                  \* fid |-> the file's length; the fids are numbers
  Unsized,                 \* the fids whose size the caller does not know
  MaxSize,                 \* the configured max_size
  readChunkSize,
  cacheBatchBlocks,
  ReadCacheLargeFileBytes,
  diskMinReserveBytes,
  diskFloorBytes,          \* the 64 MiB of limitByDiskSpace
  Available,               \* the values the free disk space takes
  MaxRaces                 \* bound: operations during one capacity pass

readCacheSmallReserveDiv == 4
readCacheStreamShare == 2
readCacheProtectedShare == 5

VARIABLES
  cache,     \* chunk |-> [state, at]
  maxSize,   \* Store.maxSize, fixed when the store is opened
  evictor,   \* a capacity pass: "idle", "due" (a write is done), "planned"
  plan,      \* the plan being applied: [demote, victims, max, again]
  races      \* operations since the write that made the pass due

vars == <<cache, maxSize, evictor, plan, races>>

Fids == DOMAIN Length

\* The chunks a file of this length is cut into.
Chunks == UNION {{<<f, i>> : i \in 0 .. (Length[f] - 1) \div readChunkSize}
                   : f \in Fids}

SizeOf(c) == Min({readChunkSize, Length[c[1]] - c[2] * readChunkSize})

Bytes(C) == MapThenSumSet(SizeOf, C)

Cached == DOMAIN cache

fileSize(f) == IF f \in Unsized THEN 0 ELSE Length[f]

NoPlan == [demote |-> {}, victims |-> {}, max |-> 0, again |-> FALSE]

(***************************************************************************)
(* The view of the cache a plan is made on.                                *)
(***************************************************************************)
cachedBytes(f) == Bytes({c \in Cached : c[1] = f})

readCacheFileLarge(f) ==
  \/ fileSize(f) >= ReadCacheLargeFileBytes
  \/ fileSize(f) = 0 /\ cachedBytes(f) >= ReadCacheLargeFileBytes

Large == {c \in Cached : readCacheFileLarge(c[1])}
Small == Cached \ Large

InState(s) == {c \in Cached : cache[c].state = s}

batchRefs(c) == Cardinality({d \in Cached : /\ d[1] = c[1]
                                            /\ d[2] \div cacheBatchBlocks
                                                 = c[2] \div cacheBatchBlocks})

\* sortCandidates: oldest first, then the batch with fewer live chunks, then
\* the file and the index.
Older(c, d) ==
  LET key(x) == <<cache[x].at, batchRefs(x), x[1], x[2]>>
      a == key(c)
      b == key(d)
      sameFile == c[1] = d[1] /\ c[2] \div cacheBatchBlocks = d[2] \div cacheBatchBlocks
  IN  \/ a[1] < b[1]
      \/ a[1] = b[1] /\ ~sameFile /\ a[2] < b[2]
      \/ a[1] = b[1] /\ (sameFile \/ a[2] = b[2])
           /\ (a[3] < b[3] \/ (a[3] = b[3] /\ a[4] < b[4]))

\* What draining C releases when want bytes are asked for, bucket by bucket and
\* the oldest first: every chunk before which less than want has been released.
drain(C, want, bucket) ==
  LET ahead(c) == {d \in C : \/ bucket[d] < bucket[c]
                             \/ bucket[d] = bucket[c] /\ Older(d, c)}
  IN  {c \in C : Bytes(ahead(c)) < want}

\* A segment is one bucket.
OneBucket(C) == [c \in C |-> 1]

Minus(a, b) == IF a > b THEN a - b ELSE 0

(***************************************************************************)
(* deriveBudgets.                                                          *)
(***************************************************************************)
SmallFloor(max) == max \div readCacheSmallReserveDiv
lowWatermark(max) == (max * 7) \div 10
largeCeiling(max) == max - Min({Bytes(Small), SmallFloor(max)})
streamCeiling(max) == largeCeiling(max) \div readCacheStreamShare

(***************************************************************************)
(* planEviction.                                                           *)
(***************************************************************************)
\* 1. Unproven content of the large class is cut to its sub-budget.
StreamCut(max) ==
  LET unproven == Large \cap InState("unproven")
  IN  drain(unproven, Minus(Bytes(unproven), streamCeiling(max)), OneBucket(unproven))

\* 2. The large class is cut to its ceiling: the same excess is drained from
\* each of its three segments in turn.
ClassCut(cut, max) ==
  LET excess == Minus(Bytes(Large \ cut), largeCeiling(max))
      segment(s) == LET C == (Large \ cut) \cap InState(s)
                    IN  drain(C, excess, OneBucket(C))
  IN  segment("unproven") \cup segment("probationary") \cup segment("protected")

\* The oldest protected chunks that exceed the segment's share of its class.
demoteOverflow(cut) ==
  LET overflow(class) ==
        LET kept == class \ cut
            protected == kept \cap InState("protected")
            limit == Bytes(kept) - Bytes(kept) \div readCacheProtectedShare
        IN  drain(protected, Minus(Bytes(protected), limit), OneBucket(protected))
  IN  overflow(Small) \cup overflow(Large)

\* drainOrder: the bucket of a chunk once the demotions are planned.
\* A variant that takes the small class first.
DrainRankSmallFirst(c, demoted) ==
  LET protected == c \in InState("protected") \ demoted
  IN  IF c \in Small THEN (IF protected THEN 2 ELSE 1)
      ELSE CASE c \in InState("unproven") -> 3
             [] protected -> 5
             [] OTHER -> 4

DrainRank(c, demoted) ==
  LET protected == c \in InState("protected") \ demoted
  IN  IF c \in Small THEN (IF protected THEN 5 ELSE 4)
      ELSE CASE c \in InState("unproven") -> 1
             [] protected -> 3
             [] OTHER -> 2

\* 3. Down to the low watermark, bucket by bucket.  want is what is still to be
\* released when a bucket is reached, so the walk over the buckets is one drain
\* in the order of bucket and age.
CapacityCut(cut, demoted, max) ==
  LET rest == Cached \ cut
  IN  drain(rest, Minus(Bytes(rest), lowWatermark(max)),
            [c \in rest |-> DrainRank(c, demoted)])

\* A variant that takes from the large class only.
planEvictionLargeOnly(max) ==
  LET one == StreamCut(max)
      two == one \cup ClassCut(one, max)
      demoted == IF Bytes(Cached \ two) > lowWatermark(max)
                 THEN demoteOverflow(two) ELSE {}
  IN  [demote |-> demoted, max |-> max, again |-> FALSE,
       victims |-> two \cup (CapacityCut(two, demoted, max) \cap Large)]

planEviction(max) ==
  LET one == StreamCut(max)
      two == one \cup ClassCut(one, max)
      demoted == IF Bytes(Cached \ two) > lowWatermark(max)
                 THEN demoteOverflow(two) ELSE {}
  IN  [demote |-> demoted, max |-> max, again |-> FALSE,
       victims |-> two \cup CapacityCut(two, demoted, max)]

limitByDiskSpace(max, avail) ==
  LET reserve == Max({avail \div 10, diskMinReserveBytes})
  IN  IF avail <= reserve
      THEN Max({1, Min({avail \div 4, diskFloorBytes})})
      ELSE Min({max, avail - reserve})

(***************************************************************************)
(* The operations on the cache.                                            *)
(***************************************************************************)
\* Ranks are renumbered so that they stay below the number of chunks.
Ranked(f) == [c \in DOMAIN f |->
                [f[c] EXCEPT !.at = Cardinality({f[d].at : d \in {e \in DOMAIN f :
                                                         f[e].at < f[c].at}})]]

Now == Cardinality(Cached)

\* An operation on a cache that a pass is being made on is counted.
Raced == IF evictor = "idle" THEN races' = 0
         ELSE races < MaxRaces /\ races' = races + 1

\* An access time that was rewritten no longer matches the one the plan saw.
Rewritten(C) == Raced /\ plan' = [plan EXCEPT !.demote = @ \ C]

Insert(C) ==
  LET info == [state |-> "unproven", at |-> Now]
  IN  cache' = Ranked([c \in Cached \cup C |-> IF c \in C THEN info ELSE cache[c]])

\* writeReadCacheChunk and putChunk: one chunk, admitted by a read run.  The
\* writer goroutine makes its own pass before the next write.
PutChunk(c) ==
  /\ evictor = "idle"
  /\ Insert({c})
  /\ evictor' = "due"
  /\ Rewritten({c})
  /\ UNCHANGED maxSize

\* PutReader: the whole file replaces what is cached of it, in one access time.
\* It runs on the goroutine of an upload: it may find the writer's pass being
\* applied, and then makes its own after it.
PutReader(f) ==
  /\ evictor # "due"
  /\ LET new == {c \in Chunks : c[1] = f}
     IN  /\ Insert(new)
         /\ plan' = [plan EXCEPT !.demote = @ \ new, !.again = evictor = "planned"]
  /\ Raced
  /\ evictor' = IF evictor = "idle" THEN "due" ELSE evictor
  /\ UNCHANGED maxSize

\* touchReadChunk: a hit of the admitting run (same) is no evidence of reuse.
\* Which run admitted a chunk is not kept: any hit may be of either kind.
\* refresh: the recency write is due, that is, a second has passed.
touchReadChunk(c, same, refresh) ==
  /\ c \in Cached
  /\ refresh \/ ~same
  /\ cache' = Ranked([cache EXCEPT
       ![c].at = IF refresh THEN Now ELSE @,
       ![c].state = IF same THEN @ ELSE "protected"])
  /\ Rewritten(IF refresh THEN {c} ELSE {})
  /\ UNCHANGED <<maxSize, evictor>>

Without(C) == Ranked([c \in Cached \ C |-> cache[c]])

InvalidateFile(f) ==
  /\ \E c \in Cached : c[1] = f
  /\ cache' = Without({c \in Cached : c[1] = f})
  /\ Rewritten({c \in Cached : c[1] = f})
  /\ UNCHANGED <<maxSize, evictor>>

\* evictIfNeeded up to the plan.  Every diskCheckInterval the free space of the
\* disk caps the size of this one pass.  The code compares the counter readBytes,
\* which ReadCacheStore models and which may exceed the sum taken here, and then
\* that sum (planEviction).
Evict ==
  /\ evictor = "due"
  /\ \E max \in {maxSize} \cup {limitByDiskSpace(maxSize, a) : a \in Available} :
       IF Bytes(Cached) <= max
       THEN evictor' = "idle" /\ plan' = NoPlan /\ races' = 0
       ELSE evictor' = "planned" /\ plan' = planEviction(max) /\ races' = races
  /\ UNCHANGED <<cache, maxSize>>

\* A variant that spares the chunks promoted since the plan was made.
applyEvictionStale ==
  /\ evictor = "planned"
  /\ cache' = Without(plan.victims \ InState("protected"))
  /\ evictor' = IF plan.again THEN "due" ELSE "idle"
  /\ plan' = NoPlan /\ races' = 0
  /\ UNCHANGED maxSize

\* applyEviction.  A demotion is dropped when the access time moved; a removal
\* checks the batch file and the offset only, which the chunk's index determines.
applyEviction ==
  /\ evictor = "planned"
  /\ LET demoted == [c \in Cached |->
           IF c \in plan.demote /\ cache[c].state = "protected"
           THEN [cache[c] EXCEPT !.state = "probationary"] ELSE cache[c]]
     IN  cache' = Ranked([c \in Cached \ plan.victims |-> demoted[c]])
  /\ evictor' = IF plan.again THEN "due" ELSE "idle"
  /\ plan' = NoPlan /\ races' = 0
  /\ UNCHANGED maxSize

\* The store is closed and opened: states and runs are not persisted, and the
\* free disk space caps the new store's size.  Nothing is evicted.
Reopen ==
  /\ evictor = "idle" /\ Cached # {}
  /\ cache' = [c \in Cached |-> [cache[c] EXCEPT !.state = "unproven"]]
  /\ \E a \in Available : maxSize' = limitByDiskSpace(MaxSize, a)
  /\ UNCHANGED <<evictor, plan, races>>

Init ==
  /\ cache = [c \in {} |-> c]
  /\ maxSize = MaxSize
  /\ evictor = "idle"
  /\ plan = NoPlan
  /\ races = 0

Next ==
  \/ \E c \in Chunks : PutChunk(c)
  \/ \E f \in Fids : PutReader(f) \/ InvalidateFile(f)
  \/ \E c \in Chunks, same, refresh \in BOOLEAN : touchReadChunk(c, same, refresh)
  \/ Evict
  \/ applyEviction
  \/ Reopen

Spec == Init /\ [][Next]_vars

(***************************************************************************)
(* Properties.                                                             *)
(***************************************************************************)
\* The types; there is a plan only while one is being applied, and it demotes
\* protected chunks only, unless they were removed meanwhile.
TypeOK ==
  /\ Cached \subseteq Chunks
  /\ \A c \in Cached : /\ cache[c].state \in {"unproven", "probationary", "protected"}
                       /\ cache[c].at \in 0 .. Cardinality(Cached) - 1
  /\ maxSize \in 1 .. MaxSize
  /\ evictor \in {"idle", "due", "planned"}
  /\ races \in 0 .. MaxRaces
  /\ \A c \in plan.demote \cap Cached : cache[c].state = "protected"
  /\ (evictor # "planned") => plan = NoPlan

\* What a plan made on the present cache leaves in it.
Left(p) == Cached \ p.victims

Planned == evictor = "due" /\ evictor' = "planned"

\* Whatever the mix of classes and segments, and whatever the disk's free space
\* makes the size of the pass, a plan brings the cache down to the low watermark
\* (planEviction, phase 3), so that the next writes do not each start a pass.
CapacityRestored ==
  [][Planned => Bytes(Left(plan')) <= lowWatermark(plan'.max)]_vars

\* The small class keeps its floor, or all it had below it, however much large
\* content is streamed through the cache (eviction.go, the budget tree).  Stated
\* for passes large enough that one chunk is not half the cache.
SmallFloorKept ==
  [][Planned /\ plan'.max >= 3 * readChunkSize =>
       Bytes(Small \ plan'.victims) >= Min({Bytes(Small), SmallFloor(plan'.max)})]_vars

\* When no pass is due or under way the cache is within its size, whatever was
\* read, promoted, replaced or invalidated while a plan was being applied; a
\* store opened on a disk that has become full is the one exception, until its
\* first write.
WithinCapacity ==
  [][evictor # "idle" /\ evictor' = "idle" => Bytes(DOMAIN cache') <= maxSize]_vars

\* The comment on stateProtected: a protected chunk "is only evicted when
\* probationary content cannot satisfy the budget".  When a plan removes one
\* from the large class, removing everything unproven and probationary in that
\* class would have left the cache over its low watermark or its ceiling.
ProtectedLast ==
  [][LET proven == Large \cap InState("protected")
     IN  Planned /\ (plan'.victims \ plan'.demote) \cap proven # {} =>
           \/ Bytes(Small \cup proven) > lowWatermark(plan'.max)
           \/ Bytes(proven) > largeCeiling(plan'.max)]_vars
=============================================================================
