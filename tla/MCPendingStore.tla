--------------------------- MODULE MCPendingStore ---------------------------
(* Three small instances of PendingStore for TLC over the same variables:  *)
(* the first has two children of a renamed directory and every operation   *)
(* that moves records; the second has one path and its destination, larger *)
(* files, every way a journal write fails, the watermark compaction and    *)
(* the prune; the third has the operations that take no path lock beside   *)
(* growing writes.                                                         *)
EXTENDS PendingStore, TLC

CONSTANTS A1, A2, B1, B2

VARIABLE part   \* which of the three this behaviour belongs to

\* a directory with two children and where its rename puts them
MCMoved == A1 :> B1 @@ A2 :> B2

Faults == INSTANCE PendingStore WITH
  Paths <- {A1, B1}, Moved <- A1 :> B1, MaxSize <- 2, MaxLines <- 3, CompactAt <- 3,
  Requests <- AllRequests \ {"discard", "record", "copy", "rebase"}, FaultKinds <- AllFaults

Unlocked == INSTANCE PendingStore WITH
  Paths <- {A1, B1}, Moved <- A1 :> B1, MaxSize <- 2, MaxLines <- 3, CompactAt <- 3,
  MaxCrashes <- 0, Requests <- AllRequests \ {"remove", "subtree", "prune"}, FaultKinds <- {}

PartInit ==
  \/ part = "moves" /\ Init
  \/ part = "faults" /\ Faults!Init
  \/ part = "unlocked" /\ Unlocked!Init

\* the third stops where its properties end
PartNext ==
  /\ \/ part = "moves" /\ Next
     \/ part = "faults" /\ Faults!Next
     \/ part = "unlocked" /\ ~raced /\ Unlocked!Next
  /\ UNCHANGED part

PartSpec == PartInit /\ [][PartNext]_<<vars, part>>

\* Every operation, a rename of a directory included, is atomic across a crash
\* when appends fail whole (PendingStore, CrashAtomic).
MovesCrashAtomic == part = "moves" => CrashAtomic

\* Every record is found by its id after any of the moves (PendingByIDExact).
ByIDExact ==
  CASE part = "moves" -> PendingByIDExact
    [] part = "faults" -> Faults!PendingByIDExact
    [] part = "unlocked" -> Unlocked!PendingByIDExact

\* No record, in memory or in the journal, loses its staging file, however the
\* journal writes of saves and removals fail; a rename that fails after its line
\* was written is where it ends (StagingKept).
FilesKept ==
  CASE part = "moves" -> StagingKept
    [] part = "faults" -> Faults!StagingKept
    [] part = "unlocked" -> Unlocked!StagingKept

\* The size of a record in memory is that of its file, however a journal write
\* fails between growing writes, and beside the operations without a path lock
\* until one of them meets a write (SizeFollowsFile).
SizesFollow ==
  CASE part = "moves" -> SizeFollowsFile
    [] part = "faults" -> Faults!SizeFollowsFile
    [] part = "unlocked" -> Unlocked!SizeFollowsFile
=============================================================================
