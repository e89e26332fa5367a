-------------------------- MODULE MCUploadSchedule --------------------------
(* Instances of UploadSchedule for TLC over the same variables: one given   *)
(* by the configuration, two with explicit retries and with discards of     *)
(* failing uploads, one with both and shorter histories, and one whose      *)
(* pending files are renamed, without faults, crashes, removals and Close.  *)
EXTENDS UploadSchedule, TLC

VARIABLE part   \* which of them this behaviour belongs to

Retries == INSTANCE UploadSchedule WITH
  MaxCrashes <- 0, Requests <- {"write", "flush", "retry"}

Discards == INSTANCE UploadSchedule WITH
  MaxCrashes <- 0, Requests <- {"write", "flush", "discard"}

Both == INSTANCE UploadSchedule WITH
  MaxVer <- 2, MaxCrashes <- 0, Requests <- {"write", "flush", "retry", "discard"}

Moves == INSTANCE UploadSchedule WITH
  MaxFaults <- 0, MaxCrashes <- 0, Requests <- {"write", "flush", "rename"}

Symm == Permutations(Paths) \cup Permutations(Workers)

\* every path written and flushed, of either size, before Start
QueuedInit ==
  /\ life = "new" /\ closed = FALSE
  /\ \E size \in [Paths -> BOOLEAN], v \in [Paths -> 1 .. Cardinality(Paths)] :
       /\ \A p, q \in Paths : v[p] = v[q] => p = q
       /\ rec = [p \in Paths |-> [NoRec EXCEPT !.ver = 2 * v[p], !.gen = 2 * v[p] - 1,
                                               !.frozen = TRUE, !.large = size[p]]]
       /\ wrote = [p \in Paths |-> 2 * v[p] - 1]
  /\ disk = rec /\ ver = 2 * Cardinality(Paths)
  /\ task = [p \in Paths |-> "none"] /\ claimed = {} /\ active = NoActive
  /\ wk = [w \in Workers |-> Off]
  /\ flushing = {} /\ rty = NoRty /\ ren = NoRen /\ dropping = {} /\ dismissed = {}
  /\ resume = NoResume /\ faults = 0 /\ crashes = 0
  /\ part = "own"

PartNext ==
  \/ part = "own" /\ Next /\ UNCHANGED part
  \/ part = "retries" /\ Retries!Next /\ UNCHANGED part
  \/ part = "discards" /\ Discards!Next /\ UNCHANGED part
  \/ part = "both" /\ Both!Next /\ UNCHANGED part
  \/ part = "moves" /\ Moves!Next /\ UNCHANGED part

PartInit == Init /\ part \in {"own", "retries", "discards", "both", "moves"}

PartSpec == PartInit /\ [][PartNext]_<<vars, part>>

QueuedFairSpec ==
  QueuedInit /\ [][Next /\ UNCHANGED part]_<<vars, part>> /\ Fairness
=============================================================================
