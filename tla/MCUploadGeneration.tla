------------------------- MODULE MCUploadGeneration -------------------------
(* Three instances of UploadGeneration for TLC over the same variables.    *)
(* The configuration gives the largest bounds, which the properties use.   *)
EXTENDS UploadGeneration

CONSTANTS WideClock, LongClock, ControlClock  \* MaxClock of the three

VARIABLE part   \* which of the three this behaviour belongs to

\* files of MaxSize blocks
Wide == INSTANCE UploadGeneration WITH MaxClock <- WideClock

\* one block per file and longer histories: a switch that fails and is retried
\* after a crash
Long == INSTANCE UploadGeneration WITH MaxClock <- LongClock, MaxSize <- 1

\* one block per file and every request
Control == INSTANCE UploadGeneration WITH
  MaxClock <- ControlClock, MaxSize <- 1, Requests <- AllRequests

PartNext ==
  \/ part = "wide" /\ Wide!Next /\ UNCHANGED part
  \/ part = "long" /\ Long!Next /\ UNCHANGED part
  \/ part = "control" /\ Control!Next /\ UNCHANGED part

PartInit == Init /\ part \in {"wide", "long", "control"}

PartSpec == PartInit /\ [][PartNext]_<<vars, part>>

WideSpec == PartInit /\ part = "wide" /\ [][PartNext]_<<vars, part>>
=============================================================================
