------------------------------ MODULE MCReads ------------------------------
(***************************************************************************)
(* The read cache: its replacement policy over several files, and the      *)
(* store of one file with every actor that touches it.  A behaviour is of  *)
(* one part, chosen at its start; the other part stays in one initial      *)
(* state.                                                                  *)
(***************************************************************************)
EXTENDS ReadCachePolicy, TLC

CONSTANTS StoreChunks, Capacity, QueueSize, Budgets, Parts

VARIABLES part,
          batch, data, table, chunks, readBytes, index, save, flush, queue, inFlight, wg,
          writer, seeder, dropper, reader, closer, closed, left, served, tainted, lag

Store == INSTANCE ReadCacheStore WITH Chunks <- StoreChunks

storeVars == <<batch, data, table, chunks, readBytes, index, save, flush, queue, inFlight, wg,
               writer, seeder, dropper, reader, closer, closed, left, served, tainted, lag>>

\* A small file, a large one, and one whose size the caller does not know and
\* that becomes large when both its chunks are cached.
MCLength == 1 :> 8 @@ 2 :> 20 @@ 3 :> 15

\* Two large files of two chunks and a small one: one unit over the size.
MCLengthTight == 1 :> 10 @@ 2 :> 15 @@ 3 :> 16

Ops(puts, seeds, drops, reads) ==
  [puts |-> puts, seeds |-> seeds, drops |-> drops, reads |-> reads,
   flushes |-> 0, clears |-> 0, closes |-> 0, faults |-> 0, restarts |-> 0]

MCBudgets ==
  {[Ops(2, 0, 0, 1) EXCEPT !.faults = 1, !.restarts = 1],
   Ops(0, 1, 1, 1),
   Ops(2, 0, 1, 0),
   [Ops(1, 1, 0, 0) EXCEPT !.faults = 1],
   [Ops(1, 0, 1, 1) EXCEPT !.restarts = 1],
   [Ops(0, 1, 0, 1) EXCEPT !.clears = 1],
   [Ops(1, 0, 0, 1) EXCEPT !.clears = 1, !.flushes = 1],
   [Ops(2, 0, 0, 0) EXCEPT !.flushes = 1, !.closes = 1],
   [Ops(2, 0, 0, 0) EXCEPT !.flushes = 1, !.faults = 1],
   [Ops(1, 0, 0, 0) EXCEPT !.clears = 1, !.faults = 1],
   [Ops(2, 0, 0, 0) EXCEPT !.closes = 1, !.faults = 1]}

MCInvalidate == {Ops(3, 0, 1, 0)}

SumInit ==
  /\ part \in Parts
  /\ Init /\ Store!Init
  /\ part = "policy" => left = Ops(0, 1, 1, 1)

SumNext ==
  \/ part = "policy" /\ Next /\ UNCHANGED <<part, storeVars>>
  \/ part = "store" /\ Store!Next /\ UNCHANGED <<part, vars>>

SumStep == part = "store" /\ Store!Step /\ UNCHANGED <<part, vars>>

sumVars == <<part, vars, storeVars>>

SumSpec == SumInit /\ [][SumNext]_sumVars /\ WF_sumVars(SumStep)


\* Content that was never written is not served (ReadCacheStore, the batch files).
HolesNotServed == Store!HolesNotServed

\* Every accepted write leaves the queue and whoever waits for it is released
\* (ReadCacheStore, PutChunkAsync and Close).
WritesDrain == Store!WritesDrain

\* A batch file is kept while a chunk refers to it (ReadCacheStore).
BatchKept == Store!BatchKept
=============================================================================
