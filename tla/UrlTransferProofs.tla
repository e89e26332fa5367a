------------------------- MODULE UrlTransferProofs -------------------------
(***************************************************************************)
(* Proofs about UrlTransfer: whatever the provider answers and however the *)
(* Range workers interleave, the bytes below the resume offset and below   *)
(* the workers' contiguous prefix are at the destination, and the whole    *)
(* engine implements FileTransfer: a destination is finalized only with    *)
(* every byte present.                                                     *)
(*                                                                         *)
(* ResumePrefix is not inductive.  TransferInv adds what each plan knows   *)
(* of the bodies it is copying: where a body starts and ends, that what it *)
(* has read so far is at the destination, and that a chunk remembered as   *)
(* completed is there as a whole.                                          *)
(***************************************************************************)
EXTENDS UrlTransfer, WellFoundedInduction, TLAPS

\* What the code takes for granted: there is a worker, and the counters of
\* the instance are numbers.
Setting == /\ Size \in Nat /\ chunk \in Nat /\ chunk > 0
           /\ Workers # {}
           /\ offlineURLRefreshes \in Nat /\ MaxFaults \in Nat

UrlEngines == {"request", "probe", "single", "sequential", "chunks"}
OneBody == {"staging", "probe", "single", "sequential"}
Places == {"idle", "take", "ask", "left", "body", "report", "whole", "reportWhole"}

\* The positions a .. b - 1 of the file are in d.
Filled(d, a, b) == \A p \in Bytes : a <= p /\ p < b => p \in d

ConnRecord == [at : Places, from : Nat, pos : Nat, end : Nat, val : Nat]

Plain(r) == r.at \in {"body", "report"}
Whole(r) == r.at \in {"whole", "reportWhole"}
Spans(r, from, end) == r.from = from /\ r.end = end
ChunkTop(o) == Smaller(o + chunk, Size)

\* A body that is being copied has put everything it read where it belongs.
Lands(r, d) ==
    Plain(r) \/ Whole(r) =>
      /\ r.from <= r.pos /\ r.pos <= r.end /\ r.end <= Size
      /\ Filled(d, r.from, r.pos)

Locals ==
    /\ listed \in {0, Size} /\ known \in {0, Size}
    /\ next \in Nat /\ contiguous \in 0 .. Size /\ completed \in SUBSET Nat
    /\ total \in Nat

TransferTypes ==
    /\ TypeOK /\ Locals
    /\ conns \in [Workers -> ConnRecord]

BodiesLand == \A w \in Workers : Lands(conns[w], dest)

\* What holds of the destination between and during the attempts.
DestinationInv ==
    /\ engine \in {"choose", "request", "end"} =>
         \A w \in Workers : conns[w] = Idle
    /\ engine = "choose" => file = "removed" \/ (file = "open" /\ dest = {})
    /\ engine \in UrlEngines \cup {"staging"} => file = "open"
    /\ engine \in UrlEngines => Filled(dest, 0, offset)
    /\ engine \in OneBody => \A w \in Workers : w # First => conns[w] = Idle

StagingInv == engine = "staging" =>
    offset = 0 /\ Plain(conns[First]) /\ Spans(conns[First], 0, Size)

\* runUnknownSize and runSingleRange copy one body, from the resume offset to
\* the end of the file.
OneSpan(r, from) == r = Idle \/ (Plain(r) /\ Spans(r, from, Size))

ProbeInv == engine = "probe" => known = 0 /\ OneSpan(conns[First], offset)

SingleInv == engine = "single" =>
    known = Size /\ offset < Size /\ OneSpan(conns[First], offset)

\* runSequentialRanges copies the chunk at next, or a whole body.
NextSpan(r, from, nxt) ==
    \/ r = Idle
    \/ Plain(r) /\ Spans(r, nxt, ChunkTop(nxt))
    \/ Whole(r) /\ Spans(r, from, Size)

SequentialInv == engine = "sequential" =>
    /\ known = 0 /\ offset <= next /\ next <= Size /\ Filled(dest, 0, next)
    /\ NextSpan(conns[First], offset, next)

\* A worker of runChunks has asked for a chunk, or copies one, or a whole body;
\* nothing is said of how many of them copy the whole body.
ChunkSpan(r, from) ==
    \/ r.at \in {"take", "left"}
    \/ r.at = "ask" /\ r.from < Size
    \/ Plain(r) /\ r.end = ChunkTop(r.from)
    \/ Whole(r) /\ Spans(r, from, Size)

ChunksInv == engine = "chunks" =>
    /\ known = Size /\ Size > 0
    /\ offset <= contiguous /\ Filled(dest, 0, contiguous)
    /\ \A o \in completed : Filled(dest, o, ChunkTop(o))
    /\ \A w \in Workers : ChunkSpan(conns[w], offset)

TransferInv ==
    /\ TransferTypes /\ BodiesLand /\ DestinationInv
    /\ StagingInv /\ ProbeInv /\ SingleInv /\ SequentialInv /\ ChunksInv

-----------------------------------------------------------------------------
(* Arithmetic of chunks.                                                    *)

LEMMA Division ==
  ASSUME NEW a \in Nat, NEW b \in Nat, b > 0
  PROVE  /\ a \div b \in Nat
         /\ b * (a \div b) <= a
         /\ a < b * (a \div b) + b
  OBVIOUS

LEMMA Exact ==
  ASSUME NEW a \in Nat, NEW b \in Nat, b > 0, a % b = 0
  PROVE  a = b * (a \div b)
  OBVIOUS

LEMMA Below ==
  ASSUME NEW b \in Nat, b > 0, NEW k \in Nat, NEW m \in Nat, b * k < b * m + b
  PROVE  k <= m
<1>1. SUFFICES ASSUME k >= m + 1 PROVE FALSE
  OBVIOUS
<1>2. b * k >= b * (m + 1)
  BY <1>1
<1>3. b * (m + 1) = b * m + b
  OBVIOUS
<1>4. b * k \in Nat /\ b * m \in Nat /\ b * (m + 1) \in Nat
  OBVIOUS
<1> QED BY <1>2, <1>3, <1>4

\* Every position between the prefix c and the end of a chained chunk lies in
\* some chunk of done.
LEMMA ChainCovers ==
  ASSUME Setting, NEW done \in SUBSET Nat, NEW c \in Nat,
         NEW o \in Chained(done, c), NEW p \in Nat, c <= p, p < o + chunk
  PROVE  \E d \in done : d <= p /\ p < d + chunk
<1> DEFINE k == (p - c) \div chunk
           m == (o - c) \div chunk
<1>1. chunk \in Nat /\ chunk > 0
  BY DEF Setting
<1>2. /\ o \in Nat /\ o >= c /\ (o - c) % chunk = 0
      /\ \A j \in 0 .. m : c + j * chunk \in done
  BY DEF Chained
<1>3. p - c \in Nat /\ o - c \in Nat
  BY <1>2
<1>4. k \in Nat /\ chunk * k <= p - c /\ p - c < chunk * k + chunk
  BY <1>1, <1>3, Division
<1>5. m \in Nat /\ o - c = chunk * m
  BY <1>1, <1>2, <1>3, Division, Exact
<1>6. chunk * k \in Nat /\ chunk * m \in Nat /\ k * chunk = chunk * k
  BY <1>1, <1>4, <1>5
<1> HIDE DEF k, m
<1>7. chunk * k < chunk * m + chunk
  BY <1>1, <1>2, <1>3, <1>4, <1>5, <1>6
<1>8. k \in 0 .. m
  BY <1>1, <1>4, <1>5, <1>7, Below
<1>9. c + k * chunk \in done
  BY <1>2, <1>8
<1>10. c + k * chunk <= p /\ p < c + k * chunk + chunk
  BY <1>1, <1>3, <1>4, <1>6
<1> QED BY ZenonT(60), <1>9, <1>10, Zenon

\* Max of a nonempty bounded set of numbers is its largest element.
LEMMA MaxOf ==
  ASSUME NEW B \in Nat, NEW S \in SUBSET (0 .. B), S # {}
  PROVE  Max(S) \in S /\ \A y \in S : Max(S) >= y
<1> DEFINE T == {n \in Nat : \A y \in S : y <= n}
<1>1. B \in T
  OBVIOUS
<1>2. PICK n \in T : \A x \in T : ~(<<x, n>> \in OpToRel(<, Nat))
  BY ZenonT(60), <1>1, WFMin, NatLessThanWellFounded, Zenon
<1>3. \A x \in T : ~(x < n)
  <2>1. \A x \in T : x < n => <<x, n>> \in OpToRel(<, Nat)
    BY ZenonT(60), Zenon DEF OpToRel
  <2> QED BY ZenonT(60), <1>2, <2>1, Zenon
<1>4. n \in Nat /\ \A y \in S : y <= n
  OBVIOUS
<1>5. n \in S
  <2>1. SUFFICES ASSUME n \notin S PROVE FALSE
    OBVIOUS
  <2>2. \A y \in S : y < n
    BY <1>4, <2>1
  <2>3. n > 0
    <3>1. PICK y \in S : TRUE
      BY ZenonT(60), Zenon
    <3>2. y \in Nat /\ y < n
      BY <2>2
    <3> QED BY <1>4, <3>2
  <2>4. n - 1 \in T
    BY <1>4, <2>2, <2>3
  <2> QED BY <1>3, <1>4, <2>3, <2>4
<1>6. \E x \in S : \A y \in S : x >= y
  BY <1>4, <1>5
<1> QED BY ZenonT(60), <1>6, Zenon DEF Max

\* What the fold of runChunks returns: the old prefix, or the end of a chunk
\* chained to it; within the file, and not below the old prefix.
LEMMA AdvanceValue ==
  ASSUME Setting, known = Size, NEW done \in SUBSET Nat, NEW c \in 0 .. Size
  PROVE  /\ Advance(done, c) \in 0 .. Size /\ Advance(done, c) >= c
         /\ \/ Advance(done, c) = c
            \/ \E o \in Chained(done, c) : Advance(done, c) = ChunkTop(o)
<1> DEFINE S == {c} \cup {Smaller(o + chunk, known) : o \in Chained(done, c)}
<1>1. \A o \in Chained(done, c) : o \in Nat
  BY DEF Chained
<1>2. S \in SUBSET (0 .. Size)
  BY <1>1 DEF Setting, Smaller
<1>3. S # {}
  OBVIOUS
<1>4. Max(S) \in S /\ \A y \in S : Max(S) >= y
  <2> HIDE DEF S
  <2>1. Size \in Nat
    BY DEF Setting
  <2> QED BY ZenonT(60), <1>2, <1>3, <2>1, MaxOf, Zenon
<1>5. Advance(done, c) = Max(S)
  BY DEF Advance
<1> HIDE DEF Advance
<1> QED BY ZenonT(60), <1>2, <1>4, <1>5 DEF ChunkTop

\* The new prefix is at the destination when the old one and every chunk of
\* done are.
LEMMA AdvancePrefix ==
  ASSUME Setting, known = Size, NEW done \in SUBSET Nat, NEW c \in 0 .. Size,
         NEW d, Filled(d, 0, c), \A o \in done : Filled(d, o, ChunkTop(o))
  PROVE  Filled(d, 0, Advance(done, c))
<1>1. SUFFICES ASSUME NEW p \in Bytes, p < Advance(done, c), c <= p
               PROVE  p \in d
  BY DEF Filled, Bytes
<1>2. p \in Nat /\ p < Size
  BY DEF Bytes, Setting
<1>3. PICK o \in Chained(done, c) : Advance(done, c) = ChunkTop(o)
  BY <1>1, <1>2, AdvanceValue
<1>4. o \in Nat
  BY DEF Chained
<1>5. p < o + chunk
  BY <1>1, <1>2, <1>3, <1>4 DEF ChunkTop, Smaller, Setting
<1>6. PICK e \in done : e <= p /\ p < e + chunk
  BY <1>1, <1>2, <1>5, ChainCovers
<1>7. p < ChunkTop(e)
  BY <1>2, <1>6 DEF ChunkTop, Smaller, Setting
<1> QED BY <1>6, <1>7 DEF Filled

-----------------------------------------------------------------------------
(* What every action is shown to do: keep the invariant, and take a step of *)
(* FileTransfer or none.                                                    *)
Keeps == TransferInv' /\ [Promise!Next]_<<dest, file>>

LEMMA FirstWorker == ASSUME Setting PROVE First \in Workers
  BY DEF First, Setting

LEMMA IdleRecord == Idle \in ConnRecord /\ ~Plain(Idle) /\ ~Whole(Idle)
  BY DEF Idle, ConnRecord, Places, Plain, Whole

LEMMA FilledMore ==
  ASSUME NEW d, NEW e, d \subseteq e, NEW a, NEW b, Filled(d, a, b)
  PROVE  Filled(e, a, b)
  BY ZenonT(60), Zenon DEF Filled

\* A prefix and the body that continues it make a longer prefix.
LEMMA FilledJoin ==
  ASSUME Setting, NEW d, NEW a \in Nat, NEW b \in Nat,
         Filled(d, 0, a), Filled(d, a, b)
  PROVE  Filled(d, 0, b)
  BY DEF Filled, Bytes, Setting

LEMMA FilledOne ==
  ASSUME Setting, NEW d, NEW a \in Nat, NEW b \in Nat, Filled(d, a, b), b \in d
  PROVE  Filled(d, a, b + 1)
  BY DEF Filled, Bytes, Setting

\* Where the bodies that the requests ask for end.
LEMMA BodyEnds ==
  ASSUME Setting
  PROVE  BodyEnd(0) = Size /\ BodyEnd(Size) = Size
  BY DEF BodyEnd, Smaller, Setting

LEMMA ChunkEnds ==
  ASSUME Setting, NEW n \in Nat, n < Size
  PROVE  /\ n + chunk \in Nat /\ BodyEnd(n + chunk) = ChunkTop(n)
         /\ Smaller(n + chunk, Size) \in Nat
         /\ BodyEnd(Smaller(n + chunk, Size)) = ChunkTop(n)
         /\ n <= ChunkTop(n)
  BY DEF BodyEnd, ChunkTop, Smaller, Setting

\* A chunk shorter than asked for is the last one.
LEMMA ShortChunk ==
  ASSUME Setting, NEW n \in Nat, NEW c \in Nat, n + c = ChunkTop(n), c < chunk
  PROVE  n + c = Size
  BY DEF ChunkTop, Smaller, Setting

LEMMA Full ==
  ASSUME Setting, TypeOK, Filled(dest, 0, Size)
  PROVE  dest = Bytes
<1>1. \A p \in Bytes : 0 <= p /\ p < Size
  BY DEF Bytes, Setting
<1>2. \A p \in Bytes : p \in dest
  BY ZenonT(60), <1>1, Zenon DEF Filled
<1> QED BY ZenonT(60), <1>2, Zenon DEF TypeOK

\* A new body, or none, in one of the connections.
LEMMA Replaced ==
  ASSUME conns \in [Workers -> ConnRecord], NEW w \in Workers,
         NEW r \in ConnRecord, conns' = [conns EXCEPT ![w] = r]
  PROVE  /\ conns' \in [Workers -> ConnRecord]
         /\ conns'[w] = r
         /\ \A v \in Workers : v # w => conns'[v] = conns[v]
  BY ZenonT(60), Zenon

\* The attempt, or the file, is over and no body is left.
LEMMA Settles ==
  ASSUME Setting,
         engine' \in {"choose", "request", "end"},
         conns' = [w \in Workers |-> Idle],
         TypeOK', Locals',
         engine' = "choose" =>
           file' = "removed" \/ (file' = "open" /\ dest' = {}),
         engine' = "request" => file' = "open" /\ Filled(dest', 0, offset')
  PROVE  TransferInv'
<1>1. conns' \in [Workers -> ConnRecord] /\ \A w \in Workers : conns'[w] = Idle
  BY ZenonT(60), IdleRecord, Zenon
<1>2. TransferTypes'
  BY ZenonT(60), <1>1, Zenon DEF TransferTypes
<1>3. BodiesLand'
  BY ZenonT(60), <1>1, IdleRecord, Zenon DEF BodiesLand, Lands
<1>4. DestinationInv'
  BY <1>1 DEF DestinationInv, UrlEngines, OneBody
<1>5. (StagingInv /\ ProbeInv /\ SingleInv /\ SequentialInv /\ ChunksInv)'
  BY DEF StagingInv, ProbeInv, SingleInv, SequentialInv, ChunksInv
<1> QED BY ZenonT(60), <1>2, <1>3, <1>4, <1>5, Zenon DEF TransferInv

\* transferFromURL goes on after an attempt that left a longer prefix.
LEMMA AgainKeeps ==
  ASSUME Setting, TransferInv, engine \in UrlEngines,
         NEW written \in Nat, NEW sz \in {0, Size},
         offset + written <= Size, Filled(dest, 0, offset + written),
         Again(written, sz), Locals'
  PROVE  Keeps
<1>1. /\ engine' = "request" /\ conns' = [w \in Workers |-> Idle]
      /\ dest' = dest /\ file' = file /\ offset' = offset + written
      /\ size' = IF sz > 0 THEN sz ELSE size
  BY DEF Again, ResultWith
<1>2. file = "open"
  BY DEF TransferInv, DestinationInv
<1>3. TypeOK'
  BY <1>1 DEF TransferInv, TransferTypes, TypeOK, Locals, Setting
<1>4. TransferInv'
  BY <1>1, <1>2, <1>3, Settles
<1> QED BY <1>1, <1>4 DEF Keeps

\* writer.Abort discards the destination.
LEMMA AbortKeeps ==
  ASSUME Setting, TransferInv, engine \in UrlEngines \cup {"staging"},
         Abort, Locals', offset' \in 0 .. Size, size' \in {0, Size}
  PROVE  Keeps
<1>1. /\ engine' \in {"choose", "end"} /\ conns' = [w \in Workers |-> Idle]
      /\ dest' = dest /\ file' = "removed"
  BY DEF Abort
<1>2. file = "open"
  BY DEF TransferInv, DestinationInv
<1>3. TypeOK'
  BY <1>1 DEF TransferInv, TransferTypes, TypeOK, Locals
<1>4. TransferInv'
  BY <1>1, <1>3, Settles
<1>5. Promise!Next
  BY <1>1, <1>2 DEF Promise!Next, Promise!Discard
<1> QED BY <1>4, <1>5 DEF Keeps

\* writer.Close finalizes a destination that has every byte.
LEMMA CloseKeeps ==
  ASSUME Setting, TransferInv, engine \in UrlEngines \cup {"staging"},
         Close, Locals', offset' \in 0 .. Size, size' \in {0, Size},
         Filled(dest, 0, Size)
  PROVE  Keeps
<1>1. CASE Abort
  BY <1>1, AbortKeeps
<1>2. CASE /\ file' = "published" /\ engine' = "end"
           /\ conns' = [w \in Workers |-> Idle] /\ dest' = dest
  <2>1. file = "open"
    BY DEF TransferInv, DestinationInv
  <2>2. TypeOK'
    BY <1>2 DEF TransferInv, TransferTypes, TypeOK, Locals
  <2>3. TransferInv'
    BY <1>2, <2>2, Settles
  <2>4. dest = Bytes
    BY Full DEF TransferInv, TransferTypes
  <2>5. Promise!Next
    BY <1>2, <2>1, <2>4 DEF Promise!Next, Promise!Publish
  <2> QED BY <2>3, <2>5 DEF Keeps
<1> QED BY <1>1, <1>2 DEF Close

LEMMA FinishedKeeps ==
  ASSUME Setting, TransferInv, engine \in UrlEngines,
         NEW written \in Nat, NEW sz \in {0, Size}, offset + written <= Size,
         Finished(written, sz), Locals', Filled(dest, 0, Size)
  PROVE  Keeps
<1>1. Close /\ offset' = offset + written /\ size' \in {0, Size}
  BY DEF Finished, ResultWith, TransferInv, TransferTypes, TypeOK
<1>2. offset' \in 0 .. Size
  BY <1>1 DEF TransferInv, TransferTypes, TypeOK, Setting
<1> QED BY <1>1, <1>2, CloseKeeps

\* The invariant while one body, or none, is being copied.
LEMMA OneBodyInv ==
  ASSUME engine' \in OneBody, file' = "open", TypeOK', Locals',
         conns' \in [Workers -> ConnRecord],
         \A w \in Workers : w # First => conns'[w] = Idle,
         Lands(conns'[First], dest'),
         engine' # "staging" => Filled(dest', 0, offset'),
         StagingInv', ProbeInv', SingleInv', SequentialInv'
  PROVE  TransferInv'
<1>1. \A w \in Workers : Lands(conns'[w], dest')
  BY ZenonT(60), IdleRecord, Zenon DEF Lands
<1>2. TransferTypes' /\ BodiesLand'
  BY ZenonT(60), <1>1, Zenon DEF TransferTypes, BodiesLand
<1>3. DestinationInv' /\ ChunksInv'
  BY DEF DestinationInv, ChunksInv, OneBody, UrlEngines
<1> QED BY ZenonT(60), <1>2, <1>3, Zenon DEF TransferInv

\* The invariant while the workers of runChunks copy.
LEMMA ManyBodiesInv ==
  ASSUME engine' = "chunks", file' = "open", TypeOK', Locals',
         conns' \in [Workers -> ConnRecord],
         BodiesLand', Filled(dest', 0, offset'), ChunksInv'
  PROVE  TransferInv'
<1>1. TransferTypes'
  BY ZenonT(60), Zenon DEF TransferTypes
<1>2. DestinationInv'
  BY DEF DestinationInv, OneBody, UrlEngines
<1>3. StagingInv' /\ ProbeInv' /\ SingleInv' /\ SequentialInv'
  BY DEF StagingInv, ProbeInv, SingleInv, SequentialInv
<1> QED BY ZenonT(60), <1>1, <1>2, <1>3, Zenon DEF TransferInv

LEMMA AllIdle ==
  ASSUME conns \in [Workers -> ConnRecord], \A w \in Workers : conns[w] = Idle
  PROVE  conns = [w \in Workers |-> Idle]
  BY ZenonT(60), Zenon

\* A body that has just been opened has read nothing yet.
LEMMA Fresh ==
  ASSUME Setting, NEW kind \in {"body", "whole"}, NEW pos \in Nat,
         NEW end \in Nat, pos <= BodyEnd(end), NEW d
  PROVE  /\ Body(kind, pos, end) \in ConnRecord
         /\ Lands(Body(kind, pos, end), d)
         /\ Body(kind, pos, end).at = kind
         /\ Spans(Body(kind, pos, end), pos, BodyEnd(end))
<1>1. BodyEnd(end) \in Nat /\ BodyEnd(end) <= Size
  BY DEF BodyEnd, Smaller, Setting
<1>2. /\ Body(kind, pos, end) \in ConnRecord
      /\ Body(kind, pos, end).at = kind
      /\ Body(kind, pos, end).pos = pos
      /\ Spans(Body(kind, pos, end), pos, BodyEnd(end))
  BY <1>1 DEF Body, ConnRecord, Places, Spans
<1>3. Filled(d, pos, pos)
  BY DEF Filled, Bytes, Setting
<1> HIDE DEF Body
<1> QED BY <1>1, <1>2, <1>3 DEF Lands, Spans

-----------------------------------------------------------------------------
(* transferFile: choosing an engine and opening the destination.            *)

LEMMA OpenWriterStep ==
  ASSUME TransferInv, engine = "choose", OpenWriter
  PROVE  [Promise!Next]_<<dest, file>>
  BY DEF TransferInv, DestinationInv, OpenWriter, Promise!Next, Promise!Reopen

LEMMA StagingUnreadableKeeps ==
  ASSUME Setting, TransferInv, StagingUnreadable PROVE Keeps
<1>1. /\ engine = "choose" /\ engine' \in {"choose", "end"}
      /\ conns' = conns /\ dest' = dest /\ file' = file /\ offset' = offset
      /\ size' = size /\ UNCHANGED chunkVars
      /\ known' = known /\ listed' = listed /\ total' = total
  BY DEF StagingUnreadable
<1>2. conns' = [w \in Workers |-> Idle]
  BY <1>1, AllIdle DEF TransferInv, DestinationInv, TransferTypes
<1>3. Locals' /\ TypeOK'
  BY <1>1 DEF TransferInv, TransferTypes, Locals, TypeOK, chunkVars
<1>4. TransferInv'
  BY <1>1, <1>2, <1>3, Settles DEF TransferInv, DestinationInv
<1> QED BY <1>1, <1>4 DEF Keeps

LEMMA StagingOpenKeeps ==
  ASSUME Setting, TransferInv, StagingOpen PROVE Keeps
<1>1. /\ engine = "choose" /\ engine' = "staging"
      /\ conns' = [conns EXCEPT ![First] = Body("body", 0, 0)]
      /\ OpenWriter /\ offset' = 0 /\ total' = 0
      /\ size' = size /\ UNCHANGED chunkVars
      /\ known' = known /\ listed' = listed
  BY DEF StagingOpen
<1>2. dest' = {} /\ file' = "open"
  BY <1>1 DEF OpenWriter
<1>3. Locals' /\ TypeOK'
  BY <1>1, <1>2 DEF TransferInv, TransferTypes, Locals, TypeOK, chunkVars, Setting
<1>4. BodyEnd(0) = Size /\ 0 <= Size
  BY DEF BodyEnd, Setting
<1>5. /\ Body("body", 0, 0) \in ConnRecord /\ Lands(Body("body", 0, 0), dest')
      /\ Plain(Body("body", 0, 0)) /\ Spans(Body("body", 0, 0), 0, Size)
  BY ZenonT(60), <1>4, Fresh DEF Plain
<1>6. /\ conns' \in [Workers -> ConnRecord] /\ conns'[First] = Body("body", 0, 0)
      /\ \A w \in Workers : w # First => conns'[w] = Idle
  BY <1>1, <1>5, FirstWorker, Replaced DEF TransferInv, TransferTypes, DestinationInv
<1>7. StagingInv' /\ ProbeInv' /\ SingleInv' /\ SequentialInv'
  BY <1>1, <1>5, <1>6 DEF StagingInv, ProbeInv, SingleInv, SequentialInv
<1>8. TransferInv'
  BY ZenonT(60), <1>1, <1>2, <1>3, <1>5, <1>6, <1>7, OneBodyInv DEF OneBody
<1> QED BY <1>1, <1>8, OpenWriterStep DEF Keeps

LEMMA UrlOpenKeeps ==
  ASSUME Setting, TransferInv, UrlOpen PROVE Keeps
<1>1. /\ engine = "choose" /\ engine' = "request"
      /\ conns' = conns /\ OpenWriter /\ offset' = 0 /\ size' = listed
      /\ UNCHANGED chunkVars
      /\ known' = known /\ listed' = listed /\ total' = total
  BY DEF UrlOpen
<1>2. dest' = {} /\ file' = "open"
  BY <1>1 DEF OpenWriter
<1>3. Locals' /\ TypeOK'
  BY <1>1, <1>2 DEF TransferInv, TransferTypes, Locals, TypeOK, chunkVars, Setting
<1>4. conns' = [w \in Workers |-> Idle]
  BY <1>1, AllIdle DEF TransferInv, DestinationInv, TransferTypes
<1>5. Filled(dest', 0, offset')
  BY <1>1 DEF Filled, Bytes, Setting
<1>6. TransferInv'
  BY <1>1, <1>2, <1>3, <1>4, <1>5, Settles
<1> QED BY <1>1, <1>6, OpenWriterStep DEF Keeps

LEMMA ExhaustedKeeps ==
  ASSUME Setting, TransferInv, Exhausted PROVE Keeps
<1>1. /\ engine = "request" /\ Abort /\ offset' = offset /\ size' = size
      /\ UNCHANGED chunkVars
      /\ known' = known /\ listed' = listed /\ total' = total
  BY DEF Exhausted
<1>2. Locals' /\ offset' \in 0 .. Size /\ size' \in {0, Size}
  BY <1>1 DEF TransferInv, TransferTypes, TypeOK, Locals, chunkVars
<1> QED BY <1>1, <1>2, AbortKeeps DEF UrlEngines

-----------------------------------------------------------------------------
(* offlineURLFetch.run: the plan, and the requests it makes.                *)

LEMMA PlanValue ==
  ASSUME Setting, NEW start \in Nat, NEW sz \in {0, Size}
  PROVE  /\ Plan(start, sz) \in {"done", "probe", "single", "chunks"}
         /\ Plan(start, sz) = "done" => sz = Size /\ start >= Size
         /\ Plan(start, sz) = "probe" => sz = 0
         /\ Plan(start, sz) = "single" => sz = Size /\ start < Size
         /\ Plan(start, sz) = "chunks" => sz = Size /\ Size > 0
<1>1. CASE sz > 0 /\ start >= sz
  BY <1>1 DEF Plan, Setting
<1>2. CASE sz = 0
  BY <1>2 DEF Plan, Setting
<1>3. CASE sz > 0 /\ start < sz
  BY <1>3 DEF Plan, Setting
<1> QED BY <1>1, <1>2, <1>3 DEF Setting

\* A plan starts with no body open, or with every worker about to take.
LEMMA PlanStarts ==
  ASSUME Setting, TransferInv, engine \in UrlEngines,
         \A w \in Workers : conns[w] = Idle,
         NEW sz \in {0, Size}, known' = sz, engine' = Plan(offset, sz),
         engine' # "done", StartChunks(engine'), total' \in Nat,
         UNCHANGED <<dest, file, offset, size, listed>>
  PROVE  Keeps
<1>1. /\ offset \in Nat /\ offset \in 0 .. Size /\ Filled(dest, 0, offset)
      /\ file = "open" /\ conns \in [Workers -> ConnRecord] /\ Locals /\ TypeOK
  BY DEF TransferInv, TransferTypes, TypeOK, DestinationInv, Setting
<1>2. /\ engine' \in {"probe", "single", "chunks"}
      /\ engine' = "probe" => known' = 0
      /\ engine' = "single" => known' = Size /\ offset < Size
      /\ engine' = "chunks" => known' = Size /\ Size > 0
  BY <1>1, PlanValue
<1>3. CASE engine' = "chunks"
  <2>1. /\ next' = offset /\ contiguous' = offset /\ completed' = {}
        /\ conns' = [w \in Workers |-> [Idle EXCEPT !.at = "take"]]
    BY <1>3 DEF StartChunks
  <2>2. /\ [Idle EXCEPT !.at = "take"] \in ConnRecord
        /\ [Idle EXCEPT !.at = "take"].at = "take"
    BY DEF Idle, ConnRecord, Places
  <2>3. /\ conns' \in [Workers -> ConnRecord]
        /\ \A w \in Workers : conns'[w].at = "take"
    BY ZenonT(60), <2>1, <2>2, Zenon
  <2>4. Locals' /\ TypeOK'
    BY <1>1, <1>3, <2>1 DEF Locals, TypeOK
  <2>5. BodiesLand'
    BY <2>3 DEF BodiesLand, Lands, Plain, Whole
  <2>6. ChunksInv'
    BY SMTT(60), <1>1, <1>2, <1>3, <2>1, <2>3 DEF ChunksInv, ChunkSpan
  <2>7. TransferInv'
    BY ZenonT(60), <1>1, <1>3, <2>3, <2>4, <2>5, <2>6, ManyBodiesInv
  <2> QED BY <2>7 DEF Keeps
<1>4. CASE engine' \in {"probe", "single"}
  <2>1. conns' = conns /\ UNCHANGED chunkVars
    BY <1>4 DEF StartChunks
  <2>2. Locals' /\ TypeOK'
    BY <1>1, <1>4, <2>1 DEF Locals, TypeOK, chunkVars
  <2>3. conns'[First] = Idle
    BY <2>1, FirstWorker
  <2>4. Lands(conns'[First], dest')
    BY ZenonT(60), <2>3, IdleRecord, Zenon DEF Lands
  <2>5. StagingInv' /\ ProbeInv' /\ SingleInv' /\ SequentialInv'
    BY ZenonT(60), <1>2, <1>4, <2>3
       DEF StagingInv, ProbeInv, SingleInv, SequentialInv, OneSpan
  <2>6. TransferInv'
    BY <1>1, <1>4, <2>1, <2>2, <2>4, <2>5, OneBodyInv DEF OneBody
  <2> QED BY <2>6 DEF Keeps
<1> QED BY ZenonT(60), <1>2, <1>3, <1>4

LEMMA RequestURLKeeps ==
  ASSUME Setting, TransferInv, RequestURL PROVE Keeps
<1>1. engine = "request" /\ listed' = listed
  BY DEF RequestURL
<1>2. /\ offset \in 0 .. Size /\ offset \in Nat /\ Filled(dest, 0, offset)
      /\ size \in {0, Size} /\ Locals /\ TypeOK
      /\ conns \in [Workers -> ConnRecord] /\ \A w \in Workers : conns[w] = Idle
      /\ file = "open"
  BY <1>1 DEF TransferInv, TransferTypes, TypeOK, DestinationInv, UrlEngines, Setting
<1>3. CASE UNCHANGED <<engine, dest, file, offset, size, known, chunkVars, conns, total>>
  <2>1. TypeOK' /\ Locals'
    BY <1>1, <1>2, <1>3 DEF TypeOK, Locals, chunkVars
  <2>2. conns' = [w \in Workers |-> Idle]
    BY <1>2, <1>3, AllIdle
  <2>3. TransferInv'
    BY <1>1, <1>2, <1>3, <2>1, <2>2, Settles
  <2> QED BY <1>3, <2>3 DEF Keeps
<1>4. ASSUME NEW disclosed \in {0, Size}, NEW sz,
             sz = IF disclosed > 0 THEN disclosed ELSE size,
             known' = sz, total' = 0,
             IF Plan(offset, sz) = "done"
               THEN Finished(0, sz) /\ UNCHANGED chunkVars
               ELSE /\ engine' = Plan(offset, sz)
                    /\ StartChunks(Plan(offset, sz))
                    /\ UNCHANGED <<dest, file, offset, size>>
      PROVE  Keeps
  <2>1. sz \in {0, Size}
    BY <1>2, <1>4
  <2>2. CASE Plan(offset, sz) = "done"
    <3>1. Locals'
      BY ZenonT(60), <1>1, <1>2, <1>4, <2>1, <2>2 DEF Locals, chunkVars
    <3>2. offset = Size /\ offset + 0 <= Size
      BY <1>2, <2>1, <2>2, PlanValue DEF Setting
    <3>3. Finished(0, sz) /\ Filled(dest, 0, Size)
      BY <1>2, <1>4, <2>2, <3>2
    <3> QED BY ZenonT(60), <1>1, <2>1, <3>1, <3>2, <3>3, FinishedKeeps DEF UrlEngines
  <2>3. CASE Plan(offset, sz) # "done"
    <3>1. /\ engine' = Plan(offset, sz) /\ StartChunks(engine')
          /\ UNCHANGED <<dest, file, offset, size, listed>> /\ total' \in Nat
      BY <1>1, <1>4, <2>3
    <3> QED BY <1>1, <1>2, <1>4, <2>1, <2>3, <3>1, PlanStarts DEF UrlEngines
  <2> QED BY <2>2, <2>3
<1>5. QED BY ZenonT(60), <1>3, <1>4, Zenon DEF RequestURL

\* A 416 ends the transfer only when the prefix it confirms is the file.
LEMMA RangeNotSatisfiableKeeps ==
  ASSUME Setting, TransferInv, engine \in UrlEngines,
         NEW off \in Nat, off <= Size, Filled(dest, 0, off),
         NEW sz \in {0, Size}, RangeNotSatisfiable(off, sz), Locals'
  PROVE  Keeps
<1>1. /\ offset \in Nat /\ offset + 0 <= Size /\ offset + 0 = offset
      /\ Filled(dest, 0, offset) /\ known \in {0, Size}
  BY DEF TransferInv, TransferTypes, TypeOK, DestinationInv, Setting
<1>2. PICK disclosed \in {0, Size} :
        IF EndOfFile(off, disclosed) THEN Finished(0, sz) ELSE Again(0, sz)
  BY ZenonT(60), Zenon DEF RangeNotSatisfiable
<1>3. CASE EndOfFile(off, disclosed)
  <2>1. off = Size
    BY <1>1, <1>3 DEF EndOfFile, Setting
  <2> QED BY ZenonT(60), <1>1, <1>2, <1>3, <2>1, FinishedKeeps
<1>4. CASE ~EndOfFile(off, disclosed)
  BY ZenonT(60), <1>1, <1>2, <1>4, AgainKeeps
<1> QED BY <1>3, <1>4

LEMMA ProbeKeeps ==
  ASSUME Setting, TransferInv, Probe PROVE Keeps
<1>1. /\ engine = "probe" /\ conns[First].at = "idle"
      /\ listed' = listed /\ total' = total
  BY DEF Probe
<1>2. /\ offset \in 0 .. Size /\ offset \in Nat /\ Filled(dest, 0, offset)
      /\ offset <= Size /\ offset + 0 = offset /\ known = 0
      /\ Locals /\ TypeOK /\ file = "open" /\ conns \in [Workers -> ConnRecord]
      /\ engine \in UrlEngines
  BY <1>1 DEF TransferInv, TransferTypes, TypeOK, DestinationInv, UrlEngines,
              ProbeInv, Setting
<1>3. \A w \in Workers : conns[w] = Idle
  <2>1. conns[First] = Idle
    BY ZenonT(60), <1>1 DEF TransferInv, ProbeInv, OneSpan, Plain
  <2>2. \A w \in Workers : w # First => conns[w] = Idle
    BY <1>1 DEF TransferInv, DestinationInv, OneBody
  <2> QED BY ZenonT(60), <2>1, <2>2, Zenon
<1>4. CASE Again(0, 0) /\ UNCHANGED <<known, chunkVars>>
  <2>1. Locals'
    BY ZenonT(60), <1>1, <1>2, <1>4 DEF Locals, chunkVars
  <2> QED BY ZenonT(60), <1>2, <1>4, <2>1, AgainKeeps
<1>5. CASE RangeNotSatisfiable(offset, 0) /\ UNCHANGED <<known, chunkVars>>
  <2>1. Locals'
    BY <1>1, <1>2, <1>5 DEF Locals, chunkVars
  <2> QED BY ZenonT(60), <1>2, <1>5, <2>1, RangeNotSatisfiableKeeps
<1>6. CASE /\ conns' = [conns EXCEPT ![First] = Body("body", offset, 0)]
           /\ UNCHANGED <<engine, dest, file, offset, size, known, chunkVars>>
  <2>1. BodyEnd(0) = Size
    BY ZenonT(60), BodyEnds
  <2>2. /\ Body("body", offset, 0) \in ConnRecord
        /\ Lands(Body("body", offset, 0), dest')
        /\ OneSpan(Body("body", offset, 0), offset)
    BY ZenonT(60), <1>2, <2>1, Fresh DEF OneSpan, Plain
  <2>3. /\ conns' \in [Workers -> ConnRecord]
        /\ conns'[First] = Body("body", offset, 0)
        /\ \A w \in Workers : w # First => conns'[w] = Idle
    BY ZenonT(60), <1>2, <1>3, <1>6, <2>2, FirstWorker, Replaced
  <2>4. Locals' /\ TypeOK'
    BY ZenonT(60), <1>1, <1>2, <1>6 DEF Locals, TypeOK, chunkVars
  <2>5. StagingInv' /\ ProbeInv' /\ SingleInv' /\ SequentialInv'
    BY ZenonT(60), <1>1, <1>2, <1>6, <2>2, <2>3
       DEF StagingInv, ProbeInv, SingleInv, SequentialInv
  <2>6. TransferInv'
    BY ZenonT(60), <1>1, <1>2, <1>6, <2>2, <2>3, <2>4, <2>5, OneBodyInv DEF OneBody
  <2> QED BY <1>6, <2>6 DEF Keeps
<1>7. CASE /\ engine' = "sequential" /\ next' = offset
           /\ UNCHANGED <<known, contiguous, completed, conns>>
           /\ UNCHANGED <<dest, file, offset, size>>
  <2>1. Locals' /\ TypeOK'
    BY <1>1, <1>2, <1>7 DEF Locals, TypeOK
  <2>2. conns'[First] = Idle
    BY <1>3, <1>7, FirstWorker
  <2>3. Lands(conns'[First], dest')
    BY ZenonT(60), <2>2, IdleRecord, Zenon DEF Lands
  <2>4. StagingInv' /\ ProbeInv' /\ SingleInv' /\ SequentialInv'
    BY SMTT(60), <1>2, <1>7, <2>2
       DEF StagingInv, ProbeInv, SingleInv, SequentialInv, NextSpan
  <2>5. TransferInv'
    BY ZenonT(60), <1>2, <1>3, <1>7, <2>1, <2>3, <2>4, OneBodyInv DEF OneBody
  <2> QED BY ZenonT(60), <1>7, <2>5 DEF Keeps
<1>8. CASE /\ offset < Size /\ known' = Size
           /\ engine' = Plan(offset, Size) /\ StartChunks(Plan(offset, Size))
           /\ UNCHANGED <<dest, file, offset, size>>
  <2>1. engine' # "done"
    BY SMTT(60), <1>2, <1>8, PlanValue DEF Setting
  <2>2. total' \in Nat /\ UNCHANGED <<dest, file, offset, size, listed>>
    BY ZenonT(60), <1>1, <1>2, <1>8 DEF Locals
  <2> QED BY ZenonT(60), <1>2, <1>3, <1>8, <2>1, <2>2, PlanStarts
<1> QED BY ZenonT(60), <1>4, <1>5, <1>6, <1>7, <1>8 DEF Probe

LEMMA SingleOpenKeeps ==
  ASSUME Setting, TransferInv, SingleOpen PROVE Keeps
<1>1. /\ engine = "single" /\ conns[First].at = "idle"
      /\ listed' = listed /\ total' = total /\ known' = known
      /\ UNCHANGED chunkVars
  BY ZenonT(60) DEF SingleOpen
<1>2. /\ offset \in 0 .. Size /\ offset \in Nat /\ Filled(dest, 0, offset)
      /\ offset <= Size /\ offset + 0 = offset /\ known = Size /\ offset < Size
      /\ Locals /\ TypeOK /\ file = "open" /\ conns \in [Workers -> ConnRecord]
      /\ engine \in UrlEngines
  BY SMTT(60), <1>1 DEF TransferInv, TransferTypes, TypeOK, DestinationInv, UrlEngines,
              SingleInv, Setting
<1>3. \A w \in Workers : w # First => conns[w] = Idle
  BY <1>1 DEF TransferInv, DestinationInv, OneBody
<1>4. Locals'
  BY <1>1, <1>2 DEF Locals, chunkVars
<1>5. CASE Again(0, 0) \/ Again(0, known)
  BY <1>2, <1>4, <1>5, AgainKeeps
<1>6. CASE RangeNotSatisfiable(offset, known)
  BY <1>2, <1>4, <1>6, RangeNotSatisfiableKeeps
<1>7. CASE /\ conns' = [conns EXCEPT ![First] = Body("body", offset, known)]
           /\ UNCHANGED <<engine, dest, file, offset, size>>
  <2>1. BodyEnd(known) = Size /\ known \in Nat
    BY ZenonT(60), <1>2, BodyEnds DEF Setting
  <2>2. /\ Body("body", offset, known) \in ConnRecord
        /\ Lands(Body("body", offset, known), dest')
        /\ OneSpan(Body("body", offset, known), offset)
    BY ZenonT(60), <1>2, <2>1, Fresh DEF OneSpan, Plain
  <2>3. /\ conns' \in [Workers -> ConnRecord]
        /\ conns'[First] = Body("body", offset, known)
        /\ \A w \in Workers : w # First => conns'[w] = Idle
    BY ZenonT(60), <1>2, <1>3, <1>7, <2>2, FirstWorker, Replaced
  <2>4. TypeOK'
    BY ZenonT(60), <1>1, <1>2, <1>7 DEF TypeOK, chunkVars
  <2>5. StagingInv' /\ ProbeInv' /\ SingleInv' /\ SequentialInv'
    BY ZenonT(60), <1>1, <1>2, <1>7, <2>2, <2>3
       DEF StagingInv, ProbeInv, SingleInv, SequentialInv
  <2>6. TransferInv'
    BY ZenonT(60), <1>1, <1>2, <1>4, <1>7, <2>2, <2>3, <2>4, <2>5, OneBodyInv DEF OneBody
  <2> QED BY <1>7, <2>6 DEF Keeps
<1> QED BY ZenonT(60), <1>5, <1>6, <1>7 DEF SingleOpen

LEMMA SequentialOpenKeeps ==
  ASSUME Setting, TransferInv, SequentialOpen PROVE Keeps
<1>1. /\ engine = "sequential" /\ conns[First].at = "idle"
      /\ listed' = listed /\ total' = total /\ known' = known
      /\ UNCHANGED chunkVars
  BY ZenonT(60) DEF SequentialOpen
<1>2. /\ offset \in 0 .. Size /\ offset \in Nat /\ Filled(dest, 0, offset)
      /\ offset <= Size /\ offset + 0 = offset /\ known = 0
      /\ offset <= next /\ next <= Size /\ next \in Nat /\ Filled(dest, 0, next)
      /\ Locals /\ TypeOK /\ file = "open" /\ conns \in [Workers -> ConnRecord]
      /\ engine \in UrlEngines
  BY SMTT(60), <1>1 DEF TransferInv, TransferTypes, TypeOK, DestinationInv, UrlEngines,
              SequentialInv, Locals, Setting
<1>3. \A w \in Workers : w # First => conns[w] = Idle
  BY <1>1 DEF TransferInv, DestinationInv, OneBody
<1>4. Locals'
  BY <1>1, <1>2 DEF Locals, chunkVars
<1>5. CASE Again(0, 0)
  BY <1>2, <1>4, <1>5, AgainKeeps
<1>6. CASE RangeNotSatisfiable(next, 0)
  BY <1>2, <1>4, <1>6, RangeNotSatisfiableKeeps
<1>7. ASSUME NEW r \in ConnRecord, Lands(r, dest), NextSpan(r, offset, next),
             conns' = [conns EXCEPT ![First] = r],
             UNCHANGED <<engine, dest, file, offset, size>>
      PROVE  Keeps
  <2>1. /\ conns' \in [Workers -> ConnRecord] /\ conns'[First] = r
        /\ \A w \in Workers : w # First => conns'[w] = Idle
    BY ZenonT(60), <1>2, <1>3, <1>7, FirstWorker, Replaced
  <2>2. TypeOK'
    BY ZenonT(60), <1>1, <1>2, <1>7 DEF TypeOK, chunkVars
  <2>3. StagingInv' /\ ProbeInv' /\ SingleInv' /\ SequentialInv'
    BY ZenonT(60), <1>1, <1>2, <1>7, <2>1
       DEF StagingInv, ProbeInv, SingleInv, SequentialInv, chunkVars
  <2>4. TransferInv'
    BY ZenonT(60), <1>1, <1>2, <1>4, <1>7, <2>1, <2>2, <2>3, OneBodyInv DEF OneBody
  <2> QED BY ZenonT(60), <1>7, <2>4 DEF Keeps
<1>8. CASE /\ next < Size
           /\ conns' = [conns EXCEPT
                          ![First] = Body("body", next, next + chunk)]
           /\ UNCHANGED <<engine, dest, file, offset, size>>
  <2>1. /\ BodyEnd(next + chunk) = ChunkTop(next) /\ next + chunk \in Nat
        /\ next <= ChunkTop(next)
    BY ZenonT(60), <1>2, <1>8, ChunkEnds
  <2>2. /\ Body("body", next, next + chunk) \in ConnRecord
        /\ Lands(Body("body", next, next + chunk), dest)
        /\ NextSpan(Body("body", next, next + chunk), offset, next)
    BY <1>2, <2>1, Fresh DEF NextSpan, Plain
  <2> QED BY ZenonT(60), <1>7, <1>8, <2>2
<1>9. CASE /\ conns' = [conns EXCEPT ![First] = Body("whole", offset, 0)]
           /\ UNCHANGED <<engine, dest, file, offset, size>>
  <2>1. BodyEnd(0) = Size
    BY ZenonT(60), BodyEnds
  <2>2. /\ Body("whole", offset, 0) \in ConnRecord
        /\ Lands(Body("whole", offset, 0), dest)
        /\ NextSpan(Body("whole", offset, 0), offset, next)
    BY <1>2, <2>1, Fresh DEF NextSpan, Whole
  <2> QED BY ZenonT(60), <1>7, <1>9, <2>2
<1> QED BY ZenonT(60), <1>5, <1>6, <1>8, <1>9 DEF SequentialOpen

\* A worker of runChunks whose connection changes while the rest of the
\* engine's state keeps describing the destination.
LEMMA WorkerKeeps ==
  ASSUME Setting, TransferInv, engine = "chunks", NEW w \in Workers,
         NEW r \in ConnRecord, conns' = [conns EXCEPT ![w] = r],
         Lands(r, dest), ChunkSpan(r, offset),
         contiguous' \in 0 .. Size, offset <= contiguous',
         Filled(dest, 0, contiguous'),
         completed' \in SUBSET Nat,
         \A o \in completed' : Filled(dest, o, ChunkTop(o)),
         next' \in Nat,
         UNCHANGED <<engine, dest, file, offset, size, known, listed, total>>
  PROVE  Keeps
<1>1. /\ Locals /\ TypeOK /\ conns \in [Workers -> ConnRecord]
      /\ file = "open" /\ Filled(dest, 0, offset)
      /\ \A v \in Workers : Lands(conns[v], dest) /\ ChunkSpan(conns[v], offset)
      /\ known = Size /\ Size > 0
  BY DEF TransferInv, TransferTypes, DestinationInv, BodiesLand, ChunksInv, UrlEngines
<1>2. /\ conns' \in [Workers -> ConnRecord] /\ conns'[w] = r
      /\ \A v \in Workers : v # w => conns'[v] = conns[v]
  BY <1>1, Replaced
<1>3. \A v \in Workers : Lands(conns'[v], dest) /\ ChunkSpan(conns'[v], offset)
  BY ZenonT(60), <1>1, <1>2, Zenon
<1>4. Locals' /\ TypeOK'
  BY <1>1 DEF Locals, TypeOK
<1>5. BodiesLand'
  BY ZenonT(60), <1>3, Zenon DEF BodiesLand
<1>6. ChunksInv'
  BY ZenonT(60), <1>1, <1>3 DEF ChunksInv
<1>7. TransferInv'
  BY ZenonT(60), <1>1, <1>2, <1>4, <1>5, <1>6, ManyBodiesInv
<1> QED BY <1>7 DEF Keeps

\* A worker that stops copying: it takes the next chunk, or it leaves.
LEMMA StopsCopying ==
  ASSUME NEW r \in ConnRecord, NEW place \in {"take", "left"}, NEW d, NEW from
  PROVE  /\ [r EXCEPT !.at = place] \in ConnRecord
         /\ Lands([r EXCEPT !.at = place], d)
         /\ ChunkSpan([r EXCEPT !.at = place], from)
  BY DEF ConnRecord, Places, Lands, ChunkSpan, Plain, Whole

\* A worker that asks for the chunk at n copies nothing yet.
LEMMA Asks ==
  ASSUME NEW n \in Nat, n < Size, NEW d, NEW from
  PROVE  /\ [Idle EXCEPT !.at = "ask", !.from = n] \in ConnRecord
         /\ Lands([Idle EXCEPT !.at = "ask", !.from = n], d)
         /\ ChunkSpan([Idle EXCEPT !.at = "ask", !.from = n], from)
  BY DEF Idle, ConnRecord, Places, Lands, ChunkSpan, Plain, Whole

\* What the workers' steps rely on.
LEMMA ChunksFacts ==
  ASSUME Setting, TransferInv, engine = "chunks", NEW w \in Workers
  PROVE  /\ known = Size /\ offset \in Nat /\ offset <= Size /\ next \in Nat
         /\ contiguous \in 0 .. Size /\ offset <= contiguous
         /\ Filled(dest, 0, contiguous) /\ completed \in SUBSET Nat
         /\ \A o \in completed : Filled(dest, o, ChunkTop(o))
         /\ conns[w] \in ConnRecord /\ ChunkSpan(conns[w], offset)
  BY DEF TransferInv, TransferTypes, TypeOK, Locals, ChunksInv, Setting

\* A worker leaves the loop.
LEMMA Leaves ==
  ASSUME NEW w \in Workers, conns[w] \in ConnRecord, NEW d, NEW from,
         conns' = [conns EXCEPT ![w].at = "left"]
  PROVE  \E r \in ConnRecord : /\ conns' = [conns EXCEPT ![w] = r]
                               /\ Lands(r, d) /\ ChunkSpan(r, from)
<1> DEFINE r == [conns[w] EXCEPT !.at = "left"]
<1>1. conns' = [conns EXCEPT ![w] = r]
  OBVIOUS
<1>2. r \in ConnRecord /\ Lands(r, d) /\ ChunkSpan(r, from)
  BY ZenonT(60), StopsCopying
<1> HIDE DEF r
<1> QED BY ZenonT(60), <1>1, <1>2, Zenon

LEMMA TakeKeeps ==
  ASSUME Setting, TransferInv, NEW w \in Workers, Take(w) PROVE Keeps
<1>1. /\ engine = "chunks"
      /\ UNCHANGED <<engine, dest, file, offset, size, known, listed, total>>
      /\ contiguous' = contiguous /\ completed' = completed
  BY DEF Take
<1>2. /\ known = Size /\ offset \in Nat /\ offset <= Size /\ next \in Nat
      /\ contiguous \in 0 .. Size /\ offset <= contiguous
      /\ Filled(dest, 0, contiguous) /\ completed \in SUBSET Nat
      /\ \A o \in completed : Filled(dest, o, ChunkTop(o))
      /\ conns[w] \in ConnRecord
  BY ZenonT(60), <1>1, ChunksFacts
<1>3. next' \in Nat
  BY SMTT(60), <1>2 DEF Take, Setting
<1>4. ASSUME NEW r \in ConnRecord, conns' = [conns EXCEPT ![w] = r],
             Lands(r, dest), ChunkSpan(r, offset)
      PROVE  Keeps
  BY ZenonT(60), <1>1, <1>2, <1>3, <1>4, WorkerKeeps
<1>5. CASE conns' = [conns EXCEPT ![w].at = "left"]
  BY ZenonT(60), <1>2, <1>4, <1>5, Leaves
<1>6. CASE /\ ~(next >= known)
           /\ conns' = [conns EXCEPT ![w] =
                          [Idle EXCEPT !.at = "ask", !.from = next]]
  <2>1. next < Size
    BY <1>2, <1>6 DEF Setting
  <2> QED BY ZenonT(60), <1>2, <1>4, <1>6, <2>1, Asks
<1> QED BY ZenonT(60), <1>5, <1>6 DEF Take

LEMMA RespondKeeps ==
  ASSUME Setting, TransferInv, NEW w \in Workers, Respond(w) PROVE Keeps
<1> DEFINE n == conns[w].from
           e == Smaller(n + chunk, known)
<1>1. /\ engine = "chunks" /\ conns[w].at = "ask"
      /\ UNCHANGED <<engine, dest, file, offset, size, known, listed, total>>
      /\ contiguous' = contiguous /\ completed' = completed /\ next' = next
  BY DEF Respond
<1>2. /\ known = Size /\ offset \in Nat /\ offset <= Size /\ next \in Nat
      /\ contiguous \in 0 .. Size /\ offset <= contiguous
      /\ Filled(dest, 0, contiguous) /\ completed \in SUBSET Nat
      /\ \A o \in completed : Filled(dest, o, ChunkTop(o))
      /\ conns[w] \in ConnRecord /\ ChunkSpan(conns[w], offset)
  BY ZenonT(60), <1>1, ChunksFacts
<1>3. n \in Nat /\ n < Size
  BY <1>1, <1>2 DEF ConnRecord, ChunkSpan, Plain, Whole
<1>4. ASSUME NEW r \in ConnRecord, conns' = [conns EXCEPT ![w] = r],
             Lands(r, dest), ChunkSpan(r, offset)
      PROVE  Keeps
  BY ZenonT(60), <1>1, <1>2, <1>4, WorkerKeeps
<1>5. CASE conns' = [conns EXCEPT ![w].at = "left"]
  BY ZenonT(60), <1>2, <1>4, <1>5, Leaves
<1>6. CASE conns' = [conns EXCEPT ![w] = Body("body", n, e)]
  <2>1. e \in Nat /\ BodyEnd(e) = ChunkTop(n) /\ n <= ChunkTop(n)
    BY ZenonT(60), <1>2, <1>3, ChunkEnds
  <2> HIDE DEF e, n
  <2>2. /\ Body("body", n, e) \in ConnRecord
        /\ Lands(Body("body", n, e), dest)
        /\ ChunkSpan(Body("body", n, e), offset)
    BY <1>2, <1>3, <2>1, Fresh DEF ChunkSpan, Plain, Spans
  <2> QED BY ZenonT(60), <1>4, <1>6, <2>2
<1>7. CASE conns' = [conns EXCEPT ![w] = Body("whole", offset, known)]
  <2>1. known \in Nat /\ BodyEnd(known) = Size
    BY ZenonT(60), <1>2, BodyEnds DEF Setting
  <2>2. /\ Body("whole", offset, known) \in ConnRecord
        /\ Lands(Body("whole", offset, known), dest)
        /\ ChunkSpan(Body("whole", offset, known), offset)
    BY <1>2, <2>1, Fresh DEF ChunkSpan, Whole
  <2> QED BY ZenonT(60), <1>4, <1>7, <2>2
<1> QED BY ZenonT(60), <1>5, <1>6, <1>7 DEF Respond

-----------------------------------------------------------------------------
(* Copying a body, and how a copy ends.                                     *)

LEMMA LandsMore ==
  ASSUME NEW r, NEW d, NEW e, d \subseteq e, Lands(r, d)
  PROVE  Lands(r, e)
  BY ZenonT(60), FilledMore, Zenon DEF Lands

\* One of the bodies goes on: it stays of its kind and within its span, and
\* the destination only gains bytes.
LEMMA BodyGoesOn ==
  ASSUME Setting, TransferInv, NEW w \in Workers, NEW r \in ConnRecord,
         Plain(conns[w]) \/ Whole(conns[w]),
         conns' = [conns EXCEPT ![w] = r],
         r.from = conns[w].from, r.end = conns[w].end,
         Plain(r) <=> Plain(conns[w]), Whole(r) <=> Whole(conns[w]),
         dest \subseteq dest', dest' \subseteq Bytes, Lands(r, dest'),
         UNCHANGED <<engine, file, offset, size, known, chunkVars, listed>>,
         total' \in Nat
  PROVE  Keeps
<1>1. /\ Locals /\ TypeOK /\ conns \in [Workers -> ConnRecord]
      /\ \A v \in Workers : Lands(conns[v], dest)
  BY DEF TransferInv, TransferTypes, BodiesLand
<1>2. /\ conns' \in [Workers -> ConnRecord] /\ conns'[w] = r
      /\ \A v \in Workers : v # w => conns'[v] = conns[v]
  BY <1>1, Replaced
<1>3. \A v \in Workers : Lands(conns'[v], dest')
  BY ZenonT(60), <1>1, <1>2, LandsMore, Zenon
<1>4. Locals' /\ TypeOK'
  BY <1>1 DEF Locals, TypeOK, chunkVars
<1>5. conns[w] # Idle
  BY ZenonT(60), IdleRecord, Zenon
<1>6. engine \notin {"choose", "request", "end"}
  BY ZenonT(60), <1>5, Zenon DEF TransferInv, DestinationInv
<1>7. engine = "chunks" \/ engine \in OneBody
  BY ZenonT(60), <1>1, <1>6 DEF TypeOK, OneBody
<1>8. file = "open" /\ file' = "open"
  BY <1>7 DEF TransferInv, DestinationInv, OneBody, UrlEngines
<1>9. engine # "staging" => Filled(dest', 0, offset')
  <2>1. engine # "staging" => Filled(dest, 0, offset)
    BY ZenonT(60), <1>7 DEF TransferInv, DestinationInv, OneBody, UrlEngines
  <2> QED BY ZenonT(60), <2>1, FilledMore, Zenon
<1>10. [Promise!Next]_<<dest, file>>
  BY ZenonT(60), <1>8 DEF Promise!Next, Promise!Land
<1>11. CASE engine = "chunks"
  <2>1. /\ known = Size /\ Size > 0
        /\ offset <= contiguous /\ Filled(dest, 0, contiguous)
        /\ \A o \in completed : Filled(dest, o, ChunkTop(o))
        /\ \A v \in Workers : ChunkSpan(conns[v], offset)
    BY <1>11 DEF TransferInv, ChunksInv
  <2>2. /\ Filled(dest', 0, contiguous)
        /\ \A o \in completed : Filled(dest', o, ChunkTop(o))
    BY ZenonT(60), <2>1, FilledMore, Zenon
  <2>3. ChunkSpan(r, offset)
    <3>1. ChunkSpan(conns[w], offset)
      BY ZenonT(60), <2>1, Zenon
    <3>2. conns[w].at \notin {"take", "left", "ask"}
      BY DEF Plain, Whole
    <3> QED BY ZenonT(60), <3>1, <3>2, Zenon DEF ChunkSpan, Spans
  <2>4. \A v \in Workers : ChunkSpan(conns'[v], offset)
    BY ZenonT(60), <1>2, <2>1, <2>3, Zenon
  <2>5. ChunksInv'
    BY ZenonT(60), <2>1, <2>2, <2>4 DEF ChunksInv, chunkVars
  <2>6. BodiesLand'
    BY ZenonT(60), <1>3, Zenon DEF BodiesLand
  <2>7. TransferInv'
    BY ZenonT(60), <1>2, <1>4, <1>8, <1>9, <1>11, <2>5, <2>6, ManyBodiesInv
  <2> QED BY ZenonT(60), <1>10, <2>7 DEF Keeps
<1>12. CASE engine \in OneBody
  <2>1. w = First
    BY ZenonT(60), <1>5, <1>12, Zenon DEF TransferInv, DestinationInv
  <2>2. \A v \in Workers : v # First => conns'[v] = Idle
    BY ZenonT(60), <1>2, <1>12, <2>1, Zenon DEF TransferInv, DestinationInv
  <2>3. conns'[First] = r /\ Lands(conns'[First], dest')
    BY ZenonT(60), <1>2, <2>1, Zenon
  <2>4. StagingInv'
    BY ZenonT(60), <2>1, <2>3 DEF TransferInv, StagingInv, Spans
  <2>5. ProbeInv' /\ SingleInv'
    BY ZenonT(60), <1>5, <2>1, <2>3 DEF TransferInv, ProbeInv, SingleInv, OneSpan, Spans
  <2>6. SequentialInv'
    <3>1. SUFFICES ASSUME engine = "sequential" PROVE SequentialInv'
      BY ZenonT(60) DEF SequentialInv
    <3>2. /\ known = 0 /\ offset <= next /\ next <= Size /\ Filled(dest, 0, next)
          /\ NextSpan(conns[First], offset, next)
      BY <3>1 DEF TransferInv, SequentialInv
    <3>3. NextSpan(r, offset, next)
      BY ZenonT(60), <1>5, <2>1, <3>2, Zenon DEF NextSpan, Spans
    <3>4. Filled(dest', 0, next)
      BY ZenonT(60), <3>2, FilledMore, Zenon
    <3> QED BY ZenonT(60), <2>3, <3>2, <3>3, <3>4 DEF SequentialInv, chunkVars
  <2>7. TransferInv'
    BY ZenonT(60), <1>2, <1>4, <1>8, <1>9, <1>12, <2>2, <2>3, <2>4, <2>5, <2>6, OneBodyInv
  <2> QED BY ZenonT(60), <1>10, <2>7 DEF Keeps
<1> QED BY <1>7, <1>11, <1>12

\* What a buffer read, and its report, leave of the record of a body.
LEMMA Reading ==
  ASSUME NEW s \in ConnRecord, s.at \in {"body", "whole"}, NEW v \in Nat
  PROVE  /\ Buffered(s, v) \in ConnRecord
         /\ Buffered(s, v).from = s.from /\ Buffered(s, v).end = s.end
         /\ Buffered(s, v).pos = s.pos + 1
         /\ Buffered(s, v).at = IF s.at = "body" THEN "report" ELSE "reportWhole"
<1> DEFINE kind == IF s.at = "body" THEN "report" ELSE "reportWhole"
<1>1. s.pos + 1 \in Nat /\ kind \in Places
  BY DEF ConnRecord, Places
<1> HIDE DEF kind
<1>2. Buffered(s, v) = [s EXCEPT !.pos = s.pos + 1, !.at = kind, !.val = v]
  BY ZenonT(60), Zenon DEF Buffered, kind
<1>3. [s EXCEPT !.pos = s.pos + 1, !.at = kind, !.val = v] \in ConnRecord
  BY ZenonT(60), <1>1, Zenon DEF ConnRecord
<1>4. /\ Buffered(s, v).from = s.from /\ Buffered(s, v).end = s.end
      /\ Buffered(s, v).pos = s.pos + 1 /\ Buffered(s, v).at = kind
  BY <1>2 DEF ConnRecord
<1> QED BY ZenonT(60), <1>2, <1>3, <1>4, Zenon DEF kind

LEMMA Reporting ==
  ASSUME NEW s \in ConnRecord, s.at \in {"report", "reportWhole"}
  PROVE  /\ Reported(s) \in ConnRecord
         /\ Reported(s).from = s.from /\ Reported(s).end = s.end
         /\ Reported(s).pos = s.pos
         /\ Reported(s).at = IF s.at = "report" THEN "body" ELSE "whole"
<1> DEFINE kind == IF s.at = "report" THEN "body" ELSE "whole"
<1>1. kind \in Places /\ 0 \in Nat
  BY DEF Places
<1> HIDE DEF kind
<1>2. Reported(s) = [s EXCEPT !.at = kind, !.val = 0]
  BY ZenonT(60), Zenon DEF Reported, kind
<1>3. [s EXCEPT !.at = kind, !.val = 0] \in ConnRecord
  BY ZenonT(60), <1>1, Zenon DEF ConnRecord
<1>4. /\ Reported(s).from = s.from /\ Reported(s).end = s.end
      /\ Reported(s).pos = s.pos /\ Reported(s).at = kind
  BY <1>2 DEF ConnRecord
<1> QED BY ZenonT(60), <1>2, <1>3, <1>4, Zenon DEF kind

LEMMA ReadBufferKeeps ==
  ASSUME Setting, TransferInv, NEW w \in Workers, ReadBuffer(w) PROVE Keeps
<1>1. /\ conns[w] \in ConnRecord /\ conns[w].at \in {"body", "whole"}
      /\ Lands(conns[w], dest) /\ dest \subseteq Bytes
      /\ total \in Nat /\ offset \in Nat
  BY DEF ReadBuffer, InBody, TransferInv, TransferTypes, BodiesLand,
         Locals, TypeOK, Setting
<1>2. ~(conns[w].pos >= conns[w].end)
  BY DEF ReadBuffer, AtEnd
<1>3. PICK r : r = Buffered(conns[w], offset + total + 1)
  OBVIOUS
<1>4. conns' = [conns EXCEPT ![w] = r]
  BY ZenonT(60), <1>3, Zenon DEF ReadBuffer
<1>5. /\ dest' = dest \cup {conns[w].pos} /\ total' = total + 1
      /\ UNCHANGED <<engine, file, offset, size, known, chunkVars, listed>>
  BY DEF ReadBuffer
<1>6. offset + total + 1 \in Nat
  BY SMTT(60), <1>1
<1>7. /\ r \in ConnRecord /\ r.from = conns[w].from /\ r.end = conns[w].end
      /\ r.pos = conns[w].pos + 1
      /\ r.at = IF conns[w].at = "body" THEN "report" ELSE "reportWhole"
  BY ZenonT(60), <1>1, <1>3, <1>6, Reading
<1>8. (Plain(r) <=> Plain(conns[w])) /\ (Whole(r) <=> Whole(conns[w]))
  BY <1>1, <1>7 DEF Plain, Whole
<1>9. Plain(conns[w]) \/ Whole(conns[w])
  BY ZenonT(60), <1>1 DEF Plain, Whole
<1>10. /\ conns[w].from \in Nat /\ conns[w].pos \in Nat /\ conns[w].end \in Nat
       /\ conns[w].from <= conns[w].pos /\ conns[w].end <= Size
       /\ Filled(dest, conns[w].from, conns[w].pos)
  BY ZenonT(60), <1>1, <1>9 DEF Lands, ConnRecord
<1>11. conns[w].pos \in Bytes /\ conns[w].pos < conns[w].end
  BY SMTT(60), <1>2, <1>10 DEF Bytes, Setting
<1>12. dest \subseteq dest' /\ dest' \subseteq Bytes /\ conns[w].pos \in dest'
  BY ZenonT(60), <1>1, <1>5, <1>11
<1>13. Filled(dest', conns[w].from, conns[w].pos + 1)
  <2>1. Filled(dest', conns[w].from, conns[w].pos)
    BY ZenonT(60), <1>10, <1>12, FilledMore
  <2> QED BY ZenonT(60), <1>10, <1>12, <2>1, FilledOne
<1>14. Lands(r, dest')
  <2>1. \A a, b, c \in Nat : a <= b /\ b < c => a <= b + 1 /\ b + 1 <= c
    OBVIOUS
  <2>2. r.from <= r.pos /\ r.pos <= r.end /\ r.end <= Size
    BY ZenonT(60), <1>7, <1>10, <1>11, <2>1
  <2>3. Filled(dest', r.from, r.pos)
    BY ZenonT(60), <1>7, <1>13
  <2> QED BY ZenonT(60), <2>2, <2>3 DEF Lands
<1>15. total' \in Nat
  BY <1>1, <1>5
<1> QED BY ZenonT(60), <1>4, <1>5, <1>7, <1>8, <1>9, <1>12, <1>14, <1>15, BodyGoesOn, Zenon

LEMMA ReportKeeps ==
  ASSUME Setting, TransferInv, NEW w \in Workers, Report(w) PROVE Keeps
<1>1. /\ conns[w] \in ConnRecord /\ conns[w].at \in {"report", "reportWhole"}
      /\ Lands(conns[w], dest) /\ dest \subseteq Bytes /\ total \in Nat
  BY DEF Report, TransferInv, TransferTypes, BodiesLand, Locals, TypeOK
<1>2. PICK r : r = Reported(conns[w])
  OBVIOUS
<1>3. conns' = [conns EXCEPT ![w] = r]
  BY ZenonT(60), <1>2, Zenon DEF Report
<1>4. /\ dest' = dest /\ total' = total
      /\ UNCHANGED <<engine, file, offset, size, known, chunkVars, listed>>
  BY ZenonT(60) DEF Report
<1>5. /\ r \in ConnRecord /\ r.from = conns[w].from /\ r.end = conns[w].end
      /\ r.pos = conns[w].pos
      /\ r.at = IF conns[w].at = "report" THEN "body" ELSE "whole"
  BY ZenonT(60), <1>1, <1>2, Reporting
<1>6. (Plain(r) <=> Plain(conns[w])) /\ (Whole(r) <=> Whole(conns[w]))
  BY ZenonT(60), <1>1, <1>5 DEF Plain, Whole
<1>7. Plain(conns[w]) \/ Whole(conns[w])
  BY ZenonT(60), <1>1 DEF Plain, Whole
<1>8. Lands(r, dest')
  BY ZenonT(60), <1>1, <1>4, <1>5, <1>7 DEF Lands
<1>9. dest \subseteq dest' /\ dest' \subseteq Bytes /\ total' \in Nat
  BY <1>1, <1>4
<1> QED BY ZenonT(60), <1>3, <1>4, <1>5, <1>6, <1>7, <1>8, <1>9, BodyGoesOn, Zenon

\* The body whose copy ends: its bytes continue the prefix they start from.
LEMMA EndOfBody ==
  ASSUME Setting, TransferInv, NEW w \in Workers, InBody(w)
  PROVE  /\ conns[w] \in ConnRecord /\ (Plain(conns[w]) \/ Whole(conns[w]))
         /\ conns[w].from \in Nat /\ conns[w].pos \in Nat /\ conns[w].end \in Nat
         /\ conns[w].from <= conns[w].pos /\ conns[w].pos <= conns[w].end
         /\ conns[w].end <= Size
         /\ Filled(dest, conns[w].from, conns[w].pos)
         /\ Copied(w) \in Nat /\ conns[w].from + Copied(w) = conns[w].pos
         /\ AtEnd(w) => conns[w].pos = conns[w].end
<1>1. conns[w] \in ConnRecord /\ Lands(conns[w], dest)
  BY DEF TransferInv, TransferTypes, BodiesLand
<1>2. Plain(conns[w]) \/ Whole(conns[w])
  BY DEF InBody, Plain, Whole
<1>3. conns[w].from \in Nat /\ conns[w].pos \in Nat /\ conns[w].end \in Nat
  BY <1>1 DEF ConnRecord
<1>4. /\ conns[w].from <= conns[w].pos /\ conns[w].pos <= conns[w].end
      /\ conns[w].end <= Size
      /\ Filled(dest, conns[w].from, conns[w].pos)
  BY ZenonT(60), <1>1, <1>2, Zenon DEF Lands
<1>5. Copied(w) \in Nat /\ conns[w].from + Copied(w) = conns[w].pos
  BY SMTT(60), <1>3, <1>4 DEF Copied
<1>6. AtEnd(w) => conns[w].pos = conns[w].end
  BY <1>3, <1>4 DEF AtEnd
<1> QED BY ZenonT(60), <1>1, <1>2, <1>3, <1>4, <1>5, <1>6, Zenon

LEMMA StagingEndKeeps ==
  ASSUME Setting, TransferInv, StagingEnd PROVE Keeps
<1>1. /\ engine = "staging"
      /\ Abort \/ (InBody(First) /\ AtEnd(First) /\ Close)
      /\ offset' = offset /\ size' = size /\ known' = known
      /\ UNCHANGED chunkVars /\ listed' = listed /\ total' = total
  BY ZenonT(60) DEF StagingEnd
<1>2. Locals' /\ offset' \in 0 .. Size /\ size' \in {0, Size}
  BY <1>1 DEF TransferInv, TransferTypes, TypeOK, Locals, chunkVars
<1>3. CASE Abort
  BY ZenonT(60), <1>1, <1>2, <1>3, AbortKeeps
<1>4. CASE InBody(First) /\ AtEnd(First) /\ Close
  <2>1. conns[First].from = 0 /\ conns[First].end = Size
    BY ZenonT(60), <1>1 DEF TransferInv, StagingInv, Spans
  <2>2. conns[First].pos = Size /\ Filled(dest, conns[First].from, conns[First].pos)
    BY ZenonT(60), <1>4, <2>1, EndOfBody, FirstWorker
  <2>3. Filled(dest, 0, Size)
    BY <2>1, <2>2
  <2> QED BY ZenonT(60), <1>1, <1>2, <1>4, <2>3, CloseKeeps
<1> QED BY ZenonT(60), <1>1, <1>3, <1>4

LEMMA SingleEndKeeps ==
  ASSUME Setting, TransferInv, SingleEnd PROVE Keeps
<1> DEFINE sz == IF engine = "single" THEN known ELSE 0
           done == engine = "probe" \/ offset + Copied(First) >= known
<1>1. /\ engine \in {"probe", "single"} /\ InBody(First)
      /\ \/ Again(Copied(First), sz)
         \/ AtEnd(First) /\ done /\ Finished(Copied(First), sz)
      /\ known' = known /\ UNCHANGED chunkVars
      /\ listed' = listed /\ total' = total
  BY ZenonT(60) DEF SingleEnd, Ends
<1>2. /\ Locals' /\ engine \in UrlEngines /\ sz \in {0, Size}
      /\ offset \in Nat /\ Filled(dest, 0, offset)
  BY SMTT(60), <1>1 DEF TransferInv, TransferTypes, TypeOK, Locals, chunkVars, UrlEngines,
              DestinationInv, Setting
<1>3. conns[First] # Idle
  BY SMTT(60), <1>1 DEF InBody, Idle
<1>4. conns[First].from = offset /\ conns[First].end = Size
  BY ZenonT(60), <1>1, <1>3 DEF TransferInv, ProbeInv, SingleInv, OneSpan, Spans
<1>5. /\ conns[First].pos \in Nat /\ conns[First].pos <= Size
      /\ Filled(dest, offset, conns[First].pos)
      /\ Copied(First) \in Nat /\ offset + Copied(First) = conns[First].pos
      /\ AtEnd(First) => conns[First].pos = Size
  BY ZenonT(60), <1>1, <1>4, EndOfBody, FirstWorker
<1>6. offset + Copied(First) <= Size /\ Filled(dest, 0, offset + Copied(First))
  BY ZenonT(60), <1>2, <1>5, FilledJoin
<1> HIDE DEF sz
<1>7. CASE Again(Copied(First), sz)
  BY ZenonT(60), <1>2, <1>5, <1>6, <1>7, AgainKeeps
<1>8. CASE AtEnd(First) /\ done /\ Finished(Copied(First), sz)
  <2>1. Filled(dest, 0, Size)
    BY ZenonT(60), <1>5, <1>6, <1>8
  <2> QED BY ZenonT(60), <1>2, <1>5, <1>6, <1>8, <2>1, FinishedKeeps
<1> QED BY <1>1, <1>7, <1>8

LEMMA SequentialEndKeeps ==
  ASSUME Setting, TransferInv, SequentialEnd PROVE Keeps
<1>1. /\ engine = "sequential" /\ InBody(First)
      /\ known' = known /\ contiguous' = contiguous /\ completed' = completed
      /\ listed' = listed /\ total' = total
  BY ZenonT(60) DEF SequentialEnd, Ends
<1>2. /\ Locals /\ TypeOK /\ engine \in UrlEngines /\ known = 0
      /\ offset \in Nat /\ offset <= Size /\ offset + 0 = offset
      /\ Filled(dest, 0, offset) /\ file = "open"
      /\ next \in Nat /\ offset <= next /\ next <= Size /\ Filled(dest, 0, next)
      /\ NextSpan(conns[First], offset, next)
      /\ conns \in [Workers -> ConnRecord]
  BY SMTT(60), <1>1 DEF TransferInv, TransferTypes, TypeOK, Locals, UrlEngines,
              DestinationInv, SequentialInv, Setting
<1>3. /\ conns[First].from \in Nat /\ conns[First].pos \in Nat
      /\ conns[First].pos <= conns[First].end /\ conns[First].end <= Size
      /\ conns[First].pos <= Size
      /\ Filled(dest, conns[First].from, conns[First].pos)
      /\ Copied(First) \in Nat
      /\ conns[First].from + Copied(First) = conns[First].pos
      /\ AtEnd(First) => conns[First].pos = conns[First].end
  <2>1. conns[First].pos <= conns[First].end /\ conns[First].end <= Size
        /\ conns[First].pos \in Nat /\ conns[First].end \in Nat
    BY ZenonT(60), <1>1, EndOfBody, FirstWorker
  <2>2. conns[First].pos <= Size
    BY SMTT(60), <2>1 DEF Setting
  <2> QED BY ZenonT(60), <1>1, <2>1, <2>2, EndOfBody, FirstWorker
<1>4. conns[First].at = "whole" =>
        conns[First].from = offset /\ conns[First].end = Size
  BY SMTT(60), <1>2 DEF NextSpan, Spans, Plain, Idle
<1>5. conns[First].at = "body" =>
        conns[First].from = next /\ conns[First].end = ChunkTop(next)
  BY SMTT(60), <1>2 DEF NextSpan, Spans, Whole, Idle
<1>6. CASE conns[First].at = "whole"
  <2>1. /\ Again(Copied(First), 0) \/ (AtEnd(First) /\ Finished(Copied(First), 0))
        /\ next' = next
    BY ZenonT(60), <1>6 DEF SequentialEnd
  <2>2. Locals'
    BY ZenonT(60), <1>1, <1>2, <2>1 DEF Locals
  <2>3. offset + Copied(First) <= Size /\ Filled(dest, 0, offset + Copied(First))
    BY ZenonT(60), <1>2, <1>3, <1>4, <1>6, FilledJoin
  <2>4. CASE Again(Copied(First), 0)
    BY ZenonT(60), <1>2, <1>3, <2>2, <2>3, <2>4, AgainKeeps
  <2>5. CASE AtEnd(First) /\ Finished(Copied(First), 0)
    <3>1. Filled(dest, 0, Size)
      BY ZenonT(60), <1>3, <1>4, <1>6, <2>3, <2>5
    <3> QED BY ZenonT(60), <1>2, <1>3, <2>2, <2>3, <2>5, <3>1, FinishedKeeps
  <2> QED BY ZenonT(60), <2>1, <2>4, <2>5
<1>7. CASE conns[First].at = "body"
  <2>1. \/ Again(0, 0) /\ next' = next
        \/ /\ AtEnd(First) /\ next' = next + Copied(First)
           /\ IF Copied(First) < chunk
                THEN Finished(0, 0)
                ELSE /\ conns' = [conns EXCEPT ![First] = Idle]
                     /\ UNCHANGED <<engine, dest, file, offset, size>>
    BY ZenonT(60), <1>7 DEF SequentialEnd
  <2>2. CASE Again(0, 0) /\ next' = next
    <3>1. Locals'
      BY ZenonT(60), <1>1, <1>2, <2>2 DEF Locals
    <3> QED BY ZenonT(60), <1>2, <2>2, <3>1, AgainKeeps
  <2>3. CASE /\ AtEnd(First) /\ next' = next + Copied(First)
             /\ IF Copied(First) < chunk
                  THEN Finished(0, 0)
                  ELSE /\ conns' = [conns EXCEPT ![First] = Idle]
                       /\ UNCHANGED <<engine, dest, file, offset, size>>
    <3>1. next' \in Nat /\ next' <= Size /\ next' = conns[First].pos
      BY ZenonT(60), <1>2, <1>3, <1>5, <1>7, <2>3
    <3>2. Filled(dest, 0, next')
      BY ZenonT(60), <1>2, <1>3, <1>5, <1>7, <3>1, FilledJoin
    <3>3. Locals' /\ offset <= next'
      BY SMTT(60), <1>1, <1>2, <1>3, <2>3, <3>1 DEF Locals
    <3>4. CASE Copied(First) < chunk
      <4>1. next' = Size
        <5>1. next + Copied(First) = ChunkTop(next)
          BY ZenonT(60), <1>3, <1>5, <1>7, <2>3, <3>1
        <5> QED BY ZenonT(60), <1>2, <1>3, <2>3, <3>4, <5>1, ShortChunk
      <4>2. Filled(dest, 0, Size)
        BY ZenonT(60), <3>2, <4>1
      <4>3. Finished(0, 0)
        BY <2>3, <3>4
      <4> QED BY ZenonT(60), <1>2, <3>3, <4>2, <4>3, FinishedKeeps
    <3>5. CASE /\ conns' = [conns EXCEPT ![First] = Idle]
               /\ UNCHANGED <<engine, dest, file, offset, size>>
      <4>1. TypeOK'
        BY ZenonT(60), <1>1, <1>2, <3>5 DEF TypeOK
      <4>2. /\ conns' \in [Workers -> ConnRecord] /\ conns'[First] = Idle
            /\ \A w \in Workers : w # First => conns'[w] = conns[w]
        BY ZenonT(60), <1>2, <3>5, FirstWorker, IdleRecord, Replaced
      <4>3. \A w \in Workers : w # First => conns'[w] = Idle
        BY <1>1, <4>2 DEF TransferInv, DestinationInv, OneBody
      <4>4. Lands(conns'[First], dest')
        BY ZenonT(60), <4>2, IdleRecord, Zenon DEF Lands
      <4>5. StagingInv' /\ ProbeInv' /\ SingleInv' /\ SequentialInv'
        BY ZenonT(60), <1>1, <1>2, <3>1, <3>2, <3>3, <3>5, <4>2
           DEF StagingInv, ProbeInv, SingleInv, SequentialInv, NextSpan
      <4>6. TransferInv'
        BY ZenonT(60), <1>1, <1>2, <3>3, <3>5, <4>1, <4>2, <4>3, <4>4, <4>5, OneBodyInv
           DEF OneBody
      <4> QED BY ZenonT(60), <3>5, <4>6 DEF Keeps
    <3> QED BY ZenonT(60), <2>3, <3>4, <3>5
  <2> QED BY ZenonT(60), <2>1, <2>2, <2>3
<1> QED BY <1>1, <1>6, <1>7 DEF InBody

LEMMA ChunkEndKeeps ==
  ASSUME Setting, TransferInv, NEW w \in Workers, ChunkEnd(w) PROVE Keeps
<1>1. /\ engine = "chunks" /\ InBody(w) /\ next' = next
      /\ UNCHANGED <<engine, dest, file, offset, size, known, listed, total>>
  BY ZenonT(60) DEF ChunkEnd, Ends
<1>2. /\ known = Size /\ offset \in Nat /\ offset <= Size /\ next \in Nat
      /\ contiguous \in 0 .. Size /\ offset <= contiguous
      /\ Filled(dest, 0, offset)
      /\ Filled(dest, 0, contiguous) /\ completed \in SUBSET Nat
      /\ \A o \in completed : Filled(dest, o, ChunkTop(o))
      /\ ChunkSpan(conns[w], offset)
  BY SMTT(60), <1>1 DEF TransferInv, TransferTypes, TypeOK, Locals, DestinationInv,
              UrlEngines, ChunksInv, Setting
<1>3. /\ conns[w] \in ConnRecord
      /\ conns[w].from \in Nat /\ conns[w].pos \in Nat /\ conns[w].end \in Nat
      /\ conns[w].pos <= conns[w].end /\ conns[w].end <= Size
      /\ Filled(dest, conns[w].from, conns[w].pos)
      /\ Copied(w) \in Nat /\ conns[w].from + Copied(w) = conns[w].pos
      /\ AtEnd(w) => conns[w].pos = conns[w].end
  BY ZenonT(60), <1>1, EndOfBody
<1>4. ASSUME NEW place \in {"take", "left"},
             conns' = [conns EXCEPT ![w].at = place],
             contiguous' \in 0 .. Size, offset <= contiguous',
             Filled(dest, 0, contiguous'), completed' \in SUBSET Nat,
             \A o \in completed' : Filled(dest, o, ChunkTop(o))
      PROVE  Keeps
  <2>1. conns' = [conns EXCEPT ![w] = [conns[w] EXCEPT !.at = place]]
    BY ZenonT(60), <1>4, Zenon
  <2>2. PICK r : r = [conns[w] EXCEPT !.at = place]
    BY ZenonT(60)
  <2>3. r \in ConnRecord /\ Lands(r, dest) /\ ChunkSpan(r, offset)
    BY ZenonT(60), <1>3, <1>4, <2>2, StopsCopying, Zenon
  <2>4. conns' = [conns EXCEPT ![w] = r]
    BY ZenonT(60), <2>1, <2>2, Zenon
  <2> QED BY ZenonT(60), <1>1, <1>2, <1>4, <2>3, <2>4, WorkerKeeps
<1>5. CASE /\ conns' = [conns EXCEPT ![w].at = "left"]
           /\ UNCHANGED <<contiguous, completed>>
  BY <1>2, <1>4, <1>5
<1>6. CASE /\ conns[w].at = "body" /\ Ends(w, "full")
           /\ contiguous' = Advance(completed \cup {conns[w].from}, contiguous)
           /\ completed' = (completed \cup {conns[w].from})
                             \ Chained(completed \cup {conns[w].from}, contiguous)
           /\ conns' = [conns EXCEPT ![w].at = "take"]
  <2> DEFINE done == completed \cup {conns[w].from}
  <2>1. AtEnd(w)
    BY <1>6 DEF Ends
  <2>2. conns[w].end = ChunkTop(conns[w].from)
    BY ZenonT(60), <1>2, <1>6 DEF ChunkSpan, Whole
  <2>3. Filled(dest, conns[w].from, ChunkTop(conns[w].from))
    BY <1>3, <2>1, <2>2
  <2>4. done \in SUBSET Nat /\ \A o \in done : Filled(dest, o, ChunkTop(o))
    BY ZenonT(60), <1>2, <1>3, <2>3, Zenon
  <2>5. contiguous' = Advance(done, contiguous) /\ completed' \subseteq done
    BY ZenonT(60), <1>6, Zenon
  <2> HIDE DEF done
  <2>6. contiguous' \in 0 .. Size /\ contiguous' >= contiguous
    BY ZenonT(60), <1>2, <2>4, <2>5, AdvanceValue
  <2>7. Filled(dest, 0, contiguous')
    BY ZenonT(60), <1>2, <2>4, <2>5, AdvancePrefix
  <2>8. offset <= contiguous'
    BY <1>2, <2>6
  <2>9. completed' \in SUBSET Nat /\ \A o \in completed' : Filled(dest, o, ChunkTop(o))
    BY ZenonT(60), <2>4, <2>5, Zenon
  <2> QED BY ZenonT(60), <1>4, <1>6, <2>6, <2>7, <2>8, <2>9
<1>7. CASE /\ conns[w].at = "whole" /\ completed' = {}
           /\ contiguous' = offset + Copied(w)
           /\ conns' = [conns EXCEPT ![w].at = "left"]
  <2>1. conns[w].from = offset
    BY <1>2, <1>7 DEF ChunkSpan, Plain, Spans
  <2>2. contiguous' = conns[w].pos /\ contiguous' \in 0 .. Size /\ offset <= contiguous'
    BY SMTT(60), <1>2, <1>3, <1>7, <2>1 DEF Setting
  <2>3. Filled(dest, 0, contiguous')
    BY ZenonT(60), <1>2, <1>3, <2>1, <2>2, FilledJoin
  <2> QED BY ZenonT(60), <1>4, <1>7, <2>2, <2>3
<1> QED BY ZenonT(60), <1>5, <1>6, <1>7 DEF ChunkEnd

LEMMA ChunksDoneKeeps ==
  ASSUME Setting, TransferInv, ChunksDone PROVE Keeps
<1>1. /\ engine = "chunks" /\ known' = known /\ UNCHANGED chunkVars
      /\ listed' = listed /\ total' = total
      /\ \/ contiguous >= known /\ Finished(contiguous - offset, known)
         \/ Again(contiguous - offset, known)
  BY ZenonT(60) DEF ChunksDone
<1>2. /\ Locals' /\ engine \in UrlEngines /\ known = Size /\ offset \in Nat
      /\ contiguous \in 0 .. Size /\ offset <= contiguous
      /\ Filled(dest, 0, contiguous)
  BY SMTT(60), <1>1 DEF TransferInv, TransferTypes, TypeOK, Locals, chunkVars, UrlEngines,
              ChunksInv, Setting
<1>3. /\ contiguous - offset \in Nat /\ offset + (contiguous - offset) = contiguous
      /\ offset + (contiguous - offset) <= Size
      /\ contiguous >= known => contiguous = Size
  BY SMTT(60), <1>2 DEF Setting
<1>4. CASE contiguous >= known /\ Finished(contiguous - offset, known)
  BY ZenonT(60), <1>2, <1>3, <1>4, FinishedKeeps
<1>5. CASE Again(contiguous - offset, known)
  BY ZenonT(60), <1>2, <1>3, <1>5, AgainKeeps
<1> QED BY ZenonT(60), <1>1, <1>4, <1>5

\* A step that leaves alone what the invariant is about.
LEMMA QuietKeeps ==
  ASSUME TransferInv,
         UNCHANGED <<engine, listed, dest, file, offset, size, known, chunkVars,
                     conns, total>>
  PROVE  Keeps
<1>1. TransferTypes' /\ BodiesLand' /\ DestinationInv'
  BY ZenonT(60) DEF TransferInv, TransferTypes, Locals, TypeOK, BodiesLand, DestinationInv, chunkVars
<1>2. StagingInv' /\ ProbeInv' /\ SingleInv' /\ SequentialInv' /\ ChunksInv'
  BY DEF TransferInv, StagingInv, ProbeInv, SingleInv, SequentialInv, ChunksInv, chunkVars
<1> QED BY ZenonT(60), <1>1, <1>2 DEF TransferInv, Keeps

LEMMA NextKeeps == ASSUME Setting, TransferInv, [Next]_vars PROVE Keeps
<1>1. CASE UNCHANGED vars
  BY ZenonT(60), <1>1, QuietKeeps DEF vars
<1>2. CASE CancelRun
  BY <1>2, QuietKeeps DEF CancelRun
<1>3. CASE StagingUnreadable \/ StagingOpen \/ StagingEnd
  BY ZenonT(60), <1>3, StagingUnreadableKeeps, StagingOpenKeeps, StagingEndKeeps
<1>4. CASE UrlOpen \/ RequestURL \/ Exhausted
  BY <1>4, UrlOpenKeeps, RequestURLKeeps, ExhaustedKeeps
<1>5. CASE Probe \/ SingleOpen \/ SequentialOpen
  BY <1>5, ProbeKeeps, SingleOpenKeeps, SequentialOpenKeeps
<1>6. CASE SingleEnd \/ SequentialEnd
  BY ZenonT(60), <1>6, SingleEndKeeps, SequentialEndKeeps
<1>7. ASSUME NEW w \in Workers,
             Take(w) \/ Respond(w) \/ ReadBuffer(w) \/ Report(w) \/ ChunkEnd(w)
      PROVE  Keeps
  BY <1>7, TakeKeeps, RespondKeeps, ReadBufferKeeps, ReportKeeps, ChunkEndKeeps
<1>8. CASE ChunksDone
  BY <1>8, ChunksDoneKeeps
<1> QED BY ZenonT(60), <1>1, <1>2, <1>3, <1>4, <1>5, <1>6, <1>7, <1>8, Zenon DEF Next, Step

LEMMA InitHolds == ASSUME Setting, Init PROVE TransferInv /\ Promise!Init
<1>1. /\ engine = "choose" /\ dest = {} /\ file = "open" /\ offset = 0 /\ size = 0
      /\ known = 0 /\ next = 0 /\ contiguous = 0 /\ completed = {} /\ total = 0
      /\ listed \in {0, Size} /\ conns = [w \in Workers |-> Idle]
  BY DEF Init
<1>2. TypeOK /\ Locals
  BY <1>1 DEF TypeOK, Locals, Setting
<1>3. conns \in [Workers -> ConnRecord] /\ \A w \in Workers : conns[w] = Idle
  BY ZenonT(60), <1>1, IdleRecord, Zenon
<1>4. TransferTypes /\ BodiesLand
  BY ZenonT(60), <1>2, <1>3, IdleRecord, Zenon DEF TransferTypes, BodiesLand, Lands
<1>5. DestinationInv /\ StagingInv /\ ProbeInv /\ SingleInv /\ SequentialInv /\ ChunksInv
  BY <1>1, <1>3 DEF DestinationInv, StagingInv, ProbeInv, SingleInv,
                    SequentialInv, ChunksInv, UrlEngines, OneBody
<1>6. Promise!Init
  BY <1>1 DEF Promise!Init
<1> QED BY ZenonT(60), <1>4, <1>5, <1>6, Zenon DEF TransferInv

\* Whatever the provider answers, fails or truncates, and however the Range
\* workers interleave, everything below the offset a later attempt resumes
\* from, and below the prefix runChunks maintains, is at the destination.
THEOREM ResumeIsPrefix == ASSUME Setting PROVE Spec => []ResumePrefix
<1>1. Init => TransferInv
  BY InitHolds
<1>2. TransferInv /\ [Next]_vars => TransferInv'
  BY NextKeeps DEF Keeps
<1>3. TransferInv => ResumePrefix
  <2>1. SUFFICES ASSUME TransferInv, engine \notin {"choose", "end", "staging"}
                 PROVE  /\ 0 .. offset - 1 \subseteq dest
                        /\ engine = "chunks" => 0 .. contiguous - 1 \subseteq dest
    BY ZenonT(60) DEF ResumePrefix
  <2>2. /\ TypeOK /\ Filled(dest, 0, offset)
        /\ engine = "chunks" => Filled(dest, 0, contiguous)
    BY <2>1 DEF TransferInv, TransferTypes, TypeOK, DestinationInv, ChunksInv, UrlEngines
  <2>3. \A n \in 0 .. Size : Filled(dest, 0, n) => 0 .. n - 1 \subseteq dest
    BY DEF Filled, Bytes, Setting
  <2> QED BY <2>2, <2>3 DEF TypeOK
<1> QED BY <1>1, <1>2, <1>3, PTL DEF Spec

\* transferFile implements FileTransfer: bytes are only added to an open
\* destination, a partial one is discarded, and it is finalized only with
\* every byte of the provider's file present.
THEOREM TransferIsWhole == ASSUME Setting PROVE Spec => ImplementsFileTransfer
<1>1. Init => TransferInv /\ Promise!Init
  BY InitHolds
<1>2. TransferInv /\ [Next]_vars => TransferInv' /\ [Promise!Next]_<<dest, file>>
  BY NextKeeps DEF Keeps
<1> QED BY <1>1, <1>2, PTL DEF Spec, ImplementsFileTransfer, Promise!Spec
=============================================================================
