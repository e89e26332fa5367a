----------------------------- MODULE UrlTransfer -----------------------------
(***************************************************************************)
(* The URL transfer engine of pkg/core/transfer.go and the loops of        *)
(* offline_fetch.go that drive it: one provider file is brought to its     *)
(* destination by bounded Range requests, in parallel chunks when the size *)
(* is known, resumed from the contiguous prefix after a failed attempt,    *)
(* or copied from the staged entry through the VFS reader.                 *)
(*                                                                         *)
(* One unit of data is one buffer of a response body.  The provider is     *)
(* honest about offsets, but may ignore the Range header (200), refuse a   *)
(* range, keep the size to itself, fail, or - when the size is known - end *)
(* a body early without an error.  A truncated body of unknown size is     *)
(* taken to be reported by the HTTP framing.                               *)
(***************************************************************************)
EXTENDS Naturals, FiniteSets, FiniteSetsExt

CONSTANTS Size,                 \* length of the provider file
          chunk,                \* span of one Range request
          Workers,              \* concurrent Range requests
          offlineURLRefreshes,  \* URL attempts before giving up
          MaxFaults             \* failures the environment may inject

ASSUME SizeAssumption == Size \in Nat /\ chunk \in Nat \ {0}

VARIABLES prefersURL,  \* an accelerated fetch tries the URL first
          engine,      \* what transferFile is doing
          listed,      \* the size the provider listed (0: none)
          tried,       \* engines transferFile has already given up on
          dest, file,  \* the destination (see FileTransfer)
          offset,      \* transferFromURL's resume offset
          size,        \* transferFromURL's idea of the size (0: unknown)
          attempt,     \* URL attempts made
          known,       \* the size this attempt works with
          next, contiguous, completed, wholeFile, firstErr,  \* runChunks
          conns,       \* one response body per worker
          total,       \* offlineProgress.total of this attempt
          shown,       \* the task's TransferBytesDone
          ctxDone,     \* the task context is canceled
          faults       \* failures left

chunkVars == <<next, contiguous, completed, wholeFile, firstErr>>
vars == <<prefersURL, engine, listed, tried, dest, file, offset, size,
          attempt, known, chunkVars, conns, total, shown, ctxDone, faults>>

Bytes == 0 .. Size - 1
Idle == [at |-> "idle", from |-> 0, pos |-> 0, end |-> 0, val |-> 0]
First == CHOOSE w \in Workers : TRUE
Smaller(a, b) == IF a < b THEN a ELSE b

Fault == faults > 0 /\ faults' = faults - 1
NoFault == UNCHANGED faults
\* A request or a copy fails: by a fault, or because its context is canceled.
Stopped == ctxDone \/ (engine = "chunks" /\ firstErr)
Fails == IF Stopped THEN NoFault ELSE Fault
Served == ~Stopped /\ NoFault

\* The end of a body whose copy is bounded by end (0: until EOF).
BodyEnd(end) == IF end = 0 THEN Size ELSE Smaller(end, Size)

\* The body of one response: written from pos up to end.
Body(kind, pos, end) ==
    [at |-> kind, from |-> pos, pos |-> pos, end |-> BodyEnd(end), val |-> 0]

-----------------------------------------------------------------------------
(* openWriter: every engine starts with an empty destination.               *)
OpenWriter == dest' = {} /\ file' = "open"

(* transferFile, lines 516-531: the order of the two engines.               *)
StagingNext == IF prefersURL THEN "url" \in tried ELSE "staging" \notin tried
UrlNext == "url" \notin tried /\ (prefersURL \/ "staging" \in tried)

\* transferFromStaging cannot read the entry: handled = false, nothing opened.
StagingUnreadable ==
    /\ engine = "choose" /\ StagingNext /\ "staging" \notin tried
    /\ tried' = tried \cup {"staging"}
    /\ engine' = IF "url" \in tried THEN "end" ELSE "choose"
    /\ UNCHANGED <<prefersURL, listed, dest, file, offset, size, attempt,
                   known, chunkVars, conns, total, shown, ctxDone, faults>>

\* transferFromStaging opens the reader and a fresh writer.
StagingOpen ==
    /\ engine = "choose" /\ StagingNext /\ "staging" \notin tried
    /\ OpenWriter
    /\ tried' = tried \cup {"staging"}
    /\ engine' = "staging"
    /\ conns' = [conns EXCEPT ![First] = Body("body", 0, 0)]
    /\ offset' = 0 /\ total' = 0
    /\ UNCHANGED <<prefersURL, listed, size, attempt, known, chunkVars, shown,
                   ctxDone, faults>>

\* transferFromURL opens a fresh writer.
UrlOpen ==
    /\ engine = "choose" /\ UrlNext
    /\ OpenWriter
    /\ tried' = tried \cup {"url"}
    /\ engine' = "request"
    /\ offset' = 0 /\ size' = listed /\ attempt' = 0
    /\ UNCHANGED <<prefersURL, listed, known, chunkVars, conns, total, shown,
                   ctxDone, faults>>

\* writer.Abort, and where transferFile goes from there: a failed URL falls
\* back to the staged read when it was tried first; a staged read that was
\* opened is final either way.
Abort == /\ file' = "removed"
         /\ engine' = IF engine # "staging" /\ "staging" \notin tried
                        THEN "choose" ELSE "end"
         /\ conns' = [w \in Workers |-> Idle]
         /\ UNCHANGED dest

\* writer.Close publishes the destination, or fails and is aborted.
Close == \/ /\ file' = "published" /\ engine' = "end"
            /\ conns' = [w \in Workers |-> Idle]
            /\ UNCHANGED dest /\ NoFault
         \/ Abort /\ Fault

-----------------------------------------------------------------------------
(* transferFromURL, lines 641-673.                                          *)

\* offset += result.written and the size the result disclosed.
ResultWith(written, sz) ==
    /\ offset' = offset + written
    /\ size' = IF sz > 0 THEN sz ELSE size

\* The attempt failed, or ended without the whole file: the loop goes on.
Again(written, sz) ==
    /\ ResultWith(written, sz)
    /\ engine' = "request"
    /\ conns' = [w \in Workers |-> Idle]
    /\ UNCHANGED <<dest, file>>

\* The attempt reports done.
Finished(written, sz) == ResultWith(written, sz) /\ Close

\* The loop is over: refreshes exhausted, or the context is canceled.
Exhausted ==
    /\ engine = "request"
    /\ attempt = offlineURLRefreshes \/ ctxDone
    /\ Abort
    /\ UNCHANGED <<prefersURL, listed, tried, offset, size, attempt, known,
                   chunkVars, total, shown, ctxDone, faults>>

\* offlineURLFetch.run, lines 78-100: which plan serves size sz from start.
Plan(start, sz) ==
    CASE sz > 0 /\ start >= sz -> "done"
      [] sz = 0 -> "probe"
      [] sz > 0 /\ start < sz /\ start + chunk >= sz -> "single"
      [] OTHER -> "chunks"

\* The locals runChunks starts with.
StartChunks(plan) ==
    IF plan = "chunks"
      THEN /\ next' = offset /\ contiguous' = offset /\ completed' = {}
           /\ wholeFile' = FALSE /\ firstErr' = FALSE
           /\ conns' = [w \in Workers |-> [Idle EXCEPT !.at = "take"]]
      ELSE UNCHANGED <<chunkVars, conns>>

\* requestURL fails, or names a target that may disclose the size.
RequestURL ==
    /\ engine = "request"
    /\ attempt < offlineURLRefreshes /\ ~ctxDone
    /\ attempt' = attempt + 1
    /\ \/ /\ Fault
          /\ UNCHANGED <<engine, dest, file, offset, size, known, chunkVars,
                         conns, total>>
       \/ \E disclosed \in {0, Size} :
            LET sz == IF disclosed > 0 THEN disclosed ELSE size
                plan == Plan(offset, sz) IN
            /\ known' = sz
            /\ total' = 0
            /\ IF plan = "done"
                 THEN Finished(0, sz) /\ UNCHANGED chunkVars
                 ELSE /\ engine' = plan
                      /\ StartChunks(plan)
                      /\ NoFault
                      /\ UNCHANGED <<dest, file, offset, size>>
    /\ UNCHANGED <<prefersURL, listed, tried, shown, ctxDone>>

-----------------------------------------------------------------------------
(* Responses.                                                               *)

\* A mutation: every 416 is taken as the end of the file.
EndOfFileAny(off, disclosed) == TRUE

\* validateRangeNotSatisfiable: a 416 is the end of the file only when the
\* range starts at or past the total we know, or else the one disclosed.
EndOfFile(off, disclosed) ==
    \/ known > 0 /\ disclosed \in {0, known} /\ off >= known
    \/ known = 0 /\ disclosed > 0 /\ off >= disclosed

\* The provider answers 416 to a range at off: rightly, or by a fault.
RangeNotSatisfiable(off, sz) ==
    /\ ~Stopped
    /\ off >= Size \/ faults > 0
    /\ \E disclosed \in {0, Size} :
         IF EndOfFile(off, disclosed)
           THEN Finished(0, sz)
           ELSE /\ faults' = IF off >= Size THEN faults ELSE faults - 1
                /\ Again(0, sz)

\* runUnknownSize, lines 105-146: a one-byte request.
Probe ==
    /\ engine = "probe" /\ conns[First].at = "idle"
    /\ \/ Fails /\ Again(0, 0) /\ UNCHANGED <<known, chunkVars>>
       \/ RangeNotSatisfiable(offset, 0) /\ UNCHANGED <<known, chunkVars>>
       \/ /\ conns' = [conns EXCEPT ![First] = Body("body", offset, 0)]  \* 200
          /\ Served
          /\ UNCHANGED <<engine, dest, file, offset, size, known, chunkVars>>
       \/ /\ offset < Size                                 \* 206
          /\ Served
          /\ \/ /\ engine' = "sequential"
                /\ next' = offset
                /\ UNCHANGED <<known, contiguous, completed, wholeFile,
                               firstErr, conns>>
             \/ /\ known' = Size
                /\ engine' = Plan(offset, Size)
                /\ StartChunks(Plan(offset, Size))
          /\ UNCHANGED <<dest, file, offset, size>>
    /\ UNCHANGED <<prefersURL, listed, tried, attempt, total, shown, ctxDone>>

\* runSingleRange, lines 149-173: one bounded response for the remainder.
SingleOpen ==
    /\ engine = "single" /\ conns[First].at = "idle"
    /\ \/ Fails /\ Again(0, 0)
       \/ RangeNotSatisfiable(offset, known)
       \/ Fault /\ Again(0, known)                 \* a bad Content-Range
       \/ /\ Served
          /\ conns' = [conns EXCEPT ![First] = Body("body", offset, known)]
          /\ UNCHANGED <<engine, dest, file, offset, size>>
    /\ UNCHANGED <<prefersURL, listed, tried, attempt, known, chunkVars,
                   total, shown, ctxDone>>

\* runSequentialRanges, lines 298-332: the next chunk of a file of unknown
\* size; next is its local offset, and its written is never advanced.
SequentialOpen ==
    /\ engine = "sequential" /\ conns[First].at = "idle"
    /\ \/ Fails /\ Again(0, 0)
       \/ RangeNotSatisfiable(next, 0)
       \/ /\ Served
          /\ \/ /\ next < Size                             \* 206
                /\ conns' = [conns EXCEPT
                               ![First] = Body("body", next, next + chunk)]
             \/ conns' = [conns EXCEPT                     \* 200
                            ![First] = Body("whole", offset, 0)]
          /\ UNCHANGED <<engine, dest, file, offset, size>>
    /\ UNCHANGED <<prefersURL, listed, tried, attempt, known, chunkVars,
                   total, shown, ctxDone>>

\* runChunks, lines 208-216: under the lock a worker takes the next chunk, or
\* leaves; the request it then makes is answered without the lock.
Take(w) ==
    /\ engine = "chunks" /\ conns[w].at = "take"
    /\ IF firstErr \/ wholeFile \/ next >= known
         THEN conns' = [conns EXCEPT ![w].at = "left"] /\ UNCHANGED next
         ELSE /\ conns' = [conns EXCEPT ![w] =
                             [Idle EXCEPT !.at = "ask", !.from = next]]
              /\ next' = next + chunk
    /\ UNCHANGED <<prefersURL, listed, tried, engine, dest, file, offset, size,
                   attempt, known, contiguous, completed, wholeFile, firstErr,
                   total, shown, ctxDone, faults>>

\* runChunks, lines 217-249: the answer to a worker's request, in whatever
\* order the provider gives them.  A 200 is the whole file from zero: this
\* worker streams it and no further chunk is taken, but requests and bodies of
\* other workers go on.  An answer that came before the context was canceled
\* is still handled.
Respond(w) ==
    /\ engine = "chunks" /\ conns[w].at = "ask"
    /\ LET o == conns[w].from IN
       \/ /\ conns' = [conns EXCEPT ![w] =                          \* 206
                         Body("body", o, Smaller(o + chunk, known))]
          /\ NoFault
          /\ UNCHANGED <<wholeFile, firstErr>>
       \/ /\ conns' = [conns EXCEPT ![w] = Body("whole", offset, known)]  \* 200
          /\ wholeFile' = TRUE
          /\ NoFault
          /\ UNCHANGED firstErr
       \/ /\ conns' = [conns EXCEPT ![w].at = "left"]
          /\ firstErr' = TRUE
          /\ Fails
          /\ UNCHANGED wholeFile
    /\ UNCHANGED <<prefersURL, listed, tried, engine, dest, file, offset, size,
                   attempt, known, next, contiguous, completed, total, shown,
                   ctxDone>>

-----------------------------------------------------------------------------
(* Bodies.                                                                  *)

InBody(w) == conns[w].at \in {"body", "whole"}
AtEnd(w) == conns[w].pos >= conns[w].end

\* A body with one more buffer read, and its progress value to report.
Buffered(r, v) ==
    [r EXCEPT !.pos = r.pos + 1,
              !.at = IF r.at = "body" THEN "report" ELSE "reportWhole",
              !.val = v]

\* The body again, its progress reported.
Reported(r) ==
    [r EXCEPT !.at = IF r.at = "report" THEN "body" ELSE "whole", !.val = 0]

\* copyChunk, lines 400-407: one buffer is read and lands at pos; the
\* progress total is advanced under its lock and reported after it.
ReadBuffer(w) ==
    /\ InBody(w) /\ ~AtEnd(w)
    /\ dest' = dest \cup {conns[w].pos}
    /\ total' = total + 1
    /\ conns' = [conns EXCEPT ![w] = Buffered(conns[w], offset + total + 1)]
    /\ UNCHANGED <<prefersURL, listed, tried, engine, file, offset, size,
                   attempt, known, chunkVars, shown, ctxDone, faults>>

\* offlineProgress.add, lines 436-438: the task shows the value computed
\* under the lock.
Report(w) ==
    /\ conns[w].at \in {"report", "reportWhole"}
    /\ shown' = conns[w].val
    /\ conns' = [conns EXCEPT ![w] = Reported(conns[w])]
    /\ UNCHANGED <<prefersURL, listed, tried, engine, dest, file, offset, size,
                   attempt, known, chunkVars, total, ctxDone, faults>>

\* How the copy of a body can end: with its bytes, with an error (a fault, or
\* a canceled context), or early but without an error.
Ends(w, how) ==
    /\ InBody(w)
    /\ CASE how = "full"  -> AtEnd(w) /\ NoFault
         [] how = "error" -> Fails
         [] how = "short" -> ~AtEnd(w) /\ known > 0 /\ Fault

\* The bytes that copyChunk reports, on errors too.
Copied(w) == conns[w].pos - conns[w].from

\* transferFromStaging, lines 576-592: a read that ends before the listed
\* size is a truncated result, never finalized.
StagingEnd ==
    /\ engine = "staging"
    /\ \/ /\ Ends(First, "error") /\ Abort
       \/ /\ InBody(First) /\ ~AtEnd(First) /\ listed > 0 /\ Fault /\ Abort
       \/ /\ InBody(First) /\ AtEnd(First) /\ Close
    /\ UNCHANGED <<prefersURL, listed, tried, offset, size, attempt, known,
                   chunkVars, total, shown, ctxDone>>

\* runUnknownSize with a 200, lines 117-122, and runSingleRange, lines
\* 174-178: the copied bytes are contiguous from the start.
SingleEnd ==
    /\ engine \in {"probe", "single"}
    /\ LET w == First
           sz == IF engine = "single" THEN known ELSE 0
           done == engine = "probe" \/ offset + Copied(w) >= known IN
       \/ Ends(w, "error") /\ Again(Copied(w), sz)
       \/ Ends(w, "short") /\ Again(Copied(w), sz)
       \/ /\ InBody(w) /\ AtEnd(w)
          /\ IF done THEN Finished(Copied(w), sz)
             ELSE NoFault /\ Again(Copied(w), sz)
    /\ UNCHANGED <<prefersURL, listed, tried, attempt, known, chunkVars,
                   total, shown, ctxDone>>

\* runSequentialRanges, lines 316-342: a short chunk is the end of the file.
SequentialEnd ==
    /\ engine = "sequential"
    /\ LET w == First IN
       \/ /\ Ends(w, "error")
          /\ Again(IF conns[w].at = "whole" THEN Copied(w) ELSE 0, 0)
          /\ UNCHANGED next
       \/ /\ InBody(w) /\ AtEnd(w) /\ conns[w].at = "whole"
          /\ Finished(Copied(w), 0)
          /\ UNCHANGED next
       \/ /\ InBody(w) /\ AtEnd(w) /\ conns[w].at = "body"
          /\ next' = next + Copied(w)
          /\ IF Copied(w) < chunk
               THEN Finished(0, 0)
               ELSE /\ conns' = [conns EXCEPT ![w] = Idle]
                    /\ NoFault
                    /\ UNCHANGED <<engine, dest, file, offset, size>>
    /\ UNCHANGED <<prefersURL, listed, tried, attempt, known, contiguous,
                   completed, wholeFile, firstErr, total, shown, ctxDone>>

\* runChunks, lines 260-270: the offsets chained to the prefix are folded in.
Chained(done, c) ==
    {o \in done : /\ o >= c /\ (o - c) % chunk = 0
                  /\ \A k \in 0 .. (o - c) \div chunk : c + k * chunk \in done}

\* A mutation: progress jumps to the end of the last finished chunk.
AdvanceToLast(done, c) ==
    Max({c} \cup {Smaller(o + chunk, known) : o \in done})

Advance(done, c) ==
    Max({c} \cup {Smaller(o + chunk, known) : o \in Chained(done, c)})

ChunkEnd(w) ==
    /\ engine = "chunks"
    /\ \/ /\ Ends(w, "error") \/ (conns[w].at = "body" /\ Ends(w, "short"))
          /\ firstErr' = TRUE
          /\ conns' = [conns EXCEPT ![w].at = "left"]
          /\ UNCHANGED <<contiguous, completed>>
       \/ /\ conns[w].at = "body" /\ Ends(w, "full")
          /\ LET done == completed \cup {conns[w].from}
                 c == Advance(done, contiguous) IN
             /\ contiguous' = c
             /\ completed' = done \ Chained(done, contiguous)
          /\ conns' = [conns EXCEPT ![w].at = "take"]
          /\ UNCHANGED firstErr
       \/ /\ conns[w].at = "whole" /\ (Ends(w, "full") \/ Ends(w, "short"))
          /\ completed' = {}
          /\ contiguous' = offset + Copied(w)
          /\ conns' = [conns EXCEPT ![w].at = "left"]
          /\ UNCHANGED firstErr
    /\ UNCHANGED <<prefersURL, listed, tried, engine, dest, file, offset, size,
                   attempt, known, next, wholeFile, total, shown, ctxDone>>

\* runChunks, lines 287-293: all workers have returned.
ChunksDone ==
    /\ engine = "chunks"
    /\ \A w \in Workers : conns[w].at = "left"
    /\ IF ~firstErr /\ contiguous >= known
         THEN Finished(contiguous - offset, known)
         ELSE NoFault /\ Again(contiguous - offset, known)
    /\ UNCHANGED <<prefersURL, listed, tried, attempt, known, chunkVars,
                   total, shown, ctxDone>>

\* The user, or shutdown, cancels the run.
CancelRun ==
    /\ ~ctxDone /\ engine # "end" /\ Fault
    /\ ctxDone' = TRUE
    /\ UNCHANGED <<prefersURL, engine, listed, tried, dest, file, offset, size,
                   attempt, known, chunkVars, conns, total, shown>>

-----------------------------------------------------------------------------
Init ==
    /\ prefersURL \in BOOLEAN
    /\ listed \in {0, Size}
    /\ engine = "choose" /\ tried = {}
    /\ dest = {} /\ file = "open"
    /\ offset = 0 /\ size = 0 /\ attempt = 0 /\ known = 0
    /\ next = 0 /\ contiguous = 0 /\ completed = {}
    /\ wholeFile = FALSE /\ firstErr = FALSE
    /\ conns = [w \in Workers |-> Idle]
    /\ total = 0 /\ shown = 0
    /\ ctxDone = FALSE /\ faults = MaxFaults

Step ==
    \/ StagingUnreadable \/ StagingOpen \/ StagingEnd
    \/ UrlOpen \/ RequestURL \/ Exhausted
    \/ Probe \/ SingleOpen \/ SequentialOpen \/ SingleEnd \/ SequentialEnd
    \/ \E w \in Workers : \/ Take(w) \/ Respond(w)
                          \/ ReadBuffer(w) \/ Report(w) \/ ChunkEnd(w)
    \/ ChunksDone

Next == Step \/ CancelRun

Spec == Init /\ [][Next]_vars
FairSpec == Spec /\ WF_vars(Step)

-----------------------------------------------------------------------------
\* Type invariant; the resume offset and the chunk prefix never pass the file.
TypeOK ==
    /\ engine \in {"choose", "staging", "request", "probe", "single",
                   "sequential", "chunks", "end"}
    /\ file \in {"open", "published", "removed"}
    /\ dest \subseteq Bytes
    /\ offset \in 0 .. Size /\ contiguous \in 0 .. Size
    /\ size \in {0, Size} /\ known \in {0, Size}

\* "Only contiguously written bytes count as progress, so a failed attempt
\* resumes from the last complete prefix instead of skipping holes"
\* (offline_fetch.go, transferFromURL): everything below the resume offset,
\* and below the prefix the parallel workers maintain, is at the destination.
ResumePrefix ==
    engine \notin {"choose", "end", "staging"} =>
      /\ 0 .. offset - 1 \subseteq dest
      /\ engine = "chunks" => 0 .. contiguous - 1 \subseteq dest

\* Whatever the provider does to the requests, the transfer implements
\* FileTransfer: the destination is finalized only with every byte present,
\* so the cleanup that deletes the cloud copy never follows a hole.
Promise == INSTANCE FileTransfer
ImplementsFileTransfer == Promise!Spec

\* "... and monotonic progress" (transfer.go, header comment): the byte count
\* the task shows never goes back within one file.
ProgressMonotonic == [][shown' >= shown]_shown
=============================================================================
