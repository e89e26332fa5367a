--------------------------- MODULE OneDriveUpload ---------------------------
(* pkg/drivers/onedrive: PutSource.  The parts go up in order, the last one  *)
(* commits, and the committed file is looked up by its name.                 *)
EXTENDS UploadSession, FiniteSetsExt

CONSTANT Small   \* the contents a simple upload takes

\* putSmall
PutSmall ==
  /\ pc["up"] = "begin" /\ up.c \in Small
  /\ \E r \in Replies :
       /\ Spend(r) /\ SendWhole(r)
       /\ CASE r = "ok"      -> Return("ok", Full(up.c))
            [] r = "refused" -> Fail("permanent")
            [] OTHER         -> Fail("retry")
  /\ UNCHANGED <<mem, disk, exp, remote, want>>

\* Mutant: the binding of a source without a hash is resumed too.
ResumableAlways == TRUE

\* putLarge: a source without a hash is bound, for reclaiming, but its binding
\* is not resumed.
Resumable == up.key # Anon

Begin ==
  /\ pc["up"] = "begin" /\ up.c \notin Small
  /\ IF ~Resumable \/ up.key \notin DOMAIN mem
     THEN Goto("reserve") /\ UNCHANGED <<ops, up>>
     ELSE IF mem[up.key].h # NoHandle
          THEN /\ Goto("query") /\ UNCHANGED ops
               /\ up' = [up EXCEPT !.h = mem[up.key].h]
          ELSE Delete(up.key, "reserve") /\ UNCHANGED up
  /\ UNCHANGED <<mem, disk, exp, remote, file, want, result, troubles>>

\* The ranges a session's status lists: what was received, as closed ranges from
\* the start, or what comes next, as an open one; without their unit the driver
\* cannot read them.
Ranges(data) ==
  LET next == Min((Parts \cup {Cardinality(Parts) + 1}) \ Held(data))
      open == {{[lo |-> next, hi |-> 0, unit |-> u, closed |-> FALSE]} : u \in BOOLEAN}
  IN IF next = 1 THEN open
     ELSE open \cup {{[lo |-> 1, hi |-> next - 1, unit |-> TRUE, closed |-> TRUE]}}

\* nextExpectedOffset: the least end of a closed range or start of an open one.
NextExpected(ranges) ==
  Min({IF r.closed THEN r.hi + 1 ELSE r.lo : r \in {r \in ranges : r.unit}})

Before(ranges) ==
  IF \E r \in ranges : r.unit THEN {p \in Parts : p < NextExpected(ranges)} ELSE {}

\* resumeUploadSession, uploadSessionResumeOffset: a session is known to be gone
\* by the status 404 or 410.
ResumeUploadSession ==
  /\ pc["up"] = "query"
  /\ \E r \in AnswersOf(up.h) :
       /\ Spend(r)
       /\ CASE r = "ok" ->
                 /\ \E ranges \in Ranges(remote[up.h].data) :
                      up' = [up EXCEPT !.have = Before(ranges)]
                 /\ Goto("parts") /\ UNCHANGED <<ops, result>>
            [] r = "gone" ->
                 /\ up' = [up EXCEPT !.again = 1]
                 /\ Delete(up.key, "cancel") /\ UNCHANGED result
            [] r = "odd" -> FailMisread("retry")
            [] OTHER -> Fail("retry")
  /\ UNCHANGED <<mem, disk, exp, remote, file, want>>

\* cancelUploadSession, its failure ignored: after a session found invalid the
\* upload starts afresh, after one that could not be bound it fails.
CancelUploadSession ==
  /\ pc["up"] = "cancel"
  /\ \E r \in RepliesOf(up.h) : Spend(r) /\ SendAbort(r)
  /\ IF up.again = 1
     THEN /\ up' = [up EXCEPT !.again = 0, !.h = NoHandle]
          /\ Goto("reserve") /\ UNCHANGED <<ops, result>>
     ELSE Fail("retry")
  /\ UNCHANGED <<mem, disk, exp, file, want>>

Reserve ==
  /\ pc["up"] = "reserve"
  /\ up' = [up EXCEPT !.ret = "retry"]
  /\ Create(up.key, Reserved, "create", "return")
  /\ UNCHANGED <<mem, disk, exp, remote, file, want, result, troubles>>

CreateUploadSession ==
  /\ pc["up"] = "create"
  /\ \E r \in Replies :
       /\ Spend(r) /\ SendCreate(r)
       /\ IF r = "ok"
          THEN /\ up' = [up EXCEPT !.h = NewHandle, !.have = {}]
               /\ Create(up.key, Binding(NewHandle), "parts", "cancel")
               /\ UNCHANGED result
          ELSE DropAndReturn("retry")
  /\ UNCHANGED <<mem, disk, exp, file, want>>

\* putLarge: the provider commits when no part is missing any more.
UploadPart ==
  /\ pc["up"] = "parts" /\ Missing # {}
  /\ \E r \in RepliesOf(up.h) :
       LET data == [remote[up.h].data EXCEPT ![NextPart] = up.c] IN
       /\ Spend(r)
       /\ IF Effective(r) /\ Open(up.h) /\ Held(data) = Parts
          THEN remote' = Closed(up.h, "done") /\ file' = data
          ELSE SendPart(NextPart, r) /\ UNCHANGED file
       /\ CASE r = "ok" ->
                 /\ up' = [up EXCEPT !.have = @ \cup {NextPart}]
                 /\ Touch(up.key, "parts") /\ UNCHANGED result
            [] r \in {"gone", "refused"} -> Fail("permanent") /\ UNCHANGED mem
            [] OTHER -> Fail("retry") /\ UNCHANGED mem
  /\ UNCHANGED <<disk, exp, want>>

\* itemByChildName: a file of that name, whatever it holds
Locate ==
  /\ pc["up"] = "parts" /\ Missing = {}
  /\ \E r \in Replies :
       /\ Spend(r)
       /\ IF r = "ok" /\ file # Empty THEN DropAndGive("ok", file) ELSE Fail("retry")
  /\ UNCHANGED <<mem, disk, exp, remote, file, want>>

\* reclaimUploadSession
Cleaned(b) == IF b.h # NoHandle THEN Closed(b.h, "gone") ELSE remote

Steps == PutSmall \/ Begin \/ ResumeUploadSession \/ CancelUploadSession \/ Reserve
         \/ CreateUploadSession \/ UploadPart \/ Locate

Next ==
  \/ Start({want, Anon}) \/ Steps \/ Lapse
  \/ \E k \in DOMAIN exp.snap : Reclaim(k, Cleaned(exp.snap[k]))
  \/ Common
=============================================================================
