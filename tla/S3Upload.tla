------------------------------ MODULE S3Upload ------------------------------
(* pkg/drivers/s3: PutSource.  The provider is asked which parts it has.   *)
EXTENDS UploadSession

CONSTANT Small   \* the contents below MultipartThreshold

\* PutSource: a small object is put in one request.
PutObject ==
  /\ pc["up"] = "begin" /\ up.c \in Small
  /\ \E r \in Replies :
       /\ Spend(r)
       /\ SendWhole(r)
       /\ CASE r = "ok"      -> Return("ok", Full(up.c))
            [] r = "refused" -> Fail("permanent")
            [] OTHER         -> Fail("retry")
  /\ UNCHANGED <<mem, disk, exp, remote, want>>

\* beginMultipartUpload: the binding found, if any.
Begin ==
  /\ pc["up"] = "begin" /\ up.c \notin Small
  /\ IF up.key \notin DOMAIN mem
     THEN Goto("reserve") /\ UNCHANGED <<ops, up>>
     ELSE IF mem[up.key].h # NoHandle
          THEN /\ Goto("query") /\ UNCHANGED ops
               /\ up' = [up EXCEPT !.h = mem[up.key].h]
          ELSE Delete(up.key, "reserve") /\ UNCHANGED up
  /\ UNCHANGED <<mem, disk, exp, remote, file, want, result, troubles>>

\* Mutant: the binding to a session the provider does not know is kept.
QueryKeeps ==
  /\ pc["up"] = "query"
  /\ \E r \in RepliesOf(up.h) :
       /\ Spend(r)
       /\ IF r = "ok"
          THEN /\ up' = [up EXCEPT !.have = Held(remote[up.h].data)]
               /\ Goto("parts") /\ UNCHANGED <<ops, result>>
          ELSE Fail("retry")
  /\ UNCHANGED <<mem, disk, exp, remote, file, want>>

\* beginMultipartUpload, listCompletedParts: only a session the provider does
\* not know is given up.
Query ==
  /\ pc["up"] = "query"
  /\ \E r \in RepliesOf(up.h) :
       /\ Spend(r)
       /\ CASE r = "ok" ->
                 /\ up' = [up EXCEPT !.have = Held(remote[up.h].data)]
                 /\ Goto("parts") /\ UNCHANGED <<ops, result>>
            [] r = "gone" -> Delete(up.key, "reserve") /\ UNCHANGED <<up, result>>
            [] OTHER -> Fail("retry")
  /\ UNCHANGED <<mem, disk, exp, remote, file, want>>

\* The slot is saved before the provider is asked for an upload.
Reserve ==
  /\ pc["up"] = "reserve"
  /\ up' = [up EXCEPT !.ret = "retry"]
  /\ Create(up.key, Reserved, "create", "return")
  /\ UNCHANGED <<mem, disk, exp, remote, file, want, result, troubles>>

\* CreateMultipartUpload, and the binding of its upload ID.
CreateUpload ==
  /\ pc["up"] = "create"
  /\ \E r \in Replies :
       /\ Spend(r)
       /\ SendCreate(r)
       /\ CASE r = "ok" ->
                 /\ up' = [up EXCEPT !.h = NewHandle, !.have = {}]
                 /\ Create(up.key, Binding(NewHandle), "parts", "abort")
                 /\ UNCHANGED result
            [] r = "refused" -> DropAndReturn("permanent")
            [] OTHER -> DropAndReturn("retry")
  /\ UNCHANGED <<mem, disk, exp, file, want>>

\* abortMultipartUpload when the binding could not be saved; its own failure
\* is only logged.
Abort ==
  /\ pc["up"] = "abort"
  /\ \E r \in RepliesOf(up.h) : Spend(r) /\ SendAbort(r)
  /\ Fail("retry")
  /\ UNCHANGED <<mem, disk, exp, file, want>>

\* putMultipartSource
UploadPart ==
  /\ pc["up"] = "parts" /\ Missing # {}
  /\ \E r \in RepliesOf(up.h) :
       /\ Spend(r)
       /\ SendPart(NextPart, r)
       /\ CASE r = "ok" ->
                 /\ up' = [up EXCEPT !.have = @ \cup {NextPart}]
                 /\ Touch(up.key, "parts") /\ UNCHANGED result
            [] r = "gone" -> DropAndReturn("permanent") /\ UNCHANGED mem
            [] r = "refused" -> Fail("permanent") /\ UNCHANGED mem
            [] OTHER -> Fail("retry") /\ UNCHANGED mem
  /\ UNCHANGED <<disk, exp, file, want>>

\* Mutant: an upload that is gone counts as one completed earlier.
CompleteGoneOk ==
  /\ pc["up"] = "parts" /\ Missing = {}
  /\ \E r \in RepliesOf(up.h) :
       /\ Spend(r)
       /\ SendCommit(r)
       /\ IF r \in {"ok", "gone"} THEN DropAndReturn("ok") ELSE Fail("retry")
  /\ UNCHANGED <<mem, disk, exp, want>>

\* CompleteMultipartUpload
Complete ==
  /\ pc["up"] = "parts" /\ Missing = {}
  /\ \E r \in RepliesOf(up.h) :
       /\ Spend(r)
       /\ SendCommit(r)
       /\ CASE r = "ok"   -> DropAndReturn("ok")
            [] r = "gone" -> DropAndReturn("retry")
            [] OTHER      -> Fail("retry")
  /\ UNCHANGED <<mem, disk, exp, want>>

\* reclaimUploadSession
Cleaned(b) == IF b.h # NoHandle THEN Closed(b.h, "gone") ELSE remote

Steps == PutObject \/ Begin \/ Query \/ Reserve \/ CreateUpload \/ Abort
         \/ UploadPart \/ Complete

Next ==
  \/ Start({want}) \/ Steps \/ Lapse
  \/ \E k \in DOMAIN exp.snap : Reclaim(k, Cleaned(exp.snap[k]))
  \/ Common
=============================================================================
