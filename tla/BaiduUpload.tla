---------------------------- MODULE BaiduUpload ----------------------------
(* pkg/drivers/baidunetdisk: PutSource.  Requests other than the parts and *)
(* the part list are tried three times (request).                          *)
EXTENDS UploadSession

CONSTANT Retries   \* how often request repeats a failed request

\* PutSource: a binding with an upload ID is resumed.
Begin ==
  /\ pc["up"] = "begin"
  /\ IF up.key \notin DOMAIN mem
     THEN Goto("reserve") /\ UNCHANGED <<ops, up>>
     ELSE IF mem[up.key].h # NoHandle
          THEN /\ Goto("query") /\ UNCHANGED ops
               /\ up' = [up EXCEPT !.h = mem[up.key].h]
          ELSE Delete(up.key, "reserve") /\ UNCHANGED up
  /\ UNCHANGED <<mem, disk, exp, remote, file, want, result, troubles>>

\* listUploadedPartSeqs: an error with an errno of the provider's, or a text that
\* speaks of the upload ID (invalidResumedUploadSession), ends the session; any
\* other, an HTTP status among them, makes every part be sent again.
Query ==
  /\ pc["up"] = "query"
  /\ \E r \in AnswersOf(up.h) :
       /\ Spend(r)
       /\ \/ /\ r \in {"gone", "refused"}
             /\ Delete(up.key, "reserve") /\ UNCHANGED up
          \/ /\ r # "gone"
             /\ up' = [up EXCEPT !.have = IF r = "ok" THEN Held(remote[up.h].data) ELSE {},
                                 !.misread = r = "odd"]
             /\ Goto("parts") /\ UNCHANGED ops
  /\ UNCHANGED <<mem, disk, exp, remote, file, want, result>>

Reserve ==
  /\ pc["up"] = "reserve"
  /\ up' = [up EXCEPT !.ret = "retry"]
  /\ Create(up.key, Reserved, "create", "return")
  /\ UNCHANGED <<mem, disk, exp, remote, file, want, result, troubles>>

\* precreate: the provider may know the whole content, or some of the blocks,
\* of which its block list then does not ask.
Precreate ==
  /\ pc["up"] = "create"
  /\ \E r \in Replies, known \in SUBSET Parts :
       LET data == [p \in Parts |-> IF p \in known THEN up.c ELSE Nothing] IN
       /\ Spend(r)
       /\ IF known = Parts
          THEN SendWhole(r) /\ UNCHANGED remote
          ELSE /\ remote' = IF Effective(r) THEN NewUpload(data) ELSE remote
               /\ UNCHANGED file
       /\ IF r = "ok"
          THEN IF known = Parts
               THEN DropAndReturn("ok")
               ELSE /\ up' = [up EXCEPT !.h = NewHandle, !.have = known, !.again = 0]
                    /\ Create(up.key, Binding(NewHandle), "parts", "return")
                    /\ UNCHANGED result
          ELSE IF up.again < Retries
               THEN up' = [up EXCEPT !.again = @ + 1] /\ UNCHANGED <<pc, ops, result>>
               ELSE DropAndReturn("retry")
  /\ UNCHANGED <<mem, disk, exp, want>>

\* uploadParts, uploadSlice: only a text that speaks of the upload ID ends the
\* session.
UploadSlice ==
  /\ pc["up"] = "parts" /\ Missing # {}
  /\ \E r \in AnswersOf(up.h) :
       /\ Spend(r) /\ SendPart(NextPart, r)
       /\ CASE r = "ok" ->
                 /\ up' = [up EXCEPT !.have = @ \cup {NextPart}]
                 /\ Touch(up.key, "parts") /\ UNCHANGED result
            [] r = "gone"    -> DropAndReturn("retry") /\ UNCHANGED mem
            [] r = "odd"     -> FailMisread("permanent") /\ UNCHANGED mem
            [] r = "refused" -> Fail("permanent") /\ UNCHANGED mem
            [] OTHER         -> Fail("retry") /\ UNCHANGED mem
  /\ UNCHANGED <<disk, exp, file, want>>

\* createFile: the repetition of a request whose answer was lost finds the
\* upload gone.  The last answer decides, in the same way as for the list.
CreateFile ==
  /\ pc["up"] = "parts" /\ Missing = {}
  /\ \E r \in AnswersOf(up.h) :
       /\ Spend(r) /\ SendCommit(r)
       /\ CASE r = "ok" -> DropAndReturn("ok")
            [] r # "ok" /\ up.again < Retries ->
                 up' = [up EXCEPT !.again = @ + 1] /\ UNCHANGED <<pc, ops, result>>
            [] r = "gone" /\ up.again = Retries -> DropAndReturn("retry")
            [] r = "odd" /\ up.again = Retries -> FailMisread("retry")
            [] r = "refused" /\ up.again = Retries -> DropAndReturn("retry") \/ Fail("retry")
            [] r \in {"fail", "lost"} /\ up.again = Retries -> Fail("retry")
  /\ UNCHANGED <<mem, disk, exp, want>>

\* reclaimUploadSession: there is nothing to abort.
Cleaned(b) == remote

Steps == Begin \/ Query \/ Reserve \/ Precreate \/ UploadSlice \/ CreateFile

Next ==
  \/ Start({want}) \/ Steps \/ Lapse
  \/ \E k \in DOMAIN exp.snap : Reclaim(k, Cleaned(exp.snap[k]))
  \/ Common
=============================================================================
