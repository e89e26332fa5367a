----------------------------- MODULE P123Upload -----------------------------
(* pkg/drivers/p123: PutSource.  Parts go up through presigned URLs that the *)
(* provider hands out per batch; asking for them is what reveals a session   *)
(* the provider has dropped.                                                 *)
EXTENDS UploadSession

\* beginUpload
BeginUpload ==
  /\ pc["up"] = "begin"
  /\ IF up.key \notin DOMAIN mem
     THEN Goto("reserve") /\ UNCHANGED <<mem, ops, up>>
     ELSE IF mem[up.key].h # NoHandle
          THEN /\ up' = [up EXCEPT !.h = mem[up.key].h, !.have = mem[up.key].conf]
               /\ Touch(up.key, "presign")
          ELSE Delete(up.key, "reserve") /\ UNCHANGED <<mem, up>>
  /\ UNCHANGED <<disk, exp, remote, file, want, result, troubles>>

Reserve ==
  /\ pc["up"] = "reserve"
  /\ up' = [up EXCEPT !.ret = "retry"]
  /\ Create(up.key, Reserved, "create", "return")
  /\ UNCHANGED <<mem, disk, exp, remote, file, want, result, troubles>>

\* uploadRequest: the provider may know the content (Reuse), or hand out
\* static credentials instead of an upload that can be resumed.
UploadRequest ==
  /\ pc["up"] = "create"
  /\ \E r \in Replies, kind \in {"reuse", "static", "multipart"} :
       /\ Spend(r)
       /\ IF kind = "multipart" THEN SendCreate(r) ELSE UNCHANGED remote
       /\ CASE r # "ok" -> DropAndReturn("retry")
            [] r = "ok" /\ kind # "multipart" ->
                 Delete(up.key, kind) /\ UNCHANGED <<up, result>>
            [] r = "ok" /\ kind = "multipart" ->
                 /\ up' = [up EXCEPT !.h = NewHandle, !.have = {}]
                 /\ Create(up.key, Binding(NewHandle), "presign", "return")
                 /\ UNCHANGED result
  /\ UNCHANGED <<mem, disk, exp, file, want>>

\* PutSource, sessionStale: a rejected session is replaced once.
Restart ==
  IF up.again = 0
  THEN /\ up' = [up EXCEPT !.again = 1, !.h = NoHandle, !.have = {}]
       /\ Delete(up.key, "begin") /\ UNCHANGED result
  ELSE Fail("retry")

\* uploadPresigned: the URLs of a batch, unless all of it is confirmed.
Presign ==
  /\ pc["up"] = "presign"
  /\ IF Missing = {}
     THEN Goto("commit") /\ UNCHANGED <<ops, up, result, troubles>>
     ELSE \E r \in RepliesOf(up.h) :
            /\ Spend(r)
            /\ CASE r = "ok" -> Goto("parts") /\ UNCHANGED <<ops, up, result>>
                 [] r \in {"gone", "refused"} -> Restart
                 [] OTHER -> Fail("retry")
  /\ UNCHANGED <<mem, disk, exp, remote, file, want>>

\* uploadPresigned, markPartConfirmed
PutPart ==
  /\ pc["up"] = "parts" /\ Missing # {}
  /\ \E r \in RepliesOf(up.h) :
       /\ Spend(r) /\ SendPart(NextPart, r)
       /\ IF r = "ok"
          THEN /\ up' = [up EXCEPT !.have = @ \cup {NextPart}]
               /\ TouchWith(up.key, [Marked(up.key, NextPart) EXCEPT !.old = FALSE],
                            IF Missing = {NextPart} THEN "commit" ELSE "parts")
               /\ UNCHANGED result
          ELSE Fail("retry") /\ UNCHANGED mem
  /\ UNCHANGED <<disk, exp, file, want>>

\* uploadCompleteV2: no error of it is marked as final, so the binding stays.
UploadComplete ==
  /\ pc["up"] = "commit"
  /\ \E r \in RepliesOf(up.h) :
       /\ Spend(r) /\ SendCommit(r)
       /\ IF r = "ok"
          THEN /\ up' = [up EXCEPT !.data = remote[up.h].data]
               /\ Delete(up.key, "finalize") /\ UNCHANGED result
          ELSE Fail("retry")
  /\ UNCHANGED <<mem, disk, exp, want>>

\* uploadCompleteV2 of known content, or uploadStaticCredentials: the parts go
\* to the object store, which is told to forget them after an error, and
\* uploadComplete publishes them.
UploadOtherwise ==
  /\ pc["up"] \in {"reuse", "static"}
  /\ \E r \in Replies :
       /\ Spend(r) /\ SendWhole(r)
       /\ IF r = "ok"
          THEN /\ up' = [up EXCEPT !.data = Full(up.c)]
               /\ Delete(up.key, "finalize") /\ UNCHANGED result
          ELSE Fail("retry")
  /\ UNCHANGED <<mem, disk, exp, remote, want>>

\* finalizeUpload: the entry of the answer, or else a file of that name
FinalizeUpload ==
  /\ pc["up"] = "finalize"
  /\ \/ UNCHANGED troubles /\ Return("ok", up.data)
     \/ \E r \in Replies :
          /\ Spend(r)
          /\ IF r = "ok" /\ file # Empty THEN Return("ok", file) ELSE Fail("retry")
  /\ UNCHANGED <<mem, disk, exp, remote, file, want>>

\* reclaimUploadSession: there is nothing to abort.
Cleaned(b) == remote

Steps == BeginUpload \/ Reserve \/ UploadRequest \/ Presign \/ PutPart
         \/ UploadComplete \/ UploadOtherwise \/ FinalizeUpload

Next ==
  \/ Start({want}) \/ Steps \/ Lapse
  \/ \E k \in DOMAIN exp.snap : Reclaim(k, Cleaned(exp.snap[k]))
  \/ Common
=============================================================================
