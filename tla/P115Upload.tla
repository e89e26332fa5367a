----------------------------- MODULE P115Upload -----------------------------
(* pkg/drivers/p115: PutSource.  115 first tries to recognise the content;  *)
(* what is left goes to an OSS multipart upload, whose parts OSS lists.     *)
EXTENDS UploadSession

CONSTANT Small   \* the contents below p115MultipartMinSize

\* uploadSource: when uploading is not available the code carries on as if the
\* file were there and leaves it to waitUploadedFile to miss it.
Available ==
  /\ pc["up"] = "begin"
  /\ \E r \in Replies :
       /\ Spend(r)
       /\ CASE r = "ok"      -> Goto("rapid") /\ UNCHANGED <<ops, up, result>>
            [] r = "refused" -> Goto("wait") /\ UNCHANGED <<ops, up, result>>
            [] OTHER         -> Fail("retry")
  /\ UNCHANGED <<mem, disk, exp, remote, file, want>>

\* rapidUpload, with the answers to its sign challenge
RapidUpload ==
  /\ pc["up"] = "rapid"
  /\ \E r \in Replies, known \in BOOLEAN :
       /\ Spend(r)
       /\ file' = IF known /\ Effective(r) THEN Full(up.c) ELSE file
       /\ IF r = "ok"
          THEN /\ Goto(IF known THEN "wait" ELSE IF up.c \in Small THEN "put" ELSE "bind")
               /\ UNCHANGED <<ops, up, result>>
          ELSE Fail("retry")
  /\ UNCHANGED <<mem, disk, exp, remote, want>>

\* UploadByOSS
PutObject ==
  /\ pc["up"] = "put"
  /\ \E r \in Replies :
       /\ Spend(r) /\ SendWhole(r)
       /\ IF r = "ok" THEN Goto("wait") /\ UNCHANGED <<ops, up, result>>
                      ELSE Fail("retry")
  /\ UNCHANGED <<mem, disk, exp, remote, want>>

\* beginMultipartUpload: the binding found, if any.
Bind ==
  /\ pc["up"] = "bind"
  /\ IF up.key \notin DOMAIN mem
     THEN Goto("reserve") /\ UNCHANGED <<ops, up>>
     ELSE IF mem[up.key].h # NoHandle
          THEN /\ Goto("query") /\ UNCHANGED ops
               /\ up' = [up EXCEPT !.h = mem[up.key].h]
          ELSE Delete(up.key, "reserve") /\ UNCHANGED up
  /\ UNCHANGED <<mem, disk, exp, remote, file, want, result, troubles>>

\* beginMultipartUpload: when the list is not to be had every part is sent
\* again under the same upload ID.
Query ==
  /\ pc["up"] = "query"
  /\ \E r \in RepliesOf(up.h) :
       /\ Spend(r)
       /\ IF r = "gone"
          THEN Delete(up.key, "reserve") /\ UNCHANGED up
          ELSE /\ up' = [up EXCEPT !.have = IF r = "ok" THEN Held(remote[up.h].data) ELSE {}]
               /\ Goto("parts") /\ UNCHANGED ops
  /\ UNCHANGED <<mem, disk, exp, remote, file, want, result>>

Reserve ==
  /\ pc["up"] = "reserve"
  /\ up' = [up EXCEPT !.ret = "retry"]
  /\ Create(up.key, Reserved, "create", "return")
  /\ UNCHANGED <<mem, disk, exp, remote, file, want, result, troubles>>

\* InitiateMultipartUpload, and the binding of its upload ID.
Initiate ==
  /\ pc["up"] = "create"
  /\ \E r \in Replies :
       /\ Spend(r) /\ SendCreate(r)
       /\ IF r = "ok"
          THEN /\ up' = [up EXCEPT !.h = NewHandle, !.have = {}]
               /\ Create(up.key, Binding(NewHandle), "parts", "abort")
               /\ UNCHANGED result
          ELSE DropAndReturn("retry")
  /\ UNCHANGED <<mem, disk, exp, file, want>>

\* abortUploadSession when the binding could not be saved
Abort ==
  /\ pc["up"] = "abort"
  /\ \E r \in RepliesOf(up.h) : Spend(r) /\ SendAbort(r)
  /\ Fail("retry")
  /\ UNCHANGED <<mem, disk, exp, file, want>>

\* uploadMultipart: whatever is wrong with a part, the binding is kept.
UploadPart ==
  /\ pc["up"] = "parts" /\ Missing # {}
  /\ \E r \in RepliesOf(up.h) :
       /\ Spend(r) /\ SendPart(NextPart, r)
       /\ IF r = "ok"
          THEN /\ up' = [up EXCEPT !.have = @ \cup {NextPart}]
               /\ Touch(up.key, "parts") /\ UNCHANGED result
          ELSE Fail("retry") /\ UNCHANGED mem
  /\ UNCHANGED <<disk, exp, file, want>>

\* CompleteMultipartUpload; a bad callback result is a refusal after the fact.
Complete ==
  /\ pc["up"] = "parts" /\ Missing = {}
  /\ \E r \in RepliesOf(up.h) :
       /\ Spend(r) /\ SendCommit(r)
       /\ CASE r = "ok"   -> Delete(up.key, "wait") /\ UNCHANGED <<up, result>>
            [] r = "gone" -> DropAndReturn("retry")
            [] OTHER      -> Fail("retry")
  /\ UNCHANGED <<mem, disk, exp, want>>

\* waitUploadedFile: the entry must have the source's name, size and hash.
WaitUploadedFile ==
  /\ pc["up"] = "wait"
  /\ \E r \in Replies :
       /\ Spend(r)
       /\ IF r = "ok" /\ file = Full(up.c) THEN Return("ok", file) ELSE Fail("retry")
  /\ UNCHANGED <<mem, disk, exp, remote, file, want>>

\* reclaimUploadSession
Cleaned(b) == IF b.h # NoHandle THEN Closed(b.h, "gone") ELSE remote

Steps == Available \/ RapidUpload \/ PutObject \/ Bind \/ Query \/ Reserve
         \/ Initiate \/ Abort \/ UploadPart \/ Complete \/ WaitUploadedFile

Next ==
  \/ Start({want}) \/ Steps \/ Lapse
  \/ \E k \in DOMAIN exp.snap : Reclaim(k, Cleaned(exp.snap[k]))
  \/ Common
=============================================================================
