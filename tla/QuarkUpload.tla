----------------------------- MODULE QuarkUpload -----------------------------
(* pkg/drivers/quark: PutSource.  The parts' ETags are in the token and are   *)
(* written to disk one by one.                                                *)
EXTENDS UploadSession

\* Mutant: a binding is renewed when it is resumed.
BeginRenews ==
  /\ pc["up"] = "begin"
  /\ CASE up.key = NoKey -> Goto("create") /\ UNCHANGED <<mem, ops, up>>
       [] up.key # NoKey /\ up.key \notin DOMAIN mem ->
            Goto("reserve") /\ UNCHANGED <<mem, ops, up>>
       [] up.key \in DOMAIN mem ->
            IF mem[up.key].h # NoHandle
            THEN /\ up' = [up EXCEPT !.h = mem[up.key].h, !.have = mem[up.key].conf]
                 /\ Touch(up.key, "parts")
            ELSE Delete(up.key, "reserve") /\ UNCHANGED <<mem, up>>
  /\ UNCHANGED <<disk, exp, remote, file, want, result, troubles>>

\* PutSource: a source without hashes has no binding; a binding with a task
\* and an upload ID is resumed without asking.
Begin ==
  /\ pc["up"] = "begin"
  /\ CASE up.key = NoKey -> Goto("create") /\ UNCHANGED <<ops, up>>
       [] up.key # NoKey /\ up.key \notin DOMAIN mem ->
            Goto("reserve") /\ UNCHANGED <<ops, up>>
       [] up.key \in DOMAIN mem ->
            IF mem[up.key].h # NoHandle
            THEN /\ up' = [up EXCEPT !.h = mem[up.key].h, !.have = mem[up.key].conf]
                 /\ Goto("parts") /\ UNCHANGED ops
            ELSE Delete(up.key, "reserve") /\ UNCHANGED up
  /\ UNCHANGED <<mem, disk, exp, remote, file, want, result, troubles>>

Reserve ==
  /\ pc["up"] = "reserve"
  /\ up' = [up EXCEPT !.ret = "retry"]
  /\ Create(up.key, Reserved, "create", "return")
  /\ UNCHANGED <<mem, disk, exp, remote, file, want, result, troubles>>

\* /file/upload/pre: the provider may find the upload finished at once.
Pre ==
  /\ pc["up"] = "create"
  /\ \E r \in Replies, known \in BOOLEAN :
       LET data == IF known THEN Full(up.c) ELSE Empty IN
       /\ Spend(r)
       /\ remote' = IF Effective(r)
                    THEN Append(remote, [data |-> data, tag |-> Nothing,
                                         st |-> IF known THEN "done" ELSE "open"])
                    ELSE remote
       /\ IF r = "ok"
          THEN /\ up' = [up EXCEPT !.h = NewHandle]
               /\ Goto(IF known THEN "finish" ELSE "hash")
               /\ UNCHANGED <<ops, result>>
          ELSE DropAndReturn("retry")
  /\ UNCHANGED <<mem, disk, exp, file, want>>

\* updateUploadHash: with the hashes the provider may know the content.  An
\* error leaves the reservation.
UpdateUploadHash ==
  /\ pc["up"] = "hash"
  /\ \E r \in RepliesOf(up.h), known \in BOOLEAN :
       /\ Spend(r)
       /\ remote' = IF Effective(r) /\ known /\ Open(up.h)
                    THEN [remote EXCEPT ![up.h].st = "done", ![up.h].data = Full(up.c)]
                    ELSE remote
       /\ CASE r = "ok" /\ known -> Goto("finish") /\ UNCHANGED <<ops, up, result>>
            [] r = "ok" /\ ~known ->
                 /\ IF up.key = NoKey
                    THEN Goto("parts") /\ UNCHANGED <<ops, up>>
                    ELSE /\ up' = [up EXCEPT !.ret = "retry"]
                         /\ Create(up.key, Binding(up.h), "parts", "return")
                 /\ UNCHANGED result
            [] OTHER -> Fail("retry")
  /\ UNCHANGED <<mem, disk, exp, file, want>>

\* /file/upload/auth, which each part and the completion ask for first: no error
\* of it is taken for the end of the session.
UploadAuth ==
  /\ pc["up"] = "parts"
  /\ \E r \in {"ok"} \cup (AnswersOf(up.h) \ {"gone"}) :
       /\ Spend(r)
       /\ CASE r = "ok"  -> Goto("signed") /\ UNCHANGED <<ops, up, result>>
            [] r = "odd" -> FailMisread("retry")
            [] OTHER     -> Fail("retry")
  /\ UNCHANGED <<mem, disk, exp, remote, file, want>>

\* savePart: the confirmation is flushed, and an error of that ends the attempt.
SavePart(k, p) ==
  IF k = NoKey
  THEN Goto("parts") /\ UNCHANGED <<mem, ops>>
  ELSE LET next == IF k \in DOMAIN mem THEN [mem EXCEPT ![k] = Marked(k, p)]
                                       ELSE mem
       IN mem' = next /\ Write(next, "parts", "return")

\* uploadPart, the request to the store: a rejected part ends the session.
UploadPart ==
  /\ pc["up"] = "signed" /\ Missing # {}
  /\ \E r \in RepliesOf(up.h) :
       /\ Spend(r) /\ SendPart(NextPart, r)
       /\ CASE r = "ok" ->
                 /\ up' = [up EXCEPT !.have = @ \cup {NextPart}, !.ret = "retry"]
                 /\ SavePart(up.key, NextPart) /\ UNCHANGED result
            [] r \in {"gone", "refused"} ->
                 (DropAndReturn("permanent") \/ DropAndReturn("retry")) /\ UNCHANGED mem
            [] OTHER -> Fail("retry") /\ UNCHANGED mem
  /\ UNCHANGED <<disk, exp, file, want>>

\* ossComplete, which repeats the two requests itself: after a lost answer the
\* next completion finds no upload, or its authorisation is refused.
OssComplete ==
  /\ pc["up"] = "signed" /\ Missing = {}
  /\ \E r \in RepliesOf(up.h) :
       /\ Spend(r)
       /\ remote' = IF Effective(r) THEN Closed(up.h, "done") ELSE remote
       /\ CASE r = "ok" -> Goto("finish") /\ UNCHANGED <<ops, up, result>>
            [] r \in {"gone", "refused"} ->
                 DropAndReturn("permanent") \/ DropAndReturn("retry")
            [] r = "lost" -> DropAndReturn("permanent") \/ Fail("retry")
            [] r = "fail" -> Fail("retry")
  /\ UNCHANGED <<mem, disk, exp, file, want>>

\* uploadFinish publishes the file; an error of it keeps the binding.
UploadFinish ==
  /\ pc["up"] = "finish"
  /\ \E r \in Replies :
       /\ Spend(r)
       /\ file' = IF Effective(r) THEN remote[up.h].data ELSE file
       /\ IF r = "ok" THEN DropAndReturn("ok") ELSE Fail("retry")
  /\ UNCHANGED <<mem, disk, exp, remote, want>>

\* reclaimUploadSession: there is nothing to abort.
Cleaned(b) == remote

Steps == Begin \/ Reserve \/ Pre \/ UpdateUploadHash \/ UploadAuth \/ UploadPart
         \/ OssComplete \/ UploadFinish

Next ==
  \/ Start({want, NoKey}) \/ Steps \/ Lapse
  \/ \E k \in DOMAIN exp.snap : Reclaim(k, Cleaned(exp.snap[k]))
  \/ Common
==============================================================================
