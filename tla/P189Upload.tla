----------------------------- MODULE P189Upload -----------------------------
(* pkg/drivers/p189: PutSource.  Confirmed parts are in the token; the      *)
(* committed file is looked up by its name.                                 *)
EXTENDS UploadSession

\* PutSource: a binding with an uploadFileId is resumed without asking.
Begin ==
  /\ pc["up"] = "begin"
  /\ IF up.key \notin DOMAIN mem
     THEN Goto("reserve") /\ UNCHANGED <<ops, up>>
     ELSE IF mem[up.key].h # NoHandle
          THEN /\ up' = [up EXCEPT !.h = mem[up.key].h, !.have = mem[up.key].conf]
               /\ Goto("parts") /\ UNCHANGED ops
          ELSE Delete(up.key, "reserve") /\ UNCHANGED up
  /\ UNCHANGED <<mem, disk, exp, remote, file, want, result, troubles>>

Reserve ==
  /\ pc["up"] = "reserve"
  /\ up' = [up EXCEPT !.ret = "retry"]
  /\ Create(up.key, Reserved, "create", "return")
  /\ UNCHANGED <<mem, disk, exp, remote, file, want, result, troubles>>

\* initUpload: when the provider has the data (fileDataExists) the parts are
\* skipped and the handle is not bound.
InitUpload ==
  /\ pc["up"] = "create"
  /\ \E r \in Replies, known \in BOOLEAN :
       LET data == IF known THEN Full(up.c) ELSE Empty IN
       /\ Spend(r)
       /\ remote' = IF Effective(r) THEN NewUpload(data) ELSE remote
       /\ IF r = "ok"
          THEN /\ up' = [up EXCEPT !.h = NewHandle, !.have = Held(data)]
               /\ UNCHANGED result
               /\ IF known THEN Goto("parts") /\ UNCHANGED ops
                           ELSE Create(up.key, Binding(NewHandle), "parts", "return")
          ELSE DropAndReturn("retry")
  /\ UNCHANGED <<mem, disk, exp, file, want>>

\* invalidResumedUploadSession goes by the text of an error: one it does not
\* match, for an upload that is gone or for one that is not, keeps the binding.
UploadError(r) ==
  CASE r = "gone"    -> DropAndReturn("retry")
    [] r = "odd"     -> FailMisread("retry")
    [] r = "refused" -> DropAndReturn("permanent") \/ DropAndReturn("retry") \/ Fail("retry")
    [] OTHER         -> Fail("retry")

\* uploadParts: each part first asks for its URL (uploadData).
UploadData ==
  /\ pc["up"] = "parts" /\ Missing # {}
  /\ \E r \in AnswersOf(up.h) :
       /\ Spend(r)
       /\ IF r = "ok" THEN Goto("put") /\ UNCHANGED <<ops, up, result>>
                      ELSE UploadError(r)
  /\ UNCHANGED <<mem, disk, exp, remote, file, want>>

\* uploadParts: the part goes to that URL, and is rejected for good.
UploadPart ==
  /\ pc["up"] = "put"
  /\ \E r \in RepliesOf(up.h) :
       /\ Spend(r) /\ SendPart(NextPart, r)
       /\ CASE r = "ok" ->
                 /\ up' = [up EXCEPT !.have = @ \cup {NextPart}]
                 /\ TouchWith(up.key, Marked(up.key, NextPart), "parts")
                 /\ UNCHANGED result
            [] r \in {"gone", "refused"} -> DropAndReturn("permanent") /\ UNCHANGED mem
            [] OTHER -> Fail("retry") /\ UNCHANGED mem
  /\ UNCHANGED <<disk, exp, file, want>>

\* commitUpload: the body of an answer with status 200 is not looked at, so
\* a refusal in it ("soft") passes for success.
CommitUpload ==
  /\ pc["up"] = "parts" /\ Missing = {}
  /\ \E r \in AnswersOf(up.h), soft \in BOOLEAN :
       /\ soft => r \in {"gone", "refused"}
       /\ Spend(r) /\ SendCommit(r)
       /\ IF r = "ok" \/ soft
          THEN /\ up' = [up EXCEPT !.misread = soft]
               /\ Goto("wait") /\ UNCHANGED <<ops, result>>
          ELSE UploadError(r)
  /\ UNCHANGED <<mem, disk, exp, want>>

\* waitUploadedFile: a file of that name, whatever it holds
WaitUploadedFile ==
  /\ pc["up"] = "wait"
  /\ \E r \in Replies :
       /\ Spend(r)
       /\ IF r = "ok" /\ file # Empty THEN DropAndGive("ok", file) ELSE Fail("retry")
  /\ UNCHANGED <<mem, disk, exp, remote, file, want>>

\* reclaimUploadSession: there is nothing to abort.
Cleaned(b) == remote

Steps == Begin \/ Reserve \/ InitUpload \/ UploadData \/ UploadPart \/ CommitUpload
         \/ WaitUploadedFile

Next ==
  \/ Start({want}) \/ Steps \/ Lapse
  \/ \E k \in DOMAIN exp.snap : Reclaim(k, Cleaned(exp.snap[k]))
  \/ Common
=============================================================================
