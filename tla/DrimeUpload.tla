---------------------------- MODULE DrimeUpload ----------------------------
(* pkg/drivers/drime: PutSource.  Parts go up concurrently, and a stale     *)
(* session is replaced once within the attempt.                             *)
EXTENDS UploadSession

CONSTANT Small   \* the contents below smallUploadLimit

\* PutSource, tryInstantUpload: the provider may know the content and copy it;
\* whatever goes wrong, the upload goes on the long way.
TryInstantUpload ==
  /\ pc["up"] = "begin"
  /\ \E r \in Replies, known \in BOOLEAN :
       /\ Spend(r)
       /\ IF known THEN SendWhole(r) ELSE UNCHANGED file
       /\ IF r = "ok" /\ known
          THEN Return("ok", Full(up.c))
          ELSE /\ Goto(IF up.c \in Small THEN "small" ELSE "bind")
               /\ UNCHANGED <<ops, up, result>>
  /\ UNCHANGED <<mem, disk, exp, remote, want>>

\* putPresigned, putSmall
PutSmall ==
  /\ pc["up"] = "small"
  /\ \E r \in Replies :
       /\ Spend(r) /\ SendWhole(r)
       /\ CASE r = "ok"      -> Return("ok", Full(up.c))
            [] r = "refused" -> Fail("permanent") \/ Fail("retry")
            [] OTHER         -> Fail("retry")
  /\ UNCHANGED <<mem, disk, exp, remote, want>>

\* beginUpload
BeginUpload ==
  /\ pc["up"] = "bind"
  /\ IF up.key \notin DOMAIN mem
     THEN Goto("reserve") /\ UNCHANGED <<mem, ops, up>>
     ELSE IF mem[up.key].h # NoHandle
          THEN /\ up' = [up EXCEPT !.h = mem[up.key].h]
               /\ Touch(up.key, "query")
          ELSE Delete(up.key, "reserve") /\ UNCHANGED <<mem, up>>
  /\ UNCHANGED <<disk, exp, remote, file, want, result, troubles>>

GetUploadedParts ==
  /\ pc["up"] = "query"
  /\ \E r \in RepliesOf(up.h) :
       /\ Spend(r)
       /\ CASE r = "ok" ->
                 /\ up' = [up EXCEPT !.have = Held(remote[up.h].data)]
                 /\ Goto("parts") /\ UNCHANGED <<ops, result>>
            [] r = "gone" -> Delete(up.key, "reserve") /\ UNCHANGED <<up, result>>
            [] OTHER -> Fail("retry")
  /\ UNCHANGED <<mem, disk, exp, remote, file, want>>

Reserve ==
  /\ pc["up"] = "reserve"
  /\ up' = [up EXCEPT !.ret = "retry"]
  /\ Create(up.key, Reserved, "create", "return")
  /\ UNCHANGED <<mem, disk, exp, remote, file, want, result, troubles>>

CreateMultipart ==
  /\ pc["up"] = "create"
  /\ \E r \in Replies :
       /\ Spend(r) /\ SendCreate(r)
       /\ IF r = "ok"
          THEN /\ up' = [up EXCEPT !.h = NewHandle, !.have = {}]
               /\ Create(up.key, Binding(NewHandle), "parts", "return")
               /\ UNCHANGED result
          ELSE DropAndReturn("retry")
  /\ UNCHANGED <<mem, disk, exp, file, want>>

\* putLarge: one of the concurrent parts.  The first error decides how the
\* attempt ends; a part the provider has no upload for ends the session.
UploadPart ==
  /\ pc["up"] = "parts"
  /\ \E p \in Missing, r \in RepliesOf(up.h) :
       /\ Spend(r) /\ SendPart(p, r)
       /\ up' = [up EXCEPT !.have = @ \cup {p},
                           !.ret = IF r = "gone" THEN "stale" ELSE "retry"]
       /\ CASE r = "ok"   -> Touch(up.key, "parts")
            [] r = "gone" -> Delete(up.key, "drain") /\ UNCHANGED mem
            [] OTHER      -> Goto("drain") /\ UNCHANGED <<mem, ops>>
  /\ UNCHANGED <<disk, exp, file, want, result>>

\* A part under way when the others were cancelled still ends.
LatePart ==
  /\ pc["up"] = "drain"
  /\ \E p \in Missing :
       /\ SendPart(p, "ok")
       /\ up' = [up EXCEPT !.have = @ \cup {p}]
       /\ IF Open(up.h) THEN Touch(up.key, "drain")
                        ELSE Delete(up.key, "drain") /\ UNCHANGED mem
  /\ UNCHANGED <<disk, exp, file, want, result, troubles>>

\* PutSource: errStaleUpload is tried again, once.
Again ==
  IF up.again = 0
  THEN /\ up' = [up EXCEPT !.again = 1, !.h = NoHandle, !.have = {}]
       /\ Goto("bind") /\ UNCHANGED <<ops, result>>
  ELSE Fail("retry")

PartsFailed ==
  /\ pc["up"] = "drain"
  /\ UNCHANGED troubles
  /\ IF up.ret = "stale" THEN Again ELSE Fail("retry")
  /\ UNCHANGED <<mem, disk, exp, remote, file, want>>

\* completeUpload puts the object together; the file is not there yet.
CompleteUpload ==
  /\ pc["up"] = "parts" /\ Missing = {}
  /\ \E r \in RepliesOf(up.h) :
       /\ Spend(r)
       /\ remote' = IF Effective(r) THEN Closed(up.h, "done") ELSE remote
       /\ CASE r = "ok"   -> Goto("entry") /\ UNCHANGED <<ops, up, result>>
            [] r = "gone" -> Delete(up.key, "stale") /\ UNCHANGED <<up, result>>
            [] OTHER      -> Fail("retry")
  /\ UNCHANGED <<mem, disk, exp, file, want>>

Stale ==
  /\ pc["up"] = "stale"
  /\ UNCHANGED troubles
  /\ Again
  /\ UNCHANGED <<mem, disk, exp, remote, file, want>>

CreateEntry ==
  /\ pc["up"] = "entry"
  /\ \E r \in Replies :
       /\ Spend(r)
       /\ file' = IF Effective(r) THEN remote[up.h].data ELSE file
       /\ IF r = "ok" THEN DropAndReturn("ok") ELSE Fail("retry")
  /\ UNCHANGED <<mem, disk, exp, remote, want>>

\* reclaim
Cleaned(b) == IF b.h # NoHandle THEN Closed(b.h, "gone") ELSE remote

Steps == TryInstantUpload \/ PutSmall \/ BeginUpload \/ GetUploadedParts \/ Reserve
         \/ CreateMultipart \/ UploadPart \/ LatePart \/ PartsFailed
         \/ CompleteUpload \/ Stale \/ CreateEntry

Next ==
  \/ Start({want}) \/ Steps \/ Lapse
  \/ \E k \in DOMAIN exp.snap : Reclaim(k, Cleaned(exp.snap[k]))
  \/ Common
=============================================================================
