---------------------------- MODULE Yun139Upload ----------------------------
(* pkg/drivers/yun139: PutSource.  Parts go up concurrently; the provider   *)
(* renames an upload whose name is taken, and the driver renames it back.   *)
EXTENDS UploadSession

\* putSource: a binding with a file ID and an upload ID is resumed.
Begin ==
  /\ pc["up"] = "begin"
  /\ IF up.key \notin DOMAIN mem
     THEN Goto("reserve") /\ UNCHANGED <<ops, up>>
     ELSE IF mem[up.key].h # NoHandle
          THEN /\ up' = [up EXCEPT !.h = mem[up.key].h, !.have = mem[up.key].conf]
               /\ Goto("urls") /\ UNCHANGED ops
          ELSE Delete(up.key, "reserve") /\ UNCHANGED up
  /\ UNCHANGED <<mem, disk, exp, remote, file, want, result, troubles>>

Reserve ==
  /\ pc["up"] = "reserve"
  /\ up' = [up EXCEPT !.ret = "retry"]
  /\ Create(up.key, Reserved, "create", "return")
  /\ UNCHANGED <<mem, disk, exp, remote, file, want, result, troubles>>

\* /file/create with auto_rename: the content may be known, and then is a file
\* at once.  The tag says that the name was taken and another is shown.
FileCreate ==
  /\ pc["up"] = "create"
  /\ \E r \in Replies, known \in BOOLEAN :
       /\ Spend(r)
       /\ IF known
          THEN SendWhole(r) /\ UNCHANGED remote
          ELSE /\ remote' = IF Effective(r)
                            THEN Append(remote, [data |-> Empty, st |-> "open",
                                                 tag |-> file # Empty])
                            ELSE remote
               /\ UNCHANGED file
       /\ CASE r = "ok" /\ known -> DropAndGive("ok", Full(up.c))
            [] r = "ok" /\ ~known ->
                 /\ up' = [up EXCEPT !.h = NewHandle, !.have = {}]
                 /\ Create(up.key, Binding(NewHandle), "parts", "return")
                 /\ UNCHANGED result
            [] OTHER -> DropAndReturn("retry")
  /\ UNCHANGED <<mem, disk, exp, want>>

\* /file/getUploadUrl on resume: what the provider answers for an upload it
\* does not know is not taken for an invalid session.
GetUploadUrl ==
  /\ pc["up"] = "urls"
  /\ \E r \in RepliesOf(up.h) :
       /\ Spend(r)
       /\ IF r = "ok" THEN Goto("parts") /\ UNCHANGED <<ops, up, result>>
                      ELSE Fail("retry")
  /\ UNCHANGED <<mem, disk, exp, remote, file, want>>

\* uploadParts: one of the concurrent parts.  After an error the group is
\* cancelled and waited for.
UploadPart ==
  /\ pc["up"] = "parts"
  /\ \E p \in Missing, r \in RepliesOf(up.h) :
       /\ Spend(r) /\ SendPart(p, r)
       /\ IF r = "ok"
          THEN /\ up' = [up EXCEPT !.have = @ \cup {p}]
               /\ TouchWith(up.key, Marked(up.key, p), "parts")
          ELSE /\ up' = [up EXCEPT !.have = @ \cup {p}, !.data = Empty,
                                   !.ret = IF r \in {"gone", "refused"}
                                           THEN "permanent" ELSE "retry"]
               /\ Goto("drain") /\ UNCHANGED <<mem, ops>>
  /\ UNCHANGED <<disk, exp, file, want, result>>

\* A part that was under way when the group was cancelled still arrives.
LatePart ==
  /\ pc["up"] = "drain"
  /\ \E p \in Missing :
       /\ Open(up.h) /\ SendPart(p, "ok")
       /\ up' = [up EXCEPT !.have = @ \cup {p}]
       /\ TouchWith(up.key, Marked(up.key, p), "drain")
  /\ UNCHANGED <<disk, exp, file, want, result, troubles>>

PartsFailed ==
  /\ pc["up"] = "drain"
  /\ UNCHANGED troubles
  /\ IF up.ret = "permanent" THEN DropAndReturn("permanent") ELSE Fail("retry")
  /\ UNCHANGED <<mem, disk, exp, remote, file, want>>

\* /file/complete: an unsuccessful answer ends the session for good.
FileComplete ==
  /\ pc["up"] = "parts" /\ Missing = {}
  /\ \E r \in RepliesOf(up.h) :
       /\ Spend(r)
       /\ IF remote[up.h].tag
          THEN /\ remote' = IF Effective(r) THEN Closed(up.h, "done") ELSE remote
               /\ UNCHANGED file
          ELSE SendCommit(r)
       /\ CASE r = "ok" /\ remote[up.h].tag ->
                 Goto("conflict") /\ UNCHANGED <<ops, up, result>>
            [] r = "ok" /\ ~remote[up.h].tag -> DropAndReturn("ok")
            [] r \in {"gone", "refused"} -> DropAndReturn("permanent")
            [] OTHER -> Fail("retry")
  /\ UNCHANGED <<mem, disk, exp, want>>

\* The other file of that name is removed; failures are logged only.
RemoveDuplicates ==
  /\ pc["up"] = "conflict"
  /\ \E r \in Replies : Spend(r) /\ file' = IF Effective(r) THEN Empty ELSE file
  /\ Goto("rename")
  /\ UNCHANGED <<mem, disk, ops, up, exp, remote, want, result>>

\* The new file gets its name, or keeps the provider's; it is returned by its
\* ID in either case.
RenameBack ==
  /\ pc["up"] = "rename"
  /\ \E r \in Replies :
       /\ Spend(r)
       /\ file' = IF Effective(r) THEN remote[up.h].data ELSE file
  /\ DropAndGive("ok", remote[up.h].data)
  /\ UNCHANGED <<mem, disk, exp, remote, want>>

\* reclaimUploadSession: there is nothing to abort.
Cleaned(b) == remote

Steps == Begin \/ Reserve \/ FileCreate \/ GetUploadUrl \/ UploadPart \/ LatePart
         \/ PartsFailed \/ FileComplete \/ RemoveDuplicates \/ RenameBack

Next ==
  \/ Start({want}) \/ Steps \/ Lapse
  \/ \E k \in DOMAIN exp.snap : Reclaim(k, Cleaned(exp.snap[k]))
  \/ Common
=============================================================================
