----------------------------- MODULE SftpUpload -----------------------------
(* pkg/drivers/sftp: putSourceResumable.  The parts are written to a staging *)
(* file whose path follows from the key, so the content is the handle; how   *)
(* far an upload got is the size of that file.                               *)
EXTENDS UploadSession

CONSTANT Overwrites   \* whether the server's rename replaces a file

\* ensureSessionBinding: a binding found is left as it is.
EnsureSessionBinding ==
  /\ pc["up"] = "begin"
  /\ up' = [up EXCEPT !.h = up.c, !.ret = "retry"]
  /\ IF up.key \in DOMAIN mem
     THEN Goto("stat") /\ UNCHANGED ops
     ELSE Create(up.key, Binding(up.c), "stat", "return")
  /\ UNCHANGED <<mem, disk, exp, remote, file, want, result, troubles>>

\* stagingResumeOffset: everything before the end of the file counts as
\* uploaded.
BeforeEnd(data) == {p \in Parts : \E q \in Held(data) : p <= q}

StagingResumeOffset ==
  /\ pc["up"] = "stat"
  /\ \E r \in {"ok"} \cup (Troubles \cap {"fail"}) :
       /\ Spend(r)
       /\ IF r = "ok"
          THEN /\ up' = [up EXCEPT !.have = IF up.h \in DOMAIN remote
                                            THEN BeforeEnd(remote[up.h].data) ELSE {}]
               /\ Goto("parts") /\ UNCHANGED <<ops, result>>
          ELSE Fail("retry")
  /\ UNCHANGED <<mem, disk, exp, remote, file, want>>

\* uploadSFTPPart: the file is created when it is not there, and written at the
\* part's offset.
UploadSFTPPart ==
  /\ pc["up"] = "parts" /\ Missing # {}
  /\ \E r \in Replies :
       /\ Spend(r)
       /\ remote' = IF ~Effective(r) THEN remote
                    ELSE IF up.h \in DOMAIN remote
                         THEN WithPart(up.h, NextPart, up.c)
                         ELSE (up.h :> [data |-> [Empty EXCEPT ![NextPart] = up.c],
                                        st |-> "open", tag |-> Nothing]) @@ remote
       /\ IF r = "ok"
          THEN /\ up' = [up EXCEPT !.have = @ \cup {NextPart}]
               /\ Touch(up.key, "parts") /\ UNCHANGED result
          ELSE Fail("retry") /\ UNCHANGED mem
  /\ UNCHANGED <<disk, exp, file, want>>

\* putSourceResumable: the staging file is renamed to the target, which a server
\* of version 3 of the protocol refuses when the target exists.
Renamable == up.h \in DOMAIN remote /\ (Overwrites \/ file = Empty)

Commit ==
  /\ pc["up"] = "parts" /\ Missing = {}
  /\ \E r \in IF Renamable THEN Replies ELSE {"gone"} :
       /\ Spend(r)
       /\ IF Effective(r)
          THEN /\ file' = remote[up.h].data
               /\ remote' = Restrict(remote, DOMAIN remote \ {up.h})
          ELSE UNCHANGED <<file, remote>>
       /\ IF r = "ok" THEN Goto("stated") /\ UNCHANGED <<ops, up, result>>
                      ELSE Fail("retry")
  /\ UNCHANGED <<mem, disk, exp, want>>

\* The target is looked at before the binding goes.
StatCommitted ==
  /\ pc["up"] = "stated"
  /\ \E r \in {"ok"} \cup (Troubles \cap {"fail"}) :
       /\ Spend(r)
       /\ IF r = "ok" THEN DropAndGive("ok", file) ELSE Fail("retry")
  /\ UNCHANGED <<mem, disk, exp, remote, file, want>>

\* reclaimUploadSession removes the staging file.
Cleaned(b) == Restrict(remote, DOMAIN remote \ {b.h})

Steps == EnsureSessionBinding \/ StagingResumeOffset \/ UploadSFTPPart \/ Commit
         \/ StatCommitted

Next ==
  \/ Start({want}) \/ Steps
  \/ \E k \in DOMAIN exp.snap : Reclaim(k, Cleaned(exp.snap[k]))
  \/ Common
=============================================================================
