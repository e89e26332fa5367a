--------------------------- MODULE P115OpenUpload ---------------------------
(* pkg/drivers/p115open: PutSource.  From the OSS upload on it does what   *)
(* pkg/drivers/p115 does, in code of its own.                              *)
EXTENDS P115Upload

\* uploadSource: the first uploadInit; the provider may ask for the hash of a
\* range before it answers.
UploadInit ==
  /\ pc["up"] = "begin"
  /\ \E r \in Replies \cup {"sign"}, known \in BOOLEAN :
       /\ Spend(r)
       /\ file' = IF known /\ Effective(r) THEN Full(up.c) ELSE file
       /\ CASE r = "ok" ->
                 Goto(IF known THEN "wait" ELSE "oss") /\ UNCHANGED <<ops, up, result>>
            [] r = "sign" -> Goto("sign") /\ UNCHANGED <<ops, up, result>>
            [] r = "refused" -> Fail("permanent")
            [] OTHER -> Fail("retry")
  /\ UNCHANGED <<mem, disk, exp, remote, want>>

\* uploadSource: the second uploadInit, with the answer
SignedInit ==
  /\ pc["up"] = "sign"
  /\ \E r \in Replies, known \in BOOLEAN :
       /\ Spend(r)
       /\ file' = IF known /\ Effective(r) THEN Full(up.c) ELSE file
       /\ CASE r = "ok" ->
                 Goto(IF known THEN "wait" ELSE "oss") /\ UNCHANGED <<ops, up, result>>
            [] r = "refused" -> Fail("permanent")
            [] OTHER -> Fail("retry")
  /\ UNCHANGED <<mem, disk, exp, remote, want>>

\* uploadToOSS: the token, and the choice between one request and parts
UploadToOSS ==
  /\ pc["up"] = "oss"
  /\ \E r \in Replies :
       /\ Spend(r)
       /\ IF r = "ok"
          THEN /\ Goto(IF up.c \in Small THEN "put" ELSE "bind")
               /\ UNCHANGED <<ops, up, result>>
          ELSE Fail("retry")
  /\ UNCHANGED <<mem, disk, exp, remote, file, want>>

OpenBind == Bind
OpenQuery == Query
OpenReserve == Reserve
OpenInitiate == Initiate
OpenAbort == Abort
OpenUploadPart == UploadPart
OpenComplete == Complete
OpenWaitUploadedFile == WaitUploadedFile
OpenCleaned(b) == Cleaned(b)

OpenSteps == UploadInit \/ SignedInit \/ UploadToOSS \/ PutObject
             \/ OpenBind \/ OpenQuery \/ OpenReserve \/ OpenInitiate \/ OpenAbort
             \/ OpenUploadPart \/ OpenComplete \/ OpenWaitUploadedFile

OpenNext ==
  \/ Start({want}) \/ OpenSteps \/ Lapse
  \/ \E k \in DOMAIN exp.snap : Reclaim(k, OpenCleaned(exp.snap[k]))
  \/ Common
=============================================================================
