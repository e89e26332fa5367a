----------------------------- MODULE MCDrivers -----------------------------
(* The upload attempts of all drivers that keep sessions, one part each, over *)
(* the same variables.                                                        *)
EXTENDS UploadSession

CONSTANTS Small, Retries, Drivers, First

VARIABLE part

S3 == INSTANCE S3Upload WITH MaxTroubles <- 3
P115 == INSTANCE P115Upload WITH MaxTroubles <- 3
P115Open == INSTANCE P115OpenUpload
Aliyun == INSTANCE AliyunUpload WITH Contents <- Contents \ Small
Baidu == INSTANCE BaiduUpload
P189 == INSTANCE P189Upload
Yun139 == INSTANCE Yun139Upload
OneDrive == INSTANCE OneDriveUpload WITH MaxTroubles <- 3
Drime == INSTANCE DrimeUpload
P123 == INSTANCE P123Upload
Quark == INSTANCE QuarkUpload
Sftp == INSTANCE SftpUpload WITH Expiry <- FALSE, Overwrites <- TRUE
Sftp3 == INSTANCE SftpUpload WITH Expiry <- FALSE, Overwrites <- FALSE
Staging == INSTANCE SftpUpload WITH Overwrites <- TRUE

DriverInit == Init /\ want = First /\ part \in Drivers

DriverNext ==
  /\ \/ part = "s3" /\ S3!Next
     \/ part = "115" /\ P115!Next
     \/ part = "115open" /\ P115Open!OpenNext
     \/ part = "aliyundrive" /\ Aliyun!Next
     \/ part = "baidu" /\ Baidu!Next
     \/ part = "189" /\ P189!Next
     \/ part = "139" /\ Yun139!Next
     \/ part = "onedrive" /\ OneDrive!Next
     \/ part = "drime" /\ Drime!Next
     \/ part = "123" /\ P123!Next
     \/ part = "quark" /\ Quark!Next
     \/ part = "sftp" /\ Sftp!Next
     \/ part = "sftp3" /\ Sftp3!Next
  /\ UNCHANGED part

Spec == DriverInit /\ [][DriverNext]_<<vars, part>>

\* The steps of an expiry pass; what a reclaim makes of the provider is up to the
\* driver.
Expires ==
  /\ \/ ExpireScan \/ ExpireDrop \/ Save("exp") \/ Install("exp")
     \/ \E k \in DOMAIN exp.snap :
          \E cleaned \in {remote, Closed(exp.snap[k].h, "gone")} : Reclaim(k, cleaned)
     \/ part = "aliyundrive" /\ Aliyun!SweepDelete
  /\ UNCHANGED part

Ages ==
  /\ pc["up"] = "idle" /\ StaleLeft
  /\ DriverNext
  /\ \E k \in DOMAIN mem \cap DOMAIN mem' : mem'[k].old /\ ~mem[k].old

\* The engine goes on trying: it retries what may succeed later, and the user
\* retries what the driver gave up.  The expiry passes go on beside the attempts.
\* But for 123, only an accepted part renews a binding, so the binding of an
\* upload that is gone grows old however often it is tried.
LiveSpec ==
  /\ Spec
  /\ WF_<<vars, part>>(DriverNext) /\ WF_<<vars, part>>(Expires)
  /\ SF_<<vars, part>>(Ages)

\* The SFTP driver with its expiry passes.
StagingSpec == DriverInit /\ [][Staging!Next /\ UNCHANGED part]_<<vars, part>>

\* Whatever the provider shows under the target name is one whole content:
\* no part is missing and no parts of different contents are put together,
\* across retries, lost answers, lapsed uploads, edits, crashes and expiry.
WholeFiles == file # Empty => \E c \in Contents : file = Full(c)

\* An upload that reports success returns a file that holds its own content,
\* unless the provider refused the commit in the body of an answer the driver
\* does not look at (189).
SuccessIsReal == result.st = "ok" /\ ~result.misread => result.data = Full(result.c)

\* An attempt that failed although nothing went wrong during it, because its
\* binding named an upload that was finished or forgotten, leaves no binding
\* to that upload behind; the next attempt does not fail the same way.  That is
\* so when the provider says it in the way the driver knows.
StaleDropped ==
  /\ part \notin {"aliyundrive", "139", "123"}
  /\ result.st \in {"retry", "permanent"} /\ result.clean /\ ~result.misread
  /\ result.stale # NoHandle /\ ~Open(result.stale)
  => \A k \in DOMAIN mem : mem[k].h # result.stale

\* Once things stop going wrong the file is uploaded: whatever the interrupted
\* attempts left in the index and at the provider, and whether or not a driver
\* recognises the end of an upload, no retry fails for ever: at the latest the
\* binding expires.  The exceptions: 123 renews a binding with each attempt, and
\* so keeps one it cannot complete; an SFTP server that does not replace files,
\* while the name is taken.
UploadsSettle ==
  \/ part = "123"
  \/ <>[](result.st = "ok" /\ result.c = want)
  \/ part = "sftp3" /\ <>[](file # Empty)
=============================================================================
