---------------------------- MODULE AliyunUpload ----------------------------
(* pkg/drivers/aliyundrive: PutSource.  The provider cannot be asked which  *)
(* parts it has; the binding's token says which were confirmed.             *)
EXTENDS UploadSession

\* A source without a SHA1 has no binding.
Bound == up.key # NoKey /\ up.key \in DOMAIN mem

\* PutSource: a binding with a handle is resumed without asking.
Begin ==
  /\ pc["up"] = "begin"
  /\ IF Bound /\ mem[up.key].h # NoHandle
     THEN /\ up' = [up EXCEPT !.h = mem[up.key].h, !.have = mem[up.key].conf]
          /\ Goto("parts") /\ UNCHANGED ops
     ELSE /\ UNCHANGED up
          /\ IF Bound THEN Delete(up.key, "reserve")
                      ELSE Goto("reserve") /\ UNCHANGED ops
  /\ UNCHANGED <<mem, disk, exp, remote, file, want, result, troubles>>

Reserve ==
  /\ pc["up"] = "reserve"
  /\ up' = [up EXCEPT !.ret = "retry"]
  /\ IF up.key = NoKey THEN Goto("create") /\ UNCHANGED ops
                       ELSE Create(up.key, Reserved, "create", "return")
  /\ UNCHANGED <<mem, disk, exp, remote, file, want, result, troubles>>

\* createWithFolders.  Without a SHA1 the provider first compares the hash of
\* the head (pre_hash); when it matches, the request is repeated with the
\* whole hash (below), and an error on the way there leaves the binding alone.
CreateWithFolders ==
  /\ pc["up"] = "create"
  /\ \E r \in Replies \cup (IF up.key = NoKey THEN {"prehash"} ELSE {}),
        known \in BOOLEAN :
       /\ Spend(r)
       /\ known => up.key # NoKey
       /\ IF known THEN SendWhole(r) /\ UNCHANGED remote
                   ELSE SendCreate(r) /\ UNCHANGED file
       /\ CASE r = "ok" /\ known -> DropAndReturn("ok") 
            [] r = "ok" /\ ~known -> /\ up' = [up EXCEPT !.h = NewHandle, !.have = {}]
                                     /\ Goto("bind") /\ UNCHANGED <<ops, result>>
            [] r = "prehash" -> Goto("again") /\ UNCHANGED <<ops, up, result>>
            [] r = "refused" -> DropAndReturn("permanent")
            [] OTHER -> DropAndReturn("retry")
  /\ UNCHANGED <<mem, disk, exp, want>>

\* PreHashMatched: createWithFolders again
CreateWithHash ==
  /\ pc["up"] = "again"
  /\ \E r \in Replies, known \in BOOLEAN :
       /\ Spend(r)
       /\ IF known THEN SendWhole(r) /\ UNCHANGED remote
                   ELSE SendCreate(r) /\ UNCHANGED file
       /\ CASE r = "ok" /\ known -> Return("ok", Full(up.c))
            [] r = "ok" /\ ~known -> /\ up' = [up EXCEPT !.h = NewHandle, !.have = {}]
                                     /\ Goto("bind") /\ UNCHANGED <<ops, result>>
            [] r = "refused" -> Fail("permanent")
            [] OTHER -> Fail("retry")
  /\ UNCHANGED <<mem, disk, exp, want>>

\* The handle and the part URLs are saved.
Bind ==
  /\ pc["up"] = "bind"
  /\ UNCHANGED up
  /\ IF up.key = NoKey THEN Goto("parts") /\ UNCHANGED ops
                       ELSE Create(up.key, Binding(up.h), "parts", "return")
  /\ UNCHANGED <<mem, disk, exp, remote, file, want, result, troubles>>

\* uploadParts, and the confirmation of the part in the token that is bound
\* now; it does not refresh UpdatedAt.
UploadPart ==
  /\ pc["up"] = "parts" /\ Missing # {}
  /\ \E r \in RepliesOf(up.h) :
       /\ Spend(r) /\ SendPart(NextPart, r)
       /\ CASE r = "ok" ->
                 /\ up' = [up EXCEPT !.have = @ \cup {NextPart}]
                 /\ TouchWith(up.key, Marked(up.key, NextPart), "parts")
                 /\ UNCHANGED result
            [] r \in {"gone", "refused"} -> Fail("permanent") /\ UNCHANGED mem
            [] OTHER -> Fail("retry") /\ UNCHANGED mem
  /\ UNCHANGED <<disk, exp, file, want>>

\* /v2/file/complete
Complete ==
  /\ pc["up"] = "parts" /\ Missing = {}
  /\ \E r \in RepliesOf(up.h) :
       /\ Spend(r) /\ SendCommit(r)
       /\ CASE r = "ok"      -> DropAndReturn("ok")
            [] r = "gone"    -> DropAndReturn("permanent")
            [] r = "refused" -> Fail("permanent")
            [] OTHER         -> Fail("retry")
  /\ UNCHANGED <<mem, disk, exp, want>>

\* reclaimUploadSession: there is nothing to abort.
Cleaned(b) == remote

\* dropHandlelessBindings, after each expiry pass: a list first, then one
\* deletion after the other.
Handleless == {k \in DOMAIN mem : mem[k].h = NoHandle}

SweepScan ==
  /\ Expiry /\ pc["exp"] = "idle" /\ Handleless # {}
  /\ exp' = [NoPass EXCEPT !.snap = Restrict(mem, Handleless)]
  /\ pc' = [pc EXCEPT !["exp"] = "sweep"]
  /\ UNCHANGED <<mem, disk, ops, up, remote, file, want, result, troubles>>

SweepDelete ==
  /\ pc["exp"] = "sweep"
  /\ IF exp.snap = NoBindings
     THEN pc' = [pc EXCEPT !["exp"] = "idle"] /\ UNCHANGED <<ops, exp>>
     ELSE \E k \in DOMAIN exp.snap :
            /\ exp' = [exp EXCEPT !.snap = Restrict(@, DOMAIN @ \ {k})]
            /\ Mutate("exp", Restrict(mem, DOMAIN mem \ {k}), "sweep", "sweep")
  /\ UNCHANGED <<mem, disk, up, remote, file, want, result, troubles>>

Steps == Begin \/ Reserve \/ CreateWithFolders \/ CreateWithHash \/ Bind
         \/ UploadPart \/ Complete

Next ==
  \/ Start({want, NoKey}) \/ Steps \/ Lapse
  \/ \E k \in DOMAIN exp.snap : Reclaim(k, Cleaned(exp.snap[k]))
  \/ SweepScan \/ SweepDelete
  \/ Common
=============================================================================
