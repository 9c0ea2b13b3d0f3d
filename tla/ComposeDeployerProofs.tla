----------------------- MODULE ComposeDeployerProofs -----------------------
(***************************************************************************)
(* Proofs about ComposeDeployer, for any deployments and revisions and any *)
(* number of calls, retries, failures and crashes.                         *)
(***************************************************************************)
EXTENDS ComposeDeployer, TLAPS

File == {"compose", "override", "env", "revision"}
Uploaded == {"compose", "override", "env"}

\* The files that are left to write.
Left(s) == {s[i] : i \in DOMAIN s}

-----------------------------------------------------------------------------
(* The inductive invariant.                                                *)

\* A transaction that was interrupted, but not while it was undone: if its
\* revision runs, then from its own files.
RunsItsFiles ==
  /\ ~mixed /\ pending # None /\ ~torn /\ pc \notin Undo
  /\ disk.compose # None /\ disk.override # None
  /\ RevisionOf(up) = Revision[pending.target]
  => \A f \in Uploaded : RevisionOf(disk[f]) = Revision[pending.target]

\* A transaction that started from an empty server: nothing runs unless the
\* files are there with which it is shut down.
DownIsPossible ==
  ~mixed /\ pending # None /\ pending.snapshot.compose = None =>
    (disk.compose # None /\ disk.override # None) \/ up = None

ServerInv ==
  /\ QuietIsWhole
  /\ UndoIsWhole
  /\ RunsItsFiles
  /\ DownIsPossible
  /\ torn => pending # None

\* What the deployer has read is still so.
ReadInv ==
  /\ pc = "resume" =>
       snap = disk /\ pending # None /\ Revision[pending.target] = Revision[req]
  /\ pc \in {"reopen", "reconcile", "mark"} => pending = None
  /\ pc \in {"reconcile", "mark"} => snap = disk

\* How far the transaction is.
BodyInv ==
  /\ pc \in Body \cup {"clear"} => pending = [target |-> req, snapshot |-> snap] /\ ~torn
  /\ pc \in Body => prior = snap
  /\ pc = "upload" =>
       /\ todo \in UploadTodo
       /\ mixed \/ RevisionOf(up) = RevisionOf(snap.override)
       /\ \A f \in Uploaded : disk[f] = IF f \in Left(todo) THEN snap[f] ELSE req
  /\ pc \in {"up", "health", "commit", "clear"} => \A f \in Uploaded : disk[f] = req
  /\ pc \in {"health", "commit", "clear"} => up = req
  /\ pc \in {"clear", "resumed"} =>
       /\ pending # None
       /\ up # None /\ RevisionOf(up) = Revision[req]
       /\ RevisionOf(disk.revision) = Revision[req]
       /\ \/ pc = "resumed" /\ (mixed \/ torn)
          \/ \A f \in File : RevisionOf(disk[f]) = Revision[req]

\* How far the undo is.
UndoInv ==
  /\ pc \in Undo => pending # None /\ base = pending.snapshot
  /\ undo = "rollback" => base = prior
  /\ pc \in {"down", "restore"} =>
       /\ todo \in RestoreTodo
       /\ \A f \in File : f \in Left(todo) \/ disk[f] = base[f]
  /\ pc = "restore" /\ base.compose = None => mixed \/ up = None
  /\ pc \in {"reup", "rehealth", "reclear"} => disk = base
  /\ pc \in {"reup", "rehealth"} => Successful(base)
  /\ pc \in {"rehealth", "reclear"} =>
       /\ Successful(base) => up = base.override
       /\ mixed \/ RevisionOf(up) = RevisionOf(base.override)

DeployerInv ==
  /\ DeployerTypeOK
  /\ ServerInv /\ ReadInv /\ BodyInv /\ UndoInv
  /\ pc # "idle" => last = None
  /\ AnswerIsTrue

-----------------------------------------------------------------------------
(* Lemmas about the operators.                                             *)

\* No deployment has the revision of "nothing".
LEMMA RevisionIsNone ==
  ASSUME NEW c \in Content
  PROVE  (RevisionOf(c) = None) <=> (c = None)
BY DeployerAssumption DEF RevisionOf, Content

\* The steps through an upload.
LEMMA UploadSteps ==
  ASSUME NEW s \in UploadTodo
  PROVE  /\ Head(s) \in Uploaded /\ Head(s) \in Left(s)
         /\ Left(s) \subseteq Uploaded
         /\ Len(s) = 1 => Left(s) = {Head(s)}
         /\ Len(s) # 1 => Tail(s) \in UploadTodo /\ Left(Tail(s)) = Left(s) \ {Head(s)}
         /\ Len(s) = 1 => Tail(s) = <<>>
<1>1. CASE s = <<"compose", "override", "env">>
  BY <1>1 DEF UploadTodo, Uploaded, Left
<1>2. CASE s = <<"override", "env">>
  BY <1>2 DEF UploadTodo, Uploaded, Left
<1>3. CASE s = <<"env">>
  BY <1>3 DEF UploadTodo, Uploaded, Left
<1> QED BY <1>1, <1>2, <1>3 DEF UploadTodo, Upload

\* The steps through a restoration.
LEMMA RestoreSteps ==
  ASSUME NEW s \in RestoreTodo
  PROVE  /\ Head(s) \in File
         /\ Len(s) > 1 => Tail(s) \in RestoreTodo /\ Left(s) \ {Head(s)} \subseteq Left(Tail(s))
         /\ ~ (Len(s) > 1) => Left(s) = {Head(s)} /\ Tail(s) = <<>>
<1>1. CASE s = <<"compose", "override", "env", "revision">>
  BY <1>1 DEF RestoreTodo, File, Left
<1>2. CASE s = <<"override", "env", "revision">>
  BY <1>2 DEF RestoreTodo, File, Left
<1>3. CASE s = <<"env", "revision">>
  BY <1>3 DEF RestoreTodo, File, Left
<1>4. CASE s = <<"revision">>
  BY <1>4 DEF RestoreTodo, File, Left
<1> QED BY <1>1, <1>2, <1>3, <1>4 DEF RestoreTodo, Restore

-----------------------------------------------------------------------------
(* The ends of deploy().                                                   *)

\* The types of what is on the server.
RemoteTypeOK == disk \in Disk /\ pending \in Transaction \cup {None} /\ up \in Content

\* An invocation ends, or dies, over a server that is as it should be.
LEMMA Ends ==
  ASSUME DeployerInv, Forget, RemoteTypeOK', ServerInv', AnswerIsTrue',
         torn' \in BOOLEAN, mixed' \in BOOLEAN, last' \in (Requests \X Answers) \cup {None}
  PROVE  DeployerInv'
<1> USE DEF DeployerInv, Forget
<1>1. DeployerTypeOK'
  <2>1. Empty \in Disk /\ None \in Content
    BY DEF Empty, Disk, Content
  <2> QED BY <2>1 DEF DeployerTypeOK, RemoteTypeOK, Location, Undo
<1>2. ReadInv' /\ BodyInv' /\ UndoInv'
  BY DeployerAssumption DEF ReadInv, BodyInv, UndoInv, Body, Undo
<1> QED BY <1>1, <1>2

\* Nobody is told of a success.
LEMMA EndsBadly ==
  ASSUME DeployerInv, pc # "idle", Forget, RemoteTypeOK', ServerInv',
         torn' \in BOOLEAN, mixed' \in BOOLEAN, last' \in {None, <<req, "failed">>}
  PROVE  DeployerInv'
<1>1. req \in Requests
  BY DEF DeployerInv, DeployerTypeOK, Content
<1>2. last' = None \/ (last' \in Requests \X Answers /\ last'[2] = "failed")
  BY <1>1 DEF Answers
<1>3. AnswerIsTrue'
  BY <1>2 DEF AnswerIsTrue
<1> QED BY <1>2, <1>3, Ends

\* A failure outside of an undo that leaves the server as it is.
LEMMA FailsUnchanged ==
  ASSUME DeployerInv, pc \notin Undo \cup {"idle"}, Fail, UNCHANGED remoteVars
  PROVE  DeployerInv'
<1>1. torn' = torn /\ torn \in BOOLEAN /\ mixed' = mixed /\ mixed \in BOOLEAN
  BY DEF Fail, Finish, Answer, DeployerInv, DeployerTypeOK, ServerInv, remoteVars
<1>2. ServerInv'
  BY <1>1 DEF Fail, Finish, Answer, Forget, remoteVars, DeployerInv, ServerInv, QuietIsWhole, PendingTells,
     UndoIsWhole, RunsItsFiles, DownIsPossible, Undo
<1>3. RemoteTypeOK' /\ last' \in {None, <<req, "failed">>} /\ Forget
  BY DEF Fail, Finish, Answer, DeployerInv, DeployerTypeOK, RemoteTypeOK, remoteVars
<1> QED BY <1>1, <1>2, <1>3, EndsBadly

-----------------------------------------------------------------------------
(* From the connection to the decision.                                    *)

LEMMA InitDeployer == DeployerInit => DeployerInv
<1> SUFFICES ASSUME DeployerInit PROVE DeployerInv
  OBVIOUS
<1> USE DeployerAssumption DEF DeployerInit
<1>1. Empty \in Disk /\ None \in Content /\ \A f \in File : Empty[f] = None
  BY DEF Empty, Disk, Content, File
<1>2. DeployerTypeOK
  <2>1. deploys \in 0..MaxDeploys /\ todo \in UploadTodo \cup RestoreTodo \cup {<<>>}
    OBVIOUS
  <2>2. pc \in Location /\ pc \notin Undo
    BY DEF Location, Undo
  <2> QED BY <1>1, <2>1, <2>2 DEF DeployerTypeOK
<1>3. QuietIsWhole
  BY <1>1 DEF QuietIsWhole, PendingTells, Whole, RevisionOf, Empty, File
<1>4. ServerInv
  BY <1>3 DEF ServerInv, UndoIsWhole, RunsItsFiles, DownIsPossible
<1>5. ReadInv /\ BodyInv /\ UndoInv /\ AnswerIsTrue
  BY DEF ReadInv, BodyInv, UndoInv, AnswerIsTrue, Body, Undo
<1> QED BY <1>2, <1>4, <1>5 DEF DeployerInv

LEMMA BeginStep ==
  ASSUME DeployerInv, NEW q \in Requests, Begin(q)
  PROVE  DeployerInv'
<1> USE DEF Begin, DeployerInv
<1>1. DeployerTypeOK'
  <2>1. Empty \in Disk
    BY DEF Empty, Disk, Content
  <2> QED BY <2>1, DeployerAssumption DEF DeployerTypeOK, Location, Undo, Content, remoteVars
<1>2. ServerInv'
  BY DEF ServerInv, QuietIsWhole, PendingTells, UndoIsWhole, RunsItsFiles, DownIsPossible, Undo, remoteVars
<1>3. ReadInv'
  BY DEF ReadInv, remoteVars
<1>4. BodyInv' /\ UndoInv' /\ AnswerIsTrue'
  <2>1. undo' = None
    BY DEF DeployerTypeOK, Undo
  <2> QED BY <2>1, DeployerAssumption DEF BodyInv, UndoInv, AnswerIsTrue, Body, Undo
<1> QED BY <1>1, <1>2, <1>3, <1>4

\* An undo begins with the snapshot of the transaction in pending.json.
LEMMA UndoBegins ==
  ASSUME DeployerInv, pc # "idle", NEW w \in {"recover", "rollback"}, StartUndo(w, pending.snapshot),
         pending # None, w = "rollback" => pending.snapshot = prior,
         UNCHANGED pending, RemoteTypeOK', snap' \in Disk, DownIsPossible',
         disk'.compose = disk.compose, disk'.override = disk.override
  PROVE  DeployerInv'
<1> USE DEF DeployerInv, StartUndo, historyVars
<1>1. pending \in Transaction /\ pending.snapshot \in Disk
  BY DEF DeployerTypeOK, Transaction
<1>2. pc' \in {"restore", "down"}
  OBVIOUS
<1>3. DeployerTypeOK'
  BY <1>1, <1>2, DeployerAssumption
  DEF DeployerTypeOK, RemoteTypeOK, Location, Undo, RestoreTodo
<1>5. ServerInv'
  BY <1>2 DEF ServerInv, QuietIsWhole, PendingTells, UndoIsWhole, RunsItsFiles, Undo
<1>6. ReadInv' /\ BodyInv' /\ AnswerIsTrue'
  BY <1>2 DEF ReadInv, BodyInv, AnswerIsTrue, Body
<1>7. UndoInv'
  <2>1. \A f \in File : f \in Left(Restore)
    BY DEF Restore, Left, File
  <2>2. CASE pc' = "down"
    BY <2>1, <2>2 DEF UndoInv, Undo, RestoreTodo
  <2>3. CASE pc' = "restore"
    <3>1. base'.compose = None => mixed' \/ up' = None
      <4>1. SUFFICES ASSUME base'.compose = None, ~mixed' PROVE up' = None
        OBVIOUS
      <4>2. disk.compose = None \/ disk.override = None
        BY <2>3, <4>1 DEF Successful
      <4> QED BY <4>1, <4>2 DEF DownIsPossible
    <3> QED BY <2>1, <2>3, <3>1 DEF UndoInv, Undo, RestoreTodo
  <2> QED BY <1>2, <2>2, <2>3
<1> QED BY <1>3, <1>5, <1>6, <1>7

LEMMA OpenStep ==
  ASSUME DeployerInv, Open
  PROVE  DeployerInv'
<1> USE DEF DeployerInv
<1>1. pc = "open" /\ UNCHANGED remoteVars /\ disk \in Disk
  BY DEF Open, DeployerTypeOK
<1>2. CASE Fail
  BY <1>1, <1>2, FailsUnchanged DEF Undo
<1>3. CASE snap' = disk /\ StartUndo("recover", pending.snapshot) /\ pending # None
  <2>1. RemoteTypeOK' /\ DownIsPossible'
    BY <1>1, <1>3 DEF StartUndo, historyVars, RemoteTypeOK, DeployerTypeOK, ServerInv, DownIsPossible, remoteVars
  <2> QED BY <1>1, <1>3, <2>1, UndoBegins DEF remoteVars
<1>4. CASE /\ snap' = disk /\ (pending = None \/ Revision[pending.target] = Revision[req])
           /\ pc' = IF pending = None THEN "reconcile" ELSE "resume"
           /\ UNCHANGED <<req, undo, base, todo, deploys, last, prior, torn, mixed>>
  <2>1. DeployerTypeOK'
    BY <1>1, <1>4 DEF DeployerTypeOK, Location, Undo, remoteVars
  <2>2. ServerInv'
    BY <1>1, <1>4 DEF ServerInv, QuietIsWhole, PendingTells, UndoIsWhole, RunsItsFiles, DownIsPossible,
       Undo, remoteVars
  <2>3. ReadInv'
    BY <1>1, <1>4 DEF ReadInv, remoteVars
  <2>4. BodyInv' /\ UndoInv' /\ AnswerIsTrue'
    BY <1>1, <1>4 DEF BodyInv, UndoInv, AnswerIsTrue, Body, Undo
  <2> QED BY <1>1, <1>4, <2>1, <2>2, <2>3, <2>4
<1> QED BY <1>1, <1>2, <1>3, <1>4 DEF Open, historyVars

\* Writing revision.json over the files of the revision that runs.
LEMMA RevisionWritten ==
  ASSUME DeployerInv, pc # "idle", WriteRevision
  PROVE  /\ disk' \in Disk /\ UNCHANGED <<pending, up>>
         /\ \A f \in Uploaded : disk'[f] = disk[f]
         /\ disk'.compose = disk.compose /\ disk'.override = disk.override
         /\ RevisionOf(disk'.revision) = Revision[req]
         /\ (\A f \in Uploaded : RevisionOf(disk[f]) = Revision[req])
              => \A f \in File : RevisionOf(disk'[f]) = Revision[req]
<1>1. disk \in Disk /\ req \in Requests
  BY DEF DeployerInv, DeployerTypeOK, Content
<1>2. disk' = [disk EXCEPT !["revision"] = req] /\ UNCHANGED <<pending, up>>
  BY DEF WriteRevision, WriteFile
<1>3. disk' \in Disk /\ \A f \in Uploaded : disk'[f] = disk[f]
  BY <1>1, <1>2 DEF Disk, Content, Uploaded
<1>4. disk'["revision"] = req /\ RevisionOf(req) = Revision[req]
  BY <1>1, <1>2, DeployerAssumption DEF Disk, RevisionOf
<1> QED BY <1>2, <1>3, <1>4 DEF File, Uploaded

\* _reconcile's test: the revision runs, and from its own files, unless an undo
\* of them broke off.
LEMMA RunningFromFiles ==
  ASSUME DeployerInv, pc \in {"resume", "reconcile"}, Running
  PROVE  /\ up # None /\ RevisionOf(up) = Revision[req]
         /\ \/ mixed \/ torn
            \/ \A f \in Uploaded : RevisionOf(disk[f]) = Revision[req]
<1> USE DEF DeployerInv, Running
<1>1. up # None /\ RevisionOf(up) = Revision[req] /\ snap = disk
  BY DEF RevisionOf, ReadInv
<1>2. CASE pc = "resume"
  <2>1. pending # None /\ Revision[pending.target] = Revision[req] /\ pc \notin Undo
    BY <1>2 DEF ReadInv, Undo
  <2> QED BY <1>1, <2>1 DEF ServerInv, RunsItsFiles
<1>3. CASE pc = "reconcile"
  <2>1. mixed \/ (Whole(disk) /\ RevisionOf(up) = RevisionOf(disk.override))
    BY <1>3 DEF ReadInv, ServerInv, QuietIsWhole, PendingTells
  <2>2. DOMAIN disk = File
    BY DEF DeployerTypeOK, Disk, File
  <2> QED BY <1>1, <2>1, <2>2 DEF Whole, Uploaded, File
<1> QED BY <1>1, <1>2, <1>3

\* The files of the running revision are rewritten as its own.
LEMMA RevisionWrittenInv ==
  ASSUME DeployerInv, pc \in {"resume", "reconcile"}, Running, WriteRevision, torn' = torn,
         mixed' = mixed, pc' \notin Undo
  PROVE  /\ ServerInv' /\ RemoteTypeOK'
         /\ up' # None /\ RevisionOf(up') = Revision[req]
         /\ RevisionOf(disk'.revision) = Revision[req]
         /\ mixed \/ torn \/ \A f \in File : RevisionOf(disk'[f]) = Revision[req]
<1>1. /\ up # None /\ RevisionOf(up) = Revision[req]
      /\ \/ mixed \/ torn
         \/ \A f \in Uploaded : RevisionOf(disk[f]) = Revision[req]
  BY RunningFromFiles
<1>2. /\ disk' \in Disk /\ UNCHANGED <<pending, up>>
      /\ \A f \in Uploaded : disk'[f] = disk[f]
      /\ disk'.compose = disk.compose /\ disk'.override = disk.override
      /\ RevisionOf(disk'.revision) = Revision[req]
      /\ mixed \/ torn \/ \A f \in File : RevisionOf(disk'[f]) = Revision[req]
  BY <1>1, RevisionWritten
<1>3. QuietIsWhole'
  <2>1. DOMAIN disk' = File /\ "override" \in File
    BY <1>2 DEF Disk, File
  <2>2. pending' = None => ~torn
    BY <1>2 DEF DeployerInv, ServerInv
  <2> QED BY <1>1, <1>2, <2>1, <2>2 DEF QuietIsWhole, PendingTells, Whole
<1>4. RunsItsFiles'
  <2>1. pc \notin Undo
    BY DEF Undo
  <2>2. \A f \in Uploaded : RevisionOf(disk'[f]) = RevisionOf(disk[f])
    BY <1>2 DEF RevisionOf
  <2> QED BY <1>2, <2>1, <2>2 DEF RunsItsFiles, DeployerInv, ServerInv
<1>5. ServerInv'
  BY <1>2, <1>3, <1>4 DEF DeployerInv, ServerInv, UndoIsWhole, DownIsPossible
<1>6. RemoteTypeOK'
  BY <1>2 DEF DeployerInv, DeployerTypeOK, RemoteTypeOK
<1> QED BY <1>1, <1>2, <1>5, <1>6

LEMMA ResumeStep ==
  ASSUME DeployerInv, Resume
  PROVE  DeployerInv'
<1> USE DEF DeployerInv
<1>1. pc = "resume" /\ pending # None /\ pc \notin Undo /\ torn \in BOOLEAN /\ mixed \in BOOLEAN
  BY DEF Resume, ReadInv, Undo, DeployerTypeOK
<1>2. CASE StartUndo("recover", pending.snapshot) /\ UNCHANGED remoteVars /\ snap' = snap
  <2>1. RemoteTypeOK' /\ DownIsPossible' /\ snap' \in Disk
    BY <1>2 DEF StartUndo, historyVars, RemoteTypeOK, DeployerTypeOK, ServerInv, DownIsPossible, remoteVars
  <2> QED BY <1>1, <1>2, <2>1, UndoBegins DEF remoteVars
<1>3. CASE UNCHANGED remoteVars /\ Fail
  BY <1>1, <1>3, FailsUnchanged
<1>4. CASE Running /\ WriteRevision /\ Goto("resumed")
  <2>1. /\ pc' = "resumed" /\ UNCHANGED <<req, snap, undo, base, todo, deploys, last, prior, torn, mixed>>
        /\ UNCHANGED <<pending, up>>
    BY <1>4 DEF Goto, localVars, historyVars, WriteRevision, WriteFile
  <2>2. pc' \notin Undo /\ pc' \in Location
    BY <2>1 DEF Undo, Location
  <2>3. /\ ServerInv' /\ RemoteTypeOK' /\ up' # None /\ RevisionOf(up') = Revision[req]
        /\ RevisionOf(disk'.revision) = Revision[req]
        /\ mixed \/ torn \/ \A f \in File : RevisionOf(disk'[f]) = Revision[req]
    BY <1>1, <1>4, <2>1, <2>2, RevisionWrittenInv
  <2>4. DeployerTypeOK'
    BY <1>1, <2>1, <2>2, <2>3 DEF DeployerTypeOK, RemoteTypeOK
  <2>5. ReadInv' /\ UndoInv' /\ AnswerIsTrue'
    BY <1>1, <2>1, <2>2 DEF ReadInv, UndoInv, AnswerIsTrue
  <2>6. BodyInv'
    BY <1>1, <2>1, <2>3 DEF BodyInv, Body
  <2> QED BY <1>1, <2>1, <2>3, <2>4, <2>5, <2>6
<1>5. CASE Running /\ WriteRevision /\ Fail
  <2>1. /\ pc' = "idle" /\ Forget /\ UNCHANGED pending /\ torn' = torn /\ mixed' = mixed
        /\ last' = <<req, "failed">> /\ mixed \in BOOLEAN
    BY <1>1, <1>5 DEF Fail, Finish, Answer, Forget, WriteRevision, WriteFile
  <2>2. pc' \notin Undo
    BY <2>1 DEF Undo
  <2>3. ServerInv' /\ RemoteTypeOK'
    BY <1>1, <1>5, <2>1, <2>2, RevisionWrittenInv
  <2> QED BY <1>1, <2>1, <2>3, EndsBadly
<1> QED BY <1>2, <1>3, <1>4, <1>5 DEF Resume

LEMMA ReopenStep ==
  ASSUME DeployerInv, Reopen
  PROVE  DeployerInv'
<1> USE DEF DeployerInv
<1>1. pc = "reopen" /\ UNCHANGED remoteVars
  BY DEF Reopen
<1>2. CASE Fail
  BY <1>1, <1>2, FailsUnchanged DEF Undo
<1>3. CASE /\ snap' = disk /\ pc' = "reconcile"
           /\ UNCHANGED <<req, undo, base, todo, deploys, last, prior, torn, mixed>>
  <2>1. DeployerTypeOK'
    BY <1>1, <1>3 DEF DeployerTypeOK, Location, Undo, remoteVars
  <2>2. ServerInv'
    BY <1>1, <1>3 DEF ServerInv, QuietIsWhole, PendingTells, UndoIsWhole, RunsItsFiles, DownIsPossible,
       Undo, remoteVars
  <2>3. ReadInv' /\ BodyInv' /\ UndoInv' /\ AnswerIsTrue'
    BY <1>1, <1>3 DEF ReadInv, BodyInv, UndoInv, AnswerIsTrue, Body, Undo, remoteVars
  <2> QED BY <1>1, <1>3, <2>1, <2>2, <2>3
<1> QED BY <1>1, <1>2, <1>3 DEF Reopen, historyVars

LEMMA ReconcileStep ==
  ASSUME DeployerInv, Reconcile
  PROVE  DeployerInv'
<1> USE DEF DeployerInv
<1>1. pc = "reconcile" /\ pending = None /\ ~torn /\ pc \notin Undo
  BY DEF Reconcile, ReadInv, ServerInv, Undo
<1>2. CASE UNCHANGED remoteVars /\ Goto("mark")
  <2>1. pc' = "mark" /\ UNCHANGED <<disk, pending, up, req, snap, undo, base, todo, deploys, last, prior, torn, mixed>>
    BY <1>2 DEF Goto, localVars, historyVars, remoteVars
  <2>2. DeployerTypeOK'
    BY <1>1, <2>1 DEF DeployerTypeOK, Location, Undo
  <2>3. ServerInv'
    BY <1>1, <2>1 DEF ServerInv, QuietIsWhole, PendingTells, UndoIsWhole, RunsItsFiles, DownIsPossible, Undo
  <2>4. ReadInv' /\ BodyInv' /\ UndoInv' /\ AnswerIsTrue'
    BY <1>1, <2>1 DEF ReadInv, BodyInv, UndoInv, AnswerIsTrue, Body, Undo
  <2> QED BY <1>1, <2>1, <2>2, <2>3, <2>4
<1>3. CASE UNCHANGED remoteVars /\ Fail
  BY <1>1, <1>3, FailsUnchanged
<1>4. ASSUME NEW a \in {"success", "failed"}, Running, WriteRevision, Finish(a)
      PROVE  DeployerInv'
  <2>1. /\ pc' = "idle" /\ Forget /\ pending' = None /\ torn' = torn /\ mixed' = mixed
        /\ last' = <<req, a>>
    BY <1>1, <1>4 DEF Finish, Answer, Forget, WriteRevision, WriteFile, DeployerTypeOK
  <2>2. pc' \notin Undo
    BY <2>1 DEF Undo
  <2>3. /\ ServerInv' /\ RemoteTypeOK' /\ up' # None /\ RevisionOf(up') = Revision[req]
        /\ RevisionOf(disk'.revision) = Revision[req]
        /\ mixed \/ torn \/ \A f \in File : RevisionOf(disk'[f]) = Revision[req]
    BY <1>1, <1>4, <2>1, <2>2, RevisionWrittenInv
  <2>4. last' \in (Requests \X Answers) \cup {None} /\ last'[1] = req
    BY <1>1, <2>1 DEF DeployerTypeOK, Content, Answers
  <2>5. AnswerIsTrue'
    <3>1. DOMAIN disk' = File /\ a \in {"success", "failed"} /\ last'[2] = a /\ ~torn
      BY <1>1, <2>1, <2>3 DEF RemoteTypeOK, Disk, File
    <3> QED BY <2>1, <2>3, <2>4, <3>1 DEF AnswerIsTrue, Whole
  <2>6. torn' \in BOOLEAN /\ mixed' \in BOOLEAN
    BY <2>1 DEF DeployerTypeOK
  <2> QED BY <2>1, <2>3, <2>4, <2>5, <2>6, Ends
<1> QED BY <1>2, <1>3, <1>4 DEF Reconcile, Fail

-----------------------------------------------------------------------------
(* The transaction.                                                        *)

\* pending.json is written over a whole server.
LEMMA Marked ==
  ASSUME DeployerInv, pc = "mark", UNCHANGED <<disk, up, torn, mixed>>, pc' \notin Undo,
         pending' = [target |-> req, snapshot |-> snap]
  PROVE  /\ ServerInv' /\ RemoteTypeOK' /\ ~torn
         /\ pending' \in Transaction /\ pending' # None /\ pending'.target = req
         /\ pending'.snapshot = disk
         /\ mixed \/ (Whole(disk) /\ RevisionOf(up) = RevisionOf(disk.override))
         /\ DOMAIN disk = File
<1> USE DEF DeployerInv
<1>1. pending = None /\ ~torn /\ snap = disk /\ req \in Requests /\ disk \in Disk /\ up \in Content
  BY DEF ReadInv, ServerInv, DeployerTypeOK, Content
<1>2. /\ pending' \in Transaction /\ pending' # None /\ pending'.target = req
      /\ pending'.snapshot = disk
  BY <1>1, DeployerAssumption DEF Transaction
<1>3. /\ mixed \/ (Whole(disk) /\ RevisionOf(up) = RevisionOf(disk.override))
      /\ DOMAIN disk = File
  BY <1>1 DEF ServerInv, QuietIsWhole, PendingTells, Disk, File
<1>4. QuietIsWhole' /\ UndoIsWhole'
  BY <1>2, <1>3 DEF QuietIsWhole, PendingTells, UndoIsWhole
<1>5. RunsItsFiles'
  BY <1>2, <1>3 DEF RunsItsFiles, Whole, Uploaded, File
<1>6. DownIsPossible'
  <2>1. disk.compose = None => mixed \/ up = None
    <3>1. (mixed \/ RevisionOf(up) = RevisionOf(disk.compose)) /\ disk.compose \in Content
      BY <1>1, <1>3 DEF Whole, File, Disk
    <3> QED BY <1>1, <3>1, RevisionIsNone
  <2> QED BY <1>2, <2>1 DEF DownIsPossible
<1>7. RemoteTypeOK'
  BY <1>1, <1>2 DEF RemoteTypeOK
<1> QED BY <1>1, <1>2, <1>3, <1>4, <1>5, <1>6, <1>7 DEF ServerInv

LEMMA MarkStep ==
  ASSUME DeployerInv, Mark
  PROVE  DeployerInv'
<1> USE DEF DeployerInv
<1>1. pc = "mark" /\ UNCHANGED <<disk, up>> /\ pending = None /\ ~torn /\ pc \notin Undo
  BY DEF Mark, ReadInv, ServerInv, Undo
<1>2. CASE /\ pending' = [target |-> req, snapshot |-> snap]
           /\ pc' = "upload" /\ todo' = Upload /\ prior' = disk
           /\ UNCHANGED <<req, snap, undo, base, deploys, last, torn, mixed>>
  <2>1. pc' \notin Undo /\ pc' \in Location
    BY <1>2 DEF Undo, Location, Body
  <2>2. /\ ServerInv' /\ RemoteTypeOK' /\ snap = disk
        /\ mixed \/ RevisionOf(up) = RevisionOf(disk.override)
    BY <1>1, <1>2, <2>1, Marked DEF ReadInv
  <2>3. DeployerTypeOK'
    BY <1>1, <1>2, <2>1, <2>2 DEF DeployerTypeOK, RemoteTypeOK, UploadTodo
  <2>4. ReadInv' /\ UndoInv' /\ AnswerIsTrue'
    <3>1. undo' = None
      BY <1>1, <1>2 DEF DeployerTypeOK
    <3> QED BY <1>1, <1>2, <2>1, <3>1, DeployerAssumption DEF ReadInv, UndoInv, AnswerIsTrue
  <2>5. Upload \in UploadTodo /\ \A f \in Uploaded : f \in Left(Upload)
    BY DEF UploadTodo, Upload, Left, Uploaded
  <2>6. BodyInv'
    BY <1>1, <1>2, <2>2, <2>5 DEF BodyInv, Body
  <2> QED BY <1>1, <1>2, <2>2, <2>3, <2>4, <2>6
<1>3. CASE pending' = [target |-> req, snapshot |-> snap] /\ Fail
  <2>1. pc' = "idle" /\ Forget /\ torn' = FALSE /\ torn' = torn /\ last' = <<req, "failed">>
        /\ mixed' = mixed /\ mixed \in BOOLEAN
    BY <1>1, <1>3 DEF Fail, Finish, Answer, Forget, DeployerTypeOK
  <2>2. pc' \notin Undo
    BY <2>1 DEF Undo
  <2>3. ServerInv' /\ RemoteTypeOK'
    BY <1>1, <1>3, <2>1, <2>2, Marked DEF ReadInv
  <2> QED BY <1>1, <2>1, <2>3, EndsBadly
<1>4. CASE UNCHANGED pending /\ Fail
  BY <1>1, <1>4, FailsUnchanged DEF remoteVars
<1> QED BY <1>1, <1>2, <1>3, <1>4 DEF Mark

\* What every step of the body has to show again.
LEMMA BodyStays ==
  ASSUME DeployerInv, pc \in Body, pc' \in Body \cup {"clear"},
         UNCHANGED <<pending, req, snap, undo, base, deploys, last, prior, torn, mixed>>,
         disk' \in Disk, up' \in Content,
         todo' \in UploadTodo \cup RestoreTodo \cup {<<>>}, RunsItsFiles', DownIsPossible', BodyInv'
  PROVE  DeployerInv'
<1> USE DEF DeployerInv
<1>1. pc # "idle" /\ pc \notin Undo /\ pc' # "idle" /\ pc' \notin Undo /\ pc' \in Location
      /\ pc' \notin {"open", "resume", "reopen", "reconcile", "mark"}
  BY DEF Body, Undo, Location
<1>2. pending # None
  <2>1. pending = [target |-> req, snapshot |-> snap] /\ req \in Requests /\ snap \in Disk
    BY <1>1 DEF BodyInv, DeployerTypeOK, Content
  <2> QED BY <2>1, DeployerAssumption DEF Transaction
<1>3. DeployerTypeOK'
  BY <1>1 DEF DeployerTypeOK
<1>4. ServerInv'
  BY <1>2 DEF ServerInv, QuietIsWhole, PendingTells, UndoIsWhole
<1>5. ReadInv' /\ UndoInv' /\ AnswerIsTrue'
  BY <1>1 DEF ReadInv, UndoInv, AnswerIsTrue, Undo
<1> QED BY <1>1, <1>3, <1>4, <1>5

\* The transaction of a body: its log, and where it started.
LEMMA OwnTransaction ==
  ASSUME DeployerInv, pc \in Body \cup {"clear"}
  PROVE  /\ pending = [target |-> req, snapshot |-> snap] /\ pending # None
         /\ pending.target = req /\ pending.snapshot = snap /\ ~torn
         /\ req \in Requests /\ snap \in Disk /\ disk \in Disk /\ up \in Content
         /\ mixed \/ Whole(snap)
         /\ DOMAIN snap = File /\ (pc \in Body => prior = snap)
<1> USE DEF DeployerInv
<1>1. pc # "idle"
  BY DEF Body
<1>2. /\ pending = [target |-> req, snapshot |-> snap] /\ ~torn
      /\ req \in Requests /\ snap \in Disk /\ disk \in Disk /\ up \in Content
  BY <1>1 DEF BodyInv, DeployerTypeOK, Content
<1>3. pending # None
  BY <1>2, DeployerAssumption DEF Transaction
<1>4. mixed \/ Whole(snap)
  BY <1>2, <1>3 DEF ServerInv, UndoIsWhole
<1> QED BY <1>2, <1>3, <1>4 DEF Disk, File, BodyInv

LEMMA UploadStep ==
  ASSUME DeployerInv, UploadFile
  PROVE  DeployerInv'
<1> USE DEF DeployerInv
<1> DEFINE f0 == Head(todo)
<1>1. pc = "upload" /\ todo \in UploadTodo /\ (mixed \/ RevisionOf(up) = RevisionOf(snap.override))
      /\ \A f \in Uploaded : disk[f] = IF f \in Left(todo) THEN snap[f] ELSE req
  BY DEF UploadFile, BodyInv
<1>2. /\ pending = [target |-> req, snapshot |-> snap] /\ pending # None
      /\ pending.target = req /\ pending.snapshot = snap /\ ~torn
      /\ req \in Requests /\ snap \in Disk /\ disk \in Disk /\ up \in Content
      /\ mixed \/ Whole(snap)
      /\ DOMAIN snap = File /\ prior = snap
  BY <1>1, OwnTransaction DEF Body
<1>3. /\ disk' = [disk EXCEPT ![f0] = req] /\ todo' = Tail(todo)
      /\ pc' = (IF Len(todo) = 1 THEN "up" ELSE "upload")
      /\ UNCHANGED <<pending, up, req, snap, undo, base, deploys, last, prior, torn, mixed>>
  BY DEF UploadFile, WriteFile, historyVars
<1>4. /\ f0 \in Uploaded /\ f0 \in Left(todo)
      /\ Len(todo) = 1 => Left(todo) = {f0} /\ Tail(todo) = <<>>
      /\ Len(todo) # 1 => Tail(todo) \in UploadTodo /\ Left(Tail(todo)) = Left(todo) \ {f0}
  BY <1>1, UploadSteps
<1> HIDE DEF f0
<1>5. /\ disk' \in Disk /\ Uploaded \subseteq DOMAIN disk
      /\ \A f \in Uploaded : disk'[f] = IF f = f0 THEN req ELSE disk[f]
  BY <1>2, <1>3, <1>4 DEF Disk, Content, Uploaded
<1>6. \A f \in Uploaded : disk'[f] = snap[f] \/ disk'[f] = req
  BY <1>1, <1>5
<1>7. pc \in Body /\ pc' \in Body \cup {"clear"}
  BY <1>1, <1>3 DEF Body
<1>8. todo' \in UploadTodo \cup {<<>>}
  BY <1>3, <1>4
<1>9. RunsItsFiles'
  <2> SUFFICES ASSUME ~mixed, RevisionOf(up) = Revision[req], NEW f \in Uploaded
               PROVE  RevisionOf(disk'[f]) = Revision[req]
    BY <1>2, <1>3 DEF RunsItsFiles, RevisionOf
  <2>1. RevisionOf(snap[f]) = RevisionOf(snap.override)
    BY <1>2 DEF Whole, File, Uploaded
  <2>2. RevisionOf(req) = Revision[req]
    BY <1>2, DeployerAssumption DEF RevisionOf
  <2> QED BY <1>1, <1>6, <2>1, <2>2
<1>10. DownIsPossible'
  <2> SUFFICES ASSUME ~mixed, snap.compose = None PROVE up = None
    BY <1>2, <1>3 DEF DownIsPossible
  <2>1. RevisionOf(snap.override) = RevisionOf(snap.compose) /\ snap.compose \in Content
    BY <1>2 DEF Whole, File, Disk
  <2> QED BY <1>1, <1>2, <2>1, RevisionIsNone
<1>11. BodyInv'
  <2>1. CASE Len(todo) = 1
    <3>1. \A f \in Uploaded : disk'[f] = req
      BY <1>1, <1>4, <1>5, <2>1
    <3> QED BY <1>2, <1>3, <2>1, <3>1 DEF BodyInv, Body
  <2>2. CASE Len(todo) # 1
    <3>1. \A f \in Uploaded : disk'[f] = IF f \in Left(todo') THEN snap[f] ELSE req
      BY <1>1, <1>3, <1>4, <1>5, <2>2
    <3> QED BY <1>1, <1>2, <1>3, <1>4, <2>2, <3>1 DEF BodyInv, Body
  <2> QED BY <2>1, <2>2
<1> QED BY <1>3, <1>5, <1>2, <1>7, <1>8, <1>9, <1>10, <1>11, BodyStays

\* The commands after the uploads.
LEMMA BodyStep ==
  ASSUME DeployerInv, ComposeUp \/ Health \/ Commit
  PROVE  DeployerInv'
<1> USE DEF DeployerInv
<1>1. pc \in {"up", "health", "commit"} /\ pc \in Body
  BY DEF ComposeUp, Health, Commit, Body
<1>2. /\ pending = [target |-> req, snapshot |-> snap] /\ pending # None
      /\ pending.target = req /\ pending.snapshot = snap /\ ~torn
      /\ req \in Requests /\ snap \in Disk /\ disk \in Disk /\ up \in Content
      /\ mixed \/ Whole(snap)
      /\ DOMAIN snap = File /\ prior = snap
  BY <1>1, OwnTransaction
<1>3. \A f \in Uploaded : disk[f] = req
  BY <1>1 DEF BodyInv
<1>4. RevisionOf(req) = Revision[req] /\ req # None
  BY <1>2, DeployerAssumption DEF RevisionOf
<1>5. /\ pc' \in {"health", "commit", "clear"}
      /\ UNCHANGED <<pending, req, snap, undo, base, todo, deploys, last, prior, torn, mixed>>
      /\ disk' = (IF pc = "commit" THEN [disk EXCEPT !["revision"] = req] ELSE disk)
      /\ up' = req
      /\ pc' = "clear" <=> pc = "commit"
  <2>1. CASE ComposeUp
    BY <1>3, <2>1 DEF ComposeUp, Goto, localVars, historyVars, Uploaded
  <2>2. CASE Health
    BY <2>2 DEF Health, Goto, localVars, historyVars, remoteVars, BodyInv
  <2>3. CASE Commit
    BY <2>3 DEF Commit, Goto, localVars, historyVars, WriteRevision, WriteFile, BodyInv
  <2> QED BY <2>1, <2>2, <2>3
<1>6. /\ disk' \in Disk /\ up' \in Content
      /\ \A f \in Uploaded : disk'[f] = req
      /\ pc = "commit" => RevisionOf(disk'.revision) = Revision[req]
      /\ pc = "commit" => \A f \in File : RevisionOf(disk'[f]) = Revision[req]
  BY <1>2, <1>3, <1>4, <1>5 DEF Disk, Content, Uploaded, File
<1>7. todo' \in UploadTodo \cup RestoreTodo \cup {<<>>}
  BY <1>5 DEF DeployerTypeOK
<1>8. RunsItsFiles' /\ DownIsPossible'
  BY <1>2, <1>4, <1>5, <1>6 DEF RunsItsFiles, DownIsPossible, Uploaded, RevisionOf
<1>9. BodyInv'
  BY <1>2, <1>4, <1>5, <1>6 DEF BodyInv, Body, RevisionOf
<1> QED BY <1>1, <1>2, <1>5, <1>6, <1>7, <1>8, <1>9, BodyStays DEF Body

\* A command of the body fails: the transaction is undone.
LEMMA BodyFailsStep ==
  ASSUME DeployerInv, BodyFails
  PROVE  DeployerInv'
<1> USE DEF DeployerInv
<1>1. pc \in Body /\ pc # "idle" /\ snap' = snap
  BY DEF BodyFails, Body
<1>2. /\ pending = [target |-> req, snapshot |-> snap] /\ pending # None
      /\ pending.target = req /\ pending.snapshot = snap /\ ~torn
      /\ req \in Requests /\ snap \in Disk /\ disk \in Disk /\ up \in Content
      /\ mixed \/ Whole(snap)
      /\ DOMAIN snap = File /\ prior = snap
  BY <1>1, OwnTransaction
<1>3. StartUndo("rollback", pending.snapshot)
  BY <1>2 DEF BodyFails
<1>4. /\ pending' = pending /\ disk' \in Disk /\ up' \in Content
      /\ disk'.compose = disk.compose /\ disk'.override = disk.override
      /\ up' = up \/ (disk.compose # None /\ disk.override # None)
  <2>1. CASE UNCHANGED remoteVars
    BY <1>2, <2>1 DEF remoteVars
  <2>2. CASE pc = "up" /\ up' \in {None, disk.override} /\ UNCHANGED <<disk, pending>>
    <3>1. disk.compose = req /\ disk.override = req /\ req # None
      BY <1>2, <2>2, DeployerAssumption DEF BodyInv, Uploaded
    <3> QED BY <1>2, <2>2, <3>1 DEF Content
  <2>3. CASE pc = "commit" /\ WriteRevision
    BY <1>2, <2>3 DEF WriteRevision, WriteFile, Disk, Content
  <2> QED BY <2>1, <2>2, <2>3 DEF BodyFails
<1>5. DownIsPossible'
  BY <1>3, <1>4 DEF StartUndo, historyVars, ServerInv, DownIsPossible
<1>6. RemoteTypeOK'
  BY <1>4 DEF RemoteTypeOK, DeployerTypeOK
<1> QED BY <1>1, <1>2, <1>3, <1>4, <1>5, <1>6, UndoBegins

\* pending.json is removed, or not, when the server runs the revision.
LEMMA ClearStep ==
  ASSUME DeployerInv, Clear
  PROVE  DeployerInv'
<1> USE DEF DeployerInv
<1>1. /\ pc \in {"clear", "resumed"} /\ pc # "idle" /\ pc \notin Undo
      /\ UNCHANGED <<disk, up>> /\ pending' \in {pending, None}
  BY DEF Clear, Undo
<1>2. /\ pending # None /\ up # None /\ RevisionOf(up) = Revision[req]
      /\ RevisionOf(disk.revision) = Revision[req]
      /\ \/ pc = "resumed" /\ (mixed \/ torn)
         \/ \A f \in File : RevisionOf(disk[f]) = Revision[req]
      /\ disk \in Disk /\ up \in Content /\ DOMAIN disk = File /\ req \in Requests
      /\ torn \in BOOLEAN /\ mixed \in BOOLEAN
  BY <1>1 DEF BodyInv, DeployerTypeOK, Disk, File, Content
<1>3. PICK a \in {"success", "failed"} : Answer(a) /\ (a = "success" => pending' = None)
  BY DEF Clear
<1>4. /\ pc' = "idle" /\ Forget /\ last' = <<req, a>> /\ torn' = (torn /\ pending' # None)
      /\ torn' \in BOOLEAN
  BY <1>2, <1>3 DEF Answer, Forget
<1>5. /\ mixed' = (IF pending' # None THEN mixed ELSE pc = "resumed" /\ (mixed \/ torn))
      /\ mixed' \in BOOLEAN
  BY <1>2 DEF Clear
<1>6. pending' = None /\ ~mixed' => \A f \in File : RevisionOf(disk'[f]) = Revision[req]
  BY <1>1, <1>2, <1>5
<1>7. ServerInv'
  <2>1. CASE pending' = None
    <3>1. QuietIsWhole'
      BY <1>1, <1>2, <1>6 DEF QuietIsWhole, PendingTells, Whole, File
    <3> QED BY <1>1, <1>4, <2>1, <3>1 DEF ServerInv, UndoIsWhole, RunsItsFiles, DownIsPossible
  <2>2. CASE pending' = pending
    BY <1>1, <1>2, <1>4, <1>5, <2>2
    DEF ServerInv, QuietIsWhole, PendingTells, UndoIsWhole, RunsItsFiles, DownIsPossible
  <2> QED BY <1>1, <2>1, <2>2
<1>8. RemoteTypeOK'
  BY <1>1 DEF RemoteTypeOK, DeployerTypeOK
<1>9. last' \in (Requests \X Answers) \cup {None} /\ last'[1] = req /\ last'[2] = a
  BY <1>2, <1>4 DEF Answers
<1>10. AnswerIsTrue'
  <2> SUFFICES ASSUME a = "success"
               PROVE  /\ pending' = None /\ up' # None /\ RevisionOf(up') = Revision[req]
                      /\ RevisionOf(disk'.revision) = RevisionOf(up')
                      /\ mixed' \/ Whole(disk')
    BY <1>9 DEF AnswerIsTrue
  <2> QED BY <1>1, <1>2, <1>3, <1>6 DEF Whole
<1> QED BY <1>4, <1>5, <1>7, <1>8, <1>9, <1>10, Ends

-----------------------------------------------------------------------------
(* The undo.                                                               *)

\* What the undo restores: the installation the transaction started from, or
\* an empty server.
LEMMA UndoneIsWhole ==
  ASSUME DeployerInv, pc \in Undo
  PROVE  /\ pending # None /\ pending \in Transaction /\ base = pending.snapshot
         /\ base \in Disk /\ disk \in Disk /\ up \in Content /\ req \in Requests
         /\ DOMAIN base = File /\ (mixed \/ Whole(base))
         /\ mixed \/ Successful(base) \/ \A f \in File : base[f] = None
<1> USE DEF DeployerInv
<1>1. pending # None /\ base = pending.snapshot /\ pc # "idle"
  BY DEF UndoInv, Undo
<1>2. /\ pending \in Transaction /\ base \in Disk /\ disk \in Disk /\ up \in Content
      /\ req \in Requests /\ DOMAIN base = File
  BY <1>1 DEF DeployerTypeOK, Disk, File, Content
<1>3. mixed \/ Whole(base)
  BY <1>1 DEF ServerInv, UndoIsWhole
<1>4. ASSUME ~mixed, ~ Successful(base), NEW f \in File PROVE base[f] = None
  <2>1. PICK g \in File : base[g] = None
    BY <1>4 DEF Successful, File
  <2>2. RevisionOf(base[f]) = RevisionOf(base[g]) /\ base[f] \in Content /\ base[g] \in Content
    BY <1>2, <1>3, <1>4 DEF Whole, Disk, File
  <2> QED BY <2>1, <2>2, RevisionIsNone
<1> QED BY <1>1, <1>2, <1>3, <1>4

\* What every step of the undo but the last has to show again.
LEMMA UndoStays ==
  ASSUME DeployerInv, pc \in Undo, pc' \in Undo,
         UNCHANGED <<pending, req, snap, undo, base, deploys, last, prior, torn, mixed>>,
         disk' \in Disk, up' \in Content,
         todo' \in UploadTodo \cup RestoreTodo \cup {<<>>}, DownIsPossible', UndoInv'
  PROVE  DeployerInv'
<1> USE DEF DeployerInv
<1>1. /\ pc # "idle" /\ pc' # "idle" /\ pc' \in Location /\ pc' \notin Body \cup {"clear", "resumed"}
      /\ pc' \notin {"open", "resume", "reopen", "reconcile", "mark"}
  BY DEF Body, Undo, Location
<1>2. pending # None
  BY UndoneIsWhole
<1>3. DeployerTypeOK'
  BY <1>1 DEF DeployerTypeOK
<1>4. ServerInv'
  BY <1>2 DEF ServerInv, QuietIsWhole, PendingTells, UndoIsWhole, RunsItsFiles
<1>5. ReadInv' /\ BodyInv' /\ AnswerIsTrue'
  BY <1>1 DEF ReadInv, BodyInv, AnswerIsTrue, Body
<1> QED BY <1>1, <1>3, <1>4, <1>5

LEMMA DownStep ==
  ASSUME DeployerInv, ComposeDown
  PROVE  DeployerInv'
<1> USE DEF DeployerInv
<1>1. /\ pc = "down" /\ pc' = "restore" /\ up' = None /\ UNCHANGED <<disk, pending>>
      /\ UNCHANGED <<req, snap, undo, base, todo, deploys, last, prior, torn, mixed>>
      /\ pc \in Undo /\ pc' \in Undo
  BY DEF ComposeDown, Goto, localVars, historyVars, Undo
<1>2. disk' \in Disk /\ up' \in Content /\ todo' \in UploadTodo \cup RestoreTodo \cup {<<>>}
  BY <1>1 DEF DeployerTypeOK, Content
<1>3. DownIsPossible' /\ UndoInv'
  BY <1>1 DEF DownIsPossible, UndoInv, Undo
<1> QED BY <1>1, <1>2, <1>3, UndoStays

LEMMA RestoreStep ==
  ASSUME DeployerInv, RestoreFile
  PROVE  DeployerInv'
<1> USE DEF DeployerInv
<1> DEFINE f0 == Head(todo)
<1>1. /\ pc = "restore" /\ pc \in Undo /\ todo \in RestoreTodo
      /\ \A f \in File : f \in Left(todo) \/ disk[f] = base[f]
      /\ base.compose = None => mixed \/ up = None
  BY DEF RestoreFile, UndoInv, Undo
<1>2. /\ pending # None /\ base = pending.snapshot /\ base \in Disk /\ disk \in Disk
      /\ up \in Content
      /\ mixed \/ Successful(base) \/ \A f \in File : base[f] = None
  BY <1>1, UndoneIsWhole
<1>3. /\ disk' = [disk EXCEPT ![f0] = base[f0]] /\ todo' = Tail(todo)
      /\ pc' = (IF Len(todo) > 1 THEN pc ELSE IF Successful(base) THEN "reup" ELSE "reclear")
      /\ UNCHANGED <<pending, up, req, snap, undo, base, deploys, last, prior, torn, mixed>>
  BY DEF RestoreFile, WriteFile, historyVars
<1>4. /\ f0 \in File
      /\ Len(todo) > 1 => Tail(todo) \in RestoreTodo /\ Left(todo) \ {f0} \subseteq Left(Tail(todo))
      /\ ~ (Len(todo) > 1) => Left(todo) = {f0} /\ Tail(todo) = <<>>
  BY <1>1, RestoreSteps
<1> HIDE DEF f0
<1>5. /\ disk' \in Disk /\ DOMAIN disk' = File /\ DOMAIN base = File
      /\ \A f \in File : disk'[f] = IF f = f0 THEN base[f] ELSE disk[f]
  BY <1>2, <1>3, <1>4 DEF Disk, File
<1>6. pc' \in Undo /\ todo' \in RestoreTodo \cup {<<>>}
  BY <1>1, <1>3, <1>4 DEF Undo
<1>7. DownIsPossible'
  BY <1>1, <1>2, <1>3 DEF DownIsPossible
<1>8. UndoInv'
  <2>1. CASE Len(todo) > 1
    BY <1>1, <1>2, <1>3, <1>4, <1>5, <2>1 DEF UndoInv, Undo
  <2>2. CASE ~ (Len(todo) > 1)
    <3>1. \A f \in File : disk'[f] = base[f]
      BY <1>1, <1>4, <1>5, <2>2
    <3>2. disk' = base
      BY <1>2, <1>5, <3>1 DEF Disk
    <3>3. mixed \/ Successful(base) \/ (up = None /\ base.override = None)
      BY <1>1, <1>2 DEF File
    <3> QED BY <1>1, <1>2, <1>3, <2>2, <3>2, <3>3 DEF UndoInv, Undo
  <2> QED BY <2>1, <2>2
<1> QED BY <1>1, <1>2, <1>3, <1>5, <1>6, <1>7, <1>8, UndoStays

LEMMA UpAgainStep ==
  ASSUME DeployerInv, ComposeUpAgain \/ RestoredHealth
  PROVE  DeployerInv'
<1> USE DEF DeployerInv
<1>1. /\ pc \in {"reup", "rehealth"} /\ pc \in Undo
      /\ pc' = (IF pc = "reup" THEN "rehealth" ELSE "reclear") /\ pc' \in Undo
      /\ UNCHANGED <<disk, pending, req, snap, undo, base, todo, deploys, last, prior, torn, mixed>>
      /\ up' = IF pc = "reup" THEN disk.override ELSE up
  BY DEF ComposeUpAgain, RestoredHealth, Goto, localVars, historyVars, remoteVars, Undo
<1>2. pending # None /\ base = pending.snapshot /\ disk \in Disk /\ up \in Content
  BY <1>1, UndoneIsWhole
<1>3. disk = base /\ Successful(base)
  BY <1>1 DEF UndoInv
<1>4. disk' \in Disk /\ up' \in Content /\ todo' \in UploadTodo \cup RestoreTodo \cup {<<>>}
  BY <1>1, <1>2 DEF DeployerTypeOK, Disk
<1>5. DownIsPossible'
  BY <1>1, <1>2, <1>3 DEF DownIsPossible, Successful
<1>6. UndoInv'
  BY <1>1, <1>2, <1>3 DEF UndoInv, Undo
<1> QED BY <1>1, <1>4, <1>5, <1>6, UndoStays

\* The undo is over: the server is the one before the transaction.
LEMMA Undone ==
  ASSUME DeployerInv, pc = "reclear", pending' = None, UNCHANGED <<disk, up, mixed>>,
         torn' = FALSE
  PROVE  ServerInv' /\ RemoteTypeOK' /\ disk = base
<1> USE DEF DeployerInv
<1>1. /\ disk \in Disk /\ up \in Content /\ disk = base
      /\ mixed \/ (Whole(base) /\ RevisionOf(up) = RevisionOf(base.override))
  BY UndoneIsWhole DEF Undo, UndoInv
<1>2. ServerInv'
  BY <1>1 DEF ServerInv, QuietIsWhole, PendingTells, UndoIsWhole, RunsItsFiles, DownIsPossible
<1> QED BY <1>1, <1>2 DEF RemoteTypeOK

LEMMA ClearUndoneStep ==
  ASSUME DeployerInv, ClearUndone
  PROVE  DeployerInv'
<1> USE DEF DeployerInv
<1>1. /\ pc = "reclear" /\ pc \in Undo /\ pc # "idle" /\ pending' = None /\ UNCHANGED <<disk, up>>
  BY DEF ClearUndone, Undo
<1>2. /\ req \in Requests /\ base \in Disk /\ up \in Content /\ DOMAIN base = File
  BY <1>1, UndoneIsWhole
<1>3. CASE undo = "recover"
  <2>1. /\ pc' = "reopen" /\ undo' = None /\ torn' = FALSE
        /\ UNCHANGED <<req, snap, base, todo, deploys, last, prior, mixed>>
    BY <1>3 DEF ClearUndone
  <2>2. ServerInv' /\ RemoteTypeOK'
    BY <1>1, <2>1, Undone
  <2>3. DeployerTypeOK'
    BY <1>1, <2>1, <2>2 DEF DeployerTypeOK, RemoteTypeOK, Location, Undo
  <2>4. ReadInv' /\ BodyInv' /\ UndoInv' /\ AnswerIsTrue'
    BY <1>1, <2>1, DeployerAssumption DEF ReadInv, BodyInv, UndoInv, AnswerIsTrue, Body, Undo
  <2> QED BY <1>1, <2>1, <2>2, <2>3, <2>4
<1>4. CASE undo # "recover"
  <2> DEFINE a == IF Successful(base) THEN "rolled_back" ELSE "failed"
  <2>1. /\ pc' = "idle" /\ Forget /\ last' = <<req, a>> /\ torn' = FALSE /\ mixed' = mixed
        /\ mixed' \in BOOLEAN /\ undo = "rollback" /\ prior' = prior
    BY <1>1, <1>4 DEF ClearUndone, Finish, Answer, Forget, DeployerTypeOK
  <2>2. ServerInv' /\ RemoteTypeOK' /\ disk = base
    BY <1>1, <2>1, Undone
  <2>3. last' \in (Requests \X Answers) \cup {None} /\ last'[2] = a
    BY <1>2, <2>1 DEF Answers
  <2>4. AnswerIsTrue'
    <3> SUFFICES ASSUME a = "rolled_back"
                 PROVE  pending' = None /\ up' # None /\ disk' = prior' /\ up' = disk'.override
      BY <2>3 DEF AnswerIsTrue
    <3>1. up = base.override /\ up # None
      BY <1>1 DEF UndoInv, Successful
    <3>2. base = prior
      BY <2>1 DEF UndoInv
    <3> QED BY <1>1, <2>1, <2>2, <3>1, <3>2
  <2>5. torn' \in BOOLEAN
    BY <2>1
  <2> QED BY <2>1, <2>2, <2>3, <2>4, <2>5, Ends
<1> QED BY <1>3, <1>4

LEMMA UndoFailsStep ==
  ASSUME DeployerInv, UndoFails
  PROVE  DeployerInv'
<1> USE DEF DeployerInv
<1>1. /\ pc \in Undo /\ pc # "idle" /\ pc' = "idle" /\ Forget /\ last' = <<req, "failed">>
      /\ torn' = (pending' # None) /\ torn' \in BOOLEAN /\ mixed' = mixed /\ mixed \in BOOLEAN
  BY DEF UndoFails, Undo, Forget, DeployerTypeOK
<1>2. /\ pending # None /\ pending \in Transaction /\ base = pending.snapshot
      /\ base \in Disk /\ disk \in Disk /\ up \in Content
  BY <1>1, UndoneIsWhole
<1>3. CASE pc = "reclear" /\ pending' = None /\ UNCHANGED <<disk, up>>
  <2>1. torn' = FALSE
    BY <1>1, <1>3
  <2>2. ServerInv' /\ RemoteTypeOK'
    BY <1>1, <1>3, <2>1, Undone
  <2> QED BY <1>1, <2>2, EndsBadly
<1>4. CASE /\ pending' = pending /\ disk' \in Disk /\ up' \in Content
           /\ base.compose = None =>
                mixed \/ up' = None \/ (up' = up /\ disk' = disk)
  <2>1. DownIsPossible'
    BY <1>1, <1>2, <1>4 DEF ServerInv, DownIsPossible
  <2>2. ServerInv'
    BY <1>1, <1>2, <1>4, <2>1 DEF ServerInv, QuietIsWhole, PendingTells, UndoIsWhole, RunsItsFiles
  <2>3. RemoteTypeOK'
    BY <1>2, <1>4 DEF RemoteTypeOK
  <2> QED BY <1>1, <2>2, <2>3, EndsBadly
<1>5. CASE UNCHANGED remoteVars
  BY <1>2, <1>4, <1>5 DEF remoteVars
<1>6. CASE pc = "down" /\ CanDown /\ up' = None /\ UNCHANGED <<disk, pending>>
  BY <1>2, <1>4, <1>6 DEF Content
<1>7. CASE pc = "restore" /\ WriteFile(Head(todo), base[Head(todo)])
  <2>1. Head(todo) \in File /\ (base.compose = None => mixed \/ up = None)
    BY <1>7, RestoreSteps DEF UndoInv
  <2>2. disk' = [disk EXCEPT ![Head(todo)] = base[Head(todo)]] /\ UNCHANGED <<pending, up>>
    BY <1>7 DEF WriteFile
  <2>3. disk' \in Disk
    BY <1>2, <2>1, <2>2 DEF Disk, File
  <2> QED BY <1>2, <1>4, <2>1, <2>2, <2>3
<1>8. CASE pc = "reup" /\ up' \in {None, disk.override} /\ UNCHANGED <<disk, pending>>
  <2>1. base.compose # None
    BY <1>8 DEF UndoInv, Successful
  <2>2. disk.override \in Content /\ None \in Content
    BY <1>2 DEF Disk, Content
  <2> QED BY <1>2, <1>4, <1>8, <2>1, <2>2
<1> QED BY <1>3, <1>5, <1>6, <1>7, <1>8 DEF UndoFails

\* The Runner dies between two commands.
LEMMA CrashStep ==
  ASSUME DeployerInv, Crash
  PROVE  DeployerInv'
<1> USE DEF DeployerInv
<1>1. /\ pc # "idle" /\ pc' = "idle" /\ Forget /\ last' = None /\ torn' \in BOOLEAN
      /\ mixed' = mixed /\ mixed \in BOOLEAN
      /\ torn' = (torn \/ pc \in Undo) /\ UNCHANGED <<disk, pending, up>>
  BY DEF Crash, Forget, remoteVars, DeployerTypeOK
<1>2. torn' => pending' # None
  BY <1>1 DEF ServerInv, UndoInv
<1>3. ServerInv'
  BY <1>1, <1>2 DEF ServerInv, QuietIsWhole, PendingTells, UndoIsWhole, RunsItsFiles, DownIsPossible
<1>4. RemoteTypeOK'
  BY <1>1 DEF RemoteTypeOK, DeployerTypeOK
<1> QED BY <1>1, <1>3, <1>4, EndsBadly

-----------------------------------------------------------------------------
(* The theorems.                                                           *)

LEMMA DeployerStep ==
  ASSUME DeployerInv, [DeployerNext]_deployerVars
  PROVE  DeployerInv'
<1>1. CASE UNCHANGED deployerVars
  BY <1>1 DEF deployerVars, remoteVars, localVars, historyVars, DeployerInv, DeployerTypeOK, ServerInv,
     QuietIsWhole, PendingTells, UndoIsWhole, RunsItsFiles, DownIsPossible, ReadInv, BodyInv, UndoInv, AnswerIsTrue
<1>2. CASE DeployerNext
  BY <1>2, BeginStep, OpenStep, ResumeStep, ReopenStep, ReconcileStep, MarkStep, UploadStep,
     BodyStep, BodyFailsStep, ClearStep, DownStep, RestoreStep, UpAgainStep, ClearUndoneStep,
     UndoFailsStep, CrashStep
  DEF DeployerNext
<1> QED BY <1>1, <1>2

\* Every reachable state satisfies the invariant.
LEMMA DeployerStaysSound == DeployerSpec => []DeployerInv
<1>1. DeployerInv /\ [DeployerNext]_deployerVars => DeployerInv'
  BY DeployerStep
<1> QED BY InitDeployer, <1>1, PTL DEF DeployerSpec

\* The state of the server and of the deployer is well typed: in particular an
\* upload or a restoration is at one of the places the code has for it, and an
\* undo has its kind exactly while it goes on (deploy.py).
THEOREM DeployerTypeCorrect == DeployerSpec => []DeployerTypeOK
BY DeployerStaysSound, PTL DEF DeployerInv

\* Without pending.json the files on the server are those of one revision, and
\* that revision runs, wherever a deployer failed, was cancelled or died
\* (deploy.py:412, _recover_pending_transaction), unless a transaction whose
\* undo broke off was taken for complete.
THEOREM ServerIsWhole == DeployerSpec => []QuietIsWhole
BY DeployerStaysSound, PTL DEF DeployerInv, ServerInv

\* The snapshot in pending.json is of one installation, with that exception,
\* however many transactions were interrupted before this one
\* (_write_pending_transaction).
THEOREM UndoLogIsWhole == DeployerSpec => []UndoIsWhole
BY DeployerStaysSound, PTL DEF DeployerInv, ServerInv

\* What deploy() answers is true of the server: the revision it was asked for
\* runs after a success, from its own files with that exception, and after a
\* rollback the files are exactly the earlier ones, without any.
THEOREM AnswersAreTrue == DeployerSpec => []AnswerIsTrue
BY DeployerStaysSound, PTL DEF DeployerInv
=============================================================================
