-------------------------- MODULE ComposeDeployer --------------------------
(***************************************************************************)
(* runner/deploy.py: the deployment transaction of one environment.  A     *)
(* deployer replaces four control files and the running containers of a    *)
(* server over SSH, one command at a time; pending.json is its undo log.   *)
(* A command may fail before or after its effect, the deployer may be      *)
(* cancelled (which the code turns into a failure) and its process may die *)
(* between any two commands; what it left on the server stays.             *)
(*                                                                         *)
(* The content of a file is named by the deployment it was made for.  One  *)
(* deployer works at a time: the lease of the project sees to that as far  *)
(* as it does (HandlersHoldLease of LeaseRunner).                          *)
(***************************************************************************)
EXTENDS Integers, Sequences

CONSTANTS
  Requests,         \* the deployments
  Revision,         \* the commit and image of each of them
  None,             \* no file, no container, no deployment
  MaxDeploys        \* bound: calls of deploy()

\* What a file holds, or what runs; what the four files hold; pending.json.
Content == Requests \cup {None}
Disk == [{"compose", "override", "env", "revision"} -> Content]
Transaction == [target : Requests, snapshot : Disk]

ASSUME DeployerAssumption ==
  /\ None \notin Requests \cup Transaction \cup {"recover", "rollback"}
  /\ \A q \in Requests : Revision[q] # None
  /\ MaxDeploys \in Nat

VARIABLES
  disk,     \* remote: compose.yaml, compose.devops.json, .env, revision.json
  pending,  \* remote: .devops/pending.json
  up,       \* remote: the deployment whose containers run
  pc,       \* where the deployer is
  req,      \* its request
  snap,     \* its _RemoteSnapshot
  undo,     \* what it undoes: nothing, an old transaction, or its own
  base,     \* the snapshot the undo restores
  todo,     \* the files it has still to write
  deploys,  \* calls of deploy() so far
  last,     \* the deployment deploy() returned for, and how; None after a crash
  prior,    \* history: the files when the deployment began to change them
  torn,     \* history: an undo of the transaction in pending.json broke off
  mixed     \* history: such a transaction was then taken for complete

remoteVars == <<disk, pending, up>>
localVars == <<req, snap, undo, base, todo>>
historyVars == <<prior, torn, mixed>>
deployerVars == <<remoteVars, localVars, pc, deploys, last, historyVars>>

Empty == [f \in {"compose", "override", "env", "revision"} |-> None]
Upload == <<"compose", "override", "env">>
Restore == <<"compose", "override", "env", "revision">>

\* What is left to write of an upload and of a restoration.
UploadTodo == {Upload, <<"override", "env">>, <<"env">>}
RestoreTodo == {Restore, <<"override", "env", "revision">>, <<"env", "revision">>,
                <<"revision">>}

Body == {"upload", "up", "health", "commit"}
Undo == {"down", "restore", "reup", "rehealth", "reclear"}
Location == {"idle", "open", "reopen", "resume", "reconcile", "mark", "clear",
             "resumed"} \cup Body \cup Undo
Answers == {"success", "rolled_back", "failed"}

DeployerTypeOK ==
  /\ disk \in Disk
  /\ pending \in Transaction \cup {None}
  /\ up \in Content
  /\ pc \in Location
  /\ req \in Content
  /\ snap \in Disk
  /\ undo \in {None, "recover", "rollback"}
  /\ base \in Disk
  /\ todo \in UploadTodo \cup RestoreTodo \cup {<<>>}
  /\ deploys \in 0..MaxDeploys
  /\ last \in (Requests \X Answers) \cup {None}
  /\ req = None <=> pc = "idle"
  /\ prior \in Disk
  /\ torn \in BOOLEAN
  /\ mixed \in BOOLEAN
  /\ undo # None <=> pc \in Undo

DeployerInit ==
  /\ disk = Empty
  /\ pending = None
  /\ up = None
  /\ pc = "idle"
  /\ req = None
  /\ snap = Empty
  /\ undo = None
  /\ base = Empty
  /\ todo = <<>>
  /\ deploys = 0
  /\ last = None
  /\ prior = Empty
  /\ torn = FALSE
  /\ mixed = FALSE

Goto(l) == pc' = l /\ UNCHANGED <<localVars, deploys, last, historyVars>>

\* Back to the caller, or to nobody.
Forget ==
  /\ pc' = "idle"
  /\ req' = None
  /\ snap' = Empty
  /\ undo' = None
  /\ base' = Empty
  /\ todo' = <<>>
  /\ UNCHANGED <<deploys, prior>>

\* Without pending.json there is no transaction whose undo could be broken off.
Answer(a) ==
  /\ Forget
  /\ last' = <<req, a>>
  /\ torn' = (torn /\ pending' # None)

Finish(a) == Answer(a) /\ UNCHANGED mixed
Fail == Finish("failed")

\* _is_successful_snapshot
Successful(s) == s.compose # None /\ s.override # None /\ s.revision # None

-----------------------------------------------------------------------------
(* From the connection to the decision.                                    *)

Begin(q) ==
  /\ pc = "idle"
  /\ deploys < MaxDeploys
  /\ req' = q
  /\ pc' = "open"
  /\ deploys' = deploys + 1
  /\ last' = None
  /\ prior' = Empty
  /\ UNCHANGED <<remoteVars, snap, undo, base, todo, torn, mixed>>

\* The undo of a transaction that started from s, for w.
StartUndo(w, s) ==
  /\ undo' = w
  /\ base' = s
  /\ todo' = Restore
  /\ pc' = IF \/ Successful(s)
              \/ w = "recover" /\ (disk.compose = None \/ disk.override = None)
           THEN "restore" ELSE "down"
  /\ UNCHANGED <<req, deploys, last, historyVars>>

\* _preflight, _snapshot and _read_pending_transaction only read.
Open ==
  /\ pc = "open"
  /\ UNCHANGED remoteVars
  /\ \/ Fail
     \/ /\ snap' = disk
        /\ IF pending # None /\ Revision[pending.target] # Revision[req]
           THEN StartUndo("recover", pending.snapshot)
           ELSE /\ pc' = IF pending = None THEN "reconcile" ELSE "resume"
                /\ UNCHANGED <<req, undo, base, todo, deploys, last, historyVars>>

\* _reconcile's test: the containers of this revision are running.
Running ==
  /\ snap.compose # None
  /\ snap.override # None
  /\ up # None
  /\ Revision[up] = Revision[req]

\* write_file_atomic, or the removal of a file: nobody sees half of one.
WriteFile(f, content) == disk' = [disk EXCEPT ![f] = content] /\ UNCHANGED <<pending, up>>

WriteRevision == WriteFile("revision", req)

\* A transaction of the same revision was interrupted: it is completed if its
\* containers are healthy, and undone if they are not.
Resume ==
  /\ pc = "resume"
  /\ \/ StartUndo("recover", pending.snapshot) /\ UNCHANGED <<remoteVars, snap>>
     \/ UNCHANGED remoteVars /\ Fail
     \/ Running /\ WriteRevision /\ Goto("resumed")
     \/ Running /\ WriteRevision /\ Fail

\* Broken: the snapshot of the interrupted transaction is kept.
ReopenStale ==
  /\ pc = "reopen"
  /\ Goto("reconcile")
  /\ UNCHANGED remoteVars

\* The snapshot is taken again once a transaction has been undone.
Reopen ==
  /\ pc = "reopen"
  /\ UNCHANGED remoteVars
  /\ \/ Fail
     \/ /\ snap' = disk
        /\ pc' = "reconcile"
        /\ UNCHANGED <<req, undo, base, todo, deploys, last, historyVars>>

\* A revision that is already running is not deployed again; one that runs but
\* is not healthy is a failure.
Reconcile ==
  /\ pc = "reconcile"
  /\ \/ UNCHANGED remoteVars /\ Goto("mark")
     \/ UNCHANGED remoteVars /\ Fail
     \/ Running /\ WriteRevision /\ Finish("success")
     \/ Running /\ WriteRevision /\ Fail

-----------------------------------------------------------------------------
(* The transaction.                                                        *)

\* Broken: the transaction starts without its undo log.
MarkSilently ==
  /\ pc = "mark"
  /\ pc' = "upload"
  /\ todo' = Upload
  /\ UNCHANGED <<remoteVars, req, snap, undo, base, deploys, last, historyVars>>

\* _write_pending_transaction comes before the first change of the server.
Mark ==
  /\ pc = "mark"
  /\ UNCHANGED <<disk, up>>
  /\ \/ /\ pending' = [target |-> req, snapshot |-> snap]
        /\ pc' = "upload"
        /\ todo' = Upload
        /\ prior' = disk
        /\ UNCHANGED <<req, snap, undo, base, deploys, last, torn, mixed>>
     \/ pending' = [target |-> req, snapshot |-> snap] /\ Fail
     \/ UNCHANGED pending /\ Fail

\* The body of the try: one command, and the next location.
UploadFile ==
  /\ pc = "upload"
  /\ WriteFile(Head(todo), req)
  /\ todo' = Tail(todo)
  /\ pc' = IF Len(todo) = 1 THEN "up" ELSE "upload"
  /\ UNCHANGED <<req, snap, undo, base, deploys, last, historyVars>>

ComposeUp ==
  /\ pc = "up"
  /\ up' = disk.override
  /\ Goto("health")
  /\ UNCHANGED <<disk, pending>>

Health ==
  /\ pc = "health"
  /\ Goto("commit")
  /\ UNCHANGED remoteVars

Commit ==
  /\ pc = "commit"
  /\ WriteRevision
  /\ Goto("clear")

\* A command of the body failed, timed out or was cancelled: what it had done
\* by then is undone, from the snapshot in memory.  (An upload that failed after
\* its effect is the failure of the next command before its own.)  No caller
\* turns rollback_on_failure off, so this always happens.
BodyFails ==
  /\ pc \in Body
  /\ \/ UNCHANGED remoteVars
     \/ pc = "up" /\ up' \in {None, disk.override} /\ UNCHANGED <<disk, pending>>
     \/ pc = "commit" /\ WriteRevision
  /\ UNCHANGED snap
  /\ StartUndo("rollback", snap)

\* _clear_pending_transaction, outside of the try: a failure to remove the file
\* is reported although the deployment is complete.  It is not complete when the
\* undo of that transaction had begun: some of its files are the old ones.
Clear ==
  /\ pc \in {"clear", "resumed"}
  /\ UNCHANGED <<disk, up>>
  /\ \/ pending' = None /\ Answer("success")
     \/ pending' \in {pending, None} /\ Answer("failed")
  /\ mixed' = IF pending' # None THEN mixed
              ELSE pc = "resumed" /\ (mixed \/ torn)

-----------------------------------------------------------------------------
(* _recover_pending_transaction and _rollback_failed_transaction.          *)

\* compose down reads the files it is given; a rollback gives it all three,
\* a recovery those that are there.
CanDown ==
  undo = "rollback" => disk.compose # None /\ disk.override # None /\ disk.env # None

ComposeDown ==
  /\ pc = "down"
  /\ CanDown
  /\ up' = None
  /\ Goto("restore")
  /\ UNCHANGED <<disk, pending>>

\* _restore writes or removes the four files one after the other.
RestoreFile ==
  /\ pc = "restore"
  /\ WriteFile(Head(todo), base[Head(todo)])
  /\ todo' = Tail(todo)
  /\ pc' = IF Len(todo) > 1 THEN pc
           ELSE IF Successful(base) THEN "reup" ELSE "reclear"
  /\ UNCHANGED <<req, snap, undo, base, deploys, last, historyVars>>

ComposeUpAgain ==
  /\ pc = "reup"
  /\ up' = disk.override
  /\ Goto("rehealth")
  /\ UNCHANGED <<disk, pending>>

RestoredHealth ==
  /\ pc = "rehealth"
  /\ Goto("reclear")
  /\ UNCHANGED remoteVars

\* Broken: the recovery is still on when the deployment goes on.
ClearUndoneStays ==
  /\ pc = "reclear"
  /\ pending' = None
  /\ UNCHANGED <<disk, up>>
  /\ IF undo = "recover"
     THEN Goto("reopen")
     ELSE Finish(IF Successful(base) THEN "rolled_back" ELSE "failed")

\* Broken: a first deployment that failed is said to be rolled back.
ClearUndoneHides ==
  /\ pc = "reclear"
  /\ pending' = None
  /\ UNCHANGED <<disk, up>>
  /\ IF undo = "recover"
     THEN /\ pc' = "reopen"
          /\ undo' = None
          /\ torn' = FALSE
          /\ UNCHANGED <<req, snap, base, todo, deploys, last, prior, mixed>>
     ELSE Finish("rolled_back")

\* The undo is over: a recovery goes on with the deployment, a rollback tells
\* whether there was a revision to go back to.
ClearUndone ==
  /\ pc = "reclear"
  /\ pending' = None
  /\ UNCHANGED <<disk, up>>
  /\ IF undo = "recover"
     THEN /\ pc' = "reopen"
          /\ undo' = None
          /\ torn' = FALSE
          /\ UNCHANGED <<req, snap, base, todo, deploys, last, prior, mixed>>
     ELSE Finish(IF Successful(base) THEN "rolled_back" ELSE "failed")

\* An undo that fails leaves pending.json, if that was not what it removed.
UndoFails ==
  /\ pc \in Undo
  /\ \/ UNCHANGED remoteVars
     \/ pc = "down" /\ CanDown /\ up' = None /\ UNCHANGED <<disk, pending>>
     \/ pc = "restore" /\ WriteFile(Head(todo), base[Head(todo)])
     \/ pc = "reup" /\ up' \in {None, disk.override} /\ UNCHANGED <<disk, pending>>
     \/ pc = "reclear" /\ pending' = None /\ UNCHANGED <<disk, up>>
  /\ Forget
  /\ last' = <<req, "failed">>
  /\ torn' = (pending' # None)
  /\ UNCHANGED mixed

-----------------------------------------------------------------------------
\* The Runner dies; nothing of the deployer is left but what is on the server.
Crash ==
  /\ pc # "idle"
  /\ Forget
  /\ last' = None
  /\ torn' = (torn \/ pc \in Undo)
  /\ UNCHANGED <<remoteVars, mixed>>

DeployerNext ==
  \/ \E q \in Requests : Begin(q)
  \/ Open \/ Resume \/ Reopen \/ Reconcile
  \/ Mark \/ UploadFile \/ ComposeUp \/ Health \/ Commit \/ BodyFails \/ Clear
  \/ ComposeDown \/ RestoreFile \/ ComposeUpAgain \/ RestoredHealth
  \/ ClearUndone \/ UndoFails
  \/ Crash

DeployerSpec == DeployerInit /\ [][DeployerNext]_deployerVars

-----------------------------------------------------------------------------
(* Properties.                                                             *)

RevisionOf(c) == IF c = None THEN None ELSE Revision[c]

\* The files of one installation, or no files.
Whole(d) == \A f, g \in DOMAIN d : RevisionOf(d[f]) = RevisionOf(d[g])

\* deploy.py:412: pending.json tells that the server is in the middle of a
\* transaction.  Without it the files are those of one revision, and that is
\* what runs.  The code takes a transaction of the same revision for complete
\* when its containers are healthy, also one it had begun to undo.
PendingTells ==
  pending = None => Whole(disk) /\ RevisionOf(up) = RevisionOf(disk.override)

\* However deployments, failures, undos and crashes follow each other, that is
\* the only way: unless a transaction whose undo broke off was taken for
\* complete, and no deployment has ended well since, pending.json tells.
QuietIsWhole == mixed \/ PendingTells

\* What an undo would bring back is one whole installation, with the same
\* exception, however many transactions were interrupted before this one.
UndoIsWhole == mixed \/ (pending # None => Whole(pending.snapshot))

\* What deploy() answers is true of the server.  After a success the
\* deployment's revision runs and is the one revision.json names, and the other
\* files are its own too, but for a broken undo taken for complete.  After a
\* rollback the files are exactly those from before the deployment, and what
\* they say is what runs.  Neither leaves a transaction behind.
AnswerIsTrue ==
  last # None /\ last[2] \in {"success", "rolled_back"} =>
    /\ pending = None
    /\ up # None
    /\ IF last[2] = "success"
       THEN /\ RevisionOf(up) = Revision[last[1]]
            /\ RevisionOf(disk.revision) = RevisionOf(up)
            /\ mixed \/ Whole(disk)
       ELSE disk = prior /\ up = disk.override
=============================================================================
