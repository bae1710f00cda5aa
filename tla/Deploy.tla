-------------------------------- MODULE Deploy --------------------------------
(***************************************************************************)
(* Releases on the host (deploy/deploy.sh, rollback.sh, smoke.sh and       *)
(* lib/torus-common.sh): one operation at a time, under a lock, brings a   *)
(* release up and records it.  Beside it, without that lock, the scheduled *)
(* scripts (backup/backup.sh, restore-test.sh --host-run) use the same     *)
(* decrypted files and remove them when they end.                          *)
(*                                                                         *)
(* Left out: DRY_RUN inside the decrypted files, the tunnel's file (it     *)
(* comes and goes with torus-tis.env), the files of the release download.  *)
(*                                                                         *)
(* A file is edited through a copy beside it (torus-tis.env.XXXXXX), which *)
(* is there exactly while its script is at a step in CopySteps.  A script  *)
(* that ends there leaves the copy, and no removal knows its name.         *)
(***************************************************************************)
CONSTANTS
  Releases,  \* tags
  Scheduled, \* scripts the timers start
  Faults     \* what may go wrong besides smoke: "step", "kill", "overlap"

ASSUME FaultsAssumption == Faults \subseteq {"step", "kill", "overlap"}

VARIABLES
  current,    \* torus-current.env: at most one release
  previous,   \* torus-previous.env: at most one release
  running,    \* the releases of the containers that are up
  tis_env,    \* whether torus-tis.env is on the tmpfs
  backup_env, \* torus-backup.env: none, full, or sanitized for the containers
  stray,      \* whether a copy of a decrypted file is left that nobody will move
  op,         \* the operation: where it is, of which kind, for which release,
              \* and whether it removes the files when it ends
  job,        \* where each scheduled script is
  \* History, read by no action:
  smoked,     \* releases that have passed smoke
  doubt,      \* containers were touched by an operation that has not succeeded
  untended    \* files may have been left by a script that could not remove them

records    == <<current, previous, smoked>>
named      == <<tis_env, backup_env>>
secrets    == <<named, stray>>
deployVars == <<records, running, secrets, op, job, doubt, untended>>

OpSteps == {"idle", "checkout", "decrypt", "decrypt_backup", "set_dry_run", "put_dry_run", "find",
            "read", "verify", "sanitize", "put_sanitized", "save", "pull", "up", "smoke", "record"}
JobSteps == {"idle", "decrypt", "decrypt_backup", "load", "sanitize", "put_sanitized", "run"}
CopySteps == {"put_dry_run", "put_sanitized"}
Kinds    == {"deploy", "rollback", "automatic"}

NoOp == [step |-> "idle", kind |-> "deploy", tag |-> {}, trap |-> TRUE]

AtMostOne == {{}} \cup {{r} : r \in Releases}

DeployTypeOK ==
  /\ current \in AtMostOne /\ previous \in AtMostOne
  /\ running \in SUBSET Releases
  /\ tis_env \in BOOLEAN
  /\ backup_env \in {"none", "full", "sanitized"} /\ stray \in BOOLEAN
  /\ op \in [step : OpSteps, kind : Kinds, tag : AtMostOne, trap : BOOLEAN]
  /\ job \in [Scheduled -> JobSteps]
  /\ smoked \in SUBSET Releases
  /\ doubt \in {"no", "deploy", "rollback"}
  /\ untended \in BOOLEAN

DeployInit ==
  /\ current = {} /\ previous = {} /\ running = {} /\ smoked = {}
  /\ tis_env = FALSE /\ backup_env = "none" /\ stray = FALSE
  /\ op = NoOp
  /\ job = [j \in Scheduled |-> "idle"]
  /\ doubt = "no" /\ untended = FALSE

At(step) == op.step = step
Goto(step) == op' = [op EXCEPT !.step = step]

Alone == At("idle") /\ \A j \in Scheduled : job[j] = "idle"

\* torus_cleanup_secrets: the files by their names, and no copy of them.
Remove == tis_env' = FALSE /\ backup_env' = "none"

\* A trap runs; nobody else that lacks one is left to write again.
Tended == untended' = (untended /\ ~At("idle") /\ ~op.trap)

\* A script ends where it is: a copy it has begun and not moved stays.
Leaves(step) == stray' = (stray \/ step \in CopySteps)

\* The operation ends, in whatever way its EXIT trap still runs.
EndOp ==
  /\ op' = NoOp
  /\ Leaves(op.step)
  /\ IF op.trap THEN Remove /\ untended' = FALSE ELSE UNCHANGED <<named, untended>>

------------------------------------------------------------------------------
(* A deploy or a rollback.                                                   *)

StartDeploy(release) ==
  /\ At("idle")
  /\ op' = [step |-> "checkout", kind |-> "deploy", tag |-> {release}, trap |-> TRUE]
  /\ UNCHANGED <<records, running, secrets, job, doubt, untended>>

StartRollback ==
  /\ At("idle")
  /\ op' = [step |-> "find", kind |-> "rollback", tag |-> {}, trap |-> FALSE]
  /\ UNCHANGED <<records, running, secrets, job, doubt, untended>>

\* The files are decrypted, and trapped, only where torus-tis.env is missing.
\* An automatic rollback runs inside the deploy, whose trap covers it.
Find ==
  /\ At("find")
  /\ previous # {}
  /\ op' = [op EXCEPT !.tag = previous,
                      !.trap = @ \/ ~tis_env,
                      !.step = IF tis_env THEN "read" ELSE "decrypt"]
  /\ untended' = (untended \/ (tis_env /\ ~op.trap))
  /\ UNCHANGED <<records, running, secrets, job, doubt>>

Decrypt ==
  /\ At("decrypt")
  /\ tis_env' = TRUE
  /\ Goto("decrypt_backup")
  /\ UNCHANGED <<records, running, backup_env, stray, job, doubt, untended>>

DecryptBackup ==
  /\ At("decrypt_backup")
  /\ backup_env' = "full"
  /\ Goto(IF op.kind = "deploy" THEN "set_dry_run" ELSE "read")
  /\ UNCHANGED <<records, running, tis_env, stray, job, doubt, untended>>

\* Steps that neither write nor remove a file.
Proceeds(from, to) == At(from) /\ Goto(to)

\* mktemp and awk: from here on the copy is on the tmpfs.
Copy ==
  /\ \/ tis_env /\ Proceeds("set_dry_run", "put_dry_run")
     \/ backup_env # "none" /\ Proceeds("sanitize", "put_sanitized")
  /\ UNCHANGED <<records, running, secrets, job, doubt, untended>>

\* The copy is moved over the file, which may be gone by then.
PutDryRun ==
  /\ At("put_dry_run")
  /\ tis_env' = TRUE
  /\ Goto("read")
  /\ UNCHANGED <<records, running, backup_env, stray, job, doubt, untended>>

PutSanitized ==
  /\ At("put_sanitized")
  /\ backup_env' = "sanitized"
  /\ Goto(IF op.kind = "deploy" THEN "save" ELSE "checkout")
  /\ UNCHANGED <<records, running, tis_env, stray, job, doubt, untended>>

\* Steps that read and check but change nothing another script can see.  The
\* values read are GHCR_OWNER and, in a deploy, the release token and repository
\* and later the digest of the tunnel: all of them gone from a sanitized file.
ReadOnly ==
  /\ \/ op.kind = "deploy" /\ Proceeds("checkout", "decrypt")
     \/ op.kind # "deploy" /\ Proceeds("checkout", "pull")
     \/ backup_env = "full" /\ Proceeds("read", IF op.kind = "deploy" THEN "verify" ELSE "sanitize")
     \/ backup_env = "full" /\ Proceeds("verify", "sanitize")
     \/ tis_env /\ backup_env # "none" /\ Proceeds("pull", "up")
  /\ UNCHANGED <<records, running, secrets, job, doubt, untended>>

\* Planted fault: what was recorded before the last deploy is kept.
Save_Once ==
  /\ At("save")
  /\ previous' = IF current = {} \/ previous # {} THEN previous ELSE current
  /\ Goto("pull")
  /\ UNCHANGED <<current, smoked, running, secrets, job, doubt, untended>>

Save ==
  /\ At("save")
  /\ previous' = IF current = {} THEN previous ELSE current
  /\ Goto("pull")
  /\ UNCHANGED <<current, smoked, running, secrets, job, doubt, untended>>

Touched == doubt' = IF op.kind = "rollback" THEN "rollback" ELSE "deploy"

\* Some containers are replaced, others not yet.
UpPartly ==
  /\ At("up") /\ tis_env
  /\ running' = running \cup op.tag
  /\ Touched
  /\ UNCHANGED <<records, secrets, op, job, untended>>

Up ==
  /\ At("up") /\ tis_env
  /\ running' = op.tag
  /\ Touched
  /\ Goto("smoke")
  /\ UNCHANGED <<records, secrets, job, untended>>

SmokePasses ==
  /\ At("smoke")
  /\ smoked' = smoked \cup op.tag
  /\ Goto("record")
  /\ UNCHANGED <<current, previous, running, secrets, job, doubt, untended>>

\* Planted fault: the release is recorded although smoke failed.
SmokeFails_Recorded ==
  /\ At("smoke")
  /\ current' = op.tag
  /\ IF op.kind = "deploy"
     THEN op' = [op EXCEPT !.step = "find", !.kind = "automatic"] /\ UNCHANGED <<secrets, untended>>
     ELSE EndOp
  /\ UNCHANGED <<previous, smoked, running, job, doubt>>

SmokeFails ==
  /\ At("smoke")
  /\ IF op.kind = "deploy"
     THEN op' = [op EXCEPT !.step = "find", !.kind = "automatic"] /\ UNCHANGED <<secrets, untended>>
     ELSE EndOp
  /\ UNCHANGED <<records, running, job, doubt>>

\* Planted fault: the new release is added to the file.
Record_Appends ==
  /\ At("record")
  /\ current' = current \cup op.tag
  /\ doubt' = "no"
  /\ EndOp
  /\ UNCHANGED <<previous, smoked, running, job>>

\* Planted fault: a rollback leaves the record as it was.
Record_DeployOnly ==
  /\ At("record")
  /\ current' = IF op.kind = "deploy" THEN op.tag ELSE current
  /\ doubt' = "no"
  /\ EndOp
  /\ UNCHANGED <<previous, smoked, running, job>>

\* The state file; the deploy that needed a rollback fails all the same.
Record ==
  /\ At("record")
  /\ current' = op.tag
  /\ doubt' = "no"
  /\ EndOp
  /\ UNCHANGED <<previous, smoked, running, job>>

\* The step cannot be done, or fails for a reason outside the model.
Stuck ==
  \/ At("find") /\ previous = {}
  \/ At("set_dry_run") /\ ~tis_env
  \/ op.step \in {"read", "verify"} /\ backup_env # "full"
  \/ At("sanitize") /\ backup_env = "none"
  \/ At("pull") /\ ~(tis_env /\ backup_env # "none")
  \/ At("up") /\ ~tis_env

Fail ==
  /\ ~At("idle")
  /\ Stuck \/ "step" \in Faults
  /\ EndOp
  /\ UNCHANGED <<records, running, job, doubt>>

------------------------------------------------------------------------------
(* The scheduled scripts.                                                    *)

JobAt(j, from, to) == job[j] = from /\ job' = [job EXCEPT ![j] = to]

StartJob(j) ==
  /\ "overlap" \in Faults
  /\ JobAt(j, "idle", "decrypt")
  /\ UNCHANGED <<records, running, secrets, op, doubt, untended>>

JobDecrypts(j) ==
  /\ \/ JobAt(j, "decrypt", "decrypt_backup") /\ tis_env' = TRUE /\ UNCHANGED backup_env
     \/ JobAt(j, "decrypt_backup", "load") /\ backup_env' = "full" /\ UNCHANGED tis_env
     \/ JobAt(j, "put_sanitized", "run") /\ backup_env' = "sanitized" /\ UNCHANGED tis_env
  /\ UNCHANGED <<records, running, stray, op, doubt, untended>>

\* The release and GHCR_OWNER; then the copy, as in Copy.
JobReads(j) ==
  /\ \/ current # {} /\ backup_env = "full" /\ JobAt(j, "load", "sanitize")
     \/ backup_env # "none" /\ JobAt(j, "sanitize", "put_sanitized")
  /\ UNCHANGED <<records, running, secrets, op, doubt, untended>>

\* Planted fault: the scheduled scripts do not trap.
EndJob_Untrapped(j) ==
  /\ job[j] # "idle"
  /\ job' = [job EXCEPT ![j] = "idle"]
  /\ Leaves(job[j])
  /\ UNCHANGED <<records, running, named, op, doubt, untended>>

\* After the containerised run, or because a step failed.
EndJob(j) ==
  /\ job[j] # "idle"
  /\ job' = [job EXCEPT ![j] = "idle"]
  /\ Remove /\ Tended /\ Leaves(job[j])
  /\ UNCHANGED <<records, running, op, doubt>>

------------------------------------------------------------------------------
(* Signals and power.                                                        *)

\* SIGTERM to a shell alone: its trap runs, and the script goes on.
Terminated ==
  /\ "kill" \in Faults
  /\ \/ ~At("idle") /\ op.trap
     \/ \E j \in Scheduled : job[j] # "idle"
  /\ Remove
  /\ UNCHANGED <<records, running, stray, op, job, doubt, untended>>

\* SIGKILL: no trap runs, and the lock is free.
KillOp ==
  /\ "kill" \in Faults
  /\ ~At("idle")
  /\ op' = NoOp
  /\ untended' = TRUE
  /\ Leaves(op.step)
  /\ UNCHANGED <<records, running, named, job, doubt>>

KillJob(j) ==
  /\ "kill" \in Faults
  /\ job[j] # "idle"
  /\ job' = [job EXCEPT ![j] = "idle"]
  /\ untended' = TRUE
  /\ Leaves(job[j])
  /\ UNCHANGED <<records, running, named, op, doubt>>

\* The tmpfs is empty afterwards; Docker restarts what was up.
PowerLoss ==
  /\ "kill" \in Faults
  /\ op' = NoOp
  /\ job' = [j \in Scheduled |-> "idle"]
  /\ Remove /\ stray' = FALSE
  /\ untended' = FALSE
  /\ UNCHANGED <<records, running, doubt>>

------------------------------------------------------------------------------
OpStep ==
  \/ \E release \in Releases : StartDeploy(release)
  \/ StartRollback \/ Find \/ Decrypt \/ DecryptBackup \/ Copy \/ PutDryRun \/ PutSanitized
  \/ ReadOnly \/ Save \/ UpPartly \/ Up \/ SmokePasses \/ SmokeFails \/ Record \/ Fail

JobStep == \E j \in Scheduled : StartJob(j) \/ JobDecrypts(j) \/ JobReads(j) \/ EndJob(j)

Outside == Terminated \/ KillOp \/ PowerLoss \/ \E j \in Scheduled : KillJob(j)

DeployNext == OpStep \/ JobStep \/ Outside

DeploySpec == DeployInit /\ [][DeployNext]_deployVars

\* What is recorded can be trusted: the release a rollback restores and the one
\* the scheduled scripts run have passed smoke, whatever failed or died since.
RecordedPassedSmoke == current \cup previous \subseteq smoked

\* The record is what runs: when no operation is under way and none has touched
\* the containers without succeeding, exactly the recorded release is up.
RunningIsRecorded == At("idle") /\ doubt = "no" => running = current

\* A deploy that went wrong after touching the containers, and every rollback
\* after it that went wrong, leave as the previous release the one recorded when
\* the deploy began: it is what the next rollback will aim for.  Whether that
\* rollback gets there is another matter: FailedDeployRestores.
DeployCanBeUndone == doubt = "deploy" => previous = current \/ current = {}

\* The decrypted files themselves, by their own names, are on the host only while
\* a script runs, however deploys and scheduled scripts overlap and are told to
\* stop; only a script that was killed outright, or a rollback that used files
\* it had found, may leave them.  It says nothing of the copies the files are
\* edited through: a script that ends between mktemp and mv leaves its copy
\* (stray), trap or not, against docs/runbooks/backup-restore.md:5-7, and no
\* removal knows its name.
DecryptedFilesAreRemoved == Alone /\ ~untended => ~tis_env /\ backup_env = "none"

\* A deploy that fails, with nothing else going wrong, leaves the release that
\* was recorded running: the rollback is automatic.
FailedDeployRestores == At("idle") /\ current # {} => running = current
==============================================================================
