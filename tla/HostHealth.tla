------------------------------ MODULE HostHealth ------------------------------
(***************************************************************************)
(* The host-health job (tis/jobs/host_health.py) as the scheduler executes *)
(* it (tis/scheduler.py, execute_job), beside the backup whose age it      *)
(* judges: it reads last_backup_at and the clock, sends the heartbeat only *)
(* when all is well, and stores its last success or its last error.        *)
(* A run takes seconds, a tick is hours: a run ends in the tick it began.  *)
(***************************************************************************)
EXTENDS Backup

CONSTANT FreshTicks  \* twenty-six hours

ASSUME FreshAssumption == FreshTicks \in Nat \ {0}

VARIABLES
  job,    \* where the job is
  backup  \* last_backup_at as the run read it

healthVars == <<job, backup>>
allVars    == <<backupVars, healthVars>>

JobSteps == {"idle", "judging", "beating", "answered", "succeeded", "failed"}

HealthTypeOK == BackupTypeOK /\ job \in JobSteps /\ backup \in Ticks \cup {Never}

HealthInit == BackupInit /\ job = "idle" /\ backup = Never

\* The run goes on; only the judgement needs what it has read.
JobAt(from, to) == job = from /\ job' = to
Forget == backup' = Never

StartHealth == JobAt("idle", "judging") /\ backup' = last_backup_at

\* Planted fault: the age is not looked at, only that there is a backup.
BackupIsFresh_AnyAge == backup # Never

BackupIsFresh == backup # Never /\ 0 <= now - backup /\ now - backup < FreshTicks

\* The disk, the leads, the bookings and the kill switch may forbid it as well;
\* a result that is not healthy counts as a failure.
Judge(othersFine) ==
  /\ job = "judging"
  /\ job' = IF BackupIsFresh /\ othersFine THEN "beating" ELSE "failed"
  /\ Forget

\* The guard lets the request out, or in a dry run returns without it.
SendHeartbeat == JobAt("beating", "answered") /\ UNCHANGED backup
SkipHeartbeat == JobAt("beating", "succeeded") /\ TRUE \in DryModes /\ UNCHANGED backup
Answered      == JobAt("answered", "succeeded") /\ UNCHANGED backup

\* A statement, the guard or the request raises, before or after its effect.
JobRaises ==
  /\ job \in {"judging", "beating", "answered", "succeeded"}
  /\ job' = "failed"
  /\ Forget

\* Storing last_error may raise in turn; the scheduler goes on all the same.
MarkLastRun   == JobAt("succeeded", "idle") /\ UNCHANGED backup
MarkLastError == JobAt("failed", "idle") /\ UNCHANGED backup

SchedulerDies == job # "idle" /\ job' = "idle" /\ Forget

HealthStep ==
  \/ StartHealth \/ SendHeartbeat \/ SkipHeartbeat \/ Answered \/ JobRaises
  \/ MarkLastRun \/ MarkLastError \/ SchedulerDies
  \/ \E othersFine \in BOOLEAN : Judge(othersFine)

HealthNext ==
  \/ HealthStep /\ UNCHANGED backupVars
  \/ ScriptStep /\ UNCHANGED healthVars
  \/ Tick /\ job = "idle" /\ UNCHANGED healthVars

HealthSpec == HealthInit /\ [][HealthNext]_allVars

\* The owner's dead-man switch and the last success on the status page are worth
\* a backup that can be restored: whatever was lost of upload, state and record,
\* and whatever retention has deleted or is deleting, an object of FreshTicks
\* ago, or of the day before that when its upload ran into midnight, is there.
HealthMeansBackup ==
  job \in {"beating", "answered", "succeeded"} =>
    \E d \in bucket : d + 1 >= Day(now - FreshTicks + 1)
==============================================================================
