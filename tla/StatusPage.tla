------------------------------ MODULE StatusPage ------------------------------
(***************************************************************************)
(* The status page (tis/api/status.py): the last success of the            *)
(* host-health job and the time of the last backup, read one after the     *)
(* other by another process while the job and the backup go on.            *)
(***************************************************************************)
EXTENDS HostHealth, Sequences

VARIABLES
  last_run, \* integration_state: tick of the job's last success, or Never
  page      \* what a page has read so far, and how many values that is

pageVars   == <<last_run, page>>
statusVars == <<allVars, pageVars>>

\* Planted fault: the backup is read before the jobs.
PageReads_Swapped == <<"last_backup_at", "last_run">>

PageReads == <<"last_run", "last_backup_at">>

Blank == [read |-> 0, last_run |-> Never, last_backup_at |-> Never]

Shown == page.read = Len(PageReads)

PageTypeOK ==
  /\ HealthTypeOK
  /\ last_run \in Ticks \cup {Never}
  /\ page \in [read : 0..2, last_run : Ticks \cup {Never}, last_backup_at : Ticks \cup {Never}]

PageInit == HealthInit /\ last_run = Never /\ page = Blank

OpenPage == page' = Blank

ReadValue ==
  /\ ~Shown
  /\ page' = IF PageReads[page.read + 1] = "last_run"
             THEN [read |-> page.read + 1, last_run |-> last_run, last_backup_at |-> page.last_backup_at]
             ELSE [read |-> page.read + 1, last_run |-> page.last_run, last_backup_at |-> last_backup_at]

\* The job goes on; a success is stored with the time of storing it, and when
\* that statement is cut short it may have been carried out all the same.
Success == MarkLastRun /\ last_run' = now
SuccessInDoubt ==
  /\ job = "succeeded"
  /\ JobRaises \/ SchedulerDies
  /\ last_run' \in {last_run, now}
NoSuccess == job # "succeeded" /\ HealthStep /\ UNCHANGED last_run

\* All that matters here of the nightly script: it uploads and stores the time.
StoreBackup ==
  /\ last_backup_at' = now
  /\ bucket' = bucket \cup {Today}
  /\ taken' = taken \cup {Today}
  /\ UNCHANGED <<now, log, script, deleting>>

StatusNext ==
  \/ (Success \/ SuccessInDoubt \/ NoSuccess) /\ UNCHANGED <<backupVars, page>>
  \/ StoreBackup /\ UNCHANGED <<healthVars, pageVars>>
  \/ Tick /\ job = "idle" /\ UNCHANGED <<healthVars, pageVars>>
  \/ (OpenPage \/ ReadValue) /\ UNCHANGED <<allVars, last_run>>

StatusSpec == PageInit /\ [][StatusNext]_statusVars

\* A page never shows a success of the health job without the backup that
\* justified it: the backup beside it was younger than FreshTicks when the job
\* succeeded, although the two are read at different moments, runs and backups
\* are recorded in between, and a record may be stored by a run that failed.
PageIsCoherent ==
  Shown /\ page.last_run # Never =>
    page.last_backup_at # Never /\ page.last_backup_at > page.last_run - FreshTicks
==============================================================================
