-------------------------------- MODULE Backup --------------------------------
(***************************************************************************)
(* The nightly backup: the script in the backup container (backup.sh) and  *)
(* the three commands of tis/backup.py it calls one after the other, each  *)
(* behind the write guard: upload of the encrypted dump, retention, and    *)
(* the heartbeat.  systemd and flock run one script at a time, so the      *)
(* guard's checks and its claim are one step here; WriteGuard cuts them.   *)
(*                                                                         *)
(* Time is counted in ticks, DayTicks to the day.  Between two steps of    *)
(* the script the clock may tick, also past midnight, and at every step a  *)
(* command may raise, lose a reply or be killed.                           *)
(***************************************************************************)
EXTENDS Retention

CONSTANTS
  DayTicks,    \* ticks of a day
  MaxDeletes,  \* MAX_RETENTION_DELETES
  DryModes,    \* DRY_RUN settings a script may be started with
  MaxTick      \* bound: the last tick of the model

ASSUME BackupAssumption ==
  /\ DayTicks \in Nat \ {0}
  /\ MaxDeletes \in Nat
  /\ DryModes \subseteq BOOLEAN
  /\ MaxTick \in Nat

Ticks  == 0..MaxTick
Never  == -1
Day(t) == t \div DayTicks
Dates  == 0..Day(MaxTick)

Commands == {"upload", "prune", "heartbeat"}
Phases   == {"idle", "calling", "working", "verifying", "noting", "recording"}

VARIABLES
  now,            \* the tick
  bucket,         \* dates of the objects in the R2 bucket
  last_backup_at, \* integration_state: tick, or Never
  log,            \* integration_log: the rows of each command, by date
  script,         \* the script: its date, its DRY_RUN, the command it runs and
                  \* where that command is; idle when no script runs
  deleting,       \* objects the retention pass has yet to delete
  \* History, read by no action:
  taken           \* every date whose object was ever in the bucket

backupVars == <<now, bucket, last_backup_at, log, script, deleting, taken>>

Today == Day(now)

Script == [phase : Phases, command : Commands, run_date : Dates, dry_run : BOOLEAN]
Idle   == [phase |-> "idle", command |-> "upload", run_date |-> 0, dry_run |-> FALSE]

Running == script.phase # "idle"

\* An open row may be claimed; recorded is the day of an ok row's update.
Row  == [status : {"open", "pending", "ok"}, recorded : Dates]
Open == [status |-> "open", recorded |-> 0]

BackupTypeOK ==
  /\ now \in Ticks
  /\ bucket \in SUBSET Dates
  /\ last_backup_at \in Ticks \cup {Never}
  /\ log \in [Commands -> [Dates -> Row]]
  /\ script \in Script
  /\ deleting \in SUBSET Dates
  /\ taken \in SUBSET Dates

BackupInit ==
  /\ now = 0
  /\ bucket = {}
  /\ last_backup_at = Never
  /\ log = [c \in Commands |-> [d \in Dates |-> Open]]
  /\ script = Idle
  /\ deleting = {}
  /\ taken = {}

------------------------------------------------------------------------------
(* The script and the guard around its commands.                             *)

\* The timer, or an operator, starts the script with today's date.  Another date can be
\* set (TORUS_BACKUP_DATE); nothing in the repository sets it, and it is left out.
StartScript(dry) ==
  /\ ~Running
  /\ script' = [phase |-> "calling", command |-> "upload", run_date |-> Today, dry_run |-> dry]
  /\ UNCHANGED <<now, bucket, last_backup_at, log, deleting, taken>>

At(c, where) == script.command = c /\ script.phase = where

Goto(where) == script' = [script EXCEPT !.phase = where]

Writes(row) == log' = [log EXCEPT ![script.command][script.run_date] = row]

\* `set -e`: whatever raises ends the script.
Exit == script' = Idle /\ deleting' = {}

\* The command has returned and the script goes on to the next one.
\* Planted fault: one command too few is known.
After_Misses(c) == IF c = "upload" THEN "prune" ELSE "done"

After(c) == IF c = "upload" THEN "prune" ELSE "heartbeat"

NextCommand ==
  /\ deleting' = {}
  /\ script' = IF script.command = "heartbeat" THEN Idle
               ELSE [script EXCEPT !.phase = "calling", !.command = After(@)]

\* The ok rows of today, whatever date they are for.
SuccessfulToday == {d \in Dates : log[script.command][d] = [status |-> "ok", recorded |-> Today]}

\* The budgets of upload and retention are fixed at one a day; the heartbeats'
\* budget is far out of reach.
BudgetSpent == script.command # "heartbeat" /\ SuccessfulToday # {}

Claimable == log[script.command][script.run_date].status = "open"

\* A refusal (the kill switch may be on at any time, the budget) is recorded
\* over whatever the row says, and raises; a dry run is recorded and returns.
Refuse ==
  /\ script.phase = "calling"
  /\ Writes(Open)
  /\ Exit
  /\ UNCHANGED <<now, bucket, last_backup_at, taken>>

SkipDryRun ==
  /\ script.phase = "calling" /\ script.dry_run
  /\ Writes(Open)
  /\ NextCommand
  /\ UNCHANGED <<now, bucket, last_backup_at, taken>>

Claim ==
  /\ script.phase = "calling" /\ ~script.dry_run
  /\ ~BudgetSpent
  /\ Claimable
  /\ Writes([status |-> "pending", recorded |-> 0])
  /\ Goto("working")
  /\ UNCHANGED <<now, bucket, last_backup_at, deleting, taken>>

\* Planted fault: a claim that is refused counts as a finished write.
Duplicate_TakenForDone ==
  /\ script.phase = "calling" /\ ~script.dry_run
  /\ ~BudgetSpent
  /\ ~Claimable
  /\ NextCommand
  /\ UNCHANGED <<now, bucket, last_backup_at, log, taken>>

\* DuplicateWrite: the row is ok, or pending since a command died.
Duplicate ==
  /\ script.phase = "calling" /\ ~script.dry_run
  /\ ~BudgetSpent
  /\ ~Claimable
  /\ Exit
  /\ UNCHANGED <<now, bucket, last_backup_at, log, taken>>

\* The body raised and the guard recorded it.
Raise ==
  /\ script.phase \in {"working", "verifying", "noting"}
  /\ Writes(Open)
  /\ Exit
  /\ UNCHANGED <<now, bucket, last_backup_at, taken>>

\* The container is killed, or a statement does nothing and raises.
Die ==
  /\ Running
  /\ Exit
  /\ UNCHANGED <<now, bucket, last_backup_at, log, taken>>

\* The ok record commits; its reply may be lost.
RecordOk(acknowledged) ==
  /\ script.phase = "recording"
  /\ Writes([status |-> "ok", recorded |-> Today])
  /\ IF acknowledged THEN NextCommand ELSE Exit
  /\ UNCHANGED <<now, bucket, last_backup_at, taken>>

------------------------------------------------------------------------------
(* The bodies of the commands.                                               *)

\* copyto, unless the object is there already.  It may end without an error and
\* without an object, which is what the second look is for.
Upload(stored) ==
  /\ At("upload", "working")
  /\ script.run_date \in bucket => stored
  /\ bucket' = IF stored THEN bucket \cup {script.run_date} ELSE bucket
  /\ taken' = IF stored THEN taken \cup {script.run_date} ELSE taken
  /\ Goto("verifying")
  /\ UNCHANGED <<now, last_backup_at, log, deleting>>

Verify ==
  /\ At("upload", "verifying")
  /\ script.run_date \in bucket
  /\ Goto("noting")
  /\ UNCHANGED <<now, bucket, last_backup_at, log, deleting, taken>>

\* last_backup_at is stored inside the guarded call; a lost reply makes it raise
\* with the value in place.
NoteBackup(acknowledged) ==
  /\ At("upload", "noting")
  /\ last_backup_at' = now
  /\ IF acknowledged
     THEN Goto("recording") /\ UNCHANGED <<log, deleting>>
     ELSE Writes(Open) /\ Exit
  /\ UNCHANGED <<now, bucket, taken>>

\* Planted fault: the weekly slots are forgotten.
List_DailyOnly ==
  /\ At("prune", "working")
  /\ deleting' = OldestOf(Rest(bucket), MaxDeletes)
  /\ Goto("verifying")
  /\ UNCHANGED <<now, bucket, last_backup_at, log, taken>>

List ==
  /\ At("prune", "working")
  /\ deleting' = OldestOf(Surplus(bucket), MaxDeletes)
  /\ Goto("verifying")
  /\ UNCHANGED <<now, bucket, last_backup_at, log, taken>>

\* One object at a time, the oldest first; what raises half way leaves the rest.
Delete ==
  /\ At("prune", "verifying")
  /\ \E d \in OldestOf(deleting, 1) :
       bucket' = bucket \ {d} /\ deleting' = deleting \ {d}
  /\ UNCHANGED <<now, last_backup_at, log, script, taken>>

AllDeleted ==
  /\ At("prune", "verifying")
  /\ deleting = {}
  /\ Goto("recording")
  /\ UNCHANGED <<now, bucket, last_backup_at, log, deleting, taken>>

\* The request arrives, and the command hears of it or not: Raise may follow.
Beat ==
  /\ At("heartbeat", "working")
  /\ Goto("verifying")
  /\ UNCHANGED <<now, bucket, last_backup_at, log, deleting, taken>>

BeatAnswered ==
  /\ At("heartbeat", "verifying")
  /\ Goto("recording")
  /\ UNCHANGED <<now, bucket, last_backup_at, log, deleting, taken>>

------------------------------------------------------------------------------

ScriptStep ==
  \/ \E dry \in DryModes : StartScript(dry)
  \/ Refuse \/ SkipDryRun \/ Claim \/ Duplicate \/ Raise \/ Die
  \/ \E acknowledged \in BOOLEAN : RecordOk(acknowledged) \/ NoteBackup(acknowledged)
  \/ \E stored \in BOOLEAN : Upload(stored)
  \/ Verify \/ List \/ Delete \/ AllDeleted \/ Beat \/ BeatAnswered

\* A script may see one midnight, not two.  Rows no script can name again are
\* forgotten, which bounds the model.
Tick ==
  /\ now < MaxTick
  /\ Running => Day(now + 1) <= script.run_date + 1
  /\ now' = now + 1
  /\ LET oldest == IF Running THEN script.run_date ELSE Day(now + 1) IN
     log' = [c \in Commands |-> [d \in Dates |-> IF d < oldest THEN Open ELSE log[c][d]]]
  /\ UNCHANGED <<bucket, last_backup_at, script, deleting, taken>>

BackupNext == ScriptStep \/ Tick

BackupSpec == BackupInit /\ [][BackupNext]_backupVars

------------------------------------------------------------------------------
(* What the backup gives its owner.                                          *)

\* "7 daily/4 weekly": whatever was interrupted, refused or run again, and
\* however the surplus was deleted, every backup the rule would keep of all
\* that was ever taken is still in the bucket.
RestorePoints == Keep(taken) \subseteq bucket

\* Why: a pass works on a surplus of the bucket, and nothing is taken meanwhile.
SurplusOnly ==
  /\ Keep(taken) \subseteq bucket
  /\ bucket \subseteq taken
  /\ deleting \cap Keep(taken) = {}
  /\ ~(Running /\ script.command = "prune") => deleting = {}

\* The heartbeat, the ok row and last_backup_at each speak for an object: the
\* heartbeat for one of its date, the others for one at most a midnight old, and
\* an ok row never without last_backup_at.
ReportsAreTrue ==
  /\ At("heartbeat", "working") => script.run_date \in bucket
  /\ \A d \in Dates : log["upload"][d].status = "ok" => d \in taken /\ last_backup_at >= d * DayTicks
  /\ last_backup_at # Never => \E d \in bucket : d + 1 >= Day(last_backup_at)
==============================================================================
