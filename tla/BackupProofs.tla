------------------------------ MODULE BackupProofs ------------------------------
(***************************************************************************)
(* The nightly backup for any numbers of days and weeks kept, any budget   *)
(* of deletions and any calendar: the retention rule never costs a restore *)
(* point, and what the script reports is in the bucket.                    *)
(***************************************************************************)
EXTENDS Backup, FiniteSetTheorems, TLAPS

------------------------------------------------------------------------------
(* The rule.                                                                 *)

\* What is among the newest of a set is among the newest of every part of it.
LEMMA NewestOfPart ==
  ASSUME NEW S, IsFiniteSet(S), NEW A \in SUBSET S, NEW n \in Nat, NEW d \in A, d \in Newest(S, n)
  PROVE  d \in Newest(A, n)
<1> DEFINE above(X) == {e \in X : e > d}
<1>1. IsFiniteSet(above(S))
  <2>1. above(S) \in SUBSET S
    OBVIOUS
  <2> QED
    BY <2>1, FS_Subset
<1>2. above(A) \in SUBSET above(S)
  OBVIOUS
<1>3. IsFiniteSet(above(A)) /\ Cardinality(above(A)) <= Cardinality(above(S))
  BY <1>1, <1>2, FS_Subset
<1>4. Cardinality(above(A)) \in Nat /\ Cardinality(above(S)) \in Nat
  BY <1>1, <1>3, FS_CardinalityType
<1>5. Cardinality(above(S)) < n
  BY DEF Newest
<1>6. Cardinality(above(A)) < n
  BY <1>3, <1>4, <1>5
<1> QED
  BY <1>6 DEF Newest

\* A finite set of dates has finitely many weeks.
LEMMA WeeksFinite ==
  ASSUME NEW S, IsFiniteSet(S)
  PROVE  IsFiniteSet(Weeks(S))
<1> DEFINE f == [d \in S |-> Week(d)]
<1>1. f \in Surjection(S, Weeks(S))
  BY DEF Surjection, Weeks
<1> QED
  BY <1>1, FS_Surjection

\* The rule keeps of a part whatever it keeps of the whole and the part has.
LEMMA KeepOfPart ==
  ASSUME NEW S, IsFiniteSet(S), NEW A \in SUBSET S, NEW d \in A, d \in Keep(S)
  PROVE  d \in Keep(A)
<1> USE RetentionAssumption
<1>1. \A e \in A : e \in Newest(S, Daily) => e \in Newest(A, Daily)
  BY NewestOfPart
<1>2. Rest(A) \subseteq Rest(S)
  BY <1>1 DEF Rest
<1>3. CASE d \in Newest(A, Daily)
  BY <1>3 DEF Keep
<1>4. CASE d \notin Newest(A, Daily)
  <2>1. d \in Rest(A)
    BY <1>4 DEF Rest
  <2>2. d \in WeeklyKept(S)
    BY <1>1, <1>4 DEF Keep
  <2>3. d \in LastOfWeek(Rest(A))
    BY <1>2, <2>1, <2>2 DEF WeeklyKept, LastOfWeek
  <2>4. Week(d) \in Weeks(Rest(A)) /\ Weeks(Rest(A)) \in SUBSET Weeks(Rest(S))
    BY <1>2, <2>1 DEF Weeks
  <2>5. IsFiniteSet(Weeks(Rest(S)))
    <3>1. Rest(S) \in SUBSET S
      BY DEF Rest
    <3>2. IsFiniteSet(Rest(S))
      BY <3>1, FS_Subset
    <3> QED
      BY <3>2, WeeksFinite
  <2>6. Week(d) \in Newest(Weeks(Rest(S)), Weekly)
    BY <2>2 DEF WeeklyKept
  <2>7. Week(d) \in Newest(Weeks(Rest(A)), Weekly)
    BY <2>4, <2>5, <2>6, NewestOfPart
  <2> QED
    BY <2>3, <2>7 DEF Keep, WeeklyKept
<1> QED
  BY <1>3, <1>4

------------------------------------------------------------------------------
(* Types.                                                                    *)

LEMMA DivTimes ==
  ASSUME NEW t \in Nat, NEW k \in Nat \ {0}, NEW d \in Nat, d <= t \div k
  PROVE  d * k <= t
  OBVIOUS

LEMMA DivMonotone ==
  ASSUME NEW s \in Nat, NEW t \in Nat, s <= t, NEW k \in Nat \ {0}
  PROVE  s \div k \in Nat /\ t \div k \in Nat /\ s \div k <= t \div k
<1>1. s \div k \in Int /\ t \div k \in Int
  OBVIOUS
<1>2. s \div k >= 0 /\ t \div k >= 0
  OBVIOUS
<1>3. s \div k <= t \div k
  OBVIOUS
<1> QED
  BY <1>1, <1>2, <1>3

\* Days follow ticks.
LEMMA DayInDates == ASSUME NEW t \in Ticks PROVE Day(t) \in Dates
<1>1. t \in Nat /\ MaxTick \in Nat /\ t <= MaxTick /\ DayTicks \in Nat \ {0}
  BY BackupAssumption DEF Ticks
<1> QED
  BY <1>1, DivMonotone DEF Day, Dates

LEMMA ZeroInDates == 0 \in Dates
<1>1. MaxTick \div DayTicks \in Nat
  BY BackupAssumption, DivMonotone
<1> QED
  BY <1>1 DEF Dates, Day

LEMMA TypeInit == BackupInit => BackupTypeOK
<1> SUFFICES ASSUME BackupInit PROVE BackupTypeOK
  OBVIOUS
<1>1. now \in Ticks
  BY BackupAssumption DEF BackupInit, Ticks
<1>2. 0 \in Dates
  BY ZeroInDates
<1>3. Idle \in Script
  BY <1>2 DEF Idle, Script, Phases, Commands
<1>4. Open \in Row
  BY <1>2 DEF Open, Row
<1>5. log \in [Commands -> [Dates -> Row]]
  BY <1>4 DEF BackupInit
<1> QED
  BY <1>1, <1>3, <1>5 DEF BackupInit, BackupTypeOK

\* What the steps of a script are made of is well typed.
LEMMA WritesTyped ==
  ASSUME BackupTypeOK, NEW row \in Row, Writes(row)
  PROVE  log' \in [Commands -> [Dates -> Row]]
<1>1. script.command \in Commands /\ script.run_date \in Dates
  BY DEF BackupTypeOK, Script
<1> QED
  BY <1>1 DEF Writes, BackupTypeOK

LEMMA OpenTyped ==
  ASSUME BackupTypeOK
  PROVE  Open \in Row /\ Idle \in Script
<1>1. 0 \in Dates
  BY ZeroInDates
<1> QED
  BY <1>1 DEF Open, Row, Idle, Script, Phases, Commands

LEMMA ScriptTyped ==
  ASSUME BackupTypeOK,
         \/ Exit \/ NextCommand \/ \E where \in Phases : Goto(where)
  PROVE  script' \in Script
<1>1. CASE Exit
  BY <1>1, OpenTyped DEF Exit
<1>2. CASE NextCommand
  BY <1>2, OpenTyped DEF NextCommand, After, BackupTypeOK, Script, Phases, Commands
<1>3. CASE \E where \in Phases : Goto(where)
  BY <1>3 DEF Goto, BackupTypeOK, Script
<1> QED
  BY <1>1, <1>2, <1>3

LEMMA TypeNext == BackupTypeOK /\ [BackupNext]_backupVars => BackupTypeOK'
<1> SUFFICES ASSUME BackupTypeOK, [BackupNext]_backupVars PROVE BackupTypeOK'
  OBVIOUS
<1>o. Open \in Row /\ Idle \in Script
  BY OpenTyped
<1>d. script.run_date \in Dates /\ Today \in Dates
  BY DayInDates DEF BackupTypeOK, Script, Today
<1>r. [status |-> "pending", recorded |-> 0] \in Row /\ [status |-> "ok", recorded |-> Today] \in Row
  BY <1>d, ZeroInDates DEF Row
<1>e. Exit => deleting' \in SUBSET Dates
  BY DEF Exit
<1>n. NextCommand => deleting' \in SUBSET Dates
  BY DEF NextCommand
<1> USE DEF BackupTypeOK
<1>1. ASSUME NEW dry \in DryModes, StartScript(dry) PROVE BackupTypeOK'
  <2>1. dry \in BOOLEAN
    BY BackupAssumption
  <2>2. script' \in Script
    BY <1>1, <1>d, <2>1 DEF StartScript, Script, Phases, Commands
  <2> QED
    BY <1>1, <2>2 DEF StartScript
<1>2. CASE Refuse
  BY <1>2, <1>o, <1>e, WritesTyped, ScriptTyped DEF Refuse
<1>3. CASE SkipDryRun
  BY <1>3, <1>o, <1>n, WritesTyped, ScriptTyped DEF SkipDryRun
<1>4. CASE Claim
  <2>1. "working" \in Phases
    BY DEF Phases
  <2> QED
    BY <1>4, <1>r, <2>1, WritesTyped, ScriptTyped DEF Claim
<1>5. CASE Duplicate
  BY <1>5, <1>e, ScriptTyped DEF Duplicate
<1>6. CASE Raise
  BY <1>6, <1>o, <1>e, WritesTyped, ScriptTyped DEF Raise
<1>7. CASE Die
  BY <1>7, <1>e, ScriptTyped DEF Die
<1>8. ASSUME NEW acknowledged \in BOOLEAN, RecordOk(acknowledged) PROVE BackupTypeOK'
  <2>1. log' \in [Commands -> [Dates -> Row]]
    BY <1>8, <1>r, WritesTyped DEF RecordOk
  <2>2. script' \in Script /\ deleting' \in SUBSET Dates
    BY <1>8, <1>e, <1>n, ScriptTyped DEF RecordOk
  <2> QED
    BY <1>8, <2>1, <2>2 DEF RecordOk
<1>9. ASSUME NEW acknowledged \in BOOLEAN, NoteBackup(acknowledged) PROVE BackupTypeOK'
  <2>1. "recording" \in Phases
    BY DEF Phases
  <2>2. log' \in [Commands -> [Dates -> Row]]
    BY <1>9, <1>o, WritesTyped DEF NoteBackup
  <2>3. script' \in Script /\ deleting' \in SUBSET Dates
    BY <1>9, <1>e, <2>1, ScriptTyped DEF NoteBackup
  <2> QED
    BY <1>9, <2>2, <2>3 DEF NoteBackup
<1>10. ASSUME NEW stored \in BOOLEAN, Upload(stored) PROVE BackupTypeOK'
  <2>1. "verifying" \in Phases
    BY DEF Phases
  <2>2. bucket' \in SUBSET Dates /\ taken' \in SUBSET Dates
    BY <1>10, <1>d DEF Upload
  <2> QED
    BY <1>10, <2>1, <2>2, ScriptTyped DEF Upload
<1>11. CASE Verify
  <2>1. "noting" \in Phases
    BY DEF Phases
  <2> QED
    BY <1>11, <2>1, ScriptTyped DEF Verify
<1>12. CASE List
  <2>1. "verifying" \in Phases
    BY DEF Phases
  <2> QED
    BY <1>12, <2>1, ScriptTyped DEF List, OldestOf, Surplus
<1>13. CASE Delete
  BY <1>13 DEF Delete
<1>14. CASE AllDeleted
  <2>1. "recording" \in Phases
    BY DEF Phases
  <2> QED
    BY <1>14, <2>1, ScriptTyped DEF AllDeleted
<1>15. CASE Beat
  <2>1. "verifying" \in Phases
    BY DEF Phases
  <2> QED
    BY <1>15, <2>1, ScriptTyped DEF Beat
<1>16. CASE BeatAnswered
  <2>1. "recording" \in Phases
    BY DEF Phases
  <2> QED
    BY <1>16, <2>1, ScriptTyped DEF BeatAnswered
<1>17. CASE Tick
  <2>1. now' \in Ticks
    BY <1>17, BackupAssumption DEF Tick, Ticks
  <2>2. log' \in [Commands -> [Dates -> Row]]
    BY <1>17, <1>o DEF Tick
  <2> QED
    BY <1>17, <2>1, <2>2 DEF Tick
<1>18. CASE UNCHANGED backupVars
  BY <1>18 DEF backupVars
<1> QED
  BY <1>1, <1>2, <1>3, <1>4, <1>5, <1>6, <1>7, <1>8, <1>9, <1>10, <1>11, <1>12, <1>13, <1>14, <1>15,
     <1>16, <1>17, <1>18 DEF BackupNext, ScriptStep

\* Types of the bucket, the log and the script (backup.py, backup.sh).
THEOREM BackupTypes == BackupSpec => []BackupTypeOK
<1> QED
  BY TypeInit, TypeNext, PTL DEF BackupSpec

------------------------------------------------------------------------------
(* The passes.                                                               *)

SurplusInv == SurplusOnly /\ IsFiniteSet(taken)

LEMMA SurplusInit == BackupInit => SurplusInv
<1>1. Keep({}) = {}
  BY DEF Keep, Newest, WeeklyKept, LastOfWeek, Rest
<1> QED
  BY <1>1, FS_EmptySet DEF BackupInit, SurplusInv, SurplusOnly

\* Keep reads nothing but its argument.
LEMMA KeepSame ==
  ASSUME UNCHANGED taken
  PROVE  (Keep(taken))' = Keep(taken)
  BY DEF Keep, Newest, WeeklyKept, LastOfWeek, Rest, Weeks, Week

\* A command that ends, well or not, forgets the surplus.
LEMMA Forgotten ==
  ASSUME SurplusInv, UNCHANGED <<bucket, taken>>, deleting' = {}
  PROVE  SurplusInv'
  BY KeepSame DEF SurplusInv, SurplusOnly

\* A step inside a command, or one that starts a script, leaves it.
LEMMA LeftAlone ==
  ASSUME SurplusInv, UNCHANGED <<bucket, taken, deleting>>,
         Running => script'.phase # "idle" /\ script'.command = script.command
  PROVE  SurplusInv'
<1>1. ~(Running /\ script.command = "prune") => deleting = {}
  BY DEF SurplusInv, SurplusOnly
<1>2. ~(Running /\ script.command = "prune")' => deleting = {}
  BY <1>1 DEF Running
<1> QED
  BY <1>2, KeepSame DEF SurplusInv, SurplusOnly

LEMMA GotoStays ==
  ASSUME NEW where \in Phases \ {"idle"}, Goto(where), script \in Script
  PROVE  script'.phase = where /\ script'.command = script.command
  BY DEF Goto, Script

\* One more object is a restore point of its own and displaces older ones only.
LEMMA UploadKeeps ==
  ASSUME SurplusInv, script \in Script, NEW stored \in BOOLEAN, Upload(stored)
  PROVE  SurplusInv'
<1>1. deleting = {} /\ deleting' = {}
  BY DEF SurplusInv, SurplusOnly, Upload, At
<1>2. CASE stored
  <2>1. PICK d : d = script.run_date
    OBVIOUS
  <2>2. taken' = taken \cup {d} /\ bucket' = bucket \cup {d}
    BY <1>2, <2>1 DEF Upload
  <2>3. IsFiniteSet(taken \cup {d})
    BY FS_AddElement DEF SurplusInv
  <2>4. Keep(taken \cup {d}) \subseteq taken \cup {d}
    BY DEF Keep, Newest, WeeklyKept, LastOfWeek, Rest
  <2>5. Keep(taken \cup {d}) \subseteq Keep(taken) \cup {d}
    <3>1. \A e \in taken : e \in Keep(taken \cup {d}) => e \in Keep(taken)
      BY <2>3, KeepOfPart
    <3> QED
      BY <2>4, <3>1
  <2>6. (Keep(taken))' = Keep(taken \cup {d})
    BY <2>2 DEF Keep, Newest, WeeklyKept, LastOfWeek, Rest, Weeks, Week
  <2> QED
    BY <1>1, <2>2, <2>3, <2>5, <2>6 DEF SurplusInv, SurplusOnly
<1>3. CASE ~stored
  BY <1>1, <1>3, KeepSame DEF Upload, SurplusInv, SurplusOnly
<1> QED
  BY <1>2, <1>3

\* The surplus of the bucket holds no restore point of all that was taken.
LEMMA ListKeeps ==
  ASSUME SurplusInv, script \in Script, List
  PROVE  SurplusInv'
<1>1. bucket' = bucket /\ taken' = taken
  BY DEF List
<1>2. deleting' \subseteq Surplus(bucket)
  BY DEF List, OldestOf
<1>3. \A d \in bucket : d \in Keep(taken) => d \in Keep(bucket)
  BY KeepOfPart DEF SurplusInv, SurplusOnly
<1>4. deleting' \cap Keep(taken) = {}
  BY <1>2, <1>3 DEF Surplus
<1>5. (Running /\ script.command = "prune")'
  <2>1. script'.phase = "verifying" /\ script'.command = script.command
    BY GotoStays DEF List, Phases
  <2> QED
    BY <2>1 DEF List, At, Running
<1> QED
  BY <1>1, <1>4, <1>5, KeepSame DEF SurplusInv, SurplusOnly

\* One object of the surplus goes, and the rest of it stays to be deleted.
LEMMA DeleteKeeps ==
  ASSUME SurplusInv, Delete
  PROVE  SurplusInv'
<1>1. PICK d \in OldestOf(deleting, 1) : bucket' = bucket \ {d} /\ deleting' = deleting \ {d}
  BY DEF Delete
<1>2. d \in deleting
  BY DEF OldestOf
<1>3. d \notin Keep(taken)
  BY <1>2 DEF SurplusInv, SurplusOnly
<1>4. taken' = taken /\ script' = script
  BY DEF Delete
<1>5. ~(Running /\ script.command = "prune") => deleting = {}
  BY DEF SurplusInv, SurplusOnly
<1>6. ~(Running /\ script.command = "prune")' => deleting' = {}
  BY <1>1, <1>4, <1>5 DEF Running
<1> QED
  BY <1>1, <1>3, <1>4, <1>6, KeepSame DEF SurplusInv, SurplusOnly

LEMMA SurplusNext ==
  SurplusInv /\ script \in Script /\ [BackupNext]_backupVars => SurplusInv'
<1> SUFFICES ASSUME SurplusInv, script \in Script, [BackupNext]_backupVars PROVE SurplusInv'
  OBVIOUS
<1>p. {"working", "verifying", "noting", "recording"} \subseteq Phases \ {"idle"}
  BY DEF Phases
<1>1. ASSUME NEW dry \in DryModes, StartScript(dry) PROVE SurplusInv'
  BY <1>1, LeftAlone DEF StartScript
<1>2. CASE Refuse
  BY <1>2, Forgotten DEF Refuse, Exit
<1>3. CASE SkipDryRun
  BY <1>3, Forgotten DEF SkipDryRun, NextCommand
<1>4. CASE Claim
  BY <1>4, <1>p, GotoStays, LeftAlone DEF Claim
<1>5. CASE Duplicate
  BY <1>5, Forgotten DEF Duplicate, Exit
<1>6. CASE Raise
  BY <1>6, Forgotten DEF Raise, Exit
<1>7. CASE Die
  BY <1>7, Forgotten DEF Die, Exit
<1>8. ASSUME NEW acknowledged \in BOOLEAN, RecordOk(acknowledged) PROVE SurplusInv'
  BY <1>8, Forgotten DEF RecordOk, NextCommand, Exit
<1>9. ASSUME NEW acknowledged \in BOOLEAN, NoteBackup(acknowledged) PROVE SurplusInv'
  <2>1. CASE acknowledged
    BY <1>9, <1>p, <2>1, GotoStays, LeftAlone DEF NoteBackup
  <2>2. CASE ~acknowledged
    BY <1>9, <2>2, Forgotten DEF NoteBackup, Exit
  <2> QED
    BY <2>1, <2>2
<1>10. ASSUME NEW stored \in BOOLEAN, Upload(stored) PROVE SurplusInv'
  BY <1>10, UploadKeeps
<1>11. CASE Verify
  BY <1>11, <1>p, GotoStays, LeftAlone DEF Verify
<1>12. CASE List
  BY <1>12, ListKeeps
<1>13. CASE Delete
  BY <1>13, DeleteKeeps
<1>14. CASE AllDeleted
  BY <1>14, <1>p, GotoStays, LeftAlone DEF AllDeleted
<1>15. CASE Beat
  BY <1>15, <1>p, GotoStays, LeftAlone DEF Beat
<1>16. CASE BeatAnswered
  BY <1>16, <1>p, GotoStays, LeftAlone DEF BeatAnswered
<1>17. CASE Tick
  BY <1>17, LeftAlone DEF Tick, Running
<1>18. CASE UNCHANGED backupVars
  BY <1>18, LeftAlone DEF backupVars, Running
<1> QED
  BY <1>1, <1>2, <1>3, <1>4, <1>5, <1>6, <1>7, <1>8, <1>9, <1>10, <1>11, <1>12, <1>13, <1>14, <1>15,
     <1>16, <1>17, <1>18 DEF BackupNext, ScriptStep

LEMMA SurplusInvariant == BackupSpec => []SurplusInv
<1>1. BackupTypeOK => script \in Script
  BY DEF BackupTypeOK
<1> QED
  BY <1>1, SurplusInit, SurplusNext, BackupTypes, PTL DEF BackupSpec

\* Nothing the script does or fails to do costs a backup the rule keeps, whatever
\* is deleted, interrupted, refused or run again (backup.py, retention_deletions,
\* _delete_expired).
THEOREM RestorePointsKept == BackupSpec => []RestorePoints
<1>1. SurplusInv => RestorePoints
  BY DEF SurplusInv, SurplusOnly, RestorePoints
<1> QED
  BY <1>1, SurplusInvariant, PTL

------------------------------------------------------------------------------
(* The reports.                                                              *)

\* An upload command that was not a dry run has left its object by now.
Uploaded ==
  /\ Running /\ ~script.dry_run
  /\ script.command # "upload" \/ script.phase \in {"noting", "recording"}

\* How the clock, the script and the objects it took stay in step.
ClockInv ==
  /\ \A d \in taken : d <= Today
  /\ Running => script.run_date <= Today /\ \A d \in taken : d <= script.run_date
  /\ Running => Today <= script.run_date + 1
  /\ last_backup_at <= now

\* The newest object of all is never surplus.
NewestInv == taken # {} => \E m \in taken : \A d \in taken : d <= m

\* What each report is worth at the moment it is made.
ReportInv ==
  /\ Running /\ script.dry_run => script.phase = "calling"
  /\ Uploaded => script.run_date \in taken
  /\ At("upload", "recording") => last_backup_at >= script.run_date * DayTicks
  /\ \A d \in Dates : log["upload"][d].status = "ok" => d \in taken /\ last_backup_at >= d * DayTicks
  /\ last_backup_at # Never => \E d \in taken : d + 1 >= Day(last_backup_at)

\* Where the newest object is, and what follows of the bucket.
LEMMA NewestInBucket ==
  ASSUME SurplusInv, NewestInv, BackupTypeOK, NEW d \in taken
  PROVE  \E m \in bucket : d <= m /\ \A e \in taken : e <= m
<1>1. PICK m \in taken : \A e \in taken : e <= m
  BY DEF NewestInv
<1>2. \A e \in taken : e \in Int
  BY DEF BackupTypeOK, Dates
<1>3. {e \in taken : e > m} = {}
  BY <1>1, <1>2
<1>4. m \in Newest(taken, Daily)
  BY <1>3, FS_EmptySet, RetentionAssumption DEF Newest
<1>5. m \in bucket
  BY <1>4 DEF Keep, SurplusInv, SurplusOnly
<1> QED
  BY <1>1, <1>5

LEMMA ReportsFollow ==
  ASSUME SurplusInv, NewestInv, BackupTypeOK, ClockInv, ReportInv
  PROVE  ReportsAreTrue
<1>1. ASSUME At("heartbeat", "working") PROVE script.run_date \in bucket
  <2>1. Running /\ script.run_date \in taken
    BY <1>1 DEF At, Running, Uploaded, ReportInv, BackupTypeOK, Script
  <2>2. PICK m \in bucket : script.run_date <= m
    BY <2>1, NewestInBucket
  <2>3. m \in taken /\ m \in Int /\ script.run_date \in Int
    BY DEF SurplusInv, SurplusOnly, BackupTypeOK, Dates, Script
  <2>4. m <= script.run_date
    BY <2>1, <2>3 DEF ClockInv
  <2> QED
    BY <2>2, <2>3, <2>4
<1>2. ASSUME last_backup_at # Never PROVE \E d \in bucket : d + 1 >= Day(last_backup_at)
  <2>1. PICK d \in taken : d + 1 >= Day(last_backup_at)
    BY <1>2 DEF ReportInv
  <2>2. PICK m \in bucket : d <= m
    BY <2>1, NewestInBucket
  <2>3. m \in Int /\ d \in Int
    BY DEF BackupTypeOK, Dates
  <2>4. Day(last_backup_at) \in Int
    <3>1. last_backup_at \in Ticks
      BY <1>2 DEF BackupTypeOK
    <3> QED
      BY <3>1, DayInDates DEF Dates
  <2> QED
    BY <2>1, <2>2, <2>3, <2>4
<1> QED
  BY <1>1, <1>2 DEF ReportInv, ReportsAreTrue

\* Whatever ends a command leaves no script or one with the same date.
SameScript == script'.phase # "idle" =>
                Running /\ script'.run_date = script.run_date /\ script'.dry_run = script.dry_run

LEMMA ScriptGoesOn ==
  ASSUME BackupTypeOK, Running, Exit \/ NextCommand \/ \E where \in Phases : Goto(where)
  PROVE  SameScript
<1>t. script \in Script
  BY DEF BackupTypeOK
<1>1. CASE Exit
  BY <1>1 DEF Exit, Idle, SameScript
<1>2. CASE NextCommand
  <2>1. CASE script.command = "heartbeat"
    BY <1>2, <2>1 DEF NextCommand, Idle, SameScript
  <2>2. CASE script.command # "heartbeat"
    BY <1>2, <1>t, <2>2 DEF NextCommand, SameScript, Script
  <2> QED
    BY <2>1, <2>2
<1>3. CASE \E where \in Phases : Goto(where)
  BY <1>3, <1>t DEF Goto, SameScript, Script
<1> QED
  BY <1>1, <1>2, <1>3

\* Every step of a script but its start goes on with it or ends it.
LEMMA StepsGoOn ==
  ASSUME BackupTypeOK, ScriptStep, ~(\E dry \in DryModes : StartScript(dry))
  PROVE  SameScript /\ now' = now
<1> USE DEF Running
<1>p. {"working", "verifying", "noting", "recording"} \subseteq Phases
  BY DEF Phases
<1>1. CASE Refuse \/ SkipDryRun \/ Claim \/ Duplicate \/ Raise \/ Die
  <2>1. Running
    BY <1>1 DEF Refuse, SkipDryRun, Claim, Duplicate, Raise, Die
  <2>2. Exit \/ NextCommand \/ Goto("working")
    BY <1>1 DEF Refuse, SkipDryRun, Claim, Duplicate, Raise, Die
  <2>3. now' = now
    BY <1>1 DEF Refuse, SkipDryRun, Claim, Duplicate, Raise, Die
  <2> QED
    BY <1>p, <2>1, <2>2, <2>3, ScriptGoesOn
<1>2. CASE \E acknowledged \in BOOLEAN : RecordOk(acknowledged) \/ NoteBackup(acknowledged)
  BY <1>2, <1>p, ScriptGoesOn DEF RecordOk, NoteBackup, At
<1>3. CASE \E stored \in BOOLEAN : Upload(stored)
  BY <1>3, <1>p, ScriptGoesOn DEF Upload, At
<1>4. CASE Verify \/ List \/ AllDeleted \/ Beat \/ BeatAnswered
  BY <1>4, <1>p, ScriptGoesOn DEF Verify, List, AllDeleted, Beat, BeatAnswered, At
<1>5. CASE Delete
  BY <1>5 DEF Delete, At, SameScript
<1> QED
  BY <1>1, <1>2, <1>3, <1>4, <1>5 DEF ScriptStep

\* Only an upload takes an object, and it takes the script's date.
LEMMA TakesItsDate ==
  ASSUME BackupTypeOK, ScriptStep
  PROVE  taken' = taken \/ (Running /\ taken' = taken \cup {script.run_date})
  BY DEF ScriptStep, StartScript, Refuse, SkipDryRun, Claim, Duplicate, Raise, Die, RecordOk, NoteBackup,
         Upload, Verify, List, Delete, AllDeleted, Beat, BeatAnswered, At, Running

\* Only the note of a backup stores the time, which is now.
LEMMA NotesNow ==
  ASSUME BackupTypeOK, ScriptStep
  PROVE  last_backup_at' = last_backup_at \/ last_backup_at' = now
  BY DEF ScriptStep, StartScript, Refuse, SkipDryRun, Claim, Duplicate, Raise, Die, RecordOk, NoteBackup,
         Upload, Verify, List, Delete, AllDeleted, Beat, BeatAnswered

LEMMA ClockNext ==
  BackupTypeOK /\ ClockInv /\ [BackupNext]_backupVars => ClockInv'
<1> SUFFICES ASSUME BackupTypeOK, ClockInv, [BackupNext]_backupVars PROVE ClockInv'
  OBVIOUS
<1>t. /\ now \in Nat /\ Today \in Nat /\ script.run_date \in Nat
      /\ \A d \in taken : d \in Nat
      /\ last_backup_at \in Int
  BY DayInDates DEF BackupTypeOK, Ticks, Dates, Script, Today, Never
<1>1. ASSUME NEW dry \in DryModes, StartScript(dry) PROVE ClockInv'
  <2>1. script'.run_date = Today /\ Today' = Today
    BY <1>1 DEF StartScript, Today, Day
  <2> QED
    BY <1>1, <1>t, <2>1 DEF StartScript, ClockInv
<1>2. CASE ScriptStep /\ ~(\E dry \in DryModes : StartScript(dry))
  <2>1. SameScript /\ now' = now /\ Today' = Today
    BY <1>2, StepsGoOn DEF Today, Day
  <2>2. Running' => Running /\ script'.run_date = script.run_date
    BY <2>1 DEF SameScript, Running
  <2>3. CASE taken' = taken
    BY <1>2, <1>t, <2>1, <2>2, <2>3, NotesNow DEF ClockInv
  <2>4. CASE Running /\ taken' = taken \cup {script.run_date}
    BY <1>2, <1>t, <2>1, <2>2, <2>4, NotesNow DEF ClockInv
  <2> QED
    BY <1>2, <2>3, <2>4, TakesItsDate
<1>3. CASE Tick
  <2>1. now' = now + 1 /\ Today' = Day(now + 1)
    BY <1>3 DEF Tick, Today, Day
  <2>2. Today <= Day(now + 1) /\ Day(now + 1) \in Nat
    BY <1>t, DivMonotone, BackupAssumption DEF Today, Day
  <2>3. Running => Today' <= script.run_date + 1
    BY <1>3, <2>1 DEF Tick
  <2> QED
    BY <1>3, <1>t, <2>1, <2>2, <2>3 DEF Tick, ClockInv, Running
<1>4. CASE UNCHANGED backupVars
  BY <1>4 DEF backupVars, ClockInv, Today, Day, Running
<1> QED
  BY <1>1, <1>2, <1>3, <1>4 DEF BackupNext

LEMMA NewestNext ==
  BackupTypeOK /\ ClockInv /\ NewestInv /\ [BackupNext]_backupVars => NewestInv'
<1> SUFFICES ASSUME BackupTypeOK, ClockInv, NewestInv, [BackupNext]_backupVars PROVE NewestInv'
  OBVIOUS
<1>1. CASE taken' = taken
  BY <1>1 DEF NewestInv
<1>2. CASE Running /\ taken' = taken \cup {script.run_date}
  <2>1. \A d \in taken' : d <= script.run_date
    BY <1>2 DEF ClockInv, BackupTypeOK, Script, Dates
  <2> QED
    BY <1>2, <2>1 DEF NewestInv
<1> QED
  BY <1>1, <1>2, TakesItsDate DEF BackupNext, Tick, backupVars

\* What a write of the guard leaves of the upload's rows.
LEMMA OpensOrLeaves ==
  ASSUME BackupTypeOK, NEW row \in Row, row.status # "ok", Writes(row)
  PROVE  \A d \in Dates : log'["upload"][d].status = "ok" => log["upload"][d].status = "ok"
<1>1. script.command \in Commands /\ script.run_date \in Dates
  BY DEF BackupTypeOK, Script
<1> QED
  BY <1>1 DEF Writes, BackupTypeOK, Commands

\* A step that stores no time, takes no object and closes no row of the upload
\* but a true one reports nothing false.
LEMMA NothingReported ==
  ASSUME BackupTypeOK, ReportInv, UNCHANGED <<last_backup_at, taken>>,
         Running' /\ script'.dry_run => script'.phase = "calling",
         Uploaded' => script'.run_date \in taken,
         At("upload", "recording")' => last_backup_at >= script'.run_date * DayTicks,
         \A d \in Dates : log'["upload"][d].status = "ok" =>
            log["upload"][d].status = "ok" \/ (d \in taken /\ last_backup_at >= d * DayTicks)
  PROVE  ReportInv'
<1>1. (Day(last_backup_at))' = Day(last_backup_at)
  BY DEF Day
<1>2. (Running /\ script.dry_run)' => script'.phase = "calling"
  BY DEF Running
<1> QED
  BY <1>1, <1>2 DEF ReportInv

\* A step that also leaves the script, or ends it, or goes on with it after the
\* upload.
LEMMA CommandEnds ==
  ASSUME BackupTypeOK, ReportInv, UNCHANGED <<last_backup_at, taken>>,
         Exit \/ (NextCommand /\ (script.dry_run \/ Uploaded)),
         \A d \in Dates : log'["upload"][d].status = "ok" =>
            log["upload"][d].status = "ok" \/ (d \in taken /\ last_backup_at >= d * DayTicks)
  PROVE  ReportInv'
<1>1. CASE script'.phase = "idle"
  BY <1>1, NothingReported DEF Running, Uploaded, At
<1>2. CASE script'.phase # "idle"
  <2>1. NextCommand /\ script.command # "heartbeat"
    BY <1>2 DEF Exit, NextCommand, Idle
  <2>2. script' = [script EXCEPT !.phase = "calling", !.command = After(@)]
    BY <2>1 DEF NextCommand
  <2>3. script \in Script
    BY DEF BackupTypeOK
  <2>4. /\ script'.phase = "calling" /\ script'.command = After(script.command)
        /\ script'.run_date = script.run_date /\ script'.dry_run = script.dry_run
    BY <2>2, <2>3 DEF Script
  <2>5. script.dry_run \/ Uploaded
    BY <2>1, <1>2 DEF Exit, Idle
  <2>6. Uploaded' => script'.run_date \in taken
    BY <2>4, <2>5 DEF Uploaded, ReportInv
  <2> QED
    BY <2>4, <2>6, NothingReported DEF At
<1> QED
  BY <1>1, <1>2

\* A step within a command.
LEMMA CommandGoesOn ==
  ASSUME BackupTypeOK, ReportInv, Running, UNCHANGED <<last_backup_at, taken>>,
         NEW where \in Phases \ {"idle"}, Goto(where),
         ~script.dry_run,
         script.command = "upload" => where \notin {"noting", "recording"} \/ (where = "noting" /\ script.run_date \in taken),
         \A d \in Dates : log'["upload"][d].status = "ok" => log["upload"][d].status = "ok"
  PROVE  ReportInv'
<1>1. /\ script'.phase = where /\ script'.command = script.command
      /\ script'.run_date = script.run_date /\ script'.dry_run = script.dry_run
  BY DEF Goto, BackupTypeOK, Script
<1>2. Uploaded' => script'.run_date \in taken
  BY <1>1 DEF Uploaded, ReportInv
<1>3. ~At("upload", "recording")'
  BY <1>1 DEF At
<1> QED
  BY <1>1, <1>2, <1>3, NothingReported

LEMMA ReportNext ==
  /\ BackupTypeOK /\ SurplusInv /\ ClockInv /\ ReportInv
  /\ [BackupNext]_backupVars
  => ReportInv'
<1> SUFFICES ASSUME BackupTypeOK, SurplusInv, ClockInv, ReportInv, [BackupNext]_backupVars
             PROVE  ReportInv'
  OBVIOUS
<1>o. Open \in Row /\ Open.status # "ok"
  BY OpenTyped DEF Open
<1>p. [status |-> "pending", recorded |-> 0] \in Row
  BY ZeroInDates DEF Row
<1>h. {"working", "verifying", "noting", "recording"} \subseteq Phases \ {"idle"}
  BY DEF Phases
<1>w. Running /\ script.phase # "calling" => ~script.dry_run
  BY DEF ReportInv
<1>1. ASSUME NEW dry \in DryModes, StartScript(dry) PROVE ReportInv'
  <2>1. script'.phase = "calling" /\ script'.command = "upload"
    BY <1>1 DEF StartScript
  <2> QED
    BY <1>1, <2>1, NothingReported DEF StartScript, Uploaded, At
<1>2. CASE Refuse
  BY <1>2, <1>o, OpensOrLeaves, CommandEnds DEF Refuse
<1>3. CASE SkipDryRun
  BY <1>3, <1>o, OpensOrLeaves, CommandEnds DEF SkipDryRun
<1>4. CASE Claim
  <2>1. \A d \in Dates : log'["upload"][d].status = "ok" => log["upload"][d].status = "ok"
    BY <1>4, <1>p, OpensOrLeaves DEF Claim
  <2>2. Running /\ Goto("working")
    BY <1>4 DEF Claim, Running
  <2> QED
    BY <1>4, <1>h, <2>1, <2>2, CommandGoesOn DEF Claim
<1>5. CASE Duplicate
  BY <1>5, CommandEnds DEF Duplicate
<1>6. CASE Raise
  BY <1>6, <1>o, OpensOrLeaves, CommandEnds DEF Raise
<1>7. CASE Die
  BY <1>7, CommandEnds DEF Die
<1>8. ASSUME NEW acknowledged \in BOOLEAN, RecordOk(acknowledged) PROVE ReportInv'
  <2>1. Running /\ ~script.dry_run /\ Uploaded
    BY <1>8, <1>w DEF RecordOk, Running, Uploaded
  <2>2. \A d \in Dates : log'["upload"][d].status = "ok" =>
           log["upload"][d].status = "ok" \/ (d \in taken /\ last_backup_at >= d * DayTicks)
    <3>1. script.command \in Commands /\ script.run_date \in Dates
      BY DEF BackupTypeOK, Script
    <3>2. CASE script.command # "upload"
      <4>1. log'["upload"] = log["upload"]
        BY <1>8, <3>1, <3>2 DEF RecordOk, Writes, BackupTypeOK, Commands
      <4> QED
        BY <4>1
    <3>3. CASE script.command = "upload"
      <4>1. script.run_date \in taken /\ last_backup_at >= script.run_date * DayTicks
        BY <1>8, <2>1, <3>3 DEF RecordOk, ReportInv, At
      <4>2. \A d \in Dates \ {script.run_date} : log'["upload"][d] = log["upload"][d]
        BY <1>8, <3>1, <3>3 DEF RecordOk, Writes, BackupTypeOK, Commands
      <4> QED
        BY <4>1, <4>2
    <3> QED
      BY <3>2, <3>3
  <2>3. Exit \/ NextCommand
    BY <1>8 DEF RecordOk
  <2> QED
    BY <1>8, <2>1, <2>2, <2>3, CommandEnds DEF RecordOk
<1>9. ASSUME NEW acknowledged \in BOOLEAN, NoteBackup(acknowledged) PROVE ReportInv'
  <2>1. /\ Running /\ ~script.dry_run /\ script.run_date \in taken
        /\ last_backup_at' = now /\ taken' = taken
    BY <1>9, <1>w DEF NoteBackup, At, Running, Uploaded, ReportInv
  <2>t. now \in Nat /\ last_backup_at \in Int /\ last_backup_at <= now /\ script.run_date \in Nat
    BY DEF BackupTypeOK, Ticks, Never, ClockInv, Script, Dates
  <2>2. now >= script.run_date * DayTicks
    BY <2>1, <2>t, DivTimes, BackupAssumption DEF ClockInv, Today, Day
  <2>3. script.run_date + 1 >= Day(now)
    BY <2>1 DEF ClockInv, Today
  <2>4. (\E d \in taken : d + 1 >= Day(last_backup_at))'
    BY <2>1, <2>3 DEF Day
  <2>5. \A d \in Dates : log'["upload"][d].status = "ok" => log["upload"][d].status = "ok"
    BY <1>9, <1>o, OpensOrLeaves DEF NoteBackup
  <2>6. \A d \in Dates : log'["upload"][d].status = "ok" => d \in taken' /\ last_backup_at' >= d * DayTicks
    <3>1. \A d \in Dates : d * DayTicks \in Int
      BY BackupAssumption DEF Dates
    <3> QED
      BY <2>1, <2>5, <2>t, <3>1 DEF ReportInv
  <2>7. script'.phase = "idle" \/ (script'.phase = "recording" /\ script'.run_date = script.run_date
                                   /\ script'.dry_run = script.dry_run)
    <3>1. script \in Script
      BY DEF BackupTypeOK
    <3> QED
      BY <1>9, <3>1 DEF NoteBackup, Goto, Exit, Idle, Script
  <2>8. (Running /\ script.dry_run => script.phase = "calling")'
    BY <2>1, <2>7 DEF Running
  <2>9. (Uploaded => script.run_date \in taken)'
    BY <2>1, <2>7 DEF Uploaded, Running
  <2>10. At("upload", "recording")' => last_backup_at' >= script'.run_date * DayTicks
    BY <2>1, <2>2, <2>7 DEF At
  <2> QED
    BY <2>4, <2>6, <2>8, <2>9, <2>10 DEF ReportInv
<1>10. ASSUME NEW stored \in BOOLEAN, Upload(stored) PROVE ReportInv'
  <2>1. /\ Running /\ ~script.dry_run
        /\ taken \subseteq taken' /\ last_backup_at' = last_backup_at /\ log' = log
    BY <1>10, <1>w DEF Upload, At, Running
  <2>2. script'.phase = "verifying" /\ script'.command = "upload" /\ script'.dry_run = script.dry_run
    BY <1>10 DEF Upload, At, Goto, BackupTypeOK, Script
  <2>3. ~Uploaded' /\ ~At("upload", "recording")' /\ ~(Running /\ script.dry_run)'
    BY <2>1, <2>2 DEF Uploaded, At
  <2>4. (Day(last_backup_at))' = Day(last_backup_at)
    BY <2>1 DEF Day
  <2> QED
    BY <2>1, <2>3, <2>4 DEF ReportInv
<1>11. CASE Verify
  <2>1. script.run_date \in taken
    BY <1>11 DEF Verify, SurplusInv, SurplusOnly
  <2>2. Running /\ ~script.dry_run
    BY <1>11, <1>w DEF Verify, At, Running
  <2> QED
    BY <1>11, <1>h, <2>1, <2>2, CommandGoesOn DEF Verify
<1>12. CASE List
  <2>1. Running /\ ~script.dry_run /\ script.command # "upload"
    BY <1>12, <1>w DEF List, At, Running
  <2> QED
    BY <1>12, <1>h, <2>1, CommandGoesOn DEF List
<1>13. CASE Delete
  <2>1. Uploaded' => Uploaded
    BY <1>13 DEF Delete, Uploaded, Running
  <2>2. Running' /\ script'.dry_run => script'.phase = "calling"
    BY <1>13 DEF Delete, Running, ReportInv
  <2>3. ~At("upload", "recording")'
    BY <1>13 DEF Delete, At
  <2> QED
    BY <1>13, <2>1, <2>2, <2>3, NothingReported DEF Delete, ReportInv
<1>14. CASE AllDeleted \/ Beat \/ BeatAnswered
  <2>1. Running /\ ~script.dry_run /\ script.command # "upload"
    BY <1>14, <1>w DEF AllDeleted, Beat, BeatAnswered, At, Running
  <2>2. Goto("verifying") \/ Goto("recording")
    BY <1>14 DEF AllDeleted, Beat, BeatAnswered
  <2>3. UNCHANGED <<last_backup_at, taken, log>>
    BY <1>14 DEF AllDeleted, Beat, BeatAnswered
  <2> QED
    BY <1>h, <2>1, <2>2, <2>3, CommandGoesOn
<1>15. CASE Tick
  <2>1. \A d \in Dates : log'["upload"][d].status = "ok" => log["upload"][d].status = "ok"
    BY <1>15, <1>o DEF Tick, Commands
  <2>2. script' = script
    BY <1>15 DEF Tick
  <2>3. (Uploaded' <=> Uploaded) /\ (Running' <=> Running) /\ (At("upload", "recording")' <=> At("upload", "recording"))
    BY <2>2 DEF Uploaded, Running, At
  <2> QED
    BY <1>15, <2>1, <2>2, <2>3, NothingReported DEF Tick, ReportInv
<1>16. CASE UNCHANGED backupVars
  <2>1. UNCHANGED <<last_backup_at, taken, log>> /\ script' = script
    BY <1>16 DEF backupVars
  <2>2. (Uploaded' <=> Uploaded) /\ (Running' <=> Running) /\ (At("upload", "recording")' <=> At("upload", "recording"))
    BY <2>1 DEF Uploaded, Running, At
  <2> QED
    BY <2>1, <2>2, NothingReported DEF ReportInv
<1> QED
  BY <1>1, <1>2, <1>3, <1>4, <1>5, <1>6, <1>7, <1>8, <1>9, <1>10, <1>11, <1>12, <1>13, <1>14,
     <1>15, <1>16 DEF BackupNext, ScriptStep

ReportFacts == BackupTypeOK /\ SurplusInv /\ ClockInv /\ NewestInv /\ ReportInv

LEMMA ReportFactsInit == BackupInit => ReportFacts
<1>1. BackupInit => ClockInv /\ NewestInv /\ ReportInv
  BY BackupAssumption DEF BackupInit, ClockInv, NewestInv, ReportInv, Idle, Open, Running, Uploaded, At, Never,
     Commands
<1> QED
  BY <1>1, TypeInit, SurplusInit DEF ReportFacts

LEMMA ReportFactsNext == ReportFacts /\ [BackupNext]_backupVars => ReportFacts'
<1>1. BackupTypeOK => script \in Script
  BY DEF BackupTypeOK
<1> QED
  BY <1>1, TypeNext, SurplusNext, ClockNext, NewestNext, ReportNext DEF ReportFacts

\* A heartbeat, a stored time and an ok row each stand for an object in the
\* bucket, for any calendar, retention and faults (backup.py, upload_backup and
\* ping_backup_heartbeat; backup.sh).
THEOREM ReportsTrue == BackupSpec => []ReportsAreTrue
<1>1. ReportFacts => ReportsAreTrue
  BY ReportsFollow DEF ReportFacts
<1> QED
  BY <1>1, ReportFactsInit, ReportFactsNext, PTL DEF BackupSpec
==============================================================================
