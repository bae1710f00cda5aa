------------------------------ MODULE HealthProofs ------------------------------
(***************************************************************************)
(* What the health job and the status page say of the backup, for every    *)
(* calendar and every interleaving of the script, the job and the page.    *)
(***************************************************************************)
EXTENDS StatusPage, BackupProofs

LEMMA IntDivMonotone ==
  ASSUME NEW s \in Int, NEW t \in Int, s <= t, NEW k \in Nat \ {0}
  PROVE  s \div k \in Int /\ t \div k \in Int /\ s \div k <= t \div k
<1>1. s \div k \in Int /\ t \div k \in Int
  OBVIOUS
<1>2. s \div k <= t \div k
  OBVIOUS
<1> QED
  BY <1>1, <1>2

\* Between its judgement and its end a run has a fresh backup behind it: time
\* does not pass, and last_backup_at only moves up to now.
FreshInv ==
  /\ job \in {"beating", "answered", "succeeded"} => last_backup_at # Never /\ now - last_backup_at < FreshTicks
  /\ backup <= last_backup_at
  /\ backup \in Ticks \cup {Never}

LEMMA FreshInit == HealthInit => FreshInv
  BY DEF HealthInit, BackupInit, FreshInv, Never

\* The job's steps.
LEMMA FreshStep ==
  ASSUME BackupTypeOK, FreshInv, HealthStep, UNCHANGED <<now, last_backup_at>>
  PROVE  FreshInv'
<1>t. now \in Nat /\ last_backup_at \in Int /\ backup \in Int /\ FreshTicks \in Nat /\ Never \in Int
  BY FreshAssumption DEF BackupTypeOK, FreshInv, Ticks, Never
<1>n. Never <= last_backup_at
  BY DEF BackupTypeOK, Ticks, Never
<1>1. CASE StartHealth
  BY <1>1, <1>t DEF StartHealth, JobAt, FreshInv, BackupTypeOK
<1>2. ASSUME NEW othersFine \in BOOLEAN, Judge(othersFine) PROVE FreshInv'
  <2>1. CASE BackupIsFresh /\ othersFine
    <3>1. last_backup_at # Never /\ now - last_backup_at < FreshTicks
      BY <1>t, <1>n, <2>1 DEF BackupIsFresh, FreshInv, Never, Ticks
    <3> QED
      BY <1>2, <1>n, <3>1 DEF Judge, Forget, FreshInv
  <2>2. CASE ~(BackupIsFresh /\ othersFine)
    BY <1>2, <1>n, <2>2 DEF Judge, Forget, FreshInv
  <2> QED
    BY <2>1, <2>2
<1>3. CASE SendHeartbeat \/ SkipHeartbeat \/ Answered
  BY <1>3 DEF SendHeartbeat, SkipHeartbeat, Answered, JobAt, FreshInv
<1>4. CASE JobRaises \/ SchedulerDies
  BY <1>4, <1>n DEF JobRaises, SchedulerDies, Forget, FreshInv
<1>5. CASE MarkLastRun \/ MarkLastError
  BY <1>5 DEF MarkLastRun, MarkLastError, JobAt, FreshInv
<1> QED
  BY <1>1, <1>2, <1>3, <1>4, <1>5 DEF HealthStep

\* The steps of the script and of the clock.
LEMMA FreshElse ==
  ASSUME BackupTypeOK, last_backup_at <= now, FreshInv, UNCHANGED healthVars,
         \/ last_backup_at' \in {last_backup_at, now} /\ now' = now
         \/ Tick /\ job = "idle"
  PROVE  FreshInv'
<1>t. now \in Nat /\ last_backup_at \in Int /\ backup \in Int /\ FreshTicks \in Nat \ {0} /\ Never = -1
  BY FreshAssumption DEF BackupTypeOK, FreshInv, Ticks, Never
<1>1. CASE last_backup_at' \in {last_backup_at, now} /\ now' = now
  <2>1. job' = job /\ backup' = backup
    BY DEF healthVars
  <2>2. CASE last_backup_at' = last_backup_at
    BY <1>1, <2>1, <2>2 DEF FreshInv
  <2>3. CASE last_backup_at' = now
    <3>1. backup <= now /\ now # Never /\ now - now < FreshTicks
      BY <1>t DEF FreshInv
    <3> QED
      BY <1>1, <2>1, <2>3, <3>1 DEF FreshInv
  <2> QED
    BY <1>1, <2>2, <2>3
<1>2. CASE Tick /\ job = "idle"
  BY <1>2 DEF Tick, FreshInv, healthVars
<1> QED
  BY <1>1, <1>2

LEMMA HealthInvariant == HealthSpec => [](ReportFacts /\ FreshInv)
<1>1. HealthInit => ReportFacts /\ FreshInv
  BY ReportFactsInit, FreshInit DEF HealthInit
<1>2. ReportFacts /\ FreshInv /\ [HealthNext]_allVars => (ReportFacts /\ FreshInv)'
  <2> SUFFICES ASSUME ReportFacts, FreshInv, [HealthNext]_allVars PROVE (ReportFacts /\ FreshInv)'
    OBVIOUS
  <2>1. [BackupNext]_backupVars
    BY DEF HealthNext, BackupNext, allVars
  <2>2. ReportFacts'
    BY <2>1, ReportFactsNext
  <2>3. BackupTypeOK /\ last_backup_at <= now
    BY DEF ReportFacts, ClockInv
  <2>4. CASE HealthStep /\ UNCHANGED backupVars
    BY <2>2, <2>3, <2>4, FreshStep DEF backupVars
  <2>5. CASE ScriptStep /\ UNCHANGED healthVars
    <3>1. now' = now
      BY <2>3, <2>5, StepsGoOn DEF StartScript
    <3> QED
      BY <2>2, <2>3, <2>5, <3>1, NotesNow, FreshElse
  <2>6. CASE Tick /\ job = "idle" /\ UNCHANGED healthVars
    BY <2>2, <2>3, <2>6, FreshElse
  <2>7. CASE UNCHANGED allVars
    BY <2>2, <2>7 DEF allVars, backupVars, healthVars, FreshInv
  <2> QED
    BY <2>4, <2>5, <2>6, <2>7 DEF HealthNext
<1> QED
  BY <1>1, <1>2, PTL DEF HealthSpec

\* The heartbeat and the stored success of the health job stand for a backup that
\* can be restored and is no older than FreshTicks and a midnight (host_health.py,
\* scheduler.py, execute_job).
THEOREM HealthIsBackedUp == HealthSpec => []HealthMeansBackup
<1>1. ReportFacts /\ FreshInv => HealthMeansBackup
  <2> SUFFICES ASSUME ReportFacts, FreshInv, job \in {"beating", "answered", "succeeded"}
               PROVE  \E d \in bucket : d + 1 >= Day(now - FreshTicks + 1)
    BY DEF HealthMeansBackup
  <2>1. last_backup_at # Never /\ now - last_backup_at < FreshTicks
    BY DEF FreshInv
  <2>2. PICK d \in bucket : d + 1 >= Day(last_backup_at)
    BY <2>1, ReportsFollow DEF ReportFacts, ReportsAreTrue
  <2>3. now \in Int /\ last_backup_at \in Int /\ FreshTicks \in Int /\ d \in Int
    BY <2>1, FreshAssumption DEF ReportFacts, BackupTypeOK, Ticks, Dates
  <2>4. now - FreshTicks + 1 <= last_backup_at
    BY <2>1, <2>3
  <2>5. Day(now - FreshTicks + 1) <= Day(last_backup_at)
    BY <2>3, <2>4, IntDivMonotone, BackupAssumption DEF Day
  <2>6. Day(now - FreshTicks + 1) \in Int /\ Day(last_backup_at) \in Int
    BY <2>3, IntDivMonotone, BackupAssumption DEF Day
  <2> QED
    BY <2>2, <2>3, <2>5, <2>6
<1> QED
  BY <1>1, HealthInvariant, PTL

------------------------------------------------------------------------------
(* The status page.                                                          *)

\* A success of tick t had a fresh backup behind it.
Justified(t) == t # Never => last_backup_at # Never /\ last_backup_at > t - FreshTicks

\* last_backup_at never falls, so what justified a success when it was stored, or
\* read, justifies it still.
PageInv ==
  /\ PageTypeOK
  /\ last_backup_at <= now
  /\ FreshInv
  /\ Justified(last_run)
  /\ page.read # 0 => Justified(page.last_run)
  /\ PageIsCoherent

LEMMA PageReadsTwo == Len(PageReads) = 2 /\ PageReads[1] = "last_run" /\ PageReads[2] = "last_backup_at"
  BY DEF PageReads

LEMMA PageInvInit == PageInit => PageInv
<1> SUFFICES ASSUME PageInit PROVE PageInv
  OBVIOUS
<1>1. BackupTypeOK /\ FreshInv
  BY TypeInit, FreshInit DEF PageInit, HealthInit
<1>2. PageTypeOK
  BY <1>1 DEF PageInit, HealthInit, PageTypeOK, HealthTypeOK, JobSteps, Blank
<1>3. last_backup_at <= now
  BY DEF PageInit, HealthInit, BackupInit, Never
<1>4. Justified(last_run) /\ page.read = 0 /\ ~Shown
  BY PageReadsTwo DEF PageInit, Blank, Justified, Shown
<1> QED
  BY <1>1, <1>2, <1>3, <1>4 DEF PageInv, PageIsCoherent

\* Types, by who takes the step.
LEMMA PageTypeNext ==
  ASSUME PageTypeOK, StatusNext
  PROVE  PageTypeOK'
<1>1. CASE (Success \/ SuccessInDoubt \/ NoSuccess) /\ UNCHANGED <<backupVars, page>>
  <2>1. HealthStep
    BY <1>1 DEF Success, SuccessInDoubt, NoSuccess, HealthStep
  <2>2. job' \in JobSteps /\ backup' \in Ticks \cup {Never}
    BY <2>1 DEF HealthStep, StartHealth, SendHeartbeat, SkipHeartbeat, Answered, JobRaises, MarkLastRun,
       MarkLastError, SchedulerDies, Judge, JobAt, Forget, JobSteps, PageTypeOK, HealthTypeOK, BackupTypeOK
  <2>3. last_run' \in Ticks \cup {Never}
    BY <1>1 DEF Success, SuccessInDoubt, NoSuccess, PageTypeOK, HealthTypeOK, BackupTypeOK
  <2> QED
    BY <1>1, <2>2, <2>3 DEF PageTypeOK, HealthTypeOK, BackupTypeOK, backupVars
<1>2. CASE StoreBackup /\ UNCHANGED <<healthVars, pageVars>>
  <2>1. Today \in Dates /\ now \in Ticks
    BY DayInDates DEF PageTypeOK, HealthTypeOK, BackupTypeOK, Today
  <2> QED
    BY <1>2, <2>1 DEF StoreBackup, PageTypeOK, HealthTypeOK, BackupTypeOK, healthVars, pageVars
<1>3. CASE Tick /\ job = "idle" /\ UNCHANGED <<healthVars, pageVars>>
  <2>1. BackupTypeOK'
    BY <1>3, TypeNext DEF PageTypeOK, HealthTypeOK, BackupNext
  <2> QED
    BY <1>3, <2>1 DEF PageTypeOK, HealthTypeOK, healthVars, pageVars
<1>4. CASE OpenPage /\ UNCHANGED <<allVars, last_run>>
  BY <1>4 DEF OpenPage, Blank, PageTypeOK, HealthTypeOK, BackupTypeOK, allVars, backupVars, healthVars
<1>5. CASE ReadValue /\ UNCHANGED <<allVars, last_run>>
  <2>1. page' \in [read : 0..2, last_run : Ticks \cup {Never}, last_backup_at : Ticks \cup {Never}]
    <3>t. /\ page \in [read : 0..2, last_run : Ticks \cup {Never}, last_backup_at : Ticks \cup {Never}]
          /\ last_run \in Ticks \cup {Never} /\ last_backup_at \in Ticks \cup {Never}
      BY DEF PageTypeOK, HealthTypeOK, BackupTypeOK
    <3>1. page.read \in 0..1
      BY <1>5, PageReadsTwo DEF ReadValue, Shown, PageTypeOK
    <3>2. CASE page.read = 0
      <4>1. page' = [read |-> 1, last_run |-> last_run, last_backup_at |-> page.last_backup_at]
        BY <1>5, <3>2, PageReadsTwo DEF ReadValue
      <4> QED
        BY <3>t, <4>1
    <3>3. CASE page.read = 1
      <4>1. page' = [read |-> 2, last_run |-> page.last_run, last_backup_at |-> last_backup_at]
        BY <1>5, <3>3, PageReadsTwo DEF ReadValue
      <4> QED
        BY <3>t, <4>1
    <3> QED
      BY <3>1, <3>2, <3>3
  <2> QED
    BY <1>5, <2>1 DEF PageTypeOK, HealthTypeOK, BackupTypeOK, allVars, backupVars, healthVars
<1> QED
  BY <1>1, <1>2, <1>3, <1>4, <1>5 DEF StatusNext

\* Later notes of a backup justify what earlier ones did.
LEMMA JustifiedStays ==
  ASSUME BackupTypeOK, last_backup_at <= now, NEW t \in Ticks \cup {Never}, Justified(t),
         last_backup_at' \in {last_backup_at, now}
  PROVE  t # Never => last_backup_at' # Never /\ last_backup_at' > t - FreshTicks
<1>1. now \in Nat /\ last_backup_at \in Int /\ t \in Int /\ FreshTicks \in Int /\ Never = -1
  BY FreshAssumption DEF BackupTypeOK, Ticks, Never
<1> QED
  BY <1>1 DEF Justified

LEMMA PageInvNext == PageInv /\ [StatusNext]_statusVars => PageInv'
<1> SUFFICES ASSUME PageInv, [StatusNext]_statusVars PROVE PageInv'
  OBVIOUS
<1>t. /\ BackupTypeOK /\ FreshInv /\ last_backup_at <= now
      /\ last_run \in Ticks \cup {Never} /\ page.last_run \in Ticks \cup {Never}
  BY DEF PageInv, PageTypeOK, HealthTypeOK
<1>u. now \in Ticks /\ now \in Nat /\ now # Never /\ last_backup_at \in Int /\ FreshTicks \in Nat \ {0}
  BY <1>t, FreshAssumption DEF BackupTypeOK, Ticks, Never
<1>1. CASE (Success \/ SuccessInDoubt \/ NoSuccess) /\ UNCHANGED <<backupVars, page>>
  <2>1. HealthStep /\ UNCHANGED <<now, last_backup_at, page>>
    BY <1>1 DEF Success, SuccessInDoubt, NoSuccess, HealthStep, backupVars
  <2>2. FreshInv'
    BY <1>t, <2>1, FreshStep
  <2>3. last_run' = last_run \/ (job = "succeeded" /\ last_run' = now)
    BY <1>1 DEF Success, SuccessInDoubt, NoSuccess, MarkLastRun, JobAt
  <2>4. Justified(now) \/ job # "succeeded"
    BY <1>t, <1>u DEF FreshInv, Justified
  <2>5. Justified(last_run) /\ (page.read # 0 => Justified(page.last_run)) /\ PageIsCoherent
    BY DEF PageInv
  <2>6. (Justified(last_run))'
    BY <2>1, <2>3, <2>4, <2>5 DEF Justified
  <2>7. (page.read # 0 => Justified(page.last_run))' /\ PageIsCoherent'
    BY <2>1, <2>5 DEF Justified, PageIsCoherent, Shown, PageReads
  <2>8. PageTypeOK'
    BY <1>1, PageTypeNext DEF PageInv, StatusNext
  <2> QED
    BY <1>t, <2>1, <2>2, <2>6, <2>7, <2>8 DEF PageInv
<1>2. ASSUME StoreBackup \/ (Tick /\ job = "idle"), UNCHANGED <<healthVars, pageVars>>
      PROVE  PageInv'
  <2>1. last_backup_at' \in {last_backup_at, now}
    BY <1>2 DEF StoreBackup, Tick
  <2>2. /\ (last_backup_at' \in {last_backup_at, now} /\ now' = now) \/ (Tick /\ job = "idle")
        /\ UNCHANGED <<last_run, page>>
    BY <1>2 DEF StoreBackup, pageVars
  <2>3. FreshInv'
    BY <1>2, <1>t, <2>2, FreshElse
  <2>4. last_backup_at' <= now'
    BY <1>t, <1>u, <1>2 DEF StoreBackup, Tick
  <2>5. (Justified(last_run))'
    BY <1>t, <2>1, <2>2, JustifiedStays DEF PageInv, Justified
  <2>6. (page.read # 0 => Justified(page.last_run))'
    BY <1>t, <2>1, <2>2, JustifiedStays DEF PageInv, Justified
  <2>7. PageIsCoherent'
    BY <2>2 DEF PageInv, PageIsCoherent, Shown, PageReads
  <2>8. PageTypeOK'
    BY <1>2, PageTypeNext DEF PageInv, StatusNext
  <2> QED
    BY <2>3, <2>4, <2>5, <2>6, <2>7, <2>8 DEF PageInv
<1>3. CASE OpenPage /\ UNCHANGED <<allVars, last_run>>
  <2>1. /\ UNCHANGED <<now, last_backup_at, job, backup, last_run>>
        /\ page'.read = 0
    BY <1>3 DEF OpenPage, Blank, allVars, backupVars, healthVars
  <2>2. PageTypeOK'
    BY <1>3, PageTypeNext DEF PageInv, StatusNext
  <2>3. PageIsCoherent'
    BY <2>1, PageReadsTwo DEF PageIsCoherent, Shown, PageReads
  <2> QED
    BY <1>t, <2>1, <2>2, <2>3 DEF PageInv, FreshInv, Justified
<1>4. CASE ReadValue /\ UNCHANGED <<allVars, last_run>>
  <2>1. UNCHANGED <<now, last_backup_at, job, backup, last_run>>
    BY <1>4 DEF allVars, backupVars, healthVars
  <2>2. PageTypeOK'
    BY <1>4, PageTypeNext DEF PageInv, StatusNext
  <2>3. page.read \in 0..1
    BY <1>4, PageReadsTwo DEF ReadValue, Shown, PageInv, PageTypeOK
  <2>4. FreshInv'
    BY <1>t, <2>1 DEF FreshInv
  <2>5. CASE page.read = 0
    <3>1. page' = [read |-> 1, last_run |-> last_run, last_backup_at |-> page.last_backup_at]
      BY <1>4, <2>5, PageReadsTwo DEF ReadValue
    <3>2. page'.read = 1 /\ page'.last_run = last_run
      BY <3>1
    <3>3. (Justified(page.last_run))' /\ (Justified(last_run))'
      BY <2>1, <3>2 DEF Justified, PageInv
    <3>4. PageIsCoherent'
      BY <3>2, PageReadsTwo DEF PageIsCoherent, Shown, PageReads
    <3> QED
      BY <1>t, <2>1, <2>2, <2>4, <3>3, <3>4 DEF PageInv
  <2>6. CASE page.read = 1
    <3>1. page' = [read |-> 2, last_run |-> page.last_run, last_backup_at |-> last_backup_at]
      BY <1>4, <2>6, PageReadsTwo DEF ReadValue
    <3>2. page'.last_run = page.last_run /\ page'.last_backup_at = last_backup_at
      BY <3>1
    <3>3. Justified(page.last_run) /\ Justified(last_run)
      BY <2>6 DEF PageInv
    <3>4. (Justified(page.last_run))' /\ (Justified(last_run))'
      BY <2>1, <3>2, <3>3 DEF Justified
    <3>5. PageIsCoherent'
      BY <3>2, <3>3 DEF PageIsCoherent, Justified
    <3> QED
      BY <1>t, <2>1, <2>2, <2>4, <3>4, <3>5 DEF PageInv
  <2> QED
    BY <2>3, <2>5, <2>6
<1>5. CASE UNCHANGED statusVars
  BY <1>5 DEF statusVars, allVars, backupVars, healthVars, pageVars, PageInv, PageTypeOK, HealthTypeOK, BackupTypeOK,
     FreshInv, Justified, PageIsCoherent, Shown, PageReads
<1> QED
  BY <1>1, <1>2, <1>3, <1>4, <1>5 DEF StatusNext

LEMMA PageInvariant == StatusSpec => []PageInv
<1> QED
  BY PageInvInit, PageInvNext, PTL DEF StatusSpec

\* Types of the script, the job and the page (status.py).
THEOREM PageTypes == StatusSpec => []PageTypeOK
<1>1. PageInv => PageTypeOK
  BY DEF PageInv
<1> QED
  BY <1>1, PageInvariant, PTL

\* A page that shows a success shows the backup that justified it, or a later one,
\* whatever is stored between its reads (status.py, host_health.py).
THEOREM PageCoherent == StatusSpec => []PageIsCoherent
<1>1. PageInv => PageIsCoherent
  BY DEF PageInv
<1> QED
  BY <1>1, PageInvariant, PTL
==============================================================================
