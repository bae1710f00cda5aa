----------------------------- MODULE DeployProofs -----------------------------
(***************************************************************************)
(* Deploy for every number of releases and of scheduled scripts.  Each     *)
(* invariant is strengthened by what an operation has established by the   *)
(* step it is at, and that is inductive.                                   *)
(***************************************************************************)
EXTENDS Deploy, TLAPS

USE DEF At, Goto

------------------------------------------------------------------------------
(* Types.                                                                    *)

LEMMA NoOpTyped == NoOp \in [step : OpSteps, kind : Kinds, tag : AtMostOne, trap : BOOLEAN]
  BY DEF NoOp, OpSteps, Kinds, AtMostOne

LEMMA TypeInit == DeployInit => DeployTypeOK
  BY NoOpTyped DEF DeployInit, DeployTypeOK, AtMostOne, JobSteps

\* An operation that ends leaves its variables and the files well typed.
LEMMA EndOpTyped ==
  ASSUME DeployTypeOK, EndOp
  PROVE  /\ op' \in [step : OpSteps, kind : Kinds, tag : AtMostOne, trap : BOOLEAN]
         /\ tis_env' \in BOOLEAN
         /\ backup_env' \in {"none", "full", "sanitized"}
         /\ untended' \in BOOLEAN /\ stray' \in BOOLEAN
  BY NoOpTyped DEF EndOp, Remove, Leaves, DeployTypeOK, named

\* Every step preserves the types.
LEMMA TypeNext == DeployTypeOK /\ [DeployNext]_deployVars => DeployTypeOK'
<1> SUFFICES ASSUME DeployTypeOK, [DeployNext]_deployVars PROVE DeployTypeOK'
  OBVIOUS
<1> USE DEF DeployTypeOK, records, secrets, named
<1>1. ASSUME NEW release \in Releases, StartDeploy(release) PROVE DeployTypeOK'
  BY <1>1 DEF StartDeploy, OpSteps, Kinds, AtMostOne
<1>2. CASE StartRollback
  BY <1>2 DEF StartRollback, OpSteps, Kinds, AtMostOne
<1>3. CASE Find
  BY <1>3 DEF Find, OpSteps
<1>4. CASE Decrypt
  BY <1>4 DEF Decrypt, OpSteps
<1>5. CASE DecryptBackup
  BY <1>5 DEF DecryptBackup, OpSteps
<1>6. CASE PutDryRun
  BY <1>6 DEF PutDryRun, OpSteps
<1>7. CASE PutSanitized
  BY <1>7 DEF PutSanitized, OpSteps
<1>8. CASE Copy \/ ReadOnly
  <2>1. op' \in [step : OpSteps, kind : Kinds, tag : AtMostOne, trap : BOOLEAN]
    BY <1>8 DEF Copy, ReadOnly, Proceeds, OpSteps
  <2> QED
    BY <1>8, <2>1 DEF Copy, ReadOnly
<1>9. CASE Save
  BY <1>9 DEF Save, OpSteps
<1>10. CASE UpPartly
  <2>1. op.tag \subseteq Releases
    BY DEF AtMostOne
  <2> QED
    BY <1>10, <2>1 DEF UpPartly, Touched
<1>11. CASE Up
  <2>1. op.tag \subseteq Releases
    BY DEF AtMostOne
  <2> QED
    BY <1>11, <2>1 DEF Up, Touched, OpSteps
<1>12. CASE SmokePasses
  <2>1. op.tag \subseteq Releases
    BY DEF AtMostOne
  <2> QED
    BY <1>12, <2>1 DEF SmokePasses, OpSteps
<1>13. CASE SmokeFails
  <2>1. CASE op.kind = "deploy"
    BY <1>13, <2>1 DEF SmokeFails, OpSteps, Kinds
  <2>2. CASE op.kind # "deploy"
    BY <1>13, <2>2, EndOpTyped DEF SmokeFails
  <2> QED
    BY <2>1, <2>2
<1>14. CASE Record
  BY <1>14, EndOpTyped DEF Record
<1>15. CASE Fail
  BY <1>15, EndOpTyped DEF Fail
<1>16. ASSUME NEW j \in Scheduled, StartJob(j) \/ JobDecrypts(j) \/ JobReads(j) PROVE DeployTypeOK'
  BY <1>16 DEF StartJob, JobDecrypts, JobReads, JobAt, JobSteps
<1>17. ASSUME NEW j \in Scheduled, EndJob(j) PROVE DeployTypeOK'
  BY <1>17 DEF EndJob, Remove, Tended, Leaves, JobSteps
<1>18. CASE Terminated
  BY <1>18 DEF Terminated, Remove
<1>19. CASE KillOp
  BY <1>19, NoOpTyped DEF KillOp, Leaves
<1>20. ASSUME NEW j \in Scheduled, KillJob(j) PROVE DeployTypeOK'
  BY <1>20 DEF KillJob, Leaves, JobSteps
<1>21. CASE PowerLoss
  BY <1>21, NoOpTyped DEF PowerLoss, Remove, JobSteps
<1>22. CASE UNCHANGED deployVars
  BY <1>22 DEF deployVars
<1> QED
  BY <1>1, <1>2, <1>3, <1>4, <1>5, <1>6, <1>7, <1>8, <1>9, <1>10, <1>11, <1>12, <1>13, <1>14,
     <1>15, <1>16, <1>17, <1>18, <1>19, <1>20, <1>21, <1>22
  DEF DeployNext, OpStep, JobStep, Outside

\* Every state of the host's operations is well typed, for any numbers of
\* releases and of scheduled scripts.
THEOREM TypeCorrect == DeploySpec => []DeployTypeOK
  BY TypeInit, TypeNext, PTL DEF DeploySpec
------------------------------------------------------------------------------
(* What is recorded has passed smoke.                                        *)

RecordedInv == RecordedPassedSmoke /\ (At("record") => op.tag \subseteq smoked)

LEMMA RecordedNext ==
  DeployTypeOK /\ RecordedInv /\ [DeployNext]_deployVars => RecordedInv'
<1> SUFFICES ASSUME DeployTypeOK, RecordedInv, [DeployNext]_deployVars PROVE RecordedInv'
  OBVIOUS
<1> USE DEF RecordedInv, RecordedPassedSmoke, records
<1>1. op \in [step : OpSteps, kind : Kinds, tag : AtMostOne, trap : BOOLEAN]
  BY DEF DeployTypeOK
<1>2. ASSUME NEW release \in Releases, StartDeploy(release) PROVE RecordedInv'
  BY <1>2 DEF StartDeploy
<1>3. CASE StartRollback \/ Find \/ Decrypt \/ DecryptBackup \/ PutDryRun \/ PutSanitized
  <2>1. CASE StartRollback
    BY <1>1, <2>1 DEF StartRollback
  <2>2. CASE Find
    BY <1>1, <2>2 DEF Find
  <2>3. CASE Decrypt \/ PutDryRun
    BY <1>1, <2>3 DEF Decrypt, PutDryRun
  <2>4. CASE DecryptBackup
    BY <1>1, <2>4 DEF DecryptBackup
  <2>5. CASE PutSanitized
    BY <1>1, <2>5 DEF PutSanitized
  <2> QED
    BY <1>3, <2>1, <2>2, <2>3, <2>4, <2>5
<1>4. CASE Copy \/ ReadOnly
  BY <1>1, <1>4 DEF Copy, ReadOnly, Proceeds
<1>5. CASE Save
  BY <1>1, <1>5 DEF Save
<1>6. CASE UpPartly \/ Up
  BY <1>1, <1>6 DEF UpPartly, Up
<1>7. CASE SmokePasses
  BY <1>1, <1>7 DEF SmokePasses
<1>8. CASE SmokeFails
  <2>1. CASE op.kind = "deploy"
    BY <1>1, <1>8, <2>1 DEF SmokeFails
  <2>2. CASE op.kind # "deploy"
    BY <1>1, <1>8, <2>2 DEF SmokeFails, EndOp, NoOp
  <2> QED
    BY <2>1, <2>2
<1>9. CASE Record
  BY <1>1, <1>9 DEF Record, EndOp, NoOp
<1>10. CASE Fail
  BY <1>10 DEF Fail, EndOp, NoOp
<1>11. CASE JobStep
  BY <1>11 DEF JobStep, StartJob, JobDecrypts, JobReads, EndJob
<1>12. CASE Outside
  BY <1>12 DEF Outside, Terminated, KillOp, KillJob, PowerLoss, NoOp
<1>13. CASE UNCHANGED deployVars
  BY <1>13 DEF deployVars
<1> QED
  BY <1>2, <1>3, <1>4, <1>5, <1>6, <1>7, <1>8, <1>9, <1>10, <1>11, <1>12, <1>13
  DEF DeployNext, OpStep

\* A release is recorded, as the current or as the previous one, only after it
\* has passed smoke, whatever fails, overlaps or is killed.
THEOREM RecordsAreTested == DeploySpec => []RecordedPassedSmoke
<1>1. DeployInit => RecordedInv
  BY DEF DeployInit, RecordedInv, RecordedPassedSmoke, NoOp
<1>2. RecordedInv => RecordedPassedSmoke
  BY DEF RecordedInv
<1> QED
  BY <1>1, <1>2, TypeCorrect, RecordedNext, PTL DEF DeploySpec

------------------------------------------------------------------------------
(* What is recorded runs.                                                    *)

RunningInv ==
  /\ doubt = "no" => running = current
  /\ op.step \in {"smoke", "record"} => running = op.tag

LEMMA RunningNext ==
  DeployTypeOK /\ RunningInv /\ [DeployNext]_deployVars => RunningInv'
<1> SUFFICES ASSUME DeployTypeOK, RunningInv, [DeployNext]_deployVars PROVE RunningInv'
  OBVIOUS
<1> USE DEF RunningInv, records
<1>1. op \in [step : OpSteps, kind : Kinds, tag : AtMostOne, trap : BOOLEAN]
  BY DEF DeployTypeOK
<1>2. ASSUME NEW release \in Releases, StartDeploy(release) PROVE RunningInv'
  BY <1>2 DEF StartDeploy
<1>3. CASE StartRollback \/ Find \/ Decrypt \/ DecryptBackup \/ PutDryRun \/ PutSanitized
  <2>1. CASE StartRollback
    BY <1>1, <2>1 DEF StartRollback
  <2>2. CASE Find
    BY <1>1, <2>2 DEF Find
  <2>3. CASE Decrypt \/ PutDryRun
    BY <1>1, <2>3 DEF Decrypt, PutDryRun
  <2>4. CASE DecryptBackup
    BY <1>1, <2>4 DEF DecryptBackup
  <2>5. CASE PutSanitized
    BY <1>1, <2>5 DEF PutSanitized
  <2> QED
    BY <1>3, <2>1, <2>2, <2>3, <2>4, <2>5
<1>4. CASE Copy \/ ReadOnly
  BY <1>1, <1>4 DEF Copy, ReadOnly, Proceeds
<1>5. CASE Save
  BY <1>1, <1>5 DEF Save
<1>6. CASE UpPartly \/ Up
  BY <1>1, <1>6 DEF UpPartly, Up, Touched
<1>7. CASE SmokePasses
  BY <1>1, <1>7 DEF SmokePasses
<1>8. CASE SmokeFails
  <2>1. CASE op.kind = "deploy"
    BY <1>1, <1>8, <2>1 DEF SmokeFails
  <2>2. CASE op.kind # "deploy"
    BY <1>1, <1>8, <2>2 DEF SmokeFails, EndOp, NoOp
  <2> QED
    BY <2>1, <2>2
<1>9. CASE Record
  BY <1>1, <1>9 DEF Record, EndOp, NoOp
<1>10. CASE Fail
  BY <1>10 DEF Fail, EndOp, NoOp
<1>11. CASE JobStep
  BY <1>11 DEF JobStep, StartJob, JobDecrypts, JobReads, EndJob
<1>12. CASE Outside
  BY <1>12 DEF Outside, Terminated, KillOp, KillJob, PowerLoss, NoOp
<1>13. CASE UNCHANGED deployVars
  BY <1>13 DEF deployVars
<1> QED
  BY <1>2, <1>3, <1>4, <1>5, <1>6, <1>7, <1>8, <1>9, <1>10, <1>11, <1>12, <1>13
  DEF DeployNext, OpStep

\* The recorded release is the one that runs unless an operation has touched the
\* containers and not succeeded.
THEOREM RecordIsWhatRuns == DeploySpec => []RunningIsRecorded
<1>1. DeployInit => RunningInv
  BY DEF DeployInit, RunningInv, NoOp
<1>2. RunningInv => RunningIsRecorded
  BY DEF RunningInv, RunningIsRecorded
<1> QED
  BY <1>1, <1>2, TypeCorrect, RunningNext, PTL DEF DeploySpec

------------------------------------------------------------------------------
(* A failed deploy can be undone.                                            *)

\* A deploy that has saved the record, or its automatic rollback.
Saved ==
  \/ op.kind = "deploy" /\ op.step \in {"pull", "up", "smoke", "record"}
  \/ op.kind = "automatic"

UndoneInv == doubt = "deploy" \/ Saved => previous = current \/ current = {}

LEMMA UndoneNext ==
  DeployTypeOK /\ UndoneInv /\ [DeployNext]_deployVars => UndoneInv'
<1> SUFFICES ASSUME DeployTypeOK, UndoneInv, [DeployNext]_deployVars PROVE UndoneInv'
  OBVIOUS
<1> USE DEF UndoneInv, Saved, records
<1>1. op \in [step : OpSteps, kind : Kinds, tag : AtMostOne, trap : BOOLEAN]
  BY DEF DeployTypeOK
<1>2. ASSUME NEW release \in Releases, StartDeploy(release) PROVE UndoneInv'
  BY <1>2 DEF StartDeploy
<1>3. CASE StartRollback \/ Find \/ Decrypt \/ DecryptBackup \/ PutDryRun \/ PutSanitized
  <2>1. CASE StartRollback
    BY <1>1, <2>1 DEF StartRollback
  <2>2. CASE Find
    BY <1>1, <2>2 DEF Find
  <2>3. CASE Decrypt \/ PutDryRun
    BY <1>1, <2>3 DEF Decrypt, PutDryRun
  <2>4. CASE DecryptBackup
    BY <1>1, <2>4 DEF DecryptBackup
  <2>5. CASE PutSanitized
    BY <1>1, <2>5 DEF PutSanitized
  <2> QED
    BY <1>3, <2>1, <2>2, <2>3, <2>4, <2>5
<1>4. CASE Copy \/ ReadOnly
  BY <1>1, <1>4 DEF Copy, ReadOnly, Proceeds
<1>5. CASE Save
  BY <1>1, <1>5 DEF Save
<1>6. CASE UpPartly \/ Up
  BY <1>1, <1>6 DEF UpPartly, Up, Touched, Kinds
<1>7. CASE SmokePasses
  BY <1>1, <1>7 DEF SmokePasses
<1>8. CASE SmokeFails
  <2>1. CASE op.kind = "deploy"
    BY <1>1, <1>8, <2>1 DEF SmokeFails
  <2>2. CASE op.kind # "deploy"
    BY <1>1, <1>8, <2>2 DEF SmokeFails, EndOp, NoOp
  <2> QED
    BY <2>1, <2>2
<1>9. CASE Record
  BY <1>1, <1>9 DEF Record, EndOp, NoOp
<1>10. CASE Fail
  BY <1>10 DEF Fail, EndOp, NoOp
<1>11. CASE JobStep
  BY <1>11 DEF JobStep, StartJob, JobDecrypts, JobReads, EndJob
<1>12. CASE Outside
  BY <1>12 DEF Outside, Terminated, KillOp, KillJob, PowerLoss, NoOp
<1>13. CASE UNCHANGED deployVars
  BY <1>13 DEF deployVars
<1> QED
  BY <1>2, <1>3, <1>4, <1>5, <1>6, <1>7, <1>8, <1>9, <1>10, <1>11, <1>12, <1>13
  DEF DeployNext, OpStep

\* After a deploy that touched the containers and did not succeed, the previous
\* release, the one a rollback aims for, is the one recorded when it began.
THEOREM PreviousIsRecorded == DeploySpec => []DeployCanBeUndone
<1>1. DeployInit => UndoneInv
  BY DEF DeployInit, UndoneInv, Saved, NoOp
<1>2. UndoneInv => DeployCanBeUndone
  BY DEF UndoneInv, DeployCanBeUndone
<1> QED
  BY <1>1, <1>2, TypeCorrect, UndoneNext, PTL DEF DeploySpec

------------------------------------------------------------------------------
(* Decrypted files are removed, by their names.                              *)

\* Somebody who is still running will remove what is there.
Attended ==
  \/ ~At("idle") /\ op.trap
  \/ \E j \in Scheduled : job[j] # "idle"

\* Past its start an operation has a trap, or is known to have none.
SecretsInv ==
  /\ tis_env \/ backup_env # "none" => untended \/ Attended
  /\ op.step \notin {"idle", "find"} => op.trap \/ untended

LEMMA SecretsNext ==
  DeployTypeOK /\ SecretsInv /\ [DeployNext]_deployVars => SecretsInv'
<1> SUFFICES ASSUME DeployTypeOK, SecretsInv, [DeployNext]_deployVars PROVE SecretsInv'
  OBVIOUS
<1> USE DEF SecretsInv, Attended, secrets, named
<1>1. /\ op \in [step : OpSteps, kind : Kinds, tag : AtMostOne, trap : BOOLEAN]
      /\ job \in [Scheduled -> JobSteps]
      /\ tis_env \in BOOLEAN /\ untended \in BOOLEAN
  BY DEF DeployTypeOK
<1>2. ASSUME NEW release \in Releases, StartDeploy(release) PROVE SecretsInv'
  BY <1>1, <1>2 DEF StartDeploy, NoOp
<1>3. CASE StartRollback
  BY <1>1, <1>3 DEF StartRollback
<1>4. CASE Find
  BY <1>1, <1>4 DEF Find
<1>5. CASE Decrypt \/ DecryptBackup \/ PutDryRun \/ PutSanitized
  BY <1>1, <1>5 DEF Decrypt, DecryptBackup, PutDryRun, PutSanitized
<1>6. CASE Copy \/ ReadOnly
  BY <1>1, <1>6 DEF Copy, ReadOnly, Proceeds
<1>7. CASE Save \/ UpPartly \/ Up \/ SmokePasses
  BY <1>1, <1>7 DEF Save, UpPartly, Up, SmokePasses
<1>8. ASSUME EndOp, UNCHANGED job PROVE SecretsInv'
  BY <1>1, <1>8 DEF EndOp, Remove, NoOp
<1>9. CASE SmokeFails
  BY <1>1, <1>8, <1>9 DEF SmokeFails
<1>10. CASE Record \/ Fail
  BY <1>8, <1>10 DEF Record, Fail
<1>11. ASSUME NEW j \in Scheduled, StartJob(j) \/ JobDecrypts(j) \/ JobReads(j)
       PROVE  SecretsInv'
  <2>1. job'[j] # "idle"
    BY <1>1, <1>11 DEF StartJob, JobDecrypts, JobReads, JobAt
  <2>2. UNCHANGED <<op, untended>>
    BY <1>11 DEF StartJob, JobDecrypts, JobReads
  <2> QED
    BY <2>1, <2>2
<1>12. ASSUME NEW j \in Scheduled, EndJob(j) PROVE SecretsInv'
  BY <1>1, <1>12 DEF EndJob, Remove, Tended
<1>13. CASE Terminated
  BY <1>1, <1>13 DEF Terminated, Remove
<1>14. CASE KillOp
  BY <1>14 DEF KillOp, NoOp
<1>15. ASSUME NEW j \in Scheduled, KillJob(j) PROVE SecretsInv'
  BY <1>15 DEF KillJob
<1>16. CASE PowerLoss
  BY <1>16 DEF PowerLoss, Remove, NoOp
<1>17. CASE UNCHANGED deployVars
  BY <1>17 DEF deployVars
<1> QED
  BY <1>2, <1>3, <1>4, <1>5, <1>6, <1>7, <1>9, <1>10, <1>11, <1>12, <1>13, <1>14, <1>15, <1>16,
     <1>17
  DEF DeployNext, OpStep, JobStep, Outside

\* Whoever ends last removes the decrypted files by their names, for any number
\* of scheduled scripts beside the operation, unless somebody was killed or had no
\* trap.  It says nothing of the copies the files are edited through, whose names
\* the removal does not know: one may stay (Leaves).
THEOREM NamedFilesDoNotStay == DeploySpec => []DecryptedFilesAreRemoved
<1>1. DeployInit => SecretsInv
  BY DEF DeployInit, SecretsInv, Attended, NoOp
<1>2. SecretsInv => DecryptedFilesAreRemoved
  BY DEF SecretsInv, Attended, DecryptedFilesAreRemoved, Alone
<1> QED
  BY <1>1, <1>2, TypeCorrect, SecretsNext, PTL DEF DeploySpec
==============================================================================
