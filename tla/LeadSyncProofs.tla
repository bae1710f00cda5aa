---------------------------- MODULE LeadSyncProofs ----------------------------
(***************************************************************************)
(* Theorems about LeadSync for every number of runs and leads, every page  *)
(* size and attempt limit.  The job takes only steps the guard knows, so   *)
(* what WriteGuardProofs proves of the guard holds of the job as well.     *)
(***************************************************************************)
EXTENDS LeadSync, WriteGuardProofs, WellFoundedInduction

\* The least element a page's CHOOSE looks for exists.
LEMMA CurrentInPage == ASSUME LeadTypeOK, NEW r \in Runs, page[r] # {} PROVE Current(r) \in page[r]
<1>1. page[r] \subseteq Nat
  BY LeadAssumption DEF LeadTypeOK
<1> DEFINE Less == OpToRel(<, Nat)
<1>2. IsWellFoundedOn(Less, Nat)
  BY NatLessThanWellFounded
<1>3. \A m, n \in Nat : m < n => <<m, n>> \in Less
  BY DEF OpToRel
<1> HIDE DEF Less
<1>4. PICK l \in page[r] : \A m \in page[r] : ~(<<m, l>> \in Less)
  BY <1>1, <1>2, WFMin
<1>5. ASSUME NEW m \in page[r] PROVE l <= m
  <2>1. m \in Nat /\ l \in Nat
    BY <1>1
  <2>2. <<m, l>> \notin Less
    BY <1>4
  <2>3. ~(m < l)
    BY <1>3, <2>1, <2>2
  <2> QED
    BY <2>1, <2>3
<1>6. \E x \in page[r] : \A m \in page[r] : x <= m
  BY <1>5
<1> QED
  BY <1>6, Zenon DEF Current

------------------------------------------------------------------------------
(* The job keeps to the guard's protocol.                                    *)

LEMMA JobStepIsGuardStep == ASSUME LeadTypeOK, [LeadNext]_vars PROVE [GuardNext]_guardVars
<1>1. ASSUME NEW r \in Runs, StartRun(r) \/ SendLead(r) PROVE GuardNext
  <2>1. CASE StartRun(r)
    BY <2>1 DEF StartRun, GuardNext
  <2>2. CASE SendLead(r)
    <3>1. Current(r) \in Keys
      BY <2>2, CurrentInPage DEF SendLead, LeadTypeOK
    <3> QED
      BY <2>2, <3>1 DEF SendLead, GuardNext
  <2> QED
    BY <1>1, <2>1, <2>2
<1>2. ASSUME NEW r \in Runs, FinishRun(r) \/ SkipLead(r) PROVE UNCHANGED guardVars
  BY <1>2 DEF FinishRun, SkipLead
<1>3. ASSUME NEW r \in Runs, NEW reply \in DbReplies, MarkSuccess(r, reply) \/ MarkFailure(r, reply)
      PROVE  UNCHANGED guardVars
  BY <1>3 DEF MarkSuccess, MarkFailure
<1>4. ASSUME NEW r \in Runs, GuardStep(r) \/ JobCrash(r) PROVE GuardNext
  BY <1>4 DEF GuardStep, JobCrash, GuardNext
<1>5. CASE Environment
  BY <1>5 DEF GuardNext
<1>6. CASE UNCHANGED vars
  BY <1>6 DEF vars
<1> QED
  BY <1>1, <1>2, <1>3, <1>4, <1>5, <1>6 DEF LeadNext, JobStep

LEMMA LeadTypeInit == LeadInit => LeadTypeOK /\ AtWork
BY TypeInit, BatchAssumption DEF LeadInit, LeadTypeOK, AtWork, Steps

LEMMA LeadTypeNext == LeadTypeOK /\ AtWork /\ [LeadNext]_vars => LeadTypeOK'
<1> SUFFICES ASSUME LeadTypeOK, AtWork, [LeadNext]_vars PROVE LeadTypeOK'
  OBVIOUS
<1>a. TypeOK'
  BY JobStepIsGuardStep, TypeNext DEF LeadTypeOK
<1> DEFINE JobType ==
      /\ crm_synced' \in [Keys -> BOOLEAN]
      /\ crm_sync_attempts' \in [Keys -> Nat]
      /\ page' \in [Runs -> SUBSET Keys]
      /\ step' \in [Runs -> Steps]
      /\ crashes' \in 0..MaxCrashes
<1> USE DEF JobGoto, NextLead, EndRun, leadVars
<1> USE DEF LeadTypeOK, Steps
<1>1. ASSUME NEW r \in Runs, StartRun(r) PROVE JobType
  BY <1>1 DEF StartRun, PendingPage
<1>2. ASSUME NEW r \in Runs, SendLead(r) \/ FinishRun(r) \/ SkipLead(r) PROVE JobType
  BY <1>2 DEF SendLead, FinishRun, SkipLead
<1>3. ASSUME NEW r \in Runs, NEW reply \in DbReplies, MarkSuccess(r, reply) PROVE JobType
  <2>1. crm_synced' \in [Keys -> BOOLEAN]
    BY <1>3 DEF MarkSuccess
  <2>2. page' \in [Runs -> SUBSET Keys] /\ step' \in [Runs -> Steps]
    BY <1>3 DEF MarkSuccess
  <2> QED
    BY <1>3, <2>1, <2>2 DEF MarkSuccess
<1>4. ASSUME NEW r \in Runs, NEW reply \in DbReplies, MarkFailure(r, reply) PROVE JobType
  <2>1. Current(r) \in Keys
    BY <1>4 DEF MarkFailure, Answered, AtWork
  <2>2. [crm_sync_attempts EXCEPT ![Current(r)] = @ + 1] \in [Keys -> Nat]
    BY <2>1
  <2>3. crm_sync_attempts' \in [Keys -> Nat]
    BY <1>4, <2>2 DEF MarkFailure
  <2>4. page' \in [Runs -> SUBSET Keys] /\ step' \in [Runs -> Steps]
    BY <1>4 DEF MarkFailure
  <2> QED
    BY <1>4, <2>3, <2>4 DEF MarkFailure
<1>5. ASSUME NEW r \in Runs, GuardStep(r) PROVE JobType
  BY <1>5 DEF GuardStep, jobVars
<1>6. ASSUME NEW r \in Runs, JobCrash(r) PROVE JobType
  BY <1>6, BatchAssumption DEF JobCrash
<1>7. ASSUME UNCHANGED jobVars PROVE JobType
  BY <1>7 DEF jobVars
<1>8. JobType
  <2> HIDE DEF JobType
  <2> QED
    BY <1>1, <1>2, <1>3, <1>4, <1>5, <1>6, <1>7 DEF LeadNext, JobStep, vars
<1> QED
  BY <1>a, <1>8

LEMMA AtWorkNext == LeadTypeOK /\ AtWork /\ [LeadNext]_vars => AtWork'
<1> SUFFICES ASSUME LeadTypeOK, AtWork, [LeadNext]_vars PROVE AtWork'
  OBVIOUS
<1> USE DEF JobGoto, NextLead, EndRun, LeadTypeOK
\* A run's current lead changes only with its page.
<1>0. \A p \in Runs : page'[p] = page[p] => Current(p)' = Current(p)
  BY DEF Current
<1>1. ASSUME NEW r \in Runs, StartRun(r) \/ FinishRun(r) \/ SkipLead(r) PROVE AtWork'
  <2>1. step'[r] \in {"choosing", "waiting"} /\ (step'[r] = "waiting" => page'[r] = {})
    BY <1>1 DEF StartRun, FinishRun, SkipLead, Steps
  <2>2. \A p \in Runs \ {r} : step'[p] = step[p] /\ page'[p] = page[p] /\ external_id'[p] = external_id[p]
    BY <1>1 DEF StartRun, FinishRun, SkipLead, NewRun, guardVars
  <2> QED
    BY <1>0, <2>1, <2>2 DEF AtWork
<1>2. ASSUME NEW r \in Runs, SendLead(r) PROVE AtWork'
  <2>1. Current(r) \in page[r] /\ page' = page
    BY <1>2, CurrentInPage DEF SendLead
  <2>2. step'[r] = "calling" /\ external_id'[r] = Current(r)
    BY <1>2 DEF SendLead, Call, TypeOK
  <2>3. \A p \in Runs \ {r} : step'[p] = step[p] /\ external_id'[p] = external_id[p]
    BY <1>2 DEF SendLead, Call, TypeOK
  <2> QED
    BY <1>0, <2>1, <2>2, <2>3 DEF AtWork
<1>3. ASSUME NEW r \in Runs, NEW reply \in DbReplies, MarkSuccess(r, reply) \/ MarkFailure(r, reply)
      PROVE  AtWork'
  <2>1. \A p \in Runs \ {r} : step'[p] = step[p] /\ page'[p] = page[p]
    BY <1>3 DEF MarkSuccess, MarkFailure
  <2>2. external_id' = external_id
    BY <1>3 DEF MarkSuccess, MarkFailure, guardVars
  <2>3. \/ step'[r] = "choosing"
        \/ step'[r] = "waiting" /\ page'[r] = {}
        \/ step'[r] = "marking_failure" /\ page'[r] = page[r] /\ step[r] = "calling"
    BY <1>3 DEF MarkSuccess, MarkFailure, Answered
  <2> QED
    BY <1>0, <2>1, <2>2, <2>3 DEF AtWork
<1>4. ASSUME NEW r \in Runs, GuardStep(r) PROVE AtWork'
  <2>1. external_id' = external_id
    BY <1>4 DEF GuardStep, CallStep, callVars, SwitchIsOn, IsDryRun, RunBudgetSpent, Refuse,
                StartCounting, DayBudgetSpent, DayBudgetLeft, ReadFails, ClaimRefused, Execute,
                FunctionReturns, FunctionRaises, RecordRefusal, Claim, RecordError, RecordOk
  <2> QED
    BY <1>0, <1>4, <2>1 DEF GuardStep, jobVars, AtWork
<1>5. ASSUME NEW r \in Runs, JobCrash(r) PROVE AtWork'
  <2>1. step'[r] = "waiting" /\ page'[r] = {} /\ external_id' = external_id
    BY <1>5 DEF JobCrash, Crash, NewRun, Steps
  <2>2. \A p \in Runs \ {r} : step'[p] = step[p] /\ page'[p] = page[p]
    BY <1>5 DEF JobCrash
  <2> QED
    BY <1>0, <2>1, <2>2 DEF AtWork
<1>6. CASE Environment /\ UNCHANGED jobVars
  BY <1>0, <1>6 DEF Environment, SetKillSwitch, CacheWindowPasses, Midnight, callVars, jobVars, AtWork
<1>7. CASE UNCHANGED vars
  BY <1>0, <1>7 DEF vars, guardVars, jobVars, AtWork
<1> QED
  BY <1>1, <1>2, <1>3, <1>4, <1>5, <1>6, <1>7 DEF LeadNext, JobStep

\* Composition: a behaviour of the job is a behaviour of the guard, so the
\* guard's theorems are the job's (lead_sync.py:112 is its only call).
THEOREM JobKeepsProtocol == LeadSpec => GuardSpec
<1>1. LeadInit => LeadTypeOK /\ AtWork /\ GuardInit
  BY LeadTypeInit DEF LeadInit
<1>2. LeadTypeOK /\ AtWork /\ [LeadNext]_vars
      => LeadTypeOK' /\ AtWork' /\ [GuardNext]_guardVars
  BY LeadTypeNext, AtWorkNext, JobStepIsGuardStep
<1> QED
  BY <1>1, <1>2, PTL DEF LeadSpec, GuardSpec

\* A lead is upserted at most once, however often it is selected and retried,
\* unless the guard forgot its row (lead_sync.py:112-135, guards.py:148-181).
THEOREM LeadsAtMostOnce == LeadSpec => []AtMostOnce
BY JobKeepsProtocol, WritesAtMostOnce

\* Types of the job and of the guard it goes through (lead_sync.py).
THEOREM LeadTypes == LeadSpec => []LeadTypeOK
<1> QED
  BY LeadTypeInit, LeadTypeNext, AtWorkNext, PTL DEF LeadSpec

------------------------------------------------------------------------------
(* What the job reports of a lead.                                           *)

LEMMA SyncedNext ==
  LeadTypeOK /\ AtWork /\ GuardFacts /\ SyncedWasApplied /\ [LeadNext]_vars => SyncedWasApplied'
<1> SUFFICES ASSUME LeadTypeOK, AtWork, GuardFacts, SyncedWasApplied, [LeadNext]_vars
    PROVE  SyncedWasApplied'
  OBVIOUS
<1>a. [GuardNext]_guardVars /\ TypeOK
  BY JobStepIsGuardStep DEF LeadTypeOK
<1>b. \A k \in Keys : applied[k] \in Nat /\ applied'[k] \in Nat /\ applied'[k] >= applied[k]
  BY <1>a, AppliedGrows
<1>1. ASSUME NEW r \in Runs, NEW reply \in DbReplies, MarkSuccess(r, reply) PROVE SyncedWasApplied'
  <2>1. applied' = applied /\ applied[Current(r)] >= 1
    BY <1>1 DEF MarkSuccess, Answered, guardVars, AtWork, GuardFacts, ValueMeansApplied
  <2>2. \A l \in Keys : crm_synced'[l] => crm_synced[l] \/ l = Current(r)
    BY <1>1 DEF MarkSuccess, LeadTypeOK
  <2> QED
    BY <2>1, <2>2 DEF SyncedWasApplied
<1>2. CASE crm_synced' = crm_synced
  BY <1>b, <1>2 DEF SyncedWasApplied
<1>3. crm_synced' = crm_synced \/ \E r \in Runs, reply \in DbReplies : MarkSuccess(r, reply)
  <2>1. ASSUME NEW r \in Runs, StartRun(r) \/ SendLead(r) \/ FinishRun(r) \/ SkipLead(r) \/ GuardStep(r) \/ JobCrash(r)
        PROVE  crm_synced' = crm_synced
    BY <2>1 DEF StartRun, SendLead, FinishRun, SkipLead, GuardStep, JobCrash, leadVars, jobVars
  <2>2. ASSUME NEW r \in Runs, NEW reply \in DbReplies, MarkFailure(r, reply) PROVE crm_synced' = crm_synced
    BY <2>2 DEF MarkFailure
  <2>3. UNCHANGED jobVars => crm_synced' = crm_synced
    BY DEF jobVars
  <2> QED
    BY <2>1, <2>2, <2>3 DEF LeadNext, JobStep, vars
<1> QED
  BY <1>1, <1>2, <1>3

\* No lead is marked synced whose upsert did not happen, for any interleaving,
\* failure and crash (lead_sync.py:112-123).
THEOREM SyncedLeadsReachedZoho == LeadSpec => []SyncedWasApplied
<1> DEFINE IInv == LeadTypeOK /\ AtWork /\ GuardFacts /\ SyncedWasApplied
<1>1. LeadInit => IInv
  BY LeadTypeInit, GuardFactsInit DEF LeadInit, SyncedWasApplied
<1>2. IInv /\ [LeadNext]_vars => IInv'
  BY LeadTypeNext, AtWorkNext, SyncedNext, JobStepIsGuardStep, GuardFactsNext DEF LeadTypeOK
<1> QED
  BY <1>1, <1>2, PTL DEF LeadSpec

------------------------------------------------------------------------------
(* How far the attempts go.                                                  *)

LEMMA SelectorsFinite ==
  ASSUME NEW l
  PROVE  IsFiniteSet(Selectors(l)) /\ Cardinality(Selectors(l)) \in 0..Cardinality(Runs)
<1>1. Selectors(l) \in SUBSET Runs
  BY DEF Selectors
<1>2. /\ IsFiniteSet(Selectors(l))
      /\ Cardinality(Selectors(l)) <= Cardinality(Runs)
  BY <1>1, FiniteAssumption, FS_Subset
<1> QED
  BY <1>2, FiniteAssumption, FS_CardinalityType

\* Counts do not change and no run but r may have a lead newly in its page; the
\* leads r takes are still to be counted below the limit.
LEMMA SelectionCommits ==
  ASSUME LeadTypeOK, AttemptsCommitted, NEW r \in Runs, UNCHANGED crm_sync_attempts,
         page[r] = {}, page'[r] \subseteq {l \in Keys : crm_sync_attempts[l] < MaxAttempts},
         \A p \in Runs \ {r} : page'[p] = page[p]
  PROVE  AttemptsCommitted'
<1> SUFFICES ASSUME NEW l \in Keys
             PROVE  crm_sync_attempts[l] + Cardinality(Selectors(l)') <= MaxAttempts + Cardinality(Runs) - 1
  BY DEF AttemptsCommitted
<1>t. crm_sync_attempts[l] \in Nat /\ MaxAttempts \in Nat /\ Cardinality(Runs) \in Nat
  BY BatchAssumption, FiniteAssumption, FS_CardinalityType DEF LeadTypeOK
<1>1. Selectors(l)' \in SUBSET Runs
  BY DEF Selectors
<1>2. Cardinality(Selectors(l)') <= Cardinality(Runs) /\ Cardinality(Selectors(l)') \in Nat
  BY <1>1, FiniteAssumption, FS_Subset, FS_CardinalityType
<1>3. CASE l \in page'[r]
  BY <1>t, <1>2, <1>3
<1>4. CASE l \notin page'[r]
  <2>1. Selectors(l)' = Selectors(l)
    BY <1>4 DEF Selectors
  <2> QED
    BY <2>1 DEF AttemptsCommitted
<1> QED
  BY <1>3, <1>4

\* Pages only shrink, and a lead is counted up by a run that leaves it.
LEMMA CountingCommits ==
  ASSUME LeadTypeOK, AttemptsCommitted, NEW r \in Runs, NEW l \in Keys,
         page'[r] \subseteq page[r], \A p \in Runs \ {r} : page'[p] = page[p],
         \/ UNCHANGED crm_sync_attempts
         \/ /\ crm_sync_attempts' = [crm_sync_attempts EXCEPT ![l] = @ + 1]
            /\ l \in page[r] /\ l \notin page'[r]
  PROVE  AttemptsCommitted'
<1> SUFFICES ASSUME NEW m \in Keys
             PROVE  crm_sync_attempts'[m] + Cardinality(Selectors(m)') <= MaxAttempts + Cardinality(Runs) - 1
  BY DEF AttemptsCommitted
<1>t. crm_sync_attempts[m] \in Nat /\ MaxAttempts \in Nat /\ Cardinality(Runs) \in Nat
  BY BatchAssumption, FiniteAssumption, FS_CardinalityType DEF LeadTypeOK
<1>1. crm_sync_attempts[m] + Cardinality(Selectors(m)) <= MaxAttempts + Cardinality(Runs) - 1
  BY DEF AttemptsCommitted
<1>2. Selectors(m)' \in SUBSET Selectors(m)
  BY DEF Selectors
<1>3. /\ IsFiniteSet(Selectors(m)) /\ Cardinality(Selectors(m)) \in Nat
      /\ Cardinality(Selectors(m)') <= Cardinality(Selectors(m)) /\ Cardinality(Selectors(m)') \in Nat
  BY <1>2, SelectorsFinite, FS_Subset, FS_CardinalityType
<1>4. CASE crm_sync_attempts'[m] = crm_sync_attempts[m]
  BY <1>t, <1>1, <1>3, <1>4
<1>5. CASE crm_sync_attempts'[m] # crm_sync_attempts[m]
  <2>1. m = l /\ crm_sync_attempts'[m] = crm_sync_attempts[m] + 1 /\ m \in page[r] /\ m \notin page'[r]
    BY <1>5 DEF LeadTypeOK
  <2>2. r \in Selectors(m) /\ Selectors(m)' \in SUBSET (Selectors(m) \ {r})
    BY <1>2, <2>1 DEF Selectors
  <2>3. IsFiniteSet(Selectors(m) \ {r}) /\ Cardinality(Selectors(m) \ {r}) = Cardinality(Selectors(m)) - 1
    BY <1>3, <2>2, FS_RemoveElement
  <2>4. Cardinality(Selectors(m)') <= Cardinality(Selectors(m)) - 1
    BY <2>2, <2>3, FS_Subset
  <2> QED
    BY <1>t, <1>1, <1>3, <2>1, <2>4
<1> QED
  BY <1>4, <1>5

LEMMA AttemptsInit == LeadInit => AttemptsCommitted
<1> SUFFICES ASSUME LeadInit, NEW l \in Keys
             PROVE  crm_sync_attempts[l] + Cardinality(Selectors(l)) <= MaxAttempts + Cardinality(Runs) - 1
  BY DEF AttemptsCommitted
<1>1. Selectors(l) = {}
  BY DEF LeadInit, Selectors
<1>2. crm_sync_attempts[l] = 0 /\ Cardinality(Selectors(l)) = 0
  BY <1>1, FS_EmptySet DEF LeadInit
<1> QED
  BY <1>2, BatchAssumption, FiniteAssumption, FS_CardinalityType

LEMMA AttemptsNext ==
  ASSUME LeadTypeOK, AtWork, AttemptsCommitted, [LeadNext]_vars
  PROVE  AttemptsCommitted'
<1>1. ASSUME NEW r \in Runs, StartRun(r) PROVE AttemptsCommitted'
  <2>1. page[r] = {} /\ page'[r] = PendingPage /\ \A p \in Runs \ {r} : page'[p] = page[p]
    BY <1>1 DEF StartRun, AtWork, LeadTypeOK
  <2>2. PendingPage \subseteq {l \in Keys : crm_sync_attempts[l] < MaxAttempts}
    BY DEF PendingPage, Pending
  <2>3. UNCHANGED crm_sync_attempts
    BY <1>1 DEF StartRun, leadVars
  <2> QED
    BY <2>1, <2>2, <2>3, SelectionCommits
<1>2. ASSUME NEW r \in Runs, page'[r] \subseteq page[r], \A p \in Runs \ {r} : page'[p] = page[p],
             UNCHANGED crm_sync_attempts
      PROVE  AttemptsCommitted'
  <2>1. CASE Keys = {}
    BY <2>1 DEF AttemptsCommitted
  <2>2. CASE Keys # {}
    BY <1>2, <2>2, CountingCommits
  <2> QED
    BY <2>1, <2>2
<1>3. ASSUME NEW r \in Runs, SendLead(r) \/ FinishRun(r) \/ SkipLead(r) PROVE AttemptsCommitted'
  <2>1. page'[r] \subseteq page[r] /\ \A p \in Runs \ {r} : page'[p] = page[p]
    BY <1>3 DEF SendLead, FinishRun, SkipLead, NextLead, EndRun, LeadTypeOK
  <2>2. UNCHANGED crm_sync_attempts
    BY <1>3 DEF SendLead, FinishRun, SkipLead, leadVars
  <2> QED
    BY <1>2, <2>1, <2>2
<1>4. ASSUME NEW r \in Runs, NEW reply \in DbReplies, MarkSuccess(r, reply) PROVE AttemptsCommitted'
  <2>1. page'[r] \subseteq page[r] /\ \A p \in Runs \ {r} : page'[p] = page[p]
    BY <1>4 DEF MarkSuccess, NextLead, LeadTypeOK
  <2>2. UNCHANGED crm_sync_attempts
    BY <1>4 DEF MarkSuccess
  <2> QED
    BY <1>2, <2>1, <2>2
<1>5. ASSUME NEW r \in Runs, NEW reply \in DbReplies, MarkFailure(r, reply) PROVE AttemptsCommitted'
  <2>1. PICK l : l = Current(r)
    OBVIOUS
  <2>2. l \in page[r] /\ l \in Keys
    BY <1>5, <2>1 DEF MarkFailure, Answered, AtWork, LeadTypeOK
  <2>3. page' = [page EXCEPT ![r] = @ \ {l}] \/ page' = [page EXCEPT ![r] = {}]
    BY <1>5, <2>1 DEF MarkFailure, NextLead, EndRun
  <2>4. page'[r] \subseteq page[r] /\ l \notin page'[r] /\ \A p \in Runs \ {r} : page'[p] = page[p]
    BY <2>3 DEF LeadTypeOK
  <2>5. \/ UNCHANGED crm_sync_attempts
        \/ crm_sync_attempts' = [crm_sync_attempts EXCEPT ![l] = @ + 1]
    BY <1>5, <2>1 DEF MarkFailure
  <2> QED
    BY <2>2, <2>4, <2>5, CountingCommits
<1>6. ASSUME NEW r \in Runs, GuardStep(r) \/ JobCrash(r) PROVE AttemptsCommitted'
  <2>1. page'[r] \subseteq page[r] /\ \A p \in Runs \ {r} : page'[p] = page[p]
    BY <1>6 DEF GuardStep, JobCrash, EndRun, jobVars, LeadTypeOK
  <2>2. UNCHANGED crm_sync_attempts
    BY <1>6 DEF GuardStep, JobCrash, jobVars, leadVars
  <2> QED
    BY <1>2, <2>1, <2>2
<1>7. CASE UNCHANGED jobVars
  BY <1>7 DEF jobVars, AttemptsCommitted, Selectors
<1>8. (\E r \in Runs : JobStep(r) \/ JobCrash(r)) \/ UNCHANGED jobVars
  BY DEF LeadNext, vars
<1> QED
  BY <1>1, <1>3, <1>4, <1>5, <1>6, <1>7, <1>8 DEF JobStep

\* Runs that select a lead together carry its attempts past the limit, but by less
\* than one each, for every number of runs (lead_sync.py:29, 43).
THEOREM AttemptsStayBounded == LeadSpec => []AttemptsBounded
<1> DEFINE Inv == LeadTypeOK /\ AtWork /\ AttemptsCommitted
<1>1. LeadInit => Inv
  BY LeadTypeInit, AttemptsInit
<1>2. Inv /\ [LeadNext]_vars => Inv'
  BY LeadTypeNext, AtWorkNext, AttemptsNext DEF vars
<1>3. Inv => AttemptsBounded
  <2> SUFFICES ASSUME LeadTypeOK, AttemptsCommitted, NEW l \in Keys
               PROVE  crm_sync_attempts[l] <= MaxAttempts + Cardinality(Runs) - 1
    BY DEF AttemptsBounded
  <2>1. crm_sync_attempts[l] + Cardinality(Selectors(l)) <= MaxAttempts + Cardinality(Runs) - 1
    BY DEF AttemptsCommitted
  <2>2. crm_sync_attempts[l] \in Nat /\ Cardinality(Selectors(l)) \in Nat /\ Cardinality(Runs) \in Nat
    BY SelectorsFinite, FiniteAssumption, FS_CardinalityType DEF LeadTypeOK
  <2> QED
    BY <2>1, <2>2, BatchAssumption
<1> QED
  BY <1>1, <1>2, <1>3, PTL DEF LeadSpec
==============================================================================
