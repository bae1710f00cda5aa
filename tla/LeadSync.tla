------------------------------- MODULE LeadSync -------------------------------
(***************************************************************************)
(* The lead job (tis/jobs/lead_sync.py) over the guarded Zoho upsert: each *)
(* run selects a page of pending rows, oldest first, sends each through    *)
(* the guard (key = the lead's id) and writes the outcome back to leads.   *)
(*                                                                         *)
(* The page is not locked past its SELECT: the statement is a transaction  *)
(* of its own (tis/db.py:81-84), so FOR UPDATE SKIP LOCKED ends with it and *)
(* two runs may hold the same lead in their pages.                         *)
(***************************************************************************)
EXTENDS WriteGuard

CONSTANTS
  MaxAttempts, \* crm_sync_attempts from which a row is no longer selected (10)
  BatchSize,   \* MAX_BATCH_SIZE (25)
  MaxCrashes   \* bound: process deaths in a behaviour

\* Keys are the lead ids, in the order of (created_at, id).
ASSUME LeadAssumption == Keys \subseteq Nat
ASSUME BatchAssumption == MaxAttempts \in Nat \ {0} /\ BatchSize \in Nat \ {0} /\ MaxCrashes \in Nat

VARIABLES
  crm_synced,        \* leads.crm_synced
  crm_sync_attempts, \* leads.crm_sync_attempts
  page,              \* per run: the selected leads not yet finished
  step,              \* per run: where run() is
  crashes            \* how many processes have died

leadVars == <<crm_synced, crm_sync_attempts>>
jobVars  == <<crm_synced, crm_sync_attempts, page, step, crashes>>
vars     == <<guardVars, jobVars>>

Steps == {"waiting", "choosing", "calling", "marking_failure"}

LeadTypeOK ==
  /\ TypeOK
  /\ crm_synced \in [Keys -> BOOLEAN]
  /\ crm_sync_attempts \in [Keys -> Nat]
  /\ page \in [Runs -> SUBSET Keys]
  /\ step \in [Runs -> Steps]
  /\ crashes \in 0..MaxCrashes

LeadInit ==
  /\ GuardInit
  /\ crm_synced = [l \in Keys |-> FALSE]
  /\ crm_sync_attempts = [l \in Keys |-> 0]
  /\ page = [r \in Runs |-> {}]
  /\ step = [r \in Runs |-> "waiting"]
  /\ crashes = 0

------------------------------------------------------------------------------
\* Planted fault: the bound of the selection is off by one.
Pending_OffByOne(l) == ~crm_synced[l] /\ crm_sync_attempts[l] <= MaxAttempts

\* The rows _SELECT_PENDING wants, and the oldest BatchSize of them.
Pending(l) == ~crm_synced[l] /\ crm_sync_attempts[l] < MaxAttempts

PendingPage ==
  {l \in Keys : Pending(l) /\ Cardinality({m \in Keys : Pending(m) /\ m < l}) < BatchSize}

Current(r) == CHOOSE l \in page[r] : \A m \in page[r] : l <= m

JobGoto(r, to) == step' = [step EXCEPT ![r] = to]

\* The run is done with its current lead.
NextLead(r) ==
  /\ JobGoto(r, "choosing")
  /\ page' = [page EXCEPT ![r] = @ \ {Current(r)}]

\* The run ends, its remaining page unprocessed if it is not empty.
EndRun(r) ==
  /\ JobGoto(r, "waiting")
  /\ page' = [page EXCEPT ![r] = {}]

\* The scheduler fires: a fresh WriteContext, then the SELECT.  A run that finds
\* nothing, or whose SELECT fails, ends where it started.
StartRun(r) ==
  /\ step[r] = "waiting"
  /\ PendingPage # {}
  /\ NewRun(r)
  /\ JobGoto(r, "choosing")
  /\ page' = [page EXCEPT ![r] = PendingPage]
  /\ UNCHANGED <<leadVars, crashes>>

SendLead(r) ==
  /\ step[r] = "choosing"
  /\ page[r] # {}
  /\ Call(r, Current(r))
  /\ JobGoto(r, "calling")
  /\ UNCHANGED <<leadVars, page, crashes>>

FinishRun(r) ==
  /\ step[r] = "choosing"
  /\ page[r] = {}
  /\ EndRun(r)
  /\ UNCHANGED <<guardVars, leadVars, crashes>>

Answered(r, outcomes) == step[r] = "calling" /\ pc[r] = "returned" /\ outcome[r] \in outcomes

\* Refusals leave the row as it is: a later run will select it again.
SkipLead(r) ==
  /\ Answered(r, {"dry_run", "KillSwitchOn", "BudgetExceeded"})
  /\ NextLead(r)
  /\ UNCHANGED <<guardVars, leadVars, crashes>>

\* Planted fault: a duplicate is taken for a success.
MarkSuccess_Duplicates(r, reply) ==
  /\ Answered(r, {"value", "DuplicateWrite"})
  /\ IF reply = "failed"
     THEN UNCHANGED crm_synced
     ELSE crm_synced' = [crm_synced EXCEPT ![Current(r)] = TRUE]
  /\ NextLead(r)
  /\ UNCHANGED <<guardVars, crm_sync_attempts, crashes>>

\* mark_success; when its statement raises, the same try block turns to
\* mark_failure.
MarkSuccess(r, reply) ==
  /\ Answered(r, {"value"})
  /\ IF reply = "failed"
     THEN UNCHANGED crm_synced
     ELSE crm_synced' = [crm_synced EXCEPT ![Current(r)] = TRUE]
  /\ IF reply = "done"
     THEN NextLead(r)
     ELSE JobGoto(r, "marking_failure") /\ UNCHANGED page
  /\ UNCHANGED <<guardVars, crm_sync_attempts, crashes>>

\* Planted fault: a failed call is not counted.
MarkFailure_Forgets(r, reply) ==
  /\ Answered(r, {"DuplicateWrite", "Exception"}) \/ step[r] = "marking_failure"
  /\ NextLead(r)
  /\ UNCHANGED <<guardVars, leadVars, crashes>>

\* Planted fault: attempts count down to a limit of zero.
MarkFailure_CountsDown(r, reply) ==
  /\ Answered(r, {"DuplicateWrite", "Exception"}) \/ step[r] = "marking_failure"
  /\ crm_sync_attempts' = [crm_sync_attempts EXCEPT ![Current(r)] = @ - 1]
  /\ NextLead(r)
  /\ UNCHANGED <<guardVars, crm_synced, crashes>>

\* mark_failure; when its statement raises, so does the run.
MarkFailure(r, reply) ==
  LET l == Current(r) IN
  /\ Answered(r, {"DuplicateWrite", "Exception"}) \/ step[r] = "marking_failure"
  /\ IF reply = "failed" \/ crm_synced[l]
     THEN UNCHANGED crm_sync_attempts
     ELSE crm_sync_attempts' = [crm_sync_attempts EXCEPT ![l] = @ + 1]
  /\ IF reply = "done" THEN NextLead(r) ELSE EndRun(r)
  /\ UNCHANGED <<guardVars, crm_synced, crashes>>

\* A step of the guarded call the job awaits.
GuardStep(r) ==
  /\ step[r] = "calling"
  /\ CallStep(r)
  /\ UNCHANGED jobVars

\* The process dies; a later run starts from the tables alone.
JobCrash(r) ==
  /\ step[r] # "waiting"
  /\ crashes < MaxCrashes
  /\ crashes' = crashes + 1
  /\ Crash(r) \/ NewRun(r)
  /\ EndRun(r)
  /\ UNCHANGED leadVars

JobStep(r) ==
  \/ StartRun(r) \/ SendLead(r) \/ FinishRun(r) \/ SkipLead(r) \/ GuardStep(r)
  \/ \E reply \in DbReplies : MarkSuccess(r, reply) \/ MarkFailure(r, reply)

LeadNext ==
  \/ \E r \in Runs : JobStep(r) \/ JobCrash(r)
  \/ Environment /\ UNCHANGED jobVars

LeadSpec == LeadInit /\ [][LeadNext]_vars

\* The interval trigger keeps firing and an awaited statement or request ends
\* (ten-second statement timeout, bounded HTTP timeouts), so a job step that
\* can be taken is taken.  Crashes, the switch and the clock owe nothing.
LeadFairSpec == LeadSpec /\ \A r \in Runs : WF_vars(JobStep(r))

------------------------------------------------------------------------------
\* A lead marked synced has reached Zoho, whichever run marked it and whatever
\* failed in between (lead_sync.py:123).
SyncedWasApplied == \A l \in Keys : crm_synced[l] => applied[l] >= 1

\* Why: while a run works on a lead, the lead is in its page, and the guarded call
\* it awaits carries that lead's key.
AtWork ==
  \A r \in Runs :
    /\ step[r] \in {"calling", "marking_failure"} => Current(r) \in page[r]
    /\ step[r] = "calling" => external_id[r] = Current(r)
    /\ step[r] = "waiting" => page[r] = {}

\* Why: a run with the lead in its page may still count it up once.
Selectors(l) == {r \in Runs : l \in page[r]}

AttemptsCommitted ==
  \A l \in Keys :
    crm_sync_attempts[l] + Cardinality(Selectors(l)) <= MaxAttempts + Cardinality(Runs) - 1

\* crm_sync_attempts < 10 is tested when the page is selected and the row is
\* counted up much later, so concurrent runs carry it past the limit, but by no
\* more than one each (lead_sync.py:29, 43).
AttemptsBounded ==
  \A l \in Keys : crm_sync_attempts[l] <= MaxAttempts + Cardinality(Runs) - 1

\* Every lead is in the end synced or out of attempts: neither a failing row in
\* front, nor a duplicate, nor a run that dies keeps a later row waiting for ever.
LeadsSettle ==
  \A l \in Keys : <>(crm_synced[l] \/ crm_sync_attempts[l] >= MaxAttempts)

\* HOSTING.md:39, on a power outage: "Automatic if the host boots".  A lead whose
\* upsert was recorded before the outage is marked synced afterwards.
RecordedLeadIsMarked ==
  \A l \in Keys : integration_log[l].status = "ok" ~> crm_synced[l]
==============================================================================
