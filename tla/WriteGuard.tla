------------------------------ MODULE WriteGuard ------------------------------
(***************************************************************************)
(* The guard every external write goes through (tis/guards.py): the        *)
(* external_write decorator, its write budget and the integration_log      *)
(* table behind it, for ONE (source, action) pair.  Budgets and rows of    *)
(* different pairs never meet, so one pair is the whole story.             *)
(*                                                                         *)
(* A run is one job execution with its own WriteContext.  Its guarded call *)
(* is cut at every await: between two of them any other run, the operator, *)
(* the clock or a crash may step.  Each statement on integration_log is a  *)
(* transaction of its own (tis/db.py), so each is one atomic step whose    *)
(* reply may be lost or which may fail outright.                           *)
(***************************************************************************)
EXTENDS Integers, FiniteSets

CONSTANTS
  Runs,         \* job executions that can be alive at the same time
  Keys,         \* idempotency keys (external_id) of this source and action
  PerRun,       \* per_run_budgets[source, action]
  PerDay,       \* per_day_budgets[source, action]
  DryModes,     \* DRY_RUN settings a run can be started with
  SwitchValues, \* kill_switch values an operator may store
  DbReplies,    \* how a statement may end, see DbReply
  MaxDay,       \* bound: the last UTC day of the model
  MaxApplied    \* bound: remote effects per key the model counts

\* A statement commits and is acknowledged, commits but its reply is lost, or
\* does nothing and raises.
DbReply == {"done", "lost", "failed"}

ASSUME BudgetAssumption == PerRun \in Nat \ {0} /\ PerDay \in Nat \ {0}
ASSUME ModeAssumption == DryModes \subseteq BOOLEAN /\ SwitchValues \subseteq BOOLEAN
ASSUME ReplyAssumption == DbReplies \subseteq DbReply
ASSUME BoundAssumption == MaxDay \in Nat /\ MaxApplied \in Nat
ASSUME FiniteAssumption == IsFiniteSet(Runs) /\ IsFiniteSet(Keys)

VARIABLES
  integration_log, \* one row per key: status, pending marker, day of updated_at
  day,             \* the current UTC day
  kill_switch,     \* the stored switch
  visible,         \* the values kill_switch_on may answer with now
  pc,              \* where each run is
  external_id,     \* the key of a run's current or last guarded call
  day_start,       \* the day whose start the run counts from
  outcome,         \* what the last guarded call returned or raised
  run_counts,      \* WriteContext.run_counts
  dry_run,         \* WriteContext.dry_run
  \* History, read by no action:
  applied,         \* remote effects per key
  succeeded,       \* writes recorded ok per key
  overwritten,     \* keys whose ok row or live claim a refusal replaced
  ambiguous        \* keys whose write raised after its effect had happened

logVars  == <<integration_log, overwritten>>
envVars  == <<day, kill_switch, visible>>
callVars == <<external_id, day_start, run_counts, dry_run>>
effVars  == <<applied, succeeded, ambiguous>>
guardVars == <<integration_log, day, kill_switch, visible, pc, external_id, day_start,
               outcome, run_counts, dry_run, applied, succeeded, overwritten, ambiguous>>

Statuses == {"none", "ok", "error", "skipped"}
Row      == [status : Statuses, pending : BOOLEAN, day : 0..MaxDay]
Absent   == [status |-> "none", pending |-> FALSE, day |-> 0]

Outcomes == {"none", "value", "dry_run", "KillSwitchOn", "BudgetExceeded",
             "DuplicateWrite", "Exception"}

\* A run is idle before its first guarded call and returned after one; every
\* other value names the await it is suspended in.
HoldingPcs == {"executing", "executed", "recording_ok", "recording_error"}
CallPcs    == {"reading_switch", "refusing", "counting", "claiming"} \cup HoldingPcs
Pcs        == {"idle", "returned"} \cup CallPcs

TypeOK ==
  /\ integration_log \in [Keys -> Row]
  /\ day \in 0..MaxDay
  /\ kill_switch \in BOOLEAN
  /\ visible \in SUBSET BOOLEAN
  /\ pc \in [Runs -> Pcs]
  /\ external_id \in [Runs -> Keys]
  /\ day_start \in [Runs -> 0..MaxDay]
  /\ outcome \in [Runs -> Outcomes]
  /\ run_counts \in [Runs -> Nat]
  /\ dry_run \in [Runs -> BOOLEAN]
  /\ applied \in [Keys -> 0..MaxApplied]
  /\ succeeded \in [Keys -> Nat]
  /\ overwritten \in SUBSET Keys
  /\ ambiguous \in SUBSET Keys

GuardInit ==
  /\ integration_log = [k \in Keys |-> Absent]
  /\ day = 0
  /\ kill_switch \in SwitchValues \cup {FALSE}
  /\ visible = {kill_switch}
  /\ pc = [r \in Runs |-> "idle"]
  /\ external_id \in [Runs -> Keys]
  /\ day_start = [r \in Runs |-> 0]
  /\ outcome = [r \in Runs |-> "none"]
  /\ run_counts = [r \in Runs |-> 0]
  /\ dry_run \in [Runs -> DryModes]
  /\ applied = [k \in Keys |-> 0]
  /\ succeeded = [k \in Keys |-> 0]
  /\ overwritten = {}
  /\ ambiguous = {}

------------------------------------------------------------------------------
(* The steps of one guarded call.                                            *)

Goto(r, to) == pc' = [pc EXCEPT ![r] = to]

Return(r, what) ==
  /\ Goto(r, "returned")
  /\ outcome' = [outcome EXCEPT ![r] = what]

\* The keys of rows an _UPSERT or _CLAIM of this run writes.
Write(k, status, pending) ==
  integration_log' = [integration_log EXCEPT
    ![k] = [status |-> status, pending |-> pending, day |-> day]]

\* A job calls a guarded function with key k: the next await reads the switch.
Call(r, k) ==
  /\ pc[r] \in {"idle", "returned"}
  /\ Goto(r, "reading_switch")
  /\ external_id' = [external_id EXCEPT ![r] = k]
  /\ outcome' = [outcome EXCEPT ![r] = "none"]
  /\ UNCHANGED <<day_start, run_counts, dry_run>>
  /\ UNCHANGED logVars /\ UNCHANGED envVars /\ UNCHANGED effVars

\* The guard decides not to write and goes on to record that decision.
Refuse(r, why) ==
  /\ Goto(r, "refusing")
  /\ outcome' = [outcome EXCEPT ![r] = why]
  /\ UNCHANGED callVars /\ UNCHANGED logVars /\ UNCHANGED envVars /\ UNCHANGED effVars

SwitchIsOn(r) ==
  /\ pc[r] = "reading_switch"
  /\ TRUE \in visible
  /\ Refuse(r, "KillSwitchOn")

\* Planted fault: a dry run or a live one goes on whatever the switch says.
SwitchIsOff_Unread(r) == pc[r] = "reading_switch"

SwitchIsOff(r) == pc[r] = "reading_switch" /\ FALSE \in visible

IsDryRun(r) == SwitchIsOff(r) /\ dry_run[r] /\ Refuse(r, "dry_run")

RunBudgetSpent(r) ==
  /\ SwitchIsOff(r) /\ ~dry_run[r]
  /\ run_counts[r] >= PerRun
  /\ Refuse(r, "BudgetExceeded")

\* The day boundary is computed here, before the count is awaited.
StartCounting(r) ==
  /\ SwitchIsOff(r) /\ ~dry_run[r]
  /\ run_counts[r] < PerRun
  /\ Goto(r, "counting")
  /\ day_start' = [day_start EXCEPT ![r] = day]
  /\ UNCHANGED <<external_id, outcome, run_counts, dry_run>>
  /\ UNCHANGED logVars /\ UNCHANGED envVars /\ UNCHANGED effVars

\* The ok rows _COUNT_DAY counts from a given day on.
OkSince(d) == {k \in Keys : integration_log[k].status = "ok" /\ integration_log[k].day >= d}

successful_today(r) == Cardinality(OkSince(day_start[r]))

DayBudgetSpent(r) ==
  /\ pc[r] = "counting"
  /\ successful_today(r) >= PerDay
  /\ Refuse(r, "BudgetExceeded")

\* Planted fault: the comparison admits one write too many.
DayBudgetLeft_OffByOne(r) ==
  /\ pc[r] = "counting"
  /\ successful_today(r) <= PerDay
  /\ Goto(r, "claiming")
  /\ UNCHANGED outcome
  /\ UNCHANGED callVars /\ UNCHANGED logVars /\ UNCHANGED envVars /\ UNCHANGED effVars

DayBudgetLeft(r) ==
  /\ pc[r] = "counting"
  /\ successful_today(r) < PerDay
  /\ Goto(r, "claiming")
  /\ UNCHANGED outcome
  /\ UNCHANGED callVars /\ UNCHANGED logVars /\ UNCHANGED envVars /\ UNCHANGED effVars

\* A read that raises ends the call; nothing is recorded.
ReadFails(r) ==
  /\ pc[r] \in {"reading_switch", "counting"}
  /\ DbReplies \ {"done"} # {}
  /\ Return(r, "Exception")
  /\ UNCHANGED callVars /\ UNCHANGED logVars /\ UNCHANGED envVars /\ UNCHANGED effVars

\* Planted fault: the reason itself is stored, outside the status constraint.
RefusalStatus_Reason(r) == outcome[r]

RefusalStatus(r) == IF outcome[r] = "BudgetExceeded" THEN "error" ELSE "skipped"

\* record() of a refusal: the upsert replaces whatever row is there.
RecordRefusal(r, reply) ==
  LET k == external_id[r] IN
  /\ pc[r] = "refusing"
  /\ Return(r, IF reply = "done" THEN outcome[r] ELSE "Exception")
  /\ IF reply = "failed"
     THEN UNCHANGED logVars
     ELSE /\ Write(k, RefusalStatus(r), FALSE)
          /\ overwritten' = IF \/ integration_log[k].status = "ok"
                               \/ integration_log[k].pending
                            THEN overwritten \cup {k} ELSE overwritten
  /\ UNCHANGED callVars /\ UNCHANGED envVars /\ UNCHANGED effVars

\* Planted faults of the claim's WHERE clause, for the mutation checks.
Claimable_LosesPending(k) == integration_log[k].status # "ok"
Claimable_LosesStatus(k)  == ~integration_log[k].pending

\* The WHERE clause of _CLAIM; an absent row is inserted.
Claimable(k) == integration_log[k].status # "ok" /\ ~integration_log[k].pending

ClaimRefused(r) ==
  /\ pc[r] = "claiming"
  /\ ~Claimable(external_id[r])
  /\ Return(r, "DuplicateWrite")
  /\ UNCHANGED callVars /\ UNCHANGED logVars /\ UNCHANGED envVars /\ UNCHANGED effVars

\* The reply decides whether the run knows; the commit decides the row.
Claim(r, reply) ==
  /\ pc[r] = "claiming"
  /\ reply # "failed" => Claimable(external_id[r])
  /\ IF reply = "done"
     THEN Goto(r, "executing") /\ UNCHANGED outcome
     ELSE Return(r, "Exception")
  /\ IF reply = "failed"
     THEN UNCHANGED integration_log
     ELSE Write(external_id[r], "skipped", TRUE)
  /\ UNCHANGED overwritten
  /\ UNCHANGED callVars /\ UNCHANGED envVars /\ UNCHANGED effVars

\* The remote service applies the write; the run has not heard yet.
Execute(r) ==
  LET k == external_id[r] IN
  /\ pc[r] = "executing"
  /\ applied[k] < MaxApplied
  /\ Goto(r, "executed")
  /\ applied' = [applied EXCEPT ![k] = @ + 1]
  /\ UNCHANGED <<outcome, succeeded, ambiguous>>
  /\ UNCHANGED callVars /\ UNCHANGED logVars /\ UNCHANGED envVars

\* The wrapped function returns.
FunctionReturns(r) ==
  /\ pc[r] = "executed"
  /\ Goto(r, "recording_ok")
  /\ UNCHANGED outcome
  /\ UNCHANGED callVars /\ UNCHANGED logVars /\ UNCHANGED envVars /\ UNCHANGED effVars

\* Planted fault: the outcome is recorded ok whether the function raised or not.
FunctionRaises_RecordsOk(r) ==
  /\ pc[r] \in {"executing", "executed"}
  /\ Goto(r, "recording_ok")
  /\ UNCHANGED outcome
  /\ UNCHANGED callVars /\ UNCHANGED logVars /\ UNCHANGED envVars /\ UNCHANGED effVars

\* The wrapped function raises, before its effect or after it (a lost answer).
FunctionRaises(r) ==
  /\ pc[r] \in {"executing", "executed"}
  /\ Goto(r, "recording_error")
  /\ ambiguous' = IF pc[r] = "executed"
                  THEN ambiguous \cup {external_id[r]} ELSE ambiguous
  /\ UNCHANGED <<outcome, applied, succeeded>>
  /\ UNCHANGED callVars /\ UNCHANGED logVars /\ UNCHANGED envVars

RecordError(r, reply) ==
  /\ pc[r] = "recording_error"
  /\ Return(r, "Exception")
  /\ IF reply = "failed"
     THEN UNCHANGED integration_log
     ELSE Write(external_id[r], "error", FALSE)
  /\ UNCHANGED overwritten
  /\ UNCHANGED callVars /\ UNCHANGED envVars /\ UNCHANGED effVars

\* run_counts moves only when the record was acknowledged.
RecordOk(r, reply) ==
  LET k == external_id[r] IN
  /\ pc[r] = "recording_ok"
  /\ Return(r, IF reply = "done" THEN "value" ELSE "Exception")
  /\ IF reply = "failed"
     THEN UNCHANGED <<integration_log, succeeded>>
     ELSE /\ Write(k, "ok", FALSE)
          /\ succeeded' = [succeeded EXCEPT ![k] = @ + 1]
  /\ run_counts' = IF reply = "done"
                   THEN [run_counts EXCEPT ![r] = @ + 1] ELSE run_counts
  /\ UNCHANGED <<overwritten, external_id, day_start, dry_run, applied, ambiguous>>
  /\ UNCHANGED envVars

------------------------------------------------------------------------------
(* What surrounds the calls.                                                 *)

\* The place of a finished run is taken by a new one with fresh counters.
NewRun(r) ==
  /\ pc[r] \in {"idle", "returned"}
  /\ Goto(r, "idle")
  /\ outcome' = [outcome EXCEPT ![r] = "none"]
  /\ run_counts' = [run_counts EXCEPT ![r] = 0]
  /\ \E d \in DryModes : dry_run' = [dry_run EXCEPT ![r] = d]
  /\ UNCHANGED <<external_id, day_start>>
  /\ UNCHANGED logVars /\ UNCHANGED envVars /\ UNCHANGED effVars

\* The process dies at any await (or the task is cancelled, which the guard's
\* `except Exception` does not see); the table is left as it is.
Crash(r) ==
  /\ pc[r] \in CallPcs
  /\ Goto(r, "idle")
  /\ outcome' = [outcome EXCEPT ![r] = "none"]
  /\ run_counts' = [run_counts EXCEPT ![r] = 0]
  /\ \E d \in DryModes : dry_run' = [dry_run EXCEPT ![r] = d]
  /\ UNCHANGED <<external_id, day_start>>
  /\ UNCHANGED logVars /\ UNCHANGED envVars /\ UNCHANGED effVars

\* Until the cache window has passed, the old value may still be answered.
SetKillSwitch(on) ==
  /\ kill_switch' = on
  /\ visible' = visible \cup {on}
  /\ UNCHANGED <<day, pc, outcome>>
  /\ UNCHANGED callVars /\ UNCHANGED logVars /\ UNCHANGED effVars

CacheWindowPasses ==
  /\ visible' = {kill_switch}
  /\ UNCHANGED <<day, kill_switch, pc, outcome>>
  /\ UNCHANGED callVars /\ UNCHANGED logVars /\ UNCHANGED effVars

Midnight ==
  /\ day < MaxDay
  /\ day' = day + 1
  /\ UNCHANGED <<kill_switch, visible, pc, outcome>>
  /\ UNCHANGED callVars /\ UNCHANGED logVars /\ UNCHANGED effVars

\* One step of a run inside a guarded call.
CallStep(r) ==
  \/ SwitchIsOn(r) \/ IsDryRun(r) \/ RunBudgetSpent(r) \/ StartCounting(r)
  \/ DayBudgetSpent(r) \/ DayBudgetLeft(r) \/ ReadFails(r) \/ ClaimRefused(r)
  \/ Execute(r) \/ FunctionReturns(r) \/ FunctionRaises(r)
  \/ \E reply \in DbReplies :
       RecordRefusal(r, reply) \/ Claim(r, reply) \/ RecordError(r, reply) \/ RecordOk(r, reply)

Environment ==
  \/ \E on \in SwitchValues : SetKillSwitch(on)
  \/ CacheWindowPasses
  \/ Midnight

GuardNext ==
  \/ \E r \in Runs : CallStep(r) \/ NewRun(r) \/ Crash(r) \/ \E k \in Keys : Call(r, k)
  \/ Environment

GuardSpec == GuardInit /\ [][GuardNext]_guardVars

------------------------------------------------------------------------------
(* What the guard gives its callers.                                         *)

\* A run holds a key from its acknowledged claim until its result is recorded.
Holds(r, k) == pc[r] \in HoldingPcs /\ external_id[r] = k

\* "Atomically reserve one idempotency key across concurrent job runs": unless
\* a refusal overwrote the row, at most one run is between claim and record of a
\* key, and its row says so to everyone else.
Exclusive ==
  \A k \in Keys \ overwritten :
    /\ \A r, s \in Runs : Holds(r, k) /\ Holds(s, k) => r = s
    /\ \A r \in Runs : Holds(r, k) => integration_log[k].pending

\* However runs interleave, crash and lose replies, a write reaches the remote
\* service at most once, save for the two ways the guard has of forgetting:
\* a refusal that overwrote the row, and an error recorded for a write that had
\* in fact happened.
AtMostOnce ==
  \A k \in Keys \ (overwritten \cup ambiguous) : applied[k] <= 1

\* A row never says ok for a write that did not happen, whoever recorded it and
\* however late.
OkMeansApplied ==
  \A k \in Keys : integration_log[k].status = "ok" => applied[k] >= 1

\* Why: a clean key can only be claimed, or be about to execute, while its write
\* has not happened; a claim that went wrong keeps its pending row for good.
CleanKeysUnapplied ==
  \A k \in Keys \ (overwritten \cup ambiguous) :
    /\ Claimable(k) => applied[k] = 0
    /\ \A r \in Runs : Holds(r, k) /\ pc[r] \in {"executing", "recording_error"} => applied[k] = 0

\* Why: the ok record is only reached through the effect.
SuccessFollowsEffect ==
  \A r \in Runs : pc[r] \in {"executed", "recording_ok"} => applied[external_id[r]] >= 1

\* The daily budget is checked long before the write is recorded, so runs that
\* pass the check together may overshoot it, but by no more than one row each.
DailyRowsBounded == Cardinality(OkSince(day)) <= PerDay + Cardinality(Runs) - 1

\* Why: what a refusal will raise was decided before it was recorded.
RefusalsDecided ==
  \A r \in Runs : pc[r] = "refusing" => outcome[r] \in {"KillSwitchOn", "dry_run", "BudgetExceeded"}

\* A caller that got a value may rely on its write having happened.
ValueMeansApplied ==
  \A r \in Runs : pc[r] = "returned" /\ outcome[r] = "value" => applied[external_id[r]] >= 1

\* Why: a run past the check still counts against the budget until it records.
PastCheck == {r \in Runs : pc[r] \in {"claiming", "executing", "executed", "recording_ok"}}

BudgetCommitted ==
  /\ \A k \in Keys : integration_log[k].day <= day
  /\ \A r \in Runs : day_start[r] <= day
  /\ Cardinality(OkSince(day)) + Cardinality(PastCheck) <= PerDay + Cardinality(Runs) - 1

\* The ledger a run's callers see: a line is spoiled once the guard has recorded
\* something that is not so, and says otherwise who may still write.
LedgerLine(k) ==
  IF k \in overwritten \cup ambiguous THEN "spoiled"
  ELSE IF integration_log[k].pending
       THEN IF applied[k] = 0 THEN "claimed" ELSE IF applied[k] = 1 THEN "written" ELSE "written twice"
       ELSE IF applied[k] = 0 THEN "free" ELSE IF applied[k] = 1 THEN "closed" ELSE "written twice"

Ledger == [k \in Keys |-> LedgerLine(k)]

Claims == INSTANCE ClaimLedger WITH ledger <- Ledger

\* The table, its budgets, lost replies and crashes together behave like the
\* ledger: each step of the guard is one step of one line, or none.
ImplementsLedger == Claims!LedgerSpec

\* What a run has been answered about the switch, as the way it took shows: it
\* records a refusal for the switch, or it went on as if the switch were off.
ToldTo(r) == IF pc[r] \in {"idle", "reading_switch", "returned"} THEN {}
             ELSE {outcome[r] = "KillSwitchOn"}

Told == [r \in Runs |-> ToldTo(r)]

Switch == INSTANCE SwitchView WITH Askers <- Runs, stored <- kill_switch, told <- Told

\* A run goes past the switch only on the answer "off", and refuses for it only
\* on the answer "on", each an answer the cached switch may give at that moment
\* (KillSwitch's ImplementsView); no step of a run moves the switch.
TakesView == Switch!ViewSpec

\* PROGRESS.md:243: "An existing `ok` or in-progress claim cannot execute twice".
OkNeverRepeats == \A k \in Keys : succeeded[k] <= 1
==============================================================================
