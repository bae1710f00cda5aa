--------------------------- MODULE WriteGuardProofs ---------------------------
(***************************************************************************)
(* Theorems about WriteGuard for every number of runs and keys, every      *)
(* budget, and every subset of the failures the model knows.               *)
(***************************************************************************)
EXTENDS WriteGuard, FiniteSetTheorems, TLAPS

------------------------------------------------------------------------------
(* Type correctness.                                                         *)

LEMMA TypeInit == GuardInit => TypeOK
<1> SUFFICES ASSUME GuardInit PROVE TypeOK
  OBVIOUS
<1> USE ModeAssumption, BoundAssumption DEF GuardInit
<1>1. Absent \in Row
  BY DEF Absent, Row, Statuses
<1>2. integration_log \in [Keys -> Row] /\ applied \in [Keys -> 0..MaxApplied]
  BY <1>1
<1>3. kill_switch \in BOOLEAN /\ visible \in SUBSET BOOLEAN
  OBVIOUS
<1>4. dry_run \in [Runs -> BOOLEAN]
  OBVIOUS
<1>5. pc \in [Runs -> Pcs] /\ outcome \in [Runs -> Outcomes] /\ day_start \in [Runs -> 0..MaxDay]
  BY DEF Pcs, Outcomes
<1> QED
  BY <1>2, <1>3, <1>4, <1>5 DEF TypeOK

\* A statement writes a well-formed row.
LEMMA WriteType ==
  ASSUME TypeOK, NEW k \in Keys, NEW status \in Statuses, NEW pending \in BOOLEAN,
         Write(k, status, pending)
  PROVE  integration_log' \in [Keys -> Row]
<1>1. [status |-> status, pending |-> pending, day |-> day] \in Row
  BY DEF TypeOK, Row
<1> QED
  BY <1>1 DEF TypeOK, Write

\* Of a step of a guarded call, only three kinds of statement write a row, only
\* an effect moves applied and only an acknowledged success moves run_counts.
LEMMA TypeCallStep ==
  ASSUME TypeOK, NEW r \in Runs, CallStep(r)
  PROVE  TypeOK'
<1> USE DEF Goto, Return, Refuse, callVars, logVars, envVars, effVars
<1> USE DEF TypeOK, Pcs, CallPcs, HoldingPcs, Outcomes
<1>1. ASSUME SwitchIsOn(r) \/ IsDryRun(r) \/ RunBudgetSpent(r) \/ DayBudgetSpent(r) PROVE TypeOK'
  BY <1>1 DEF SwitchIsOn, SwitchIsOff, IsDryRun, RunBudgetSpent, DayBudgetSpent
<1>2. ASSUME StartCounting(r) \/ DayBudgetLeft(r) \/ FunctionReturns(r) PROVE TypeOK'
  BY <1>2 DEF StartCounting, DayBudgetLeft, FunctionReturns
<1>3. ASSUME ReadFails(r) \/ ClaimRefused(r) PROVE TypeOK'
  BY <1>3 DEF ReadFails, ClaimRefused
<1>4. ASSUME Execute(r) PROVE TypeOK'
  BY <1>4, BoundAssumption DEF Execute
<1>5. ASSUME FunctionRaises(r) PROVE TypeOK'
  BY <1>5 DEF FunctionRaises
<1>6. ASSUME NEW reply \in DbReplies, RecordRefusal(r, reply) PROVE TypeOK'
  <2>1. RefusalStatus(r) \in Statuses /\ external_id[r] \in Keys
    BY DEF RefusalStatus, Statuses
  <2>2. integration_log' \in [Keys -> Row]
    BY <1>6, <2>1, WriteType DEF RecordRefusal
  <2>3. outcome' \in [Runs -> Outcomes] /\ pc' \in [Runs -> Pcs]
    BY <1>6 DEF RecordRefusal
  <2>4. overwritten' \in SUBSET Keys
    BY <1>6, <2>1 DEF RecordRefusal
  <2> QED
    BY <1>6, <2>2, <2>3, <2>4 DEF RecordRefusal
<1>7. ASSUME NEW reply \in DbReplies, Claim(r, reply) PROVE TypeOK'
  <2>1. "skipped" \in Statuses /\ external_id[r] \in Keys
    BY DEF Statuses
  <2>2. integration_log' \in [Keys -> Row]
    BY <1>7, <2>1, WriteType DEF Claim
  <2> QED
    BY <1>7, <2>2 DEF Claim
<1>8. ASSUME NEW reply \in DbReplies, RecordError(r, reply) PROVE TypeOK'
  <2>1. "error" \in Statuses /\ external_id[r] \in Keys
    BY DEF Statuses
  <2>2. integration_log' \in [Keys -> Row]
    BY <1>8, <2>1, WriteType DEF RecordError
  <2> QED
    BY <1>8, <2>2 DEF RecordError
<1>9. ASSUME NEW reply \in DbReplies, RecordOk(r, reply) PROVE TypeOK'
  <2>1. "ok" \in Statuses /\ external_id[r] \in Keys
    BY DEF Statuses
  <2>2. integration_log' \in [Keys -> Row]
    BY <1>9, <2>1, WriteType DEF RecordOk
  <2>3. outcome' \in [Runs -> Outcomes] /\ pc' \in [Runs -> Pcs]
    BY <1>9 DEF RecordOk
  <2>4. succeeded' \in [Keys -> Nat]
    <3>1. [succeeded EXCEPT ![external_id[r]] = @ + 1] \in [Keys -> Nat]
      BY <2>1
    <3> QED
      BY <1>9, <3>1 DEF RecordOk
  <2>5. run_counts' \in [Runs -> Nat]
    <3>1. [run_counts EXCEPT ![r] = @ + 1] \in [Runs -> Nat]
      OBVIOUS
    <3> QED
      BY <1>9, <3>1 DEF RecordOk
  <2> QED
    BY <1>9, <2>2, <2>3, <2>4, <2>5 DEF RecordOk
<1> QED
  BY <1>1, <1>2, <1>3, <1>4, <1>5, <1>6, <1>7, <1>8, <1>9 DEF CallStep

LEMMA TypeNext == TypeOK /\ [GuardNext]_guardVars => TypeOK'
<1> SUFFICES ASSUME TypeOK, [GuardNext]_guardVars PROVE TypeOK'
  OBVIOUS
<1> USE DEF Goto, callVars, logVars, envVars, effVars
<1>1. ASSUME NEW r \in Runs, CallStep(r) PROVE TypeOK'
  BY <1>1, TypeCallStep
<1>2. ASSUME NEW r \in Runs, NewRun(r) \/ Crash(r) PROVE TypeOK'
  BY <1>2, ModeAssumption DEF NewRun, Crash, TypeOK, Pcs, Outcomes
<1>3. ASSUME NEW r \in Runs, NEW k \in Keys, Call(r, k) PROVE TypeOK'
  BY <1>3 DEF Call, TypeOK, Pcs, CallPcs, Outcomes
<1>4. ASSUME Environment PROVE TypeOK'
  BY <1>4, ModeAssumption, BoundAssumption
  DEF Environment, SetKillSwitch, CacheWindowPasses, Midnight, TypeOK, Row
<1>5. CASE UNCHANGED guardVars
  BY <1>5 DEF guardVars, TypeOK
<1> QED
  BY <1>1, <1>2, <1>3, <1>4, <1>5 DEF GuardNext

\* Every variable keeps its type, whatever the runs, the operator and the
\* database do.
THEOREM TypeCorrect == GuardSpec => []TypeOK
BY TypeInit, TypeNext, PTL DEF GuardSpec

------------------------------------------------------------------------------
(* Who holds a key.                                                          *)

\* A step that claims nothing: whoever holds a key after it held it before.
HoldersShrink == \A r \in Runs, k \in Keys : Holds(r, k)' => Holds(r, k)

\* Every step but the four statements on integration_log leaves the table alone
\* and makes no new holder.
QuietStep(r) ==
  \/ SwitchIsOn(r) \/ IsDryRun(r) \/ RunBudgetSpent(r) \/ StartCounting(r)
  \/ DayBudgetSpent(r) \/ DayBudgetLeft(r) \/ ReadFails(r) \/ ClaimRefused(r)
  \/ Execute(r) \/ FunctionReturns(r) \/ FunctionRaises(r)
  \/ NewRun(r) \/ Crash(r) \/ \E k \in Keys : Call(r, k)

LEMMA NextCases ==
  ASSUME GuardNext
  PROVE  \/ \E r \in Runs : QuietStep(r)
         \/ Environment
         \/ \E r \in Runs, reply \in DbReplies :
              RecordRefusal(r, reply) \/ Claim(r, reply) \/ RecordError(r, reply) \/ RecordOk(r, reply)
BY DEF GuardNext, CallStep, QuietStep

LEMMA QuietShrinks ==
  ASSUME TypeOK, NEW r \in Runs, QuietStep(r)
  PROVE  HoldersShrink /\ UNCHANGED logVars
<1> USE DEF Goto, Return, Refuse, callVars, HoldersShrink, Holds, HoldingPcs, TypeOK
<1>1. ASSUME SwitchIsOn(r) \/ IsDryRun(r) \/ RunBudgetSpent(r) \/ DayBudgetSpent(r)
      PROVE  HoldersShrink /\ UNCHANGED logVars
  BY <1>1 DEF SwitchIsOn, SwitchIsOff, IsDryRun, RunBudgetSpent, DayBudgetSpent
<1>2. ASSUME StartCounting(r) \/ DayBudgetLeft(r) \/ ReadFails(r) \/ ClaimRefused(r)
      PROVE  HoldersShrink /\ UNCHANGED logVars
  BY <1>2 DEF StartCounting, SwitchIsOff, DayBudgetLeft, ReadFails, ClaimRefused
<1>3. ASSUME Execute(r) \/ FunctionReturns(r) \/ FunctionRaises(r)
      PROVE  HoldersShrink /\ UNCHANGED logVars
  BY <1>3 DEF Execute, FunctionReturns, FunctionRaises
<1>4. ASSUME NewRun(r) \/ Crash(r) PROVE HoldersShrink /\ UNCHANGED logVars
  BY <1>4 DEF NewRun, Crash
<1>5. ASSUME NEW k \in Keys, Call(r, k) PROVE HoldersShrink /\ UNCHANGED logVars
  BY <1>5 DEF Call
<1> QED
  BY <1>1, <1>2, <1>3, <1>4, <1>5 DEF QuietStep

LEMMA EnvironmentLeavesRuns ==
  ASSUME Environment
  PROVE  /\ UNCHANGED <<pc, external_id>> /\ UNCHANGED logVars /\ UNCHANGED effVars
BY DEF Environment, SetKillSwitch, CacheWindowPasses, Midnight, callVars

LEMMA ExclusiveInit == GuardInit => Exclusive
BY DEF GuardInit, Exclusive, Holds, HoldingPcs

LEMMA ExclusiveNext == TypeOK /\ Exclusive /\ [GuardNext]_guardVars => Exclusive'
<1> SUFFICES ASSUME TypeOK, Exclusive, [GuardNext]_guardVars PROVE Exclusive'
  OBVIOUS
<1>0. ASSUME HoldersShrink, UNCHANGED logVars PROVE Exclusive'
  BY <1>0 DEF HoldersShrink, logVars, Exclusive
<1>1. ASSUME NEW r \in Runs, QuietStep(r) PROVE Exclusive'
  BY <1>0, <1>1, QuietShrinks
<1>2. ASSUME Environment PROVE Exclusive'
  BY <1>2, EnvironmentLeavesRuns DEF logVars, Exclusive, Holds
<1>3. ASSUME NEW r \in Runs, NEW reply \in DbReplies, RecordRefusal(r, reply) PROVE Exclusive'
  <2>1. HoldersShrink
    BY <1>3 DEF RecordRefusal, Return, Goto, callVars, HoldersShrink, Holds, HoldingPcs, TypeOK
  <2>2. CASE reply = "failed"
    BY <1>0, <1>3, <2>1, <2>2 DEF RecordRefusal
  <2>3. CASE reply # "failed"
    <3>1. overwritten \subseteq overwritten'
      BY <1>3, <2>3 DEF RecordRefusal
    <3> SUFFICES ASSUME NEW k \in Keys \ overwritten'
        PROVE  /\ \A p, q \in Runs : Holds(p, k)' /\ Holds(q, k)' => p = q
               /\ \A p \in Runs : Holds(p, k)' => integration_log'[k].pending
      BY DEF Exclusive
    <3>2. CASE k = external_id[r]
      <4>1. ~integration_log[k].pending
        BY <1>3, <2>3, <3>2 DEF RecordRefusal
      <4>2. \A p \in Runs : ~Holds(p, k)
        BY <3>1, <4>1 DEF Exclusive
      <4> QED
        BY <2>1, <4>2 DEF HoldersShrink
    <3>3. CASE k # external_id[r]
      <4>1. integration_log'[k] = integration_log[k]
        BY <1>3, <2>3, <3>3 DEF RecordRefusal, Write, TypeOK
      <4> QED
        BY <2>1, <3>1, <4>1 DEF HoldersShrink, Exclusive
    <3> QED
      BY <3>2, <3>3
  <2> QED
    BY <2>2, <2>3
<1>4. ASSUME NEW r \in Runs, NEW reply \in DbReplies, Claim(r, reply) PROVE Exclusive'
  <2>1. overwritten' = overwritten
    BY <1>4 DEF Claim
  <2>2. CASE reply = "failed"
    <3>1. HoldersShrink
      BY <1>4, <2>2 DEF Claim, Return, Goto, callVars, HoldersShrink, Holds, HoldingPcs, TypeOK
    <3> QED
      BY <1>0, <1>4, <2>2, <3>1 DEF Claim, logVars
  <2>3. CASE reply # "failed"
    <3> SUFFICES ASSUME NEW k \in Keys \ overwritten
        PROVE  /\ \A p, q \in Runs : Holds(p, k)' /\ Holds(q, k)' => p = q
               /\ \A p \in Runs : Holds(p, k)' => integration_log'[k].pending
      BY <2>1 DEF Exclusive
    <3>1. \A p \in Runs : Holds(p, k)' => Holds(p, k) \/ (p = r /\ k = external_id[r])
      BY <1>4 DEF Claim, Return, Goto, callVars, Holds, HoldingPcs, TypeOK
    <3>2. CASE k = external_id[r]
      <4>1. \A p \in Runs : ~Holds(p, k)
        BY <1>4, <2>3, <3>2 DEF Claim, Claimable, Exclusive
      <4>2. integration_log'[k].pending
        BY <1>4, <2>3, <3>2 DEF Claim, Write, TypeOK
      <4> QED
        BY <3>1, <4>1, <4>2
    <3>3. CASE k # external_id[r]
      <4>1. integration_log'[k] = integration_log[k]
        BY <1>4, <2>3, <3>3 DEF Claim, Write, TypeOK
      <4> QED
        BY <3>1, <3>3, <4>1 DEF Exclusive
    <3> QED
      BY <3>2, <3>3
  <2> QED
    BY <2>2, <2>3
<1>5. ASSUME NEW r \in Runs, NEW reply \in DbReplies, RecordError(r, reply) \/ RecordOk(r, reply)
      PROVE  Exclusive'
  <2> SUFFICES ASSUME NEW k \in Keys \ overwritten
      PROVE  /\ \A p, q \in Runs : Holds(p, k)' /\ Holds(q, k)' => p = q
             /\ \A p \in Runs : Holds(p, k)' => integration_log'[k].pending
    BY <1>5 DEF RecordError, RecordOk, Exclusive
  <2>1. \A p \in Runs : Holds(p, k)' => Holds(p, k) /\ p # r
    BY <1>5 DEF RecordError, RecordOk, Return, Goto, callVars, Holds, HoldingPcs, TypeOK
  <2>2. CASE k = external_id[r]
    <3>1. Holds(r, k)
      BY <1>5, <2>2 DEF RecordError, RecordOk, Holds, HoldingPcs
    <3> QED
      BY <2>1, <3>1 DEF Exclusive
  <2>3. CASE k # external_id[r]
    <3>1. integration_log'[k] = integration_log[k]
      BY <1>5, <2>3 DEF RecordError, RecordOk, Write, TypeOK
    <3> QED
      BY <2>1, <3>1 DEF Exclusive
  <2> QED
    BY <2>2, <2>3
<1>6. CASE UNCHANGED guardVars
  BY <1>6 DEF guardVars, Exclusive, Holds
<1> QED
  BY <1>1, <1>2, <1>3, <1>4, <1>5, <1>6, NextCases

\* Between claim and record a key has one writer, for any number of concurrent
\* runs, unless a refusal overwrote the claim (guards.py:148-167).
THEOREM ClaimsExclude == GuardSpec => []Exclusive
<1>1. GuardInit => TypeOK /\ Exclusive
  BY TypeInit, ExclusiveInit
<1>2. TypeOK /\ Exclusive /\ [GuardNext]_guardVars => (TypeOK /\ Exclusive)'
  BY TypeNext, ExclusiveNext
<1> QED
  BY <1>1, <1>2, PTL DEF GuardSpec

------------------------------------------------------------------------------
(* How often a write reaches the remote service.                             *)

\* A holder whose write has not happened, as far as the guard's row tells.
Unapplied(r, k) == Holds(r, k) /\ pc[r] \in {"executing", "recording_error"}

OnceInv == CleanKeysUnapplied /\ AtMostOnce

LEMMA OnceInit == GuardInit => OnceInv
BY DEF GuardInit, OnceInv, CleanKeysUnapplied, AtMostOnce, Holds, HoldingPcs

\* A step that touches neither the table nor the effects nor makes anyone a
\* holder with its write still to come.
LEMMA OnceKept ==
  ASSUME OnceInv, UNCHANGED logVars, UNCHANGED effVars,
         \A r \in Runs, k \in Keys : Unapplied(r, k)' => Unapplied(r, k)
  PROVE  OnceInv'
<1>1. UNCHANGED <<integration_log, overwritten, applied, ambiguous>>
  BY DEF logVars, effVars
<1>2. \A k \in Keys : Claimable(k)' <=> Claimable(k)
  BY <1>1 DEF Claimable
<1> QED
  BY <1>1, <1>2 DEF OnceInv, CleanKeysUnapplied, AtMostOnce, Unapplied

LEMMA OnceNext == TypeOK /\ Exclusive /\ OnceInv /\ [GuardNext]_guardVars => OnceInv'
<1> SUFFICES ASSUME TypeOK, Exclusive, OnceInv, [GuardNext]_guardVars PROVE OnceInv'
  OBVIOUS
<1>1. ASSUME NEW r \in Runs, QuietStep(r) PROVE OnceInv'
  <2> USE DEF Goto, Return, Refuse, callVars, Unapplied, Holds, HoldingPcs, TypeOK
  <2>1. CASE SwitchIsOn(r) \/ IsDryRun(r) \/ RunBudgetSpent(r) \/ DayBudgetSpent(r)
    BY <2>1, OnceKept DEF SwitchIsOn, SwitchIsOff, IsDryRun, RunBudgetSpent, DayBudgetSpent
  <2>2. CASE StartCounting(r) \/ DayBudgetLeft(r) \/ ReadFails(r) \/ ClaimRefused(r)
    BY <2>2, OnceKept DEF StartCounting, SwitchIsOff, DayBudgetLeft, ReadFails, ClaimRefused
  <2>3. CASE FunctionReturns(r)
    BY <2>3, OnceKept DEF FunctionReturns
  <2>4. CASE NewRun(r) \/ Crash(r)
    BY <2>4, OnceKept DEF NewRun, Crash
  <2>5. ASSUME NEW k \in Keys, Call(r, k) PROVE OnceInv'
    BY <2>5, OnceKept DEF Call
  <2>6. CASE Execute(r)
    <3>1. UNCHANGED <<integration_log, overwritten, ambiguous>>
      BY <2>6 DEF Execute, logVars
    <3> SUFFICES ASSUME NEW k \in Keys \ (overwritten \cup ambiguous)
        PROVE  /\ Claimable(k)' => applied'[k] = 0
               /\ \A p \in Runs : Unapplied(p, k)' => applied'[k] = 0
               /\ applied'[k] <= 1
      BY <3>1 DEF OnceInv, CleanKeysUnapplied, AtMostOnce
    <3>2. \A p \in Runs : Unapplied(p, k)' => Unapplied(p, k) /\ p # r
      BY <2>6 DEF Execute
    <3>3. CASE k = external_id[r]
      <4>1. Holds(r, k) /\ Unapplied(r, k)
        BY <2>6, <3>3 DEF Execute
      <4>2. applied[k] = 0
        BY <4>1 DEF OnceInv, CleanKeysUnapplied
      <4>3. applied'[k] = 1
        BY <2>6, <3>3, <4>2 DEF Execute
      <4>4. ~Claimable(k)'
        BY <3>1, <4>1 DEF Exclusive, Claimable
      <4>5. \A p \in Runs : ~Unapplied(p, k)'
        BY <3>2, <4>1 DEF Exclusive
      <4> QED
        BY <4>3, <4>4, <4>5
    <3>4. CASE k # external_id[r]
      <4>1. applied'[k] = applied[k]
        BY <2>6, <3>4 DEF Execute
      <4> QED
        BY <3>1, <3>2, <4>1 DEF OnceInv, CleanKeysUnapplied, AtMostOnce, Claimable
    <3> QED
      BY <3>3, <3>4
  <2>7. CASE FunctionRaises(r)
    <3>1. UNCHANGED <<integration_log, overwritten, applied>> /\ ambiguous \subseteq ambiguous'
      BY <2>7 DEF FunctionRaises, logVars
    <3> SUFFICES ASSUME NEW k \in Keys \ (overwritten \cup ambiguous')
        PROVE  /\ Claimable(k)' => applied[k] = 0
               /\ \A p \in Runs : Unapplied(p, k)' => applied[k] = 0
               /\ applied[k] <= 1
      BY <3>1 DEF OnceInv, CleanKeysUnapplied, AtMostOnce
    <3>2. \A p \in Runs : Unapplied(p, k)' => Unapplied(p, k)
      BY <2>7 DEF FunctionRaises
    <3> QED
      BY <3>1, <3>2 DEF OnceInv, CleanKeysUnapplied, AtMostOnce, Claimable
  <2> QED
    BY <1>1, <2>1, <2>2, <2>3, <2>4, <2>5, <2>6, <2>7 DEF QuietStep
<1>2. ASSUME Environment PROVE OnceInv'
  BY <1>2, OnceKept, EnvironmentLeavesRuns DEF Unapplied, Holds
<1>3. ASSUME NEW r \in Runs, NEW reply \in DbReplies, RecordRefusal(r, reply) PROVE OnceInv'
  <2>1. \A p \in Runs, k \in Keys : Unapplied(p, k)' => Unapplied(p, k)
    BY <1>3 DEF RecordRefusal, Return, Goto, callVars, Unapplied, Holds, HoldingPcs, TypeOK
  <2>2. UNCHANGED effVars
    BY <1>3 DEF RecordRefusal
  <2>3. CASE reply = "failed"
    BY <1>3, <2>1, <2>2, <2>3, OnceKept DEF RecordRefusal
  <2>4. CASE reply # "failed"
    <3> SUFFICES ASSUME NEW k \in Keys \ (overwritten' \cup ambiguous)
        PROVE  /\ Claimable(k)' => applied[k] = 0
               /\ \A p \in Runs : Unapplied(p, k)' => applied[k] = 0
               /\ applied[k] <= 1
      BY <2>2 DEF effVars, OnceInv, CleanKeysUnapplied, AtMostOnce, Unapplied
    <3>1. k \notin overwritten
      BY <1>3, <2>4 DEF RecordRefusal
    <3>2. Claimable(k)' => Claimable(k)
      BY <1>3, <2>4 DEF RecordRefusal, Write, Claimable, TypeOK
    <3> QED
      BY <2>1, <3>1, <3>2 DEF OnceInv, CleanKeysUnapplied, AtMostOnce, Unapplied
  <2> QED
    BY <2>3, <2>4
<1>4. ASSUME NEW r \in Runs, NEW reply \in DbReplies, Claim(r, reply) PROVE OnceInv'
  <2>1. UNCHANGED <<applied, overwritten, ambiguous>>
    BY <1>4 DEF Claim, effVars
  <2> SUFFICES ASSUME NEW k \in Keys \ (overwritten \cup ambiguous)
      PROVE  /\ Claimable(k)' => applied[k] = 0
             /\ \A p \in Runs : Unapplied(p, k)' => applied[k] = 0
             /\ applied[k] <= 1
    BY <2>1 DEF OnceInv, CleanKeysUnapplied, AtMostOnce, Unapplied
  <2>2. Claimable(k)' => Claimable(k)
    BY <1>4 DEF Claim, Write, Claimable, TypeOK
  <2>3. ASSUME NEW p \in Runs, Unapplied(p, k)', ~Unapplied(p, k) PROVE Claimable(k)
    BY <1>4, <2>3 DEF Claim, Return, Goto, callVars, Unapplied, Holds, HoldingPcs, TypeOK
  <2> QED
    BY <2>2, <2>3 DEF OnceInv, CleanKeysUnapplied, AtMostOnce, Unapplied
<1>5. ASSUME NEW r \in Runs, NEW reply \in DbReplies, RecordError(r, reply) \/ RecordOk(r, reply)
      PROVE  OnceInv'
  <2>1. UNCHANGED <<applied, overwritten, ambiguous>>
    BY <1>5 DEF RecordError, RecordOk, effVars
  <2> SUFFICES ASSUME NEW k \in Keys \ (overwritten \cup ambiguous)
      PROVE  /\ Claimable(k)' => applied[k] = 0
             /\ \A p \in Runs : Unapplied(p, k)' => applied[k] = 0
             /\ applied[k] <= 1
    BY <2>1 DEF OnceInv, CleanKeysUnapplied, AtMostOnce, Unapplied
  <2>2. \A p \in Runs : Unapplied(p, k)' => Unapplied(p, k)
    BY <1>5 DEF RecordError, RecordOk, Return, Goto, callVars, Unapplied, Holds, HoldingPcs, TypeOK
  <2>3. ASSUME Claimable(k)', ~Claimable(k) PROVE Unapplied(r, k)
    BY <1>5, <2>3
    DEF RecordError, RecordOk, Write, Claimable, Unapplied, Holds, HoldingPcs, TypeOK
  <2> QED
    BY <2>2, <2>3 DEF OnceInv, CleanKeysUnapplied, AtMostOnce, Unapplied
<1>6. CASE UNCHANGED guardVars
  BY <1>6, OnceKept DEF guardVars, logVars, effVars, Unapplied, Holds
<1> QED
  BY <1>1, <1>2, <1>3, <1>4, <1>5, <1>6, NextCases

\* Crashes, lost replies and overlapping runs never make the guard repeat a
\* write: only an overwriting refusal or an error recorded for an applied write
\* can, and the row is claimable only while the write has not happened.
THEOREM WritesAtMostOnce == GuardSpec => []AtMostOnce
<1>1. GuardInit => TypeOK /\ Exclusive /\ OnceInv
  BY TypeInit, ExclusiveInit, OnceInit
<1>2. TypeOK /\ Exclusive /\ OnceInv /\ [GuardNext]_guardVars => (TypeOK /\ Exclusive /\ OnceInv)'
  BY TypeNext, ExclusiveNext, OnceNext
<1>3. OnceInv => AtMostOnce
  BY DEF OnceInv
<1> QED
  BY <1>1, <1>2, <1>3, PTL DEF GuardSpec

------------------------------------------------------------------------------
(* What a row that says ok is worth.                                         *)

LEMMA SuccessNext ==
  TypeOK /\ SuccessFollowsEffect /\ OkMeansApplied /\ [GuardNext]_guardVars
    => SuccessFollowsEffect' /\ OkMeansApplied'
<1> SUFFICES ASSUME TypeOK, SuccessFollowsEffect, OkMeansApplied, [GuardNext]_guardVars
    PROVE  SuccessFollowsEffect' /\ OkMeansApplied'
  OBVIOUS
<1> DEFINE Past(r) == pc[r] \in {"executed", "recording_ok"}
<1>a. \A k \in Keys : applied[k] \in Nat /\ applied'[k] \in Nat
  BY TypeNext, BoundAssumption DEF TypeOK
<1>0. ASSUME \A r \in Runs : Past(r)' => Past(r) /\ external_id'[r] = external_id[r],
             applied' = applied,
             \A k \in Keys : integration_log'[k].status = "ok" => integration_log[k].status = "ok"
      PROVE  SuccessFollowsEffect' /\ OkMeansApplied'
  BY <1>0 DEF SuccessFollowsEffect, OkMeansApplied
<1>1. ASSUME NEW r \in Runs, QuietStep(r) PROVE SuccessFollowsEffect' /\ OkMeansApplied'
  <2> USE DEF Goto, Return, Refuse, callVars, logVars, effVars, TypeOK
  <2>1. CASE SwitchIsOn(r) \/ IsDryRun(r) \/ RunBudgetSpent(r) \/ DayBudgetSpent(r)
    BY <1>0, <2>1 DEF SwitchIsOn, SwitchIsOff, IsDryRun, RunBudgetSpent, DayBudgetSpent
  <2>2. CASE StartCounting(r) \/ DayBudgetLeft(r) \/ ReadFails(r) \/ ClaimRefused(r)
    BY <1>0, <2>2 DEF StartCounting, SwitchIsOff, DayBudgetLeft, ReadFails, ClaimRefused
  <2>3. CASE FunctionRaises(r)
    BY <1>0, <2>3 DEF FunctionRaises
  <2>4. CASE NewRun(r) \/ Crash(r)
    BY <1>0, <2>4 DEF NewRun, Crash
  <2>5. ASSUME NEW k \in Keys, Call(r, k) PROVE SuccessFollowsEffect' /\ OkMeansApplied'
    BY <1>0, <2>5 DEF Call
  <2>6. CASE Execute(r)
    <3>1. \A k \in Keys : applied'[k] >= applied[k] /\ (k = external_id[r] => applied'[k] >= 1)
      BY <1>a, <2>6 DEF Execute
    <3>2. \A p \in Runs : Past(p)' => Past(p) \/ p = r
      BY <2>6 DEF Execute
    <3>3. UNCHANGED <<external_id, integration_log>>
      BY <2>6 DEF Execute
    <3> QED
      BY <1>a, <3>1, <3>2, <3>3 DEF SuccessFollowsEffect, OkMeansApplied
  <2>7. CASE FunctionReturns(r)
    BY <2>7 DEF FunctionReturns, SuccessFollowsEffect, OkMeansApplied
  <2> QED
    BY <1>1, <2>1, <2>2, <2>3, <2>4, <2>5, <2>6, <2>7 DEF QuietStep
<1>2. ASSUME Environment PROVE SuccessFollowsEffect' /\ OkMeansApplied'
  BY <1>0, <1>2, EnvironmentLeavesRuns DEF logVars, effVars, TypeOK
<1>3. ASSUME NEW r \in Runs, NEW reply \in DbReplies,
             RecordRefusal(r, reply) \/ Claim(r, reply) \/ RecordError(r, reply)
      PROVE  SuccessFollowsEffect' /\ OkMeansApplied'
  <2>1. applied' = applied /\ external_id' = external_id
    BY <1>3 DEF RecordRefusal, Claim, RecordError, effVars, callVars
  <2>2. \A p \in Runs : Past(p)' => Past(p)
    BY <1>3 DEF RecordRefusal, Claim, RecordError, Return, Goto, TypeOK
  <2>3. \A k \in Keys : integration_log'[k].status = "ok" => integration_log[k].status = "ok"
    BY <1>3 DEF RecordRefusal, Claim, RecordError, RefusalStatus, Write, logVars, TypeOK
  <2> QED
    BY <1>0, <2>1, <2>2, <2>3 DEF TypeOK
<1>4. ASSUME NEW r \in Runs, NEW reply \in DbReplies, RecordOk(r, reply)
      PROVE  SuccessFollowsEffect' /\ OkMeansApplied'
  <2>1. applied' = applied /\ external_id' = external_id
    BY <1>4 DEF RecordOk
  <2>2. applied[external_id[r]] >= 1
    BY <1>4 DEF RecordOk, SuccessFollowsEffect
  <2>3. \A k \in Keys : integration_log'[k].status = "ok"
                       => integration_log[k].status = "ok" \/ k = external_id[r]
    BY <1>4 DEF RecordOk, Write, TypeOK
  <2>4. \A p \in Runs : Past(p)' => Past(p)
    BY <1>4 DEF RecordOk, Return, Goto, TypeOK
  <2> QED
    BY <2>1, <2>2, <2>3, <2>4 DEF SuccessFollowsEffect, OkMeansApplied
<1>5. CASE UNCHANGED guardVars
  BY <1>5 DEF guardVars, SuccessFollowsEffect, OkMeansApplied
<1> QED
  BY <1>1, <1>2, <1>3, <1>4, <1>5, NextCases

LEMMA RefusalsNext == TypeOK /\ RefusalsDecided /\ [GuardNext]_guardVars => RefusalsDecided'
<1> SUFFICES ASSUME TypeOK, RefusalsDecided, [GuardNext]_guardVars PROVE RefusalsDecided'
  OBVIOUS
<1> USE DEF Goto, Return, Refuse, callVars, RefusalsDecided, TypeOK
<1>1. ASSUME NEW r \in Runs, QuietStep(r) PROVE RefusalsDecided'
  <2>1. CASE SwitchIsOn(r) \/ IsDryRun(r) \/ RunBudgetSpent(r) \/ DayBudgetSpent(r)
    BY <2>1 DEF SwitchIsOn, IsDryRun, RunBudgetSpent, DayBudgetSpent
  <2>2. CASE StartCounting(r) \/ DayBudgetLeft(r) \/ ReadFails(r) \/ ClaimRefused(r)
    BY <2>2 DEF StartCounting, DayBudgetLeft, ReadFails, ClaimRefused
  <2>3. CASE Execute(r) \/ FunctionReturns(r) \/ FunctionRaises(r)
    BY <2>3 DEF Execute, FunctionReturns, FunctionRaises
  <2>4. CASE NewRun(r) \/ Crash(r)
    BY <2>4 DEF NewRun, Crash
  <2>5. ASSUME NEW k \in Keys, Call(r, k) PROVE RefusalsDecided'
    BY <2>5 DEF Call
  <2> QED
    BY <1>1, <2>1, <2>2, <2>3, <2>4, <2>5 DEF QuietStep
<1>2. ASSUME Environment PROVE RefusalsDecided'
  BY <1>2 DEF Environment, SetKillSwitch, CacheWindowPasses, Midnight
<1>3. ASSUME NEW r \in Runs, NEW reply \in DbReplies,
             RecordRefusal(r, reply) \/ Claim(r, reply) \/ RecordError(r, reply) \/ RecordOk(r, reply)
      PROVE  RefusalsDecided'
  BY <1>3 DEF RecordRefusal, Claim, RecordError, RecordOk
<1>4. CASE UNCHANGED guardVars
  BY <1>4 DEF guardVars
<1> QED
  BY <1>1, <1>2, <1>3, <1>4, NextCases

\* The history only moves forward, whoever steps.
LEMMA AppliedGrows ==
  ASSUME TypeOK, [GuardNext]_guardVars
  PROVE  \A k \in Keys : applied[k] \in Nat /\ applied'[k] \in Nat /\ applied'[k] >= applied[k]
<1>a. \A k \in Keys : applied[k] \in Nat /\ applied'[k] \in Nat
  BY TypeNext, BoundAssumption DEF TypeOK
<1>1. CASE applied' = applied
  BY <1>a, <1>1
<1>2. ASSUME NEW r \in Runs, Execute(r) PROVE \A k \in Keys : applied'[k] >= applied[k]
  BY <1>a, <1>2 DEF Execute, TypeOK
<1>3. applied' = applied \/ \E r \in Runs : Execute(r)
  <2> USE DEF Refuse, effVars
  <2>1. ASSUME NEW r \in Runs, QuietStep(r), ~Execute(r) PROVE applied' = applied
    BY <2>1 DEF QuietStep, SwitchIsOn, IsDryRun, RunBudgetSpent, StartCounting, DayBudgetSpent,
                DayBudgetLeft, ReadFails, ClaimRefused, FunctionReturns, FunctionRaises,
                NewRun, Crash, Call
  <2>2. ASSUME NEW r \in Runs, NEW reply \in DbReplies,
               RecordRefusal(r, reply) \/ Claim(r, reply) \/ RecordError(r, reply) \/ RecordOk(r, reply)
        PROVE  applied' = applied
    BY <2>2 DEF RecordRefusal, Claim, RecordError, RecordOk
  <2> QED
    BY <2>1, <2>2, NextCases, EnvironmentLeavesRuns DEF guardVars
<1> QED
  BY <1>a, <1>1, <1>2, <1>3

LEMMA ValueNext ==
  TypeOK /\ SuccessFollowsEffect /\ RefusalsDecided /\ ValueMeansApplied /\ [GuardNext]_guardVars
    => ValueMeansApplied'
<1> SUFFICES ASSUME TypeOK, SuccessFollowsEffect, RefusalsDecided, ValueMeansApplied, [GuardNext]_guardVars
    PROVE  ValueMeansApplied'
  OBVIOUS
<1> DEFINE Served(r) == pc[r] = "returned" /\ outcome[r] = "value"
<1>a. \A k \in Keys : applied[k] \in Nat /\ applied'[k] \in Nat
  BY TypeNext, BoundAssumption DEF TypeOK
<1>0. ASSUME \A r \in Runs : Served(r)' => Served(r) /\ external_id'[r] = external_id[r],
             \A k \in Keys : applied'[k] >= applied[k]
      PROVE  ValueMeansApplied'
  <2>1. \A r \in Runs : external_id[r] \in Keys
    BY DEF TypeOK
  <2> QED
    BY <1>0, <1>a, <2>1 DEF ValueMeansApplied
<1>b. \A k \in Keys : applied'[k] >= applied[k]
  BY AppliedGrows
<1>1. ASSUME NEW r \in Runs, QuietStep(r) PROVE ValueMeansApplied'
  <2> USE DEF Goto, Return, Refuse, callVars, TypeOK
  <2>1. CASE SwitchIsOn(r) \/ IsDryRun(r) \/ RunBudgetSpent(r) \/ DayBudgetSpent(r)
    BY <1>0, <1>b, <2>1 DEF SwitchIsOn, SwitchIsOff, IsDryRun, RunBudgetSpent, DayBudgetSpent
  <2>2. CASE StartCounting(r) \/ DayBudgetLeft(r) \/ ReadFails(r) \/ ClaimRefused(r)
    BY <1>0, <1>b, <2>2 DEF StartCounting, SwitchIsOff, DayBudgetLeft, ReadFails, ClaimRefused
  <2>3. CASE Execute(r) \/ FunctionReturns(r) \/ FunctionRaises(r)
    BY <1>0, <1>b, <2>3 DEF Execute, FunctionReturns, FunctionRaises
  <2>4. CASE NewRun(r) \/ Crash(r)
    BY <1>0, <1>b, <2>4 DEF NewRun, Crash
  <2>5. ASSUME NEW k \in Keys, Call(r, k) PROVE ValueMeansApplied'
    BY <1>0, <1>b, <2>5 DEF Call
  <2> QED
    BY <1>1, <2>1, <2>2, <2>3, <2>4, <2>5 DEF QuietStep
<1>2. ASSUME Environment PROVE ValueMeansApplied'
  <2>1. UNCHANGED <<pc, external_id, outcome>>
    BY <1>2 DEF Environment, SetKillSwitch, CacheWindowPasses, Midnight, callVars
  <2> QED
    BY <1>0, <1>b, <2>1
<1>3. ASSUME NEW r \in Runs, NEW reply \in DbReplies, Claim(r, reply) \/ RecordError(r, reply)
      PROVE  ValueMeansApplied'
  BY <1>0, <1>b, <1>3 DEF Claim, RecordError, Return, Goto, callVars, TypeOK
<1>4. ASSUME NEW r \in Runs, NEW reply \in DbReplies, RecordRefusal(r, reply) PROVE ValueMeansApplied'
  <2>1. outcome[r] # "value"
    BY <1>4 DEF RecordRefusal, RefusalsDecided
  <2> QED
    BY <1>0, <1>b, <1>4, <2>1 DEF RecordRefusal, Return, Goto, callVars, TypeOK
<1>5. ASSUME NEW r \in Runs, NEW reply \in DbReplies, RecordOk(r, reply) PROVE ValueMeansApplied'
  <2>1. applied' = applied /\ external_id' = external_id
    BY <1>5 DEF RecordOk
  <2>2. applied[external_id[r]] >= 1
    BY <1>5 DEF RecordOk, SuccessFollowsEffect
  <2>3. \A p \in Runs : Served(p)' => Served(p) \/ p = r
    BY <1>5 DEF RecordOk, Return, Goto, TypeOK
  <2> QED
    BY <2>1, <2>2, <2>3 DEF ValueMeansApplied
<1>6. CASE UNCHANGED guardVars
  BY <1>6 DEF guardVars, ValueMeansApplied
<1> QED
  BY <1>1, <1>2, <1>3, <1>4, <1>5, <1>6, NextCases

\* The facts about answers and rows that the jobs' proofs build on.
GuardFacts == SuccessFollowsEffect /\ OkMeansApplied /\ RefusalsDecided /\ ValueMeansApplied

LEMMA GuardFactsInit == GuardInit => GuardFacts
<1> SUFFICES ASSUME GuardInit PROVE GuardFacts
  OBVIOUS
<1>1. \A r \in Runs : pc[r] = "idle"
  BY DEF GuardInit
<1>2. \A k \in Keys : integration_log[k].status = "none"
  BY DEF GuardInit, Absent
<1> QED
  BY <1>1, <1>2
  DEF GuardFacts, SuccessFollowsEffect, OkMeansApplied, RefusalsDecided, ValueMeansApplied

LEMMA GuardFactsNext == TypeOK /\ GuardFacts /\ [GuardNext]_guardVars => GuardFacts'
BY SuccessNext, RefusalsNext, ValueNext DEF GuardFacts

\* A row that says ok is never a lie: the write it stands for has happened, even
\* when another run's late record put the ok there (guards.py:170-181).
THEOREM OkRowsAreTrue == GuardSpec => []OkMeansApplied
<1>1. GuardInit => TypeOK /\ GuardFacts
  BY TypeInit, GuardFactsInit
<1>2. TypeOK /\ GuardFacts /\ [GuardNext]_guardVars => (TypeOK /\ GuardFacts)'
  BY TypeNext, GuardFactsNext
<1>3. GuardFacts => OkMeansApplied
  BY DEF GuardFacts
<1> QED
  BY <1>1, <1>2, <1>3, PTL DEF GuardSpec

------------------------------------------------------------------------------
(* How far concurrent runs can overshoot the daily budget.                   *)

\* The sum BudgetCommitted bounds.
Committed == Cardinality(OkSince(day)) + Cardinality(PastCheck)

LEMMA FiniteParts ==
  /\ IsFiniteSet(PastCheck) /\ Cardinality(PastCheck) \in Nat
  /\ Cardinality(PastCheck) <= Cardinality(Runs)
  /\ \A d : IsFiniteSet(OkSince(d)) /\ Cardinality(OkSince(d)) \in Nat
  /\ Cardinality(Runs) \in Nat
<1>1. PastCheck \in SUBSET Runs
  BY DEF PastCheck
<1>2. \A d : OkSince(d) \in SUBSET Keys
  BY DEF OkSince
<1> QED
  BY <1>1, <1>2, FiniteAssumption, FS_Subset, FS_CardinalityType

LEMMA OneMore ==
  ASSUME NEW S, NEW x, NEW T \in SUBSET (S \cup {x}), IsFiniteSet(S)
  PROVE  Cardinality(T) <= Cardinality(S) + 1
<1>1. IsFiniteSet(S \cup {x}) /\ Cardinality(S) \in Nat
  BY FS_AddElement, FS_CardinalityType
<1>2. Cardinality(S \cup {x}) \in {Cardinality(S), Cardinality(S) + 1}
  BY FS_AddElement
<1>3. Cardinality(T) <= Cardinality(S \cup {x}) /\ Cardinality(T) \in Nat
  BY <1>1, FS_Subset, FS_CardinalityType
<1> QED
  BY <1>1, <1>2, <1>3

\* The same for the next state.
LEMMA FinitePartsNext ==
  /\ IsFiniteSet(PastCheck') /\ Cardinality(PastCheck') \in Nat
  /\ Cardinality(PastCheck') <= Cardinality(Runs)
  /\ IsFiniteSet(OkSince(day)') /\ Cardinality(OkSince(day)') \in Nat
<1>1. PastCheck' \in SUBSET Runs
  BY DEF PastCheck
<1>2. OkSince(day)' \in SUBSET Keys
  BY DEF OkSince
<1> QED
  BY <1>1, <1>2, FiniteAssumption, FS_Subset, FS_CardinalityType

LEMMA CommittedShrinks ==
  ASSUME OkSince(day)' \subseteq OkSince(day), PastCheck' \subseteq PastCheck
  PROVE  Committed' <= Committed
BY FiniteParts, FinitePartsNext, FS_Subset DEF Committed

\* The days of rows and of boundaries never run ahead of the clock.
DaysInOrder ==
  /\ \A k \in Keys : integration_log[k].day <= day
  /\ \A r \in Runs : day_start[r] <= day

LEMMA DaysNext == TypeOK /\ DaysInOrder /\ [GuardNext]_guardVars => DaysInOrder'
<1> SUFFICES ASSUME TypeOK, DaysInOrder, [GuardNext]_guardVars PROVE DaysInOrder'
  OBVIOUS
<1> USE DEF DaysInOrder, Goto, Return, Refuse, callVars, logVars, envVars, effVars, TypeOK
<1>1. ASSUME NEW r \in Runs, QuietStep(r) PROVE DaysInOrder'
  <2>1. CASE SwitchIsOn(r) \/ IsDryRun(r) \/ RunBudgetSpent(r) \/ DayBudgetSpent(r)
    BY <2>1 DEF SwitchIsOn, SwitchIsOff, IsDryRun, RunBudgetSpent, DayBudgetSpent
  <2>2. CASE StartCounting(r)
    BY <2>2 DEF StartCounting, SwitchIsOff
  <2>3. CASE DayBudgetLeft(r) \/ ReadFails(r) \/ ClaimRefused(r)
    BY <2>3 DEF DayBudgetLeft, ReadFails, ClaimRefused
  <2>4. CASE Execute(r) \/ FunctionReturns(r) \/ FunctionRaises(r)
    BY <2>4 DEF Execute, FunctionReturns, FunctionRaises
  <2>5. CASE NewRun(r) \/ Crash(r)
    BY <2>5 DEF NewRun, Crash
  <2>6. ASSUME NEW k \in Keys, Call(r, k) PROVE DaysInOrder'
    BY <2>6 DEF Call
  <2> QED
    BY <1>1, <2>1, <2>2, <2>3, <2>4, <2>5, <2>6 DEF QuietStep
<1>2. ASSUME Environment PROVE DaysInOrder'
  <2>1. integration_log' = integration_log /\ day_start' = day_start /\ day' \in Nat /\ day <= day'
    BY <1>2, BoundAssumption DEF Environment, SetKillSwitch, CacheWindowPasses, Midnight
  <2>2. \A k \in Keys : integration_log[k].day \in 0..MaxDay
    BY DEF Row
  <2> QED
    BY <2>1, <2>2, BoundAssumption
<1>3. ASSUME NEW r \in Runs, NEW reply \in DbReplies,
             RecordRefusal(r, reply) \/ Claim(r, reply) \/ RecordError(r, reply) \/ RecordOk(r, reply)
      PROVE  DaysInOrder'
  <2>1. UNCHANGED <<day, day_start>>
    BY <1>3 DEF RecordRefusal, Claim, RecordError, RecordOk
  <2>2. \A k \in Keys : integration_log'[k].day \in {integration_log[k].day, day}
    BY <1>3 DEF RecordRefusal, Claim, RecordError, RecordOk, Write
  <2> QED
    BY <2>1, <2>2
<1>4. CASE UNCHANGED guardVars
  BY <1>4 DEF guardVars
<1> QED
  BY <1>1, <1>2, <1>3, <1>4, NextCases

LEMMA CommittedNext ==
  ASSUME TypeOK, BudgetCommitted, [GuardNext]_guardVars
  PROVE  Committed' <= PerDay + Cardinality(Runs) - 1
<1> USE BudgetAssumption, FiniteParts, FinitePartsNext
<1>0. Committed <= PerDay + Cardinality(Runs) - 1 /\ DaysInOrder
  BY DEF BudgetCommitted, Committed, DaysInOrder
<1>a. Committed \in Nat /\ Committed' \in Nat
  BY DEF Committed
<1> DEFINE Shrinks == OkSince(day)' \subseteq OkSince(day) /\ PastCheck' \subseteq PastCheck
<1>b. ASSUME Shrinks PROVE Committed' <= PerDay + Cardinality(Runs) - 1
  BY <1>0, <1>a, <1>b, CommittedShrinks
<1>1. ASSUME NEW r \in Runs, QuietStep(r), ~DayBudgetLeft(r) PROVE Shrinks
  <2> USE DEF Goto, Return, Refuse, callVars, logVars, envVars, OkSince, PastCheck, TypeOK
  <2>1. CASE SwitchIsOn(r) \/ IsDryRun(r) \/ RunBudgetSpent(r) \/ DayBudgetSpent(r)
    BY <2>1 DEF SwitchIsOn, SwitchIsOff, IsDryRun, RunBudgetSpent, DayBudgetSpent
  <2>2. CASE StartCounting(r) \/ ReadFails(r) \/ ClaimRefused(r)
    BY <2>2 DEF StartCounting, SwitchIsOff, ReadFails, ClaimRefused
  <2>3. CASE Execute(r) \/ FunctionReturns(r) \/ FunctionRaises(r)
    BY <2>3 DEF Execute, FunctionReturns, FunctionRaises
  <2>4. CASE NewRun(r) \/ Crash(r)
    BY <2>4 DEF NewRun, Crash
  <2>5. ASSUME NEW k \in Keys, Call(r, k) PROVE Shrinks
    BY <2>5 DEF Call
  <2> QED
    BY <1>1, <2>1, <2>2, <2>3, <2>4, <2>5 DEF QuietStep
<1>2. ASSUME NEW r \in Runs, DayBudgetLeft(r) PROVE Committed' <= PerDay + Cardinality(Runs) - 1
  <2>1. OkSince(day)' = OkSince(day)
    BY <1>2 DEF DayBudgetLeft, logVars, envVars, OkSince
  <2>2. day_start[r] \in Nat /\ day \in Nat /\ day_start[r] <= day
    BY <1>0, BoundAssumption DEF DaysInOrder, TypeOK
  <2>3. \A k \in Keys : integration_log[k].day \in Nat
    BY BoundAssumption DEF TypeOK, Row
  <2>4. OkSince(day) \in SUBSET OkSince(day_start[r])
    BY <2>2, <2>3 DEF OkSince
  <2>5. Cardinality(OkSince(day)) <= PerDay - 1
    BY <1>2, <2>4, FS_Subset DEF DayBudgetLeft, successful_today
  <2> QED
    BY <2>1, <2>5 DEF Committed
<1>3. ASSUME Environment PROVE Committed' <= PerDay + Cardinality(Runs) - 1
  <2>1. UNCHANGED <<integration_log, pc>>
    BY <1>3, EnvironmentLeavesRuns DEF logVars
  <2>2. \A k \in Keys : integration_log[k].day \in Nat
    BY BoundAssumption DEF TypeOK, Row
  <2>3. day \in Nat /\ day' \in Nat /\ day <= day'
    BY <1>3, BoundAssumption DEF Environment, SetKillSwitch, CacheWindowPasses, Midnight, TypeOK
  <2>4. Shrinks
    BY <2>1, <2>2, <2>3 DEF OkSince, PastCheck
  <2> QED
    BY <1>b, <2>4
<1>4. ASSUME NEW r \in Runs, NEW reply \in DbReplies,
             RecordRefusal(r, reply) \/ Claim(r, reply) \/ RecordError(r, reply)
      PROVE  Shrinks
  <2>1. day' = day /\ \A k \in Keys : integration_log'[k].status = "ok" => integration_log'[k] = integration_log[k]
    BY <1>4 DEF RecordRefusal, Claim, RecordError, RefusalStatus, Write, logVars, envVars, TypeOK
  <2>2. PastCheck' \subseteq PastCheck
    BY <1>4 DEF RecordRefusal, Claim, RecordError, Return, Goto, PastCheck, TypeOK
  <2> QED
    BY <2>1, <2>2 DEF OkSince
<1>5. ASSUME NEW r \in Runs, NEW reply \in DbReplies, RecordOk(r, reply)
      PROVE  Committed' <= PerDay + Cardinality(Runs) - 1
  <2>1. PastCheck' = PastCheck \ {r} /\ r \in PastCheck
    BY <1>5 DEF RecordOk, Return, Goto, PastCheck, TypeOK
  <2>2. Cardinality(PastCheck') = Cardinality(PastCheck) - 1
    BY <2>1, FS_RemoveElement
  <2>3. OkSince(day)' \in SUBSET (OkSince(day) \cup {external_id[r]})
    BY <1>5 DEF RecordOk, Write, envVars, OkSince, TypeOK
  <2>4. Cardinality(OkSince(day)') <= Cardinality(OkSince(day)) + 1
    <3>1. IsFiniteSet(OkSince(day))
      OBVIOUS
    <3> QED
      BY <2>3, <3>1, OneMore
  <2> QED
    BY <1>0, <2>2, <2>4 DEF Committed
<1>6. CASE UNCHANGED guardVars
  BY <1>b, <1>6 DEF guardVars, OkSince, PastCheck
<1> QED
  BY <1>b, <1>1, <1>2, <1>3, <1>4, <1>5, <1>6, NextCases

\* Runs that pass the daily check together overshoot the budget by at most one
\* ok row each (guards.py:190-198 checks, guards.py:181 records much later), also
\* over midnight and whatever rows are erased or recorded again.
THEOREM DailyBudgetOvershoot == GuardSpec => []DailyRowsBounded
<1>1. GuardInit => TypeOK /\ BudgetCommitted
  <2> SUFFICES ASSUME GuardInit PROVE TypeOK /\ BudgetCommitted
    OBVIOUS
  <2>1. OkSince(day) = {} /\ PastCheck = {}
    BY DEF GuardInit, OkSince, PastCheck, Absent
  <2>2. \A k \in Keys : integration_log[k].day <= day
    BY DEF GuardInit, Absent
  <2>3. \A r \in Runs : day_start[r] <= day
    BY DEF GuardInit
  <2> QED
    BY <2>1, <2>2, <2>3, TypeInit, FS_EmptySet, FiniteParts, BudgetAssumption DEF BudgetCommitted
<1>2. TypeOK /\ BudgetCommitted /\ [GuardNext]_guardVars => (TypeOK /\ BudgetCommitted)'
  BY TypeNext, DaysNext, CommittedNext DEF BudgetCommitted, DaysInOrder, Committed
<1>3. BudgetCommitted => DailyRowsBounded
  BY FiniteParts, BudgetAssumption DEF BudgetCommitted, DailyRowsBounded
<1> QED
  BY <1>1, <1>2, <1>3, PTL DEF GuardSpec
------------------------------------------------------------------------------
(* The guard implements the ledger.                                          *)

\* The moves a line can make.
LineMoves(k) ==
  \/ LedgerLine(k)' = LedgerLine(k)
  \/ LedgerLine(k) = "free" /\ LedgerLine(k)' = "claimed"
  \/ LedgerLine(k) = "claimed" /\ LedgerLine(k)' \in {"free", "written"}
  \/ LedgerLine(k) = "written" /\ LedgerLine(k)' = "closed"
  \/ LedgerLine(k)' = "spoiled"

\* While a write happens at most once, no line reads "written twice".
LEMMA LineInRange ==
  ASSUME TypeOK, AtMostOnce, NEW k \in Keys
  PROVE  LedgerLine(k) \in Claims!Lines
BY DEF LedgerLine, Claims!Lines, TypeOK, AtMostOnce

\* One line that moves is one step of the ledger.
LEMMA OneLineMoves ==
  ASSUME NEW k \in Keys, LedgerLine(k) \in Claims!Lines, LineMoves(k),
         \A l \in Keys \ {k} : LedgerLine(l)' = LedgerLine(l)
  PROVE  [Claims!LedgerNext]_Ledger
<1>1. Ledger' = [Ledger EXCEPT ![k] = LedgerLine(k)']
  BY DEF Ledger
<1>2. Ledger[k] = LedgerLine(k)
  BY DEF Ledger
<1>3. CASE LedgerLine(k)' = LedgerLine(k)
  BY <1>1, <1>2, <1>3 DEF Ledger
<1>4. CASE LedgerLine(k)' # LedgerLine(k)
  <2>1. Claims!Reserve(k) \/ Claims!Abandon(k) \/ Claims!Perform(k) \/ Claims!Close(k) \/ Claims!Spoil(k)
    BY <1>1, <1>2, <1>4
    DEF LineMoves, Claims!Reserve, Claims!Abandon, Claims!Perform, Claims!Close, Claims!Spoil,
        Claims!Move
  <2> QED
    BY <2>1 DEF Claims!LedgerNext
<1> QED
  BY <1>3, <1>4

\* A line is made of the marks, the effects and the pending column of its key.
LEMMA LineKept ==
  ASSUME NEW k \in Keys, applied'[k] = applied[k],
         integration_log'[k].pending = integration_log[k].pending,
         k \in overwritten' \cup ambiguous' <=> k \in overwritten \cup ambiguous
  PROVE  LedgerLine(k)' = LedgerLine(k)
BY DEF LedgerLine

LEMMA GuardStepMovesLine ==
  ASSUME TypeOK, Exclusive, OnceInv, GuardNext, Keys # {}
  PROVE  \E k \in Keys : LineMoves(k) /\ \A l \in Keys \ {k} : LedgerLine(l)' = LedgerLine(l)
<1>1. ASSUME UNCHANGED logVars, UNCHANGED effVars
      PROVE  \A k \in Keys : LedgerLine(k)' = LedgerLine(k)
  BY <1>1 DEF logVars, effVars, LedgerLine
<1>2. ASSUME NEW r \in Runs, Execute(r) PROVE
      \E k \in Keys : LineMoves(k) /\ \A l \in Keys \ {k} : LedgerLine(l)' = LedgerLine(l)
  <2> PICK key \in Keys : key = external_id[r]
    BY DEF TypeOK
  <2>1. key \in Keys /\ Holds(r, key) /\ pc[r] = "executing"
    BY <1>2 DEF Execute, Holds, HoldingPcs, TypeOK
  <2>2. UNCHANGED <<integration_log, overwritten, ambiguous>>
        /\ applied' = [applied EXCEPT ![key] = @ + 1]
    BY <1>2 DEF Execute, logVars
  <2>3. \A l \in Keys \ {key} : LedgerLine(l)' = LedgerLine(l)
    BY <2>2, LineKept DEF TypeOK
  <2>4. CASE key \in overwritten \cup ambiguous
    BY <2>1, <2>2, <2>3, <2>4 DEF LineMoves, LedgerLine
  <2>5. CASE key \notin overwritten \cup ambiguous
    <3>1. integration_log[key].pending /\ applied[key] = 0
      BY <2>1, <2>5 DEF Exclusive, OnceInv, CleanKeysUnapplied
    <3>2. applied'[key] = 1
      BY <2>1, <2>2, <3>1 DEF TypeOK
    <3>3. LedgerLine(key) = "claimed" /\ LedgerLine(key)' = "written"
      BY <2>2, <2>5, <3>1, <3>2 DEF LedgerLine
    <3> QED
      BY <2>1, <2>3, <3>3 DEF LineMoves
  <2> QED
    BY <2>4, <2>5
<1>3. ASSUME NEW r \in Runs, FunctionRaises(r) PROVE
      \E k \in Keys : LineMoves(k) /\ \A l \in Keys \ {k} : LedgerLine(l)' = LedgerLine(l)
  <2> PICK key \in Keys : key = external_id[r]
    BY DEF TypeOK
  <2>1. key \in Keys
    BY DEF TypeOK
  <2>2. UNCHANGED <<integration_log, overwritten, applied>> /\ ambiguous' \in {ambiguous, ambiguous \cup {key}}
    BY <1>3 DEF FunctionRaises, logVars
  <2>3. \A l \in Keys \ {key} : LedgerLine(l)' = LedgerLine(l)
    BY <2>2, LineKept
  <2>4. LedgerLine(key)' \in {LedgerLine(key), "spoiled"}
    BY <2>2 DEF LedgerLine
  <2> QED
    BY <2>1, <2>3, <2>4 DEF LineMoves
<1>4. ASSUME NEW r \in Runs, NEW reply \in DbReplies, RecordRefusal(r, reply) PROVE
      \E k \in Keys : LineMoves(k) /\ \A l \in Keys \ {k} : LedgerLine(l)' = LedgerLine(l)
  <2> PICK key \in Keys : key = external_id[r]
    BY DEF TypeOK
  <2>1. key \in Keys /\ UNCHANGED <<applied, ambiguous>>
    BY <1>4 DEF RecordRefusal, effVars, TypeOK
  <2>2. CASE reply = "failed"
    BY <1>1, <1>4, <2>1, <2>2 DEF RecordRefusal, LineMoves
  <2>3. CASE reply # "failed"
    <3>1. /\ \A l \in Keys \ {key} : integration_log'[l] = integration_log[l]
          /\ ~integration_log'[key].pending
          /\ overwritten' = IF integration_log[key].status = "ok" \/ integration_log[key].pending
                            THEN overwritten \cup {key} ELSE overwritten
      BY <1>4, <2>1, <2>3 DEF RecordRefusal, Write, TypeOK
    <3>2. \A l \in Keys \ {key} : LedgerLine(l)' = LedgerLine(l)
      BY <2>1, <3>1, LineKept
    <3>3. LedgerLine(key)' \in {LedgerLine(key), "spoiled"}
      BY <2>1, <3>1 DEF LedgerLine
    <3> QED
      BY <2>1, <3>2, <3>3 DEF LineMoves
  <2> QED
    BY <2>2, <2>3
<1>5. ASSUME NEW r \in Runs, NEW reply \in DbReplies, Claim(r, reply) PROVE
      \E k \in Keys : LineMoves(k) /\ \A l \in Keys \ {k} : LedgerLine(l)' = LedgerLine(l)
  <2> PICK key \in Keys : key = external_id[r]
    BY DEF TypeOK
  <2>1. key \in Keys /\ UNCHANGED <<applied, ambiguous, overwritten>>
    BY <1>5 DEF Claim, effVars, TypeOK
  <2>2. CASE reply = "failed"
    BY <1>5, <2>1, <2>2 DEF Claim, LineMoves, LedgerLine
  <2>3. CASE reply # "failed"
    <3>1. /\ \A l \in Keys \ {key} : integration_log'[l] = integration_log[l]
          /\ integration_log'[key].pending /\ Claimable(key)
      BY <1>5, <2>1, <2>3 DEF Claim, Write, TypeOK
    <3>2. \A l \in Keys \ {key} : LedgerLine(l)' = LedgerLine(l)
      BY <2>1, <3>1, LineKept
    <3>3. CASE key \in overwritten \cup ambiguous
      BY <2>1, <3>2, <3>3 DEF LineMoves, LedgerLine
    <3>4. CASE key \notin overwritten \cup ambiguous
      <4>1. applied[key] = 0 /\ ~integration_log[key].pending
        BY <2>1, <3>1, <3>4 DEF OnceInv, CleanKeysUnapplied, Claimable
      <4>2. LedgerLine(key) = "free" /\ LedgerLine(key)' = "claimed"
        BY <2>1, <3>1, <3>4, <4>1 DEF LedgerLine
      <4> QED
        BY <2>1, <3>2, <4>2 DEF LineMoves
    <3> QED
      BY <3>3, <3>4
  <2> QED
    BY <2>2, <2>3
<1>6. ASSUME NEW r \in Runs, NEW reply \in DbReplies, RecordError(r, reply) \/ RecordOk(r, reply) PROVE
      \E k \in Keys : LineMoves(k) /\ \A l \in Keys \ {k} : LedgerLine(l)' = LedgerLine(l)
  <2> PICK key \in Keys : key = external_id[r]
    BY DEF TypeOK
  <2>1. key \in Keys /\ UNCHANGED <<applied, ambiguous, overwritten>> /\ Holds(r, key)
    BY <1>6 DEF RecordError, RecordOk, effVars, TypeOK, Holds, HoldingPcs
  <2>2. CASE reply = "failed"
    BY <1>6, <2>1, <2>2 DEF RecordError, RecordOk, LineMoves, LedgerLine
  <2>3. CASE reply # "failed"
    <3>1. /\ \A l \in Keys \ {key} : integration_log'[l] = integration_log[l]
          /\ ~integration_log'[key].pending
      BY <1>6, <2>1, <2>3 DEF RecordError, RecordOk, Write, TypeOK
    <3>2. \A l \in Keys \ {key} : LedgerLine(l)' = LedgerLine(l)
      BY <2>1, <3>1, LineKept
    <3>3. CASE key \in overwritten \cup ambiguous
      BY <2>1, <3>2, <3>3 DEF LineMoves, LedgerLine
    <3>4. CASE key \notin overwritten \cup ambiguous
      <4>1. integration_log[key].pending
        BY <2>1, <3>4 DEF Exclusive
      <4>2. applied[key] \in {0, 1}
        BY <2>1, <3>4 DEF OnceInv, AtMostOnce, TypeOK
      <4>3. \/ LedgerLine(key) = "claimed" /\ LedgerLine(key)' = "free"
            \/ LedgerLine(key) = "written" /\ LedgerLine(key)' = "closed"
        BY <2>1, <3>1, <3>4, <4>1, <4>2 DEF LedgerLine
      <4> QED
        BY <2>1, <3>2, <4>3 DEF LineMoves
    <3> QED
      BY <3>3, <3>4
  <2> QED
    BY <2>2, <2>3
<1>7. ASSUME UNCHANGED logVars, UNCHANGED effVars PROVE
      \E k \in Keys : LineMoves(k) /\ \A l \in Keys \ {k} : LedgerLine(l)' = LedgerLine(l)
  BY <1>1, <1>7 DEF LineMoves
<1>8. ASSUME NEW r \in Runs, QuietStep(r), ~Execute(r), ~FunctionRaises(r)
      PROVE  UNCHANGED logVars /\ UNCHANGED effVars
  BY <1>8 DEF QuietStep, SwitchIsOn, IsDryRun, RunBudgetSpent, StartCounting, DayBudgetSpent,
    DayBudgetLeft, ReadFails, ClaimRefused, FunctionReturns, NewRun, Crash, Call, Refuse
<1> QED
  BY <1>2, <1>3, <1>4, <1>5, <1>6, <1>7, <1>8, NextCases, EnvironmentLeavesRuns

LEMMA StepImplementsLedger ==
  TypeOK /\ Exclusive /\ OnceInv /\ [GuardNext]_guardVars => [Claims!LedgerNext]_Ledger
<1> SUFFICES ASSUME TypeOK, Exclusive, OnceInv, [GuardNext]_guardVars
             PROVE  [Claims!LedgerNext]_Ledger
  OBVIOUS
<1>1. CASE Keys = {}
  BY <1>1 DEF Ledger
<1>2. CASE UNCHANGED guardVars
  BY <1>2 DEF guardVars, Ledger, LedgerLine
<1>3. CASE GuardNext /\ Keys # {}
  <2>1. PICK k \in Keys : LineMoves(k) /\ \A l \in Keys \ {k} : LedgerLine(l)' = LedgerLine(l)
    BY <1>3, GuardStepMovesLine
  <2>2. LedgerLine(k) \in Claims!Lines
    BY LineInRange DEF OnceInv
  <2> QED
    BY <2>1, <2>2, OneLineMoves
<1> QED
  BY <1>1, <1>2, <1>3

\* The guard, with all its runs, statements, lost replies, budgets and crashes,
\* implements the ledger of claims, for every number of runs and keys.
THEOREM GuardImplementsLedger == GuardSpec => ImplementsLedger
<1>1. GuardInit => TypeOK /\ Exclusive /\ OnceInv
  BY TypeInit, ExclusiveInit, OnceInit
<1>2. TypeOK /\ Exclusive /\ OnceInv /\ [GuardNext]_guardVars => (TypeOK /\ Exclusive /\ OnceInv)'
  BY TypeNext, ExclusiveNext, OnceNext
<1>3. GuardInit => Claims!LedgerInit
  BY DEF GuardInit, Claims!LedgerInit, Ledger, LedgerLine, Absent
<1> QED
  BY <1>1, <1>2, <1>3, StepImplementsLedger, PTL DEF GuardSpec, ImplementsLedger, Claims!LedgerSpec

------------------------------------------------------------------------------
(* What the guard takes the switch to answer.                                *)

\* Before it has decided on a refusal a call has no outcome.
UndecidedPcs == CallPcs \ {"refusing"}
Undecided    == \A r \in Runs : pc[r] \in UndecidedPcs => outcome[r] = "none"

LEMMA UndecidedNext == TypeOK /\ Undecided /\ [GuardNext]_guardVars => Undecided'
<1> SUFFICES ASSUME TypeOK, Undecided, [GuardNext]_guardVars PROVE Undecided'
  OBVIOUS
<1> USE DEF Goto, Return, Refuse, callVars, Undecided, UndecidedPcs, CallPcs, HoldingPcs, TypeOK
<1>1. ASSUME NEW r \in Runs, QuietStep(r) PROVE Undecided'
  <2>1. CASE SwitchIsOn(r) \/ IsDryRun(r) \/ RunBudgetSpent(r) \/ DayBudgetSpent(r)
    BY <2>1 DEF SwitchIsOn, IsDryRun, RunBudgetSpent, DayBudgetSpent
  <2>2. CASE StartCounting(r) \/ DayBudgetLeft(r) \/ ReadFails(r) \/ ClaimRefused(r)
    BY <2>2 DEF StartCounting, SwitchIsOff, DayBudgetLeft, ReadFails, ClaimRefused
  <2>3. CASE Execute(r) \/ FunctionReturns(r) \/ FunctionRaises(r)
    BY <2>3 DEF Execute, FunctionReturns, FunctionRaises
  <2>4. CASE NewRun(r) \/ Crash(r)
    BY <2>4 DEF NewRun, Crash
  <2>5. ASSUME NEW k \in Keys, Call(r, k) PROVE Undecided'
    BY <2>5 DEF Call
  <2> QED
    BY <1>1, <2>1, <2>2, <2>3, <2>4, <2>5 DEF QuietStep
<1>2. ASSUME Environment PROVE Undecided'
  BY <1>2 DEF Environment, SetKillSwitch, CacheWindowPasses, Midnight
<1>3. ASSUME NEW r \in Runs, NEW reply \in DbReplies,
             RecordRefusal(r, reply) \/ Claim(r, reply) \/ RecordError(r, reply) \/ RecordOk(r, reply)
      PROVE  Undecided'
  BY <1>3 DEF RecordRefusal, Claim, RecordError, RecordOk
<1>4. CASE UNCHANGED guardVars
  BY <1>4 DEF guardVars
<1> QED
  BY <1>1, <1>2, <1>3, <1>4, NextCases

\* A step of a run leaves the switch alone and moves that run only.
LEMMA RunsKeepToThemselves ==
  ASSUME TypeOK, NEW r \in Runs,
         \/ QuietStep(r)
         \/ \E reply \in DbReplies :
              RecordRefusal(r, reply) \/ Claim(r, reply) \/ RecordError(r, reply) \/ RecordOk(r, reply)
  PROVE  /\ UNCHANGED envVars
         /\ \A s \in Runs \ {r} : pc'[s] = pc[s] /\ outcome'[s] = outcome[s]
<1> USE DEF Goto, Return, Refuse, TypeOK
<1>1. CASE SwitchIsOn(r) \/ IsDryRun(r) \/ RunBudgetSpent(r) \/ DayBudgetSpent(r)
  BY <1>1 DEF SwitchIsOn, IsDryRun, RunBudgetSpent, DayBudgetSpent
<1>2. CASE StartCounting(r) \/ DayBudgetLeft(r) \/ ReadFails(r) \/ ClaimRefused(r)
  BY <1>2 DEF StartCounting, DayBudgetLeft, ReadFails, ClaimRefused
<1>3. CASE Execute(r) \/ FunctionReturns(r) \/ FunctionRaises(r)
  BY <1>3 DEF Execute, FunctionReturns, FunctionRaises
<1>4. CASE NewRun(r) \/ Crash(r) \/ \E k \in Keys : Call(r, k)
  BY <1>4 DEF NewRun, Crash, Call
<1>5. ASSUME NEW reply \in DbReplies,
             RecordRefusal(r, reply) \/ Claim(r, reply) \/ RecordError(r, reply) \/ RecordOk(r, reply)
      PROVE  /\ UNCHANGED envVars
             /\ \A s \in Runs \ {r} : pc'[s] = pc[s] /\ outcome'[s] = outcome[s]
  BY <1>5 DEF RecordRefusal, Claim, RecordError, RecordOk
<1> QED
  BY <1>1, <1>2, <1>3, <1>4, <1>5 DEF QuietStep

\* A run that reads the switch is answered a visible value; any other step of a run
\* keeps its answer or ends with it.
LEMMA AnswerMoves ==
  ASSUME TypeOK, Undecided, RefusalsDecided, NEW r \in Runs,
         \/ QuietStep(r)
         \/ \E reply \in DbReplies :
              RecordRefusal(r, reply) \/ Claim(r, reply) \/ RecordError(r, reply) \/ RecordOk(r, reply)
  PROVE  \/ ToldTo(r)' \in {ToldTo(r), {}}
         \/ ToldTo(r) = {} /\ \E on \in visible : ToldTo(r)' = {on}
<1> USE DEF Goto, Return, Refuse, TypeOK, Undecided, UndecidedPcs, CallPcs, HoldingPcs, ToldTo
<1>1. CASE SwitchIsOn(r)
  BY <1>1 DEF SwitchIsOn
<1>2. CASE IsDryRun(r) \/ RunBudgetSpent(r) \/ StartCounting(r)
  BY <1>2 DEF IsDryRun, RunBudgetSpent, StartCounting, SwitchIsOff
<1>3. CASE DayBudgetSpent(r) \/ DayBudgetLeft(r)
  BY <1>3 DEF DayBudgetSpent, DayBudgetLeft
<1>4. CASE ReadFails(r) \/ ClaimRefused(r)
  BY <1>4 DEF ReadFails, ClaimRefused
<1>5. CASE Execute(r) \/ FunctionReturns(r) \/ FunctionRaises(r)
  BY <1>5 DEF Execute, FunctionReturns, FunctionRaises
<1>6. CASE NewRun(r) \/ Crash(r) \/ \E k \in Keys : Call(r, k)
  BY <1>6 DEF NewRun, Crash, Call
<1>7. ASSUME NEW reply \in DbReplies,
             RecordRefusal(r, reply) \/ Claim(r, reply) \/ RecordError(r, reply) \/ RecordOk(r, reply)
      PROVE  ToldTo(r)' \in {ToldTo(r), {}}
  BY <1>7 DEF RecordRefusal, Claim, RecordError, RecordOk
<1> QED
  BY <1>1, <1>2, <1>3, <1>4, <1>5, <1>6, <1>7 DEF QuietStep

LEMMA RunStepIsViewStep ==
  ASSUME TypeOK, Undecided, RefusalsDecided, NEW r \in Runs,
         \/ QuietStep(r)
         \/ \E reply \in DbReplies :
              RecordRefusal(r, reply) \/ Claim(r, reply) \/ RecordError(r, reply) \/ RecordOk(r, reply)
  PROVE  [Switch!ViewNext]_Switch!viewVars
<1>1. UNCHANGED <<kill_switch, visible>>
  BY RunsKeepToThemselves DEF envVars
<1>2. \A s \in Runs \ {r} : ToldTo(s)' = ToldTo(s)
  BY RunsKeepToThemselves DEF ToldTo
<1>3. Told' = [Told EXCEPT ![r] = ToldTo(r)']
  BY <1>2 DEF Told
<1>4. Told[r] = ToldTo(r)
  BY DEF Told
<1>5. CASE ToldTo(r)' = ToldTo(r)
  <2>1. Told' = Told
    BY <1>2, <1>5 DEF Told
  <2> QED
    BY <1>1, <2>1 DEF Switch!viewVars
<1>6. CASE ToldTo(r)' = {}
  BY <1>1, <1>3, <1>6 DEF Switch!ViewNext, Switch!Finish
<1>7. ASSUME NEW on \in visible, ToldTo(r) = {}, ToldTo(r)' = {on}
      PROVE  Switch!ViewNext
  <2>1. on \in BOOLEAN
    BY DEF TypeOK
  <2> QED
    BY <1>1, <1>3, <1>4, <1>7, <2>1 DEF Switch!ViewNext, Switch!Tell
<1> QED
  BY <1>5, <1>6, <1>7, AnswerMoves

\* For every number of runs: a run goes past the switch, to a dry run, a count or a
\* claim, only on an answer "off" that the cached switch may give at that moment,
\* and refuses for the switch only on an answer "on" (guards.py:148).  What the
\* cached switch may give is SwitchView, which KillSwitch implements.
THEOREM GuardTakesView == GuardSpec => TakesView
<1>1. GuardInit => Switch!ViewInit
  BY ModeAssumption DEF GuardInit, Switch!ViewInit, Told, ToldTo
<1>2. TypeOK /\ Undecided /\ RefusalsDecided /\ [GuardNext]_guardVars
        => [Switch!ViewNext]_Switch!viewVars
  <2> SUFFICES ASSUME TypeOK, Undecided, RefusalsDecided, [GuardNext]_guardVars
               PROVE  [Switch!ViewNext]_Switch!viewVars
    OBVIOUS
  <2>1. ASSUME NEW on \in SwitchValues, SetKillSwitch(on) PROVE Switch!ViewNext
    <3>1. on \in BOOLEAN
      BY ModeAssumption
    <3> QED
      BY <2>1, <3>1 DEF SetKillSwitch, Switch!ViewNext, Switch!Store, Told, ToldTo
  <2>2. CASE CacheWindowPasses
    BY <2>2 DEF CacheWindowPasses, Switch!ViewNext, Switch!Forget, Told, ToldTo
  <2>3. CASE Midnight
    BY <2>3 DEF Midnight, Switch!viewVars, Told, ToldTo
  <2>4. CASE UNCHANGED guardVars
    BY <2>4 DEF guardVars, Switch!viewVars, Told, ToldTo
  <2> QED
    BY <2>1, <2>2, <2>3, <2>4, RunStepIsViewStep, NextCases DEF Environment
<1>3. GuardInit => TypeOK /\ Undecided /\ RefusalsDecided
  BY TypeInit DEF GuardInit, Undecided, UndecidedPcs, RefusalsDecided, CallPcs, HoldingPcs
<1>4. TypeOK /\ Undecided /\ RefusalsDecided /\ [GuardNext]_guardVars
        => (TypeOK /\ Undecided /\ RefusalsDecided)'
  BY TypeNext, UndecidedNext, RefusalsNext
<1> QED
  BY <1>1, <1>2, <1>3, <1>4, PTL DEF GuardSpec, TakesView, Switch!ViewSpec
=============================================================================
