# Torus integration service: a TLA+ model

This directory models the integration service `tis` (`src/src/tis`), a small
Python process that moves leads and bookings between a Postgres database, Google
Calendar and Zoho CRM, and the scripts that back it up and deploy it
(`src/deploy`). File names without a directory are those of `src/src/tis`.

Contents: 1 the system, 2 what is hard about it, 3 the modules, 4 the runs,
5 fairness, 6 the proofs, 7 where code and documents disagree, 8 known behaviours
that are not properties, 9 what is not modelled, 10 the plan.

## 1. The system

### 1.1 Parts, their state and their operations

| Part | State it keeps | Operations |
|---|---|---|
| write guard, `guards.py` | rows of `integration_log` (status, pending marker, time), `run_counts` of one run | `external_write` around every remote write: kill switch, dry run, budgets, claim, execute, record |
| state store, `state.py` | rows of `integration_state`; a kill switch answer cached for 15 s | `get`, `set`, `kill_switch_on`, `mark_last_run` |
| database access, `db.py` | a connection pool | one transaction per statement |
| lead job, `jobs/lead_sync.py` | `leads.crm_synced`, `crm_sync_attempts`; the page of a run | select a page, upsert each lead through the guard, mark success or failure |
| booking job, `jobs/booking_sync.py` | the cursor: sync token and start times of known bookings | load cursor, list changes, classify, sync each booking through the guard, save cursor |
| Zoho adapter, `integrations/zoho.py` | an access token cached under a lock | token refresh, bounded request loop, lead upsert, booking workflow |
| HTTP client, `http.py` | none | allowlist, redirects, retry of idempotent methods |
| Calendar adapter, `integrations/google_calendar.py` | a cached access token | pages of events, 401 refresh, 410 |
| heartbeat and capture adapters | none | one guarded request each |
| mapping, `mapping/` | none | pure functions |
| scheduler, `scheduler.py`, `runtime.py`, `healthcheck.py` | timers, watchdog file | start jobs, record their outcome |
| host health and keepalive jobs | none | aggregate checks, guarded heartbeat |
| operations API, `api/` | signing keys cached for five minutes | validate an assertion, read-only status |
| backup, `backup.py`, `src/deploy/backup` | objects in R2, `last_backup_at` | upload, prune, restore test |
| deployment, `src/deploy/*.sh` | current and previous release, secrets on tmpfs, running containers | deploy, smoke, rollback |

### 1.2 How they interact

- The scheduler runs each job on an interval trigger. A run builds a fresh
  `WriteContext` (`runtime.py:33`), so its budget counters start at zero. Different
  jobs run side by side in one event loop, and one job has one run at a time
  (`max_instances=1`, `scheduler.py:102`). Nothing in the database keeps a second
  scheduler process, on another host or started by hand, from running the same jobs.
- A job calls a guarded function; the guard reads and writes `integration_log`
  through `db.py`, where every statement is a transaction of its own, and awaits the
  adapter in between. The jobs see the guard's outcome as a value or an exception.
- The lead and the booking job share one `ZohoAuth` in a process
  (`runtime.py:57`), hence one token and one lock.
- The booking job's cursor ties what Zoho holds to what Google will list next.
- The operator sets the kill switch in `integration_state`; the guard sees it
  through a cache.
- The nightly script calls `backup.py` three times (upload, prune, heartbeat), each
  call a process of its own behind the guard; the upload stores `last_backup_at`,
  which the health job judges and the status page shows.
- Deploys, rollbacks and the scheduled scripts share the decrypted files on the
  tmpfs. The operations exclude one another by a lock that the scheduled scripts do
  not take.

### 1.3 What makes each part correct

| Part | It is correct when |
|---|---|
| write guard | a key has one executor at a time; a write reaches the remote side once; an `ok` row is true; budgets bound the rows of a day |
| lead job | a lead marked synced is in Zoho; no lead is tried for ever, none waits for ever |
| booking job | the cursor moves only past bookings that were written, agrees with the calendar it has passed, and its standing still does not keep bookings from being written |
| Zoho adapter | repeating a half-done workflow completes it without copies; a value means the whole workflow; a call always ends |
| state store | a stored kill switch is seen within its window |
| Calendar adapter | a listing is complete and its token belongs to it, also after a 410 |
| scheduler | an overrun job is not started twice, an outcome is recorded for what happened |
| HTTP client | a POST is carried out at most once, a success means it was; a request ends and stays on the list |
| mapping | no required field is empty; a repeated booking is about the same person |
| backup | every backup the retention rule promises is kept; nothing is reported that is not in the bucket |
| health job, status page | a success means a backup that is there and young enough |
| operations API | a retired signing key expires, a published one is never unknown |
| deployment | what is recorded has passed smoke and is what runs; a failed deploy leaves what a rollback needs; no secret outlives the scripts |

## 2. What is hard

`PROJECT.json` lists the hazards by line. In short: the guard is a protocol of
five awaits over a shared table with no lock held across them; claims outlive their
processes; a refusal writes without reading; the daily count is read long before the
row it limits; the lead page is not locked past its SELECT; attempts and cursor are
updated by other statements than the row that decides; the calendar changes while a
run works on what it has listed, and a listing without a token sees seven days of it
only; and every HTTP request may take effect and
still end in an error. Around the process: two caches answer with values that may be
old; the nightly script is three processes, any of which may die after its effect;
values that belong together are read one await after another; and shell scripts
without a common lock edit, move and remove the same files.

## 3. The modules

| Module | Models | Used by |
|---|---|---|
| `ClaimLedger` | what the guard promises: one line per key | refined by `WriteGuard` |
| `SwitchView` | what the guard may assume of the kill switch | refined by `KillSwitch` and by `WriteGuard` |
| `WriteGuard` | `guards.py`, the parts of `state.py` and `db.py` it calls | extended by the two jobs |
| `LeadSync` | `jobs/lead_sync.py` over the guard | |
| `BookingSync` | `jobs/booking_sync.py` and `integrations/google_calendar.py` over the guard, against a calendar | |
| `ZohoBooking` | `integrations/zoho.py` against a CRM | |
| `KillSwitch` | the cached kill switch of `state.py`, with a clock | `MCOperations` |
| `AccessKeys` | the signing-key cache of `api/access.py`, with a clock | `MCOperations` |
| `Retention` | `retention_deletions` of `backup.py`, as operators on dates | `Backup` |
| `Backup` | `deploy/backup/backup.sh` and the commands of `backup.py` | `HostHealth` |
| `HostHealth` | `jobs/host_health.py` under `execute_job` of `scheduler.py`, beside the backup | `StatusPage` |
| `StatusPage` | the reads of `api/status.py`, beside the job and the backup | `MCOperations` |
| `Mapping` | `mapping/booking_parser.py`, `mapping/lead_to_zoho.py` | `MCOperations` |
| `HttpClient` | `http.py`: one request with its repetitions and redirects | `MCOperations` |
| `Deploy` | `deploy/deploy.sh`, `rollback.sh`, `lib/torus-common.sh` and the scheduled scripts | |
| `...Proofs` | theorems: `WriteGuardProofs`, `LeadSyncProofs`, `ZohoBookingProofs`, `DeployProofs`, `BookingProofs`, `OperationsProofs` (switch, keys, mapping, HTTP client), `BackupProofs`, `HealthProofs` | |
| `MC...` | symmetry sets and small values for TLC; the other constants are in the `.cfg` files | |

Definitions named `X_Something` with the comment "Planted fault" are mutated forms
of `X`. No specification uses them; they show that the properties can fail.

### 3.1 WriteGuard

One `(source, action)` pair; rows and budgets of different pairs never meet. `pc[r]`
names the await a run is suspended in, and each action is the code from one await to
the next:

| `pc` | the run awaits | actions |
|---|---|---|
| `idle`, `returned` | nothing | `Call`, `NewRun` |
| `reading_switch` | `kill_switch_on` (`guards.py:148`) | `SwitchIsOn`, `IsDryRun`, `RunBudgetSpent`, `StartCounting`, `ReadFails` |
| `refusing` | the record of a refusal (149, 152, 160) | `RecordRefusal` |
| `counting` | `successful_today` (197) | `DayBudgetSpent`, `DayBudgetLeft`, `ReadFails` |
| `claiming` | `claim` (168) | `Claim`, `ClaimRefused`, `ReadFails` |
| `executing` | the function, before its effect (171) | `Execute`, `FunctionRaises` |
| `executed` | the function, after its effect | `FunctionReturns`, `FunctionRaises` |
| `recording_error`, `recording_ok` | `record` (173, 181) | `RecordError`, `RecordOk` |

A statement ends in one of three ways (`DbReply`): committed and acknowledged,
committed with the reply lost, or failed with nothing done. `Crash` is the death of
the process at any await. `visible` is the set of answers the cached kill switch may
give: setting the switch adds the new value, the passing of the window removes the
old one. `applied`, `succeeded`, `overwritten` and `ambiguous` are history that no
action reads: effects per key, `ok` records per key, keys whose `ok` row or live
claim was replaced by a refusal, and keys whose function raised after its effect.

`ClaimLedger` is the promise without the machinery: a line per key that is free,
claimed, written, closed or spoiled. `ImplementsLedger` maps a key to its
line (`LedgerLine`): spoiled once a refusal replaced its row or its function raised after
the effect; otherwise claimed or written while the row is pending, free or closed when
it is not, by whether the write has happened. Every step of the guard moves one line
by an action of the ledger, or none.

### 3.2 LeadSync

Extends `WriteGuard`: the keys are lead ids in selection order. `StartRun` is the
SELECT, `SendLead` the call of the guard for the oldest lead of the page, `GuardStep`
any step of that call, and `MarkSuccess`, `SkipLead` and `MarkFailure` the three ways
`run` deals with its result (`lead_sync.py:121-133`): a value, a refusal by dry run,
and everything else, duplicates and database errors included. A failing write-back
ends the run (`EndRun`), as does `JobCrash`.

### 3.3 BookingSync

Extends `WriteGuard`: the keys are event ids. The calendar is external: `EditEvent`
creates, moves or cancels an event at any time, a sync token is the revision its
listing began at (revisions begin at 1, and 0 is no token), and `ChangedSince` is what
has changed since a token. A listing without one, the first and every one after a 410,
also asks for no event that ended before `now - lookback_days` (`timeMin`,
`booking_sync.py:176-178`): `TimePasses` moves that limit at any time, `Windowed` are the
events each page of such a listing drops for it, `Unlisted` those it has yet to show, and
`left_out` remembers, as history, what was dropped and has not been edited since. A run
loads its cursor and lists page by page: `MorePages` and `LastPage` take one page as
the calendar is at that moment, `TokenGone` falls back to a full listing after a 410,
`TokenRefused` is the one exchange of the access token after a 401, and `FetchFails`
is everything that makes the run raise, a page beyond the last one included. It deals
with each event by `IgnoreEvent`, `RejectEvent` or `SyncBooking`, and ends in
`SaveCursor` or `KeepCursor`. `Classify` compares an event with the cursor the run
loaded; `Bounded` is the eviction of the earliest start times. `CursorKeepsGround` is
an action property: a token never moves back, and `Remembered` shrinks only when the
store is full. `CursorCoversBookings` and `CursorMatchesCalendar` speak of the events no
full listing has left out: of those it has, the cursor may pass a booking that was never
written and a change that was never seen (section 8).

### 3.4 ZohoBooking

Calls of `sync_booking` and of `upsert_lead` over one `ZohoAuth`. A call is idle,
waits for the token (`token`), holds the lock during a refresh (`refreshing`) or has a
request under way (`sending`); `request` names the request. `TakeCached`,
`StartRefresh`, `RefreshDone` and `RefreshFails` are `ZohoAuth.token`; `Unauthorized`
and `Busy` are the two `continue`s of the request loop with their last-attempt
errors; `Breaks` is any exception. `Busy` and `Breaks` may come before or after the
request's effect. Each remaining action is one answer with the code of
`sync_booking` up to its next request. A token is abstracted to whether Zoho accepts
it, so refreshes are unbounded. The CRM (`Accepted`, `Effect`, `RecordMoves`) is
external: one record per attendee that people may enter or convert at any time; a
converted record takes its notes and tasks along, and a marker that exists is found.

The module stands beside the guard instead of under it: of the guard it uses that
one call per key runs at a time and that a failed one may be repeated (`Exclusive`,
`AtMostOnce` and their exceptions).

### 3.5 KillSwitch and AccessKeys

Both are a cache of one answer with a window, in front of a value that others change.
In `KillSwitch` a task is answered by the cache (`FromCache`, `CachedAnswerUsed`) or, where
that does not answer, goes through `Ask`, `Read` and `Answer`, which are the two halves of
`kill_switch_on` around its await; nothing keeps two tasks from doing so together, and
`StoreHere` and `DropCache` are the two halves of `set`. `WriteGuard` sees of it only
`visible`, the set of possible answers; the bound in time is here.

`SwitchView` is what stands between the two: storing a value makes it visible, the passing
of a window leaves only the stored one, a task is told a visible value (`Tell`) and in the
end forgets it (`Finish`). `ImplementsView` maps `Visible` to the values stored within the
last window and `Told` to what tasks were answered, by the database or the cache, so that
it fails as soon as the cache tells one too old. `TakesView` maps the way a run of the guard
has taken to the answer it must have had: past the switch on "off", to a refusal on "on",
each at a moment when that answer was visible. `SwitchNotStale` says that the cache answers
only what is visible. In `AccessKeys` the fetch happens under a lock
(`EnterToFetch`, `Serve`, `Arrive`, `FetchRaises`), a second look with `force` goes past
the cache, and `Rotate` is Cloudflare's change of keys at any time. `held`, `last_seen`
and `missed` are history. Signatures and claims are not modelled.

### 3.6 Retention, Backup, HostHealth and StatusPage

Time is in ticks, `DayTicks` to the day. `script` says which command of `backup.sh` is
at work and where: `calling` (the guard before its claim), `working`, `verifying` and
`noting` (the body of the command: `RcloneTransport.upload` with its second look, the
listing and the deletions one by one, the heartbeat), `recording`. The timer's unit
and the container run one script at a time, so the guard's steps up to the claim are
one here: `Refuse`, `SkipDryRun`, `Claim` or `Duplicate`. `Raise` ends a body with an
error row, `Die` ends the process anywhere, and `NoteBackup` and `RecordOk` may lose
their reply. An operator may start the script again on the same day; a script that
runs into midnight keeps its date. `Tick` forgets rows that no script can name again,
which bounds the model.

`HostHealth` adds the health job: `StartHealth` reads `last_backup_at`, `Judge` compares
it with the clock, and the outcome is recorded as `execute_job` does, failures of that
included. What else the job looks at (disk, leads, bookings, the switch) is one
nondeterministic condition. `StatusPage` adds the last success and a page that reads it
and `last_backup_at` one after the other (`PageReads`), beside the health job and a
backup reduced to `StoreBackup`.

### 3.7 Mapping

A name is the sequence of its words, an address the number of its text in alphabetical
order with its domain given by a constant. `Attendee`, `BookingName`, `LastName`,
`LeadCompany` and the others are the code's functions of the same names;
`ListAgain` is Google's answer to the same question with the attendees in another
order.

### 3.8 Deploy

`op` is the deploy or rollback under way, step by step in the order of the scripts:
checkout, the decryption of the two files, `torus_set_dry_run` and
`torus_sanitize_backup_env` (each a copy and a move), the reads of `GHCR_OWNER` and the
release settings, the record of the previous release, pull, up, smoke and the record
of the current one. `SmokeFails` turns a deploy into an automatic rollback under the
deploy's own trap. `Fail` is a step that cannot be done (`Stuck`: a file that is gone, a
setting that was stripped) or that fails for a reason outside the model. `job` is the
state of each scheduled script, which takes no deploy lock. `Terminated` is a signal whose
trap removes the files and lets the shell go on, `KillOp` and `KillJob` run no trap,
`PowerLoss` empties the tmpfs.

A decrypted file is edited through a copy beside it (`mktemp`, `torus-common.sh:63`, `76`),
which is on the tmpfs from `Copy` to `PutDryRun` or `PutSanitized`, that is, while its script
is at a step in `CopySteps`. `Remove`, which is `torus_cleanup_secrets`, knows the files by
their names only, so a script that ends at such a step, whatever ends it, leaves the copy:
`Leaves` sets `stray`, and only a power loss clears it. `DecryptedFilesAreRemoved` is about
the files by their names and not about the copies (section 8). `smoked`, `doubt` and `untended` are history.

### 3.9 HttpClient

`hop` is one pass of the loop in `request`: a method, a host that `Hop` has checked, the
attempts made there and the redirects followed. `SendRequest` and an answer are one
pass of the loop in `_request_with_retry`: `Replies`, `Refuses`, `ServerBusy` (429 and
5xx), `TransportFails`, `Redirects`, `SeeOther` (303) and `NoLocation` are the answers,
`AttemptsLeft` is what allows another attempt. The server is external: a success or a
303 means that it has carried the request out, a refusal or another redirect that it
has not, a failure or a lost answer leaves it open (`CarriesOut`, `MayCarryOut`).
`reached`, `effects` and `sends` are history of the request under way.

## 4. The runs

| Run | Instance | What it asks | Answer |
|---|---|---|---|
| `guard_exclusion` | 3 runs, 1 key, dry or live, switch on or off, every reply | do claims exclude, is a write done at most once, is an `ok` row true, is the guard a ledger, does a run act only on answers the cached switch gives | yes, with two exceptions named in the properties |
| `guard_budget` | 2 runs, 3 keys, budget 1 a day, over midnight | how far does the daily budget overshoot | by less than one row per run |
| `guard_ok_repeats` | 1 run, 1 key, an operator | may a key recorded `ok` be executed again | yes: a finding |
| `lead_sync` | 2 runs, 2 leads, page of 1, 2 attempts, lost replies, 1 crash | is a synced lead in Zoho, are attempts bounded, does every lead settle | yes |
| `lead_marks` | 1 run, 1 lead, 1 crash | is a lead recorded `ok` marked in the end | no: a finding |
| `booking_faults` | 1 run, 1 event, 2 edits, every reply of database, calendar and Zoho, the switch, an event that leaves the window, 1 crash | what does it take for the cursor to pass a booking; does it agree with the calendar and never go back | a write, a claim left behind, an overwritten row, or a full listing that leaves it out; yes |
| `booking_cursor` | 1 run, 2 events, 3 edits, listings of up to 2 pages of 1 event, cursor of 1 entry, 410s, events that leave the window, no crash, fair | does the cursor agree with the calendar, of what no full listing has left out, and never go back; is a booking written while the cursor is stuck | yes; a booking, if the listing fits the pages and the window does not leave it out |
| `booking_moved` | 1 run, 2 events, 3 edits, 2 pages | does a passed booking have its current time in Zoho | no: a finding |
| `zoho_booking` | 1 booking and 1 lead, repeated for ever, 3 sends | one note and one task, nothing left out, every call ends | yes, except after a creation re-sent when it had happened |
| `operations` | 5 days of backups under a 1-daily, 1-weekly rule with the health job; the page beside both; 2 tasks at the kill switch; 2 validations over 2 keys; 2 attendees from 4 addresses; a request with 3 tries and 5 redirects over 2 allowed hosts and another | are restore points kept and reports true, do health and page mean a backup, are cached answers young, is the cached switch `SwitchView`, are required fields filled, is a POST carried out once and does a request end | yes |
| `deployment` | 3 releases, 2 scheduled scripts, failures, signals, kills, power loss | is the record what was tested and what runs, is previous what a rollback after a failed deploy needs, are the decrypted files removed | yes, with the exceptions in the properties |
| `deploy_rollback` | 2 releases, nothing goes wrong but smoke | does a failed deploy leave the recorded release running | no: a finding |

Why these bounds are enough to be interesting. Three runs on one key are needed for a
run to claim what a second one lost to a refusal of a third; one key suffices because
rows of different keys meet only in the daily count, which `guard_budget` examines
with more keys than budget and a midnight. `MaxApplied = 2` lets a second effect be
seen. Two leads behind a page of one make the first able to starve the second;
`MaxAttempts = 2` stands for ten, since nothing but its being reached and being passed
is distinguished. Two events and three edits allow a create, a move and another event
that holds the cursor; `MaxCursorEvents = 1` puts the store at its limit. One start
time of two leaves the window (`Leaving`), so that of two events, or of an event
before and after a move, one is out and the other in; two pages let time, edits and a
410 come between pages. Crashes of the booking job are explored with one event
(`booking_faults`), where one crash in a behaviour is enough to leave a claim behind;
what is checked of the cursor with two events is proved with any number of crashes.
The properties of the guard itself are checked and proved for any number. In
`zoho_booking` the three sends are those of the code, and calls, refreshes and
failures are unbounded; `MaxCopies = 2` lets a copy exist.

In `operations` the parts share no state, so each behaviour exercises one of them
(`subject`) and the sum, not the product, of their states is explored. One daily and one
weekly slot with weeks of two days let an object leave the daily slot, hold a weekly
one, lose it and be deleted within five days; a budget of one deletion leaves a
surplus for the next night; `FreshTicks = 3` over two ticks a day lets a backup be
fresh yesterday and stale today. The windows of the two caches are two, so that an
answer can be fresh, at its limit and over it while a slow read is under way. Three
releases are needed for one to fail on top of another that replaced a third, two
scheduled scripts for one to clean up under the other. Retention, reports, caches,
health, page, requests, mapping and deployment are proved for all values.

Deadlock is checked in every run.

Every property has a mutant in `PROJECT.json`: a plausible slip in one mapped
definition under which the run finds the property violated.

## 5. Fairness

Safety runs assume none. The liveness properties use:

- `LeadFairSpec`, `BookingFairSpec`: weak fairness of each run's job steps. The
  interval trigger starts a job again and again (`scheduler.py`), every statement has
  a timeout (`db.py`) and every request a bounded number of tries with a timeout
  (`http.py`), so a run that can go on does. Which outcome a step has is never
  assumed: a lead that only ever fails is a fair behaviour, and settles by running
  out of attempts. Crashes, edits, the switch, the clock and the passing of the window are
  not fair.
- `FairSpec` of `ZohoBooking`: weak fairness of a call's own steps for the same
  reason; strong fairness of getting the token, because `asyncio.Lock` wakes its
  waiters in order, so a call that waits is not passed over for ever although the lock is
  taken again and again. The start of a call is not fair.

`Backup`, `HostHealth`, `StatusPage`, the caches, `HttpClient` and `Deploy` have no fairness: nothing in
the code makes the operator, the timer or Cloudflare act, and their properties are
about what is true when something is reported.

`LeadsSettle` is checked in `lead_sync` without an operator and with replies that
arrive or are lost: a kill switch left on stops everything by design.

## 6. The proofs

Checked by TLAPS for every value of the constants, from the named assumptions of
the modules (budgets and limits are positive, sets of runs and keys are finite, the
keys of leads are numbers, calls of bookings and leads are distinct, names are
sequences of words, a start time is not the mark of having none). Two theorems of
`BookingProofs` also assume `OneRun`: at most one run at a time, which `max_instances=1`
(`scheduler.py:102`) gives within a process, and `compose.yaml`, with its one scheduler
container, for the host.

| Theorem | Argument |
|---|---|
| `WriteGuardProofs!TypeCorrect` | one case per action |
| `WriteGuardProofs!ClaimsExclude` | `Exclusive` is inductive with `TypeOK`: its second half, that a held key's row is pending, is what refuses the next claim |
| `WriteGuardProofs!WritesAtMostOnce` | `AtMostOnce` alone is not inductive: a claimable row could belong to a key already written. `CleanKeysUnapplied` adds that a clean key that can be claimed, or is about to execute, has not been written |
| `WriteGuardProofs!OkRowsAreTrue` | with `SuccessFollowsEffect`: a run that records `ok` has passed the effect |
| `WriteGuardProofs!DailyBudgetOvershoot` | `BudgetCommitted` counts the runs past the check together with the rows; passing the check moves at most one run into a sum that was below the budget |
| `WriteGuardProofs!GuardImplementsLedger` | refinement: `GuardStepMovesLine` shows, one case per action, that a step moves at most one key's line and in a way the ledger allows, `OneLineMoves` that this is a step of the ledger; `AtMostOnce` keeps every line in range |
| `WriteGuardProofs!GuardTakesView` | refinement of `SwitchView`: `AnswerMoves` shows, one case per action, that a run gets its answer in the step that reads the switch, out of `visible`, and keeps it or is done; `Undecided` (a call that has not refused has no outcome) makes the way taken tell the answer |
| `OperationsProofs!SwitchImplementsView` | refinement of the same: `AnswersVisible`, from `SwitchInv`, says that what the cache or the database answers was stored within the window, which is where the time stamp of an answer counts; the clock drops a value only when it has not been stored for a window |
| `LeadSyncProofs!JobKeepsProtocol` | refinement: `LeadSpec => GuardSpec`; each step of the job is a step of the guard or leaves it alone |
| `LeadSyncProofs!LeadTypes` | one case per action, with `AtWork` (a run at work has a lead in its page) |
| `LeadSyncProofs!SyncedLeadsReachedZoho` | `AtWork` (the call under way carries the lead it will mark) and the guard's `ValueMeansApplied` |
| `LeadSyncProofs!AttemptsStayBounded` | `AttemptsCommitted` counts the runs that have a lead on their page together with its attempts: selecting adds a run only while the attempts are below the limit, and counting a failure takes the run out of the sum it adds to |
| `BookingProofs!BookingKeepsProtocol` | refinement: `BookingSpec => GuardSpec`, step by step as for the leads |
| `BookingProofs!BookingsAtMostOnce`, `LeadSyncProofs!LeadsAtMostOnce` | composition: what the guard promises (`WritesAtMostOnce`) holds of every job that keeps its protocol |
| `BookingProofs!BookingTypes` | one case per action |
| `BookingProofs!CursorAgrees` | for any number of overlapping runs, of the events no full listing has left out of its window (`left_out`). The property says nothing of a run at work, so it is not inductive: `MatchInv` adds what each run knows (`RunKnows`): the cursor it loaded agrees with the calendar up to its token (`PriorMatches`), what changed before its listing began has been shown, will be, or is in `left_out` (`ListingComplete`), what was shown is still so or was edited later (`ShownIsCurrent`), and what it has dealt with it remembers as the calendar has it, unless it has counted a failure (`WorkMatches`). `TokensPast` makes every edit younger than every token, so an edit disturbs none of this |
| `BookingProofs!CursorPassesWritten` | for one run at a time, of the same events: the window is the one way past a booking that failed. `CoverInv`: what the cursor, the loaded cursor or the fingerprints remember, and what is dealt with without a failure, is `Settled`: written, overwritten, or claimed by nobody alive. Being settled is for good (`SettledKept`), and a duplicate is settled when it is told (`DuplicatesNext`). With a second run it need not be: the duplicate of a claim that another run still holds may end in an error, after the cursor has passed it |
| `BookingProofs!CursorNeverLosesGround` | for one run at a time. `GroundInv`: a run's fingerprints remember all the cursor does, its token is no older than the cursor's once its listing has begun, and every listed event has a start time. Two overlapping runs can save in the wrong order |
| `ZohoBookingProofs!TypeCorrect` | one case per action; the loop's counter stays below its limit |
| `ZohoBookingProofs!OneNoteOneTask` | `Needed`: a call that is about to create a note or a task, or will be, saw none, and nobody else creates one |
| `ZohoBookingProofs!ValuesAreComplete` | `Faithful`: what a call believes of the CRM is so, and the CRM loses nothing |
| `DeployProofs!TypeCorrect` | one case per action |
| `DeployProofs!RecordsAreTested` | `RecordedInv`: an operation about to record has passed smoke |
| `DeployProofs!RecordIsWhatRuns` | `RunningInv`: without doubt the record runs, at every step and not only between operations |
| `DeployProofs!PreviousIsRecorded` | `UndoneInv`: from the step that saves the record on, previous is current. It says what a rollback aims for, not that it gets there (`deploy_rollback`) |
| `DeployProofs!NamedFilesDoNotStay` | of the decrypted files by their names, not of their copies (section 8). `SecretsInv`: files are there only while a script that will remove them runs, or one that could not has been there |
| `OperationsProofs!SwitchTypes`, `OperationsProofs!AccessTypes` | one case per action |
| `OperationsProofs!SwitchFresh` | `SwitchInv`: an answer was true at or after the time on its stamp, and that time is that of the asking; so no order of answers can make one look young |
| `OperationsProofs!KnownStayKnown` | `KnownInv`: a key absent from what was served under `force` was missing while the validation was under way |
| `OperationsProofs!KeysExpire` | `StampInv`: every key in the cache, or served, was published at or after its stamp; the action property follows step by step |
| `OperationsProofs!RequestsBounded` | `SendsCounted`: what was sent is at most the tries of the hops that are over and the attempts of this one; `OnlyAllowed`: the host of a hop was checked before anything is sent to it |
| `OperationsProofs!RequestsCarriedOutOnce` | `DoneBefore`: as long as the method is the one asked for, a request that must not be repeated has not been carried out, and when it has become a GET by a 303, it has |
| `OperationsProofs!RequiredAlwaysFilled` | no step is taken by the mapping's inputs but a new order of attendees, so it is a fact about each function: a name that is not blank has a last word, a company falls back on the domain and then on a constant. That the chosen attendee is one of those listed (`AttendeeListed`) needs a least address, from well-foundedness |
| `OperationsProofs!SamePersonEveryTime` | `Candidates` is the set of attendees, which a permutation (a bijection of the places) leaves as it is |
| `BackupProofs!BackupTypes` | one case per action |
| `BackupProofs!RestorePointsKept` | `KeepOfPart`: what the rule keeps of a set it keeps of every part that has it. So deleting a surplus of a part of what was taken deletes nothing the rule keeps of all of it (`SurplusInv`), whatever is left over from earlier passes |
| `BackupProofs!ReportsTrue` | `ClockInv` ties dates, script and clock, `NewestInv` says the newest object is never surplus, `ReportInv` what an upload has done by each step |
| `HealthProofs!HealthIsBackedUp` | `FreshInv`: between judgement and end of a run `last_backup_at` only moves up; with `ReportsTrue` it stands for an object |
| `HealthProofs!PageTypes`, `HealthProofs!PageCoherent` | `PageInv`: what justified a success when it was stored or read still does, because `last_backup_at` never falls; hence the order of the reads |

Every invariant and every action property of the passing runs is stated by one of
these theorems. Only model-checked are the liveness properties (`LeadsSettle`,
`BookingsClaimed`, `CallsEnd`), which are out of this prover's reach. `CursorCoversBookings`
and `CursorKeepsGround` are false for overlapping runs of the booking job (TLC finds
both violated with two), and are checked and proved for one: they rest on the scheduler,
not on the guard.

## 7. Where code and documents disagree

- `guard_ok_repeats`: `PROGRESS.md:243` says an existing `ok` claim cannot execute
  twice. A refusal replaces the `ok` row (`guards.py:149`) and the key can be claimed
  again.
- `lead_marks`: `docs/HOSTING.md:39` calls recovery from an outage automatic. A lead
  whose process died between the `ok` record and `mark_success` is a duplicate to
  every later run, runs out of attempts and is never marked.
- `booking_moved`: `docs/pr-notes/M3.md:15` says a reschedule holds the cursor. A
  booking moved while something else holds the cursor is compared with fingerprints
  that were never saved; the new time is remembered, the old one stays in Zoho.
- `deploy_rollback`: `docs/runbooks/deployment.md:15` says a smoke failure invokes the
  rollback. It does, but `rollback.sh:26` reads `GHCR_OWNER` from a file from which
  `deploy.sh:69` has removed it, and ends there: the failed release stays up until
  the operator rolls back by hand, when the files are decrypted again (`DeployCanBeUndone`
  says that the record this needs is still there).

## 8. Known behaviours that are not properties

The model has these legal behaviours, which a reader of the code may not expect:

- A refusal also replaces the pending row of a live claim, and a second run may then
  claim the key while the first executes (the exception `overwritten`).
- A budget refusal over an `ok` row lowers the daily count it was refused for.
- A dry run whose statements fail counts up the lead's attempts, although
  `PROGRESS.md:653` says the dry-run path never mutates leads.
- A claim left behind by a dead run makes its booking look written.
- A booking whose write keeps failing, on a first listing or after a 410, holds the cursor
  only while it is listed: once it has ended seven days ago it is not, and the cursor passes
  it unwritten (the exception `left_out`). The seven days are documented
  (`docs/google-calendar.md`, `docs/runbooks/booking-sync.md`); that they end the retries
  is not.
- In the same way a reschedule that was deferred, or not seen yet, of an event that now lies
  before the window of a full listing is not listed: nothing counts as failed, and the cursor
  is saved past it with the old start, although `docs/pr-notes/M3.md:15` says that a
  reschedule holds the cursor.
- `docs/runbooks/backup-restore.md:5-7` says each unit removes every plaintext dotenv file
  through an exit or signal trap. A script that fails or is interrupted between `mktemp` and
  `mv` (`torus-common.sh:63-71`, `76-80`) leaves its copy, which `torus_cleanup_secrets`
  (41-45) does not name and no later script removes (`stray`, by `Leaves`).
- A cursor that is stuck makes the listing grow; past ten pages every run raises, until the
  token expires (`ListingFits`).
- A deploy killed after `up` leaves containers up that are not the recorded ones (`doubt` in
  `RunningIsRecorded`).
- A request throttled twice and then refused its token refreshes the token and
  gives up without sending again (`zoho.py:359-368`).
- The kill switch is seen at most fifteen seconds late, but a write that has passed its
  check goes on, with every request and repetition of it; the "30 seconds" of
  `docs/MASTER-PLAN.md:89` are not a bound on such a write.
- A backup that ends after midnight is recorded `ok` on the next day and consumes its
  budget: that day's own upload is refused.
- `last_restore_test_at` is shown by `status.py:104` but written by nothing.
- `docs/HOSTING.md:112` describes a watchdog that exits when its loop stalls;
  `scheduler.py:138` touches a file and `healthcheck.py` reports its age, and nothing
  exits.
- SIGTERM runs a script's trap, which removes the decrypted files, and the script goes on.
- A scheduled script takes no deploy lock: ending, it removes the files a deploy is
  using, which then fails; decrypting, it replaces the `DRY_RUN` that `deploy.sh` has
  set for its `--dry-run` or `--live` (the content of that file is not modelled). A
  rollback uses the encrypted `DRY_RUN` in any case.
- A rollback by hand that finds `torus-tis.env`, left by a killed deploy or in use by a
  scheduled script, sets no trap and may leave decrypted files behind
  (`untended` in `DecryptedFilesAreRemoved`).
- A lead converted between the search and the update makes every further request of
  that call fail; the next call finds the contact.

## 9. What is not modelled, and why

- Payloads, the contents of log rows, redaction and logging (`log.py`): no property is
  about them. The field maps' loading and the text of phone numbers and descriptions.
- Row validation in `PostgresLeadStore.pending`: a row that does not validate ends
  every run, but the table's schema is not part of the repository, so which rows can
  exist is not known here.
- The HTTP client under the adapters: `HttpClient` shows what one request may do, the
  modules that send requests see one send that may fail before or after its effect.
  Its allowed hosts by name, time-outs as such (they are transport errors), its log.
- The signing of Google's token request and the expiry of its access token before a
  401 says so.
- What Google answers is external: a token names the revision at which its listing began,
  the first page's request and not the last one's; a listing with a token is not bounded by
  `timeMin`, one without a token shows the cancelled events of the window too; it shows an
  event when its end is after `timeMin`, and here the start stands for the end; and
  the last page carries a sync token although the listing was ordered by start time
  (`google_calendar.py:223-225`).
- `TORUS_BACKUP_DATE` (`backup.sh:20`), which would let an operator run the script for
  another day than today: nothing in the repository sets it.
- The marker search reads one page of related records; the model assumes that the
  marker is on it.
- The keepalive job (one query, one heartbeat) and `capture`, which no job calls.
- The watchdog and the container probes: they observe a file's age and act on nothing.
- Signatures and claims of an assertion; the counts on the status page.
- The body of the restore test; as a scheduled script beside a deploy it is in `Deploy`.
- What smoke tests, the registry's digests and the release manifest: outcomes of a step.
- Settings (`config.py`), beyond the values the modules take as constants.
- `scripts/`: stateless scans of the source tree and of a Terraform plan, run by
  developers. `infra/`: declarative Terraform.

## 10. The plan

1. The `DRY_RUN` inside the decrypted file, and the mode in which containers start.
2. The watchdog with the container's probe.
3. `ZohoBooking` under the guard: that its calls of one key are the guard's `executing`.
