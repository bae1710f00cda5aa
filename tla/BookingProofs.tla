---------------------------- MODULE BookingProofs ----------------------------
(***************************************************************************)
(* Theorems about BookingSync for every number of runs, events, pages and  *)
(* edits.  The job takes only steps the guard knows, so what               *)
(* WriteGuardProofs proves of the guard holds of the job.  What the cursor *)
(* says of the calendar follows from what each run knows of it: the cursor *)
(* it loaded, the listing it has under way, and the events it has listed.  *)
(***************************************************************************)
EXTENDS BookingSync, WriteGuardProofs

------------------------------------------------------------------------------
(* The job keeps to the guard's protocol.                                    *)

\* Steps of a run that leave the guard alone.
OwnStep(r) ==
  \/ FetchStep(r)
  \/ \E k \in events[r] : IgnoreEvent(r, k) \/ RejectEvent(r, k)
  \/ BookingKnown(r) \/ BookingDry(r) \/ BookingFailed(r)
  \/ KeepCursor(r) \/ \E reply \in DbReplies : SaveCursor(r, reply)

LEMMA OwnStepKeepsGuard == ASSUME NEW r \in Runs, OwnStep(r) PROVE UNCHANGED guardVars
BY DEF OwnStep, FetchStep, MorePages, LastPage, TokenGone, TokenRefused, FetchFails, IgnoreEvent,
       RejectEvent, BookingKnown, BookingDry, BookingFailed, KeepCursor, SaveCursor

LEMMA BookingCases ==
  ASSUME [BookingNext]_vars
  PROVE  \/ \E r \in Runs : OwnStep(r)
         \/ \E r \in Runs : LoadCursor(r) \/ GuardStep(r) \/ JobCrash(r)
         \/ \E r \in Runs : \E k \in events[r] : SyncBooking(r, k)
         \/ Edit
         \/ TimePasses
         \/ Environment /\ UNCHANGED bookingVars
         \/ UNCHANGED vars
BY DEF BookingNext, JobStep, OwnStep

LEMMA BookingStepIsGuardStep ==
  ASSUME BookingTypeOK, [BookingNext]_vars
  PROVE  [GuardNext]_guardVars
<1>1. ASSUME NEW r \in Runs, OwnStep(r) PROVE UNCHANGED guardVars
  BY <1>1, OwnStepKeepsGuard
<1>2. ASSUME NEW r \in Runs, LoadCursor(r) \/ GuardStep(r) \/ JobCrash(r) PROVE GuardNext
  BY <1>2 DEF LoadCursor, GuardStep, JobCrash, GuardNext
<1>3. ASSUME NEW r \in Runs, NEW k \in events[r], SyncBooking(r, k) PROVE GuardNext
  <2>1. k \in Keys
    BY DEF BookingTypeOK
  <2> QED
    BY <1>3, <2>1 DEF SyncBooking, GuardNext
<1>4. CASE Edit
  BY <1>4 DEF Edit, EditEvent
<1>5. CASE Environment \/ TimePasses
  BY <1>5 DEF GuardNext, TimePasses
<1>6. CASE UNCHANGED vars
  BY <1>6 DEF vars
<1> QED
  BY <1>1, <1>2, <1>3, <1>4, <1>5, <1>6, BookingCases

------------------------------------------------------------------------------
(* Types.                                                                    *)

LocalTypes ==
  /\ listing \in [Runs -> Listing]
  /\ step \in [Runs -> BookingSteps]
  /\ prior \in [Runs -> Cursor]
  /\ events \in [Runs -> SUBSET Keys]
  /\ fetched \in [Runs -> [Keys -> Event]]
  /\ next_sync_token \in [Runs -> 0..MaxChanges]
  /\ fingerprints \in [Runs -> [Keys -> StartTimes]]
  /\ failed \in [Runs -> BOOLEAN]

LEMMA NothingTypes ==
  /\ NoListing \in Listing /\ NoEvent \in Event /\ NoEvents \in [Keys -> Event]
  /\ NoCursor \in Cursor /\ NoCursor.events \in [Keys -> StartTimes]
  /\ NoCursor.sync_token = 0 /\ \A k \in Keys : NoCursor.events[k] = NoStart
<1>1. 0 \in 0..MaxChanges /\ 0 \in 0..MaxPages
  BY CursorAssumption, PageAssumption
<1>2. NoStart \in StartTimes
  BY DEF StartTimes
<1>3. NoEvent \in Event
  BY <1>1, <1>2 DEF NoEvent, Event, Kind
<1> QED
  BY <1>1, <1>2, <1>3 DEF NoListing, Listing, NoEvents, NoCursor, Cursor

LEMMA BookingTypeInit == BookingInit => BookingTypeOK
<1> SUFFICES ASSUME BookingInit PROVE BookingTypeOK
  OBVIOUS
<1>1. TypeOK
  BY TypeInit DEF BookingInit
<1>2. LocalTypes
  BY NothingTypes, CursorAssumption DEF BookingInit, LocalTypes, BookingSteps
<1> QED
  BY <1>1, <1>2, NothingTypes, CursorAssumption
  DEF BookingInit, BookingTypeOK, LocalTypes, StartTimes

LEMMA EndRunTypes ==
  ASSUME LocalTypes, NEW r \in Runs, EndRun(r)
  PROVE  LocalTypes'
BY NothingTypes, CursorAssumption DEF EndRun, BookingGoto, LocalTypes, BookingSteps

LEMMA BookingTypeNext == ASSUME BookingTypeOK, [BookingNext]_vars PROVE BookingTypeOK'
<1>a. TypeOK'
  BY BookingStepIsGuardStep, TypeNext DEF BookingTypeOK
<1> DEFINE RestTypes ==
      /\ calendar \in [Keys -> Event] /\ revision \in 0..MaxChanges /\ page_size \in PageSizes
      /\ time_min \in StartTimes /\ left_out \in SUBSET Keys
      /\ cursor \in Cursor
      /\ booked \in [Keys -> StartTimes]
      /\ crashes \in 0..MaxCrashes
<1>b. LocalTypes /\ RestTypes
  BY DEF BookingTypeOK, LocalTypes
<1>c. SUFFICES LocalTypes' /\ RestTypes'
  BY <1>a DEF BookingTypeOK, LocalTypes
<1>d. \A r \in Runs : ToCome(r) \in SUBSET Keys /\ Unlisted(r) \in SUBSET Keys /\ Windowed(r) \in SUBSET Keys
  BY <1>b DEF Unlisted, Windowed, ToCome, ChangedSince, LocalTypes, Listing
<1>e. \A r \in Runs : listing[r] \in Listing
  BY <1>b DEF LocalTypes
<1>1. ASSUME NEW r \in Runs, LoadCursor(r) PROVE LocalTypes' /\ RestTypes'
  <2>1. cursor \in Cursor /\ cursor.sync_token \in 0..MaxChanges /\ cursor.events \in [Keys -> StartTimes]
    BY <1>b DEF Cursor
  <2>2. [listing[r] EXCEPT !.token = cursor.sync_token] \in Listing
    BY <2>1, <1>e DEF Listing
  <2>3. listing' \in [Runs -> Listing]
    BY <1>1, <1>b, <2>2 DEF LoadCursor, LocalTypes
  <2>4. LocalTypes'
    BY <1>1, <1>b, <2>1, <2>3 DEF LoadCursor, LocalTypes, BookingGoto, BookingSteps
  <2> QED
    BY <1>1, <1>b, <2>4 DEF LoadCursor, calendarVars
<1>2. ASSUME NEW r \in Runs, NEW page \in SUBSET Keys, TakePage(r, page)
      PROVE  /\ events' \in [Runs -> SUBSET Keys] /\ fetched' \in [Runs -> [Keys -> Event]]
             /\ next_sync_token' \in [Runs -> 0..MaxChanges] /\ left_out' \in SUBSET Keys
  <2>1. events' \in [Runs -> SUBSET Keys]
    BY <1>2, <1>b DEF TakePage, LocalTypes
  <2>2. fetched' \in [Runs -> [Keys -> Event]]
    <3>1. [k \in Keys |-> IF k \in page THEN calendar[k] ELSE fetched[r][k]] \in [Keys -> Event]
      BY <1>b DEF LocalTypes
    <3> QED
      BY <1>2, <1>b, <3>1 DEF TakePage, LocalTypes
  <2>3. next_sync_token' \in [Runs -> 0..MaxChanges]
    BY <1>2, <1>b DEF TakePage, LocalTypes
  <2> QED
    BY <1>2, <1>b, <1>d, <2>1, <2>2, <2>3 DEF TakePage
<1>3. ASSUME NEW r \in Runs, NEW page \in SUBSET Keys, NEW reply \in CalendarReplies,
             MorePages(r, page, reply) \/ LastPage(r, page, reply)
      PROVE  LocalTypes' /\ RestTypes'
  <2>1. /\ events' \in [Runs -> SUBSET Keys] /\ fetched' \in [Runs -> [Keys -> Event]]
        /\ next_sync_token' \in [Runs -> 0..MaxChanges] /\ left_out' \in SUBSET Keys
    BY <1>2, <1>3 DEF MorePages, LastPage
  <2>2. listing' \in [Runs -> Listing]
    <3>1. CASE MorePages(r, page, reply)
      <4>1. listing[r].pages + 1 \in 0..MaxPages
        BY <1>b, <3>1, PageAssumption DEF MorePages, LocalTypes, Listing
      <4>2. [listing[r] EXCEPT !.pages = @ + 1, !.rest = Unlisted(r) \ page] \in Listing
        BY <1>d, <1>e, <4>1 DEF Listing
      <4> QED
        BY <1>b, <3>1, <4>2 DEF MorePages, LocalTypes
    <3>2. CASE LastPage(r, page, reply)
      BY <1>b, <3>2, NothingTypes DEF LastPage, LocalTypes
    <3> QED
      BY <1>3, <3>1, <3>2
  <2>3. step' \in [Runs -> BookingSteps]
    BY <1>3, <1>b DEF MorePages, LastPage, BookingGoto, LocalTypes, BookingSteps
  <2> QED
    BY <1>3, <1>b, <2>1, <2>2, <2>3 DEF MorePages, LastPage, LocalTypes, calendarVars
<1>4. ASSUME NEW r \in Runs, TokenGone(r) \/ TokenRefused(r) PROVE LocalTypes' /\ RestTypes'
  <2>1. step' \in [Runs -> BookingSteps]
    BY <1>4, <1>b DEF TokenGone, TokenRefused, BookingGoto, LocalTypes, BookingSteps
  <2>2. CASE TokenGone(r)
    BY <1>b, <2>1, <2>2, NothingTypes, CursorAssumption DEF TokenGone, LocalTypes, calendarVars
  <2>3. CASE TokenRefused(r)
    BY <1>b, <2>1, <2>3 DEF TokenRefused, LocalTypes, calendarVars, runVars
  <2> QED
    BY <1>4, <2>2, <2>3
<1>5. ASSUME NEW r \in Runs, FetchFails(r) \/ KeepCursor(r) \/ JobCrash(r) PROVE LocalTypes' /\ RestTypes'
  <2>1. LocalTypes'
    BY <1>5, <1>b, EndRunTypes DEF FetchFails, KeepCursor, JobCrash
  <2>2. crashes' \in 0..MaxCrashes
    BY <1>5, <1>b, CursorAssumption DEF FetchFails, KeepCursor, JobCrash
  <2> QED
    BY <1>5, <1>b, <2>1, <2>2 DEF FetchFails, KeepCursor, JobCrash, calendarVars
<1>6. ASSUME NEW r \in Runs, NEW reply \in DbReplies, SaveCursor(r, reply) PROVE LocalTypes' /\ RestTypes'
  <2>1. cursor' \in Cursor
    <3>1. PICK kept \in SUBSET Keys :
            cursor' = IF reply = "failed" THEN cursor
                      ELSE [sync_token |-> next_sync_token[r],
                            events |-> [k \in Keys |-> IF k \in kept THEN fingerprints[r][k] ELSE NoStart]]
      BY <1>6 DEF SaveCursor
    <3>2. [k \in Keys |-> IF k \in kept THEN fingerprints[r][k] ELSE NoStart] \in [Keys -> StartTimes]
      BY <1>b DEF LocalTypes, StartTimes
    <3> QED
      BY <1>b, <3>1, <3>2 DEF LocalTypes, Cursor
  <2> QED
    BY <1>6, <1>b, <2>1, EndRunTypes DEF SaveCursor, calendarVars
<1>7. ASSUME NEW r \in Runs, NEW k \in events[r], IgnoreEvent(r, k) \/ RejectEvent(r, k) \/ SyncBooking(r, k)
      PROVE  LocalTypes' /\ RestTypes'
  BY <1>7, <1>b
  DEF IgnoreEvent, RejectEvent, SyncBooking, Done, BookingGoto, LocalTypes, BookingSteps, calendarVars, runVars
<1>8. ASSUME NEW r \in Runs, BookingKnown(r) \/ BookingDry(r) \/ BookingFailed(r)
      PROVE  LocalTypes' /\ RestTypes'
  <2>1. external_id[r] \in Keys
    BY DEF BookingTypeOK, TypeOK
  <2>2. fetched[r][external_id[r]].start \in StartTimes
    BY <1>b, <2>1 DEF LocalTypes, Event
  <2>a. NextEvent(r)
    BY <1>8 DEF BookingKnown, BookingDry, BookingFailed
  <2>3. step' \in [Runs -> BookingSteps] /\ events' \in [Runs -> SUBSET Keys]
    BY <2>a, <1>b DEF NextEvent, Done, BookingGoto, LocalTypes, BookingSteps
  <2>4. fingerprints' \in [Runs -> [Keys -> StartTimes]] /\ failed' \in [Runs -> BOOLEAN]
    <3>1. CASE BookingKnown(r)
      BY <1>b, <2>2, <3>1 DEF BookingKnown, LocalTypes
    <3>2. CASE BookingDry(r) \/ BookingFailed(r)
      BY <1>b, <3>2 DEF BookingDry, BookingFailed, LocalTypes
    <3> QED
      BY <1>8, <3>1, <3>2
  <2> QED
    BY <1>8, <1>b, <2>3, <2>4 DEF BookingKnown, BookingDry, BookingFailed, LocalTypes, calendarVars, runVars
<1>9. ASSUME NEW r \in Runs, GuardStep(r) PROVE LocalTypes' /\ RestTypes'
  <2>1. external_id[r] \in Keys
    BY DEF BookingTypeOK, TypeOK
  <2>2. fetched[r][external_id[r]].start \in StartTimes
    BY <1>b, <2>1 DEF LocalTypes, Event
  <2>3. booked' \in [Keys -> StartTimes]
    BY <1>9, <1>b, <2>2 DEF GuardStep
  <2> QED
    BY <1>9, <1>b, <2>3 DEF GuardStep, LocalTypes, calendarVars, runVars
<1>10. CASE Edit
  <2>1. PICK k \in Keys, status \in {"confirmed", "cancelled"}, kind \in Kinds, start \in Starts :
          EditEvent(k, status, kind, start)
    BY <1>10 DEF Edit
  <2>2. revision' = revision + 1 /\ revision' \in 0..MaxChanges
    BY <1>b, <2>1, CursorAssumption DEF EditEvent
  <2>3. [status |-> status, kind |-> kind, start |-> start, changed |-> revision'] \in Event
    BY <2>2, KindAssumption DEF Event, StartTimes
  <2>4. calendar' \in [Keys -> Event]
    BY <1>b, <2>1, <2>3 DEF EditEvent
  <2> QED
    BY <1>b, <2>1, <2>2, <2>4 DEF EditEvent, LocalTypes, runVars
<1>11. CASE UNCHANGED bookingVars
  BY <1>b, <1>11 DEF bookingVars, calendarVars, runVars, LocalTypes
<1>12. CASE TimePasses
  BY <1>b, <1>12, StartAssumption DEF TimePasses, runVars, LocalTypes, StartTimes
<1> QED
  <2> HIDE DEF RestTypes
  <2> QED
    BY <1>1, <1>3, <1>4, <1>5, <1>6, <1>7, <1>8, <1>9, <1>10, <1>11, <1>12, BookingCases
    DEF OwnStep, FetchStep, vars

\* Composition: a behaviour of the job is a behaviour of the guard, so the guard's
\* theorems are the job's (booking_sync.py:107 is its only call).
THEOREM BookingKeepsProtocol == BookingSpec => GuardSpec
<1>1. BookingInit => BookingTypeOK /\ GuardInit
  BY BookingTypeInit DEF BookingInit
<1>2. BookingTypeOK /\ [BookingNext]_vars => BookingTypeOK' /\ [GuardNext]_guardVars
  BY BookingTypeNext, BookingStepIsGuardStep
<1> QED
  BY <1>1, <1>2, PTL DEF BookingSpec, GuardSpec

\* A booking is written to Zoho at most once, however often it is listed, by
\* however many runs, unless the guard forgot its row (booking_sync.py:107-127,
\* guards.py:148-181).
THEOREM BookingsAtMostOnce == BookingSpec => []AtMostOnce
BY BookingKeepsProtocol, WritesAtMostOnce

\* Types of the job, its listing and its cursor (booking_sync.py).
THEOREM BookingTypes == BookingSpec => []BookingTypeOK
<1> QED
  BY BookingTypeInit, BookingTypeNext, PTL DEF BookingSpec

------------------------------------------------------------------------------
(* What a run knows of the calendar.                                         *)

\* The events whose latest edit a listing with this token would not show, those a
\* window has left out apart.
SeenBy(token) == {k \in Keys \ left_out : calendar[k].changed \in 1..token}

\* A remembered start time is true of an event, or forgotten.
Matches(start, event) ==
  /\ event.status = "cancelled" => start = NoStart
  /\ event.status = "confirmed" /\ event.kind = "review" => start \in {event.start, NoStart}

Fetching(r) == step[r] \in {"fetching", "refreshed"}
Working(r)  == step[r] \in {"choosing", "calling"}

\* Tokens are revisions the calendar has had; an edit is younger than all of them.
TokensPast ==
  /\ \A k \in Keys : calendar[k].changed <= revision
  /\ cursor.sync_token <= revision
  /\ \A r \in Runs : /\ prior[r].sync_token <= revision /\ next_sync_token[r] <= revision
                     /\ listing[r].token <= prior[r].sync_token

\* Before its first page a run has listed nothing.
NothingYet(r) ==
  /\ step[r] = "waiting" => listing[r] = NoListing
  /\ step[r] = "waiting" \/ (Fetching(r) /\ listing[r].pages = 0)
       => events[r] = {} /\ next_sync_token[r] = 0

\* What was changed before the listing began has been shown, or will be.
ListingComplete(r) ==
  Fetching(r) => \A k \in SeenBy(next_sync_token[r]) :
                   calendar[k].changed <= listing[r].token \/ k \in listing[r].rest \cup events[r]

\* What was shown is still so, unless it was edited after the listing began.
ShownIsCurrent(r) ==
  \A k \in events[r] : calendar[k].changed <= next_sync_token[r] => fetched[r][k] = calendar[k]

\* The cursor a run has loaded stays true of what was not edited since.
PriorMatches(r) ==
  \A k \in SeenBy(prior[r].sync_token) : Matches(prior[r].events[k], calendar[k])

\* A fingerprint is the loaded one until its event has been dealt with.
NotDealtWith(r) ==
  \A k \in Keys : Fetching(r) \/ k \in events[r] => fingerprints[r][k] = prior[r].events[k]

\* Unless the run will keep the cursor where it is, what it has dealt with is
\* remembered as the calendar has it.
WorkMatches(r) ==
  Working(r) /\ ~failed[r] /\ ~dry_run[r]
    => \A k \in SeenBy(next_sync_token[r]) \ events[r] : Matches(fingerprints[r][k], calendar[k])

\* The call under way is about an event to be written.
CallIsNew(r) ==
  LET k == external_id[r] IN
  step[r] = "calling" => k \in events[r] /\ Classify(r, k) = "new" /\ fetched[r][k].kind # "broken"

\* Only a dry run is told so.
DryToldTrue == \A r \in Runs : outcome[r] = "dry_run" => dry_run[r]

RunKnows(r) ==
  /\ NothingYet(r) /\ ListingComplete(r) /\ ShownIsCurrent(r) /\ PriorMatches(r)
  /\ NotDealtWith(r) /\ WorkMatches(r) /\ CallIsNew(r)

MatchInv ==
  /\ TokensPast /\ DryToldTrue /\ CursorMatchesCalendar
  /\ \A r \in Runs : RunKnows(r)

\* What a step of one run leaves alone of another.
LocalsKept(p) ==
  /\ step'[p] = step[p] /\ listing'[p] = listing[p] /\ prior'[p] = prior[p]
  /\ events'[p] = events[p] /\ fetched'[p] = fetched[p]
  /\ next_sync_token'[p] = next_sync_token[p] /\ fingerprints'[p] = fingerprints[p]
  /\ failed'[p] = failed[p] /\ dry_run'[p] = dry_run[p] /\ external_id'[p] = external_id[p]

\* What a step of a run leaves alone of the calendar, and of what was left out.
CalendarKept == UNCHANGED calendarVars /\ left_out \subseteq left_out'

RunStep(r) ==
  \/ OwnStep(r) \/ LoadCursor(r) \/ GuardStep(r) \/ JobCrash(r)
  \/ \E k \in events[r] : SyncBooking(r, k)

LEMMA CallStepKeeps ==
  ASSUME NEW r \in Runs, CallStep(r)
  PROVE  external_id' = external_id /\ dry_run' = dry_run
BY DEF CallStep, callVars, SwitchIsOn, IsDryRun, RunBudgetSpent, Refuse, StartCounting, DayBudgetSpent,
       DayBudgetLeft, ReadFails, ClaimRefused, Execute, FunctionReturns, FunctionRaises, RecordRefusal,
       Claim, RecordError, RecordOk

LEMMA OthersKept ==
  ASSUME BookingTypeOK, NEW r \in Runs, RunStep(r)
  PROVE  CalendarKept /\ \A p \in Runs \ {r} : LocalsKept(p)
<1> USE DEF BookingGoto, Done, EndRun, calendarVars, runVars, guardVars, CalendarKept
<1>t. TypeOK
  BY DEF BookingTypeOK
<1>1. ASSUME FetchStep(r) PROVE CalendarKept /\ \A p \in Runs \ {r} : LocalsKept(p)
  <2>1. ASSUME NEW page \in SUBSET Keys, NEW reply \in CalendarReplies,
               MorePages(r, page, reply) \/ LastPage(r, page, reply)
        PROVE  CalendarKept /\ \A p \in Runs \ {r} : LocalsKept(p)
    BY <2>1 DEF MorePages, LastPage, TakePage, LocalsKept, BookingTypeOK
  <2>2. ASSUME TokenGone(r) \/ TokenRefused(r) \/ FetchFails(r)
        PROVE  CalendarKept /\ \A p \in Runs \ {r} : LocalsKept(p)
    BY <2>2 DEF TokenGone, TokenRefused, FetchFails, LocalsKept, BookingTypeOK
  <2> QED
    BY <1>1, <2>1, <2>2 DEF FetchStep
<1>2. ASSUME NEW k \in events[r], IgnoreEvent(r, k) \/ RejectEvent(r, k) \/ SyncBooking(r, k)
      PROVE  CalendarKept /\ \A p \in Runs \ {r} : LocalsKept(p)
  BY <1>2, <1>t DEF IgnoreEvent, RejectEvent, SyncBooking, Call, LocalsKept, BookingTypeOK, TypeOK
<1>3. ASSUME BookingKnown(r) \/ BookingDry(r) \/ BookingFailed(r)
      PROVE  CalendarKept /\ \A p \in Runs \ {r} : LocalsKept(p)
  BY <1>3 DEF BookingKnown, BookingDry, BookingFailed, NextEvent, LocalsKept, BookingTypeOK
<1>4. ASSUME KeepCursor(r) \/ \E reply \in DbReplies : SaveCursor(r, reply)
      PROVE  CalendarKept /\ \A p \in Runs \ {r} : LocalsKept(p)
  BY <1>4 DEF KeepCursor, SaveCursor, LocalsKept, BookingTypeOK
<1>5. ASSUME LoadCursor(r) PROVE CalendarKept /\ \A p \in Runs \ {r} : LocalsKept(p)
  BY <1>5, <1>t DEF LoadCursor, NewRun, LocalsKept, BookingTypeOK, TypeOK
<1>6. ASSUME JobCrash(r) PROVE CalendarKept /\ \A p \in Runs \ {r} : LocalsKept(p)
  BY <1>6, <1>t DEF JobCrash, Crash, NewRun, LocalsKept, BookingTypeOK, TypeOK
<1>7. ASSUME GuardStep(r) PROVE CalendarKept /\ \A p \in Runs \ {r} : LocalsKept(p)
  <2>1. external_id' = external_id /\ dry_run' = dry_run
    BY <1>7, CallStepKeeps DEF GuardStep
  <2> QED
    BY <1>7, <2>1 DEF GuardStep, LocalsKept
<1> QED
  BY <1>1, <1>2, <1>3, <1>4, <1>5, <1>6, <1>7 DEF RunStep, OwnStep

\* Neither time nor the guard's environment touches a run.
LEMMA IdleKeeps ==
  ASSUME TimePasses \/ (UNCHANGED bookingVars /\ (Environment \/ UNCHANGED vars)), NEW p \in Runs
  PROVE  LocalsKept(p) /\ calendar' = calendar /\ left_out \subseteq left_out' /\ cursor' = cursor
<1>1. CASE TimePasses
  BY <1>1 DEF TimePasses, LocalsKept, runVars, guardVars
<1>2. CASE UNCHANGED bookingVars /\ (Environment \/ UNCHANGED vars)
  <2>1. external_id' = external_id /\ dry_run' = dry_run
    BY <1>2 DEF Environment, SetKillSwitch, CacheWindowPasses, Midnight, callVars, vars, guardVars
  <2> QED
    BY <1>2, <2>1 DEF LocalsKept, bookingVars, calendarVars, runVars
<1> QED
  BY <1>1, <1>2

LEMMA KnowsKept ==
  ASSUME NEW p \in Runs, LocalsKept(p), calendar' = calendar /\ left_out \subseteq left_out', RunKnows(p)
  PROVE  RunKnows(p)'
<1> USE DEF LocalsKept, Fetching, Working, SeenBy, RunKnows
<1>1. NothingYet(p)' /\ ListingComplete(p)' /\ ShownIsCurrent(p)' /\ PriorMatches(p)'
  BY DEF NothingYet, ListingComplete, ShownIsCurrent, PriorMatches, Matches
<1>2. NotDealtWith(p)' /\ WorkMatches(p)' /\ CallIsNew(p)'
  BY DEF NotDealtWith, WorkMatches, CallIsNew, Classify, Matches
<1> QED
  BY <1>1, <1>2

LEMMA EndKnows ==
  ASSUME BookingTypeOK, NEW r \in Runs, EndRun(r)
  PROVE  RunKnows(r)'
<1>1. /\ step'[r] = "waiting" /\ listing'[r] = NoListing /\ events'[r] = {}
      /\ next_sync_token'[r] = 0 /\ prior'[r].sync_token = 0
  BY NothingTypes DEF EndRun, BookingGoto, BookingTypeOK
<1>2. SeenBy(prior[r].sync_token)' = {}
  BY <1>1 DEF SeenBy
<1> QED
  BY <1>1, <1>2
  DEF RunKnows, NothingYet, ListingComplete, ShownIsCurrent, PriorMatches, NotDealtWith, WorkMatches,
      CallIsNew, Fetching, Working

LEMMA LoadKnows ==
  ASSUME BookingTypeOK, CursorMatchesCalendar, NEW r \in Runs, RunKnows(r), LoadCursor(r)
  PROVE  RunKnows(r)'
<1>1. /\ step[r] = "waiting" /\ listing[r] = NoListing /\ events[r] = {} /\ next_sync_token[r] = 0
  BY DEF LoadCursor, RunKnows, NothingYet
<1>2. /\ step'[r] = "fetching" /\ listing'[r].pages = 0 /\ events'[r] = {} /\ next_sync_token'[r] = 0
      /\ prior'[r] = cursor /\ fingerprints'[r] = cursor.events /\ calendar' = calendar /\ left_out \subseteq left_out'
  BY <1>1 DEF LoadCursor, BookingGoto, BookingTypeOK, calendarVars, NoListing
<1>3. PriorMatches(r)'
  BY <1>2 DEF PriorMatches, SeenBy, Matches, CursorMatchesCalendar, Passed, IsBooking
<1>4. SeenBy(next_sync_token[r])' = {}
  BY <1>2 DEF SeenBy
<1> QED
  BY <1>2, <1>3, <1>4
  DEF RunKnows, NothingYet, ListingComplete, ShownIsCurrent, NotDealtWith, WorkMatches, CallIsNew,
      Fetching, Working

LEMMA GoneKnows ==
  ASSUME BookingTypeOK, NEW r \in Runs, RunKnows(r), TokenGone(r)
  PROVE  RunKnows(r)'
<1>1. /\ Fetching(r) /\ step'[r] = "fetching" /\ listing'[r] = NoListing /\ events'[r] = {}
      /\ next_sync_token'[r] = 0 /\ prior' = prior /\ fingerprints' = fingerprints /\ calendar' = calendar /\ left_out \subseteq left_out'
  BY DEF TokenGone, Asking, Fetching, BookingGoto, BookingTypeOK, calendarVars
<1>2. SeenBy(next_sync_token[r])' = {}
  BY <1>1 DEF SeenBy
<1>3. PriorMatches(r)'
  BY <1>1 DEF RunKnows, PriorMatches, SeenBy, Matches
<1>4. NotDealtWith(r)'
  BY <1>1 DEF RunKnows, NotDealtWith, Fetching
<1> QED
  BY <1>1, <1>2, <1>3, <1>4
  DEF RunKnows, NothingYet, NoListing, ListingComplete, ShownIsCurrent, WorkMatches, CallIsNew,
      Fetching, Working

LEMMA RefusedKnows ==
  ASSUME BookingTypeOK, NEW r \in Runs, RunKnows(r), TokenRefused(r)
  PROVE  RunKnows(r)'
<1>1. /\ step[r] = "fetching" /\ step'[r] = "refreshed" /\ listing' = listing /\ events' = events
      /\ next_sync_token' = next_sync_token /\ prior' = prior /\ fingerprints' = fingerprints
      /\ calendar' = calendar /\ left_out \subseteq left_out' /\ fetched' = fetched
  BY DEF TokenRefused, BookingGoto, BookingTypeOK, calendarVars, runVars
<1>2. NothingYet(r)' /\ ListingComplete(r)' /\ ShownIsCurrent(r)' /\ PriorMatches(r)' /\ NotDealtWith(r)'
  BY <1>1
  DEF RunKnows, NothingYet, ListingComplete, ShownIsCurrent, PriorMatches, NotDealtWith, SeenBy,
      Matches, Fetching
<1> QED
  BY <1>1, <1>2 DEF RunKnows, WorkMatches, CallIsNew, Working

\* What a page adds to what a run knows, the last page or not.
LEMMA PageKnows ==
  ASSUME BookingTypeOK, TokensPast, NEW r \in Runs, RunKnows(r), Fetching(r),
         NEW page \in SUBSET Unlisted(r), TakePage(r, page), calendar' = calendar /\ left_out \subseteq left_out'
  PROVE  /\ ShownIsCurrent(r)'
         /\ \A k \in SeenBy(next_sync_token[r])' :
              calendar[k].changed <= listing[r].token \/ k \in (Unlisted(r) \ page) \cup events'[r]
<1>t. \A k \in Keys : calendar[k].changed \in Nat /\ revision \in Nat /\ listing[r].token \in Nat
  BY DEF BookingTypeOK, Event, Listing
<1>1. /\ events'[r] = events[r] \cup page
      /\ \A k \in Keys : fetched'[r][k] = IF k \in page THEN calendar[k] ELSE fetched[r][k]
      /\ next_sync_token'[r] = IF listing[r].pages = 0 THEN revision ELSE next_sync_token[r]
      /\ left_out' = left_out \cup Windowed(r)
  BY DEF TakePage, BookingTypeOK
<1>2. events[r] \subseteq Keys /\ Unlisted(r) \subseteq Keys
  BY DEF BookingTypeOK, Listing, Unlisted, ToCome, ChangedSince
\* What is still to come is shown later, or left out.
<1>w. \A k \in ToCome(r) : k \in Unlisted(r) \/ k \in left_out'
  BY <1>1 DEF Unlisted
<1>3. CASE listing[r].pages = 0
  <2>1. events[r] = {} /\ ToCome(r) = ChangedSince(listing[r].token)
    BY <1>3 DEF RunKnows, NothingYet, ToCome
  <2>2. \A k \in Keys : calendar[k].changed <= listing[r].token \/ k \in ToCome(r)
    BY <2>1, <1>t DEF ChangedSince
  <2>3. ShownIsCurrent(r)'
    BY <1>1, <1>2, <2>1 DEF ShownIsCurrent
  <2> QED
    BY <1>1, <1>w, <2>2, <2>3 DEF SeenBy
<1>4. CASE listing[r].pages # 0
  <2>1. ToCome(r) = listing[r].rest /\ next_sync_token'[r] = next_sync_token[r]
    BY <1>1, <1>4 DEF ToCome
  <2>2. page \subseteq Keys
    BY <1>2
  <2>3. ShownIsCurrent(r)'
    BY <1>1, <1>2, <2>1, <2>2 DEF RunKnows, ShownIsCurrent
  <2>4. \A k \in SeenBy(next_sync_token[r])' : k \in SeenBy(next_sync_token[r]) /\ k \notin left_out'
    BY <1>1, <2>1 DEF SeenBy
  <2> QED
    BY <1>1, <1>w, <2>1, <2>3, <2>4 DEF RunKnows, ListingComplete
<1> QED
  BY <1>3, <1>4

LEMMA MoreKnows ==
  ASSUME BookingTypeOK, TokensPast, NEW r \in Runs, RunKnows(r),
         NEW page \in SUBSET Keys, NEW reply \in CalendarReplies, MorePages(r, page, reply)
  PROVE  RunKnows(r)'
<1>1. /\ Fetching(r) /\ page \subseteq Unlisted(r) /\ calendar' = calendar /\ left_out \subseteq left_out'
      /\ step'[r] = "fetching" /\ prior' = prior /\ fingerprints' = fingerprints
  BY DEF MorePages, TakePage, Asking, PageOf, Fetching, BookingGoto, BookingTypeOK, calendarVars
<1>2. listing'[r].pages > 0 /\ listing'[r].token = listing[r].token /\ listing'[r].rest = Unlisted(r) \ page
  <2>1. listing[r].pages \in Nat /\ listing[r] \in Listing
    BY DEF BookingTypeOK, Listing
  <2>2. listing'[r] = [listing[r] EXCEPT !.pages = @ + 1, !.rest = Unlisted(r) \ page]
    BY DEF MorePages, BookingTypeOK
  <2> QED
    BY <2>1, <2>2 DEF Listing
<1>3. /\ ShownIsCurrent(r)'
      /\ \A k \in SeenBy(next_sync_token[r])' :
           calendar[k].changed <= listing[r].token \/ k \in (Unlisted(r) \ page) \cup events'[r]
  BY <1>1, PageKnows DEF MorePages
<1>4. ListingComplete(r)'
  BY <1>1, <1>2, <1>3 DEF ListingComplete
<1>5. PriorMatches(r)' /\ NotDealtWith(r)'
  BY <1>1 DEF RunKnows, PriorMatches, SeenBy, Matches, NotDealtWith, Fetching
<1> QED
  BY <1>1, <1>2, <1>3, <1>4, <1>5 DEF RunKnows, NothingYet, WorkMatches, CallIsNew, Fetching, Working

\* After the last page, what has not been shown was already behind the cursor loaded.
LEMMA LastShows ==
  ASSUME BookingTypeOK, TokensPast, NEW r \in Runs, RunKnows(r),
         NEW page \in SUBSET Keys, NEW reply \in CalendarReplies, LastPage(r, page, reply)
  PROVE  /\ ShownIsCurrent(r)'
         /\ \A k \in SeenBy(next_sync_token[r])' \ events'[r] : k \in SeenBy(prior[r].sync_token)
<1>1. Fetching(r) /\ page = Unlisted(r) /\ calendar' = calendar /\ left_out \subseteq left_out'
  BY DEF LastPage, TakePage, Asking, Fetching, calendarVars
<1>2. /\ ShownIsCurrent(r)'
      /\ \A k \in SeenBy(next_sync_token[r])' : calendar[k].changed <= listing[r].token \/ k \in events'[r]
  BY <1>1, PageKnows DEF LastPage
<1> SUFFICES ASSUME NEW k \in SeenBy(next_sync_token[r])' \ events'[r]
             PROVE  k \in SeenBy(prior[r].sync_token)
  BY <1>2
<1>3. k \in Keys \ left_out /\ calendar[k].changed \in Nat /\ calendar[k].changed > 0
  BY <1>1 DEF SeenBy, BookingTypeOK, Event
<1>4. calendar[k].changed <= prior[r].sync_token
  <2>1. calendar[k].changed <= listing[r].token /\ listing[r].token <= prior[r].sync_token
    BY <1>2 DEF TokensPast
  <2>2. listing[r].token \in Nat /\ prior[r].sync_token \in Nat
    BY DEF BookingTypeOK, Listing, Cursor
  <2> QED
    BY <1>3, <2>1, <2>2
<1> QED
  BY <1>3, <1>4 DEF SeenBy, BookingTypeOK, Cursor

LEMMA LastKnows ==
  ASSUME BookingTypeOK, TokensPast, NEW r \in Runs, RunKnows(r),
         NEW page \in SUBSET Keys, NEW reply \in CalendarReplies, LastPage(r, page, reply)
  PROVE  RunKnows(r)'
<1>1. /\ Fetching(r) /\ calendar' = calendar /\ left_out \subseteq left_out'
      /\ step'[r] = "choosing" /\ prior' = prior /\ fingerprints' = fingerprints
  BY DEF LastPage, TakePage, Asking, Fetching, BookingGoto, BookingTypeOK, calendarVars
<1>2. /\ ShownIsCurrent(r)'
      /\ \A k \in SeenBy(next_sync_token[r])' \ events'[r] : k \in SeenBy(prior[r].sync_token)
  BY LastShows
<1>3. PriorMatches(r)' /\ NotDealtWith(r)'
  BY <1>1 DEF RunKnows, PriorMatches, SeenBy, Matches, NotDealtWith, Fetching
<1>4. WorkMatches(r)'
  <2> SUFFICES ASSUME NEW k \in SeenBy(next_sync_token[r])' \ events'[r]
               PROVE  Matches(fingerprints'[r][k], calendar'[k])
    BY DEF WorkMatches, Matches
  <2>1. k \in SeenBy(prior[r].sync_token) /\ k \in Keys
    BY <1>2 DEF SeenBy
  <2>2. fingerprints[r][k] = prior[r].events[k]
    BY <1>1, <2>1 DEF RunKnows, NotDealtWith
  <2> QED
    BY <1>1, <2>1, <2>2 DEF RunKnows, PriorMatches
<1> QED
  BY <1>1, <1>2, <1>3, <1>4 DEF RunKnows, NothingYet, ListingComplete, CallIsNew, Fetching

\* An event taken off the list is remembered as the calendar has it, or the
\* cursor will not be saved.
LEMMA DealtWithKnows ==
  ASSUME BookingTypeOK, NEW r \in Runs, RunKnows(r), Working(r), NEW k \in Keys,
         calendar' = calendar /\ left_out \subseteq left_out', fetched' = fetched, prior' = prior, next_sync_token' = next_sync_token,
         step'[r] = "choosing", events'[r] = events[r] \ {k}, dry_run' = dry_run,
         failed[r] => failed'[r],
         \A l \in Keys \ {k} : fingerprints'[r][l] = fingerprints[r][l],
         ~failed'[r] /\ ~dry_run[r] /\ k \in SeenBy(next_sync_token[r])
           => Matches(fingerprints'[r][k], calendar[k])
  PROVE  RunKnows(r)'
<1>1. WorkMatches(r)'
  BY DEF RunKnows, WorkMatches, SeenBy, Matches
<1>2. NotDealtWith(r)' /\ ShownIsCurrent(r)' /\ PriorMatches(r)'
  BY DEF RunKnows, NotDealtWith, ShownIsCurrent, PriorMatches, SeenBy, Matches, Fetching, BookingTypeOK
<1> QED
  BY <1>1, <1>2 DEF RunKnows, NothingYet, ListingComplete, CallIsNew, Fetching

LEMMA IgnoreKnows ==
  ASSUME BookingTypeOK, NEW r \in Runs, RunKnows(r), NEW k \in events[r], IgnoreEvent(r, k)
  PROVE  RunKnows(r)'
<1>1. k \in Keys /\ step[r] = "choosing"
  BY DEF IgnoreEvent, BookingTypeOK
<1>2. /\ calendar' = calendar /\ left_out \subseteq left_out' /\ fetched' = fetched /\ prior' = prior /\ next_sync_token' = next_sync_token
      /\ step'[r] = "choosing" /\ events'[r] = events[r] \ {k} /\ dry_run' = dry_run
      /\ failed' = failed /\ fingerprints' = fingerprints
  BY <1>1 DEF IgnoreEvent, Done, BookingTypeOK, calendarVars, runVars, guardVars
<1>3. ASSUME k \in SeenBy(next_sync_token[r]) PROVE Matches(fingerprints[r][k], calendar[k])
  <2>1. fetched[r][k] = calendar[k]
    BY <1>3 DEF RunKnows, ShownIsCurrent, SeenBy
  <2>2. fingerprints[r][k] = prior[r].events[k]
    BY <1>1 DEF RunKnows, NotDealtWith
  <2>3. Classify(r, k) = "ignore"
    BY DEF IgnoreEvent
  <2>4. CASE calendar[k].status = "cancelled"
    BY <2>1, <2>2, <2>3, <2>4 DEF Classify, Matches
  <2>5. CASE calendar[k].status # "cancelled" /\ calendar[k].kind = "review"
    BY <2>1, <2>2, <2>3, <2>5 DEF Classify, Matches
  <2> QED
    BY <2>4, <2>5 DEF Matches
<1> QED
  BY <1>1, <1>2, <1>3, DealtWithKnows DEF Working

LEMMA RejectKnows ==
  ASSUME BookingTypeOK, NEW r \in Runs, RunKnows(r), NEW k \in events[r], RejectEvent(r, k)
  PROVE  RunKnows(r)'
<1>1. k \in Keys /\ step[r] = "choosing"
  BY DEF RejectEvent, BookingTypeOK
<1>2. /\ calendar' = calendar /\ left_out \subseteq left_out' /\ fetched' = fetched /\ prior' = prior /\ next_sync_token' = next_sync_token
      /\ step'[r] = "choosing" /\ events'[r] = events[r] \ {k} /\ dry_run' = dry_run
      /\ failed'[r] /\ fingerprints' = fingerprints
  BY <1>1 DEF RejectEvent, Done, BookingTypeOK, calendarVars, runVars, guardVars
<1> QED
  BY <1>1, <1>2, DealtWithKnows DEF Working

LEMMA SyncKnows ==
  ASSUME BookingTypeOK, NEW r \in Runs, RunKnows(r), NEW k \in events[r], SyncBooking(r, k)
  PROVE  RunKnows(r)'
<1>1. k \in Keys /\ step[r] = "choosing"
  BY DEF SyncBooking, BookingTypeOK
<1>2. /\ calendar' = calendar /\ left_out \subseteq left_out' /\ fetched' = fetched /\ prior' = prior /\ next_sync_token' = next_sync_token
      /\ step'[r] = "calling" /\ events' = events /\ dry_run' = dry_run /\ failed' = failed
      /\ fingerprints' = fingerprints /\ external_id'[r] = k
  BY <1>1 DEF SyncBooking, Call, BookingGoto, BookingTypeOK, TypeOK, calendarVars, runVars
<1>3. CallIsNew(r)'
  BY <1>2 DEF SyncBooking, CallIsNew, Classify
<1>4. NotDealtWith(r)' /\ ShownIsCurrent(r)' /\ PriorMatches(r)'
  BY <1>1, <1>2 DEF RunKnows, NotDealtWith, ShownIsCurrent, PriorMatches, SeenBy, Matches, Fetching
<1>5. WorkMatches(r)'
  BY <1>1, <1>2 DEF RunKnows, WorkMatches, SeenBy, Matches, Working
<1> QED
  BY <1>2, <1>3, <1>4, <1>5 DEF RunKnows, NothingYet, ListingComplete, Fetching

LEMMA AnswerKnows ==
  ASSUME BookingTypeOK, DryToldTrue, NEW r \in Runs, RunKnows(r),
         BookingKnown(r) \/ BookingDry(r) \/ BookingFailed(r)
  PROVE  RunKnows(r)'
<1> DEFINE k == external_id[r]
<1>1. k \in Keys /\ step[r] = "calling"
  BY DEF BookingKnown, BookingDry, BookingFailed, Answered, BookingTypeOK, TypeOK
<1>2. /\ calendar' = calendar /\ left_out \subseteq left_out' /\ fetched' = fetched /\ prior' = prior /\ next_sync_token' = next_sync_token
      /\ dry_run' = dry_run /\ NextEvent(r)
  BY DEF BookingKnown, BookingDry, BookingFailed, calendarVars, runVars, guardVars
<1>3. step'[r] = "choosing" /\ events'[r] = events[r] \ {k}
  BY <1>2 DEF NextEvent, BookingGoto, Done, BookingTypeOK
<1>4. CASE BookingKnown(r)
  <2>1. /\ failed' = failed /\ fingerprints'[r][k] = fetched[r][k].start
        /\ \A l \in Keys \ {k} : fingerprints'[r][l] = fingerprints[r][l]
    BY <1>1, <1>4 DEF BookingKnown, BookingTypeOK
  <2>2. ASSUME k \in SeenBy(next_sync_token[r]) PROVE Matches(fetched[r][k].start, calendar[k])
    <3>1. k \in events[r] /\ Classify(r, k) = "new"
      BY <1>1 DEF RunKnows, CallIsNew
    <3>2. fetched[r][k] = calendar[k]
      BY <2>2, <3>1 DEF RunKnows, ShownIsCurrent, SeenBy
    <3>3. calendar[k].status # "cancelled"
      BY <3>1, <3>2 DEF Classify
    <3> QED
      BY <3>2, <3>3 DEF Matches
  <2> HIDE DEF k
  <2> QED
    BY <1>1, <1>2, <1>3, <2>1, <2>2, DealtWithKnows DEF Working
<1>5. CASE BookingDry(r)
  <2>1. failed' = failed /\ fingerprints' = fingerprints /\ dry_run[r]
    BY <1>5 DEF BookingDry, Answered, DryToldTrue
  <2> HIDE DEF k
  <2> QED
    BY <1>1, <1>2, <1>3, <2>1, DealtWithKnows DEF Working
<1>6. CASE BookingFailed(r)
  <2>1. failed'[r] /\ fingerprints' = fingerprints
    BY <1>6 DEF BookingFailed, BookingTypeOK
  <2> HIDE DEF k
  <2> QED
    BY <1>1, <1>2, <1>3, <2>1, DealtWithKnows DEF Working
<1> QED
  BY <1>4, <1>5, <1>6

LEMMA CallKnows ==
  ASSUME NEW r \in Runs, RunKnows(r), GuardStep(r)
  PROVE  RunKnows(r)'
<1>1. external_id' = external_id /\ dry_run' = dry_run
  BY CallStepKeeps DEF GuardStep
<1>2. LocalsKept(r) /\ calendar' = calendar /\ left_out \subseteq left_out'
  BY <1>1 DEF GuardStep, LocalsKept, calendarVars, runVars
<1> QED
  BY <1>2, KnowsKept

\* An edit is younger than every token, so nobody claims to have seen it.
LEMMA EditUnseen ==
  ASSUME BookingTypeOK, TokensPast, Edit
  PROVE  \E k \in Keys :
           /\ \A l \in Keys \ {k} : calendar'[l] = calendar[l]
           /\ left_out \ {k} \subseteq left_out'
           /\ calendar'[k].changed = revision + 1
           /\ \A token \in 0..revision : \A l \in Keys :
                calendar'[l].changed \in 1..token => l # k /\ calendar[l].changed \in 1..token
<1>1. PICK k \in Keys, status \in {"confirmed", "cancelled"}, kind \in Kinds, start \in Starts :
        EditEvent(k, status, kind, start)
  BY DEF Edit
<1>2. /\ calendar'[k].changed = revision + 1 /\ \A l \in Keys \ {k} : calendar'[l] = calendar[l]
      /\ left_out \ {k} \subseteq left_out'
  BY <1>1 DEF EditEvent, BookingTypeOK
<1>3. revision \in Nat
  BY DEF BookingTypeOK
<1> QED
  BY <1>2, <1>3

LEMMA EditKeeps ==
  ASSUME Edit
  PROVE  UNCHANGED <<guardVars, cursor, step, listing, prior, events, fetched, next_sync_token,
                     fingerprints, failed, dry_run, external_id>>
BY DEF Edit, EditEvent, guardVars, runVars

LEMMA EditKnows ==
  ASSUME BookingTypeOK, TokensPast, NEW r \in Runs, RunKnows(r), Edit
  PROVE  RunKnows(r)'
<1>1. PICK k \in Keys :
        /\ \A l \in Keys \ {k} : calendar'[l] = calendar[l]
        /\ left_out \ {k} \subseteq left_out'
        /\ calendar'[k].changed = revision + 1
        /\ \A token \in 0..revision : \A l \in Keys :
             calendar'[l].changed \in 1..token => l # k /\ calendar[l].changed \in 1..token
  BY EditUnseen
<1>2. UNCHANGED <<step, listing, prior, events, fetched, next_sync_token, fingerprints, failed,
                  dry_run, external_id>>
  BY EditKeeps
<1>3. revision \in Nat /\ prior[r].sync_token \in 0..revision /\ next_sync_token[r] \in 0..revision
  BY DEF BookingTypeOK, Cursor, TokensPast
<1>4. SeenBy(prior[r].sync_token)' \subseteq SeenBy(prior[r].sync_token) \ {k}
  BY <1>1, <1>2, <1>3 DEF SeenBy
<1>5. SeenBy(next_sync_token[r])' \subseteq SeenBy(next_sync_token[r]) \ {k}
  BY <1>1, <1>2, <1>3 DEF SeenBy
<1>6. SeenBy(next_sync_token[r]) \subseteq Keys /\ SeenBy(prior[r].sync_token) \subseteq Keys
  BY DEF SeenBy
<1>7. ListingComplete(r)' /\ PriorMatches(r)' /\ WorkMatches(r)'
  <2>1. ListingComplete(r)'
    BY <1>1, <1>2, <1>5, <1>6 DEF RunKnows, ListingComplete, Fetching
  <2>2. PriorMatches(r)'
    BY <1>1, <1>2, <1>4, <1>6 DEF RunKnows, PriorMatches, Matches
  <2>3. WorkMatches(r)'
    BY <1>1, <1>2, <1>5, <1>6 DEF RunKnows, WorkMatches, Matches, Working
  <2> QED
    BY <2>1, <2>2, <2>3
<1>8. ShownIsCurrent(r)'
  <2>1. events[r] \subseteq Keys
    BY DEF BookingTypeOK
  <2>2. ~(calendar'[k].changed <= next_sync_token[r])
    BY <1>1, <1>3
  <2> QED
    BY <1>1, <1>2, <2>1, <2>2 DEF RunKnows, ShownIsCurrent
<1>9. NothingYet(r)' /\ NotDealtWith(r)' /\ CallIsNew(r)'
  BY <1>2 DEF RunKnows, NothingYet, NotDealtWith, CallIsNew, Classify, Fetching
<1> QED
  BY <1>7, <1>8, <1>9 DEF RunKnows

LEMMA RunKnowsNext ==
  ASSUME BookingTypeOK, MatchInv, [BookingNext]_vars, NEW p \in Runs
  PROVE  RunKnows(p)'
<1>a. RunKnows(p) /\ TokensPast /\ CursorMatchesCalendar /\ DryToldTrue
  BY DEF MatchInv
<1>1. ASSUME NEW r \in Runs, RunStep(r) PROVE RunKnows(p)'
  <2>1. CASE p # r
    BY <1>a, <1>1, <2>1, OthersKept, KnowsKept DEF CalendarKept, calendarVars
  <2>2. CASE p = r
    <3>1. CASE LoadCursor(p) \/ GuardStep(p)
      BY <1>a, <3>1, LoadKnows, CallKnows
    <3>2. CASE JobCrash(p) \/ FetchFails(p) \/ KeepCursor(p) \/ \E reply \in DbReplies : SaveCursor(p, reply)
      BY <3>2, EndKnows DEF JobCrash, FetchFails, KeepCursor, SaveCursor
    <3>3. CASE \E page \in SUBSET Keys, reply \in CalendarReplies : MorePages(p, page, reply) \/ LastPage(p, page, reply)
      BY <1>a, <3>3, MoreKnows, LastKnows
    <3>4. CASE TokenGone(p) \/ TokenRefused(p)
      BY <1>a, <3>4, GoneKnows, RefusedKnows
    <3>5. CASE \E k \in events[p] : IgnoreEvent(p, k) \/ RejectEvent(p, k) \/ SyncBooking(p, k)
      BY <1>a, <3>5, IgnoreKnows, RejectKnows, SyncKnows
    <3>6. CASE BookingKnown(p) \/ BookingDry(p) \/ BookingFailed(p)
      BY <1>a, <3>6, AnswerKnows
    <3> QED
      BY <1>1, <2>2, <3>1, <3>2, <3>3, <3>4, <3>5, <3>6 DEF RunStep, OwnStep, FetchStep
  <2> QED
    BY <2>1, <2>2
<1>2. CASE Edit
  BY <1>a, <1>2, EditKnows
<1>3. CASE TimePasses \/ (UNCHANGED bookingVars /\ (Environment \/ UNCHANGED vars))
  <2>1. LocalsKept(p) /\ calendar' = calendar /\ left_out \subseteq left_out'
    BY <1>3, IdleKeeps
  <2> QED
    BY <1>a, <2>1, KnowsKept
<1> QED
  BY <1>1, <1>2, <1>3, BookingCases DEF RunStep, vars

LEMMA TokensNext ==
  ASSUME BookingTypeOK, TokensPast, [BookingNext]_vars
  PROVE  TokensPast'
<1> DEFINE Past(r) == /\ prior[r].sync_token <= revision /\ next_sync_token[r] <= revision
                      /\ listing[r].token <= prior[r].sync_token
<1>n. /\ revision \in Nat /\ cursor.sync_token \in Nat
      /\ \A r \in Runs : prior[r].sync_token \in Nat /\ next_sync_token[r] \in Nat /\ listing[r].token \in Nat
      /\ \A k \in Keys : calendar[k].changed \in Nat
  BY DEF BookingTypeOK, Cursor, Listing, Event
<1>1. ASSUME NEW r \in Runs, RunStep(r), Past(r)', cursor'.sync_token <= revision PROVE TokensPast'
  <2>1. UNCHANGED calendarVars /\ \A p \in Runs \ {r} : LocalsKept(p)
    BY <1>1, OthersKept DEF CalendarKept
  <2>2. \A p \in Runs \ {r} : Past(p)'
    BY <2>1 DEF TokensPast, LocalsKept, calendarVars
  <2> QED
    BY <1>1, <2>1, <2>2 DEF TokensPast, calendarVars
<1>2. ASSUME NEW r \in Runs, EndRun(r), UNCHANGED calendarVars PROVE Past(r)'
  <2>1. prior'[r].sync_token = 0 /\ next_sync_token'[r] = 0 /\ listing'[r].token = 0 /\ revision' = revision
    BY <1>2, NothingTypes DEF EndRun, BookingTypeOK, NoListing, calendarVars
  <2> QED
    BY <1>n, <2>1
<1>3. ASSUME NEW r \in Runs, FetchFails(r) \/ KeepCursor(r) \/ JobCrash(r) PROVE TokensPast'
  <2>1. cursor' = cursor /\ Past(r)'
    BY <1>2, <1>3 DEF FetchFails, KeepCursor, JobCrash
  <2>2. RunStep(r)
    BY <1>3 DEF RunStep, OwnStep, FetchStep
  <2> QED
    BY <1>1, <2>1, <2>2 DEF TokensPast
<1>4. ASSUME NEW r \in Runs, NEW reply \in DbReplies, SaveCursor(r, reply) PROVE TokensPast'
  <2>1. cursor' = cursor \/ cursor'.sync_token = next_sync_token[r]
    BY <1>4 DEF SaveCursor
  <2>2. RunStep(r) /\ Past(r)'
    BY <1>2, <1>4 DEF RunStep, OwnStep, SaveCursor
  <2> QED
    BY <1>1, <2>1, <2>2 DEF TokensPast
<1>5. ASSUME NEW r \in Runs, LoadCursor(r) PROVE TokensPast'
  <2>1. /\ prior'[r] = cursor /\ listing'[r].token = cursor.sync_token
        /\ next_sync_token' = next_sync_token /\ revision' = revision /\ cursor' = cursor
    BY <1>5 DEF LoadCursor, BookingTypeOK, Listing, calendarVars
  <2>2. RunStep(r)
    BY <1>5 DEF RunStep
  <2> QED
    BY <1>1, <1>n, <2>1, <2>2 DEF TokensPast
<1>6. ASSUME NEW r \in Runs, NEW page \in SUBSET Keys, NEW reply \in CalendarReplies,
             MorePages(r, page, reply) \/ LastPage(r, page, reply)
      PROVE  TokensPast'
  <2>1. next_sync_token'[r] \in {revision, next_sync_token[r]}
    BY <1>6 DEF MorePages, LastPage, TakePage, BookingTypeOK
  <2>2. listing'[r].token = listing[r].token \/ listing'[r].token = 0
    BY <1>6 DEF MorePages, LastPage, BookingTypeOK, Listing, NoListing
  <2>3. RunStep(r) /\ prior' = prior /\ revision' = revision /\ cursor' = cursor
    BY <1>6 DEF RunStep, OwnStep, FetchStep, MorePages, LastPage, calendarVars
  <2> QED
    BY <1>1, <1>n, <2>1, <2>2, <2>3 DEF TokensPast
<1>7. ASSUME NEW r \in Runs, TokenGone(r) PROVE TokensPast'
  <2>1. next_sync_token'[r] = 0 /\ listing'[r].token = 0
    BY <1>7 DEF TokenGone, BookingTypeOK, NoListing
  <2>2. RunStep(r) /\ prior' = prior /\ revision' = revision /\ cursor' = cursor
    BY <1>7 DEF RunStep, OwnStep, FetchStep, TokenGone, calendarVars
  <2> QED
    BY <1>1, <1>n, <2>1, <2>2 DEF TokensPast
<1>8. CASE Edit
  <2>1. PICK k \in Keys, status \in {"confirmed", "cancelled"}, kind \in Kinds, start \in Starts :
          EditEvent(k, status, kind, start)
    BY <1>8 DEF Edit
  <2>2. /\ revision' = revision + 1 /\ calendar'[k].changed = revision + 1
        /\ \A l \in Keys \ {k} : calendar'[l] = calendar[l]
        /\ UNCHANGED <<cursor, prior, next_sync_token, listing>>
    BY <2>1 DEF EditEvent, BookingTypeOK, runVars
  <2> QED
    BY <1>n, <2>2 DEF TokensPast
<1>9. ASSUME UNCHANGED <<calendar, revision, cursor, prior, next_sync_token, listing>> PROVE TokensPast'
  BY <1>9 DEF TokensPast
<1>10. ASSUME NEW r \in Runs,
              \/ TokenRefused(r) \/ GuardStep(r) \/ BookingKnown(r) \/ BookingDry(r) \/ BookingFailed(r)
              \/ \E k \in events[r] : IgnoreEvent(r, k) \/ RejectEvent(r, k) \/ SyncBooking(r, k)
       PROVE  UNCHANGED <<calendar, revision, cursor, prior, next_sync_token, listing>>
  BY <1>10 DEF TokenRefused, GuardStep, BookingKnown, BookingDry, BookingFailed, IgnoreEvent, RejectEvent,
               SyncBooking, runVars, calendarVars
<1>11. CASE TimePasses \/ UNCHANGED bookingVars
  BY <1>9, <1>11 DEF TimePasses, bookingVars, calendarVars, runVars
<1> QED
  <2> HIDE DEF Past
  <2> QED
    BY <1>3, <1>4, <1>5, <1>6, <1>7, <1>8, <1>9, <1>10, <1>11, BookingCases DEF OwnStep, FetchStep, vars

LEMMA DryNext == TypeOK /\ DryToldTrue /\ [GuardNext]_guardVars => DryToldTrue'
<1> SUFFICES ASSUME TypeOK, DryToldTrue, [GuardNext]_guardVars PROVE DryToldTrue'
  OBVIOUS
<1> USE DEF TypeOK, DryToldTrue
<1>1. ASSUME NEW r \in Runs, CallStep(r) PROVE DryToldTrue'
  <2>1. dry_run' = dry_run
    BY <1>1, CallStepKeeps
  <2>2. \A p \in Runs \ {r} : outcome'[p] = outcome[p]
    BY <1>1 DEF CallStep, SwitchIsOn, IsDryRun, RunBudgetSpent, Refuse, Return, StartCounting, DayBudgetSpent,
       DayBudgetLeft, ReadFails, ClaimRefused, Execute, FunctionReturns, FunctionRaises, RecordRefusal,
       Claim, RecordError, RecordOk
  <2>3. outcome'[r] = "dry_run" => outcome[r] = "dry_run" \/ dry_run[r]
    BY <1>1 DEF CallStep, SwitchIsOn, IsDryRun, RunBudgetSpent, Refuse, Return, StartCounting, DayBudgetSpent,
       DayBudgetLeft, ReadFails, ClaimRefused, Execute, FunctionReturns, FunctionRaises, RecordRefusal,
       Claim, RecordError, RecordOk
  <2> QED
    BY <2>1, <2>2, <2>3
<1>2. ASSUME NEW r \in Runs, NewRun(r) \/ Crash(r) PROVE DryToldTrue'
  BY <1>2 DEF NewRun, Crash
<1>3. ASSUME NEW r \in Runs, NEW k \in Keys, Call(r, k) PROVE DryToldTrue'
  BY <1>3 DEF Call
<1>4. CASE Environment
  BY <1>4 DEF Environment, SetKillSwitch, CacheWindowPasses, Midnight, callVars
<1>5. CASE UNCHANGED guardVars
  BY <1>5 DEF guardVars
<1> QED
  BY <1>1, <1>2, <1>3, <1>4, <1>5 DEF GuardNext

\* The cursor moves only when a run saves what it has dealt with.
LEMMA SavedCursor ==
  ASSUME NEW r \in Runs, NEW reply \in DbReplies, SaveCursor(r, reply), cursor' # cursor
  PROVE  /\ cursor'.sync_token = next_sync_token[r]
         /\ \A k \in Keys : cursor'.events[k] \in {fingerprints[r][k], NoStart}
         /\ events[r] = {} /\ Working(r) /\ ~failed[r] /\ ~dry_run[r]
<1>1. PICK kept \in SUBSET Keys :
        cursor' = [sync_token |-> next_sync_token[r],
                   events |-> [k \in Keys |-> IF k \in kept THEN fingerprints[r][k] ELSE NoStart]]
  BY DEF SaveCursor
<1> QED
  BY <1>1 DEF SaveCursor, Working

LEMMA CursorMoves ==
  ASSUME BookingTypeOK, [BookingNext]_vars
  PROVE  \/ Edit /\ cursor' = cursor
         \/ calendar' = calendar /\ left_out \subseteq left_out' /\ cursor' = cursor
         \/ calendar' = calendar /\ left_out \subseteq left_out' /\ \E r \in Runs, reply \in DbReplies : SaveCursor(r, reply)
<1>1. ASSUME NEW r \in Runs, RunStep(r)
      PROVE  calendar' = calendar /\ left_out \subseteq left_out' /\ (cursor' = cursor \/ \E reply \in DbReplies : SaveCursor(r, reply))
  <2>1. calendar' = calendar /\ left_out \subseteq left_out'
    BY <1>1, OthersKept DEF CalendarKept, calendarVars
  <2> QED
    BY <1>1, <2>1
    DEF RunStep, OwnStep, FetchStep, MorePages, LastPage, TokenGone, TokenRefused, FetchFails, IgnoreEvent,
        RejectEvent, SyncBooking, BookingKnown, BookingDry, BookingFailed, KeepCursor, LoadCursor,
        GuardStep, JobCrash
<1>2. CASE Edit
  BY <1>2, EditKeeps
<1>3. CASE TimePasses \/ UNCHANGED bookingVars
  BY <1>3 DEF TimePasses, bookingVars, calendarVars
<1> QED
  BY <1>1, <1>2, <1>3, BookingCases DEF RunStep, vars

LEMMA CursorMatchesNext ==
  ASSUME BookingTypeOK, MatchInv, [BookingNext]_vars
  PROVE  CursorMatchesCalendar'
<1>a. CursorMatchesCalendar <=> \A k \in SeenBy(cursor.sync_token) : Matches(cursor.events[k], calendar[k])
  BY DEF CursorMatchesCalendar, Passed, IsBooking, SeenBy, Matches
<1>b. CursorMatchesCalendar'
      <=> \A k \in SeenBy(cursor.sync_token)' : Matches(cursor'.events[k], calendar'[k])
  BY DEF CursorMatchesCalendar, Passed, IsBooking, SeenBy, Matches
<1>c. CursorMatchesCalendar /\ TokensPast
  BY DEF MatchInv
<1>1. ASSUME NEW r \in Runs, NEW reply \in DbReplies, SaveCursor(r, reply), calendar' = calendar /\ left_out \subseteq left_out',
             cursor' # cursor
      PROVE  CursorMatchesCalendar'
  <2>1. /\ cursor'.sync_token = next_sync_token[r]
        /\ \A k \in Keys : cursor'.events[k] \in {fingerprints[r][k], NoStart}
        /\ events[r] = {} /\ Working(r) /\ ~failed[r] /\ ~dry_run[r]
    BY <1>1, SavedCursor
  <2>2. \A k \in SeenBy(next_sync_token[r]) : Matches(fingerprints[r][k], calendar[k])
    BY <2>1 DEF MatchInv, RunKnows, WorkMatches
  <2>3. SeenBy(cursor.sync_token)' \subseteq SeenBy(next_sync_token[r]) /\ SeenBy(next_sync_token[r]) \subseteq Keys
    BY <1>1, <2>1 DEF SeenBy
  <2> QED
    BY <1>b, <1>1, <2>1, <2>2, <2>3 DEF Matches
<1>2. CASE Edit /\ cursor' = cursor
  <2>1. PICK k \in Keys :
          /\ \A l \in Keys \ {k} : calendar'[l] = calendar[l]
          /\ left_out \ {k} \subseteq left_out'
          /\ \A token \in 0..revision : \A l \in Keys :
               calendar'[l].changed \in 1..token => l # k /\ calendar[l].changed \in 1..token
    BY <1>c, <1>2, EditUnseen
  <2>2. cursor.sync_token \in 0..revision
    BY <1>c DEF TokensPast, BookingTypeOK, Cursor
  <2>3. SeenBy(cursor.sync_token)' \subseteq SeenBy(cursor.sync_token) \ {k} /\ SeenBy(cursor.sync_token) \subseteq Keys
    BY <1>2, <2>1, <2>2 DEF SeenBy
  <2> QED
    BY <1>a, <1>b, <1>c, <1>2, <2>1, <2>3
<1>3. CASE UNCHANGED <<cursor, calendar>> /\ left_out \subseteq left_out'
  <2>1. SeenBy(cursor.sync_token)' \subseteq SeenBy(cursor.sync_token)
    BY <1>3 DEF SeenBy
  <2> QED
    BY <1>a, <1>b, <1>c, <1>3, <2>1
<1> QED
  BY <1>1, <1>2, <1>3, CursorMoves

LEMMA MatchInit == BookingInit => MatchInv
<1> SUFFICES ASSUME BookingInit PROVE MatchInv
  OBVIOUS
<1>1. /\ \A k \in Keys : calendar[k].changed = 0
      /\ revision = 1 /\ cursor.sync_token = 0
      /\ \A r \in Runs : /\ step[r] = "waiting" /\ listing[r] = NoListing /\ events[r] = {}
                          /\ prior[r].sync_token = 0 /\ next_sync_token[r] = 0 /\ outcome[r] = "none"
  BY NothingTypes DEF BookingInit, GuardInit, NoEvents, NoEvent
<1>2. TokensPast /\ DryToldTrue /\ CursorMatchesCalendar
  BY <1>1 DEF TokensPast, DryToldTrue, CursorMatchesCalendar, Passed, NoListing
<1>3. ASSUME NEW r \in Runs PROVE RunKnows(r)
  <2>1. SeenBy(prior[r].sync_token) = {}
    BY <1>1 DEF SeenBy
  <2> QED
    BY <1>1, <2>1 DEF RunKnows, NothingYet, ListingComplete, ShownIsCurrent, PriorMatches, NotDealtWith,
        WorkMatches, CallIsNew, Fetching, Working
<1> QED
  BY <1>2, <1>3 DEF MatchInv

LEMMA MatchNext == BookingTypeOK /\ MatchInv /\ [BookingNext]_vars => MatchInv'
<1> SUFFICES ASSUME BookingTypeOK, MatchInv, [BookingNext]_vars PROVE MatchInv'
  OBVIOUS
<1>1. TokensPast' /\ CursorMatchesCalendar'
  BY TokensNext, CursorMatchesNext DEF MatchInv
<1>2. DryToldTrue'
  BY DryNext, BookingStepIsGuardStep DEF MatchInv, BookingTypeOK
<1>3. \A r \in Runs : RunKnows(r)'
  BY RunKnowsNext
<1> QED
  BY <1>1, <1>2, <1>3 DEF MatchInv

\* Whatever runs overlap, fail and crash, and however the calendar changes under
\* them: what the cursor remembers of the events it has passed is what the
\* calendar says, but for events that a listing without a token left out of its
\* seven days (booking_sync.py:97-142, 176-178).
THEOREM CursorAgrees == BookingSpec => []CursorMatchesCalendar
<1>1. BookingInit => BookingTypeOK /\ MatchInv
  BY BookingTypeInit, MatchInit
<1>2. BookingTypeOK /\ MatchInv /\ [BookingNext]_vars => BookingTypeOK' /\ MatchInv'
  BY BookingTypeNext, MatchNext
<1>3. MatchInv => CursorMatchesCalendar
  BY DEF MatchInv
<1> QED
  BY <1>1, <1>2, <1>3, PTL DEF BookingSpec

------------------------------------------------------------------------------
(* What a run knows of the writes.                                           *)

\* A booking that needs no further write: it was written, its row was
\* overwritten, or a claim of it was left behind that nobody will release.
Settled(k) ==
  \/ applied[k] >= 1 \/ k \in overwritten
  \/ integration_log[k].pending /\ \A r \in Runs : ~Holds(r, k)

Remembers(starts) == \A k \in Keys : starts[k] # NoStart => Settled(k)

RunSettled(r) ==
  /\ Remembers(prior[r].events) /\ Remembers(fingerprints[r])
  /\ \A k \in SeenBy(prior[r].sync_token) : IsBooking(k) => Settled(k)
  /\ Working(r) /\ ~failed[r] /\ ~dry_run[r]
       => \A k \in SeenBy(next_sync_token[r]) \ events[r] : IsBooking(k) => Settled(k)

DuplicatesSettled ==
  \A r \in Runs : pc[r] = "returned" /\ outcome[r] = "DuplicateWrite" => Settled(external_id[r])

CursorSettled ==
  /\ Remembers(cursor.events)
  /\ \A k \in SeenBy(cursor.sync_token) : IsBooking(k) => Settled(k)

CoverInv ==
  /\ DuplicatesSettled /\ CursorSettled
  /\ \A r \in Runs : RunSettled(r)

\* The scheduler keeps a job to one run at a time: max_instances=1 (scheduler.py:102).
OneRun == \A r, s \in Runs : r = s

LEMMA SettledKept ==
  ASSUME TypeOK, [GuardNext]_guardVars, NEW k \in Keys, Settled(k)
  PROVE  Settled(k)'
<1>a. applied[k] >= 1 => applied'[k] >= 1
  BY AppliedGrows
<1>b. k \in overwritten => k \in overwritten'
  <2>1. ASSUME NEW r \in Runs, NEW reply \in DbReplies,
               RecordRefusal(r, reply) \/ Claim(r, reply) \/ RecordError(r, reply) \/ RecordOk(r, reply)
        PROVE  overwritten \subseteq overwritten'
    BY <2>1 DEF RecordRefusal, Claim, RecordError, RecordOk, logVars
  <2> QED
    BY <2>1, NextCases, QuietShrinks, EnvironmentLeavesRuns DEF logVars, guardVars
<1> SUFFICES ASSUME integration_log[k].pending, \A r \in Runs : ~Holds(r, k) PROVE Settled(k)'
  BY <1>a, <1>b DEF Settled
<1>1. ASSUME HoldersShrink, integration_log'[k] = integration_log[k] PROVE Settled(k)'
  BY <1>1 DEF HoldersShrink, Settled
<1>2. ASSUME NEW r \in Runs, QuietStep(r) PROVE Settled(k)'
  BY <1>1, <1>2, QuietShrinks DEF logVars
<1>3. CASE Environment \/ UNCHANGED guardVars
  BY <1>3, EnvironmentLeavesRuns DEF logVars, guardVars, Settled, Holds
<1>4. ASSUME NEW r \in Runs, NEW reply \in DbReplies, RecordRefusal(r, reply) PROVE Settled(k)'
  <2>1. HoldersShrink
    BY <1>4 DEF RecordRefusal, Return, Goto, callVars, HoldersShrink, Holds, HoldingPcs, TypeOK
  <2>2. \/ integration_log'[k] = integration_log[k]
        \/ k = external_id[r] /\ k \in overwritten'
    BY <1>4 DEF RecordRefusal, Write, logVars, TypeOK
  <2> QED
    BY <1>1, <2>1, <2>2 DEF Settled
<1>5. ASSUME NEW r \in Runs, NEW reply \in DbReplies, Claim(r, reply) PROVE Settled(k)'
  <2>1. reply # "failed" => external_id[r] # k
    BY <1>5 DEF Claim, Claimable
  <2>2. integration_log'[k] = integration_log[k]
    BY <1>5, <2>1 DEF Claim, Write, TypeOK
  <2>3. \A p \in Runs : ~Holds(p, k)'
    BY <1>5, <2>1 DEF Claim, Return, Goto, callVars, Holds, HoldingPcs, TypeOK
  <2> QED
    BY <2>2, <2>3 DEF Settled
<1>6. ASSUME NEW r \in Runs, NEW reply \in DbReplies, RecordError(r, reply) \/ RecordOk(r, reply)
      PROVE  Settled(k)'
  <2>1. external_id[r] # k
    BY <1>6 DEF RecordError, RecordOk, Holds, HoldingPcs
  <2>2. integration_log'[k] = integration_log[k]
    BY <1>6, <2>1 DEF RecordError, RecordOk, Write, TypeOK
  <2>3. HoldersShrink
    BY <1>6 DEF RecordError, RecordOk, Return, Goto, callVars, HoldersShrink, Holds, HoldingPcs, TypeOK
  <2> QED
    BY <1>1, <2>2, <2>3
<1> QED
  BY <1>2, <1>3, <1>4, <1>5, <1>6, NextCases

\* A run told of a duplicate may rely on it: the row is ok and true, or nobody
\* is left to withdraw its claim.  With two runs the other may yet fail.
LEMMA DuplicatesNext ==
  ASSUME OneRun, TypeOK, GuardFacts, DuplicatesSettled, [GuardNext]_guardVars
  PROVE  DuplicatesSettled'
<1> DEFINE TellsDuplicate(r) == pc[r] = "returned" /\ outcome[r] = "DuplicateWrite"
<1>0. ASSUME \A r \in Runs : TellsDuplicate(r)' => TellsDuplicate(r) /\ external_id'[r] = external_id[r]
      PROVE  DuplicatesSettled'
  <2>1. \A r \in Runs : external_id[r] \in Keys
    BY DEF TypeOK
  <2>2. \A k \in Keys : Settled(k) => Settled(k)'
    BY SettledKept
  <2>3. ASSUME NEW r \in Runs, TellsDuplicate(r)' PROVE Settled(external_id[r])'
    <3>1. Settled(external_id[r]) /\ external_id'[r] = external_id[r]
      BY <1>0, <2>3 DEF DuplicatesSettled
    <3> QED
      BY <2>1, <2>2, <3>1 DEF Settled, Holds
  <2> QED
    BY <2>3 DEF DuplicatesSettled
<1>1. ASSUME NEW r \in Runs, ClaimRefused(r) PROVE DuplicatesSettled'
  <2>1. external_id[r] \in Keys /\ ~Claimable(external_id[r]) /\ external_id' = external_id
        /\ applied' = applied /\ integration_log' = integration_log /\ pc'[r] = "returned"
    BY <1>1 DEF ClaimRefused, Return, Goto, callVars, logVars, effVars, TypeOK
  <2>2. \A p \in Runs : p = r
    BY DEF OneRun
  <2>3. integration_log[external_id[r]].pending \/ applied[external_id[r]] >= 1
    BY <2>1 DEF Claimable, GuardFacts, OkMeansApplied
  <2> QED
    BY <2>1, <2>2, <2>3 DEF DuplicatesSettled, Settled, Holds, HoldingPcs
<1>2. ASSUME NEW r \in Runs, QuietStep(r), ~ClaimRefused(r) PROVE DuplicatesSettled'
  <2> USE DEF Goto, Return, Refuse, callVars, TypeOK
  <2>1. CASE SwitchIsOn(r) \/ IsDryRun(r) \/ RunBudgetSpent(r) \/ DayBudgetSpent(r)
    BY <1>0, <2>1 DEF SwitchIsOn, SwitchIsOff, IsDryRun, RunBudgetSpent, DayBudgetSpent
  <2>2. CASE StartCounting(r) \/ DayBudgetLeft(r) \/ ReadFails(r)
    BY <1>0, <2>2 DEF StartCounting, SwitchIsOff, DayBudgetLeft, ReadFails
  <2>3. CASE Execute(r) \/ FunctionReturns(r) \/ FunctionRaises(r)
    BY <1>0, <2>3 DEF Execute, FunctionReturns, FunctionRaises
  <2>4. CASE NewRun(r) \/ Crash(r)
    BY <1>0, <2>4 DEF NewRun, Crash
  <2>5. ASSUME NEW k \in Keys, Call(r, k) PROVE DuplicatesSettled'
    BY <1>0, <2>5 DEF Call
  <2> QED
    BY <1>2, <2>1, <2>2, <2>3, <2>4, <2>5 DEF QuietStep
<1>3. CASE Environment \/ UNCHANGED guardVars
  BY <1>0, <1>3 DEF Environment, SetKillSwitch, CacheWindowPasses, Midnight, callVars, guardVars
<1>4. ASSUME NEW r \in Runs, NEW reply \in DbReplies,
             Claim(r, reply) \/ RecordError(r, reply) \/ RecordOk(r, reply)
      PROVE  DuplicatesSettled'
  BY <1>0, <1>4 DEF Claim, RecordError, RecordOk, Return, Goto, callVars, TypeOK
<1>5. ASSUME NEW r \in Runs, NEW reply \in DbReplies, RecordRefusal(r, reply) PROVE DuplicatesSettled'
  <2>1. outcome[r] # "DuplicateWrite"
    BY <1>5 DEF RecordRefusal, GuardFacts, RefusalsDecided
  <2> QED
    BY <1>0, <1>5, <2>1 DEF RecordRefusal, Return, Goto, callVars, TypeOK
<1> QED
  BY <1>1, <1>2, <1>3, <1>4, <1>5, NextCases

\* What is settled stays so, whoever steps.
StaysSettled == \A k \in Keys : Settled(k) => Settled(k)'

LEMMA BookingStaysSettled == ASSUME BookingTypeOK, [BookingNext]_vars PROVE StaysSettled
BY BookingStepIsGuardStep, SettledKept DEF StaysSettled, BookingTypeOK

LEMMA SettledAlike ==
  ASSUME NEW p \in Runs, LocalsKept(p), calendar' = calendar /\ left_out \subseteq left_out', StaysSettled, RunSettled(p)
  PROVE  RunSettled(p)'
<1> USE DEF LocalsKept, StaysSettled, RunSettled
<1>1. Remembers(prior[p].events)' /\ Remembers(fingerprints[p])'
  BY DEF Remembers
<1>2. \A k \in SeenBy(prior[p].sync_token)' : IsBooking(k)' => Settled(k)'
  BY DEF SeenBy, IsBooking
<1>3. (Working(p) /\ ~failed[p] /\ ~dry_run[p])'
        => \A k \in (SeenBy(next_sync_token[p]) \ events[p])' : IsBooking(k)' => Settled(k)'
  BY DEF Working, SeenBy, IsBooking
<1> QED
  BY <1>1, <1>2, <1>3

\* A run at rest, or listing, has only its cursor.
LEMMA SettledBeforeWork ==
  ASSUME NEW r \in Runs, ~Working(r)', Remembers(prior[r].events)', Remembers(fingerprints[r])',
         \A k \in SeenBy(prior[r].sync_token)' : IsBooking(k)' => Settled(k)'
  PROVE  RunSettled(r)'
BY DEF RunSettled

LEMMA EndSettled ==
  ASSUME BookingTypeOK, NEW r \in Runs, EndRun(r)
  PROVE  RunSettled(r)'
<1>1. step'[r] = "waiting" /\ prior'[r] = NoCursor /\ fingerprints'[r] = NoCursor.events
  BY DEF EndRun, BookingGoto, BookingTypeOK
<1>2. Remembers(prior[r].events)' /\ Remembers(fingerprints[r])'
  BY <1>1, NothingTypes DEF Remembers
<1>3. SeenBy(prior[r].sync_token)' = {}
  BY <1>1, NothingTypes DEF SeenBy
<1> QED
  BY <1>1, <1>2, <1>3, SettledBeforeWork DEF Working

LEMMA LoadSettled ==
  ASSUME BookingTypeOK, StaysSettled, CoverInv, NEW r \in Runs, LoadCursor(r)
  PROVE  RunSettled(r)'
<1>1. /\ step'[r] = "fetching" /\ prior'[r] = cursor /\ fingerprints'[r] = cursor.events
      /\ calendar' = calendar /\ left_out \subseteq left_out'
  BY DEF LoadCursor, BookingGoto, BookingTypeOK, calendarVars
<1>2. Remembers(prior[r].events)' /\ Remembers(fingerprints[r])'
  BY <1>1 DEF Remembers, CoverInv, CursorSettled, StaysSettled
<1>3. \A k \in SeenBy(prior[r].sync_token)' : IsBooking(k)' => Settled(k)'
  BY <1>1 DEF SeenBy, IsBooking, CoverInv, CursorSettled, StaysSettled
<1> QED
  BY <1>1, <1>2, <1>3, SettledBeforeWork DEF Working

LEMMA ListSettled ==
  ASSUME BookingTypeOK, StaysSettled, NEW r \in Runs, RunSettled(r),
         \/ TokenGone(r) \/ TokenRefused(r)
         \/ \E page \in SUBSET Keys, reply \in CalendarReplies : MorePages(r, page, reply)
  PROVE  RunSettled(r)'
<1>1. /\ step'[r] \in {"fetching", "refreshed"} /\ prior' = prior /\ fingerprints' = fingerprints
      /\ calendar' = calendar /\ left_out \subseteq left_out'
  BY DEF TokenGone, TokenRefused, MorePages, TakePage, BookingGoto, BookingTypeOK, calendarVars, runVars
<1>2. Remembers(prior[r].events)' /\ Remembers(fingerprints[r])'
  BY <1>1 DEF Remembers, RunSettled, StaysSettled
<1>3. \A k \in SeenBy(prior[r].sync_token)' : IsBooking(k)' => Settled(k)'
  BY <1>1 DEF SeenBy, IsBooking, RunSettled, StaysSettled
<1> QED
  BY <1>1, <1>2, <1>3, SettledBeforeWork DEF Working

LEMMA LastSettled ==
  ASSUME BookingTypeOK, TokensPast, StaysSettled, NEW r \in Runs, RunKnows(r), RunSettled(r),
         NEW page \in SUBSET Keys, NEW reply \in CalendarReplies, LastPage(r, page, reply)
  PROVE  RunSettled(r)'
<1>1. prior' = prior /\ fingerprints' = fingerprints /\ calendar' = calendar /\ left_out \subseteq left_out'
  BY DEF LastPage, TakePage, calendarVars
<1>2. Remembers(prior[r].events)' /\ Remembers(fingerprints[r])'
  BY <1>1 DEF Remembers, RunSettled, StaysSettled
<1>3. \A k \in SeenBy(prior[r].sync_token)' : IsBooking(k)' => Settled(k)'
  BY <1>1 DEF SeenBy, IsBooking, RunSettled, StaysSettled
<1>4. \A k \in SeenBy(next_sync_token[r])' \ events'[r] : k \in SeenBy(prior[r].sync_token)'
  <2>1. \A k \in SeenBy(next_sync_token[r])' \ events'[r] : k \in SeenBy(prior[r].sync_token)
    BY LastShows
  <2> QED
    BY <1>1, <2>1 DEF SeenBy
<1> QED
  BY <1>2, <1>3, <1>4 DEF RunSettled

\* An event taken off the list is a booking that was settled, or keeps the cursor.
LEMMA DealtWithSettled ==
  ASSUME BookingTypeOK, StaysSettled, NEW r \in Runs, RunSettled(r), Working(r), NEW k \in Keys,
         calendar' = calendar /\ left_out \subseteq left_out', prior' = prior, next_sync_token' = next_sync_token,
         events'[r] = events[r] \ {k}, dry_run' = dry_run,
         failed[r] => failed'[r],
         \A l \in Keys \ {k} : fingerprints'[r][l] = fingerprints[r][l],
         fingerprints'[r][k] = fingerprints[r][k] \/ Settled(k),
         ~failed'[r] /\ ~dry_run[r] /\ k \in SeenBy(next_sync_token[r]) /\ IsBooking(k) => Settled(k)
  PROVE  RunSettled(r)'
<1>1. Remembers(prior[r].events)'
  BY DEF Remembers, RunSettled, StaysSettled
<1>2. Remembers(fingerprints[r])'
  BY DEF Remembers, RunSettled, StaysSettled
<1>3. \A l \in SeenBy(prior[r].sync_token)' : IsBooking(l)' => Settled(l)'
  BY DEF SeenBy, IsBooking, RunSettled, StaysSettled
<1>4. ASSUME ~failed'[r], ~dry_run'[r], NEW l \in SeenBy(next_sync_token[r])' \ events'[r], IsBooking(l)'
      PROVE  Settled(l)'
  <2>1. l \in SeenBy(next_sync_token[r]) /\ IsBooking(l) /\ l \in Keys
    BY <1>4 DEF SeenBy, IsBooking
  <2>2. Settled(l)
    BY <1>4, <2>1 DEF RunSettled
  <2> QED
    BY <2>1, <2>2 DEF StaysSettled
<1> QED
  BY <1>1, <1>2, <1>3, <1>4 DEF RunSettled

LEMMA IgnoreSettled ==
  ASSUME BookingTypeOK, StaysSettled, NEW r \in Runs, RunKnows(r), RunSettled(r),
         NEW k \in events[r], IgnoreEvent(r, k)
  PROVE  RunSettled(r)'
<1>1. k \in Keys /\ step[r] = "choosing"
  BY DEF IgnoreEvent, BookingTypeOK
<1>2. /\ calendar' = calendar /\ left_out \subseteq left_out' /\ prior' = prior /\ next_sync_token' = next_sync_token
      /\ events'[r] = events[r] \ {k} /\ dry_run' = dry_run
      /\ failed' = failed /\ fingerprints' = fingerprints
  BY <1>1 DEF IgnoreEvent, Done, BookingTypeOK, calendarVars, runVars, guardVars
\* A booking is ignored only because its start time is remembered.
<1>3. ASSUME k \in SeenBy(next_sync_token[r]), IsBooking(k) PROVE Settled(k)
  <2>1. fetched[r][k] = calendar[k]
    BY <1>3 DEF RunKnows, ShownIsCurrent, SeenBy
  <2>2. prior[r].events[k] # NoStart
    BY <1>3, <2>1 DEF IgnoreEvent, Classify, IsBooking
  <2> QED
    BY <1>1, <2>2 DEF RunSettled, Remembers
<1> QED
  BY <1>1, <1>2, <1>3, DealtWithSettled DEF Working

LEMMA RejectSettled ==
  ASSUME BookingTypeOK, StaysSettled, NEW r \in Runs, RunSettled(r), NEW k \in events[r], RejectEvent(r, k)
  PROVE  RunSettled(r)'
<1>1. k \in Keys /\ step[r] = "choosing"
  BY DEF RejectEvent, BookingTypeOK
<1>2. /\ calendar' = calendar /\ left_out \subseteq left_out' /\ prior' = prior /\ next_sync_token' = next_sync_token
      /\ events'[r] = events[r] \ {k} /\ dry_run' = dry_run
      /\ failed'[r] /\ fingerprints' = fingerprints
  BY <1>1 DEF RejectEvent, Done, BookingTypeOK, calendarVars, runVars, guardVars
<1> QED
  BY <1>1, <1>2, DealtWithSettled DEF Working

LEMMA AnswerSettled ==
  ASSUME BookingTypeOK, DryToldTrue, GuardFacts, DuplicatesSettled, StaysSettled,
         NEW r \in Runs, RunSettled(r), BookingKnown(r) \/ BookingDry(r) \/ BookingFailed(r)
  PROVE  RunSettled(r)'
<1> DEFINE k == external_id[r]
<1>1. k \in Keys /\ step[r] = "calling"
  BY DEF BookingKnown, BookingDry, BookingFailed, Answered, BookingTypeOK, TypeOK
<1>2. /\ calendar' = calendar /\ left_out \subseteq left_out' /\ prior' = prior /\ next_sync_token' = next_sync_token
      /\ dry_run' = dry_run /\ NextEvent(r)
  BY DEF BookingKnown, BookingDry, BookingFailed, calendarVars, runVars, guardVars
<1>3. events'[r] = events[r] \ {k}
  BY <1>2 DEF NextEvent, Done, BookingTypeOK
<1>4. CASE BookingKnown(r)
  <2>1. failed' = failed /\ \A l \in Keys \ {k} : fingerprints'[r][l] = fingerprints[r][l]
    BY <1>1, <1>4 DEF BookingKnown, BookingTypeOK
  <2>2. Settled(k)
    BY <1>4 DEF BookingKnown, Answered, GuardFacts, ValueMeansApplied, DuplicatesSettled, Settled
  <2> HIDE DEF k
  <2> QED
    BY <1>1, <1>2, <1>3, <2>1, <2>2, DealtWithSettled DEF Working
<1>5. CASE BookingDry(r)
  <2>1. failed' = failed /\ fingerprints' = fingerprints /\ dry_run[r]
    BY <1>5 DEF BookingDry, Answered, DryToldTrue
  <2> HIDE DEF k
  <2> QED
    BY <1>1, <1>2, <1>3, <2>1, DealtWithSettled DEF Working
<1>6. CASE BookingFailed(r)
  <2>1. failed'[r] /\ fingerprints' = fingerprints
    BY <1>6 DEF BookingFailed, BookingTypeOK
  <2> HIDE DEF k
  <2> QED
    BY <1>1, <1>2, <1>3, <2>1, DealtWithSettled DEF Working
<1> QED
  BY <1>4, <1>5, <1>6

LEMMA SyncSettled ==
  ASSUME BookingTypeOK, StaysSettled, NEW r \in Runs, RunSettled(r), NEW k \in events[r], SyncBooking(r, k)
  PROVE  RunSettled(r)'
<1>1. /\ calendar' = calendar /\ left_out \subseteq left_out' /\ prior' = prior /\ next_sync_token' = next_sync_token
      /\ events' = events /\ dry_run' = dry_run /\ failed' = failed
      /\ fingerprints' = fingerprints /\ Working(r)
  BY DEF SyncBooking, Call, Working, calendarVars, runVars
<1>2. Remembers(prior[r].events)' /\ Remembers(fingerprints[r])'
  BY <1>1 DEF Remembers, RunSettled, StaysSettled
<1>3. \A l \in SeenBy(prior[r].sync_token)' : IsBooking(l)' => Settled(l)'
  BY <1>1 DEF SeenBy, IsBooking, RunSettled, StaysSettled
<1>4. ASSUME ~failed'[r], ~dry_run'[r], NEW l \in SeenBy(next_sync_token[r])' \ events'[r], IsBooking(l)'
      PROVE  Settled(l)'
  <2>1. l \in SeenBy(next_sync_token[r]) /\ IsBooking(l) /\ l \in Keys
    BY <1>1, <1>4 DEF SeenBy, IsBooking
  <2> QED
    BY <1>1, <1>4, <2>1 DEF RunSettled, StaysSettled
<1> QED
  BY <1>2, <1>3, <1>4 DEF RunSettled

\* Nobody claims to have seen an edit, so nobody claims to have written it.
LEMMA EditSettled ==
  ASSUME BookingTypeOK, TokensPast, StaysSettled, NEW r \in Runs, RunSettled(r), Edit
  PROVE  RunSettled(r)'
<1>1. PICK k \in Keys :
        /\ \A l \in Keys \ {k} : calendar'[l] = calendar[l]
        /\ left_out \ {k} \subseteq left_out'
        /\ \A token \in 0..revision : \A l \in Keys :
             calendar'[l].changed \in 1..token => l # k /\ calendar[l].changed \in 1..token
  BY EditUnseen
<1>2. UNCHANGED <<step, prior, events, next_sync_token, fingerprints, failed, dry_run>>
  BY EditKeeps
<1>3. prior[r].sync_token \in 0..revision /\ next_sync_token[r] \in 0..revision
  BY DEF BookingTypeOK, Cursor, TokensPast
<1>4. \A l \in SeenBy(prior[r].sync_token)' : l \in SeenBy(prior[r].sync_token) /\ calendar'[l] = calendar[l]
  BY <1>1, <1>2, <1>3 DEF SeenBy
<1>5. \A l \in SeenBy(next_sync_token[r])' : l \in SeenBy(next_sync_token[r]) /\ calendar'[l] = calendar[l]
  BY <1>1, <1>2, <1>3 DEF SeenBy
<1>6. Remembers(prior[r].events)' /\ Remembers(fingerprints[r])'
  BY <1>2 DEF Remembers, RunSettled, StaysSettled
<1>7. \A l \in SeenBy(prior[r].sync_token)' : IsBooking(l)' => Settled(l)'
  BY <1>4 DEF SeenBy, IsBooking, RunSettled, StaysSettled
<1>8. ASSUME (Working(r) /\ ~failed[r] /\ ~dry_run[r])',
             NEW l \in SeenBy(next_sync_token[r])' \ events'[r], IsBooking(l)'
      PROVE  Settled(l)'
  <2>1. l \in SeenBy(next_sync_token[r]) \ events[r] /\ IsBooking(l) /\ l \in Keys
    BY <1>2, <1>5, <1>8 DEF SeenBy, IsBooking
  <2> QED
    BY <1>2, <1>8, <2>1 DEF RunSettled, StaysSettled, Working
<1> QED
  BY <1>6, <1>7, <1>8 DEF RunSettled

LEMMA RunSettledNext ==
  ASSUME BookingTypeOK, GuardFacts, MatchInv, CoverInv, [BookingNext]_vars, NEW p \in Runs
  PROVE  RunSettled(p)'
<1>a. RunKnows(p) /\ TokensPast /\ DryToldTrue /\ RunSettled(p) /\ DuplicatesSettled /\ StaysSettled
  BY BookingStaysSettled DEF MatchInv, CoverInv
<1>1. ASSUME NEW r \in Runs, RunStep(r) PROVE RunSettled(p)'
  <2>1. CASE p # r
    BY <1>a, <1>1, <2>1, OthersKept, SettledAlike DEF CalendarKept, calendarVars
  <2>2. CASE p = r
    <3>1. CASE LoadCursor(p)
      BY <1>a, <3>1, LoadSettled
    <3>2. CASE JobCrash(p) \/ FetchFails(p) \/ KeepCursor(p) \/ \E reply \in DbReplies : SaveCursor(p, reply)
      BY <3>2, EndSettled DEF JobCrash, FetchFails, KeepCursor, SaveCursor
    <3>3. CASE \/ TokenGone(p) \/ TokenRefused(p)
               \/ \E page \in SUBSET Keys, reply \in CalendarReplies : MorePages(p, page, reply)
      BY <1>a, <3>3, ListSettled
    <3>4. CASE \E page \in SUBSET Keys, reply \in CalendarReplies : LastPage(p, page, reply)
      BY <1>a, <3>4, LastSettled
    <3>5. CASE \E k \in events[p] : IgnoreEvent(p, k) \/ RejectEvent(p, k) \/ SyncBooking(p, k)
      BY <1>a, <3>5, IgnoreSettled, RejectSettled, SyncSettled
    <3>6. CASE BookingKnown(p) \/ BookingDry(p) \/ BookingFailed(p)
      BY <1>a, <3>6, AnswerSettled
    <3>7. CASE GuardStep(p)
      <4>1. LocalsKept(p) /\ calendar' = calendar /\ left_out \subseteq left_out'
        BY <3>7, CallStepKeeps DEF GuardStep, LocalsKept, calendarVars, runVars
      <4> QED
        BY <1>a, <4>1, SettledAlike
    <3> QED
      BY <1>1, <2>2, <3>1, <3>2, <3>3, <3>4, <3>5, <3>6, <3>7 DEF RunStep, OwnStep, FetchStep
  <2> QED
    BY <2>1, <2>2
<1>2. CASE Edit
  BY <1>a, <1>2, EditSettled
<1>3. CASE TimePasses \/ (UNCHANGED bookingVars /\ (Environment \/ UNCHANGED vars))
  <2>1. LocalsKept(p) /\ calendar' = calendar /\ left_out \subseteq left_out'
    BY <1>3, IdleKeeps
  <2> QED
    BY <1>a, <2>1, SettledAlike
<1> QED
  BY <1>1, <1>2, <1>3, BookingCases DEF RunStep, vars

LEMMA CoverNext ==
  ASSUME OneRun, BookingTypeOK, GuardFacts, MatchInv, CoverInv, [BookingNext]_vars
  PROVE  CoverInv'
<1>a. StaysSettled /\ TokensPast
  BY BookingStaysSettled DEF MatchInv
<1>1. DuplicatesSettled'
  BY BookingStepIsGuardStep, DuplicatesNext DEF CoverInv, BookingTypeOK
<1>2. \A r \in Runs : RunSettled(r)'
  BY RunSettledNext
<1>3. ASSUME NEW r \in Runs, NEW reply \in DbReplies, SaveCursor(r, reply), calendar' = calendar /\ left_out \subseteq left_out',
             cursor' # cursor
      PROVE  CursorSettled'
  <2>1. /\ cursor'.sync_token = next_sync_token[r]
        /\ \A k \in Keys : cursor'.events[k] \in {fingerprints[r][k], NoStart}
        /\ events[r] = {} /\ Working(r) /\ ~failed[r] /\ ~dry_run[r]
    BY <1>3, SavedCursor
  <2>2. RunSettled(r)
    BY DEF CoverInv
  <2>3. Remembers(cursor.events)'
    BY <1>a, <2>1, <2>2 DEF RunSettled, Remembers, StaysSettled
  <2>4. \A k \in SeenBy(cursor.sync_token)' : k \in Keys /\ k \in SeenBy(next_sync_token[r])
    BY <1>3, <2>1 DEF SeenBy
  <2>5. \A k \in SeenBy(cursor.sync_token)' : IsBooking(k)' => Settled(k)'
    BY <1>a, <1>3, <2>1, <2>2, <2>4 DEF RunSettled, IsBooking, StaysSettled
  <2> QED
    BY <2>3, <2>5 DEF CursorSettled
<1>4. ASSUME cursor' = cursor, Edit \/ (calendar' = calendar /\ left_out \subseteq left_out') PROVE CursorSettled'
  <2>1. Remembers(cursor.events)'
    BY <1>a, <1>4 DEF CoverInv, CursorSettled, Remembers, StaysSettled
  <2>2. \A l \in SeenBy(cursor.sync_token)' : l \in SeenBy(cursor.sync_token) /\ calendar'[l] = calendar[l]
    <3>1. CASE Edit
      <4>1. PICK k \in Keys :
              /\ \A l \in Keys \ {k} : calendar'[l] = calendar[l]
              /\ left_out \ {k} \subseteq left_out'
              /\ \A token \in 0..revision : \A l \in Keys :
                   calendar'[l].changed \in 1..token => l # k /\ calendar[l].changed \in 1..token
        BY <1>a, <3>1, EditUnseen
      <4>2. cursor.sync_token \in 0..revision
        BY <1>a DEF TokensPast, BookingTypeOK, Cursor
      <4> QED
        BY <1>4, <4>1, <4>2 DEF SeenBy
    <3>2. CASE calendar' = calendar /\ left_out \subseteq left_out'
      BY <1>4, <3>2 DEF SeenBy
    <3> QED
      BY <1>4, <3>1, <3>2
  <2>3. \A l \in SeenBy(cursor.sync_token)' : IsBooking(l)' => Settled(l)'
    BY <1>a, <2>2 DEF CoverInv, CursorSettled, SeenBy, IsBooking, StaysSettled
  <2> QED
    BY <2>1, <2>3 DEF CursorSettled
<1>5. CursorSettled'
  BY <1>3, <1>4, CursorMoves
<1> QED
  BY <1>1, <1>2, <1>5 DEF CoverInv

LEMMA CoverInit == BookingInit => CoverInv
<1> SUFFICES ASSUME BookingInit PROVE CoverInv
  OBVIOUS
<1>1. /\ \A k \in Keys : calendar[k].changed = 0
      /\ cursor = NoCursor
      /\ \A r \in Runs : /\ step[r] = "waiting" /\ prior[r] = NoCursor
                          /\ fingerprints[r] = NoCursor.events /\ pc[r] = "idle"
  BY DEF BookingInit, GuardInit, NoEvents, NoEvent
<1>2. Remembers(NoCursor.events) /\ SeenBy(NoCursor.sync_token) = {}
  BY NothingTypes DEF Remembers, SeenBy
<1> QED
  BY <1>1, <1>2 DEF CoverInv, CursorSettled, DuplicatesSettled, RunSettled, Working

LEMMA CoverHolds == CoverInv => CursorCoversBookings
BY DEF CoverInv, CursorSettled, CursorCoversBookings, SeenBy, Passed, Settled

\* Where a job has one run at a time (scheduler.py:102), no booking is lost unseen: the
\* cursor passes an event only when its write happened, its claim was left
\* behind, a refusal overwrote the row, or a listing without a token no longer
\* reached back to it (booking_sync.py:97-142, 176-178).
THEOREM CursorPassesWritten == ASSUME OneRun PROVE BookingSpec => []CursorCoversBookings
<1> DEFINE IInv == BookingTypeOK /\ GuardFacts /\ MatchInv /\ CoverInv
<1>1. BookingInit => IInv
  BY BookingTypeInit, GuardFactsInit, MatchInit, CoverInit DEF BookingInit
<1>2. IInv /\ [BookingNext]_vars => IInv'
  BY BookingTypeNext, BookingStepIsGuardStep, GuardFactsNext, MatchNext, CoverNext DEF BookingTypeOK
<1>3. IInv => CursorCoversBookings
  BY CoverHolds
<1> QED
  BY <1>1, <1>2, <1>3, PTL DEF BookingSpec
------------------------------------------------------------------------------
(* The cursor keeps its ground.                                              *)

\* What a run has listed has a start time, what the cursor remembers is still
\* remembered by the run that will replace it, and the token that run is given is
\* no older than the one it would replace.
KeepsGround(r) ==
  /\ \A k \in listing[r].rest : calendar[k].changed >= 1
  /\ \A k \in events[r] : fetched[r][k].start # NoStart
  /\ step[r] # "waiting" => \A k \in Remembered : fingerprints[r][k] # NoStart
  /\ Working(r) \/ listing[r].pages > 0 => cursor.sync_token <= next_sync_token[r]

GroundInv ==
  /\ \A k \in Keys : calendar[k].changed >= 1 => calendar[k].start # NoStart
  /\ \A r \in Runs : KeepsGround(r)

LEMMA GroundInit == BookingInit => GroundInv
<1> SUFFICES ASSUME BookingInit PROVE GroundInv
  OBVIOUS
<1>1. \A k \in Keys : calendar[k].changed = 0
  BY DEF BookingInit, NoEvents, NoEvent
<1>2. \A r \in Runs : listing[r] = NoListing /\ events[r] = {} /\ step[r] = "waiting"
  BY DEF BookingInit
<1> QED
  BY <1>1, <1>2 DEF GroundInv, KeepsGround, Working, NoListing

LEMMA EndGround ==
  ASSUME BookingTypeOK, NEW r \in Runs, EndRun(r)
  PROVE  KeepsGround(r)'
<1>1. step'[r] = "waiting" /\ listing'[r] = NoListing /\ events'[r] = {}
  BY DEF EndRun, BookingGoto, BookingTypeOK
<1> QED
  BY <1>1 DEF KeepsGround, Working, NoListing

LEMMA PageGround ==
  ASSUME BookingTypeOK, TokensPast, GroundInv, NEW r \in Runs,
         NEW page \in SUBSET Keys, NEW reply \in CalendarReplies,
         MorePages(r, page, reply) \/ LastPage(r, page, reply)
  PROVE  KeepsGround(r)'
<1>1. /\ page \subseteq Unlisted(r) /\ TakePage(r, page) /\ step[r] # "waiting"
      /\ calendar' = calendar /\ left_out \subseteq left_out' /\ cursor' = cursor /\ fingerprints' = fingerprints
  BY DEF MorePages, LastPage, PageOf, Asking, TakePage, calendarVars
<1>2. \A k \in Unlisted(r) : k \in Keys /\ calendar[k].changed >= 1
  <2>1. listing[r].token \in Nat /\ listing[r].rest \subseteq Keys
    BY DEF BookingTypeOK, Listing
  <2>2. \A k \in Keys : calendar[k].changed \in Nat
    BY DEF BookingTypeOK, Event
  <2>3. \A k \in listing[r].rest : calendar[k].changed >= 1
    BY DEF GroundInv, KeepsGround
  <2> QED
    BY <2>1, <2>2, <2>3 DEF Unlisted, ToCome, ChangedSince
<1>3. \A k \in listing'[r].rest : calendar'[k].changed >= 1
  <2>1. listing'[r].rest \subseteq Unlisted(r)
    BY DEF MorePages, LastPage, BookingTypeOK, NoListing, Listing
  <2> QED
    BY <1>1, <1>2, <2>1
<1>4. \A k \in events'[r] : fetched'[r][k].start # NoStart
  <2> SUFFICES ASSUME NEW k \in events'[r] PROVE fetched'[r][k].start # NoStart
    OBVIOUS
  <2>1. events'[r] = events[r] \cup page /\ events[r] \subseteq Keys
    BY <1>1 DEF TakePage, BookingTypeOK
  <2>2. fetched'[r][k] = IF k \in page THEN calendar[k] ELSE fetched[r][k]
    BY <1>1, <2>1 DEF TakePage, BookingTypeOK
  <2> QED
    BY <1>1, <1>2, <2>1, <2>2 DEF GroundInv, KeepsGround
<1>5. \A k \in Remembered' : fingerprints'[r][k] # NoStart
  BY <1>1 DEF GroundInv, KeepsGround, Remembered
<1>6. cursor'.sync_token <= next_sync_token'[r]
  <2>1. next_sync_token'[r] = IF listing[r].pages = 0 THEN revision ELSE next_sync_token[r]
    BY <1>1 DEF TakePage, BookingTypeOK
  <2>2. listing[r].pages \in Nat
    BY PageAssumption DEF BookingTypeOK, Listing
  <2> QED
    BY <1>1, <2>1, <2>2 DEF TokensPast, GroundInv, KeepsGround
<1> QED
  BY <1>3, <1>4, <1>5, <1>6 DEF KeepsGround

\* Steps after the listing: events are dealt with, none is added.
LEMMA WorkGround ==
  ASSUME BookingTypeOK, NEW r \in Runs, KeepsGround(r), Working(r), calendar' = calendar /\ left_out \subseteq left_out', cursor' = cursor,
         listing' = listing, fetched' = fetched, next_sync_token' = next_sync_token, events'[r] \subseteq events[r],
         \/ fingerprints' = fingerprints
         \/ \E k \in events[r] : fingerprints' = [fingerprints EXCEPT ![r][k] = fetched[r][k].start]
  PROVE  KeepsGround(r)'
<1>1. \A l \in Remembered' : fingerprints'[r][l] # NoStart
  <2>1. Remembered' = Remembered /\ Remembered \subseteq Keys /\ step[r] # "waiting"
    BY DEF Remembered, Working
  <2>2. \A l \in Keys : fingerprints'[r][l] = fingerprints[r][l] \/ fingerprints'[r][l] # NoStart
    BY DEF KeepsGround, BookingTypeOK
  <2> QED
    BY <2>1, <2>2 DEF KeepsGround
<1> QED
  BY <1>1 DEF KeepsGround, Working

LEMMA RunGround ==
  ASSUME BookingTypeOK, MatchInv, GroundInv, NEW r \in Runs, RunStep(r)
  PROVE  KeepsGround(r)'
<1>a. RunKnows(r) /\ TokensPast /\ KeepsGround(r)
  BY DEF MatchInv, GroundInv
<1>b. calendar' = calendar /\ left_out \subseteq left_out'
  BY OthersKept DEF CalendarKept, calendarVars
<1>1. CASE LoadCursor(r)
  <2>1. /\ listing[r] = NoListing /\ events[r] = {}
    BY <1>1, <1>a DEF LoadCursor, RunKnows, NothingYet
  <2>2. /\ listing'[r].rest = {} /\ listing'[r].pages = 0 /\ events'[r] = {} /\ step'[r] = "fetching"
        /\ fingerprints'[r] = cursor.events /\ cursor' = cursor
    BY <1>1, <2>1 DEF LoadCursor, BookingGoto, BookingTypeOK, NoListing
  <2> QED
    BY <2>2 DEF KeepsGround, Working, Remembered
<1>2. CASE JobCrash(r) \/ FetchFails(r) \/ KeepCursor(r) \/ \E reply \in DbReplies : SaveCursor(r, reply)
  BY <1>2, EndGround DEF JobCrash, FetchFails, KeepCursor, SaveCursor
<1>3. CASE \E page \in SUBSET Keys, reply \in CalendarReplies : MorePages(r, page, reply) \/ LastPage(r, page, reply)
  BY <1>3, <1>a, PageGround
<1>4. CASE TokenGone(r)
  <2>1. /\ listing'[r] = NoListing /\ events'[r] = {} /\ step'[r] = "fetching" /\ step[r] # "waiting"
        /\ fingerprints' = fingerprints /\ cursor' = cursor
    BY <1>4 DEF TokenGone, Asking, BookingGoto, BookingTypeOK
  <2> QED
    BY <1>a, <2>1 DEF KeepsGround, Working, NoListing, Remembered
<1>5. CASE TokenRefused(r)
  <2>1. /\ step'[r] = "refreshed" /\ step[r] # "waiting"
        /\ UNCHANGED <<listing, events, fetched, fingerprints, next_sync_token, cursor>>
    BY <1>5 DEF TokenRefused, Asking, BookingGoto, BookingTypeOK, runVars
  <2> QED
    BY <1>a, <1>b, <2>1 DEF KeepsGround, Working, Remembered
<1>6. CASE \E k \in events[r] : IgnoreEvent(r, k) \/ RejectEvent(r, k) \/ SyncBooking(r, k)
  <2>1. /\ Working(r) /\ events'[r] \subseteq events[r]
        /\ UNCHANGED <<listing, fetched, fingerprints, next_sync_token, cursor>>
    BY <1>6 DEF IgnoreEvent, RejectEvent, SyncBooking, Done, BookingTypeOK, Working, runVars
  <2> QED
    BY <1>a, <1>b, <2>1, WorkGround
<1>7. CASE BookingKnown(r) \/ BookingDry(r) \/ BookingFailed(r)
  <2>1. /\ Working(r) /\ events'[r] \subseteq events[r] /\ external_id[r] \in events[r]
        /\ UNCHANGED <<listing, fetched, next_sync_token, cursor>>
    BY <1>7, <1>a
    DEF BookingKnown, BookingDry, BookingFailed, Answered, NextEvent, Done, BookingTypeOK, Working, runVars,
        RunKnows, CallIsNew
  <2>2. \/ fingerprints' = fingerprints
        \/ fingerprints' = [fingerprints EXCEPT ![r][external_id[r]] = fetched[r][external_id[r]].start]
    BY <1>7 DEF BookingKnown, BookingDry, BookingFailed
  <2> QED
    BY <1>a, <1>b, <2>1, <2>2, WorkGround
<1>8. CASE GuardStep(r)
  <2>1. Working(r) /\ UNCHANGED <<events, listing, fetched, fingerprints, next_sync_token, cursor>>
    BY <1>8 DEF GuardStep, Working, runVars
  <2> QED
    BY <1>a, <1>b, <2>1, WorkGround
<1> QED
  BY <1>1, <1>2, <1>3, <1>4, <1>5, <1>6, <1>7, <1>8 DEF RunStep, OwnStep, FetchStep

LEMMA GroundNext ==
  ASSUME OneRun, BookingTypeOK, MatchInv, GroundInv, [BookingNext]_vars
  PROVE  GroundInv'
<1>1. ASSUME NEW r \in Runs, RunStep(r) PROVE GroundInv'
  <2>1. KeepsGround(r)' /\ calendar' = calendar /\ left_out \subseteq left_out'
    BY <1>1, RunGround, OthersKept DEF CalendarKept, calendarVars
  <2> QED
    BY <2>1 DEF GroundInv, OneRun
<1>2. CASE Edit
  <2>1. PICK k \in Keys, status \in {"confirmed", "cancelled"}, kind \in Kinds, start \in Starts :
          EditEvent(k, status, kind, start)
    BY <1>2 DEF Edit
  <2>2. \A l \in Keys : IF l = k THEN calendar'[l].start = start /\ calendar'[l].changed = revision + 1
                                 ELSE calendar'[l] = calendar[l]
    BY <2>1 DEF EditEvent, BookingTypeOK
  <2>3. start # NoStart /\ revision + 1 >= 1
    BY StartAssumption DEF BookingTypeOK
  <2>4. \A r \in Runs : KeepsGround(r)'
    <3> SUFFICES ASSUME NEW r \in Runs PROVE KeepsGround(r)'
      OBVIOUS
    <3>1. UNCHANGED <<cursor, step, listing, events, fetched, next_sync_token, fingerprints>>
      BY <1>2, EditKeeps
    <3>2. KeepsGround(r) /\ listing[r].rest \subseteq Keys
      BY DEF GroundInv, BookingTypeOK, Listing
    <3>3. \A l \in listing'[r].rest : calendar'[l].changed >= 1
      BY <2>2, <2>3, <3>1, <3>2 DEF KeepsGround
    <3> QED
      BY <3>1, <3>2, <3>3 DEF KeepsGround, Working, Remembered
  <2> QED
    BY <2>2, <2>3, <2>4 DEF GroundInv
<1>3. CASE TimePasses \/ UNCHANGED bookingVars
  BY <1>3 DEF TimePasses, bookingVars, calendarVars, runVars, GroundInv, KeepsGround, Working, Remembered
<1> QED
  BY <1>1, <1>2, <1>3, BookingCases DEF RunStep, vars

LEMMA SavedKeepsGround ==
  ASSUME BookingTypeOK, NEW r \in Runs, KeepsGround(r), NEW reply \in DbReplies, SaveCursor(r, reply),
         cursor' # cursor
  PROVE  /\ cursor'.sync_token >= cursor.sync_token
         /\ Remembered \subseteq Remembered' \/ Cardinality(Remembered') = MaxCursorEvents
<1> DEFINE known == {k \in Keys : fingerprints[r][k] # NoStart}
<1>1. PICK kept \in SUBSET Keys :
        /\ Bounded(fingerprints[r], kept)
        /\ cursor' = [sync_token |-> next_sync_token[r],
                      events |-> [k \in Keys |-> IF k \in kept THEN fingerprints[r][k] ELSE NoStart]]
  BY DEF SaveCursor
<1>2. Working(r) /\ step[r] # "waiting"
  BY DEF SaveCursor, Working
<1>3. cursor'.sync_token >= cursor.sync_token
  BY <1>1, <1>2 DEF KeepsGround, BookingTypeOK, Cursor
<1>4. kept \subseteq known /\ Remembered' = kept
  BY <1>1 DEF Bounded, Remembered
<1>5. Remembered \subseteq known
  BY <1>2 DEF KeepsGround, Remembered
<1>6. Cardinality(kept) = Cardinality(known) \/ Cardinality(kept) = MaxCursorEvents
  BY <1>1 DEF Bounded
<1>7. CASE Cardinality(kept) = Cardinality(known)
  <2>1. IsFiniteSet(known)
    BY FiniteAssumption, FS_Subset
  <2>2. kept = known
    BY <1>4, <1>7, <2>1, FS_Subset
  <2> QED
    BY <1>3, <1>4, <1>5, <2>2
<1> QED
  BY <1>3, <1>4, <1>6, <1>7

\* Where a job has one run at a time (scheduler.py:102), no run takes back what an
\* earlier one saved: the token never moves back, and what is remembered is forgotten
\* only by a full store (booking_sync.py:134-141, 162, 210).
THEOREM CursorNeverLosesGround == ASSUME OneRun PROVE BookingSpec => CursorKeepsGround
<1> DEFINE IInv == BookingTypeOK /\ MatchInv /\ GroundInv
<1> DEFINE Kept == /\ cursor'.sync_token >= cursor.sync_token
                   /\ Remembered \subseteq Remembered' \/ Cardinality(Remembered') = MaxCursorEvents
<1>1. BookingInit => IInv
  BY BookingTypeInit, MatchInit, GroundInit
<1>2. IInv /\ [BookingNext]_vars => IInv'
  BY BookingTypeNext, MatchNext, GroundNext
<1>3. IInv /\ [BookingNext]_vars => [Kept]_vars
  <2> SUFFICES ASSUME IInv, [BookingNext]_vars PROVE Kept
    OBVIOUS
  <2>1. CASE cursor' = cursor
    BY <2>1 DEF BookingTypeOK, Cursor, Remembered
  <2>2. ASSUME cursor' # cursor, NEW r \in Runs, NEW reply \in DbReplies, SaveCursor(r, reply) PROVE Kept
    BY <2>2, SavedKeepsGround DEF GroundInv
  <2> QED
    BY <2>1, <2>2, CursorMoves
<1> QED
  BY <1>1, <1>2, <1>3, PTL DEF BookingSpec, CursorKeepsGround
==============================================================================
