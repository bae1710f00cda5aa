------------------------------ MODULE BookingSync ------------------------------
(***************************************************************************)
(* The booking job (tis/jobs/booking_sync.py) over the guarded Zoho        *)
(* workflow and the Calendar client (tis/integrations/google_calendar.py): *)
(* a run loads its cursor, asks page by page for what changed since, sends *)
(* every new Handoff Review through the guard (key = the event's id) and   *)
(* saves the cursor if nothing failed.                                     *)
(*                                                                         *)
(* The calendar is external: a revision number counts its edits, a sync    *)
(* token is the revision its listing began at, and 0 stands for no token   *)
(* (the first run, or a token that is gone).  A listing without a token    *)
(* asks for no event that ended before its window, the last lookback_days: *)
(* a start time stands for the end as well, and time moves the window.  A  *)
(* page shows its events as they are when it is asked for.                 *)
(***************************************************************************)
EXTENDS WriteGuard

CONSTANTS
  Starts,          \* start times of events
  Kinds,           \* what an event can look like, see Kind
  CalendarReplies, \* how a request for a page may end, see CalendarReply
  PageSizes,       \* events Google may put on a page: one number per behaviour
  MaxPages,        \* MAX_PAGES (10)
  MaxCursorEvents, \* MAX_CURSOR_EVENTS (500)
  Leaving,         \* bound: start times whose events leave the window in a behaviour
  MaxChanges,      \* bound: the last revision of the calendar, which begins at 1
  MaxCrashes       \* bound: process deaths in a behaviour

\* A booking that parses, a Handoff Review that does not, any other event.
Kind == {"review", "broken", "other"}
\* A full page, an empty one with more to come, the sync token is gone (410),
\* the access token is refused (401), anything else.
CalendarReply == {"page", "short", "gone", "refused", "failed"}
NoStart == 0

ASSUME StartAssumption == Starts \subseteq Nat \ {NoStart} /\ Leaving \subseteq Starts
ASSUME KindAssumption == Kinds \subseteq Kind /\ CalendarReplies \subseteq CalendarReply
ASSUME PageAssumption == PageSizes \subseteq Nat \ {0} /\ MaxPages \in Nat \ {0}
ASSUME CursorAssumption == MaxCursorEvents \in Nat /\ MaxChanges \in Nat \ {0} /\ MaxCrashes \in Nat

VARIABLES
  calendar,        \* the events as Google has them now
  revision,        \* counts the edits of the calendar
  time_min,        \* events that start by then are out of a window asked for now
  cursor,          \* integration_state[CURSOR_KEY]
  page_size,       \* events Google puts on a page
  step,            \* per run: where run() is
  listing,         \* per run: the listing under way, see Listing
  prior,           \* per run: the cursor it loaded
  events,          \* per run: the fetched events it has not dealt with
  fetched,         \* per run: what they looked like
  next_sync_token, \* per run
  fingerprints,    \* per run: the start times it would save
  failed,          \* per run: whether the counter is above zero
  left_out,        \* history: events a listing left out of its window, as they are now
  booked,          \* history: the start time each remote effect carried
  crashes          \* how many processes have died

calendarVars == <<calendar, revision, time_min, page_size>>
runVars      == <<listing, prior, fetched, next_sync_token>>
bookingVars  == <<calendarVars, runVars, cursor, step, events, fingerprints, failed, left_out, booked,
                  crashes>>
vars         == <<guardVars, bookingVars>>

StartTimes == Starts \cup {NoStart}
Event      == [status : {"absent", "confirmed", "cancelled"}, kind : Kind,
               start : StartTimes, changed : 0..MaxChanges]
Cursor     == [sync_token : 0..MaxChanges, events : [Keys -> StartTimes]]
NoEvent    == [status |-> "absent", kind |-> "other", start |-> NoStart, changed |-> 0]
NoEvents   == [k \in Keys |-> NoEvent]
NoCursor   == [sync_token |-> 0, events |-> [k \in Keys |-> NoStart]]
\* The sync token asked with, the pages seen, the events on later pages.
Listing      == [token : 0..MaxChanges, pages : 0..MaxPages, rest : SUBSET Keys]
NoListing    == [token |-> 0, pages |-> 0, rest |-> {}]
BookingSteps == {"waiting", "fetching", "refreshed", "choosing", "calling"}

BookingTypeOK ==
  /\ TypeOK
  /\ calendar \in [Keys -> Event] /\ revision \in 0..MaxChanges /\ page_size \in PageSizes
  /\ time_min \in StartTimes /\ left_out \in SUBSET Keys
  /\ listing \in [Runs -> Listing]
  /\ cursor \in Cursor
  /\ step \in [Runs -> BookingSteps]
  /\ prior \in [Runs -> Cursor]
  /\ events \in [Runs -> SUBSET Keys]
  /\ fetched \in [Runs -> [Keys -> Event]]
  /\ next_sync_token \in [Runs -> 0..MaxChanges]
  /\ fingerprints \in [Runs -> [Keys -> StartTimes]]
  /\ failed \in [Runs -> BOOLEAN]
  /\ booked \in [Keys -> StartTimes]
  /\ crashes \in 0..MaxCrashes

BookingInit ==
  /\ GuardInit
  /\ calendar = NoEvents /\ revision = 1 /\ time_min = NoStart /\ page_size \in PageSizes
  /\ left_out = {}
  /\ listing = [r \in Runs |-> NoListing]
  /\ cursor = NoCursor
  /\ step = [r \in Runs |-> "waiting"]
  /\ prior = [r \in Runs |-> NoCursor]
  /\ events = [r \in Runs |-> {}]
  /\ fetched = [r \in Runs |-> NoEvents]
  /\ next_sync_token = [r \in Runs |-> 0]
  /\ fingerprints = [r \in Runs |-> NoCursor.events]
  /\ failed = [r \in Runs |-> FALSE]
  /\ booked = [k \in Keys |-> NoStart]
  /\ crashes = 0

------------------------------------------------------------------------------
(* The calendar.                                                             *)

\* Somebody books, moves, retitles, cancels or restores event k.
EditEvent(k, status, kind, start) ==
  /\ revision < MaxChanges
  /\ calendar[k].status = "absent" => status = "confirmed"
  /\ revision' = revision + 1
  /\ calendar' = [calendar EXCEPT
       ![k] = [status |-> status, kind |-> kind, start |-> start, changed |-> revision']]
  /\ left_out' = left_out \ {k}
  /\ UNCHANGED <<guardVars, time_min, page_size, cursor, step, runVars, events, fingerprints, failed,
                 booked, crashes>>

Edit == \E k \in Keys, status \in {"confirmed", "cancelled"}, kind \in Kinds, start \in Starts :
          EditEvent(k, status, kind, start)

\* Everything changed since the token, cancelled events included.
ChangedSince(token) == {k \in Keys : calendar[k].changed > token}

\* Time passes, and takes events out of the window.
TimePasses ==
  /\ \E start \in Leaving : start > time_min /\ time_min' = start
  /\ UNCHANGED <<guardVars, calendar, revision, page_size, cursor, step, runVars, events, fingerprints,
                 failed, left_out, booked, crashes>>

OutOfWindow(k) == calendar[k].start <= time_min

------------------------------------------------------------------------------
(* One run.                                                                  *)

BookingGoto(r, to) == step' = [step EXCEPT ![r] = to]

\* The locals of a run that is over are forgotten.
EndRun(r) ==
  /\ BookingGoto(r, "waiting")
  /\ listing' = [listing EXCEPT ![r] = NoListing]
  /\ prior' = [prior EXCEPT ![r] = NoCursor]
  /\ events' = [events EXCEPT ![r] = {}]
  /\ fetched' = [fetched EXCEPT ![r] = NoEvents]
  /\ next_sync_token' = [next_sync_token EXCEPT ![r] = 0]
  /\ fingerprints' = [fingerprints EXCEPT ![r] = NoCursor.events]
  /\ failed' = [failed EXCEPT ![r] = FALSE]

\* The scheduler fires: a fresh WriteContext, then the stored cursor.  A run whose
\* read fails ends where it started.
LoadCursor(r) ==
  /\ step[r] = "waiting"
  /\ NewRun(r)
  /\ BookingGoto(r, "fetching")
  /\ prior' = [prior EXCEPT ![r] = cursor]
  /\ listing' = [listing EXCEPT ![r].token = cursor.sync_token]
  /\ fingerprints' = [fingerprints EXCEPT ![r] = cursor.events]
  /\ UNCHANGED <<calendarVars, cursor, events, fetched, next_sync_token, failed, left_out, booked, crashes>>

Asking(r, reply) == step[r] \in {"fetching", "refreshed"} /\ reply \in CalendarReplies

\* The events the listing has not come to: all of them before its first page.
ToCome(r) == IF listing[r].pages = 0 THEN ChangedSince(listing[r].token) ELSE listing[r].rest

\* Every request without a sync token carries a timeMin of its own.
Windowed(r) == IF listing[r].token = 0 THEN {k \in ToCome(r) : OutOfWindow(k)} ELSE {}

\* The events the listing has yet to show.
Unlisted(r) == ToCome(r) \ Windowed(r)

\* What a page holds: as many events as fit, or none although there are more.
PageOf(r, page, reply) ==
  /\ page \subseteq Unlisted(r)
  /\ Cardinality(page) = IF reply = "short" THEN 0
                         ELSE IF Cardinality(Unlisted(r)) < page_size THEN Cardinality(Unlisted(r))
                         ELSE page_size
  /\ reply = "short" => Unlisted(r) # {}

\* One page of the listing: its events join those of the pages before.
TakePage(r, page) ==
  /\ events' = [events EXCEPT ![r] = @ \cup page]
  /\ fetched' = [fetched EXCEPT ![r] = [k \in Keys |-> IF k \in page THEN calendar[k] ELSE @[k]]]
  /\ next_sync_token' = [next_sync_token EXCEPT ![r] = IF listing[r].pages = 0 THEN revision ELSE @]
  /\ left_out' = left_out \cup Windowed(r)

MorePages(r, page, reply) ==
  /\ Asking(r, reply) /\ reply \in {"page", "short"} /\ PageOf(r, page, reply)
  /\ page # Unlisted(r) /\ listing[r].pages + 1 < MaxPages
  /\ TakePage(r, page)
  /\ BookingGoto(r, "fetching")
  /\ listing' = [listing EXCEPT ![r].pages = @ + 1, ![r].rest = Unlisted(r) \ page]
  /\ UNCHANGED <<guardVars, calendarVars, cursor, prior, fingerprints, failed, booked, crashes>>

LastPage(r, page, reply) ==
  /\ Asking(r, reply) /\ reply = "page" /\ PageOf(r, page, reply)
  /\ page = Unlisted(r)
  /\ TakePage(r, page)
  /\ BookingGoto(r, "choosing")
  /\ listing' = [listing EXCEPT ![r] = NoListing]
  /\ UNCHANGED <<guardVars, calendarVars, cursor, prior, fingerprints, failed, booked, crashes>>

\* Planted fault: a sync token Google no longer knows takes the stored cursor with it.
TokenGone_WipesCursor(r) ==
  /\ Asking(r, "gone") /\ listing[r].token # 0
  /\ BookingGoto(r, "fetching")
  /\ listing' = [listing EXCEPT ![r] = NoListing]
  /\ events' = [events EXCEPT ![r] = {}]
  /\ fetched' = [fetched EXCEPT ![r] = NoEvents]
  /\ next_sync_token' = [next_sync_token EXCEPT ![r] = 0]
  /\ cursor' = NoCursor
  /\ UNCHANGED <<guardVars, calendarVars, prior, fingerprints, failed, left_out, booked, crashes>>

\* A sync token Google no longer knows is dropped, with what was listed under it,
\* for one full listing.
TokenGone(r) ==
  /\ Asking(r, "gone") /\ listing[r].token # 0
  /\ BookingGoto(r, "fetching")
  /\ listing' = [listing EXCEPT ![r] = NoListing]
  /\ events' = [events EXCEPT ![r] = {}]
  /\ fetched' = [fetched EXCEPT ![r] = NoEvents]
  /\ next_sync_token' = [next_sync_token EXCEPT ![r] = 0]
  /\ UNCHANGED <<guardVars, calendarVars, cursor, prior, fingerprints, failed, left_out, booked, crashes>>

\* The access token is exchanged for a new one, once per page.
TokenRefused(r) ==
  /\ Asking(r, "refused") /\ step[r] = "fetching"
  /\ BookingGoto(r, "refreshed")
  /\ UNCHANGED <<guardVars, calendarVars, runVars, cursor, events, fingerprints, failed, left_out, booked, crashes>>

\* A page is wanted beyond the last one.
PastTheLimit(r, reply) ==
  \E page \in SUBSET Keys : /\ Asking(r, reply) /\ reply \in {"page", "short"}
                            /\ PageOf(r, page, reply)
                            /\ page # Unlisted(r) /\ listing[r].pages + 1 = MaxPages

\* Too many pages, a refused token just exchanged, any other reply, a full listing
\* that is gone among them: the run raises.
FetchFails(r) ==
  /\ \/ Asking(r, "failed")
     \/ Asking(r, "refused") /\ step[r] = "refreshed"
     \/ \E reply \in CalendarReplies : PastTheLimit(r, reply)
  /\ EndRun(r)
  /\ UNCHANGED <<guardVars, calendarVars, cursor, left_out, booked, crashes>>

FetchStep(r) ==
  \/ \E page \in SUBSET Keys, reply \in CalendarReplies : MorePages(r, page, reply) \/ LastPage(r, page, reply)
  \/ TokenGone(r) \/ TokenRefused(r) \/ FetchFails(r)

\* Planted fault: a known event is ignored whatever its start says.
Classify_MissesReschedule(r, k) ==
  LET event == fetched[r][k]  known == prior[r].events[k] # NoStart IN
  CASE event.status = "cancelled" -> IF known THEN "cancelled" ELSE "ignore"
    [] event.status # "cancelled" /\ (event.kind = "other" \/ known) -> "ignore"
    [] OTHER -> "new"

\* _classify, against the cursor the run loaded.
Classify(r, k) ==
  LET event == fetched[r][k]  known == prior[r].events[k] # NoStart IN
  CASE event.status = "cancelled" -> IF known THEN "cancelled" ELSE "ignore"
    [] event.status # "cancelled" /\ event.kind = "other" -> "ignore"
    [] event.status # "cancelled" /\ event.kind # "other" /\ known ->
         IF prior[r].events[k] = event.start THEN "ignore" ELSE "rescheduled"
    [] OTHER -> "new"

Done(r, k) == events' = [events EXCEPT ![r] = @ \ {k}]

IgnoreEvent(r, k) ==
  /\ step[r] = "choosing" /\ k \in events[r]
  /\ Classify(r, k) = "ignore"
  /\ Done(r, k)
  /\ UNCHANGED <<guardVars, calendarVars, cursor, step, runVars, fingerprints, failed, left_out, booked, crashes>>

\* Planted fault: the first event that cannot be written ends the run.
RejectEvent_Aborts(r, k) ==
  /\ step[r] = "choosing" /\ k \in events[r]
  /\ \/ Classify(r, k) \in {"rescheduled", "cancelled"}
     \/ Classify(r, k) = "new" /\ fetched[r][k].kind = "broken"
  /\ EndRun(r)
  /\ UNCHANGED <<guardVars, calendarVars, cursor, left_out, booked, crashes>>

\* A change of a booking already made is not written, and an event that does
\* not parse cannot be; either is counted as failed.
RejectEvent(r, k) ==
  /\ step[r] = "choosing" /\ k \in events[r]
  /\ \/ Classify(r, k) \in {"rescheduled", "cancelled"}
     \/ Classify(r, k) = "new" /\ fetched[r][k].kind = "broken"
  /\ Done(r, k)
  /\ failed' = [failed EXCEPT ![r] = TRUE]
  /\ UNCHANGED <<guardVars, calendarVars, cursor, step, runVars, fingerprints, left_out, booked, crashes>>

SyncBooking(r, k) ==
  /\ step[r] = "choosing" /\ k \in events[r]
  /\ Classify(r, k) = "new" /\ fetched[r][k].kind # "broken"
  /\ Call(r, k)
  /\ BookingGoto(r, "calling")
  /\ UNCHANGED <<calendarVars, cursor, runVars, events, fingerprints, failed, left_out, booked, crashes>>

Answered(r, outcomes) == step[r] = "calling" /\ pc[r] = "returned" /\ outcome[r] \in outcomes

NextEvent(r) == BookingGoto(r, "choosing") /\ Done(r, external_id[r])

\* Planted fault: the fingerprint is kept in another time zone.
BookingKnown_ShiftsZone(r) ==
  LET k == external_id[r] IN
  /\ Answered(r, {"value", "DuplicateWrite"})
  /\ NextEvent(r)
  /\ fingerprints' = [fingerprints EXCEPT ![r][k] = fetched[r][k].start + 2]
  /\ UNCHANGED <<guardVars, calendarVars, cursor, runVars, failed, left_out, booked, crashes>>

\* Written now, or taken to have been written before: the run's fingerprint.
BookingKnown(r) ==
  LET k == external_id[r] IN
  /\ Answered(r, {"value", "DuplicateWrite"})
  /\ NextEvent(r)
  /\ fingerprints' = [fingerprints EXCEPT ![r][k] = fetched[r][k].start]
  /\ UNCHANGED <<guardVars, calendarVars, cursor, runVars, failed, left_out, booked, crashes>>

BookingDry(r) ==
  /\ Answered(r, {"dry_run"})
  /\ NextEvent(r)
  /\ UNCHANGED <<guardVars, calendarVars, cursor, runVars, fingerprints, failed, left_out, booked, crashes>>

\* Planted fault: a booking that raised does not hold the cursor back.
BookingFailed_Uncounted(r) ==
  /\ Answered(r, {"KillSwitchOn", "BudgetExceeded", "Exception"})
  /\ NextEvent(r)
  /\ UNCHANGED <<guardVars, calendarVars, cursor, runVars, fingerprints, failed, left_out, booked, crashes>>

BookingFailed(r) ==
  /\ Answered(r, {"KillSwitchOn", "BudgetExceeded", "Exception"})
  /\ NextEvent(r)
  /\ failed' = [failed EXCEPT ![r] = TRUE]
  /\ UNCHANGED <<guardVars, calendarVars, cursor, runVars, fingerprints, left_out, booked, crashes>>

\* _bounded_fingerprints: the latest start times stay.
Bounded(starts, kept) ==
  LET known == {k \in Keys : starts[k] # NoStart} IN
  /\ kept \subseteq known
  /\ Cardinality(kept) = IF Cardinality(known) < MaxCursorEvents
                         THEN Cardinality(known) ELSE MaxCursorEvents
  /\ \A k \in kept, l \in known \ kept : starts[l] <= starts[k]

\* The statement may fail or its reply be lost; then the run raises.
SaveCursor(r, reply) ==
  /\ step[r] = "choosing" /\ events[r] = {}
  /\ ~failed[r] /\ ~dry_run[r]
  /\ \E kept \in SUBSET Keys :
       /\ Bounded(fingerprints[r], kept)
       /\ cursor' = IF reply = "failed" THEN cursor
                    ELSE [sync_token |-> next_sync_token[r],
                          events |-> [k \in Keys |-> IF k \in kept THEN fingerprints[r][k] ELSE NoStart]]
  /\ EndRun(r)
  /\ UNCHANGED <<guardVars, calendarVars, left_out, booked, crashes>>

KeepCursor(r) ==
  /\ step[r] = "choosing" /\ events[r] = {}
  /\ failed[r] \/ dry_run[r]
  /\ EndRun(r)
  /\ UNCHANGED <<guardVars, calendarVars, cursor, left_out, booked, crashes>>

\* A step of the guarded workflow; its effect carries the start time it was given.
GuardStep(r) ==
  LET k == external_id[r] IN
  /\ step[r] = "calling"
  /\ CallStep(r)
  /\ booked' = IF applied'[k] = applied[k] THEN booked ELSE [booked EXCEPT ![k] = fetched[r][k].start]
  /\ UNCHANGED <<calendarVars, cursor, step, runVars, events, fingerprints, failed, left_out, crashes>>

\* The process dies; a later run starts from the tables alone.
JobCrash(r) ==
  /\ step[r] # "waiting"
  /\ crashes < MaxCrashes
  /\ crashes' = crashes + 1
  /\ Crash(r) \/ NewRun(r)
  /\ EndRun(r)
  /\ UNCHANGED <<calendarVars, cursor, left_out, booked>>

JobStep(r) ==
  \/ LoadCursor(r) \/ FetchStep(r)
  \/ \E k \in events[r] : IgnoreEvent(r, k) \/ RejectEvent(r, k) \/ SyncBooking(r, k)
  \/ GuardStep(r) \/ BookingKnown(r) \/ BookingDry(r) \/ BookingFailed(r)
  \/ KeepCursor(r) \/ \E reply \in DbReplies : SaveCursor(r, reply)

BookingNext ==
  \/ \E r \in Runs : JobStep(r) \/ JobCrash(r)
  \/ Edit \/ TimePasses
  \/ Environment /\ UNCHANGED bookingVars

BookingSpec == BookingInit /\ [][BookingNext]_vars

\* The interval trigger keeps firing, statements and requests end (bounded
\* timeouts), so a run that can step steps.  Everything else owes nothing.
BookingFairSpec == BookingSpec /\ \A r \in Runs : WF_vars(JobStep(r))

------------------------------------------------------------------------------
IsBooking(k) == calendar[k].status = "confirmed" /\ calendar[k].kind = "review"

\* The cursor has moved past the latest edit of event k.
Passed(k) == calendar[k].changed \in 1..cursor.sync_token

\* The cursor moves past a booking only when it was written, when a claim of
\* it was left behind (a crash or a lost reply: the next run calls it a
\* duplicate), when a refusal overwrote the row of one of the two, or when a
\* listing without a token left it out because it had ended before the window:
\* a booking the job could not write in time.
CursorCoversBookings ==
  \A k \in Keys \ left_out : Passed(k) /\ IsBooking(k) =>
    applied[k] >= 1 \/ integration_log[k].pending \/ k \in overwritten

\* What the cursor remembers of the events it has passed is what the calendar
\* says of them, unless the bound evicted it or the window left it out: a reschedule
\* or a cancellation that is listed holds the cursor (booking_sync.py:101-104).
CursorMatchesCalendar ==
  \A k \in Keys \ left_out : Passed(k) =>
    /\ calendar[k].status = "cancelled" => cursor.events[k] = NoStart
    /\ IsBooking(k) => cursor.events[k] \in {calendar[k].start, NoStart}

\* No run takes back what an earlier one saved: the sync token never moves back,
\* not even after a full listing (booking_sync.py:162), and a booking once remembered
\* is forgotten only by a store that is full (booking_sync.py:210).
Remembered == {k \in Keys : cursor.events[k] # NoStart}

CursorKeepsGround ==
  [][/\ cursor'.sync_token >= cursor.sync_token
     /\ Remembered \subseteq Remembered' \/ Cardinality(Remembered') = MaxCursorEvents]_vars

\* An event that never parses, or a deferred change, keeps the cursor where it
\* is for good, and a token that has expired meanwhile is asked with, and answered
\* by a full listing, in every run; a booking that stays in the calendar is claimed
\* all the same, unless time takes it out of the window of such a listing first, and
\* as long as the events fit the pages of one listing.
ListingFits == Cardinality(ChangedSince(0)) <= page_size * MaxPages

BookingsClaimed ==
  \A k \in Keys : <>[](IsBooking(k) /\ ListingFits) => <>(integration_log[k].pending \/ k \in left_out)

\* docs/pr-notes/M3.md:15: "Reschedules and cancellations are detected but
\* deliberately deferred with no cursor advance".  So a booking the cursor has
\* passed is in Zoho with the start time the calendar has.
PassedBookingsCurrent ==
  \A k \in Keys : Passed(k) /\ IsBooking(k) /\ applied[k] >= 1 => booked[k] = calendar[k].start
==============================================================================
