------------------------------ MODULE ZohoBooking ------------------------------
(***************************************************************************)
(* The Zoho adapter (tis/integrations/zoho.py): calls of sync_booking, a   *)
(* sequence of HTTP requests each, and of upsert_lead, one request each,   *)
(* run side by side over one access token that ZohoAuth caches behind a    *)
(* lock.                                                                   *)
(*                                                                         *)
(* The guard runs one call per key at a time and lets a failed one be      *)
(* repeated; so a call here is idle or under way, again and again.  The    *)
(* CRM is external: one record per attendee, found first among Contacts,   *)
(* then among Leads, that people may create and convert meanwhile.  The    *)
(* HTTP client repeats a broken GET or PUT by itself; that is one send.    *)
(***************************************************************************)
EXTENDS Integers

CONSTANTS
  Bookings,  \* the bookings, one call of sync_booking at a time each
  Leads,     \* the leads, one call of upsert_lead at a time each
  NoOne,     \* the holder of a free lock
  Attempts,  \* sends of one request (3)
  MaxCopies  \* bound: notes, and tasks, of a booking

ASSUME CallAssumption == Bookings \cap Leads = {} /\ NoOne \notin Bookings \cup Leads
ASSUME AttemptAssumption == Attempts \in Nat \ {0}
ASSUME ZohoBoundAssumption == MaxCopies \in Nat

Tokens   == {"none", "accepted", "refused"} \* a token is what Zoho makes of it
Calls    == Bookings \cup Leads
Modules  == {"none", "Leads", "Contacts"}
Requests == {"search_contacts", "search_leads", "upsert_lead", "read_notes", "read_tasks",
             "update", "create_note", "create_task"}
Phases   == {"idle", "token", "refreshing", "sending"}

VARIABLES
  cached,      \* ZohoAuth._cached: the token
  fresh,       \* whether its local expiry lies ahead
  lock,        \* who holds ZohoAuth._lock
  phase,       \* per call: what it awaits
  request,     \* per call: the request it is in
  force,       \* per call: whether it asks for a forced refresh
  token,       \* per call: the token it sends
  attempt,     \* per call: sends of this request so far
  refreshed,   \* per call: whether this request has refreshed
  match,       \* per call: the module of the record found
  note_exists, \* per call: what the marker reads answered
  task_exists,
  returned,    \* whether the last call has returned a value
  record,      \* the CRM: where the attendee's record is
  stamped,     \* the CRM: whether it carries the booking's time
  notes,       \* the CRM: notes with the booking's marker
  tasks,       \* the CRM: tasks with the booking's marker
  resent       \* history: bookings with a creation re-sent after it had happened

tokenVars == <<cached, fresh, lock>>
callVars  == <<match, note_exists, task_exists>>
crmVars   == <<record, stamped, notes, tasks, resent>>
sendVars  == <<phase, request, force, token, attempt, refreshed>>
vars      == <<tokenVars, sendVars, callVars, returned, crmVars>>

TypeOK ==
  /\ cached \in Tokens /\ fresh \in BOOLEAN /\ lock \in Calls \cup {NoOne}
  /\ phase \in [Calls -> Phases] /\ request \in [Calls -> Requests]
  /\ force \in [Calls -> BOOLEAN] /\ token \in [Calls -> Tokens]
  /\ attempt \in [Calls -> 0..Attempts - 1] /\ refreshed \in [Calls -> BOOLEAN]
  /\ match \in [Bookings -> Modules]
  /\ note_exists \in [Bookings -> BOOLEAN] /\ task_exists \in [Bookings -> BOOLEAN]
  /\ returned \in [Bookings -> BOOLEAN]
  /\ record \in [Bookings -> Modules] /\ stamped \in [Bookings -> BOOLEAN]
  /\ notes \in [Bookings -> 0..MaxCopies] /\ tasks \in [Bookings -> 0..MaxCopies]
  /\ resent \in SUBSET Bookings

FirstRequest(b) == IF b \in Leads THEN "upsert_lead" ELSE "search_contacts"

Init ==
  /\ cached = "none" /\ fresh = FALSE /\ lock = NoOne
  /\ phase = [b \in Calls |-> "idle"] /\ request = [b \in Calls |-> FirstRequest(b)]
  /\ force = [b \in Calls |-> FALSE] /\ refreshed = [b \in Calls |-> FALSE]
  /\ token = [b \in Calls |-> "none"] /\ attempt = [b \in Calls |-> 0]
  /\ match = [b \in Bookings |-> "none"] /\ returned = [b \in Bookings |-> FALSE]
  /\ note_exists = [b \in Bookings |-> FALSE] /\ task_exists = [b \in Bookings |-> FALSE]
  /\ record \in [Bookings -> Modules] /\ stamped = [b \in Bookings |-> FALSE]
  /\ notes = [b \in Bookings |-> 0] /\ tasks = [b \in Bookings |-> 0]
  /\ resent = {}

------------------------------------------------------------------------------
(* One request: a token, then up to Attempts sends.                          *)

\* The next request of a call starts by asking for the token.
Begin(b, next) ==
  /\ request' = [request EXCEPT ![b] = next]
  /\ phase' = [phase EXCEPT ![b] = "token"]
  /\ force' = [force EXCEPT ![b] = FALSE]
  /\ attempt' = [attempt EXCEPT ![b] = 0]
  /\ refreshed' = [refreshed EXCEPT ![b] = FALSE]
  /\ token' = [token EXCEPT ![b] = "none"]
  /\ UNCHANGED returned

Continue(b, next) == Begin(b, next) /\ UNCHANGED callVars

\* The variables of sync_booking alone; a call of upsert_lead has none of them.
Having(f, b, v) == [c \in Bookings |-> IF c = b THEN v ELSE f[c]]

\* The call ends; its locals are forgotten, but for the record it answers with.
Return(b, what) ==
  /\ phase' = [phase EXCEPT ![b] = "idle"]
  /\ request' = [request EXCEPT ![b] = FirstRequest(b)]
  /\ force' = [force EXCEPT ![b] = FALSE]
  /\ token' = [token EXCEPT ![b] = "none"]
  /\ attempt' = [attempt EXCEPT ![b] = 0]
  /\ refreshed' = [refreshed EXCEPT ![b] = FALSE]
  /\ returned' = Having(returned, b, what = "value")
  /\ match' = IF what = "value" THEN match ELSE Having(match, b, "none")
  /\ note_exists' = Having(note_exists, b, FALSE)
  /\ task_exists' = Having(task_exists, b, FALSE)

StartCall(b) ==
  /\ phase[b] = "idle"
  /\ phase' = [phase EXCEPT ![b] = "token"]
  /\ returned' = Having(returned, b, FALSE)
  /\ match' = Having(match, b, "none")
  /\ UNCHANGED <<tokenVars, request, force, token, attempt, refreshed, note_exists, task_exists,
                 crmVars>>

Usable == cached # "none" /\ fresh

\* auth.token: everybody goes through the lock, the cached token included.
TakeCached(b) ==
  /\ phase[b] = "token" /\ lock = NoOne
  /\ ~force[b] /\ Usable
  /\ token' = [token EXCEPT ![b] = cached]
  /\ phase' = [phase EXCEPT ![b] = "sending"]
  /\ UNCHANGED <<tokenVars, request, force, attempt, refreshed, callVars, returned, crmVars>>

StartRefresh(b) ==
  /\ phase[b] = "token" /\ lock = NoOne
  /\ force[b] \/ ~Usable
  /\ lock' = b
  /\ phase' = [phase EXCEPT ![b] = "refreshing"]
  /\ UNCHANGED <<cached, fresh, request, force, token, attempt, refreshed, callVars, returned, crmVars>>

\* Planted fault: the loop goes on as long as there is a new token.
RefreshDone_LoopsOn(b) ==
  /\ phase[b] = "refreshing"
  /\ cached' = "accepted" /\ fresh' = TRUE /\ lock' = NoOne
  /\ token' = [token EXCEPT ![b] = "accepted"]
  /\ phase' = [phase EXCEPT ![b] = "sending"]
  /\ attempt' = IF force[b] THEN [attempt EXCEPT ![b] = @ + 1] ELSE attempt
  /\ force' = [force EXCEPT ![b] = FALSE]
  /\ UNCHANGED <<request, refreshed, returned, callVars, crmVars>>

\* A forced refresh is part of an attempt: the loop goes on to the next one, and
\* ends in an error when this was the last.
RefreshDone(b) ==
  /\ phase[b] = "refreshing"
  /\ cached' = "accepted" /\ fresh' = TRUE /\ lock' = NoOne
  /\ IF force[b] /\ attempt[b] = Attempts - 1
     THEN Return(b, "Exception")
     ELSE /\ token' = [token EXCEPT ![b] = "accepted"]
          /\ phase' = [phase EXCEPT ![b] = "sending"]
          /\ attempt' = IF force[b] THEN [attempt EXCEPT ![b] = @ + 1] ELSE attempt
          /\ force' = [force EXCEPT ![b] = FALSE]
          /\ UNCHANGED <<request, refreshed, callVars, returned>>
  /\ UNCHANGED crmVars

\* Planted fault: the lock is released on the way of success only.
RefreshFails_KeepsLock(b) ==
  /\ phase[b] = "refreshing"
  /\ Return(b, "Exception")
  /\ UNCHANGED <<tokenVars, crmVars>>

RefreshFails(b) ==
  /\ phase[b] = "refreshing"
  /\ lock' = NoOne
  /\ Return(b, "Exception")
  /\ UNCHANGED <<cached, fresh, crmVars>>

\* Zoho refuses the token: one forced refresh per request.
Unauthorized(b) ==
  /\ phase[b] = "sending" /\ token[b] = "refused"
  /\ IF refreshed[b]
     THEN Return(b, "Exception")
     ELSE /\ refreshed' = [refreshed EXCEPT ![b] = TRUE]
          /\ force' = [force EXCEPT ![b] = TRUE]
          /\ phase' = [phase EXCEPT ![b] = "token"]
          /\ token' = [token EXCEPT ![b] = "none"]
          /\ UNCHANGED <<request, attempt, callVars, returned>>
  /\ UNCHANGED <<tokenVars, crmVars>>

\* The request can be carried out: nobody has converted its record meanwhile.
Accepted(b) ==
  /\ phase[b] = "sending" /\ token[b] = "accepted"
  /\ request[b] \in {"read_notes", "read_tasks", "update", "create_note", "create_task"}
       => record[b] = match[b]

Creates(b) == b \in Bookings /\ request[b] \in {"create_note", "create_task"}

\* What a request does to the CRM.  An upsert beside a contact adds a second
\* record, which the searches never prefer; the records of leads are left out.
Effect(b) ==
  /\ record' = IF request[b] = "upsert_lead" /\ b \in Bookings /\ record[b] = "none"
               THEN [record EXCEPT ![b] = "Leads"] ELSE record
  /\ stamped' = IF request[b] \in {"upsert_lead", "update"}
                THEN Having(stamped, b, TRUE) ELSE stamped
  /\ request[b] = "create_note" => notes[b] < MaxCopies
  /\ request[b] = "create_task" => tasks[b] < MaxCopies
  /\ notes' = IF request[b] = "create_note" THEN [notes EXCEPT ![b] = @ + 1] ELSE notes
  /\ tasks' = IF request[b] = "create_task" THEN [tasks EXCEPT ![b] = @ + 1] ELSE tasks

\* Throttled or a server error, before the request took effect or after it.
Busy(b, after) ==
  /\ phase[b] = "sending"
  /\ IF after THEN Accepted(b) /\ Effect(b) ELSE UNCHANGED <<record, stamped, notes, tasks>>
  /\ IF attempt[b] = Attempts - 1
     THEN Return(b, "Exception") /\ UNCHANGED resent
     ELSE /\ attempt' = [attempt EXCEPT ![b] = @ + 1]
          /\ resent' = IF after /\ Creates(b) THEN resent \cup {b} ELSE resent
          /\ UNCHANGED <<phase, request, force, token, refreshed, callVars, returned>>
  /\ UNCHANGED tokenVars

\* The connection breaks or the answer does not parse, before the effect or after it.
Breaks(b, after) ==
  /\ phase[b] = "sending"
  /\ IF after THEN Accepted(b) /\ Effect(b) ELSE UNCHANGED <<record, stamped, notes, tasks>>
  /\ Return(b, "Exception")
  /\ UNCHANGED <<tokenVars, resent>>

------------------------------------------------------------------------------
(* The answers, and what sync_booking does next.                             *)

Succeeds(b, which) ==
  Accepted(b) /\ request[b] = which /\ Effect(b) /\ UNCHANGED <<tokenVars, resent>>

Found(b, module) ==
  /\ match' = [match EXCEPT ![b] = module]
  /\ Begin(b, "read_notes")
  /\ UNCHANGED <<note_exists, task_exists>>

ContactsSearched(b) ==
  /\ Succeeds(b, "search_contacts")
  /\ IF record[b] = "Contacts" THEN Found(b, "Contacts") ELSE Continue(b, "search_leads")

LeadsSearched(b) ==
  /\ Succeeds(b, "search_leads")
  /\ IF record[b] = "Leads" THEN Found(b, "Leads") ELSE Continue(b, "upsert_lead")

LeadUpserted(b) == Succeeds(b, "upsert_lead") /\ Return(b, "value")

\* Planted fault: the notes are not looked at.
NotesRead_NotLooking(b) ==
  /\ Succeeds(b, "read_notes")
  /\ Continue(b, "read_tasks")

NotesRead(b) ==
  /\ Succeeds(b, "read_notes")
  /\ note_exists' = [note_exists EXCEPT ![b] = notes[b] > 0]
  /\ Begin(b, "read_tasks")
  /\ UNCHANGED <<match, task_exists>>

TasksRead(b) ==
  /\ Succeeds(b, "read_tasks")
  /\ task_exists' = [task_exists EXCEPT ![b] = tasks[b] > 0]
  /\ Begin(b, "update")
  /\ UNCHANGED <<match, note_exists>>

\* Planted fault: a note is taken to imply the task.
Updated_NoteImpliesTask(b) ==
  /\ Succeeds(b, "update")
  /\ IF ~note_exists[b] THEN Continue(b, "create_note") ELSE Return(b, "value")

Updated(b) ==
  /\ Succeeds(b, "update")
  /\ \/ ~note_exists[b] /\ Continue(b, "create_note")
     \/ note_exists[b] /\ ~task_exists[b] /\ Continue(b, "create_task")
     \/ note_exists[b] /\ task_exists[b] /\ Return(b, "value")

NoteCreated(b) ==
  /\ Succeeds(b, "create_note")
  /\ IF task_exists[b] THEN Return(b, "value") ELSE Continue(b, "create_task")

TaskCreated(b) == Succeeds(b, "create_task") /\ Return(b, "value")

Answered(b) ==
  \/ ContactsSearched(b) \/ LeadsSearched(b) \/ LeadUpserted(b) \/ NotesRead(b)
  \/ TasksRead(b) \/ Updated(b) \/ NoteCreated(b) \/ TaskCreated(b)

------------------------------------------------------------------------------
(* What happens around the calls.                                            *)

\* The clock reaches the local expiry, five minutes early.
TokenAges == fresh /\ fresh' = FALSE /\ UNCHANGED <<cached, lock, token>>

\* Zoho stops accepting a token, expired or revoked; where a call and the cache hold
\* the same token they find out one after the other.
TokenExpires ==
  \/ cached = "accepted" /\ cached' = "refused" /\ UNCHANGED <<fresh, lock, token>>
  \/ \E b \in Calls : /\ token[b] = "accepted" /\ token' = [token EXCEPT ![b] = "refused"]
                      /\ UNCHANGED <<cached, fresh, lock>>

\* Somebody enters the attendee, or converts the lead with its notes and tasks.
RecordMoves ==
  \E b \in Bookings :
    \/ record[b] = "none" /\ \E m \in {"Leads", "Contacts"} : record' = [record EXCEPT ![b] = m]
    \/ record[b] = "Leads" /\ record' = [record EXCEPT ![b] = "Contacts"]

Outside ==
  \/ /\ TokenAges \/ TokenExpires
     /\ UNCHANGED <<phase, request, force, attempt, refreshed, callVars, returned, crmVars>>
  \/ /\ RecordMoves
     /\ UNCHANGED <<tokenVars, sendVars, callVars, returned, stamped, notes, tasks, resent>>

TokenStep(b) == TakeCached(b) \/ StartRefresh(b)

CallStep(b) ==
  \/ RefreshDone(b) \/ RefreshFails(b) \/ Unauthorized(b) \/ Answered(b)
  \/ \E after \in BOOLEAN : Busy(b, after) \/ Breaks(b, after)

Next ==
  \/ \E b \in Calls : StartCall(b) \/ TokenStep(b) \/ CallStep(b)
  \/ Outside

Spec == Init /\ [][Next]_vars

\* Requests end within their timeouts, and asyncio.Lock serves its waiters in
\* order, so nobody who waits for a token is passed over for ever.
FairSpec == Spec /\ \A b \in Calls : WF_vars(CallStep(b)) /\ SF_vars(TokenStep(b))

------------------------------------------------------------------------------
\* However often a workflow fails half way and is repeated, a booking has one
\* note and one task, save where Zoho answered a creation with an error after
\* carrying it out and the request loop sent it again (zoho.py:229-231, 362-366).
ArtifactsOnce == \A b \in Bookings \ resent : notes[b] <= 1 /\ tasks[b] <= 1

\* A call that returns a value leaves nothing out, whichever attempt, of this call
\* or an earlier one, did each part; a lead it created itself carries the time and
\* needs neither note nor task (zoho.py:222, 286).
ValueMeansComplete ==
  \A b \in Bookings : returned[b] =>
    /\ record[b] # "none" /\ stamped[b]
    /\ match[b] # "none" => notes[b] >= 1 /\ tasks[b] >= 1

\* Every call ends: neither the token lock, nor refresh upon refresh, nor the
\* request loop keeps it (zoho.py:114, 347).
CallsEnd == \A b \in Calls : phase[b] # "idle" ~> phase[b] = "idle"
==============================================================================
