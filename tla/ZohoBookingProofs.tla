-------------------------- MODULE ZohoBookingProofs --------------------------
(***************************************************************************)
(* Proofs about ZohoBooking, for any bookings, leads and number of sends.  *)
(***************************************************************************)
EXTENDS ZohoBooking, TLAPS

\* The requests a call makes of the record it has found.
WithRecord == {"read_notes", "read_tasks", "update", "create_note", "create_task"}

\* What the locals of a call say of the CRM: it found what it says it found, it
\* writes the time before the note and the note before the task.
Faithful(b) ==
  /\ match[b] # "none" => record[b] # "none"
  /\ request[b] \in WithRecord => match[b] # "none" /\ phase[b] # "idle"
  /\ phase[b] # "idle" /\ request[b] \notin WithRecord => match[b] = "none"
  /\ note_exists[b] => notes[b] >= 1
  /\ task_exists[b] => tasks[b] >= 1
  /\ request[b] \in {"create_note", "create_task"} => stamped[b]
  /\ request[b] = "create_task" => notes[b] >= 1

\* As long as no creation was sent again, a call that is about to create a note or a
\* task, or will be, has reason to.
Needed(b) ==
  b \notin resent =>
    /\ notes[b] <= 1 /\ tasks[b] <= 1
    /\ request[b] \in {"read_tasks", "update"} /\ ~note_exists[b] => notes[b] = 0
    /\ request[b] = "create_note" => notes[b] = 0
    /\ request[b] \in {"update", "create_note"} /\ ~task_exists[b] => tasks[b] = 0
    /\ request[b] = "create_task" => tasks[b] = 0

\* A value is the answer of a call that has ended, and stands for the whole of it.
Complete(b) ==
  returned[b] => /\ phase[b] = "idle"
                 /\ record[b] # "none" /\ stamped[b]
                 /\ match[b] # "none" => notes[b] >= 1 /\ tasks[b] >= 1

Sound(b) == Faithful(b) /\ Needed(b) /\ Complete(b)

IInv == TypeOK /\ \A b \in Bookings : Sound(b)

------------------------------------------------------------------------------
(* Types.                                                                    *)

TokenTypes == cached \in Tokens /\ fresh \in BOOLEAN /\ lock \in Calls \cup {NoOne}

CallTypes ==
  /\ phase \in [Calls -> Phases] /\ request \in [Calls -> Requests]
  /\ force \in [Calls -> BOOLEAN] /\ token \in [Calls -> Tokens]
  /\ attempt \in [Calls -> 0..Attempts - 1] /\ refreshed \in [Calls -> BOOLEAN]

LocalTypes ==
  /\ match \in [Bookings -> Modules]
  /\ note_exists \in [Bookings -> BOOLEAN] /\ task_exists \in [Bookings -> BOOLEAN]

CrmTypes ==
  /\ record \in [Bookings -> Modules] /\ stamped \in [Bookings -> BOOLEAN]
  /\ notes \in [Bookings -> 0..MaxCopies] /\ tasks \in [Bookings -> 0..MaxCopies]

\* TypeOK in its parts.
LEMMA TypeParts ==
  TypeOK <=> /\ TokenTypes /\ CallTypes /\ LocalTypes /\ CrmTypes
             /\ returned \in [Bookings -> BOOLEAN] /\ resent \in SUBSET Bookings
  BY DEF TypeOK, TokenTypes, CallTypes, LocalTypes, CrmTypes

\* The primed form of the same.
LEMMA TypePartsPrimed ==
  ASSUME TokenTypes', CallTypes', LocalTypes', CrmTypes',
         returned' \in [Bookings -> BOOLEAN], resent' \in SUBSET Bookings
  PROVE  TypeOK'
  BY DEF TypeOK, TokenTypes, CallTypes, LocalTypes, CrmTypes

\* The end of a call leaves its variables well typed.
LEMMA ReturnTypes ==
  ASSUME TypeOK, NEW b \in Calls, NEW what, Return(b, what)
  PROVE  CallTypes' /\ LocalTypes' /\ returned' \in [Bookings -> BOOLEAN]
  <1>1. CallTypes'
    BY AttemptAssumption DEF TypeOK, CallTypes, Return, FirstRequest, Phases, Requests, Tokens
  <1>2. LocalTypes'
    BY DEF TypeOK, LocalTypes, Return, Having, Modules
  <1>3. returned' \in [Bookings -> BOOLEAN]
    BY DEF TypeOK, Return, Having
  <1> QED BY <1>1, <1>2, <1>3

\* So does the beginning of a request.
LEMMA BeginTypes ==
  ASSUME TypeOK, NEW b \in Calls, NEW next \in Requests, Begin(b, next)
  PROVE  CallTypes' /\ returned' \in [Bookings -> BOOLEAN]
  BY AttemptAssumption DEF TypeOK, CallTypes, Begin, Phases, Tokens

\* What a request does to the CRM keeps the CRM well typed.
LEMMA EffectTypes ==
  ASSUME TypeOK, NEW b \in Calls, Effect(b)
  PROVE  CrmTypes'
  <1>1. record' \in [Bookings -> Modules] /\ stamped' \in [Bookings -> BOOLEAN]
    BY DEF TypeOK, Effect, Having, Modules
  <1>2. notes' \in [Bookings -> 0..MaxCopies]
    <2>1. notes \in [Bookings -> 0..MaxCopies] BY DEF TypeOK
    <2>2. CASE request[b] = "create_note"
      <3>1. notes' = [notes EXCEPT ![b] = notes[b] + 1] /\ notes[b] < MaxCopies
        BY <2>2 DEF Effect
      <3>2. ASSUME NEW c \in Bookings PROVE notes'[c] \in 0..MaxCopies
        BY <2>1, <3>1, ZohoBoundAssumption
      <3> QED BY <2>1, <3>1, <3>2
    <2>3. CASE request[b] # "create_note"
      BY <2>1, <2>3 DEF Effect
    <2> QED BY <2>2, <2>3
  <1>3. tasks' \in [Bookings -> 0..MaxCopies]
    <2>1. tasks \in [Bookings -> 0..MaxCopies] BY DEF TypeOK
    <2>2. CASE request[b] = "create_task"
      <3>1. tasks' = [tasks EXCEPT ![b] = tasks[b] + 1] /\ tasks[b] < MaxCopies
        BY <2>2 DEF Effect
      <3>2. ASSUME NEW c \in Bookings PROVE tasks'[c] \in 0..MaxCopies
        BY <2>1, <3>1, ZohoBoundAssumption
      <3> QED BY <2>1, <3>1, <3>2
    <2>3. CASE request[b] # "create_task"
      BY <2>1, <2>3 DEF Effect
    <2> QED BY <2>2, <2>3
  <1> QED BY <1>1, <1>2, <1>3 DEF CrmTypes

\* An answer leaves the token alone and does what its request does.
LEMMA SuccessTypes ==
  ASSUME TypeOK, NEW b \in Calls, NEW which, Succeeds(b, which)
  PROVE  TokenTypes' /\ CrmTypes' /\ resent' \in SUBSET Bookings
  <1>1. CrmTypes' BY EffectTypes DEF Succeeds
  <1>2. TokenTypes' /\ resent' \in SUBSET Bookings
    BY TypeParts DEF Succeeds, TokenTypes, tokenVars
  <1> QED BY <1>1, <1>2

\* Every step keeps every variable in its type.
LEMMA TypeStep == TypeOK /\ [Next]_vars => TypeOK'
  <1> SUFFICES ASSUME TypeOK, [Next]_vars PROVE TypeOK' OBVIOUS
  <1> USE AttemptAssumption, CallAssumption
  <1>0. /\ TokenTypes /\ CallTypes /\ LocalTypes /\ CrmTypes
        /\ returned \in [Bookings -> BOOLEAN] /\ resent \in SUBSET Bookings
    BY TypeParts
  <1>1. ASSUME NEW b \in Calls, StartCall(b) PROVE TypeOK'
    BY <1>1 DEF TypeOK, StartCall, Having, tokenVars, crmVars, Phases, Modules
  <1>2. ASSUME NEW b \in Calls, TokenStep(b) PROVE TypeOK'
    <2>1. CASE TakeCached(b)
      BY <2>1 DEF TypeOK, TakeCached, tokenVars, callVars, crmVars, Phases
    <2>2. CASE StartRefresh(b)
      BY <2>2 DEF TypeOK, StartRefresh, callVars, crmVars, Phases
    <2> QED BY <1>2, <2>1, <2>2 DEF TokenStep
  <1>3. ASSUME NEW b \in Calls, RefreshDone(b) PROVE TypeOK'
    <2>1. TokenTypes' /\ CrmTypes' /\ resent' \in SUBSET Bookings
      BY <1>0, <1>3 DEF RefreshDone, TokenTypes, CrmTypes, crmVars, Tokens
    <2>2. CASE force[b] /\ attempt[b] = Attempts - 1
      <3>1. Return(b, "Exception") BY <1>3, <2>2 DEF RefreshDone
      <3> QED BY <2>1, <3>1, ReturnTypes, TypePartsPrimed
    <2>3. CASE ~(force[b] /\ attempt[b] = Attempts - 1)
      <3>1. CallTypes'
        <4>1. attempt' \in [Calls -> 0..Attempts - 1]
          BY <1>0, <1>3, <2>3 DEF RefreshDone, CallTypes
        <4> QED BY <1>0, <1>3, <2>3, <4>1 DEF RefreshDone, CallTypes, Phases, Tokens
      <3>2. LocalTypes' /\ returned' \in [Bookings -> BOOLEAN]
        BY <1>0, <1>3, <2>3 DEF RefreshDone, LocalTypes, callVars
      <3> QED BY <2>1, <3>1, <3>2, TypePartsPrimed
    <2> QED BY <2>2, <2>3
  <1>4. ASSUME NEW b \in Calls, RefreshFails(b) PROVE TypeOK'
    <2>1. TokenTypes' /\ CrmTypes' /\ resent' \in SUBSET Bookings
      BY <1>0, <1>4 DEF RefreshFails, TokenTypes, CrmTypes, crmVars
    <2>2. Return(b, "Exception") BY <1>4 DEF RefreshFails
    <2> QED BY <2>1, <2>2, ReturnTypes, TypePartsPrimed
  <1>5. ASSUME NEW b \in Calls, Unauthorized(b) PROVE TypeOK'
    <2>1. TokenTypes' /\ CrmTypes' /\ resent' \in SUBSET Bookings
      BY <1>0, <1>5 DEF Unauthorized, TokenTypes, CrmTypes, tokenVars, crmVars
    <2>2. CASE refreshed[b]
      <3>1. Return(b, "Exception") BY <1>5, <2>2 DEF Unauthorized
      <3> QED BY <2>1, <3>1, ReturnTypes, TypePartsPrimed
    <2>3. CASE ~refreshed[b]
      <3>1. CallTypes'
        BY <1>0, <1>5, <2>3 DEF Unauthorized, CallTypes, Phases, Tokens
      <3>2. LocalTypes' /\ returned' \in [Bookings -> BOOLEAN]
        BY <1>0, <1>5, <2>3 DEF Unauthorized, LocalTypes, callVars
      <3> QED BY <2>1, <3>1, <3>2, TypePartsPrimed
    <2> QED BY <2>2, <2>3
  <1>6. ASSUME NEW b \in Calls, NEW after \in BOOLEAN, Busy(b, after) PROVE TypeOK'
    <2>1. TokenTypes' /\ CrmTypes'
      BY <1>0, <1>6, EffectTypes DEF Busy, TokenTypes, CrmTypes, tokenVars
    <2>2. CASE attempt[b] = Attempts - 1
      <3>1. resent' \in SUBSET Bookings
        BY <1>0, <1>6, <2>2 DEF Busy
      <3>2. Return(b, "Exception") BY <1>6, <2>2 DEF Busy
      <3> QED BY <2>1, <3>1, <3>2, ReturnTypes, TypePartsPrimed
    <2>3. CASE attempt[b] # Attempts - 1
      <3>1. CallTypes'
        BY <1>0, <1>6, <2>3 DEF Busy, CallTypes
      <3>2. LocalTypes' /\ returned' \in [Bookings -> BOOLEAN]
        BY <1>0, <1>6, <2>3 DEF Busy, LocalTypes, callVars
      <3>3. resent' \in SUBSET Bookings
        BY <1>0, <1>6, <2>3 DEF Busy, Creates
      <3> QED BY <2>1, <3>1, <3>2, <3>3, TypePartsPrimed
    <2> QED BY <2>2, <2>3
  <1>7. ASSUME NEW b \in Calls, NEW after \in BOOLEAN, Breaks(b, after) PROVE TypeOK'
    <2>1. TokenTypes' /\ CrmTypes' /\ resent' \in SUBSET Bookings
      BY <1>0, <1>7, EffectTypes DEF Breaks, TokenTypes, CrmTypes, tokenVars
    <2>2. Return(b, "Exception") BY <1>7 DEF Breaks
    <2> QED BY <2>1, <2>2, ReturnTypes, TypePartsPrimed
  <1>8. ASSUME NEW b \in Calls, Answered(b) PROVE TypeOK'
    <2>1. ASSUME NEW which, Succeeds(b, which),
                 NEW next \in Requests, Begin(b, next), LocalTypes'
          PROVE  TypeOK'
      BY <2>1, SuccessTypes, BeginTypes, TypePartsPrimed
    <2>2. ASSUME NEW which, Succeeds(b, which), NEW next \in Requests, Continue(b, next)
          PROVE  TypeOK'
      BY <1>0, <2>1, <2>2 DEF Continue, LocalTypes, callVars
    <2>3. ASSUME NEW which, Succeeds(b, which), Return(b, "value")
          PROVE  TypeOK'
      BY <2>3, SuccessTypes, ReturnTypes, TypePartsPrimed
    <2>4. ASSUME NEW module \in Modules, Found(b, module) PROVE LocalTypes'
      BY <1>0, <2>4 DEF Found, LocalTypes
    <2>r. /\ "read_notes" \in Requests /\ "read_tasks" \in Requests /\ "update" \in Requests
          /\ "search_leads" \in Requests /\ "upsert_lead" \in Requests
          /\ "create_note" \in Requests /\ "create_task" \in Requests
          /\ "Contacts" \in Modules /\ "Leads" \in Modules
      BY DEF Requests, Modules
    <2>5. CASE ContactsSearched(b)
      <3>1. Succeeds(b, "search_contacts")
        BY <2>5 DEF ContactsSearched
      <3>2. CASE record[b] = "Contacts"
        <4>1. Found(b, "Contacts") BY <2>5, <3>2 DEF ContactsSearched
        <4>2. Begin(b, "read_notes") BY <4>1 DEF Found
        <4>3. LocalTypes' BY <4>1, <2>4, <2>r
        <4> QED BY <3>1, <4>2, <4>3, <2>1, <2>r
      <3>3. CASE record[b] # "Contacts"
        <4>1. Continue(b, "search_leads") BY <2>5, <3>3 DEF ContactsSearched
        <4> QED BY <3>1, <4>1, <2>2, <2>r
      <3> QED BY <3>2, <3>3
    <2>6. CASE LeadsSearched(b)
      <3>1. Succeeds(b, "search_leads")
        BY <2>6 DEF LeadsSearched
      <3>2. CASE record[b] = "Leads"
        <4>1. Found(b, "Leads") BY <2>6, <3>2 DEF LeadsSearched
        <4>2. Begin(b, "read_notes") BY <4>1 DEF Found
        <4>3. LocalTypes' BY <4>1, <2>4, <2>r
        <4> QED BY <3>1, <4>2, <4>3, <2>1, <2>r
      <3>3. CASE record[b] # "Leads"
        <4>1. Continue(b, "upsert_lead") BY <2>6, <3>3 DEF LeadsSearched
        <4> QED BY <3>1, <4>1, <2>2, <2>r
      <3> QED BY <3>2, <3>3
    <2>7. CASE LeadUpserted(b)
      <3>1. /\ Succeeds(b, "upsert_lead")
            /\ Return(b, "value")
        BY <2>7 DEF LeadUpserted
      <3> QED BY <3>1, <2>3
    <2>8. CASE NotesRead(b)
      <3>1. /\ Succeeds(b, "read_notes")
            /\ Begin(b, "read_tasks")
        BY <2>8 DEF NotesRead
      <3>2. note_exists' \in [Bookings -> BOOLEAN]
        <4>1. note_exists' = [note_exists EXCEPT ![b] = notes[b] > 0] BY <2>8 DEF NotesRead
        <4>2. (notes[b] > 0) \in BOOLEAN OBVIOUS
        <4> QED BY <1>0, <4>1, <4>2 DEF LocalTypes
      <3>3. LocalTypes'
        BY <1>0, <2>8, <3>2 DEF NotesRead, LocalTypes
      <3> QED BY <3>1, <3>3, <2>1, <2>r
    <2>9. CASE TasksRead(b)
      <3>1. /\ Succeeds(b, "read_tasks")
            /\ Begin(b, "update")
        BY <2>9 DEF TasksRead
      <3>2. task_exists' \in [Bookings -> BOOLEAN]
        <4>1. task_exists' = [task_exists EXCEPT ![b] = tasks[b] > 0] BY <2>9 DEF TasksRead
        <4>2. (tasks[b] > 0) \in BOOLEAN OBVIOUS
        <4> QED BY <1>0, <4>1, <4>2 DEF LocalTypes
      <3>3. LocalTypes'
        BY <1>0, <2>9, <3>2 DEF TasksRead, LocalTypes
      <3> QED BY <3>1, <3>3, <2>1, <2>r
    <2>10. CASE Updated(b)
      <3>1. Succeeds(b, "update")
        BY <2>10 DEF Updated
      <3>2. Continue(b, "create_note") \/ Continue(b, "create_task") \/ Return(b, "value")
        BY <2>10 DEF Updated
      <3> QED BY <3>1, <3>2, <2>2, <2>3, <2>r
    <2>11. CASE NoteCreated(b)
      <3>1. Succeeds(b, "create_note")
        BY <2>11 DEF NoteCreated
      <3>2. Return(b, "value") \/ Continue(b, "create_task")
        BY <2>11 DEF NoteCreated
      <3> QED BY <3>1, <3>2, <2>2, <2>3, <2>r
    <2>12. CASE TaskCreated(b)
      <3>1. /\ Succeeds(b, "create_task")
            /\ Return(b, "value")
        BY <2>12 DEF TaskCreated
      <3> QED BY <3>1, <2>3
    <2> QED BY <1>8, <2>5, <2>6, <2>7, <2>8, <2>9, <2>10, <2>11, <2>12 DEF Answered
  <1>9. CASE Outside
    <2>1. CASE TokenAges \/ TokenExpires
      BY <1>9, <2>1 DEF TypeOK, Outside, TokenAges, TokenExpires, RecordMoves, callVars, crmVars, tokenVars, sendVars, Tokens
    <2>2. CASE RecordMoves
      BY <1>9, <2>2 DEF TypeOK, Outside, TokenAges, TokenExpires, RecordMoves, callVars, crmVars, tokenVars, sendVars, Modules, Tokens
    <2> QED BY <1>9, <2>1, <2>2 DEF Outside
  <1>10. CASE UNCHANGED vars
    BY <1>10 DEF TypeOK, vars, tokenVars, sendVars, callVars, crmVars
  <1> QED
    BY <1>1, <1>2, <1>3, <1>4, <1>5, <1>6, <1>7, <1>8, <1>9, <1>10 DEF Next, CallStep

\* The initial state is well typed.
LEMMA InitTypes == Init => TypeOK
  <1> SUFFICES ASSUME Init PROVE TypeOK OBVIOUS
  <1>1. TokenTypes /\ LocalTypes
    BY DEF Init, TokenTypes, LocalTypes, Tokens, Modules
  <1>4. CrmTypes
    BY ZohoBoundAssumption DEF Init, CrmTypes
  <1>2. CallTypes
    BY AttemptAssumption DEF Init, CallTypes, Tokens, Phases, Requests, FirstRequest
  <1>3. returned \in [Bookings -> BOOLEAN] /\ resent \in SUBSET Bookings
    BY DEF Init
  <1> QED BY <1>1, <1>2, <1>3, <1>4, TypeParts

\* The variables of every call, lead and booking, stay in their types.
THEOREM TypeCorrect == Spec => []TypeOK
  BY InitTypes, TypeStep, PTL DEF Spec

------------------------------------------------------------------------------
(* The invariant.                                                            *)

\* A step leaves the call of c where it is, ...
Apart(c) ==
  /\ phase'[c] = "idle" <=> phase[c] = "idle"
  /\ request'[c] = request[c] /\ match'[c] = match[c] /\ returned'[c] = returned[c]
  /\ note_exists'[c] = note_exists[c] /\ task_exists'[c] = task_exists[c]

\* ... takes nothing of c away from the CRM, ...
Grows(c) ==
  /\ record[c] # "none" => record'[c] # "none"
  /\ stamped[c] => stamped'[c]
  /\ notes'[c] >= notes[c] /\ tasks'[c] >= tasks[c]

\* ... and adds no note or task, or is one that is sent again.
Same(c) ==
  c \notin resent' => /\ c \notin resent
                     /\ notes'[c] = notes[c] /\ tasks'[c] = tasks[c]

\* Such a step leaves the invariant of c alone.
LEMMA ApartSound ==
  ASSUME TypeOK, TypeOK', NEW c \in Bookings, Sound(c), Apart(c), Grows(c), Same(c)
  PROVE  Sound(c)'
  <1> USE ZohoBoundAssumption
  <1>0. /\ notes[c] \in Nat /\ notes'[c] \in Nat /\ tasks[c] \in Nat /\ tasks'[c] \in Nat
    BY DEF TypeOK
  <1>1. Faithful(c)' BY <1>0 DEF Sound, Faithful, Apart, Grows
  <1>2. Needed(c)' BY <1>0 DEF Sound, Needed, Apart, Same
  <1>3. Complete(c)' BY <1>0 DEF Sound, Complete, Apart, Grows
  <1> QED BY <1>1, <1>2, <1>3 DEF Sound

\* What a request does to the records of a booking.
LEMMA EffectOn ==
  ASSUME TypeOK, NEW b \in Calls, Effect(b), NEW c \in Bookings
  PROVE  /\ Grows(c)
         /\ c # b \/ request[b] # "create_note" => notes'[c] = notes[c]
         /\ c # b \/ request[b] # "create_task" => tasks'[c] = tasks[c]
         /\ c = b /\ request[b] = "create_note" => notes'[c] = notes[c] + 1
         /\ c = b /\ request[b] = "create_task" => tasks'[c] = tasks[c] + 1
         /\ c = b /\ request[b] \in {"upsert_lead", "update"} => stamped'[c]
         /\ c = b /\ request[b] = "upsert_lead" => record'[c] # "none"
  <1> USE ZohoBoundAssumption
  <1>1. /\ notes \in [Bookings -> 0..MaxCopies] /\ tasks \in [Bookings -> 0..MaxCopies]
        /\ record \in [Bookings -> Modules] /\ stamped \in [Bookings -> BOOLEAN]
    BY DEF TypeOK
  <1>2. /\ c # b \/ request[b] # "create_note" => notes'[c] = notes[c]
        /\ c = b /\ request[b] = "create_note" => notes'[c] = notes[c] + 1
    BY <1>1 DEF Effect
  <1>3. /\ c # b \/ request[b] # "create_task" => tasks'[c] = tasks[c]
        /\ c = b /\ request[b] = "create_task" => tasks'[c] = tasks[c] + 1
    BY <1>1 DEF Effect
  <1>4. /\ record[c] # "none" => record'[c] # "none"
        /\ c = b /\ request[b] = "upsert_lead" => record'[c] # "none"
    BY <1>1 DEF Effect
  <1>5. /\ stamped[c] => stamped'[c]
        /\ c = b /\ request[b] \in {"upsert_lead", "update"} => stamped'[c]
    BY <1>1 DEF Effect, Having
  <1>6. notes'[c] >= notes[c] /\ tasks'[c] >= tasks[c]
    BY <1>1, <1>2, <1>3
  <1> QED BY <1>2, <1>3, <1>4, <1>5, <1>6 DEF Grows

\* The end of a call, or the beginning of its next request, is nothing to the others.
LEMMA ReturnApart ==
  ASSUME TypeOK, NEW b \in Calls, NEW what, Return(b, what), NEW c \in Bookings, c # b
  PROVE  Apart(c)
  <1>1. /\ phase'[c] = phase[c] /\ request'[c] = request[c]
    BY DEF TypeOK, Return, Calls
  <1>2. /\ match'[c] = match[c] /\ returned'[c] = returned[c]
        /\ note_exists'[c] = note_exists[c] /\ task_exists'[c] = task_exists[c]
    BY DEF TypeOK, Return, Having
  <1> QED BY <1>1, <1>2 DEF Apart

\* A failed call leaves the invariant behind, whatever it has added just before.
LEMMA FailureSound ==
  ASSUME TypeOK, TypeOK', NEW b \in Bookings, Sound(b), Return(b, "Exception"), Grows(b),
         b \notin resent' => notes'[b] <= 1 /\ tasks'[b] <= 1
  PROVE  Sound(b)'
  <1>0. b \in Calls /\ b \notin Leads BY CallAssumption DEF Calls
  <1>1. phase'[b] = "idle" /\ request'[b] = "search_contacts"
    BY <1>0 DEF TypeOK, Return, FirstRequest
  <1>2. /\ match'[b] = "none" /\ ~returned'[b]
        /\ ~note_exists'[b] /\ ~task_exists'[b]
    BY DEF Return, Having
  <1> QED BY <1>1, <1>2 DEF Sound, Faithful, Needed, Complete, WithRecord

\* The beginning of a request is nothing to the other calls.
LEMMA BeginApart ==
  ASSUME TypeOK, NEW b \in Calls, NEW next \in Requests, Begin(b, next),
         NEW c \in Bookings, c # b,
         /\ match'[c] = match[c]
         /\ note_exists'[c] = note_exists[c] /\ task_exists'[c] = task_exists[c]
  PROVE  Apart(c)
  BY DEF TypeOK, Begin, Calls, Apart

\* The steps of one request, short of its answer, keep the invariant.
LEMMA RequestSound ==
  ASSUME TypeOK, TypeOK', NEW b \in Calls, NEW c \in Bookings, Sound(c),
         \/ StartCall(b) \/ TokenStep(b) \/ RefreshDone(b) \/ RefreshFails(b) \/ Unauthorized(b)
         \/ \E after \in BOOLEAN : Busy(b, after) \/ Breaks(b, after)
  PROVE  Sound(c)'
  <1> USE ZohoBoundAssumption
  <1>0. /\ c \in Calls /\ c \notin Leads
        /\ notes[c] \in Nat /\ tasks[c] \in Nat
    BY CallAssumption DEF Calls, TypeOK
  <1>1. ASSUME UNCHANGED crmVars PROVE Grows(c) /\ Same(c)
    BY <1>0, <1>1 DEF crmVars, Grows, Same
  <1>2. ASSUME UNCHANGED crmVars, Return(b, "Exception") PROVE Sound(c)'
    <2>1. CASE c = b
      <3>1. c \notin resent' => notes'[c] <= 1 /\ tasks'[c] <= 1
        BY <1>2 DEF crmVars, Sound, Needed
      <3> QED BY <1>1, <1>2, <2>1, <3>1, FailureSound
    <2>2. CASE c # b
      <3>1. Apart(c) BY <1>2, <2>2, ReturnApart
      <3> QED BY <1>1, <1>2, <3>1, ApartSound
    <2> QED BY <2>1, <2>2
  <1>3. CASE StartCall(b)
    <2>1. Grows(c) /\ Same(c) BY <1>1, <1>3 DEF StartCall
    <2>2. CASE c # b
      <3>1. Apart(c) BY <1>0, <1>3, <2>2 DEF StartCall, TypeOK, Having, Apart
      <3> QED BY <2>1, <3>1, ApartSound
    <2>3. CASE c = b
      <3>1. /\ phase'[c] # "idle" /\ ~returned'[c] /\ match'[c] = "none"
            /\ request' = request /\ note_exists' = note_exists /\ task_exists' = task_exists
        BY <1>0, <1>3, <2>3 DEF StartCall, TypeOK, Having
      <3>2. request[c] \notin WithRecord
        BY <1>3, <2>3 DEF StartCall, Sound, Faithful
      <3>3. Faithful(c)'
        BY <2>1, <3>1, <3>2, <1>0, <1>3 DEF StartCall, crmVars, Faithful, Sound, WithRecord
      <3>4. Needed(c)'
        BY <1>3, <3>1 DEF StartCall, crmVars, Needed, Sound
      <3> QED BY <3>1, <3>3, <3>4 DEF Sound, Complete
    <2> QED BY <2>2, <2>3
  <1>4. CASE TokenStep(b)
    <2>1. UNCHANGED <<crmVars, callVars, request, returned>>
      BY <1>4 DEF TokenStep, TakeCached, StartRefresh
    <2>2. phase'[c] = "idle" <=> phase[c] = "idle"
      BY <1>0, <1>4 DEF TokenStep, TakeCached, StartRefresh, TypeOK
    <2>3. Apart(c) BY <2>1, <2>2 DEF callVars, Apart
    <2> QED BY <1>1, <2>1, <2>3, ApartSound
  <1>5. CASE RefreshDone(b)
    <2>1. UNCHANGED crmVars BY <1>5 DEF RefreshDone
    <2>2. CASE Return(b, "Exception") BY <1>2, <2>1, <2>2
    <2>3. CASE ~Return(b, "Exception")
      <3>1. UNCHANGED <<callVars, request, returned>> BY <1>5, <2>3 DEF RefreshDone
      <3>2. phase'[c] = "idle" <=> phase[c] = "idle"
        BY <1>0, <1>5, <2>3 DEF RefreshDone, TypeOK
      <3>3. Apart(c) BY <3>1, <3>2 DEF callVars, Apart
      <3> QED BY <1>1, <2>1, <3>3, ApartSound
    <2> QED BY <2>2, <2>3
  <1>6. CASE RefreshFails(b)
    BY <1>2, <1>6 DEF RefreshFails
  <1>7. CASE Unauthorized(b)
    <2>1. UNCHANGED crmVars BY <1>7 DEF Unauthorized
    <2>2. CASE Return(b, "Exception") BY <1>2, <2>1, <2>2
    <2>3. CASE ~Return(b, "Exception")
      <3>1. UNCHANGED <<callVars, request, returned>> BY <1>7, <2>3 DEF Unauthorized
      <3>2. phase'[c] = "idle" <=> phase[c] = "idle"
        BY <1>0, <1>7, <2>3 DEF Unauthorized, TypeOK
      <3>3. Apart(c) BY <3>1, <3>2 DEF callVars, Apart
      <3> QED BY <1>1, <2>1, <3>3, ApartSound
    <2> QED BY <2>2, <2>3
  <1>8. ASSUME Effect(b) \/ UNCHANGED <<record, stamped, notes, tasks>>, UNCHANGED resent
        PROVE  /\ Grows(c) /\ (c # b => Same(c))
               /\ c \notin resent' => notes'[c] <= 1 /\ tasks'[c] <= 1
    <2>1. CASE Effect(b)
      BY <1>0, <1>8, <2>1, EffectOn DEF Same, Sound, Needed
    <2>2. CASE UNCHANGED <<record, stamped, notes, tasks>>
      BY <1>0, <1>8, <2>2 DEF Same, Grows, Sound, Needed
    <2> QED BY <1>8, <2>1, <2>2
  <1>9. ASSUME Effect(b) \/ UNCHANGED <<record, stamped, notes, tasks>>, UNCHANGED resent,
               Return(b, "Exception")
        PROVE  Sound(c)'
    <2>1. CASE c = b BY <1>8, <1>9, <2>1, FailureSound
    <2>2. CASE c # b
      <3>1. Apart(c) BY <1>9, <2>2, ReturnApart
      <3> QED BY <1>8, <1>9, <2>2, <3>1, ApartSound
    <2> QED BY <2>1, <2>2
  <1>10. ASSUME NEW after \in BOOLEAN, Busy(b, after) PROVE Sound(c)'
    <2>1. Effect(b) \/ UNCHANGED <<record, stamped, notes, tasks>> BY <1>10 DEF Busy
    <2>2. CASE Return(b, "Exception") /\ UNCHANGED resent BY <1>9, <2>1, <2>2
    <2>3. CASE ~(Return(b, "Exception") /\ UNCHANGED resent)
      <3>1. /\ UNCHANGED <<phase, request, callVars, returned>>
            /\ resent' = IF after /\ Creates(b) THEN resent \cup {b} ELSE resent
        BY <1>10, <2>3 DEF Busy
      <3>2. Apart(c) BY <3>1 DEF callVars, Apart
      <3>3. Grows(c)
        BY <1>0, <2>1, EffectOn DEF Grows
      <3>4. Same(c)
        <4>1. CASE after /\ Effect(b)
          BY <1>0, <3>1, <4>1, EffectOn DEF Same, Creates
        <4>2. CASE UNCHANGED <<record, stamped, notes, tasks>>
          BY <3>1, <4>2 DEF Same
        <4> QED BY <1>10, <4>1, <4>2 DEF Busy
      <3> QED BY <3>2, <3>3, <3>4, ApartSound
    <2> QED BY <2>2, <2>3
  <1>11. ASSUME NEW after \in BOOLEAN, Breaks(b, after) PROVE Sound(c)'
    BY <1>9, <1>11 DEF Breaks
  <1> QED BY <1>3, <1>4, <1>5, <1>6, <1>7, <1>10, <1>11

\* An answer to a call is nothing to the other calls.
LEMMA AnswerApart ==
  ASSUME TypeOK, NEW b \in Calls, NEW c \in Bookings, c # b, Answered(b)
  PROVE  Apart(c)
  <1>1. CASE Return(b, "value") BY <1>1, ReturnApart
  <1>2. CASE ~Return(b, "value")
    <2>1. /\ match'[c] = match[c]
          /\ note_exists'[c] = note_exists[c] /\ task_exists'[c] = task_exists[c]
      BY <1>2 DEF TypeOK, Answered, ContactsSearched, LeadsSearched, LeadUpserted, NotesRead,
         TasksRead, Updated, NoteCreated, TaskCreated, Found, Continue, callVars
    <2>2. PICK next \in Requests : Begin(b, next)
      BY <1>2 DEF Answered, ContactsSearched, LeadsSearched, LeadUpserted, NotesRead,
         TasksRead, Updated, NoteCreated, TaskCreated, Found, Continue, Requests
    <2> QED BY <2>1, <2>2, BeginApart
  <1> QED BY <1>1, <1>2

\* An answer to the call of a booking keeps its invariant.
LEMMA AnswerSound ==
  ASSUME TypeOK, TypeOK', NEW b \in Bookings, Sound(b), Answered(b)
  PROVE  Sound(b)'
  <1> USE ZohoBoundAssumption
  <1>0. /\ b \in Calls /\ b \notin Leads /\ Effect(b) /\ UNCHANGED resent /\ Accepted(b)
        /\ notes[b] \in Nat /\ tasks[b] \in Nat /\ notes'[b] \in Nat /\ tasks'[b] \in Nat
    BY CallAssumption DEF Calls, TypeOK, Answered, ContactsSearched, LeadsSearched, LeadUpserted,
       NotesRead, TasksRead, Updated, NoteCreated, TaskCreated, Succeeds
  <1>1. /\ Grows(b) /\ phase[b] # "idle" /\ ~returned[b]
        /\ request[b] # "create_note" => notes'[b] = notes[b]
        /\ request[b] # "create_task" => tasks'[b] = tasks[b]
        /\ request[b] = "create_note" => notes'[b] = notes[b] + 1
        /\ request[b] = "create_task" => tasks'[b] = tasks[b] + 1
        /\ request[b] \in {"upsert_lead", "update"} => stamped'[b]
        /\ request[b] = "upsert_lead" => record'[b] # "none"
    BY <1>0, EffectOn DEF Accepted, Sound, Complete
  \* The locals after the end of a call, ...
  <1>2. ASSUME Return(b, "value")
        PROVE  /\ phase'[b] = "idle" /\ request'[b] = "search_contacts" /\ match' = match
               /\ ~note_exists'[b] /\ ~task_exists'[b]
    BY <1>0, <1>2 DEF TypeOK, Return, FirstRequest, Having
  \* ... which leaves the invariant behind when all has been done ...
  <1>3. ASSUME Return(b, "value"), record'[b] # "none", stamped'[b],
               match[b] # "none" => notes'[b] >= 1 /\ tasks'[b] >= 1,
               b \notin resent => notes'[b] <= 1 /\ tasks'[b] <= 1
        PROVE  Sound(b)'
    <2>1. Faithful(b)' BY <1>2, <1>3 DEF Faithful, WithRecord
    <2>2. Needed(b)' BY <1>0, <1>2, <1>3 DEF Needed
    <2>3. Complete(b)' BY <1>2, <1>3 DEF Complete
    <2> QED BY <2>1, <2>2, <2>3 DEF Sound
  \* ... and after the beginning of the next request.
  <1>4. ASSUME NEW next \in Requests, Begin(b, next)
        PROVE  phase'[b] # "idle" /\ ~returned'[b] /\ request'[b] = next
    BY <1>0, <1>1, <1>4 DEF TypeOK, Begin
  <1>5. ASSUME NEW next \in Requests, Continue(b, next)
        PROVE  /\ match' = match /\ note_exists' = note_exists /\ task_exists' = task_exists
               /\ phase'[b] # "idle" /\ ~returned'[b] /\ request'[b] = next
    BY <1>4, <1>5 DEF Continue, callVars
  <1>r. /\ "read_notes" \in Requests /\ "read_tasks" \in Requests /\ "update" \in Requests
        /\ "search_leads" \in Requests /\ "upsert_lead" \in Requests
        /\ "create_note" \in Requests /\ "create_task" \in Requests
    BY DEF Requests
  <1>6. ASSUME NEW module \in {"Leads", "Contacts"}, Found(b, module), record[b] = module,
               request[b] \in {"search_contacts", "search_leads"}
        PROVE  Sound(b)'
    <2>1. /\ match'[b] # "none" /\ request'[b] = "read_notes" /\ phase'[b] # "idle"
          /\ ~returned'[b] /\ note_exists' = note_exists /\ task_exists' = task_exists
      BY <1>4, <1>6, <1>r DEF TypeOK, Found
    <2>2. record'[b] # "none" BY <1>1, <1>6 DEF Grows
    <2> QED BY <1>0, <1>1, <1>6, <2>1, <2>2
            DEF Sound, Faithful, Needed, Complete, WithRecord
  <1>7. ASSUME NEW next \in {"search_leads", "upsert_lead"}, Continue(b, next),
               request[b] \in {"search_contacts", "search_leads"}
        PROVE  Sound(b)'
    <2>1. match[b] = "none" BY <1>1, <1>7 DEF Sound, Faithful, WithRecord
    <2> QED BY <1>0, <1>1, <1>5, <1>7, <1>r, <2>1
            DEF Sound, Faithful, Needed, Complete, WithRecord
  <1>8. CASE ContactsSearched(b) \/ LeadsSearched(b)
    <2>1. request[b] \in {"search_contacts", "search_leads"}
      BY <1>8 DEF ContactsSearched, LeadsSearched, Succeeds
    <2> QED BY <1>6, <1>7, <1>8, <2>1 DEF ContactsSearched, LeadsSearched
  <1>9. CASE LeadUpserted(b)
    <2>1. request[b] = "upsert_lead" /\ Return(b, "value")
      BY <1>9 DEF LeadUpserted, Succeeds
    <2>2. match[b] = "none" BY <1>1, <2>1 DEF Sound, Faithful, WithRecord
    <2>3. b \notin resent => notes'[b] <= 1 /\ tasks'[b] <= 1
      BY <1>1, <2>1 DEF Sound, Needed
    <2> QED BY <1>1, <1>3, <2>1, <2>2, <2>3
  <1>10. CASE NotesRead(b)
    <2>1. /\ request[b] = "read_notes" /\ Begin(b, "read_tasks")
          /\ note_exists' = [note_exists EXCEPT ![b] = notes[b] > 0]
          /\ UNCHANGED <<match, task_exists>>
      BY <1>10 DEF NotesRead, Succeeds
    <2>2. note_exists'[b] <=> notes[b] > 0 BY <2>1 DEF TypeOK
    <2> QED BY <1>0, <1>1, <1>4, <1>r, <2>1, <2>2
            DEF Sound, Faithful, Needed, Complete, WithRecord, Grows
  <1>11. CASE TasksRead(b)
    <2>1. /\ request[b] = "read_tasks" /\ Begin(b, "update")
          /\ task_exists' = [task_exists EXCEPT ![b] = tasks[b] > 0]
          /\ UNCHANGED <<match, note_exists>>
      BY <1>11 DEF TasksRead, Succeeds
    <2>2. task_exists'[b] <=> tasks[b] > 0 BY <2>1 DEF TypeOK
    <2> QED BY <1>0, <1>1, <1>4, <1>r, <2>1, <2>2
            DEF Sound, Faithful, Needed, Complete, WithRecord, Grows
  <1>12. CASE Updated(b)
    <2>1. request[b] = "update" BY <1>12 DEF Updated, Succeeds
    <2>2. CASE note_exists[b] /\ task_exists[b] /\ Return(b, "value")
      BY <1>1, <1>3, <2>1, <2>2 DEF Sound, Faithful, Needed, WithRecord, Grows
    <2>3. CASE \/ ~note_exists[b] /\ Continue(b, "create_note")
               \/ note_exists[b] /\ ~task_exists[b] /\ Continue(b, "create_task")
      BY <1>0, <1>1, <1>5, <1>r, <2>1, <2>3
      DEF Sound, Faithful, Needed, Complete, WithRecord, Grows
    <2> QED BY <1>12, <2>2, <2>3 DEF Updated
  <1>13. CASE NoteCreated(b)
    <2>1. request[b] = "create_note" BY <1>13 DEF NoteCreated, Succeeds
    <2>2. CASE task_exists[b] /\ Return(b, "value")
      BY <1>0, <1>1, <1>3, <2>1, <2>2 DEF Sound, Faithful, Needed, WithRecord, Grows
    <2>3. CASE ~task_exists[b] /\ Continue(b, "create_task")
      BY <1>0, <1>1, <1>5, <1>r, <2>1, <2>3
      DEF Sound, Faithful, Needed, Complete, WithRecord, Grows
    <2> QED BY <1>13, <2>2, <2>3 DEF NoteCreated
  <1>14. CASE TaskCreated(b)
    <2>1. request[b] = "create_task" /\ Return(b, "value")
      BY <1>14 DEF TaskCreated, Succeeds
    <2> QED BY <1>0, <1>1, <1>3, <2>1 DEF Sound, Faithful, Needed, WithRecord, Grows
  <1> QED BY <1>8, <1>9, <1>10, <1>11, <1>12, <1>13, <1>14 DEF Answered

\* Every step keeps the invariant.
LEMMA InvariantStep == IInv /\ [Next]_vars => IInv'
  <1> SUFFICES ASSUME IInv, [Next]_vars PROVE IInv' OBVIOUS
  <1>0. TypeOK /\ TypeOK' BY TypeStep DEF IInv
  <1> SUFFICES ASSUME NEW c \in Bookings PROVE Sound(c)' BY <1>0 DEF IInv
  <1>1. Sound(c) BY DEF IInv
  <1>2. c \in Calls BY DEF Calls
  <1>3. ASSUME NEW b \in Calls, Answered(b) PROVE Sound(c)'
    <2>1. CASE b = c BY <1>0, <1>1, <1>3, <2>1, AnswerSound
    <2>2. CASE b # c
      <3>1. Apart(c) BY <1>0, <1>3, <2>2, AnswerApart
      <3>2. Effect(b) /\ UNCHANGED resent
        BY <1>3 DEF Answered, ContactsSearched, LeadsSearched, LeadUpserted, NotesRead,
           TasksRead, Updated, NoteCreated, TaskCreated, Succeeds
      <3>3. Grows(c) /\ Same(c) BY <1>0, <2>2, <3>2, EffectOn DEF Same
      <3> QED BY <1>0, <1>1, <3>1, <3>3, ApartSound
    <2> QED BY <2>1, <2>2
  <1>4. CASE Outside \/ UNCHANGED vars
    <2>1. Apart(c)
      BY <1>4 DEF Outside, vars, sendVars, callVars, Apart
    <2>2. Grows(c) /\ Same(c)
      BY <1>0, <1>4, ZohoBoundAssumption
      DEF TypeOK, Outside, RecordMoves, vars, crmVars, Grows, Same, Modules
    <2> QED BY <1>0, <1>1, <2>1, <2>2, ApartSound
  <1> QED BY <1>0, <1>1, <1>3, <1>4, RequestSound DEF Next, CallStep

\* It holds in the beginning, and so always.
LEMMA InvariantHolds == Spec => []IInv
  <1>1. ASSUME Init PROVE IInv
    <2>1. TypeOK BY <1>1, InitTypes
    <2>2. ASSUME NEW b \in Bookings PROVE Sound(b)
      <3>1. b \in Calls /\ b \notin Leads BY CallAssumption DEF Calls
      <3> QED BY <1>1, <3>1 DEF Init, FirstRequest, Sound, Faithful, Needed, Complete, WithRecord
    <2> QED BY <2>1, <2>2 DEF IInv
  <1> QED BY <1>1, InvariantStep, PTL DEF Spec

\* Repeated, failed half way and sent again, a workflow leaves one note and one task
\* of each booking, unless Zoho answered a creation it had carried out with an error.
THEOREM OneNoteOneTask == Spec => []ArtifactsOnce
  <1>1. IInv => ArtifactsOnce BY DEF IInv, Sound, Needed, ArtifactsOnce
  <1> QED BY <1>1, InvariantHolds, PTL

\* A call that returns a value has left nothing out.
THEOREM ValuesAreComplete == Spec => []ValueMeansComplete
  <1>1. IInv => ValueMeansComplete BY DEF IInv, Sound, Complete, ValueMeansComplete
  <1> QED BY <1>1, InvariantHolds, PTL
==============================================================================
