------------------------------- MODULE Mapping -------------------------------
(***************************************************************************)
(* What leaves the service about a person: the mapping of a website lead   *)
(* (tis/mapping/lead_to_zoho.py) and of a calendar booking, parsed first   *)
(* (tis/mapping/booking_parser.py).  A name is the sequence of its words,  *)
(* an address the number of its lower-cased text in alphabetical order.    *)
(* Persons without an address count as not listed; that the event has the  *)
(* title, is confirmed and has times is BookingSync's Kind.                *)
(***************************************************************************)
EXTENDS Integers, SequencesExt

CONSTANTS
  Names,           \* names, blank (no word) or not
  Addresses,       \* e-mail addresses
  Domain,          \* [Addresses -> domains]; NoText after a bare @, Missing without one
  PersonalDomains, \* personal_email_domains
  MaxAttendees,    \* bound: attendees of an event
  MaxLines,        \* bound: lines of its description
  NoText, Missing, Unknown, Individual

ASSUME AddressAssumption == Addresses \subseteq Nat \ {0}
ASSUME NameAssumption == \A name \in Names : name \in Seq(ToSet(name))

VARIABLES
  lead,  \* a row of the leads table
  event  \* a Handoff Review event as Google lists it

mappingVars == <<lead, event>>

Absent  == 0   \* no organizer
NoName  == <<Missing>>
Given   == Names \cup {NoName}

Lines   == {"booked by", "address", "phone", "other"}

\* A host is flagged as this calendar's own, or as the organizer.
Person == [email : Addresses, role : {"guest", "host"}, display_name : Given]
Leads  == [name : Names, email : Addresses, company : Given]

MappingInit ==
  /\ lead \in Leads
  /\ event \in [attendees : {s \in BoundedSeq(Person, MaxAttendees) :
                               \A i, j \in DOMAIN s : s[i].email = s[j].email => i = j},
                organizer : Addresses \cup {Absent},
                summary_name : Given,
                description : BoundedSeq(Lines, MaxLines)]

\* Google lists the same event again; it promises no order of the attendees.
ListAgain ==
  /\ LET listed == event.attendees IN
     \E order \in Bijection(DOMAIN listed, DOMAIN listed) :
       event' = [event EXCEPT !.attendees = [i \in DOMAIN listed |-> listed[order[i]]]]
  /\ UNCHANGED lead

------------------------------------------------------------------------------
(* The parser.                                                               *)

Candidates(e) ==
  {person \in ToSet(e.attendees) : person.role = "guest" /\ person.email # e.organizer}

\* Planted fault: the first candidate is taken as it is listed.
Attendee_AsListed(e) ==
  e.attendees[CHOOSE i \in DOMAIN e.attendees :
                /\ e.attendees[i] \in Candidates(e)
                /\ \A j \in 1..(i - 1) : e.attendees[j] \notin Candidates(e)]

Attendee(e) ==
  CHOOSE person \in Candidates(e) : \A other \in Candidates(e) : person.email <= other.email

Parses(e) == Candidates(e) # {} /\ Domain[Attendee(e).email] # Missing

Answers(lines) == IF lines # <<>> /\ lines[1] = "booked by" THEN Tail(lines) ELSE lines

\* A line that is neither an address nor a number is taken for the name.
DescriptionName(lines) ==
  LET others == SelectSeq(Answers(lines), LAMBDA line : line \notin {"address", "phone"})
  IN  IF others = <<>> THEN <<>> ELSE <<Head(others)>>

\* An empty string counts as no name, a blank one does not.
BookingName(e) ==
  LET displayed == Attendee(e).display_name
  IN  IF displayed # NoName THEN displayed
      ELSE IF e.summary_name # NoName THEN e.summary_name ELSE DescriptionName(e.description)

------------------------------------------------------------------------------
(* The mapping.                                                              *)

\* Planted fault: everything after the first word, which may be nothing.
LastName_Rest(words) == IF words = <<>> THEN <<>> ELSE Tail(words)

LastName(words) ==
  IF words = <<>> THEN <<Unknown>> ELSE IF Len(words) = 1 THEN words ELSE Tail(words)

FirstName(words) == IF Len(words) > 1 THEN <<Head(words)>> ELSE <<>>

IsPersonal(email) == Domain[email] \in PersonalDomains

LeadCompany(row) ==
  IF row.company \notin {NoName, <<>>} THEN row.company
  ELSE IF Domain[row.email] \notin {NoText, Missing} THEN <<Domain[row.email]>> ELSE <<Unknown>>

BookingCompany(email) ==
  IF IsPersonal(email) \/ Domain[email] = NoText THEN <<Individual>> ELSE <<Domain[email]>>

Fields(words, email, company) ==
  [first |-> FirstName(words), last |-> LastName(words), email |-> email, company |-> company]

MapLead(row) == Fields(row.name, row.email, LeadCompany(row))

MapBooking(e) ==
  LET email == Attendee(e).email
  IN  Fields(BookingName(e), email, BookingCompany(email))

\* The requests a lead and an event give rise to: none for an event that does
\* not parse.
Outgoing == {MapLead(lead)} \cup (IF Parses(event) THEN {MapBooking(event)} ELSE {})

MappingSpec == MappingInit /\ [][ListAgain]_mappingVars

\* Zoho requires a last name and a company; neither is ever sent empty, whatever
\* is missing, blank or a bare @ in what the person entered.
RequiredFieldsFilled ==
  \A fields \in Outgoing : fields.last # <<>> /\ fields.company # <<>>

\* A booking that is repeated after an error is about the same person: what is
\* sent depends on who attends, not on the order in which Google lists them.
SamePersonAgain == [][Outgoing' = Outgoing]_mappingVars
==============================================================================
