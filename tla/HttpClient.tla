------------------------------ MODULE HttpClient ------------------------------
(***************************************************************************)
(* Requests of the controlled client (tis/http.py): an allowlist that      *)
(* every redirect has to pass again, a repetition of idempotent methods on *)
(* transport errors, 429 and 5xx at every hop, and a 303 that turns what   *)
(* follows into a GET.  Servers are external: one that refuses a request,  *)
(* or sends it elsewhere with another status than 303, has not carried it  *)
(* out; one that fails, or whose answer is lost, may have.                 *)
(***************************************************************************)
EXTENDS Integers

CONSTANTS
  Hosts,        \* hosts a URL or a Location can name, one not reached over https included
  Allowlist,    \* EGRESS_ALLOWLIST
  MaxTries,     \* MAX_ATTEMPTS
  MaxRedirects  \* MAX_REDIRECTS

ASSUME HttpAssumption ==
  /\ Allowlist \subseteq Hosts
  /\ MaxTries \in Nat \ {0} /\ MaxRedirects \in Nat

VARIABLES
  asked,   \* the method the caller asked for, and whether it accepts error statuses
  hop,     \* the request on its way: its step, method and host, the attempts made
           \* at this hop, the redirects followed
  \* History, read by no step of the client:
  reached, \* hosts that have been sent the request
  effects, \* how often what was asked has been carried out
  sends    \* how often it has been sent

httpVars == <<asked, hop, reached, effects, sends>>

Methods    == {"GET", "PUT", "POST"}
Idempotent == {"GET", "PUT"}
Ended      == {"returned", "refused", "raised"}

HttpInit ==
  /\ asked = [method |-> "GET", accepts |-> FALSE]
  /\ hop = [step |-> "raised", method |-> "GET", host |-> CHOOSE h \in Hosts : TRUE,
            attempts |-> 0, redirects |-> 0]
  /\ reached = {} /\ effects = 0 /\ sends = 0

EndAs(step) == hop' = [hop EXCEPT !.step = step]

\* The hop to another host, unless _check_url denies it.
Hop(method, host, redirects) ==
  hop' = [step |-> IF host \in Allowlist THEN "sending" ELSE "raised",
          method |-> method, host |-> host, attempts |-> 0, redirects |-> redirects]

Request(method, host, accepts) ==
  /\ hop.step \in Ended
  /\ asked' = [method |-> method, accepts |-> accepts]
  /\ Hop(method, host, 0)
  /\ reached' = {} /\ effects' = 0 /\ sends' = 0

SendRequest ==
  /\ hop.step = "sending"
  /\ hop' = [hop EXCEPT !.step = "sent", !.attempts = @ + 1]
  /\ reached' = reached \cup {hop.host}
  /\ sends' = sends + 1
  /\ UNCHANGED <<asked, effects>>

\* The server does what this hop says; a GET that follows a 303 does nothing.
CarriesOut == effects' = IF hop.method = asked.method THEN effects + 1 ELSE effects

MayCarryOut == CarriesOut \/ UNCHANGED effects

AnswerArrives == hop.step = "sent" /\ UNCHANGED <<asked, reached, sends>>

Replies == AnswerArrives /\ CarriesOut /\ EndAs("returned")

\* What becomes of an answer with an error status.
ErrorStatus == EndAs(IF asked.accepts THEN "refused" ELSE "raised")

Refuses == AnswerArrives /\ ErrorStatus /\ UNCHANGED effects

\* Planted fault: every method is repeated.
AttemptsLeft_AnyMethod == hop.attempts < MaxTries

AttemptsLeft == hop.method \in Idempotent /\ hop.attempts < MaxTries

\* An httpx.HTTPError.
TransportFails ==
  /\ AnswerArrives /\ MayCarryOut
  /\ EndAs(IF AttemptsLeft THEN "sending" ELSE "raised")

\* 429 and 5xx; the last of them is an answer like any other.
ServerBusy ==
  /\ AnswerArrives /\ MayCarryOut
  /\ IF AttemptsLeft THEN EndAs("sending") ELSE ErrorStatus

\* Planted fault: following a redirect is not counted.
Redirects_Uncounted(host) ==
  /\ AnswerArrives /\ UNCHANGED effects
  /\ Hop(hop.method, host, hop.redirects)

\* 301, 302, 307 and 308.
Redirects(host) ==
  /\ AnswerArrives /\ UNCHANGED effects
  /\ IF hop.redirects < MaxRedirects THEN Hop(hop.method, host, hop.redirects + 1) ELSE EndAs("raised")

\* 303: done, the result is elsewhere.
SeeOther(host) ==
  /\ AnswerArrives /\ CarriesOut
  /\ IF hop.redirects < MaxRedirects THEN Hop("GET", host, hop.redirects + 1) ELSE EndAs("raised")

\* A redirect without a Location, after its effect or not.
NoLocation == AnswerArrives /\ MayCarryOut /\ EndAs("raised")

HttpNext ==
  \/ \E method \in Methods, host \in Hosts, accepts \in BOOLEAN : Request(method, host, accepts)
  \/ SendRequest
  \/ Replies \/ Refuses \/ TransportFails \/ ServerBusy \/ NoLocation
  \/ \E host \in Hosts : Redirects(host) \/ SeeOther(host)

HttpSpec == HttpInit /\ [][HttpNext]_httpVars

\* A method that must not be repeated is carried out at most once whatever is
\* repeated and redirected, and an answer returned as a success says that what
\* was asked has been carried out, also when it comes from a later hop.
CarriedOutOnce ==
  /\ asked.method \notin Idempotent => effects <= 1
  /\ hop.step = "returned" => effects > 0

\* A request ends: however servers fail and send each other the request, it is
\* sent at most a fixed number of times, to hosts of the allowlist only.
RequestBounded ==
  /\ sends <= MaxTries * (MaxRedirects + 1)
  /\ reached \subseteq Allowlist
==============================================================================
