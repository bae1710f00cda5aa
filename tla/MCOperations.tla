----------------------------- MODULE MCOperations -----------------------------
\* What the operator is told and can order, and what is sent about a person and how,
\* for TLC.  The parts share no state, so each behaviour exercises one of them and
\* leaves the others alone.
EXTENDS StatusPage, KillSwitch, AccessKeys, Mapping, HttpClient

VARIABLE subject

MCNames  == {<<>>, <<"Ann">>, <<"Ann", "Lee">>}
MCDomain == [e \in Addresses |-> CASE e = 1 -> "mail" [] e = 2 -> "firm" [] e = 3 -> NoText [] OTHER -> Missing]

ALead  == [name |-> <<>>, email |-> 1, company |-> NoName]
AnEvent == [attendees |-> <<>>, organizer |-> Absent, summary_name |-> NoName, description |-> <<>>]

OperationsInit ==
  /\ subject \in {"backup", "page", "switch", "access", "mapping", "request"}
  /\ PageInit /\ SwitchInit /\ AccessInit /\ HttpInit
  /\ subject # "switch" => ~kill_switch
  /\ subject # "access" => published = {} /\ \A v \in Validations : kid[v] = CHOOSE k \in SigningKeys : TRUE
  /\ IF subject = "mapping" THEN MappingInit /\ (lead = ALead \/ event = AnEvent)
                            ELSE lead = ALead /\ event = AnEvent

OperationsNext ==
  /\ UNCHANGED subject
  /\ \/ subject = "backup" /\ HealthNext /\ UNCHANGED <<pageVars, switchVars, accessVars, mappingVars, httpVars>>
     \/ subject = "page" /\ StatusNext /\ UNCHANGED <<switchVars, accessVars, mappingVars, httpVars>>
     \/ subject = "switch" /\ SwitchNext /\ UNCHANGED <<statusVars, accessVars, mappingVars, httpVars>>
     \/ subject = "access" /\ AccessNext /\ UNCHANGED <<statusVars, switchVars, mappingVars, httpVars>>
     \/ subject = "mapping" /\ ListAgain /\ UNCHANGED <<statusVars, switchVars, accessVars, httpVars>>
     \/ subject = "request" /\ HttpNext /\ UNCHANGED <<statusVars, switchVars, accessVars, mappingVars>>

OperationsSpec ==
  OperationsInit /\ [][OperationsNext]_<<subject, statusVars, switchVars, accessVars, mappingVars, httpVars>>
==============================================================================
