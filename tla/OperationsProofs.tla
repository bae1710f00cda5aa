--------------------------- MODULE OperationsProofs ---------------------------
(***************************************************************************)
(* Theorems about the parts the run of MCOperations puts side by side, for *)
(* every value of their constants: the two caches (of the kill switch and  *)
(* of the signing keys), the controlled HTTP client and the mapping of     *)
(* persons.  Both proofs about caches turn on the same fact: an answer is  *)
(* stamped with a time at or before the moment it was true.                *)
(***************************************************************************)
EXTENDS KillSwitch, AccessKeys, Mapping, HttpClient, SequenceTheorems, WellFoundedInduction, TLAPS

------------------------------------------------------------------------------
(* The kill switch.                                                          *)

LEMMA SwitchTypeInit == SwitchInit => SwitchTypeOK
<1> SUFFICES ASSUME SwitchInit PROVE SwitchTypeOK
  OBVIOUS
<1> USE SwitchAssumption DEF SwitchInit, Clocks
<1>1. switch_cache \in [at : Clocks, on : SUBSET BOOLEAN]
  BY DEF Empty
<1>2. held \in [BOOLEAN -> Clocks \cup {Unheld}]
  BY DEF Unheld
<1>3. asking \in [Askers -> {"idle", "reading", "read", "cached"}] /\ asked_at \in [Askers -> Clocks]
  OBVIOUS
<1>4. read_value \in [Askers -> BOOLEAN]
  BY Zenon
<1>5. kill_switch \in BOOLEAN /\ setting \in BOOLEAN
  BY Zenon
<1>6. clock \in Clocks
  OBVIOUS
<1> QED
  BY <1>1, <1>2, <1>3, <1>4, <1>5, <1>6 DEF SwitchTypeOK

LEMMA SwitchTypeNext == SwitchTypeOK /\ [SwitchNext]_switchVars => SwitchTypeOK'
<1> SUFFICES ASSUME SwitchTypeOK, [SwitchNext]_switchVars PROVE SwitchTypeOK'
  OBVIOUS
<1> USE SwitchAssumption DEF SwitchTypeOK, Clocks
<1>0. ASSUME NEW r \in Askers, FromCache(r) \/ CachedAnswerUsed(r) PROVE SwitchTypeOK'
  <2>1. \A on \in switch_cache.on : on \in BOOLEAN
    OBVIOUS
  <2>2. read_value' \in [Askers -> BOOLEAN]
    BY <1>0, <2>1 DEF FromCache, CachedAnswerUsed
  <2> QED
    BY <1>0, <2>2 DEF FromCache, CachedAnswerUsed
<1>1. ASSUME NEW r \in Askers, Ask(r) PROVE SwitchTypeOK'
  BY <1>1 DEF Ask
<1>2. ASSUME NEW r \in Askers, Read(r) PROVE SwitchTypeOK'
  BY <1>2 DEF Read
<1>3. ASSUME NEW r \in Askers, ReadRaises(r) PROVE SwitchTypeOK'
  BY <1>3 DEF ReadRaises
<1>4. ASSUME NEW r \in Askers, Answer(r) PROVE SwitchTypeOK'
  <2>1. {read_value[r]} \subseteq BOOLEAN
    OBVIOUS
  <2>2. switch_cache' \in [at : Clocks, on : SUBSET BOOLEAN]
    BY <1>4, <2>1 DEF Answer
  <2> QED
    BY <1>4, <2>2 DEF Answer
<1>5. ASSUME NEW on \in BOOLEAN, StoreElsewhere(on) PROVE SwitchTypeOK'
  BY <1>5 DEF StoreElsewhere
<1>6. ASSUME NEW on \in BOOLEAN, StoreHere(on) PROVE SwitchTypeOK'
  <2>1. setting' \in BOOLEAN
    BY <1>6, Zenon DEF StoreHere
  <2> QED
    BY <1>6, <2>1 DEF StoreHere
<1>7. CASE DropCache
  <2>1. switch_cache' \in [at : Clocks, on : SUBSET BOOLEAN]
    BY <1>7 DEF DropCache, Empty
  <2> QED
    BY <1>7, <2>1 DEF DropCache
<1>8. CASE ClockAdvances
  BY <1>8 DEF ClockAdvances
<1>9. CASE UNCHANGED switchVars
  BY <1>9 DEF switchVars
<1> QED
  BY <1>0, <1>1, <1>2, <1>3, <1>4, <1>5, <1>6, <1>7, <1>8, <1>9 DEF SwitchNext

\* A moment when the value was stored is never in the future and, for the value
\* stored now, is now; tasks and cache hold answers that were true at or after
\* the time on their stamp.
SwitchInv ==
  /\ SwitchTypeOK
  /\ held[kill_switch] = clock
  /\ \A v \in BOOLEAN : held[v] <= clock
  /\ \A r \in Askers : asked_at[r] <= clock
  /\ \A r \in Askers : asking[r] = "read" => held[read_value[r]] >= asked_at[r]
  /\ \A v \in switch_cache.on : held[v] >= switch_cache.at

LEMMA SwitchInvInit == SwitchInit => SwitchInv
  BY SwitchTypeInit, SwitchAssumption DEF SwitchInit, SwitchInv, Empty, Unheld

\* Time on the stamps only falls behind time in held.
LEMMA SwitchInvNext == SwitchInv /\ [SwitchNext]_switchVars => SwitchInv'
<1> SUFFICES ASSUME SwitchInv, [SwitchNext]_switchVars PROVE SwitchInv'
  OBVIOUS
<1>0. SwitchTypeOK'
  BY SwitchTypeNext DEF SwitchInv
<1>t. /\ clock \in Nat
      /\ switch_cache.at \in Nat
      /\ switch_cache.on \subseteq BOOLEAN
      /\ \A r \in Askers : asked_at[r] \in Nat /\ read_value[r] \in BOOLEAN
      /\ \A v \in BOOLEAN : held[v] \in Int
  BY DEF SwitchInv, SwitchTypeOK, Clocks, Unheld
<1> USE <1>0, <1>t DEF SwitchInv, SwitchTypeOK
<1>10. ASSUME NEW r \in Askers, FromCache(r) \/ CachedAnswerUsed(r) PROVE SwitchInv'
  BY <1>10 DEF FromCache, CachedAnswerUsed
<1>1. ASSUME NEW r \in Askers, Ask(r) PROVE SwitchInv'
  BY <1>1 DEF Ask
<1>2. ASSUME NEW r \in Askers, Read(r) PROVE SwitchInv'
  BY <1>2 DEF Read
<1>3. ASSUME NEW r \in Askers, ReadRaises(r) PROVE SwitchInv'
  BY <1>3 DEF ReadRaises
<1>4. ASSUME NEW r \in Askers, Answer(r) PROVE SwitchInv'
  <2>1. \A v \in (switch_cache').on : v = read_value[r]
    BY <1>4 DEF Answer
  <2>2. (switch_cache').at = asked_at[r]
    BY <1>4 DEF Answer
  <2>3. held[read_value[r]] >= asked_at[r]
    BY <1>4 DEF Answer
  <2>4. \A v \in (switch_cache').on : held'[v] >= (switch_cache').at
    <3>1. held' = held
      BY <1>4 DEF Answer
    <3> QED
      BY <2>1, <2>2, <2>3, <3>1
  <2>5. \A q \in Askers : asking'[q] = "read" => held'[read_value'[q]] >= asked_at'[q]
    BY <1>4 DEF Answer
  <2>6. \A q \in Askers : asked_at'[q] <= clock'
    BY <1>4, SwitchAssumption DEF Answer
  <2>7. /\ held'[kill_switch'] = clock'
        /\ \A v \in BOOLEAN : held'[v] <= clock'
    BY <1>4 DEF Answer
  <2> QED
    BY <2>4, <2>5, <2>6, <2>7
<1>5. ASSUME NEW on \in BOOLEAN, StoreElsewhere(on) PROVE SwitchInv'
  BY <1>5 DEF StoreElsewhere
<1>6. ASSUME NEW on \in BOOLEAN, StoreHere(on) PROVE SwitchInv'
  BY <1>6 DEF StoreHere
<1>7. CASE DropCache
  BY <1>7 DEF DropCache, Empty
<1>8. CASE ClockAdvances
  BY <1>8 DEF ClockAdvances
<1>9. CASE UNCHANGED switchVars
  BY <1>9 DEF switchVars
<1> QED
  BY <1>1, <1>2, <1>3, <1>4, <1>5, <1>6, <1>7, <1>8, <1>9, <1>10 DEF SwitchNext

LEMMA SwitchInvariant == SwitchSpec => []SwitchInv
<1> QED
  BY SwitchInvInit, SwitchInvNext, PTL DEF SwitchSpec

\* Types of the kill switch's cache and its tasks (state.py, kill_switch_active).
THEOREM SwitchTypes == SwitchSpec => []SwitchTypeOK
<1>1. SwitchInv => SwitchTypeOK
  BY DEF SwitchInv
<1> QED
  BY <1>1, SwitchInvariant, PTL

\* The cached switch is never older than the window, however many tasks miss the
\* cache at once and in whatever order their reads return (state.py, get and set).
THEOREM SwitchFresh == SwitchSpec => []SwitchNotStale
<1>1. SwitchInv => SwitchNotStale
  <2> SUFFICES ASSUME SwitchInv PROVE SwitchNotStale
    OBVIOUS
  <2>1. clock \in Nat /\ switch_cache.at \in Nat /\ switch_cache.on \subseteq BOOLEAN
    BY DEF SwitchInv, SwitchTypeOK, Clocks
  <2>2. \A v \in BOOLEAN : held[v] \in Int
    BY DEF SwitchInv, SwitchTypeOK, Clocks, Unheld
  <2> QED
    BY <2>1, <2>2, SwitchAssumption DEF SwitchInv, SwitchNotStale, CacheAnswers, Visible, Unheld
<1> QED
  BY <1>1, SwitchInvariant, PTL

\* What the cache answers while it answers, and what the database answers, is
\* visible: this is where the stamp of an answer matters.
LEMMA AnswersVisible ==
  ASSUME SwitchInv
  PROVE  /\ kill_switch \in Visible
         /\ CacheAnswers => switch_cache.on \subseteq Visible
<1>1. /\ clock \in Nat /\ SwitchWindow \in Nat \ {0} /\ kill_switch \in BOOLEAN
      /\ switch_cache.at \in Nat /\ switch_cache.on \subseteq BOOLEAN
      /\ \A v \in BOOLEAN : held[v] \in Int
  BY SwitchAssumption DEF SwitchInv, SwitchTypeOK, Clocks, Unheld
<1> QED
  BY <1>1 DEF SwitchInv, CacheAnswers, Visible, Unheld

\* The stored value is always one of the visible ones, a value leaves them only
\* when a window has passed without it, and every answer is one of them.
LEMMA SwitchStepIsViewStep ==
  ASSUME SwitchInv, [SwitchNext]_switchVars
  PROVE  [View!ViewNext]_View!viewVars
<1>t. /\ clock \in Nat /\ SwitchWindow \in Nat \ {0} /\ kill_switch \in BOOLEAN
      /\ held \in [BOOLEAN -> Int]
      /\ held[kill_switch] = clock
  BY SwitchAssumption DEF SwitchInv, SwitchTypeOK, Clocks, Unheld
<1>1. CASE UNCHANGED <<kill_switch, held, clock, Told>>
  BY <1>1 DEF View!viewVars, Visible
<1>2. ASSUME NEW on \in BOOLEAN, StoreElsewhere(on) \/ StoreHere(on)
      PROVE  View!ViewNext
  <2>1. kill_switch' = on /\ held' = [held EXCEPT ![on] = clock] /\ clock' = clock
    BY <1>2 DEF StoreElsewhere, StoreHere
  <2>2. \A v \in BOOLEAN : held'[v] = IF v = on THEN clock ELSE held[v]
    BY <1>t, <2>1
  <2>3. Visible' = Visible \cup {on}
    BY <1>t, <2>1, <2>2 DEF Visible, Unheld
  <2>4. UNCHANGED Told
    BY <1>2 DEF StoreElsewhere, StoreHere, Told
  <2> QED
    BY <2>1, <2>3, <2>4 DEF View!ViewNext, View!Store
<1>3. CASE ClockAdvances
  <2>1. kill_switch' = kill_switch /\ clock' = clock + 1
        /\ \A v \in BOOLEAN : held'[v] = IF v = kill_switch THEN clock + 1 ELSE held[v]
    BY <1>3, <1>t DEF ClockAdvances
  <2>2. kill_switch \in Visible /\ kill_switch \in Visible'
    BY <1>t, <2>1 DEF Visible, Unheld
  <2>3. \A v \in BOOLEAN \ {kill_switch} : v \in Visible' => v \in Visible
    BY <1>t, <2>1 DEF Visible, Unheld
  <2>4. Visible \subseteq BOOLEAN /\ Visible' \subseteq BOOLEAN
    BY DEF Visible
  <2>5. Visible' = Visible \/ Visible' = {kill_switch}
    <3>1. PICK other \in BOOLEAN : other # kill_switch /\ BOOLEAN = {kill_switch, other}
      <4>1. CASE kill_switch = TRUE
        BY <4>1
      <4>2. CASE kill_switch = FALSE
        BY <4>2
      <4> QED
        BY <1>t, <4>1, <4>2
    <3>2. CASE other \in Visible'
      BY <2>2, <2>3, <2>4, <3>1, <3>2
    <3>3. CASE other \notin Visible'
      BY <2>2, <2>4, <3>1, <3>3
    <3> QED
      BY <3>2, <3>3
  <2>6. UNCHANGED Told
    BY <1>3 DEF ClockAdvances, Told
  <2> QED
    BY <2>1, <2>5, <2>6 DEF View!ViewNext, View!Forget, View!viewVars
<1>4. ASSUME NEW r \in Askers, Read(r) \/ FromCache(r) PROVE View!ViewNext
  <2>1. PICK on \in Visible : read_value' = [read_value EXCEPT ![r] = on]
    BY <1>4, AnswersVisible DEF Read, FromCache
  <2>2. on \in BOOLEAN
    BY DEF Visible
  <2>3. UNCHANGED <<kill_switch, Visible>>
    BY <1>4 DEF Read, FromCache, Visible
  <2>4. Told[r] = {} /\ Told' = [Told EXCEPT ![r] = {on}]
    BY <1>4, <2>1 DEF Read, FromCache, Told, SwitchInv, SwitchTypeOK
  <2> QED
    BY <2>2, <2>3, <2>4 DEF View!ViewNext, View!Tell
<1>5. ASSUME NEW r \in Askers, Answer(r) \/ CachedAnswerUsed(r) PROVE View!ViewNext
  <2>1. UNCHANGED <<kill_switch, Visible>>
    BY <1>5 DEF Answer, CachedAnswerUsed, Visible
  <2>2. Told' = [Told EXCEPT ![r] = {}]
    BY <1>5 DEF Answer, CachedAnswerUsed, Told, SwitchInv, SwitchTypeOK
  <2> QED
    BY <2>1, <2>2 DEF View!ViewNext, View!Finish
<1>6. ASSUME NEW r \in Askers, Ask(r) \/ ReadRaises(r)
      PROVE  UNCHANGED <<kill_switch, held, clock, Told>>
  BY <1>6 DEF Ask, ReadRaises, Told, SwitchInv, SwitchTypeOK
<1>7. CASE DropCache \/ UNCHANGED switchVars
  BY <1>1, <1>7 DEF DropCache, switchVars, Told
<1> QED
  BY <1>1, <1>2, <1>3, <1>4, <1>5, <1>6, <1>7 DEF SwitchNext

\* For every number of tasks and every window: whatever a task is answered, by the
\* database or by a cache that other tasks fill and set() drops, is a value that
\* was stored within the last window, and that is all SwitchView promises and the
\* guard builds on (state.py, kill_switch_on).
THEOREM SwitchImplementsView == SwitchSpec => ImplementsView
<1>1. SwitchInit => View!ViewInit
  <2> SUFFICES ASSUME SwitchInit PROVE View!ViewInit
    OBVIOUS
  <2>1. kill_switch \in BOOLEAN /\ clock = 0
        /\ \A v \in BOOLEAN : held[v] = IF v = kill_switch THEN 0 ELSE Unheld
    BY DEF SwitchInit
  <2>2. Visible = {kill_switch}
    BY <2>1, SwitchAssumption DEF Visible, Unheld
  <2>3. Told = [r \in Askers |-> {}]
    BY DEF SwitchInit, Told
  <2> QED
    BY <2>1, <2>2, <2>3 DEF View!ViewInit
<1>2. SwitchInv /\ [SwitchNext]_switchVars => [View!ViewNext]_View!viewVars
  BY SwitchStepIsViewStep
<1> QED
  BY <1>1, <1>2, SwitchInvariant, PTL DEF SwitchSpec, ImplementsView, View!ViewSpec

------------------------------------------------------------------------------
(* The signing keys.                                                         *)

USE DEF Become, callVars

LEMMA AccessTypeInit == AccessInit => AccessTypeOK
<1> SUFFICES ASSUME AccessInit PROVE AccessTypeOK
  OBVIOUS
<1> USE KeyAssumption DEF AccessInit, Times, Stages
<1>1. cached \in [at : Times, keys : SUBSET SigningKeys]
  OBVIOUS
<1>2. last_seen \in [SigningKeys -> Times \cup {Unseen}]
  BY DEF Unseen
<1>3. force \in [Validations -> BOOLEAN]
  BY Zenon
<1>4. /\ stage \in [Validations -> Stages]
      /\ begun \in [Validations -> Times]
      /\ document \in [Validations -> SUBSET SigningKeys]
  OBVIOUS
<1>5. /\ published \in SUBSET SigningKeys
      /\ time \in Times
      /\ lock \in SUBSET Validations
      /\ kid \in [Validations -> SigningKeys]
      /\ missed \in SUBSET Validations
  OBVIOUS
<1> QED
  BY <1>1, <1>2, <1>3, <1>4, <1>5 DEF AccessTypeOK

\* The outcome of a lookup is well typed.
LEMMA LookUpTyped ==
  ASSUME AccessTypeOK, NEW v \in Validations, NEW keys \in SUBSET SigningKeys, LookUp(v, keys)
  PROVE  stage' \in [Validations -> Stages] /\ force' \in [Validations -> BOOLEAN]
<1>1. (kid[v] \notin keys) \in BOOLEAN
  OBVIOUS
<1>2. force' \in [Validations -> BOOLEAN]
  BY <1>1 DEF LookUp, AccessTypeOK
<1>3. stage' \in [Validations -> Stages]
  BY DEF LookUp, AccessTypeOK, Stages
<1> QED
  BY <1>2, <1>3

LEMMA AccessTypeNext == AccessTypeOK /\ [AccessNext]_accessVars => AccessTypeOK'
<1> SUFFICES ASSUME AccessTypeOK, [AccessNext]_accessVars PROVE AccessTypeOK'
  OBVIOUS
<1> USE KeyAssumption DEF AccessTypeOK, Times
<1>1. ASSUME NEW v \in Validations, Begin(v) PROVE AccessTypeOK'
  BY <1>1 DEF Begin, Stages
<1>2. ASSUME NEW v \in Validations, EnterFromCache(v) PROVE AccessTypeOK'
  <2>1. stage' \in [Validations -> Stages] /\ force' \in [Validations -> BOOLEAN]
    BY <1>2, LookUpTyped DEF EnterFromCache
  <2> QED
    BY <1>2, <2>1 DEF EnterFromCache
<1>3. ASSUME NEW v \in Validations, EnterToFetch(v) PROVE AccessTypeOK'
  BY <1>3 DEF EnterToFetch, Stages
<1>4. ASSUME NEW v \in Validations, Serve(v) PROVE AccessTypeOK'
  BY <1>4 DEF Serve, Stages
<1>5. ASSUME NEW v \in Validations, Arrive(v) PROVE AccessTypeOK'
  <2>1. stage' \in [Validations -> Stages] /\ force' \in [Validations -> BOOLEAN]
    BY <1>5, LookUpTyped DEF Arrive
  <2>2. cached' \in [at : Times, keys : SUBSET SigningKeys]
    BY <1>5 DEF Arrive
  <2> QED
    BY <1>5, <2>1, <2>2 DEF Arrive
<1>6. ASSUME NEW v \in Validations, FetchRaises(v) PROVE AccessTypeOK'
  BY <1>6 DEF FetchRaises, Stages
<1>7. ASSUME NEW keys \in SUBSET SigningKeys, Rotate(keys) PROVE AccessTypeOK'
  BY <1>7 DEF Rotate
<1>8. CASE TimePasses
  BY <1>8 DEF TimePasses
<1>9. CASE UNCHANGED accessVars
  BY <1>9 DEF accessVars
<1> QED
  BY <1>1, <1>2, <1>3, <1>4, <1>5, <1>6, <1>7, <1>8, <1>9 DEF AccessNext

\* A validation has begun before its key goes missing, and what it was served
\* lacks its key only if the key was missing then.
KnownInv ==
  /\ AccessTypeOK
  /\ \A v \in Validations :
       /\ stage[v] # "none" /\ kid[v] \notin published => v \in missed
       /\ stage[v] = "served" /\ kid[v] \notin document[v] => v \in missed
       /\ stage[v] = "unknown" => v \in missed

\* Stamps fall behind: every key in the cache, and every key served to a
\* validation, was published at or after the time it is stamped with.
StampInv ==
  /\ AccessTypeOK
  /\ \A k \in published : last_seen[k] = time
  /\ \A k \in SigningKeys : last_seen[k] <= time
  /\ \A v \in Validations : begun[v] <= time
  /\ \A k \in cached.keys : last_seen[k] >= cached.at
  /\ \A v \in Validations : \A k \in document[v] :
       stage[v] = "served" /\ last_seen[k] >= begun[v]

LEMMA KnownInit == AccessInit => KnownInv
  BY AccessTypeInit DEF KnownInv, AccessInit

\* A key goes missing in a rotation, which every validation under way notes.
LEMMA KnownNext == KnownInv /\ [AccessNext]_accessVars => KnownInv'
<1> SUFFICES ASSUME KnownInv, [AccessNext]_accessVars PROVE KnownInv'
  OBVIOUS
<1>0. AccessTypeOK'
  BY AccessTypeNext DEF KnownInv
<1> USE <1>0 DEF KnownInv, AccessTypeOK
<1>1. ASSUME NEW v \in Validations, Begin(v) PROVE KnownInv'
  BY <1>1 DEF Begin
<1>2. ASSUME NEW v \in Validations, EnterFromCache(v) PROVE KnownInv'
  BY <1>2 DEF EnterFromCache, LookUp, MayUseCache
<1>3. ASSUME NEW v \in Validations, EnterToFetch(v) PROVE KnownInv'
  BY <1>3 DEF EnterToFetch
<1>4. ASSUME NEW v \in Validations, Serve(v) PROVE KnownInv'
  BY <1>4 DEF Serve
<1>5. ASSUME NEW v \in Validations, Arrive(v) PROVE KnownInv'
  BY <1>5 DEF Arrive, LookUp
<1>6. ASSUME NEW v \in Validations, FetchRaises(v) PROVE KnownInv'
  BY <1>6 DEF FetchRaises
<1>7. ASSUME NEW keys \in SUBSET SigningKeys, Rotate(keys) PROVE KnownInv'
  BY <1>7 DEF Rotate
<1>8. CASE TimePasses
  BY <1>8 DEF TimePasses
<1>9. CASE UNCHANGED accessVars
  BY <1>9 DEF accessVars
<1> QED
  BY <1>1, <1>2, <1>3, <1>4, <1>5, <1>6, <1>7, <1>8, <1>9 DEF AccessNext

LEMMA StampInit == AccessInit => StampInv
  BY AccessTypeInit, KeyAssumption DEF StampInv, AccessInit, Unseen

\* Only the moment of publication moves forward, never a stamp.
LEMMA StampNext == StampInv /\ [AccessNext]_accessVars => StampInv'
<1> SUFFICES ASSUME StampInv, [AccessNext]_accessVars PROVE StampInv'
  OBVIOUS
<1>0. AccessTypeOK'
  BY AccessTypeNext DEF StampInv
<1>t. /\ time \in Nat /\ cached.at \in Nat
      /\ cached.keys \subseteq SigningKeys /\ published \subseteq SigningKeys
      /\ \A v \in Validations : begun[v] \in Nat /\ document[v] \subseteq SigningKeys
      /\ \A k \in SigningKeys : last_seen[k] \in Int
  BY DEF StampInv, AccessTypeOK, Times, Unseen
<1> USE <1>0, <1>t DEF StampInv, AccessTypeOK
<1>1. ASSUME NEW v \in Validations, Begin(v) PROVE StampInv'
  BY <1>1 DEF Begin
<1>2. ASSUME NEW v \in Validations, EnterFromCache(v) PROVE StampInv'
  BY <1>2 DEF EnterFromCache, LookUp
<1>3. ASSUME NEW v \in Validations, EnterToFetch(v) PROVE StampInv'
  BY <1>3 DEF EnterToFetch
<1>4. ASSUME NEW v \in Validations, Serve(v) PROVE StampInv'
  BY <1>4 DEF Serve
<1>5. ASSUME NEW v \in Validations, Arrive(v) PROVE StampInv'
  <2>1. \A k \in document[v] : last_seen[k] >= begun[v]
    OBVIOUS
  <2>2. \A k \in (cached').keys : last_seen'[k] >= (cached').at
    BY <1>5, <2>1 DEF Arrive
  <2> QED
    BY <1>5, <2>2 DEF Arrive, LookUp
<1>6. ASSUME NEW v \in Validations, FetchRaises(v) PROVE StampInv'
  BY <1>6 DEF FetchRaises
<1>7. ASSUME NEW keys \in SUBSET SigningKeys, Rotate(keys) PROVE StampInv'
  BY <1>7 DEF Rotate
<1>8. CASE TimePasses
  BY <1>8 DEF TimePasses
<1>9. CASE UNCHANGED accessVars
  BY <1>9 DEF accessVars
<1> QED
  BY <1>1, <1>2, <1>3, <1>4, <1>5, <1>6, <1>7, <1>8, <1>9 DEF AccessNext

LEMMA StampInvariant == AccessSpec => []StampInv
<1> QED
  BY StampInit, StampNext, PTL DEF AccessSpec

\* Types of the key cache and of the validations (access.py).
THEOREM AccessTypes == AccessSpec => []AccessTypeOK
<1>1. StampInv => AccessTypeOK
  BY DEF StampInv
<1> QED
  BY <1>1, StampInvariant, PTL

\* A published key is never called unknown (access.py, the second, forced look).
THEOREM KnownStayKnown == AccessSpec => []PublishedKeysKnown
<1>1. KnownInv => PublishedKeysKnown
  BY DEF KnownInv, PublishedKeysKnown
<1> QED
  BY <1>1, KnownInit, KnownNext, PTL DEF AccessSpec

\* What RetiredKeysExpire asks of one step.
AcceptsInTime ==
  \A v \in Validations : stage'[v] = "accepted" /\ stage[v] # "accepted" =>
    IF stage[v] = "served" THEN last_seen[kid[v]] >= begun[v]
                           ELSE last_seen[kid[v]] > time - KeyWindow

LEMMA AcceptStep == StampInv /\ [AccessNext]_accessVars => AcceptsInTime
<1> SUFFICES ASSUME StampInv, [AccessNext]_accessVars PROVE AcceptsInTime
  OBVIOUS
<1>t. /\ time \in Nat /\ cached.at \in Nat /\ cached.keys \subseteq SigningKeys
      /\ stage \in [Validations -> Stages]
      /\ \A k \in SigningKeys : last_seen[k] \in Int
  BY DEF StampInv, AccessTypeOK, Times, Unseen
<1> USE <1>t, KeyAssumption DEF AcceptsInTime
<1>1. ASSUME NEW v \in Validations, Begin(v) PROVE AcceptsInTime
  BY <1>1 DEF Begin
<1>2. ASSUME NEW v \in Validations, EnterFromCache(v) PROVE AcceptsInTime
  <2>1. \A u \in Validations \ {v} : stage'[u] = stage[u]
    BY <1>2 DEF EnterFromCache, LookUp
  <2>2. stage'[v] = "accepted" => kid[v] \in cached.keys
    BY <1>2 DEF EnterFromCache, LookUp
  <2>3. stage[v] = "waiting" /\ time - cached.at < KeyWindow
    BY <1>2 DEF EnterFromCache, MayUseCache
  <2>4. kid[v] \in cached.keys => last_seen[kid[v]] > time - KeyWindow
    BY <2>3 DEF StampInv
  <2> QED
    BY <2>1, <2>2, <2>3, <2>4
<1>3. ASSUME NEW v \in Validations, EnterToFetch(v) PROVE AcceptsInTime
  BY <1>3 DEF EnterToFetch
<1>4. ASSUME NEW v \in Validations, Serve(v) PROVE AcceptsInTime
  BY <1>4 DEF Serve
<1>5. ASSUME NEW v \in Validations, Arrive(v) PROVE AcceptsInTime
  <2>1. \A u \in Validations \ {v} : stage'[u] = stage[u]
    BY <1>5 DEF Arrive, LookUp
  <2>2. stage'[v] = "accepted" => kid[v] \in document[v]
    BY <1>5 DEF Arrive, LookUp
  <2>3. stage[v] = "served" /\ \A k \in document[v] : last_seen[k] >= begun[v]
    BY <1>5 DEF Arrive, StampInv
  <2> QED
    BY <2>1, <2>2, <2>3
<1>6. ASSUME NEW v \in Validations, FetchRaises(v) PROVE AcceptsInTime
  BY <1>6 DEF FetchRaises
<1>7. ASSUME NEW keys \in SUBSET SigningKeys, Rotate(keys) PROVE AcceptsInTime
  BY <1>7 DEF Rotate
<1>8. CASE TimePasses
  BY <1>8 DEF TimePasses
<1>9. CASE UNCHANGED accessVars
  BY <1>9 DEF accessVars
<1> QED
  BY <1>1, <1>2, <1>3, <1>4, <1>5, <1>6, <1>7, <1>8, <1>9 DEF AccessNext

\* A key that Cloudflare took back is accepted for one window at most, and not at
\* all by a validation that fetches after it went (access.py, _keys and validate).
THEOREM KeysExpire == AccessSpec => RetiredKeysExpire
<1>1. StampInv /\ [AccessNext]_accessVars => [AcceptsInTime]_accessVars
  BY AcceptStep
<1>2. AccessSpec => [][AcceptsInTime]_accessVars
  BY <1>1, StampInvariant, PTL DEF AccessSpec
<1> QED
  BY <1>2 DEF RetiredKeysExpire, AcceptsInTime

------------------------------------------------------------------------------
(* Requests of the controlled client.                                        *)

Live == hop.step \in {"sending", "sent"}

\* A host outside Hosts can only be the one the client rests at before its first
\* request, when there are no hosts.
Hops == [step : {"sending", "sent"} \cup Ended, method : Methods,
         host : Hosts \cup {CHOOSE h \in Hosts : TRUE},
         attempts : 0..MaxTries, redirects : 0..MaxRedirects]

HttpTypeOK ==
  /\ asked \in [method : Methods, accepts : BOOLEAN]
  /\ hop \in Hops
  /\ effects \in Nat /\ sends \in Nat

\* The requests left to a hop were not yet sent.
SendsCounted ==
  /\ hop.step = "sending" => hop.attempts < MaxTries
  /\ sends <= MaxTries * hop.redirects + hop.attempts

OnlyAllowed == reached \subseteq Allowlist /\ (Live => hop.host \in Allowlist)

\* While the method is still the one asked for, a request that must not be
\* repeated has not been carried out; it changes only when that is done.
DoneBefore ==
  Live => IF hop.method = asked.method THEN asked.method \notin Idempotent => effects = 0
                                       ELSE effects > 0

HttpInv == HttpTypeOK /\ SendsCounted /\ OnlyAllowed /\ DoneBefore /\ CarriedOutOnce

LEMMA HttpInvInit == HttpInit => HttpInv
<1> SUFFICES ASSUME HttpInit PROVE HttpInv
  OBVIOUS
<1>1. hop \in Hops
  BY HttpAssumption DEF HttpInit, Hops, Ended, Methods
<1> QED
  BY <1>1, HttpAssumption
  DEF HttpInit, HttpInv, HttpTypeOK, SendsCounted, OnlyAllowed, DoneBefore, CarriedOutOnce, Live, Methods,
      Idempotent

\* The hop counts its attempts from none, and the hop before it used no more than
\* its own.
LEMMA NextHop ==
  ASSUME HttpTypeOK, SendsCounted, hop.redirects < MaxRedirects
  PROVE  sends <= MaxTries * (hop.redirects + 1)
<1>1. sends \in Nat /\ MaxTries \in Nat /\ hop.redirects \in Nat /\ hop.attempts \in 0..MaxTries
  BY HttpAssumption DEF HttpTypeOK, Hops
<1> QED
  BY <1>1 DEF SendsCounted

LEMMA HttpInvNext == HttpInv /\ [HttpNext]_httpVars => HttpInv'
<1> SUFFICES ASSUME HttpInv, [HttpNext]_httpVars PROVE HttpInv'
  OBVIOUS
<1>t. HttpTypeOK /\ SendsCounted /\ OnlyAllowed /\ DoneBefore /\ CarriedOutOnce
  BY DEF HttpInv
<1>h. /\ MaxTries \in Nat \ {0} /\ MaxRedirects \in Nat
      /\ hop.attempts \in 0..MaxTries /\ hop.redirects \in 0..MaxRedirects
      /\ hop.method \in Methods /\ asked.method \in Methods /\ effects \in Nat /\ sends \in Nat
  BY <1>t, HttpAssumption DEF HttpTypeOK, Hops
<1>e. ASSUME NEW to \in Ended \cup {"sending"}, EndAs(to)
      PROVE  /\ hop' \in Hops /\ hop'.step = to /\ hop'.method = hop.method /\ hop'.host = hop.host
             /\ hop'.attempts = hop.attempts /\ hop'.redirects = hop.redirects
  BY <1>e, <1>t DEF EndAs, HttpTypeOK, Hops
<1>n. ASSUME NEW method \in Methods, NEW host \in Hosts, NEW redirects \in 0..MaxRedirects,
             Hop(method, host, redirects)
      PROVE  /\ hop' \in Hops /\ hop'.step \in {"sending", "raised"}
             /\ hop'.step = "sending" => host \in Allowlist
             /\ hop'.method = method /\ hop'.host = host
             /\ hop'.attempts = 0 /\ hop'.redirects = redirects
  BY <1>n, <1>h DEF Hop, Hops, Ended
<1>1. ASSUME NEW method \in Methods, NEW host \in Hosts, NEW accepts \in BOOLEAN, Request(method, host, accepts)
      PROVE  HttpInv'
  <2>1. Hop(method, host, 0) /\ 0 \in 0..MaxRedirects
    BY <1>1, <1>h DEF Request
  <2>2. asked' = [method |-> method, accepts |-> accepts] /\ reached' = {} /\ effects' = 0 /\ sends' = 0
    BY <1>1 DEF Request
  <2> QED
    BY <1>n, <1>h, <2>1, <2>2
    DEF HttpInv, HttpTypeOK, SendsCounted, OnlyAllowed, DoneBefore, CarriedOutOnce, Live, Ended
<1>2. CASE SendRequest
  <2>1. hop' = [hop EXCEPT !.step = "sent", !.attempts = @ + 1] /\ hop.attempts < MaxTries
    BY <1>2, <1>t DEF SendRequest, SendsCounted
  <2>2. /\ hop' \in Hops /\ hop'.step = "sent" /\ hop'.method = hop.method /\ hop'.host = hop.host
        /\ hop'.attempts = hop.attempts + 1 /\ hop'.redirects = hop.redirects
    <3>1. hop.attempts + 1 \in 0..MaxTries
      BY <1>h, <2>1
    <3>2. hop \in Hops
      BY <1>t DEF HttpTypeOK
    <3> QED
      BY <2>1, <3>1, <3>2 DEF Hops
  <2>3. /\ Live /\ sends' = sends + 1 /\ reached' = reached \cup {hop.host}
        /\ asked' = asked /\ effects' = effects
    BY <1>2 DEF SendRequest, Live
  <2>4. SendsCounted'
    BY <1>t, <1>h, <2>2, <2>3 DEF SendsCounted
  <2> QED
    BY <1>t, <1>h, <2>2, <2>3, <2>4
    DEF HttpInv, HttpTypeOK, OnlyAllowed, DoneBefore, CarriedOutOnce, Live
\* What an answer may do: end the request, repeat it, or send it elsewhere.
<1>3. ASSUME AnswerArrives, NEW to \in {"refused", "raised"}, EndAs(to), MayCarryOut PROVE HttpInv'
  <2>1. effects' \in Nat /\ (asked.method \notin Idempotent => effects' <= 1)
    BY <1>3, <1>t, <1>h DEF MayCarryOut, CarriesOut, AnswerArrives, DoneBefore, Live, CarriedOutOnce
  <2> QED
    BY <1>3, <1>e, <1>t, <1>h, <2>1
    DEF AnswerArrives, HttpInv, HttpTypeOK, SendsCounted, OnlyAllowed, DoneBefore, CarriedOutOnce, Live, Ended
<1>4. ASSUME AnswerArrives, AttemptsLeft, EndAs("sending"), MayCarryOut PROVE HttpInv'
  <2>1. effects' \in Nat /\ effects' >= effects
    BY <1>4, <1>h DEF MayCarryOut, CarriesOut
  <2>2. asked.method \notin Idempotent => effects' = effects /\ hop.method # asked.method
    BY <1>4 DEF AttemptsLeft, MayCarryOut, CarriesOut
  <2> QED
    BY <1>4, <1>e, <1>t, <1>h, <2>1, <2>2
    DEF AnswerArrives, AttemptsLeft, HttpInv, HttpTypeOK, SendsCounted, OnlyAllowed, DoneBefore,
        CarriedOutOnce, Live, Ended
<1>5. CASE Replies
  <2>1. effects' \in Nat /\ effects' > 0 /\ (asked.method \notin Idempotent => effects' <= 1)
    BY <1>5, <1>t, <1>h DEF Replies, CarriesOut, AnswerArrives, DoneBefore, Live, CarriedOutOnce
  <2> QED
    BY <1>5, <1>e, <1>t, <1>h, <2>1
    DEF Replies, AnswerArrives, HttpInv, HttpTypeOK, SendsCounted, OnlyAllowed, DoneBefore, CarriedOutOnce,
        Live, Ended
<1>6. ASSUME AnswerArrives, NEW method \in Methods, NEW host \in Hosts, hop.redirects < MaxRedirects,
             Hop(method, host, hop.redirects + 1), effects' \in Nat,
             asked.method \notin Idempotent => effects' <= 1,
             IF method = asked.method THEN asked.method \notin Idempotent => effects' = 0 ELSE effects' > 0
      PROVE  HttpInv'
  <2>1. hop.redirects + 1 \in 0..MaxRedirects
    BY <1>6, <1>h
  <2>2. SendsCounted'
    BY <1>6, <1>n, <1>t, <1>h, <2>1, NextHop DEF SendsCounted, AnswerArrives
  <2> QED
    BY <1>6, <1>n, <1>t, <1>h, <2>1, <2>2
    DEF AnswerArrives, HttpInv, HttpTypeOK, OnlyAllowed, DoneBefore, CarriedOutOnce, Live
<1>7. ASSUME NEW host \in Hosts, Redirects(host) PROVE HttpInv'
  <2>1. CASE hop.redirects < MaxRedirects
    BY <1>6, <1>7, <1>t, <1>h, <2>1 DEF Redirects, AnswerArrives, DoneBefore, CarriedOutOnce, Live
  <2>2. CASE ~(hop.redirects < MaxRedirects)
    BY <1>3, <1>7, <2>2 DEF Redirects, MayCarryOut
  <2> QED
    BY <2>1, <2>2
<1>8. ASSUME NEW host \in Hosts, SeeOther(host) PROVE HttpInv'
  <2>1. effects' \in Nat /\ effects' > 0 /\ (asked.method \notin Idempotent => effects' <= 1)
    BY <1>8, <1>t, <1>h DEF SeeOther, CarriesOut, AnswerArrives, DoneBefore, Live, CarriedOutOnce
  <2>2. CASE hop.redirects < MaxRedirects
    <3>1. "GET" \in Methods /\ "GET" \in Idempotent
      BY DEF Methods, Idempotent
    <3> QED
      BY <1>6, <1>8, <2>1, <2>2, <3>1 DEF SeeOther
  <2>3. CASE ~(hop.redirects < MaxRedirects)
    BY <1>3, <1>8, <2>3 DEF SeeOther, MayCarryOut
  <2> QED
    BY <2>2, <2>3
<1>9. CASE Refuses \/ TransportFails \/ ServerBusy \/ NoLocation
  <2>1. AnswerArrives /\ MayCarryOut
    BY <1>9 DEF Refuses, TransportFails, ServerBusy, NoLocation, MayCarryOut
  <2>2. \/ EndAs("refused") \/ EndAs("raised")
        \/ AttemptsLeft /\ EndAs("sending")
    BY <1>9 DEF Refuses, TransportFails, ServerBusy, NoLocation, ErrorStatus
  <2> QED
    BY <1>3, <1>4, <2>1, <2>2
<1>10. CASE UNCHANGED httpVars
  BY <1>10, <1>t
  DEF httpVars, HttpInv, HttpTypeOK, SendsCounted, OnlyAllowed, DoneBefore, CarriedOutOnce, Live
<1> QED
  BY <1>1, <1>2, <1>5, <1>7, <1>8, <1>9, <1>10 DEF HttpNext

LEMMA HttpInvariant == HttpSpec => []HttpInv
<1> QED
  BY HttpInvInit, HttpInvNext, PTL DEF HttpSpec

\* A POST is carried out at most once and a returned success was carried out,
\* for any number of attempts and redirects (http.py).
THEOREM RequestsCarriedOutOnce == HttpSpec => []CarriedOutOnce
<1>1. HttpInv => CarriedOutOnce
  BY DEF HttpInv
<1> QED
  BY <1>1, HttpInvariant, PTL

\* A request is sent at most MAX_ATTEMPTS times at each of MAX_REDIRECTS + 1 hops,
\* and to hosts of the allowlist only (http.py).
THEOREM RequestsBounded == HttpSpec => []RequestBounded
<1>1. HttpInv => RequestBounded
  <2> SUFFICES ASSUME HttpInv PROVE sends <= MaxTries * (MaxRedirects + 1)
    BY DEF HttpInv, RequestBounded, OnlyAllowed
  <2>1. /\ sends \in Nat /\ MaxTries \in Nat /\ MaxRedirects \in Nat
        /\ hop.redirects \in 0..MaxRedirects /\ hop.attempts \in 0..MaxTries
        /\ sends <= MaxTries * hop.redirects + hop.attempts
    BY HttpAssumption DEF HttpInv, HttpTypeOK, Hops, SendsCounted
  <2>2. MaxTries * hop.redirects <= MaxTries * MaxRedirects
    BY <2>1
  <2> QED
    BY <2>1, <2>2
<1> QED
  BY <1>1, HttpInvariant, PTL

------------------------------------------------------------------------------
(* The mapping of persons.                                                   *)

\* The least address sorted() puts first exists.
LEMMA AttendeeListed ==
  ASSUME NEW e, \A person \in Candidates(e) : person.email \in Addresses, Candidates(e) # {}
  PROVE  Attendee(e) \in Candidates(e)
<1> DEFINE Emails == {person.email : person \in Candidates(e)}
           Less == OpToRel(<, Nat)
<1>1. Emails \subseteq Nat /\ Emails # {}
  BY AddressAssumption
<1>2. IsWellFoundedOn(Less, Nat)
  BY NatLessThanWellFounded
<1>3. \A m, n \in Nat : m < n => <<m, n>> \in Less
  BY DEF OpToRel
<1> HIDE DEF Less
<1>4. PICK least \in Emails : \A email \in Emails : ~(<<email, least>> \in Less)
  <2> HIDE DEF Emails
  <2> QED
    BY <1>1, <1>2, WFMin
<1>5. PICK person \in Candidates(e) : person.email = least
  BY <1>4
<1>6. ASSUME NEW other \in Candidates(e) PROVE person.email <= other.email
  <2>1. other.email \in Nat /\ least \in Nat /\ ~(<<other.email, least>> \in Less)
    BY <1>1, <1>4
  <2>2. ~(other.email < least)
    BY <1>3, <2>1
  <2> QED
    BY <1>5, <2>1, <2>2
<1>7. \E first \in Candidates(e) : \A other \in Candidates(e) : first.email <= other.email
  BY <1>6
<1> QED
  BY <1>7, Zenon DEF Attendee

EventType == [attendees : Seq(Person), organizer : Addresses \cup {Absent},
              summary_name : Given, description : Seq(Lines)]

MappingTypeOK == lead \in Leads /\ event \in EventType

LEMMA MappingTypeInit == MappingInit => MappingTypeOK
<1>1. \A S, n : BoundedSeq(S, n) \subseteq Seq(S)
  BY DEF BoundedSeq, SeqOf
<1> QED
  BY <1>1 DEF MappingInit, MappingTypeOK, EventType

\* The event listed again has the same attendees and is otherwise as it was.
LEMMA ListedAgain ==
  ASSUME MappingTypeOK, ListAgain
  PROVE  /\ lead' = lead /\ event' \in EventType
         /\ ToSet(event'.attendees) = ToSet(event.attendees)
         /\ event'.organizer = event.organizer /\ event'.summary_name = event.summary_name
         /\ event'.description = event.description
<1> DEFINE listed == event.attendees
<1>1. listed \in Seq(Person) /\ event \in EventType
  BY DEF MappingTypeOK, EventType
<1>2. PICK order \in Bijection(DOMAIN listed, DOMAIN listed) :
        event' = [event EXCEPT !.attendees = [i \in DOMAIN listed |-> listed[order[i]]]]
  BY DEF ListAgain
<1>3. /\ order \in [DOMAIN listed -> DOMAIN listed]
      /\ \A i \in DOMAIN listed : \E j \in DOMAIN listed : order[j] = i
  BY DEF Bijection, Injection, Surjection
<1> DEFINE again == [i \in DOMAIN listed |-> listed[order[i]]]
<1>4. again \in Seq(Person)
  <2>1. DOMAIN listed = 1..Len(listed) /\ Len(listed) \in Nat /\ \A i \in DOMAIN listed : listed[i] \in Person
    BY <1>1
  <2>2. again \in [1..Len(listed) -> Person]
    BY <1>3, <2>1
  <2> QED
    BY <2>1, <2>2
<1>5. ToSet(again) = ToSet(listed)
  BY <1>3 DEF ToSet
<1>6. /\ event' \in EventType /\ event'.attendees = again
      /\ event'.organizer = event.organizer /\ event'.summary_name = event.summary_name
      /\ event'.description = event.description
  <2> HIDE DEF again
  <2> SUFFICES ASSUME event' = [event EXCEPT !.attendees = again]
               PROVE  /\ event' \in EventType /\ event'.attendees = again
                      /\ event'.organizer = event.organizer /\ event'.summary_name = event.summary_name
                      /\ event'.description = event.description
    BY <1>2 DEF again
  <2> QED
    BY <1>1, <1>4 DEF EventType
<1> QED
  BY <1>5, <1>6 DEF ListAgain

LEMMA MappingTypeNext == MappingTypeOK /\ [ListAgain]_mappingVars => MappingTypeOK'
<1> SUFFICES ASSUME MappingTypeOK, [ListAgain]_mappingVars PROVE MappingTypeOK'
  OBVIOUS
<1>1. CASE ListAgain
  BY <1>1, ListedAgain DEF MappingTypeOK
<1>2. CASE UNCHANGED mappingVars
  BY <1>2 DEF mappingVars, MappingTypeOK
<1> QED
  BY <1>1, <1>2

LEMMA LastNameFilled == ASSUME NEW words, words \in Seq(ToSet(words)) PROVE LastName(words) # <<>>
<1>1. CASE words = <<>>
  BY <1>1 DEF LastName
<1>2. CASE Len(words) = 1
  BY <1>2 DEF LastName
<1>3. CASE words # <<>> /\ Len(words) # 1
  <2> DEFINE S == ToSet(words)
  <2> HIDE DEF S
  <2>0. words \in Seq(S)
    BY DEF S
  <2>1. Len(words) \in Nat \ {0, 1}
    BY <1>3, <2>0, EmptySeq
  <2>2. Tail(words) \in Seq(S) /\ Len(Tail(words)) = Len(words) - 1
    BY <1>3, <2>0, HeadTailProperties
  <2>3. Tail(words) # <<>>
    BY <2>1, <2>2, EmptySeq
  <2> QED
    BY <1>3, <2>3 DEF LastName
<1> QED
  BY <1>1, <1>2, <1>3

LEMMA OneWord == ASSUME NEW word PROVE <<word>> \in Seq(ToSet(<<word>>))
<1>1. word \in ToSet(<<word>>)
  BY DEF ToSet
<1> HIDE DEF ToSet
<1> QED
  BY <1>1

\* Whichever source it comes from, a name is a sequence of words.
LEMMA NamesAreWords ==
  ASSUME MappingTypeOK
  PROVE  /\ lead.name \in Seq(ToSet(lead.name))
         /\ Parses(event) => BookingName(event) \in Seq(ToSet(BookingName(event)))
<1>1. \A name \in Given : name \in Seq(ToSet(name))
  BY NameAssumption, OneWord DEF Given, NoName
<1>2. lead.name \in Seq(ToSet(lead.name))
  BY NameAssumption DEF MappingTypeOK, Leads
<1>3. DescriptionName(event.description) \in Seq(ToSet(DescriptionName(event.description)))
  <2>1. DescriptionName(event.description) = <<>> \/ \E word : DescriptionName(event.description) = <<word>>
    BY DEF DescriptionName
  <2>2. <<>> \in Seq(ToSet(<<>>))
    BY EmptySeq
  <2> QED
    BY <2>1, <2>2, OneWord
<1>4. ASSUME Parses(event) PROVE Attendee(event).display_name \in Given
  <2>1. \A person \in Candidates(event) : person \in Person
    BY DEF Candidates, ToSet, MappingTypeOK, EventType
  <2>2. Attendee(event) \in Candidates(event)
    BY <1>4, <2>1, AttendeeListed DEF Parses, Person
  <2> QED
    BY <2>1, <2>2 DEF Person
<1>5. event.summary_name \in Given
  BY DEF MappingTypeOK, EventType
<1> QED
  BY <1>1, <1>2, <1>3, <1>4, <1>5 DEF BookingName

\* Whatever a person entered, Zoho's two required fields are never sent empty
\* (lead_to_zoho.py:143-175, booking_parser.py:117-127).
THEOREM RequiredAlwaysFilled == MappingSpec => []RequiredFieldsFilled
<1>1. MappingTypeOK => RequiredFieldsFilled
  <2> SUFFICES ASSUME MappingTypeOK PROVE RequiredFieldsFilled
    OBVIOUS
  <2>1. MapLead(lead).last # <<>> /\ MapLead(lead).company # <<>>
    <3>1. LastName(lead.name) # <<>>
      BY NamesAreWords, LastNameFilled
    <3>2. LeadCompany(lead) # <<>>
      BY DEF LeadCompany
    <3> QED
      BY <3>1, <3>2 DEF MapLead, Fields
  <2>2. Parses(event) => MapBooking(event).last # <<>> /\ MapBooking(event).company # <<>>
    <3>1. Parses(event) => LastName(BookingName(event)) # <<>>
      BY NamesAreWords, LastNameFilled
    <3>2. BookingCompany(Attendee(event).email) # <<>>
      BY DEF BookingCompany
    <3> QED
      BY <3>1, <3>2 DEF MapBooking, Fields
  <2> QED
    BY <2>1, <2>2 DEF RequiredFieldsFilled, Outgoing
<1> QED
  BY <1>1, MappingTypeInit, MappingTypeNext, PTL DEF MappingSpec

\* Google's order of the attendees decides nothing: the same event is about the
\* same person every time it is listed (booking_parser.py:136-148).
THEOREM SamePersonEveryTime == MappingSpec => SamePersonAgain
<1>1. ASSUME MappingTypeOK, ListAgain PROVE Outgoing' = Outgoing
  <2>1. lead' = lead /\ ToSet(event'.attendees) = ToSet(event.attendees)
        /\ event'.organizer = event.organizer /\ event'.summary_name = event.summary_name
        /\ event'.description = event.description
    BY <1>1, ListedAgain
  <2>2. Candidates(event') = Candidates(event)
    BY <2>1 DEF Candidates
  <2>3. Attendee(event') = Attendee(event)
    BY <2>2 DEF Attendee
  <2>4. Parses(event') = Parses(event) /\ MapBooking(event') = MapBooking(event)
    BY <2>1, <2>2, <2>3 DEF Parses, MapBooking, BookingName
  <2> QED
    BY <2>1, <2>4 DEF Outgoing
<1>2. ASSUME UNCHANGED mappingVars PROVE Outgoing' = Outgoing
  BY <1>2 DEF mappingVars, Outgoing
<1>3. MappingTypeOK /\ [ListAgain]_mappingVars => [Outgoing' = Outgoing]_mappingVars
  BY <1>1, <1>2
<1> QED
  BY <1>3, MappingTypeInit, MappingTypeNext, PTL DEF MappingSpec, SamePersonAgain
==============================================================================
