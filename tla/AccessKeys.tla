------------------------------ MODULE AccessKeys ------------------------------
(***************************************************************************)
(* The signing keys behind the operations API (tis/api/access.py): keys    *)
(* that Cloudflare publishes and rotates, a cache of KeyWindow (three      *)
(* hundred seconds) filled under a lock, and validations that fetch once   *)
(* more when the cache does not know the key of an assertion.              *)
(***************************************************************************)
EXTENDS Integers

CONSTANTS
  Validations, \* requests the API can serve at the same time
  SigningKeys, \* key ids
  KeyWindow,   \* JWKS_CACHE_SECONDS
  MaxTime      \* bound: the last reading of the monotonic clock

ASSUME KeyAssumption == KeyWindow \in Nat \ {0} /\ MaxTime \in Nat

VARIABLES
  published, \* the key ids Cloudflare serves
  time,      \* time.monotonic()
  cached,    \* _cached: when it was asked for, and the key ids; none before the first
  lock,      \* the validations that hold _lock, one at most
  stage,     \* where each validation is
  kid,       \* the key id of its assertion
  force,     \* whether it asks past the cache
  begun,     \* the time when it entered the lock
  document,  \* the keys served to it
  \* History, read by no action:
  last_seen, \* the last time each key was published, or Unseen
  missed     \* validations whose key was not published at some moment of theirs

accessVars == <<published, time, cached, lock, stage, kid, force, begun, document,
                last_seen, missed>>
callVars == <<kid, begun, document>>

Times  == 0..MaxTime
Unseen == -1

Stages == {"none", "waiting", "fetching", "served", "accepted", "unknown", "unavailable"}

AccessTypeOK ==
  /\ published \in SUBSET SigningKeys
  /\ time \in Times
  /\ cached \in [at : Times, keys : SUBSET SigningKeys]
  /\ lock \in SUBSET Validations
  /\ stage \in [Validations -> Stages]
  /\ kid \in [Validations -> SigningKeys]
  /\ force \in [Validations -> BOOLEAN]
  /\ begun \in [Validations -> Times]
  /\ document \in [Validations -> SUBSET SigningKeys]
  /\ last_seen \in [SigningKeys -> Times \cup {Unseen}]
  /\ missed \in SUBSET Validations

AccessInit ==
  /\ published \in SUBSET SigningKeys
  /\ time = 0
  /\ cached = [at |-> 0, keys |-> {}]
  /\ lock = {}
  /\ stage = [v \in Validations |-> "none"]
  /\ kid \in [Validations -> SigningKeys]
  /\ force = [v \in Validations |-> FALSE]
  /\ begun = [v \in Validations |-> 0]
  /\ document = [v \in Validations |-> {}]
  /\ last_seen = [k \in SigningKeys |-> IF k \in published THEN 0 ELSE Unseen]
  /\ missed = {}

Become(v, to) == stage' = [stage EXCEPT ![v] = to]

\* An assertion with a readable header arrives.
Begin(v) ==
  /\ stage[v] = "none"
  /\ Become(v, "waiting")
  /\ missed' = IF kid[v] \in published THEN missed ELSE missed \cup {v}
  /\ UNCHANGED <<published, time, cached, lock, force, last_seen>> /\ UNCHANGED callVars

\* The key is looked up in what _keys returned; an unknown one is asked for once
\* more.  Whether the signature and the claims then hold is not modelled.
LookUp(v, keys) ==
  /\ Become(v, IF kid[v] \in keys THEN "accepted"
               ELSE IF force[v] THEN "unknown" ELSE "waiting")
  /\ force' = [force EXCEPT ![v] = kid[v] \notin keys]

\* Planted fault: the second look is answered by the cache as well.
MayUseCache_Always(v) == cached.keys # {} /\ time - cached.at < KeyWindow

\* Planted fault: the cache has no age.
MayUseCache_AnyAge(v) == ~force[v] /\ cached.keys # {}

MayUseCache(v) == ~force[v] /\ cached.keys # {} /\ time - cached.at < KeyWindow

EnterFromCache(v) ==
  /\ stage[v] = "waiting" /\ lock = {}
  /\ MayUseCache(v)
  /\ LookUp(v, cached.keys)
  /\ UNCHANGED <<published, time, cached, lock, last_seen, missed>> /\ UNCHANGED callVars

EnterToFetch(v) ==
  /\ stage[v] = "waiting" /\ lock = {}
  /\ ~MayUseCache(v)
  /\ lock' = {v}
  /\ Become(v, "fetching")
  /\ begun' = [begun EXCEPT ![v] = time]
  /\ UNCHANGED <<published, time, cached, kid, force, document, last_seen, missed>>

\* Cloudflare answers; a set without an approved key makes _keys raise.
Serve(v) ==
  /\ stage[v] = "fetching"
  /\ published # {}
  /\ Become(v, "served")
  /\ document' = [document EXCEPT ![v] = published]
  /\ UNCHANGED <<published, time, cached, lock, kid, force, begun, last_seen, missed>>

Arrive(v) ==
  /\ stage[v] = "served"
  /\ lock' = {}
  /\ cached' = [at |-> begun[v], keys |-> document[v]]
  /\ LookUp(v, document[v])
  /\ document' = [document EXCEPT ![v] = {}]
  /\ UNCHANGED <<published, time, kid, begun, last_seen, missed>>

\* The request fails or its answer is malformed: the assertion is refused, the
\* lock released and the cache left as it is.
FetchRaises(v) ==
  /\ stage[v] \in {"fetching", "served"}
  /\ lock' = {}
  /\ Become(v, "unavailable")
  /\ document' = [document EXCEPT ![v] = {}]
  /\ UNCHANGED <<published, time, cached, kid, force, begun, last_seen, missed>>

\* Cloudflare rotates its keys.
Rotate(keys) ==
  /\ published' = keys
  /\ last_seen' = [k \in SigningKeys |-> IF k \in keys THEN time ELSE last_seen[k]]
  /\ missed' = missed \cup {v \in Validations : stage[v] # "none" /\ kid[v] \notin keys}
  /\ UNCHANGED <<time, cached, lock, stage, force>> /\ UNCHANGED callVars

TimePasses ==
  /\ time < MaxTime
  /\ time' = time + 1
  /\ last_seen' = [k \in SigningKeys |-> IF k \in published THEN time + 1 ELSE last_seen[k]]
  /\ UNCHANGED <<published, cached, lock, stage, force, missed>> /\ UNCHANGED callVars

AccessNext ==
  \/ \E v \in Validations :
       Begin(v) \/ EnterFromCache(v) \/ EnterToFetch(v) \/ Serve(v) \/ Arrive(v) \/ FetchRaises(v)
  \/ \E keys \in SUBSET SigningKeys : Rotate(keys)
  \/ TimePasses

AccessSpec == AccessInit /\ [][AccessNext]_accessVars

\* A key that was taken back is trusted no longer than the window: an assertion
\* is accepted only under a key that was published within the last window or,
\* when it fetched for itself, since its fetch began, however fetches, failures and rotations interleave.
RetiredKeysExpire ==
  [][\A v \in Validations : stage'[v] = "accepted" /\ stage[v] # "accepted" =>
       IF stage[v] = "served" THEN last_seen[kid[v]] >= begun[v]
                              ELSE last_seen[kid[v]] > time - KeyWindow]_accessVars

\* A key that is published all along is never called unknown, however stale the
\* cache was when the assertion arrived.
PublishedKeysKnown == \A v \in Validations : stage[v] = "unknown" => v \in missed
==============================================================================
