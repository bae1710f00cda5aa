------------------------------ MODULE KillSwitch ------------------------------
(***************************************************************************)
(* The kill switch as one process sees it (tis/state.py): a value in       *)
(* integration_state that the admins' RPC sets from outside, and in front  *)
(* of it a cache that answers for SwitchWindow (fifteen seconds) without   *)
(* asking.  Nothing orders the tasks that miss the cache: each stamps its  *)
(* answer with the time it asked, and the last to return fills the cache.  *)
(***************************************************************************)
EXTENDS Integers

CONSTANTS
  Askers,       \* tasks of the process that can ask at the same time
  SwitchWindow, \* KILL_SWITCH_CACHE_SECONDS
  MaxClock      \* bound: the last reading of the monotonic clock

ASSUME SwitchAssumption == SwitchWindow \in Nat \ {0} /\ MaxClock \in Nat

VARIABLES
  kill_switch,  \* the stored value
  clock,        \* time.monotonic()
  switch_cache, \* _kill_switch_cache: when it was asked for and the answer, or none
  asking,       \* where each task is
  asked_at,     \* the clock when the task asked
  read_value,   \* what the database or the cache answered
  setting,      \* a set() of this process has committed but not yet cleared the cache
  \* History, read by no action:
  held          \* the last time each value was the stored one, or Unheld

switchVars == <<kill_switch, clock, switch_cache, asking, asked_at, read_value, setting, held>>

Clocks == 0..MaxClock
Unheld == -1
Empty  == [at |-> 0, on |-> {}]

SwitchTypeOK ==
  /\ kill_switch \in BOOLEAN
  /\ clock \in Clocks
  /\ switch_cache \in [at : Clocks, on : SUBSET BOOLEAN]
  /\ asking \in [Askers -> {"idle", "reading", "read", "cached"}]
  /\ asked_at \in [Askers -> Clocks]
  /\ read_value \in [Askers -> BOOLEAN]
  /\ setting \in BOOLEAN
  /\ held \in [BOOLEAN -> Clocks \cup {Unheld}]

SwitchInit ==
  /\ kill_switch \in BOOLEAN
  /\ clock = 0
  /\ switch_cache = Empty
  /\ asking = [r \in Askers |-> "idle"]
  /\ asked_at = [r \in Askers |-> 0]
  /\ read_value = [r \in Askers |-> FALSE]
  /\ setting = FALSE
  /\ held = [v \in BOOLEAN |-> IF v = kill_switch THEN 0 ELSE Unheld]

\* The cache answers, at once, while it is younger than the window.
CacheAnswers == switch_cache.on # {} /\ clock - switch_cache.at < SwitchWindow

FromCache(r) ==
  /\ asking[r] = "idle"
  /\ CacheAnswers
  /\ asking' = [asking EXCEPT ![r] = "cached"]
  /\ \E on \in switch_cache.on : read_value' = [read_value EXCEPT ![r] = on]
  /\ UNCHANGED <<kill_switch, clock, switch_cache, asked_at, setting, held>>

\* The caller has acted on it.
CachedAnswerUsed(r) ==
  /\ asking[r] = "cached"
  /\ asking' = [asking EXCEPT ![r] = "idle"]
  /\ read_value' = [read_value EXCEPT ![r] = FALSE]
  /\ UNCHANGED <<kill_switch, clock, switch_cache, asked_at, setting, held>>

\* The cache does not answer: the task asks the database.
Ask(r) ==
  /\ asking[r] = "idle"
  /\ ~CacheAnswers
  /\ asking' = [asking EXCEPT ![r] = "reading"]
  /\ asked_at' = [asked_at EXCEPT ![r] = clock]
  /\ UNCHANGED <<kill_switch, clock, switch_cache, read_value, setting, held>>

Read(r) ==
  /\ asking[r] = "reading"
  /\ asking' = [asking EXCEPT ![r] = "read"]
  /\ read_value' = [read_value EXCEPT ![r] = kill_switch]
  /\ UNCHANGED <<kill_switch, clock, switch_cache, asked_at, setting, held>>

ReadRaises(r) ==
  /\ asking[r] = "reading"
  /\ asking' = [asking EXCEPT ![r] = "idle"]
  /\ asked_at' = [asked_at EXCEPT ![r] = 0]
  /\ UNCHANGED <<kill_switch, clock, switch_cache, read_value, setting, held>>

\* Planted fault: the answer is stamped with the time it arrived.
Answer_StampsLate(r) ==
  /\ asking[r] = "read"
  /\ asking' = [asking EXCEPT ![r] = "idle"]
  /\ switch_cache' = [at |-> clock, on |-> {read_value[r]}]
  /\ asked_at' = [asked_at EXCEPT ![r] = 0]
  /\ read_value' = [read_value EXCEPT ![r] = FALSE]
  /\ UNCHANGED <<kill_switch, clock, setting, held>>

Answer(r) ==
  /\ asking[r] = "read"
  /\ asking' = [asking EXCEPT ![r] = "idle"]
  /\ switch_cache' = [at |-> asked_at[r], on |-> {read_value[r]}]
  /\ asked_at' = [asked_at EXCEPT ![r] = 0]
  /\ read_value' = [read_value EXCEPT ![r] = FALSE]
  /\ UNCHANGED <<kill_switch, clock, setting, held>>

\* The RPC of the admins, or another process.
StoreElsewhere(on) ==
  /\ kill_switch' = on
  /\ held' = [held EXCEPT ![on] = clock]
  /\ UNCHANGED <<clock, switch_cache, asking, asked_at, read_value, setting>>

\* set() in this process: the statement, then the cache is dropped.
StoreHere(on) ==
  /\ ~setting
  /\ setting' = TRUE
  /\ kill_switch' = on
  /\ held' = [held EXCEPT ![on] = clock]
  /\ UNCHANGED <<clock, switch_cache, asking, asked_at, read_value>>

DropCache ==
  /\ setting
  /\ setting' = FALSE
  /\ switch_cache' = Empty
  /\ UNCHANGED <<kill_switch, clock, asking, asked_at, read_value, held>>

ClockAdvances ==
  /\ clock < MaxClock
  /\ clock' = clock + 1
  /\ held' = [held EXCEPT ![kill_switch] = clock + 1]
  /\ UNCHANGED <<kill_switch, switch_cache, asking, asked_at, read_value, setting>>

SwitchNext ==
  \/ \E r \in Askers : \/ FromCache(r) \/ CachedAnswerUsed(r)
                      \/ Ask(r) \/ Read(r) \/ ReadRaises(r) \/ Answer(r)
  \/ \E on \in BOOLEAN : StoreElsewhere(on) \/ StoreHere(on)
  \/ DropCache \/ ClockAdvances

SwitchSpec == SwitchInit /\ [][SwitchNext]_switchVars

\* The values that were stored within the last window.
Visible == {v \in BOOLEAN : held[v] # Unheld /\ held[v] > clock - SwitchWindow}

\* What each task was answered, by the database or by the cache.
Told == [r \in Askers |-> IF asking[r] \in {"read", "cached"} THEN {read_value[r]} ELSE {}]

View == INSTANCE SwitchView WITH stored <- kill_switch, visible <- Visible, told <- Told

\* Every answer a task gets, from the database or from a cache that others fill
\* and drop meanwhile, is a value that was stored within the last window: the
\* cached switch gives its callers what SwitchView promises them.
ImplementsView == View!ViewSpec

\* Whatever a task is answered was the stored value at some moment since it
\* asked, or within the last window: a slow read that returns after a newer one,
\* a switch flipped while the statement is under way and a set() that races with
\* both never make an old answer look young.
SwitchNotStale ==
  /\ CacheAnswers => switch_cache.on \subseteq Visible
  /\ \A r \in Askers : asking[r] = "read" => held[read_value[r]] >= asked_at[r]
==============================================================================
