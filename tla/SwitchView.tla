------------------------------ MODULE SwitchView ------------------------------
(***************************************************************************)
(* What stands between the kill switch and a guarded write (tis/guards.py  *)
(* 148, tis/state.py): the stored value, the values an answer may have,    *)
(* and what each task has been answered.  A value that is stored can be    *)
(* answered at once; one that is not any more can be answered until the    *)
(* cache's window has passed, not after.                                   *)
(***************************************************************************)
CONSTANT Askers  \* tasks that ask

VARIABLES
  stored,  \* the value in integration_state
  visible, \* the values a task may be answered now
  told     \* what each task was answered and still acts on: at most one value

viewVars == <<stored, visible, told>>

ViewInit ==
  /\ stored \in BOOLEAN
  /\ visible = {stored}
  /\ told = [r \in Askers |-> {}]

Store(on) ==
  /\ stored' = on
  /\ visible' = visible \cup {on}
  /\ UNCHANGED told

\* A window has passed in which only one value was stored.
Forget == visible' = {stored} /\ UNCHANGED <<stored, told>>

Tell(r, on) ==
  /\ told[r] = {}
  /\ on \in visible
  /\ told' = [told EXCEPT ![r] = {on}]
  /\ UNCHANGED <<stored, visible>>

\* The task has acted on its answer, or is gone.
Finish(r) == told' = [told EXCEPT ![r] = {}] /\ UNCHANGED <<stored, visible>>

ViewNext ==
  \/ Forget
  \/ \E on \in BOOLEAN : Store(on) \/ \E r \in Askers : Tell(r, on)
  \/ \E r \in Askers : Finish(r)

ViewSpec == ViewInit /\ [][ViewNext]_viewVars
==============================================================================
