------------------------------ MODULE ClaimLedger ------------------------------
(***************************************************************************)
(* What the guard promises to its callers, without runs, budgets, switch   *)
(* or database: one ledger line per idempotency key.  A claim is given     *)
(* back only before the write, the write happens at most once and only     *)
(* under a claim, and what is closed is never claimed again.  A line the   *)
(* guard has lost track of is spoiled, for good; nothing is promised of it.*)
(***************************************************************************)
CONSTANT Keys

VARIABLE ledger

Lines == {"free", "claimed", "written", "closed", "spoiled"}

LedgerInit == ledger = [k \in Keys |-> "free"]

Move(k, from, to) == ledger[k] \in from /\ ledger' = [ledger EXCEPT ![k] = to]

Reserve(k) == Move(k, {"free"}, "claimed")
Abandon(k) == Move(k, {"claimed"}, "free")
Perform(k) == Move(k, {"claimed"}, "written")
Close(k)   == Move(k, {"written"}, "closed")
Spoil(k)   == Move(k, Lines, "spoiled")

LedgerNext == \E k \in Keys : Reserve(k) \/ Abandon(k) \/ Perform(k) \/ Close(k) \/ Spoil(k)

LedgerSpec == LedgerInit /\ [][LedgerNext]_ledger
==============================================================================
