------------------------------- MODULE Retention -------------------------------
(***************************************************************************)
(* Which backups the retention pass keeps (tis/backup.py,                  *)
(* retention_deletions): the newest Daily dates and, among the rest, the   *)
(* newest date of each of the newest Weekly weeks.  Dates are day numbers; *)
(* the code's numbers are seven, four and seven.                           *)
(***************************************************************************)
EXTENDS Integers, FiniteSets

CONSTANTS
  Daily,    \* newest dates kept
  Weekly,   \* weeks kept before them
  WeekDays  \* days of a week

ASSUME RetentionAssumption == Daily \in Nat \ {0} /\ Weekly \in Nat /\ WeekDays \in Nat \ {0}

Week(d) == d \div WeekDays

\* The n newest of a set of dates, or of a set of weeks.
Newest(S, n) == {d \in S : Cardinality({e \in S : e > d}) < n}

Weeks(S) == {Week(d) : d \in S}

\* The newest date of each week.
LastOfWeek(S) == {d \in S : \A e \in S : Week(e) = Week(d) => e <= d}

\* What is left once the daily slots are filled.
Rest(S) == S \ Newest(S, Daily)

WeeklyKept(S) == {d \in LastOfWeek(Rest(S)) : Week(d) \in Newest(Weeks(Rest(S)), Weekly)}

Keep(S) == Newest(S, Daily) \cup WeeklyKept(S)

\* retention_deletions: the surplus, of which a pass takes the oldest n.
Surplus(S) == S \ Keep(S)
OldestOf(S, n) == {d \in S : Cardinality({e \in S : e < d}) < n}
==============================================================================
