---------------------------- MODULE MCBookingSync ----------------------------
\* Instances of BookingSync for TLC.
EXTENDS BookingSync, TLC

\* Runs and events are interchangeable; start times are ordered.
RunsAndEvents == Permutations(Runs) \cup Permutations(Keys)
=============================================================================
