---------------------------- MODULE MCWriteGuard ----------------------------
\* Instances of WriteGuard for TLC.
EXTENDS WriteGuard, TLC

\* Runs and keys are interchangeable: no action or property names one.
RunsAndKeys == Permutations(Runs) \cup Permutations(Keys)
=============================================================================
