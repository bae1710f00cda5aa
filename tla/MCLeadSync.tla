------------------------------ MODULE MCLeadSync ------------------------------
\* Instances of LeadSync for TLC.  Leads are ordered, so only runs are symmetric.
EXTENDS LeadSync, TLC

SymmetricRuns == Permutations(Runs)
=============================================================================
