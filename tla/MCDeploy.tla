------------------------------- MODULE MCDeploy -------------------------------
\* Deploy for TLC: releases are alike, and so are the scheduled scripts.
EXTENDS Deploy, TLC

Symmetric == Permutations(Releases) \cup Permutations(Scheduled)
==============================================================================
