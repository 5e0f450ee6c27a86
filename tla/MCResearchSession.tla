------------------------- MODULE MCResearchSession -------------------------
\* Worker processes are interchangeable.
EXTENDS ResearchSession, TLC

Symmetry == Permutations(Worker)
=============================================================================
