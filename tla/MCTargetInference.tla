-------------------------- MODULE MCTargetInference --------------------------
\* Requests are interchangeable.
EXTENDS TargetInference, TLC

Symmetry == Permutations(Request)
=============================================================================
