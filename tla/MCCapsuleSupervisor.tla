------------------------ MODULE MCCapsuleSupervisor ------------------------
(* Instances of CapsuleSupervisor for TLC. *)
EXTENDS CapsuleSupervisor, TLC

Symmetry == Permutations(Capsule)
=============================================================================
