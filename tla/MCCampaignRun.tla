--------------------------- MODULE MCCampaignRun ---------------------------
(* Instances of CampaignRun for TLC. *)
EXTENDS CampaignRun, TLC

Symmetry == Permutations(Worker)
=============================================================================
