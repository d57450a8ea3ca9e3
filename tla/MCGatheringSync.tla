--------------------------- MODULE MCGatheringSync ---------------------------
(* Instances of GatheringSync for TLC; the values come from the .cfg files. *)
EXTENDS GatheringSyncProps, TLC

SaverSymmetry == Permutations(Savers)
=============================================================================
