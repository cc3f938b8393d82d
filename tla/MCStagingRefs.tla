---------------------------- MODULE MCStagingRefs ----------------------------
(***************************************************************************)
(* Instances of StagingRefs for TLC.  The owners are interchangeable, so   *)
(* runs without liveness properties use their symmetry.                    *)
(***************************************************************************)
EXTENDS StagingRefs, TLC

Symmetry == Permutations(Owners)
==============================================================================
