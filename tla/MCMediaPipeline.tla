--------------------------- MODULE MCMediaPipeline ---------------------------
(* Small instances of MediaPipeline for TLC. *)
EXTENDS MediaPipeline, TLC

Symmetry == Permutations(Requests)
==============================================================================
