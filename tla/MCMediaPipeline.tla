--------------------------- MODULE MCMediaPipeline ---------------------------
(***************************************************************************)
(* MediaPipelineProperties on small instances.                             *)
(***************************************************************************)
EXTENDS MediaPipelineProperties, TLC

MCKeys == Uploads \X (Kinds \cup {"original"})

\* The loops are interchangeable, and so are the uploads.
MCSymmetry == Permutations(Workers) \cup Permutations(Uploads)

=============================================================================
