--------------------------- MODULE MCImageService ---------------------------
(***************************************************************************)
(* Instances of ImageService: a small file and a large one, a volume and a *)
(* quota that take both but not a third.                                   *)
(***************************************************************************)
EXTENDS ImageService, TLC

CONSTANTS small, large

MCSize == small :> 1 @@ large :> 2
==============================================================================
