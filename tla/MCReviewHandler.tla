-------------------------- MODULE MCReviewHandler --------------------------
(***************************************************************************)
(* Constants for model-checking ReviewHandler: a canary review and a       *)
(* review of another strategy.                                             *)
(***************************************************************************)
EXTENDS ReviewHandler

CONSTANTS canary, plain
=============================================================================
