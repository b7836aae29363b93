------------------------- MODULE MCPaperExposure --------------------------
(***************************************************************************)
(* Constants for model-checking PaperExposure: a and b compete for symbol  *)
(* X, c trades Y; a is entered early and b is still valid after a expired. *)
(***************************************************************************)
EXTENDS PaperExposure, TLC

CONSTANTS a, b, c, X, Y

MCSymbolOf == [r \in Reviews |-> IF r = c THEN Y ELSE X]
MCExpiresAt == [r \in Reviews |-> IF r = a THEN 0 ELSE 1]

\* Every truthful snapshot of the instance, beyond the ceiling included.
MCReps == [Reviews -> {"none", "entry", "position"}]
MCSnapshots ==
  {[seq |-> n, captured |-> t, trusted |-> TRUE, rep |-> rep, openRisk |-> k] :
     n \in 1..MaxSeq, t \in 0..MaxTime, rep \in MCReps, 
     k \in 0..(PerTradeRisk * Cardinality(Reviews))}
=============================================================================
