------------------------ MODULE MCPaperCoordinator ------------------------
(***************************************************************************)
(* Constants for model-checking PaperCoordinator on a small instance: two  *)
(* reviews compete for symbol X, a canary review on Y competes with the    *)
(* canary review on X.                                                     *)
(***************************************************************************)
EXTENDS PaperCoordinator, TLC

CONSTANTS a, b, c, X, Y

MCSymbolOf == (a :> X) @@ (b :> X) @@ (c :> Y)
MCExpiresAt == (a :> 1) @@ (b :> 1) @@ (c :> 2)

\* At most one trade, a canary one, is represented; its position or entry
\* carries two units.
MCReps ==
  {[r \in Reviews |-> "none"]} \cup
  {[[r \in Reviews |-> "none"] EXCEPT ![q] = k] : q \in CanaryReviews, k \in RepKinds}
MCRisk(rep) == IF \E r \in Reviews : rep[r] \in {"position", "entry"} THEN 2 ELSE 0
MCSnapshots ==
  {[seq |-> n, captured |-> t, trusted |-> TRUE, rep |-> rep, openRisk |-> MCRisk(rep)] :
     n \in 1..2, t \in 1..2, rep \in MCReps}
  \cup {[seq |-> n, captured |-> 1, trusted |-> FALSE,
         rep |-> [r \in Reviews |-> "none"], openRisk |-> 0] : n \in 1..2}
=============================================================================
