------------------------ MODULE MCCanaryController ------------------------
(***************************************************************************)
(* Constants for model-checking CanaryController: two slots that differ    *)
(* and two bars, the second of which expires beyond the session.           *)
(***************************************************************************)
EXTENDS CanaryController, TLC

CONSTANTS p, q, x, y

MCPlan == <<[window |-> 2, symbol |-> "X"], [window |-> 1, symbol |-> "Y"]>>
MCSymmetry == Permutations(Invocations) \cup Permutations(Readings)
=============================================================================
