--------------------------- MODULE MCRegimeBinding ---------------------------
(***************************************************************************)
(* Constants for model-checking RegimeBinding: two adaptive reviews and a  *)
(* canary on distinct symbols; for the first review two bindings that      *)
(* contradict each other, one of them unsound, and one of limited time.    *)
(***************************************************************************)
EXTENDS RegimeBinding, TLC

CONSTANTS a, b, c, X, Y, Z

MCSymbolOf == (a :> X) @@ (b :> Y) @@ (c :> Z)
MCExpiresAt == [r \in Reviews |-> 1]

\* An empty account, then one that proves that nothing more can be entered.
MCSnapshots ==
  {[seq |-> n, captured |-> n, trusted |-> TRUE,
    rep |-> [r \in Reviews |-> "none"], openRisk |-> 0] : n \in 1..2}

MCMessage(intent, id, boundAt, expiresAt, sound) ==
  [intent |-> intent, id |-> id, boundAt |-> boundAt, expiresAt |-> expiresAt,
   sound |-> sound]
MCMessages ==
  {MCMessage(a, 1, 1, 2, TRUE), MCMessage(a, 2, 1, 1, TRUE),
   MCMessage(a, 3, 1, 2, FALSE), MCMessage(b, 1, 1, 2, TRUE)}
=============================================================================
