----------------------------- MODULE NewestWins -----------------------------
(***************************************************************************)
(* What the risk manager promises about every versioned input it keeps in  *)
(* memory: the DRY_RUN account and the strategic allocation (service.py),  *)
(* the PAPER account and each venue measurement (paper_runtime.py).        *)
(*                                                                         *)
(* A value is in force only if it came with a version newer than any seen  *)
(* before.  Whatever goes wrong with it afterwards takes it away, and only *)
(* a newer version brings a value back, so no version is ever in force     *)
(* with two contents and no older one returns.                             *)
(***************************************************************************)
EXTENDS Integers

CONSTANT Nothing   \* no value is in force

VARIABLES
  newest,  \* the newest version seen, -1 before the first
  value    \* the value in force, or Nothing

Init == newest = -1 /\ value = Nothing

\* A strictly newer version comes into force.
Adopt == newest' > newest /\ value' # Nothing

\* The value is taken away; the message that does so may carry a version.
Revoke == newest' >= newest /\ value' = Nothing

Next == Adopt \/ Revoke

Spec == Init /\ [][Next]_<<newest, value>>
=============================================================================
