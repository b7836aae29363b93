---------------------------- MODULE ApprovalBook ----------------------------
(***************************************************************************)
(* What PAPER admission promises to whoever acts on its approvals,         *)
(* whatever crashes, fails or arrives late in between (service.py,         *)
(* paper_runtime.py).                                                      *)
(*                                                                         *)
(* Approvals are granted one by one and each review at most once.  An      *)
(* approval is open from its grant until it is entered or expires, and     *)
(* never again; and it is granted only where it is compatible with every   *)
(* approval still open.                                                    *)
(***************************************************************************)
EXTENDS Sequences

CONSTANTS
  Reviews,
  Compatible  \* the sets of reviews that may be open side by side

VARIABLES
  granted,  \* every review approved so far, in the order of the grants
  open      \* those that may still be acted on

Init == granted = <<>> /\ open = {}

Grant(r) ==
  /\ \A i \in DOMAIN granted : granted[i] # r
  /\ granted' = Append(granted, r)
  /\ open' \in {open, open \cup {r}} \cap Compatible

\* Approvals are entered, or their deadline passes.
Lapse == open' \subseteq open /\ UNCHANGED granted

Next == Lapse \/ \E r \in Reviews : Grant(r)

Spec == Init /\ [][Next]_<<granted, open>>
=============================================================================
