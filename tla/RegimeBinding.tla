---------------------------- MODULE RegimeBinding ----------------------------
(***************************************************************************)
(* The PAPER coordinator with the adaptive regime policy enabled: the      *)
(* bindings it keeps per intent (apply_regime_allocation and the regime    *)
(* branch of evaluate in paper_runtime.py, _adaptive_allocation_gate in    *)
(* paper.py), composed with the actions of PaperCoordinator.               *)
(*                                                                         *)
(* A binding message carries the capital evidence of one intent.  Its id   *)
(* stands for its content, "sound" for everything the gate compares with   *)
(* the configured policy, producer, account and intent.                    *)
(***************************************************************************)
EXTENDS PaperCoordinator

CONSTANTS
  Messages,   \* regime-bound allocations that may be delivered
  Unbound,    \* no binding is known for the intent
  Poisoned,   \* contradictory bindings were seen: the map's value None
  NoAnswer    \* the last call was not an evaluation

Message == [intent : Reviews \ CanaryReviews, id : Nat, boundAt : Nat,
            expiresAt : Nat, sound : BOOLEAN]

ASSUME BindingAssumption ==
  /\ Messages \subseteq Message
  /\ Unbound # Poisoned
  /\ {Unbound, Poisoned} \cap Messages = {}
  /\ NoAnswer \notin [review : Reviews, verdict : {"approved", "rejected"}, at : Times]

VARIABLES
  bindings,      \* _regime_allocations
  bindingOrder,  \* the order of that OrderedDict, oldest first
  answer,        \* what evaluate has just returned
  heard,         \* history: first binding heard while the intent was known
  contested      \* history: intents that heard another one since

bindingVars == <<bindings, bindingOrder>>
history == <<answer, heard, contested>>
regimeVars == <<vars, bindingVars, history>>

RegimeInit ==
  /\ Init
  /\ bindings = [r \in Reviews |-> Unbound]
  /\ bindingOrder = <<>>
  /\ answer = NoAnswer
  /\ heard = [r \in Reviews |-> Unbound]
  /\ contested = {}

Bound == {r \in Reviews : bindings[r] # Unbound}

\* Intents whose decision could still be replayed.
Retained == Cached \cup Held(reservations)

\* After a step the coordinator knows only what it bound, cached or reserved.
Remember(first, disputed) ==
  LET known == Bound' \cup Retained' IN
  /\ heard' = [r \in Reviews |-> IF r \in known THEN first[r] ELSE Unbound]
  /\ contested' = disputed \cap known

-----------------------------------------------------------------------------
(***************************************************************************)
(* The bindings.                                                           *)
(***************************************************************************)
\* Mutant of Surplus: a trim blind to replays.
SurplusOldest(order) == {order[i] : i \in 1..(Len(order) - CacheSize)}

\* The bindings popped: the oldest ones no replay can need, as many as exceed
\* the configured size, the one just stored included.
Surplus(order) ==
  {r \in Reviews \ Retained :
     \E i \in DOMAIN order :
        /\ order[i] = r
        /\ Cardinality({j \in 1..i : order[j] \notin Retained}) <= Len(order) - CacheSize}

\* Bound later than it is received, or identical to what is bound: nothing changes.
IgnoreBinding(m, t) ==
  /\ m.boundAt > t \/ bindings[m.intent] = m
  /\ UNCHANGED bindingVars

PoisonBinding(m, t) ==
  /\ m.boundAt <= t
  /\ bindings[m.intent] \notin {Unbound, m}
  /\ bindings' = [bindings EXCEPT ![m.intent] = Poisoned]
  /\ UNCHANGED bindingOrder

\* Mutant of StoreBinding: what is popped keeps its place in the order.
StoreBindingOrdered(m, t) ==
  /\ m.boundAt <= t
  /\ bindings[m.intent] = Unbound
  /\ LET order == Append(bindingOrder, m.intent) IN
       /\ bindings' = [r \in Reviews |->
                         IF r \in Surplus(order) THEN Unbound
                         ELSE IF r = m.intent THEN m ELSE bindings[r]]
       /\ bindingOrder' = order

StoreBinding(m, t) ==
  /\ m.boundAt <= t
  /\ bindings[m.intent] = Unbound
  /\ LET order == Append(bindingOrder, m.intent)
         gone == Surplus(order)
     IN  /\ bindings' = [r \in Reviews |->
                           IF r \in gone THEN Unbound
                           ELSE IF r = m.intent THEN m ELSE bindings[r]]
         /\ bindingOrder' = Without(order, gone)

\* apply_regime_allocation with the receipt clock t.
ApplyBinding(m, t) ==
  /\ IgnoreBinding(m, t) \/ PoisonBinding(m, t) \/ StoreBinding(m, t)
  /\ answer' = NoAnswer
  /\ UNCHANGED vars
  /\ LET read == m.boundAt <= t
         first == heard[m.intent]
     IN  Remember(IF read /\ first = Unbound
                  THEN [heard EXCEPT ![m.intent] = m] ELSE heard,
                  IF read /\ first \notin {Unbound, m}
                  THEN contested \cup {m.intent} ELSE contested)

-----------------------------------------------------------------------------
(***************************************************************************)
(* Evaluation under the adaptive policy; canary reviews do not need it.    *)
(***************************************************************************)
NeedsBinding(r) == r \notin CanaryReviews

\* evaluate adds the reason regime_bound_allocation_conflict.
Conflict(r) == NeedsBinding(r) /\ bindings[r] = Poisoned

\* Mutant of GateOpen: without a binding the legacy allocation decides.
GateOpenUnbound(r, t) ==
  NeedsBinding(r) /\ bindings[r] # Unbound =>
    bindings[r].sound /\ bindings[r].boundAt <= t /\ t <= bindings[r].expiresAt

\* _adaptive_allocation_gate accepts the binding at decision time t.
GateOpen(r, t) ==
  NeedsBinding(r) =>
    /\ bindings[r] \in Messages
    /\ bindings[r].sound
    /\ bindings[r].boundAt <= t /\ t <= bindings[r].expiresAt

Answer(r, verdict, t) == [review |-> r, verdict |-> verdict, at |-> t]

ReplayDecision(r, t) ==
  /\ ~Conflict(r)
  /\ EvaluateCached(r)
  /\ answer' = Answer(r, decisions[r].verdict, t)

\* Mutant of DenyDecision: the denial replaces what the cache holds.
DenyDecisionCached(r, t) ==
  /\ ~Unavailable(r, TRUE)
  /\ decisions' = [decisions EXCEPT ![r] = Rejection]
  /\ lru' = MoveToEnd(lru, r)
  /\ answer' = Answer(r, "rejected", t)
  /\ UNCHANGED <<accountVars, venue, reservations, recoveryLoaded>>

\* For a conflict, or for any other reason given by the caller.
DenyDecision(r, t) ==
  /\ EvaluateDenied(r)
  /\ answer' = Answer(r, "rejected", t)

NewDecision(r, t, vetoed, d) ==
  /\ ~Conflict(r)
  /\ EvaluateFresh(r, t, vetoed \/ ~GateOpen(r, t), d)
  /\ answer' = Answer(r, d.verdict, t)

EvaluateBound(r, t) ==
  /\ \/ ReplayDecision(r, t)
     \/ DenyDecision(r, t)
     \/ \E vetoed \in BOOLEAN, d \in Verdicts : NewDecision(r, t, vetoed, d)
  /\ UNCHANGED bindingVars
  /\ Remember(heard, contested)

\* The methods that do not look at the bindings.
Elsewhere ==
  /\ \/ \E s \in Snapshots : ApplyAccount(s)
     \/ \E s \in Symbols, at \in Times, id \in VenueIds : ApplyVenue(s, at, id)
     \/ \E order \in RecoveryLogs, risk \in RecoveredRisks :
          RestoreReservations(order, risk)
  /\ answer' = NoAnswer
  /\ UNCHANGED bindingVars
  /\ Remember(heard, contested)

RegimeNext ==
  \/ \E m \in Messages, t \in Times : ApplyBinding(m, t)
  \/ \E r \in Reviews, t \in Times : EvaluateBound(r, t)
  \/ Elsewhere

RegimeSpec == RegimeInit /\ [][RegimeNext]_regimeVars

-----------------------------------------------------------------------------
(***************************************************************************)
(* Properties.                                                             *)
(***************************************************************************)
\* The bindings, their order and the histories keep their types, and a binding
\* is filed under its own intent.
RegimeTypeOK ==
  /\ \A r \in Reviews :
       /\ bindings[r] \in {m \in Messages : m.intent = r} \cup {Unbound, Poisoned}
       /\ heard[r] \in {m \in Messages : m.intent = r} \cup {Unbound}
  /\ \A r \in Bound : \E i \in DOMAIN bindingOrder : bindingOrder[i] = r
  /\ {bindingOrder[i] : i \in DOMAIN bindingOrder} \subseteq Bound
  /\ contested \subseteq Reviews \ CanaryReviews

\* While the coordinator knows an intent, contradictory bindings deny it for
\* good, an approval in the cache included ("Conflicting bindings poison the
\* intent even if an in-process approved decision is cached", README.md:40-41;
\* apply_regime_allocation, evaluate).
ContestedNeverApproved ==
  (answer # NoAnswer /\ answer.verdict = "approved") => answer.review \notin contested

\* A new approval of an adaptive intent rests on a binding that is there, sound
\* and valid at the decision time; there is no fallback to the legacy
\* allocation (README.md:21-26, _adaptive_allocation_gate).
ApprovalRestsOnBinding ==
  [][\A r \in Held(reservations') \ Held(reservations) :
       (recoveryLoaded /\ r \notin CanaryReviews) =>
         /\ heard[r] \in Messages /\ heard[r] = bindings[r]
         /\ heard[r].sound
         /\ heard[r].boundAt <= answer'.at /\ answer'.at <= heard[r].expiresAt]_regimeVars

\* The policy only narrows admission: every step is one of the coordinator's, so
\* the bindings never change a reservation, a cached verdict or the authority
\* ("This only replaces regime permission checks", README.md:43; evaluate).
CoordinatorUnderPolicy == Spec

\* What apply_regime_allocation accepts as the binding of an undecided intent
\* is there for the review that waits for it ("waits for the exact immutable
\* intent binding until the existing entry deadline", README.md:23-24).
AcceptedBindingIsKept ==
  [][\A m \in Messages, t \in Times : StoreBinding(m, t) => bindings'[m.intent] = m]_regimeVars
=============================================================================
