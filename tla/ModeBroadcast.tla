--------------------------- MODULE ModeBroadcast ---------------------------
(***************************************************************************)
(* SystemMode: the circuit breakers of the LLM models and of the OpenAI    *)
(* provider (kairos_risk/circuit_breaker.py), and the health consumer that *)
(* feeds them and publishes every change of mode (kairos_risk/service.py). *)
(*                                                                         *)
(* One health event is handled in three steps: the breakers are updated,   *)
(* the changed mode is staged for publication, publication and ack commit. *)
(* Each of the last two can fail; the event then stays pending and is      *)
(* delivered again, in any order.                                          *)
(*                                                                         *)
(* External: publish is staged in the transaction that acks the event      *)
(* (README.md:400-404), so a failed commit publishes nothing.              *)
(***************************************************************************)
EXTENDS Integers, FiniteSets

CONSTANTS
  KnownModels,    \* KNOWN_MODELS, the legacy ones included
  CurrentModels,  \* CURRENT_MODELS: the gateway's default routes
  OtherModels,    \* model names the registry does not know
  Flash,          \* the model the local text filter can replace
  Providers,      \* normalized provider names
  OpenAI,         \* the provider with an aggregate breaker
  Inferred,       \* infer_provider of each model, NoProvider if None
  NoProvider,
  Events,         \* health events that may occur
  MaxConsecutive, \* max_consecutive_failures
  Cooldown,       \* cooldown_s
  MaxTime,        \* bound on the clock
  MaxDeliveries,  \* bound on handled deliveries
  MaxLost,        \* bound on failed publications
  MaxRollbacks,   \* bound on failed commits
  MaxRestarts     \* bound on restarts

Models == KnownModels \cup OtherModels
Breakers == Models \cup {OpenAI}
Kinds == {"ok", "model", "both", "provider", "other"}

ASSUME ModeAssumption ==
  /\ CurrentModels \subseteq KnownModels
  /\ Flash \in KnownModels
  /\ OpenAI \in Providers \ Models
  /\ NoProvider \notin Providers
  /\ Events \subseteq [model : Models, provider : Providers \cup {NoProvider},
                       kind : Kinds]
  /\ Inferred \in [Models -> Providers \cup {NoProvider}]
  /\ MaxConsecutive \in Nat /\ Cooldown \in Nat

VARIABLES
  breaker,     \* the breaker of each model and of the provider
  lastMode,    \* _last_mode
  clock,       \* time.monotonic
  pc,          \* where the handling of an event stands
  event,       \* the event handled
  staged,      \* the control message of the open transaction
  bus,         \* the last mode published on SYSTEM_CONTROL
  pending,     \* events handled and not acked
  deliveries, lost, rollbacks, restarts

vars == <<breaker, lastMode, clock, pc, event, staged, bus, pending,
          deliveries, lost, rollbacks, restarts>>
counts == <<deliveries, lost, rollbacks, restarts>>

Modes == {"NORMAL", "TEXT_LOCAL_FILTER", "LOCAL_QUANT_MODE"}
NoEvent == [model |-> NoProvider, provider |-> NoProvider, kind |-> "other"]
Closed == [down |-> FALSE, failures |-> 0, opened |-> 0]

\* The state of a breaker that is down: HALF_OPEN once the cooldown elapsed.
HalfOpen(b) == breaker[b].down /\ clock - breaker[b].opened >= Cooldown

\* Mutant of Failed: one failure early.
FailedEarly(b) ==
  LET n == breaker[b].failures + 1 IN
  IF HalfOpen(b) THEN [breaker[b] EXCEPT !.opened = clock]
  ELSE IF n >= MaxConsecutive THEN [down |-> TRUE, failures |-> n, opened |-> clock]
  ELSE [breaker[b] EXCEPT !.failures = n]

\* record_failure: a failed probe re-trips at once, with a fresh cooldown.
Failed(b) ==
  LET n == breaker[b].failures + 1 IN
  IF HalfOpen(b) THEN [breaker[b] EXCEPT !.opened = clock]
  ELSE IF n > MaxConsecutive THEN [down |-> TRUE, failures |-> n, opened |-> clock]
  ELSE [breaker[b] EXCEPT !.failures = n]

\* CircuitBreakerRegistry.system_mode.
SystemMode ==
  LET down == {m \in Models : breaker[m].down} IN
  IF breaker[OpenAI].down \/ down \ {Flash} # {} THEN "LOCAL_QUANT_MODE"
  ELSE IF Flash \in down THEN "TEXT_LOCAL_FILTER"
  ELSE "NORMAL"

\* provider or infer_provider(model).
Provider(e) == IF e.provider = NoProvider THEN Inferred[e.model] ELSE e.provider

\* Mutant of Recovered: a success of any model proves the provider healthy.
RecoveredByAny(e) ==
  IF e.model \in KnownModels /\ Provider(e) # Inferred[e.model]
  THEN {} ELSE {e.model, Provider(e)}

\* record_llm_success: the breakers a success closes.
Recovered(e) ==
  IF e.model \in KnownModels /\ Provider(e) # Inferred[e.model]
  THEN {}
  ELSE {e.model} \cup (IF e.model \in CurrentModels THEN {Provider(e)} ELSE {})

\* The breakers a failure counts against: bad output and client errors none.
Blamed(e) ==
  (IF e.kind \in {"model", "both"} THEN {e.model} ELSE {})
  \cup (IF e.kind \in {"both", "provider"} /\ Provider(e) = OpenAI
        THEN {OpenAI} ELSE {})

Init ==
  /\ breaker = [b \in Breakers |-> Closed]
  /\ lastMode = "NORMAL" /\ bus = "NORMAL" /\ staged = "none"
  /\ clock = 0
  /\ pc = "idle" /\ event = NoEvent /\ pending = {}
  /\ deliveries = 0 /\ lost = 0 /\ rollbacks = 0 /\ restarts = 0

-----------------------------------------------------------------------------
\* apply_health_event, for a new event or a redelivered one.
Apply(e) ==
  /\ pc = "idle"
  /\ deliveries < MaxDeliveries
  /\ deliveries' = deliveries + 1
  /\ breaker' = [b \in Breakers |->
                   IF e.kind = "ok"
                   THEN IF b \in Recovered(e) THEN Closed ELSE breaker[b]
                   ELSE IF b \in Blamed(e) THEN Failed(b) ELSE breaker[b]]
  /\ pc' = "broadcast" /\ event' = e
  /\ pending' = pending \cup {e}
  /\ UNCHANGED <<lastMode, clock, staged, bus, lost, rollbacks, restarts>>

\* Mutant of Broadcast: the mode counts as told before it is published.
BroadcastOptimistic ==
  /\ pc = "broadcast"
  /\ lastMode' = SystemMode
  /\ \/ pc' = "ack" /\ staged' = (IF SystemMode = lastMode THEN staged ELSE SystemMode)
        /\ UNCHANGED <<event, counts>>
     \/ lost < MaxLost /\ lost' = lost + 1 /\ pc' = "idle" /\ event' = NoEvent
        /\ UNCHANGED <<staged, deliveries, rollbacks, restarts>>
  /\ UNCHANGED <<breaker, clock, bus, pending>>

\* _broadcast_mode publishes a changed mode, then remembers it.
Broadcast ==
  /\ pc = "broadcast"
  /\ pc' = "ack"
  /\ staged' = IF SystemMode = lastMode THEN staged ELSE SystemMode
  /\ lastMode' = SystemMode
  /\ UNCHANGED <<breaker, clock, event, bus, pending, counts>>

\* publish raises: the event stays pending and the mode untold.
PublishFails ==
  /\ pc = "broadcast"
  /\ SystemMode # lastMode
  /\ lost < MaxLost
  /\ pc' = "idle" /\ event' = NoEvent
  /\ lost' = lost + 1
  /\ UNCHANGED <<breaker, lastMode, clock, staged, bus, pending, deliveries,
                 rollbacks, restarts>>

\* ack commits the transaction with the staged message.
Ack ==
  /\ pc = "ack"
  /\ pc' = "idle" /\ event' = NoEvent
  /\ pending' = pending \ {event}
  /\ staged' = "none"
  /\ bus' = IF staged = "none" THEN bus ELSE staged
  /\ UNCHANGED <<breaker, lastMode, clock, counts>>

\* The commit fails: the staged message is gone, the mode stays remembered.
CommitFails ==
  /\ pc = "ack"
  /\ rollbacks < MaxRollbacks
  /\ rollbacks' = rollbacks + 1
  /\ pc' = "idle" /\ event' = NoEvent
  /\ staged' = "none"
  /\ UNCHANGED <<breaker, lastMode, clock, bus, pending, deliveries, lost, restarts>>

\* The process restarts between two events or inside one: breakers and the
\* last mode start over, whatever was published before.
Restart ==
  /\ restarts < MaxRestarts
  /\ restarts' = restarts + 1
  /\ breaker' = [b \in Breakers |-> Closed]
  /\ lastMode' = "NORMAL" /\ staged' = "none"
  /\ pc' = "idle" /\ event' = NoEvent
  /\ UNCHANGED <<clock, bus, pending, deliveries, lost, rollbacks>>

Tick ==
  /\ clock < MaxTime
  /\ clock' = clock + 1
  /\ UNCHANGED <<breaker, lastMode, pc, event, staged, bus, pending, counts>>

Next ==
  \/ \E e \in Events : Apply(e)
  \/ Broadcast
  \/ PublishFails
  \/ Ack
  \/ CommitFails
  \/ Restart
  \/ Tick

Spec == Init /\ [][Next]_vars

-----------------------------------------------------------------------------
(***************************************************************************)
(* Properties.                                                             *)
(***************************************************************************)
\* Every variable keeps its type.
ModeTypeOK ==
  /\ breaker \in [Breakers -> [down : BOOLEAN, failures : Nat, opened : Nat]]
  /\ lastMode \in Modes /\ bus \in Modes /\ staged \in Modes \cup {"none"}
  /\ clock \in Nat
  /\ pc \in {"idle", "broadcast", "ack"}
  /\ event \in Events \cup {NoEvent}
  /\ pending \subseteq Events
  /\ deliveries \in Nat /\ lost \in Nat /\ rollbacks \in Nat /\ restarts \in Nat

\* A breaker is down exactly while more consecutive failures than tolerated
\* have been counted: neither time alone nor a failed probe ever closes it or
\* makes it forget, and no single failure of many opens it (record_failure,
\* record_success, llm_allowed).
DownExactlyAfterOutage ==
  \A b \in Breakers : breaker[b].down <=> breaker[b].failures > MaxConsecutive

\* Within one process the provider counts as recovered only on a success that a
\* current model attributes to it: historical routes, unknown models and
\* misattributed successes prove nothing (record_llm_success).
ProviderRecoversByCurrentRoute ==
  [][(breaker[OpenAI].failures > 0 /\ breaker'[OpenAI] = Closed /\ restarts' = restarts) =>
       /\ event'.kind = "ok"
       /\ event'.model \in CurrentModels
       /\ Inferred[event'.model] = OpenAI]_vars

\* A failed publication is made up for: once every event is acked the bus
\* carries the mode that admission is decided with, as long as the process lives
\* and no commit failed ("Advance only after publish succeeds", _broadcast_mode).
ModeToldWhileRunning ==
  (restarts = 0 /\ rollbacks = 0 /\ pending = {}) => bus = SystemMode

\* The same without the condition: the service "derives the mode from
\* kairos.llm.health and publishes changes on kairos.system.control"
\* (README.md:169-170), so with nothing left to handle the bus carries it.
ModeTold == (pc = "idle" /\ pending = {}) => bus = SystemMode
=============================================================================
