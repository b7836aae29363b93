------------------------ MODULE ModeBroadcastProofs ------------------------
(***************************************************************************)
(* Proofs about the circuit breakers and the health consumer, for every    *)
(* set of models and events, every threshold and every cooldown.           *)
(***************************************************************************)
EXTENDS ModeBroadcast, TLAPS

BreakerState == [down : BOOLEAN, failures : Nat, opened : Nat]

\* The threshold equivalence, with the types it counts in.
BreakerInv == ModeTypeOK /\ DownExactlyAfterOutage

-----------------------------------------------------------------------------
\* A counted failure keeps a breaker's type and the equivalence between being
\* down and having counted too many failures (record_failure).
LEMMA FailedBreaker ==
  ASSUME NEW b \in Breakers, BreakerInv
  PROVE  /\ Failed(b) \in BreakerState
         /\ Failed(b).down <=> Failed(b).failures > MaxConsecutive
         /\ Failed(b).failures > 0
<1>1. breaker[b] \in BreakerState /\ clock \in Nat /\ MaxConsecutive \in Nat
      /\ (breaker[b].down <=> breaker[b].failures > MaxConsecutive)
  BY ModeAssumption DEF BreakerInv, ModeTypeOK, DownExactlyAfterOutage, BreakerState
<1>2. CASE HalfOpen(b)
  BY <1>1, <1>2 DEF Failed, BreakerState, HalfOpen
<1>3. CASE ~HalfOpen(b)
  BY <1>1, <1>3 DEF Failed, BreakerState
<1> QED BY <1>2, <1>3

\* Handling an event keeps the invariant, for an outage and for a success.
LEMMA ApplyInv ==
  ASSUME BreakerInv, NEW e \in Events, Apply(e)
  PROVE  BreakerInv'
<1>1. \A b \in Breakers : breaker'[b] \in {Closed, breaker[b], Failed(b)}
  BY DEF Apply
<1>2. \A b \in Breakers :
        /\ breaker[b] \in BreakerState
        /\ breaker[b].down <=> breaker[b].failures > MaxConsecutive
  BY DEF BreakerInv, ModeTypeOK, DownExactlyAfterOutage, BreakerState
<1>3. /\ Closed \in BreakerState
      /\ Closed.down <=> Closed.failures > MaxConsecutive
  BY ModeAssumption DEF Closed, BreakerState
<1>4. \A b \in Breakers :
        /\ breaker'[b] \in BreakerState
        /\ breaker'[b].down <=> breaker'[b].failures > MaxConsecutive
  BY <1>1, <1>2, <1>3, FailedBreaker
<1>5. breaker' \in [Breakers -> BreakerState]
  BY <1>4 DEF Apply
<1>6. ModeTypeOK'
  BY <1>5 DEF Apply, BreakerInv, ModeTypeOK, BreakerState
<1> QED BY <1>4, <1>6 DEF BreakerInv, DownExactlyAfterOutage

\* The mode is one of the three the registry derives (system_mode).
LEMMA SystemModeType == SystemMode \in Modes
BY DEF SystemMode, Modes

\* Every step keeps the invariant.
LEMMA ModeNextInv == BreakerInv /\ [Next]_vars => BreakerInv'
<1> SUFFICES ASSUME BreakerInv, [Next]_vars PROVE BreakerInv'
  OBVIOUS
<1> USE DEF BreakerInv, ModeTypeOK, DownExactlyAfterOutage
<1>1. ASSUME NEW e \in Events, Apply(e) PROVE BreakerInv'
  BY <1>1, ApplyInv
<1>2. CASE Broadcast
  BY <1>2, SystemModeType DEF Broadcast, counts
<1>3. CASE PublishFails
  BY <1>3 DEF PublishFails
<1>4. CASE Ack
  BY <1>4 DEF Ack, counts, Modes
<1>5. CASE CommitFails
  BY <1>5 DEF CommitFails
<1>6. CASE Restart
  BY <1>6, ModeAssumption DEF Restart, Closed, Modes
<1>7. CASE Tick
  BY <1>7 DEF Tick, counts
<1>8. CASE UNCHANGED vars
  BY <1>8 DEF vars
<1> QED BY <1>1, <1>2, <1>3, <1>4, <1>5, <1>6, <1>7, <1>8 DEF Next

\* The invariant holds initially and forever.
LEMMA ModeInvariance == Spec => []BreakerInv
<1>1. Init => BreakerInv
  BY ModeAssumption DEF Init, BreakerInv, ModeTypeOK, DownExactlyAfterOutage,
     Closed, Modes
<1> QED BY <1>1, ModeNextInv, PTL DEF Spec

\* The health consumer's variables keep their types.
THEOREM ModeTypeCorrect == Spec => []ModeTypeOK
<1>1. BreakerInv => ModeTypeOK
  BY DEF BreakerInv
<1> QED BY <1>1, ModeInvariance, PTL

\* Whatever is delivered, redelivered or lost, a breaker is down exactly while
\* more consecutive failures than tolerated have been counted (record_failure,
\* record_success).
THEOREM OutageThreshold == Spec => []DownExactlyAfterOutage
<1>1. BreakerInv => DownExactlyAfterOutage
  BY DEF BreakerInv
<1> QED BY <1>1, ModeInvariance, PTL

\* No historical, unknown or misattributed success ever recovers the provider:
\* it takes a success of a current model whose provider it is
\* (record_llm_success).
THEOREM ProviderRecovery == Spec => ProviderRecoversByCurrentRoute
<1> DEFINE Proven == /\ event'.kind = "ok"
                     /\ event'.model \in CurrentModels
                     /\ Inferred[event'.model] = OpenAI
           Recovers == /\ breaker[OpenAI].failures > 0
                       /\ breaker'[OpenAI] = Closed
                       /\ restarts' = restarts
<1>1. ASSUME BreakerInv, [Next]_vars, Recovers PROVE Proven
  <2>1. OpenAI \in Breakers /\ OpenAI \notin Models
    BY ModeAssumption DEF Breakers
  <2>2. breaker'[OpenAI] # breaker[OpenAI]
    BY <1>1 DEF Closed
  <2>3. ~Restart
    BY <1>1 DEF Restart, BreakerInv, ModeTypeOK
  <2>4. ASSUME NEW e \in Events, Apply(e) PROVE Proven
    <3>1. event' = e /\ e.model \in Models
      BY <2>4, ModeAssumption DEF Apply
    <3>2. Failed(OpenAI) # Closed
      BY <1>1, <2>1, FailedBreaker DEF Closed
    <3>3. e.kind = "ok" /\ OpenAI \in Recovered(e)
      BY <1>1, <2>1, <2>2, <2>4, <3>2 DEF Apply
    <3>4. e.model \in CurrentModels /\ Provider(e) = OpenAI
      BY <2>1, <3>1, <3>3 DEF Recovered
    <3>5. Inferred[e.model] = OpenAI
      BY <3>3, <3>4, ModeAssumption DEF Recovered
    <3> QED BY <3>1, <3>3, <3>4, <3>5
  <2>5. \/ \E e \in Events : Apply(e)
        \/ Restart
    BY <1>1, <2>2 DEF Next, Broadcast, PublishFails, Ack, CommitFails, Tick, vars
  <2> QED BY <2>3, <2>4, <2>5
<1>2. BreakerInv /\ [Next]_vars => [Recovers => Proven]_vars
  BY <1>1
<1> QED BY <1>2, ModeInvariance, PTL DEF Spec, ProviderRecoversByCurrentRoute

-----------------------------------------------------------------------------
(***************************************************************************)
(* What is told of the mode.  Between two events the bus carries the       *)
(* remembered mode; while one is handled the difference is staged.  The    *)
(* remembered mode is the derived one from a broadcast to the next event,  *)
(* unless an event is still pending.                                       *)
(***************************************************************************)
Undisrupted == restarts = 0 /\ rollbacks = 0

TellingInv ==
  Undisrupted =>
    /\ pc # "ack" => staged = "none"
    /\ pc # "idle" => event \in pending
    /\ bus = lastMode \/ staged = lastMode
    /\ staged # "none" => staged = lastMode
    /\ (pc = "ack" \/ pending = {}) => lastMode = SystemMode

\* The derived mode depends on the breakers alone (system_mode).
LEMMA SystemModeStable ==
  ASSUME UNCHANGED breaker
  PROVE  SystemMode' = SystemMode
BY DEF SystemMode

\* Every step keeps the bus, the staged message and the remembered mode in
\* step (_broadcast_mode, ack).
LEMMA TellingStep ==
  ASSUME BreakerInv, TellingInv, [Next]_vars
  PROVE  TellingInv'
<1> USE DEF TellingInv, Undisrupted
<1>0. /\ lastMode \in Modes /\ staged \in Modes \cup {"none"}
      /\ restarts \in Nat /\ rollbacks \in Nat
      /\ "none" \notin Modes
  BY DEF BreakerInv, ModeTypeOK, Modes
<1>1. ASSUME NEW e \in Events, Apply(e) PROVE TellingInv'
  BY <1>1 DEF Apply
<1>2. CASE Broadcast
  <2>1. SystemMode' = SystemMode
    BY <1>2, SystemModeStable DEF Broadcast
  <2> QED BY <1>0, <1>2, <2>1, SystemModeType DEF Broadcast, counts
<1>3. CASE PublishFails
  <2>1. SystemMode' = SystemMode
    BY <1>3, SystemModeStable DEF PublishFails
  <2> QED BY <1>3, <2>1 DEF PublishFails
<1>4. CASE Ack
  <2>1. SystemMode' = SystemMode
    BY <1>4, SystemModeStable DEF Ack
  <2> QED BY <1>0, <1>4, <2>1 DEF Ack, counts
<1>5. CASE CommitFails
  BY <1>0, <1>5 DEF CommitFails
<1>6. CASE Restart
  BY <1>0, <1>6 DEF Restart
<1>7. CASE Tick
  <2>1. SystemMode' = SystemMode
    BY <1>7, SystemModeStable DEF Tick
  <2> QED BY <1>7, <2>1 DEF Tick, counts
<1>8. CASE UNCHANGED vars
  <2>1. SystemMode' = SystemMode
    BY <1>8, SystemModeStable DEF vars
  <2> QED BY <1>8, <2>1 DEF vars
<1> QED BY <1>1, <1>2, <1>3, <1>4, <1>5, <1>6, <1>7, <1>8 DEF Next

\* In a process whose commits succeed, a publication that failed is made up
\* for: with no event left to ack, the bus carries the mode that admission is
\* decided with (_broadcast_mode remembers a mode only after publishing it).
THEOREM ModeIsTold == Spec => []ModeToldWhileRunning
<1>1. Init => TellingInv
  BY ModeAssumption
     DEF Init, TellingInv, Undisrupted, SystemMode, Closed, Breakers, Models
<1>2. BreakerInv /\ TellingInv => ModeToldWhileRunning
  BY DEF TellingInv, Undisrupted, ModeToldWhileRunning, BreakerInv, ModeTypeOK,
     Modes
<1> QED BY <1>1, <1>2, TellingStep, ModeInvariance, PTL DEF Spec
=============================================================================
