# Verification of the Kairos Risk Manager

TLA+ models of `src/kairos_risk`, checked with TLC and, where stated, proved
with TLAPS. Paths such as `paper_runtime.py:184` are relative to
`src/kairos_risk/`; other paths are relative to `src/`.

## 1. The system

Kairos Risk is the last gate before execution. It is one asyncio process with
several consumers of a durable bus (PostgreSQL inbox and outbox). It keeps its
state in memory and rebuilds what it needs from the durable log after a restart.

| Component | State it keeps | Operations | What makes it correct |
|---|---|---|---|
| PAPER admission coordinator (`paper_runtime.py`, gates in `paper.py`) | latest account and sequence, newest measurement per symbol, reservations, LRU decision cache, two recovery flags; all under one `asyncio.Condition` | `apply_account`, `apply_venue`, `restore_reservations`, `wait_for_inputs`, `evaluate`, `apply_regime_allocation` | authority only from the newest contradiction-free snapshot; reservations end only with proof; one idea per symbol, one canary, the portfolio ceiling; a redelivered review gets the same verdict |
| PAPER service loop (`service.py`) | none of its own | review, account and venue consumers, publish with ack, `_recover_paper_state` | the above across lagging snapshots, failed commits, redelivery and restarts |
| PAPER review handler (`service.py:328-430`, `operator_control.py`, `canary_authorization.py`) | the local variables of one handling | wait, read operator, consume arm, evaluate, bind, publish | an approval is bound to the authority that was read; a canary needs its arm; a denial leaves no trace; every handling ends |
| Breakers and SystemMode (`circuit_breaker.py`, `service.py:145-211,489-514`) | one breaker per model and provider, the mode last published | `apply_health_event`, `_broadcast_mode` | thresholds, recovery by the right success only, the bus carries the mode in force |
| DRY_RUN consumers (`service.py:213-318,516-684`, `account.py`) | account, sequence, allocation | account, allocation and command handlers | only a newer snapshot restores readiness; an allocation version has one content |
| DRY_RUN command pipeline (`pipeline.py`, `strategy.py`, `validators.py`, `sizing.py`) | none | gates in order, sizing | caps and gate order |
| Adaptive regime allocation (`paper_runtime.py:71-110`, `paper.py:445-491`) | allocations by intent | `apply_regime_allocation` | one content per intent, poisoned on conflict |
| Technical canary controller (`canary.py`, `canary_runner.py`, `canary_authorization.py`, `canary_instrument.py`) | the durable session ledger of a `kairos-persistence` repository; none in the process | `submit-next`, `publish`, `stop`; preparation, arm with enqueue; Risk's `consume` | one slot at a time, prepared on facts that cannot hide a live canary, approved inside entry window and session |
| LIVE pilot policy (`live.py`) | limits and the scope that binds them | `evaluate` | the day's losses, what is open and what is reserved stay under the daily cap; every ceiling holds for the displayed figures |
| Capital budget proposal (`capital_budget_proposal.py`) | none; its record may become a new scope | `propose_capital_budget` | no sequence of proposals relaxes a limit |
| Simulated admission (`simulation.py`), recorder (`evaluation.py`) | none | pure | – |
| Configuration and entry points | settings | validation, start | – |

How they interact: Quant, Portfolio, Execution and the market-data services
write to the bus. The review consumer handles one review at a time and awaits
the coordinator, the operator repository and the arm repository; the account and
venue consumers change the coordinator between those awaits. A decision is
published in the transaction that acks its review. Execution enters approved
intents up to their entry deadline, and its account snapshots come back to the
coordinator. The health consumer feeds the breakers; the mode they give is read
by the PAPER gates and published for the other services. The canary command lines
are other processes: they read durable facts, arm a slot and enqueue the review in
one transaction, and Risk consumes the arm while it handles that review. LIVE is an
evaluator in a process of its own, which the service of this repository refuses to start.

What is hard here: the awaits of one handling interleave with the other
consumers; snapshots lag behind the exchange, repeat, arrive out of order and may
contradict one another; a commit can fail after memory was changed; a restart
loses memory and restores only part of it; waits are bounded by deadlines; caches
are bounded. `PROJECT.json` lists every such place as a hazard, with its line and
the properties that cover it.

## 2. Modules

| Module | Models | Composes |
|---|---|---|
| `PaperCoordinator` | `PaperRiskCoordinator` and the admission gates that read its state; each public method is one action, its inputs are arbitrary | – |
| `PaperCoordinatorProofs` | proofs about it and about `RegimeBinding` | `RegimeBinding`, `CountingProofs` |
| `PaperExposure` | the coordinator with its consumers, the durable log, crashes, and an exchange whose truth lags behind in snapshots | extends `PaperCoordinator` and uses its actions |
| `PaperExposureProofs` | proofs about it | `PaperExposure`, `PaperCoordinatorProofs` |
| `ReviewHandler` | `_handle_paper_review`, await by await | – |
| `ReviewHandlerProofs` | proofs about it | `ReviewHandler`, `TLAPS` |
| `CanaryController` | the canary command lines, the session ledger, and Risk's rounds over an armed review | composes both processes over the ledger |
| `CanaryControllerProofs` | proofs about it | `CanaryController`, `TLAPS` |
| `LivePilot` | the LIVE evaluator and the capital budget proposals, over a moving account | – |
| `ModeBroadcast` | breakers, health consumer, publication of the mode | – |
| `ModeBroadcastProofs` | proofs about it | `ModeBroadcast`, `TLAPS` |
| `RegimeBinding` | the coordinator under the adaptive regime policy: bindings, contradictions, eviction, gate | extends `PaperCoordinator` and uses its actions |
| `PaperSizing` | the money of `PaperRiskPipeline.evaluate` and the exposure successive approvals build up | – |
| `PaperSizingProofs` | proofs about it | `PaperSizing`, `CountingProofs` |
| `DryRunPipeline` | `RiskPipeline.validate` with limits, caps and sizing | – |
| `DryRunService` | the account, allocation and command handlers of the DRY_RUN path | extends `DryRunPipeline` |
| `TradingModesProofs` | proofs about `DryRunService` and `LivePilot` | both, and `CountingProofs` |
| `Counting` | sums of amounts over sets and the entries a filter keeps of a sequence, used by every model that adds up money or filters an order | – |
| `CountingProofs` | lemmas about them | `Counting`, `TLAPS` |
| `NewestWins` | abstract: a register that adopts only newer versions and may be revoked | instantiated by `PaperCoordinator` (account, venue) and `DryRunService` (account, allocation) |
| `ApprovalBook` | abstract: approvals granted one by one, each review once, beside none they exclude, and never reopened | instantiated by `PaperExposure` |
| `MC*` | constants of the instances TLC checks | `MCTradingModes` instantiates both `DryRunService` and `LivePilot` |

### PaperCoordinator

`account`, `latestSeq`, `latestCaptured`, `venue`, `decisions` and `lru` (the
OrderedDict and its order), `reservations`, `recoveryLoaded` and `accountReady` are
the fields of the class (`paper_runtime.py:51-64`). `None` is `NoSnapshot`, -1 or
`NoVenue`. The condition variable makes each method atomic, so:

- `ApplyAccount` is split by the early returns of `apply_account` (161-198):
  `IgnoreAccount` (older, or identical), `ConflictingAccount` (same sequence,
  other content: the account is discarded), `RegressingAccount` (newer sequence,
  earlier capture: discarded, sequence kept) and `AcceptAccount`, which
  reconciles the reservations and discards the account if they contradict it.
- `ApplyVenue` is `apply_venue`, with the same three cases.
- `RestoreReservations` is recovery: reservations and cached approvals of the log,
  then a reconciliation with a retained account, in one step.
- `EvaluateCached`, `EvaluateDenied` and `EvaluateFresh` are `evaluate`: the cached
  verdict, the rejection for an external reason that is neither cached nor
  reserved, and the fresh decision with its reservation and cache trim.

One review stands for its intent and its trade. A snapshot shows a trade as
position, entry, protective orders only, or as a position with another lineage
("foreign"). Money is risk units against a constant equity. The gates that read
the coordinator's state are `Admissible`; every other reason of
`PaperRiskPipeline.evaluate` (review verdict, geometry, allocation, breakers,
drawdown, capacity) is the input `vetoed`, and the quantity arithmetic is any loss
up to the budget that `LossBudget` leaves. `PaperSizing` models what is abstracted here.

### RegimeBinding

`bindings` and `bindingOrder` are `_regime_allocations` and its order;
`Unbound` is a missing key, `Poisoned` the value `None`. `ApplyBinding` is
`apply_regime_allocation`: ignored (identical, or bound after its receipt), poisoned
(contradicts the one kept) or stored and trimmed. `EvaluateBound` is `evaluate`:
replayed, denied (for a conflict or for the caller's reasons) or decided anew, with
the adaptive gate as one more veto; all three use the coordinator's own actions.
A binding's content is its id, and `sound` stands for what the gate compares with
policy, producer, account and intent. `answer`, `heard` and `contested` are
history variables for the properties.

### PaperSizing

`book` holds each symbol's idea (reserved, resting as an entry order, or open with
entry and mark price), `funds` the balances of the latest snapshot. `Evaluate` is the
decision: account, allocation and geometry gates, loss budget, leverage, loss per
unit, the six notional caps, the canary's bound quantity rechecked at the worst
entry, the minimum notional and the final comparison of `_economics` with the
budget. An allocation that comes with the adaptive binding (`bound`) is spared the legacy regime
vetoes, except for a canary (`Adaptive`, `paper.py:167-181`, 485-491). The outside rests, fills, marks and ends ideas, changes balances, and
claims any of three open-risk figures. Integers are exact in units of 1/10000; a
quotient is rounded down to whole quantities, where the code keeps a float and
compares with tolerances of 1e-6 to 1e-12; the tolerance of 1.0001 on reserve and weights is kept (`AllocationInvalid`). What does not depend on money (review
verdict, clocks, environment) is the input `vetoed`.

### DryRunPipeline and DryRunService

`DryRunPipeline` is the decision of one command as operators in the order of the
code's gates: degraded mode, entry vetoes, allocation limits, leverage clamps, room
under the position and allocation caps, minimum notional. `DryRunService` keeps
account, version and allocation as the service does. `HandleAccount` is split by
the early returns of `_handle_account` and `_consume_account`: malformed, repeated or
contradictory, revoking (not reconciled, for another account, or
inconsistent) and new. `HandleAllocation` is split likewise. `HandleCommand` runs the
service's gates and the pipeline; its result stays in a variable until
`EndCommand`, so that properties can compare it with the state it was decided on.

### PaperExposure

Adds the clock, the review inbox, the decision the handler holds between
evaluation and commit, the durable log of approvals, and as external parts the
exchange, the snapshot stream and Execution. Actions are the consumers of
`service.py` (`DeliverAccount`, `DeliverVenue`, `Evaluate`, `Deny`,
`RefuseBinding`, `DropAtDeadline`, `Commit`, `FailCommit`), the process (`Recover`,
`Crash`) and the outside (`Tick`, `EmitSnapshot`, `EnterTrade`, `FillEntry`,
`CloseTrade`). `Evaluate` may use a time up to `HandlerDelay` old, since the handler reads
its clock before it awaits operator and arm (`service.py:337-339`).
The external assumptions stand at the head of the module: publish and ack are one
transaction, Execution enters a committed approval at most once and not after its
deadline, snapshots are truthful at their capture time and numbered in order,
unacked messages come again in any order. `ApprovalBook` says what the outside sees of all this: its `granted` is
the order of the log's reviews, its `open` the `Executable` approvals.

### ReviewHandler

One action per await of `_handle_paper_review`; `pc` names the next one. The
loop variables (`reasons`, `seen`, `armChecked`, `late`, `approved`) live as long as
in the code: `reasons` and `armChecked` over all rounds of the `while`, `seen` for one
round. The coordinator is reduced to what this handler sees of it
(`recovered`, `measured`, `cache`, `reserved`) and changes between any two awaits, as do the
operator control, the arms and the deadlines. `Fail` and `Restart` end a handling
anywhere a call can raise or the process can die.

### ModeBroadcast

One breaker per model, known or not, and one for OpenAI. `HALF_OPEN` is a breaker that is down
with its cooldown elapsed. A health event is handled as `Apply`, `Broadcast` (or
`PublishFails`) and `Ack` (or `CommitFails`). Failure kinds stand for what
`apply_health_event` distinguishes: a failure of the model, of model and provider, of the provider alone,
or of neither.

### CanaryController

`runs` holds the invocations: the command, the clock read once at start
(`canary_runner.py:149-171`), the slot, and the review once prepared; a process that has ended keeps nothing
(`Ended`). A review is its slot's parameters, the closed bar it was built from and a reading: the executable price and the
instrument rule, from which `_build_intent` takes the bound quantity (`canary.py:482-490`). Two
invocations can therefore prepare the same review, or two of one slot. `Start` selects the slot (`Selected` is `next_slot`
for `submit-next`; the `publish` command names any slot). `Prepare` is `prepare_canary` on one
repeatable-read view of the facts: entry window, account age, flat account, and no
reservation, where `Reserved` counts every approval that expires no earlier than the snapshot
was captured (`_load_snapshot`). Its other refusals (venue, instrument, geometry) are `Abandon`.
`Arm` is `CanarySession.run` with `validate_armed_record`: it arms and enqueues, or finds
the same review armed, and the reply may be lost. `Stop` is the drain request.
Risk's side (`TakeReview` to `FailHandling`) is the handler of `ReviewHandler` seen from
the arm: rounds with a clock each, the arm consumed at most once per handling, a consumed arm told again
with its first decision time, `Authorizes` as in `allocation_from_consumed_arm`.

External: the session repository, whose contract `src/` uses and `README.md:247-285` describes. It arms
slots in order, each once, and nothing when draining or past the deadline. That the database also
refuses a manual `publish` beside a pending attempt is its own rule and not assumed, so
`SubmittedWhileFlat` speaks of `submit-next`. An attempt becomes terminal (`Conclude`) once its review was
answered and nothing of it is, or can become, exchange risk.

### LivePilot

`Admitted` holds the gates of `_admission_gates` that read account, scope and clock; the
symbol gate reads the snapshot alone (`live.py:704-707`). `LiveLossBudget`, `NotionalCeiling` and `Sized` are the
loss budget, the notional ceiling and the lot sizing with its corrections. Displayed figures are rounded outward
to a grid, each part by itself (`_upper_float`), and `Fits` compares what is displayed. Receipts, intent, regime and market
vetoes only refuse; they are left out, as an idea may simply not be evaluated. `Propose` is
`propose_capital_budget` with its refusals; `Rescope` is the release of a scope made from a proposal.
The outside opens and ends ideas at any loss up to the worst one, moves equity, and captures
evidence, which may be used while it ages. What the verifier promises (`docs/LIVE-RISK.md`) is assumed at the head of the
module.

`MCTradingModes` runs `DryRunService` and `LivePilot` in one instance. They share no state: a
behaviour steps the one or the other, as a deployment has one trading mode.

## 3. Runs

Every bound is a constant of its module and named there.

| Run | Instance | Shows |
|---|---|---|
| `coordinator` | 3 reviews (2 canaries), 2 symbols, 2 sequences, 2 capture times, 2 instants and measurement ids, cache of 1, ceiling 3, per trade 2 | authority, reservation and replay for arbitrary inputs |
| `exposure` | 3 reviews (2 canaries), 2 symbols, 2 snapshots, 1 disruption (failed commit or restart), time 0..1, ceiling equal to one trade's risk, cache of 1 | executable approvals stay reserved, form a book (`ApprovalBook`), exclude each other and fit under the portfolio ceiling, whatever fails or restarts; until a restart all this counts open trades too |
| `restart_second_idea` | 2 reviews on one symbol | finding 1 |
| `review_handler` | a canary and another review, 2 operator versions, 1 loss of inputs, 1 failure or restart | authority binding, arm, denial, revocation and termination |
| `arm_after_denial` | the same | finding 2 |
| `mode_broadcast` | flash, a current and a historical OpenAI model, an unknown model; 4 deliveries, threshold 1, cooldown 1, time 0..1, one each of failed publication, failed commit, restart | thresholds, recovery, the mode on the bus |
| `mode_after_restart` | the same without failed commits | finding 3 |
| `trading_modes` | DRY_RUN: 2 symbols, 2 capture and 2 production times, 6 account contents, 3 policies, 9 commands, 2 modes, time 0..3, ages of 1. LIVE: 3 ideas on 2 symbols, a long and a short quote, 2 equities, 2 scopes, time 0..1, evidence as old as 0 | newest valid account and allocation behind every order, caps; daily loss, ceilings and limits of the pilot |
| `canary` | 2 invocations of either command, 2 slots, 2 bars, 2 readings, session to 4, time 0..4, 1 retry or failure | nothing prepared or submitted beside a live canary, nothing approved outside window or session by the arm's time or the present one, no slot or attempt used twice |
| `regime_binding` | 2 adaptive reviews and a canary on 3 symbols, 2 snapshots, 4 bindings (contradictory, unsound, expiring), times 1..2, cache of 1 | contested intents denied, approvals rest on sound bindings, the coordinator unchanged |
| `binding_dropped` | the same | finding 4 |
| `sizing` | 3 symbols, 2 ideas and a canary, 2 venues, 5 allocations, 3 balances, 2 prices, 3 claims; 25 and 40 basis points | each quantity fits its budget, ceiling and caps |

Why the bounds are enough. The rules of the coordinator compare one reservation with
one snapshot, or two reviews with each other. Two reviews on a symbol and one on another
give every such pair, two sequences and two capture times give older, equal and newer
of both, and a cache smaller than the reviews makes it trim with and without
reservations. Two canaries on distinct symbols are the only way to reach the canary
rule apart from the symbol rule. In `PaperExposure` two snapshots are what it takes to
have one from before an entry delivered after it, and one that releases; one disruption is
a failed commit or a restart at every point of such a history. In
`ReviewHandler` two versions are one change of authority under a handling; one loss
of inputs makes a second round of the loop. Four deliveries of health events are two
failures that trip a breaker with threshold 1, one failed probe after the cooldown, and
one success. In the DRY_RUN half of `trading_modes` two versions
of each message give older, equal and newer ones, and the contents cover a valid, an
inconsistent, a drawn down and a differently positioned account. In its LIVE half three ideas are an
open, a reserved and a new one, and a loss per unit that divides no budget makes lots and displayed figures
differ. An `EvidenceMaxAge` of 0 with a clock of 0..1 leaves evidence both current and too old,
and current evidence is still overtaken by what opens and ends after it. In `canary` two
invocations are every pair of overlapping commands; the second bar expires beyond the session, and a window of 2 lets a consumed
arm be replayed at a later time, still inside or already past the session; two readings let a repeated command
prepare another review of the slot it already used. In `regime_binding` a
cache of one makes every second binding a trim, with and without decisions that retain
the first. In `sizing` each of the caps is the smallest in some state: removing any
one of the subtrahends of `MarginRoom`, `GrossRoom`, `StrategyRoom` or `LossBudget` from the model
violates a property there.
`CHECK_DEADLOCK FALSE` stands where the bounded system really stops, with
every review answered, every command run or every count used up; `coordinator`, `trading_modes`, `regime_binding` and
`sizing` are checked for deadlock. Symmetry is used between the two canary invocations, between the two readings, and between the two LIVE
ideas on one symbol, which nothing distinguishes; reviews are not symmetric, as they differ in symbol, deadline and strategy.

Every property has a mutant in `PROJECT.json`: a plausible bug in one mapped
definition under which the run finds the property violated. The mutated operators
stand beside the definitions they change.

Fairness. `FairSpec` of `ReviewHandler` assumes weak fairness of the consumer
task (it is scheduled while it can proceed: asyncio runs ready tasks and the
consumers loop until shutdown) and of the deadline. Failures and
restarts are bounded. Nothing is assumed of the operator, the account and venue
streams, Execution or the exchange: in the code too, only the deadline ends a wait
for them. `HandlingEnds` is the liveness property. Elsewhere nothing is promised to happen: an unanswered
message waits for its redelivery, and a canary attempt that Risk dropped waits for the session
repository to conclude it, which is outside this repository.

## 4. Findings

1. A restart after an entry deadline does not restore the approval
   (`service.py:725`), although the trade may have been entered in time and no
   delivered snapshot shows it yet. A still fresh older snapshot then opens
   admission and a second idea is approved on the symbol. `README.md:150-155` says
   recovery prevents this. Without a restart the property holds, and approvals that may still be entered
   exclude each other even across restarts (`exposure`).
2. `operator_control_unavailable` stays in the reason list over the rounds of
   the handler's loop, and a later round with a readable operator consumes the canary
   arm of a review that is already going to be denied (`service.py:340-348`,
   against `README.md:417-418`).
3. A new process takes NORMAL as the mode last published (`service.py:139`). After a restart in a
   degraded mode the bus keeps the degraded mode until the next change
   (against `README.md:169-170`).
4. `apply_regime_allocation` trims the bindings after storing the new one
   (`paper_runtime.py:98-108`). When every older binding belongs to a cached or
   reserved decision, the new one is the first evictable entry and is popped in the
   call that accepts it. The binding of a cached decision leaves only once another decision has pushed
   that one out of the cache, so while `paper_decision_cache_size` adaptive decisions are cached,
   every later adaptive review waits for a binding that was delivered and dropped, until its deadline
   (against `README.md:23-24`).

## 5. Proofs

Every safety property of every passing run is a theorem, for every value of the constants that satisfies the
assumptions named below. The assumptions are types of the constants, finiteness of the sets that are added up or
counted, the order between limits that `config.py` validates, and, for the exchange of `PaperExposure`
and the evidence of `LivePilot`, what their environment promises.

**`CountingProofs`: sums and filters.** The portfolio figures of the code are `sum(...)` over a set of ideas, here
`Total`, a fold; the trimmed orders of the code are filtered sequences, here `AtIndices`. What a recursion computes takes an
induction, and induction theorems cannot be instantiated by the provers. The induction is made by hand instead: a set
of natural numbers has a least member (`LeastNumber`), because the ranks of its members are exactly 1 to its
cardinality (`RankOrder`, `RankOnto`). The sum is then the number of units that the amounts consist of
(`FoldCounts`): both solve the same recursion, and a smallest set on which they differ would have a
smaller one. Union, monotony and bounds of sums (`TotalUnion`, `TotalMonotone`, `TotalBound`) follow
from the library's facts on cardinality; `FilteredEntries` says what a filtered sequence holds and that its order is kept.

**`PaperCoordinatorProofs`: the coordinator** (`CoordinatorAssumption`: a cache size of at least 1). Its argument is
one inductive invariant,

    IInv == TypeOK /\ ReplayIdentityRetained /\ AuthorityIsNewest
            /\ AccountIsLatest /\ NothingHeldEarly

The listed invariants alone are not inductive. `RestoreReservations` reconciles a
retained account a second time, so the account kept in memory has to be the newest one
and its readiness has to follow from it (`AccountIsLatest`), and nothing may be
reserved before recovery (`NothingHeldEarly`), or the first reconciliation could have released what the
second restores. Each step of `Next` has its own lemma-backed case; the lemmas say
what `Reconcile` releases, what `Evicted` spares and what `StoreTrimmed` leaves in the cache.
From `IInv` follow the theorems `TypeCorrect`, `ReplayIdentitySafe`, `AuthoritySafe`, the action
properties `ReleaseNeedsProof` and `CaptureMonotonic`, and the refinements
`AuthorityRefinement` and `VenueRefinement`: the account admission is open on, and each
symbol's measurement, implement `NewestWins`.

**The same module: the adaptive policy.** Every step under the adaptive policy is a step of
the coordinator (`PolicyRefinement`), so that all theorems above hold with the policy
too. `ContestedSafe` and `ApprovalBinding` then follow from `RInv`, which adds to
`ContestedNeverApproved` that the kept binding follows the history (`BindingFollows`): an
intent the coordinator knows has the first binding heard, or is poisoned if it is
contested. It needs that the trim spares what is cached or reserved. `RegimeTypeCorrect` needs `Filed`: the order
holds exactly the bound intents, each binding under its own.

**`PaperExposureProofs`: the coordinator among exchange, log and restarts**, for any number of reviews, snapshots,
crashes and failed commits. Its invariant is `ExposureInv`, the coordinator's `IInv` and six parts:

- `Answered`: what the log holds as approved is neither in the inbox nor in the handler, because publication and
  acknowledgement are one transaction. `ApprovedOnce` follows.
- `SnapshotInv`: any two snapshots that are in flight or in memory agree. A later one shows what an earlier one did
  not only if the entry deadline lay after the earlier capture, and omits what an earlier one showed only if it
  closed; nothing closes and opens again (`NoReopening`, over three snapshots). Without the pairs, a snapshot
  that releases one reservation could hide a trade of another.
- `ReservedInv`: an approval that may still be entered is reserved, at the risk that is or will be committed, from the decision
  in memory over the commit to the entry, and again after recovery. `ReservedUntilEntered` follows.
- `PromiseInv`, for any number of restarts: the committed approvals that may still be entered, together with the
  cached ones of pending reviews, are on distinct symbols, hold at most one canary and risk no more than the ceiling.
  The cached ones belong to it because a failed commit leaves them behind and a redelivery commits them. A running process has
  each of these promises reserved at its risk (`PromisedReserved`, from `ReservedInv` and the replay identity), so what is free
  for a new approval is free of them; a commit turns one promise into an executable approval of the same risk; a crash
  drops the cached ones and recovery adds none.
- `OccupyingInv`, until the first restart: the open trades, and what any undelivered newer snapshot
  shows, are reserved or shown by the account in memory; those ideas are on distinct symbols, at most one of them is a
  canary, and the account's open risk with the reserved risk is under the ceiling. The third clause is the one that a
  delivery could break: what is released because an account shows it has to stay shown by the next account, or to be closed.
- `StartInv`: before recovery nothing was decided in this process.

`OneIdea` and `RiskWithinCap` state both halves: of executable approvals always (`PromiseInv`), and of these with the open trades
until a restart (`OccupyingInv`). That the second half needs its restriction is finding 1, and the first half says how far that
finding reaches: a restart can put an approval beside an open trade, never beside another executable approval. `BookRefinement`
shows step by step that the composition implements `ApprovalBook` (only `Commit` grants, every other step lets executable
approvals lapse); `ReleaseIsFinal` says that an idea released while the process runs is shown by the account in memory, or is
not open and past its deadline, which the truth of the snapshots gives to the coordinator's rule (`ReleaseNeedsProof`).
`CoordinatorHolds` states that the coordinator's replay identity and authority survive the composition.

**`PaperSizingProofs`: the money** (`SizingAssumption`). `SizedWithinBudget` holds because the loss of
the economics is the loss per unit times the quantity (`WorstLossIs`, an identity of the two formulas of the code) and a quotient
rounded down times its divisor is no more than the dividend (`Fits`, `SizedFits`), for the canary's bound quantity too. With the
quantities positive and the reserved ones tradable (`SizingTypeCorrect`), `CeilingKept` and `CapsKept`
compare the sums before and after an approval: the reserved group gains exactly the new idea, the open
group none (`WorthAfter`), and the gates leave nothing resting (`GatesPassed`).

**`TradingModesProofs`: DRY_RUN** (`ServiceAssumption`, `PipelineAssumption`). The invariant is `DInv`, that is `DryRunTypeOK`,
`Bookkeeping` (the versions kept are the newest heard of) and `InForce` (a value in force has that version and is valid).
From it follow `AccountRefinement` and `AllocationRefinement` (both implement
`NewestWins`), `OrderAuthority`, `EntryAllocation`, `NoReversal`, `ExitsOpen` (neither drawdown nor a missing
allocation nor the degraded mode takes a close away that reaches the minimum notional) and `EntryCaps`: since an approved entry reaches the
positive minimum, each cap it was clipped to left room, so that held and ordered notional add up to no more than the cap (`EntryFits`).

**The same module: LIVE** (`LiveAssumption`). `LimitsTighten` holds for every policy and course of the account: a pending
proposal of the current scope is never looser than its limits (`PendingTightens`), from lemmas on rounding down to
cents and up to the grid. `DailyLoss` and `CeilingsHold` need `Accounted`: the losses so far and everything at risk are no more than
the losses the evidence knows and the ideas it does not know to be over (`Charged`), which is what the evaluator charges. An idea that opens, ends
or is revalued after the capture moves between the parts of that sum and never leaves it.

**`ModeBroadcastProofs`**, for every set of models, providers and events, every threshold
and cooldown (`ModeAssumption`): `ModeTypeCorrect`, `OutageThreshold` and
`ProviderRecovery`, from an invariant that ties each breaker's state to its count; `ModeIsTold` from `TellingInv`: while an
event is handled, the bus differs from the remembered mode only by the staged message, and the remembered mode is the
derived one unless an event is pending or applied and not yet told. A failed publication keeps its event pending.

**`ReviewHandlerProofs`**, for every set of reviews and any number of rounds, failures and restarts
(`HandlerAssumption`). `HandlerTypeCorrect` comes from `Typed`. `ApprovalBound` needs `Bound`: while an approval waits for its
publication, the version read in this round is the one it is bound to. `CanaryArmConsumed` needs `Spent`: a
canary that reached the evaluation without a reason to deny, or has a cached or reserved verdict, has
consumed its arm; the arm's state survives restarts where the cache does not. `DenialTraceless` needs
`Authorized`: a handling that evaluates without a reason to deny has read an operator version in this round, and
what was published has left the inbox. `RevocationKeepsApproval` needs `Kept`: an approval in the cache of a review that
is pending and not expired is also reserved; a refusal of the binding only changes the answer.

**`CanaryControllerProofs`**, for every plan, set of bars and number of invocations (`CanaryAssumption`).
`ApprovalInsideSession` needs `Bounded`: every verdict, cached or committed, was decided inside its entry
window and expires within the session, and a handling that evaluates without a denial has had its arm checked. `SubmissionWhileFlat` needs `Ledger`: whatever
is with Risk, approved or live belongs to an attempt, a terminal attempt stays flat, and while the slot an invocation
selected is still the next one, every attempt is terminal. `PreparationWhileFlat` needs `Seen`: an open trade is in the
account snapshot, or its approval expires no earlier than the snapshot's capture time and is still reserved; entering
before the deadline is what makes this hold however old the snapshot is. `DecisionAtPresentClock` needs
`Present`: a handling that evaluates without a denial decides either at its own clock or at a replayed time
whose arm was checked against that clock. `AttemptsApprovedOnce` needs `Slotted`, each attempt and each prepared review
belongs to its position in the plan, and `Single`: at most one verdict per review, and only after its arm was
consumed, which the database never takes back.

Only model-checked: `HandlingEnds`, as liveness under fairness is out of the provers' reach. `ReleaseIsFinal` and
`ApprovedOnce` are proved and no run lists them. So are the type invariants of `DryRunService`,
`ModeBroadcast`, `ReviewHandler` and `CanaryController` (`DryRunTypeCorrect`, `ModeTypeCorrect`, `HandlerTypeCorrect`,
`CanaryTypeCorrect`): their runs are spent on the properties that speak of the code's hazards. The four properties of section 4 are refuted by their runs.

## 6. Not modelled

- `SIMULATED` admission (`simulation.py`): a pure function of one request, without state, order or arithmetic beyond
  single comparisons; a model would restate its list of gates.
- In the canary: the instrument and geometry checks, which only refuse before the arm; the audit record;
  the session repository itself, which is another package.
- In LIVE: receipts, digests and signatures, and the exclusion of two ideas on one symbol between two captures: the evaluator
  receives the reservations as two sums without symbols, and no document promises it.
- Float rounding of sizes, prices and fees, and the tolerances that absorb it (except the displayed rounding of LIVE and the 1.0001 of `allocation_error`).
  Hashes and signatures of lineage: equality of model values.
- A restart of the DRY_RUN path: it starts from nothing, as in `Init`.
- Configuration, logging and metrics: static, or without influence on admission.
- The recorder in `evaluation.py` keeps no state and decides nothing.

## 7. Plan

Order of the modules, most important behaviour first:

1. `PaperCoordinator`, `PaperExposure`, `ReviewHandler`, `ModeBroadcast` and two proof modules (done).
2. `DryRunPipeline`, `DryRunService` and its proofs, with the abstract register `NewestWins` that
   account, venue and allocation handling are shown to implement (done).
3. `RegimeBinding` and its proofs (done); `PaperSizing` (done).
4. `CanaryController` and its proofs; `LivePilot` with the capital proposals and its proof; `MCTradingModes` (done).
5. Proofs of `ReviewHandler`'s safety and of `ApprovedOnce` (done).
6. `Counting` and its lemmas; the proofs of `PaperExposure` and `PaperSizing`, and of what was only
   model-checked in the other modules (done).
7. `ApprovalBook` and its refinement by `PaperExposure`; exclusion and ceiling across restarts (done).
8. Open: a property for the window in which a failed commit leaves a mode remembered as told.
