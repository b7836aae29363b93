--------------------------- MODULE DryRunPipeline ---------------------------
(***************************************************************************)
(* The decision of the DRY_RUN path: RiskPipeline.validate (pipeline.py)   *)
(* with the account view (account.py), the allocation limits (strategy.py),*)
(* the filters (validators.py) and the sizing (sizing.py) it calls.        *)
(*                                                                         *)
(* Money, prices and quantities are integers, fractions are percentages,   *)
(* and an order's size is its notional at the command's reference price in *)
(* units of 1/10000, in which every product below is exact.                *)
(***************************************************************************)
EXTENDS Integers, FiniteSets, Counting

CONSTANTS
  Symbols,         \* the symbols positions are held in
  HardLeverage,    \* hard_leverage_limit
  SafeLeverage,    \* safe_leverage_cap
  MaxLeverage,     \* max_allowed_leverage
  MaxDrawdownPct,  \* max_daily_drawdown_pct
  RiskPct,         \* per_trade_risk_fraction, in percent
  MaxPosition,     \* max_position_notional_usd
  MinNotional,     \* min_notional_usd
  NoAllocation     \* no allocation constrains the entry

ASSUME PipelineAssumption ==
  /\ IsFiniteSet(Symbols)
  /\ {HardLeverage, SafeLeverage, MaxLeverage} \subseteq Nat \ {0}
  /\ SafeLeverage <= MaxLeverage /\ MaxLeverage <= HardLeverage
  /\ MaxDrawdownPct \in 1..100 /\ RiskPct \in 1..100
  /\ MinNotional \in 1..MaxPosition /\ MaxPosition \in Nat

Pct == 100
Scale == Pct * Pct

NewRisk == {"ENTER_LONG_TREND", "ENTER_SHORT_TREND", "REBALANCE"}

Smaller(a, b) == IF a < b THEN a ELSE b
Larger(a, b) == IF a > b THEN a ELSE b

-----------------------------------------------------------------------------
(***************************************************************************)
(* The account as one command sees it.  A position has a signed quantity   *)
(* and a mark, 0 when it has neither mark nor entry price.                 *)
(***************************************************************************)
Size(p) == IF p.qty < 0 THEN -p.qty ELSE p.qty
Valued(p) == p.qty = 0 \/ p.mark # 0
Notional(p) == Size(p) * p.mark

\* AccountState.from_snapshot refuses such a snapshot.
Inconsistent(content) == content.peak < content.equity

AccountView(content, symbol) ==
  LET p == content.positions IN
  [equity |-> content.equity, peak |-> content.peak, loss |-> content.loss,
   gross |-> Total([s \in Symbols |-> Notional(p[s])], Symbols),
   grossKnown |-> \A s \in Symbols : Valued(p[s]),
   qty |-> p[symbol].qty, held |-> Notional(p[symbol]),
   heldKnown |-> Valued(p[symbol])]

\* daily_drawdown_pct reaches the limit: the worse of the reported loss and
\* the decline from the peak.
InDrawdown(a) ==
  \/ a.loss >= MaxDrawdownPct
  \/ (a.peak - a.equity) * Pct >= MaxDrawdownPct * a.peak

-----------------------------------------------------------------------------
(***************************************************************************)
(* Limits.                                                                 *)
(***************************************************************************)
\* A request beyond the hard limit is taken for an error and gets less than
\* one that is merely too high.
CapLeverage(requested) ==
  IF requested <= 0 THEN 0
  ELSE IF requested > HardLeverage THEN SafeLeverage
  ELSE Smaller(requested, MaxLeverage)

AllocationError(policy) ==
  \/ policy.reserve \notin 0..Pct
  \/ policy.maxLeverage <= 0
  \/ policy.reserve + policy.weights > Pct

RegimeForbids(policy, reason) ==
  \/ policy.regime \in {"BEAR", "CHOP"} /\ reason = "ENTER_LONG_TREND"
  \/ policy.regime \in {"BULL", "CHOP"} /\ reason = "ENTER_SHORT_TREND"

\* Gross notional the allocation still leaves, in units of 1/10000.
RemainingGross(policy, a) ==
  Larger(0, a.equity * policy.maxLeverage * (Pct - policy.reserve) * Pct
              - a.gross * Scale)

\* limits_for allows the entry.
StrategyAllows(policy, reason, a) ==
  policy # NoAllocation =>
    ~RegimeForbids(policy, reason) /\ RemainingGross(policy, a) > 0

\* The leverage and the equity that size an entry, and the room left for it.
EntryLeverage(c, policy) ==
  IF policy = NoAllocation THEN CapLeverage(c.leverage)
  ELSE Smaller(CapLeverage(c.leverage), policy.maxLeverage)

SizingEquityPct(policy, a) ==
  a.equity * (IF policy = NoAllocation THEN Pct ELSE Pct - policy.reserve)

\* Mutant of EntryRoom: what the position already holds is forgotten.
EntryRoomUnheld(policy, a) ==
  IF policy = NoAllocation THEN MaxPosition * Scale
  ELSE Smaller(MaxPosition * Scale, RemainingGross(policy, a))

EntryRoom(policy, a) ==
  LET room == Larger(0, MaxPosition - a.held) * Scale IN
  IF policy = NoAllocation THEN room
  ELSE Smaller(room, RemainingGross(policy, a))

EntryNotional(c, policy, a) ==
  Smaller(SizingEquityPct(policy, a) * RiskPct * EntryLeverage(c, policy),
          EntryRoom(policy, a))

-----------------------------------------------------------------------------
(***************************************************************************)
(* The decision.                                                           *)
(***************************************************************************)
SideOf(target) == IF target = "LONG" THEN "BUY" ELSE "SELL"

Refused == [approved |-> FALSE, side |-> "none", notional |-> 0]
Approved(side, notional) ==
  [approved |-> TRUE, side |-> side, notional |-> notional]

Degraded(c, mode) == mode = "LOCAL_QUANT_MODE" /\ c.reason \in NewRisk

\* An entry is refused before any limit is computed.
EntryVetoed(c, a) ==
  \/ c.reason = "ENTER_LONG_TREND" /\ c.target # "LONG"
  \/ c.reason = "ENTER_SHORT_TREND" /\ c.target # "SHORT"
  \/ ~a.grossKnown
  \/ InDrawdown(a)

\* The entry would reduce or reverse an open position.
Opposes(c, a) ==
  \/ a.qty > 0 /\ c.target # "LONG"
  \/ a.qty < 0 /\ c.target # "SHORT"

EntryApproved(c, policy, a) ==
  /\ ~EntryVetoed(c, a)
  /\ StrategyAllows(policy, c.reason, a)
  /\ c.target \in {"LONG", "SHORT"}
  /\ ~Opposes(c, a)
  /\ a.qty # 0 => a.heldKnown
  /\ EntryNotional(c, policy, a) >= MinNotional * Scale

CloseNotional(c, a) == Size(a) * c.price * Scale

CloseApproved(c, a) ==
  a.qty # 0 /\ CloseNotional(c, a) >= MinNotional * Scale

\* RiskPipeline.validate: policy constrains entries only.
Validate(c, policy, a, mode) ==
  IF c.price <= 0 \/ Degraded(c, mode) THEN Refused
  ELSE IF c.reason = "CLOSE_POSITION" /\ CloseApproved(c, a)
       THEN Approved(IF a.qty > 0 THEN "SELL" ELSE "BUY", CloseNotional(c, a))
  ELSE IF c.reason \in NewRisk /\ EntryApproved(c, policy, a)
       THEN Approved(SideOf(c.target), EntryNotional(c, policy, a))
  ELSE Refused
=============================================================================
