--------------------------- MODULE MCTradingModes ---------------------------
(***************************************************************************)
(* Constants for model-checking DryRunService and LivePilot in one run.    *)
(* The two share no state: RiskSettings.trading_mode selects the consumers *)
(* of a service (service.py:744-767) and LIVE, which it refuses, is a pure *)
(* evaluator of another process.  A behaviour is one of the one or one of  *)
(* the other.                                                              *)
(*                                                                         *)
(* DRY_RUN: two capture and production times; accounts that are long,      *)
(* short, in drawdown, unpriced or inconsistent; allocations that permit,  *)
(* forbid or contradict; commands of every reason on a symbol that is      *)
(* traded, and one on another.                                             *)
(*                                                                         *)
(* LIVE: ideas on two symbols, a long and a short quote whose loss per     *)
(* unit divides no budget, an account that shrinks and grows, two scopes.  *)
(***************************************************************************)
EXTENDS DryRunService, LivePilot, TLC

CONSTANTS X, Y, i1, i2, i3

MCPositions(x, y) == [s \in Symbols |-> IF s = X THEN x ELSE y]
MCFlat == [qty |-> 0, mark |-> 0]

MCFallback ==
  [equity |-> 100, peak |-> 100, loss |-> 0, positions |-> MCPositions(MCFlat, MCFlat)]

MCContents ==
  {MCFallback,
   [MCFallback EXCEPT !.positions[X] = [qty |-> 10, mark |-> 10]],
   [equity |-> 97, peak |-> 100, loss |-> 0,
    positions |-> MCPositions([qty |-> -10, mark |-> 10], MCFlat)],
   [equity |-> 98, peak |-> 100, loss |-> 2,
    positions |-> MCPositions([qty |-> -5, mark |-> 10], [qty |-> 5, mark |-> 9])],
   [MCFallback EXCEPT !.positions[Y] = [qty |-> 1, mark |-> 0]],
   [MCFallback EXCEPT !.peak = 99]}

MCAccountMessages ==
  {[at |-> t, kind |-> "good", content |-> c] : t \in 1..2, c \in MCContents}
  \cup {[at |-> t, kind |-> k, content |-> MCFallback] :
          t \in 1..2, k \in AccountKinds \ {"good"}}

MCPolicies ==
  {[reserve |-> 50, weights |-> 50, maxLeverage |-> 2, regime |-> "BULL"],
   [reserve |-> 0, weights |-> 100, maxLeverage |-> 10, regime |-> "BEAR"],
   [reserve |-> 60, weights |-> 50, maxLeverage |-> 2, regime |-> "BULL"]}

MCAllocationMessages ==
  {[at |-> t, kind |-> k, policy |-> p] :
     t \in 1..2, k \in AllocationKinds, p \in MCPolicies}

MCCommand(symbol, reason, target, leverage, price) ==
  [symbol |-> symbol, reason |-> reason, target |-> target,
   leverage |-> leverage, price |-> price]
MCCommands ==
  {MCCommand(X, "ENTER_LONG_TREND", "LONG", 9, 10),
   MCCommand(X, "ENTER_LONG_TREND", "SHORT", 1, 10),
   MCCommand(X, "ENTER_SHORT_TREND", "SHORT", 12, 10),
   MCCommand(X, "REBALANCE", "SHORT", 1, 10),
   MCCommand(X, "REBALANCE", "FLAT", 1, 10),
   MCCommand(X, "CLOSE_POSITION", "FLAT", 1, 10),
   MCCommand(X, "CLOSE_POSITION", "FLAT", 1, 1),
   MCCommand(X, "HOLD", "LONG", 1, 10),
   MCCommand(Y, "ENTER_LONG_TREND", "LONG", 1, 10)}

MCVenueSymbolOf == [i \in {i1, i2, i3} |-> IF i = i3 THEN Y ELSE X]
MCSymmetry == Permutations({i1, i2})
MCQuotes == {[entry |-> 7, stop |-> 5, fees |-> 1, slippage |-> 1, depth |-> 60],
             [entry |-> 10, stop |-> 15, fees |-> 1, slippage |-> 0, depth |-> 30]}
MCAllocations == {[gross |-> 10, weight |-> 9]}
MCLimits ==
  [perTradeFraction |-> 2, aggregateFraction |-> 4, perTradeCap |-> 16,
   dailyLossCap |-> 28, maxEquity |-> 90, aggregateCap |-> 60, positionCap |-> 40,
   minNotional |-> 6]
MCBudgets == {[perTrade |-> 2, aggregate |-> 3, daily |-> 3]}

MCInit == Init /\ LiveInit
MCDryRun == LiveInit /\ Next /\ UNCHANGED liveVars
MCLive ==
  Init /\ settings.account /\ settings.allocation /\ LiveNext /\ UNCHANGED vars

MCSpec == MCInit /\ [][MCDryRun \/ MCLive]_<<vars, liveVars>>
=============================================================================
