---------------------------- MODULE MCPaperSizing ----------------------------
(***************************************************************************)
(* Constants for model-checking PaperSizing: two ideas and a canary, each  *)
(* on a symbol of its own, a calm and a costly market, allocations whose   *)
(* reserve, weight or leverage binds, one of them bound to its regime      *)
(* evidence, balances free, tied up and in drawdown.                       *)
(***************************************************************************)
EXTENDS PaperSizing, TLC

CONSTANTS X, Y, Z

MCReview(symbol, strategy, side, stop, target, bound) ==
  [symbol |-> symbol, strategy |-> strategy, side |-> side, stop |-> stop,
   target |-> target, bound |-> bound, minQuantity |-> 2, maxQuantity |-> 4,
   minVolume |-> 250]
MCReviews ==
  {MCReview(X, "trend", "LONG", 98, 106, 0), MCReview(Y, "trend", "SHORT", 102, 94, 0),
   MCReview(Z, "canary", "LONG", 99, 106, 3)}

MCVenue(bid, ask, fee, slip, depth) ==
  [bid |-> bid, ask |-> ask, mid |-> bid, feeBps |-> fee, buyBps |-> slip,
   sellBps |-> slip, assessed |-> 1000, depth |-> depth]
MCVenues == {MCVenue(100, 100, 10, 0, 700), MCVenue(100, 101, 50, 100, 1000)}

MCAllocation(reserve, trend, canary, leverage, regime, bound) ==
  [reserve |-> reserve, weights |-> ("trend" :> trend) @@ ("canary" :> canary),
   leverage |-> leverage, regime |-> regime, bound |-> bound]
MCAllocations ==
  {MCAllocation(0, 50, 50, 100, "BULL", FALSE), MCAllocation(20, 10, 10, 200, "CHOP", TRUE),
   MCAllocation(88, 8, 4, 100, "BULL", FALSE), MCAllocation(0, 50, 50, 50, "BULL", FALSE),
   MCAllocation(60, 40, 40, 100, "BEAR", FALSE)}

MCBalance(equity, available, realized) ==
  [equity |-> equity, available |-> available, dayStart |-> 8000, peak |-> 8000,
   realized |-> realized]
MCFunds == {MCBalance(8000, 8000, 0), MCBalance(7500, 500, 0), MCBalance(7900, 7900, -800)}
=============================================================================
