----------------------------- MODULE PaperSizing -----------------------------
(***************************************************************************)
(* The money of a PAPER decision: PaperRiskPipeline.evaluate with its      *)
(* account and allocation gates, its sizing and its economics (paper.py),  *)
(* the canary's bound quantity (canary_instrument.py), and the exposure    *)
(* that successive approvals build up.                                     *)
(*                                                                         *)
(* Prices, quantities and balances are integers, fractions are percentages *)
(* or basis points, and money is counted in units of 1/10000, in which     *)
(* every product below is exact; a quotient is rounded down to the grid of *)
(* whole quantities.  What does not depend on money is the input "vetoed". *)
(***************************************************************************)
EXTENDS Integers, FiniteSets, FiniteSetsExt, Counting

CONSTANTS
  Symbols,         \* EVEDEX DEV symbols
  Strategies,      \* strategy ids, the canary's included
  CanaryStrategy,  \* PAPER_CANARY_STRATEGY_ID
  Reviews,         \* reviewed intents
  Venues,          \* VenueQualityV1 measurements
  Allocations,     \* strategic allocations
  Funds,           \* balances of the account
  Prices,          \* prices positions are filled and marked at
  TradeBps,        \* paper_per_trade_risk_fraction
  TotalBps,        \* paper_max_total_open_risk_fraction
  LeveragePct,     \* paper_max_leverage
  MaxNotional,     \* paper_max_position_notional_usd
  MinNotional,     \* paper_min_notional_usd
  MaxDrawdownPct,  \* max_daily_drawdown_pct
  NoIdea           \* nothing reserved or held on a symbol

Pct == 100
Unit == 10000

Review == [symbol : Symbols, strategy : Strategies, side : {"LONG", "SHORT"},
           stop : Nat, target : Nat, bound : Nat,
           minQuantity : Nat, maxQuantity : Nat, minVolume : Nat]
Venue == [bid : Nat, ask : Nat, mid : Nat, feeBps : Nat, buyBps : Nat, sellBps : Nat,
          assessed : Nat, depth : Nat]
\* "bound": the capital basis of a regime-bound allocation, whose own evidence
\* replaces the regime vetoes (RegimeBinding models that evidence).
Allocation == [reserve : Int, weights : [Strategies -> Nat], leverage : Int,
               regime : {"BULL", "BEAR", "CHOP"}, bound : BOOLEAN]
Balance == [equity : Nat \ {0}, available : Nat, dayStart : Nat \ {0},
            peak : Nat \ {0}, realized : Int]

ASSUME SizingAssumption ==
  /\ IsFiniteSet(Symbols) /\ CanaryStrategy \in Strategies
  /\ Reviews \subseteq Review /\ Venues \subseteq Venue
  /\ Allocations \subseteq Allocation /\ Funds \subseteq Balance
  /\ Prices \subseteq Nat
  /\ TradeBps \in 1..25 /\ TotalBps \in 1..100
  /\ LeveragePct \in 100..500 /\ MaxDrawdownPct \in 1..100
  /\ MaxNotional \in Nat /\ MinNotional \in 1..MaxNotional

VARIABLES
  book,     \* the idea of each symbol: reserved, resting as an entry, or open
  funds,    \* balances in the latest snapshot
  decision  \* what the last step decided

sizingVars == <<book, funds, decision>>

Smaller(a, b) == IF a < b THEN a ELSE b
Larger(a, b) == IF a > b THEN a ELSE b
Distance(a, b) == IF a < b THEN b - a ELSE a - b

-----------------------------------------------------------------------------
(***************************************************************************)
(* Exposure: the reservations (reservation_view) and the positions of the  *)
(* snapshot.                                                               *)
(***************************************************************************)
In(stage) == {s \in Symbols : book[s] # NoIdea /\ book[s].stage = stage}
Notional(s) == book[s].qty * book[s].mark * Unit

\* _position_stop_risk
StopRisk(s) ==
  LET idea == book[s] IN
  idea.qty * Unit * Larger(0, IF idea.side = "LONG" THEN idea.entry - idea.stop
                              ELSE idea.stop - idea.entry)

\* What a set of symbols loses at its stops, at worst, and is worth.
StopRiskOn(S) == Total([s \in Symbols |-> StopRisk(s)], S)
LossOn(S) == Total([s \in Symbols |-> book[s].loss], S)
NotionalOn(S) == Total([s \in Symbols |-> Notional(s)], S)

OpenStopRisk == StopRiskOn(In("open"))
ReservedLoss == LossOn(In("reserved"))
NotionalIn(stage) == NotionalOn(In(stage))
Pursuing(stage, strategy) == {s \in In(stage) : book[s].strategy = strategy}
StrategyNotional(stage, strategy) == NotionalOn(Pursuing(stage, strategy))
Canaries == {s \in Symbols : book[s] # NoIdea /\ book[s].strategy = CanaryStrategy}

Ceiling == funds.equity * TotalBps

-----------------------------------------------------------------------------
(***************************************************************************)
(* The gates.  "reported" is the open risk the snapshot claims.            *)
(***************************************************************************)
\* Mutant of Understated: the claim is taken on trust.
UnderstatedNever(reported) == FALSE
Understated(reported) == reported < OpenStopRisk

InDrawdown ==
  \/ (funds.dayStart - funds.equity) * Pct >= MaxDrawdownPct * funds.dayStart
  \/ -funds.realized * Pct >= MaxDrawdownPct * funds.dayStart
  \/ (funds.peak - funds.equity) * Pct >= MaxDrawdownPct * funds.peak

AccountRefuses(r, reported) ==
  \/ book[r.symbol] # NoIdea
  \/ r.strategy = CanaryStrategy /\ Canaries # {}
  \/ Understated(reported)
  \/ reported + ReservedLoss >= Ceiling
  \/ InDrawdown
  \/ In("resting") # {}

\* allocation_error; reserve and weights may exceed the whole by 1/10000.
AllocationInvalid(a) ==
  \/ a.reserve \notin 0..Pct
  \/ a.leverage <= 0
  \/ \E strategy \in Strategies : a.weights[strategy] > Pct
  \/ (a.reserve + Total(a.weights, Strategies)) * Pct > Unit + 1

RegimeForbids(a, side) ==
  \/ a.regime = "CHOP"
  \/ a.regime = "BEAR" /\ side = "LONG"
  \/ a.regime = "BULL" /\ side = "SHORT"

Adaptive(r, a) == a.bound /\ r.strategy # CanaryStrategy

AllocationRefuses(r, a) ==
  \/ AllocationInvalid(a)
  \/ a.weights[r.strategy] <= 0
  \/ ~Adaptive(r, a) /\ RegimeForbids(a, r.side)

WorstEntry(r, v) == IF r.side = "LONG" THEN v.ask ELSE v.bid
SlippageBps(r, v) == IF r.side = "LONG" THEN v.buyBps ELSE v.sellBps

GeometryInvalid(r, v) ==
  LET e == WorstEntry(r, v) IN
  ~(IF r.side = "LONG" THEN r.stop < e /\ e < r.target ELSE r.target < e /\ e < r.stop)

LossBudget(reported) ==
  Smaller(funds.equity * TradeBps, Larger(0, Ceiling - reported - ReservedLoss))

\* The leverage granted, in percent; below one it is a reason to refuse.
Granted(a) == Smaller(LeveragePct, a.leverage)

GatesRefuse(r, v, a, reported) ==
  \/ AccountRefuses(r, reported)
  \/ AllocationRefuses(r, a)
  \/ GeometryInvalid(r, v)
  \/ LossBudget(reported) <= 0
  \/ Granted(a) < Pct

-----------------------------------------------------------------------------
(***************************************************************************)
(* Sizing.                                                                 *)
(***************************************************************************)
LossPerUnit(r, v) ==
  LET e == WorstEntry(r, v) IN
  Distance(e, r.stop) * Unit + (e + r.stop) * v.feeBps + v.mid * SlippageBps(r, v)

DeployableEquity(a) ==
  Smaller(funds.available * Pct, funds.equity * (Pct - a.reserve))

MarginRoom(a) ==
  Larger(0, DeployableEquity(a) * Granted(a) - NotionalIn("reserved"))

GrossCap(a) == funds.equity * (Pct - a.reserve) * a.leverage
\* Mutant of GrossRoom: what is reserved does not count yet.
GrossRoomOpen(a) == Larger(0, GrossCap(a) - NotionalIn("open"))

GrossRoom(a) ==
  Larger(0, GrossCap(a) - NotionalIn("open") - NotionalIn("reserved"))

StrategyCap(strategy, a) == funds.equity * a.weights[strategy] * a.leverage
StrategyRoom(strategy, a) ==
  Larger(0, StrategyCap(strategy, a) - StrategyNotional("open", strategy)
              - StrategyNotional("reserved", strategy))

NotionalCap(r, v, a) ==
  Min({MaxNotional * Unit, v.assessed * Unit, v.depth * Unit,
       MarginRoom(a), GrossRoom(a), StrategyRoom(r.strategy, a)})

\* _size_quantity
SizeQuantity(r, v, a, reported) ==
  IF LossPerUnit(r, v) <= 0 \/ LossBudget(reported) <= 0 THEN 0
  ELSE Smaller(LossBudget(reported) \div LossPerUnit(r, v),
               NotionalCap(r, v, a) \div (WorstEntry(r, v) * Unit))

\* effective_min_quantity at Risk's worst entry; the rule's increment is one.
EffectiveMinimum(r, e) == Larger(r.minQuantity, (r.minVolume + e - 1) \div e)

\* Mutant of CanaryRefused: the bound quantity is taken whatever the capacity.
CanaryRefusedUnbound(r, e, a, capacity) ==
  \/ EffectiveMinimum(r, e) > r.maxQuantity
  \/ r.bound # EffectiveMinimum(r, e)
  \/ Granted(a) # Pct

CanaryRefused(r, e, a, capacity) ==
  \/ EffectiveMinimum(r, e) > r.maxQuantity
  \/ r.bound # EffectiveMinimum(r, e)
  \/ Granted(a) # Pct
  \/ r.bound > capacity

\* The quantity the gates leave: for a canary exactly the bound one.
Quantity(r, v, a, reported) ==
  LET capacity == SizeQuantity(r, v, a, reported) IN
  IF r.strategy # CanaryStrategy THEN capacity
  ELSE IF CanaryRefused(r, WorstEntry(r, v), a, capacity) THEN 0 ELSE r.bound

\* Mutant of Tradable: the minimum notional is not asked for.
TradableDust(q, e) == q > 0
Tradable(q, e) == q > 0 /\ q * e >= MinNotional

\* The loss of _economics: price move, both fees and slippage.
WorstLoss(r, v, q) ==
  LET e == WorstEntry(r, v)
      fees == q * (e + r.stop) * v.feeBps
      slippage == q * v.mid * SlippageBps(r, v)
  IN  q * Distance(e, r.stop) * Unit + fees + slippage

-----------------------------------------------------------------------------
(***************************************************************************)
(* The decision.                                                           *)
(***************************************************************************)
NoDecision == [approved |-> FALSE, qty |-> 0, loss |-> 0, overBudget |-> FALSE,
               allocation |-> NoIdea]

\* PaperRiskPipeline.evaluate
Decision(r, v, a, reported, vetoed) ==
  LET q == Quantity(r, v, a, reported)
      sized == ~vetoed /\ ~GatesRefuse(r, v, a, reported) /\ Tradable(q, WorstEntry(r, v))
  IN  IF ~sized THEN NoDecision
      ELSE IF WorstLoss(r, v, q) > LossBudget(reported)
           THEN [NoDecision EXCEPT !.overBudget = TRUE]
      ELSE [approved |-> TRUE, qty |-> q, loss |-> WorstLoss(r, v, q),
            overBudget |-> FALSE, allocation |-> a]

Reservation(r, v, d) ==
  [stage |-> "reserved", strategy |-> r.strategy, side |-> r.side, stop |-> r.stop,
   qty |-> d.qty, loss |-> d.loss, entry |-> WorstEntry(r, v), mark |-> WorstEntry(r, v)]

SizingInit ==
  /\ book = [s \in Symbols |-> NoIdea]
  /\ funds \in Funds
  /\ decision = NoDecision

Evaluate(r, v, a, reported, vetoed) ==
  /\ decision' = Decision(r, v, a, reported, vetoed)
  /\ book' = IF decision'.approved
             THEN [book EXCEPT ![r.symbol] = Reservation(r, v, decision')] ELSE book
  /\ UNCHANGED funds

-----------------------------------------------------------------------------
(***************************************************************************)
(* Execution and the exchange, as the snapshots show them.                 *)
(***************************************************************************)
\* The entry rests as an open order; its reservation is released.
Rest(s) ==
  /\ s \in In("reserved")
  /\ book' = [book EXCEPT ![s].stage = "resting"]
  /\ decision' = NoDecision
  /\ UNCHANGED funds

Fill(s, price) ==
  /\ s \in In("reserved") \cup In("resting")
  /\ book' = [book EXCEPT ![s].stage = "open", ![s].entry = price, ![s].mark = price]
  /\ decision' = NoDecision
  /\ UNCHANGED funds

Mark(s, price) ==
  /\ s \in In("open")
  /\ book' = [book EXCEPT ![s].mark = price]
  /\ decision' = NoDecision
  /\ UNCHANGED funds

\* Closed, cancelled, or never entered.
Leave(s) ==
  /\ book[s] # NoIdea
  /\ book' = [book EXCEPT ![s] = NoIdea]
  /\ decision' = NoDecision
  /\ UNCHANGED funds

Revalue ==
  /\ funds' \in Funds
  /\ decision' = NoDecision
  /\ UNCHANGED book

\* What a snapshot may claim as its open risk.
Claims == {0, OpenStopRisk, LossOn(In("open"))}

SizingNext ==
  \/ \E r \in Reviews, v \in Venues, a \in Allocations, reported \in Claims,
        vetoed \in BOOLEAN : Evaluate(r, v, a, reported, vetoed)
  \/ \E s \in Symbols : Rest(s) \/ Leave(s)
  \/ \E s \in Symbols, price \in Prices : Fill(s, price) \/ Mark(s, price)
  \/ Revalue

SizingSpec == SizingInit /\ [][SizingNext]_sizingVars

-----------------------------------------------------------------------------
(***************************************************************************)
(* Properties.                                                             *)
(***************************************************************************)
Idea == [stage : {"reserved", "resting", "open"}, strategy : Strategies,
         side : {"LONG", "SHORT"}, stop : Nat, qty : Nat \ {0}, loss : Nat \ {0},
         entry : Nat, mark : Nat]

\* Every idea has a positive quantity and loss, and what is reserved is worth at
\* least the minimum notional (PaperRiskPipeline.evaluate).
SizingTypeOK ==
  /\ book \in [Symbols -> Idea \cup {NoIdea}]
  /\ \A s \in In("reserved") : Notional(s) >= MinNotional * Unit
  /\ funds \in Funds
  /\ decision.approved \in BOOLEAN /\ decision.overBudget \in BOOLEAN
  /\ decision.allocation \in Allocations \cup {NoIdea}

\* The sizing never hands the economics a quantity whose loss exceeds the
\* budget, clipped or bound by a canary: that "can only be floating-point drift
\* or a programming error" (paper.py:260-261).
SizingFitsBudget == ~decision.overBudget

Admitted(s) == book[s] = NoIdea /\ book'[s] # NoIdea

Live == {s \in Symbols : book[s] # NoIdea}
Exposure(strategies) == NotionalOn({s \in Live : book[s].strategy \in strategies})

\* After an approval the stop risk of what is open and the worst loss of all
\* that may still be entered, the new idea included, stay within the portfolio
\* ceiling, whatever the snapshot claims its open risk to be (README.md:46,
\* 205-207; _account_gate, _size_quantity).
CeilingKeptOnApproval ==
  [][(\E s \in Symbols : Admitted(s)) =>
       OpenStopRisk' + LossOn(Live \ In("open"))' <= Ceiling]_sizingVars

\* After an approval all that is reserved, resting or open fits the gross and the
\* strategy cap of the allocation it was approved under, and what is reserved
\* its margin, whatever earlier allocations allowed; a canary is refused rather
\* than squeezed in (README.md:198-200, 233-234; _size_quantity).
CapsKeptOnApproval ==
  [][\A a \in Allocations, s \in Symbols :
       (Admitted(s) /\ decision'.allocation = a) =>
          /\ Exposure(Strategies)' <= GrossCap(a)
          /\ \A strategy \in Strategies : book'[s].strategy = strategy =>
               Exposure({strategy})' <= StrategyCap(strategy, a)
          /\ NotionalIn("reserved")' <= funds.available * Pct * Granted(a)]_sizingVars
=============================================================================
