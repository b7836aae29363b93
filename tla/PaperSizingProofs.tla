------------------------- MODULE PaperSizingProofs -------------------------
(***************************************************************************)
(* Proofs about the sizing of PAPER ideas, for every set of symbols,       *)
(* reviews, venues, allocations and balances and every limit.              *)
(*                                                                         *)
(* The quantity is a quotient rounded down, so it costs at most what was   *)
(* divided (Fits); the economics multiply it out again and find the same   *)
(* loss (WorstLossIs).  SizedFits puts both together for what the gates    *)
(* let through; the four theorems follow from it and from the sums over    *)
(* the book, in which an approval adds one reserved idea (Reserves).       *)
(***************************************************************************)
EXTENDS PaperSizing, CountingProofs, TLAPS

-----------------------------------------------------------------------------
(***************************************************************************)
(* Arithmetic.                                                             *)
(***************************************************************************)
\* A quotient rounded down, and whatever is smaller, fits what was divided.
LEMMA Fits ==
  ASSUME NEW b \in Nat, NEW d \in Nat \ {0}
  PROVE  b \div d \in Nat /\ \A q \in Nat : q <= b \div d => q * d <= b
<1>1. b \div d \in Nat /\ (b \div d) * d <= b
  OBVIOUS
<1>2. ASSUME NEW q \in Nat, q <= b \div d PROVE q * d <= b
  <2>1. PICK k : k = b \div d
    OBVIOUS
  <2>2. k \in Nat /\ k * d <= b /\ q <= k
    BY <1>1, <1>2, <2>1
  <2>3. q * d <= k * d
    BY <2>2
  <2>4. q * d \in Nat /\ k * d \in Nat
    BY <2>2
  <2> QED BY <2>2, <2>3, <2>4
<1> QED BY <1>1, <1>2

\* Products of natural numbers.
LEMMA NatProduct ==
  ASSUME NEW x \in Nat, NEW y \in Nat
  PROVE  x * y \in Nat /\ (x > 0 /\ y > 0 => x * y > 0)
OBVIOUS

-----------------------------------------------------------------------------
(***************************************************************************)
(* What reviews, venues and the book hold.                                 *)
(***************************************************************************)
LEMMA InputTypes ==
  ASSUME NEW r \in Reviews, NEW v \in Venues
  PROVE  /\ r.symbol \in Symbols /\ r.strategy \in Strategies
         /\ r.side \in {"LONG", "SHORT"}
         /\ r.stop \in Nat /\ r.target \in Nat /\ r.bound \in Nat
         /\ r.minQuantity \in Nat /\ r.maxQuantity \in Nat /\ r.minVolume \in Nat
         /\ v.mid \in Nat /\ v.feeBps \in Nat
         /\ v.assessed \in Nat /\ v.depth \in Nat
         /\ WorstEntry(r, v) \in Nat /\ SlippageBps(r, v) \in Nat
<1>1. r \in Review /\ v \in Venue
  BY SizingAssumption
<1> QED BY <1>1 DEF Review, Venue, WorstEntry, SlippageBps

LEMMA FundTypes ==
  ASSUME SizingTypeOK
  PROVE  /\ funds.equity \in Nat /\ funds.equity > 0 /\ funds.available \in Nat
         /\ TradeBps \in Nat /\ TotalBps \in Nat /\ LeveragePct \in Nat
         /\ MaxNotional \in Nat /\ MinNotional \in Nat /\ MinNotional > 0
         /\ Ceiling \in Nat
<1>1. funds \in Balance
  BY SizingAssumption DEF SizingTypeOK
<1>2. TotalBps \in Nat /\ funds.equity \in Nat
  BY <1>1, SizingAssumption DEF Balance
<1>3. Ceiling \in Nat
  BY <1>2, NatProduct DEF Ceiling
<1> QED BY <1>1, <1>3, SizingAssumption DEF Balance

\* What an idea risks, costs and is worth.
LEMMA IdeaAmounts ==
  ASSUME SizingTypeOK, NEW s \in Symbols, book[s] # NoIdea
  PROVE  /\ book[s] \in Idea
         /\ book[s].loss \in Nat
         /\ Notional(s) \in Nat
         /\ StopRisk(s) \in Nat
<1>1. book[s] \in Idea
  BY DEF SizingTypeOK
<1> DEFINE idea == book[s]
           gap == Larger(0, IF idea.side = "LONG" THEN idea.entry - idea.stop
                            ELSE idea.stop - idea.entry)
<1>2. /\ idea.qty \in Nat /\ idea.mark \in Nat /\ idea.loss \in Nat
      /\ idea.entry \in Nat /\ idea.stop \in Nat
  BY <1>1 DEF Idea
<1>3. gap \in Nat
  BY <1>2 DEF Larger
<1>4. Notional(s) = idea.qty * idea.mark * Unit /\ StopRisk(s) = idea.qty * Unit * gap
  BY DEF Notional, StopRisk
<1> HIDE DEF gap, idea
<1>5. idea.qty * idea.mark \in Nat /\ idea.qty * Unit \in Nat
  BY <1>2, NatProduct DEF Unit
<1>6. idea.qty * idea.mark * Unit \in Nat /\ idea.qty * Unit * gap \in Nat
  BY <1>3, <1>5, NatProduct DEF Unit
<1> QED BY <1>1, <1>2, <1>4, <1>6 DEF idea

\* What ideas risk, cost and are worth together.
LEMMA SumTypes ==
  ASSUME SizingTypeOK, NEW S \in SUBSET {s \in Symbols : book[s] # NoIdea}
  PROVE  /\ IsFiniteSet(S)
         /\ StopRiskOn(S) \in Nat /\ LossOn(S) \in Nat /\ NotionalOn(S) \in Nat
<1> DEFINE risk == [s \in Symbols |-> StopRisk(s)]
           loss == [s \in Symbols |-> book[s].loss]
           notional == [s \in Symbols |-> Notional(s)]
<1>1. IsFiniteSet(S)
  BY SizingAssumption, FS_Subset
<1>2. \A s \in S : risk[s] \in Nat /\ loss[s] \in Nat /\ notional[s] \in Nat
  BY IdeaAmounts
<1>3. StopRiskOn(S) = Total(risk, S) /\ LossOn(S) = Total(loss, S)
      /\ NotionalOn(S) = Total(notional, S)
  BY DEF StopRiskOn, LossOn, NotionalOn
<1> HIDE DEF risk, loss, notional
<1>4. Total(risk, S) \in Nat /\ Total(loss, S) \in Nat /\ Total(notional, S) \in Nat
  BY <1>1, <1>2, TotalType
<1> QED BY <1>1, <1>3, <1>4

\* The exposures a decision reads are natural numbers, the claim included.
LEMMA ExposureTypes ==
  ASSUME SizingTypeOK
  PROVE  /\ OpenStopRisk \in Nat /\ ReservedLoss \in Nat
         /\ \A reported \in Claims : reported \in Nat
         /\ \A stage : /\ NotionalIn(stage) \in Nat
                       /\ \A strategy : StrategyNotional(stage, strategy) \in Nat
<1>1. \A stage : In(stage) \in SUBSET {s \in Symbols : book[s] # NoIdea}
  BY DEF In
<1>2. \A stage, strategy : Pursuing(stage, strategy) \in SUBSET {s \in Symbols : book[s] # NoIdea}
  BY <1>1 DEF Pursuing
<1>3. /\ OpenStopRisk \in Nat /\ ReservedLoss \in Nat /\ LossOn(In("open")) \in Nat
  BY <1>1, SumTypes DEF OpenStopRisk, ReservedLoss
<1>4. \A stage : NotionalIn(stage) \in Nat
  BY <1>1, SumTypes DEF NotionalIn
<1>5. \A stage, strategy : StrategyNotional(stage, strategy) \in Nat
  BY <1>2, SumTypes DEF StrategyNotional
<1> QED BY <1>3, <1>4, <1>5 DEF Claims

-----------------------------------------------------------------------------
(***************************************************************************)
(* What the sizing grants.                                                 *)
(***************************************************************************)
\* The parts that a loss is computed from.
LEMMA LossParts ==
  ASSUME NEW r \in Reviews, NEW v \in Venues
  PROVE  /\ Distance(WorstEntry(r, v), r.stop) \in Nat
         /\ (WorstEntry(r, v) + r.stop) * v.feeBps \in Nat
         /\ v.mid * SlippageBps(r, v) \in Nat
         /\ LossPerUnit(r, v) \in Nat
         /\ WorstEntry(r, v) # r.stop => LossPerUnit(r, v) > 0
<1> DEFINE e == WorstEntry(r, v)
           gap == Distance(e, r.stop)
           fees == (e + r.stop) * v.feeBps
           slip == v.mid * SlippageBps(r, v)
<1>1. /\ e \in Nat /\ r.stop \in Nat /\ v.feeBps \in Nat /\ v.mid \in Nat
      /\ SlippageBps(r, v) \in Nat
  BY InputTypes
<1>2. LossPerUnit(r, v) = gap * Unit + fees + slip
  BY DEF LossPerUnit
<1>3. gap \in Nat /\ (e # r.stop => gap > 0)
  BY <1>1 DEF Distance
<1>4. e + r.stop \in Nat
  BY <1>1
<1>5. fees \in Nat /\ slip \in Nat
  BY <1>1, <1>4, NatProduct
<1>6. gap * Unit \in Nat /\ (e # r.stop => gap * Unit > 0)
  BY <1>3 DEF Unit
<1> QED BY <1>2, <1>3, <1>5, <1>6

\* The loss of the economics is what a unit loses times the quantity.
LEMMA WorstLossIs ==
  ASSUME NEW r \in Reviews, NEW v \in Venues, NEW q \in Nat
  PROVE  WorstLoss(r, v, q) = q * LossPerUnit(r, v)
<1> DEFINE e == WorstEntry(r, v)
           gap == Distance(e, r.stop)
           sum == e + r.stop
           slip == SlippageBps(r, v)
<1>1. /\ gap \in Nat /\ sum \in Nat /\ v.feeBps \in Nat /\ v.mid \in Nat /\ slip \in Nat
  BY InputTypes, LossParts
<1>2. WorstLoss(r, v, q) = q * gap * Unit + q * sum * v.feeBps + q * v.mid * slip
  BY DEF WorstLoss
<1>3. LossPerUnit(r, v) = gap * Unit + sum * v.feeBps + v.mid * slip
  BY DEF LossPerUnit
<1> HIDE DEF e, gap, sum, slip
<1>4. \A x, y, z \in Nat : x * y * z = x * (y * z)
  OBVIOUS
<1>5. \A x, y, z, w \in Nat : x * y + x * z + x * w = x * (y + z + w)
  OBVIOUS
<1>6. Unit \in Nat
  BY DEF Unit
<1>7. /\ q * gap * Unit = q * (gap * Unit) /\ q * sum * v.feeBps = q * (sum * v.feeBps)
      /\ q * v.mid * slip = q * (v.mid * slip)
  BY <1>1, <1>4, <1>6
<1>8. gap * Unit \in Nat /\ sum * v.feeBps \in Nat /\ v.mid * slip \in Nat
  BY <1>1, <1>6, NatProduct
<1> QED BY <1>2, <1>3, <1>5, <1>7, <1>8

\* Every bound that the notional has to respect is a natural number.
LEMMA Rooms ==
  ASSUME SizingTypeOK, NEW r \in Reviews, NEW v \in Venues, NEW a \in Allocations
  PROVE  /\ a.reserve \in Int /\ a.leverage \in Int /\ Granted(a) \in Int
         /\ DeployableEquity(a) \in Int
         /\ GrossCap(a) \in Int /\ StrategyCap(r.strategy, a) \in Int
         /\ MarginRoom(a) \in Nat /\ GrossRoom(a) \in Nat
         /\ StrategyRoom(r.strategy, a) \in Nat
         /\ NotionalCap(r, v, a) \in Nat
         /\ NotionalCap(r, v, a) <= MarginRoom(a)
         /\ NotionalCap(r, v, a) <= GrossRoom(a)
         /\ NotionalCap(r, v, a) <= StrategyRoom(r.strategy, a)
<1>1. /\ a.reserve \in Int /\ a.leverage \in Int /\ a.weights[r.strategy] \in Nat
  <2>1. a \in Allocation /\ r.strategy \in Strategies
    BY SizingAssumption, InputTypes
  <2> QED BY <2>1 DEF Allocation
<1>2. funds.equity \in Nat /\ funds.available \in Nat /\ LeveragePct \in Nat /\ MaxNotional \in Nat
  BY FundTypes
<1>3. Granted(a) \in Int
  BY <1>1, <1>2 DEF Granted, Smaller
<1>4. DeployableEquity(a) \in Int
  BY <1>1, <1>2 DEF DeployableEquity, Smaller, Pct
<1>5. GrossCap(a) \in Int
  BY <1>1, <1>2 DEF GrossCap, Pct
<1>6. StrategyCap(r.strategy, a) \in Int
  BY <1>1, <1>2 DEF StrategyCap
<1>7. \A x \in Int : Larger(0, x) \in Nat
  BY DEF Larger
<1>8. MarginRoom(a) \in Nat
  <2>1. DeployableEquity(a) * Granted(a) \in Int
    BY <1>3, <1>4
  <2>2. DeployableEquity(a) * Granted(a) - NotionalIn("reserved") \in Int
    BY <2>1, ExposureTypes
  <2> QED BY <1>7, <2>2 DEF MarginRoom
<1>9. GrossRoom(a) \in Nat
  BY <1>5, <1>7, ExposureTypes DEF GrossRoom
<1>10. StrategyRoom(r.strategy, a) \in Nat
  <2>1. StrategyNotional("open", r.strategy) \in Nat
        /\ StrategyNotional("reserved", r.strategy) \in Nat
    BY ExposureTypes
  <2>2. StrategyCap(r.strategy, a) - StrategyNotional("open", r.strategy)
          - StrategyNotional("reserved", r.strategy) \in Int
    BY <1>6, <2>1
  <2> QED BY <1>7, <2>2 DEF StrategyRoom
<1>11. MaxNotional * Unit \in Nat /\ v.assessed * Unit \in Nat /\ v.depth * Unit \in Nat
  BY <1>2, InputTypes DEF Unit
<1>12. /\ NotionalCap(r, v, a) \in Nat
       /\ NotionalCap(r, v, a) <= MarginRoom(a)
       /\ NotionalCap(r, v, a) <= GrossRoom(a)
       /\ NotionalCap(r, v, a) <= StrategyRoom(r.strategy, a)
  BY <1>8, <1>9, <1>10, <1>11, MinOfSix DEF NotionalCap
<1> QED BY <1>1, <1>3, <1>4, <1>5, <1>6, <1>8, <1>9, <1>10, <1>12

\* What the gates let through has a market to enter on and a budget to lose.
LEMMA GatesPassed ==
  ASSUME SizingTypeOK, NEW r \in Reviews, NEW v \in Venues, NEW a \in Allocations,
         NEW reported \in Claims, ~GatesRefuse(r, v, a, reported)
  PROVE  /\ WorstEntry(r, v) \in Nat \ {0} /\ WorstEntry(r, v) # r.stop
         /\ LossBudget(reported) \in Nat \ {0}
         /\ LossBudget(reported) <= Ceiling - reported - ReservedLoss
         /\ LossPerUnit(r, v) \in Nat \ {0}
<1>1. /\ WorstEntry(r, v) \in Nat /\ r.stop \in Nat /\ r.target \in Nat
  BY InputTypes
<1>2. WorstEntry(r, v) \in Nat \ {0} /\ WorstEntry(r, v) # r.stop
  <2>1. ~GeometryInvalid(r, v)
    BY DEF GatesRefuse
  <2> QED BY <1>1, <2>1 DEF GeometryInvalid
<1>3. /\ LossBudget(reported) \in Nat \ {0}
      /\ LossBudget(reported) <= Ceiling - reported - ReservedLoss
  <2>1. funds.equity * TradeBps \in Nat
    BY FundTypes, NatProduct
  <2>2. Ceiling \in Nat /\ reported \in Nat /\ ReservedLoss \in Nat
    BY FundTypes, ExposureTypes
  <2>3. ~(LossBudget(reported) <= 0)
    BY DEF GatesRefuse
  <2> QED BY <2>1, <2>2, <2>3 DEF LossBudget, Smaller, Larger
<1> QED BY <1>1, <1>2, <1>3, LossParts

\* What is sized after the gates fits the loss budget and the notional cap, the
\* canary's bound quantity included.
LEMMA SizedFits ==
  ASSUME SizingTypeOK, NEW r \in Reviews, NEW v \in Venues, NEW a \in Allocations,
         NEW reported \in Claims, ~GatesRefuse(r, v, a, reported),
         Tradable(Quantity(r, v, a, reported), WorstEntry(r, v))
  PROVE  LET q == Quantity(r, v, a, reported) IN
         /\ q \in Nat \ {0}
         /\ WorstLoss(r, v, q) \in Nat \ {0}
         /\ WorstLoss(r, v, q) <= LossBudget(reported)
         /\ q * WorstEntry(r, v) * Unit <= NotionalCap(r, v, a)
<1> DEFINE q == Quantity(r, v, a, reported)
           e == WorstEntry(r, v)
           L == LossPerUnit(r, v)
           B == LossBudget(reported)
           N == NotionalCap(r, v, a)
           grid == e * Unit
           capacity == SizeQuantity(r, v, a, reported)
<1>1. e \in Nat \ {0} /\ B \in Nat \ {0} /\ L \in Nat \ {0}
  BY GatesPassed
<1>2. N \in Nat
  BY Rooms
<1>3. grid \in Nat \ {0}
  BY <1>1 DEF Unit
<1>4. capacity = Smaller(B \div L, N \div grid)
  BY <1>1 DEF SizeQuantity
<1>5. q \in Nat \ {0} /\ q <= capacity
  <2>1. q > 0 /\ r.bound \in Nat
    BY InputTypes DEF Tradable
  <2>2. capacity \in Nat
    <3>1. B \div L \in Nat /\ N \div grid \in Nat
      <4> HIDE DEF B, L, N, grid
      <4> QED BY <1>1, <1>2, <1>3, Fits
    <3> QED BY <1>4, <3>1 DEF Smaller
  <2>3. CASE r.strategy # CanaryStrategy
    <3>1. q = capacity
      BY <2>3 DEF Quantity
    <3> QED BY <2>1, <2>2, <3>1
  <2>4. CASE r.strategy = CanaryStrategy
    <3>1. \/ q = 0
          \/ q = r.bound /\ ~(r.bound > capacity)
      BY <2>4 DEF Quantity, CanaryRefused
    <3> QED BY <2>1, <2>2, <3>1
  <2> QED BY <2>3, <2>4
<1> HIDE DEF q, e, L, B, N, capacity
<1>6. q <= B \div L /\ q <= N \div grid
  <2> HIDE DEF grid
  <2>1. B \div L \in Nat /\ N \div grid \in Nat
    BY <1>1, <1>2, <1>3, Fits
  <2> QED BY <1>4, <1>5, <2>1 DEF Smaller
<1>7. q * L <= B /\ q * grid <= N
  <2> HIDE DEF grid
  <2> QED BY <1>1, <1>2, <1>3, <1>5, <1>6, Fits
<1>8. q * e * Unit = q * grid
  <2>1. \A x, y, z \in Nat : x * y * z = x * (y * z)
    OBVIOUS
  <2> QED BY <1>1, <1>5, <2>1 DEF Unit
<1>9. q * L \in Nat \ {0}
  BY <1>1, <1>5, NatProduct
<1>10. WorstLoss(r, v, q) = q * L
  BY <1>5, WorstLossIs DEF L
<1> QED BY <1>5, <1>7, <1>8, <1>9, <1>10 DEF q, e, L, B, N

-----------------------------------------------------------------------------
(***************************************************************************)
(* The decision and its reservation keep the types, and no decision is     *)
(* over the budget.                                                        *)
(***************************************************************************)
\* A decision approves exactly what was sized, and never exceeds the budget.
LEMMA DecisionFacts ==
  ASSUME SizingTypeOK, NEW r \in Reviews, NEW v \in Venues, NEW a \in Allocations,
         NEW reported \in Claims, NEW vetoed \in BOOLEAN
  PROVE  LET d == Decision(r, v, a, reported, vetoed) IN
         /\ d.approved \in BOOLEAN /\ d.overBudget = FALSE
         /\ d.allocation \in Allocations \cup {NoIdea}
         /\ d.approved =>
              /\ ~GatesRefuse(r, v, a, reported)
              /\ Tradable(Quantity(r, v, a, reported), WorstEntry(r, v))
              /\ d.qty = Quantity(r, v, a, reported)
              /\ d.loss = WorstLoss(r, v, Quantity(r, v, a, reported))
              /\ d.allocation = a
<1> DEFINE q == Quantity(r, v, a, reported)
           passed == ~GatesRefuse(r, v, a, reported)
           tradable == Tradable(q, WorstEntry(r, v))
           loss == WorstLoss(r, v, q)
           d == Decision(r, v, a, reported, vetoed)
<1>1. /\ NoDecision.approved = FALSE /\ NoDecision.overBudget = FALSE
      /\ NoDecision.allocation = NoIdea
  BY DEF NoDecision
<1>2. CASE vetoed \/ ~passed \/ ~tradable
  <2>1. d = NoDecision
    BY <1>2 DEF Decision
  <2> QED BY <1>1, <2>1
<1>3. CASE ~vetoed /\ passed /\ tradable
  <2>1. loss \in Nat /\ loss <= LossBudget(reported) /\ LossBudget(reported) \in Nat
    BY <1>3, SizedFits, GatesPassed
  <2>2. ~(loss > LossBudget(reported))
    <3> HIDE DEF loss
    <3> QED BY <2>1
  <2>3. d = [approved |-> TRUE, qty |-> q, loss |-> loss, overBudget |-> FALSE,
             allocation |-> a]
    BY <1>3, <2>2 DEF Decision
  <2> HIDE DEF q, loss
  <2> QED BY <1>3, <2>3 DEF q, loss
<1> QED BY <1>2, <1>3

\* What an approval reserves is an idea worth at least the minimum notional.
LEMMA ReservedIdea ==
  ASSUME SizingTypeOK, NEW r \in Reviews, NEW v \in Venues, NEW a \in Allocations,
         NEW reported \in Claims, NEW vetoed \in BOOLEAN,
         NEW d, d = Decision(r, v, a, reported, vetoed), d.approved
  PROVE  LET idea == Reservation(r, v, d) IN
         /\ idea \in Idea /\ idea.stage = "reserved" /\ idea.strategy = r.strategy
         /\ idea.loss <= LossBudget(reported)
         /\ idea.qty * idea.mark * Unit \in Nat
         /\ idea.qty * idea.mark * Unit >= MinNotional * Unit
         /\ idea.qty * idea.mark * Unit <= NotionalCap(r, v, a)
<1> DEFINE e == WorstEntry(r, v)
           idea == Reservation(r, v, d)
<1>1. /\ ~GatesRefuse(r, v, a, reported)
      /\ Tradable(Quantity(r, v, a, reported), e)
      /\ d.qty = Quantity(r, v, a, reported)
      /\ d.loss = WorstLoss(r, v, Quantity(r, v, a, reported))
  BY DecisionFacts
<1>2. /\ d.qty \in Nat \ {0} /\ d.loss \in Nat \ {0}
      /\ d.loss <= LossBudget(reported)
      /\ d.qty * e * Unit <= NotionalCap(r, v, a)
  BY <1>1, SizedFits
<1>3. d.qty * e >= MinNotional
  BY <1>1 DEF Tradable
<1>4. /\ e \in Nat /\ r.strategy \in Strategies /\ r.side \in {"LONG", "SHORT"}
      /\ r.stop \in Nat
  BY InputTypes
<1>5. idea = [stage |-> "reserved", strategy |-> r.strategy, side |-> r.side,
              stop |-> r.stop, qty |-> d.qty, loss |-> d.loss, entry |-> e, mark |-> e]
  BY DEF Reservation
<1> HIDE DEF e, idea
<1>6. idea \in Idea
  BY <1>2, <1>4, <1>5 DEF Idea
<1>7. d.qty * e \in Nat /\ MinNotional \in Nat
  BY <1>2, <1>4, FundTypes, NatProduct
<1>8. d.qty * e * Unit \in Nat /\ d.qty * e * Unit >= MinNotional * Unit
  BY <1>3, <1>7 DEF Unit
<1> QED BY <1>2, <1>5, <1>6, <1>8 DEF idea

\* The rules are kept by the idea of one symbol: stated once for every step that
\* changes one.
LEMMA OneIdeaChanges ==
  ASSUME SizingTypeOK, NEW s \in Symbols, NEW idea \in Idea \cup {NoIdea},
         book' = [book EXCEPT ![s] = idea],
         idea # NoIdea /\ idea.stage = "reserved" =>
           idea.qty * idea.mark * Unit >= MinNotional * Unit
  PROVE  /\ book' \in [Symbols -> Idea \cup {NoIdea}]
         /\ (\A x \in In("reserved") : Notional(x) >= MinNotional * Unit)'
<1>1. /\ book \in [Symbols -> Idea \cup {NoIdea}]
      /\ \A x \in In("reserved") : Notional(x) >= MinNotional * Unit
  BY DEF SizingTypeOK
<1>2. /\ book' \in [Symbols -> Idea \cup {NoIdea}]
      /\ book'[s] = idea /\ \A x \in Symbols \ {s} : book'[x] = book[x]
  BY <1>1
<1>3. ASSUME NEW x \in Symbols, book'[x] # NoIdea, book'[x].stage = "reserved"
      PROVE  book'[x].qty * book'[x].mark * Unit >= MinNotional * Unit
  <2>1. CASE x = s
    BY <1>2, <1>3, <2>1
  <2>2. CASE x # s
    <3>1. book'[x] = book[x] /\ x \in In("reserved")
      BY <1>2, <1>3, <2>2 DEF In
    <3> QED BY <1>1, <3>1 DEF Notional
  <2> QED BY <2>1, <2>2
<1> QED BY <1>2, <1>3 DEF In, Notional

\* An evaluation keeps the types and stays within the budget.
LEMMA EvaluateKeeps ==
  ASSUME SizingTypeOK, NEW r \in Reviews, NEW v \in Venues, NEW a \in Allocations,
         NEW reported \in Claims, NEW vetoed \in BOOLEAN,
         Evaluate(r, v, a, reported, vetoed)
  PROVE  SizingTypeOK' /\ SizingFitsBudget'
<1>1. PICK d : d = Decision(r, v, a, reported, vetoed)
  OBVIOUS
<1>2. /\ decision' = d /\ funds' = funds
      /\ book' = IF d.approved THEN [book EXCEPT ![r.symbol] = Reservation(r, v, d)]
                 ELSE book
  BY <1>1 DEF Evaluate
<1>3. /\ d.approved \in BOOLEAN /\ d.overBudget = FALSE
      /\ d.allocation \in Allocations \cup {NoIdea}
  BY <1>1, DecisionFacts
<1>4. /\ book' \in [Symbols -> Idea \cup {NoIdea}]
      /\ (\A x \in In("reserved") : Notional(x) >= MinNotional * Unit)'
  <2>1. CASE d.approved
    <3>1. PICK idea : idea = Reservation(r, v, d)
      OBVIOUS
    <3>2. idea \in Idea /\ idea.qty * idea.mark * Unit >= MinNotional * Unit
      BY <1>1, <2>1, <3>1, ReservedIdea
    <3>3. book' = [book EXCEPT ![r.symbol] = idea] /\ r.symbol \in Symbols
      BY <1>2, <2>1, <3>1, InputTypes
    <3> QED BY <3>2, <3>3, OneIdeaChanges
  <2>2. CASE ~d.approved
    BY <1>2, <2>2 DEF SizingTypeOK, In, Notional
  <2> QED BY <2>1, <2>2
<1> QED BY <1>2, <1>3, <1>4 DEF SizingTypeOK, SizingFitsBudget

\* Fills and price moves take an idea out of the reservations and keep its type.
LEMMA IdeaMoves ==
  ASSUME SizingTypeOK, NEW s \in Symbols, NEW price \in Prices
  PROVE  Fill(s, price) \/ Mark(s, price) =>
           \E idea \in Idea \cup {NoIdea} :
             /\ book' = [book EXCEPT ![s] = idea]
             /\ idea # NoIdea => idea.stage # "reserved"
<1>1. /\ price \in Nat /\ book \in [Symbols -> Idea \cup {NoIdea}]
      /\ book[s] # NoIdea => book[s] \in Idea
  BY SizingAssumption, IdeaAmounts DEF SizingTypeOK
<1>2. CASE Fill(s, price)
  <2> DEFINE idea == [book[s] EXCEPT !.stage = "open", !.entry = price, !.mark = price]
  <2>1. book[s] \in Idea
    BY <1>1, <1>2 DEF Fill, In
  <2>2. book' = [book EXCEPT ![s] = idea]
    BY <1>1, <1>2, <2>1 DEF Fill
  <2>3. idea \in Idea /\ idea.stage = "open"
    BY <1>1, <2>1 DEF Idea
  <2> HIDE DEF idea
  <2> QED BY <2>2, <2>3
<1>3. CASE Mark(s, price)
  <2> DEFINE idea == [book[s] EXCEPT !.mark = price]
  <2>1. /\ book[s] \in Idea /\ book[s].stage = "open"
        /\ book' = [book EXCEPT ![s] = idea]
    BY <1>1, <1>3 DEF Mark, In
  <2>2. idea \in Idea /\ idea.stage = "open"
    BY <1>1, <2>1 DEF Idea
  <2> HIDE DEF idea
  <2> QED BY <2>1, <2>2
<1> QED BY <1>2, <1>3

LEMMA NextSizing ==
  SizingTypeOK /\ SizingFitsBudget /\ [SizingNext]_sizingVars
    => SizingTypeOK' /\ SizingFitsBudget'
<1> SUFFICES ASSUME SizingTypeOK, SizingFitsBudget, [SizingNext]_sizingVars
             PROVE  SizingTypeOK' /\ SizingFitsBudget'
  OBVIOUS
<1>1. ASSUME NEW r \in Reviews, NEW v \in Venues, NEW a \in Allocations,
             NEW reported \in Claims, NEW vetoed \in BOOLEAN,
             Evaluate(r, v, a, reported, vetoed)
      PROVE  SizingTypeOK' /\ SizingFitsBudget'
  BY <1>1, EvaluateKeeps
<1>2. ASSUME decision' = NoDecision
      PROVE  (decision.approved \in BOOLEAN /\ decision.overBudget = FALSE
                /\ decision.allocation \in Allocations \cup {NoIdea})'
  BY <1>2 DEF NoDecision
<1>3. ASSUME NEW s \in Symbols, NEW idea \in Idea \cup {NoIdea},
             book' = [book EXCEPT ![s] = idea], idea # NoIdea => idea.stage # "reserved",
             decision' = NoDecision, funds' = funds
      PROVE  SizingTypeOK' /\ SizingFitsBudget'
  <2>1. /\ book' \in [Symbols -> Idea \cup {NoIdea}]
        /\ (\A x \in In("reserved") : Notional(x) >= MinNotional * Unit)'
    BY <1>3, OneIdeaChanges
  <2> QED BY <1>2, <1>3, <2>1 DEF SizingTypeOK, SizingFitsBudget
<1>4. ASSUME NEW s \in Symbols, Rest(s) \/ Leave(s)
      PROVE  SizingTypeOK' /\ SizingFitsBudget'
  <2>1. CASE Rest(s)
    <3> DEFINE idea == [book[s] EXCEPT !.stage = "resting"]
    <3>1. book[s] \in Idea /\ book' = [book EXCEPT ![s] = idea]
      BY <2>1, IdeaAmounts DEF Rest, In
    <3>2. idea \in Idea /\ idea.stage = "resting"
      BY <3>1 DEF Idea
    <3>3. decision' = NoDecision /\ funds' = funds
      BY <2>1 DEF Rest
    <3> HIDE DEF idea
    <3> QED BY <1>3, <3>1, <3>2, <3>3
  <2>2. CASE Leave(s)
    BY <1>3, <2>2 DEF Leave
  <2> QED BY <1>4, <2>1, <2>2
<1>5. ASSUME NEW s \in Symbols, NEW price \in Prices, Fill(s, price) \/ Mark(s, price)
      PROVE  SizingTypeOK' /\ SizingFitsBudget'
  <2>1. PICK idea \in Idea \cup {NoIdea} :
          /\ book' = [book EXCEPT ![s] = idea]
          /\ idea # NoIdea => idea.stage # "reserved"
    BY <1>5, IdeaMoves
  <2>2. decision' = NoDecision /\ funds' = funds
    BY <1>5 DEF Fill, Mark
  <2> QED BY <1>3, <2>1, <2>2
<1>6. CASE Revalue
  BY <1>2, <1>6 DEF Revalue, SizingTypeOK, SizingFitsBudget, In, Notional
<1>7. CASE UNCHANGED sizingVars
  BY <1>7 DEF sizingVars, SizingTypeOK, SizingFitsBudget, In, Notional
<1> QED BY <1>1, <1>4, <1>5, <1>6, <1>7 DEF SizingNext

LEMMA SizingInvariance == SizingSpec => [](SizingTypeOK /\ SizingFitsBudget)
<1>1. SizingInit => SizingTypeOK /\ SizingFitsBudget
  <2> SUFFICES ASSUME SizingInit PROVE SizingTypeOK /\ SizingFitsBudget
    OBVIOUS
  <2>1. /\ NoDecision.approved = FALSE /\ NoDecision.overBudget = FALSE
        /\ NoDecision.allocation = NoIdea
    BY DEF NoDecision
  <2>2. book \in [Symbols -> Idea \cup {NoIdea}] /\ \A s \in Symbols : book[s] = NoIdea
    BY DEF SizingInit
  <2> QED BY <2>1, <2>2 DEF SizingInit, SizingTypeOK, SizingFitsBudget, In
<1> QED BY <1>1, NextSizing, PTL DEF SizingSpec

\* The book keeps its type: every idea risks and loses something, and what is
\* reserved is worth at least the minimum notional, for every input
\* (PaperRiskPipeline.evaluate).
THEOREM SizingTypeCorrect == SizingSpec => []SizingTypeOK
BY SizingInvariance, PTL

\* The economics never find a sized quantity over the loss budget, clipped or
\* bound by a canary, whatever the prices, fees and balances
\* (PaperRiskPipeline._economics, "programming error").
THEOREM SizedWithinBudget == SizingSpec => []SizingFitsBudget
BY SizingInvariance, PTL

-----------------------------------------------------------------------------
(***************************************************************************)
(* What the book holds after an approval.                                  *)
(***************************************************************************)
\* Only an approved evaluation brings an idea to a symbol.
LEMMA Admission ==
  ASSUME SizingTypeOK, [SizingNext]_sizingVars, NEW s \in Symbols, Admitted(s)
  PROVE  \E r \in Reviews, v \in Venues, a \in Allocations, reported \in Claims :
           /\ ~GatesRefuse(r, v, a, reported)
           /\ decision'.allocation = a
           /\ book'[s].stage = "reserved" /\ book'[s].strategy = r.strategy
           /\ book'[s].loss \in Nat /\ book'[s].loss <= LossBudget(reported)
           /\ Notional(s)' \in Nat \ {0} /\ Notional(s)' <= NotionalCap(r, v, a)
           /\ \A x \in Symbols \ {s} : book'[x] = book[x]
<1>1. book \in [Symbols -> Idea \cup {NoIdea}] /\ book[s] = NoIdea /\ book'[s] # NoIdea
  BY DEF SizingTypeOK, Admitted
<1>2. PICK r \in Reviews, v \in Venues, a \in Allocations, reported \in Claims,
           vetoed \in BOOLEAN : Evaluate(r, v, a, reported, vetoed)
  <2>1. ~UNCHANGED sizingVars
    BY <1>1 DEF sizingVars
  <2>2. ~Revalue
    BY <1>1 DEF Revalue
  <2>3. ASSUME NEW x \in Symbols, NEW price \in Prices,
               Rest(x) \/ Leave(x) \/ Fill(x, price) \/ Mark(x, price)
        PROVE  FALSE
    BY <1>1, <2>3 DEF Rest, Leave, Fill, Mark, In
  <2>4. ASSUME NEW x \in Symbols, Rest(x) \/ Leave(x)
        PROVE  FALSE
    BY <1>1, <2>4 DEF Rest, Leave, In
  <2> QED BY <2>1, <2>2, <2>3, <2>4 DEF SizingNext
<1>3. PICK d : d = Decision(r, v, a, reported, vetoed)
  OBVIOUS
<1>4. decision' = d /\ book' = IF d.approved
                               THEN [book EXCEPT ![r.symbol] = Reservation(r, v, d)]
                               ELSE book
  BY <1>2, <1>3 DEF Evaluate
<1>5. d.approved
  BY <1>1, <1>4
<1>6. PICK idea : idea = Reservation(r, v, d)
  OBVIOUS
<1>7. r.symbol = s /\ book'[s] = idea /\ \A x \in Symbols \ {s} : book'[x] = book[x]
  BY <1>1, <1>4, <1>5, <1>6, InputTypes
<1>8. ~GatesRefuse(r, v, a, reported) /\ d.allocation = a
  BY <1>3, <1>5, DecisionFacts
<1>9. /\ idea \in Idea /\ idea.stage = "reserved" /\ idea.strategy = r.strategy
      /\ idea.loss <= LossBudget(reported)
      /\ idea.qty * idea.mark * Unit \in Nat
      /\ idea.qty * idea.mark * Unit >= MinNotional * Unit
      /\ idea.qty * idea.mark * Unit <= NotionalCap(r, v, a)
  BY <1>3, <1>5, <1>6, ReservedIdea
<1>10. idea.loss \in Nat /\ idea.qty * idea.mark * Unit # 0
  BY <1>9, FundTypes DEF Idea, Unit
<1>11. Notional(s)' = idea.qty * idea.mark * Unit
  BY <1>7 DEF Notional
<1> QED BY <1>4, <1>7, <1>8, <1>9, <1>10, <1>11

\* After an approval the reservations hold one more symbol, and nothing rests.
LEMMA StagesAfter ==
  ASSUME SizingTypeOK, NEW s \in Symbols, book[s] = NoIdea, book'[s] # NoIdea,
         book'[s].stage = "reserved", In("resting") = {},
         \A x \in Symbols \ {s} : book'[x] = book[x]
  PROVE  /\ In("open")' = In("open") /\ s \notin In("open")
         /\ In("reserved")' = In("reserved") \cup {s} /\ s \notin In("reserved")
         /\ In("open") \cap In("reserved") = {}
         /\ Live' = In("open") \cup In("reserved") \cup {s}
<1>1. /\ In("open")' = In("open") /\ s \notin In("open")
      /\ In("reserved")' = In("reserved") \cup {s} /\ s \notin In("reserved")
      /\ In("open") \cap In("reserved") = {}
  BY DEF In
<1>2. Live = In("open") \cup In("reserved")
  <2>1. ASSUME NEW x \in Symbols, book[x] # NoIdea
        PROVE  x \in In("open") \cup In("reserved")
    <3>1. book[x] \in Idea
      BY <2>1, IdeaAmounts
    <3>2. book[x].stage \in {"reserved", "resting", "open"}
      BY <3>1 DEF Idea
    <3> QED BY <2>1, <3>2 DEF In
  <2> QED BY <2>1 DEF Live, In
<1>3. Live' = Live \cup {s}
  BY DEF Live
<1> QED BY <1>1, <1>2, <1>3

\* The sum over two groups and one more member.
LEMMA TotalAddsTo ==
  ASSUME NEW A, IsFiniteSet(A), NEW B, IsFiniteSet(B), A \cap B = {},
         NEW s, s \notin A \cup B, NEW a, NEW b,
         \A x \in A \cup B : a[x] \in Nat /\ b[x] = a[x], b[s] \in Nat
  PROVE  Total(b, A \cup B \cup {s}) = Total(a, A) + Total(a, B) + b[s]
<1>1. IsFiniteSet(A \cup B) /\ \A x \in A \cup B : a[x] \in Nat
  BY FS_Union
<1>2. Total(b, (A \cup B) \cup {s}) = Total(a, A \cup B) + b[s]
  BY <1>1, TotalAdds
<1>3. Total(a, A \cup B) = Total(a, A) + Total(a, B)
  BY <1>1, TotalUnion
<1> QED BY <1>2, <1>3

\* What is worth how much after an approval: two disjoint groups of symbols keep
\* their worth, and the new idea adds its own.
LEMMA WorthAfter ==
  ASSUME SizingTypeOK, NEW s \in Symbols, book[s] = NoIdea, Notional(s)' \in Nat,
         \A x \in Symbols \ {s} : book'[x] = book[x],
         NEW A, NEW B, NEW C,
         A \subseteq {x \in Symbols : book[x] # NoIdea},
         B \subseteq {x \in Symbols : book[x] # NoIdea},
         A \cap B = {}, C = A \cup B \cup {s}
  PROVE  NotionalOn(C)' = NotionalOn(A) + NotionalOn(B) + Notional(s)'
<1> DEFINE n == [x \in Symbols |-> Notional(x)]
           m == [x \in Symbols |-> Notional(x)']
<1>1. /\ NotionalOn(A) = Total(n, A) /\ NotionalOn(B) = Total(n, B)
      /\ NotionalOn(C)' = Total(m, C)
  BY DEF NotionalOn
<1>2. IsFiniteSet(A) /\ IsFiniteSet(B) /\ s \notin A \cup B
  BY SumTypes
<1>3. \A x \in A \cup B : n[x] \in Nat /\ m[x] = n[x]
  BY <1>2, IdeaAmounts DEF Notional
<1>4. m[s] = Notional(s)' /\ m[s] \in Nat
  OBVIOUS
<1>5. A \cap B = {}
  OBVIOUS
<1> HIDE DEF n, m
<1>6. Total(m, A \cup B \cup {s}) = Total(n, A) + Total(n, B) + m[s]
  <2>1. IsFiniteSet(A) /\ IsFiniteSet(B)
    BY <1>2
  <2>2. s \notin A \cup B
    BY <1>2
  <2>3. m[s] \in Nat
    BY <1>4
  <2> QED BY ONLY <2>1, <2>2, <2>3, <1>3, <1>5, TotalAddsTo
<1> QED BY <1>1, <1>4, <1>6

-----------------------------------------------------------------------------
(***************************************************************************)
(* The portfolio ceiling and the allocation's caps.                        *)
(***************************************************************************)
\* The stop risk of what is open and the worst loss of all that may still be
\* entered stay within the ceiling.
LEMMA CeilingStep ==
  ASSUME SizingTypeOK, [SizingNext]_sizingVars, NEW s \in Symbols, Admitted(s)
  PROVE  OpenStopRisk' + LossOn(Live \ In("open"))' <= Ceiling
<1>1. PICK r \in Reviews, v \in Venues, a \in Allocations, reported \in Claims :
        /\ ~GatesRefuse(r, v, a, reported)
        /\ book'[s].stage = "reserved"
        /\ book'[s].loss \in Nat /\ book'[s].loss <= LossBudget(reported)
        /\ \A x \in Symbols \ {s} : book'[x] = book[x]
  BY Admission
<1>2. /\ In("resting") = {} /\ OpenStopRisk <= reported
      /\ LossBudget(reported) \in Nat
      /\ LossBudget(reported) <= Ceiling - reported - ReservedLoss
  <2>1. ~AccountRefuses(r, reported)
    BY <1>1 DEF GatesRefuse
  <2>2. OpenStopRisk \in Nat /\ reported \in Nat
    BY ExposureTypes
  <2> QED BY <1>1, <2>1, <2>2, GatesPassed DEF AccountRefuses, Understated
<1>3. /\ In("open")' = In("open")
      /\ s \notin In("open") /\ s \notin In("reserved")
      /\ In("open") \cap In("reserved") = {}
      /\ Live' = In("open") \cup In("reserved") \cup {s}
  BY <1>1, <1>2, StagesAfter DEF Admitted
<1> DEFINE loss == [x \in Symbols |-> book[x].loss]
           after == [x \in Symbols |-> book'[x].loss]
           risk == [x \in Symbols |-> StopRisk(x)]
           riskAfter == [x \in Symbols |-> StopRisk(x)']
           R == In("reserved")
           O == In("open")
<1>4. /\ Live' \ In("open")' = R \cup {s} /\ s \notin R
  BY <1>3
<1>5. /\ ReservedLoss = Total(loss, R) /\ LossOn(Live \ In("open"))' = Total(after, R \cup {s})
      /\ OpenStopRisk = Total(risk, O) /\ OpenStopRisk' = Total(riskAfter, O)
  BY <1>3, <1>4 DEF ReservedLoss, OpenStopRisk, LossOn, StopRiskOn
<1>6. \A x \in R : loss[x] \in Nat /\ after[x] = loss[x]
  BY <1>1, <1>3, IdeaAmounts DEF In
<1>7. \A x \in O : riskAfter[x] = risk[x]
  BY <1>1, <1>3 DEF In, StopRisk
<1>8. after[s] = book'[s].loss /\ after[s] \in Nat
  BY <1>1
<1>9. IsFiniteSet(R)
  BY SizingAssumption, FS_Subset DEF In
<1> HIDE DEF loss, after, risk, riskAfter, R, O
<1>10. Total(after, R \cup {s}) = Total(loss, R) + after[s]
  <2>1. s \notin R /\ after[s] \in Nat
    BY <1>4, <1>8
  <2> QED BY ONLY <2>1, <1>6, <1>9, TotalAdds
<1>11. Total(riskAfter, O) = Total(risk, O)
  BY ONLY <1>7, TotalSame
<1>12. /\ OpenStopRisk \in Nat /\ ReservedLoss \in Nat /\ reported \in Nat /\ Ceiling \in Nat
  BY ExposureTypes, FundTypes
<1> QED BY <1>1, <1>2, <1>5, <1>8, <1>10, <1>11, <1>12

\* After an approval what is open and what may still be entered stay within the
\* portfolio's risk ceiling, whatever open risk the snapshot claims
\* (_account_gate, _size_quantity).
THEOREM CeilingKept == SizingSpec => CeilingKeptOnApproval
<1>1. SizingTypeOK /\ [SizingNext]_sizingVars
        => ((\E s \in Symbols : Admitted(s)) =>
              OpenStopRisk' + LossOn(Live \ In("open"))' <= Ceiling)
  BY CeilingStep
<1> QED BY <1>1, SizingTypeCorrect, PTL DEF SizingSpec, CeilingKeptOnApproval

\* Whatever is live stays within the gross and the strategy cap of the allocation
\* an idea was approved under, and what is reserved within its margin.
LEMMA CapsStep ==
  ASSUME SizingTypeOK, [SizingNext]_sizingVars, NEW s \in Symbols, Admitted(s),
         NEW a \in Allocations, decision'.allocation = a
  PROVE  /\ Exposure(Strategies)' <= GrossCap(a)
         /\ \A strategy \in Strategies : book'[s].strategy = strategy =>
              Exposure({strategy})' <= StrategyCap(strategy, a)
         /\ NotionalIn("reserved")' <= funds.available * Pct * Granted(a)
<1>1. PICK r \in Reviews, v \in Venues, reported \in Claims :
        /\ ~GatesRefuse(r, v, a, reported)
        /\ book'[s].stage = "reserved" /\ book'[s].strategy = r.strategy
        /\ Notional(s)' \in Nat \ {0} /\ Notional(s)' <= NotionalCap(r, v, a)
        /\ \A x \in Symbols \ {s} : book'[x] = book[x]
  BY Admission
<1>2. PICK worth : worth = Notional(s)'
  OBVIOUS
<1>3. /\ book[s] = NoIdea /\ book'[s] # NoIdea /\ Notional(s)' \in Nat
      /\ worth \in Nat /\ worth > 0
  BY <1>1, <1>2 DEF Admitted
<1>4. /\ NotionalCap(r, v, a) \in Nat
      /\ worth <= MarginRoom(a) /\ MarginRoom(a) \in Nat
      /\ worth <= GrossRoom(a) /\ GrossRoom(a) \in Nat
      /\ worth <= StrategyRoom(r.strategy, a) /\ StrategyRoom(r.strategy, a) \in Nat
  BY <1>1, <1>2, <1>3, Rooms
<1>5. In("resting") = {} /\ Granted(a) \in Int /\ Granted(a) >= Pct
  BY <1>1, Rooms DEF GatesRefuse, AccountRefuses, Pct
<1>6. /\ In("reserved")' = In("reserved") \cup {s}
      /\ In("open") \cap In("reserved") = {}
      /\ Live' = In("open") \cup In("reserved") \cup {s}
  BY <1>1, <1>3, <1>5, StagesAfter
<1>7. \A stage : In(stage) \in SUBSET {x \in Symbols : book[x] # NoIdea}
  BY DEF In
<1>8. Exposure(Strategies)' <= GrossCap(a)
  <2>1. PICK A, B, C : A = In("open") /\ B = In("reserved") /\ C = A \cup B \cup {s}
    OBVIOUS
  <2>2. \A x \in Live' : book'[x].strategy \in Strategies
    <3>1. \A x \in In("open") \cup In("reserved") : x # s /\ book[x].strategy \in Strategies
      BY <1>3, <1>7, IdeaAmounts DEF Idea
    <3>2. \A x \in In("open") \cup In("reserved") : book'[x] = book[x]
      BY <1>1, <1>7, <3>1
    <3> QED BY <1>1, <1>6, <3>1, <3>2, InputTypes
  <2>3. {x \in Live : book[x].strategy \in Strategies}' = C
    BY <1>6, <2>1, <2>2
  <2>4. Exposure(Strategies)' = NotionalOn(C)'
    BY <2>3 DEF Exposure, NotionalOn
  <2>5. NotionalOn(C)' = NotionalOn(A) + NotionalOn(B) + Notional(s)'
    <3>1. /\ A \subseteq {x \in Symbols : book[x] # NoIdea}
          /\ B \subseteq {x \in Symbols : book[x] # NoIdea}
          /\ A \cap B = {}
      BY <1>6, <1>7, <2>1
    <3> QED BY <1>1, <1>3, <2>1, <3>1, WorthAfter
  <2>6. /\ NotionalOn(A) = NotionalIn("open") /\ NotionalOn(B) = NotionalIn("reserved")
        /\ NotionalIn("open") \in Nat /\ NotionalIn("reserved") \in Nat
    BY <2>1, ExposureTypes DEF NotionalIn
  <2>7. worth <= GrossCap(a) - NotionalIn("open") - NotionalIn("reserved")
    BY <1>3, <1>4, <2>6, Rooms DEF GrossRoom, Larger
  <2> QED BY <1>2, <1>3, <2>4, <2>5, <2>6, <2>7, Rooms
<1>9. Exposure({r.strategy})' <= StrategyCap(r.strategy, a)
  <2>1. PICK z, A, B, C : /\ z = r.strategy
                          /\ A = Pursuing("open", z) /\ B = Pursuing("reserved", z)
                          /\ C = A \cup B \cup {s}
    OBVIOUS
  <2>2. /\ A \subseteq {x \in Symbols : book[x] # NoIdea}
        /\ B \subseteq {x \in Symbols : book[x] # NoIdea}
        /\ A \cap B = {}
    BY <1>6, <1>7, <2>1 DEF Pursuing
  <2>3. {x \in Live : book[x].strategy \in {z}}' = C
    <3>1. \A x \in In("open") \cup In("reserved") : book'[x] = book[x]
      BY <1>1, <1>3, <1>7
    <3> QED BY <1>1, <1>6, <2>1, <3>1 DEF Pursuing
  <2>4. Exposure({z})' = NotionalOn(C)'
    BY <2>3 DEF Exposure, NotionalOn
  <2>5. NotionalOn(C)' = NotionalOn(A) + NotionalOn(B) + Notional(s)'
    BY <1>1, <1>3, <2>1, <2>2, WorthAfter
  <2>6. /\ NotionalOn(A) = StrategyNotional("open", z)
        /\ NotionalOn(B) = StrategyNotional("reserved", z)
        /\ StrategyNotional("open", z) \in Nat /\ StrategyNotional("reserved", z) \in Nat
    BY <2>1, ExposureTypes DEF StrategyNotional
  <2>7. worth <= StrategyCap(z, a) - StrategyNotional("open", z)
                   - StrategyNotional("reserved", z)
    BY <1>3, <1>4, <2>1, <2>6, Rooms DEF StrategyRoom, Larger
  <2>8. StrategyCap(z, a) \in Int
    BY <2>1, Rooms
  <2> QED BY <1>2, <1>3, <2>1, <2>4, <2>5, <2>6, <2>7, <2>8
<1>10. NotionalIn("reserved")' <= funds.available * Pct * Granted(a)
  <2>1. PICK A, B, C : A = In("reserved") /\ B = {} /\ C = A \cup B \cup {s}
    OBVIOUS
  <2>2. In("reserved")' = C
    BY <1>6, <2>1
  <2>3. NotionalIn("reserved")' = NotionalOn(C)'
    BY <2>2 DEF NotionalIn, NotionalOn
  <2>4. NotionalOn(C)' = NotionalOn(A) + NotionalOn(B) + Notional(s)'
    <3>1. /\ A \subseteq {x \in Symbols : book[x] # NoIdea}
          /\ B \subseteq {x \in Symbols : book[x] # NoIdea}
          /\ A \cap B = {}
      BY <1>7, <2>1
    <3> QED BY <1>1, <1>3, <2>1, <3>1, WorthAfter
  <2>5. /\ NotionalOn(A) = NotionalIn("reserved") /\ NotionalOn(B) = 0
        /\ NotionalIn("reserved") \in Nat
    BY <2>1, ExposureTypes, TotalEmpty DEF NotionalIn, NotionalOn
  <2> DEFINE d == DeployableEquity(a)
             g == Granted(a)
             p == funds.available * Pct
  <2>6. d \in Int /\ p \in Nat /\ d <= p /\ g \in Nat
    <3>1. p \in Nat /\ funds.equity * (Pct - a.reserve) \in Int
      BY FundTypes, Rooms DEF Pct
    <3>2. d = Smaller(p, funds.equity * (Pct - a.reserve))
      BY DEF DeployableEquity
    <3> HIDE DEF p, d
    <3> QED BY <1>5, <3>1, <3>2 DEF Smaller, Pct
  <2>7. MarginRoom(a) = Larger(0, d * g - NotionalIn("reserved"))
    BY DEF MarginRoom
  <2> HIDE DEF d, g, p
  <2>8. d * g \in Int /\ p * g \in Int /\ d * g <= p * g
    BY <2>6
  <2>9. worth <= d * g - NotionalIn("reserved")
    BY <1>3, <1>4, <2>5, <2>7, <2>8 DEF Larger
  <2> QED BY <1>2, <1>3, <2>3, <2>4, <2>5, <2>8, <2>9 DEF p, g
<1> QED BY <1>1, <1>8, <1>9, <1>10

\* Approvals keep to the caps of the allocation they were made under, whatever
\* earlier allocations allowed (_size_quantity).
THEOREM CapsKept == SizingSpec => CapsKeptOnApproval
<1>1. SizingTypeOK /\ [SizingNext]_sizingVars
        => \A a \in Allocations, s \in Symbols :
             (Admitted(s) /\ decision'.allocation = a) =>
               /\ Exposure(Strategies)' <= GrossCap(a)
               /\ \A strategy \in Strategies : book'[s].strategy = strategy =>
                    Exposure({strategy})' <= StrategyCap(strategy, a)
               /\ NotionalIn("reserved")' <= funds.available * Pct * Granted(a)
  BY CapsStep
<1> QED BY <1>1, SizingTypeCorrect, PTL DEF SizingSpec, CapsKeptOnApproval
=============================================================================
