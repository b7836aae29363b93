------------------------------ MODULE LivePilot ------------------------------
(***************************************************************************)
(* The LIVE risk policy (LiveRiskEvaluator in kairos_risk/live.py) and the *)
(* capital-budget proposals that may replace its limits                    *)
(* (kairos_risk/capital_budget_proposal.py), over an account that keeps    *)
(* moving while the evidence about it ages.                                *)
(*                                                                         *)
(* Money is in integer units.  Floats are the multiples of FloatGrid:      *)
(* _lower_float and _upper_float round to them, outward from the exact     *)
(* decimal; a dollar ceiling is floored to cents, multiples of Cent.       *)
(* Fractions are in parts of Whole.  A quantity is exact, leverage is one, *)
(* and the balance available is the equity less what is open.              *)
(*                                                                         *)
(* External, from the verifier's contract (VerifiedLiveAccountV1,          *)
(* docs/LIVE-RISK.md): evidence tells the truth about its capture time,    *)
(* within one day; reserved are the committed ideas it does not represent, *)
(* neither as open nor as over.  One producer commits an approval before   *)
(* it asks again.  An idea loses at most its worst-case loss.  A proposal  *)
(* becomes authority only as a new scope, made from the limits it was      *)
(* computed for.                                                           *)
(***************************************************************************)
EXTENDS Integers, FiniteSets, FiniteSetsExt, Counting

CONSTANTS
  LiveIdeas,
  VenueSymbolOf,     \* idea -> venue symbol
  Quotes,            \* per unit: entry, stop, fees, slippage; and the depth
  Allocations,       \* gross and weight: capital shares
  Equities,          \* equities the account may come to have
  FirstLimits,       \* the limits of the first scope
  Policies,          \* capital-budget policies an operator may ask for
  VenueMinimums,     \* minimum notionals the venue may publish
  Whole, FloatGrid, Cent,
  EvidenceMaxAge,    \* _MAX_ACCOUNT_AGE_MS
  LiveLastTime,      \* bound on the clock
  MaxScopes          \* bound on scopes

Limits == [perTradeFraction : Nat, aggregateFraction : Nat, perTradeCap : Nat,
           dailyLossCap : Nat, maxEquity : Nat, aggregateCap : Nat,
           positionCap : Nat, minNotional : Nat]

ASSUME LiveAssumption ==
  /\ IsFiniteSet(LiveIdeas)
  /\ FirstLimits \in Limits
  /\ Quotes \subseteq [entry : Nat \ {0}, stop : Nat, fees : Nat, slippage : Nat, depth : Nat]
  /\ Allocations \subseteq [gross : 0..Whole, weight : 0..Whole]
  /\ Equities \subseteq Nat \ {0} /\ VenueMinimums \subseteq Nat \ {0}
  /\ Policies \subseteq [perTrade : Nat, aggregate : Nat, daily : Nat]
  /\ {Whole, FloatGrid, Cent} \subseteq Nat \ {0}
  /\ Cent % FloatGrid = 0
  /\ EvidenceMaxAge \in Nat /\ LiveLastTime \in Nat /\ MaxScopes \in Nat

VARIABLES
  clock,       \* the producer's clock
  limits,    \* LiveRiskLimitsV1 of the evaluator
  scope,     \* which scope binds them
  proposal,  \* the last capital-budget proposal
  ideas,     \* external: what was committed, and what became of it
  equity,    \* external: the account
  adverse,   \* external: the day's realized losses
  evidence   \* external: the newest verified account evidence

authority == <<limits, scope, proposal>>
ledger == <<ideas, equity, adverse>>
liveVars == <<clock, limits, scope, proposal, ideas, equity, adverse, evidence>>

FloorTo(x, grid) == (x \div grid) * grid
CeilTo(x, grid) == FloorTo(x + grid - 1, grid)
Lesser(x, y) == IF x <= y THEN x ELSE y
Greater(x, y) == IF x >= y THEN x ELSE y
Room(cap, used) == Greater(0, cap - used)

NoIdea == [state |-> "none", risk |-> 0, notional |-> 0]
InState(S) == {i \in LiveIdeas : ideas[i].state \in S}
RiskOn(S) == Total([i \in LiveIdeas |-> ideas[i].risk], S)
NotionalOn(S) == Total([i \in LiveIdeas |-> ideas[i].notional], S)

\* Committed and not over: it carries risk, or may still come to carry it.
AtRisk == InState({"committed", "open"})

LiveInit ==
  /\ clock = 0
  /\ limits = FirstLimits /\ scope = 1
  /\ proposal = [scope |-> 0, limits |-> FirstLimits]
  /\ ideas = [i \in LiveIdeas |-> NoIdea]
  /\ equity \in Equities /\ adverse = 0
  /\ evidence = [scope |-> 1, at |-> 0, equity |-> equity, adverse |-> 0,
                 open |-> {}, over |-> {}]

-----------------------------------------------------------------------------
(***************************************************************************)
(* The evaluator.                                                          *)
(***************************************************************************)
\* The verifier's reservations, as the evaluator is told them.
Unrepresented == InState({"committed", "open", "over"}) \ (evidence.open \cup evidence.over)

OpenRisk == RiskOn(evidence.open)
ReservedRisk == RiskOn(Unrepresented)
UsedNotional == NotionalOn(evidence.open \cup Unrepresented)

\* Mutant of DailyRoom: reservations are left to the portfolio ceiling.
DailyRoomUnreserved == Room(limits.dailyLossCap, evidence.adverse + OpenRisk)

\* What may still be lost today.
DailyRoom == Room(limits.dailyLossCap, evidence.adverse + OpenRisk + ReservedRisk)

AggregateRoom ==
  Room(evidence.equity * limits.aggregateFraction, (OpenRisk + ReservedRisk) * Whole)
    \div Whole

\* The gates of _admission_gates that read account, scope and clock.
Admitted(i) ==
  /\ evidence.scope = scope
  /\ evidence.at <= clock /\ clock - evidence.at <= EvidenceMaxAge
  /\ evidence.equity <= limits.maxEquity
  /\ \A k \in evidence.open : VenueSymbolOf[k] # VenueSymbolOf[i]
  /\ AggregateRoom > 0 /\ DailyRoom > 0

\* evaluate's loss budget.
LiveLossBudget ==
  FloorTo(Min({(evidence.equity * limits.perTradeFraction) \div Whole,
               limits.perTradeCap, AggregateRoom, DailyRoom}), FloatGrid)

\* _size's notional_cap, of one strategy that holds every idea.
NotionalCeiling(quote, alloc) ==
  Min({limits.positionCap, Room(limits.aggregateCap, UsedNotional), quote.depth,
       Room(evidence.equity, UsedNotional),
       Room((evidence.equity * alloc.gross) \div Whole, UsedNotional),
       Room((evidence.equity * alloc.weight) \div Whole, UsedNotional)})

StopDistance(quote) == IF quote.entry >= quote.stop THEN quote.entry - quote.stop
                                                    ELSE quote.stop - quote.entry
UnitLoss(quote) == StopDistance(quote) + quote.fees + quote.slippage

\* Costs and notional are displayed rounded outward, each part by itself.
Displayed(amount) == CeilTo(amount, FloatGrid)
DisplayedLoss(q, quote) ==
  Displayed(q * StopDistance(quote) + Displayed(q * quote.fees) + Displayed(q * quote.slippage))

\* Mutant of Fits: the exact decimals are compared, not what is displayed.
FitsExactly(q, quote, budget, cap) ==
  q * UnitLoss(quote) <= budget /\ q * quote.entry <= cap

Fits(q, quote, budget, cap) ==
  DisplayedLoss(q, quote) <= budget /\ Displayed(q * quote.entry) <= cap

\* _size: the lots budget and ceiling allow, or one or two fewer where the
\* displayed figures do not fit; else nothing.
Sized(quote, budget, cap) ==
  LET lots == IF UnitLoss(quote) = 0 THEN 0
              ELSE Lesser(budget \div UnitLoss(quote), cap \div quote.entry)
      fitting == {q \in (lots - 2)..lots : q > 0 /\ Fits(q, quote, budget, cap)}
  IN  IF fitting = {} THEN 0 ELSE Max(fitting)

\* evaluate, and the producer's commit.  A vetoed idea changes nothing.
EvaluateLive(i, quote, alloc) ==
  LET budget == LiveLossBudget
      q == Sized(quote, budget, NotionalCeiling(quote, alloc))
  IN  /\ ideas[i] = NoIdea
      /\ Admitted(i)
      /\ budget > 0
      /\ q > 0
      /\ Displayed(q * quote.entry) >= limits.minNotional
      /\ ideas' = [ideas EXCEPT ![i] =
                     [state |-> "committed", risk |-> DisplayedLoss(q, quote),
                      notional |-> Displayed(q * quote.entry)]]
      /\ UNCHANGED <<clock, authority, equity, adverse, evidence>>

-----------------------------------------------------------------------------
(***************************************************************************)
(* Capital-budget proposals.                                               *)
(***************************************************************************)
CapitalBasis == Lesser(evidence.equity, limits.maxEquity)

\* Mutant of Tightened: caps follow the capital basis alone.
TightenedByBasis(cap, share) == FloorTo(share, Cent)

\* A proposed ceiling never exceeds the current one.
Tightened(cap, share) == FloorTo(Lesser(cap, share), Cent)

ProposedLimits(policy, venueMinimum) ==
  LET aggregate == Tightened(limits.aggregateCap, CapitalBasis) IN
  [perTradeFraction |-> policy.perTrade,
   aggregateFraction |-> policy.aggregate,
   perTradeCap |-> Tightened(limits.perTradeCap, (CapitalBasis * policy.perTrade) \div Whole),
   dailyLossCap |-> Tightened(limits.dailyLossCap, (CapitalBasis * policy.daily) \div Whole),
   maxEquity |-> limits.maxEquity,
   aggregateCap |-> aggregate,
   positionCap |-> Tightened(limits.positionCap, aggregate),
   minNotional |-> CeilTo(Greater(venueMinimum, limits.minNotional), FloatGrid)]

\* propose_capital_budget: refused, or a record without authority.
Propose(policy, venueMinimum) ==
  LET proposed == ProposedLimits(policy, venueMinimum)
  IN  /\ evidence.scope = scope
      /\ evidence.at <= clock /\ clock - evidence.at <= EvidenceMaxAge
      /\ policy.perTrade <= limits.perTradeFraction
      /\ policy.aggregate <= limits.aggregateFraction
      /\ proposed.perTradeCap > 0 /\ proposed.dailyLossCap > 0 /\ proposed.positionCap > 0
      /\ Greater(venueMinimum, limits.minNotional) <= proposed.positionCap
      /\ proposal' = [scope |-> scope, limits |-> proposed]
      /\ UNCHANGED <<clock, limits, scope, ledger, evidence>>

\* A new scope is released with the proposed limits; the evaluator made for it
\* takes no evidence of the old one.
Rescope ==
  /\ proposal.scope = scope
  /\ scope < MaxScopes
  /\ scope' = scope + 1
  /\ limits' = proposal.limits
  /\ UNCHANGED <<clock, proposal, ledger, evidence>>

-----------------------------------------------------------------------------
(***************************************************************************)
(* The account and its verifier.                                           *)
(***************************************************************************)
LiveTick ==
  /\ clock < LiveLastTime
  /\ clock' = clock + 1
  /\ UNCHANGED <<authority, ledger, evidence>>

Capture ==
  /\ evidence' = [scope |-> scope, at |-> clock, equity |-> equity, adverse |-> adverse,
                  open |-> InState({"open"}), over |-> InState({"over"})]
  /\ UNCHANGED <<clock, authority, ledger>>

OpenIdea(i) ==
  /\ ideas[i].state = "committed"
  /\ ideas' = [ideas EXCEPT ![i].state = "open"]
  /\ UNCHANGED <<clock, authority, equity, adverse, evidence>>

\* Expired, closed at a profit or closed at its worst.
EndIdea(i) ==
  /\ i \in AtRisk
  /\ ideas' = [ideas EXCEPT ![i].state = "over"]
  /\ adverse' \in {adverse} \cup IF ideas[i].state = "open"
                                 THEN {adverse + ideas[i].risk} ELSE {}
  /\ UNCHANGED <<clock, authority, equity, evidence>>

Fund(e) ==
  /\ equity' = e
  /\ UNCHANGED <<clock, authority, ideas, adverse, evidence>>

LiveNext ==
  \/ \E i \in LiveIdeas, quote \in Quotes, alloc \in Allocations :
       EvaluateLive(i, quote, alloc)
  \/ \E policy \in Policies, m \in VenueMinimums : Propose(policy, m)
  \/ Rescope
  \/ LiveTick
  \/ Capture
  \/ \E i \in LiveIdeas : OpenIdea(i) \/ EndIdea(i)
  \/ \E e \in Equities : Fund(e)

LiveSpec == LiveInit /\ [][LiveNext]_liveVars

-----------------------------------------------------------------------------
(***************************************************************************)
(* Properties.                                                             *)
(***************************************************************************)
\* The day's losses and everything still at risk stay within the daily cap of
\* the first scope, whatever opens, ends or is approved on evidence that is
\* seconds old: daily headroom charges losses, open risk and unrepresented
\* reservations once each (evaluate's daily_room, docs/LIVE-RISK.md).
DailyLossBounded == adverse + RiskOn(AtRisk) <= FirstLimits.dailyLossCap

\* With an approval, everything at risk fits the ceilings then in force: the
\* daily cap with the losses so far, the portfolio's share of the equity that
\* was verified, and the portfolio's notional cap; displayed figures included
\* (_size and its corrections, docs/LIVE-RISK.md "would breach a hard ceiling").
CeilingsHoldAtApproval ==
  [][InState({"none"}) # InState({"none"})' =>
       /\ adverse' + RiskOn(AtRisk)' <= limits.dailyLossCap
       /\ RiskOn(AtRisk)' * Whole <= evidence.equity * limits.aggregateFraction
       /\ NotionalOn(AtRisk)' <= limits.aggregateCap]_liveVars

\* No sequence of proposals and new scopes relaxes a limit, whatever the
\* account gains in between and the venue publishes (propose_capital_budget:
\* "Deposits or gains cannot raise it implicitly").
LimitsOnlyTighten ==
  [][/\ limits'.perTradeFraction <= limits.perTradeFraction
     /\ limits'.aggregateFraction <= limits.aggregateFraction
     /\ limits'.perTradeCap <= limits.perTradeCap
     /\ limits'.dailyLossCap <= limits.dailyLossCap
     /\ limits'.maxEquity = limits.maxEquity
     /\ limits'.aggregateCap <= limits.aggregateCap
     /\ limits'.positionCap <= limits.positionCap
     /\ limits'.minNotional >= limits.minNotional]_liveVars
=============================================================================
