-------------------------- MODULE TradingModesProofs --------------------------
(***************************************************************************)
(* Proofs about the DRY_RUN service, for every set of messages, commands   *)
(* and modes and every setting, and about the LIVE policy, for every set   *)
(* of ideas and quotes, every capital policy and every course of the       *)
(* account.                                                                *)
(*                                                                         *)
(* DRY_RUN: the inductive invariant ties the service's own bookkeeping to  *)
(* what was delivered (Bookkeeping) and each value in force to it          *)
(* (InForce): without them the registers could adopt a version that was    *)
(* heard of before.                                                        *)
(*                                                                         *)
(* LIVE: a step that replaces the limits takes them from a proposal made   *)
(* earlier, so the invariant carries what a pending proposal is worth: it  *)
(* is of no later scope, and one of this scope tightens the limits in      *)
(* force (PendingTightens).  The account moves on while its evidence ages; *)
(* what the evaluator charges from the evidence and the reservations stays *)
(* an upper bound of what is lost and at risk (Accounted).                 *)
(***************************************************************************)
EXTENDS DryRunService, LivePilot, CountingProofs, TLAPS

Bookkeeping ==
  heardAccount = latestCaptured /\ heardAllocation = latestProduced

InForce ==
  /\ snapshot # NoSnapshot =>
       snapshot.at = latestCaptured /\ account = snapshot.content
  /\ latestCaptured = -1 => snapshot = NoSnapshot /\ account = Fallback
  /\ allocation # NoAllocation =>
       /\ allocation.at = latestProduced
       /\ ~AllocationError(allocation.policy)
       /\ allocation.policy # NoAllocation

DInv == DryRunTypeOK /\ Bookkeeping /\ InForce

\* The fields of the messages, from the assumption on the constants.
LEMMA AccountFields ==
  ASSUME NEW m \in AccountMessages
  PROVE  m.at \in Nat /\ [at |-> m.at, content |-> m.content] # NoSnapshot
<1> QED BY ServiceAssumption

LEMMA AllocationFields ==
  ASSUME NEW m \in AllocationMessages
  PROVE  /\ m.at \in Nat /\ m.policy # NoAllocation
         /\ [at |-> m.at, policy |-> m.policy] # NoAllocation
<1> QED BY ServiceAssumption

LEMMA InitDInv == Init => DInv
<1> QED BY DEF Init, DInv, DryRunTypeOK, Bookkeeping, InForce

\* What the account consumer leaves: the version heard of is remembered, and a
\* value that is in force afterwards was in force before or came with this
\* newest version (_handle_account).
LEMMA AccountStep ==
  ASSUME DInv, NEW m \in AccountMessages, HandleAccount(m)
  PROVE  /\ heardAccount' \in Nat \cup {-1}
         /\ heardAccount' = latestCaptured' /\ heardAccount' >= heardAccount
         /\ \/ /\ snapshot' = NoSnapshot
               /\ account' = account
               /\ latestCaptured' = -1 => latestCaptured = -1
            \/ UNCHANGED <<snapshot, account, latestCaptured>>
            \/ /\ heardAccount' > heardAccount
               /\ heardAccount' = m.at
               /\ snapshot' = [at |-> m.at, content |-> m.content]
               /\ account' = m.content
<1>1. /\ latestCaptured \in Nat \cup {-1} /\ heardAccount = latestCaptured
      /\ m.at \in Nat
  BY AccountFields DEF DInv, DryRunTypeOK, Bookkeeping
<1>2. heardAccount' = Heard(heardAccount, m)
  BY DEF HandleAccount
<1>3. CASE MalformedAccount(m)
  BY <1>1, <1>2, <1>3 DEF MalformedAccount, Heard
<1>4. CASE RepeatedAccount(m)
  BY <1>1, <1>2, <1>4 DEF RepeatedAccount, Heard, Larger
<1>5. CASE RevokingAccount(m)
  BY <1>1, <1>2, <1>5 DEF RevokingAccount, Heard, Larger
<1>6. CASE NewAccount(m)
  BY <1>1, <1>2, <1>6 DEF NewAccount, Heard, Larger
<1> QED BY <1>3, <1>4, <1>5, <1>6 DEF HandleAccount

\* The same of the allocation consumer, which also checks the policy
\* (_handle_allocation).
LEMMA AllocationStep ==
  ASSUME DInv, NEW m \in AllocationMessages, HandleAllocation(m)
  PROVE  /\ heardAllocation' \in Nat \cup {-1}
         /\ heardAllocation' = latestProduced' /\ heardAllocation' >= heardAllocation
         /\ \/ allocation' = NoAllocation
            \/ UNCHANGED <<allocation, latestProduced>>
            \/ /\ heardAllocation' > heardAllocation
               /\ heardAllocation' = m.at
               /\ allocation' = [at |-> m.at, policy |-> m.policy]
               /\ ~AllocationError(m.policy)
<1>1. /\ latestProduced \in Nat \cup {-1} /\ heardAllocation = latestProduced
      /\ m.at \in Nat
  BY AllocationFields DEF DInv, DryRunTypeOK, Bookkeeping
<1>2. heardAllocation' = Heard(heardAllocation, m)
  BY DEF HandleAllocation
<1>3. CASE MalformedAllocation(m)
  BY <1>1, <1>2, <1>3 DEF MalformedAllocation, Heard
<1>4. CASE InvalidAllocation(m)
  BY <1>1, <1>2, <1>4 DEF InvalidAllocation, Heard, Larger
<1>5. CASE RepeatedAllocation(m)
  BY <1>1, <1>2, <1>5 DEF RepeatedAllocation, Heard, Larger
<1>6. CASE NewAllocation(m)
  BY <1>1, <1>2, <1>6 DEF NewAllocation, Heard, Larger
<1> QED BY <1>3, <1>4, <1>5, <1>6 DEF HandleAllocation

\* The steps that touch neither register.
LEMMA OtherSteps ==
  ASSUME [Next]_vars
  PROVE  \/ UNCHANGED <<settings, accountVars, allocationVars>>
            /\ (now \in Nat => now' \in Nat)
         \/ \E m \in AccountMessages : HandleAccount(m)
         \/ \E m \in AllocationMessages : HandleAllocation(m)
<1> QED BY DEF Next, HandleCommand, EndCommand, Tick, vars, accountVars, allocationVars

LEMMA NextDInv == DInv /\ [Next]_vars => DInv'
<1> SUFFICES ASSUME DInv, [Next]_vars PROVE DInv'
  OBVIOUS
<1> USE DEF DInv, DryRunTypeOK, Bookkeeping, InForce
<1>1. CASE UNCHANGED <<settings, accountVars, allocationVars>>
           /\ (now \in Nat => now' \in Nat)
  BY <1>1 DEF accountVars, allocationVars, AllocationError
<1>2. ASSUME NEW m \in AccountMessages, HandleAccount(m) PROVE DInv'
  <2>1. UNCHANGED <<settings, now, allocationVars>>
    BY <1>2 DEF HandleAccount
  <2>2. m.at \in Nat
    BY AccountFields
  <2> QED BY <1>2, <2>1, <2>2, AccountStep DEF allocationVars, AllocationError
<1>3. ASSUME NEW m \in AllocationMessages, HandleAllocation(m) PROVE DInv'
  <2>1. UNCHANGED <<settings, now, accountVars>>
    BY <1>3 DEF HandleAllocation
  <2>2. m.policy # NoAllocation
    BY AllocationFields
  <2> QED BY <1>3, <2>1, <2>2, AllocationStep DEF accountVars, AllocationError
<1> QED BY <1>1, <1>2, <1>3, OtherSteps

\* The invariant holds in every state of every execution.
LEMMA DryRunInvariance == Spec => []DInv
<1> QED BY InitDInv, NextDInv, PTL DEF Spec

\* What is in force is what some message said, with the version it said.
THEOREM DryRunTypeCorrect == Spec => []DryRunTypeOK
<1>1. DInv => DryRunTypeOK
  BY DEF DInv
<1> QED BY <1>1, DryRunInvariance, PTL

\* The account in force is the register NewestWins over all capture times ever
\* delivered (_handle_account, _consume_account).
THEOREM AccountRefinement == Spec => AccountNewestWins
<1>1. Init => AccountRegister!Init
  BY DEF Init, AccountRegister!Init
<1>2. ASSUME DInv, [Next]_vars
      PROVE  [AccountRegister!Next]_<<heardAccount, snapshot>>
  <2>1. CASE UNCHANGED accountVars
    BY <2>1 DEF accountVars
  <2>2. ASSUME NEW m \in AccountMessages, HandleAccount(m)
        PROVE  [AccountRegister!Next]_<<heardAccount, snapshot>>
    <3>1. heardAccount = latestCaptured
      BY <1>2 DEF DInv, Bookkeeping
    <3> QED BY <1>2, <2>2, <3>1, AccountStep, AccountFields
        DEF AccountRegister!Next, AccountRegister!Adopt, AccountRegister!Revoke
  <2>3. ASSUME NEW m \in AllocationMessages, HandleAllocation(m)
        PROVE  UNCHANGED accountVars
    BY <2>3 DEF HandleAllocation
  <2> QED BY <1>2, <2>1, <2>2, <2>3, OtherSteps
<1> QED
  BY <1>1, <1>2, DryRunInvariance, PTL
  DEF Spec, AccountNewestWins, AccountRegister!Spec

\* The allocation in force is such a register over all production times ever
\* delivered (_handle_allocation, _consume_allocation).
THEOREM AllocationRefinement == Spec => AllocationNewestWins
<1>1. Init => AllocationRegister!Init
  BY DEF Init, AllocationRegister!Init
<1>2. ASSUME DInv, [Next]_vars
      PROVE  [AllocationRegister!Next]_<<heardAllocation, allocation>>
  <2>1. CASE UNCHANGED allocationVars
    BY <2>1 DEF allocationVars
  <2>2. ASSUME NEW m \in AllocationMessages, HandleAllocation(m)
        PROVE  [AllocationRegister!Next]_<<heardAllocation, allocation>>
    <3>1. heardAllocation = latestProduced
      BY <1>2 DEF DInv, Bookkeeping
    <3> QED BY <1>2, <2>2, <3>1, AllocationStep, AllocationFields
        DEF AllocationRegister!Next, AllocationRegister!Adopt,
            AllocationRegister!Revoke
  <2>3. ASSUME NEW m \in AccountMessages, HandleAccount(m)
        PROVE  UNCHANGED allocationVars
    BY <2>3 DEF HandleAccount
  <2> QED BY <1>2, <2>1, <2>2, <2>3, OtherSteps
<1> QED
  BY <1>1, <1>2, DryRunInvariance, PTL
  DEF Spec, AllocationNewestWins, AllocationRegister!Spec

-----------------------------------------------------------------------------
(***************************************************************************)
(* What an approved order was decided on.                                  *)
(***************************************************************************)
\* A decision is made by HandleCommand alone.
LEMMA DecisionStep ==
  ASSUME [Next]_vars, Decided(decision')
  PROVE  \E c \in Commands, mode \in Modes :
           decision' = [command |-> c, mode |-> mode, outcome |-> Decide(c, mode)]
<1> QED BY DEF Next, HandleAccount, HandleAllocation, HandleCommand, EndCommand,
       Tick, Decided, vars

\* An approval means that the service's gates were open and validate approved.
LEMMA ApprovalMeans ==
  ASSUME NEW c, NEW mode, Decide(c, mode).approved
  PROVE  LET policy == IF NeedsAllocation(c, mode) THEN allocation.policy
                                                    ELSE NoAllocation
             a == AccountView(AccountContent, c.symbol)
         IN  /\ AccountReady
             /\ NeedsAllocation(c, mode) => AllocationReady
             /\ Decide(c, mode) = Validate(c, policy, a, mode)
             /\ ~Degraded(c, mode)
             /\ \/ c.reason = "CLOSE_POSITION"
                   /\ Decide(c, mode) =
                        Approved(IF a.qty > 0 THEN "SELL" ELSE "BUY",
                                 CloseNotional(c, a))
                \/ /\ c.reason \in NewRisk
                   /\ EntryApproved(c, policy, a)
                   /\ Decide(c, mode) =
                        Approved(SideOf(c.target), EntryNotional(c, policy, a))
<1> DEFINE policy == IF NeedsAllocation(c, mode) THEN allocation.policy
                                                 ELSE NoAllocation
           a == AccountView(AccountContent, c.symbol)
<1>1. ~Refused.approved
  BY DEF Refused
<1>2. /\ AccountReady
      /\ NeedsAllocation(c, mode) => AllocationReady
      /\ Decide(c, mode) = Validate(c, policy, a, mode)
  BY <1>1 DEF Decide
<1>3. /\ ~Degraded(c, mode)
      /\ \/ c.reason = "CLOSE_POSITION"
            /\ Decide(c, mode) =
                 Approved(IF a.qty > 0 THEN "SELL" ELSE "BUY", CloseNotional(c, a))
         \/ /\ c.reason \in NewRisk
            /\ EntryApproved(c, policy, a)
            /\ Decide(c, mode) = Approved(SideOf(c.target), EntryNotional(c, policy, a))
  <2> HIDE DEF policy, a
  <2> QED BY <1>1, <1>2 DEF Validate
<1> QED BY <1>2, <1>3

\* No order is approved on an account that was superseded, revoked or, where it
\* matters, stale (_account_ready, _handle_command).
THEOREM OrderAuthority == Spec => OrderNeedsAuthority
<1> DEFINE Basis ==
      /\ snapshot = NoSnapshot => heardAccount = -1 /\ account = Fallback
      /\ snapshot # NoSnapshot =>
           snapshot.at = heardAccount /\ account = snapshot.content
      /\ settings.account =>
           snapshot # NoSnapshot /\ Age(snapshot.at) \in 0..AccountMaxAge
<1>1. ASSUME DInv, [Next]_vars, Decided(decision'), decision'.outcome.approved
      PROVE  Basis
  <2>1. AccountReady
    BY <1>1, DecisionStep, ApprovalMeans
  <2> QED BY <1>1, <2>1 DEF AccountReady, DInv, Bookkeeping, InForce
<1>2. DInv /\ [Next]_vars =>
        ((Decided(decision') /\ decision'.outcome.approved) => Basis)
  BY <1>1
<1> QED BY <1>2, DryRunInvariance, PTL DEF Spec, OrderNeedsAuthority

\* Where allocations are required, no new risk is approved without the newest
\* one, valid, fresh and permitting it, in whatever mode (_handle_command).
THEOREM EntryAllocation == Spec => EntryNeedsAllocation
<1> DEFINE Basis ==
      /\ decision'.mode # "LOCAL_QUANT_MODE"
      /\ settings.allocation =>
           /\ AllocationReady /\ allocation.at = heardAllocation
           /\ ~AllocationError(allocation.policy)
           /\ ~RegimeForbids(allocation.policy, decision'.command.reason)
<1>1. ASSUME DInv, [Next]_vars, Decided(decision'), decision'.outcome.approved,
             decision'.command.reason \in NewRisk
      PROVE  Basis
  <2>1. PICK c \in Commands, mode \in Modes :
          decision' = [command |-> c, mode |-> mode, outcome |-> Decide(c, mode)]
    BY <1>1, DecisionStep
  <2>2. Decide(c, mode).approved /\ c.reason \in NewRisk
    BY <1>1, <2>1
  <2>3. mode # "LOCAL_QUANT_MODE"
    BY <2>2, ApprovalMeans DEF Degraded
  <2>4. ASSUME settings.allocation
        PROVE  /\ AllocationReady
               /\ ~RegimeForbids(allocation.policy, c.reason)
    <3>1. NeedsAllocation(c, mode)
      BY <2>2, <2>3, <2>4 DEF NeedsAllocation
    <3>2. AllocationReady /\ StrategyAllows(allocation.policy, c.reason,
                               AccountView(AccountContent, c.symbol))
      BY <2>2, <3>1, ApprovalMeans DEF EntryApproved, NewRisk
    <3>3. allocation.policy # NoAllocation
      BY <1>1, <3>2 DEF AllocationReady, DInv, InForce
    <3> QED BY <3>2, <3>3 DEF StrategyAllows
  <2> QED BY <1>1, <2>1, <2>3, <2>4 DEF AllocationReady, DInv, InForce, Bookkeeping
<1>2. DInv /\ [Next]_vars =>
        ((Decided(decision') /\ decision'.outcome.approved
            /\ decision'.command.reason \in NewRisk) => Basis)
  BY <1>1
<1> QED BY <1>2, DryRunInvariance, PTL DEF Spec, EntryNeedsAllocation

\* No order turns a position round (validate).
THEOREM NoReversal == Spec => NoImplicitReversal
<1> DEFINE Keeps ==
      LET a == ViewOf(decision')
          o == decision'.outcome
      IN  IF decision'.command.reason = "CLOSE_POSITION"
          THEN /\ o.side = (IF a.qty > 0 THEN "SELL" ELSE "BUY")
               /\ o.notional = Size(a) * decision'.command.price * Scale
          ELSE /\ a.qty > 0 => o.side = "BUY"
               /\ a.qty < 0 => o.side = "SELL"
<1>1. ASSUME [Next]_vars, Decided(decision'), decision'.outcome.approved
      PROVE  Keeps
  <2>1. PICK c \in Commands, mode \in Modes :
          decision' = [command |-> c, mode |-> mode, outcome |-> Decide(c, mode)]
    BY <1>1, DecisionStep
  <2> DEFINE a == AccountView(AccountContent, c.symbol)
  <2>2. ViewOf(decision') = a /\ decision'.outcome = Decide(c, mode)
        /\ decision'.command = c /\ Decide(c, mode).approved
    BY <1>1, <2>1 DEF ViewOf
  <2>3. CASE /\ c.reason = "CLOSE_POSITION"
             /\ Decide(c, mode) = Approved(IF a.qty > 0 THEN "SELL" ELSE "BUY",
                                           CloseNotional(c, a))
    <3> HIDE DEF a
    <3> QED BY <2>2, <2>3 DEF Approved, CloseNotional
  <2>4. ASSUME NEW policy, c.reason \in NewRisk, EntryApproved(c, policy, a),
               Decide(c, mode) = Approved(SideOf(c.target), EntryNotional(c, policy, a))
        PROVE  Keeps
    <3> HIDE DEF a
    <3>1. ~Opposes(c, a) /\ c.reason # "CLOSE_POSITION"
      BY <2>4 DEF EntryApproved, NewRisk
    <3> QED BY <2>2, <2>4, <3>1 DEF Opposes, Approved, SideOf
  <2> QED BY <2>2, <2>3, <2>4, ApprovalMeans
<1>2. [Next]_vars => ((Decided(decision') /\ decision'.outcome.approved) => Keeps)
  BY <1>1
<1> QED BY <1>2, PTL DEF Spec, NoImplicitReversal

\* A close worth the minimum passes every gate there is for closes.
LEMMA CloseDecided ==
  ASSUME NEW c \in Commands, NEW mode, NEW q \in Int,
         c.reason = "CLOSE_POSITION", c.symbol \in AllowedSymbols, AccountReady,
         q = AccountView(AccountContent, c.symbol).qty,
         Size(AccountView(AccountContent, c.symbol)) * c.price >= MinNotional
  PROVE  Decide(c, mode).approved
<1> DEFINE a == AccountView(AccountContent, c.symbol)
           size == Size(a)
           n == size * c.price
<1>1. /\ c.price \in Int /\ MinNotional \in Int /\ MinNotional >= 1
      /\ size \in Nat /\ (a.qty # 0 <=> size # 0) /\ n \in Int /\ n >= MinNotional
  BY ServiceAssumption, PipelineAssumption DEF Size
<1>2. c.price > 0 /\ size # 0
  <2> HIDE DEF size
  <2>1. size > 0 \/ n = 0
    BY <1>1
  <2>2. ASSUME c.price <= 0 PROVE n <= 0
    BY <1>1, <2>2
  <2> QED BY <1>1, <2>1, <2>2
<1>3. n * Scale >= MinNotional * Scale
  <2> HIDE DEF n
  <2> QED BY <1>1 DEF Scale, Pct
<1>4. CloseApproved(c, a)
  BY <1>1, <1>2, <1>3 DEF CloseApproved, CloseNotional
<1>5. ~Degraded(c, mode) /\ ~NeedsAllocation(c, mode)
  BY DEF Degraded, NeedsAllocation, NewRisk
<1>6. Validate(c, NoAllocation, a, mode) =
        Approved(IF a.qty > 0 THEN "SELL" ELSE "BUY", CloseNotional(c, a))
  <2> HIDE DEF a
  <2> QED BY <1>1, <1>2, <1>4, <1>5 DEF Validate
<1> HIDE DEF a
<1>7. Decide(c, mode) = Validate(c, NoAllocation, a, mode)
  BY <1>5 DEF Decide, a
<1> QED BY <1>6, <1>7 DEF Approved

\* A close of a position worth at least the minimum is approved in every mode,
\* whatever drawdown and allocation say (validate, _handle_command).
THEOREM ExitsOpen == Spec => ExitsStayAvailable
<1> DEFINE Asked ==
      /\ decision'.command.reason = "CLOSE_POSITION"
      /\ decision'.command.symbol \in AllowedSymbols
      /\ AccountReady
      /\ Size(ViewOf(decision')) * decision'.command.price >= MinNotional
<1>1. ASSUME DInv, [Next]_vars, Decided(decision'), Asked
      PROVE  decision'.outcome.approved
  <2>1. PICK c \in Commands, mode \in Modes :
          decision' = [command |-> c, mode |-> mode, outcome |-> Decide(c, mode)]
    BY <1>1, DecisionStep
  <2>2. AccountContent \in {m.content : m \in AccountMessages} \cup {Fallback}
    BY <1>1 DEF DInv, DryRunTypeOK, AccountContent
  <2>3. AccountView(AccountContent, c.symbol).qty \in Int
    BY <1>1, <2>1, <2>2, ServiceAssumption DEF AccountView
  <2> QED BY <1>1, <2>1, <2>3, CloseDecided DEF ViewOf
<1>2. DInv /\ [Next]_vars =>
        ((Decided(decision') /\ Asked) => decision'.outcome.approved)
  BY <1>1
<1> QED BY <1>2, DryRunInvariance, PTL DEF Spec, ExitsStayAvailable

-----------------------------------------------------------------------------
(***************************************************************************)
(* DRY_RUN: the size of an entry.                                          *)
(***************************************************************************)
\* A product of numbers is a number, and positive when its factors are.
LEMMA ProductNat ==
  ASSUME NEW x \in Nat, NEW y \in Nat
  PROVE  x * y \in Nat /\ (x > 0 /\ y > 0 => x * y > 0)
OBVIOUS

\* Products of larger factors are larger.
LEMMA LargerFactors ==
  ASSUME NEW x \in Nat, NEW y \in Nat, NEW u \in Nat, NEW w \in Nat, x <= u, y <= w
  PROVE  x * y \in Nat /\ u * w \in Nat /\ x * y <= u * w
<1>1. x * y <= u * y
  OBVIOUS
<1>2. u * y <= u * w
  OBVIOUS
<1>3. x * y \in Nat /\ u * y \in Nat /\ u * w \in Nat
  OBVIOUS
<1> QED BY <1>1, <1>2, <1>3

\* The view of the account is made of numbers.
LEMMA ViewTypes ==
  ASSUME DInv, NEW symbol \in Symbols
  PROVE  LET a == AccountView(AccountContent, symbol) IN
         /\ a.equity \in Nat /\ a.peak \in Nat /\ a.loss \in Int
         /\ a.gross \in Nat /\ a.held \in Nat /\ a.qty \in Int
<1>1. PICK content : content = AccountContent
  OBVIOUS
<1>2. content \in {m.content : m \in AccountMessages} \cup {Fallback}
  BY <1>1 DEF AccountContent, DInv, DryRunTypeOK
<1>3. /\ content.equity \in Nat /\ content.peak \in Nat /\ content.loss \in Int
      /\ \A s \in Symbols : /\ content.positions[s].qty \in Int
                            /\ content.positions[s].mark \in Nat
  BY <1>2, ServiceAssumption
<1> DEFINE worth == [s \in Symbols |-> Notional(content.positions[s])]
<1>4. \A s \in Symbols : worth[s] \in Nat
  <2> SUFFICES ASSUME NEW s \in Symbols PROVE Notional(content.positions[s]) \in Nat
    OBVIOUS
  <2>1. Size(content.positions[s]) \in Nat
    BY <1>3 DEF Size
  <2> QED BY <1>3, <2>1, ProductNat DEF Notional
<1>5. AccountView(content, symbol).gross = Total(worth, Symbols)
      /\ AccountView(content, symbol).held = worth[symbol]
  BY DEF AccountView
<1> HIDE DEF worth
<1>6. Total(worth, Symbols) \in Nat
  BY <1>4, PipelineAssumption, TotalType
<1>7. AccountView(content, symbol).held \in Nat /\ AccountView(content, symbol).gross \in Nat
  BY <1>4, <1>5, <1>6
<1>8. /\ AccountView(content, symbol).equity = content.equity
      /\ AccountView(content, symbol).peak = content.peak
      /\ AccountView(content, symbol).loss = content.loss
      /\ AccountView(content, symbol).qty = content.positions[symbol].qty
  BY DEF AccountView
<1> QED BY <1>1, <1>3, <1>7, <1>8

\* No request gets more than the allowed leverage.
LEMMA LeverageAllowed ==
  ASSUME NEW c \in Commands
  PROVE  CapLeverage(c.leverage) \in Nat /\ CapLeverage(c.leverage) <= MaxLeverage
BY ServiceAssumption, PipelineAssumption DEF CapLeverage, Smaller

\* An approved entry fits the position cap, the equity budget and, under an
\* allocation, the gross cap, outside of drawdown.
LEMMA EntryFits ==
  ASSUME NEW c \in Commands, NEW policy, NEW a,
         a.equity \in Nat, a.peak \in Nat, a.loss \in Int, a.gross \in Nat, a.held \in Nat,
         policy # NoAllocation =>
           /\ policy.reserve \in 0..Pct /\ policy.maxLeverage \in Nat,
         EntryApproved(c, policy, a)
  PROVE  LET n == EntryNotional(c, policy, a) IN
         /\ a.held * Scale + n <= MaxPosition * Scale
         /\ n <= a.equity * RiskPct * MaxLeverage * Pct
         /\ a.loss < MaxDrawdownPct
         /\ a.peak * (Pct - MaxDrawdownPct) < a.equity * Pct
         /\ policy # NoAllocation =>
              a.gross * Scale + n <=
                a.equity * policy.maxLeverage * (Pct - policy.reserve) * Pct
<1> DEFINE n == EntryNotional(c, policy, a)
           share == IF policy = NoAllocation THEN Pct ELSE Pct - policy.reserve
           lever == EntryLeverage(c, policy)
           sized == a.equity * share * RiskPct * lever
           room == Larger(0, MaxPosition - a.held) * Scale
           left == RemainingGross(policy, a)
           cap == a.equity * policy.maxLeverage * (Pct - policy.reserve) * Pct
<1>1. /\ MaxLeverage \in Nat /\ RiskPct \in Nat /\ MaxPosition \in Nat /\ Pct \in Nat
      /\ MinNotional \in Nat /\ MinNotional > 0 /\ MaxDrawdownPct \in Nat
      /\ Scale \in Nat /\ Scale > 0
  BY PipelineAssumption DEF Scale, Pct
<1>2. share \in Nat /\ share <= Pct
  BY DEF Pct
<1>3. lever \in Nat /\ lever <= MaxLeverage
  BY <1>1, LeverageAllowed DEF EntryLeverage, Smaller
<1>4. n = Smaller(sized, EntryRoom(policy, a)) /\ n >= MinNotional * Scale
  BY DEF EntryNotional, SizingEquityPct, EntryApproved
<1>5. EntryRoom(policy, a) = IF policy = NoAllocation THEN room ELSE Smaller(room, left)
  BY DEF EntryRoom
<1>6. /\ ~InDrawdown(a)
  BY DEF EntryApproved, EntryVetoed
<1> HIDE DEF n, share, lever
<1>7. sized \in Nat /\ sized <= a.equity * RiskPct * MaxLeverage * Pct
  <2>1. a.equity * share \in Nat /\ a.equity * Pct \in Nat /\ a.equity * share <= a.equity * Pct
    BY <1>1, <1>2, LargerFactors
  <2>2. /\ a.equity * share * RiskPct \in Nat /\ a.equity * Pct * RiskPct \in Nat
        /\ a.equity * share * RiskPct <= a.equity * Pct * RiskPct
    BY <1>1, <2>1, LargerFactors
  <2>3. /\ sized \in Nat /\ a.equity * Pct * RiskPct * MaxLeverage \in Nat
        /\ sized <= a.equity * Pct * RiskPct * MaxLeverage
    BY <1>1, <1>3, <2>2, LargerFactors
  <2>4. \A x, y, z, w \in Nat : x * y * z * w = x * z * w * y
    OBVIOUS
  <2> QED BY <1>1, <2>3, <2>4
<1>8. room \in Nat /\ (room > 0 => room = MaxPosition * Scale - a.held * Scale)
  <2>1. Larger(0, MaxPosition - a.held) \in Nat
        /\ (MaxPosition <= a.held => Larger(0, MaxPosition - a.held) = 0)
        /\ (MaxPosition > a.held => Larger(0, MaxPosition - a.held) = MaxPosition - a.held)
    BY <1>1 DEF Larger
  <2> QED BY <1>1, <2>1 DEF Scale, Pct
<1>9. policy # NoAllocation =>
        left \in Nat /\ cap \in Int /\ (left > 0 => left = cap - a.gross * Scale)
  <2> SUFFICES ASSUME policy # NoAllocation
               PROVE  left \in Nat /\ cap \in Int /\ (left > 0 => left = cap - a.gross * Scale)
    OBVIOUS
  <2>1. Pct - policy.reserve \in Nat /\ policy.maxLeverage \in Nat
    BY DEF Pct
  <2>2. a.equity * policy.maxLeverage \in Nat
    BY <2>1, ProductNat
  <2>3. a.equity * policy.maxLeverage * (Pct - policy.reserve) \in Nat
    BY <2>1, <2>2, ProductNat
  <2>4. cap \in Nat
    BY <1>1, <2>3, ProductNat
  <2>5. a.gross * Scale \in Nat
    BY <1>1, ProductNat
  <2>6. left = Larger(0, cap - a.gross * Scale)
    BY DEF RemainingGross
  <2> HIDE DEF cap, left
  <2> QED BY <2>4, <2>5, <2>6 DEF Larger
<1>10. a.held * Scale \in Nat /\ a.gross * Scale \in Nat /\ MinNotional * Scale > 0
       /\ MaxPosition * Scale \in Nat /\ MinNotional * Scale \in Nat
  BY <1>1 DEF Scale, Pct
<1> HIDE DEF sized, room, left, cap
<1>11. EntryRoom(policy, a) \in Nat /\ n \in Nat /\ n > 0
  BY <1>4, <1>5, <1>7, <1>8, <1>9, <1>10 DEF Smaller
<1>12. n <= sized /\ n <= room /\ (policy # NoAllocation => n <= left)
  BY <1>4, <1>5, <1>7, <1>8, <1>9, <1>11 DEF Smaller
<1>13. a.held * Scale + n <= MaxPosition * Scale
  BY <1>8, <1>10, <1>11, <1>12
<1>14. policy # NoAllocation => a.gross * Scale + n <= cap
  BY <1>9, <1>10, <1>11, <1>12
<1>15. n <= a.equity * RiskPct * MaxLeverage * Pct
  <2>1. PICK budget : budget = a.equity * RiskPct * MaxLeverage * Pct
    OBVIOUS
  <2>2. budget \in Int
    BY <1>1, <2>1
  <2> QED BY <1>7, <1>11, <1>12, <2>1, <2>2
<1>16. a.loss < MaxDrawdownPct
  BY <1>1, <1>6 DEF InDrawdown
<1>17. a.peak * (Pct - MaxDrawdownPct) < a.equity * Pct
  <2>1. ~((a.peak - a.equity) * Pct >= MaxDrawdownPct * a.peak)
    BY <1>6 DEF InDrawdown
  <2>2. /\ (a.peak - a.equity) * Pct = a.peak * Pct - a.equity * Pct
        /\ a.peak * (Pct - MaxDrawdownPct) = a.peak * Pct - MaxDrawdownPct * a.peak
        /\ a.peak * Pct \in Nat /\ a.equity * Pct \in Nat /\ MaxDrawdownPct * a.peak \in Nat
    BY <1>1
  <2> QED BY <2>1, <2>2
<1> QED BY <1>13, <1>14, <1>15, <1>16, <1>17 DEF n, cap

\* An approved entry keeps the position cap, the equity budget, the gross cap of
\* the allocation and stays out of drawdown (validate, limits_for, size_order).
THEOREM EntryCaps == Spec => EntryWithinCaps
<1> DEFINE Within(a, n) ==
      /\ a.held * Scale + n <= MaxPosition * Scale
      /\ n <= a.equity * RiskPct * MaxLeverage * Pct
      /\ a.loss < MaxDrawdownPct
      /\ a.peak * (Pct - MaxDrawdownPct) < a.equity * Pct
      /\ settings.allocation =>
           a.gross * Scale + n <=
             a.equity * allocation.policy.maxLeverage
               * (Pct - allocation.policy.reserve) * Pct
<1>1. ASSUME DInv, [Next]_vars, Decided(decision'), decision'.outcome.approved,
             decision'.command.reason \in NewRisk
      PROVE  Within(ViewOf(decision'), decision'.outcome.notional)
  <2>1. PICK c \in Commands, mode \in Modes :
          decision' = [command |-> c, mode |-> mode, outcome |-> Decide(c, mode)]
    BY <1>1, DecisionStep
  <2> DEFINE policy == IF NeedsAllocation(c, mode) THEN allocation.policy
                                                   ELSE NoAllocation
  <2>2. PICK a : a = AccountView(AccountContent, c.symbol)
    OBVIOUS
  <2>3. Decide(c, mode).approved /\ c.reason \in NewRisk
    BY <1>1, <2>1
  <2>4. /\ c.reason # "CLOSE_POSITION" /\ mode # "LOCAL_QUANT_MODE"
        /\ EntryApproved(c, policy, a)
        /\ Decide(c, mode).notional = EntryNotional(c, policy, a)
        /\ NeedsAllocation(c, mode) => AllocationReady
    BY <2>2, <2>3, ApprovalMeans DEF Approved, Degraded, NewRisk
  <2>5. c.symbol \in Symbols
    BY <2>3, ServiceAssumption DEF Decide, Refused
  <2>6. /\ a.equity \in Nat /\ a.peak \in Nat /\ a.loss \in Int
        /\ a.gross \in Nat /\ a.held \in Nat
    BY <1>1, <2>2, <2>5, ViewTypes
  <2>7. policy # NoAllocation =>
          /\ NeedsAllocation(c, mode) /\ policy = allocation.policy
          /\ policy.reserve \in 0..Pct /\ policy.maxLeverage \in Nat
    BY <1>1, <2>4, ServiceAssumption
       DEF AllocationReady, AllocationError, DInv, InForce, DryRunTypeOK, Pct
  <2>8. settings.allocation => policy # NoAllocation /\ policy = allocation.policy
    BY <1>1, <2>3, <2>4 DEF NeedsAllocation, AllocationReady, DInv, InForce
  <2> HIDE DEF policy
  <2>9. LET n == EntryNotional(c, policy, a) IN
        /\ a.held * Scale + n <= MaxPosition * Scale
        /\ n <= a.equity * RiskPct * MaxLeverage * Pct
        /\ a.loss < MaxDrawdownPct
        /\ a.peak * (Pct - MaxDrawdownPct) < a.equity * Pct
        /\ policy # NoAllocation =>
             a.gross * Scale + n <=
               a.equity * policy.maxLeverage * (Pct - policy.reserve) * Pct
    BY <2>4, <2>6, <2>7, EntryFits
  <2>10. Within(a, Decide(c, mode).notional)
    BY <2>4, <2>8, <2>9
  <2>11. ViewOf(decision') = a /\ decision'.outcome.notional = Decide(c, mode).notional
    BY <2>1, <2>2 DEF ViewOf
  <2> HIDE DEF Within
  <2> QED BY <2>10, <2>11
<1>2. DInv /\ [Next]_vars =>
        ((Decided(decision') /\ decision'.outcome.approved
            /\ decision'.command.reason \in NewRisk) =>
          Within(ViewOf(decision'), decision'.outcome.notional))
  BY <1>1
<1> QED BY <1>2, DryRunInvariance, PTL DEF Spec, EntryWithinCaps

-----------------------------------------------------------------------------
(***************************************************************************)
(* LIVE: the limits.                                                       *)
(***************************************************************************)
Tighter(new, old) ==
  /\ new.perTradeFraction <= old.perTradeFraction
  /\ new.aggregateFraction <= old.aggregateFraction
  /\ new.perTradeCap <= old.perTradeCap
  /\ new.dailyLossCap <= old.dailyLossCap
  /\ new.maxEquity = old.maxEquity
  /\ new.aggregateCap <= old.aggregateCap
  /\ new.positionCap <= old.positionCap
  /\ new.minNotional >= old.minNotional

LimitsTypeOK ==
  /\ limits \in Limits
  /\ scope \in Nat
  /\ proposal \in [scope : Nat, limits : Limits]
  /\ equity \in Equities
  /\ evidence.equity \in Equities

PendingTightens ==
  /\ proposal.scope <= scope
  /\ proposal.scope = scope => Tighter(proposal.limits, limits)

-----------------------------------------------------------------------------
\* Rounding down to a grid stays within the grid's cell below.
LEMMA Rounded ==
  ASSUME NEW x \in Nat, NEW g \in Nat \ {0}
  PROVE  /\ FloorTo(x, g) \in Nat /\ FloorTo(x, g) <= x /\ x < FloorTo(x, g) + g
         /\ CeilTo(x, g) \in Nat /\ CeilTo(x, g) >= x
<1>1. ASSUME NEW y \in Nat
      PROVE  FloorTo(y, g) \in Nat /\ FloorTo(y, g) <= y /\ y < FloorTo(y, g) + g
  <2>1. y \div g \in Nat /\ y % g \in 0..(g - 1) /\ y = g * (y \div g) + (y % g)
    OBVIOUS
  <2> DEFINE k == y \div g
             r == y % g
  <2> HIDE DEF k, r
  <2>2. k * g \in Nat /\ k * g = g * k
    BY <2>1 DEF k
  <2> QED BY <2>1, <2>2 DEF FloorTo, k, r
<1>2. x + g - 1 \in Nat
  OBVIOUS
<1>3. FloorTo(x + g - 1, g) \in Nat /\ x + g - 1 < FloorTo(x + g - 1, g) + g
  BY <1>1, <1>2
<1> HIDE DEF FloorTo
<1> QED BY <1>1, <1>3 DEF CeilTo

\* A proposed ceiling is a number no larger than the current one.
LEMMA TightenedBelow ==
  ASSUME NEW cap \in Nat, NEW share \in Nat
  PROVE  Tightened(cap, share) \in Nat /\ Tightened(cap, share) <= cap
<1>1. Lesser(cap, share) \in Nat /\ Lesser(cap, share) <= cap
  BY DEF Lesser
<1>2. Cent \in Nat \ {0}
  BY LiveAssumption
<1>3. FloorTo(Lesser(cap, share), Cent) \in Nat
      /\ FloorTo(Lesser(cap, share), Cent) <= Lesser(cap, share)
  BY <1>1, <1>2, Rounded
<1> QED BY <1>1, <1>3 DEF Tightened

\* A part of an amount is a number.
LEMMA Share ==
  ASSUME NEW x \in Nat, NEW f \in Nat
  PROVE  (x * f) \div Whole \in Nat
<1>1. x * f \in Nat /\ Whole \in Nat \ {0}
  BY LiveAssumption
<1> QED BY <1>1

\* What a proposal holds tightens the limits it was computed from.
LEMMA ProposedTightens ==
  ASSUME LimitsTypeOK, NEW policy \in Policies, NEW m \in VenueMinimums,
         policy.perTrade <= limits.perTradeFraction,
         policy.aggregate <= limits.aggregateFraction
  PROVE  /\ ProposedLimits(policy, m) \in Limits
         /\ Tighter(ProposedLimits(policy, m), limits)
<1> DEFINE aggregate == Tightened(limits.aggregateCap, CapitalBasis)
<1>1. /\ policy.perTrade \in Nat /\ policy.aggregate \in Nat /\ policy.daily \in Nat
      /\ m \in Nat /\ FloatGrid \in Nat \ {0}
  BY LiveAssumption
<1>2. limits \in Limits
  BY DEF LimitsTypeOK
<1>3. CapitalBasis \in Nat
  BY <1>2, LiveAssumption DEF CapitalBasis, Lesser, LimitsTypeOK, Limits
<1>4. /\ Tightened(limits.perTradeCap, (CapitalBasis * policy.perTrade) \div Whole) \in Nat
      /\ Tightened(limits.perTradeCap, (CapitalBasis * policy.perTrade) \div Whole)
           <= limits.perTradeCap
  BY <1>1, <1>2, <1>3, Share, TightenedBelow DEF Limits
<1>5. /\ Tightened(limits.dailyLossCap, (CapitalBasis * policy.daily) \div Whole) \in Nat
      /\ Tightened(limits.dailyLossCap, (CapitalBasis * policy.daily) \div Whole)
           <= limits.dailyLossCap
  BY <1>1, <1>2, <1>3, Share, TightenedBelow DEF Limits
<1>6. aggregate \in Nat /\ aggregate <= limits.aggregateCap
  BY <1>2, <1>3, TightenedBelow DEF Limits
<1>7. /\ Tightened(limits.positionCap, aggregate) \in Nat
      /\ Tightened(limits.positionCap, aggregate) <= limits.positionCap
  BY <1>2, <1>6, TightenedBelow DEF Limits
<1>8. /\ Greater(m, limits.minNotional) \in Nat
      /\ Greater(m, limits.minNotional) >= limits.minNotional
      /\ limits.minNotional \in Nat
  BY <1>1, <1>2 DEF Greater, Limits
<1>9. /\ CeilTo(Greater(m, limits.minNotional), FloatGrid) \in Nat
      /\ CeilTo(Greater(m, limits.minNotional), FloatGrid)
           >= Greater(m, limits.minNotional)
  BY <1>1, <1>8, Rounded
<1>10. /\ CeilTo(Greater(m, limits.minNotional), FloatGrid) >= limits.minNotional
  BY <1>8, <1>9
<1>11. limits.maxEquity \in Nat
  BY <1>2 DEF Limits
<1> QED
  BY <1>1, <1>2, <1>4, <1>5, <1>6, <1>7, <1>9, <1>10, <1>11
  DEF ProposedLimits, Tighter, Limits

-----------------------------------------------------------------------------
LEMMA InitLimits == LiveInit => LimitsTypeOK /\ PendingTightens
<1> QED BY LiveAssumption DEF LiveInit, LimitsTypeOK, PendingTightens

LEMMA NextLimits ==
  ASSUME LimitsTypeOK, PendingTightens, [LiveNext]_liveVars
  PROVE  LimitsTypeOK' /\ PendingTightens'
<1>1. ASSUME NEW policy \in Policies, NEW m \in VenueMinimums, Propose(policy, m)
      PROVE  LimitsTypeOK' /\ PendingTightens'
  <2>1. /\ UNCHANGED <<limits, scope, equity, evidence>>
        /\ proposal' = [scope |-> scope, limits |-> ProposedLimits(policy, m)]
    BY <1>1 DEF Propose, ledger
  <2>2. /\ ProposedLimits(policy, m) \in Limits
        /\ Tighter(ProposedLimits(policy, m), limits)
    BY <1>1, ProposedTightens DEF Propose
  <2> HIDE DEF ProposedLimits
  <2> QED BY <2>1, <2>2 DEF LimitsTypeOK, PendingTightens
<1>2. CASE Rescope
  BY <1>2 DEF Rescope, ledger, LimitsTypeOK, PendingTightens
<1>3. CASE Capture
  BY <1>3 DEF Capture, authority, ledger, LimitsTypeOK, PendingTightens
<1>4. ASSUME NEW e \in Equities, Fund(e)
      PROVE  LimitsTypeOK' /\ PendingTightens'
  BY <1>4 DEF Fund, authority, LimitsTypeOK, PendingTightens
<1>5. CASE UNCHANGED <<authority, equity, evidence>>
  BY <1>5 DEF authority, LimitsTypeOK, PendingTightens
<1> QED
  BY <1>1, <1>2, <1>3, <1>4, <1>5
  DEF LiveNext, EvaluateLive, LiveTick, OpenIdea, EndIdea, liveVars, authority, ledger

\* No sequence of proposals and scopes, whatever the account did between the
\* proposal and the scope that takes it, relaxes a limit.
THEOREM LimitsTighten == LiveSpec => LimitsOnlyTighten
<1>1. LimitsTypeOK /\ PendingTightens /\ [LiveNext]_liveVars
        => [Tighter(limits', limits)]_liveVars
  <2> SUFFICES ASSUME LimitsTypeOK, PendingTightens, [LiveNext]_liveVars
               PROVE  Tighter(limits', limits) \/ UNCHANGED liveVars
    OBVIOUS
  <2>1. Tighter(limits, limits)
    BY DEF LimitsTypeOK, Limits, Tighter
  <2>2. CASE Rescope
    BY <2>2 DEF Rescope, PendingTightens
  <2>3. CASE UNCHANGED limits
    BY <2>1, <2>3
  <2> QED
    BY <2>2, <2>3
    DEF LiveNext, EvaluateLive, Propose, LiveTick, Capture, OpenIdea, EndIdea, Fund,
        liveVars, authority
<1>2. LimitsTypeOK /\ PendingTightens /\ [LiveNext]_liveVars
        => LimitsTypeOK' /\ PendingTightens'
  <2>1. CASE [LiveNext]_liveVars
    BY <2>1, NextLimits
  <2> QED BY <2>1
<1> QED
  BY <1>1, <1>2, InitLimits, PTL DEF LiveSpec, LimitsOnlyTighten, Tighter

-----------------------------------------------------------------------------
(***************************************************************************)
(* LIVE: what the evaluator charges and what it grants.                    *)
(***************************************************************************)
\* What is displayed is a number, and no less than what it displays.
LEMMA DisplayedAbove ==
  ASSUME NEW x \in Nat
  PROVE  Displayed(x) \in Nat /\ Displayed(x) >= x
BY Rounded, LiveAssumption DEF Displayed

LEMMA QuoteFields ==
  ASSUME NEW quote \in Quotes
  PROVE  /\ quote.entry \in Nat \ {0} /\ quote.depth \in Nat
         /\ quote.fees \in Nat /\ quote.slippage \in Nat
         /\ StopDistance(quote) \in Nat /\ UnitLoss(quote) \in Nat
<1>1. quote \in [entry : Nat \ {0}, stop : Nat, fees : Nat, slippage : Nat, depth : Nat]
  BY LiveAssumption
<1>2. StopDistance(quote) \in Nat
  BY <1>1 DEF StopDistance
<1> QED BY <1>1, <1>2 DEF UnitLoss


\* A quantity that is sized fits the budget and the ceiling, as displayed
\* (_size's corrections).
LEMMA SizedFits ==
  ASSUME NEW quote \in Quotes, NEW budget \in Nat, NEW cap \in Nat,
         NEW q, q = Sized(quote, budget, cap), q > 0
  PROVE  /\ q \in Nat \ {0}
         /\ DisplayedLoss(q, quote) \in Nat /\ DisplayedLoss(q, quote) <= budget
         /\ Displayed(q * quote.entry) \in Nat /\ Displayed(q * quote.entry) > 0
         /\ Displayed(q * quote.entry) <= cap
<1> DEFINE lots == IF UnitLoss(quote) = 0 THEN 0
                   ELSE Lesser(budget \div UnitLoss(quote), cap \div quote.entry)
           fitting == {n \in (lots - 2)..lots : n > 0 /\ Fits(n, quote, budget, cap)}
<1>1. lots \in Nat
  <2>1. CASE UnitLoss(quote) # 0
    <3>1. budget \div UnitLoss(quote) \in Nat /\ cap \div quote.entry \in Nat
      BY <2>1, QuoteFields
    <3> QED BY <2>1, <3>1 DEF Lesser
  <2> QED BY <2>1
<1>2. q = IF fitting = {} THEN 0 ELSE Max(fitting)
  BY DEF Sized
<1> HIDE DEF lots
<1>3. fitting # {} => \E x \in fitting : \A y \in fitting : x >= y
  <2>1. \A n \in fitting : n \in {lots - 2, lots - 1, lots}
    BY <1>1
  <2>2. CASE lots \in fitting
    BY <1>1, <2>1, <2>2
  <2>3. CASE lots \notin fitting /\ lots - 1 \in fitting
    BY <1>1, <2>1, <2>3
  <2>4. CASE lots \notin fitting /\ lots - 1 \notin fitting
    BY <1>1, <2>1, <2>4
  <2> QED BY <2>2, <2>3, <2>4
<1>4. q \in fitting
  BY <1>2, <1>3 DEF Max
<1>5. q \in Nat \ {0} /\ Fits(q, quote, budget, cap)
  BY <1>1, <1>4
<1>6. DisplayedLoss(q, quote) \in Nat
  <2>1. /\ q * StopDistance(quote) \in Nat /\ q * quote.fees \in Nat
        /\ q * quote.slippage \in Nat
    BY <1>5, QuoteFields, ProductNat
  <2>2. Displayed(q * quote.fees) \in Nat /\ Displayed(q * quote.slippage) \in Nat
    BY <2>1, DisplayedAbove
  <2>3. q * StopDistance(quote) + Displayed(q * quote.fees)
          + Displayed(q * quote.slippage) \in Nat
    BY <2>1, <2>2
  <2> QED BY <2>3, DisplayedAbove DEF DisplayedLoss
<1>7. q * quote.entry \in Nat /\ q * quote.entry > 0
  BY <1>5, QuoteFields, ProductNat
<1>8. Displayed(q * quote.entry) \in Nat /\ Displayed(q * quote.entry) > 0
  BY <1>7, DisplayedAbove
<1> QED BY <1>5, <1>6, <1>8 DEF Fits

-----------------------------------------------------------------------------
(***************************************************************************)
(* LIVE: the ledger and the evidence about it.                             *)
(***************************************************************************)
\* What the evidence and the reservations make the evaluator charge.
Charged == InState({"committed", "open", "over"}) \ evidence.over

Idea == [state : {"none", "committed", "open", "over"}, risk : Nat, notional : Nat]

\* Evidence tells what was true at its capture; an idea never goes back.
LedgerOK ==
  /\ ideas \in [LiveIdeas -> Idea]
  /\ adverse \in Nat /\ evidence.adverse \in Nat
  /\ evidence.open \subseteq InState({"open", "over"})
  /\ evidence.over \subseteq InState({"over"})
  /\ evidence.open \cap evidence.over = {}

\* Whatever was lost or ended since the evidence is still charged.
Accounted == adverse + RiskOn(AtRisk) <= evidence.adverse + RiskOn(Charged)

LiveInv ==
  /\ LimitsTypeOK
  /\ PendingTightens
  /\ limits.dailyLossCap <= FirstLimits.dailyLossCap
  /\ LedgerOK
  /\ Accounted
  /\ DailyLossBounded

\* The charges, open and reserved, are those of the ideas not known to be over,
\* and cover every idea at risk.
LEMMA ChargedFacts ==
  ASSUME LedgerOK
  PROVE  /\ IsFiniteSet(Charged) /\ Charged \subseteq LiveIdeas
         /\ IsFiniteSet(AtRisk) /\ AtRisk \subseteq Charged
         /\ RiskOn(Charged) = OpenRisk + ReservedRisk
         /\ NotionalOn(Charged) = UsedNotional
         /\ OpenRisk \in Nat /\ ReservedRisk \in Nat /\ UsedNotional \in Nat
         /\ RiskOn(AtRisk) \in Nat /\ RiskOn(AtRisk) <= RiskOn(Charged)
         /\ NotionalOn(AtRisk) \in Nat /\ NotionalOn(AtRisk) <= NotionalOn(Charged)
<1> DEFINE open == evidence.open
           risk == [i \in LiveIdeas |-> ideas[i].risk]
           notional == [i \in LiveIdeas |-> ideas[i].notional]
<1>1. IsFiniteSet(LiveIdeas)
  BY LiveAssumption
<1>2. Charged \subseteq LiveIdeas /\ IsFiniteSet(Charged)
  BY <1>1, FS_Subset DEF Charged, InState
<1>3. AtRisk \subseteq Charged /\ IsFiniteSet(AtRisk)
  <2>1. AtRisk \subseteq Charged
    BY DEF AtRisk, Charged, InState, LedgerOK
  <2> QED BY <1>2, <2>1, FS_Subset
<1>4. \A i \in LiveIdeas : risk[i] \in Nat /\ notional[i] \in Nat
  BY DEF LedgerOK, Idea
<1>5. open \in SUBSET Charged /\ Unrepresented = Charged \ open
      /\ Charged = open \cup Unrepresented
  BY DEF Unrepresented, Charged, InState, LedgerOK
<1> HIDE DEF risk, notional, open
<1>6. \A S \in SUBSET LiveIdeas : /\ RiskOn(S) = Total(risk, S)
                                  /\ NotionalOn(S) = Total(notional, S)
  BY DEF RiskOn, NotionalOn, risk, notional
<1>7. /\ Total(risk, Charged) = Total(risk, open) + Total(risk, Charged \ open)
      /\ Total(risk, open) \in Nat /\ Total(risk, Charged \ open) \in Nat
  <2>1. \A i \in Charged : risk[i] \in Nat
    BY <1>2, <1>4
  <2> QED BY <1>2, <1>5, <2>1, TotalSplit
<1>8. RiskOn(Charged) = OpenRisk + ReservedRisk /\ OpenRisk \in Nat /\ ReservedRisk \in Nat
  BY <1>2, <1>5, <1>6, <1>7 DEF OpenRisk, ReservedRisk, open
<1>9. /\ Total(notional, Charged) \in Nat
      /\ NotionalOn(Charged) = UsedNotional /\ UsedNotional \in Nat
  <2>1. \A i \in Charged : notional[i] \in Nat
    BY <1>2, <1>4
  <2>2. Total(notional, Charged) \in Nat
    BY <1>2, <2>1, TotalType
  <2> QED BY <1>2, <1>5, <1>6, <2>2 DEF UsedNotional, open
<1>10. /\ RiskOn(AtRisk) \in Nat /\ RiskOn(AtRisk) <= RiskOn(Charged)
       /\ NotionalOn(AtRisk) \in Nat /\ NotionalOn(AtRisk) <= NotionalOn(Charged)
  <2>1. \A i \in Charged : risk[i] \in Nat /\ notional[i] \in Nat
    BY <1>2, <1>4
  <2>2. Total(risk, AtRisk) \in Nat /\ Total(notional, AtRisk) \in Nat
    BY <1>3, <2>1, TotalType
  <2>3. \A i \in AtRisk : /\ risk[i] \in Nat /\ risk[i] <= risk[i]
                          /\ notional[i] \in Nat /\ notional[i] <= notional[i]
    BY <1>3, <2>1
  <2>4. Total(risk, AtRisk) <= Total(risk, Charged)
    BY <1>2, <1>3, <2>1, <2>3, TotalMonotone
  <2>5. Total(notional, AtRisk) <= Total(notional, Charged)
    BY <1>2, <1>3, <2>1, <2>3, TotalMonotone
  <2>6. AtRisk \in SUBSET LiveIdeas /\ Charged \in SUBSET LiveIdeas
    BY <1>2, <1>3
  <2> QED BY <1>6, <2>2, <2>4, <2>5, <2>6
<1> QED BY <1>2, <1>3, <1>8, <1>9, <1>10

\* An approval fits what the charges leave under each ceiling (evaluate, _size).
LEMMA Granted ==
  ASSUME LimitsTypeOK, LedgerOK, NEW i \in LiveIdeas, NEW quote \in Quotes,
         NEW alloc \in Allocations, EvaluateLive(i, quote, alloc)
  PROVE  \E risk, notional \in Nat :
           /\ ideas' = [ideas EXCEPT ![i] = [state |-> "committed", risk |-> risk,
                                            notional |-> notional]]
           /\ evidence.adverse + RiskOn(Charged) + risk <= limits.dailyLossCap
           /\ (RiskOn(Charged) + risk) * Whole
                <= evidence.equity * limits.aggregateFraction
           /\ NotionalOn(Charged) + notional <= limits.aggregateCap
<1> DEFINE budget == LiveLossBudget
           cap == NotionalCeiling(quote, alloc)
           q == Sized(quote, budget, cap)
           risk == DisplayedLoss(q, quote)
           notional == Displayed(q * quote.entry)
<1>1. /\ limits \in Limits /\ evidence.equity \in Nat /\ evidence.adverse \in Nat
      /\ Whole \in Nat \ {0} /\ FloatGrid \in Nat \ {0}
      /\ alloc.gross \in Nat /\ alloc.weight \in Nat
  <2>1. /\ Whole \in Nat \ {0} /\ FloatGrid \in Nat \ {0} /\ Equities \subseteq Nat
        /\ alloc \in [gross : 0..Whole, weight : 0..Whole]
    BY LiveAssumption
  <2>2. alloc.gross \in Nat /\ alloc.weight \in Nat
    BY <2>1
  <2> QED BY <2>1, <2>2 DEF LimitsTypeOK, LedgerOK
<1>2. /\ OpenRisk \in Nat /\ ReservedRisk \in Nat /\ UsedNotional \in Nat
      /\ RiskOn(Charged) = OpenRisk + ReservedRisk
      /\ NotionalOn(Charged) = UsedNotional
  BY ChargedFacts
<1>3. ASSUME NEW a \in Nat, NEW b \in Nat
      PROVE  /\ Room(a, b) \in Nat
             /\ \A x \in Nat : x > 0 /\ x <= Room(a, b) => b + x <= a
  BY DEF Room, Greater
<1>4. /\ evidence.equity * limits.aggregateFraction \in Nat
      /\ (OpenRisk + ReservedRisk) * Whole \in Nat
      /\ evidence.equity * limits.perTradeFraction \in Nat
      /\ limits.dailyLossCap \in Nat /\ limits.perTradeCap \in Nat
      /\ limits.aggregateCap \in Nat /\ limits.positionCap \in Nat
  BY <1>1, <1>2, ProductNat DEF Limits
<1> DEFINE share == Room(evidence.equity * limits.aggregateFraction,
                         (OpenRisk + ReservedRisk) * Whole)
<1>5. share \in Nat
  BY <1>3, <1>4
<1>6. AggregateRoom \in Nat /\ AggregateRoom * Whole <= share
  <2>1. AggregateRoom = share \div Whole
    BY DEF AggregateRoom
  <2> HIDE DEF share
  <2>2. FloorTo(share, Whole) \in Nat /\ FloorTo(share, Whole) <= share
    BY <1>1, <1>5, Rounded
  <2> QED BY <1>1, <1>5, <2>1, <2>2 DEF FloorTo
<1>7. /\ DailyRoom \in Nat
      /\ DailyRoom > 0 =>
           evidence.adverse + OpenRisk + ReservedRisk + DailyRoom <= limits.dailyLossCap
  <2> DEFINE used == evidence.adverse + OpenRisk + ReservedRisk
  <2>1. used \in Nat /\ DailyRoom = Room(limits.dailyLossCap, used)
    BY <1>1, <1>2 DEF DailyRoom
  <2> HIDE DEF used
  <2>2. DailyRoom \in Nat /\ (DailyRoom > 0 => used + DailyRoom <= limits.dailyLossCap)
    BY <1>4, <2>1 DEF Room, Greater
  <2> QED BY <2>2 DEF used
<1>8. budget \in Nat /\ budget <= AggregateRoom /\ budget <= DailyRoom
  <2> DEFINE m == Min({(evidence.equity * limits.perTradeFraction) \div Whole,
                       limits.perTradeCap, AggregateRoom, DailyRoom})
  <2>1. (evidence.equity * limits.perTradeFraction) \div Whole \in Nat
    BY <1>1, <1>4
  <2>2. m \in Nat /\ m <= AggregateRoom /\ m <= DailyRoom
    BY <1>4, <1>6, <1>7, <2>1, MinOfFour
  <2>3. budget = FloorTo(m, FloatGrid)
    BY DEF LiveLossBudget
  <2> HIDE DEF m, budget
  <2>4. FloorTo(m, FloatGrid) \in Nat /\ FloorTo(m, FloatGrid) <= m
    BY <1>1, <2>2, Rounded
  <2> QED BY <1>6, <1>7, <2>2, <2>3, <2>4
<1>9. cap \in Nat /\ cap <= Room(limits.aggregateCap, UsedNotional)
  <2>1. /\ (evidence.equity * alloc.gross) \div Whole \in Nat
        /\ (evidence.equity * alloc.weight) \div Whole \in Nat
    BY <1>1, Share
  <2>2. /\ Room(limits.aggregateCap, UsedNotional) \in Nat
        /\ Room(evidence.equity, UsedNotional) \in Nat
        /\ Room((evidence.equity * alloc.gross) \div Whole, UsedNotional) \in Nat
        /\ Room((evidence.equity * alloc.weight) \div Whole, UsedNotional) \in Nat
    BY <1>1, <1>2, <1>3, <1>4, <2>1
  <2> QED BY <1>4, <2>2, QuoteFields, MinOfSix DEF NotionalCeiling
<1>10. /\ q > 0 /\ budget > 0
       /\ ideas' = [ideas EXCEPT ![i] = [state |-> "committed", risk |-> risk,
                                        notional |-> notional]]
       /\ AggregateRoom > 0 /\ DailyRoom > 0
  BY DEF EvaluateLive, Admitted
<1> HIDE DEF budget, cap
<1>11. /\ risk \in Nat /\ risk <= budget
       /\ notional \in Nat /\ notional > 0 /\ notional <= cap
  BY <1>8, <1>9, <1>10, SizedFits
<1> HIDE DEF q, risk, notional
<1>12. evidence.adverse + RiskOn(Charged) + risk <= limits.dailyLossCap
  BY <1>1, <1>2, <1>4, <1>7, <1>8, <1>10, <1>11
<1>13. (RiskOn(Charged) + risk) * Whole <= evidence.equity * limits.aggregateFraction
  <2>1. risk <= AggregateRoom
    BY <1>6, <1>8, <1>11
  <2>2. risk * Whole <= AggregateRoom * Whole /\ AggregateRoom * Whole > 0
        /\ AggregateRoom * Whole \in Nat /\ risk * Whole \in Nat
    BY <1>1, <1>6, <1>10, <1>11, <2>1
  <2>3. share > 0
    BY <1>5, <1>6, <2>2
  <2>4. (OpenRisk + ReservedRisk) * Whole + share
          <= evidence.equity * limits.aggregateFraction
    BY <1>3, <1>4, <1>5, <2>3
  <2> HIDE DEF share
  <2>5. (RiskOn(Charged) + risk) * Whole = (OpenRisk + ReservedRisk) * Whole + risk * Whole
    BY <1>1, <1>2, <1>11
  <2> QED BY <1>4, <1>5, <1>6, <2>2, <2>4, <2>5
<1>14. NotionalOn(Charged) + notional <= limits.aggregateCap
  <2>1. Room(limits.aggregateCap, UsedNotional) \in Nat
    BY <1>2, <1>3, <1>4
  <2>2. notional <= Room(limits.aggregateCap, UsedNotional)
    BY <1>9, <1>11, <2>1
  <2> QED BY <1>2, <1>3, <1>4, <1>11, <2>2
<1> QED BY <1>10, <1>11, <1>12, <1>13, <1>14

\* An approval adds one idea, at its risk and notional, to what is at risk and to
\* what is charged.
LEMMA ApprovalAdds ==
  ASSUME LedgerOK, NEW i \in LiveIdeas, ideas[i] = NoIdea, UNCHANGED evidence,
         NEW risk \in Nat, NEW notional \in Nat,
         ideas' = [ideas EXCEPT ![i] = [state |-> "committed", risk |-> risk,
                                       notional |-> notional]]
  PROVE  /\ ideas' \in [LiveIdeas -> Idea]
         /\ \A S \in SUBSET {"open", "over"} : InState(S)' = InState(S)
         /\ RiskOn(AtRisk)' = RiskOn(AtRisk) + risk
         /\ RiskOn(Charged)' = RiskOn(Charged) + risk
         /\ NotionalOn(AtRisk)' = NotionalOn(AtRisk) + notional
<1>1. /\ ideas \in [LiveIdeas -> Idea] /\ ideas[i].state = "none"
      /\ ideas'[i].state = "committed"
      /\ ideas'[i].risk = risk /\ ideas'[i].notional = notional
      /\ \A k \in LiveIdeas \ {i} : ideas'[k] = ideas[k]
      /\ ideas' \in [LiveIdeas -> Idea]
  BY DEF LedgerOK, NoIdea, Idea
<1>2. \A S \in SUBSET {"open", "over"} : InState(S)' = InState(S)
  BY <1>1 DEF InState
<1>3. /\ AtRisk' = AtRisk \cup {i} /\ i \notin AtRisk
      /\ Charged' = Charged \cup {i} /\ i \notin Charged
  BY <1>1 DEF AtRisk, Charged, InState, LedgerOK
<1>4. /\ IsFiniteSet(Charged) /\ IsFiniteSet(AtRisk)
      /\ Charged \subseteq LiveIdeas /\ AtRisk \subseteq LiveIdeas
  BY ChargedFacts
<1> DEFINE a == [k \in LiveIdeas |-> ideas[k].risk]
           b == [k \in LiveIdeas |-> ideas'[k].risk]
           c == [k \in LiveIdeas |-> ideas[k].notional]
           d == [k \in LiveIdeas |-> ideas'[k].notional]
<1>5. /\ \A k \in LiveIdeas : k # i => /\ a[k] \in Nat /\ b[k] = a[k]
                                       /\ c[k] \in Nat /\ d[k] = c[k]
      /\ b[i] = risk /\ d[i] = notional
  BY <1>1 DEF Idea
<1>6. /\ RiskOn(AtRisk) = Total(a, AtRisk) /\ RiskOn(Charged) = Total(a, Charged)
      /\ NotionalOn(AtRisk) = Total(c, AtRisk)
      /\ RiskOn(AtRisk)' = Total(b, AtRisk \cup {i})
      /\ RiskOn(Charged)' = Total(b, Charged \cup {i})
      /\ NotionalOn(AtRisk)' = Total(d, AtRisk \cup {i})
  BY <1>3 DEF RiskOn, NotionalOn
<1> HIDE DEF a, b, c, d
<1>7. \A k \in AtRisk : a[k] \in Nat /\ b[k] = a[k]
  BY <1>3, <1>4, <1>5
<1>8. \A k \in Charged : a[k] \in Nat /\ b[k] = a[k]
  BY <1>3, <1>4, <1>5
<1>9. \A k \in AtRisk : c[k] \in Nat /\ d[k] = c[k]
  BY <1>3, <1>4, <1>5
<1>10. b[i] \in Nat /\ d[i] \in Nat
  BY <1>5
<1>11. Total(b, AtRisk \cup {i}) = Total(a, AtRisk) + b[i]
  BY <1>3, <1>4, <1>7, <1>10, TotalAdds
<1>12. Total(b, Charged \cup {i}) = Total(a, Charged) + b[i]
  BY <1>3, <1>4, <1>8, <1>10, TotalAdds
<1>13. Total(d, AtRisk \cup {i}) = Total(c, AtRisk) + d[i]
  BY <1>3, <1>4, <1>9, <1>10, TotalAdds
<1> QED BY <1>1, <1>2, <1>5, <1>6, <1>11, <1>12, <1>13

\* An idea ends with nothing, or with a loss of what it put at risk.
LEMMA EndingMoves ==
  ASSUME LedgerOK, NEW i \in LiveIdeas, EndIdea(i)
  PROVE  /\ ideas' \in [LiveIdeas -> Idea] /\ adverse' \in Nat
         /\ \A S \in SUBSET {"open", "over"} : "over" \in S => InState(S) \subseteq InState(S)'
         /\ RiskOn(AtRisk)' \in Nat
         /\ adverse' + RiskOn(AtRisk)' <= adverse + RiskOn(AtRisk)
         /\ RiskOn(Charged)' = RiskOn(Charged)
<1>1. /\ ideas' = [ideas EXCEPT ![i].state = "over"] /\ UNCHANGED evidence
      /\ i \in AtRisk /\ adverse' \in {adverse, adverse + ideas[i].risk}
  BY DEF EndIdea
<1>2. /\ ideas \in [LiveIdeas -> Idea] /\ ideas' \in [LiveIdeas -> Idea]
      /\ ideas'[i].state = "over" /\ ideas[i].risk \in Nat
      /\ \A k \in LiveIdeas \ {i} : ideas'[k] = ideas[k]
      /\ \A k \in LiveIdeas : ideas'[k].risk = ideas[k].risk
  BY <1>1 DEF LedgerOK, Idea
<1>3. /\ AtRisk' = AtRisk \ {i} /\ Charged' = Charged
      /\ \A S \in SUBSET {"open", "over"} : "over" \in S => InState(S) \subseteq InState(S)'
  BY <1>1, <1>2 DEF AtRisk, Charged, InState
<1> DEFINE a == [k \in LiveIdeas |-> ideas[k].risk]
<1>4. /\ RiskOn(Charged)' = RiskOn(Charged)
      /\ RiskOn(AtRisk) = Total(a, AtRisk) /\ RiskOn(AtRisk)' = Total(a, AtRisk \ {i})
      /\ a[i] = ideas[i].risk /\ \A k \in LiveIdeas : a[k] \in Nat
  BY <1>2, <1>3 DEF RiskOn, Idea
<1>5. IsFiniteSet(AtRisk) /\ AtRisk \subseteq LiveIdeas
  BY ChargedFacts
<1> HIDE DEF a
<1>6. /\ Total(a, AtRisk) = Total(a, {i}) + Total(a, AtRisk \ {i})
      /\ Total(a, AtRisk \ {i}) \in Nat
  <2>1. {i} \in SUBSET AtRisk /\ \A k \in AtRisk : a[k] \in Nat
    BY <1>1, <1>4, <1>5
  <2> QED BY <1>5, <2>1, TotalSplit
<1>7. Total(a, {i}) = ideas[i].risk
  BY <1>4, TotalSingle
<1>8. adverse \in Nat
  BY DEF LedgerOK
<1> QED BY <1>1, <1>2, <1>3, <1>4, <1>6, <1>7, <1>8

LEMMA InitLedger ==
  ASSUME LiveInit
  PROVE  LiveInv
<1>1. LimitsTypeOK /\ PendingTightens
  BY InitLimits
<1>2. /\ ideas = [i \in LiveIdeas |-> NoIdea] /\ adverse = 0 /\ evidence.adverse = 0
      /\ evidence.open = {} /\ evidence.over = {} /\ limits = FirstLimits
  BY DEF LiveInit
<1>3. LedgerOK
  BY <1>2 DEF LedgerOK, NoIdea, Idea
<1>4. AtRisk = {} /\ Charged = {}
  BY <1>2 DEF AtRisk, Charged, InState, NoIdea
<1>5. RiskOn({}) = 0
  BY TotalEmpty DEF RiskOn
<1>6. FirstLimits.dailyLossCap \in Nat
  BY LiveAssumption DEF Limits
<1> QED BY <1>1, <1>2, <1>3, <1>4, <1>5, <1>6 DEF LiveInv, Accounted, DailyLossBounded

\* Steps that change nothing but the clock, the equity and the limits.
LEMMA LedgerFrame ==
  ASSUME LedgerOK, Accounted, DailyLossBounded, UNCHANGED <<ideas, adverse>>,
         UNCHANGED evidence
  PROVE  LedgerOK' /\ Accounted' /\ DailyLossBounded'
<1>1. /\ AtRisk' = AtRisk /\ Charged' = Charged
      /\ \A S : RiskOn(S)' = RiskOn(S) /\ InState(S)' = InState(S)
  BY DEF AtRisk, Charged, InState, RiskOn
<1> QED BY <1>1 DEF LedgerOK, Accounted, DailyLossBounded

LEMMA NextLedger ==
  ASSUME LiveInv, [LiveNext]_liveVars
  PROVE  LiveInv'
<1>1. LimitsTypeOK' /\ PendingTightens'
  BY NextLimits DEF LiveInv
<1>2. /\ LimitsTypeOK /\ PendingTightens /\ LedgerOK /\ Accounted /\ DailyLossBounded
      /\ limits.dailyLossCap <= FirstLimits.dailyLossCap
      /\ limits.dailyLossCap \in Nat /\ FirstLimits.dailyLossCap \in Nat
  BY LiveAssumption DEF LiveInv, LimitsTypeOK, Limits
<1>3. ASSUME LedgerOK', Accounted', DailyLossBounded', UNCHANGED limits
      PROVE  LiveInv'
  BY <1>1, <1>2, <1>3 DEF LiveInv
<1>4. ASSUME NEW i \in LiveIdeas, NEW quote \in Quotes, NEW alloc \in Allocations,
             EvaluateLive(i, quote, alloc)
      PROVE  LiveInv'
  <2>1. PICK risk \in Nat, notional \in Nat :
          /\ ideas' = [ideas EXCEPT ![i] = [state |-> "committed", risk |-> risk,
                                           notional |-> notional]]
          /\ evidence.adverse + RiskOn(Charged) + risk <= limits.dailyLossCap
    BY <1>2, <1>4, Granted
  <2>2. ideas[i] = NoIdea /\ UNCHANGED <<limits, adverse, evidence>>
    BY <1>4 DEF EvaluateLive, authority
  <2>3. /\ ideas' \in [LiveIdeas -> Idea]
        /\ \A S \in SUBSET {"open", "over"} : InState(S)' = InState(S)
        /\ RiskOn(AtRisk)' = RiskOn(AtRisk) + risk
        /\ RiskOn(Charged)' = RiskOn(Charged) + risk
    BY <1>2, <2>1, <2>2, ApprovalAdds
  <2>4. /\ RiskOn(AtRisk) \in Nat /\ RiskOn(Charged) \in Nat
        /\ adverse \in Nat /\ evidence.adverse \in Nat
    BY <1>2, ChargedFacts DEF LedgerOK
  <2>5. LedgerOK'
    BY <1>2, <2>2, <2>3 DEF LedgerOK
  <2>6. Accounted'
    BY <1>2, <2>2, <2>3, <2>4 DEF Accounted
  <2>7. DailyLossBounded'
    BY <1>2, <2>1, <2>2, <2>3, <2>4 DEF Accounted, DailyLossBounded
  <2> QED BY <1>3, <2>2, <2>5, <2>6, <2>7
<1>5. CASE Rescope
  <2>1. LedgerOK' /\ Accounted' /\ DailyLossBounded'
    BY <1>2, <1>5, LedgerFrame DEF Rescope, ledger
  <2>2. limits'.dailyLossCap <= limits.dailyLossCap /\ limits'.dailyLossCap \in Nat
    BY <1>1, <1>2, <1>5 DEF Rescope, PendingTightens, Tighter, LimitsTypeOK, Limits
  <2> QED BY <1>1, <1>2, <2>1, <2>2 DEF LiveInv
<1>6. CASE Capture
  <2>1. /\ UNCHANGED <<limits, ideas, adverse>>
        /\ evidence'.adverse = adverse
        /\ evidence'.open = InState({"open"}) /\ evidence'.over = InState({"over"})
    BY <1>6 DEF Capture, authority, ledger
  <2>2. /\ AtRisk' = AtRisk /\ \A S : RiskOn(S)' = RiskOn(S) /\ InState(S)' = InState(S)
    BY <2>1 DEF AtRisk, InState, RiskOn
  <2>3. Charged' = AtRisk
    BY <2>1 DEF AtRisk, Charged, InState
  <2>4. LedgerOK'
    BY <1>2, <2>1 DEF LedgerOK, InState
  <2>5. RiskOn(AtRisk) \in Nat /\ adverse \in Nat
    BY <1>2, ChargedFacts DEF LedgerOK
  <2>6. Accounted' /\ DailyLossBounded'
    BY <1>2, <2>1, <2>2, <2>3, <2>5 DEF Accounted, DailyLossBounded
  <2> QED BY <1>3, <2>1, <2>4, <2>6
<1>7. ASSUME NEW i \in LiveIdeas, OpenIdea(i)
      PROVE  LiveInv'
  <2>1. /\ ideas' = [ideas EXCEPT ![i].state = "open"] /\ ideas[i].state = "committed"
        /\ UNCHANGED <<limits, adverse, evidence>>
    BY <1>7 DEF OpenIdea, authority
  <2>2. /\ ideas' \in [LiveIdeas -> Idea] /\ ideas'[i].state = "open"
        /\ \A k \in LiveIdeas \ {i} : ideas'[k] = ideas[k]
        /\ \A k \in LiveIdeas : ideas'[k].risk = ideas[k].risk
    BY <1>2, <2>1 DEF LedgerOK, Idea
  <2>3. LedgerOK'
    BY <1>2, <2>1, <2>2 DEF LedgerOK, InState
  <2>4. /\ AtRisk' = AtRisk /\ Charged' = Charged /\ \A S : RiskOn(S)' = RiskOn(S)
    BY <2>1, <2>2 DEF AtRisk, Charged, InState, RiskOn
  <2>5. Accounted' /\ DailyLossBounded'
    BY <1>2, <2>1, <2>4 DEF Accounted, DailyLossBounded
  <2> QED BY <1>3, <2>1, <2>3, <2>5
<1>8. ASSUME NEW i \in LiveIdeas, EndIdea(i)
      PROVE  LiveInv'
  <2>1. /\ ideas' \in [LiveIdeas -> Idea] /\ adverse' \in Nat
        /\ \A S \in SUBSET {"open", "over"} : "over" \in S => InState(S) \subseteq InState(S)'
        /\ RiskOn(AtRisk)' \in Nat
        /\ adverse' + RiskOn(AtRisk)' <= adverse + RiskOn(AtRisk)
        /\ RiskOn(Charged)' = RiskOn(Charged)
    BY <1>2, <1>8, EndingMoves
  <2>2. UNCHANGED <<limits, evidence>>
    BY <1>8 DEF EndIdea, authority
  <2>3. LedgerOK'
    BY <1>2, <2>1, <2>2 DEF LedgerOK
  <2>4. /\ RiskOn(AtRisk)' \in Nat /\ RiskOn(AtRisk) \in Nat /\ RiskOn(Charged) \in Nat
        /\ adverse \in Nat /\ evidence.adverse \in Nat
    BY <1>2, <2>1, ChargedFacts DEF LedgerOK
  <2>5. Accounted' /\ DailyLossBounded'
    BY <1>2, <2>1, <2>2, <2>4 DEF Accounted, DailyLossBounded
  <2> QED BY <1>3, <2>2, <2>3, <2>5
<1>9. CASE UNCHANGED <<limits, ideas, adverse, evidence>>
  BY <1>2, <1>3, <1>9, LedgerFrame
<1> QED
  BY <1>4, <1>5, <1>6, <1>7, <1>8, <1>9
  DEF LiveNext, Propose, LiveTick, Fund, liveVars, authority, ledger

LEMMA LedgerInvariance == LiveSpec => []LiveInv
<1>1. LiveInit => LiveInv
  BY InitLedger
<1>2. LiveInv /\ [LiveNext]_liveVars => LiveInv'
  BY NextLedger
<1> QED BY <1>1, <1>2, PTL DEF LiveSpec

\* However old the evidence, what was lost on the day and what is still at risk
\* never exceed the first scope's daily cap (evaluate's daily_room).
THEOREM DailyLoss == LiveSpec => []DailyLossBounded
<1>1. LiveInv => DailyLossBounded
  BY DEF LiveInv
<1> QED BY <1>1, LedgerInvariance, PTL

\* An approval leaves everything at risk within the ceilings in force, as
\* displayed and for whatever happened since the evidence (_size, evaluate).
THEOREM CeilingsHold == LiveSpec => CeilingsHoldAtApproval
<1> DEFINE WithinCeilings ==
             /\ adverse' + RiskOn(AtRisk)' <= limits.dailyLossCap
             /\ RiskOn(AtRisk)' * Whole <= evidence.equity * limits.aggregateFraction
             /\ NotionalOn(AtRisk)' <= limits.aggregateCap
<1>1. ASSUME LiveInv, [LiveNext]_liveVars, InState({"none"}) # InState({"none"})'
      PROVE  WithinCeilings
  <2>1. ideas \in [LiveIdeas -> Idea] /\ LimitsTypeOK /\ LedgerOK /\ Accounted
    BY <1>1 DEF LiveInv, LedgerOK
  <2>2. ASSUME UNCHANGED ideas PROVE FALSE
    BY <1>1, <2>2 DEF InState
  <2>3. ASSUME NEW i \in LiveIdeas, OpenIdea(i) \/ EndIdea(i) PROVE FALSE
    BY <1>1, <2>1, <2>3 DEF OpenIdea, EndIdea, AtRisk, InState, Idea
  <2>4. ASSUME NEW i \in LiveIdeas, NEW quote \in Quotes, NEW alloc \in Allocations,
               EvaluateLive(i, quote, alloc)
        PROVE  WithinCeilings
    <3>1. PICK risk \in Nat, notional \in Nat :
            /\ ideas' = [ideas EXCEPT ![i] = [state |-> "committed", risk |-> risk,
                                             notional |-> notional]]
            /\ evidence.adverse + RiskOn(Charged) + risk <= limits.dailyLossCap
            /\ (RiskOn(Charged) + risk) * Whole
                 <= evidence.equity * limits.aggregateFraction
            /\ NotionalOn(Charged) + notional <= limits.aggregateCap
      BY <2>1, <2>4, Granted
    <3>2. ideas[i] = NoIdea /\ UNCHANGED <<adverse, evidence>>
      BY <2>4 DEF EvaluateLive
    <3>3. /\ RiskOn(AtRisk)' = RiskOn(AtRisk) + risk
          /\ NotionalOn(AtRisk)' = NotionalOn(AtRisk) + notional
      BY <2>1, <3>1, <3>2, ApprovalAdds
    <3>4. /\ RiskOn(AtRisk) \in Nat /\ RiskOn(AtRisk) <= RiskOn(Charged)
          /\ NotionalOn(AtRisk) \in Nat /\ NotionalOn(AtRisk) <= NotionalOn(Charged)
          /\ RiskOn(Charged) \in Nat /\ NotionalOn(Charged) \in Nat
          /\ adverse \in Nat /\ evidence.adverse \in Nat
          /\ Whole \in Nat /\ limits.dailyLossCap \in Nat /\ limits.aggregateCap \in Nat
      BY <2>1, ChargedFacts, LiveAssumption DEF LedgerOK, LimitsTypeOK, Limits
    <3>5. (RiskOn(AtRisk) + risk) * Whole <= (RiskOn(Charged) + risk) * Whole
      BY <3>4
    <3>6. evidence.equity * limits.aggregateFraction \in Nat
      <4>1. evidence.equity \in Nat /\ limits.aggregateFraction \in Nat
        BY <2>1, LiveAssumption DEF LimitsTypeOK, Limits
      <4> QED BY <4>1
    <3>7. (RiskOn(AtRisk) + risk) * Whole <= evidence.equity * limits.aggregateFraction
      BY <3>1, <3>4, <3>5, <3>6
    <3> QED BY <2>1, <3>1, <3>2, <3>3, <3>4, <3>7 DEF Accounted
  <2> QED
    BY <1>1, <2>2, <2>3, <2>4
    DEF LiveNext, Propose, Rescope, LiveTick, Capture, Fund, liveVars, ledger
<1>2. LiveInv /\ [LiveNext]_liveVars =>
        [InState({"none"}) # InState({"none"})' => WithinCeilings]_liveVars
  BY <1>1
<1> QED BY <1>2, LedgerInvariance, PTL DEF LiveSpec, CeilingsHoldAtApproval
=============================================================================
