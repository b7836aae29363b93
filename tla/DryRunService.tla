---------------------------- MODULE DryRunService ----------------------------
(***************************************************************************)
(* The DRY_RUN service (service.py): the account and the allocation        *)
(* consumers, and the command handler that decides with what they left.    *)
(*                                                                         *)
(* Both consumers and the decision run without an await, so each is one    *)
(* action; the messages come in any order, repeat, and contradict each     *)
(* other.  Between the decision and its publication with the ack the       *)
(* consumers may run.  Restarts are not modelled: memory starts over.      *)
(***************************************************************************)
EXTENDS DryRunPipeline

CONSTANTS
  Commands,            \* tactical commands
  AllowedSymbols,      \* the symbols that settings allow
  AccountMessages,     \* account snapshots that may be delivered
  AllocationMessages,  \* strategic allocations that may be delivered
  Modes,               \* system modes
  AccountMaxAge,       \* account_snapshot_max_age_s
  AllocationMaxAge,    \* strategic_allocation_max_age_s
  NoSnapshot,          \* account_snapshot is None
  Fallback,            \* content of the account assumed in development
  NoDecision,          \* no command is being handled
  MaxTime              \* bound on the clock

AccountKinds == {"malformed", "unreconciled", "mismatched", "good"}
AllocationKinds == {"malformed", "good"}

ASSUME ServiceAssumption ==
  /\ \A m \in AccountMessages : m.at \in Nat /\ m.kind \in AccountKinds
  /\ \A m \in AllocationMessages : m.at \in Nat /\ m.kind \in AllocationKinds
  /\ \A m \in AccountMessages : [at |-> m.at, content |-> m.content] # NoSnapshot
  /\ \A m \in AllocationMessages :
       [at |-> m.at, policy |-> m.policy] # NoAllocation /\ m.policy # NoAllocation
  /\ AllowedSymbols \subseteq Symbols
  /\ \A c \in Commands : c.price \in Int /\ c.leverage \in Int
  /\ \A m \in AllocationMessages : m.policy.reserve \in Int /\ m.policy.maxLeverage \in Int
  /\ \A content \in {m.content : m \in AccountMessages} \cup {Fallback} :
       /\ content.equity \in Nat /\ content.peak \in Nat /\ content.loss \in Int
       /\ \A s \in Symbols : /\ content.positions[s].qty \in Int
                             /\ content.positions[s].mark \in Nat

VARIABLES
  settings,        \* require_reconciled_account, require_strategic_allocation
  now,             \* UTC
  snapshot,        \* account_snapshot
  latestCaptured,  \* _latest_account_captured_at, -1 when None
  account,         \* account: content of the last good snapshot or Fallback
  allocation,      \* strategic_allocation
  latestProduced,  \* _latest_allocation_produced_at, -1 when None
  decision,        \* the decision that is not yet published and acked
  heardAccount,    \* history: the newest capture time delivered
  heardAllocation  \* history: the newest production time delivered

accountVars == <<snapshot, latestCaptured, account, heardAccount>>
allocationVars == <<allocation, latestProduced, heardAllocation>>
vars == <<settings, now, snapshot, latestCaptured, account, allocation,
          latestProduced, decision, heardAccount, heardAllocation>>

Init ==
  /\ settings \in [account : BOOLEAN, allocation : BOOLEAN]
  /\ now = 0
  /\ snapshot = NoSnapshot /\ latestCaptured = -1 /\ account = Fallback
  /\ allocation = NoAllocation /\ latestProduced = -1
  /\ decision = NoDecision
  /\ heardAccount = -1 /\ heardAllocation = -1

\* The newest version delivered, unreadable messages aside.
Heard(newest, m) ==
  IF m.kind = "malformed" THEN newest ELSE Larger(newest, m.at)

-----------------------------------------------------------------------------
(***************************************************************************)
(* The account consumer.                                                   *)
(***************************************************************************)
Unusable(m) ==
  m.kind \in {"unreconciled", "mismatched"} \/ Inconsistent(m.content)

\* The message cannot be read: no version, but authority is lost.
MalformedAccount(m) ==
  /\ m.kind = "malformed"
  /\ snapshot' = NoSnapshot
  /\ UNCHANGED <<latestCaptured, account>>

\* The version in force again: any difference takes it out of force.
RepeatedAccount(m) ==
  /\ m.kind # "malformed"
  /\ m.at = latestCaptured
  /\ snapshot' = IF Unusable(m) \/ snapshot # [at |-> m.at, content |-> m.content]
                 THEN NoSnapshot ELSE snapshot
  /\ UNCHANGED <<latestCaptured, account>>

\* Mutant of RevokingAccount: the invalid version is not remembered.
RevokingAccountUnversioned(m) ==
  /\ m.kind # "malformed"
  /\ m.at > latestCaptured
  /\ Unusable(m)
  /\ snapshot' = NoSnapshot
  /\ UNCHANGED <<latestCaptured, account>>

\* A newer version that cannot be trusted.
RevokingAccount(m) ==
  /\ m.kind # "malformed"
  /\ m.at > latestCaptured
  /\ Unusable(m)
  /\ latestCaptured' = m.at
  /\ snapshot' = NoSnapshot
  /\ UNCHANGED account

NewAccount(m) ==
  /\ m.kind # "malformed"
  /\ m.at > latestCaptured
  /\ ~Unusable(m)
  /\ latestCaptured' = m.at
  /\ snapshot' = [at |-> m.at, content |-> m.content]
  /\ account' = m.content

\* An older version is acked and ignored.
HandleAccount(m) ==
  /\ \/ MalformedAccount(m) \/ RepeatedAccount(m)
     \/ RevokingAccount(m) \/ NewAccount(m)
  /\ heardAccount' = Heard(heardAccount, m)
  /\ UNCHANGED <<settings, now, allocationVars, decision>>

-----------------------------------------------------------------------------
(***************************************************************************)
(* The allocation consumer.                                                *)
(***************************************************************************)
\* Unreadable, or without a time zone.
MalformedAllocation(m) ==
  /\ m.kind = "malformed"
  /\ allocation' = NoAllocation
  /\ UNCHANGED latestProduced

InvalidAllocation(m) ==
  /\ m.kind # "malformed"
  /\ m.at >= latestProduced
  /\ AllocationError(m.policy)
  /\ latestProduced' = m.at
  /\ allocation' = NoAllocation

RepeatedAllocation(m) ==
  /\ m.kind # "malformed"
  /\ m.at = latestProduced
  /\ ~AllocationError(m.policy)
  /\ allocation' = IF allocation = [at |-> m.at, policy |-> m.policy]
                   THEN allocation ELSE NoAllocation
  /\ UNCHANGED latestProduced

\* Mutant of NewAllocation: the guard against older versions is gone.
OlderAllocationToo(m) ==
  /\ m.kind # "malformed"
  /\ m.at # latestProduced
  /\ ~AllocationError(m.policy)
  /\ latestProduced' = m.at
  /\ allocation' = [at |-> m.at, policy |-> m.policy]

NewAllocation(m) ==
  /\ m.kind # "malformed"
  /\ m.at > latestProduced
  /\ ~AllocationError(m.policy)
  /\ latestProduced' = m.at
  /\ allocation' = [at |-> m.at, policy |-> m.policy]

HandleAllocation(m) ==
  /\ \/ MalformedAllocation(m) \/ InvalidAllocation(m)
     \/ RepeatedAllocation(m) \/ NewAllocation(m)
  /\ heardAllocation' = Heard(heardAllocation, m)
  /\ UNCHANGED <<settings, now, accountVars, decision>>

-----------------------------------------------------------------------------
(***************************************************************************)
(* The command handler.                                                    *)
(***************************************************************************)
Age(produced) == now - produced

\* Mutant of AccountReady: a lost snapshot is noticed only when one is required.
AccountReadyUnlessRequired ==
  settings.account =>
    snapshot # NoSnapshot /\ Age(snapshot.at) \in 0..AccountMaxAge

\* _account_ready.
AccountReady ==
  /\ ~(snapshot = NoSnapshot /\ latestCaptured # -1)
  /\ settings.account =>
       snapshot # NoSnapshot /\ Age(snapshot.at) \in 0..AccountMaxAge

AccountContent == IF snapshot # NoSnapshot THEN snapshot.content ELSE account

\* Mutant of NeedsAllocation: rebalancing counts as an exit.
NeedsAllocationToEnter(c, mode) ==
  /\ settings.allocation
  /\ c.reason \in NewRisk \ {"REBALANCE"}
  /\ mode # "LOCAL_QUANT_MODE"

\* The allocation constrains new risk; it is not asked for where LOCAL_QUANT
\* refuses anyway.
NeedsAllocation(c, mode) ==
  /\ settings.allocation
  /\ c.reason \in NewRisk
  /\ mode # "LOCAL_QUANT_MODE"

AllocationReady ==
  allocation # NoAllocation /\ Age(allocation.at) \in 0..AllocationMaxAge

Decide(c, mode) ==
  IF \/ c.symbol \notin AllowedSymbols
     \/ ~AccountReady
     \/ NeedsAllocation(c, mode) /\ ~AllocationReady
  THEN Refused
  ELSE Validate(c,
                IF NeedsAllocation(c, mode) THEN allocation.policy ELSE NoAllocation,
                AccountView(AccountContent, c.symbol), mode)

\* _handle_command up to the publication.
HandleCommand(c, mode) ==
  /\ decision = NoDecision
  /\ decision' = [command |-> c, mode |-> mode, outcome |-> Decide(c, mode)]
  /\ UNCHANGED <<settings, now, accountVars, allocationVars>>

\* Published and acked, or failed and still pending: handled again later.
EndCommand ==
  /\ decision # NoDecision
  /\ decision' = NoDecision
  /\ UNCHANGED <<settings, now, accountVars, allocationVars>>

Tick ==
  /\ now < MaxTime
  /\ now' = now + 1
  /\ UNCHANGED <<settings, accountVars, allocationVars, decision>>

Next ==
  \/ \E m \in AccountMessages : HandleAccount(m)
  \/ \E m \in AllocationMessages : HandleAllocation(m)
  \/ \E c \in Commands, mode \in Modes : HandleCommand(c, mode)
  \/ EndCommand
  \/ Tick

Spec == Init /\ [][Next]_vars

-----------------------------------------------------------------------------
(***************************************************************************)
(* Properties.                                                             *)
(***************************************************************************)
\* Every variable keeps its type; what is in force is what a message said.
DryRunTypeOK ==
  /\ settings \in [account : BOOLEAN, allocation : BOOLEAN]
  /\ now \in Nat
  /\ snapshot \in {[at |-> m.at, content |-> m.content] : m \in AccountMessages}
                    \cup {NoSnapshot}
  /\ latestCaptured \in Nat \cup {-1}
  /\ account \in {m.content : m \in AccountMessages} \cup {Fallback}
  /\ allocation \in {[at |-> m.at, policy |-> m.policy] : m \in AllocationMessages}
                      \cup {NoAllocation}
  /\ latestProduced \in Nat \cup {-1}
  /\ heardAccount \in Nat \cup {-1} /\ heardAllocation \in Nat \cup {-1}

\* The account in force follows the promise of NewestWins among all capture
\* times ever delivered, whatever is lost, repeated, invalid or contradictory in
\* between: "Older out-of-order snapshots cannot roll state back"
\* (README.md:65; _handle_account, _consume_account).
AccountRegister == INSTANCE NewestWins WITH
  newest <- heardAccount, value <- snapshot, Nothing <- NoSnapshot
AccountNewestWins == AccountRegister!Spec

\* So does the allocation among all production times (_handle_allocation,
\* _consume_allocation).
AllocationRegister == INSTANCE NewestWins WITH
  newest <- heardAllocation, value <- allocation, Nothing <- NoAllocation
AllocationNewestWins == AllocationRegister!Spec

\* The command, the mode and the account an approval was decided with.
Decided(d) == decision = NoDecision /\ d # NoDecision
ViewOf(d) == AccountView(AccountContent, d.command.symbol)

\* Every approved order was decided on the newest account known, still fresh
\* where reconciliation is required; the account assumed in development is
\* used only while Execution has sent no snapshot at all (_account_ready, the
\* comment at RiskService.__init__).
OrderNeedsAuthority ==
  [][(Decided(decision') /\ decision'.outcome.approved) =>
       /\ snapshot = NoSnapshot => heardAccount = -1 /\ account = Fallback
       /\ snapshot # NoSnapshot =>
            snapshot.at = heardAccount /\ account = snapshot.content
       /\ settings.account =>
            snapshot # NoSnapshot /\ Age(snapshot.at) \in 0..AccountMaxAge]_vars

\* Where allocations are required no new risk is approved without the newest
\* allocation, valid, fresh and with a regime that permits it, in no mode
\* (the allocation gate of _handle_command together with validate).
EntryNeedsAllocation ==
  [][(/\ Decided(decision') /\ decision'.outcome.approved
      /\ decision'.command.reason \in NewRisk) =>
       /\ decision'.mode # "LOCAL_QUANT_MODE"
       /\ settings.allocation =>
            /\ AllocationReady /\ allocation.at = heardAllocation
            /\ ~AllocationError(allocation.policy)
            /\ ~RegimeForbids(allocation.policy, decision'.command.reason)]_vars

\* With an approved entry the position stays within its cap, the account
\* within the allocation's gross cap, and the entry within the equity budget at
\* the allowed leverage; nothing is entered in drawdown (README.md:67-75).
EntryWithinCaps ==
  [][(/\ Decided(decision') /\ decision'.outcome.approved
      /\ decision'.command.reason \in NewRisk) =>
       LET a == ViewOf(decision')
           n == decision'.outcome.notional
       IN  /\ a.held * Scale + n <= MaxPosition * Scale
           /\ n <= a.equity * RiskPct * MaxLeverage * Pct
           /\ a.loss < MaxDrawdownPct
           /\ a.peak * (Pct - MaxDrawdownPct) < a.equity * Pct
           /\ settings.allocation =>
                a.gross * Scale + n <=
                  a.equity * allocation.policy.maxLeverage
                    * (Pct - allocation.policy.reserve) * Pct]_vars

\* A close of a position worth at least the minimum is approved whatever mode,
\* drawdown or allocation, as soon as the account is ready (README.md:61-77).
ExitsStayAvailable ==
  [][(/\ Decided(decision')
      /\ decision'.command.reason = "CLOSE_POSITION"
      /\ decision'.command.symbol \in AllowedSymbols
      /\ AccountReady
      /\ Size(ViewOf(decision')) * decision'.command.price >= MinNotional) =>
       decision'.outcome.approved]_vars

\* No order turns a position round: a close takes exactly the position, an
\* entry adds to it ("changing direction requires a reduce-only close first",
\* README.md:74).
NoImplicitReversal ==
  [][(Decided(decision') /\ decision'.outcome.approved) =>
       LET a == ViewOf(decision')
           o == decision'.outcome
       IN  IF decision'.command.reason = "CLOSE_POSITION"
           THEN /\ o.side = (IF a.qty > 0 THEN "SELL" ELSE "BUY")
                /\ o.notional = Size(a) * decision'.command.price * Scale
           ELSE /\ a.qty > 0 => o.side = "BUY"
                /\ a.qty < 0 => o.side = "SELL"]_vars
=============================================================================
