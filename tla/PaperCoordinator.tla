-------------------------- MODULE PaperCoordinator --------------------------
(***************************************************************************)
(* The PAPER admission coordinator of the risk manager: the class          *)
(* PaperRiskCoordinator (kairos_risk/paper_runtime.py) together with the   *)
(* admission gates of PaperRiskPipeline.evaluate (kairos_risk/paper.py)    *)
(* that read the coordinator's own state.                                  *)
(*                                                                         *)
(* Every public method of the class runs under one asyncio.Condition, so   *)
(* each is one atomic action here.  Its inputs are arbitrary: snapshots,   *)
(* measurements and recovered approvals may arrive in any order, repeat,   *)
(* or contradict each other.  PaperExposure composes these actions with    *)
(* an exchange, a durable log and crashes.                                 *)
(*                                                                         *)
(* One review carries one intent and at most one trade, so reviews name    *)
(* review ids, intents and trade ids alike.  Money is counted in risk      *)
(* units against a fixed equity.                                           *)
(***************************************************************************)
EXTENDS Integers, Sequences, FiniteSets, Counting

CONSTANTS
  Reviews,        \* candidate reviews (equally: intents, trades)
  CanaryReviews,  \* the reviews of the technical canary strategy
  Symbols,        \* the fixed DEV venue symbols
  SymbolOf,       \* the venue symbol of each review
  ExpiresAt,      \* entry_expires_ts_ms of each review's intent
  Snapshots,      \* account snapshots that may be delivered
  VenueIds,       \* measurement ids of venue-quality messages
  Times,          \* clock readings
  NoVenue,        \* "no usable measurement" (never seen, or poisoned)
  RiskCap,        \* equity * paper_max_total_open_risk_fraction
  PerTradeRisk,   \* equity * paper_per_trade_risk_fraction
  AccountMaxAge,  \* paper_account_snapshot_max_age_s
  VenueMaxAge,    \* expires_at_ms - observed_at_ms of a measurement
  CacheSize       \* paper_decision_cache_size

\* How a snapshot shows one trade.  "foreign" is a position that reuses the
\* trade id with another lineage; "protective" is protective orders alone.
RepKinds == {"none", "position", "entry", "protective", "foreign"}

Snapshot == [seq : Nat, captured : Nat, trusted : BOOLEAN,
             rep : [Reviews -> RepKinds], openRisk : Nat]

\* The value of _account when there is none.
NoSnapshot == [seq |-> 0, captured |-> 0, trusted |-> FALSE,
               rep |-> [r \in Reviews |-> "none"], openRisk |-> 0]

ASSUME CoordinatorAssumption ==
  /\ IsFiniteSet(Reviews)
  /\ CanaryReviews \subseteq Reviews
  /\ SymbolOf \in [Reviews -> Symbols]
  /\ ExpiresAt \in [Reviews -> Nat]
  /\ Snapshots \subseteq Snapshot
  /\ NoSnapshot \notin Snapshots
  /\ NoVenue \notin VenueIds
  /\ Times \subseteq Nat
  /\ RiskCap \in Nat
  /\ PerTradeRisk \in Nat
  /\ AccountMaxAge \in Nat
  /\ VenueMaxAge \in Nat
  /\ CacheSize \in Nat \ {0}

VARIABLES
  account,         \* _account, NoSnapshot when None
  latestSeq,       \* _latest_account_seq, -1 when None
  latestCaptured,  \* _latest_account_captured_at_ms, -1 when None
  venue,           \* _venue_versions and, by id # NoVenue, _venue
  decisions,       \* _decisions: the cached verdict of each review
  lru,             \* the order of that OrderedDict, oldest first
  reservations,    \* _reservations
  recoveryLoaded,  \* _durable_recovery_loaded
  accountReady     \* _account_recovery_ready

accountVars == <<account, latestSeq, latestCaptured, accountReady>>
cacheVars == <<decisions, lru>>
vars == <<account, latestSeq, latestCaptured, venue, decisions, lru,
          reservations, recoveryLoaded, accountReady>>

Decision == [verdict : {"none", "approved", "rejected"}, risk : Nat]
Undecided == [verdict |-> "none", risk |-> 0]
Rejection == [verdict |-> "rejected", risk |-> 0]
Approval(risk) == [verdict |-> "approved", risk |-> risk]

Reservation == [held : BOOLEAN, risk : Nat, seq : Nat]
Free == [held |-> FALSE, risk |-> 0, seq |-> 0]
Hold(risk, seq) == [held |-> TRUE, risk |-> risk, seq |-> seq]

Held(res) == {r \in Reviews : res[r].held}
Cached == {r \in Reviews : decisions[r].verdict # "none"}
RecoveryComplete == recoveryLoaded /\ accountReady

Init ==
  /\ account = NoSnapshot
  /\ latestSeq = -1
  /\ latestCaptured = -1
  /\ venue = [s \in Symbols |-> [at |-> -1, id |-> NoVenue]]
  /\ decisions = [r \in Reviews |-> Undecided]
  /\ lru = <<>>
  /\ reservations = [r \in Reviews |-> Free]
  /\ recoveryLoaded = FALSE
  /\ accountReady = FALSE

-----------------------------------------------------------------------------
(***************************************************************************)
(* The decision cache: an OrderedDict trimmed from its old end, skipping   *)
(* the replay identity of every review that is still reserved.             *)
(***************************************************************************)
Without(order, S) == AtIndices(order, {i \in DOMAIN order : order[i] \notin S})
MoveToEnd(order, r) == Append(Without(order, {r}), r)

\* Mutant of Evicted: a trim blind to reservations.
EvictedReserved(order, res) ==
  {order[i] : i \in 1..(Len(order) - CacheSize)}

\* The entries _trim_decision_cache pops: the oldest ones without a
\* reservation, as many as exceed the configured size.
Evicted(order, res) ==
  {r \in Reviews \ Held(res) :
     \E i \in DOMAIN order :
        /\ order[i] = r
        /\ Cardinality({j \in 1..i : order[j] \notin Held(res)})
             <= Len(order) - CacheSize}

\* Store a cache content and its order, then trim it.
StoreTrimmed(cache, order, res) ==
  LET gone == Evicted(order, res)
  IN  /\ decisions' = [r \in Reviews |-> IF r \in gone THEN Undecided
                                                       ELSE cache[r]]
      /\ lru' = Without(order, gone)

-----------------------------------------------------------------------------
(***************************************************************************)
(* Account reconciliation.                                                 *)
(***************************************************************************)
IsAuthoritative(s) == s.trusted /\ s.seq > 0

\* _reconcile_reservations raises: some reserved trade is shown with another
\* lineage, or with protective orders but neither a position nor an entry.
ReconcileFails(s, res) ==
  \E r \in Held(res) : s.rep[r] \in {"foreign", "protective"}

\* Mutant of Released: the deadline instant counts as proof.
ReleasedAtDeadline(s, res) ==
  {r \in Held(res) :
     \/ s.rep[r] \in {"position", "entry"}
     \/ s.rep[r] = "none" /\ s.seq > res[r].seq /\ s.captured >= ExpiresAt[r]}

\* The snapshot now owns the idea, or proves that it can no longer be entered.
Released(s, res) ==
  {r \in Held(res) :
     \/ s.rep[r] \in {"position", "entry"}
     \/ /\ s.rep[r] = "none"
        /\ s.seq > res[r].seq
        /\ s.captured > ExpiresAt[r]}

Reconciled(s, res) ==
  [r \in Reviews |-> IF r \in Released(s, res) THEN Free ELSE res[r]]

\* Reconcile against s the reservations res; a contradiction discards the
\* account and keeps every reservation.
Reconcile(s, res) ==
  LET fails == IsAuthoritative(s) /\ ReconcileFails(s, res)
      ready == IsAuthoritative(s) /\ ~fails
  IN  /\ account' = IF fails THEN NoSnapshot ELSE s
      /\ accountReady' = ready
      /\ reservations' = IF ready THEN Reconciled(s, res) ELSE res

\* Mutant: the poisoned account keeps the contradicted sequence.
PoisonKeepsSequence ==
  /\ account' = [NoSnapshot EXCEPT !.seq = account.seq]
  /\ accountReady' = FALSE
  /\ UNCHANGED reservations

PoisonAccount ==
  /\ account' = NoSnapshot
  /\ accountReady' = FALSE
  /\ UNCHANGED reservations

\* apply_account returns False: an older sequence, or the very same snapshot.
IgnoreAccount(s) ==
  /\ s.seq < latestSeq \/ (s.seq = latestSeq /\ account = s)
  /\ UNCHANGED vars

\* The sequence was seen with other content, or is already poisoned.
ConflictingAccount(s) ==
  /\ s.seq = latestSeq
  /\ account # s
  /\ PoisonAccount
  /\ UNCHANGED <<latestSeq, latestCaptured, venue, cacheVars, recoveryLoaded>>

\* Mutant: the regression is refused, the older authority stays.
RegressionKeepsAuthority(s) ==
  /\ s.seq > latestSeq
  /\ s.captured < latestCaptured
  /\ latestSeq' = s.seq
  /\ UNCHANGED <<account, accountReady, latestCaptured, venue, cacheVars,
                 reservations, recoveryLoaded>>

\* A newer sequence whose capture time moved backwards.
RegressingAccount(s) ==
  /\ s.seq > latestSeq
  /\ s.captured < latestCaptured
  /\ latestSeq' = s.seq
  /\ PoisonAccount
  /\ UNCHANGED <<latestCaptured, venue, cacheVars, recoveryLoaded>>

\* Mutant: a known sequence is accepted again after a contradiction.
AcceptSameSequence(s) ==
  /\ s.seq >= latestSeq
  /\ s.captured >= latestCaptured
  /\ latestSeq' = s.seq
  /\ latestCaptured' = s.captured
  /\ Reconcile(s, reservations)
  /\ UNCHANGED <<venue, cacheVars, recoveryLoaded>>

AcceptAccount(s) ==
  /\ s.seq > latestSeq
  /\ s.captured >= latestCaptured
  /\ latestSeq' = s.seq
  /\ latestCaptured' = s.captured
  /\ Reconcile(s, reservations)
  /\ UNCHANGED <<venue, cacheVars, recoveryLoaded>>

ApplyAccount(s) ==
  \/ IgnoreAccount(s)
  \/ ConflictingAccount(s)
  \/ RegressingAccount(s)
  \/ AcceptAccount(s)

-----------------------------------------------------------------------------
(***************************************************************************)
(* Venue quality.                                                          *)
(***************************************************************************)
VenueUsable(s) == venue[s].id # NoVenue

IgnoreVenue(s, at, id) ==
  /\ at < venue[s].at \/ (at = venue[s].at /\ venue[s].id = id)
  /\ UNCHANGED vars

ConflictingVenue(s, at, id) ==
  /\ at = venue[s].at
  /\ id # venue[s].id
  /\ venue' = [venue EXCEPT ![s].id = NoVenue]
  /\ UNCHANGED <<accountVars, cacheVars, reservations, recoveryLoaded>>

\* Mutant: a measurement of the same instant replaces a revoked one.
AcceptSameInstant(s, at, id) ==
  /\ at >= venue[s].at
  /\ venue' = [venue EXCEPT ![s] = [at |-> at, id |-> id]]
  /\ UNCHANGED <<accountVars, cacheVars, reservations, recoveryLoaded>>

AcceptVenue(s, at, id) ==
  /\ at > venue[s].at
  /\ venue' = [venue EXCEPT ![s] = [at |-> at, id |-> id]]
  /\ UNCHANGED <<accountVars, cacheVars, reservations, recoveryLoaded>>

ApplyVenue(s, at, id) ==
  \/ IgnoreVenue(s, at, id)
  \/ ConflictingVenue(s, at, id)
  \/ AcceptVenue(s, at, id)

-----------------------------------------------------------------------------
(***************************************************************************)
(* Recovery of committed approvals, before any review is admitted.  order  *)
(* is the durable log's order, risk the approved loss of each decision.    *)
(***************************************************************************)
RestoreReservations(order, risk) ==
  LET restored == {order[i] : i \in DOMAIN order}
      res == [r \in Reviews |-> IF r \in restored THEN Hold(risk[r], 0)
                                                  ELSE reservations[r]]
      cache == [r \in Reviews |-> IF r \in restored THEN Approval(risk[r])
                                                    ELSE decisions[r]]
  IN  /\ ~recoveryLoaded
      /\ recoveryLoaded' = TRUE
      /\ StoreTrimmed(cache, lru \o order, res)
      /\ IF account = NoSnapshot
         THEN reservations' = res /\ UNCHANGED <<account, accountReady>>
         ELSE Reconcile(account, res)
      /\ UNCHANGED <<latestSeq, latestCaptured, venue>>

-----------------------------------------------------------------------------
(***************************************************************************)
(* Admission.                                                              *)
(***************************************************************************)
ReservedRisk(res) == Total([r \in Reviews |-> res[r].risk], Held(res))

\* Mutant of RemainingRisk: open positions forgotten.
RemainingUnopened == RiskCap - ReservedRisk(reservations)

\* What total open risk still leaves under the portfolio ceiling.
RemainingRisk == RiskCap - account.openRisk - ReservedRisk(reservations)

AccountFresh(t) == account.captured <= t /\ t <= account.captured + AccountMaxAge
VenueFresh(r, t) == LET v == venue[SymbolOf[r]] IN v.at <= t /\ t <= v.at + VenueMaxAge

\* Mutant: only the reconciled trades occupy a symbol.
SymbolFreeOfTrades(r) ==
  \A q \in Reviews : SymbolOf[q] = SymbolOf[r] => account.rep[q] = "none"

\* No reserved idea, position or open order on the review's symbol.
SymbolFree(r) ==
  \A q \in Reviews :
    SymbolOf[q] = SymbolOf[r] =>
      q \notin Held(reservations) /\ account.rep[q] = "none"

NoPendingEntry == \A q \in Reviews : account.rep[q] # "entry"

\* At most one canary idea, reserved or reconciled, over all symbols.
CanaryFree(r) ==
  r \in CanaryReviews =>
    \A q \in CanaryReviews :
      q \notin Held(reservations)
        /\ account.rep[q] \notin {"position", "entry", "foreign"}

\* PaperRiskPipeline.evaluate finds no rejection reason in the coordinator's
\* own state.  Every other reason (review verdict, allocation, breaker mode,
\* drawdown, geometry, capacity) is the input "vetoed" of EvaluateFresh.
Admissible(r, t) ==
  /\ t <= ExpiresAt[r]
  /\ AccountFresh(t) /\ VenueFresh(r, t)
  /\ SymbolFree(r)
  /\ NoPendingEntry
  /\ CanaryFree(r)
  /\ RemainingRisk > 0

LossBudget == IF RemainingRisk < PerTradeRisk THEN RemainingRisk ELSE PerTradeRisk

\* evaluate raises PaperInputUnavailable.
Unavailable(r, denied) ==
  \/ ~RecoveryComplete
  \/ (r \notin Cached \/ denied) /\ ~VenueUsable(SymbolOf[r])

\* A cached verdict is returned as it is unless admission was denied.
EvaluateCached(r) ==
  /\ RecoveryComplete
  /\ r \in Cached
  /\ lru' = MoveToEnd(lru, r)
  /\ UNCHANGED <<accountVars, venue, decisions, reservations, recoveryLoaded>>

\* Admission was denied outside the coordinator: the rejection is neither
\* cached nor does it touch a reservation.
EvaluateDenied(r) ==
  /\ ~Unavailable(r, TRUE)
  /\ UNCHANGED vars

\* A fresh evaluation; an approval reserves its symbol and risk at once.
EvaluateFresh(r, t, vetoed, d) ==
  /\ ~Unavailable(r, FALSE)
  /\ r \notin Cached
  /\ IF Admissible(r, t) /\ ~vetoed
     THEN \E risk \in 1..LossBudget : d = Approval(risk)
     ELSE d = Rejection
  /\ reservations' = IF d.verdict = "approved"
                     THEN [reservations EXCEPT ![r] =
                             Hold(d.risk, IF latestSeq = -1 THEN 0 ELSE latestSeq)]
                     ELSE reservations
  /\ StoreTrimmed([decisions EXCEPT ![r] = d], Append(lru, r), reservations')
  /\ UNCHANGED <<accountVars, venue, recoveryLoaded>>

\* The verdicts a fresh evaluation can produce.
Verdicts == {Rejection} \cup {Approval(risk) : risk \in 1..PerTradeRisk}

-----------------------------------------------------------------------------
\* Logs a recovery may find: approvals of distinct reviews, in log order.
RecoveryLogs ==
  UNION {{f \in [1..n -> Reviews] : \A i, j \in 1..n : f[i] = f[j] => i = j} :
           n \in 0..Cardinality(Reviews)}
RecoveredRisks == [Reviews -> 1..PerTradeRisk]

Next ==
  \/ \E s \in Snapshots : ApplyAccount(s)
  \/ \E s \in Symbols, at \in Times, id \in VenueIds : ApplyVenue(s, at, id)
  \/ \E order \in RecoveryLogs, risk \in RecoveredRisks :
       RestoreReservations(order, risk)
  \/ \E r \in Reviews : EvaluateCached(r) \/ EvaluateDenied(r)
  \/ \E r \in Reviews, t \in Times, vetoed \in BOOLEAN, d \in Verdicts :
       EvaluateFresh(r, t, vetoed, d)

Spec == Init /\ [][Next]_vars

-----------------------------------------------------------------------------
(***************************************************************************)
(* Properties.                                                             *)
(***************************************************************************)
\* Every field of the coordinator keeps its type.
TypeOK ==
  /\ account \in Snapshots \cup {NoSnapshot}
  /\ latestSeq \in Nat \cup {-1}
  /\ latestCaptured \in Nat \cup {-1}
  /\ venue \in [Symbols -> [at : Nat \cup {-1}, id : VenueIds \cup {NoVenue}]]
  /\ decisions \in [Reviews -> Decision]
  /\ reservations \in [Reviews -> Reservation]
  /\ recoveryLoaded \in BOOLEAN
  /\ accountReady \in BOOLEAN

\* The cache never forgets, trims or contradicts an approval whose reservation
\* still stands: a redelivered review is answered with the reserved decision
\* and is never sized a second time (_trim_decision_cache, evaluate).
ReplayIdentityRetained ==
  \A r \in Held(reservations) : decisions[r] = Approval(reservations[r].risk)

\* Admission is open only on the newest sequence ever observed, captured no
\* earlier than any snapshot accepted before, and with no reserved trade left
\* that this snapshot already shows (apply_account, restore_reservations).
AuthorityIsNewest ==
  accountReady =>
    /\ account # NoSnapshot
    /\ IsAuthoritative(account)
    /\ account.seq = latestSeq
    /\ account.captured = latestCaptured
    /\ \A r \in Held(reservations) : account.rep[r] = "none"

\* A reservation ends only under a trusted account that shows the trade, or
\* that was captured after the entry deadline by a reconciliation newer than
\* the reservation (_reconcile_reservations).
ReleasedOnlyWithProof ==
  [][\A r \in Held(reservations) :
       ~reservations'[r].held =>
         /\ accountReady'
         /\ \/ account'.rep[r] \in {"position", "entry"}
            \/ /\ account'.rep[r] = "none"
               /\ account'.seq > reservations[r].seq
               /\ account'.captured > ExpiresAt[r]]_vars

\* The account admission is open on follows the promise of NewestWins in the
\* reconciliation sequence: authority lost to a contradiction never comes back
\* by replaying what was seen, nor by recovery's second reconciliation of a
\* retained account (apply_account, restore_reservations).
AuthorityInForce == IF accountReady THEN account ELSE NoSnapshot
AuthorityRegister == INSTANCE NewestWins WITH
  newest <- latestSeq, value <- AuthorityInForce, Nothing <- NoSnapshot
AuthorityNewestWins == AuthorityRegister!Spec

\* So does each venue measurement in its observation time: one revoked by a
\* contradiction is replaced only by a later one (apply_venue).
VenueRegister(s) == INSTANCE NewestWins WITH
  newest <- venue[s].at, value <- venue[s].id, Nothing <- NoVenue
VenueNewestWins ==
  /\ \A s \in Symbols : VenueRegister(s)!Init
  /\ [][\A s \in Symbols : VenueRegister(s)!Next \/ UNCHANGED venue[s]]_venue

\* Admission never moves to an account captured before one accepted earlier,
\* whatever came in between (apply_account).
CaptureNeverRegresses ==
  [][/\ latestCaptured' >= latestCaptured
     /\ (accountReady' /\ account' # account) =>
          account'.captured >= latestCaptured]_vars
=============================================================================
