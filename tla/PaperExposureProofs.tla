------------------------ MODULE PaperExposureProofs ------------------------
(***************************************************************************)
(* Proofs about the PAPER coordinator among the exchange, the durable log  *)
(* and its restarts, for every finite set of reviews, every limit and any  *)
(* number of snapshots, crashes and failed commits.                        *)
(*                                                                         *)
(* The coordinator's own invariant (PaperCoordinatorProofs) holds in this  *)
(* composition.  Six more parts are needed: before recovery nothing was    *)
(* decided (StartInv), every approval is answered once (Answered), the     *)
(* snapshots in play agree with each other and with the exchange           *)
(* (SnapshotInv), approvals stay reserved from the decision to the entry   *)
(* (ReservedInv), those that may still be entered exclude each other       *)
(* (PromiseInv), and until the first restart what is reserved or shown by  *)
(* the account covers everything at risk (OccupyingInv).                   *)
(***************************************************************************)
EXTENDS PaperExposure, PaperCoordinatorProofs

LogEntry == [review : Reviews, risk : 1..PerTradeRisk]

\* Each entry of the log answers a review of its own.
OneApprovalPerReview ==
  \A i, j \in DOMAIN log : log[i].review = log[j].review => i = j

\* What is committed is no longer pending, and only what is pending is in
\* flight.
Answered ==
  /\ inbox \subseteq Reviews
  /\ log \in Seq(LogEntry)
  /\ inflight \in [review : Reviews \cup {"none"}, decision : Decision]
  /\ inflight # Idle => inflight.review \in inbox
  /\ inflight.decision.verdict = "approved" =>
       inflight.decision.risk \in 1..PerTradeRisk
  /\ \A i \in DOMAIN log : log[i].review \notin inbox
  /\ OneApprovalPerReview

\* The bounded counters and the exchange.
SurroundingsOK ==
  /\ clock \in 0..MaxTime
  /\ exchange \in [Reviews -> {"idle", "entry", "position", "closed"}]
  /\ stream \subseteq Snapshots
  /\ emitted \in 0..MaxSeq
  /\ crashes \in Nat /\ failures \in Nat

\* The snapshots that were delivered or may still be.
Observed == stream \cup (IF latestSeq = -1 THEN {} ELSE {account})
Shown(s) == {q \in Reviews : s.rep[q] # "none"}

\* A snapshot shows what was open at its capture, with its committed risk; a
\* trade it does not show was entered since, before its deadline, or never
\* will be.
Truthful(s) ==
  /\ s.seq \in 1..emitted /\ s.captured \in 0..clock /\ s.trusted
  /\ \A q \in Reviews : s.rep[q] \in {"none", "entry", "position"}
  /\ s.openRisk = RiskOf(Shown(s))
  /\ \A q \in Shown(s) : exchange[q] # "idle"
  /\ \A q \in OpenTrades \ Shown(s) : s.captured <= ExpiresAt[q]

\* What a later snapshot z may show otherwise than s did.
InOrder(s, z) ==
  /\ s.captured <= z.captured
  /\ \A q \in Shown(z) \ Shown(s) : s.captured <= ExpiresAt[q]
  /\ \A q \in Shown(s) \ Shown(z) : exchange[q] = "closed"

\* No trade closes and opens again.
NoReopening(s, z, w) == Shown(s) \cap Shown(w) \subseteq Shown(z)

SnapshotInv ==
  /\ latestSeq = -1 <=> account = NoSnapshot
  /\ latestSeq = -1 => latestCaptured = -1
  /\ \A s \in Observed : Truthful(s)
  /\ \A s, z \in Observed : /\ s.seq = z.seq => s = z
                            /\ s.seq < z.seq => InOrder(s, z)
  /\ \A s, z, w \in Observed :
        s.seq < z.seq /\ z.seq < w.seq => NoReopening(s, z, w)

\* Before recovery nothing was decided in this process, and before the first
\* recovery nothing at all.
StartInv ==
  /\ ~recoveryLoaded =>
       /\ inflight = Idle /\ latestSeq = -1
       /\ decisions = [r \in Reviews |-> Undecided]
       /\ crashes = 0 => log = <<>>
  /\ \A r \in Reviews : exchange[r] # "idle" => r \in CommittedReviews

\* An approval that may still be entered is reserved, whether it is committed,
\* in flight or only cached, and at the risk that is or will be committed.
ReservedInv ==
  /\ recoveryLoaded => Executable \subseteq Held(reservations)
  /\ \A r \in Held(reservations) \cap CommittedReviews :
       reservations[r].risk = CommittedRisk(r)
  /\ \A r \in inbox :
       (decisions[r].verdict = "approved" /\ clock <= ExpiresAt[r]) =>
         r \in Held(reservations)
  /\ inflight.decision.verdict = "approved" =>
       /\ clock <= ExpiresAt[inflight.review] =>
            inflight.review \in Held(reservations)
       /\ inflight.review \in Held(reservations) =>
            reservations[inflight.review].risk = inflight.decision.risk

\* The ideas that occupy their symbol and their share of the ceiling.
Occupying == Held(reservations) \cup Shown(account)

OccupyingInv ==
  crashes = 0 =>
    /\ OpenTrades \subseteq Occupying
    /\ \A s \in stream : s.seq > latestSeq => Shown(s) \subseteq Occupying
    /\ \A r, q \in Occupying : r # q =>
         SymbolOf[r] # SymbolOf[q] /\ ~(r \in CanaryReviews /\ q \in CanaryReviews)
    /\ account.openRisk + ReservedRisk(reservations) <= RiskCap

-----------------------------------------------------------------------------
LEMMA InitAnswered == ExposureInit => Answered
<1> SUFFICES ASSUME ExposureInit PROVE Answered
  OBVIOUS
<1>0. /\ inflight \in [review : Reviews \cup {"none"}, decision : Decision]
      /\ inflight = Idle /\ inflight.decision.verdict # "approved"
  BY DEF ExposureInit, Idle, Undecided, Decision
<1>1. log \in Seq(LogEntry) /\ DOMAIN log = {}
  <2>1. log = <<>>
    BY DEF ExposureInit
  <2> QED BY <2>1, EmptySeq
<1> QED BY <1>0, <1>1 DEF ExposureInit, Answered, OneApprovalPerReview

\* A fresh or cached verdict is a decision; an approval carries a risk within
\* the share of one trade.
LEMMA VerdictRisk ==
  ASSUME NEW d \in Verdicts
  PROVE  /\ d \in Decision
         /\ d.verdict = "approved" => d.risk \in 1..PerTradeRisk
<1>1. \A x \in 1..PerTradeRisk : x \in Nat
  BY CoordinatorAssumption
<1> QED BY <1>1 DEF Verdicts, Rejection, Approval, Decision

\* What is in flight is committed or not; either way it is answered once.
LEMMA CommitAnswers ==
  ASSUME Answered, Commit
  PROVE  Answered'
<1> DEFINE r == inflight.review
           e == [review |-> r, risk |-> inflight.decision.risk]
<1>1. /\ r \in inbox /\ r \in Reviews
      /\ inbox' = inbox \ {r} /\ inflight' = Idle
      /\ Idle \in [review : Reviews \cup {"none"}, decision : Decision]
      /\ Idle.decision.verdict # "approved"
  BY DEF Commit, Answered, Idle, Undecided, Decision
<1>2. CASE log' = log
  BY <1>1, <1>2 DEF Answered, OneApprovalPerReview
<1>3. CASE inflight.decision.verdict = "approved" /\ log' = Append(log, e)
  <2>1. log \in Seq(LogEntry) /\ e \in LogEntry
    BY <1>1, <1>3 DEF Answered, LogEntry
  <2>2. /\ log' \in Seq(LogEntry) /\ Len(log') = Len(log) + 1
        /\ \A i \in 1..Len(log) : log'[i] = log[i]
        /\ log'[Len(log) + 1] = e
    BY <1>3, <2>1, AppendProperties
  <2>3. /\ DOMAIN log = 1..Len(log) /\ DOMAIN log' = 1..Len(log') /\ Len(log) \in Nat
    BY <2>1, <2>2, LenProperties
  <2> HIDE DEF r, e
  <2>4. \A i \in DOMAIN log' : log'[i].review = r \/ i \in DOMAIN log
    BY <2>2, <2>3 DEF e
  <2>5. \A i \in DOMAIN log : log'[i].review \notin inbox /\ log'[i].review # r
    BY <1>1, <2>2, <2>3 DEF Answered
  <2>6. \A i, j \in DOMAIN log' : log'[i].review = log'[j].review => i = j
    <3> SUFFICES ASSUME NEW i \in DOMAIN log', NEW j \in DOMAIN log',
                        log'[i].review = log'[j].review
                 PROVE  i = j
      OBVIOUS
    <3>1. i \in DOMAIN log \/ i = Len(log) + 1
      BY <2>2, <2>3
    <3>2. j \in DOMAIN log \/ j = Len(log) + 1
      BY <2>2, <2>3
    <3>3. log'[Len(log) + 1].review = r
      BY <2>2 DEF e
    <3> QED BY <2>2, <2>3, <2>5, <3>1, <3>2, <3>3 DEF Answered, OneApprovalPerReview
  <2>7. \A i \in DOMAIN log' : log'[i].review \notin inbox'
    BY <1>1, <2>4, <2>5
  <2> QED BY <1>1, <2>2, <2>6, <2>7 DEF Answered, OneApprovalPerReview
<1> QED BY <1>2, <1>3 DEF Commit

\* The parts of Answered about the decision in flight.
LEMMA InflightAnswered ==
  ASSUME Answered, UNCHANGED durable,
         \/ inflight' = Idle
         \/ \E r \in inbox, d \in Decision :
              /\ inflight' = [review |-> r, decision |-> d]
              /\ d.verdict = "approved" => d.risk \in 1..PerTradeRisk
  PROVE  Answered'
<1>1. /\ inflight' \in [review : Reviews \cup {"none"}, decision : Decision]
      /\ inflight' # Idle => inflight'.review \in inbox
      /\ inflight'.decision.verdict = "approved" =>
           inflight'.decision.risk \in 1..PerTradeRisk
  BY DEF Answered, Idle, Undecided, Decision
<1> QED BY <1>1 DEF durable, Answered, OneApprovalPerReview

LEMMA NextAnswered ==
  ASSUME Answered, [ExposureNext]_allVars
  PROVE  Answered'
<1>1. CASE Commit
  BY <1>1, CommitAnswers
<1>2. ASSUME NEW r \in Reviews, Evaluate(r)
      PROVE  Answered'
  <2>1. PICK d \in Verdicts : inflight' = [review |-> r, decision |-> d]
    BY <1>2 DEF Evaluate
  <2> QED BY <1>2, <2>1, VerdictRisk, InflightAnswered DEF Evaluate
<1>3. ASSUME NEW r \in Reviews, Deny(r)
      PROVE  Answered'
  <2>1. Rejection \in Decision /\ Rejection.verdict # "approved"
    BY DEF Rejection, Decision
  <2> QED BY <1>3, <2>1, InflightAnswered DEF Deny
<1>4. CASE RefuseBinding
  <2>1. inflight.review \in inbox
    BY <1>4 DEF RefuseBinding, Idle, Undecided, Answered
  <2>2. Rejection \in Decision /\ Rejection.verdict # "approved"
    BY DEF Rejection, Decision
  <2> QED BY <1>4, <2>1, <2>2, InflightAnswered DEF RefuseBinding
<1>5. ASSUME NEW r \in Reviews, DropAtDeadline(r)
      PROVE  Answered'
  BY <1>5 DEF DropAtDeadline, Answered, OneApprovalPerReview
<1>6. CASE UNCHANGED durable /\ inflight' = Idle
  BY <1>6, InflightAnswered
<1>7. CASE UNCHANGED durable /\ inflight' = inflight
  BY <1>7 DEF durable, Answered, OneApprovalPerReview
<1> QED
  BY <1>1, <1>2, <1>3, <1>4, <1>5, <1>6, <1>7
  DEF ExposureNext, Recover, DeliverAccount, DeliverVenue, FailCommit, Crash, Tick,
      EmitSnapshot, Trade, EnterTrade, FillEntry, CloseTrade, allVars, durable

-----------------------------------------------------------------------------
(***************************************************************************)
(* The durable log.                                                        *)
(***************************************************************************)
\* The committed risk of a review is the one its only entry carries.
LEMMA CommittedEntry ==
  ASSUME Answered, NEW i \in DOMAIN log
  PROVE  /\ log[i].review \in CommittedReviews
         /\ CommittedRisk(log[i].review) = log[i].risk
<1> DEFINE n == CHOOSE n \in DOMAIN log : log[n].review = log[i].review
<1>1. n \in DOMAIN log /\ log[n].review = log[i].review
  OBVIOUS
<1>2. n = i
  BY <1>1 DEF Answered, OneApprovalPerReview
<1> HIDE DEF n
<1>3. CommittedRisk(log[i].review) = log[n].risk
  BY DEF CommittedRisk, n
<1> QED BY <1>2, <1>3 DEF CommittedReviews

\* A committed review has an entry, is a review that is no longer pending, and
\* has a positive committed risk.
LEMMA CommittedFacts ==
  ASSUME Answered, NEW r \in CommittedReviews
  PROVE  /\ \E i \in DOMAIN log : log[i].review = r
         /\ r \in Reviews /\ r \notin inbox
         /\ CommittedRisk(r) \in 1..PerTradeRisk /\ CommittedRisk(r) \in Nat
<1>1. PICK i \in DOMAIN log : log[i].review = r
  BY DEF CommittedReviews
<1>2. log[i] \in LogEntry
  BY ElementOfSeq, LenProperties DEF Answered
<1>3. CommittedRisk(r) = log[i].risk
  BY <1>1, CommittedEntry
<1>4. PerTradeRisk \in Nat
  BY CoordinatorAssumption
<1> QED BY <1>1, <1>2, <1>3, <1>4 DEF LogEntry, Answered

\* What one step may do to the log.
LogGrows ==
  /\ CommittedReviews \subseteq CommittedReviews'
  /\ \A r \in CommittedReviews : CommittedRisk(r)' = CommittedRisk(r)
  /\ \A S \in SUBSET CommittedReviews : RiskOf(S)' = RiskOf(S)

LEMMA SameLog ==
  ASSUME UNCHANGED log
  PROVE  /\ CommittedReviews' = CommittedReviews
         /\ LogGrows
BY DEF CommittedReviews, CommittedRisk, RiskOf, LogGrows

\* A commit adds the approval in flight and leaves every earlier one alone.
LEMMA CommitLog ==
  ASSUME Answered, Commit
  PROVE  /\ LogGrows
         /\ inflight.decision.verdict # "approved" => UNCHANGED log
         /\ inflight.decision.verdict = "approved" =>
              /\ CommittedReviews' = CommittedReviews \cup {inflight.review}
              /\ \A q : q = inflight.review =>
                    CommittedRisk(q)' = inflight.decision.risk
<1> DEFINE r == inflight.review
           e == [review |-> r, risk |-> inflight.decision.risk]
<1>1. CASE inflight.decision.verdict # "approved"
  <2>1. log' = log
    BY <1>1 DEF Commit
  <2> QED BY <1>1, <2>1, SameLog
<1>2. CASE inflight.decision.verdict = "approved"
  <2>1. log \in Seq(LogEntry) /\ log' = Append(log, e) /\ e \in LogEntry
    <3>1. r \in Reviews /\ inflight.decision.risk \in 1..PerTradeRisk
      BY <1>2 DEF Answered, Commit
    <3> QED BY <1>2, <3>1 DEF Answered, Commit, LogEntry
  <2>2. /\ Len(log') = Len(log) + 1 /\ log' \in Seq(LogEntry)
        /\ \A i \in 1..Len(log) : log'[i] = log[i]
        /\ log'[Len(log) + 1] = e
    BY <2>1, AppendProperties
  <2>3. DOMAIN log = 1..Len(log) /\ DOMAIN log' = 1..Len(log') /\ Len(log) \in Nat
    BY <2>1, <2>2, LenProperties
  <2>4. Answered'
    BY CommitAnswers
  <2>5. ASSUME NEW i \in DOMAIN log', NEW q, log'[i].review = q
        PROVE  CommittedRisk(q)' = log'[i].risk
    <3> DEFINE n == CHOOSE n \in DOMAIN log' : log'[n].review = q
    <3>1. n \in DOMAIN log' /\ log'[n].review = q
      BY <2>5
    <3>2. n = i
      BY <2>4, <2>5, <3>1 DEF Answered, OneApprovalPerReview
    <3> HIDE DEF n
    <3>3. CommittedRisk(q)' = log'[n].risk
      BY DEF CommittedRisk, n
    <3> QED BY <3>2, <3>3
  <2> HIDE DEF r, e
  <2>6. CommittedReviews' = CommittedReviews \cup {r}
    <3>1. \A i \in DOMAIN log' : i \in DOMAIN log \/ i = Len(log) + 1
      BY <2>2, <2>3
    <3>2. \A i \in DOMAIN log : i \in DOMAIN log' /\ log'[i] = log[i]
      BY <2>2, <2>3
    <3>3. Len(log) + 1 \in DOMAIN log' /\ log'[Len(log) + 1].review = r
      BY <2>2, <2>3 DEF e
    <3> QED BY <3>1, <3>2, <3>3 DEF CommittedReviews
  <2>7. \A q : q = r => CommittedRisk(q)' = inflight.decision.risk
    <3>1. Len(log) + 1 \in DOMAIN log'
      BY <2>2, <2>3
    <3>2. /\ log'[Len(log) + 1].review = r
          /\ log'[Len(log) + 1].risk = inflight.decision.risk
      BY <2>2 DEF e
    <3> QED BY <2>5, <3>1, <3>2
  <2>8. \A q \in CommittedReviews : CommittedRisk(q)' = CommittedRisk(q)
    <3> SUFFICES ASSUME NEW q \in CommittedReviews
                 PROVE  CommittedRisk(q)' = CommittedRisk(q)
      OBVIOUS
    <3>1. PICK i \in DOMAIN log : log[i].review = q
      BY DEF CommittedReviews
    <3>2. i \in DOMAIN log' /\ log'[i] = log[i]
      BY <2>2, <2>3
    <3> QED BY <2>5, <3>1, <3>2, CommittedEntry
  <2>9. \A S \in SUBSET CommittedReviews : RiskOf(S)' = RiskOf(S)
    BY <2>8 DEF RiskOf
  <2> QED BY <1>2, <2>6, <2>7, <2>8, <2>9 DEF LogGrows, r
<1> QED BY <1>1, <1>2

\* No step forgets an approval or changes what it may lose.
LEMMA StepGrowsLog ==
  ASSUME Answered, [ExposureNext]_allVars
  PROVE  LogGrows /\ (UNCHANGED log \/ Commit)
<1>1. UNCHANGED log \/ Commit
  BY DEF ExposureNext, Recover, DeliverAccount, DeliverVenue, Evaluate, Deny,
     DropAtDeadline, RefuseBinding, FailCommit, Crash, Tick, EmitSnapshot,
     Trade, EnterTrade, FillEntry, CloseTrade, allVars, durable
<1> QED BY <1>1, SameLog, CommitLog

\* The risk of committed approvals is a number a snapshot can carry.
LEMMA RiskFacts ==
  ASSUME Answered, NEW S \in SUBSET CommittedReviews
  PROVE  /\ IsFiniteSet(S)
         /\ \A r \in S : [q \in S |-> CommittedRisk(q)][r] \in Nat
         /\ RiskOf(S) \in 0..(PerTradeRisk * Cardinality(Reviews))
<1> DEFINE amount == [q \in S |-> CommittedRisk(q)]
           padded == [q \in Reviews |-> IF q \in S THEN CommittedRisk(q) ELSE 0]
<1>1. S \subseteq Reviews /\ IsFiniteSet(Reviews) /\ PerTradeRisk \in Nat
  BY CommittedFacts, CoordinatorAssumption
<1>2. IsFiniteSet(S)
  BY <1>1, FS_Subset
<1>3. \A q \in S : CommittedRisk(q) \in 1..PerTradeRisk
  BY CommittedFacts
<1>4. \A q \in Reviews : padded[q] \in 0..PerTradeRisk
  BY <1>1, <1>3
<1>5. \A q \in S : amount[q] \in Nat /\ amount[q] <= padded[q]
  BY <1>1, <1>3
<1>6. \A q \in Reviews : padded[q] \in Nat
  BY <1>1, <1>4
<1> HIDE DEF amount, padded
<1>7. Total(padded, Reviews) <= PerTradeRisk * Cardinality(Reviews)
  BY <1>1, <1>4, TotalBound
<1>8. Total(amount, S) <= Total(padded, Reviews)
  BY <1>1, <1>5, <1>6, TotalMonotone
<1>9. Total(amount, S) \in Nat /\ Total(padded, Reviews) \in Nat
  BY <1>1, <1>2, <1>5, <1>6, TotalType
<1>10. PerTradeRisk * Cardinality(Reviews) \in Nat
  BY <1>1, FS_CardinalityType
<1>11. Total(amount, S) \in 0..(PerTradeRisk * Cardinality(Reviews))
  BY <1>7, <1>8, <1>9, <1>10
<1> QED BY <1>2, <1>5, <1>11 DEF RiskOf, amount

-----------------------------------------------------------------------------
(***************************************************************************)
(* The coordinator among its surroundings.                                 *)
(***************************************************************************)
\* A restarted process satisfies the coordinator's invariant again.
LEMMA CrashInv ==
  ASSUME Crash
  PROVE  IInv'
<1>1. Init'
  BY DEF Crash, Init
<1>2. Init' => IInv'
  BY InitInv, PTL
<1> QED BY <1>1, <1>2

\* What recovery restores: the committed approvals not yet expired, each at its
\* committed risk.
RecoveredRows == AtIndices(log, {i \in DOMAIN log : ExpiresAt[log[i].review] >= clock})
RecoveredOrder == [i \in DOMAIN RecoveredRows |-> RecoveredRows[i].review]
RecoveredRisk == [r \in Reviews |-> IF r \in CommittedReviews THEN CommittedRisk(r) ELSE 0]
Restorable == {r \in CommittedReviews : ExpiresAt[r] >= clock}

LEMMA RecoverRestores ==
  ASSUME Answered, Recover
  PROVE  /\ RestoreReservations(RecoveredOrder, RecoveredRisk)
         /\ {RecoveredOrder[i] : i \in DOMAIN RecoveredOrder} = Restorable
         /\ \A r \in Reviews : RecoveredRisk[r] \in Nat
<1> DEFINE I == {i \in DOMAIN log : ExpiresAt[log[i].review] >= clock}
<1>1. DOMAIN log = 1..Len(log) /\ Len(log) \in Nat
  BY LenProperties DEF Answered
<1>2. I \in SUBSET (1..Len(log))
  BY <1>1
<1> HIDE DEF I
<1>4. RecoveredRows = AtIndices(log, I)
  BY DEF RecoveredRows, I
<1>3. /\ \A k \in DOMAIN RecoveredRows : \E i \in I : RecoveredRows[k] = log[i]
      /\ \A i \in I : \E k \in DOMAIN RecoveredRows : RecoveredRows[k] = log[i]
  <2>1. PICK n \in Nat : n = Len(log)
    BY <1>1
  <2>2. n \in Nat /\ I \in SUBSET (1..n)
    BY <1>2, <2>1
  <2> QED BY ONLY <1>4, <2>2, FilteredEntries
<1>5. \A r : r \in Restorable <=> \E i \in I : log[i].review = r
  BY DEF Restorable, CommittedReviews, I
<1>6. {RecoveredOrder[i] : i \in DOMAIN RecoveredOrder} = Restorable
  BY <1>3, <1>5 DEF RecoveredOrder
<1>7. RestoreReservations(RecoveredOrder, RecoveredRisk)
  BY DEF Recover, RecoveredOrder, RecoveredRows, RecoveredRisk
<1>8. \A r \in Reviews : RecoveredRisk[r] \in Nat
  BY CommittedFacts DEF RecoveredRisk
<1> QED BY <1>6, <1>7, <1>8

\* The coordinator's invariant is kept in this composition.
LEMMA ExposureIInv ==
  ASSUME IInv, Answered, SurroundingsOK, [ExposureNext]_allVars
  PROVE  IInv'
<1>1. CASE Recover
  BY <1>1, RecoverRestores, RestoreInv
<1>2. ASSUME NEW s \in stream, DeliverAccount(s) PROVE IInv'
  BY <1>2, ApplyAccountInv DEF SurroundingsOK, DeliverAccount
<1>3. ASSUME NEW s \in Symbols, NEW at \in VenueStamps, NEW id \in VenueIds,
             DeliverVenue(s, at, id)
      PROVE  IInv'
  <2>1. at \in Nat
    BY ExposureAssumption
  <2> QED BY <1>3, <2>1, ApplyVenueInv DEF DeliverVenue
<1>4. ASSUME NEW r \in Reviews, Evaluate(r) PROVE IInv'
  <2>1. CASE EvaluateCached(r)
    BY <2>1, UnchangedInv DEF EvaluateCached, accountVars
  <2>2. ASSUME NEW t \in 0..clock, NEW vetoed \in BOOLEAN, NEW d \in Verdicts,
               EvaluateFresh(r, t, vetoed, d)
        PROVE  IInv'
    BY <2>2, EvaluateFreshInv
  <2> QED BY <1>4, <2>1, <2>2 DEF Evaluate
<1>5. CASE Crash
  BY <1>5, CrashInv
<1>6. CASE UNCHANGED vars
  BY <1>6, UnchangedInv DEF vars
<1> QED
  BY <1>1, <1>2, <1>3, <1>4, <1>5, <1>6
  DEF ExposureNext, Deny, EvaluateDenied, DropAtDeadline, RefuseBinding, Commit,
      FailCommit, Tick, EmitSnapshot, Trade, EnterTrade, FillEntry, CloseTrade, allVars

-----------------------------------------------------------------------------
(***************************************************************************)
(* Delivered snapshots.                                                    *)
(***************************************************************************)
\* Snapshots in play never contradict each other, so one that is delivered is
\* either older than the account, or the account itself, or it is accepted and
\* opens admission (apply_account).
LEMMA DeliverFacts ==
  ASSUME IInv, SurroundingsOK, SnapshotInv, NEW s \in stream, ApplyAccount(s)
  PROVE  \/ UNCHANGED vars
         \/ /\ s.seq > latestSeq
            /\ account' = s /\ latestSeq' = s.seq /\ latestCaptured' = s.captured
            /\ accountReady'
            /\ reservations' = Reconciled(s, reservations)
            /\ UNCHANGED <<venue, decisions, lru, recoveryLoaded>>
<1>1. s \in Observed /\ s.seq \in Nat /\ s.seq >= 1 /\ s.trusted
      /\ s.captured \in Nat /\ s \in Snapshots
  <2>1. s \in Observed /\ Truthful(s)
    BY DEF Observed, SnapshotInv
  <2> QED BY <2>1 DEF Truthful, SurroundingsOK
<1>2. latestSeq # -1 =>
        /\ account \in Observed
        /\ account # NoSnapshot
        /\ account.seq = latestSeq /\ account.captured = latestCaptured
  BY DEF Observed, SnapshotInv, IInv, AccountIsLatest
<1>3. latestSeq \in Nat \cup {-1} /\ latestCaptured \in Nat \cup {-1}
  BY DEF IInv, TypeOK
<1>4. CASE IgnoreAccount(s)
  BY <1>4 DEF IgnoreAccount
<1>5. ASSUME ConflictingAccount(s) PROVE FALSE
  <2>1. s.seq = latestSeq /\ account # s
    BY <1>5 DEF ConflictingAccount
  <2>2. latestSeq # -1
    BY <1>1, <2>1
  <2> QED BY <1>1, <1>2, <2>1, <2>2 DEF SnapshotInv
<1>6. ASSUME RegressingAccount(s) PROVE FALSE
  <2>1. s.seq > latestSeq /\ s.captured < latestCaptured
    BY <1>6 DEF RegressingAccount
  <2>2. latestSeq # -1
    BY <1>1, <1>3, <2>1 DEF SnapshotInv
  <2>3. InOrder(account, s)
    BY <1>1, <1>2, <2>1, <2>2 DEF SnapshotInv
  <2>4. account.captured <= s.captured
    BY <2>3 DEF InOrder
  <2> QED BY <1>1, <1>2, <1>3, <2>1, <2>2, <2>4
<1>7. CASE AcceptAccount(s)
  <2>1. IsAuthoritative(s)
    BY <1>1 DEF IsAuthoritative
  <2>2. ~ReconcileFails(s, reservations)
    <3>1. Truthful(s)
      BY <1>1 DEF SnapshotInv
    <3> QED BY <3>1 DEF ReconcileFails, Held, Truthful
  <2> QED BY <1>7, <2>1, <2>2 DEF AcceptAccount, Reconcile, cacheVars
<1> QED BY <1>4, <1>5, <1>6, <1>7 DEF ApplyAccount

\* Steps that neither trade nor emit keep the snapshots in play consistent.
LEMMA SnapshotFrame ==
  ASSUME SnapshotInv, SurroundingsOK, LogGrows, StartInv,
         Observed' \subseteq Observed,
         latestSeq' = -1 <=> account' = NoSnapshot,
         latestSeq' = -1 => latestCaptured' = -1,
         UNCHANGED <<exchange, emitted>>,
         clock' \in Nat, clock' >= clock
  PROVE  SnapshotInv'
<1>1. OpenTrades' = OpenTrades
  BY DEF OpenTrades
<1>2. ASSUME NEW s \in Observed
      PROVE  Truthful(s)'
  <2>1. Truthful(s)
    BY DEF SnapshotInv
  <2>2. Shown(s) \in SUBSET CommittedReviews
    BY <2>1 DEF Truthful, StartInv, Shown
  <2>3. RiskOf(Shown(s))' = RiskOf(Shown(s))
    BY <2>2 DEF LogGrows
  <2>4. s.captured \in 0..clock'
    BY <2>1 DEF Truthful, SurroundingsOK
  <2> QED BY <1>1, <2>1, <2>3, <2>4 DEF Truthful
<1>3. \A s, z : InOrder(s, z) => InOrder(s, z)'
  BY DEF InOrder
<1> QED BY <1>2, <1>3 DEF SnapshotInv

\* A new snapshot shows exactly the open trades.
LEMMA EmitSnapshotInv ==
  ASSUME IInv, Answered, SnapshotInv, SurroundingsOK, StartInv, EmitSnapshot
  PROVE  /\ SnapshotInv'
         /\ stream' \subseteq Snapshots
         /\ \A s \in stream' \ stream : Shown(s) = OpenTrades
<1>0. PICK z : z = [seq |-> emitted + 1, captured |-> clock, trusted |-> TRUE,
                    rep |-> [r \in Reviews |-> IF r \in OpenTrades
                                               THEN exchange[r] ELSE "none"],
                    openRisk |-> RiskOf(OpenTrades)]
  OBVIOUS
<1>1. /\ emitted' = emitted + 1 /\ emitted < MaxSeq /\ stream' = stream \cup {z}
      /\ UNCHANGED <<account, latestSeq, latestCaptured, clock, exchange, log>>
  BY <1>0 DEF EmitSnapshot, vars, durable
<1>2. /\ clock \in Nat /\ emitted \in Nat /\ clock \in 0..MaxTime
      /\ MaxSeq \in Nat /\ MaxTime \in Nat
  BY ExposureAssumption DEF SurroundingsOK
<1>3. OpenTrades \in SUBSET CommittedReviews /\ OpenTrades \subseteq Reviews
  BY DEF OpenTrades, StartInv
<1>4. \A q \in OpenTrades : exchange[q] \in {"entry", "position"}
  BY DEF OpenTrades
<1>5. /\ z.seq = emitted + 1 /\ z.captured = clock /\ z.trusted
      /\ z.openRisk = RiskOf(OpenTrades)
      /\ z.rep \in [Reviews -> {"none", "entry", "position"}]
      /\ Shown(z) = OpenTrades
  BY <1>0, <1>3, <1>4 DEF Shown
<1>6. z \in Snapshots
  <2>1. z.openRisk \in 0..(PerTradeRisk * Cardinality(Reviews))
    BY <1>3, <1>5, RiskFacts
  <2>2. z.seq \in 1..MaxSeq
    BY <1>1, <1>2, <1>5
  <2>3. z \in [seq : 1..MaxSeq, captured : 0..MaxTime, trusted : {TRUE},
               rep : [Reviews -> {"none", "entry", "position"}],
               openRisk : 0..(PerTradeRisk * Cardinality(Reviews))]
    <3>1. /\ clock \in 0..MaxTime
          /\ [r \in Reviews |-> IF r \in OpenTrades THEN exchange[r] ELSE "none"]
               \in [Reviews -> {"none", "entry", "position"}]
      BY <1>2, <1>4
    <3> QED BY <1>0, <1>2, <1>5, <2>1, <2>2, <3>1
  <2> QED BY <2>3, ExposureAssumption
<1>7. Observed' = Observed \cup {z}
  BY <1>1 DEF Observed
<1>8. OpenTrades' = OpenTrades /\ \A S : RiskOf(S)' = RiskOf(S)
  BY <1>1 DEF OpenTrades, RiskOf, CommittedRisk
<1>9. ASSUME NEW s \in Observed
      PROVE  Truthful(s) /\ s.seq \in Nat /\ s.seq <= emitted
  BY <1>2 DEF SnapshotInv, Truthful
<1>10. \A s \in Observed' : Truthful(s)'
  <2>1. \A s \in Observed : Truthful(s)'
    BY <1>1, <1>2, <1>8, <1>9 DEF Truthful
  <2>2. Truthful(z)'
    BY <1>1, <1>2, <1>4, <1>5, <1>8 DEF Truthful
  <2> QED BY <1>7, <2>1, <2>2
<1>11. \A s \in Observed : InOrder(s, z)'
  <2> SUFFICES ASSUME NEW s \in Observed PROVE InOrder(s, z)'
    OBVIOUS
  <2>1. Truthful(s)
    BY <1>9
  <2>2. \A q \in Shown(s) \ OpenTrades : exchange[q] = "closed"
    BY <2>1 DEF Truthful, Shown, OpenTrades, SurroundingsOK
  <2>3. s.captured <= z.captured
    BY <1>2, <1>5, <2>1 DEF Truthful
  <2> QED BY <1>1, <1>5, <2>1, <2>2, <2>3 DEF InOrder, Truthful
<1>12. \A s, v : InOrder(s, v) => InOrder(s, v)'
  BY <1>1 DEF InOrder
<1>13. \A s, v \in Observed : /\ s.seq = v.seq => s = v
                              /\ s.seq < v.seq => InOrder(s, v)
  BY DEF SnapshotInv
<1>14. \A s, v \in Observed' : /\ s.seq = v.seq => s = v
                               /\ s.seq < v.seq => InOrder(s, v)'
  <2> SUFFICES ASSUME NEW s \in Observed', NEW v \in Observed'
               PROVE  /\ s.seq = v.seq => s = v
                      /\ s.seq < v.seq => InOrder(s, v)'
    OBVIOUS
  <2>1. CASE s \in Observed /\ v \in Observed
    BY <1>12, <1>13, <2>1
  <2>2. CASE s = z /\ v = z
    BY <1>2, <1>5, <2>2
  <2>3. CASE s \in Observed /\ v = z
    BY <1>2, <1>5, <1>9, <1>11, <2>3
  <2>4. CASE s = z /\ v \in Observed
    BY <1>2, <1>5, <1>9, <2>4
  <2> QED BY <1>7, <2>1, <2>2, <2>3, <2>4
<1>15. \A s, v, w \in Observed' :
         s.seq < v.seq /\ v.seq < w.seq => NoReopening(s, v, w)
  <2> SUFFICES ASSUME NEW s \in Observed', NEW v \in Observed', NEW w \in Observed',
                      s.seq < v.seq, v.seq < w.seq
               PROVE  NoReopening(s, v, w)
    OBVIOUS
  <2>1. s \in Observed /\ v \in Observed
    <3>1. \A x \in Observed' : x.seq \in Nat /\ x.seq <= emitted + 1
      BY <1>2, <1>5, <1>7, <1>9
    <3>2. s.seq < emitted + 1 /\ v.seq < emitted + 1
      BY <1>2, <3>1
    <3> QED BY <1>2, <1>5, <1>7, <3>2
  <2>2. CASE w \in Observed
    BY <2>1, <2>2 DEF SnapshotInv
  <2>3. CASE w = z
    <3>1. InOrder(s, v)
      BY <1>13, <2>1
    <3>2. \A q \in OpenTrades : exchange[q] # "closed"
      BY <1>4
    <3> QED BY <1>5, <2>3, <3>1, <3>2 DEF InOrder, NoReopening
  <2> QED BY <1>7, <2>2, <2>3
<1>16. SnapshotInv'
  <2>1. /\ latestSeq' = -1 <=> account' = NoSnapshot
        /\ latestSeq' = -1 => latestCaptured' = -1
    BY <1>1 DEF SnapshotInv
  <2> QED BY <1>10, <1>14, <1>15, <2>1 DEF SnapshotInv, NoReopening, Shown
<1>17. stream' \subseteq Snapshots
  BY <1>1, <1>6 DEF SurroundingsOK
<1> QED BY <1>1, <1>5, <1>16, <1>17

\* What the exchange may do to one trade.
TradeStep(r) ==
  /\ r \in Reviews
  /\ \/ r \in Executable /\ Trade(r, "entry")
     \/ exchange[r] = "entry" /\ Trade(r, "position")
     \/ r \in OpenTrades /\ Trade(r, "closed")

\* Trading takes nothing back that a snapshot has shown.
LEMMA TradeInv ==
  ASSUME IInv, Answered, SnapshotInv, SurroundingsOK, NEW r, TradeStep(r)
  PROVE  /\ SnapshotInv'
         /\ exchange' \in [Reviews -> {"idle", "entry", "position", "closed"}]
         /\ OpenTrades' \subseteq OpenTrades \cup (Executable \cap {r})
         /\ Executable' \subseteq Executable
         /\ OpenTrades' \subseteq Reviews
<1>1. /\ UNCHANGED <<account, latestSeq, latestCaptured, clock, log, stream, emitted>>
      /\ r \in Reviews
      /\ exchange \in [Reviews -> {"idle", "entry", "position", "closed"}]
  BY DEF TradeStep, Trade, vars, durable, SurroundingsOK
<1>2. PICK state \in {"entry", "position", "closed"} :
        /\ exchange' = [exchange EXCEPT ![r] = state]
        /\ state = "entry" => r \in Executable
        /\ state # "entry" => r \in OpenTrades
  BY DEF TradeStep, Trade, OpenTrades
<1>3. /\ exchange' \in [Reviews -> {"idle", "entry", "position", "closed"}]
      /\ exchange'[r] = state
      /\ \A q \in Reviews \ {r} : exchange'[q] = exchange[q]
  BY <1>1, <1>2
<1>4. exchange[r] # "closed" /\ exchange'[r] # "idle"
  BY <1>2, <1>3 DEF Executable, OpenTrades
<1>5. OpenTrades' \subseteq OpenTrades \cup (Executable \cap {r})
  BY <1>2, <1>3 DEF OpenTrades
<1>6. CommittedReviews' = CommittedReviews /\ LogGrows
  BY <1>1, SameLog
<1>7. Executable' \subseteq Executable
  <2>1. CommittedReviews \subseteq Reviews
    BY CommittedFacts
  <2> QED BY <1>1, <1>3, <1>4, <1>6, <2>1 DEF Executable
<1>8. \A S : RiskOf(S)' = RiskOf(S)
  BY <1>1 DEF RiskOf, CommittedRisk
<1>9. Observed' = Observed
  BY <1>1 DEF Observed
<1>10. ASSUME NEW s \in Observed
       PROVE  Truthful(s)'
  <2>1. Truthful(s)
    BY DEF SnapshotInv
  <2>2. \A q \in Shown(s) : exchange'[q] # "idle"
    BY <1>3, <1>4, <2>1 DEF Truthful, Shown
  <2>3. \A q \in OpenTrades' \ Shown(s) : s.captured <= ExpiresAt[q]
    <3> SUFFICES ASSUME NEW q \in OpenTrades', q \notin Shown(s)
                 PROVE  s.captured <= ExpiresAt[q]
      OBVIOUS
    <3>1. CASE q \in OpenTrades
      BY <2>1, <3>1 DEF Truthful
    <3>2. CASE q \in Executable /\ q = r
      <4>1. ExpiresAt[q] \in Nat /\ clock <= ExpiresAt[q] /\ clock \in Nat
        BY <1>1, <3>2, CoordinatorAssumption DEF Executable, SurroundingsOK
      <4> QED BY <2>1, <4>1 DEF Truthful
    <3> QED BY <1>5, <3>1, <3>2
  <2> QED BY <1>1, <1>8, <2>1, <2>2, <2>3 DEF Truthful
<1>11. ASSUME NEW s, NEW z, InOrder(s, z)
       PROVE  InOrder(s, z)'
  <2>1. \A q \in Shown(s) \ Shown(z) : exchange'[q] = "closed"
    BY <1>3, <1>4, <1>11 DEF InOrder, Shown
  <2> QED BY <1>11, <2>1 DEF InOrder
<1>12. /\ latestSeq' = -1 <=> account' = NoSnapshot
       /\ latestSeq' = -1 => latestCaptured' = -1
  BY <1>1 DEF SnapshotInv
<1>13. SnapshotInv'
  BY <1>9, <1>10, <1>11, <1>12 DEF SnapshotInv, NoReopening, Shown
<1>14. OpenTrades' \subseteq Reviews
  BY DEF OpenTrades
<1> QED BY <1>3, <1>5, <1>7, <1>13, <1>14

-----------------------------------------------------------------------------
(***************************************************************************)
(* What each step does to reservations and cached verdicts.                *)
(***************************************************************************)
LEMMA ReservedType ==
  ASSUME NEW res \in [Reviews -> Reservation]
  PROVE  /\ IsFiniteSet(Held(res)) /\ Held(res) \subseteq Reviews
         /\ \A r \in Reviews : [q \in Reviews |-> res[q].risk][r] = res[r].risk
         /\ \A r \in Reviews : res[r].risk \in Nat
         /\ ReservedRisk(res) \in Nat
<1>1. IsFiniteSet(Held(res))
  BY CoordinatorAssumption, FS_Subset DEF Held
<1>2. \A r \in Reviews : [q \in Reviews |-> res[q].risk][r] \in Nat
  BY DEF Reservation
<1> QED BY <1>1, <1>2, TotalType DEF ReservedRisk, Held

\* A fresh approval reserves a free symbol and no more than what is left; the
\* trim may forget verdicts but adds none.
LEMMA FreshFacts ==
  ASSUME IInv, NEW r \in Reviews, NEW t, NEW vetoed, NEW d \in Verdicts,
         EvaluateFresh(r, t, vetoed, d)
  PROVE  /\ UNCHANGED <<accountVars, venue, recoveryLoaded>> /\ recoveryLoaded
         /\ d.verdict # "approved" => UNCHANGED reservations
         /\ d.verdict = "approved" =>
              /\ SymbolFree(r) /\ CanaryFree(r)
              /\ d.risk \in Nat /\ d.risk <= RemainingRisk
              /\ r \notin Held(reservations)
              /\ Held(reservations') = Held(reservations) \cup {r}
              /\ reservations'[r].risk = d.risk
              /\ \A q \in Reviews \ {r} : reservations'[q] = reservations[q]
         /\ \A q \in Reviews : decisions'[q].verdict = "approved" =>
              \/ q = r /\ d.verdict = "approved"
              \/ decisions[q].verdict = "approved"
<1>1. /\ UNCHANGED <<accountVars, venue, recoveryLoaded>> /\ recoveryLoaded
      /\ d.verdict # "approved" => UNCHANGED reservations
  BY DEF EvaluateFresh, Unavailable, RecoveryComplete
<1>2. /\ reservations \in [Reviews -> Reservation]
      /\ decisions \in [Reviews -> Decision]
      /\ account \in Snapshots \cup {NoSnapshot}
  BY DEF IInv, TypeOK
<1>3. ASSUME d.verdict = "approved"
      PROVE  /\ SymbolFree(r) /\ CanaryFree(r)
             /\ d.risk \in Nat /\ d.risk <= RemainingRisk
             /\ r \notin Held(reservations)
             /\ Held(reservations') = Held(reservations) \cup {r}
             /\ reservations'[r].risk = d.risk
             /\ \A q \in Reviews \ {r} : reservations'[q] = reservations[q]
  <2>1. Admissible(r, t) /\ \E risk \in 1..LossBudget : d = Approval(risk)
    BY <1>3 DEF EvaluateFresh, Rejection
  <2>2. d.risk \in 1..LossBudget
    BY <2>1 DEF Approval
  <2>3. RemainingRisk \in Int
    <3>1. account.openRisk \in Nat
      BY <1>2, CoordinatorAssumption DEF Snapshot, NoSnapshot
    <3> QED BY <1>2, <3>1, ReservedType, CoordinatorAssumption DEF RemainingRisk
  <2>4. d.risk \in Nat /\ d.risk <= RemainingRisk
    BY <2>2, <2>3, CoordinatorAssumption DEF LossBudget
  <2>5. SymbolFree(r) /\ CanaryFree(r) /\ r \notin Held(reservations)
    BY <2>1 DEF Admissible, SymbolFree
  <2>6. \E seq : reservations' = [reservations EXCEPT ![r] = Hold(d.risk, seq)]
    BY <1>3 DEF EvaluateFresh
  <2>7. /\ reservations'[r].risk = d.risk /\ reservations'[r].held
        /\ \A q \in Reviews \ {r} : reservations'[q] = reservations[q]
    BY <1>2, <2>6 DEF Hold
  <2>8. Held(reservations') = Held(reservations) \cup {r}
    BY <2>7 DEF Held
  <2> QED BY <2>4, <2>5, <2>7, <2>8
<1>4. ASSUME NEW q \in Reviews, decisions'[q].verdict = "approved"
      PROVE  \/ q = r /\ d.verdict = "approved"
             \/ decisions[q].verdict = "approved"
  <2> DEFINE cache == [decisions EXCEPT ![r] = d]
  <2>1. decisions'[q] \in {Undecided, cache[q]}
    BY DEF EvaluateFresh, StoreTrimmed
  <2>2. decisions'[q] = cache[q]
    BY <1>4, <2>1 DEF Undecided
  <2> QED BY <1>2, <1>4, <2>2
<1> QED BY <1>1, <1>3, <1>4

\* Recovery reserves exactly the committed approvals that may still be entered.
LEMMA RecoverFacts ==
  ASSUME IInv, Answered, SnapshotInv, StartInv, Recover
  PROVE  /\ ~recoveryLoaded /\ recoveryLoaded'
         /\ UNCHANGED <<account, latestSeq, latestCaptured>>
         /\ Held(reservations') = Restorable
         /\ \A q \in Restorable : reservations'[q].risk = CommittedRisk(q)
         /\ \A q \in Reviews : decisions'[q].verdict = "approved" => q \in Restorable
<1> DEFINE restored == {RecoveredOrder[i] : i \in DOMAIN RecoveredOrder}
           res == [r \in Reviews |-> IF r \in restored THEN Hold(RecoveredRisk[r], 0)
                                                       ELSE reservations[r]]
           cache == [r \in Reviews |-> IF r \in restored THEN Approval(RecoveredRisk[r])
                                                         ELSE decisions[r]]
<1>1. /\ RestoreReservations(RecoveredOrder, RecoveredRisk)
      /\ restored = Restorable
  BY RecoverRestores
<1>2. /\ ~recoveryLoaded /\ recoveryLoaded'
      /\ StoreTrimmed(cache, lru \o RecoveredOrder, res)
      /\ account = NoSnapshot => reservations' = res /\ UNCHANGED <<account, accountReady>>
      /\ UNCHANGED <<latestSeq, latestCaptured>>
  BY <1>1 DEF RestoreReservations
<1>3. /\ account = NoSnapshot
      /\ decisions = [r \in Reviews |-> Undecided]
      /\ Held(reservations) = {}
  BY <1>2 DEF StartInv, SnapshotInv, IInv, NothingHeldEarly
<1>4. Restorable \subseteq Reviews
  BY CommittedFacts DEF Restorable
<1>5. \A q \in Reviews : decisions'[q] \in {Undecided, cache[q]}
  BY <1>2 DEF StoreTrimmed
<1> HIDE DEF restored
<1>6. Held(reservations') = Restorable
  BY <1>1, <1>2, <1>3, <1>4 DEF Held, Hold
<1>7. \A q \in Restorable : reservations'[q].risk = CommittedRisk(q)
  <2>1. \A q \in Restorable : q \in CommittedReviews
    BY DEF Restorable
  <2> QED BY <1>1, <1>2, <1>3, <1>4, <2>1 DEF Hold, RecoveredRisk
<1>8. \A q \in Reviews : decisions'[q].verdict = "approved" => q \in Restorable
  BY <1>1, <1>3, <1>5 DEF Undecided
<1> QED BY <1>2, <1>3, <1>6, <1>7, <1>8

\* A delivered snapshot releases what it shows and what can no longer be
\* entered, and nothing else.
LEMMA DeliverReleases ==
  ASSUME IInv, SurroundingsOK, SnapshotInv, NEW s \in stream,
         reservations' = Reconciled(s, reservations)
  PROVE  /\ Held(reservations') \subseteq Held(reservations)
         /\ \A q \in Held(reservations') : reservations'[q] = reservations[q]
         /\ Held(reservations') \cap Shown(s) = {}
         /\ \A q \in Held(reservations) \ Held(reservations') :
              q \in Shown(s) \/ s.captured > ExpiresAt[q]
<1>1. reservations \in [Reviews -> Reservation]
  BY DEF IInv, TypeOK
<1>2. /\ Held(reservations') = Held(reservations) \ Released(s, reservations)
      /\ \A q \in Held(reservations') : reservations'[q] = reservations[q]
  BY <1>1, ReconciledHeld
<1>3. Truthful(s)
  BY DEF SnapshotInv, Observed
<1>4. \A q \in Reviews : s.rep[q] \in {"none", "entry", "position"}
  BY <1>3 DEF Truthful
<1> QED BY <1>2, <1>4 DEF Released, Shown, Held

-----------------------------------------------------------------------------
(***************************************************************************)
(* Every step keeps the invariant.                                         *)
(***************************************************************************)
LEMMA SurroundingsNext ==
  ASSUME IInv, Answered, SnapshotInv, SurroundingsOK, StartInv,
         [ExposureNext]_allVars
  PROVE  SurroundingsOK' /\ clock' \in Nat /\ clock' >= clock
<1>0. /\ {MaxTime, MaxSeq} \subseteq Nat
      /\ clock \in Nat
  BY ExposureAssumption DEF SurroundingsOK
<1>1. CASE EmitSnapshot
  <2>1. emitted' \in 0..MaxSeq
    BY <1>0, <1>1 DEF EmitSnapshot, SurroundingsOK
  <2> QED BY <1>0, <1>1, <2>1, EmitSnapshotInv DEF EmitSnapshot, SurroundingsOK, bounds
<1>2. ASSUME NEW r \in Reviews, EnterTrade(r) \/ FillEntry(r) \/ CloseTrade(r)
      PROVE  SurroundingsOK' /\ clock' \in Nat /\ clock' >= clock
  <2>1. TradeStep(r)
    BY <1>2 DEF TradeStep, EnterTrade, FillEntry, CloseTrade
  <2>2. exchange' \in [Reviews -> {"idle", "entry", "position", "closed"}]
    BY <2>1, TradeInv
  <2> QED BY <1>0, <2>1, <2>2 DEF TradeStep, Trade, SurroundingsOK, bounds
<1>3. CASE Tick
  BY <1>0, <1>3 DEF Tick, SurroundingsOK, outside, bounds
<1>4. CASE FailCommit \/ Crash
  BY <1>0, <1>4 DEF FailCommit, Crash, SurroundingsOK, outside
<1>5. CASE UNCHANGED <<clock, exchange, emitted, bounds>> /\ stream' \subseteq stream
  BY <1>0, <1>5 DEF SurroundingsOK, bounds
<1> QED
  BY <1>1, <1>2, <1>3, <1>4, <1>5
  DEF ExposureNext, Recover, DeliverAccount, DeliverVenue, Evaluate, Deny,
      DropAtDeadline, RefuseBinding, Commit, outside, allVars, bounds

LEMMA StartNext ==
  ASSUME IInv, Answered, SnapshotInv, SurroundingsOK, StartInv,
         [ExposureNext]_allVars
  PROVE  StartInv'
<1>1. LogGrows
  BY StepGrowsLog
<1>2. ASSUME UNCHANGED exchange
      PROVE  \A r \in Reviews : exchange'[r] # "idle" => r \in CommittedReviews'
  BY <1>1, <1>2 DEF StartInv, LogGrows
<1>3. ASSUME NEW r \in Reviews, EnterTrade(r) \/ FillEntry(r) \/ CloseTrade(r)
      PROVE  StartInv'
  <2>1. exchange[r] # "idle" \/ r \in CommittedReviews
    BY <1>3 DEF EnterTrade, FillEntry, CloseTrade, Executable, OpenTrades
  <2>2. \A q \in Reviews : q # r => exchange'[q] = exchange[q]
    BY <1>3 DEF EnterTrade, FillEntry, CloseTrade, Trade, SurroundingsOK
  <2>3. \A q \in Reviews : exchange'[q] # "idle" => q \in CommittedReviews'
    BY <1>1, <2>1, <2>2 DEF StartInv, LogGrows
  <2> QED BY <1>3, <2>3
          DEF EnterTrade, FillEntry, CloseTrade, Trade, StartInv, vars, durable, bounds
<1>4. CASE Crash
  <2>1. crashes' # 0
    BY <1>4 DEF Crash, SurroundingsOK
  <2> QED BY <1>2, <1>4, <2>1 DEF Crash, StartInv, outside
<1>5. CASE UNCHANGED exchange /\ recoveryLoaded'
  BY <1>2, <1>5 DEF StartInv
<1>6. CASE UNCHANGED <<exchange, vars, inflight, log, crashes>>
  BY <1>2, <1>6 DEF StartInv, vars
<1>7. ASSUME UNCHANGED <<vars, exchange>>, inflight # Idle
      PROVE  StartInv'
  BY <1>2, <1>7 DEF StartInv, vars
<1>8. ASSUME NEW r \in Reviews, Evaluate(r)
      PROVE  StartInv'
  BY <1>5, <1>8
  DEF Evaluate, EvaluateCached, EvaluateFresh, Unavailable, RecoveryComplete, outside
<1>9. ASSUME NEW r \in Reviews, Deny(r)
      PROVE  StartInv'
  BY <1>5, <1>9 DEF Deny, EvaluateDenied, Unavailable, RecoveryComplete, outside, vars
<1>10. CASE RefuseBinding
  <2>1. inflight # Idle
    BY <1>10 DEF RefuseBinding, Idle, Undecided
  <2> QED BY <1>7, <1>10, <2>1 DEF RefuseBinding, EvaluateDenied, outside
<1>11. ASSUME NEW s \in stream, DeliverAccount(s)
       PROVE  StartInv'
  <2>1. recoveryLoaded'
    BY <1>11, DeliverFacts DEF DeliverAccount, vars
  <2> QED BY <1>5, <1>11, <2>1 DEF DeliverAccount
<1>12. ASSUME NEW s \in Symbols, NEW at \in VenueStamps, NEW id \in VenueIds,
              DeliverVenue(s, at, id)
       PROVE  StartInv'
  BY <1>5, <1>12
  DEF DeliverVenue, ApplyVenue, IgnoreVenue, ConflictingVenue, AcceptVenue, outside, vars
<1>13. CASE Recover
  BY <1>5, <1>13, RecoverFacts DEF Recover, outside
<1>14. CASE Commit \/ FailCommit
  BY <1>7, <1>14 DEF Commit, FailCommit, outside
<1>15. CASE Tick \/ EmitSnapshot \/ UNCHANGED allVars
  BY <1>6, <1>15 DEF Tick, EmitSnapshot, outside, durable, bounds, allVars
<1>16. ASSUME NEW r \in Reviews, DropAtDeadline(r)
       PROVE  StartInv'
  BY <1>5, <1>16 DEF DropAtDeadline, outside, vars
<1> QED
  BY <1>3, <1>4, <1>8, <1>9, <1>10, <1>11, <1>12, <1>13, <1>14, <1>15, <1>16
  DEF ExposureNext

LEMMA SnapshotNext ==
  ASSUME IInv, Answered, SnapshotInv, SurroundingsOK, StartInv,
         [ExposureNext]_allVars
  PROVE  SnapshotInv'
<1>1. LogGrows /\ clock' \in Nat /\ clock' >= clock
  BY StepGrowsLog, SurroundingsNext
<1>2. ASSUME UNCHANGED <<account, latestSeq, latestCaptured, exchange, emitted>>,
             stream' \subseteq stream
      PROVE  SnapshotInv'
  <2>1. Observed' \subseteq Observed
    BY <1>2 DEF Observed
  <2>2. /\ latestSeq' = -1 <=> account' = NoSnapshot
        /\ latestSeq' = -1 => latestCaptured' = -1
    BY <1>2 DEF SnapshotInv
  <2> QED BY <1>1, <1>2, <2>1, <2>2, SnapshotFrame
<1>3. CASE EmitSnapshot
  BY <1>3, EmitSnapshotInv
<1>4. ASSUME NEW r \in Reviews, EnterTrade(r) \/ FillEntry(r) \/ CloseTrade(r)
      PROVE  SnapshotInv'
  BY <1>4, TradeInv DEF TradeStep, EnterTrade, FillEntry, CloseTrade
<1>5. CASE Crash
  <2>1. Observed' \subseteq Observed
    BY <1>5 DEF Crash, Observed, outside
  <2> QED BY <1>1, <1>5, <2>1, SnapshotFrame DEF Crash, outside
<1>6. ASSUME NEW s \in stream, DeliverAccount(s)
      PROVE  SnapshotInv'
  <2>1. CASE UNCHANGED vars
    BY <1>2, <1>6, <2>1 DEF DeliverAccount, vars
  <2>2. CASE /\ account' = s /\ latestSeq' = s.seq /\ latestCaptured' = s.captured
    <3>1. Observed' \subseteq Observed
      BY <1>6, <2>2 DEF DeliverAccount, Observed
    <3>2. Truthful(s) /\ s # NoSnapshot
      BY CoordinatorAssumption DEF SnapshotInv, Observed, SurroundingsOK
    <3>3. latestSeq' # -1
      BY <2>2, <3>2 DEF Truthful
    <3> QED BY <1>1, <1>6, <2>2, <3>1, <3>2, <3>3, SnapshotFrame DEF DeliverAccount
  <2> QED BY <1>6, <2>1, <2>2, DeliverFacts DEF DeliverAccount
<1>7. CASE Recover
  BY <1>2, <1>7, RecoverFacts DEF Recover, RestoreReservations, outside
<1>8. CASE UNCHANGED <<accountVars, exchange, emitted, stream>>
  BY <1>2, <1>8 DEF accountVars
<1>9. ASSUME NEW r \in Reviews, Evaluate(r)
      PROVE  SnapshotInv'
  BY <1>8, <1>9 DEF Evaluate, EvaluateCached, EvaluateFresh, outside
<1> QED
  BY <1>3, <1>4, <1>5, <1>6, <1>7, <1>8, <1>9
  DEF ExposureNext, DeliverVenue, ApplyVenue, IgnoreVenue, ConflictingVenue, AcceptVenue,
      Deny, EvaluateDenied, DropAtDeadline, RefuseBinding, Commit, FailCommit, Tick,
      outside, allVars, vars, accountVars

\* Steps that end reservations only for trades that were entered or can no
\* longer be, and approve nothing, keep approvals reserved.
LEMMA ReservedFrame ==
  ASSUME IInv, Answered, SurroundingsOK, ReservedInv,
         UNCHANGED log, recoveryLoaded' => recoveryLoaded,
         inbox' \subseteq inbox,
         inflight' = inflight \/ inflight'.decision.verdict # "approved",
         Executable' \subseteq Executable,
         clock' \in Nat, clock' >= clock,
         \A q \in Reviews : decisions'[q].verdict = "approved" =>
                              decisions[q].verdict = "approved",
         Held(reservations') \subseteq Held(reservations),
         \A q \in Held(reservations') : reservations'[q] = reservations[q],
         \A q \in Held(reservations) \ Held(reservations') :
            \/ q \in CommittedReviews /\ q \notin Executable'
            \/ clock' > ExpiresAt[q]
  PROVE  ReservedInv'
<1>1. CommittedReviews' = CommittedReviews /\ LogGrows
  BY SameLog
<1>2. clock \in Nat /\ \A q \in Reviews : ExpiresAt[q] \in Nat
  BY CoordinatorAssumption DEF SurroundingsOK
<1>3. inbox \subseteq Reviews /\ inbox \cap CommittedReviews = {}
  BY CommittedFacts DEF Answered
<1>4. \A q \in Executable' : clock' <= ExpiresAt[q] /\ q \in Reviews
  BY <1>1, CommittedFacts DEF Executable
<1>5. recoveryLoaded' => Executable' \subseteq Held(reservations')
  BY <1>1, <1>2, <1>4 DEF ReservedInv
<1>6. \A r \in Held(reservations') \cap CommittedReviews' :
        reservations'[r].risk = CommittedRisk(r)'
  BY <1>1 DEF ReservedInv, LogGrows
<1>7. \A r \in inbox' : decisions'[r].verdict = "approved" /\ clock' <= ExpiresAt[r] =>
        r \in Held(reservations')
  BY <1>2, <1>3 DEF ReservedInv
<1>8. ASSUME inflight'.decision.verdict = "approved"
      PROVE  /\ clock' <= ExpiresAt[inflight'.review] =>
                  inflight'.review \in Held(reservations')
             /\ inflight'.review \in Held(reservations') =>
                  reservations'[inflight'.review].risk = inflight'.decision.risk
  <2>1. inflight' = inflight /\ inflight # Idle
    BY <1>8 DEF Idle, Undecided
  <2>2. inflight.review \in inbox
    BY <2>1 DEF Answered
  <2> QED BY <1>2, <1>3, <1>8, <2>1, <2>2 DEF ReservedInv
<1> QED BY <1>5, <1>6, <1>7, <1>8 DEF ReservedInv

LEMMA ExecutableShrinks ==
  ASSUME Answered, SurroundingsOK, UNCHANGED <<log, exchange>>,
         clock' \in Nat, clock' >= clock
  PROVE  Executable' \subseteq Executable
<1>1. CommittedReviews' = CommittedReviews
  BY SameLog
<1>2. \A q \in CommittedReviews : ExpiresAt[q] \in Nat
  BY CommittedFacts, CoordinatorAssumption
<1> QED BY <1>1, <1>2 DEF Executable, SurroundingsOK

LEMMA ReservedEvaluate ==
  ASSUME IInv, Answered, SurroundingsOK, ReservedInv,
         clock' \in Nat, clock' >= clock,
         NEW r \in Reviews, Evaluate(r)
  PROVE  ReservedInv'
<1>1. /\ UNCHANGED <<clock, inbox, log, exchange>> /\ r \in inbox
      /\ CommittedReviews' = CommittedReviews /\ LogGrows
      /\ Executable' \subseteq Executable
      /\ r \notin CommittedReviews
  <2>1. UNCHANGED <<clock, inbox, log, exchange>> /\ r \in inbox
    BY DEF Evaluate, durable, outside
  <2> QED BY <2>1, SameLog, ExecutableShrinks, CommittedFacts
<1>2. PICK d \in Verdicts :
        /\ \/ EvaluateCached(r) /\ d = decisions[r]
           \/ \E t \in 0..clock, vetoed \in BOOLEAN : EvaluateFresh(r, t, vetoed, d)
        /\ inflight' = [review |-> r, decision |-> d]
  BY DEF Evaluate
<1>3. inflight'.review = r /\ inflight'.decision = d
  BY <1>2
<1>4. CASE EvaluateCached(r) /\ d = decisions[r]
  <2>1. UNCHANGED <<reservations, decisions, recoveryLoaded>>
    BY <1>4 DEF EvaluateCached
  <2>2. r \in Held(reservations) => reservations[r].risk = d.risk
    <3>1. r \in Held(reservations) => decisions[r] = Approval(reservations[r].risk)
      BY DEF IInv, ReplayIdentityRetained
    <3>2. \A n : Approval(n).risk = n
      BY DEF Approval
    <3> QED BY <1>4, <3>1, <3>2
  <2>3. d.verdict = "approved" /\ clock <= ExpiresAt[r] => r \in Held(reservations)
    BY <1>1, <1>4 DEF ReservedInv
  <2> QED BY <1>1, <1>3, <2>1, <2>2, <2>3 DEF ReservedInv, LogGrows
<1>5. ASSUME NEW t, NEW vetoed, EvaluateFresh(r, t, vetoed, d)
      PROVE  ReservedInv'
  <2>1. /\ UNCHANGED recoveryLoaded
        /\ d.verdict # "approved" => UNCHANGED reservations
        /\ d.verdict = "approved" =>
             /\ Held(reservations') = Held(reservations) \cup {r}
             /\ reservations'[r].risk = d.risk
             /\ \A q \in Reviews \ {r} : reservations'[q] = reservations[q]
        /\ \A q \in Reviews : decisions'[q].verdict = "approved" =>
             \/ q = r /\ d.verdict = "approved"
             \/ decisions[q].verdict = "approved"
    BY <1>5, FreshFacts
  <2>2. CASE d.verdict # "approved"
    <3>1. UNCHANGED reservations
      BY <2>1, <2>2
    <3> QED BY <1>1, <1>3, <2>1, <2>2, <3>1, ReservedFrame
  <2>3. CASE d.verdict = "approved"
    <3>1. /\ Held(reservations') = Held(reservations) \cup {r}
          /\ reservations'[r].risk = d.risk
          /\ \A q \in Reviews \ {r} : reservations'[q] = reservations[q]
      BY <2>1, <2>3
    <3>2. \A q \in Held(reservations') \cap CommittedReviews' :
            reservations'[q].risk = CommittedRisk(q)'
      <4>1. \A q \in CommittedReviews : q # r /\ q \in Reviews
        BY <1>1, CommittedFacts
      <4> QED BY <1>1, <3>1, <4>1 DEF ReservedInv, LogGrows
    <3>3. \A q \in inbox' : decisions'[q].verdict = "approved" /\ clock' <= ExpiresAt[q] =>
            q \in Held(reservations')
      BY <1>1, <2>1, <3>1 DEF ReservedInv, Answered
    <3>4. recoveryLoaded' => Executable' \subseteq Held(reservations')
      BY <1>1, <2>1, <3>1 DEF ReservedInv
    <3> QED BY <1>3, <3>1, <3>2, <3>3, <3>4 DEF ReservedInv
  <2> QED BY <2>2, <2>3
<1> QED BY <1>2, <1>4, <1>5

LEMMA ReservedCommit ==
  ASSUME IInv, Answered, SurroundingsOK, ReservedInv, Commit
  PROVE  ReservedInv'
<1>1. /\ UNCHANGED <<clock, exchange, reservations, decisions, recoveryLoaded>>
      /\ inbox' \subseteq inbox
      /\ inflight'.decision.verdict # "approved"
  BY DEF Commit, vars, outside, Idle, Undecided
<1>2. clock' \in Nat /\ clock' >= clock
  BY <1>1 DEF SurroundingsOK
<1>3. CASE inflight.decision.verdict # "approved"
  <2>1. UNCHANGED log
    BY <1>3, CommitLog
  <2>2. Executable' \subseteq Executable
    BY <1>1, <1>2, <2>1, ExecutableShrinks
  <2> QED BY <1>1, <1>2, <2>1, <2>2, ReservedFrame
<1>4. CASE inflight.decision.verdict = "approved"
  <2>1. /\ LogGrows
        /\ CommittedReviews' = CommittedReviews \cup {inflight.review}
        /\ \A q : q = inflight.review => CommittedRisk(q)' = inflight.decision.risk
    BY <1>4, CommitLog
  <2>2. \A q \in Executable' : \/ q \in Executable
                               \/ q = inflight.review /\ clock <= ExpiresAt[q]
    BY <1>1, <2>1 DEF Executable
  <2>3. recoveryLoaded' => Executable' \subseteq Held(reservations')
    BY <1>1, <1>4, <2>2 DEF ReservedInv
  <2>4. \A q \in Held(reservations') \cap CommittedReviews' :
          reservations'[q].risk = CommittedRisk(q)'
    <3> SUFFICES ASSUME NEW q \in Held(reservations), q \in CommittedReviews'
                 PROVE  reservations[q].risk = CommittedRisk(q)'
      BY <1>1
    <3>1. CASE q \in CommittedReviews
      BY <2>1, <3>1 DEF ReservedInv, LogGrows
    <3>2. CASE q = inflight.review
      BY <1>4, <2>1, <3>2 DEF ReservedInv
    <3> QED BY <2>1, <3>1, <3>2
  <2> QED BY <1>1, <2>3, <2>4 DEF ReservedInv
<1> QED BY <1>3, <1>4

LEMMA ReservedNext ==
  ASSUME IInv, Answered, SnapshotInv, SurroundingsOK, StartInv, ReservedInv,
         [ExposureNext]_allVars
  PROVE  ReservedInv'
<1>1. /\ LogGrows /\ clock' \in Nat /\ clock' >= clock
      /\ clock \in Nat /\ \A q \in Reviews : ExpiresAt[q] \in Nat
  BY StepGrowsLog, SurroundingsNext, CoordinatorAssumption DEF SurroundingsOK
<1>2. ASSUME UNCHANGED <<log, exchange>>
      PROVE  Executable' \subseteq Executable
  BY <1>1, <1>2, ExecutableShrinks
<1>3. ASSUME UNCHANGED <<log, recoveryLoaded, decisions, reservations>>,
             Executable' \subseteq Executable,
             inbox' \subseteq inbox,
             inflight' = inflight \/ inflight'.decision.verdict # "approved"
      PROVE  ReservedInv'
  BY <1>1, <1>3, ReservedFrame
<1>4. Idle.decision.verdict # "approved" /\ Rejection.verdict # "approved"
  BY DEF Idle, Undecided, Rejection
<1>5. CASE Recover
  <2>1. /\ recoveryLoaded' /\ Held(reservations') = Restorable
        /\ \A q \in Restorable : reservations'[q].risk = CommittedRisk(q)
        /\ \A q \in Reviews : decisions'[q].verdict = "approved" => q \in Restorable
        /\ ~recoveryLoaded
    BY <1>5, RecoverFacts
  <2>2. UNCHANGED <<log, inbox, inflight, exchange, clock>>
    BY <1>5 DEF Recover, durable, outside
  <2>3. inflight'.decision.verdict # "approved"
    BY <1>4, <2>1, <2>2 DEF StartInv
  <2>4. CommittedReviews' = CommittedReviews /\ inbox \subseteq Reviews
    BY <2>2, SameLog DEF Answered
  <2>5. Executable' \subseteq Restorable
    BY <1>1, <2>2, <2>4, CommittedFacts DEF Executable, Restorable
  <2>6. \A q \in Restorable : CommittedRisk(q)' = CommittedRisk(q)
    BY <1>1 DEF LogGrows, Restorable
  <2> QED BY <2>1, <2>2, <2>3, <2>4, <2>5, <2>6 DEF ReservedInv
<1>6. ASSUME NEW s \in stream, DeliverAccount(s)
      PROVE  ReservedInv'
  <2>1. UNCHANGED <<log, inbox, inflight, exchange, clock>> /\ ApplyAccount(s)
    BY <1>6 DEF DeliverAccount, durable
  <2>2. CASE UNCHANGED vars
    BY <1>2, <1>3, <2>1, <2>2 DEF vars
  <2>3. CASE /\ reservations' = Reconciled(s, reservations)
             /\ UNCHANGED <<venue, decisions, lru, recoveryLoaded>>
    <3>1. /\ Held(reservations') \subseteq Held(reservations)
          /\ \A q \in Held(reservations') : reservations'[q] = reservations[q]
          /\ \A q \in Held(reservations) \ Held(reservations') :
               q \in Shown(s) \/ s.captured > ExpiresAt[q]
      BY <2>3, DeliverReleases
    <3>2. Truthful(s)
      BY DEF SnapshotInv, Observed
    <3>3. \A q \in Shown(s) : q \in CommittedReviews /\ q \notin Executable'
      BY <2>1, <3>2 DEF Truthful, StartInv, Shown, Executable
    <3>4. s.captured \in Nat /\ s.captured <= clock'
      BY <1>1, <3>2 DEF Truthful
    <3>5. \A q \in Held(reservations) \ Held(reservations') :
             \/ q \in CommittedReviews /\ q \notin Executable'
             \/ clock' > ExpiresAt[q]
      BY <1>1, <3>1, <3>3, <3>4 DEF Held
    <3> QED BY <1>1, <1>2, <2>1, <2>3, <3>1, <3>5, ReservedFrame
  <2> QED BY <2>1, <2>2, <2>3, DeliverFacts
<1>7. CASE Crash
  <2>1. Held(reservations') = {} /\ \A q \in Reviews : decisions'[q].verdict # "approved"
    BY <1>7 DEF Crash, Held, Free, Undecided
  <2> QED BY <1>4, <1>7, <2>1 DEF Crash, ReservedInv, Answered, durable
<1>8. ASSUME NEW r \in Reviews, EnterTrade(r) \/ FillEntry(r) \/ CloseTrade(r)
      PROVE  ReservedInv'
  <2>1. TradeStep(r)
    BY <1>8 DEF TradeStep, EnterTrade, FillEntry, CloseTrade
  <2> QED BY <1>3, <2>1, TradeInv DEF TradeStep, Trade, vars, durable
<1>9. ASSUME NEW r \in Reviews, Evaluate(r) PROVE ReservedInv'
  BY <1>1, <1>9, ReservedEvaluate
<1>10. CASE Commit
  BY <1>10, ReservedCommit
<1>11. ASSUME NEW s \in Symbols, NEW at \in VenueStamps, NEW id \in VenueIds,
              DeliverVenue(s, at, id)
       PROVE  ReservedInv'
  BY <1>2, <1>3, <1>11
  DEF DeliverVenue, ApplyVenue, IgnoreVenue, ConflictingVenue, AcceptVenue,
      vars, cacheVars, durable, outside
<1>12. CASE Tick \/ EmitSnapshot \/ UNCHANGED allVars
  BY <1>2, <1>3, <1>12 DEF Tick, EmitSnapshot, allVars, vars, durable, outside
<1>13. ASSUME UNCHANGED <<vars, clock, log, exchange>>, inbox' \subseteq inbox,
              \/ inflight' \in {Idle, inflight}
              \/ \E q : inflight' = [review |-> q, decision |-> Rejection]
       PROVE  ReservedInv'
  <2>1. inflight' = inflight \/ inflight'.decision.verdict # "approved"
    BY <1>4, <1>13
  <2> QED BY <1>2, <1>3, <1>13, <2>1 DEF vars
<1>14. CASE RefuseBinding \/ FailCommit
  BY <1>13, <1>14 DEF RefuseBinding, EvaluateDenied, FailCommit, durable, outside
<1>15. ASSUME NEW r \in Reviews, Deny(r) \/ DropAtDeadline(r) PROVE ReservedInv'
  BY <1>13, <1>15 DEF Deny, EvaluateDenied, DropAtDeadline, durable, outside
<1> QED
  BY <1>5, <1>6, <1>7, <1>8, <1>9, <1>10, <1>11, <1>12, <1>14, <1>15
  DEF ExposureNext

-----------------------------------------------------------------------------
(***************************************************************************)
(* Until the first restart, what is reserved or shown covers what is at    *)
(* risk.                                                                   *)
(***************************************************************************)
\* The account carries the committed risk of what it shows.
LEMMA AccountShown ==
  ASSUME IInv, Answered, SnapshotInv, StartInv
  PROVE  /\ account.openRisk = RiskOf(Shown(account)) /\ account.openRisk \in Nat
         /\ Shown(account) \in SUBSET CommittedReviews
         /\ \A q \in Shown(account) : account.rep[q] \in {"entry", "position"}
<1>1. CASE account = NoSnapshot
  <2>1. Shown(account) = {} /\ account.openRisk = 0
    BY <1>1 DEF Shown, NoSnapshot
  <2> QED BY <2>1, TotalEmpty DEF RiskOf
<1>2. CASE account # NoSnapshot
  <2>1. Truthful(account)
    BY <1>2 DEF SnapshotInv, Observed
  <2>2. Shown(account) \in SUBSET CommittedReviews
    BY <2>1 DEF Truthful, StartInv, Shown
  <2>3. RiskOf(Shown(account)) \in Nat
    BY <2>2, RiskFacts, CoordinatorAssumption, FS_CardinalityType
  <2> QED BY <2>1, <2>2, <2>3 DEF Truthful, Shown
<1> QED BY <1>1, <1>2

\* Whatever a step does outside the reservations and the account.
LEMMA OccupyingFrame ==
  ASSUME OccupyingInv, UNCHANGED <<reservations, account, latestSeq>>,
         crashes' = 0 => crashes = 0,
         crashes = 0 => OpenTrades' \subseteq Occupying,
         \A s \in stream' : s \in stream \/ Shown(s) \subseteq OpenTrades
  PROVE  OccupyingInv'
<1>1. Occupying' = Occupying /\ ReservedRisk(reservations)' = ReservedRisk(reservations)
  BY DEF Occupying, Shown
<1> QED BY <1>1 DEF OccupyingInv, Shown

\* A new approval takes a free symbol and at most what the ceiling leaves.
LEMMA OccupyingFresh ==
  ASSUME IInv, Answered, SnapshotInv, StartInv, OccupyingInv,
         NEW r \in Reviews, NEW t, NEW vetoed, NEW d \in Verdicts,
         EvaluateFresh(r, t, vetoed, d), d.verdict = "approved",
         UNCHANGED <<outside, crashes>>
  PROVE  OccupyingInv'
<1>1. /\ UNCHANGED <<account, latestSeq, stream, exchange, crashes>>
      /\ SymbolFree(r) /\ CanaryFree(r)
      /\ d.risk \in Nat /\ d.risk <= RemainingRisk
      /\ r \notin Held(reservations)
      /\ Held(reservations') = Held(reservations) \cup {r}
      /\ reservations'[r].risk = d.risk
      /\ \A q \in Reviews \ {r} : reservations'[q] = reservations[q]
  BY FreshFacts DEF accountVars, outside
<1>2. Occupying' = Occupying \cup {r} /\ OpenTrades' = OpenTrades
  BY <1>1 DEF Occupying, Shown, OpenTrades
<1>3. ASSUME NEW q \in Occupying
      PROVE  SymbolOf[q] # SymbolOf[r] /\ ~(q \in CanaryReviews /\ r \in CanaryReviews)
  <2>1. q \in Held(reservations) \/ account.rep[q] \in {"entry", "position"}
    BY AccountShown DEF Occupying
  <2> QED BY <1>1, <2>1 DEF SymbolFree, CanaryFree, Held, Occupying, Shown
<1>4. ReservedRisk(reservations') = ReservedRisk(reservations) + d.risk
  <2> DEFINE a == [q \in Reviews |-> reservations[q].risk]
             b == [q \in Reviews |-> reservations'[q].risk]
             H == Held(reservations)
  <2>1. /\ IsFiniteSet(H) /\ H \subseteq Reviews
        /\ \A q \in Reviews : a[q] \in Nat
    BY ReservedType DEF IInv, TypeOK
  <2>2. b[r] = d.risk /\ \A q \in H : b[q] = a[q]
    BY <1>1, <2>1
  <2>3. ReservedRisk(reservations) = Total(a, H)
        /\ ReservedRisk(reservations') = Total(b, H \cup {r})
    BY <1>1 DEF ReservedRisk
  <2>4. r \notin H /\ b[r] \in Nat
    BY <1>1, <2>2
  <2> HIDE DEF a, b, H
  <2>5. \A q \in H : a[q] \in Nat /\ b[q] = a[q]
    BY <2>1, <2>2
  <2>6. Total(b, H \cup {r}) = Total(a, H) + b[r]
    BY <2>1, <2>4, <2>5, TotalAdds
  <2> QED BY <2>2, <2>3, <2>6
<1>5. account.openRisk + ReservedRisk(reservations') <= RiskCap
  <2>1. account.openRisk \in Nat /\ ReservedRisk(reservations) \in Nat /\ RiskCap \in Nat
    BY AccountShown, ReservedType, CoordinatorAssumption DEF IInv, TypeOK
  <2> QED BY <1>1, <1>4, <2>1 DEF RemainingRisk
<1>6. ReservedRisk(reservations)' = ReservedRisk(reservations')
  OBVIOUS
<1> QED BY <1>1, <1>2, <1>3, <1>5 DEF OccupyingInv, Shown

\* A reservation is released only into the account that shows its trade, so
\* the new account and what stays reserved occupy no more than before.
LEMMA OccupyingDeliver ==
  ASSUME IInv, Answered, SurroundingsOK, SnapshotInv, StartInv, ReservedInv,
         OccupyingInv, crashes = 0, NEW s \in stream, stream' \subseteq stream,
         s.seq > latestSeq, account' = s, latestSeq' = s.seq,
         reservations' = Reconciled(s, reservations),
         UNCHANGED <<exchange>>
  PROVE  OccupyingInv'
<1> DEFINE H == Held(reservations)
           kept == Held(reservations')
           moved == H \cap Shown(s)
           seen == Shown(s) \ H
<1>1. /\ kept \subseteq H
      /\ \A q \in kept : reservations'[q] = reservations[q]
      /\ kept \cap Shown(s) = {}
      /\ \A q \in H \ kept : q \in Shown(s) \/ s.captured > ExpiresAt[q]
  BY DeliverReleases
<1>2. /\ Truthful(s) /\ s.seq \in Nat /\ s.captured \in Nat
      /\ \A z \in stream : z.seq \in Nat
      /\ latestSeq \in Nat \cup {-1}
  BY DEF SnapshotInv, Observed, Truthful, IInv, TypeOK
<1>3. Shown(s) \in SUBSET CommittedReviews /\ Shown(s) \subseteq Occupying
  BY <1>2 DEF Truthful, StartInv, Shown, OccupyingInv
<1>4. seen \subseteq Shown(account)
  BY <1>3 DEF Occupying
<1>5. Occupying' = kept \cup Shown(s) /\ Occupying' \subseteq Occupying
  BY <1>1, <1>3 DEF Occupying, Shown
<1>6. \A q \in H : ExpiresAt[q] \in Nat
  BY CoordinatorAssumption DEF Held
<1>7. ASSUME NEW q \in Occupying \ Occupying', s.captured <= ExpiresAt[q]
      PROVE  q \in Shown(account) \ Shown(s) /\ account \in Observed /\ account.seq < s.seq
  <2>1. q \in Shown(account) \ Shown(s)
    BY <1>1, <1>2, <1>5, <1>6, <1>7 DEF Occupying
  <2>2. account # NoSnapshot
    BY <2>1 DEF Shown, NoSnapshot
  <2>3. account \in Observed /\ account.seq = latestSeq
    BY <2>2 DEF Observed, SnapshotInv, IInv, AccountIsLatest
  <2> QED BY <2>1, <2>3
<1>8. s \in Observed
  BY DEF Observed
<1>9. OpenTrades' \subseteq Occupying'
  <2> SUFFICES ASSUME NEW q \in OpenTrades, q \notin Occupying' PROVE FALSE
    BY DEF OpenTrades
  <2>1. s.captured <= ExpiresAt[q] /\ q \in Occupying
    BY <1>2, <1>5 DEF Truthful, OccupyingInv
  <2>2. exchange[q] = "closed"
    BY <1>7, <1>8, <2>1 DEF SnapshotInv, InOrder
  <2> QED BY <2>2 DEF OpenTrades
<1>10. ASSUME NEW z \in stream', z.seq > latestSeq'
       PROVE  Shown(z) \subseteq Occupying'
  <2> SUFFICES ASSUME NEW q \in Shown(z), q \notin Occupying' PROVE FALSE
    OBVIOUS
  <2>1. z \in Observed /\ z \in stream /\ s.seq < z.seq /\ z.seq > latestSeq
    BY <1>2, <1>10 DEF Observed
  <2>2. q \in Occupying /\ q \notin Shown(s)
    BY <1>5, <2>1 DEF OccupyingInv
  <2>3. s.captured <= ExpiresAt[q]
    BY <1>8, <2>1, <2>2 DEF SnapshotInv, InOrder
  <2>4. q \in Shown(account) /\ account \in Observed /\ account.seq < s.seq
    BY <1>7, <2>2, <2>3
  <2> QED BY <1>8, <2>1, <2>2, <2>4 DEF SnapshotInv, NoReopening
<1>11. s.openRisk + ReservedRisk(reservations') <= RiskCap
  <2> DEFINE res == [q \in Reviews |-> reservations[q].risk]
             left == [q \in Reviews |-> reservations'[q].risk]
             risk == [q \in Shown(s) |-> CommittedRisk(q)]
             shownRisk == [q \in Shown(account) |-> CommittedRisk(q)]
  <2>1. /\ IsFiniteSet(H) /\ H \subseteq Reviews /\ \A q \in Reviews : res[q] \in Nat
        /\ ReservedRisk(reservations) = Total(res, H)
    BY ReservedType DEF IInv, TypeOK, ReservedRisk
  <2>2. ReservedRisk(reservations') = Total(left, kept)
    BY DEF ReservedRisk
  <2>3. /\ IsFiniteSet(Shown(s)) /\ \A q \in Shown(s) : risk[q] \in Nat
        /\ s.openRisk = Total(risk, Shown(s))
    BY <1>2, <1>3, RiskFacts DEF Truthful, RiskOf
  <2>4. /\ Shown(account) \in SUBSET CommittedReviews
        /\ IsFiniteSet(Shown(account))
        /\ \A q \in Shown(account) : shownRisk[q] \in Nat
        /\ account.openRisk = Total(shownRisk, Shown(account))
    BY AccountShown, RiskFacts DEF RiskOf
  <2>5. \A q \in kept : left[q] = res[q]
    BY <1>1, <2>1
  <2>6. \A q \in moved : risk[q] = res[q]
    BY <1>3, <2>1 DEF ReservedInv
  <2>7. \A q \in seen : risk[q] \in Nat /\ risk[q] <= shownRisk[q]
    BY <1>4, <2>3, <2>4
  <2>8. /\ moved \in SUBSET Shown(s) /\ seen = Shown(s) \ moved
        /\ moved \in SUBSET H /\ kept \in SUBSET (H \ moved)
    BY <1>1
  <2>9. /\ kept \subseteq H \ moved /\ IsFiniteSet(H \ moved)
        /\ \A q \in H \ moved : res[q] \in Nat
        /\ \A q \in kept : left[q] \in Nat /\ left[q] <= res[q]
    <3> HIDE DEF H, kept, moved, res, left
    <3>1. IsFiniteSet(H \ moved)
      BY <2>1, FS_Difference
    <3> QED BY <2>1, <2>5, <2>8, <3>1
  <2> HIDE DEF H, kept, moved, seen, res, left, risk, shownRisk
  <2>10. /\ Total(risk, Shown(s)) = Total(risk, moved) + Total(risk, seen)
         /\ Total(risk, moved) \in Nat /\ Total(risk, seen) \in Nat
    BY <2>3, <2>8, TotalSplit
  <2>11. Total(risk, moved) = Total(res, moved)
    BY <2>6, TotalSame
  <2>12. Total(risk, seen) <= Total(shownRisk, Shown(account))
    BY <1>4, <2>4, <2>7, TotalMonotone
  <2>13. \A q \in H : res[q] \in Nat
    BY <2>1
  <2>14. /\ Total(res, H) = Total(res, moved) + Total(res, H \ moved)
         /\ Total(res, H \ moved) \in Nat
    BY <2>1, <2>8, <2>13, TotalSplit
  <2>15. Total(left, kept) <= Total(res, H \ moved)
    BY <2>9, TotalMonotone
  <2>16. account.openRisk + Total(res, H) <= RiskCap /\ RiskCap \in Nat
    BY <2>1, CoordinatorAssumption DEF OccupyingInv
  <2>17. account.openRisk \in Nat /\ Total(left, kept) \in Nat
    <3>1. IsFiniteSet(kept)
      BY <2>9, FS_Subset
    <3> QED BY <2>9, <3>1, TotalType, AccountShown
  <2> QED BY <2>2, <2>3, <2>4, <2>10, <2>11, <2>12, <2>14, <2>15, <2>16, <2>17
<1>12. \A r, q \in Occupying' : r # q =>
         SymbolOf[r] # SymbolOf[q] /\ ~(r \in CanaryReviews /\ q \in CanaryReviews)
  BY <1>5 DEF OccupyingInv
<1> QED BY <1>9, <1>10, <1>11, <1>12 DEF OccupyingInv, Shown

LEMMA OccupyingNext ==
  ASSUME IInv, Answered, SnapshotInv, SurroundingsOK, StartInv, ReservedInv,
         OccupyingInv, [ExposureNext]_allVars
  PROVE  OccupyingInv'
<1>1. ASSUME crashes = 0 PROVE Executable \subseteq Held(reservations)
  <2>1. CASE recoveryLoaded
    BY <2>1 DEF ReservedInv
  <2>2. CASE ~recoveryLoaded
    BY <1>1, <2>2 DEF StartInv, Executable, CommittedReviews
  <2> QED BY <2>1, <2>2
<1>2. ASSUME crashes = 0 PROVE OpenTrades \subseteq Occupying
  BY <1>2 DEF OccupyingInv
<1>3. ASSUME UNCHANGED <<reservations, account, latestSeq, exchange, crashes>>,
             stream' \subseteq stream
      PROVE  OccupyingInv'
  <2>1. OpenTrades' = OpenTrades
    BY <1>3 DEF OpenTrades
  <2> QED BY <1>2, <1>3, <2>1, OccupyingFrame
<1>4. CASE EmitSnapshot
  <2>1. OpenTrades' = OpenTrades
    BY <1>4 DEF EmitSnapshot, OpenTrades
  <2>2. \A s \in stream' : s \in stream \/ Shown(s) \subseteq OpenTrades
    BY <1>4, EmitSnapshotInv
  <2> QED BY <1>2, <1>4, <2>1, <2>2, OccupyingFrame DEF EmitSnapshot, vars, bounds
<1>5. ASSUME NEW r \in Reviews, EnterTrade(r) \/ FillEntry(r) \/ CloseTrade(r)
      PROVE  OccupyingInv'
  <2>1. TradeStep(r)
    BY <1>5 DEF TradeStep, EnterTrade, FillEntry, CloseTrade
  <2>2. OpenTrades' \subseteq OpenTrades \cup Executable
    BY <2>1, TradeInv
  <2>3. crashes = 0 => OpenTrades' \subseteq Occupying
    BY <1>1, <1>2, <2>2 DEF Occupying
  <2> QED BY <2>1, <2>3, OccupyingFrame DEF TradeStep, Trade, vars, bounds
<1>6. CASE Crash
  <2>1. crashes' # 0
    BY <1>6 DEF Crash, SurroundingsOK
  <2> QED BY <2>1 DEF OccupyingInv
<1>7. CASE Recover
  <2> SUFFICES ASSUME crashes = 0 PROVE OccupyingInv'
    BY <1>7 DEF Recover, bounds, OccupyingInv
  <2>1. /\ ~recoveryLoaded /\ Held(reservations') = Restorable
        /\ UNCHANGED <<account, latestSeq, stream, exchange>>
    BY <1>7, RecoverFacts DEF Recover, outside
  <2>2. CommittedReviews = {} /\ account = NoSnapshot
    BY <2>1 DEF StartInv, SnapshotInv, CommittedReviews
  <2>3. /\ Held(reservations') = {} /\ Shown(account) = {} /\ account.openRisk = 0
    BY <2>1, <2>2 DEF Restorable, Shown, NoSnapshot
  <2>4. OpenTrades' = {}
    BY <2>1, <2>2 DEF OpenTrades, StartInv
  <2>5. \A s \in stream : Shown(s) = {}
    BY <2>2 DEF SnapshotInv, Observed, Truthful, StartInv, Shown
  <2>6. ReservedRisk(reservations') = 0
    BY <2>3, TotalEmpty DEF ReservedRisk
  <2>7. account'.openRisk + ReservedRisk(reservations') <= RiskCap
    BY <2>1, <2>3, <2>6, CoordinatorAssumption
  <2>8. Occupying' = {}
    BY <2>1, <2>3 DEF Occupying, Shown
  <2> QED BY <2>1, <2>4, <2>5, <2>7, <2>8 DEF OccupyingInv, Shown
<1>8. ASSUME NEW s \in stream, DeliverAccount(s)
      PROVE  OccupyingInv'
  <2>1. UNCHANGED <<exchange, crashes>> /\ stream' \subseteq stream /\ ApplyAccount(s)
    BY <1>8 DEF DeliverAccount, bounds
  <2>2. CASE UNCHANGED vars
    BY <1>3, <2>1, <2>2 DEF vars
  <2>3. CASE /\ s.seq > latestSeq /\ account' = s /\ latestSeq' = s.seq
             /\ reservations' = Reconciled(s, reservations)
    <3>1. CASE crashes = 0
      BY <2>1, <2>3, <3>1, OccupyingDeliver
    <3>2. CASE crashes # 0
      BY <2>1, <3>2 DEF OccupyingInv
    <3> QED BY <3>1, <3>2
  <2> QED BY <2>1, <2>2, <2>3, DeliverFacts
<1>9. ASSUME NEW r \in Reviews, Evaluate(r)
      PROVE  OccupyingInv'
  <2>1. UNCHANGED <<outside, crashes>>
    BY <1>9 DEF Evaluate, bounds
  <2>2. CASE EvaluateCached(r)
    BY <1>3, <2>1, <2>2 DEF EvaluateCached, accountVars, outside
  <2>3. ASSUME NEW t, NEW vetoed, NEW d \in Verdicts, EvaluateFresh(r, t, vetoed, d)
        PROVE  OccupyingInv'
    <3>1. CASE d.verdict = "approved"
      BY <2>1, <2>3, <3>1, OccupyingFresh
    <3>2. CASE d.verdict # "approved"
      <4>1. UNCHANGED <<reservations, account, latestSeq>>
        BY <2>3, <3>2, FreshFacts DEF accountVars
      <4> QED BY <1>3, <2>1, <4>1 DEF outside
    <3> QED BY <3>1, <3>2
  <2> QED BY <1>9, <2>2, <2>3 DEF Evaluate
<1>10. ASSUME NEW s \in Symbols, NEW at \in VenueStamps, NEW id \in VenueIds,
              DeliverVenue(s, at, id)
       PROVE  OccupyingInv'
  BY <1>3, <1>10
  DEF DeliverVenue, ApplyVenue, IgnoreVenue, ConflictingVenue, AcceptVenue,
      vars, accountVars, outside, bounds
<1>11. CASE UNCHANGED <<vars, outside, crashes>>
  BY <1>3, <1>11 DEF vars, outside
<1> QED
  BY <1>4, <1>5, <1>6, <1>7, <1>8, <1>9, <1>10, <1>11
  DEF ExposureNext, Deny, EvaluateDenied, DropAtDeadline, RefuseBinding, Commit,
      FailCommit, Tick, bounds, allVars, outside

-----------------------------------------------------------------------------
(***************************************************************************)
(* Approvals that may still be entered exclude each other, across restarts *)
(* too: the committed ones and those that are cached and may yet commit.   *)
(***************************************************************************)
\* The cached approvals that a redelivered review would commit.
Pending == {r \in inbox : decisions[r].verdict = "approved" /\ clock <= ExpiresAt[r]}
Promised == Executable \cup Pending
PromisedRisk == [r \in Reviews |-> IF r \in CommittedReviews THEN CommittedRisk(r)
                                                             ELSE decisions[r].risk]

PromiseInv ==
  /\ \A r, q \in Promised : r # q =>
       SymbolOf[r] # SymbolOf[q] /\ ~(r \in CanaryReviews /\ q \in CanaryReviews)
  /\ Total(PromisedRisk, Promised) <= RiskCap

\* Their risks are numbers that can be summed up.
LEMMA PromisedFacts ==
  ASSUME IInv, Answered
  PROVE  /\ IsFiniteSet(Promised) /\ Promised \subseteq Reviews
         /\ \A r \in Reviews : PromisedRisk[r] \in Nat
         /\ Executable \subseteq CommittedReviews
         /\ \A r \in Pending : r \notin CommittedReviews
<1>1. Executable \subseteq CommittedReviews /\ Pending \subseteq inbox
  BY DEF Executable, Pending
<1>2. \A r \in CommittedReviews : r \in Reviews /\ r \notin inbox /\ CommittedRisk(r) \in Nat
  BY CommittedFacts
<1>3. Promised \subseteq Reviews
  BY <1>1, <1>2 DEF Promised, Answered
<1>4. \A r \in Reviews : decisions[r].risk \in Nat
  BY DEF IInv, TypeOK, Decision
<1>5. \A r \in Reviews : PromisedRisk[r] \in Nat
  BY <1>2, <1>4 DEF PromisedRisk
<1>6. IsFiniteSet(Promised)
  BY <1>3, FS_Subset, CoordinatorAssumption
<1> QED BY <1>1, <1>2, <1>3, <1>5, <1>6

\* A running process has each of them reserved at its risk.
LEMMA PromisedReserved ==
  ASSUME IInv, Answered, ReservedInv, recoveryLoaded, NEW r \in Promised
  PROVE  /\ r \in Held(reservations)
         /\ reservations[r].risk = PromisedRisk[r]
<1>1. r \in Reviews /\ (r \in Pending => r \notin CommittedReviews)
      /\ (r \in Executable => r \in CommittedReviews)
  BY PromisedFacts
<1>2. CASE r \in Executable
  BY <1>1, <1>2 DEF ReservedInv, PromisedRisk
<1>3. CASE r \in Pending
  <2>1. r \in Held(reservations)
    BY <1>3 DEF ReservedInv, Pending
  <2>2. decisions[r] = Approval(reservations[r].risk)
    BY <2>1 DEF IInv, ReplayIdentityRetained
  <2>3. decisions[r].risk = reservations[r].risk
    BY <2>2 DEF Approval
  <2> QED BY <1>1, <1>3, <2>1, <2>3 DEF PromisedRisk
<1> QED BY <1>2, <1>3 DEF Promised

\* A step that adds no promise and keeps the risk of those that stay.
LEMMA PromiseFrame ==
  ASSUME IInv, IInv', Answered, Answered', PromiseInv,
         Promised' \subseteq Promised,
         \A r \in Promised' : PromisedRisk'[r] = PromisedRisk[r]
  PROVE  PromiseInv'
<1>1. IsFiniteSet(Promised) /\ Promised \subseteq Reviews
      /\ \A r \in Reviews : PromisedRisk[r] \in Nat
  BY PromisedFacts
<1>2. PICK now, was, risk, before :
        now = Promised' /\ was = Promised /\ risk = PromisedRisk' /\ before = PromisedRisk
  OBVIOUS
<1>3. /\ IsFiniteSet(was) /\ now \subseteq was
      /\ \A r \in was : before[r] \in Nat
      /\ \A r \in now : risk[r] \in Nat /\ risk[r] <= before[r]
  BY <1>1, <1>2
<1>4. Total(risk, now) <= Total(before, was)
  BY <1>3, TotalMonotone
<1>5. Total(before, was) \in Nat /\ RiskCap \in Nat
  BY <1>3, TotalType, CoordinatorAssumption
<1>6. Total(risk, now) \in Nat
  <2>1. IsFiniteSet(now)
    BY <1>3, FS_Subset
  <2> QED BY <1>3, <2>1, TotalType
<1>7. Total(PromisedRisk, Promised)' <= RiskCap
  BY <1>2, <1>4, <1>5, <1>6 DEF PromiseInv
<1> QED BY <1>7 DEF PromiseInv

\* The common case: nothing is committed, and no verdict changes into another
\* approval.
LEMMA PromiseKept ==
  ASSUME IInv, IInv', Answered, Answered', SurroundingsOK, PromiseInv,
         UNCHANGED log, inbox' \subseteq inbox,
         Executable' \subseteq Executable,
         clock' \in Nat, clock' >= clock,
         \A q \in inbox' : decisions'[q].verdict = "approved" =>
                              decisions'[q] = decisions[q]
  PROVE  PromiseInv'
<1>1. CommittedReviews' = CommittedReviews /\ LogGrows
  BY SameLog
<1>2. clock \in Nat /\ \A q \in Reviews : ExpiresAt[q] \in Nat
  BY CoordinatorAssumption DEF SurroundingsOK
<1>3. Pending' \subseteq Pending
  BY <1>2 DEF Pending, Answered
<1>4. Promised' \subseteq Promised
  BY <1>3 DEF Promised
<1>5. \A q \in Promised : q \in Reviews
  BY PromisedFacts
<1>6. \A q \in Promised' : PromisedRisk'[q] = PromisedRisk[q]
  <2> SUFFICES ASSUME NEW q \in Promised' PROVE PromisedRisk'[q] = PromisedRisk[q]
    OBVIOUS
  <2>1. q \in Reviews
    BY <1>4, <1>5
  <2>2. CASE q \in CommittedReviews
    BY <1>1, <2>1, <2>2 DEF PromisedRisk, LogGrows
  <2>3. CASE q \notin CommittedReviews
    <3>1. q \in Pending'
      BY <1>1, <2>3 DEF Promised, Executable
    <3>2. decisions'[q] = decisions[q]
      BY <3>1 DEF Pending
    <3> QED BY <1>1, <2>1, <2>3, <3>2 DEF PromisedRisk
  <2> QED BY <2>2, <2>3
<1> QED BY <1>4, <1>6, PromiseFrame

\* A commit turns the promise in flight into an executable approval.
LEMMA PromiseCommit ==
  ASSUME IInv, IInv', Answered, Answered', SurroundingsOK, ReservedInv,
         PromiseInv, Commit
  PROVE  PromiseInv'
<1>1. /\ UNCHANGED <<clock, exchange, decisions>> /\ inbox' \subseteq inbox
      /\ clock \in Nat /\ inflight.review \notin inbox'
      /\ inflight.review \in inbox
  BY DEF Commit, vars, outside, SurroundingsOK, Answered
<1>2. CASE inflight.decision.verdict # "approved"
  <2>1. UNCHANGED log
    BY <1>2, CommitLog
  <2>2. Executable' \subseteq Executable
    BY <1>1, <2>1, ExecutableShrinks
  <2>3. clock' \in Nat /\ clock' >= clock
    BY <1>1
  <2> QED BY <1>1, <2>1, <2>2, <2>3, PromiseKept
<1>3. CASE inflight.decision.verdict = "approved"
  <2>1. PICK r : r = inflight.review
    OBVIOUS
  <2>2. /\ LogGrows
        /\ CommittedReviews' = CommittedReviews \cup {r}
        /\ CommittedRisk(r)' = inflight.decision.risk
    BY <1>3, <2>1, CommitLog
  <2>3. r \in inbox /\ r \in Reviews /\ r \notin CommittedReviews /\ r \notin inbox'
    BY <1>1, <2>1, CommittedFacts DEF Answered
  <2>4. clock <= ExpiresAt[r] =>
          decisions[r].verdict = "approved" /\ decisions[r].risk = inflight.decision.risk
    <3> SUFFICES ASSUME clock <= ExpiresAt[r]
                 PROVE  /\ decisions[r].verdict = "approved"
                        /\ decisions[r].risk = inflight.decision.risk
      OBVIOUS
    <3>1. r \in Held(reservations) /\ reservations[r].risk = inflight.decision.risk
      BY <1>3, <2>1 DEF ReservedInv
    <3>2. decisions[r] = Approval(inflight.decision.risk)
      BY <3>1 DEF IInv, ReplayIdentityRetained
    <3> QED BY <3>2 DEF Approval
  <2>5. \A q \in Executable' : q \in Executable \/ (q = r /\ clock <= ExpiresAt[q])
    BY <1>1, <2>2 DEF Executable
  <2>6. Pending' \subseteq Pending
    BY <1>1 DEF Pending
  <2>7. Promised' \subseteq Promised
    BY <2>3, <2>4, <2>5, <2>6 DEF Promised, Pending
  <2>8. \A q \in Promised : q \in Reviews
    BY PromisedFacts
  <2>9. \A q \in Promised' : PromisedRisk'[q] = PromisedRisk[q]
    <3> SUFFICES ASSUME NEW q \in Promised' PROVE PromisedRisk'[q] = PromisedRisk[q]
      OBVIOUS
    <3>1. q \in Reviews
      BY <2>7, <2>8
    <3>2. CASE q = r
      <4>1. clock <= ExpiresAt[r]
        BY <2>3, <2>5, <2>6, <3>2 DEF Promised, Executable, Pending
      <4> QED BY <2>2, <2>3, <2>4, <3>1, <3>2, <4>1 DEF PromisedRisk
    <3>3. CASE q \in CommittedReviews
      BY <2>2, <3>1, <3>3 DEF PromisedRisk, LogGrows
    <3>4. CASE q # r /\ q \notin CommittedReviews
      BY <1>1, <2>2, <3>1, <3>4 DEF PromisedRisk
    <3> QED BY <3>2, <3>3, <3>4
  <2> QED BY <2>7, <2>9, PromiseFrame
<1> QED BY <1>2, <1>3

\* A fresh verdict is cached for its review; the trim changes no other approval.
LEMMA FreshDecisions ==
  ASSUME IInv, NEW r \in Reviews, NEW t, NEW vetoed, NEW d \in Verdicts,
         EvaluateFresh(r, t, vetoed, d), NEW q \in Reviews,
         decisions'[q].verdict = "approved"
  PROVE  IF q = r THEN decisions'[q] = d /\ d.verdict = "approved"
                  ELSE decisions'[q] = decisions[q]
<1> DEFINE cache == [decisions EXCEPT ![r] = d]
<1>1. decisions \in [Reviews -> Decision]
  BY DEF IInv, TypeOK
<1>2. decisions'[q] \in {Undecided, cache[q]}
  BY DEF EvaluateFresh, StoreTrimmed
<1>3. decisions'[q] = cache[q]
  BY <1>2 DEF Undecided
<1> QED BY <1>1, <1>3

\* A new promise takes a symbol that no other occupies, is the only canary, and
\* fits under the ceiling next to all that is reserved.
LEMMA PromiseFresh ==
  ASSUME IInv, IInv', Answered, Answered', SnapshotInv, StartInv, ReservedInv,
         PromiseInv, UNCHANGED <<clock, inbox, log, exchange>>,
         NEW r \in Reviews, r \in inbox, NEW t, NEW vetoed, NEW d \in Verdicts,
         EvaluateFresh(r, t, vetoed, d), d.verdict = "approved"
  PROVE  PromiseInv'
<1>1. /\ recoveryLoaded /\ SymbolFree(r) /\ CanaryFree(r)
      /\ d.risk \in Nat /\ d.risk <= RemainingRisk
      /\ r \notin Held(reservations)
  BY FreshFacts
<1>2. /\ \A q \in Promised : q \in Held(reservations)
      /\ \A q \in Promised : reservations[q].risk = PromisedRisk[q]
  BY <1>1, PromisedReserved
<1>3. CommittedReviews' = CommittedReviews /\ Executable' = Executable /\ LogGrows
      /\ r \notin CommittedReviews
  BY SameLog, CommittedFacts DEF Executable
<1>4. \A q \in Reviews : decisions'[q].verdict = "approved" =>
        IF q = r THEN decisions'[q] = d ELSE decisions'[q] = decisions[q]
  BY FreshDecisions
<1>5. Promised' \subseteq Promised \cup {r}
  BY <1>3, <1>4 DEF Promised, Pending, Answered
<1>6. /\ Promised \subseteq Reviews /\ IsFiniteSet(Promised)
      /\ \A q \in Reviews : PromisedRisk[q] \in Nat
      /\ r \notin Promised
  BY <1>1, <1>2, PromisedFacts
<1>7. IsFiniteSet(Promised')
  <2>1. IsFiniteSet(Promised \cup {r})
    BY <1>6, FS_AddElement
  <2> QED BY <1>5, <2>1, FS_Subset
<1>8. ASSUME NEW q \in Promised'
      PROVE  PromisedRisk'[q] = IF q = r THEN d.risk ELSE PromisedRisk[q]
  <2>1. q \in Reviews
    BY <1>5, <1>6
  <2>2. CASE q \in CommittedReviews
    BY <1>3, <2>1, <2>2 DEF PromisedRisk, LogGrows
  <2>3. CASE q \notin CommittedReviews
    <3>1. decisions'[q].verdict = "approved"
      BY <1>3, <2>3 DEF Promised, Executable, Pending
    <3>2. IF q = r THEN decisions'[q] = d ELSE decisions'[q] = decisions[q]
      BY <1>4, <2>1, <3>1
    <3> QED BY <1>3, <2>1, <2>3, <3>2 DEF PromisedRisk
  <2> QED BY <2>2, <2>3
<1>9. ASSUME NEW q \in Promised
      PROVE  SymbolOf[q] # SymbolOf[r] /\ ~(q \in CanaryReviews /\ r \in CanaryReviews)
  BY <1>1, <1>2, <1>6 DEF SymbolFree, CanaryFree
<1>10. PICK was, now, before, after, res, held :
         /\ was = Promised /\ now = Promised'
         /\ before = PromisedRisk /\ after = PromisedRisk'
         /\ res = [q \in Reviews |-> reservations[q].risk] /\ held = Held(reservations)
  OBVIOUS
<1>11. /\ IsFiniteSet(held) /\ held \subseteq Reviews
       /\ \A q \in held : res[q] \in Nat
       /\ ReservedRisk(reservations) = Total(res, held)
       /\ ReservedRisk(reservations) \in Nat
  BY <1>10, ReservedType DEF IInv, TypeOK, ReservedRisk
<1>12. account.openRisk \in Nat /\ RiskCap \in Nat
  BY AccountShown, CoordinatorAssumption
<1>13. d.risk + Total(res, held) <= RiskCap
  BY <1>1, <1>11, <1>12 DEF RemainingRisk
<1>14. /\ was \subseteq held /\ r \notin was
       /\ \A q \in was : before[q] \in Nat /\ before[q] <= res[q]
  BY <1>2, <1>6, <1>10, <1>11
<1>15. Total(before, was) <= Total(res, held)
  BY <1>11, <1>14, TotalMonotone
<1>16. PICK total : total = [q \in was \cup {r} |-> IF q = r THEN d.risk ELSE before[q]]
  OBVIOUS
<1>17. /\ total[r] = d.risk /\ total[r] \in Nat
       /\ \A q \in was : before[q] \in Nat /\ total[q] = before[q]
  BY <1>1, <1>14, <1>16
<1>18. IsFiniteSet(was) /\ IsFiniteSet(was \cup {r})
  BY <1>6, <1>10, FS_AddElement
<1>19. Total(total, was \cup {r}) = Total(before, was) + d.risk
       /\ Total(before, was) \in Nat
  <2>1. IsFiniteSet(was) /\ r \notin was /\ total[r] \in Nat
    BY <1>14, <1>17, <1>18
  <2>2. \A q \in was : before[q] \in Nat /\ total[q] = before[q]
    BY <1>17
  <2>3. Total(total, was \cup {r}) = Total(before, was) + total[r]
        /\ Total(before, was) \in Nat
    BY ONLY <2>1, <2>2, TotalAdds
  <2> QED BY <1>17, <2>3
<1>20. /\ now \subseteq was \cup {r} /\ IsFiniteSet(now)
       /\ \A q \in was \cup {r} : total[q] \in Nat
       /\ \A q \in now : after[q] \in Nat /\ after[q] <= total[q]
  <2>1. now \subseteq was \cup {r} /\ IsFiniteSet(now)
    BY <1>5, <1>7, <1>10
  <2>2. \A q \in was \cup {r} : total[q] \in Nat
    BY <1>17
  <2>3. \A q \in now : after[q] = total[q]
    BY <1>8, <1>10, <1>16, <2>1
  <2> QED BY <2>1, <2>2, <2>3
<1>21. Total(after, now) <= Total(total, was \cup {r})
  BY <1>18, <1>20, TotalMonotone
<1>22. Total(after, now) \in Nat /\ Total(res, held) \in Nat
  BY <1>11, <1>20, TotalType
<1>23. Total(after, now) <= RiskCap
  BY <1>1, <1>12, <1>13, <1>15, <1>19, <1>21, <1>22
<1>24. Total(PromisedRisk, Promised)' <= RiskCap
  BY <1>10, <1>23
<1>25. \A q, z \in Promised' : q # z =>
         SymbolOf[q] # SymbolOf[z] /\ ~(q \in CanaryReviews /\ z \in CanaryReviews)
  BY <1>5, <1>9 DEF PromiseInv
<1> QED BY <1>24, <1>25 DEF PromiseInv

LEMMA PromiseNext ==
  ASSUME IInv, IInv', Answered, Answered', SnapshotInv, SurroundingsOK, StartInv,
         ReservedInv, PromiseInv, [ExposureNext]_allVars
  PROVE  PromiseInv'
<1>1. clock \in Nat /\ clock' \in Nat /\ clock' >= clock
  BY SurroundingsNext DEF SurroundingsOK
<1>2. ASSUME UNCHANGED <<log, exchange>>
      PROVE  Executable' \subseteq Executable
  BY <1>1, <1>2, ExecutableShrinks
<1>3. ASSUME UNCHANGED <<log, exchange, decisions>>, inbox' \subseteq inbox
      PROVE  PromiseInv'
  BY <1>1, <1>2, <1>3, PromiseKept
<1>4. CASE Recover
  <2>1. \A q \in Reviews : decisions'[q].verdict = "approved" => q \in CommittedReviews
    BY <1>4, RecoverFacts DEF Restorable
  <2>2. UNCHANGED <<log, exchange, inbox>>
    BY <1>4 DEF Recover, durable, outside
  <2>3. \A q \in inbox' : q \in Reviews /\ q \notin CommittedReviews
    BY <2>2, CommittedFacts DEF Answered
  <2> QED BY <1>1, <1>2, <2>1, <2>2, <2>3, PromiseKept
<1>5. CASE Crash
  <2>1. \A q \in Reviews : decisions'[q].verdict # "approved"
    BY <1>5 DEF Crash, Undecided
  <2>2. UNCHANGED <<log, exchange, inbox>>
    BY <1>5 DEF Crash, durable, outside
  <2>3. \A q \in inbox' : q \in Reviews
    BY <2>2 DEF Answered
  <2> QED BY <1>1, <1>2, <2>1, <2>2, <2>3, PromiseKept
<1>6. CASE Commit
  BY <1>6, PromiseCommit
<1>7. ASSUME NEW r \in Reviews, Evaluate(r) PROVE PromiseInv'
  <2>1. UNCHANGED <<clock, inbox, log, exchange>> /\ r \in inbox
    BY <1>7 DEF Evaluate, durable, outside
  <2>2. CASE EvaluateCached(r)
    BY <1>3, <2>1, <2>2 DEF EvaluateCached
  <2>3. ASSUME NEW t, NEW vetoed, NEW d \in Verdicts, EvaluateFresh(r, t, vetoed, d)
        PROVE  PromiseInv'
    <3>1. CASE d.verdict = "approved"
      BY <2>1, <2>3, <3>1, PromiseFresh
    <3>2. CASE d.verdict # "approved"
      <4>1. \A q \in Reviews : decisions'[q].verdict = "approved" =>
              decisions'[q] = decisions[q]
        BY <2>3, <3>2, FreshDecisions
      <4>2. \A q \in inbox' : q \in Reviews
        BY <2>1 DEF Answered
      <4> QED BY <1>1, <1>2, <2>1, <4>1, <4>2, PromiseKept
    <3> QED BY <3>1, <3>2
  <2> QED BY <1>7, <2>2, <2>3 DEF Evaluate
<1>8. ASSUME NEW s \in stream, DeliverAccount(s) PROVE PromiseInv'
  <2>1. UNCHANGED <<log, exchange, inbox>> /\ ApplyAccount(s)
    BY <1>8 DEF DeliverAccount, durable
  <2>2. UNCHANGED decisions
    BY <2>1, DeliverFacts DEF vars
  <2> QED BY <1>3, <2>1, <2>2
<1>9. ASSUME NEW r \in Reviews, EnterTrade(r) \/ FillEntry(r) \/ CloseTrade(r)
      PROVE  PromiseInv'
  <2>1. TradeStep(r)
    BY <1>9 DEF TradeStep, EnterTrade, FillEntry, CloseTrade
  <2>2. Executable' \subseteq Executable
    BY <2>1, TradeInv
  <2>3. UNCHANGED <<log, inbox, decisions>>
    BY <2>1 DEF TradeStep, Trade, vars, durable
  <2> QED BY <1>1, <2>2, <2>3, PromiseKept
<1>10. ASSUME NEW s \in Symbols, NEW at \in VenueStamps, NEW id \in VenueIds,
              DeliverVenue(s, at, id)
       PROVE  PromiseInv'
  BY <1>3, <1>10
  DEF DeliverVenue, ApplyVenue, IgnoreVenue, ConflictingVenue, AcceptVenue,
      vars, cacheVars, durable, outside
<1>11. CASE UNCHANGED <<vars, log, exchange>> /\ inbox' \subseteq inbox
  BY <1>3, <1>11 DEF vars
<1>12. CASE Tick \/ EmitSnapshot \/ RefuseBinding \/ FailCommit \/ UNCHANGED allVars
  BY <1>11, <1>12 DEF Tick, EmitSnapshot, RefuseBinding, EvaluateDenied, FailCommit,
                      allVars, durable, outside
<1>13. ASSUME NEW r \in Reviews, Deny(r) \/ DropAtDeadline(r) PROVE PromiseInv'
  BY <1>11, <1>13 DEF Deny, EvaluateDenied, DropAtDeadline, durable, outside
<1> QED
  BY <1>4, <1>5, <1>6, <1>7, <1>8, <1>9, <1>10, <1>12, <1>13 DEF ExposureNext

-----------------------------------------------------------------------------
(***************************************************************************)
(* The composition's invariant and what it shows.                          *)
(***************************************************************************)
ExposureInv ==
  /\ IInv
  /\ Answered
  /\ SurroundingsOK
  /\ SnapshotInv
  /\ StartInv
  /\ ReservedInv
  /\ OccupyingInv
  /\ PromiseInv

LEMMA ExposureInitInv == ExposureInit => ExposureInv
<1> SUFFICES ASSUME ExposureInit PROVE ExposureInv
  OBVIOUS
<1>1. IInv /\ Answered
  BY InitInv, InitAnswered DEF ExposureInit
<1>2. SurroundingsOK
  BY ExposureAssumption DEF ExposureInit, SurroundingsOK
<1>3. /\ stream = {} /\ latestSeq = -1 /\ latestCaptured = -1 /\ account = NoSnapshot
      /\ log = <<>> /\ inflight = Idle /\ inflight.decision.verdict # "approved"
      /\ exchange = [r \in Reviews |-> "idle"]
      /\ decisions = [r \in Reviews |-> Undecided]
      /\ \A r \in Reviews : decisions[r].verdict # "approved"
      /\ ~recoveryLoaded
      /\ Held(reservations) = {}
  BY DEF ExposureInit, Init, Idle, Undecided, Held, Free
<1>4. Observed = {} /\ CommittedReviews = {} /\ OpenTrades = {} /\ Shown(account) = {}
      /\ account.openRisk = 0
  BY <1>3 DEF Observed, CommittedReviews, OpenTrades, Shown, NoSnapshot
<1>5. SnapshotInv /\ StartInv
  BY <1>3, <1>4 DEF SnapshotInv, StartInv
<1>6. ReservedInv
  BY <1>1, <1>3, <1>4 DEF ReservedInv, Answered
<1>7. ReservedRisk(reservations) = 0
  BY <1>3, TotalEmpty DEF ReservedRisk
<1>8. OccupyingInv
  BY <1>3, <1>4, <1>7, CoordinatorAssumption DEF OccupyingInv, Occupying
<1>9. PromiseInv
  <2>1. Promised = {}
    BY <1>1, <1>3, <1>4 DEF Promised, Executable, Pending, Answered
  <2>2. Total(PromisedRisk, Promised) = 0
    BY <2>1, TotalEmpty
  <2> QED BY <2>1, <2>2, CoordinatorAssumption DEF PromiseInv
<1> QED BY <1>1, <1>2, <1>5, <1>6, <1>8, <1>9 DEF ExposureInv

LEMMA ExposureNextInv == ExposureInv /\ [ExposureNext]_allVars => ExposureInv'
<1> SUFFICES ASSUME ExposureInv, [ExposureNext]_allVars PROVE ExposureInv'
  OBVIOUS
<1>1. IInv /\ Answered /\ SurroundingsOK /\ SnapshotInv /\ StartInv /\ ReservedInv
      /\ OccupyingInv /\ PromiseInv
  BY DEF ExposureInv
<1>2. IInv' /\ Answered'
  BY <1>1, ExposureIInv, NextAnswered
<1>3. SurroundingsOK' /\ SnapshotInv' /\ StartInv'
  BY <1>1, SurroundingsNext, SnapshotNext, StartNext
<1>4. ReservedInv' /\ OccupyingInv'
  BY <1>1, ReservedNext, OccupyingNext
<1>5. PromiseInv'
  BY <1>1, <1>2, PromiseNext
<1> QED BY <1>2, <1>3, <1>4, <1>5 DEF ExposureInv

LEMMA ExposureInvariance == ExposureSpec => []ExposureInv
BY ExposureInitInv, ExposureNextInv, PTL DEF ExposureSpec

\* The coordinator and its surroundings keep their types.
THEOREM ExposureTypeCorrect == ExposureSpec => []ExposureTypeOK
<1>1. ExposureInv => ExposureTypeOK
  BY DEF ExposureInv, IInv, Answered, SurroundingsOK, ExposureTypeOK, LogEntry
<1> QED BY <1>1, ExposureInvariance, PTL

\* Among crashes, failed commits and late snapshots the coordinator still keeps
\* its promises of one process: no reserved verdict is trimmed or contradicted,
\* and admission is open only on the newest account (evaluate, apply_account).
THEOREM CoordinatorHolds == ExposureSpec => [](ReplayIdentityRetained /\ AuthorityIsNewest)
<1>1. ExposureInv => ReplayIdentityRetained /\ AuthorityIsNewest
  BY DEF ExposureInv, IInv
<1> QED BY <1>1, ExposureInvariance, PTL

\* Whatever crashed or failed, a running process holds the reservation of every
\* committed approval that Execution may still act on, at its committed risk
\* (_recover_paper_state, _reconcile_reservations).
THEOREM ReservedUntilEntered == ExposureSpec => []ExecutableIsReserved
<1>1. ExposureInv => ExecutableIsReserved
  BY DEF ExposureInv, ReservedInv, ExecutableIsReserved, Executable
<1> QED BY <1>1, ExposureInvariance, PTL

\* Before the first restart every idea at risk occupies its symbol.
LEMMA LiveOccupies ==
  ASSUME ExposureInv, crashes = 0
  PROVE  Live \subseteq Occupying
<1>1. Executable \subseteq Held(reservations)
  BY DEF ExposureInv, ReservedInv, StartInv, Executable, CommittedReviews
<1> QED BY <1>1 DEF ExposureInv, OccupyingInv, Live, Occupying

\* Ideas of which no two share a symbol or are both canaries.
LEMMA PairwiseExclusive ==
  ASSUME NEW S,
         \A r, q \in S : r # q =>
           SymbolOf[r] # SymbolOf[q] /\ ~(r \in CanaryReviews /\ q \in CanaryReviews)
  PROVE  Exclusive(S)
<1>1. Cardinality(S \cap CanaryReviews) <= 1
  <2>1. CASE S \cap CanaryReviews = {}
    BY <2>1, FS_EmptySet
  <2>2. ASSUME NEW r \in S \cap CanaryReviews
        PROVE  Cardinality(S \cap CanaryReviews) <= 1
    <3>1. S \cap CanaryReviews = {r}
      OBVIOUS
    <3> QED BY <3>1, FS_Singleton
  <2> QED BY <2>1, <2>2
<1> QED BY <1>1 DEF Exclusive, OnePerSymbol

\* No restart makes two approvals executable on one symbol, or two canaries;
\* until a first one open trades count too: two approvals never pass the
\* admission gates of one symbol, however the snapshots are delayed (evaluate,
\* _recover_paper_state, _reconcile_reservations).
THEOREM OneIdea == ExposureSpec => []ExclusiveIdeas
<1>1. ASSUME ExposureInv PROVE Exclusive(Executable)
  BY <1>1, PairwiseExclusive DEF ExposureInv, PromiseInv, Promised
<1>2. ASSUME ExposureInv, crashes = 0 PROVE Exclusive(Live)
  <2>1. \A r, q \in Live : r # q =>
          SymbolOf[r] # SymbolOf[q] /\ ~(r \in CanaryReviews /\ q \in CanaryReviews)
    BY <1>2, LiveOccupies DEF ExposureInv, OccupyingInv
  <2> QED BY <2>1, PairwiseExclusive
<1>3. ExposureInv => ExclusiveIdeas
  BY <1>1, <1>2 DEF ExclusiveIdeas
<1> QED BY <1>3, ExposureInvariance, PTL

\* Whatever restarts, the risk of approvals that may still be entered stays
\* under the portfolio ceiling; until a restart the risk of open trades counts
\* too, although admission only sees an older account and its own reservations
\* (_size_quantity, evaluate).
THEOREM RiskWithinCap == ExposureSpec => []RiskUnderCap
<1>1. ASSUME ExposureInv, crashes = 0
      PROVE  RiskOf(Live) <= RiskCap
  <2> DEFINE held == Held(reservations)
             reserved == Live \cap held
             shown == Live \ held
             res == [q \in Reviews |-> reservations[q].risk]
             risk == [q \in Live |-> CommittedRisk(q)]
             shownRisk == [q \in Shown(account) |-> CommittedRisk(q)]
  <2>1. IInv /\ Answered /\ SnapshotInv /\ StartInv /\ ReservedInv /\ OccupyingInv
    BY <1>1 DEF ExposureInv
  <2>2. Live \in SUBSET CommittedReviews /\ shown \subseteq Shown(account)
    BY <1>1, <2>1, LiveOccupies DEF Occupying, Live, OpenTrades, Executable, StartInv
  <2>3. /\ IsFiniteSet(Live) /\ \A q \in Live : risk[q] \in Nat
        /\ RiskOf(Live) = Total(risk, Live)
    BY <2>1, <2>2, RiskFacts DEF RiskOf
  <2>4. /\ Shown(account) \in SUBSET CommittedReviews
        /\ IsFiniteSet(Shown(account))
        /\ \A q \in Shown(account) : shownRisk[q] \in Nat
        /\ account.openRisk = Total(shownRisk, Shown(account))
        /\ account.openRisk \in Nat
    BY <2>1, AccountShown, RiskFacts DEF RiskOf
  <2>5. /\ IsFiniteSet(held) /\ held \subseteq Reviews /\ \A q \in Reviews : res[q] \in Nat
        /\ ReservedRisk(reservations) = Total(res, held)
        /\ ReservedRisk(reservations) \in Nat
    BY <2>1, ReservedType DEF IInv, TypeOK, ReservedRisk
  <2>6. \A q \in reserved : risk[q] = res[q]
    BY <2>1, <2>2, <2>5 DEF ReservedInv
  <2>7. \A q \in shown : risk[q] \in Nat /\ risk[q] <= shownRisk[q]
    BY <2>2, <2>3, <2>4
  <2>8. /\ reserved \in SUBSET Live /\ shown = Live \ reserved
        /\ reserved \subseteq held
    OBVIOUS
  <2>9. account.openRisk + ReservedRisk(reservations) <= RiskCap /\ RiskCap \in Nat
    BY <1>1, <2>1, CoordinatorAssumption DEF OccupyingInv
  <2> HIDE DEF held, reserved, shown, res, risk, shownRisk
  <2>10. /\ Total(risk, Live) = Total(risk, reserved) + Total(risk, shown)
         /\ Total(risk, reserved) \in Nat /\ Total(risk, shown) \in Nat
    BY <2>3, <2>8, TotalSplit
  <2>11. Total(risk, reserved) <= Total(res, held)
    <3>1. \A q \in reserved : risk[q] \in Nat /\ risk[q] <= res[q]
      BY <2>3, <2>6, <2>8
    <3>2. \A q \in held : res[q] \in Nat
      BY <2>5
    <3> QED BY <2>5, <2>8, <3>1, <3>2, TotalMonotone
  <2>12. Total(risk, shown) <= Total(shownRisk, Shown(account))
    BY <2>2, <2>4, <2>7, TotalMonotone
  <2> QED BY <2>3, <2>4, <2>5, <2>9, <2>10, <2>11, <2>12
<1>2. ASSUME ExposureInv PROVE RiskOf(Executable) <= RiskCap
  <2>1. IInv /\ Answered /\ PromiseInv
    BY <1>2 DEF ExposureInv
  <2>2. PICK risk, all, may :
          /\ risk = [q \in Executable |-> CommittedRisk(q)]
          /\ may = Executable /\ all = Promised
    OBVIOUS
  <2>3. PICK promised : promised = PromisedRisk
    OBVIOUS
  <2>4. /\ may \in SUBSET CommittedReviews /\ may \subseteq all
        /\ IsFiniteSet(all) /\ all \subseteq Reviews
        /\ \A q \in all : promised[q] \in Nat
    BY <2>1, <2>2, <2>3, PromisedFacts DEF Promised
  <2>5. \A q \in may : risk[q] = promised[q] /\ risk[q] \in Nat
    BY <2>2, <2>3, <2>4 DEF PromisedRisk
  <2>6. Total(risk, may) <= Total(promised, all)
    <3>1. \A q \in may : risk[q] \in Nat /\ risk[q] <= promised[q]
      BY <2>5
    <3> QED BY <2>4, <3>1, TotalMonotone
  <2>7. /\ RiskOf(Executable) = Total(risk, may)
        /\ Total(promised, all) <= RiskCap
    BY <2>1, <2>2, <2>3 DEF RiskOf, PromiseInv
  <2>8. Total(risk, may) \in Nat /\ Total(promised, all) \in Nat
    <3>1. IsFiniteSet(may)
      BY <2>4, FS_Subset
    <3> QED BY <2>4, <2>5, <3>1, TotalType
  <2> QED BY <2>6, <2>7, <2>8, CoordinatorAssumption
<1>3. ExposureInv => RiskUnderCap
  BY <1>1, <1>2 DEF RiskUnderCap
<1> QED BY <1>3, ExposureInvariance, PTL

\* A review has at most one committed approval, however often it is handled.
THEOREM ApprovedOnce == ExposureSpec => []OneApprovalPerReview
<1>1. Answered => OneApprovalPerReview
  BY DEF Answered
<1>2. Answered /\ [ExposureNext]_allVars => Answered'
  BY NextAnswered
<1> QED BY <1>1, <1>2, InitAnswered, PTL DEF ExposureSpec

\* One step changes the log by a commit or not at all; then approvals that may
\* still be entered only leave.
LEMMA ExecutableStep ==
  ASSUME IInv, Answered, SnapshotInv, SurroundingsOK, StartInv,
         [ExposureNext]_allVars
  PROVE  Commit \/ (UNCHANGED log /\ Executable' \subseteq Executable)
<1>1. clock' \in Nat /\ clock' >= clock
  BY SurroundingsNext
<1>2. ASSUME UNCHANGED <<log, exchange>> PROVE Executable' \subseteq Executable
  BY <1>1, <1>2, ExecutableShrinks
<1>3. ASSUME NEW r \in Reviews, EnterTrade(r) \/ FillEntry(r) \/ CloseTrade(r)
      PROVE  UNCHANGED log /\ Executable' \subseteq Executable
  <2>1. TradeStep(r)
    BY <1>3 DEF TradeStep, EnterTrade, FillEntry, CloseTrade
  <2> QED BY <2>1, TradeInv DEF TradeStep, Trade, durable
<1> QED
  BY <1>2, <1>3
  DEF ExposureNext, Recover, DeliverAccount, DeliverVenue, Evaluate, Deny,
      DropAtDeadline, RefuseBinding, FailCommit, Crash, Tick, EmitSnapshot,
      allVars, durable, outside

\* A committed approval appends one entry of a review that had none.
LEMMA CommitGrants ==
  ASSUME Answered, Commit, inflight.decision.verdict = "approved"
  PROVE  /\ inflight.review \in Reviews
         /\ \A i \in DOMAIN log : log[i].review # inflight.review
         /\ [i \in DOMAIN log |-> log[i].review]'
              = Append([i \in DOMAIN log |-> log[i].review], inflight.review)
<1>1. PICK r, e, before, after :
        /\ r = inflight.review /\ e = [review |-> r, risk |-> inflight.decision.risk]
        /\ before = log /\ after = log'
  OBVIOUS
<1>2. /\ r \in inbox /\ r \in Reviews /\ after = Append(before, e)
      /\ \A i \in DOMAIN before : before[i].review # r
      /\ before \in Seq(LogEntry) /\ e \in LogEntry
  BY <1>1 DEF Commit, Answered, LogEntry
<1>3. /\ Len(before) \in Nat /\ DOMAIN before = 1..Len(before)
      /\ \A i \in 1..Len(before) : before[i].review \in Reviews
  <2>1. before \in Seq(LogEntry)
    BY <1>2
  <2>2. Len(before) \in Nat /\ DOMAIN before = 1..Len(before)
    BY ONLY <2>1, LenProperties
  <2>3. \A i \in 1..Len(before) : before[i] \in LogEntry
    BY ONLY <2>1, ElementOfSeq
  <2> QED BY <2>2, <2>3 DEF LogEntry
<1>4. /\ DOMAIN after = 1..(Len(before) + 1)
      /\ \A i \in 1..Len(before) : after[i] = before[i]
      /\ after[Len(before) + 1].review = r
  <2>1. /\ after \in Seq(LogEntry) /\ Len(after) = Len(before) + 1
        /\ \A i \in 1..Len(before) : after[i] = before[i]
        /\ after[Len(before) + 1] = e
    BY <1>2, AppendProperties
  <2>2. DOMAIN after = 1..Len(after)
    BY ONLY <2>1, LenProperties
  <2> QED BY <1>1, <2>1, <2>2
<1>5. PICK n \in Nat : n = Len(before)
  BY <1>3
<1>6. PICK granted : granted = [i \in 1..n |-> before[i].review]
  OBVIOUS
<1>7. /\ granted \in Seq(Reviews) /\ Len(granted) = n
      /\ \A i \in 1..n : granted[i] = before[i].review
  BY <1>3, <1>5, <1>6
<1>8. Append(granted, r) = [i \in 1..(n + 1) |-> after[i].review]
  <2>0. granted \in Seq(Reviews) /\ r \in Reviews /\ Len(granted) = n
    BY <1>2, <1>7
  <2>1. /\ Append(granted, r) \in [1..(n + 1) -> Reviews]
        /\ \A i \in 1..n : Append(granted, r)[i] = granted[i]
        /\ Append(granted, r)[n + 1] = r
    <3>1. /\ Append(granted, r) \in Seq(Reviews)
          /\ Len(Append(granted, r)) = n + 1
          /\ \A i \in 1..n : Append(granted, r)[i] = granted[i]
          /\ Append(granted, r)[n + 1] = r
      BY ONLY <2>0, AppendProperties
    <3>2. Append(granted, r) \in [1..Len(Append(granted, r)) -> Reviews]
      BY ONLY <3>1, LenProperties
    <3> QED BY ONLY <3>1, <3>2
  <2>2. \A i \in 1..(n + 1) : Append(granted, r)[i] = after[i].review
    <3>1. \A i \in 1..(n + 1) : i \in 1..n \/ i = n + 1
      OBVIOUS
    <3> QED BY <1>4, <1>5, <1>7, <2>1, <3>1
  <2> QED BY <2>1, <2>2
<1>9. [i \in DOMAIN log |-> log[i].review] = granted
  BY <1>1, <1>3, <1>5, <1>6
<1>10. [i \in DOMAIN log |-> log[i].review]' = [i \in 1..(n + 1) |-> after[i].review]
  BY <1>1, <1>4, <1>5
<1> QED BY <1>1, <1>2, <1>8, <1>9, <1>10

\* Whatever crashes, fails, repeats or comes late, the approvals seen outside
\* form a book: granted one by one, each review once, beside none that excludes
\* it, and closed for good once entered or expired (_handle_paper_review,
\* _recover_paper_state).
THEOREM BookRefinement == ExposureSpec => ApprovalsFollowBook
<1>1. ExposureInit => Book!Init
  <2> SUFFICES ASSUME ExposureInit PROVE Book!Init
    OBVIOUS
  <2>1. log = <<>> /\ DOMAIN log = {}
    BY DEF ExposureInit
  <2>2. CommittedReviews = {}
    BY <2>1 DEF CommittedReviews
  <2>3. [i \in DOMAIN log |-> log[i].review] = <<>>
    BY <2>1
  <2> QED BY <2>2, <2>3 DEF Book!Init, Executable
<1>2. ASSUME ExposureInv, [ExposureNext]_allVars
      PROVE  Book!Next
  <2>1. /\ IInv /\ Answered /\ SnapshotInv /\ SurroundingsOK /\ StartInv
        /\ IInv' /\ Answered' /\ PromiseInv'
    BY <1>2, ExposureNextInv DEF ExposureInv
  <2>2. CASE UNCHANGED log /\ Executable' \subseteq Executable
    BY <2>2 DEF Book!Next, Book!Lapse
  <2>3. CASE Commit /\ inflight.decision.verdict # "approved"
    <3>1. UNCHANGED <<log, exchange, clock>>
      BY <2>1, <2>3, CommitLog DEF Commit, outside
    <3>2. Executable' = Executable
      BY <3>1, SameLog DEF Executable
    <3> QED BY <2>2, <3>1, <3>2
  <2>4. CASE Commit /\ inflight.decision.verdict = "approved"
    <3>1. PICK r : r = inflight.review
      OBVIOUS
    <3>2. /\ r \in Reviews /\ \A i \in DOMAIN log : log[i].review # r
          /\ [i \in DOMAIN log |-> log[i].review]'
               = Append([i \in DOMAIN log |-> log[i].review], r)
      BY <2>1, <2>4, <3>1, CommitGrants
    <3>3. /\ CommittedReviews' = CommittedReviews \cup {r}
          /\ UNCHANGED <<exchange, clock>>
      BY <2>1, <2>4, <3>1, CommitLog DEF Commit, outside
    <3>4. Executable' = Executable \/ Executable' = Executable \cup {r}
      <4>1. r \notin Executable
        BY <3>2 DEF Executable, CommittedReviews
      <4> QED BY <3>3, <4>1 DEF Executable
    <3>5. Executable' \in {S \in SUBSET Reviews : Exclusive(S)}
      <4>1. PICK now : now = Executable'
        OBVIOUS
      <4>2. \A q, z \in now : q # z =>
              SymbolOf[q] # SymbolOf[z] /\ ~(q \in CanaryReviews /\ z \in CanaryReviews)
        BY <2>1, <4>1 DEF PromiseInv, Promised
      <4>3. Exclusive(now)
        BY <4>2, PairwiseExclusive
      <4>4. now \subseteq Reviews
        <5>1. \A q \in CommittedReviews : q \in Reviews
          BY <2>1, CommittedFacts
        <5> QED BY <3>2, <3>3, <4>1, <5>1 DEF Executable
      <4> QED BY <4>1, <4>3, <4>4
    <3>6. \A i \in DOMAIN [n \in DOMAIN log |-> log[n].review] :
             [n \in DOMAIN log |-> log[n].review][i] # r
      BY <3>2
    <3>7. Book!Grant(r)
      BY <3>2, <3>4, <3>5, <3>6 DEF Book!Grant
    <3> QED BY <3>2, <3>7 DEF Book!Next
  <2> QED BY <1>2, <2>1, <2>2, <2>3, <2>4, ExecutableStep
<1>3. ExposureInv /\ [ExposureNext]_allVars => Book!Next
  BY <1>2
<1> QED
  BY <1>1, <1>3, ExposureInvariance, PTL
  DEF ExposureSpec, ApprovalsFollowBook, Book!Spec

\* An idea whose reservation ends while the process runs is shown by the account
\* admission now reads, or it is not open and can no longer be entered; so
\* nothing that is released can come back as risk the account does not carry
\* (_reconcile_reservations).
ReleasedForGood ==
  [][\A r \in Held(reservations) :
       recoveryLoaded' /\ ~reservations'[r].held =>
         \/ account'.rep[r] \in {"entry", "position"}
         \/ r \notin OpenTrades /\ clock > ExpiresAt[r]]_allVars

\* Reservations end by an accepted snapshot alone, and a snapshot that does not
\* show a trade after its deadline proves that it was never entered, since it
\* tells the truth (_reconcile_reservations).
THEOREM ReleaseIsFinal == ExposureSpec => ReleasedForGood
<1> DEFINE Final(r) == \/ account'.rep[r] \in {"entry", "position"}
                       \/ r \notin OpenTrades /\ clock > ExpiresAt[r]
           Goal == \A r \in Held(reservations) :
                     recoveryLoaded' /\ ~reservations'[r].held => Final(r)
<1>1. ASSUME ExposureInv, [ExposureNext]_allVars
      PROVE  Goal
  <2>1. IInv /\ Answered /\ SnapshotInv /\ SurroundingsOK /\ StartInv
    BY <1>1 DEF ExposureInv
  <2>2. ASSUME UNCHANGED reservations PROVE Goal
    BY <2>2 DEF Held
  <2>3. CASE Recover
    <3>1. Held(reservations) = {}
      BY <2>1, <2>3, RecoverFacts DEF IInv, NothingHeldEarly
    <3> QED BY <3>1
  <2>4. ASSUME NEW s \in stream, DeliverAccount(s) PROVE Goal
    <3>1. ApplyAccount(s)
      BY <2>4 DEF DeliverAccount
    <3>2. CASE UNCHANGED vars
      BY <2>2, <3>2 DEF vars
    <3>3. CASE account' = s /\ reservations' = Reconciled(s, reservations)
      <4> SUFFICES ASSUME NEW r \in Held(reservations), ~reservations'[r].held
                   PROVE  Final(r)
        OBVIOUS
      <4>1. r \in Reviews /\ ExpiresAt[r] \in Nat
        BY CoordinatorAssumption DEF Held
      <4>2. r \in Shown(s) \/ s.captured > ExpiresAt[r]
        BY <2>1, <3>3, DeliverReleases DEF Held
      <4>3. Truthful(s)
        BY <2>1 DEF SnapshotInv, Observed
      <4>4. CASE r \in Shown(s)
        BY <3>3, <4>1, <4>3, <4>4 DEF Shown, Truthful
      <4>5. CASE r \notin Shown(s)
        <5>1. s.captured > ExpiresAt[r] /\ s.captured \in 0..clock /\ clock \in Nat
          BY <2>1, <4>2, <4>3, <4>5 DEF Truthful, SurroundingsOK
        <5>2. r \notin OpenTrades
          BY <4>1, <4>3, <4>5, <5>1 DEF Truthful
        <5> QED BY <4>1, <5>1, <5>2
      <4> QED BY <4>4, <4>5
    <3> QED BY <2>1, <3>1, <3>2, <3>3, DeliverFacts
  <2>5. ASSUME NEW r \in Reviews, Evaluate(r) PROVE Goal
    <3>1. CASE EvaluateCached(r)
      BY <2>2, <3>1 DEF EvaluateCached
    <3>2. ASSUME NEW t, NEW vetoed, NEW d \in Verdicts, EvaluateFresh(r, t, vetoed, d)
          PROVE  Goal
      <4>1. Held(reservations) \subseteq Held(reservations')
        BY <2>1, <2>2, <3>2, FreshFacts
      <4> QED BY <4>1 DEF Held
    <3> QED BY <2>5, <3>1, <3>2 DEF Evaluate
  <2>6. CASE Crash
    BY <2>6 DEF Crash
  <2>7. ASSUME NEW s \in Symbols, NEW at \in VenueStamps, NEW id \in VenueIds,
               DeliverVenue(s, at, id)
        PROVE  Goal
    BY <2>2, <2>7
    DEF DeliverVenue, ApplyVenue, IgnoreVenue, ConflictingVenue, AcceptVenue, vars
  <2>8. CASE UNCHANGED vars
    BY <2>2, <2>8 DEF vars
  <2> HIDE DEF Goal
  <2> QED
    BY <1>1, <2>3, <2>4, <2>5, <2>6, <2>7, <2>8
    DEF ExposureNext, Deny, EvaluateDenied, DropAtDeadline, RefuseBinding, Commit,
        FailCommit, Tick, EmitSnapshot, Trade, EnterTrade, FillEntry, CloseTrade, allVars
<1>2. ExposureInv /\ [ExposureNext]_allVars => [Goal]_allVars
  BY <1>1
<1> QED BY <1>2, ExposureInvariance, PTL DEF ExposureSpec, ReleasedForGood
=============================================================================
