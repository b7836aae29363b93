--------------------------- MODULE PaperExposure ---------------------------
(***************************************************************************)
(* The PAPER admission coordinator in its surroundings: the serial review  *)
(* consumer and its publish-and-ack transaction, the durable audit log a   *)
(* restart recovers from (kairos_risk/service.py), and, outside this       *)
(* repository, the stream of account snapshots, the Execution service and  *)
(* the exchange.                                                           *)
(*                                                                         *)
(* External assumptions, each taken from how src/ uses the service:        *)
(*  - publish and ack of one review commit in one PostgreSQL transaction   *)
(*    (README.md, "Runtime delivery durability"), or neither does;         *)
(*  - Execution enters only a committed approval, once, and not after the  *)
(*    entry deadline;                                                      *)
(*  - a snapshot tells the truth about the exchange at its capture time,   *)
(*    and later snapshots have larger sequences;                           *)
(*  - an unacked message may be delivered again and in any order.          *)
(***************************************************************************)
EXTENDS PaperCoordinator

CONSTANTS
  HandlerDelay, \* bound on the age of the time a review is decided at
  VenueStamps,  \* observation times of the measurements that exist
  MaxTime,      \* bound on the clock
  MaxSeq,       \* bound on the number of snapshots
  MaxDisruptions \* bound on restarts and failed commits together

\* Any truthful snapshot within the bounds may come to be delivered.
ASSUME ExposureAssumption ==
  /\ VenueStamps \subseteq Nat
  /\ {HandlerDelay, MaxTime, MaxSeq, MaxDisruptions} \subseteq Nat
  /\ [seq : 1..MaxSeq, captured : 0..MaxTime, trusted : {TRUE},
      rep : [Reviews -> {"none", "entry", "position"}],
      openRisk : 0..(PerTradeRisk * Cardinality(Reviews))] \subseteq Snapshots

VARIABLES
  clock,     \* trusted UTC time
  inbox,     \* the reviews not yet acked
  inflight,  \* what the handler computed and has not published yet
  log,       \* committed approvals, in event_audit order
  exchange,  \* the life of each trade at the venue
  stream,    \* account snapshots not yet acked
  emitted,   \* sequence of the last snapshot
  crashes,
  failures

durable == <<inbox, log>>
outside == <<exchange, stream, emitted>>
bounds == <<crashes, failures>>
allVars == <<vars, clock, inbox, inflight, log, exchange, stream, emitted,
             crashes, failures>>

Idle == [review |-> "none", decision |-> Undecided]

CommittedReviews == {log[i].review : i \in DOMAIN log}
CommittedRisk(r) ==
  LET i == CHOOSE n \in DOMAIN log : log[n].review = r IN log[i].risk

OpenTrades == {r \in Reviews : exchange[r] \in {"entry", "position"}}

\* Committed approvals Execution may still act on.
Executable ==
  {r \in CommittedReviews : exchange[r] = "idle" /\ clock <= ExpiresAt[r]}

\* Ideas that carry, or may still come to carry, exchange risk.
Live == OpenTrades \cup Executable
RiskOf(S) == Total([r \in S |-> CommittedRisk(r)], S)

ExposureInit ==
  /\ Init
  /\ clock = 0
  /\ inbox = Reviews
  /\ inflight = Idle
  /\ log = <<>>
  /\ exchange = [r \in Reviews |-> "idle"]
  /\ stream = {}
  /\ emitted = 0
  /\ crashes = 0
  /\ failures = 0

-----------------------------------------------------------------------------
\* Mutant of Recover: an approval expiring this very instant is not restored.
RecoverUnexpired ==
  LET rows == AtIndices(log, {i \in DOMAIN log : ExpiresAt[log[i].review] > clock})
  IN  /\ RestoreReservations([i \in DOMAIN rows |-> rows[i].review],
                             [r \in Reviews |-> IF r \in CommittedReviews
                                                THEN CommittedRisk(r) ELSE 0])
      /\ UNCHANGED <<clock, durable, inflight, outside, bounds>>

\* Process start: restore the committed approvals whose entry deadline has not
\* passed, before any subscription (_recover_paper_state, run).
Recover ==
  LET rows == AtIndices(log, {i \in DOMAIN log : ExpiresAt[log[i].review] >= clock})
  IN  /\ RestoreReservations([i \in DOMAIN rows |-> rows[i].review],
                             [r \in Reviews |-> IF r \in CommittedReviews
                                                THEN CommittedRisk(r) ELSE 0])
      /\ UNCHANGED <<clock, durable, inflight, outside, bounds>>

\* _consume_paper_account: apply, then ack; a raised error leaves the message
\* pending, and so does a failed ack.
DeliverAccount(s) ==
  /\ recoveryLoaded
  /\ ApplyAccount(s)
  /\ LET raised == account' = NoSnapshot /\ s.seq >= latestSeq
     IN  stream' \in IF raised THEN {stream} ELSE {stream, stream \ {s}}
  /\ UNCHANGED <<clock, durable, inflight, exchange, emitted, bounds>>

\* _consume_paper_venue.
DeliverVenue(s, at, id) ==
  /\ recoveryLoaded
  /\ at <= clock
  /\ ApplyVenue(s, at, id)
  /\ UNCHANGED <<clock, durable, inflight, outside, bounds>>

\* _handle_paper_review up to the decision: cached, or freshly evaluated at a
\* time read before the operator (and the arm) were awaited.
Evaluate(r) ==
  /\ inflight = Idle
  /\ r \in inbox
  /\ \E d \in Verdicts :
       /\ \/ EvaluateCached(r) /\ d = decisions[r]
          \/ \E t \in 0..clock, vetoed \in BOOLEAN :
               clock - t <= HandlerDelay /\ EvaluateFresh(r, t, vetoed, d)
       /\ inflight' = [review |-> r, decision |-> d]
  /\ UNCHANGED <<clock, durable, outside, bounds>>

\* A decision denied by an external authority; it leaves the cache alone.
Deny(r) ==
  /\ inflight = Idle
  /\ r \in inbox
  /\ EvaluateDenied(r)
  /\ inflight' = [review |-> r, decision |-> Rejection]
  /\ UNCHANGED <<clock, durable, outside, bounds>>

\* wait_for_inputs reached the entry deadline: ack without a decision.
DropAtDeadline(r) ==
  /\ recoveryLoaded
  /\ inflight = Idle
  /\ r \in inbox
  /\ ~(RecoveryComplete /\ VenueUsable(SymbolOf[r]))
  /\ clock >= ExpiresAt[r]
  /\ inbox' = inbox \ {r}
  /\ UNCHANGED <<vars, clock, log, inflight, outside, bounds>>

\* Mutants of Commit: rejections enter the log of approvals; the decision is
\* published although the ack fails.
CommitRejections ==
  LET r == inflight.review
  IN  /\ inflight # Idle
      /\ inflight' = Idle
      /\ inbox' = inbox \ {r}
      /\ log' = Append(log, [review |-> r, risk |-> inflight.decision.risk])
      /\ UNCHANGED <<vars, clock, outside, bounds>>
CommitWithoutAck ==
  LET r == inflight.review
      d == inflight.decision
  IN  /\ inflight # Idle
      /\ inflight' = Idle
      /\ inbox' \in {inbox, inbox \ {r}}
      /\ log' = IF d.verdict = "approved"
                THEN Append(log, [review |-> r, risk |-> d.risk]) ELSE log
      /\ UNCHANGED <<vars, clock, outside, bounds>>

\* publish and ack commit together.
Commit ==
  LET r == inflight.review
      d == inflight.decision
  IN  /\ inflight # Idle
      /\ inflight' = Idle
      /\ inbox' = inbox \ {r}
      /\ log' = IF d.verdict = "approved"
                THEN Append(log, [review |-> r, risk |-> d.risk]) ELSE log
      /\ UNCHANGED <<vars, clock, outside, bounds>>

\* The transaction fails: the review stays pending and is handled again, the
\* coordinator keeps what it cached and reserved.
FailCommit ==
  /\ inflight # Idle
  /\ crashes + failures < MaxDisruptions
  /\ failures' = failures + 1
  /\ inflight' = Idle
  /\ UNCHANGED <<vars, clock, durable, outside, crashes>>

\* The process dies and loses its memory.
Crash ==
  /\ recoveryLoaded
  /\ crashes + failures < MaxDisruptions
  /\ crashes' = crashes + 1
  /\ account' = NoSnapshot /\ latestSeq' = -1 /\ latestCaptured' = -1
  /\ venue' = [s \in Symbols |-> [at |-> -1, id |-> NoVenue]]
  /\ decisions' = [r \in Reviews |-> Undecided] /\ lru' = <<>>
  /\ reservations' = [r \in Reviews |-> Free]
  /\ recoveryLoaded' = FALSE /\ accountReady' = FALSE
  /\ inflight' = Idle
  /\ UNCHANGED <<clock, durable, outside, failures>>

\* The operator repository refuses to bind an approval: it is evaluated again
\* with that denial, or its inputs are gone by now and the handler waits again.
RefuseBinding ==
  LET r == inflight.review
  IN  /\ inflight.decision.verdict = "approved"
      /\ \/ EvaluateDenied(r) /\ inflight' = [review |-> r, decision |-> Rejection]
         \/ Unavailable(r, TRUE) /\ inflight' = Idle /\ UNCHANGED vars
      /\ UNCHANGED <<clock, durable, outside, bounds>>

-----------------------------------------------------------------------------
\* External steps.
Tick ==
  /\ clock < MaxTime
  /\ clock' = clock + 1
  /\ UNCHANGED <<vars, durable, inflight, outside, bounds>>

EmitSnapshot ==
  /\ emitted < MaxSeq
  /\ emitted' = emitted + 1
  /\ stream' = stream \cup
       {[seq |-> emitted', captured |-> clock, trusted |-> TRUE,
         rep |-> [r \in Reviews |-> IF r \in OpenTrades THEN exchange[r]
                                                        ELSE "none"],
         openRisk |-> RiskOf(OpenTrades)]}
  /\ UNCHANGED <<vars, clock, durable, inflight, exchange, bounds>>

Trade(r, state) ==
  /\ exchange' = [exchange EXCEPT ![r] = state]
  /\ UNCHANGED <<vars, clock, durable, inflight, stream, emitted, bounds>>

EnterTrade(r) == r \in Executable /\ Trade(r, "entry")
FillEntry(r) == exchange[r] = "entry" /\ Trade(r, "position")
CloseTrade(r) == r \in OpenTrades /\ Trade(r, "closed")

ExposureNext ==
  \/ Recover
  \/ \E s \in stream : DeliverAccount(s)
  \/ \E s \in Symbols, at \in VenueStamps, id \in VenueIds : DeliverVenue(s, at, id)
  \/ \E r \in Reviews : Evaluate(r) \/ Deny(r) \/ DropAtDeadline(r)
  \/ RefuseBinding
  \/ Commit
  \/ FailCommit
  \/ Crash
  \/ Tick
  \/ EmitSnapshot
  \/ \E r \in Reviews : EnterTrade(r) \/ FillEntry(r) \/ CloseTrade(r)

ExposureSpec == ExposureInit /\ [][ExposureNext]_allVars

-----------------------------------------------------------------------------
(***************************************************************************)
(* Properties.                                                             *)
(***************************************************************************)
\* Every variable keeps its type.
ExposureTypeOK ==
  /\ TypeOK
  /\ clock \in 0..MaxTime
  /\ inbox \subseteq Reviews
  /\ inflight \in [review : Reviews \cup {"none"}, decision : Decision]
  /\ log \in Seq([review : Reviews, risk : 1..PerTradeRisk])
  /\ exchange \in [Reviews -> {"idle", "entry", "position", "closed"}]
  /\ stream \subseteq Snapshots
  /\ emitted \in 0..MaxSeq

\* Ideas that the policy lets carry risk side by side: one per symbol
\* (README.md:131-133 and 153-155) and at most one canary (README.md:135-137).
OnePerSymbol(S) == \A r, q \in S : r # q => SymbolOf[r] # SymbolOf[q]
Exclusive(S) == OnePerSymbol(S) /\ Cardinality(S \cap CanaryReviews) <= 1

\* One symbol never carries two ideas: neither two open trades, nor an open
\* trade and an approval Execution may still act on (the reservation, transfer
\* and release rules together).
OneIdeaPerSymbol == OnePerSymbol(Live)

\* That holds until a first restart.  Across any number of restarts and failed
\* commits no two approvals Execution may still act on exclude each other:
\* recovery has every one of them reserved before a review is admitted
\* (_recover_paper_state, evaluate, _handle_paper_review).
ExclusiveIdeas ==
  /\ Exclusive(Executable)
  /\ crashes = 0 => Exclusive(Live)

\* Still executable risk stays under the portfolio ceiling whatever crashed
\* (README.md:134; _size_quantity and the portfolio gate), and together with
\* open risk until a restart.
RiskUnderCap ==
  /\ RiskOf(Executable) <= RiskCap
  /\ crashes = 0 => RiskOf(Live) <= RiskCap

\* While the process runs, every committed approval that Execution may still
\* act on holds its reservation at its committed risk, whatever crashed or
\* failed before: recovery brings it back and no snapshot releases it early
\* (_recover_paper_state, restore_reservations, _reconcile_reservations).
ExecutableIsReserved ==
  recoveryLoaded =>
    \A r \in Executable :
      r \in Held(reservations) /\ reservations[r].risk = CommittedRisk(r)

\* What comes of all this outside is a book of approvals: each review is granted
\* at most once, next to none it excludes, and is never executable again after
\* it was entered or expired, although it may be handled many times: failed
\* commits and crashes come between evaluation and commit
\* (_handle_paper_review, restore_reservations' conflict check).
Book == INSTANCE ApprovalBook WITH
  granted <- [i \in DOMAIN log |-> log[i].review],
  open <- Executable,
  Compatible <- {S \in SUBSET Reviews : Exclusive(S)}
ApprovalsFollowBook == Book!Spec
=============================================================================
