-------------------------- MODULE CanaryController --------------------------
(***************************************************************************)
(* The technical canary: invocations of the session controller             *)
(* (kairos_risk/canary_runner.py) and of the publishing command            *)
(* (kairos_risk/canary.py), each preparing at most one candidate from      *)
(* durable facts and arming it, and the Risk consumer that takes the       *)
(* armed review and its arm (canary_authorization.py, service.py).         *)
(*                                                                         *)
(* A review is identified by the slot's parameters, the closed bar and the *)
(* reading it was built from: the executable price and the instrument rule *)
(* that _build_intent turns into the bound quantity.  So two invocations   *)
(* may prepare the same review, or two of one slot.                        *)
(*                                                                         *)
(* External, as src/ uses them and README.md:247-285 describes them: the   *)
(* session repository arms slots in order, each once, and nothing when     *)
(* draining or past the deadline; the same review is answered with its     *)
(* existing arm; arming, audit and outbox commit together, though the      *)
(* reply may be lost; an attempt is terminal once its review was answered  *)
(* and nothing of it can be, or become, exchange risk.  A durable account  *)
(* snapshot tells the truth about its capture time.                        *)
(***************************************************************************)
EXTENDS Integers, Sequences, FiniteSets

CONSTANTS
  Invocations,      \* runs of a command line, at most one candidate each
  Plan,             \* the session's slots, in order
  BarCloses,        \* close times of the bars
  Readings,         \* what venue and instrument may say of one bar
  SessionDeadline,
  SnapshotMaxAge,   \* paper_account_snapshot_max_age_s
  ClockSkew,        \* CANARY_MAX_CLOCK_SKEW_MS
  LastTime,         \* bound on the clock
  MaxRetries,       \* bound on rounds and handlings that fail
  NoReview

Slots == {Plan[i] : i \in DOMAIN Plan}
CanaryReview == [slot : Slots, bar : BarCloses, reading : Readings]

ASSUME CanaryAssumption ==
  /\ Plan \in Seq([window : Nat, symbol : STRING])
  /\ BarCloses \subseteq Nat
  /\ SessionDeadline \in Nat /\ SnapshotMaxAge \in Nat /\ ClockSkew \in Nat
  /\ LastTime \in Nat /\ MaxRetries \in Nat
  /\ NoReview \notin CanaryReview

VARIABLES
  clock,
  draining,   \* stop was requested
  attempts,   \* the session's ledger: arms and outcomes, in slot order
  runs,       \* the invocations
  reviews,    \* armed reviews Risk has not acked
  handling,   \* _handle_paper_review, at most one at a time
  verdicts,   \* approvals the process has cached
  approvals,  \* those committed
  trades,     \* what Execution made of them
  account,    \* the newest durable account snapshot
  retries

session == <<draining, attempts>>
risk == <<reviews, handling, verdicts, approvals>>
venue == <<trades, account>>
vars == <<clock, draining, attempts, runs, reviews, handling, verdicts,
          approvals, trades, account, retries>>

Eligible(b) == b.bar + 1
Expires(b) == Eligible(b) + b.slot.window

NotStarted == [at |-> "idle", command |-> "none", now |-> 0, slot |-> 0,
               review |-> NoReview]
NotHandling == [at |-> "idle", review |-> NoReview, now |-> 0, decidedAt |-> 0,
                checked |-> FALSE, denied |-> FALSE]

Approved == {a.review : a \in approvals}
Open == {b \in Approved : trades[b] = "open"}
Executable == {b \in Approved : trades[b] = "idle" /\ clock <= Expires(b)}
Live == Open \cup Executable

Init ==
  /\ clock = 0
  /\ draining = FALSE /\ attempts = <<>>
  /\ runs = [p \in Invocations |-> NotStarted]
  /\ reviews = {} /\ handling = NotHandling
  /\ verdicts = {} /\ approvals = {}
  /\ trades = [b \in CanaryReview |-> "idle"]
  /\ account = [captured |-> 0, open |-> {}]
  /\ retries = 0

-----------------------------------------------------------------------------
(***************************************************************************)
(* The command lines.                                                      *)
(***************************************************************************)
\* Mutant of Selected: an attempt is over once Risk has taken its arm.
SelectedAfterConsumption ==
  IF draining \/ \E i \in DOMAIN attempts :
                   ~attempts[i].terminal /\ attempts[i].status # "CONSUMED"
  THEN {}
  ELSE {n \in DOMAIN Plan : n = Len(attempts) + 1}

\* next_slot: the first unused one, once every earlier attempt is over; none
\* when the session does not admit or is exhausted.
Selected ==
  IF draining \/ \E i \in DOMAIN attempts : ~attempts[i].terminal
  THEN {}
  ELSE {n \in DOMAIN Plan : n = Len(attempts) + 1}

\* The clock is read once, before anything is loaded.
Start(p, command) ==
  /\ runs[p] = NotStarted
  /\ \E n \in IF command = "submit-next" THEN Selected ELSE DOMAIN Plan :
       runs' = [runs EXCEPT ![p] =
                  [at |-> "started", command |-> command, now |-> clock,
                   slot |-> n, review |-> NoReview]]
  /\ UNCHANGED <<clock, session, risk, venue, retries>>

\* Mutant of Reserved: approvals are over when they expire by the own clock.
ReservedNow(now) == {b \in Approved : Expires(b) >= now}

\* The approvals the account snapshot need not show yet (_load_snapshot).
Reserved(now) == {b \in Approved : Expires(b) >= account.captured}

\* Everything prepare_canary refuses for, as read in one repeatable-read
\* transaction; venue, instrument and geometry refuse through Abandon, and the
\* newest durable bar may be any closed one.
Preflight(b, now) ==
  /\ Eligible(b) <= now /\ now < Expires(b)
  /\ account.captured <= now /\ now - account.captured <= SnapshotMaxAge
  /\ account.open = {}
  /\ Reserved(now) = {}

Prepare(p) ==
  /\ runs[p].at = "started"
  /\ \E t \in BarCloses, x \in Readings :
       LET b == [slot |-> Plan[runs[p].slot], bar |-> t, reading |-> x]
       IN  /\ t <= clock
           /\ Preflight(b, runs[p].now)
           /\ runs' = [runs EXCEPT ![p] = [@ EXCEPT !.at = "prepared", !.review = b]]
  /\ UNCHANGED <<clock, session, risk, venue, retries>>

\* The process ends, and what it held with it.
Ended(at) == [NotStarted EXCEPT !.at = at]

\* Refused, interrupted or killed before the arm.
Abandon(p) ==
  /\ runs[p].at \in {"started", "prepared"}
  /\ runs' = [runs EXCEPT ![p] = Ended("ended")]
  /\ UNCHANGED <<clock, session, risk, venue, retries>>

\* What the repository admits: the next slot of a session still open.
Admits(n) == ~draining /\ clock < SessionDeadline /\ n = Len(attempts) + 1

Attempt(b) == [review |-> b, status |-> "ARMED", decidedAt |-> 0, terminal |-> FALSE]
Armed(b) == {i \in DOMAIN attempts : attempts[i].review = b}

\* _validate_session_binding: no entry outlives the session.
WithinSession(b, now) == now < SessionDeadline /\ Expires(b) <= SessionDeadline

\* validate_armed_record, at the time the invocation started.
Confirmed(b, now) == WithinSession(b, now) /\ now < Expires(b)

\* CanarySession.run: arm and enqueue, or find the same review armed already.
\* The reply may be lost: the invocation ends unconfirmed either way.
Arm(p) ==
  LET b == runs[p].review
      ended == IF Confirmed(b, runs[p].now) THEN {"published", "ended"} ELSE {"ended"}
  IN  /\ runs[p].at = "prepared"
      /\ \/ Armed(b) # {} /\ UNCHANGED <<attempts, reviews>>
         \/ /\ Armed(b) = {}
            /\ Admits(runs[p].slot)
            /\ attempts' = Append(attempts, Attempt(b))
            /\ reviews' = reviews \cup {b}
      /\ \E at \in ended : runs' = [runs EXCEPT ![p] = Ended(at)]
      /\ UNCHANGED <<clock, draining, handling, verdicts, approvals, venue, retries>>

Stop ==
  /\ draining' = TRUE
  /\ UNCHANGED <<clock, attempts, runs, risk, venue, retries>>

-----------------------------------------------------------------------------
(***************************************************************************)
(* Risk's handling of an armed review, in rounds.                          *)
(***************************************************************************)
TakeReview(b) ==
  /\ handling = NotHandling
  /\ b \in reviews
  /\ handling' = [NotHandling EXCEPT !.at = "inputs", !.review = b]
  /\ UNCHANGED <<clock, session, runs, reviews, verdicts, approvals, venue, retries>>

\* The inputs are there; a round starts with the clock of the process.
StartRound ==
  /\ handling.at = "inputs"
  /\ handling' = [handling EXCEPT !.at = "authority", !.now = clock, !.decidedAt = clock]
  /\ UNCHANGED <<clock, session, runs, reviews, verdicts, approvals, venue, retries>>

\* Mutant of Authorizes: only the present has to lie inside the session.
AuthorizesBeyond(b, decided, now) ==
  /\ now < SessionDeadline /\ now < Expires(b)
  /\ Eligible(b) <= decided /\ decided < Expires(b)
  /\ decided <= now + ClockSkew

\* Mutant of Authorizes: a consumed arm is replayed at any later time.
AuthorizesReplay(b, decided, now) ==
  /\ Expires(b) <= SessionDeadline
  /\ Eligible(b) <= decided /\ decided < Expires(b)
  /\ decided <= now + ClockSkew

\* allocation_from_consumed_arm.
Authorizes(b, decided, now) ==
  /\ WithinSession(b, now) /\ now < Expires(b)
  /\ Eligible(b) <= decided /\ decided < Expires(b)
  /\ decided <= now + ClockSkew

\* consume: the database decides once, and tells the same ever after.
Consume ==
  LET b == handling.review
      i == CHOOSE n \in Armed(b) : TRUE
      decided == IF attempts[i].status = "CONSUMED" THEN attempts[i].decidedAt ELSE clock
      valid == Authorizes(b, decided, handling.now)
  IN  /\ handling.at = "authority"
      /\ ~handling.checked
      /\ attempts' = [attempts EXCEPT ![i] =
                       [@ EXCEPT !.status = "CONSUMED", !.decidedAt = decided]]
      /\ handling' = [handling EXCEPT !.at = "evaluate", !.checked = TRUE,
                        !.denied = handling.denied \/ ~valid,
                        !.decidedAt = IF valid THEN decided ELSE handling.decidedAt]
      /\ UNCHANGED <<clock, draining, runs, reviews, verdicts, approvals, venue, retries>>

\* A later round does not consume again; without an operator nothing does, and
\* the denial stays.
SkipArm ==
  /\ handling.at = "authority"
  /\ \E operator \in {TRUE, FALSE} :
       /\ handling.checked \/ ~operator
       /\ handling' = [handling EXCEPT !.at = "evaluate",
                         !.denied = handling.denied \/ ~operator]
  /\ UNCHANGED <<clock, session, runs, reviews, verdicts, approvals, venue, retries>>

\* PaperInputUnavailable: another round, what was checked stays checked.
Retry ==
  /\ handling.at \in {"evaluate", "publish"}
  /\ retries < MaxRetries
  /\ retries' = retries + 1
  /\ handling' = [handling EXCEPT !.at = "inputs"]
  /\ UNCHANGED <<clock, session, runs, reviews, verdicts, approvals, venue>>

\* Mutant of Evaluate: a repeated round decides anew.
EvaluateAnew ==
  LET b == handling.review
  IN  /\ handling.at = "evaluate"
      /\ ~handling.denied
      /\ Eligible(b) <= handling.decidedAt /\ handling.decidedAt < Expires(b)
      /\ verdicts' = verdicts \cup {[review |-> b, decidedAt |-> handling.decidedAt]}
      /\ handling' = [handling EXCEPT !.at = "publish"]
      /\ UNCHANGED <<clock, session, runs, reviews, approvals, venue, retries>>

\* The coordinator's verdict: the cached approval, or one for the decision
\* time of this round if that lies in the entry window.
Evaluate ==
  LET b == handling.review
      known == {v \in verdicts : v.review = b}
  IN  /\ handling.at = "evaluate"
      /\ ~handling.denied
      /\ \/ known # {} /\ UNCHANGED verdicts
         \/ /\ known = {}
            /\ Eligible(b) <= handling.decidedAt /\ handling.decidedAt < Expires(b)
            /\ verdicts' = verdicts \cup {[review |-> b, decidedAt |-> handling.decidedAt]}
      /\ handling' = [handling EXCEPT !.at = "publish"]
      /\ UNCHANGED <<clock, session, runs, reviews, approvals, venue, retries>>

\* Published and acked together.
Publish ==
  /\ handling.at = "publish"
  /\ approvals' = approvals \cup {v \in verdicts : v.review = handling.review}
  /\ reviews' = reviews \ {handling.review}
  /\ handling' = NotHandling
  /\ UNCHANGED <<clock, session, runs, verdicts, venue, retries>>

\* Denied, by the policy, the operator or the arm, or dropped at the entry
\* deadline.
Refuse ==
  /\ \/ handling.at \in {"evaluate", "publish"}
     \/ handling.at = "inputs" /\ clock >= Expires(handling.review)
  /\ reviews' = reviews \ {handling.review}
  /\ handling' = NotHandling
  /\ UNCHANGED <<clock, session, runs, verdicts, approvals, venue, retries>>

\* A call raises or the transaction fails; or the process dies, and comes back
\* with what was committed.
FailHandling ==
  /\ handling # NotHandling
  /\ retries < MaxRetries
  /\ retries' = retries + 1
  /\ handling' = NotHandling
  /\ verdicts' \in {verdicts, approvals}
  /\ UNCHANGED <<clock, session, runs, reviews, approvals, venue>>

-----------------------------------------------------------------------------
(***************************************************************************)
(* Outside: time, Execution, the account audit and the attempts' outcomes. *)
(***************************************************************************)
Tick ==
  /\ clock < LastTime
  /\ clock' = clock + 1
  /\ UNCHANGED <<session, runs, risk, venue, retries>>

Enter(b) ==
  /\ b \in Executable
  /\ trades' = [trades EXCEPT ![b] = "open"]
  /\ UNCHANGED <<clock, session, runs, risk, account, retries>>

Close(b) ==
  /\ b \in Open
  /\ trades' = [trades EXCEPT ![b] = "closed"]
  /\ UNCHANGED <<clock, session, runs, risk, account, retries>>

AuditAccount ==
  /\ account' = [captured |-> clock, open |-> Open]
  /\ UNCHANGED <<clock, session, runs, risk, trades, retries>>

Conclude(i) ==
  /\ attempts[i].review \notin reviews \cup Live
  /\ attempts' = [attempts EXCEPT ![i] = [@ EXCEPT !.terminal = TRUE]]
  /\ UNCHANGED <<clock, draining, runs, risk, venue, retries>>

Next ==
  \/ \E p \in Invocations :
       \/ \E command \in {"submit-next", "publish"} : Start(p, command)
       \/ Prepare(p) \/ Abandon(p) \/ Arm(p)
  \/ Stop
  \/ \E b \in reviews : TakeReview(b)
  \/ StartRound \/ Consume \/ SkipArm \/ Retry
  \/ Evaluate \/ Publish \/ Refuse \/ FailHandling
  \/ Tick
  \/ \E b \in Approved : Enter(b) \/ Close(b)
  \/ AuditAccount
  \/ \E i \in DOMAIN attempts : Conclude(i)

Spec == Init /\ [][Next]_vars

-----------------------------------------------------------------------------
(***************************************************************************)
(* Properties.                                                             *)
(***************************************************************************)
\* Every variable keeps its type.
CanaryTypeOK ==
  /\ clock \in 0..LastTime
  /\ draining \in BOOLEAN
  /\ attempts \in Seq([review : CanaryReview, status : {"ARMED", "CONSUMED"},
                       decidedAt : Nat, terminal : BOOLEAN])
  /\ runs \in [Invocations ->
       [at : {"idle", "started", "prepared", "published", "ended"},
        command : {"none", "submit-next", "publish"}, now : Nat,
        slot : Nat, review : CanaryReview \cup {NoReview}]]
  /\ reviews \subseteq CanaryReview
  /\ handling \in [at : {"idle", "inputs", "authority", "evaluate", "publish"},
                   review : CanaryReview \cup {NoReview}, now : Nat,
                   decidedAt : Nat, checked : BOOLEAN, denied : BOOLEAN]
  /\ handling.at = "idle" <=> handling.review = NoReview
  /\ verdicts \cup approvals \subseteq [review : CanaryReview, decidedAt : Nat]
  /\ trades \in [CanaryReview -> {"idle", "open", "closed"}]
  /\ account \in [captured : Nat, open : SUBSET CanaryReview]
  /\ retries \in 0..MaxRetries

\* A candidate is prepared only while no canary is open or can still be
\* entered, although the account snapshot it reads lags behind approvals and
\* entries: what the snapshot cannot show yet is still reserved
\* (_load_snapshot, _validate_inputs).
PreparedWhileFlat ==
  [][\A p \in Invocations : (runs[p].at = "started" /\ runs'[p].at = "prepared")
        => Live = {}]_vars

\* submit-next adds no attempt beside one that is pending or live, whatever
\* ran in between its look at the ledger and its arm, another invocation of
\* either command, a lost reply or a stop (next_slot, README.md:274-280).
SubmittedWhileFlat ==
  [][\A p \in Invocations :
       (runs[p].command = "submit-next" /\ runs'[p].at # runs[p].at /\ attempts' # attempts)
          => /\ Live = {} /\ reviews = {}
             /\ \A i \in DOMAIN attempts : attempts[i].terminal]_vars

\* A canary is approved inside its entry window and its session, over any number
\* of rounds, redeliveries and replays of the consumed arm
\* (_handle_paper_review, allocation_from_consumed_arm).
ApprovedInsideSession ==
  \A a \in approvals :
    /\ Eligible(a.review) <= a.decidedAt
    /\ a.decidedAt < Expires(a.review)
    /\ Expires(a.review) <= SessionDeadline

\* The clock of the process is inside entry window and session as well when the
\* approval is decided, although a consumed arm replayed in a later handling
\* brings the decision time of its first consumption
\* (allocation_from_consumed_arm, _validate_session_binding).
DecidedByPresentClock ==
  [][\A v \in verdicts' \ verdicts :
       handling.now < Expires(v.review) /\ handling.now < SessionDeadline]_vars

\* However often either command is repeated after a lost reply, and whatever it
\* reads anew, a slot is armed at most once; and each approval belongs to one
\* consumed attempt and is its only one, over rounds, redeliveries and restarts
\* ("never reset or retry a used slot", canary_runner.py:51; "retrying the exact
\* binding is idempotent", canary.py:298).
OneApprovalPerAttempt ==
  /\ \A i \in DOMAIN attempts : attempts[i].review.slot = Plan[i]
  /\ \A a \in approvals :
       /\ \E i \in Armed(a.review) : attempts[i].status = "CONSUMED"
       /\ \A other \in approvals : other.review = a.review => other = a
=============================================================================
