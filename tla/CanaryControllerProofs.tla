----------------------- MODULE CanaryControllerProofs -----------------------
(***************************************************************************)
(* Proofs about the technical canary, for every number of invocations,     *)
(* every plan and every set of bars.                                       *)
(*                                                                         *)
(* Known ties what is under way to what is recorded: an invocation to a    *)
(* slot, a handling to its review, a review and an approval to an attempt. *)
(* Ledger says that a concluded attempt is really over, and that an        *)
(* invocation of submit-next whose slot is still the next one has seen     *)
(* nothing but concluded attempts.  Seen bounds what the account snapshot  *)
(* can miss.  Bounded carries the authorization from the consumption of    *)
(* the arm to the commit of the approval, Present the clock of the round   *)
(* beside the decision time the arm brings.  Single ties every verdict to  *)
(* one consumed attempt of one slot.                                       *)
(***************************************************************************)
EXTENDS CanaryController, SequenceTheorems, TLAPS

AttemptSet == [review : CanaryReview, status : {"ARMED", "CONSUMED"},
               decidedAt : Nat, terminal : BOOLEAN]

RunSet == [at : {"idle", "started", "prepared", "published", "ended"},
           command : {"none", "submit-next", "publish"}, now : Nat,
           slot : Nat, review : CanaryReview \cup {NoReview}]

HandlingSet == [at : {"idle", "inputs", "authority", "evaluate", "publish"},
                review : CanaryReview \cup {NoReview}, now : Nat,
                decidedAt : Nat, checked : BOOLEAN, denied : BOOLEAN]

VerdictSet == [review : CanaryReview, decidedAt : Nat]

\* What the command lines leave of an invocation that has ended.
LEMMA EndedRun ==
  ASSUME NEW p \in Invocations, Abandon(p) \/ Arm(p)
  PROVE  \E e \in RunSet : /\ runs' = [runs EXCEPT ![p] = e]
                           /\ e.at \in {"published", "ended"} /\ e.command = "none"
<1>1. PICK at \in {"published", "ended"} : runs' = [runs EXCEPT ![p] = Ended(at)]
  BY DEF Abandon, Arm
<1>2. Ended(at) \in RunSet /\ Ended(at).at = at /\ Ended(at).command = "none"
  BY DEF Ended, NotStarted, RunSet
<1> QED BY <1>1, <1>2

Known ==
  /\ \A p \in Invocations :
       /\ runs[p].at \in {"started", "prepared"} => runs[p].slot \in DOMAIN Plan
       /\ runs[p].at = "prepared" => runs[p].review \in CanaryReview
  /\ \A b \in reviews \cup Approved : Armed(b) # {}
  /\ handling.at # "idle" => handling.review \in reviews

TInv == CanaryTypeOK /\ Known

-----------------------------------------------------------------------------
\* A review's times are numbers.
LEMMA ReviewTimes ==
  ASSUME NEW b \in CanaryReview
  PROVE  Eligible(b) \in Nat /\ Expires(b) \in Nat
<1> DEFINE S == [window : Nat, symbol : STRING]
<1>1. Plan \in Seq(S)
  BY CanaryAssumption
<1>2. b.slot \in Slots /\ b.bar \in Nat
  BY CanaryAssumption DEF CanaryReview
<1>3. PICK n \in DOMAIN Plan : b.slot = Plan[n]
  BY <1>2 DEF Slots
<1>4. n \in 1..Len(Plan)
  BY <1>1, LenProperties
<1> HIDE DEF S
<1>5. b.slot \in S
  BY <1>1, <1>3, <1>4, ElementOfSeq
<1>6. b.slot.window \in Nat
  BY <1>5 DEF S
<1> QED BY <1>2, <1>6 DEF Eligible, Expires

\* What an attempt is rewritten to keeps the ledger's other entries.
LEMMA LedgerExcept ==
  ASSUME NEW s \in Seq(AttemptSet), NEW i \in DOMAIN s, NEW e \in AttemptSet
  PROVE  /\ [s EXCEPT ![i] = e] \in Seq(AttemptSet)
         /\ Len([s EXCEPT ![i] = e]) = Len(s)
         /\ DOMAIN [s EXCEPT ![i] = e] = DOMAIN s
         /\ \A j \in DOMAIN s : [s EXCEPT ![i] = e][j] = IF j = i THEN e ELSE s[j]
<1> QED BY ExceptSeq, LenProperties

\* How any step changes the ledger: entries keep their review, an outcome is
\* final, and a new entry is an attempt that nothing is known of.
LEMMA LedgerStep ==
  ASSUME TInv, [Next]_vars
  PROVE  /\ attempts' \in Seq(AttemptSet)
         /\ DOMAIN attempts \subseteq DOMAIN attempts'
         /\ DOMAIN attempts = 1..Len(attempts) /\ DOMAIN attempts' = 1..Len(attempts')
         /\ Len(attempts) \in Nat /\ Len(attempts') \in Nat
         /\ \A i \in DOMAIN attempts :
              /\ attempts'[i].review = attempts[i].review
              /\ attempts[i].terminal => attempts'[i].terminal
              /\ attempts'[i].terminal => attempts[i].terminal \/ Conclude(i)
         /\ \A i \in DOMAIN attempts' \ DOMAIN attempts :
              \E p \in Invocations : Arm(p) /\ attempts'[i] = Attempt(runs[p].review)
<1> DEFINE Keeps ==
      /\ attempts' \in Seq(AttemptSet)
      /\ DOMAIN attempts \subseteq DOMAIN attempts'
      /\ DOMAIN attempts = 1..Len(attempts) /\ DOMAIN attempts' = 1..Len(attempts')
      /\ Len(attempts) \in Nat /\ Len(attempts') \in Nat
      /\ \A i \in DOMAIN attempts :
           /\ attempts'[i].review = attempts[i].review
           /\ attempts[i].terminal => attempts'[i].terminal
           /\ attempts'[i].terminal => attempts[i].terminal \/ Conclude(i)
      /\ \A i \in DOMAIN attempts' \ DOMAIN attempts :
           \E p \in Invocations : Arm(p) /\ attempts'[i] = Attempt(runs[p].review)
<1>1. attempts \in Seq(AttemptSet)
  BY DEF TInv, CanaryTypeOK, AttemptSet
<1>2. DOMAIN attempts = 1..Len(attempts) /\ Len(attempts) \in Nat
  BY <1>1, LenProperties
<1>3. CASE UNCHANGED attempts
  BY <1>1, <1>2, <1>3
<1>4. ASSUME NEW i \in DOMAIN attempts, NEW e \in AttemptSet,
             attempts' = [attempts EXCEPT ![i] = e],
             e.review = attempts[i].review,
             attempts[i].terminal => e.terminal,
             e.terminal => attempts[i].terminal \/ Conclude(i)
      PROVE  Keeps
  <2>1. /\ attempts' \in Seq(AttemptSet) /\ Len(attempts') = Len(attempts)
        /\ DOMAIN attempts' = DOMAIN attempts
        /\ \A j \in DOMAIN attempts : attempts'[j] = IF j = i THEN e ELSE attempts[j]
    BY <1>1, <1>4, LedgerExcept
  <2> QED BY <1>2, <1>4, <2>1
<1>5. ASSUME NEW p \in Invocations, Arm(p) PROVE Keeps
  <2>1. CASE UNCHANGED attempts
    BY <1>3, <2>1
  <2>2. CASE attempts' = Append(attempts, Attempt(runs[p].review))
    <3>1. Attempt(runs[p].review) \in AttemptSet
      BY <1>5 DEF Arm, Attempt, AttemptSet, TInv, Known
    <3>2. /\ attempts' \in Seq(AttemptSet) /\ Len(attempts') = Len(attempts) + 1
          /\ \A i \in 1..Len(attempts) : attempts'[i] = attempts[i]
          /\ attempts'[Len(attempts) + 1] = Attempt(runs[p].review)
      BY <1>1, <2>2, <3>1, AppendProperties
    <3>3. DOMAIN attempts' = 1..Len(attempts')
      BY <3>2, LenProperties
    <3> QED BY <1>2, <1>5, <3>2, <3>3
  <2> QED BY <1>5, <2>1, <2>2 DEF Arm
<1>6. ASSUME Consume PROVE Keeps
  <2> DEFINE i == CHOOSE n \in Armed(handling.review) : TRUE
             d == IF attempts[i].status = "CONSUMED" THEN attempts[i].decidedAt ELSE clock
  <2>1. i \in DOMAIN attempts
    BY <1>6 DEF Consume, TInv, Known, Armed
  <2>2. attempts' = [attempts EXCEPT ![i] =
                       [@ EXCEPT !.status = "CONSUMED", !.decidedAt = d]]
    BY <1>6 DEF Consume
  <2> HIDE DEF i
  <2>3. attempts[i] \in AttemptSet /\ d \in Nat
    <3>1. attempts[i] \in AttemptSet
      BY <1>1, <1>2, <2>1, ElementOfSeq
    <3>2. clock \in Nat
      BY DEF TInv, CanaryTypeOK
    <3> QED BY <3>1, <3>2 DEF AttemptSet
  <2> HIDE DEF d
  <2> DEFINE e == [attempts[i] EXCEPT !.status = "CONSUMED", !.decidedAt = d]
  <2>4. /\ e \in AttemptSet /\ e.review = attempts[i].review
        /\ e.terminal = attempts[i].terminal
    BY <2>3 DEF AttemptSet
  <2>5. attempts' = [attempts EXCEPT ![i] = e]
    BY <2>2
  <2> HIDE DEF e, Keeps
  <2> QED BY <1>4, <2>1, <2>4, <2>5
<1>7. ASSUME NEW i \in DOMAIN attempts, Conclude(i) PROVE Keeps
  <2> DEFINE e == [attempts[i] EXCEPT !.terminal = TRUE]
  <2>1. attempts[i] \in AttemptSet
    BY <1>1, <1>2, ElementOfSeq
  <2>2. e \in AttemptSet /\ e.review = attempts[i].review /\ e.terminal
    BY <2>1 DEF AttemptSet
  <2>3. attempts' = [attempts EXCEPT ![i] = e]
    BY <1>7 DEF Conclude
  <2> HIDE DEF e, Keeps
  <2> QED BY <1>4, <1>7, <2>2, <2>3
<1>8. CASE ~(\E p \in Invocations : Arm(p)) /\ ~Consume
           /\ ~(\E i \in DOMAIN attempts : Conclude(i))
  <2>1. UNCHANGED attempts
    BY <1>8 DEF Next, vars, session, Start, Prepare, Abandon, Stop, TakeReview,
         StartRound, SkipArm, Retry, Evaluate, Publish, Refuse, FailHandling, Tick,
         Enter, Close, AuditAccount
  <2> QED BY <1>3, <2>1
<1> QED BY <1>5, <1>6, <1>7, <1>8

\* What was armed stays armed.
LEMMA ArmedStays ==
  ASSUME TInv, [Next]_vars, NEW b, Armed(b) # {}
  PROVE  Armed(b)' # {}
<1> QED BY LedgerStep DEF Armed

LEMMA InitTInv == Init => TInv
<1>1. SUFFICES ASSUME Init PROVE TInv
  OBVIOUS
<1>2. attempts \in Seq(AttemptSet)
  BY <1>1, EmptySeq DEF Init
<1>3. CanaryTypeOK
  <2>1. NotStarted \in RunSet /\ NotHandling \in HandlingSet
        /\ NotHandling.at = "idle" /\ NotHandling.review = NoReview
    BY DEF NotStarted, RunSet, NotHandling, HandlingSet
  <2>2. clock \in 0..LastTime /\ retries \in 0..MaxRetries
    BY <1>1, CanaryAssumption DEF Init
  <2> QED BY <1>1, <1>2, <2>1, <2>2
      DEF Init, CanaryTypeOK, AttemptSet, RunSet, HandlingSet
<1>4. Known
  BY <1>1 DEF Init, Known, NotStarted, NotHandling, Approved
<1> QED BY <1>3, <1>4 DEF TInv

-----------------------------------------------------------------------------
\* The command lines keep types and Known.
LEMMA InvocationStep ==
  ASSUME TInv, [Next]_vars, NEW p \in Invocations,
         \/ \E command \in {"submit-next", "publish"} : Start(p, command)
         \/ Prepare(p) \/ Abandon(p) \/ Arm(p)
  PROVE  TInv'
<1>1. attempts' \in Seq(AttemptSet)
  BY LedgerStep
<1>2. DOMAIN Plan = 1..Len(Plan) /\ DOMAIN Plan \subseteq Nat
  BY CanaryAssumption, LenProperties
<1>3. UNCHANGED <<clock, handling, verdicts, approvals, trades, account, retries>>
  BY DEF Start, Prepare, Abandon, Arm, session, risk, venue
<1>4. Approved' = Approved
  BY <1>3 DEF Approved
<1>5. ASSUME NEW command \in {"submit-next", "publish"}, Start(p, command)
      PROVE  TInv'
  <2>1. PICK n \in DOMAIN Plan :
          runs' = [runs EXCEPT ![p] = [at |-> "started", command |-> command,
                     now |-> clock, slot |-> n, review |-> NoReview]]
    BY <1>5 DEF Start, Selected
  <2>2. CanaryTypeOK'
    BY <1>1, <1>2, <1>3, <1>5, <2>1 DEF TInv, CanaryTypeOK, AttemptSet, Start, session, risk
  <2>3. Known'
    BY <1>3, <1>4, <1>5, <2>1, ArmedStays
    DEF TInv, Known, Start, session, risk, CanaryTypeOK
  <2> QED BY <2>2, <2>3 DEF TInv
<1>6. CASE Prepare(p)
  <2>1. PICK b \in CanaryReview :
          runs' = [runs EXCEPT ![p] = [@ EXCEPT !.at = "prepared", !.review = b]]
    BY <1>6 DEF Prepare, CanaryReview, Slots, TInv, Known
  <2> DEFINE e == [runs[p] EXCEPT !.at = "prepared", !.review = b]
  <2>2. /\ e \in RunSet /\ e.at = "prepared" /\ e.review = b
        /\ e.slot = runs[p].slot /\ runs[p].at = "started"
    BY <1>6 DEF TInv, CanaryTypeOK, RunSet, Prepare
  <2>3. runs' = [runs EXCEPT ![p] = e]
    BY <2>1
  <2> HIDE DEF e
  <2>4. CanaryTypeOK'
    BY <1>1, <1>3, <1>6, <2>2, <2>3
    DEF TInv, CanaryTypeOK, AttemptSet, RunSet, Prepare, session, risk
  <2>5. Known'
    BY <1>3, <1>4, <1>6, <2>2, <2>3, ArmedStays
    DEF TInv, Known, Prepare, session, risk, CanaryTypeOK
  <2> QED BY <2>4, <2>5 DEF TInv
<1>7. CASE Abandon(p)
  <2> DEFINE e == Ended("ended")
  <2>1. /\ runs' = [runs EXCEPT ![p] = e] /\ UNCHANGED <<draining, attempts, reviews>>
        /\ e.at \notin {"started", "prepared"}
    BY <1>7 DEF Abandon, session, risk, Ended, NotStarted
  <2>2. e \in RunSet
    BY DEF Ended, NotStarted, RunSet
  <2> HIDE DEF e
  <2>3. CanaryTypeOK'
    BY <1>1, <1>3, <2>1, <2>2 DEF TInv, CanaryTypeOK, AttemptSet, RunSet
  <2>4. /\ runs'[p] = e
        /\ \A q \in Invocations : q # p => runs'[q] = runs[q]
    BY <2>1 DEF TInv, CanaryTypeOK
  <2>5. Known'
    BY <1>3, <1>4, <2>1, <2>4, ArmedStays DEF TInv, Known
  <2> QED BY <2>3, <2>5 DEF TInv
<1>8. CASE Arm(p)
  <2>1. PICK at \in {"published", "ended"} : runs' = [runs EXCEPT ![p] = Ended(at)]
    BY <1>8 DEF Arm
  <2>2. PICK b \in CanaryReview : b = runs[p].review
    BY <1>8 DEF Arm, TInv, Known
  <2>3. reviews' \subseteq reviews \cup {b} /\ reviews \subseteq reviews'
        /\ draining' = draining
    BY <1>8, <2>2 DEF Arm
  <2>4. Armed(b)' # {}
    <3>1. CASE Armed(b) # {}
      BY <3>1, ArmedStays
    <3>2. CASE attempts' = Append(attempts, Attempt(b))
      <4>1. attempts \in Seq(AttemptSet) /\ Attempt(b) \in AttemptSet
        BY DEF TInv, CanaryTypeOK, AttemptSet, Attempt
      <4>2. /\ Len(attempts') = Len(attempts) + 1
            /\ attempts'[Len(attempts) + 1] = Attempt(b)
        BY <3>2, <4>1, AppendProperties
      <4>3. Len(attempts) + 1 \in DOMAIN attempts'
        BY <4>2, LedgerStep
      <4> QED BY <4>2, <4>3 DEF Armed, Attempt
    <3> QED BY <1>8, <2>2, <3>1, <3>2 DEF Arm
  <2> DEFINE e == Ended(at)
  <2>5. /\ runs' = [runs EXCEPT ![p] = e]
        /\ e \in RunSet /\ e.at \notin {"started", "prepared"}
    BY <2>1 DEF Ended, NotStarted, RunSet
  <2> HIDE DEF e
  <2>6. CanaryTypeOK'
    BY <1>1, <1>3, <2>2, <2>3, <2>5 DEF TInv, CanaryTypeOK, AttemptSet, RunSet
  <2>7. \A c \in reviews' \cup Approved' : Armed(c)' # {}
    BY <1>4, <2>3, <2>4, ArmedStays DEF TInv, Known
  <2>8. \A q \in Invocations : q # p => runs'[q] = runs[q]
    BY <2>5 DEF TInv, CanaryTypeOK
  <2>9. runs'[p] = e
    BY <2>5 DEF TInv, CanaryTypeOK
  <2>10. Known'
    BY <1>3, <2>3, <2>5, <2>7, <2>8, <2>9 DEF TInv, Known
  <2> QED BY <2>6, <2>10 DEF TInv
<1> QED BY <1>5, <1>6, <1>7, <1>8

\* So does Risk's handling of a review.
LEMMA HandlingStep ==
  ASSUME TInv, [Next]_vars,
         \/ \E b \in reviews : TakeReview(b)
         \/ StartRound \/ Consume \/ SkipArm \/ Retry
         \/ Evaluate \/ Publish \/ Refuse \/ FailHandling
  PROVE  TInv'
<1>1. attempts' \in Seq(AttemptSet)
  BY LedgerStep
<1>2. UNCHANGED <<clock, draining, runs, trades, account>>
  BY DEF TakeReview, StartRound, Consume, SkipArm, Retry, Evaluate, Publish, Refuse,
     FailHandling, session, venue
<1>3. reviews' \subseteq reviews
  BY DEF TakeReview, StartRound, Consume, SkipArm, Retry, Evaluate, Publish, Refuse,
     FailHandling
<1>4. handling.at # "idle" =>
        handling.review \in reviews /\ handling.review \in CanaryReview
  BY DEF TInv, Known, CanaryTypeOK
<1>5. \A b \in CanaryReview : b # NoReview
  BY CanaryAssumption
<1>6. Approved' \subseteq Approved \cup {handling.review}
      /\ (Approved' # Approved => handling.at # "idle")
  BY DEF TakeReview, StartRound, Consume, SkipArm, Retry, Evaluate, Publish, Refuse,
     FailHandling, Approved
<1>7. \A b \in reviews' \cup Approved' : Armed(b)' # {}
  BY <1>3, <1>4, <1>6, ArmedStays DEF TInv, Known
<1>8. ASSUME handling' \in HandlingSet,
             handling'.at = "idle" <=> handling'.review = NoReview,
             handling'.at # "idle" => handling'.review \in reviews',
             verdicts' \cup approvals' \subseteq VerdictSet,
             retries' \in 0..MaxRetries
      PROVE  TInv'
  <2>1. CanaryTypeOK'
    BY <1>1, <1>2, <1>3, <1>8
    DEF TInv, CanaryTypeOK, AttemptSet, HandlingSet, VerdictSet
  <2> QED BY <1>2, <1>7, <1>8, <2>1 DEF TInv, Known
<1>9. /\ handling \in HandlingSet /\ clock \in Nat /\ retries \in 0..MaxRetries
      /\ verdicts \cup approvals \subseteq VerdictSet
      /\ handling.at = "idle" <=> handling.review = NoReview
      /\ NotHandling \in HandlingSet
      /\ NotHandling.at = "idle" /\ NotHandling.review = NoReview
  BY DEF TInv, CanaryTypeOK, HandlingSet, VerdictSet, NotHandling
<1>10. retries < MaxRetries => retries + 1 \in 0..MaxRetries
  BY <1>9, CanaryAssumption
<1> USE DEF HandlingSet
<1>11. ASSUME NEW b \in reviews, TakeReview(b) PROVE TInv'
  <2>1. b \in CanaryReview
    BY DEF TInv, CanaryTypeOK
  <2> QED BY <1>5, <1>8, <1>9, <1>11, <2>1 DEF TakeReview, NotHandling
<1>12. CASE StartRound
  BY <1>4, <1>8, <1>9, <1>12 DEF StartRound
<1>13. CASE Consume
  <2> DEFINE i == CHOOSE n \in Armed(handling.review) : TRUE
             decided == IF attempts[i].status = "CONSUMED" THEN attempts[i].decidedAt
                                                           ELSE clock
             valid == Authorizes(handling.review, decided, handling.now)
  <2>1. decided \in Nat
    <3>1. i \in DOMAIN attempts
      BY <1>13 DEF Consume, TInv, Known, Armed
    <3> HIDE DEF i
    <3>2. attempts \in Seq(AttemptSet) /\ DOMAIN attempts = 1..Len(attempts)
      BY LedgerStep DEF TInv, CanaryTypeOK, AttemptSet
    <3>3. attempts[i] \in AttemptSet
      BY <3>1, <3>2, ElementOfSeq
    <3> QED BY <1>9, <3>3 DEF AttemptSet
  <2>2. handling' = [handling EXCEPT !.at = "evaluate", !.checked = TRUE,
                       !.denied = handling.denied \/ ~valid,
                       !.decidedAt = IF valid THEN decided ELSE handling.decidedAt]
    BY <1>13 DEF Consume
  <2>3. handling.at = "authority" /\ UNCHANGED <<reviews, verdicts, approvals, retries>>
    BY <1>13 DEF Consume
  <2> HIDE DEF decided, valid
  <2>4. handling' \in HandlingSet
    BY <1>9, <2>1, <2>2
  <2>5. handling'.at = "evaluate" /\ handling'.review = handling.review
    BY <1>9, <2>2
  <2> QED BY <1>4, <1>8, <1>9, <2>3, <2>4, <2>5
<1>14. CASE SkipArm
  BY <1>4, <1>8, <1>9, <1>14 DEF SkipArm, risk
<1>15. CASE Retry
  BY <1>4, <1>8, <1>9, <1>10, <1>15 DEF Retry, risk
<1>16. CASE Evaluate
  BY <1>4, <1>8, <1>9, <1>16 DEF Evaluate, VerdictSet
<1>17. CASE Publish
  BY <1>4, <1>8, <1>9, <1>17 DEF Publish
<1>18. CASE Refuse
  BY <1>4, <1>8, <1>9, <1>18 DEF Refuse
<1>19. CASE FailHandling
  BY <1>4, <1>8, <1>9, <1>10, <1>19 DEF FailHandling
<1> QED BY <1>11, <1>12, <1>13, <1>14, <1>15, <1>16, <1>17, <1>18, <1>19

\* So does everything around them.
LEMMA OutsideStep ==
  ASSUME TInv, [Next]_vars,
         \/ Stop \/ Tick \/ (\E b \in Approved : Enter(b) \/ Close(b))
         \/ AuditAccount \/ (\E i \in DOMAIN attempts : Conclude(i))
         \/ UNCHANGED vars
  PROVE  TInv'
<1>1. attempts' \in Seq(AttemptSet)
  BY LedgerStep
<1>2. UNCHANGED <<runs, reviews, handling, verdicts, approvals, retries>>
  BY DEF Stop, Tick, Enter, Close, AuditAccount, Conclude, vars, session, risk, venue
<1>3. Approved' = Approved /\ Approved \subseteq CanaryReview
  BY <1>2 DEF Approved, TInv, CanaryTypeOK
<1>4. Known'
  BY <1>2, <1>3, ArmedStays DEF TInv, Known
<1>5. /\ clock' \in 0..LastTime /\ draining' \in BOOLEAN
      /\ trades' \in [CanaryReview -> {"idle", "open", "closed"}]
      /\ account' \in [captured : Nat, open : SUBSET CanaryReview]
  <2> DEFINE Typed ==
        /\ clock' \in 0..LastTime /\ draining' \in BOOLEAN
        /\ trades' \in [CanaryReview -> {"idle", "open", "closed"}]
        /\ account' \in [captured : Nat, open : SUBSET CanaryReview]
  <2>1. /\ clock \in 0..LastTime /\ LastTime \in Nat /\ draining \in BOOLEAN
        /\ trades \in [CanaryReview -> {"idle", "open", "closed"}]
        /\ account \in [captured : Nat, open : SUBSET CanaryReview]
    BY CanaryAssumption DEF TInv, CanaryTypeOK
  <2>2. CASE Stop
    BY <2>1, <2>2 DEF Stop, venue
  <2>3. CASE Tick
    BY <2>1, <2>3 DEF Tick, session, venue
  <2>4. ASSUME NEW b \in Approved, Enter(b) \/ Close(b) PROVE Typed
    BY <1>3, <2>1, <2>4 DEF Enter, Close, session
  <2>5. CASE AuditAccount
    BY <1>3, <2>1, <2>5 DEF AuditAccount, session, Open
  <2>6. CASE UNCHANGED <<clock, draining, trades, account>>
    BY <2>1, <2>6
  <2> QED BY <2>2, <2>3, <2>4, <2>5, <2>6 DEF Conclude, vars, venue
<1>6. CanaryTypeOK'
  BY <1>1, <1>2, <1>5 DEF TInv, CanaryTypeOK, AttemptSet
<1> QED BY <1>4, <1>6 DEF TInv

LEMMA NextTInv == TInv /\ [Next]_vars => TInv'
<1> SUFFICES ASSUME TInv, [Next]_vars PROVE TInv'
  OBVIOUS
<1>1. ASSUME NEW p \in Invocations,
             \/ \E command \in {"submit-next", "publish"} : Start(p, command)
             \/ Prepare(p) \/ Abandon(p) \/ Arm(p)
      PROVE  TInv'
  BY <1>1, InvocationStep
<1>2. CASE \/ \E b \in reviews : TakeReview(b)
           \/ StartRound \/ Consume \/ SkipArm \/ Retry
           \/ Evaluate \/ Publish \/ Refuse \/ FailHandling
  BY <1>2, HandlingStep
<1>3. CASE \/ Stop \/ Tick \/ (\E b \in Approved : Enter(b) \/ Close(b))
           \/ AuditAccount \/ (\E i \in DOMAIN attempts : Conclude(i))
           \/ UNCHANGED vars
  BY <1>3, OutsideStep
<1> QED BY <1>1, <1>2, <1>3 DEF Next

\* The variables of the canary keep their types.
THEOREM CanaryTypeCorrect == Spec => []CanaryTypeOK
<1>1. TInv => CanaryTypeOK
  BY DEF TInv
<1> QED BY <1>1, InitTInv, NextTInv, PTL DEF Spec

-----------------------------------------------------------------------------
Bounded ==
  /\ \A v \in verdicts \cup approvals :
       /\ Eligible(v.review) <= v.decidedAt
       /\ v.decidedAt < Expires(v.review)
       /\ Expires(v.review) <= SessionDeadline
  /\ handling.checked /\ ~handling.denied => Expires(handling.review) <= SessionDeadline
  /\ handling.at = "evaluate" /\ ~handling.denied => handling.checked

LEMMA NextBounded ==
  ASSUME TInv, Bounded, [Next]_vars
  PROVE  Bounded'
<1>1. handling \in HandlingSet
  BY DEF TInv, CanaryTypeOK, HandlingSet
<1>2. CASE \E b \in reviews : TakeReview(b)
  BY <1>2 DEF TakeReview, NotHandling, Bounded
<1>3. CASE StartRound
  BY <1>1, <1>3 DEF StartRound, HandlingSet, Bounded
<1>4. CASE Consume
  <2>1. PICK decided : /\ handling'.at = "evaluate" /\ handling'.checked
                       /\ handling'.review = handling.review
                       /\ handling'.denied <=>
                            handling.denied
                              \/ ~Authorizes(handling.review, decided, handling.now)
                       /\ UNCHANGED <<verdicts, approvals>>
    BY <1>1, <1>4 DEF Consume, HandlingSet
  <2> QED BY <2>1 DEF Bounded, Authorizes, WithinSession
<1>5. CASE SkipArm
  BY <1>1, <1>5 DEF SkipArm, HandlingSet, Bounded, risk
<1>6. CASE Retry
  BY <1>1, <1>6 DEF Retry, HandlingSet, Bounded, risk
<1>7. CASE Evaluate
  BY <1>1, <1>7 DEF Evaluate, HandlingSet, Bounded
<1>8. CASE Publish \/ Refuse \/ FailHandling
  BY <1>1, <1>8 DEF Publish, Refuse, FailHandling, NotHandling, Bounded
<1>9. CASE UNCHANGED <<handling, verdicts, approvals>>
  BY <1>9 DEF Bounded
<1> QED
  BY <1>2, <1>3, <1>4, <1>5, <1>6, <1>7, <1>8, <1>9
  DEF Next, Start, Prepare, Abandon, Arm, Stop, Tick, Enter, Close, AuditAccount,
      Conclude, vars, risk

\* A canary is approved only for a decision inside its window and its session,
\* whatever rounds, redeliveries and replays of the consumed arm there were.
THEOREM ApprovalInsideSession == Spec => []ApprovedInsideSession
<1>1. Init => Bounded
  BY DEF Init, Bounded, NotHandling
<1>2. TInv /\ Bounded /\ [Next]_vars => TInv' /\ Bounded'
  BY NextTInv, NextBounded
<1>3. Bounded => ApprovedInsideSession
  BY DEF Bounded, ApprovedInsideSession
<1> QED BY <1>1, <1>2, <1>3, InitTInv, PTL DEF Spec

-----------------------------------------------------------------------------
Ledger ==
  /\ \A i \in DOMAIN attempts : attempts[i].terminal => attempts[i].review \notin reviews \cup Live
  /\ \A p \in Invocations :
       runs[p].command = "submit-next" /\ runs[p].at \in {"started", "prepared"} =>
         /\ runs[p].slot <= Len(attempts) + 1
         /\ runs[p].slot = Len(attempts) + 1 => \A i \in DOMAIN attempts : attempts[i].terminal

\* Nothing becomes pending or live again: only a review never armed before does.
LEMMA LiveStep ==
  ASSUME TInv, [Next]_vars, NEW b \in reviews' \cup Live'
  PROVE  b \in reviews \cup Live \/ Armed(b) = {}
<1> DEFINE Kept == b \in reviews \cup Live \/ Armed(b) = {}
<1>1. ASSUME NEW p \in Invocations, Arm(p) PROVE Kept
  BY <1>1 DEF Arm, venue, Live, Open, Executable, Approved
<1>2. CASE Publish
  <2>1. handling.review \in reviews
    BY <1>2 DEF TInv, Known, Publish
  <2> QED BY <1>2, <2>1 DEF Publish, venue, Live, Open, Executable, Approved
<1>3. CASE Tick
  <2>1. UNCHANGED <<reviews, approvals, trades>> /\ clock' = clock + 1 /\ clock \in Nat
    BY <1>3 DEF Tick, risk, venue, TInv, CanaryTypeOK
  <2>2. \A c \in Approved : Expires(c) \in Nat
    BY ReviewTimes DEF Approved, TInv, CanaryTypeOK
  <2> QED BY <2>1, <2>2 DEF Live, Open, Executable, Approved
<1>4. ASSUME NEW c \in Approved, Enter(c) \/ Close(c) PROVE Kept
  <2>1. UNCHANGED <<reviews, approvals, clock>> /\ c \in Live
        /\ \A d \in Approved : d # c => trades'[d] = trades[d]
    BY <1>4 DEF Enter, Close, risk, TInv, CanaryTypeOK, Live, Approved
  <2> QED BY <2>1 DEF Live, Open, Executable, Approved
<1>5. CASE UNCHANGED <<clock, approvals, trades>> /\ reviews' \subseteq reviews
  BY <1>5 DEF Live, Open, Executable, Approved
<1> QED
  BY <1>1, <1>2, <1>3, <1>4, <1>5
  DEF Next, Start, Prepare, Abandon, Stop, TakeReview, StartRound, Consume, SkipArm,
      Retry, Evaluate, Refuse, FailHandling, AuditAccount, Conclude, vars, risk, venue

LEMMA NextLedger ==
  ASSUME TInv, Ledger, [Next]_vars
  PROVE  Ledger'
<1>1. ASSUME NEW i \in DOMAIN attempts', attempts'[i].terminal
      PROVE  attempts'[i].review \notin (reviews \cup Live)'
  <2>1. CASE i \notin DOMAIN attempts
    BY <1>1, <2>1, LedgerStep DEF Attempt
  <2>2. CASE i \in DOMAIN attempts
    <3>1. Armed(attempts[i].review) # {}
      BY <2>2 DEF Armed
    <3>2. attempts'[i].review = attempts[i].review
      BY <2>2, LedgerStep
    <3>3. CASE attempts[i].terminal
      BY <2>2, <3>1, <3>2, <3>3, LiveStep DEF Ledger
    <3>4. CASE Conclude(i)
      BY <2>2, <3>1, <3>2, <3>4, LiveStep DEF Conclude
    <3> QED BY <1>1, <2>2, <3>3, <3>4, LedgerStep
  <2> QED BY <2>1, <2>2
<1>2. ASSUME NEW p \in Invocations, runs'[p].command = "submit-next",
             runs'[p].at \in {"started", "prepared"}
      PROVE  /\ runs'[p].slot <= Len(attempts') + 1
             /\ runs'[p].slot = Len(attempts') + 1 =>
                  \A i \in DOMAIN attempts' : attempts'[i].terminal
  <2>1. ASSUME NEW q \in Invocations, NEW command \in {"submit-next", "publish"},
               Start(q, command), p = q
        PROVE  /\ attempts' = attempts /\ runs'[p].slot = Len(attempts) + 1
               /\ \A i \in DOMAIN attempts : attempts[i].terminal
    <3>1. PICK n : /\ runs' = [runs EXCEPT ![p] = [at |-> "started", command |-> command,
                                 now |-> clock, slot |-> n, review |-> NoReview]]
                   /\ n \in IF command = "submit-next" THEN Selected ELSE DOMAIN Plan
                   /\ attempts' = attempts
      BY <2>1 DEF Start, session
    <3>2. runs'[p].command = command /\ runs'[p].slot = n
      BY <3>1 DEF TInv, CanaryTypeOK
    <3> QED BY <1>2, <3>1, <3>2 DEF Selected
  <2>2. CASE /\ runs[p].command = "submit-next" /\ runs[p].at \in {"started", "prepared"}
             /\ runs'[p].slot = runs[p].slot
    <3>1. /\ runs[p].slot <= Len(attempts) + 1 /\ runs[p].slot \in Nat
          /\ runs[p].slot = Len(attempts) + 1 => \A i \in DOMAIN attempts : attempts[i].terminal
      BY <2>2 DEF Ledger, TInv, CanaryTypeOK
    <3>2. Len(attempts) <= Len(attempts')
      <4>1. \A n \in 1..Len(attempts) : n \in 1..Len(attempts')
        BY LedgerStep
      <4>2. Len(attempts) = 0 \/ Len(attempts) \in 1..Len(attempts)
        BY LedgerStep
      <4> QED BY <4>1, <4>2, LedgerStep
    <3>3. Len(attempts') = Len(attempts) => DOMAIN attempts' = DOMAIN attempts
      BY LedgerStep
    <3> QED BY <2>2, <3>1, <3>2, <3>3, LedgerStep
  <2>3. \/ \E q \in Invocations, command \in {"submit-next", "publish"} :
             Start(q, command) /\ p = q
        \/ /\ runs[p].command = "submit-next" /\ runs[p].at \in {"started", "prepared"}
           /\ runs'[p].slot = runs[p].slot
    <3>1. runs \in [Invocations -> RunSet]
      BY DEF TInv, CanaryTypeOK, RunSet
    <3>2. ASSUME NEW q \in Invocations, NEW command \in {"submit-next", "publish"},
                 Start(q, command), p # q
          PROVE  runs'[p] = runs[p]
      BY <3>1, <3>2 DEF Start
    <3>3. ASSUME NEW q \in Invocations, Prepare(q)
          PROVE  /\ runs'[p].command = runs[p].command /\ runs'[p].slot = runs[p].slot
                 /\ p = q => runs[p].at = "started"
                 /\ p # q => runs'[p] = runs[p]
      BY <3>1, <3>3 DEF Prepare, RunSet
    <3>4. ASSUME NEW q \in Invocations, Abandon(q) \/ Arm(q)
          PROVE  runs'[p] = runs[p]
      <4>1. PICK e \in RunSet : runs' = [runs EXCEPT ![q] = e] /\ e.command = "none"
        BY <3>4, EndedRun
      <4> QED BY <1>2, <3>1, <4>1
    <3>5. CASE runs' = runs
      BY <1>2, <3>5
    <3> QED
      BY <1>2, <3>2, <3>3, <3>4, <3>5
      DEF Next, Stop, TakeReview, StartRound, Consume, SkipArm, Retry, Evaluate,
          Publish, Refuse, FailHandling, Tick, Enter, Close, AuditAccount, Conclude, vars
  <2>4. Len(attempts) \in Nat
    BY LedgerStep
  <2> QED BY <2>1, <2>2, <2>3, <2>4
<1> QED BY <1>1, <1>2 DEF Ledger

\* A slot selected by submit-next is armed only while nothing else of the
\* session is pending or live.
THEOREM SubmissionWhileFlat == Spec => SubmittedWhileFlat
<1> DEFINE Flat ==
      \A p \in Invocations :
        (runs[p].command = "submit-next" /\ runs'[p].at # runs[p].at /\ attempts' # attempts)
           => /\ Live = {} /\ reviews = {}
              /\ \A i \in DOMAIN attempts : attempts[i].terminal
<1>1. Init => Ledger
  BY DEF Init, Ledger, NotStarted
<1>2. TInv /\ Ledger /\ [Next]_vars => TInv' /\ Ledger'
  BY NextTInv, NextLedger
<1>3. TInv /\ Ledger /\ [Next]_vars => [Flat]_vars
  <2> SUFFICES ASSUME TInv, Ledger, [Next]_vars, NEW p \in Invocations,
                      runs[p].command = "submit-next", runs'[p].at # runs[p].at,
                      attempts' # attempts
               PROVE  /\ Live = {} /\ reviews = {}
                      /\ \A i \in DOMAIN attempts : attempts[i].terminal
    BY DEF Flat
  <2>1. PICK q \in Invocations : Arm(q)
    BY DEF Next, Start, Prepare, Abandon, Stop, TakeReview, StartRound, Consume, SkipArm,
       Retry, Evaluate, Publish, Refuse, FailHandling, Tick, Enter, Close, AuditAccount,
       Conclude, vars, session
  <2>2. p = q
    <3>1. PICK e \in RunSet : runs' = [runs EXCEPT ![q] = e]
      BY <2>1, EndedRun
    <3> QED BY <3>1 DEF TInv, CanaryTypeOK
  <2>3. runs[p].at = "prepared" /\ runs[p].slot = Len(attempts) + 1
    BY <2>1, <2>2 DEF Arm, Admits
  <2>4. \A i \in DOMAIN attempts : attempts[i].terminal
    BY <2>3 DEF Ledger
  <2>5. \A b \in reviews \cup Live : Armed(b) # {}
    BY DEF TInv, Known, Live, Open, Executable
  <2>6. reviews \cup Live = {}
    BY <2>4, <2>5 DEF Ledger, Armed
  <2> QED BY <2>4, <2>6
<1> QED BY <1>1, <1>2, <1>3, InitTInv, PTL DEF Spec, SubmittedWhileFlat, Flat

-----------------------------------------------------------------------------
Seen ==
  /\ account.captured <= clock
  /\ \A b \in Open : b \in account.open \/ account.captured <= Expires(b)
  /\ \A b \in CanaryReview : trades[b] # "idle" => b \in Approved

LEMMA NextSeen ==
  ASSUME TInv, Seen, [Next]_vars
  PROVE  Seen'
<1>1. /\ clock \in Nat /\ account.captured \in Nat
      /\ trades \in [CanaryReview -> {"idle", "open", "closed"}]
      /\ Approved \subseteq CanaryReview
  BY DEF TInv, CanaryTypeOK, Approved
<1>2. CASE Tick
  <2>1. clock' = clock + 1 /\ UNCHANGED <<account, trades, approvals>>
    BY <1>2 DEF Tick, venue, risk
  <2> QED BY <1>1, <2>1 DEF Seen, Open, Approved
<1>3. ASSUME NEW b \in Approved, Enter(b) PROVE Seen'
  <2>1. clock <= Expires(b) /\ Expires(b) \in Nat
    BY <1>1, <1>3, ReviewTimes DEF Enter, Executable
  <2>2. account.captured <= Expires(b)
    BY <1>1, <2>1 DEF Seen
  <2>3. UNCHANGED <<clock, account, approvals>> /\ trades' = [trades EXCEPT ![b] = "open"]
    BY <1>3 DEF Enter, risk
  <2> QED BY <1>1, <2>2, <2>3 DEF Seen, Open, Approved
<1>4. ASSUME NEW b \in Approved, Close(b) PROVE Seen'
  <2>1. UNCHANGED <<clock, account, approvals>> /\ trades' = [trades EXCEPT ![b] = "closed"]
    BY <1>4 DEF Close, risk
  <2> QED BY <1>1, <2>1 DEF Seen, Open, Approved
<1>5. CASE AuditAccount
  <2>1. UNCHANGED <<clock, trades, approvals>>
        /\ account' = [captured |-> clock, open |-> Open]
    BY <1>5 DEF AuditAccount, risk
  <2>2. Open' = Open /\ Approved' = Approved
    BY <2>1 DEF Open, Approved
  <2> QED BY <1>1, <2>1, <2>2 DEF Seen
<1>6. CASE UNCHANGED <<clock, account, trades>> /\ approvals \subseteq approvals'
  <2>1. Approved' \subseteq CanaryReview
    BY NextTInv DEF TInv, CanaryTypeOK, Approved
  <2>2. Approved \subseteq Approved'
    BY <1>6 DEF Approved
  <2>3. Open' \subseteq Open
    BY <1>6, <2>1 DEF Seen, Open
  <2> QED BY <1>6, <2>2, <2>3 DEF Seen
<1> QED
  BY <1>2, <1>3, <1>4, <1>5, <1>6
  DEF Next, Start, Prepare, Abandon, Arm, Stop, TakeReview, StartRound, Consume,
      SkipArm, Retry, Evaluate, Publish, Refuse, FailHandling, Conclude, vars,
      risk, venue

\* What an account snapshot cannot show is still reserved, so a candidate is
\* prepared only while nothing is open and nothing can be entered.
THEOREM PreparationWhileFlat == Spec => PreparedWhileFlat
<1> DEFINE Flat ==
      \A p \in Invocations :
        (runs[p].at = "started" /\ runs'[p].at = "prepared") => Live = {}
<1>1. Init => Seen
  BY DEF Init, Seen, Open, Approved
<1>2. TInv /\ Seen /\ [Next]_vars => TInv' /\ Seen'
  BY NextTInv, NextSeen
<1>3. TInv /\ Seen /\ [Next]_vars => [Flat]_vars
  <2> SUFFICES ASSUME TInv, Seen, [Next]_vars, NEW p \in Invocations,
                      runs[p].at = "started", runs'[p].at = "prepared"
               PROVE  Live = {}
    BY DEF Flat
  <2>1. PICK q \in Invocations : Prepare(q)
    <3>1. runs \in [Invocations -> RunSet]
      BY DEF TInv, CanaryTypeOK, RunSet
    <3>2. ASSUME NEW q \in Invocations, NEW command \in {"submit-next", "publish"},
                 Start(q, command)
          PROVE  FALSE
      <4>1. PICK n : runs' = [runs EXCEPT ![q] = [at |-> "started", command |-> command,
                                 now |-> clock, slot |-> n, review |-> NoReview]]
        BY <3>2 DEF Start
      <4> QED BY <3>1, <4>1
    <3>3. ASSUME NEW q \in Invocations, Abandon(q) \/ Arm(q)
          PROVE  FALSE
      <4>1. PICK e \in RunSet : /\ runs' = [runs EXCEPT ![q] = e]
                                /\ e.at \in {"published", "ended"}
        BY <3>3, EndedRun
      <4> QED BY <3>1, <4>1
    <3> QED
      BY <3>2, <3>3
      DEF Next, Stop, TakeReview, StartRound, Consume, SkipArm, Retry, Evaluate,
          Publish, Refuse, FailHandling, Tick, Enter, Close, AuditAccount, Conclude, vars
  <2>2. account.open = {} /\ Reserved(runs[q].now) = {}
    BY <2>1 DEF Prepare, Preflight
  <2>3. \A b \in Approved : Expires(b) \in Nat /\ clock \in Nat /\ account.captured \in Nat
    BY ReviewTimes DEF Approved, TInv, CanaryTypeOK
  <2>4. \A b \in Approved : Expires(b) < account.captured
    BY <2>2, <2>3 DEF Reserved
  <2>5. Open = {}
    BY <2>2, <2>3, <2>4 DEF Seen, Open
  <2>6. Executable = {}
    BY <2>3, <2>4 DEF Seen, Executable
  <2> QED BY <2>5, <2>6 DEF Live
<1> QED BY <1>1, <1>2, <1>3, InitTInv, PTL DEF Spec, PreparedWhileFlat, Flat

-----------------------------------------------------------------------------
Present ==
  /\ approvals \subseteq verdicts
  /\ handling.at = "authority" => handling.decidedAt = handling.now
  /\ handling.at = "evaluate" /\ ~handling.denied =>
       handling.decidedAt = handling.now \/ handling.now < Expires(handling.review)

LEMMA NextPresent ==
  ASSUME TInv, Present, [Next]_vars
  PROVE  Present'
<1>1. handling \in HandlingSet
  BY DEF TInv, CanaryTypeOK, HandlingSet
<1>2. CASE \E b \in reviews : TakeReview(b)
  BY <1>2 DEF TakeReview, NotHandling, Present
<1>3. CASE StartRound
  BY <1>1, <1>3 DEF StartRound, HandlingSet, Present
<1>4. CASE Consume
  <2>1. PICK decided :
          /\ handling'.at = "evaluate" /\ handling'.review = handling.review
          /\ handling'.now = handling.now
          /\ handling'.denied <=>
               handling.denied \/ ~Authorizes(handling.review, decided, handling.now)
          /\ UNCHANGED <<verdicts, approvals>>
    BY <1>1, <1>4 DEF Consume, HandlingSet
  <2> QED BY <2>1 DEF Present, Authorizes
<1>5. CASE SkipArm
  BY <1>1, <1>5 DEF SkipArm, HandlingSet, Present, risk
<1>6. CASE Retry
  BY <1>1, <1>6 DEF Retry, HandlingSet, Present, risk
<1>7. CASE Evaluate
  BY <1>1, <1>7 DEF Evaluate, HandlingSet, Present
<1>8. CASE Publish \/ Refuse \/ FailHandling
  BY <1>1, <1>8 DEF Publish, Refuse, FailHandling, NotHandling, Present
<1>9. CASE UNCHANGED <<handling, verdicts, approvals>>
  BY <1>9 DEF Present
<1> QED
  BY <1>2, <1>3, <1>4, <1>5, <1>6, <1>7, <1>8, <1>9
  DEF Next, Start, Prepare, Abandon, Arm, Stop, Tick, Enter, Close, AuditAccount,
      Conclude, vars, risk

\* Only an evaluation adds a verdict, and it adds the one it decides.
LEMMA NewVerdict ==
  ASSUME Present, [Next]_vars, NEW v \in verdicts' \ verdicts
  PROVE  /\ Evaluate /\ v = [review |-> handling.review, decidedAt |-> handling.decidedAt]
         /\ \A w \in verdicts : w.review # handling.review
         /\ verdicts' = verdicts \cup {v}
<1>1. CASE Evaluate
  BY <1>1 DEF Evaluate
<1>2. CASE FailHandling
  BY <1>2 DEF FailHandling, Present
<1>3. CASE UNCHANGED verdicts
  BY <1>3
<1> QED
  BY <1>1, <1>2, <1>3
  DEF Next, Start, Prepare, Abandon, Arm, Stop, TakeReview, StartRound, Consume, SkipArm,
      Retry, Publish, Refuse, Tick, Enter, Close, AuditAccount, Conclude, vars, risk

\* However late a consumed arm is replayed, the approval is decided while the
\* clock of the process is inside entry window and session.
THEOREM DecisionAtPresentClock == Spec => DecidedByPresentClock
<1> DEFINE InTime ==
      \A v \in verdicts' \ verdicts :
        handling.now < Expires(v.review) /\ handling.now < SessionDeadline
<1>1. Init => Bounded /\ Present
  BY DEF Init, Bounded, Present, NotHandling
<1>2. TInv /\ Bounded /\ Present /\ [Next]_vars => TInv' /\ Bounded' /\ Present'
  BY NextTInv, NextBounded, NextPresent
<1>3. TInv /\ Bounded /\ Present /\ [Next]_vars => [InTime]_vars
  <2> SUFFICES ASSUME TInv, Bounded, Present, [Next]_vars, NEW v \in verdicts' \ verdicts
               PROVE  handling.now < Expires(v.review) /\ handling.now < SessionDeadline
    BY DEF InTime
  <2>1. Evaluate /\ v.review = handling.review
    BY NewVerdict
  <2>2. /\ handling.at = "evaluate" /\ ~handling.denied
        /\ \/ handling.decidedAt < Expires(handling.review)
           \/ \E w \in verdicts : w.review = handling.review
    BY <2>1 DEF Evaluate
  <2>3. handling.now < Expires(handling.review)
    BY <2>2, NewVerdict DEF Present
  <2>4. Expires(handling.review) <= SessionDeadline
    BY <2>2 DEF Bounded
  <2>5. handling.review \in CanaryReview /\ handling.now \in Nat
    BY <2>2 DEF TInv, Known, CanaryTypeOK
  <2>6. Expires(handling.review) \in Nat /\ SessionDeadline \in Nat
    BY <2>5, ReviewTimes, CanaryAssumption
  <2> QED BY <2>1, <2>3, <2>4, <2>5, <2>6
<1> QED BY <1>1, <1>2, <1>3, InitTInv, PTL DEF Spec, DecidedByPresentClock, InTime

-----------------------------------------------------------------------------
Consumed(b) == \E i \in Armed(b) : attempts[i].status = "CONSUMED"

Slotted ==
  /\ \A i \in DOMAIN attempts : i \in DOMAIN Plan /\ attempts[i].review.slot = Plan[i]
  /\ \A p \in Invocations :
       runs[p].at = "prepared" => runs[p].review.slot = Plan[runs[p].slot]

Single ==
  /\ \A v, w \in verdicts : v.review = w.review => v = w
  /\ \A v \in verdicts : Consumed(v.review)
  /\ handling.checked => Consumed(handling.review)

LEMMA NextSlotted ==
  ASSUME TInv, Slotted, [Next]_vars
  PROVE  Slotted'
<1>1. runs \in [Invocations -> RunSet]
  BY DEF TInv, CanaryTypeOK, RunSet
<1>2. ASSUME NEW i \in DOMAIN attempts'
      PROVE  i \in DOMAIN Plan /\ attempts'[i].review.slot = Plan[i]
  <2>1. CASE i \in DOMAIN attempts
    BY <2>1, LedgerStep DEF Slotted
  <2>2. CASE i \notin DOMAIN attempts
    <3>1. PICK p \in Invocations : Arm(p) /\ attempts'[i] = Attempt(runs[p].review)
      BY <2>2, LedgerStep
    <3>2. attempts' = Append(attempts, Attempt(runs[p].review)) /\ Admits(runs[p].slot)
      BY <1>2, <2>2, <3>1 DEF Arm
    <3>3. attempts \in Seq(AttemptSet) /\ Attempt(runs[p].review) \in AttemptSet
      BY <3>1 DEF TInv, CanaryTypeOK, AttemptSet, Known, Arm, Attempt
    <3>4. Len(attempts') = Len(attempts) + 1
      BY <3>2, <3>3, AppendProperties
    <3>5. i = Len(attempts) + 1
      BY <1>2, <2>2, <3>4, LedgerStep
    <3>6. /\ runs[p].slot = i /\ runs[p].slot \in DOMAIN Plan
          /\ runs[p].review.slot = Plan[runs[p].slot]
      BY <3>1, <3>2, <3>5 DEF Arm, Admits, TInv, Known, Slotted
    <3> QED BY <3>1, <3>6 DEF Attempt
  <2> QED BY <2>1, <2>2
<1>3. ASSUME NEW p \in Invocations, runs'[p].at = "prepared"
      PROVE  runs'[p].review.slot = Plan[runs'[p].slot]
  <2>1. CASE runs'[p] = runs[p]
    BY <1>3, <2>1 DEF Slotted
  <2>2. ASSUME NEW q \in Invocations, Prepare(q), q = p
        PROVE  runs'[p].review.slot = Plan[runs'[p].slot]
    <3>1. PICK t \in BarCloses, x \in Readings :
            runs' = [runs EXCEPT ![p] = [@ EXCEPT !.at = "prepared",
                       !.review = [slot |-> Plan[runs[p].slot], bar |-> t, reading |-> x]]]
      BY <2>2 DEF Prepare
    <3>2. /\ runs'[p].review = [slot |-> Plan[runs[p].slot], bar |-> t, reading |-> x]
          /\ runs'[p].slot = runs[p].slot
      BY <1>1, <3>1 DEF RunSet
    <3> QED BY <3>2
  <2>3. ASSUME NEW q \in Invocations, Prepare(q), q # p PROVE runs'[p] = runs[p]
    BY <1>1, <2>3 DEF Prepare
  <2>4. ASSUME NEW q \in Invocations, NEW command \in {"submit-next", "publish"},
               Start(q, command)
        PROVE  runs'[p] = runs[p]
    BY <1>1, <1>3, <2>4 DEF Start
  <2>5. ASSUME NEW q \in Invocations, Abandon(q) \/ Arm(q) PROVE runs'[p] = runs[p]
    <3>1. PICK e \in RunSet : /\ runs' = [runs EXCEPT ![q] = e]
                              /\ e.at \in {"published", "ended"}
      BY <2>5, EndedRun
    <3> QED BY <1>1, <1>3, <3>1
  <2>6. CASE UNCHANGED runs
    BY <2>1, <2>6
  <2> QED
    BY <2>1, <2>2, <2>3, <2>4, <2>5, <2>6
    DEF Next, Stop, TakeReview, StartRound, Consume, SkipArm, Retry, Evaluate, Publish,
        Refuse, FailHandling, Tick, Enter, Close, AuditAccount, Conclude, vars
<1> QED BY <1>2, <1>3 DEF Slotted

\* The database never takes a consumption back.
LEMMA ConsumedStays ==
  ASSUME TInv, [Next]_vars, NEW b, Consumed(b)
  PROVE  Consumed(b)'
<1>1. PICK i \in DOMAIN attempts : attempts[i].review = b /\ attempts[i].status = "CONSUMED"
  BY DEF Consumed, Armed
<1>2. attempts \in Seq(AttemptSet) /\ attempts[i] \in AttemptSet
  <2>1. attempts \in Seq(AttemptSet)
    BY DEF TInv, CanaryTypeOK, AttemptSet
  <2> QED BY <2>1, LedgerStep, ElementOfSeq
<1>3. attempts'[i].status = "CONSUMED"
  <2>1. ASSUME NEW j \in DOMAIN attempts, NEW e \in AttemptSet, e.status = "CONSUMED" \/ j # i,
               attempts' = [attempts EXCEPT ![j] = e]
        PROVE  attempts'[i].status = "CONSUMED"
    BY <1>1, <1>2, <2>1, LedgerExcept
  <2>2. CASE Consume
    <3> DEFINE j == CHOOSE n \in Armed(handling.review) : TRUE
    <3>1. PICK decided :
            attempts' = [attempts EXCEPT ![j] = [@ EXCEPT !.status = "CONSUMED",
                                                         !.decidedAt = decided]]
      BY <2>2 DEF Consume
    <3>2. j \in DOMAIN attempts
      BY <2>2 DEF Consume, TInv, Known, Armed
    <3> HIDE DEF j
    <3>3. attempts'[i] = IF i = j THEN [attempts[j] EXCEPT !.status = "CONSUMED",
                                                           !.decidedAt = decided]
                         ELSE attempts[i]
      BY <1>2, <3>1, <3>2
    <3> QED BY <1>1, <1>2, <3>3 DEF AttemptSet
  <2>3. ASSUME NEW j \in DOMAIN attempts, Conclude(j)
        PROVE  attempts'[i].status = "CONSUMED"
    BY <1>1, <1>2, <2>3 DEF Conclude, AttemptSet
  <2>4. ASSUME NEW p \in Invocations, Arm(p) PROVE attempts'[i].status = "CONSUMED"
    <3>1. CASE UNCHANGED attempts
      BY <1>1, <3>1
    <3>2. CASE attempts' = Append(attempts, Attempt(runs[p].review))
      <4>1. Attempt(runs[p].review) \in AttemptSet
        BY <2>4 DEF Arm, Attempt, AttemptSet, TInv, Known
      <4>2. i \in 1..Len(attempts)
        BY LedgerStep
      <4>3. attempts'[i] = attempts[i]
        BY <1>2, <3>2, <4>1, <4>2, AppendProperties
      <4> QED BY <1>1, <4>3
    <3> QED BY <2>4, <3>1, <3>2 DEF Arm
  <2>5. CASE UNCHANGED attempts
    BY <1>1, <2>5
  <2> QED
    BY <2>2, <2>3, <2>4, <2>5
    DEF Next, Start, Prepare, Abandon, Stop, TakeReview, StartRound, SkipArm, Retry,
        Evaluate, Publish, Refuse, FailHandling, Tick, Enter, Close, AuditAccount, vars,
        session
<1> QED BY <1>1, <1>3, LedgerStep DEF Consumed, Armed

LEMMA NextSingle ==
  ASSUME TInv, Bounded, Present, Single, [Next]_vars
  PROVE  Single'
<1>1. ASSUME NEW v \in verdicts', NEW w \in verdicts', v.review = w.review
      PROVE  v = w
  BY <1>1, NewVerdict DEF Single
<1>2. PICK b : b = handling.review
  OBVIOUS
<1>3. handling.checked => Consumed(b) /\ Consumed(b)'
  BY <1>2, ConsumedStays DEF Single
<1>4. ASSUME NEW v \in verdicts' PROVE Consumed(v.review)'
  <2>1. CASE v \in verdicts
    BY <2>1, ConsumedStays DEF Single
  <2>2. CASE v \notin verdicts
    <3>1. Evaluate /\ v.review = b
      BY <1>2, <2>2, NewVerdict
    <3>2. handling.checked
      BY <3>1 DEF Evaluate, Bounded
    <3> QED BY <1>3, <3>1, <3>2
  <2> QED BY <2>1, <2>2
<1>5. ASSUME handling'.checked
      PROVE  Consume \/ (handling.checked /\ handling'.review = b)
  <2>1. handling \in HandlingSet
    BY DEF TInv, CanaryTypeOK, HandlingSet
  <2>2. CASE UNCHANGED handling
    BY <1>2, <1>5, <2>2
  <2>3. CASE StartRound \/ SkipArm \/ Retry \/ Evaluate
    BY <1>2, <1>5, <2>1, <2>3 DEF StartRound, SkipArm, Retry, Evaluate, HandlingSet
  <2>4. ASSUME (\E r \in reviews : TakeReview(r)) \/ Publish \/ Refuse \/ FailHandling
        PROVE  ~handling'.checked
    <3>1. ~NotHandling.checked
      BY DEF NotHandling
    <3>2. CASE Publish \/ Refuse \/ FailHandling
      BY <3>1, <3>2 DEF Publish, Refuse, FailHandling
    <3>3. ASSUME NEW r \in reviews, TakeReview(r) PROVE ~handling'.checked
      BY <3>3 DEF TakeReview, NotHandling
    <3> QED BY <2>4, <3>2, <3>3
  <2> QED
    BY <1>5, <2>2, <2>3, <2>4
    DEF Next, Start, Prepare, Abandon, Arm, Stop, Tick, Enter, Close, AuditAccount,
        Conclude, vars, risk
<1>6. ASSUME Consume PROVE Consumed(b)' /\ handling'.review = b
  <2> DEFINE j == CHOOSE n \in Armed(handling.review) : TRUE
  <2>1. PICK decided :
          attempts' = [attempts EXCEPT ![j] = [@ EXCEPT !.status = "CONSUMED",
                                                       !.decidedAt = decided]]
    BY <1>6 DEF Consume
  <2>2. j \in DOMAIN attempts /\ attempts[j].review = b
    BY <1>2, <1>6 DEF Consume, TInv, Known, Armed
  <2> HIDE DEF j
  <2>3. attempts \in Seq(AttemptSet) /\ attempts[j] \in AttemptSet
    <3>1. attempts \in Seq(AttemptSet)
      BY DEF TInv, CanaryTypeOK, AttemptSet
    <3> QED BY <2>2, <3>1, LedgerStep, ElementOfSeq
  <2>4. attempts'[j] = [attempts[j] EXCEPT !.status = "CONSUMED", !.decidedAt = decided]
    BY <2>1, <2>2, <2>3
  <2>5. attempts'[j].status = "CONSUMED" /\ attempts'[j].review = b
    BY <2>2, <2>3, <2>4 DEF AttemptSet
  <2>6. j \in DOMAIN attempts'
    BY <2>2, LedgerStep
  <2>7. handling'.review = b
    <3>1. handling \in HandlingSet
      BY DEF TInv, CanaryTypeOK, HandlingSet
    <3> QED BY <1>2, <1>6, <3>1 DEF Consume, HandlingSet
  <2>8. Consumed(b)'
    BY <2>5, <2>6 DEF Consumed, Armed
  <2> QED BY <2>7, <2>8
<1>7. handling'.checked => Consumed(b)' /\ handling'.review = b
  BY <1>3, <1>5, <1>6
<1>8. (handling.checked => Consumed(handling.review))'
  BY <1>7 DEF Consumed, Armed
<1> QED BY <1>1, <1>4, <1>8 DEF Single

\* No slot is armed twice and no attempt approved twice, for every number of
\* repeated, lost and replayed calls of either command.
THEOREM AttemptsApprovedOnce == Spec => []OneApprovalPerAttempt
<1> DEFINE I == TInv /\ Bounded /\ Present /\ Slotted /\ Single
<1>1. Init => I
  BY InitTInv DEF Init, Bounded, Present, Slotted, Single, NotHandling, NotStarted
<1>2. I /\ [Next]_vars => I'
  BY NextTInv, NextBounded, NextPresent, NextSlotted, NextSingle
<1>3. I => OneApprovalPerAttempt
  BY DEF Present, Slotted, Single, Consumed, OneApprovalPerAttempt
<1> QED BY <1>1, <1>2, <1>3, PTL DEF Spec
=============================================================================
