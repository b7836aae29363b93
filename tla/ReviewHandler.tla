--------------------------- MODULE ReviewHandler ---------------------------
(***************************************************************************)
(* The handling of one PAPER review (_handle_paper_review and its consumer *)
(* in kairos_risk/service.py), await by await: wait for the coordinator's  *)
(* inputs, read the operator's authority, consume the canary's arm,        *)
(* evaluate, bind the approval to the authority that was read, publish     *)
(* with the ack.  Between two awaits the operator may change its mind, the *)
(* account or the measurement may be contradicted, the intent may expire,  *)
(* and any of these calls may fail.                                        *)
(*                                                                         *)
(* The coordinator appears as what the handler sees of it: whether its     *)
(* inputs are there, the cached verdicts and the reservations.             *)
(*                                                                         *)
(* External, as src/ uses them: the operator repository (snapshot refuses  *)
(* unless armed; bind_decision refuses unless the version is still the     *)
(* expected one) and the canary arm repository (consume returns an arm     *)
(* once consumed to the same review again, README.md:256-258).             *)
(***************************************************************************)
EXTENDS Naturals, FiniteSets

CONSTANTS
  Reviews,
  CanaryReviews,  \* the reviews of the technical canary strategy
  MaxVersion,     \* bound on operator control versions
  MaxLosses,      \* bound on losses of the coordinator's inputs
  MaxFailures     \* bound on failed handlings, restarts included

ASSUME HandlerAssumption ==
  /\ CanaryReviews \subseteq Reviews
  /\ "none" \notin Reviews
  /\ MaxVersion \in Nat \ {0}

VARIABLES
  inbox,        \* reviews not yet acked
  expired,      \* reviews past their entry deadline
  pc,           \* the await the handler is at
  cur,          \* the review it handles
  reasons,      \* admission_rejections
  seen,         \* version of the operator snapshot, 0 when None
  armChecked,   \* canary_arm_checked
  late,         \* observed_now_ms was past the deadline
  approved,     \* the decision it holds
  recovered,    \* the coordinator's recovery is complete
  measured,     \* it has a usable measurement
  cache,        \* its verdicts
  reserved,     \* its reservations
  operator,     \* external: the durable operator control
  arms,         \* external: the durable canary arms
  bindings,     \* external: version each approval was bound to, 0 if none
  published,    \* decisions on the bus
  losses, failures

input == <<recovered, measured>>
memory == <<cache, reserved>>
handler == <<pc, cur, reasons, seen, armChecked, late, approved>>
external == <<operator, arms, bindings>>
bus == <<inbox, published>>
counters == <<losses, failures>>
vars == <<inbox, expired, pc, cur, reasons, seen, armChecked, late, approved,
          recovered, measured, cache, reserved, operator, arms, bindings,
          published, losses, failures>>

Publication ==
  [review : Reviews, approved : BOOLEAN, version : 0..MaxVersion]

Init ==
  /\ inbox = Reviews /\ expired = {}
  /\ pc = "idle" /\ cur = "none"
  /\ reasons = {} /\ seen = 0 /\ armChecked = FALSE
  /\ late = FALSE /\ approved = FALSE
  /\ recovered = FALSE /\ measured = FALSE
  /\ cache = [r \in Reviews |-> "none"] /\ reserved = {}
  /\ operator = [version |-> 1, armed |-> TRUE]
  /\ arms = [r \in Reviews |-> "absent"]
  /\ bindings = [r \in Reviews |-> 0]
  /\ published = {} /\ losses = 0 /\ failures = 0

-----------------------------------------------------------------------------
(***************************************************************************)
(* The handler.                                                            *)
(***************************************************************************)
Take(r) ==
  /\ pc = "idle"
  /\ r \in inbox
  /\ pc' = "inputs" /\ cur' = r
  /\ UNCHANGED <<reasons, seen, armChecked, late, approved, expired, input,
                 memory, external, bus, counters>>

\* The handling ends and its local variables with it.
Return ==
  /\ pc' = "idle" /\ cur' = "none"
  /\ reasons' = {} /\ seen' = 0 /\ armChecked' = FALSE
  /\ late' = FALSE /\ approved' = FALSE

\* wait_for_inputs returns; the handler reads its clock and starts a round
\* without an operator snapshot.
InputsArrive ==
  /\ pc = "inputs"
  /\ recovered /\ measured
  /\ pc' = "operator" /\ late' = (cur \in expired) /\ seen' = 0
  /\ UNCHANGED <<cur, reasons, armChecked, approved, expired, input, memory,
                 external, bus, counters>>

\* Mutant of InputsTimeout: the wait has no deadline once recovery is complete.
TimeoutBeforeRecovery ==
  /\ pc = "inputs"
  /\ ~recovered
  /\ cur \in expired
  /\ inbox' = inbox \ {cur}
  /\ Return
  /\ UNCHANGED <<expired, input, memory, external, published, counters>>

\* wait_for_inputs raises PaperInputDeadlineExceeded: ack without a decision.
InputsTimeout ==
  /\ pc = "inputs"
  /\ ~(recovered /\ measured)
  /\ cur \in expired
  /\ inbox' = inbox \ {cur}
  /\ Return
  /\ UNCHANGED <<expired, input, memory, external, published, counters>>

\* The await that follows the operator snapshot.
AfterOperator(version) ==
  IF cur \in CanaryReviews /\ ~armChecked /\ version # 0 THEN "arm" ELSE "evaluate"

ReadOperator ==
  /\ pc = "operator"
  /\ operator.armed
  /\ seen' = operator.version
  /\ pc' = AfterOperator(operator.version)
  /\ UNCHANGED <<cur, reasons, armChecked, late, approved, expired, input,
                 memory, external, bus, counters>>

\* Killed, expired or unreachable: the reason stays for every later round.
OperatorRefuses ==
  /\ pc = "operator"
  /\ reasons' = reasons \cup {"operator_control_unavailable"}
  /\ pc' = AfterOperator(0)
  /\ UNCHANGED <<cur, seen, armChecked, late, approved, expired, input, memory,
                 external, bus, counters>>

\* Mutant of ConsumeArm: a missing arm is noted only beside another reason.
ConsumeWithoutDenial ==
  /\ pc = "arm"
  /\ armChecked' = TRUE
  /\ pc' = "evaluate"
  /\ arms' = IF arms[cur] = "absent" THEN arms
                                     ELSE [arms EXCEPT ![cur] = "consumed"]
  /\ UNCHANGED <<cur, reasons, seen, late, approved, expired, input, memory,
                 operator, bindings, bus, counters>>

\* A missing or invalid arm replaces the reasons collected so far.
ConsumeArm ==
  LET found == arms[cur] = "consumed" \/ (arms[cur] = "armed" /\ cur \notin expired)
  IN  /\ pc = "arm"
      /\ armChecked' = TRUE
      /\ pc' = "evaluate"
      /\ arms' = IF found THEN [arms EXCEPT ![cur] = "consumed"] ELSE arms
      /\ reasons' = IF ~found THEN {"technical_canary_arm_missing"}
                    ELSE IF late THEN {"technical_canary_arm_invalid"}
                    ELSE reasons
      /\ UNCHANGED <<cur, seen, late, approved, expired, input, memory, operator,
                     bindings, bus, counters>>

\* PaperInputUnavailable: back to the bounded wait, reasons and arm kept.
InputsGone(denied) ==
  /\ \/ ~recovered
     \/ ~measured /\ (denied \/ cache[cur] = "none")
  /\ pc' = "inputs"
  /\ UNCHANGED <<cur, reasons, seen, armChecked, late, approved, expired, input,
                 memory, external, bus, counters>>

\* Mutant of Denied: the denial is cached as the review's verdict.
DeniedCached ==
  /\ recovered /\ measured
  /\ approved' = FALSE
  /\ pc' = "publish"
  /\ cache' = [cache EXCEPT ![cur] = "rejected"]
  /\ UNCHANGED <<cur, reasons, seen, armChecked, late, expired, input, reserved,
                 external, bus, counters>>

\* The coordinator answers a denied review: the rejection is not stored.
Denied ==
  /\ recovered /\ measured
  /\ approved' = FALSE
  /\ pc' = "publish"
  /\ UNCHANGED <<cur, reasons, seen, armChecked, late, expired, input, memory,
                 external, bus, counters>>

\* The coordinator answers with the cached verdict, or evaluates and stores a
\* new one; an approval is reserved at once.
Admit ==
  /\ recovered
  /\ \/ cache[cur] # "none" /\ UNCHANGED memory
     \/ /\ cache[cur] = "none" /\ measured
        /\ \E verdict \in {"approved", "rejected"} :
             /\ verdict = "approved" => ~late
             /\ cache' = [cache EXCEPT ![cur] = verdict]
             /\ reserved' = IF verdict = "approved" THEN reserved \cup {cur}
                                                    ELSE reserved
  /\ approved' = (cache'[cur] = "approved")
  /\ pc' = IF approved' THEN "bind" ELSE "publish"
  /\ UNCHANGED <<cur, reasons, seen, armChecked, late, expired, input, external,
                 bus, counters>>

Evaluate ==
  /\ pc = "evaluate"
  /\ \/ InputsGone(reasons # {})
     \/ reasons # {} /\ Denied
     \/ reasons = {} /\ Admit

\* Mutant of Bind: whatever version is in force is the one bound.
BindCurrent ==
  /\ pc = "bind"
  /\ operator.armed
  /\ bindings' = [bindings EXCEPT ![cur] = operator.version]
  /\ pc' = "publish"
  /\ UNCHANGED <<cur, reasons, seen, armChecked, late, approved, expired, input,
                 memory, operator, arms, bus, counters>>

Bind ==
  /\ pc = "bind"
  /\ operator = [version |-> seen, armed |-> TRUE]
  /\ bindings[cur] \in {0, seen}
  /\ bindings' = [bindings EXCEPT ![cur] = seen]
  /\ pc' = "publish"
  /\ UNCHANGED <<cur, reasons, seen, armChecked, late, approved, expired, input,
                 memory, operator, arms, bus, counters>>

\* Mutant of BindRefused: the revoked approval is forgotten.
BindRefusedForgotten ==
  /\ pc = "bind"
  /\ pc' = "deny"
  /\ cache' = [cache EXCEPT ![cur] = "none"]
  /\ reserved' = reserved \ {cur}
  /\ UNCHANGED <<cur, reasons, seen, armChecked, late, approved, expired, input,
                 external, bus, counters>>

\* The repository refuses: the approval is revoked, its reservation stays.
BindRefused ==
  /\ pc = "bind"
  /\ pc' = "deny"
  /\ UNCHANGED <<cur, reasons, seen, armChecked, late, approved, expired, input,
                 memory, external, bus, counters>>

\* The second evaluation, denied by operator_control_changed.
Deny ==
  /\ pc = "deny"
  /\ InputsGone(TRUE) \/ Denied

\* publish and ack commit in one transaction.
Publish ==
  /\ pc = "publish"
  /\ inbox' = inbox \ {cur}
  /\ published' = published \cup
       {[review |-> cur, approved |-> approved, version |-> seen]}
  /\ Return
  /\ UNCHANGED <<expired, input, memory, external, counters>>

\* Some call of this handling raises: the review stays pending.
Fail ==
  /\ pc \in {"arm", "publish"}
  /\ failures < MaxFailures
  /\ failures' = failures + 1
  /\ Return
  /\ UNCHANGED <<expired, input, memory, external, bus, losses>>

\* The process restarts: committed, unexpired approvals come back.
Restart ==
  LET committed == {p.review : p \in {q \in published : q.approved}} \ expired
  IN  /\ failures < MaxFailures
      /\ failures' = failures + 1
      /\ Return
      /\ recovered' = FALSE /\ measured' = FALSE
      /\ reserved' = committed
      /\ cache' = [r \in Reviews |-> IF r \in committed THEN "approved" ELSE "none"]
      /\ UNCHANGED <<expired, external, bus, losses>>

Step ==
  \/ InputsArrive \/ InputsTimeout \/ ReadOperator \/ OperatorRefuses
  \/ ConsumeArm \/ Evaluate \/ Bind \/ BindRefused \/ Deny \/ Publish

-----------------------------------------------------------------------------
(***************************************************************************)
(* Everything else: the other consumers of the process and the operator.   *)
(***************************************************************************)
\* The account and venue streams gain or lose what the coordinator needs.
GainInputs ==
  /\ recovered' = TRUE /\ measured' = TRUE
  /\ UNCHANGED <<expired, handler, memory, external, bus, counters>>

LoseInputs ==
  /\ losses < MaxLosses
  /\ losses' = losses + 1
  /\ \/ recovered' = FALSE /\ UNCHANGED measured
     \/ measured' = FALSE /\ UNCHANGED recovered
  /\ UNCHANGED <<expired, handler, memory, external, bus, failures>>

Expire(r) ==
  /\ expired' = expired \cup {r}
  /\ UNCHANGED <<handler, input, memory, external, bus, counters>>

\* A newer account takes over the trade, or proves that it cannot be entered;
\* the verdict may be trimmed from now on.
Release(r) ==
  /\ r \in reserved
  /\ r \in expired \/ \E p \in published : p.review = r /\ p.approved
  /\ reserved' = reserved \ {r}
  /\ cache' \in {cache, [cache EXCEPT ![r] = "none"]}
  /\ UNCHANGED <<expired, handler, input, external, bus, counters>>

\* Kill, arm again or replace: every change has a version of its own.
ChangeOperator ==
  /\ operator.version < MaxVersion
  /\ \E armed \in BOOLEAN :
       operator' = [version |-> operator.version + 1, armed |-> armed]
  /\ UNCHANGED <<expired, handler, input, memory, arms, bindings, bus, counters>>

Arm(r) ==
  /\ arms[r] = "absent" /\ r \notin expired
  /\ arms' = [arms EXCEPT ![r] = "armed"]
  /\ UNCHANGED <<expired, handler, input, memory, operator, bindings, bus, counters>>

Next ==
  \/ \E r \in Reviews : Take(r)
  \/ Step
  \/ Fail
  \/ Restart
  \/ GainInputs
  \/ LoseInputs
  \/ \E r \in Reviews : Expire(r) \/ Release(r)
  \/ ChangeOperator
  \/ \E r \in CanaryReviews : Arm(r)

Spec == Init /\ [][Next]_vars

\* The consumer task is scheduled and takes every pending review in turn;
\* deadlines pass.  Neither the operator nor the streams are assumed to help.
FairSpec ==
  /\ Spec
  /\ WF_vars(Step)
  /\ \A r \in Reviews : WF_vars(Take(r)) /\ WF_vars(Expire(r))

-----------------------------------------------------------------------------
(***************************************************************************)
(* Properties.                                                             *)
(***************************************************************************)
\* Every variable keeps its type.
HandlerTypeOK ==
  /\ inbox \subseteq Reviews /\ expired \subseteq Reviews
  /\ pc \in {"idle", "inputs", "operator", "arm", "evaluate", "bind", "deny",
             "publish"}
  /\ cur \in Reviews \cup {"none"}
  /\ reasons \subseteq {"operator_control_unavailable",
       "technical_canary_arm_missing", "technical_canary_arm_invalid"}
  /\ seen \in 0..MaxVersion
  /\ cache \in [Reviews -> {"none", "approved", "rejected"}]
  /\ reserved \subseteq Reviews
  /\ arms \in [Reviews -> {"absent", "armed", "consumed"}]
  /\ bindings \in [Reviews -> 0..MaxVersion]
  /\ published \subseteq Publication

\* An approval on the bus is bound to the operator version that was read in
\* the handling that published it, over any number of rounds, failed handlings
\* and operator changes (_handle_paper_review, README.md:417-420).
ApprovalBoundToReadVersion ==
  \A p \in published : p.approved => p.version # 0 /\ bindings[p.review] = p.version

\* A canary idea holds a reservation, and with it risk, only when its arm was
\* consumed (the canary branch of _handle_paper_review).
CanaryNeedsArm == \A r \in reserved \cap CanaryReviews : arms[r] = "consumed"

\* A pending review denied by the operator or for want of an arm leaves no verdict and
\* no reservation behind, so it can still be admitted when it comes again
\* (evaluate: "must not poison a later legitimate same-inbox recovery").
DenialLeavesNoTrace ==
  [][\A r \in inbox :
       (cache'[r] \notin {"none", cache[r]} \/ r \in reserved' \ reserved) =>
         reasons = {} /\ seen # 0]_vars

\* The approval of a pending review is never lost before its deadline: refused by
\* the operator or for its changed version, failed, or sent back for inputs, it
\* keeps verdict and reservation while the process runs, so it is the same one
\* when the review comes again ("Existing reservations remain conservative until
\* authoritative expiry", service.py:387-388).
RevokedApprovalKept ==
  [][\A r \in inbox \ expired :
       (cache[r] = "approved" /\ ~Restart) => cache'[r] = "approved" /\ r \in reserved']_vars

\* A review taken is answered or dropped, although every round may end in a
\* further wait: the wait is bounded by the entry deadline.
HandlingEnds == \A r \in Reviews : r \in inbox ~> r \notin inbox

\* "Missing, expired, killed or unavailable authority denies before consuming
\* a canary arm" (README.md:417-418): no arm is consumed by a handling that
\* already denies for want of authority.
ArmSpentUnderAuthority ==
  [][\A r \in Reviews :
       (arms[r] = "armed" /\ arms'[r] = "consumed") =>
         "operator_control_unavailable" \notin reasons]_vars
=============================================================================
