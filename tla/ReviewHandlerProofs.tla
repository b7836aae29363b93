------------------------ MODULE ReviewHandlerProofs ------------------------
(***************************************************************************)
(* Proofs about the review handler, for every set of reviews and every     *)
(* bound.                                                                  *)
(*                                                                         *)
(* Typed adds to the types that a handling has a review and that operator  *)
(* versions start at one.  Bound follows the approval from the binding to  *)
(* the bus.  Spent follows the consumed arm through the local flag, the    *)
(* cached verdict and the committed approval a restart brings back, into   *)
(* the reservation.  Authorized says that a round without a reason to deny *)
(* has read the operator's authority.  Kept ties the cached approval of a  *)
(* pending review to its reservation.                                      *)
(***************************************************************************)
EXTENDS ReviewHandler, TLAPS

TypedHandler ==
  /\ pc \in {"idle", "inputs", "operator", "arm", "evaluate", "bind", "deny", "publish"}
  /\ cur \in Reviews \cup {"none"}
  /\ pc # "idle" => cur \in Reviews
  /\ seen \in 0..MaxVersion
  /\ approved \in BOOLEAN

TypedReasons ==
  reasons \subseteq {"operator_control_unavailable", "technical_canary_arm_missing",
                     "technical_canary_arm_invalid"}

TypedMemory ==
  /\ cache \in [Reviews -> {"none", "approved", "rejected"}]
  /\ reserved \subseteq Reviews

TypedExternal ==
  /\ operator \in [version : 1..MaxVersion, armed : BOOLEAN]
  /\ arms \in [Reviews -> {"absent", "armed", "consumed"}]
  /\ bindings \in [Reviews -> 0..MaxVersion]

TypedBus ==
  /\ inbox \subseteq Reviews /\ expired \subseteq Reviews
  /\ published \subseteq Publication

Typed == TypedHandler /\ TypedReasons /\ TypedMemory /\ TypedExternal /\ TypedBus

Bound ==
  /\ ApprovalBoundToReadVersion
  /\ pc = "publish" /\ approved => seen # 0 /\ bindings[cur] = seen

Spent ==
  /\ CanaryNeedsArm
  /\ \A r \in CanaryReviews : cache[r] = "approved" => arms[r] = "consumed"
  /\ \A p \in published :
       p.approved /\ p.review \in CanaryReviews => arms[p.review] = "consumed"
  /\ pc = "idle" => ~armChecked
  /\ cur \in CanaryReviews =>
       /\ armChecked /\ reasons = {} => arms[cur] = "consumed"
       /\ pc = "evaluate" /\ reasons = {} => armChecked
       /\ pc \in {"bind", "publish"} /\ approved => arms[cur] = "consumed"

Authorized ==
  /\ pc = "arm" => seen # 0
  /\ pc = "evaluate" /\ reasons = {} => seen # 0
  /\ \A p \in published : p.review \notin inbox

Inv == Typed /\ Bound /\ Spent /\ Authorized

-----------------------------------------------------------------------------
LEMMA InitInv == Init => Inv
<1> SUFFICES ASSUME Init PROVE Inv
  OBVIOUS
<1>1. Typed
  <2>1. TypedHandler
    <3>1. approved \in BOOLEAN
      BY DEF Init
    <3>2. seen \in 0..MaxVersion
      BY HandlerAssumption DEF Init
    <3> QED BY <3>1, <3>2 DEF Init, TypedHandler
  <2>2. TypedReasons
    BY DEF Init, TypedReasons
  <2>3. TypedMemory
    BY DEF Init, TypedMemory
  <2>4. TypedExternal
    BY HandlerAssumption DEF Init, TypedExternal
  <2>5. TypedBus
    BY DEF Init, TypedBus
  <2> QED BY <2>1, <2>2, <2>3, <2>4, <2>5 DEF Typed
<1>2. Bound /\ Authorized
  BY DEF Init, Bound, ApprovalBoundToReadVersion, Authorized
<1>3. Spent
  BY HandlerAssumption DEF Init, Spent, CanaryNeedsArm
<1> QED BY <1>1, <1>2, <1>3 DEF Inv

\* What evaluating without a reason to deny leaves behind.
LEMMA AdmitEffect ==
  ASSUME Typed, Admit, cur \in Reviews
  PROVE  /\ cache' \in [Reviews -> {"none", "approved", "rejected"}]
         /\ \A r \in Reviews : r # cur => cache'[r] = cache[r]
         /\ reserved \subseteq reserved' /\ reserved' \subseteq reserved \cup {cur}
         /\ cur \in reserved' \ reserved => cache'[cur] = "approved"
         /\ approved' \in BOOLEAN /\ (approved' <=> cache'[cur] = "approved")
         /\ pc' \in {"bind", "publish"} /\ (pc' = "publish" => ~approved')
<1>1. approved' = (cache'[cur] = "approved")
  BY DEF Admit
<1>2. approved' \in BOOLEAN /\ (approved' <=> cache'[cur] = "approved")
  BY <1>1
<1>3. pc' \in {"bind", "publish"} /\ (pc' = "publish" => ~approved')
  BY <1>2 DEF Admit
<1>4. CASE UNCHANGED memory
  BY <1>2, <1>3, <1>4 DEF memory, Typed, TypedMemory
<1>5. ASSUME NEW verdict \in {"approved", "rejected"},
             cache' = [cache EXCEPT ![cur] = verdict],
             reserved' = IF verdict = "approved" THEN reserved \cup {cur} ELSE reserved
      PROVE  /\ cache' \in [Reviews -> {"none", "approved", "rejected"}]
             /\ \A r \in Reviews : r # cur => cache'[r] = cache[r]
             /\ reserved \subseteq reserved' /\ reserved' \subseteq reserved \cup {cur}
             /\ cur \in reserved' \ reserved => cache'[cur] = "approved"
  BY <1>5 DEF Typed, TypedMemory
<1> QED BY <1>2, <1>3, <1>4, <1>5 DEF Admit

LEMMA NextTypedHandler ==
  ASSUME Typed, [Next]_vars
  PROVE  TypedHandler'
<1>1. TypedHandler /\ operator.version \in 0..MaxVersion
  BY DEF Typed, TypedExternal
<1> USE <1>1 DEF TypedHandler
<1>2. CASE \E r \in Reviews : Take(r)
  BY <1>2 DEF Take
<1>3. CASE InputsTimeout \/ Publish \/ Fail \/ Restart
  <2>1. Return
    BY <1>3 DEF InputsTimeout, Publish, Fail, Restart
  <2>2. approved' \in BOOLEAN
    BY <2>1 DEF Return
  <2>3. seen' \in 0..MaxVersion
    BY <2>1, HandlerAssumption DEF Return
  <2> QED BY <2>1, <2>2, <2>3 DEF Return
<1>4. CASE InputsArrive
  BY <1>4, HandlerAssumption DEF InputsArrive
<1>5. CASE ReadOperator \/ OperatorRefuses
  BY <1>5 DEF ReadOperator, OperatorRefuses, AfterOperator
<1>6. CASE ConsumeArm
  BY <1>6 DEF ConsumeArm
<1>7. ASSUME NEW denied, InputsGone(denied), pc # "idle" PROVE TypedHandler'
  BY <1>7 DEF InputsGone
<1>8. CASE Denied /\ pc # "idle"
  BY <1>8 DEF Denied
<1>9. CASE Evaluate /\ Admit
  <2>1. pc # "idle" /\ cur \in Reviews /\ UNCHANGED <<cur, seen>>
    BY <1>9 DEF Evaluate, Admit
  <2> QED BY <1>9, <2>1, AdmitEffect
<1>10. CASE Bind \/ BindRefused
  BY <1>10 DEF Bind, BindRefused
<1>11. CASE UNCHANGED handler
  BY <1>11 DEF handler
<1> QED
  BY <1>2, <1>3, <1>4, <1>5, <1>6, <1>7, <1>8, <1>9, <1>10, <1>11
  DEF Next, Step, Evaluate, Deny, GainInputs, LoseInputs, Expire, Release,
      ChangeOperator, Arm, vars, handler

LEMMA NextTypedReasons ==
  ASSUME Typed, [Next]_vars
  PROVE  TypedReasons'
<1> USE DEF Typed, TypedReasons
<1>1. CASE OperatorRefuses
  BY <1>1 DEF OperatorRefuses
<1>2. CASE ConsumeArm
  BY <1>2 DEF ConsumeArm
<1>3. CASE reasons' = {}
  BY <1>3
<1>4. CASE UNCHANGED reasons
  BY <1>4
<1> QED
  BY <1>1, <1>2, <1>3, <1>4
  DEF Next, Step, Take, InputsArrive, InputsTimeout, ReadOperator, Evaluate, Admit,
      InputsGone, Denied, Bind, BindRefused, Deny, Publish, Fail, Restart, Return,
      GainInputs, LoseInputs, Expire, Release, ChangeOperator, Arm, vars, handler

LEMMA NextTypedMemory ==
  ASSUME Typed, [Next]_vars
  PROVE  TypedMemory'
<1>1. TypedMemory
  BY DEF Typed
<1> USE <1>1 DEF TypedMemory
<1>2. CASE Evaluate /\ Admit
  <2>1. cur \in Reviews
    BY <1>2 DEF Evaluate, Typed, TypedHandler
  <2> QED BY <1>2, <2>1, AdmitEffect
<1>3. CASE Restart
  BY <1>3 DEF Restart, Typed, TypedBus, Publication
<1>4. ASSUME NEW r \in Reviews, Release(r) PROVE TypedMemory'
  BY <1>4 DEF Release
<1>5. CASE UNCHANGED memory
  BY <1>5 DEF memory
<1> QED
  BY <1>2, <1>3, <1>4, <1>5
  DEF Next, Step, Take, InputsArrive, InputsTimeout, ReadOperator, OperatorRefuses,
      ConsumeArm, Evaluate, InputsGone, Denied, Bind, BindRefused, Deny, Publish, Fail,
      GainInputs, LoseInputs, Expire, ChangeOperator, Arm, vars, memory

LEMMA NextTypedExternal ==
  ASSUME Typed, [Next]_vars
  PROVE  TypedExternal'
<1>1. TypedExternal
  BY DEF Typed
<1> USE <1>1 DEF TypedExternal
<1>2. CASE ConsumeArm
  BY <1>2 DEF ConsumeArm
<1>3. CASE Bind
  BY <1>3 DEF Bind, Typed, TypedHandler
<1>4. CASE ChangeOperator
  <2>1. PICK armed \in BOOLEAN :
          operator' = [version |-> operator.version + 1, armed |-> armed]
    BY <1>4 DEF ChangeOperator
  <2>2. operator.version + 1 \in 1..MaxVersion
    BY <1>4, HandlerAssumption DEF ChangeOperator
  <2> QED BY <1>4, <2>1, <2>2 DEF ChangeOperator
<1>5. ASSUME NEW r \in CanaryReviews, Arm(r) PROVE TypedExternal'
  BY <1>5 DEF Arm
<1>6. CASE UNCHANGED external
  BY <1>6 DEF external
<1> QED
  BY <1>2, <1>3, <1>4, <1>5, <1>6
  DEF Next, Step, Take, InputsArrive, InputsTimeout, ReadOperator, OperatorRefuses,
      Evaluate, Admit, InputsGone, Denied, BindRefused, Deny, Publish, Fail, Restart,
      GainInputs, LoseInputs, Expire, Release, vars, external

LEMMA NextTypedBus ==
  ASSUME Typed, [Next]_vars
  PROVE  TypedBus'
<1>1. TypedBus
  BY DEF Typed
<1> USE <1>1 DEF TypedBus
<1>2. CASE Publish
  <2>1. [review |-> cur, approved |-> approved, version |-> seen] \in Publication
    BY <1>2 DEF Publish, Typed, TypedHandler, Publication
  <2>2. /\ published' = published \cup
                          {[review |-> cur, approved |-> approved, version |-> seen]}
        /\ inbox' \subseteq inbox /\ expired' = expired
    BY <1>2 DEF Publish
  <2> HIDE DEF Publication
  <2> QED BY <2>1, <2>2
<1>3. CASE UNCHANGED published /\ inbox' \subseteq inbox /\ expired' = expired
  BY <1>3
<1>4. ASSUME NEW r \in Reviews, Expire(r) PROVE TypedBus'
  BY <1>4 DEF Expire, bus
<1> QED
  BY <1>2, <1>3, <1>4
  DEF Next, Step, Take, InputsArrive, InputsTimeout, ReadOperator, OperatorRefuses,
      ConsumeArm, Evaluate, Admit, InputsGone, Denied, Bind, BindRefused, Deny, Fail,
      Restart, GainInputs, LoseInputs, Release, ChangeOperator, Arm, vars, bus

LEMMA NextTyped ==
  ASSUME Typed, [Next]_vars
  PROVE  Typed'
<1> QED
  BY NextTypedHandler, NextTypedReasons, NextTypedMemory, NextTypedExternal, NextTypedBus
  DEF Typed

\* The handler's variables keep their types.
THEOREM HandlerTypeCorrect == Spec => []HandlerTypeOK
<1>1. Init => Typed
  BY InitInv DEF Inv
<1>2. Typed /\ [Next]_vars => Typed'
  BY NextTyped
<1>3. Typed => HandlerTypeOK
  BY DEF Typed, TypedHandler, TypedReasons, TypedMemory, TypedExternal, TypedBus,
     HandlerTypeOK
<1> QED BY <1>1, <1>2, <1>3, PTL DEF Spec

-----------------------------------------------------------------------------
LEMMA NextBound ==
  ASSUME Typed, Bound, [Next]_vars
  PROVE  Bound'
<1> USE DEF Bound, ApprovalBoundToReadVersion
<1>1. CASE Evaluate /\ Admit
  <2>1. cur \in Reviews /\ UNCHANGED <<bindings, published>>
    BY <1>1 DEF Evaluate, Admit, Typed, TypedHandler, external, bus
  <2> QED BY <1>1, <2>1, AdmitEffect
<1>2. CASE Denied
  BY <1>2 DEF Denied, external, bus
<1>3. CASE Bind
  <2>1. seen # 0 /\ cur \in Reviews /\ bindings \in [Reviews -> 0..MaxVersion]
        /\ published \subseteq Publication
    BY <1>3 DEF Bind, Typed, TypedHandler, TypedExternal, TypedBus
  <2>2. /\ bindings[cur] \in {0, seen} /\ bindings' = [bindings EXCEPT ![cur] = seen]
        /\ UNCHANGED <<cur, seen, approved, published>>
    BY <1>3 DEF Bind, bus
  <2>3. \A p \in published : p.review \in Reviews
    BY <2>1 DEF Publication
  <2> QED BY <2>1, <2>2, <2>3
<1>4. CASE Publish
  BY <1>4 DEF Publish, Return, external
<1>5. CASE UNCHANGED <<bindings, published>> /\ pc' # "publish"
  BY <1>5
<1>6. CASE UNCHANGED <<bindings, published, pc, approved, seen, cur>>
  BY <1>6
<1> QED
  BY <1>1, <1>2, <1>3, <1>4, <1>5, <1>6
  DEF Next, Step, Take, InputsArrive, InputsTimeout, ReadOperator, OperatorRefuses,
      AfterOperator, ConsumeArm, Evaluate, InputsGone, BindRefused, Deny, Fail, Restart,
      Return, GainInputs, LoseInputs, Expire, Release, ChangeOperator, Arm, vars,
      external, bus, handler

\* Every approval on the bus is bound to the operator version that was read for
\* it, whatever was retried, contradicted or restarted in between.
THEOREM ApprovalBound == Spec => []ApprovalBoundToReadVersion
<1>1. Init => Typed /\ Bound
  BY InitInv DEF Inv
<1>2. Typed /\ Bound /\ [Next]_vars => Typed' /\ Bound'
  BY NextTyped, NextBound
<1>3. Bound => ApprovalBoundToReadVersion
  BY DEF Bound
<1> QED BY <1>1, <1>2, <1>3, PTL DEF Spec

-----------------------------------------------------------------------------
\* An arm once consumed stays consumed.
LEMMA ArmsStay ==
  ASSUME Typed, [Next]_vars, NEW r \in CanaryReviews, arms[r] = "consumed"
  PROVE  arms'[r] = "consumed"
<1>1. arms \in [Reviews -> {"absent", "armed", "consumed"}] /\ r \in Reviews
  BY HandlerAssumption DEF Typed, TypedExternal
<1>2. CASE ConsumeArm
  BY <1>1, <1>2 DEF ConsumeArm
<1>3. ASSUME NEW q \in CanaryReviews, Arm(q) PROVE arms'[r] = "consumed"
  BY <1>1, <1>3 DEF Arm
<1>4. CASE UNCHANGED arms
  BY <1>4
<1> QED
  BY <1>2, <1>3, <1>4
  DEF Next, Step, Take, InputsArrive, InputsTimeout, ReadOperator, OperatorRefuses,
      Evaluate, Admit, InputsGone, Denied, Bind, BindRefused, Deny, Publish, Fail,
      Restart, GainInputs, LoseInputs, Expire, Release, ChangeOperator, vars, external

LEMMA NextSpent ==
  ASSUME Typed, Spent, [Next]_vars
  PROVE  Spent'
<1> DEFINE Held ==
             /\ \A r \in reserved \cap CanaryReviews : arms[r] = "consumed"
             /\ \A r \in CanaryReviews : cache[r] = "approved" => arms[r] = "consumed"
             /\ \A p \in published :
                  p.approved /\ p.review \in CanaryReviews => arms[p.review] = "consumed"
           Local ==
             /\ pc = "idle" => ~armChecked
             /\ cur \in CanaryReviews =>
                  /\ armChecked /\ reasons = {} => arms[cur] = "consumed"
                  /\ pc = "evaluate" /\ reasons = {} => armChecked
                  /\ pc \in {"bind", "publish"} /\ approved => arms[cur] = "consumed"
<1>1. Spent <=> Held /\ Local
  BY DEF Spent, CanaryNeedsArm
<1>2. Spent' <=> Held' /\ Local'
  BY DEF Spent, CanaryNeedsArm
<1>3. \A r \in CanaryReviews : arms[r] = "consumed" => arms'[r] = "consumed"
  BY ArmsStay
<1>4. CASE pc = "evaluate" /\ reasons = {} /\ Admit
  <2>1. cur \in Reviews /\ UNCHANGED <<cur, reasons, armChecked, arms, published>>
    BY <1>4 DEF Admit, Typed, TypedHandler, external, bus
  <2>2. cur \in CanaryReviews => arms[cur] = "consumed"
    BY <1>1, <1>4
  <2>3. \A r \in CanaryReviews : r \in Reviews
    BY HandlerAssumption
  <2>4. Held'
    BY <1>1, <1>4, <2>1, <2>2, <2>3, AdmitEffect
  <2>5. Local'
    BY <1>1, <1>4, <2>1, <2>2, AdmitEffect
  <2> QED BY <1>2, <2>4, <2>5
<1>5. CASE ConsumeArm
  <2>1. arms \in [Reviews -> {"absent", "armed", "consumed"}] /\ cur \in Reviews
    BY <1>5 DEF ConsumeArm, Typed, TypedHandler, TypedExternal
  <2>2. UNCHANGED <<reserved, cache, published, cur>> /\ armChecked' /\ pc' = "evaluate"
    BY <1>5 DEF ConsumeArm, memory, bus
  <2>3. reasons' = {} => arms'[cur] = "consumed"
    BY <1>5, <2>1 DEF ConsumeArm
  <2>4. Held'
    BY <1>1, <1>3, <2>2
  <2>5. Local'
    BY <2>2, <2>3
  <2> QED BY <1>2, <2>4, <2>5
<1>6. CASE ReadOperator
  <2>1. /\ UNCHANGED <<reserved, cache, published, cur, armChecked, reasons, arms>>
        /\ operator.version # 0
    BY <1>6 DEF ReadOperator, memory, bus, external, Typed, TypedExternal
  <2>2. pc' \in {"arm", "evaluate"}
        /\ (pc' = "evaluate" /\ cur \in CanaryReviews => armChecked)
    BY <1>6, <2>1 DEF ReadOperator, AfterOperator
  <2> QED BY <1>1, <1>2, <2>1, <2>2
<1>7. CASE OperatorRefuses
  <2>1. /\ UNCHANGED <<reserved, cache, published, cur, armChecked, arms>>
        /\ reasons' # {} /\ pc' = "evaluate"
    BY <1>7 DEF OperatorRefuses, AfterOperator, memory, bus, external
  <2> QED BY <1>1, <1>2, <2>1
<1>8. CASE Denied
  <2>1. /\ UNCHANGED <<reserved, cache, published, cur, armChecked, reasons, arms>>
        /\ approved' = FALSE /\ pc' = "publish"
    BY <1>8 DEF Denied, memory, bus, external
  <2> QED BY <1>1, <1>2, <2>1
<1>9. CASE Bind
  <2>1. /\ UNCHANGED <<reserved, cache, published, cur, armChecked, reasons, arms, approved>>
        /\ pc = "bind" /\ pc' = "publish"
    BY <1>9 DEF Bind, memory, bus
  <2> QED BY <1>1, <1>2, <2>1
<1>10. CASE Publish
  <2>1. /\ UNCHANGED <<reserved, cache, arms>> /\ pc = "publish" /\ Return
        /\ published' = published \cup
                          {[review |-> cur, approved |-> approved, version |-> seen]}
    BY <1>10 DEF Publish, memory, external
  <2> HIDE DEF Held, Local
  <2>2. Held'
    BY <1>1, <2>1 DEF Held, Local
  <2>3. Local'
    BY <2>1 DEF Return, Local
  <2> QED BY <1>2, <2>2, <2>3
<1>11. CASE Restart
  <2>1. /\ UNCHANGED <<arms, published>> /\ Return
        /\ reserved' = {p.review : p \in {q \in published : q.approved}} \ expired
        /\ cache' = [r \in Reviews |-> IF r \in reserved' THEN "approved" ELSE "none"]
    BY <1>11 DEF Restart, external, bus
  <2>2. \A r \in reserved' : r \in CanaryReviews => arms[r] = "consumed"
    BY <1>1, <2>1
  <2>3. \A r \in CanaryReviews : cache'[r] = "approved" => r \in reserved'
    BY <2>1, HandlerAssumption
  <2>4. Held'
    BY <1>1, <2>1, <2>2, <2>3
  <2>5. Local'
    BY <2>1 DEF Return
  <2> QED BY <1>2, <2>4, <2>5
<1>12. ASSUME NEW r \in Reviews, Release(r) PROVE Spent'
  <2>1. /\ UNCHANGED <<pc, cur, armChecked, reasons, approved, arms, published>>
        /\ reserved' \subseteq reserved
        /\ cache' \in {cache, [cache EXCEPT ![r] = "none"]}
    BY <1>12 DEF Release, handler, external, bus
  <2>2. \A q \in CanaryReviews : cache'[q] = "approved" => cache[q] = "approved"
    BY <2>1, HandlerAssumption DEF Typed, TypedMemory
  <2> QED BY <1>1, <1>2, <2>1, <2>2
<1>13. CASE /\ UNCHANGED <<reserved, cache, published>>
            /\ \/ pc' = "idle" /\ armChecked' = FALSE
               \/ UNCHANGED <<pc, cur, armChecked, reasons, approved>>
               \/ UNCHANGED <<cur, armChecked, reasons>>
                  /\ pc' \in {"inputs", "operator", "deny"}
  BY <1>1, <1>2, <1>3, <1>13
<1>14. CASE \E r \in Reviews : Take(r)
  <2>1. /\ UNCHANGED <<reserved, cache, published, arms, armChecked>>
        /\ pc = "idle" /\ pc' = "inputs"
    BY <1>14 DEF Take, memory, bus, external
  <2> QED BY <1>1, <1>2, <2>1
<1> QED
  BY <1>4, <1>5, <1>6, <1>7, <1>8, <1>9, <1>10, <1>11, <1>12, <1>13, <1>14
  DEF Next, Step, InputsArrive, InputsTimeout, Evaluate, InputsGone, BindRefused, Deny,
      Fail, Return, GainInputs, LoseInputs, Expire, ChangeOperator, Arm, vars, memory,
      bus, handler

\* A canary carries a reservation only after its arm was consumed.
THEOREM CanaryArmConsumed == Spec => []CanaryNeedsArm
<1>1. Init => Typed /\ Spent
  BY InitInv DEF Inv
<1>2. Typed /\ Spent /\ [Next]_vars => Typed' /\ Spent'
  BY NextTyped, NextSpent
<1>3. Spent => CanaryNeedsArm
  BY DEF Spent
<1> QED BY <1>1, <1>2, <1>3, PTL DEF Spec

-----------------------------------------------------------------------------
LEMMA NextAuthorized ==
  ASSUME Typed, Authorized, [Next]_vars
  PROVE  Authorized'
<1> USE DEF Authorized
<1>1. CASE ReadOperator
  <2>1. operator.version # 0
    BY DEF Typed, TypedExternal
  <2> QED BY <1>1, <2>1 DEF ReadOperator, bus
<1>2. CASE OperatorRefuses
  BY <1>2 DEF OperatorRefuses, AfterOperator, bus
<1>3. CASE ConsumeArm
  BY <1>3 DEF ConsumeArm, bus
<1>4. CASE Publish
  <2>1. cur \notin inbox' /\ pc' = "idle" /\ inbox' \subseteq inbox
        /\ \A p \in published' : p \in published \/ p.review = cur
    BY <1>4 DEF Publish, Return
  <2> QED BY <2>1
<1>5. CASE /\ UNCHANGED published /\ inbox' \subseteq inbox
           /\ \/ pc' \notin {"arm", "evaluate"}
              \/ UNCHANGED <<pc, reasons, seen>>
  BY <1>5
<1> QED
  BY <1>1, <1>2, <1>3, <1>4, <1>5
  DEF Next, Step, Take, InputsArrive, InputsTimeout, Evaluate, Admit, InputsGone,
      Denied, Bind, BindRefused, Deny, Fail, Restart, Return, GainInputs, LoseInputs,
      Expire, Release, ChangeOperator, Arm, vars, bus, handler

\* Only a round with authority and without a reason to deny gives a pending
\* review a verdict or a reservation.
THEOREM DenialTraceless == Spec => DenialLeavesNoTrace
<1> DEFINE Traceless ==
      \A r \in inbox :
        (cache'[r] \notin {"none", cache[r]} \/ r \in reserved' \ reserved) =>
          reasons = {} /\ seen # 0
<1>1. Init => Typed /\ Authorized
  BY InitInv DEF Inv
<1>2. Typed /\ Authorized /\ [Next]_vars => Typed' /\ Authorized'
  BY NextTyped, NextAuthorized
<1>3. Typed /\ Authorized /\ [Next]_vars => [Traceless]_vars
  <2> SUFFICES ASSUME Typed, Authorized, [Next]_vars PROVE Traceless
    OBVIOUS
  <2>1. CASE pc = "evaluate" /\ reasons = {} /\ Admit
    BY <2>1 DEF Authorized
  <2>2. CASE Restart
    <3>1. ASSUME NEW r \in inbox PROVE cache'[r] = "none" /\ r \notin reserved'
      <4>1. r \in Reviews /\ r \notin reserved'
        BY <2>2 DEF Restart, Authorized, Typed, TypedBus
      <4> QED BY <2>2, <4>1 DEF Restart
    <3> QED BY <3>1
  <2>3. ASSUME NEW q \in Reviews, Release(q) PROVE Traceless
    <3>1. inbox \subseteq Reviews /\ reserved' \subseteq reserved
          /\ cache' \in {cache, [cache EXCEPT ![q] = "none"]}
          /\ cache \in [Reviews -> {"none", "approved", "rejected"}]
      BY <2>3 DEF Release, Typed, TypedBus, TypedMemory
    <3> QED BY <3>1
  <2>4. CASE UNCHANGED <<cache, reserved>>
    BY <2>4
  <2> QED
    BY <2>1, <2>2, <2>3, <2>4
    DEF Next, Step, Take, InputsArrive, InputsTimeout, ReadOperator, OperatorRefuses,
        ConsumeArm, Evaluate, InputsGone, Denied, Bind, BindRefused, Deny, Publish, Fail,
        GainInputs, LoseInputs, Expire, ChangeOperator, Arm, vars, memory
<1> QED BY <1>1, <1>2, <1>3, PTL DEF Spec, DenialLeavesNoTrace, Traceless

-----------------------------------------------------------------------------
Kept == \A r \in inbox \ expired : cache[r] = "approved" => r \in reserved

\* What a step other than a restart leaves of an approval that is still pending.
LEMMA ApprovalStays ==
  ASSUME Typed, Authorized, Kept, [Next]_vars, ~Restart,
         NEW r \in inbox \ expired, cache[r] = "approved"
  PROVE  cache'[r] = "approved" /\ r \in reserved'
<1>1. /\ r \in reserved /\ r \in Reviews
      /\ cache \in [Reviews -> {"none", "approved", "rejected"}]
  BY DEF Kept, Typed, TypedBus, TypedMemory
<1>2. CASE Admit
  <2>1. CASE UNCHANGED <<cache, reserved>>
    BY <1>1, <2>1
  <2>2. CASE cache[cur] = "none"
    BY <1>1, <1>2, <2>2 DEF Admit, memory
  <2> QED BY <1>2, <2>1, <2>2 DEF Admit, memory
<1>3. ASSUME NEW q \in Reviews, Release(q)
      PROVE  cache'[r] = "approved" /\ r \in reserved'
  <2>1. q # r
    BY <1>3 DEF Release, Authorized
  <2> QED BY <1>1, <1>3, <2>1 DEF Release
<1>4. CASE UNCHANGED <<cache, reserved>>
  BY <1>1, <1>4
<1> QED
  BY <1>2, <1>3, <1>4
  DEF Next, Step, Take, InputsArrive, InputsTimeout, ReadOperator, OperatorRefuses,
      ConsumeArm, Evaluate, InputsGone, Denied, Bind, BindRefused, Deny, Publish, Fail,
      GainInputs, LoseInputs, Expire, ChangeOperator, Arm, vars, memory

\* No review becomes pending or unexpired again.
LEMMA PendingShrinks ==
  ASSUME [Next]_vars
  PROVE  inbox' \subseteq inbox /\ expired \subseteq expired'
<1> QED BY DEF Next, Step, Take, InputsArrive, InputsTimeout, ReadOperator,
     OperatorRefuses, ConsumeArm, Evaluate, Admit, InputsGone, Denied, Bind, BindRefused,
     Deny, Publish, Fail, Restart, GainInputs, LoseInputs, Expire, Release,
     ChangeOperator, Arm, vars, bus

LEMMA NextKept ==
  ASSUME Typed, Authorized, Kept, [Next]_vars
  PROVE  Kept'
<1>1. SUFFICES ASSUME NEW r \in inbox \ expired, cache'[r] = "approved"
               PROVE  r \in reserved'
  BY PendingShrinks DEF Kept
<1>2. r \in Reviews /\ cache \in [Reviews -> {"none", "approved", "rejected"}]
  BY DEF Typed, TypedBus, TypedMemory
<1>3. CASE Restart
  BY <1>1, <1>2, <1>3 DEF Restart
<1>4. CASE ~Restart /\ cache[r] = "approved"
  BY <1>4, ApprovalStays
<1>5. CASE Admit /\ cache[r] # "approved"
  BY <1>1, <1>2, <1>5 DEF Admit, memory
<1>6. ASSUME NEW q \in Reviews, Release(q), cache[r] # "approved" PROVE FALSE
  BY <1>1, <1>2, <1>6 DEF Release
<1>7. CASE UNCHANGED cache /\ cache[r] # "approved"
  BY <1>1, <1>7
<1> QED
  BY <1>3, <1>4, <1>5, <1>6, <1>7
  DEF Next, Step, Take, InputsArrive, InputsTimeout, ReadOperator, OperatorRefuses,
      ConsumeArm, Evaluate, InputsGone, Denied, Bind, BindRefused, Deny, Publish, Fail,
      GainInputs, LoseInputs, Expire, ChangeOperator, Arm, vars, memory

\* While the process runs, the approval of a pending review survives every
\* refusal, failure and return to the inputs until its deadline.
THEOREM RevocationKeepsApproval == Spec => RevokedApprovalKept
<1> DEFINE Stays ==
      \A r \in inbox \ expired :
        (cache[r] = "approved" /\ ~Restart) => cache'[r] = "approved" /\ r \in reserved'
<1>1. Init => Typed /\ Authorized /\ Kept
  BY InitInv DEF Inv, Init, Kept
<1>2. Typed /\ Authorized /\ Kept /\ [Next]_vars => Typed' /\ Authorized' /\ Kept'
  BY NextTyped, NextAuthorized, NextKept
<1>3. Typed /\ Authorized /\ Kept /\ [Next]_vars => [Stays]_vars
  BY ApprovalStays
<1> QED BY <1>1, <1>2, <1>3, PTL DEF Spec, RevokedApprovalKept, Stays
=============================================================================
