----------------------- MODULE PaperCoordinatorProofs -----------------------
(***************************************************************************)
(* Proofs about the PAPER admission coordinator, for every set of reviews, *)
(* symbols and snapshots, every deadline and every limit.                  *)
(*                                                                         *)
(* The properties of PaperCoordinator are not inductive.  IInv adds what   *)
(* ties the account to the latest sequence (AccountIsLatest: recovery may  *)
(* reconcile the retained account once more) and what makes that second    *)
(* reconciliation harmless (NothingHeldEarly: no idea is reserved before   *)
(* recovery).                                                              *)
(*                                                                         *)
(* The adaptive policy is a layer over the coordinator.  BindingFollows    *)
(* says what memory keeps of the bindings heard, and Filed that the order  *)
(* of eviction lists exactly the intents that have one.                    *)
(***************************************************************************)
EXTENDS RegimeBinding, CountingProofs, SequenceTheorems, TLAPS

\* A retained account is the newest one, and it opens admission exactly when
\* it is authoritative.
AccountIsLatest ==
  account # NoSnapshot =>
    /\ account.seq = latestSeq
    /\ account.captured = latestCaptured
    /\ accountReady = IsAuthoritative(account)

NothingHeldEarly == ~recoveryLoaded => Held(reservations) = {}

IInv ==
  /\ TypeOK
  /\ ReplayIdentityRetained
  /\ AuthorityIsNewest
  /\ AccountIsLatest
  /\ NothingHeldEarly

-----------------------------------------------------------------------------
(***************************************************************************)
(* Facts about the operators.                                              *)
(***************************************************************************)
\* A snapshot that may be delivered has the fields of one (apply_account).
LEMMA SnapshotFields ==
  ASSUME NEW s \in Snapshots \cup {NoSnapshot}
  PROVE  /\ s.seq \in Nat
         /\ s.captured \in Nat
         /\ s.trusted \in BOOLEAN
         /\ s.rep \in [Reviews -> RepKinds]
<1>1. NoSnapshot \in Snapshot
  BY DEF NoSnapshot, Snapshot, RepKinds
<1>2. s \in Snapshot
  BY <1>1, CoordinatorAssumption
<1> QED BY <1>2 DEF Snapshot

\* Trimming the cache never drops a reserved review (_trim_decision_cache).
LEMMA EvictedUnreserved ==
  ASSUME NEW order, NEW res
  PROVE  Evicted(order, res) \cap Held(res) = {}
BY DEF Evicted, Held

\* Storing and trimming keeps the entry of every reserved review.
LEMMA StoreKeepsReserved ==
  ASSUME NEW cache, NEW order, NEW res, StoreTrimmed(cache, order, res)
  PROVE  \A r \in Held(res) : decisions'[r] = cache[r]
<1>1. \A r \in Held(res) : r \in Reviews /\ r \notin Evicted(order, res)
  BY EvictedUnreserved DEF Held
<1> QED BY <1>1 DEF StoreTrimmed

\* Storing and trimming verdicts leaves a cache of verdicts.
LEMMA StoreType ==
  ASSUME NEW cache \in [Reviews -> Decision], NEW order, NEW res,
         StoreTrimmed(cache, order, res)
  PROVE  decisions' \in [Reviews -> Decision]
BY DEF StoreTrimmed, Undecided, Decision

\* Reconciliation keeps the type of the reservations (_reconcile_reservations).
LEMMA ReconciledType ==
  ASSUME NEW s, NEW res \in [Reviews -> Reservation]
  PROVE  Reconciled(s, res) \in [Reviews -> Reservation]
BY DEF Reconciled, Reservation, Free

\* Reconciliation only ever frees reservations: what is still held is
\* unchanged, and what is freed was released by the snapshot.
LEMMA ReconciledHeld ==
  ASSUME NEW s, NEW res \in [Reviews -> Reservation]
  PROVE  /\ Held(Reconciled(s, res)) = Held(res) \ Released(s, res)
         /\ \A r \in Held(Reconciled(s, res)) : Reconciled(s, res)[r] = res[r]
BY DEF Reconciled, Held, Free, Released

\* What an accepted snapshot leaves reserved it does not show at all: neither
\* as position nor entry (released), nor in a shape that contradicts the
\* reservation (rejected).
LEMMA ReconciledUnseen ==
  ASSUME NEW s \in Snapshots \cup {NoSnapshot},
         NEW res \in [Reviews -> Reservation],
         ~ReconcileFails(s, res)
  PROVE  \A r \in Held(Reconciled(s, res)) : s.rep[r] = "none"
<1> SUFFICES ASSUME NEW r \in Held(Reconciled(s, res))
             PROVE  s.rep[r] = "none"
  OBVIOUS
<1>1. r \in Held(res) /\ r \notin Released(s, res)
  BY ReconciledHeld
<1>2. s.rep[r] \in RepKinds
  BY <1>1, SnapshotFields DEF Held
<1> QED BY <1>1, <1>2 DEF ReconcileFails, Released, RepKinds

\* Both outcomes of Reconcile in one place: the new account, authority and
\* reservations satisfy their parts of the invariant.
LEMMA ReconcileInv ==
  ASSUME NEW s \in Snapshots \cup {NoSnapshot},
         NEW res \in [Reviews -> Reservation],
         Reconcile(s, res)
  PROVE  /\ account' \in {s, NoSnapshot}
         /\ accountReady' \in BOOLEAN
         /\ reservations' \in [Reviews -> Reservation]
         /\ \A r \in Held(reservations') : r \in Held(res) /\ reservations'[r] = res[r]
         /\ accountReady' =>
              /\ account' = s
              /\ IsAuthoritative(s)
              /\ \A r \in Held(reservations') : s.rep[r] = "none"
         /\ account' # NoSnapshot => accountReady' = IsAuthoritative(account')
<1>1. reservations' \in {res, Reconciled(s, res)}
  BY DEF Reconcile
<1>2. reservations' \in [Reviews -> Reservation]
  BY <1>1, ReconciledType
<1>3. \A r \in Held(reservations') : r \in Held(res) /\ reservations'[r] = res[r]
  BY <1>1, ReconciledHeld
<1>4. IsAuthoritative(s) \in BOOLEAN
  BY SnapshotFields DEF IsAuthoritative
<1>5. accountReady' =>
        /\ account' = s
        /\ IsAuthoritative(s)
        /\ ~ReconcileFails(s, res)
        /\ reservations' = Reconciled(s, res)
  BY DEF Reconcile
<1>6. accountReady' => \A r \in Held(reservations') : s.rep[r] = "none"
  BY <1>5, ReconciledUnseen
<1>7. account' # NoSnapshot => accountReady' = IsAuthoritative(account')
  BY <1>4 DEF Reconcile
<1>8. account' \in {s, NoSnapshot} /\ accountReady' \in BOOLEAN
  BY <1>4 DEF Reconcile
<1> QED BY <1>2, <1>3, <1>5, <1>6, <1>7, <1>8

-----------------------------------------------------------------------------
(***************************************************************************)
(* The invariant, action by action.                                        *)
(***************************************************************************)
\* The process starts without account, verdicts and reservations.
LEMMA InitInv == Init => IInv
<1> SUFFICES ASSUME Init PROVE IInv
  OBVIOUS
<1>1. Held(reservations) = {}
  BY DEF Init, Held, Free
<1>2. TypeOK
  BY DEF Init, TypeOK, Decision, Undecided, Reservation, Free
<1> QED BY <1>1, <1>2 DEF Init, IInv, ReplayIdentityRetained,
          AuthorityIsNewest, AccountIsLatest, NothingHeldEarly

\* Nothing in the invariant depends on the order of the cache.
LEMMA UnchangedInv ==
  ASSUME IInv,
         UNCHANGED <<account, latestSeq, latestCaptured, accountReady, venue,
                     decisions, reservations, recoveryLoaded>>
  PROVE  IInv'
BY DEF IInv, TypeOK, ReplayIdentityRetained, AuthorityIsNewest, AccountIsLatest,
       NothingHeldEarly, Held, Approval, IsAuthoritative

\* A contradicted account is discarded, the reservations stay.
LEMMA PoisonInv ==
  ASSUME IInv, PoisonAccount,
         latestSeq' \in Nat \cup {-1},
         UNCHANGED <<latestCaptured, venue, decisions, recoveryLoaded>>
  PROVE  IInv'
BY DEF IInv, PoisonAccount, TypeOK, ReplayIdentityRetained, AuthorityIsNewest,
       AccountIsLatest, NothingHeldEarly, Held, Approval

\* A newer snapshot replaces the account and reconciles the reservations.
LEMMA AcceptAccountInv ==
  ASSUME IInv, NEW s \in Snapshots, AcceptAccount(s)
  PROVE  IInv'
<1>1. s \in Snapshots \cup {NoSnapshot} /\ s.seq \in Nat /\ s.captured \in Nat
  BY SnapshotFields
<1>2. reservations \in [Reviews -> Reservation]
  BY DEF IInv, TypeOK
<1>3. Reconcile(s, reservations)
  BY DEF AcceptAccount
<1>4. UNCHANGED <<venue, decisions, recoveryLoaded>>
      /\ latestSeq' = s.seq /\ latestCaptured' = s.captured
  BY DEF AcceptAccount, cacheVars
<1>5. TypeOK'
  BY <1>1, <1>2, <1>3, <1>4, ReconcileInv DEF IInv, TypeOK
<1>6. \A r \in Held(reservations') :
        r \in Held(reservations) /\ reservations'[r] = reservations[r]
  BY <1>1, <1>2, <1>3, ReconcileInv
<1>7. ReplayIdentityRetained'
  BY <1>4, <1>6 DEF IInv, ReplayIdentityRetained
<1>8. s # NoSnapshot
  BY CoordinatorAssumption
<1>9. AuthorityIsNewest'
  BY <1>1, <1>2, <1>3, <1>4, <1>8, ReconcileInv DEF AuthorityIsNewest
<1>10. AccountIsLatest'
  BY <1>1, <1>2, <1>3, <1>4, ReconcileInv DEF AccountIsLatest
<1>11. NothingHeldEarly'
  BY <1>4, <1>6 DEF IInv, NothingHeldEarly
<1> QED BY <1>5, <1>7, <1>9, <1>10, <1>11 DEF IInv

\* Every answer to a delivered snapshot keeps the invariant.
LEMMA ApplyAccountInv ==
  ASSUME IInv, NEW s \in Snapshots, ApplyAccount(s)
  PROVE  IInv'
<1>1. s.seq \in Nat /\ latestSeq \in Nat \cup {-1}
  BY SnapshotFields DEF IInv, TypeOK
<1>2. CASE IgnoreAccount(s)
  BY <1>2, UnchangedInv DEF IgnoreAccount, vars
<1>3. CASE ConflictingAccount(s)
  BY <1>1, <1>3, PoisonInv DEF ConflictingAccount, cacheVars
<1>4. CASE RegressingAccount(s)
  BY <1>1, <1>4, PoisonInv DEF RegressingAccount, cacheVars
<1>5. CASE AcceptAccount(s)
  BY <1>5, AcceptAccountInv
<1> QED BY <1>2, <1>3, <1>4, <1>5 DEF ApplyAccount

\* Measurements touch neither the account nor the reservations.
LEMMA ApplyVenueInv ==
  ASSUME IInv, NEW s \in Symbols, NEW at \in Nat, NEW id \in VenueIds,
         ApplyVenue(s, at, id)
  PROVE  IInv'
<1>1. CASE IgnoreVenue(s, at, id)
  BY <1>1, UnchangedInv DEF IgnoreVenue, vars
<1>2. CASE UNCHANGED <<accountVars, cacheVars, reservations, recoveryLoaded>>
           /\ venue' \in [Symbols -> [at : Nat \cup {-1},
                                      id : VenueIds \cup {NoVenue}]]
  BY <1>2 DEF IInv, TypeOK, ReplayIdentityRetained, AuthorityIsNewest,
       AccountIsLatest, NothingHeldEarly, Held, Approval, IsAuthoritative,
       accountVars, cacheVars
<1>3. CASE ConflictingVenue(s, at, id)
  BY <1>2, <1>3 DEF ConflictingVenue, IInv, TypeOK
<1>4. CASE AcceptVenue(s, at, id)
  BY <1>2, <1>4 DEF AcceptVenue, IInv, TypeOK
<1> QED BY <1>1, <1>3, <1>4 DEF ApplyVenue

\* Recovery loads a reservation and its replay identity for every committed
\* approval, then reconciles once with a retained account.
LEMMA RestoreInv ==
  ASSUME IInv, NEW order, NEW risk, \A r \in Reviews : risk[r] \in Nat,
         RestoreReservations(order, risk)
  PROVE  IInv'
<1> DEFINE restored == {order[i] : i \in DOMAIN order}
           res == [r \in Reviews |-> IF r \in restored THEN Hold(risk[r], 0)
                                                       ELSE reservations[r]]
           cache == [r \in Reviews |-> IF r \in restored
                                       THEN Approval(risk[r])
                                       ELSE decisions[r]]
<1>1. /\ ~recoveryLoaded /\ recoveryLoaded' = TRUE
      /\ StoreTrimmed(cache, lru \o order, res)
      /\ IF account = NoSnapshot
         THEN reservations' = res /\ UNCHANGED <<account, accountReady>>
         ELSE Reconcile(account, res)
      /\ UNCHANGED <<latestSeq, latestCaptured, venue>>
  BY DEF RestoreReservations
<1>2. \A r \in Reviews : risk[r] \in Nat
  OBVIOUS
<1>3. res \in [Reviews -> Reservation]
  BY <1>2 DEF IInv, TypeOK, Reservation, Hold
<1>4. cache \in [Reviews -> Decision]
  BY <1>2 DEF IInv, TypeOK, Decision, Approval
<1>5. account \in Snapshots \cup {NoSnapshot}
  BY DEF IInv, TypeOK
<1>6. decisions' \in [Reviews -> Decision]
      /\ \A r \in Held(res) : decisions'[r] = cache[r]
  BY <1>1, <1>4, StoreType, StoreKeepsReserved
<1>7. /\ reservations' \in [Reviews -> Reservation]
      /\ \A r \in Held(reservations') : r \in Held(res) /\ reservations'[r] = res[r]
      /\ account' \in {account, NoSnapshot}
      /\ accountReady' \in BOOLEAN
  <2> HIDE DEF res
  <2>1. CASE account = NoSnapshot
    BY <1>1, <1>3, <2>1 DEF IInv, TypeOK
  <2>2. CASE account # NoSnapshot
    BY <1>1, <1>3, <1>5, <2>2, ReconcileInv
  <2> QED BY <2>1, <2>2
<1>8. TypeOK'
  BY <1>1, <1>5, <1>6, <1>7 DEF IInv, TypeOK
<1>9. ReplayIdentityRetained'
  <2> SUFFICES ASSUME NEW r \in Held(reservations')
               PROVE  decisions'[r] = Approval(reservations'[r].risk)
    BY DEF ReplayIdentityRetained
  <2>1. r \in Held(res) /\ reservations'[r] = res[r] /\ decisions'[r] = cache[r]
    BY <1>6, <1>7
  <2>2. r \in Reviews /\ Held(reservations) = {}
    BY <1>1, <2>1 DEF IInv, NothingHeldEarly, Held
  <2>3. r \in restored
    BY <2>1, <2>2 DEF Held
  <2> QED BY <2>1, <2>2, <2>3 DEF Hold
<1>10. AuthorityIsNewest' /\ AccountIsLatest'
  <2> HIDE DEF res
  <2>1. CASE account = NoSnapshot
    BY <1>1, <2>1 DEF IInv, AuthorityIsNewest, AccountIsLatest
  <2>2. CASE account # NoSnapshot
    <3>1. Reconcile(account, res)
      BY <1>1, <2>2
    <3>2. account.seq = latestSeq /\ account.captured = latestCaptured
      BY <2>2 DEF IInv, AccountIsLatest
    <3> QED BY <1>1, <1>3, <1>5, <2>2, <3>1, <3>2, ReconcileInv
            DEF AuthorityIsNewest, AccountIsLatest
  <2> QED BY <2>1, <2>2
<1>11. NothingHeldEarly'
  BY <1>1 DEF NothingHeldEarly
<1> QED BY <1>8, <1>9, <1>10, <1>11 DEF IInv

\* A fresh verdict is cached with the reservation it creates; the reserved
\* trade is absent from the account because its whole symbol is.
LEMMA EvaluateFreshInv ==
  ASSUME IInv, NEW r \in Reviews, NEW t, NEW vetoed \in BOOLEAN,
         NEW d \in Verdicts, EvaluateFresh(r, t, vetoed, d)
  PROVE  IInv'
<1> DEFINE cache == [decisions EXCEPT ![r] = d]
<1>1. d \in Decision
  BY CoordinatorAssumption DEF Verdicts, Decision, Rejection, Approval
<1>2. d.verdict = "approved" =>
        d = Approval(d.risk) /\ account.rep[r] = "none"
  BY DEF EvaluateFresh, Admissible, SymbolFree, Verdicts, Rejection, Approval
<1>3. /\ UNCHANGED <<account, latestSeq, latestCaptured, accountReady, venue,
                     recoveryLoaded>>
      /\ StoreTrimmed(cache, Append(lru, r), reservations')
      /\ r \notin Cached
      /\ RecoveryComplete
  BY DEF EvaluateFresh, accountVars, Unavailable
<1>4. /\ reservations' \in [Reviews -> Reservation]
      /\ \A q \in Reviews \ {r} : reservations'[q] = reservations[q]
      /\ d.verdict = "approved" => reservations'[r].risk = d.risk
      /\ d.verdict # "approved" => reservations'[r] = reservations[r]
  <2>1. (IF latestSeq = -1 THEN 0 ELSE latestSeq) \in Nat
    BY DEF IInv, TypeOK
  <2>2. d.risk \in Nat
    BY <1>1 DEF Decision
  <2>3. reservations \in [Reviews -> Reservation]
    BY DEF IInv, TypeOK
  <2> QED BY <2>1, <2>2, <2>3 DEF EvaluateFresh, Hold, Reservation
<1>5. cache \in [Reviews -> Decision]
  BY <1>1 DEF IInv, TypeOK
<1>6. decisions' \in [Reviews -> Decision]
      /\ \A q \in Held(reservations') : decisions'[q] = cache[q]
  BY <1>3, <1>5, StoreType, StoreKeepsReserved
<1>7. \A q \in Held(reservations') :
        q \in Reviews /\ (q = r \/ q \in Held(reservations))
  BY <1>4 DEF Held
<1>8. r \notin Held(reservations)
  <2>1. decisions[r].verdict = "none"
    BY <1>3 DEF Cached
  <2>2. Approval(reservations[r].risk).verdict = "approved"
    BY DEF Approval
  <2> QED BY <2>1, <2>2 DEF IInv, ReplayIdentityRetained
<1>9. r \in Held(reservations') => d.verdict = "approved"
  BY <1>4, <1>8 DEF Held
<1>10. TypeOK'
  BY <1>3, <1>4, <1>6 DEF IInv, TypeOK
<1>11. ReplayIdentityRetained'
  <2> SUFFICES ASSUME NEW q \in Held(reservations')
               PROVE  decisions'[q] = Approval(reservations'[q].risk)
    BY DEF ReplayIdentityRetained
  <2>1. decisions'[q] = cache[q]
    BY <1>6
  <2>2. decisions \in [Reviews -> Decision]
    BY DEF IInv, TypeOK
  <2>3. CASE q = r
    BY <1>2, <1>4, <1>9, <2>1, <2>2, <2>3
  <2>4. CASE q # r
    BY <1>4, <1>7, <2>1, <2>2, <2>4 DEF IInv, ReplayIdentityRetained
  <2> QED BY <2>3, <2>4
<1>12. AuthorityIsNewest'
  BY <1>2, <1>3, <1>7, <1>9 DEF IInv, AuthorityIsNewest
<1>13. AccountIsLatest'
  BY <1>3 DEF IInv, AccountIsLatest
<1>14. NothingHeldEarly'
  BY <1>3 DEF NothingHeldEarly, RecoveryComplete
<1> QED BY <1>10, <1>11, <1>12, <1>13, <1>14 DEF IInv

\* Every operation of the coordinator keeps the invariant.
LEMMA NextInv == IInv /\ [Next]_vars => IInv'
<1> SUFFICES ASSUME IInv, [Next]_vars PROVE IInv'
  OBVIOUS
<1>1. ASSUME NEW s \in Snapshots, ApplyAccount(s) PROVE IInv'
  BY <1>1, ApplyAccountInv
<1>2. ASSUME NEW s \in Symbols, NEW at \in Times, NEW id \in VenueIds,
             ApplyVenue(s, at, id)
      PROVE IInv'
  <2>1. at \in Nat
    BY CoordinatorAssumption
  <2> QED BY <1>2, <2>1, ApplyVenueInv
<1>3. ASSUME NEW order \in RecoveryLogs, NEW risk \in RecoveredRisks,
             RestoreReservations(order, risk)
      PROVE IInv'
  <2>1. \A r \in Reviews : risk[r] \in Nat
    BY CoordinatorAssumption DEF RecoveredRisks
  <2> QED BY <1>3, <2>1, RestoreInv
<1>4. ASSUME NEW r \in Reviews, EvaluateCached(r) PROVE IInv'
  BY <1>4, UnchangedInv DEF EvaluateCached, accountVars
<1>5. ASSUME NEW r \in Reviews, EvaluateDenied(r) PROVE IInv'
  BY <1>5, UnchangedInv DEF EvaluateDenied, vars
<1>6. ASSUME NEW r \in Reviews, NEW t \in Times, NEW vetoed \in BOOLEAN,
             NEW d \in Verdicts, EvaluateFresh(r, t, vetoed, d)
      PROVE IInv'
  BY <1>6, EvaluateFreshInv
<1>7. CASE UNCHANGED vars
  BY <1>7, UnchangedInv DEF vars
<1> QED BY <1>1, <1>2, <1>3, <1>4, <1>5, <1>6, <1>7 DEF Next

-----------------------------------------------------------------------------
(***************************************************************************)
(* Theorems.                                                               *)
(***************************************************************************)
\* The invariant holds in every state of every execution.
LEMMA Invariance == Spec => []IInv
<1> QED BY InitInv, NextInv, PTL DEF Spec

\* The coordinator's fields keep their types.
THEOREM TypeCorrect == Spec => []TypeOK
<1>1. IInv => TypeOK
  BY DEF IInv
<1> QED BY <1>1, Invariance, PTL

\* However small the cache and however the reviews arrive, the verdict of a
\* reserved review is never trimmed nor contradicted (_trim_decision_cache).
THEOREM ReplayIdentitySafe == Spec => []ReplayIdentityRetained
<1>1. IInv => ReplayIdentityRetained
  BY DEF IInv
<1> QED BY <1>1, Invariance, PTL

\* Admission is open only on the newest, contradiction-free account that shows
\* none of the reserved trades (apply_account, restore_reservations).
THEOREM AuthoritySafe == Spec => []AuthorityIsNewest
<1>1. IInv => AuthorityIsNewest
  BY DEF IInv
<1> QED BY <1>1, Invariance, PTL

\* What a reconciliation frees is justified by the account it leaves.
LEMMA ReconcileReleases ==
  ASSUME NEW s, NEW res \in [Reviews -> Reservation],
         Reconcile(s, res),
         NEW r \in Held(res), ~reservations'[r].held
  PROVE  /\ accountReady'
         /\ account' = s
         /\ \/ s.rep[r] \in {"position", "entry"}
            \/ /\ s.rep[r] = "none"
               /\ s.seq > res[r].seq
               /\ s.captured > ExpiresAt[r]
<1>1. r \in Reviews /\ res[r].held
  BY DEF Held
<1>2. reservations' # res
  BY <1>1
<1>3. accountReady' /\ account' = s /\ reservations' = Reconciled(s, res)
  BY <1>2 DEF Reconcile
<1>4. r \in Released(s, res)
  BY <1>1, <1>3 DEF Reconciled
<1> QED BY <1>3, <1>4 DEF Released

\* No reservation is lost: it ends only with proof that the account owns the
\* idea or that it can no longer be entered (_reconcile_reservations).
THEOREM ReleaseNeedsProof == Spec => ReleasedOnlyWithProof
<1> DEFINE Proof(r) ==
      /\ accountReady'
      /\ \/ account'.rep[r] \in {"position", "entry"}
         \/ /\ account'.rep[r] = "none"
            /\ account'.seq > reservations[r].seq
            /\ account'.captured > ExpiresAt[r]
<1>1. ASSUME IInv, [Next]_vars, NEW r \in Held(reservations), ~reservations'[r].held
      PROVE  Proof(r)
  <2>1. reservations \in [Reviews -> Reservation] /\ reservations[r].held
        /\ recoveryLoaded
    BY <1>1 DEF IInv, TypeOK, NothingHeldEarly, Held
  <2>2. reservations' # reservations
    BY <1>1, <2>1
  <2>3. ASSUME NEW s \in Snapshots, ApplyAccount(s) PROVE Proof(r)
    <3>1. AcceptAccount(s)
      BY <2>2, <2>3 DEF ApplyAccount, IgnoreAccount, ConflictingAccount,
         RegressingAccount, PoisonAccount, vars
    <3>2. Reconcile(s, reservations)
      BY <3>1 DEF AcceptAccount
    <3> QED BY <1>1, <2>1, <3>2, ReconcileReleases
  <2>4. ASSUME NEW q \in Reviews, NEW t \in Times, NEW vetoed \in BOOLEAN,
               NEW d \in Verdicts, EvaluateFresh(q, t, vetoed, d)
        PROVE  FALSE
    <3>1. \/ reservations' = reservations
          \/ \E risk, seq : reservations' = [reservations EXCEPT ![q] = Hold(risk, seq)]
      BY <2>4 DEF EvaluateFresh
    <3>2. PICK risk, seq :
            reservations' = [reservations EXCEPT ![q] = Hold(risk, seq)]
      BY <2>2, <3>1
    <3>3. Hold(risk, seq).held
      BY DEF Hold
    <3>4. r \in Reviews /\ reservations'[r] \in {reservations[r], Hold(risk, seq)}
      BY <1>1, <2>1, <3>2 DEF Held
    <3> QED BY <1>1, <2>1, <3>3, <3>4
  <2>5. reservations' = reservations
        \/ (\E s \in Snapshots : ApplyAccount(s))
        \/ (\E q \in Reviews, t \in Times, vetoed \in BOOLEAN, d \in Verdicts :
               EvaluateFresh(q, t, vetoed, d))
    BY <1>1, <2>1 DEF Next, ApplyVenue, IgnoreVenue, ConflictingVenue, AcceptVenue,
       RestoreReservations, EvaluateCached, EvaluateDenied, vars
  <2> QED BY <2>2, <2>3, <2>4, <2>5
<1>2. IInv /\ [Next]_vars =>
        \A r \in Held(reservations) : ~reservations'[r].held => Proof(r)
  BY <1>1
<1> QED BY <1>2, Invariance, PTL DEF Spec, ReleasedOnlyWithProof

\* Recovery may reconcile the retained account a second time.  That takes
\* readiness away or leaves it; it never grants it (restore_reservations).
LEMMA RestoreGrantsNothing ==
  ASSUME IInv, NEW order, NEW risk, RestoreReservations(order, risk)
  PROVE  /\ UNCHANGED <<latestSeq, latestCaptured>>
         /\ accountReady' => accountReady /\ account' = account
<1>1. UNCHANGED <<latestSeq, latestCaptured>>
  BY DEF RestoreReservations
<1>2. CASE account = NoSnapshot
  BY <1>1, <1>2 DEF RestoreReservations
<1>3. CASE account # NoSnapshot
  <2>1. accountReady' => IsAuthoritative(account) /\ account' = account
    BY <1>3 DEF RestoreReservations, Reconcile
  <2> QED BY <1>1, <1>3, <2>1 DEF IInv, AccountIsLatest
<1> QED BY <1>2, <1>3

\* The steps that can change the account.
LEMMA AccountSteps ==
  ASSUME [Next]_vars
  PROVE  \/ UNCHANGED accountVars
         \/ \E s \in Snapshots : ApplyAccount(s)
         \/ \E order \in RecoveryLogs, risk \in RecoveredRisks :
               RestoreReservations(order, risk)
<1> QED BY DEF Next, ApplyVenue, IgnoreVenue, ConflictingVenue, AcceptVenue,
       EvaluateCached, EvaluateDenied, EvaluateFresh, vars, accountVars

\* The account in force is a register in which only a newer sequence wins:
\* admission never returns to an account once it was lost (apply_account).
THEOREM AuthorityRefinement == Spec => AuthorityNewestWins
<1>1. Init => AuthorityRegister!Init
  BY DEF Init, AuthorityRegister!Init, AuthorityInForce
<1>2. ASSUME IInv, [Next]_vars
      PROVE  [AuthorityRegister!Next]_<<latestSeq, AuthorityInForce>>
  <2>1. latestSeq \in Nat \cup {-1}
    BY <1>2 DEF IInv, TypeOK
  <2> USE DEF AuthorityRegister!Next, AuthorityRegister!Adopt,
              AuthorityRegister!Revoke, AuthorityInForce
  <2>2. CASE UNCHANGED accountVars
    BY <2>2 DEF accountVars
  <2>3. ASSUME NEW s \in Snapshots, ApplyAccount(s)
        PROVE  [AuthorityRegister!Next]_<<latestSeq, AuthorityInForce>>
    <3>1. s.seq \in Nat /\ s # NoSnapshot
      BY SnapshotFields, CoordinatorAssumption
    <3>2. CASE IgnoreAccount(s)
      BY <2>2, <3>2 DEF IgnoreAccount, vars, accountVars
    <3>3. CASE ConflictingAccount(s) \/ RegressingAccount(s)
      BY <2>1, <3>1, <3>3 DEF ConflictingAccount, RegressingAccount, PoisonAccount
    <3>4. CASE AcceptAccount(s)
      <4>1. latestSeq' > latestSeq /\ (accountReady' => account' = s)
        BY <3>4 DEF AcceptAccount, Reconcile
      <4> QED BY <2>1, <3>1, <4>1, <3>4 DEF AcceptAccount
    <3> QED BY <2>3, <3>2, <3>3, <3>4 DEF ApplyAccount
  <2>4. ASSUME NEW order \in RecoveryLogs, NEW risk \in RecoveredRisks,
               RestoreReservations(order, risk)
        PROVE  [AuthorityRegister!Next]_<<latestSeq, AuthorityInForce>>
    BY <1>2, <2>1, <2>4, RestoreGrantsNothing
  <2> QED BY <1>2, <2>2, <2>3, <2>4, AccountSteps
<1> QED
  BY <1>1, <1>2, Invariance, PTL DEF Spec, AuthorityNewestWins, AuthorityRegister!Spec

\* No step leaves admission on an account captured before an earlier accepted
\* one, and the latest capture time never moves backwards (apply_account).
THEOREM CaptureMonotonic == Spec => CaptureNeverRegresses
<1> DEFINE Goal == /\ latestCaptured' >= latestCaptured
                   /\ (accountReady' /\ account' # account) =>
                        account'.captured >= latestCaptured
<1>1. ASSUME IInv, [Next]_vars PROVE Goal
  <2>1. latestCaptured \in Nat \cup {-1} /\ accountReady \in BOOLEAN
    BY <1>1 DEF IInv, TypeOK
  <2>2. CASE UNCHANGED accountVars
    BY <2>1, <2>2 DEF accountVars
  <2>3. ASSUME NEW s \in Snapshots, ApplyAccount(s) PROVE Goal
    <3>1. s.captured \in Nat
      BY SnapshotFields
    <3>2. CASE IgnoreAccount(s)
      BY <2>2, <3>2 DEF IgnoreAccount, vars, accountVars
    <3>3. CASE ConflictingAccount(s) \/ RegressingAccount(s)
      BY <2>1, <3>3 DEF ConflictingAccount, RegressingAccount, PoisonAccount
    <3>4. CASE AcceptAccount(s)
      <4>1. accountReady' => account' = s
        BY <3>4 DEF AcceptAccount, Reconcile
      <4> QED BY <2>1, <3>1, <3>4, <4>1 DEF AcceptAccount
    <3> QED BY <2>3, <3>2, <3>3, <3>4 DEF ApplyAccount
  <2>4. ASSUME NEW order \in RecoveryLogs, NEW risk \in RecoveredRisks,
               RestoreReservations(order, risk)
        PROVE Goal
    BY <1>1, <2>1, <2>4, RestoreGrantsNothing
  <2> QED BY <1>1, <2>2, <2>3, <2>4, AccountSteps
<1>2. IInv /\ [Next]_vars => [Goal]_vars
  BY <1>1
<1> QED BY <1>2, Invariance, PTL DEF Spec, CaptureNeverRegresses

\* Every venue measurement is such a register too (apply_venue).
THEOREM VenueRefinement == Spec => VenueNewestWins
<1> DEFINE Step(s) == VenueRegister(s)!Next \/ UNCHANGED venue[s]
<1>1. Init => \A s \in Symbols : VenueRegister(s)!Init
  BY DEF Init, VenueRegister!Init
<1>2. ASSUME IInv, [Next]_vars PROVE \A s \in Symbols : Step(s)
  <2>1. venue \in [Symbols -> [at : Nat \cup {-1}, id : VenueIds \cup {NoVenue}]]
    BY <1>2 DEF IInv, TypeOK
  <2>2. \A s \in Symbols : venue[s].at \in Nat \cup {-1}
    BY <2>1
  <2>3. CASE venue' = venue
    BY <2>3
  <2>4. ASSUME NEW s \in Symbols, NEW at \in Times, NEW id \in VenueIds,
               ConflictingVenue(s, at, id) \/ AcceptVenue(s, at, id),
               NEW q \in Symbols
        PROVE  Step(q)
    <3>1. at \in Nat /\ id # NoVenue
      BY CoordinatorAssumption
    <3>2. CASE q # s
      BY <2>1, <2>4, <3>2 DEF ConflictingVenue, AcceptVenue
    <3>3. CASE q = s
      BY <2>1, <2>2, <2>4, <3>1, <3>3 DEF ConflictingVenue, AcceptVenue,
         VenueRegister!Next, VenueRegister!Adopt, VenueRegister!Revoke
    <3> QED BY <3>2, <3>3
  <2>5. \/ venue' = venue
        \/ \E s \in Symbols, at \in Times, id \in VenueIds :
              ConflictingVenue(s, at, id) \/ AcceptVenue(s, at, id)
    BY <1>2 DEF Next, ApplyVenue, IgnoreVenue, ApplyAccount, IgnoreAccount,
       ConflictingAccount, RegressingAccount, AcceptAccount, RestoreReservations,
       EvaluateCached, EvaluateDenied, EvaluateFresh, vars
  <2> QED BY <2>3, <2>4, <2>5
<1>3. IInv /\ [Next]_vars => [\A s \in Symbols : Step(s)]_venue
  BY <1>2
<1> QED BY <1>1, <1>3, Invariance, PTL DEF Spec, VenueNewestWins
-----------------------------------------------------------------------------
(***************************************************************************)
(* The adaptive policy over the coordinator (RegimeBinding): it refines    *)
(* the coordinator, a contested intent is never approved, and every new    *)
(* approval rests on a valid binding.                                      *)
(***************************************************************************)
\* The binding in memory follows what was heard since the intent is known: an
\* unbound intent has heard nothing, a bound one exactly its binding, and a
\* contested one is poisoned.
BindingFollows ==
  /\ bindings \in [Reviews -> Messages \cup {Unbound, Poisoned}]
  /\ heard \in [Reviews -> Messages \cup {Unbound}]
  /\ \A r \in Reviews :
       /\ bindings[r] = Unbound => heard[r] = Unbound
       /\ bindings[r] \in Messages => heard[r] = bindings[r]
       /\ bindings[r] = Poisoned => heard[r] \in Messages
  /\ contested \subseteq {r \in Reviews \ CanaryReviews : bindings[r] = Poisoned}

RInv == BindingFollows /\ ContestedNeverApproved

\* What a message may carry, and that it is told from the two markers.
LEMMA MessageFacts ==
  ASSUME NEW m \in Messages
  PROVE  /\ m.intent \in Reviews \ CanaryReviews
         /\ m \notin {Unbound, Poisoned}
         /\ Unbound # Poisoned
BY BindingAssumption DEF Message

LEMMA InitRInv == RegimeInit => RInv
BY BindingAssumption DEF RegimeInit, RInv, BindingFollows, ContestedNeverApproved

\* Forgetting keeps the histories in step with unchanged bindings.
LEMMA RememberUnchanged ==
  ASSUME BindingFollows, UNCHANGED bindings, Remember(heard, contested)
  PROVE  /\ BindingFollows'
         /\ contested' \subseteq contested
<1>1. \A r \in Reviews : bindings[r] # Unbound => r \in Bound'
  BY DEF Bound
<1>2. /\ heard' \in [Reviews -> Messages \cup {Unbound}]
      /\ \A r \in Reviews : heard'[r] \in {heard[r], Unbound}
      /\ \A r \in Bound' : r \in Reviews => heard'[r] = heard[r]
  BY DEF Remember, BindingFollows
<1>3. Unbound \notin Messages /\ Unbound # Poisoned
  BY BindingAssumption
<1> QED BY <1>1, <1>2, <1>3 DEF BindingFollows, Remember

\* Delivering a binding keeps memory and history in step.
LEMMA ApplyBindingFollows ==
  ASSUME BindingFollows, NEW m \in Messages, NEW t \in Times, ApplyBinding(m, t)
  PROVE  BindingFollows'
<1> DEFINE i == m.intent
           read == m.boundAt <= t
           first == heard[i]
           first2 == IF read /\ first = Unbound THEN [heard EXCEPT ![i] = m] ELSE heard
           disputed == IF read /\ first \notin {Unbound, m}
                       THEN contested \cup {i} ELSE contested
<1>1. /\ i \in Reviews /\ i \notin CanaryReviews
      /\ m \notin {Unbound, Poisoned} /\ Unbound # Poisoned
      /\ Unbound \notin Messages /\ Poisoned \notin Messages
  BY MessageFacts, BindingAssumption
<1>2. Remember(first2, disputed)
  BY DEF ApplyBinding
<1>3. /\ first2 \in [Reviews -> Messages \cup {Unbound}]
      /\ \A r \in Reviews \ {i} : first2[r] = heard[r]
      /\ first2[i] = IF read /\ first = Unbound THEN m ELSE first
  BY <1>1 DEF BindingFollows
<1>4. /\ heard' \in [Reviews -> Messages \cup {Unbound}]
      /\ \A r \in Reviews : heard'[r] \in {first2[r], Unbound}
      /\ \A r \in Reviews : bindings'[r] # Unbound => heard'[r] = first2[r]
      /\ \A r \in Reviews : r \in Retained' => heard'[r] = first2[r]
      /\ \A r \in Reviews :
            bindings'[r] = Unbound /\ r \notin Retained' => heard'[r] = Unbound
      /\ contested' \subseteq disputed
      /\ \A r \in contested' : bindings'[r] # Unbound \/ r \in Retained'
  <2>1. Bound' = {r \in Reviews : bindings'[r] # Unbound}
    BY DEF Bound
  <2> HIDE DEF first2, disputed
  <2> QED BY <1>2, <1>3, <2>1 DEF Remember
<1> HIDE DEF first2
<1>5. Retained' = Retained
  <2>1. UNCHANGED <<decisions, reservations>>
    BY DEF ApplyBinding, vars
  <2> QED BY <2>1 DEF Retained, Cached, Held
<1>6. CASE IgnoreBinding(m, t)
  <2>1. UNCHANGED bindings
    BY <1>6 DEF IgnoreBinding, bindingVars
  <2>2. read => bindings[i] = m
    <3>1. m.boundAt \in Nat /\ t \in Nat
      BY BindingAssumption, CoordinatorAssumption DEF Message
    <3> QED BY <1>6, <3>1 DEF IgnoreBinding
  <2>3. read => first = m
    BY <1>1, <2>2 DEF BindingFollows
  <2>4. first2 = heard /\ disputed = contested
    BY <1>1, <2>3 DEF first2
  <2> QED BY <1>1, <1>4, <2>1, <2>4 DEF BindingFollows
<1>7. CASE PoisonBinding(m, t)
  <2>1. bindings' = [bindings EXCEPT ![i] = Poisoned] /\ bindings[i] \notin {Unbound, m}
    BY <1>7 DEF PoisonBinding
  <2>2. first \in Messages
    BY <1>1, <2>1 DEF BindingFollows
  <2>3. first2 = heard
    BY <1>1, <2>2 DEF first2
  <2>4. disputed \subseteq contested \cup {i}
    OBVIOUS
  <2> HIDE DEF disputed
  <2> QED BY <1>1, <1>4, <2>1, <2>2, <2>3, <2>4 DEF BindingFollows
<1>8. CASE StoreBinding(m, t)
  <2> DEFINE gone == Surplus(Append(bindingOrder, i))
  <2>1. /\ read
        /\ bindings[i] = Unbound
        /\ bindings' = [r \in Reviews |-> IF r \in gone THEN Unbound
                                          ELSE IF r = i THEN m ELSE bindings[r]]
        /\ gone \cap Retained = {}
    BY <1>8 DEF StoreBinding, Surplus
  <2>2. first = Unbound /\ first2[i] = m /\ disputed = contested
    BY <1>1, <1>3, <2>1 DEF BindingFollows
  <2> HIDE DEF gone, disputed
  <2>3. \A r \in Reviews : r \in gone => heard'[r] = Unbound
    BY <1>4, <1>5, <2>1
  <2>4. \A r \in Reviews \ gone : heard'[r] = IF r = i THEN m ELSE heard[r]
    BY <1>1, <1>3, <1>4, <2>1, <2>2 DEF BindingFollows
  <2>5. \A r \in contested' : r \notin gone /\ r # i
    BY <1>1, <1>4, <1>5, <2>1, <2>2 DEF BindingFollows
  <2> QED BY <1>1, <1>4, <2>1, <2>2, <2>3, <2>4, <2>5 DEF BindingFollows
<1> QED BY <1>6, <1>7, <1>8 DEF ApplyBinding

\* Every step of the policy keeps the invariant.
LEMMA NextRInv == RInv /\ [RegimeNext]_regimeVars => RInv'
<1> SUFFICES ASSUME RInv, [RegimeNext]_regimeVars PROVE RInv'
  OBVIOUS
<1> USE DEF RInv
<1>1. ASSUME NEW m \in Messages, NEW t \in Times, ApplyBinding(m, t) PROVE RInv'
  <2>1. answer' = NoAnswer
    BY <1>1 DEF ApplyBinding
  <2> QED BY <1>1, <2>1, ApplyBindingFollows DEF ContestedNeverApproved
<1>2. ASSUME NEW r \in Reviews, NEW t \in Times, EvaluateBound(r, t) PROVE RInv'
  <2>1. BindingFollows' /\ contested' \subseteq contested
    BY <1>2, RememberUnchanged DEF EvaluateBound, bindingVars
  <2>2. answer'.verdict = "approved" => answer'.review = r /\ ~Conflict(r)
    BY <1>2 DEF EvaluateBound, ReplayDecision, DenyDecision, NewDecision, Answer
  <2>3. ~Conflict(r) => r \notin contested
    BY DEF BindingFollows, Conflict, NeedsBinding
  <2> QED BY <2>1, <2>2, <2>3 DEF ContestedNeverApproved
<1>3. CASE Elsewhere
  <2>1. answer' = NoAnswer
    BY <1>3 DEF Elsewhere
  <2>2. BindingFollows'
    BY <1>3, RememberUnchanged DEF Elsewhere, bindingVars
  <2> QED BY <2>1, <2>2 DEF ContestedNeverApproved
<1>4. CASE UNCHANGED regimeVars
  BY <1>4 DEF regimeVars, bindingVars, history, BindingFollows, ContestedNeverApproved
<1> QED BY <1>1, <1>2, <1>3, <1>4 DEF RegimeNext

LEMMA RegimeInvariance == RegimeSpec => []RInv
<1> QED BY InitRInv, NextRInv, PTL DEF RegimeSpec

\* While the coordinator knows an intent, contradictory bindings deny it for
\* good, also where its approval is cached (apply_regime_allocation, evaluate).
THEOREM ContestedSafe == RegimeSpec => []ContestedNeverApproved
<1>1. RInv => ContestedNeverApproved
  BY DEF RInv
<1> QED BY <1>1, RegimeInvariance, PTL

\* With the policy enabled every step is still a step of the coordinator, so
\* all that is proved of the coordinator holds (evaluate).
THEOREM PolicyRefinement == RegimeSpec => CoordinatorUnderPolicy
<1>1. RegimeInit => Init
  BY DEF RegimeInit
<1>2. [RegimeNext]_regimeVars => [Next]_vars
  <2> SUFFICES ASSUME [RegimeNext]_regimeVars PROVE [Next]_vars
    OBVIOUS
  <2>1. ASSUME NEW m \in Messages, NEW t \in Times, ApplyBinding(m, t) PROVE UNCHANGED vars
    BY <2>1 DEF ApplyBinding
  <2>2. ASSUME NEW r \in Reviews, NEW t \in Times, EvaluateBound(r, t) PROVE Next
    <3>1. CASE ReplayDecision(r, t)
      BY <3>1 DEF ReplayDecision, Next
    <3>2. CASE DenyDecision(r, t)
      BY <3>2 DEF DenyDecision, Next
    <3>3. ASSUME NEW vetoed \in BOOLEAN, NEW d \in Verdicts, NewDecision(r, t, vetoed, d)
          PROVE  Next
      <4>1. (vetoed \/ ~GateOpen(r, t)) \in BOOLEAN
        OBVIOUS
      <4>2. EvaluateFresh(r, t, vetoed \/ ~GateOpen(r, t), d)
        BY <3>3 DEF NewDecision
      <4>3. \E v \in BOOLEAN : EvaluateFresh(r, t, v, d)
        BY <4>1, <4>2
      <4> QED BY <4>3 DEF Next
    <3> QED BY <2>2, <3>1, <3>2, <3>3 DEF EvaluateBound
  <2>3. CASE Elsewhere
    BY <2>3 DEF Elsewhere, Next
  <2>4. CASE UNCHANGED regimeVars
    BY <2>4 DEF regimeVars
  <2> QED BY <2>1, <2>2, <2>3, <2>4 DEF RegimeNext
<1> QED BY <1>1, <1>2, PTL DEF RegimeSpec, Spec, CoordinatorUnderPolicy

\* A new approval of an adaptive intent rests on the binding heard for it,
\* sound and valid at the decision time (_adaptive_allocation_gate).
THEOREM ApprovalBinding == RegimeSpec => ApprovalRestsOnBinding
<1> DEFINE Rests(r) ==
      /\ heard[r] \in Messages /\ heard[r] = bindings[r]
      /\ heard[r].sound
      /\ heard[r].boundAt <= answer'.at /\ answer'.at <= heard[r].expiresAt
<1>1. ASSUME IInv, RInv, [RegimeNext]_regimeVars, recoveryLoaded,
             NEW r \in Held(reservations'), r \notin Held(reservations),
             r \notin CanaryReviews
      PROVE  Rests(r)
  <2>1. r \in Reviews /\ reservations \in [Reviews -> Reservation]
        /\ reservations' # reservations
    BY <1>1 DEF IInv, TypeOK, Held
  <2>2. ASSUME NEW s \in Snapshots, ApplyAccount(s) PROVE FALSE
    <3>1. Reconcile(s, reservations)
      BY <2>1, <2>2 DEF ApplyAccount, IgnoreAccount, ConflictingAccount,
         RegressingAccount, AcceptAccount, PoisonAccount, vars
    <3>2. s \in Snapshots \cup {NoSnapshot}
      OBVIOUS
    <3> QED BY <1>1, <2>1, <3>1, <3>2, ReconcileInv
  <2>3. ASSUME NEW q \in Reviews, NEW t \in Times, NEW vetoed \in BOOLEAN,
               NEW d \in Verdicts, NewDecision(q, t, vetoed, d)
        PROVE  Rests(r)
    <3>1. EvaluateFresh(q, t, vetoed \/ ~GateOpen(q, t), d) /\ answer'.at = t
      BY <2>3 DEF NewDecision, Answer
    <3>2. \A z \in Reviews \ {q} : reservations'[z] = reservations[z]
      BY <2>1, <3>1 DEF EvaluateFresh
    <3>3. q = r
      BY <1>1, <2>1, <3>2 DEF Held
    <3>4. d.verdict = "approved"
      BY <2>1, <3>1 DEF EvaluateFresh
    <3>5. GateOpen(r, t)
      BY <3>1, <3>3, <3>4 DEF EvaluateFresh, Rejection
    <3>6. bindings[r] \in Messages /\ heard[r] = bindings[r]
      BY <1>1, <2>1, <3>5 DEF GateOpen, NeedsBinding, RInv, BindingFollows
    <3> QED BY <1>1, <3>1, <3>5, <3>6 DEF GateOpen, NeedsBinding
  <2>4. \/ \E s \in Snapshots : ApplyAccount(s)
        \/ \E q \in Reviews, t \in Times, vetoed \in BOOLEAN, d \in Verdicts :
              NewDecision(q, t, vetoed, d)
    BY <1>1, <2>1 DEF RegimeNext, regimeVars, ApplyBinding, EvaluateBound, ReplayDecision,
       DenyDecision, Elsewhere, ApplyVenue, IgnoreVenue, ConflictingVenue, AcceptVenue,
       RestoreReservations, EvaluateCached, EvaluateDenied, vars
  <2> QED BY <2>2, <2>3, <2>4
<1>2. IInv /\ RInv /\ [RegimeNext]_regimeVars =>
        \A r \in Held(reservations') \ Held(reservations) :
          (recoveryLoaded /\ r \notin CanaryReviews) => Rests(r)
  BY <1>1
<1>3. RegimeSpec => []IInv
  BY PolicyRefinement, Invariance, PTL DEF CoordinatorUnderPolicy
<1> QED BY <1>2, <1>3, RegimeInvariance, PTL DEF RegimeSpec, ApprovalRestsOnBinding

-----------------------------------------------------------------------------
(***************************************************************************)
(* The order of the bindings.                                              *)
(***************************************************************************)
\* The intents in the order, and each binding under its own intent.
Queued(order) == {order[i] : i \in DOMAIN order}

Filed ==
  /\ \A r \in Reviews : /\ bindings[r] \in Messages => bindings[r].intent = r
                        /\ heard[r] \in Messages => heard[r].intent = r
  /\ bindingOrder \in Seq(Reviews)
  /\ Queued(bindingOrder) = Bound

\* Removing some from an order leaves the others.
LEMMA WithoutFacts ==
  ASSUME NEW T, NEW S, NEW order, order \in Seq(T)
  PROVE  /\ Without(order, S) \in Seq(T)
         /\ Queued(Without(order, S)) = Queued(order) \ S
<1> DEFINE I == {i \in DOMAIN order : order[i] \notin S}
           kept == AtIndices(order, I)
<1>1. /\ DOMAIN order = 1..Len(order) /\ Len(order) \in Nat
      /\ \A i \in DOMAIN order : order[i] \in T
  BY LenProperties, ElementOfSeq
<1>2. I \in SUBSET (1..Len(order))
  BY <1>1
<1>3. /\ \A k \in DOMAIN kept : \E i \in I : kept[k] = order[i]
      /\ \A i \in I : \E k \in DOMAIN kept : kept[k] = order[i]
  <2>1. PICK n, J, row : /\ n \in Nat /\ J \in SUBSET (1..n)
                         /\ row = AtIndices(order, J)
                         /\ J = I /\ row = kept
    BY <1>1, <1>2
  <2>2. n \in Nat /\ J \in SUBSET (1..n) /\ row = AtIndices(order, J)
    BY <2>1
  <2>3. /\ \A k \in DOMAIN row : \E i \in J : row[k] = order[i]
        /\ \A i \in J : \E k \in DOMAIN row : row[k] = order[i]
    BY ONLY <2>2, FilteredEntries
  <2>4. J = I /\ row = kept
    BY <2>1
  <2> HIDE DEF I, kept
  <2> QED BY <2>3, <2>4
<1>4. Cardinality(I) \in Nat
  <2> HIDE DEF I
  <2> QED BY <1>1, <1>2, RankOrder
<1>5. DOMAIN kept = 1..Cardinality(I) /\ kept = [k \in DOMAIN kept |-> kept[k]]
  BY DEF AtIndices
<1>6. Without(order, S) = kept
  BY DEF Without
<1>7. \A i : i \in I <=> i \in DOMAIN order /\ order[i] \notin S
  OBVIOUS
<1> HIDE DEF kept, I
<1>8. kept \in [1..Cardinality(I) -> T]
  BY <1>1, <1>3, <1>5, <1>7
<1>9. kept \in Seq(T)
  BY <1>4, <1>8, SeqDef
<1>10. Queued(kept) = Queued(order) \ S
  BY <1>3, <1>7 DEF Queued
<1> QED BY <1>6, <1>9, <1>10

LEMMA AppendOrder ==
  ASSUME NEW T, NEW order \in Seq(T), NEW x \in T
  PROVE  Append(order, x) \in Seq(T) /\ Queued(Append(order, x)) = Queued(order) \cup {x}
<1>1. /\ Append(order, x) \in Seq(T) /\ Len(Append(order, x)) = Len(order) + 1
      /\ \A i \in 1..Len(order) : Append(order, x)[i] = order[i]
      /\ Append(order, x)[Len(order) + 1] = x
  BY AppendProperties
<1>2. /\ DOMAIN order = 1..Len(order) /\ Len(order) \in Nat
      /\ DOMAIN Append(order, x) = 1..(Len(order) + 1)
  BY <1>1, LenProperties
<1> DEFINE longer == Append(order, x)
<1> HIDE DEF longer
<1>3. \A i \in DOMAIN longer : i \in DOMAIN order \/ i = Len(order) + 1
  BY <1>2 DEF longer
<1>4. \A i \in DOMAIN order : i \in DOMAIN longer /\ longer[i] = order[i]
  BY <1>1, <1>2 DEF longer
<1>5. Len(order) + 1 \in DOMAIN longer /\ longer[Len(order) + 1] = x
  BY <1>1, <1>2 DEF longer
<1>6. Queued(longer) = Queued(order) \cup {x}
  BY <1>3, <1>4, <1>5 DEF Queued
<1> QED BY <1>1, <1>6 DEF longer

LEMMA InitFiled == RegimeInit => Filed
<1> SUFFICES ASSUME RegimeInit PROVE Filed
  OBVIOUS
<1>1. bindingOrder = <<>> /\ Queued(bindingOrder) = {} /\ bindingOrder \in Seq(Reviews)
  BY EmptySeq DEF RegimeInit, Queued
<1>2. Bound = {} /\ \A r \in Reviews : bindings[r] \notin Messages /\ heard[r] \notin Messages
  BY BindingAssumption DEF RegimeInit, Bound
<1> QED BY <1>1, <1>2 DEF Filed

\* What is popped loses its place in the order, what is stored gets the last one.
LEMMA ApplyBindingFiled ==
  ASSUME BindingFollows, Filed, NEW m \in Messages, NEW t \in Times, ApplyBinding(m, t)
  PROVE  Filed'
<1> DEFINE i == m.intent
<1>1. /\ i \in Reviews /\ m \notin {Unbound, Poisoned} /\ Unbound # Poisoned
      /\ Unbound \notin Messages /\ Poisoned \notin Messages
  BY MessageFacts, BindingAssumption
<1>2. \A r \in Reviews : heard'[r] \in Messages => heard'[r].intent = r
  <2>1. \E first \in {heard, [heard EXCEPT ![i] = m]} : \E disputed : Remember(first, disputed)
    BY DEF ApplyBinding
  <2>2. PICK first \in {heard, [heard EXCEPT ![i] = m]} : \E disputed : Remember(first, disputed)
    BY <2>1
  <2>3. \A r \in Reviews : heard'[r] \in {first[r], Unbound}
    BY <2>2 DEF Remember
  <2>4. \A r \in Reviews : first[r] \in {heard[r], m} /\ (first[r] # heard[r] => r = i)
    BY <2>2 DEF BindingFollows
  <2> QED BY <1>1, <2>3, <2>4 DEF Filed
<1>3. CASE IgnoreBinding(m, t)
  BY <1>2, <1>3 DEF IgnoreBinding, bindingVars, Filed, Bound, Queued
<1>4. CASE PoisonBinding(m, t)
  <2>1. /\ bindings' = [bindings EXCEPT ![i] = Poisoned] /\ UNCHANGED bindingOrder
        /\ bindings[i] # Unbound
    BY <1>4 DEF PoisonBinding
  <2>2. Bound' = Bound /\ \A r \in Reviews : bindings'[r] \in {bindings[r], Poisoned}
    BY <1>1, <2>1 DEF Bound, BindingFollows
  <2> QED BY <1>1, <1>2, <2>1, <2>2 DEF Filed, Queued
<1>5. CASE StoreBinding(m, t)
  <2> DEFINE order == Append(bindingOrder, i)
             gone == Surplus(order)
  <2>1. /\ bindings' = [r \in Reviews |-> IF r \in gone THEN Unbound
                                          ELSE IF r = i THEN m ELSE bindings[r]]
        /\ bindingOrder' = Without(order, gone)
    BY <1>5 DEF StoreBinding
  <2>2. order \in Seq(Reviews) /\ Queued(order) = Bound \cup {i}
    BY <1>1, AppendOrder DEF Filed
  <2> HIDE DEF order, gone
  <2>3. bindingOrder' \in Seq(Reviews) /\ Queued(bindingOrder') = (Bound \cup {i}) \ gone
    BY <2>1, <2>2, WithoutFacts
  <2>4. Bound' = (Bound \cup {i}) \ gone
    BY <1>1, <2>1 DEF Bound
  <2>5. \A r \in Reviews : bindings'[r] \in Messages => bindings'[r].intent = r
    BY <1>1, <2>1 DEF Filed
  <2>6. Queued(bindingOrder)' = Queued(bindingOrder')
    BY DEF Queued
  <2> QED BY <1>2, <2>3, <2>4, <2>5, <2>6 DEF Filed
<1> QED BY <1>3, <1>4, <1>5 DEF ApplyBinding

LEMMA NextFiled ==
  ASSUME BindingFollows, Filed, [RegimeNext]_regimeVars
  PROVE  Filed'
<1>1. ASSUME UNCHANGED bindingVars, Remember(heard, contested)
      PROVE  Filed'
  <2>1. UNCHANGED <<bindings, bindingOrder>>
        /\ \A r \in Reviews : heard'[r] \in {heard[r], Unbound}
    BY <1>1 DEF bindingVars, Remember
  <2>2. Unbound \notin Messages
    BY BindingAssumption
  <2> QED BY <2>1, <2>2 DEF Filed, Bound, Queued
<1>2. CASE UNCHANGED regimeVars
  BY <1>2 DEF regimeVars, bindingVars, history, Filed, Bound, Queued
<1> QED BY <1>1, <1>2, ApplyBindingFiled DEF RegimeNext, EvaluateBound, Elsewhere

\* The bindings are filed under their intents and listed exactly, in the order
\* of an OrderedDict, whatever is popped (apply_regime_allocation).
THEOREM RegimeTypeCorrect == RegimeSpec => []RegimeTypeOK
<1>1. BindingFollows /\ Filed => RegimeTypeOK
  <2> SUFFICES ASSUME BindingFollows, Filed PROVE RegimeTypeOK
    OBVIOUS
  <2>1. contested \subseteq Reviews \ CanaryReviews
    BY DEF BindingFollows
  <2>2. \A r \in Reviews :
          /\ bindings[r] \in {m \in Messages : m.intent = r} \cup {Unbound, Poisoned}
          /\ heard[r] \in {m \in Messages : m.intent = r} \cup {Unbound}
    BY DEF BindingFollows, Filed
  <2>3. /\ \A r \in Bound : \E i \in DOMAIN bindingOrder : bindingOrder[i] = r
        /\ {bindingOrder[i] : i \in DOMAIN bindingOrder} \subseteq Bound
    BY DEF Filed, Queued
  <2> QED BY <2>1, <2>2, <2>3 DEF RegimeTypeOK
<1>2. RInv /\ Filed /\ [RegimeNext]_regimeVars => Filed'
  BY NextFiled DEF RInv
<1>3. RInv => BindingFollows
  BY DEF RInv
<1> QED BY <1>1, <1>2, <1>3, InitFiled, RegimeInvariance, PTL DEF RegimeSpec
=============================================================================
