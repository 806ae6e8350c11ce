--------------------------- MODULE RedemptionProofs ---------------------------
(***************************************************************************)
(* Theorems about Redemption, for every set of requests and consumes and   *)
(* every value of the limits, and about the nonces of the TypeScript       *)
(* gateway (KvNonces, the instance Ts of MCOnceOnly), for every set of     *)
(* isolates, regions and nonces.                                           *)
(***************************************************************************)
EXTENDS MCOnceOnly, FiniteSetTheorems, WellFoundedInduction, TLAPS

Table == [Consume -> Row(Request)]

-----------------------------------------------------------------------------
(* What the table operators return. *)

(* Pruning keeps the table's type and drops exactly the expired rows. *)
LEMMA RetainFacts ==
    ASSUME NEW tab \in Table, NEW t \in Nat
    PROVE  /\ Retain(tab, t) \in Table
           /\ \A c \in Consume : Retain(tab, t)[c] = IF tab[c].expiry > t THEN tab[c] ELSE NoRow
  BY DEF Retain, Table, Row, NoRow

(* A lease attempt prunes, may evict leases, and inserts on "ok" only. *)
LEMMA TryLeaseFacts ==
    ASSUME NEW tab \in Table, NEW k \in Consume, NEW t \in Nat, NEW r \in Request,
           NEW new \in TryLease(tab, k, t, LeaseTtl, MaxEntries, r)
    PROVE  /\ new \in Table
           /\ \A c \in Consume :
                 \/ new[c] = Retain(tab, t)[c]
                 \/ Retain(tab, t)[c].state = "leased" /\ new[c] = NoRow
                 \/ c = k /\ Verdict(tab, k, t) = "ok" /\ new[c] = LeaseRow(t + LeaseTtl, r)
           /\ Verdict(tab, k, t) = "ok" => new[k] = LeaseRow(t + LeaseTtl, r)
  <1> DEFINE kept == Retain(tab, t)
  <1>0. LeaseTtl \in Nat
    BY ConstantTypes
  <1>1. kept \in Table
    BY RetainFacts
  <1>2. CASE Verdict(tab, k, t) # "ok"
    BY <1>1, <1>2 DEF TryLease
  <1>3. CASE Verdict(tab, k, t) = "ok"
    <2>1. PICK e \in Evicted(kept, MaxEntries) : new = [e EXCEPT ![k] = LeaseRow(t + LeaseTtl, r)]
      BY <1>3 DEF TryLease
    <2>2. \/ e = kept
          \/ \E v \in Victims(kept, MaxEntries) : e = [kept EXCEPT ![v] = NoRow]
      BY <2>1 DEF Evicted
    <2>3. Victims(kept, MaxEntries) \subseteq {c \in Consume : kept[c].state = "leased"}
      BY <1>1 DEF Victims, Leases, Table
    <2>4. e \in Table /\ \A c \in Consume : e[c] = kept[c] \/ (kept[c].state = "leased" /\ e[c] = NoRow)
      BY <1>1, <2>2, <2>3 DEF Table, Row, NoRow
    <2>5. LeaseRow(t + LeaseTtl, r) \in Row(Request)
      BY <1>0 DEF LeaseRow, Row
    <2>. QED
      BY <2>1, <2>4, <2>5, <1>3 DEF Table
  <1>. QED
    BY <1>2, <1>3

(* A commit or a release touches its own key only, and only the caller's lease. *)
LEMMA CommitFacts ==
    ASSUME NEW tab \in Table, NEW k \in Consume, NEW t \in Nat, NEW r \in Request
    PROVE  /\ Commit(tab, k, r, t, Retention) \in Table
           /\ \A c \in Consume :
                 Commit(tab, k, r, t, Retention)[c] =
                     IF c = k /\ Owns(tab, k, r, t) THEN CommitRow(t + Retention) ELSE tab[c]
  <1>1. CommitRow(t + Retention) \in Row(Request)
    BY ConstantTypes DEF CommitRow, Row
  <1>. QED
    BY <1>1 DEF Commit, Table

LEMMA ReleaseFacts ==
    ASSUME NEW tab \in Table, NEW k \in Consume, NEW r \in Request
    PROVE  /\ Release(tab, k, r) \in Table
           /\ \A c \in Consume :
                 \/ Release(tab, k, r)[c] = tab[c]
                 \/ c = k /\ tab[c].state = "leased" /\ tab[c].token = r /\ Release(tab, k, r)[c] = NoRow
  <1>1. NoRow \in Row(Request)
    BY DEF NoRow, Row
  <1>. QED
    BY <1>1 DEF Release, Table

(* A verdict is one of three; "ok" means no unexpired row. *)
LEMMA VerdictFacts ==
    ASSUME NEW tab \in Table, NEW k \in Consume, NEW t \in Nat
    PROVE  /\ Verdict(tab, k, t) \in {"ok", "leased", "redeemed"}
           /\ Verdict(tab, k, t) = "ok" <=> Retain(tab, t)[k].state = "none"
  <1>1. Retain(tab, t)[k].state \in {"none", "leased", "committed"}
    BY RetainFacts DEF Table, Row
  <1>. QED
    BY <1>1 DEF Verdict
-----------------------------------------------------------------------------
(* Type correctness. *)

(* The store's side of a call keeps the types of what it changes. *)
LEMMA ApplyTypes ==
    ASSUME TypeOK, NEW r \in Request, ApplyLease(r) \/ ApplyCommit(r) \/ ApplyRelease(r)
    PROVE  rows' \in Table /\ winners' \in [Consume -> SUBSET Request] /\ paidAt' \in [Consume -> Nat]
  <1>0. rows \in Table /\ key[r] \in Consume /\ now \in Nat
    BY DEF TypeOK, Table
  <1>1. CASE ApplyLease(r)
    <2>1. rows' \in TryLease(rows, key[r], now, LeaseTtl, MaxEntries, r)
      BY <1>1 DEF ApplyLease
    <2>2. rows' \in Table
      BY <1>0, <2>1, TryLeaseFacts
    <2>. QED
      BY <1>1, <2>2 DEF ApplyLease, TypeOK
  <1>2. CASE ApplyCommit(r)
    <2>1. rows' \in Table
      BY <1>0, <1>2, CommitFacts DEF ApplyCommit
    <2>2. CASE Owns(rows, key[r], r, now)
      BY <1>0, <1>2, <2>1, <2>2 DEF ApplyCommit, TypeOK
    <2>3. CASE ~Owns(rows, key[r], r, now)
      BY <1>2, <2>1, <2>3 DEF ApplyCommit, TypeOK
    <2>. QED
      BY <2>2, <2>3
  <1>3. CASE ApplyRelease(r)
    BY <1>0, <1>3, ReleaseFacts DEF ApplyRelease, TypeOK
  <1>. QED
    BY <1>1, <1>2, <1>3

(* Moving a request to a phase keeps the types of pc and due. *)
LEMMA GotoTypes ==
    ASSUME TypeOK, NEW r \in Request, NEW p \in {"idle"} \cup InFlight \cup Ended, Goto(r, p)
    PROVE  pc' \in [Request -> {"idle"} \cup InFlight \cup Ended] /\ due' \in [Request -> Nat]
  <1>1. EndsBy(p) \in Nat
    BY ConstantTypes DEF EndsBy, TypeOK
  <1>. QED
    BY <1>1 DEF Goto, TypeOK

(* What an unanswered call leaves behind is a call. *)
LEMMA OrphanTypes ==
    ASSUME TypeOK, NEW r \in Request, Orphan(r)
    PROVE  limbo' \subseteq Calls
  <1>1. Outstanding(r) \subseteq Calls
    BY DEF Outstanding, Call, Calls
  <1>. QED
    BY <1>1 DEF Orphan, TypeOK

(* Every step keeps the types. *)
LEMMA TypeStep == TypeOK /\ [Next]_vars => TypeOK'
  <1> SUFFICES ASSUME TypeOK, [Next]_vars PROVE TypeOK'
    OBVIOUS
  <1> USE DEF Table
  <1>1. ASSUME NEW r \in Request, Verify(r) PROVE TypeOK'
    BY <1>1, GotoTypes DEF Verify, TypeOK, InFlight, Ended
  <1>2. ASSUME NEW r \in Request, Lease(r) PROVE TypeOK'
    <2>1. AfterLease(Verdict(rows, key[r], now)) \in InFlight \cup Ended
      BY VerdictFacts DEF AfterLease, TypeOK, InFlight, Ended
    <2>. QED
      BY <1>2, <2>1, GotoTypes, ApplyTypes DEF Lease, TypeOK
  <1>3. ASSUME NEW r \in Request, Forward(r) PROVE TypeOK'
    BY <1>3, GotoTypes DEF Forward, TypeOK, InFlight
  <1>4. ASSUME NEW r \in Request, CommitLease(r) PROVE TypeOK'
    <2>1. CommitReply(r) \in Ended
      BY DEF CommitReply, Ended
    <2>. QED
      BY <1>4, <2>1, GotoTypes, ApplyTypes DEF CommitLease, TypeOK
  <1>5. ASSUME NEW r \in Request, ReleaseLease(r) PROVE TypeOK'
    <2>1. ReleaseReply(pc[r]) \in Ended
      BY DEF ReleaseReply, Ended
    <2>. QED
      BY <1>5, <2>1, GotoTypes, ApplyTypes DEF ReleaseLease, TypeOK
  <1>6. ASSUME NEW r \in Request, StoreError(r) PROVE TypeOK'
    <2>1. AfterError(pc[r]) \in InFlight \cup Ended
      BY DEF AfterError, ReleaseReply, InFlight, Ended
    <2>. QED
      BY <1>6, <2>1, GotoTypes, OrphanTypes DEF StoreError, TypeOK
  <1>7. ASSUME NEW r \in Request, Abandon(r) PROVE TypeOK'
    <2>1. "gone" \in Ended
      BY DEF Ended
    <2>. QED
      BY <1>7, <2>1, GotoTypes, OrphanTypes DEF Abandon, TypeOK
  <1>8. ASSUME NEW call \in limbo, LateCall(call) PROVE TypeOK'
    <2>1. call.req \in Request /\ call.op \in {"lease", "commit", "release"}
      BY DEF TypeOK, Calls
    <2>2. ApplyLease(call.req) \/ ApplyCommit(call.req) \/ ApplyRelease(call.req)
      BY <1>8, <2>1 DEF LateCall, Apply
    <2>. QED
      BY <1>8, <2>1, <2>2, ApplyTypes DEF LateCall, TypeOK
  <1>9. CASE Tick
    BY <1>9 DEF Tick, TypeOK
  <1>10. CASE UNCHANGED vars
    BY <1>10 DEF vars, TypeOK
  <1>. QED
    BY <1>1, <1>2, <1>3, <1>4, <1>5, <1>6, <1>7, <1>8, <1>9, <1>10 DEF Next, Answer, Quiesce

(* An empty table and idle requests have the right types. *)
LEMMA InitTypes == Init => TypeOK
  <1> SUFFICES ASSUME Init PROVE TypeOK
    OBVIOUS
  <1>1. stamp \in [Consume -> Nat]
    BY ConstantTypes DEF Init
  <1>2. rows \in [Consume -> Row(Request)]
    BY DEF Init, Row, NoRow
  <1>3. pc \in [Request -> {"idle"} \cup InFlight \cup Ended]
    BY DEF Init
  <1>. QED
    BY <1>1, <1>2, <1>3 DEF Init, TypeOK

(* The state of the store, the requests and the calls in flight keeps its type. *)
THEOREM TypeCorrect == Spec => []TypeOK
  BY InitTypes, TypeStep, PTL DEF Spec
-----------------------------------------------------------------------------
(* The inductive invariant. *)

(* Moving request r leaves the others where they are. *)
LEMMA GotoFacts ==
    ASSUME TypeOK, NEW r \in Request, NEW p, Goto(r, p)
    PROVE  /\ pc'[r] = p /\ due'[r] = EndsBy(p)
           /\ \A s \in Request : s # r => pc'[s] = pc[s] /\ due'[s] = due[s]
  BY DEF Goto, TypeOK

(* An orphaned call is the one its request was waiting for. *)
LEMMA OrphanFacts ==
    ASSUME NEW r \in Request, Orphan(r)
    PROVE  /\ \A s \in Request : s # r =>
                 /\ Call("lease", s) \in limbo' <=> Call("lease", s) \in limbo
                 /\ Call("commit", s) \in limbo' <=> Call("commit", s) \in limbo
           /\ Call("lease", r) \in limbo' => Call("lease", r) \in limbo \/ pc[r] = "verified"
           /\ Call("commit", r) \in limbo' => Call("commit", r) \in limbo \/ pc[r] = "committing"
           /\ limbo \subseteq limbo'
  BY DEF Orphan, Outstanding, Call

(* Requests stay on time and orphaned calls stay orphaned, whatever the table. *)
LEMMA RequestStep == TypeOK /\ RequestInv /\ [Next]_vars => RequestInv'
  <1> SUFFICES ASSUME TypeOK, RequestInv, [Next]_vars PROVE RequestInv'
    OBVIOUS
  <1> USE DEF RequestInv, OnTime, NotEarly, OrphansHaveNoCaller
  <1>0. /\ LeaseTtl \in Nat /\ MaxAge \in Nat /\ Skew \in Nat /\ ForwardMax \in Nat
        /\ CallMax \in Nat /\ LeaseGap \in Nat
        /\ now \in Nat
        /\ \A r \in Request : key[r] \in Consume /\ due[r] \in Nat /\ stamp[key[r]] \in Nat
    BY ConstantTypes DEF TypeOK
  <1>1. ASSUME NEW r \in Request, Verify(r) PROVE RequestInv'
    <2> DEFINE p == IF EventIsRecent(key[r]) THEN "verified" ELSE "denied"
    <2>1. Goto(r, p)
      BY <1>1 DEF Verify
    <2>2. /\ pc'[r] = p /\ due'[r] = EndsBy(p)
          /\ \A s \in Request : s # r => pc'[s] = pc[s] /\ due'[s] = due[s]
      BY <2>1, GotoFacts
    <2>. QED
      BY <1>0, <1>1, <2>2 DEF Verify, EndsBy, EventIsRecent, InFlight, Ended
  <1>2. ASSUME NEW r \in Request, Lease(r) PROVE RequestInv'
    <2> DEFINE p == AfterLease(Verdict(rows, key[r], now))
    <2>1. p \in {"forwarding", "leased", "redeemed"}
      BY <1>0, VerdictFacts DEF AfterLease, TypeOK, Table
    <2>2. Goto(r, p)
      BY <1>2 DEF Lease
    <2>3. /\ pc'[r] = p /\ due'[r] = EndsBy(p)
          /\ \A s \in Request : s # r => pc'[s] = pc[s] /\ due'[s] = due[s]
      BY <2>2, GotoFacts
    <2>. QED
      BY <1>0, <1>2, <2>1, <2>3 DEF Lease, EndsBy, InFlight, Ended
  <1>3. ASSUME NEW r \in Request, Forward(r) PROVE RequestInv'
    <2>1. PICK p \in {"committing", "releasing"} : Goto(r, p)
      BY <1>3 DEF Forward
    <2>2. /\ pc'[r] = p /\ due'[r] = EndsBy(p)
          /\ \A s \in Request : s # r => pc'[s] = pc[s] /\ due'[s] = due[s]
      BY <2>1, GotoFacts
    <2>. QED
      BY <1>0, <1>3, <2>2 DEF Forward, EndsBy, InFlight, Ended
  <1>4. ASSUME NEW r \in Request, CommitLease(r) PROVE RequestInv'
    <2>1. /\ pc'[r] = CommitReply(r)
          /\ \A s \in Request : s # r => pc'[s] = pc[s] /\ due'[s] = due[s]
      BY <1>4, GotoFacts DEF CommitLease
    <2>. QED
      BY <1>0, <1>4, <2>1 DEF CommitLease, CommitReply, InFlight, Ended
  <1>5. ASSUME NEW r \in Request, ReleaseLease(r) PROVE RequestInv'
    <2>1. /\ pc'[r] = ReleaseReply(pc[r])
          /\ \A s \in Request : s # r => pc'[s] = pc[s] /\ due'[s] = due[s]
      BY <1>5, GotoFacts DEF ReleaseLease
    <2>. QED
      BY <1>0, <1>5, <2>1 DEF ReleaseLease, ReleaseReply, InFlight, Ended
  <1>6. ASSUME NEW r \in Request, StoreError(r) PROVE RequestInv'
    <2>1. pc[r] \in {"verified", "committing", "releasing", "rollback"}
      BY <1>6 DEF StoreError, Outstanding
    <2>2. /\ pc'[r] = AfterError(pc[r]) /\ due'[r] = EndsBy(AfterError(pc[r]))
          /\ \A s \in Request : s # r => pc'[s] = pc[s] /\ due'[s] = due[s]
      BY <1>6, GotoFacts DEF StoreError
    <2>3. Orphan(r)
      BY <1>6 DEF StoreError
    <2>. QED
      BY <1>0, <1>6, <2>1, <2>2, <2>3, OrphanFacts
         DEF StoreError, AfterError, ReleaseReply, EndsBy, InFlight, Ended
  <1>7. ASSUME NEW r \in Request, Abandon(r) PROVE RequestInv'
    <2>1. /\ pc'[r] = "gone"
          /\ \A s \in Request : s # r => pc'[s] = pc[s] /\ due'[s] = due[s]
      BY <1>7, GotoFacts DEF Abandon
    <2>2. Orphan(r)
      BY <1>7 DEF Abandon
    <2>. QED
      BY <1>0, <1>7, <2>1, <2>2, OrphanFacts DEF Abandon, InFlight, Ended
  <1>8. ASSUME NEW call \in limbo, LateCall(call) PROVE RequestInv'
    BY <1>0, <1>8 DEF LateCall
  <1>9. CASE Tick
    BY <1>0, <1>9 DEF Tick, InFlight
  <1>10. CASE UNCHANGED vars
    BY <1>10 DEF vars
  <1>. QED
    BY <1>1, <1>2, <1>3, <1>4, <1>5, <1>6, <1>7, <1>8, <1>9, <1>10 DEF Next, Answer, Quiesce
(* A commit is applied to an unspent consume or not at all. *)
LEMMA CommitApplied ==
    ASSUME TypeOK, TableInv, NEW r \in Request, Committable(r), ApplyCommit(r)
    PROVE  \A c \in Consume :
              \/ /\ rows'[c] = rows[c] /\ winners'[c] = winners[c] /\ paidAt'[c] = paidAt[c]
                 /\ c = key[r] => ~Owns(rows, key[r], r, now)
              \/ /\ c = key[r] /\ winners[c] = {} /\ Owns(rows, key[r], r, now)
                 /\ rows'[c] = CommitRow(now + Retention)
                 /\ winners'[c] = {r} /\ paidAt'[c] = now
  <1>0. rows \in Table /\ key[r] \in Consume /\ now \in Nat
    BY DEF TypeOK, Table
  <1>1. \A c \in Consume :
           rows'[c] = IF c = key[r] /\ Owns(rows, key[r], r, now)
                      THEN CommitRow(now + Retention) ELSE rows[c]
    BY <1>0, CommitFacts DEF ApplyCommit
  <1>2. CASE Owns(rows, key[r], r, now)
    <2>1. winners[key[r]] = {}
      BY <1>0, <1>2 DEF Owns, TableInv, SpentStaysSpent
    <2>2. \A c \in Consume :
             /\ winners'[c] = IF c = key[r] THEN {r} ELSE winners[c]
             /\ paidAt'[c] = IF c = key[r] THEN now ELSE paidAt[c]
      BY <1>0, <1>2, <2>1 DEF ApplyCommit, TypeOK
    <2>. QED
      BY <1>1, <1>2, <2>1, <2>2
  <1>3. CASE ~Owns(rows, key[r], r, now)
    BY <1>1, <1>3 DEF ApplyCommit
  <1>. QED
    BY <1>2, <1>3

(* Within the margin, a verified request finds a spent consume redeemed. *)
LEMMA SpentIsNotLeased ==
    ASSUME RetentionMargin, TypeOK, RequestInv, TableInv,
           NEW r \in Request, pc[r] = "verified", winners[key[r]] # {}
    PROVE  Verdict(rows, key[r], now) # "ok"
  <1> DEFINE c == key[r]
  <1>0. /\ Retention \in Nat /\ MaxAge \in Nat /\ Skew \in Nat /\ LeaseGap \in Nat
        /\ now \in Nat /\ c \in Consume /\ due[r] \in Nat /\ stamp[c] \in Nat /\ paidAt[c] \in Nat
        /\ rows \in Table
    BY ConstantTypes DEF TypeOK, Table
  <1>1. now <= due[r] /\ due[r] <= stamp[c] + MaxAge + LeaseGap
    BY DEF RequestInv, OnTime, InFlight
  <1>2. stamp[c] <= paidAt[c] + Skew
    BY <1>0 DEF TableInv, SpentRemembered
  <1>3. now < paidAt[c] + Retention
    BY <1>0, <1>1, <1>2 DEF RetentionMargin
  <1>4. rows[c] = CommitRow(paidAt[c] + Retention)
    BY <1>0, <1>3 DEF TableInv, SpentRemembered
  <1>5. rows[c].expiry > now /\ rows[c].state = "committed"
    BY <1>0, <1>3, <1>4 DEF CommitRow
  <1>6. Retain(rows, now)[c] = rows[c]
    BY <1>0, <1>5, RetainFacts
  <1>. QED
    BY <1>0, <1>5, <1>6, VerdictFacts

(* Row by row, a lease attempt keeps unexpired rows, drops expired rows and
   evicted leases, and inserts where no unexpired row was. *)
LEMMA LeaseRows ==
    ASSUME TypeOK, NEW r \in Request, ApplyLease(r)
    PROVE  \A c \in Consume :
              \/ rows'[c] = rows[c] /\ rows[c].expiry > now
              \/ rows'[c] = NoRow /\ (rows[c].state = "leased" \/ ~(rows[c].expiry > now))
              \/ c = key[r] /\ Verdict(rows, key[r], now) = "ok" /\ rows'[c] = LeaseRow(now + LeaseTtl, r)
                 /\ ~(rows[c].expiry > now /\ rows[c].state # "none")
  <1>0. rows \in Table /\ key[r] \in Consume /\ now \in Nat
    BY DEF TypeOK, Table
  <1>1. rows' \in TryLease(rows, key[r], now, LeaseTtl, MaxEntries, r)
    BY DEF ApplyLease
  <1>2. \A c \in Consume :
           \/ rows'[c] = Retain(rows, now)[c]
           \/ Retain(rows, now)[c].state = "leased" /\ rows'[c] = NoRow
           \/ c = key[r] /\ Verdict(rows, key[r], now) = "ok" /\ rows'[c] = LeaseRow(now + LeaseTtl, r)
    BY <1>0, <1>1, TryLeaseFacts
  <1>3. \A c \in Consume : Retain(rows, now)[c] = IF rows[c].expiry > now THEN rows[c] ELSE NoRow
    BY <1>0, RetainFacts
  <1>4. Verdict(rows, key[r], now) = "ok" => Retain(rows, now)[key[r]].state = "none"
    BY <1>0, VerdictFacts
  <1>. QED
    BY <1>0, <1>2, <1>3, <1>4

(* A lease attempt that inserts only what cannot be committed on a spent
   consume keeps the table's invariant. *)
LEMMA LeaseApplied ==
    ASSUME TypeOK, TableInv, NEW r \in Request, ApplyLease(r),
           UNCHANGED <<now, stamp, key>>,
           \A s \in Request : pc[s] \notin {"idle", "denied", "verified"}
                                => pc'[s] \notin {"idle", "denied", "verified"},
           \A s \in Request : s # r => (Committable(s)' => Committable(s)),
           pc[r] = "verified" \/ (Committable(r)' => Committable(r)),
           Verdict(rows, key[r], now) = "ok" => pc'[r] \notin {"idle", "denied", "verified"},
           winners[key[r]] # {} /\ Verdict(rows, key[r], now) = "ok" => ~Committable(r)'
    PROVE  TableInv'
  <1>0. /\ rows \in Table /\ key[r] \in Consume /\ now \in Nat /\ Retention \in Nat
        /\ \A c \in Consume : paidAt[c] \in Nat
    BY ConstantTypes DEF TypeOK, Table
  <1>1. \A c \in Consume :
           \/ rows'[c] = rows[c] /\ rows[c].expiry > now
           \/ rows'[c] = NoRow /\ (rows[c].state = "leased" \/ ~(rows[c].expiry > now))
           \/ c = key[r] /\ Verdict(rows, key[r], now) = "ok" /\ rows'[c] = LeaseRow(now + LeaseTtl, r)
              /\ ~(rows[c].expiry > now /\ rows[c].state # "none")
    BY LeaseRows
  <1>2. LeasesHaveOwners'
    BY <1>1 DEF TableInv, LeasesHaveOwners, LeaseRow, NoRow
  <1>3. SpentStaysSpent'
    <2> SUFFICES ASSUME NEW c \in Consume, winners'[c] # {}, rows'[c].state = "leased",
                        NEW s, s = rows'[c].token
                 PROVE  ~Committable(s)'
      BY DEF SpentStaysSpent, Committable
    <2>1. winners[c] # {}
      BY DEF ApplyLease
    <2>2. CASE rows'[c] = rows[c]
      <3>1. s \in Request /\ pc[s] # "verified" /\ ~Committable(s)
        BY <2>1, <2>2 DEF TableInv, LeasesHaveOwners, SpentStaysSpent
      <3>. QED
        BY <2>2, <3>1
    <2>3. CASE c = key[r] /\ Verdict(rows, key[r], now) = "ok" /\ rows'[c] = LeaseRow(now + LeaseTtl, r)
      BY <2>1, <2>3 DEF LeaseRow
    <2>. QED
      BY <1>1, <2>2, <2>3 DEF NoRow
  <1>4. SpentRemembered'
    BY <1>0, <1>1 DEF ApplyLease, TableInv, SpentRemembered, NoRow, CommitRow
  <1>. QED
    BY <1>2, <1>3, <1>4 DEF TableInv
(* A step that at most drops leases, and gives nobody a commit, keeps the
   table's invariant. *)
LEMMA DropApplied ==
    ASSUME TypeOK, TableInv,
           UNCHANGED <<stamp, key, winners, paidAt>>, now' \in {now, now + 1},
           \A c \in Consume : rows'[c] = rows[c] \/ (rows[c].state = "leased" /\ rows'[c] = NoRow),
           \A s \in Request : pc[s] \notin {"idle", "denied", "verified"}
                                => pc'[s] \notin {"idle", "denied", "verified"},
           \A s \in Request : Committable(s)' => Committable(s)
    PROVE  TableInv'
  <1>0. /\ now \in Nat /\ Retention \in Nat
        /\ \A c \in Consume : paidAt[c] \in Nat
    BY ConstantTypes DEF TypeOK
  <1>1. LeasesHaveOwners'
    BY DEF TableInv, LeasesHaveOwners, NoRow
  <1>2. SpentStaysSpent'
    <2> SUFFICES ASSUME NEW c \in Consume, winners'[c] # {}, rows'[c].state = "leased",
                        NEW s, s = rows'[c].token
                 PROVE  ~Committable(s)'
      BY DEF SpentStaysSpent, Committable
    <2>1. rows'[c] = rows[c]
      BY DEF NoRow
    <2>2. s \in Request /\ ~Committable(s)
      BY <2>1 DEF TableInv, LeasesHaveOwners, SpentStaysSpent
    <2>. QED
      BY <2>2
  <1>3. SpentRemembered'
    BY <1>0 DEF TableInv, SpentRemembered, CommitRow, NoRow
  <1>. QED
    BY <1>1, <1>2, <1>3 DEF TableInv

(* A commit that is applied, or lost, keeps the table's invariant. *)
LEMMA CommitKeepsTable ==
    ASSUME TypeOK, RequestInv, TableInv, NEW r \in Request, Committable(r), ApplyCommit(r),
           UNCHANGED <<now, stamp, key>>,
           \A s \in Request : pc[s] \notin {"idle", "denied", "verified"}
                                => pc'[s] \notin {"idle", "denied", "verified"},
           \A s \in Request : Committable(s)' => Committable(s)
    PROVE  TableInv'
  <1>0. /\ now \in Nat /\ Retention \in Nat /\ key[r] \in Consume
        /\ \A c \in Consume : paidAt[c] \in Nat
    BY ConstantTypes DEF TypeOK
  <1>1. \A c \in Consume :
           \/ rows'[c] = rows[c] /\ winners'[c] = winners[c] /\ paidAt'[c] = paidAt[c]
           \/ /\ c = key[r] /\ rows'[c] = CommitRow(now + Retention)
              /\ winners'[c] = {r} /\ paidAt'[c] = now
    BY CommitApplied
  <1>2. stamp[key[r]] <= now + Skew
    BY DEF Committable, RequestInv, NotEarly, OrphansHaveNoCaller, Ended
  <1>3. LeasesHaveOwners'
    BY <1>1 DEF TableInv, LeasesHaveOwners, CommitRow
  <1>4. SpentStaysSpent'
    <2> SUFFICES ASSUME NEW c \in Consume, winners'[c] # {}, rows'[c].state = "leased",
                        NEW s, s = rows'[c].token
                 PROVE  ~Committable(s)'
      BY DEF SpentStaysSpent, Committable
    <2>1. rows'[c] = rows[c] /\ winners'[c] = winners[c]
      BY <1>1 DEF CommitRow
    <2>2. s \in Request /\ ~Committable(s)
      BY <2>1 DEF TableInv, LeasesHaveOwners, SpentStaysSpent
    <2>. QED
      BY <2>2
  <1>5. SpentRemembered'
    BY <1>0, <1>1, <1>2 DEF TableInv, SpentRemembered
  <1>. QED
    BY <1>3, <1>4, <1>5 DEF TableInv

(* With margin, every step keeps the table's invariant, records at most one
   redemption, and reports success only for it. *)
LEMMA TableStep ==
    ASSUME RetentionMargin, RedemptionInv, [Next]_vars
    PROVE  TableInv' /\ AtMostOneRedemption' /\ SuccessIsRecorded'
  <1> USE DEF RedemptionInv
  <1> DEFINE Kept == TableInv' /\ AtMostOneRedemption' /\ SuccessIsRecorded'
  <1>1. ASSUME NEW r \in Request, Verify(r) PROVE Kept
    <2>1. PICK p \in {"verified", "denied"} : Goto(r, p)
      BY <1>1 DEF Verify
    <2>2. pc'[r] = p /\ \A s \in Request : s # r => pc'[s] = pc[s]
      BY <2>1, GotoFacts
    <2>3. /\ pc[r] = "idle" /\ UNCHANGED <<now, stamp, rows, key, limbo, winners, paidAt>>
      BY <1>1 DEF Verify
    <2>4. \A s \in Request : Committable(s)' => Committable(s)
      BY <2>2, <2>3 DEF Committable
    <2>5. TableInv'
      BY <2>2, <2>3, <2>4, DropApplied
    <2>. QED
      BY <2>2, <2>3, <2>5 DEF AtMostOneRedemption, SuccessIsRecorded
  <1>2. ASSUME NEW r \in Request, Lease(r) PROVE Kept
    <2> DEFINE p == AfterLease(Verdict(rows, key[r], now))
    <2>1. Goto(r, p) /\ pc[r] = "verified" /\ ApplyLease(r) /\ UNCHANGED <<now, stamp, key, limbo>>
      BY <1>2 DEF Lease
    <2>2. pc'[r] = p /\ \A s \in Request : s # r => pc'[s] = pc[s]
      BY <2>1, GotoFacts
    <2>3. p \in {"forwarding", "leased", "redeemed"}
      BY VerdictFacts DEF AfterLease, TypeOK, Table
    <2>4. \A s \in Request : s # r => (Committable(s)' => Committable(s))
      BY <2>1, <2>2 DEF Committable
    <2>5. winners[key[r]] # {} => Verdict(rows, key[r], now) # "ok"
      BY <2>1, SpentIsNotLeased
    <2>6. TableInv'
      BY <2>1, <2>2, <2>3, <2>4, <2>5, LeaseApplied
    <2>. QED
      BY <2>1, <2>2, <2>3, <2>6 DEF ApplyLease, AtMostOneRedemption, SuccessIsRecorded
  <1>3. ASSUME NEW r \in Request, Forward(r) PROVE Kept
    <2>1. PICK p \in {"committing", "releasing"} : Goto(r, p)
      BY <1>3 DEF Forward
    <2>2. pc'[r] = p /\ \A s \in Request : s # r => pc'[s] = pc[s]
      BY <2>1, GotoFacts
    <2>3. pc[r] = "forwarding" /\ UNCHANGED <<now, stamp, rows, key, limbo, winners, paidAt>>
      BY <1>3 DEF Forward
    <2>4. \A s \in Request : Committable(s)' => Committable(s)
      BY <2>2, <2>3 DEF Committable
    <2>5. TableInv'
      BY <2>2, <2>3, <2>4, DropApplied
    <2>. QED
      BY <2>2, <2>3, <2>5 DEF AtMostOneRedemption, SuccessIsRecorded
  <1>4. ASSUME NEW r \in Request, CommitLease(r) PROVE Kept
    <2>1. /\ Goto(r, CommitReply(r)) /\ pc[r] = "committing" /\ ApplyCommit(r)
          /\ UNCHANGED <<now, stamp, key, limbo>>
      BY <1>4 DEF CommitLease
    <2>2. pc'[r] = CommitReply(r) /\ \A s \in Request : s # r => pc'[s] = pc[s]
      BY <2>1, GotoFacts
    <2>3. Committable(r) /\ \A s \in Request : Committable(s)' => Committable(s)
      BY <2>1, <2>2 DEF Committable, CommitReply
    <2>4. CommitReply(r) \in {"success", "lost"}
      BY DEF CommitReply
    <2>5. TableInv'
      BY <2>1, <2>2, <2>3, <2>4, CommitKeepsTable
    <2>6. \A c \in Consume :
             \/ winners'[c] = winners[c] /\ (c = key[r] => ~Owns(rows, key[r], r, now))
             \/ c = key[r] /\ winners[c] = {} /\ Owns(rows, key[r], r, now) /\ winners'[c] = {r}
      BY <2>1, <2>3, CommitApplied
    <2>7. key[r] \in Consume /\ \A s \in Request : key[s] \in Consume
      BY DEF TypeOK
    <2>. QED
      BY <2>1, <2>2, <2>5, <2>6, <2>7 DEF AtMostOneRedemption, SuccessIsRecorded, CommitReply
  <1>5. ASSUME NEW r \in Request, ReleaseLease(r) PROVE Kept
    <2>1. /\ Goto(r, ReleaseReply(pc[r])) /\ pc[r] \in {"releasing", "rollback"} /\ ApplyRelease(r)
          /\ UNCHANGED <<now, stamp, key, limbo>>
      BY <1>5 DEF ReleaseLease
    <2>2. /\ pc'[r] \in {"upstream_error", "commit_failed"}
          /\ \A s \in Request : s # r => pc'[s] = pc[s]
      BY <2>1, GotoFacts DEF ReleaseReply
    <2>3. \A s \in Request : Committable(s)' => Committable(s)
      BY <2>1, <2>2 DEF Committable
    <2>4. \A c \in Consume : rows'[c] = rows[c] \/ (rows[c].state = "leased" /\ rows'[c] = NoRow)
      BY <2>1, ReleaseFacts DEF ApplyRelease, TypeOK, Table
    <2>5. TableInv'
      BY <2>1, <2>2, <2>3, <2>4, DropApplied DEF ApplyRelease
    <2>. QED
      BY <2>1, <2>2, <2>5 DEF ApplyRelease, AtMostOneRedemption, SuccessIsRecorded
  <1>6. ASSUME NEW r \in Request, StoreError(r) PROVE Kept
    <2>1. /\ Goto(r, AfterError(pc[r])) /\ Orphan(r)
          /\ UNCHANGED <<now, stamp, rows, key, winners, paidAt>>
      BY <1>6 DEF StoreError
    <2>2. pc[r] \in {"verified", "committing", "releasing", "rollback"}
      BY <1>6 DEF StoreError, Outstanding
    <2>3. /\ pc'[r] \in {"unavailable", "rollback", "upstream_error", "commit_failed"}
          /\ \A s \in Request : s # r => pc'[s] = pc[s]
      BY <2>1, <2>2, GotoFacts DEF AfterError, ReleaseReply
    <2>4. \A s \in Request : Committable(s)' => Committable(s)
      BY <2>1, <2>3, OrphanFacts DEF Committable
    <2>5. TableInv'
      BY <2>1, <2>3, <2>4, DropApplied
    <2>. QED
      BY <2>1, <2>3, <2>5 DEF AtMostOneRedemption, SuccessIsRecorded
  <1>7. ASSUME NEW r \in Request, Abandon(r) PROVE Kept
    <2>1. Goto(r, "gone") /\ Orphan(r) /\ UNCHANGED <<now, stamp, rows, key, winners, paidAt>>
      BY <1>7 DEF Abandon
    <2>2. pc'[r] = "gone" /\ \A s \in Request : s # r => pc'[s] = pc[s]
      BY <2>1, GotoFacts
    <2>3. \A s \in Request : Committable(s)' => Committable(s)
      BY <2>1, <2>2, OrphanFacts DEF Committable
    <2>4. TableInv'
      BY <2>1, <2>2, <2>3, DropApplied
    <2>. QED
      BY <2>1, <2>2, <2>4 DEF AtMostOneRedemption, SuccessIsRecorded
  <1>8. ASSUME NEW call \in limbo, LateCall(call) PROVE Kept
    <2> DEFINE r == call.req
    <2>0. r \in Request /\ call.op \in {"lease", "commit", "release"} /\ call = Call(call.op, r)
      BY DEF TypeOK, Calls, Call
    <2>1. Apply(call) /\ limbo' = limbo \ {call} /\ UNCHANGED <<now, stamp, pc, key, due>>
      BY <1>8 DEF LateCall
    <2>2. \A s \in Request : Committable(s)' => Committable(s)
      BY <2>1 DEF Committable
    <2>3. CASE call.op = "lease"
      <3>1. ApplyLease(r)
        BY <2>1, <2>3 DEF Apply
      <3>2. pc[r] \in Ended \ {"denied"} /\ Call("commit", r) \notin limbo
        BY <2>0, <2>3 DEF RequestInv, OrphansHaveNoCaller
      <3>3. ~Committable(r)' /\ pc'[r] \notin {"idle", "denied", "verified"}
        BY <2>1, <3>2 DEF Committable, Ended
      <3>4. TableInv'
        BY <2>0, <2>1, <2>2, <3>1, <3>3, LeaseApplied
      <3>. QED
        BY <2>1, <3>1, <3>4 DEF ApplyLease, AtMostOneRedemption, SuccessIsRecorded
    <2>4. CASE call.op = "commit"
      <3>1. ApplyCommit(r)
        BY <2>1, <2>4 DEF Apply
      <3>2. Committable(r)
        BY <2>0, <2>4 DEF Committable
      <3>3. TableInv'
        BY <2>0, <2>1, <2>2, <3>1, <3>2, CommitKeepsTable
      <3>4. \A c \in Consume : winners'[c] = winners[c] \/ (winners[c] = {} /\ winners'[c] = {r})
        BY <2>0, <3>1, <3>2, CommitApplied
      <3>5. AtMostOneRedemption'
        BY <3>4 DEF AtMostOneRedemption
      <3>6. SuccessIsRecorded'
        <4>1. \A s \in Request : key[s] \in Consume
          BY DEF TypeOK
        <4>. QED
          BY <2>1, <3>4, <4>1 DEF SuccessIsRecorded
      <3>. QED
        BY <3>3, <3>5, <3>6
    <2>5. CASE call.op = "release"
      <3>1. ApplyRelease(r)
        BY <2>1, <2>5 DEF Apply
      <3>2. \A c \in Consume : rows'[c] = rows[c] \/ (rows[c].state = "leased" /\ rows'[c] = NoRow)
        BY <2>0, <3>1, ReleaseFacts DEF ApplyRelease, TypeOK, Table
      <3>3. TableInv'
        BY <2>1, <2>2, <3>1, <3>2, DropApplied DEF ApplyRelease
      <3>. QED
        BY <2>1, <3>1, <3>3 DEF ApplyRelease, AtMostOneRedemption, SuccessIsRecorded
    <2>. QED
      BY <2>0, <2>3, <2>4, <2>5
  <1>9. CASE Tick
    <2>1. TableInv'
      BY <1>9, DropApplied DEF Tick, Committable
    <2>. QED
      BY <1>9, <2>1 DEF Tick, AtMostOneRedemption, SuccessIsRecorded
  <1>10. CASE UNCHANGED vars
    <2>1. TableInv'
      BY <1>10, DropApplied DEF vars, Committable
    <2>. QED
      BY <1>10, <2>1 DEF vars, AtMostOneRedemption, SuccessIsRecorded
  <1>. QED
    BY <1>1, <1>2, <1>3, <1>4, <1>5, <1>6, <1>7, <1>8, <1>9, <1>10 DEF Next, Answer, Quiesce

(* The invariant is inductive when retention has margin. *)
THEOREM Bookkeeping == ASSUME RetentionMargin PROVE Spec => []RedemptionInv
  <1>1. Init => RedemptionInv
    <2> SUFFICES ASSUME Init PROVE RedemptionInv
      OBVIOUS
    <2>1. TypeOK
      BY InitTypes
    <2>2. RequestInv /\ TableInv
      BY DEF Init, RequestInv, OnTime, NotEarly, OrphansHaveNoCaller, TableInv, LeasesHaveOwners,
             SpentStaysSpent, SpentRemembered, InFlight, NoRow
    <2>. QED
      BY <2>1, <2>2 DEF Init, RedemptionInv, AtMostOneRedemption, SuccessIsRecorded
  <1>2. RedemptionInv /\ [Next]_vars => RedemptionInv'
    BY TypeStep, RequestStep, TableStep DEF RedemptionInv
  <1>. QED
    BY <1>1, <1>2, PTL DEF Spec

(* With margin, no consume is ever redeemed twice, whatever is lost, late,
   retried, evicted or abandoned. *)
THEOREM RedeemedAtMostOnce == ASSUME RetentionMargin PROVE Spec => []AtMostOneRedemption
  BY Bookkeeping, PTL DEF RedemptionInv

(* With margin, a client is told of success only for the one recorded commit. *)
THEOREM SuccessOnlyIfRecorded == ASSUME RetentionMargin PROVE Spec => []SuccessIsRecorded
  BY Bookkeeping, PTL DEF RedemptionInv
-----------------------------------------------------------------------------
(* Refinement. *)

(* Seen through the mapping, every step holds, gives back, spends or keeps each
   consume. *)
LEMMA AbstractStep ==
    ASSUME RedemptionInv, [Next]_vars
    PROVE  \A c \in Consume :
              \/ Holder(c) = NoToken /\ Holder(c)' \in Request /\ winners'[c] = winners[c]
              \/ Holder(c) # NoToken /\ Holder(c)' = NoToken /\ winners'[c] = winners[c]
              \/ /\ Holder(c) # NoToken /\ winners[c] = {} /\ winners'[c] = {Holder(c)}
                 /\ Holder(c)' = NoToken
              \/ Holder(c)' = Holder(c) /\ winners'[c] = winners[c]
  <1> DEFINE Goal == \A c \in Consume :
              \/ Holder(c) = NoToken /\ Holder(c)' \in Request /\ winners'[c] = winners[c]
              \/ Holder(c) # NoToken /\ Holder(c)' = NoToken /\ winners'[c] = winners[c]
              \/ /\ Holder(c) # NoToken /\ winners[c] = {} /\ winners'[c] = {Holder(c)}
                 /\ Holder(c)' = NoToken
              \/ Holder(c)' = Holder(c) /\ winners'[c] = winners[c]
  <1>0. LeaseTtl \in Nat /\ LeaseTtl > 0 /\ now \in Nat /\ Retention \in Nat /\ NoToken \notin Request
    BY ConstantTypes, ConfigAssumption DEF ConfigValid, RedemptionInv, TypeOK
  <1>1. ASSUME NEW r \in Request, ApplyLease(r), now' = now PROVE Goal
    <2>1. \A c \in Consume :
             \/ rows'[c] = rows[c]
             \/ rows'[c] = NoRow
             \/ rows'[c] = LeaseRow(now + LeaseTtl, r) /\ ~(rows[c].expiry > now /\ rows[c].state # "none")
      BY <1>1, LeaseRows DEF RedemptionInv
    <2>2. winners' = winners
      BY <1>1 DEF ApplyLease
    <2>. QED
      BY <1>0, <1>1, <2>1, <2>2 DEF Holder, LeaseRow, NoRow
  <1>2. ASSUME NEW r \in Request, Committable(r), ApplyCommit(r), now' = now PROVE Goal
    <2>1. \A c \in Consume :
             \/ rows'[c] = rows[c] /\ winners'[c] = winners[c]
             \/ /\ c = key[r] /\ winners[c] = {} /\ Owns(rows, key[r], r, now)
                /\ rows'[c] = CommitRow(now + Retention) /\ winners'[c] = {r}
      BY <1>2, CommitApplied DEF RedemptionInv
    <2>. QED
      BY <1>0, <1>2, <2>1 DEF Holder, CommitRow, Owns
  <1>3. ASSUME NEW r \in Request, ApplyRelease(r), now' = now PROVE Goal
    <2>0. rows \in Table /\ key[r] \in Consume /\ rows' = Release(rows, key[r], r)
      BY <1>3 DEF ApplyRelease, RedemptionInv, TypeOK, Table
    <2>1. \A c \in Consume : rows'[c] = rows[c] \/ rows'[c] = NoRow
      BY <2>0, ReleaseFacts
    <2>. QED
      BY <1>3, <2>1 DEF ApplyRelease, Holder, NoRow
  <1>4. ASSUME UNCHANGED <<rows, winners>>, now' \in {now, now + 1} PROVE Goal
    <2>1. \A c \in Consume : rows[c].expiry \in Nat
      BY DEF RedemptionInv, TypeOK, Row
    <2>. QED
      BY <1>0, <1>4, <2>1 DEF Holder
  <1>5. ASSUME NEW call \in limbo, LateCall(call) PROVE Goal
    <2>1. call.req \in Request /\ call.op \in {"lease", "commit", "release"} /\ call = Call(call.op, call.req)
      BY DEF RedemptionInv, TypeOK, Calls, Call
    <2>2. now' = now /\ Apply(call)
      BY <1>5 DEF LateCall
    <2>3. CASE call.op = "lease"
      BY <1>1, <2>1, <2>2, <2>3 DEF Apply
    <2>4. CASE call.op = "commit"
      BY <1>2, <2>1, <2>2, <2>4 DEF Apply, Committable
    <2>5. CASE call.op = "release"
      BY <1>3, <2>1, <2>2, <2>5 DEF Apply
    <2>. QED
      BY <2>1, <2>3, <2>4, <2>5
  <1>6. ASSUME NEW r \in Request, Verify(r) \/ Forward(r) \/ StoreError(r) \/ Abandon(r) PROVE Goal
    BY <1>4, <1>6 DEF Verify, Forward, StoreError, Abandon
  <1>7. ASSUME NEW r \in Request, Lease(r) PROVE Goal
    BY <1>1, <1>7 DEF Lease
  <1>8. ASSUME NEW r \in Request, CommitLease(r) PROVE Goal
    BY <1>2, <1>8 DEF CommitLease, Committable
  <1>9. ASSUME NEW r \in Request, ReleaseLease(r) PROVE Goal
    BY <1>3, <1>9 DEF ReleaseLease
  <1>10. CASE Tick \/ UNCHANGED vars
    BY <1>4, <1>10 DEF Tick, vars
  <1>. QED
    BY <1>5, <1>6, <1>7, <1>8, <1>9, <1>10 DEF Next, Answer, Quiesce

(* With margin, redemption under faults implements single use. *)
THEOREM RefinesSingleUse == ASSUME RetentionMargin PROVE Spec => ImplementsSingleUse
  <1>1. Init => Abstract!Init
    BY DEF Init, Abstract!Init, Holder, NoRow
  <1>2. RedemptionInv /\ [Next]_vars => [Abstract!Next]_<<[c \in Consume |-> Holder(c)], winners>>
    <2> SUFFICES ASSUME RedemptionInv, [Next]_vars PROVE Abstract!Next
      OBVIOUS
    <2>. QED
      BY AbstractStep DEF Abstract!Next, Abstract!Hold, Abstract!GiveBack, Abstract!Spend, Abstract!Keep
  <1>. QED
    BY <1>1, <1>2, Bookkeeping, PTL DEF Spec, ImplementsSingleUse, Abstract!Spec
-----------------------------------------------------------------------------
(* What a step may do to a row. *)

(* The store applies a call for a request that waits for the answer, or one that
   nobody waits for any more, or the table is left alone. *)
LEMMA StoreStep ==
    ASSUME TypeOK, [Next]_vars
    PROVE  \/ rows' = rows
           \/ \E r \in Request :
                 /\ now' = now
                 /\ \/ ApplyLease(r)
                    \/ /\ ApplyCommit(r) \/ ApplyRelease(r)
                       /\ \/ pc[r] \in {"committing", "releasing", "rollback"} /\ pc'[r] # pc[r]
                          \/ \E call \in limbo \ limbo' : call.req = r
  <1> DEFINE Applied == \E r \in Request :
                 /\ now' = now
                 /\ \/ ApplyLease(r)
                    \/ /\ ApplyCommit(r) \/ ApplyRelease(r)
                       /\ \/ pc[r] \in {"committing", "releasing", "rollback"} /\ pc'[r] # pc[r]
                          \/ \E call \in limbo \ limbo' : call.req = r
  <1>1. ASSUME NEW r \in Request, Verify(r) \/ Forward(r) \/ StoreError(r) \/ Abandon(r) PROVE rows' = rows
    BY <1>1 DEF Verify, Forward, StoreError, Abandon
  <1>2. ASSUME NEW r \in Request, Lease(r) PROVE Applied
    BY <1>2 DEF Lease
  <1>3. ASSUME NEW r \in Request, CommitLease(r) PROVE Applied
    <2>1. pc'[r] = CommitReply(r)
      BY <1>3, GotoFacts DEF CommitLease
    <2>. QED
      BY <1>3, <2>1 DEF CommitLease, CommitReply
  <1>4. ASSUME NEW r \in Request, ReleaseLease(r) PROVE Applied
    <2>1. pc'[r] = ReleaseReply(pc[r])
      BY <1>4, GotoFacts DEF ReleaseLease
    <2>. QED
      BY <1>4, <2>1 DEF ReleaseLease, ReleaseReply
  <1>5. ASSUME NEW call \in limbo, LateCall(call) PROVE Applied
    <2>1. call.req \in Request /\ call.op \in {"lease", "commit", "release"}
      BY DEF TypeOK, Calls
    <2>2. call \in limbo \ limbo' /\ now' = now
      BY <1>5 DEF LateCall
    <2>3. ApplyLease(call.req) \/ ApplyCommit(call.req) \/ ApplyRelease(call.req)
      BY <1>5, <2>1 DEF LateCall, Apply
    <2>. QED
      BY <2>1, <2>2, <2>3
  <1>6. CASE Tick \/ UNCHANGED vars
    BY <1>6 DEF Tick, vars
  <1>. QED
    BY <1>1, <1>2, <1>3, <1>4, <1>5, <1>6 DEF Next, Answer, Quiesce

(* No step changes a commit that is retained. *)
LEMMA CommitStays ==
    ASSUME TypeOK, [Next]_vars, NEW c \in Consume, rows[c].state = "committed", rows[c].expiry > now
    PROVE  rows'[c] = rows[c]
  <1>0. rows \in Table /\ now \in Nat /\ \A r \in Request : key[r] \in Consume
    BY DEF TypeOK, Table
  <1>1. ASSUME NEW r \in Request, ApplyLease(r) PROVE rows'[c] = rows[c]
    BY <1>1, LeaseRows
  <1>2. ASSUME NEW r \in Request, ApplyCommit(r) PROVE rows'[c] = rows[c]
    BY <1>0, <1>2, CommitFacts DEF ApplyCommit, Owns
  <1>3. ASSUME NEW r \in Request, ApplyRelease(r) PROVE rows'[c] = rows[c]
    BY <1>0, <1>3, ReleaseFacts DEF ApplyRelease
  <1>. QED
    BY <1>1, <1>2, <1>3, StoreStep

(* A recorded redemption is untouchable while it is retained, at the cap too: no
   release, eviction, late call or newer request changes it. *)
THEOREM CommitsAreKept == Spec => LiveCommitUntouched
  <1>1. TypeOK /\ [Next]_vars =>
           [\A c \in Consume :
               rows[c].state = "committed" /\ rows[c].expiry > now => rows'[c] = rows[c]]_vars
    BY CommitStays
  <1>. QED
    BY <1>1, TypeCorrect, PTL DEF Spec, LiveCommitUntouched

(* The keys never change, and so nor does what is wanted and whether it fits. *)
LEMMA KeysStay == ASSUME [Next]_vars PROVE key' = key /\ Wanted' = Wanted /\ Fits' = Fits
  <1>1. key' = key
    BY DEF Next, Answer, Verify, Lease, Forward, CommitLease, ReleaseLease, StoreError, Abandon,
           LateCall, Tick, Quiesce, vars
  <1>2. Wanted' = Wanted
    BY <1>1 DEF Wanted
  <1>. QED
    BY <1>1, <1>2 DEF Fits

(* Only the row of a presented consume is ever written. *)
LEMMA WantedStep == ASSUME TypeOK, RowsAreWanted, [Next]_vars PROVE RowsAreWanted'
  <1>0. rows \in Table /\ now \in Nat /\ \A r \in Request : key[r] \in Consume
    BY DEF TypeOK, Table
  <1>1. \A c \in Consume : rows[c].state # "none" => c \in Wanted
    BY <1>0 DEF RowsAreWanted, Present, Table
  <1>2. ASSUME rows' \in Table, NEW r \in Request,
               \A c \in Consume : c = key[r] \/ rows'[c] = rows[c] \/ rows'[c].state = "none"
        PROVE  RowsAreWanted'
    <2>1. key[r] \in Wanted
      BY DEF Wanted
    <2>2. \A c \in Consume : rows'[c].state # "none" => c \in Wanted'
      BY <1>1, <1>2, <2>1, KeysStay
    <2>. QED
      BY <1>2, <2>2 DEF RowsAreWanted, Present, Table
  <1>3. ASSUME NEW r \in Request, ApplyLease(r) PROVE RowsAreWanted'
    <2>1. rows' \in TryLease(rows, key[r], now, LeaseTtl, MaxEntries, r)
      BY <1>3 DEF ApplyLease
    <2>2. /\ rows' \in Table
          /\ \A c \in Consume :
                c = key[r] \/ rows'[c] = Retain(rows, now)[c] \/ rows'[c] = NoRow
      <3>1. key[r] \in Consume /\ rows \in Table /\ now \in Nat
        BY <1>0
      <3>2. rows' \in Table /\ \A c \in Consume :
               \/ rows'[c] = Retain(rows, now)[c]
               \/ Retain(rows, now)[c].state = "leased" /\ rows'[c] = NoRow
               \/ c = key[r] /\ Verdict(rows, key[r], now) = "ok" /\ rows'[c] = LeaseRow(now + LeaseTtl, r)
        BY <3>1, <2>1, TryLeaseFacts
      <3>. QED
        BY <3>2
    <2>3. \A c \in Consume : Retain(rows, now)[c] = rows[c] \/ Retain(rows, now)[c] = NoRow
      BY <1>0, RetainFacts
    <2>4. NoRow.state = "none"
      BY DEF NoRow
    <2>. QED
      BY <1>2, <2>2, <2>3, <2>4
  <1>4. ASSUME NEW r \in Request, ApplyCommit(r) PROVE RowsAreWanted'
    BY <1>0, <1>2, <1>4, CommitFacts DEF ApplyCommit
  <1>5. ASSUME NEW r \in Request, ApplyRelease(r) PROVE RowsAreWanted'
    BY <1>0, <1>2, <1>5, ReleaseFacts DEF ApplyRelease
  <1>6. CASE rows' = rows
    BY <1>6, KeysStay DEF RowsAreWanted
  <1>. QED
    BY <1>3, <1>4, <1>5, <1>6, StoreStep

(* Every row belongs to a consume that some request presented. *)
THEOREM RowsArePresented == Spec => []RowsAreWanted
  <1>1. Init => TypeOK /\ RowsAreWanted
    <2> SUFFICES ASSUME Init PROVE RowsAreWanted
      BY InitTypes
    <2>. QED
      BY DEF Init, RowsAreWanted, Present, NoRow
  <1>2. TypeOK /\ RowsAreWanted /\ [Next]_vars => (TypeOK /\ RowsAreWanted)'
    BY TypeStep, WantedStep
  <1>. QED
    BY <1>1, <1>2, PTL DEF Spec

(* While what is wanted fits, a lease attempt finds room for its row. *)
LEMMA NoVictims ==
    ASSUME Fits, NEW tab \in Table, Present(tab) \subseteq Wanted, NEW k \in Wanted, NEW t \in Nat,
           k \in Consume, Verdict(tab, k, t) = "ok"
    PROVE  Victims(Retain(tab, t), MaxEntries) = {}
  <1> DEFINE kept == Retain(tab, t)
  <1>1. kept \in Table /\ kept[k].state = "none"
    BY RetainFacts, VerdictFacts
  <1>2. Present(kept) \in SUBSET (Wanted \ {k})
    <2>1. \A c \in Consume : kept[c].state # "none" => tab[c].state # "none"
      BY RetainFacts DEF NoRow
    <2>. QED
      BY <1>1, <2>1 DEF Present, Table
  <1>3. IsFiniteSet(Wanted \ {k}) /\ Cardinality(Wanted \ {k}) = Cardinality(Wanted) - 1
    BY FS_RemoveElement DEF Fits
  <1>4. IsFiniteSet(Present(kept)) /\ Cardinality(Present(kept)) <= Cardinality(Wanted) - 1
    BY <1>2, <1>3, FS_Subset
  <1>5. Cardinality(Present(kept)) \in Nat /\ Cardinality(Wanted) \in Nat /\ Capacity(MaxEntries) \in Nat
    BY <1>4, FS_CardinalityType, ConstantTypes DEF Fits, Capacity
  <1>6. Cardinality(Present(kept)) < Capacity(MaxEntries)
    BY <1>4, <1>5 DEF Fits
  <1>. QED
    BY <1>6 DEF Victims

(* With room a lease attempt changes no unexpired row, and inserts its own on "ok". *)
LEMMA RoomyLease ==
    ASSUME Fits, TypeOK, RowsAreWanted, NEW r \in Request, ApplyLease(r)
    PROVE  /\ \A c \in Consume : rows[c].state # "none" /\ rows[c].expiry > now => rows'[c] = rows[c]
           /\ Verdict(rows, key[r], now) = "ok" => rows'[key[r]] = LeaseRow(now + LeaseTtl, r)
  <1> DEFINE kept == Retain(rows, now)
  <1>0. rows \in Table /\ key[r] \in Consume /\ now \in Nat /\ key[r] \in Wanted
    BY DEF TypeOK, Table, Wanted
  <1>1. rows' \in TryLease(rows, key[r], now, LeaseTtl, MaxEntries, r)
    BY DEF ApplyLease
  <1>2. kept \in Table /\ \A c \in Consume : rows[c].expiry > now => kept[c] = rows[c]
    BY <1>0, RetainFacts
  <1>3. CASE Verdict(rows, key[r], now) # "ok"
    BY <1>1, <1>2, <1>3 DEF TryLease
  <1>4. CASE Verdict(rows, key[r], now) = "ok"
    <2>1. Victims(kept, MaxEntries) = {}
      BY <1>0, <1>4, NoVictims DEF RowsAreWanted
    <2>2. rows' = [kept EXCEPT ![key[r]] = LeaseRow(now + LeaseTtl, r)]
      BY <1>1, <1>4, <2>1 DEF TryLease, Evicted
    <2>3. kept[key[r]].state = "none"
      BY <1>0, <1>4, VerdictFacts
    <2>. QED
      BY <1>0, <1>2, <2>2, <2>3 DEF Table
  <1>. QED
    BY <1>3, <1>4

(* With room an unexpired lease changes only by a commit or release of its owner. *)
LEMMA LeaseMovedByOwner ==
    ASSUME Fits, TypeOK, RowsAreWanted, [Next]_vars,
           NEW c \in Consume, rows[c].state = "leased", rows[c].expiry > now, rows'[c] # rows[c]
    PROVE  \/ /\ pc[rows[c].token] \in {"committing", "releasing", "rollback"}
              /\ pc'[rows[c].token] # pc[rows[c].token]
           \/ \E call \in limbo \ limbo' : call.req = rows[c].token
  <1>0. rows \in Table /\ now \in Nat /\ \A r \in Request : key[r] \in Consume
    BY DEF TypeOK, Table
  <1>1. ASSUME NEW r \in Request PROVE ~ApplyLease(r)
    BY <1>1, RoomyLease
  <1>2. ASSUME NEW r \in Request, ApplyCommit(r) PROVE rows[c].token = r
    BY <1>0, <1>2, CommitFacts DEF ApplyCommit, Owns
  <1>3. ASSUME NEW r \in Request, ApplyRelease(r) PROVE rows[c].token = r
    BY <1>0, <1>3, ReleaseFacts DEF ApplyRelease
  <1>. QED
    BY <1>1, <1>2, <1>3, StoreStep

(* "A request whose lease lapsed can never clear or overwrite a newer holder's", while the
   table has room. *)
THEOREM LeasesAreOwned == Spec => OnlyOwnerMovesLease
  <1> DEFINE A == Fits => \A c \in Consume :
          rows[c].state = "leased" /\ rows[c].expiry > now /\ rows'[c] # rows[c]
          => LET owner == rows[c].token
             IN  \/ pc[owner] \in {"committing", "releasing", "rollback"} /\ pc'[owner] # pc[owner]
                 \/ \E call \in limbo \ limbo' : call.req = owner
  <1>1. TypeOK /\ RowsAreWanted /\ [Next]_vars => [A]_vars
    <2> SUFFICES ASSUME TypeOK, RowsAreWanted, [Next]_vars PROVE A
      OBVIOUS
    <2>. QED
      BY LeaseMovedByOwner
  <1>. QED
    BY <1>1, TypeCorrect, RowsArePresented, PTL DEF Spec, OnlyOwnerMovesLease
-----------------------------------------------------------------------------
(* With a lease that outlives its request. *)

(* A request moves by a step of its own only. *)
LEMMA OwnStep ==
    ASSUME TypeOK, [Next]_vars, NEW r \in Request
    PROVE  \/ pc'[r] = pc[r] /\ due'[r] = due[r]
           \/ Verify(r) \/ Lease(r) \/ Forward(r) \/ CommitLease(r) \/ ReleaseLease(r)
           \/ StoreError(r) \/ Abandon(r)
  <1> DEFINE Moved(s) == Verify(s) \/ Lease(s) \/ Forward(s) \/ CommitLease(s) \/ ReleaseLease(s)
                         \/ StoreError(s) \/ Abandon(s)
  <1>1. ASSUME NEW s \in Request, Moved(s), s # r PROVE pc'[r] = pc[r] /\ due'[r] = due[r]
    <2>1. \E p : Goto(s, p)
      BY <1>1 DEF Verify, Lease, Forward, CommitLease, ReleaseLease, StoreError, Abandon
    <2>. QED
      BY <1>1, <2>1, GotoFacts
  <1>2. ASSUME NEW call \in limbo, LateCall(call) PROVE pc'[r] = pc[r] /\ due'[r] = due[r]
    BY <1>2 DEF LateCall
  <1>3. CASE Tick \/ UNCHANGED vars
    BY <1>3 DEF Tick, vars
  <1>. QED
    BY <1>1, <1>2, <1>3 DEF Next, Answer, Quiesce

(* A release is abandoned by the request that waits for it. *)
LEMMA ReleaseOrphaned ==
    ASSUME TypeOK, [Next]_vars, NEW r \in Request, Call("release", r) \in limbo', Call("release", r) \notin limbo
    PROVE  pc[r] \in {"releasing", "rollback"} /\ (StoreError(r) \/ Abandon(r))
  <1>1. ASSUME NEW s \in Request, Orphan(s)
        PROVE  s = r /\ pc[r] \in {"releasing", "rollback"}
    BY <1>1 DEF Orphan, Outstanding, Call
  <1>2. ASSUME NEW s \in Request, Verify(s) \/ Answer(s) PROVE FALSE
    BY <1>2 DEF Verify, Answer, Lease, Forward, CommitLease, ReleaseLease
  <1>3. ASSUME NEW call \in limbo, LateCall(call) PROVE FALSE
    BY <1>3 DEF LateCall
  <1>4. CASE Tick \/ UNCHANGED vars
    BY <1>4 DEF Tick, vars
  <1>. QED
    BY <1>1, <1>2, <1>3, <1>4 DEF Next, Quiesce, StoreError, Abandon

(* Nobody takes the row of an upload that holds its lease. *)
LEMMA HeldStays ==
    ASSUME Fits, TypeOK, RowsAreWanted, RequestInv, UploadsKeepLease, [Next]_vars,
           NEW r \in Request, pc[r] \in {"forwarding", "committing"},
           pc[r] = "committing" => pc'[r] = pc[r]
    PROVE  rows'[key[r]] = rows[key[r]]
  <1>0. /\ now \in Nat /\ due[r] \in Nat /\ key[r] \in Consume /\ CallMax \in Nat
        /\ rows[key[r]].expiry \in Nat
    BY ConstantTypes DEF TypeOK, Row
  <1>1. now <= due[r]
    BY DEF RequestInv, OnTime, InFlight
  <1>2. rows[key[r]].state = "leased" /\ rows[key[r]].token = r /\ rows[key[r]].expiry > now
    BY <1>0, <1>1 DEF UploadsKeepLease, Owns
  <1>3. ASSUME NEW call \in limbo, call.req = r PROVE FALSE
    <2>1. call.op \in {"lease", "commit", "release"} /\ call = Call(call.op, r)
      BY <1>3 DEF TypeOK, Calls, Call
    <2>2. pc[r] \in Ended \cup {"rollback"}
      BY <2>1, <1>3 DEF RequestInv, OrphansHaveNoCaller, UploadsKeepLease
    <2>. QED
      BY <2>2 DEF Ended
  <1>. QED
    BY <1>0, <1>2, <1>3, LeaseMovedByOwner

(* Every step keeps the leases of uploads and loses none. *)
LEMMA UploadStep ==
    ASSUME LeaseMargin, TypeOK, RowsAreWanted, RequestInv, UploadsKeepLease, [Next]_vars
    PROVE  UploadsKeepLease'
  <1> SUFFICES ASSUME Fits, NEW r \in Request
               PROVE  /\ pc'[r] = "forwarding" => Owns(rows', key[r], r, due'[r] + CallMax)
                      /\ pc'[r] = "committing" => Owns(rows', key[r], r, due'[r])
                      /\ Call("release", r) \in limbo' => pc'[r] \in Ended
                      /\ pc'[r] # "lost"
    BY KeysStay DEF UploadsKeepLease, Call
  <1>0. /\ now \in Nat /\ due[r] \in Nat /\ key[r] \in Consume
        /\ CallMax \in Nat /\ ForwardMax \in Nat /\ LeaseTtl \in Nat
        /\ rows \in Table /\ rows[key[r]].expiry \in Nat
    BY ConstantTypes DEF TypeOK, Row, Table
  <1>1. pc[r] \in InFlight => now <= due[r]
    BY DEF RequestInv, OnTime
  <1>2. Call("release", r) \in limbo' => Call("release", r) \in limbo
           \/ (pc[r] \in {"releasing", "rollback"} /\ (StoreError(r) \/ Abandon(r)))
    BY ReleaseOrphaned
  <1>3. CASE pc'[r] = pc[r] /\ due'[r] = due[r]
    <2>1. pc[r] \in {"forwarding", "committing"} => rows'[key[r]] = rows[key[r]]
      BY <1>3, HeldStays
    <2>2. StoreError(r) \/ Abandon(r) => pc'[r] # pc[r]
      BY GotoFacts DEF StoreError, Outstanding, AfterError, ReleaseReply, Abandon, InFlight
    <2>. QED
      BY <1>2, <1>3, <2>1, <2>2 DEF UploadsKeepLease, Owns
  <1>4. CASE Verify(r)
    <2>1. pc[r] = "idle" /\ pc'[r] \in {"verified", "denied"} /\ limbo' = limbo
      BY <1>4, GotoFacts DEF Verify
    <2>. QED
      BY <2>1 DEF UploadsKeepLease, Ended
  <1>5. CASE Lease(r)
    <2> DEFINE p == AfterLease(Verdict(rows, key[r], now))
    <2>1. pc[r] = "verified" /\ pc'[r] = p /\ due'[r] = EndsBy(p) /\ limbo' = limbo /\ ApplyLease(r)
      BY <1>5, GotoFacts DEF Lease
    <2>2. p \in {"forwarding", "leased", "redeemed"} /\ (p = "forwarding" => Verdict(rows, key[r], now) = "ok")
      BY <1>0, VerdictFacts DEF AfterLease
    <2>3. CASE p = "forwarding"
      <3>1. rows'[key[r]] = LeaseRow(now + LeaseTtl, r)
        BY <2>1, <2>2, <2>3, RoomyLease
      <3>2. due'[r] = now + CallMax + ForwardMax
        BY <2>1, <2>3 DEF EndsBy
      <3>. QED
        BY <1>0, <2>1, <2>3, <3>1, <3>2 DEF LeaseMargin, LeaseRow, Owns, UploadsKeepLease, Ended
    <2>. QED
      BY <2>1, <2>2, <2>3 DEF UploadsKeepLease, Ended
  <1>6. CASE Forward(r)
    <2>1. PICK p \in {"committing", "releasing"} : Goto(r, p)
      BY <1>6 DEF Forward
    <2>2. pc[r] = "forwarding" /\ pc'[r] = p /\ due'[r] = now + CallMax /\ limbo' = limbo /\ rows' = rows
      BY <1>6, <2>1, GotoFacts DEF Forward, EndsBy
    <2>3. Owns(rows, key[r], r, due[r] + CallMax) /\ now <= due[r]
      BY <1>1, <2>2 DEF UploadsKeepLease, InFlight
    <2>. QED
      BY <1>0, <2>2, <2>3 DEF UploadsKeepLease, Owns, Ended
  <1>7. CASE CommitLease(r)
    <2>1. pc[r] = "committing" /\ pc'[r] = CommitReply(r) /\ limbo' = limbo
      BY <1>7, GotoFacts DEF CommitLease
    <2>2. Owns(rows, key[r], r, now)
      BY <1>0, <1>1, <2>1 DEF UploadsKeepLease, Owns, InFlight
    <2>. QED
      BY <2>1, <2>2 DEF CommitReply, UploadsKeepLease, Ended
  <1>8. CASE ReleaseLease(r)
    <2>1. pc'[r] \in {"upstream_error", "commit_failed"}
      BY <1>8, GotoFacts DEF ReleaseLease, ReleaseReply
    <2>. QED
      BY <2>1 DEF Ended
  <1>9. CASE StoreError(r)
    <2>1. pc[r] \in {"verified", "committing", "releasing", "rollback"}
      BY <1>9 DEF StoreError, Outstanding
    <2>2. pc'[r] = AfterError(pc[r])
      BY <1>9, GotoFacts DEF StoreError
    <2>. QED
      BY <1>2, <2>1, <2>2 DEF AfterError, ReleaseReply, UploadsKeepLease, Ended
  <1>10. CASE Abandon(r)
    <2>1. pc'[r] = "gone"
      BY <1>10, GotoFacts DEF Abandon
    <2>. QED
      BY <2>1 DEF Ended
  <1>. QED
    BY <1>3, <1>4, <1>5, <1>6, <1>7, <1>8, <1>9, <1>10, OwnStep

(* With LeaseMargin, uploads keep their leases while the table has room. *)
THEOREM UploadsHoldTheirLease ==
    ASSUME LeaseMargin PROVE Spec => []UploadsKeepLease
  <1> DEFINE Inv == TypeOK /\ RowsAreWanted /\ RequestInv /\ UploadsKeepLease
  <1>1. Init => Inv
    <2> SUFFICES ASSUME Init PROVE Inv
      OBVIOUS
    <2>1. RequestInv /\ UploadsKeepLease
      BY DEF Init, RequestInv, OnTime, NotEarly, OrphansHaveNoCaller, UploadsKeepLease, InFlight
    <2>2. RowsAreWanted
      BY DEF Init, RowsAreWanted, Present, NoRow
    <2>. QED
      BY <2>1, <2>2, InitTypes
  <1>2. Inv /\ [Next]_vars => Inv'
    BY TypeStep, WantedStep, RequestStep, UploadStep
  <1>. QED
    BY <1>1, <1>2, PTL DEF Spec

(* With room and LeaseMargin, two handlers never have the same consume at the upstream:
   both would hold its one lease. *)
THEOREM UploadsAreAlone ==
    ASSUME LeaseMargin PROVE Spec => []NoConcurrentUploads
  <1>1. UploadsKeepLease => NoConcurrentUploads
    BY DEF UploadsKeepLease, NoConcurrentUploads, Owns
  <1>. QED
    BY <1>1, UploadsHoldTheirLease, PTL

(* With both margins, rows change by their owners and the clock only, while the table has room. *)
THEOREM OwnersKeepTheirRows ==
    ASSUME LeaseMargin, RetentionMargin PROVE Spec => RowsKeepTheirOwners
  BY Bookkeeping, RowsArePresented, UploadsHoldTheirLease, CommitsAreKept, LeasesAreOwned, PTL DEF RowsKeepTheirOwners
-----------------------------------------------------------------------------
(* The table at its cap. *)

(* Of some numbers one is the least. *)
LEMMA Earliest ==
    ASSUME NEW T \in SUBSET Nat, T # {}
    PROVE  \E x \in T : \A y \in T : x <= y
  <1>1. PICK x \in T : \A y \in T : ~(<<y, x>> \in OpToRel(<, Nat))
    BY NatLessThanWellFounded, WFMin
  <1>2. \A y \in T : ~(y < x)
    BY <1>1 DEF OpToRel
  <1>. QED
    BY <1>2

(* A full table without a victim has no lease. *)
LEMMA NoVictimNoLease ==
    ASSUME NEW tab \in Table, Victims(tab, MaxEntries) = {},
           ~(Cardinality(Present(tab)) < Capacity(MaxEntries))
    PROVE  Leases(tab) = {}
  <1> SUFFICES ASSUME Leases(tab) # {} PROVE FALSE
    OBVIOUS
  <1> DEFINE T == {tab[k].expiry : k \in Leases(tab)}
  <1>1. T \in SUBSET Nat /\ T # {}
    BY DEF Table, Row, Leases
  <1>2. PICK x \in T : \A y \in T : x <= y
    BY <1>1, Earliest
  <1>3. PICK k \in Leases(tab) : x = tab[k].expiry
    BY <1>2
  <1>4. \A j \in Leases(tab) : tab[k].expiry <= tab[j].expiry
    BY <1>2, <1>3
  <1>. QED
    BY <1>3, <1>4 DEF Victims

(* Whatever only removes rows, or turns leases into commits, keeps the cap. *)
LEMMA CapShrinks ==
    ASSUME IsFiniteSet(Consume), NEW tab \in Table, NEW new \in Table,
           Leases(new) \subseteq Leases(tab), Present(new) \subseteq Present(tab),
           \/ Cardinality(Leases(tab)) <= 1
           \/ Cardinality(Present(tab)) <= Capacity(MaxEntries)
    PROVE  \/ Cardinality(Leases(new)) <= 1
           \/ Cardinality(Present(new)) <= Capacity(MaxEntries)
  <1>1. Leases(tab) \in SUBSET Consume /\ Present(tab) \in SUBSET Consume
    BY DEF Leases, Present, Table
  <1>2. IsFiniteSet(Leases(tab)) /\ IsFiniteSet(Present(tab))
    BY <1>1, FS_Subset
  <1>3. /\ IsFiniteSet(Leases(new)) /\ Cardinality(Leases(new)) <= Cardinality(Leases(tab))
        /\ IsFiniteSet(Present(new)) /\ Cardinality(Present(new)) <= Cardinality(Present(tab))
    BY <1>2, FS_Subset
  <1>4. /\ Cardinality(Leases(tab)) \in Nat /\ Cardinality(Present(tab)) \in Nat
        /\ Cardinality(Leases(new)) \in Nat /\ Cardinality(Present(new)) \in Nat
        /\ Capacity(MaxEntries) \in Nat
    BY <1>2, <1>3, FS_CardinalityType, ConstantTypes DEF Capacity
  <1>. QED
    BY <1>3, <1>4

(* A set that loses one member and gains one keeps its size. *)
LEMMA Swapped ==
    ASSUME NEW S, IsFiniteSet(S), NEW v \in S, NEW k, k \notin S
    PROVE  Cardinality((S \ {v}) \cup {k}) = Cardinality(S)
  <1>1. IsFiniteSet(S \ {v}) /\ Cardinality(S \ {v}) = Cardinality(S) - 1
    BY FS_RemoveElement
  <1>2. Cardinality((S \ {v}) \cup {k}) = Cardinality(S \ {v}) + 1
    BY <1>1, FS_AddElement
  <1>3. Cardinality(S) \in Nat
    BY FS_CardinalityType
  <1>. QED
    BY <1>1, <1>2, <1>3

(* A lease attempt keeps the cap: it fits in, or is the only lease, or displaces one. *)
LEMMA CapLease ==
    ASSUME IsFiniteSet(Consume), NEW tab \in Table, NEW k \in Consume, NEW t \in Nat, NEW r \in Request,
           NEW new \in TryLease(tab, k, t, LeaseTtl, MaxEntries, r),
           \/ Cardinality(Leases(tab)) <= 1
           \/ Cardinality(Present(tab)) <= Capacity(MaxEntries)
    PROVE  \/ Cardinality(Leases(new)) <= 1
           \/ Cardinality(Present(new)) <= Capacity(MaxEntries)
  <1> DEFINE kept == Retain(tab, t)
             row == LeaseRow(t + LeaseTtl, r)
             Small(x) == \/ Cardinality(Leases(x)) <= 1
                         \/ Cardinality(Present(x)) <= Capacity(MaxEntries)
  <1>1. kept \in Table /\ \A c \in Consume : kept[c] = IF tab[c].expiry > t THEN tab[c] ELSE NoRow
    BY RetainFacts
  <1>2. Leases(kept) \subseteq Leases(tab) /\ Present(kept) \subseteq Present(tab)
    BY <1>1 DEF Leases, Present, Table, NoRow
  <1>3. Small(kept)
    BY <1>1, <1>2, CapShrinks
  <1>4. CASE Verdict(tab, k, t) # "ok"
    BY <1>3, <1>4 DEF TryLease
  <1>5. CASE Verdict(tab, k, t) = "ok"
    <2>1. kept[k].state = "none"
      BY <1>5, VerdictFacts
    <2>2. PICK e \in Evicted(kept, MaxEntries) : new = [e EXCEPT ![k] = row]
      BY <1>5 DEF TryLease
    <2>3. row.state = "leased"
      BY DEF LeaseRow
    <2>4. Leases(kept) \in SUBSET Consume /\ Present(kept) \in SUBSET Consume
      BY <1>1 DEF Leases, Present, Table
    <2>5. IsFiniteSet(Leases(kept)) /\ IsFiniteSet(Present(kept))
      BY <2>4, FS_Subset
    <2>6. CASE Victims(kept, MaxEntries) = {}
      <3>1. new = [kept EXCEPT ![k] = row]
        BY <2>2, <2>6 DEF Evicted
      <3>2. Leases(new) = Leases(kept) \cup {k} /\ Present(new) = Present(kept) \cup {k}
        BY <1>1, <2>3, <3>1 DEF Leases, Present, Table
      <3>3. CASE Cardinality(Present(kept)) < Capacity(MaxEntries)
        <4>1. k \notin Present(kept)
          BY <2>1 DEF Present
        <4>2. Cardinality(Present(new)) = Cardinality(Present(kept)) + 1
          BY <2>5, <3>2, <4>1, FS_AddElement
        <4>3. Cardinality(Present(kept)) \in Nat /\ Capacity(MaxEntries) \in Nat
          BY <2>5, FS_CardinalityType, ConstantTypes DEF Capacity
        <4>. QED
          BY <3>3, <4>2, <4>3
      <3>4. CASE ~(Cardinality(Present(kept)) < Capacity(MaxEntries))
        <4>1. Leases(new) = {k}
          BY <1>1, <2>6, <3>2, <3>4, NoVictimNoLease
        <4>2. Cardinality(Leases(new)) = 1
          BY <4>1, FS_Singleton
        <4>. QED
          BY <4>2
      <3>. QED
        BY <3>3, <3>4
    <2>7. CASE Victims(kept, MaxEntries) # {}
      <3>1. PICK v \in Victims(kept, MaxEntries) : e = [kept EXCEPT ![v] = NoRow]
        BY <2>2, <2>7 DEF Evicted
      <3>2. v \in Leases(kept) /\ v \in Present(kept) /\ v # k
        BY <2>1, <3>1 DEF Victims, Leases, Present
      <3>3. k \notin Leases(kept) /\ k \notin Present(kept)
        BY <2>1 DEF Leases, Present
      <3>4. \A c \in Consume : new[c] = IF c = k THEN row ELSE IF c = v THEN NoRow ELSE kept[c]
        BY <1>1, <2>2, <3>1, <3>2 DEF Table
      <3>5. DOMAIN new = Consume /\ DOMAIN kept = Consume /\ NoRow.state = "none"
        BY <1>1, <2>2, <3>1 DEF Table, NoRow
      <3>6. Leases(new) = (Leases(kept) \ {v}) \cup {k}
        BY <2>3, <3>2, <3>4, <3>5 DEF Leases
      <3>7. Present(new) = (Present(kept) \ {v}) \cup {k}
        BY <2>3, <3>2, <3>4, <3>5 DEF Present
      <3>8. /\ Cardinality(Leases(new)) = Cardinality(Leases(kept))
            /\ Cardinality(Present(new)) = Cardinality(Present(kept))
        BY <2>5, <3>2, <3>3, <3>6, <3>7, Swapped
      <3>. QED
        BY <1>3, <3>8
    <2>. QED
      BY <2>6, <2>7
  <1>. QED
    BY <1>4, <1>5

LEMMA CapStep ==
    ASSUME IsFiniteSet(Consume), TypeOK, CapExceededByCommitsOnly, [Next]_vars
    PROVE  CapExceededByCommitsOnly'
  <1>0. rows \in Table /\ now \in Nat /\ \A r \in Request : key[r] \in Consume
    BY DEF TypeOK, Table
  <1>1. ASSUME NEW r \in Request, ApplyLease(r) PROVE CapExceededByCommitsOnly'
    <2>1. rows' \in TryLease(rows, key[r], now, LeaseTtl, MaxEntries, r)
      BY <1>1 DEF ApplyLease
    <2>. QED
      BY <1>0, <2>1, CapLease DEF CapExceededByCommitsOnly
  <1>2. ASSUME NEW r \in Request, ApplyCommit(r) PROVE CapExceededByCommitsOnly'
    <2>1. rows' \in Table /\ \A c \in Consume :
             rows'[c] = IF c = key[r] /\ Owns(rows, key[r], r, now) THEN CommitRow(now + Retention) ELSE rows[c]
      BY <1>0, <1>2, CommitFacts DEF ApplyCommit
    <2>2. Leases(rows') \subseteq Leases(rows) /\ Present(rows') \subseteq Present(rows)
      BY <1>0, <2>1 DEF Leases, Present, Table, CommitRow, Owns
    <2>. QED
      BY <1>0, <2>1, <2>2, CapShrinks DEF CapExceededByCommitsOnly
  <1>3. ASSUME NEW r \in Request, ApplyRelease(r) PROVE CapExceededByCommitsOnly'
    <2>1. rows' \in Table /\ \A c \in Consume : rows'[c] = rows[c] \/ rows'[c] = NoRow
      BY <1>0, <1>3, ReleaseFacts DEF ApplyRelease
    <2>2. Leases(rows') \subseteq Leases(rows) /\ Present(rows') \subseteq Present(rows)
      BY <1>0, <2>1 DEF Leases, Present, Table, NoRow
    <2>. QED
      BY <1>0, <2>1, <2>2, CapShrinks DEF CapExceededByCommitsOnly
  <1>4. CASE rows' = rows
    BY <1>4 DEF CapExceededByCommitsOnly
  <1>. QED
    BY <1>1, <1>2, <1>3, <1>4, StoreStep

(* The table outgrows `max_entries` by commits alone, for every cap and however many
   consumes are presented. *)
THEOREM OnlyCommitsExceedTheCap ==
    ASSUME IsFiniteSet(Consume) PROVE Spec => []CapExceededByCommitsOnly
  <1>1. Init => CapExceededByCommitsOnly
    <2> SUFFICES ASSUME Init PROVE CapExceededByCommitsOnly
      OBVIOUS
    <2>1. Leases(rows) = {}
      BY DEF Init, Leases, NoRow
    <2>. QED
      BY <2>1, FS_EmptySet DEF CapExceededByCommitsOnly
  <1>2. TypeOK /\ CapExceededByCommitsOnly /\ [Next]_vars => CapExceededByCommitsOnly'
    BY CapStep
  <1>. QED
    BY <1>1, <1>2, TypeCorrect, PTL DEF Spec

(* With margin a table at its cap spends no consume twice and forgets no live commit. *)
THEOREM FullTableIsSafe ==
    ASSUME IsFiniteSet(Consume), RetentionMargin PROVE Spec => FullTableSpendsOnce
  BY RedeemedAtMostOnce, OnlyCommitsExceedTheCap, CommitsAreKept, PTL DEF FullTableSpendsOnce
-----------------------------------------------------------------------------
(* The nonces of the TypeScript gateway. *)

(* The typed constants, each on its own. *)
LEMMA KvTypes ==
    /\ Ttl \in Nat /\ Ttl > 0 /\ KvMinTtl \in Nat
    /\ Home \in [Isolate -> Region]
    /\ Ts!None \notin Nonce
  <1>1. \A x \in {Ttl, KvMinTtl, MaxNonces} : x \in Nat \ {0}
    BY Zenon, NonceConstants DEF Ts!KvConstants
  <1>2. Home \in [Isolate -> Region] /\ "none" \notin Nonce
    BY NonceConstants DEF Ts!KvConstants
  <1>. QED
    BY <1>1, <1>2 DEF Ts!None

(* Issuing stores the nonce with its deadline, and otherwise only forgets. *)
LEMMA KvIssueFacts ==
    ASSUME NEW tab \in [Nonce -> Nat], NEW n \in Nonce, NEW t \in Nat,
           NEW new \in Ts!Issue(tab, n, t, Ttl, MaxNonces)
    PROVE  /\ new \in [Nonce -> Nat] /\ new[n] = t + Ttl
           /\ \A m \in Nonce : m # n => new[m] = tab[m] \/ new[m] = Ts!Absent
  <1> DEFINE kept == Ts!Prune(tab, t)
             drops == Ts!Oldest(kept, MaxNonces)
             room == IF drops = {} THEN {kept} ELSE {[kept EXCEPT ![v] = Ts!Absent] : v \in drops}
  <1>1. kept \in [Nonce -> Nat] /\ \A m \in Nonce : kept[m] = tab[m] \/ kept[m] = Ts!Absent
    BY DEF Ts!Prune, Ts!Absent
  <1>2. PICK tab2 \in room : new = [tab2 EXCEPT ![n] = t + Ttl]
    BY DEF Ts!Issue
  <1>3. tab2 = kept \/ \E v \in drops : tab2 = [kept EXCEPT ![v] = Ts!Absent]
    BY <1>2
  <1>4. tab2 \in [Nonce -> Nat] /\ \A m \in Nonce : tab2[m] = tab[m] \/ tab2[m] = Ts!Absent
    BY <1>1, <1>3 DEF Ts!Absent
  <1>. QED
    BY <1>2, <1>4, KvTypes

(* The steps of a request that has not ended leave the accepted requests alone, and what was
   spent stays spent. *)
LEMMA KvOthers ==
    ASSUME Ts!NonceInv, NEW q \in Request, req[q].pc # "200",
           \A p \in Request : p # q => req'[p] = req[p],
           \A n \in Nonce : taken[n] \subseteq taken'[n]
    PROVE  /\ \A n \in Nonce : \A p \in taken[n] : p \in Request /\ p # q /\ req'[p] = req[p]
           /\ \A n \in Nonce : \A r : Ts!SpentFor(n, r) => Ts!SpentFor(n, r)'
  <1>1. \A n \in Nonce : \A p \in taken[n] : p \in Request /\ p # q
    BY DEF Ts!NonceInv, Ts!AcceptedIsGone, Ts!TypeOK
  <1>2. \A n \in Nonce : \A p \in taken[n] : req'[p] = req[p]
    BY <1>1
  <1>. QED
    BY <1>1, <1>2 DEF Ts!SpentFor

(* So the others know what they knew, once the one that moved knows what it has to. *)
LEMMA KvKnow ==
    ASSUME Ts!NonceInv, NEW q \in Request, req[q].pc # "200",
           \A p \in Request : p # q => req'[p] = req[p],
           \A n \in Nonce : taken[n] \subseteq taken'[n],
           cfg' = cfg, \A n \in Nonce : issued[n].by # Ts!None => issued'[n] = issued[n],
           Ts!Knows(q)'
    PROVE  \A p \in Request : Ts!Knows(p)'
  <1> SUFFICES ASSUME NEW p \in Request, p # q PROVE Ts!Knows(p)'
    OBVIOUS
  <1>1. Ts!Knows(p) /\ req'[p] = req[p]
    BY DEF Ts!NonceInv
  <1>2. req[p].pc = "delete" => issued'[req[p].nonce] = issued[req[p].nonce]
    BY <1>1 DEF Ts!Knows, Ts!Kv, Ts!None
  <1>. QED
    BY <1>1, <1>2, KvOthers DEF Ts!Knows

(* Stores that only forget, and regions that only catch up, keep what they hold right. *)
LEMMA KvShrinks ==
    ASSUME Ts!NonceInv, issued' = issued,
           \A n \in Nonce : /\ object'[n] \in {object[n], Ts!Absent} /\ kv'[n] \in {kv[n], Ts!NoEntry}
                            /\ \A r \in Region : view'[r][n] \in {view[r][n], kv[n], Ts!NoEntry}
    PROVE  /\ Ts!StoresHoldTheirOwn'
           /\ \A n \in Nonce : \A p \in taken[n] :
                 /\ object'[n] = Ts!Absent /\ kv'[n] = Ts!NoEntry
                 /\ req[p].use = Ts!Kv => view'[Home[req[p].iso]][n] = Ts!NoEntry
  <1>1. Ts!StoresHoldTheirOwn'
    BY DEF Ts!NonceInv, Ts!StoresHoldTheirOwn
  <1>2. ASSUME NEW n \in Nonce, NEW p \in taken[n]
        PROVE  /\ object'[n] = Ts!Absent /\ kv'[n] = Ts!NoEntry
               /\ req[p].use = Ts!Kv => view'[Home[req[p].iso]][n] = Ts!NoEntry
    <2>1. p \in Request
      BY DEF Ts!NonceInv, Ts!TypeOK
    <2>2. /\ req[p].pc = "200" /\ object[n] = Ts!Absent /\ kv[n] = Ts!NoEntry
          /\ req[p].use = Ts!Kv => view[Home[req[p].iso]][n] = Ts!NoEntry
      BY DEF Ts!NonceInv, Ts!AcceptedIsGone
    <2>3. Home[req[p].iso] \in Region
      BY <2>1, <2>2, KvTypes DEF Ts!NonceInv, Ts!Knows
    <2>. QED
      BY <2>2, <2>3
  <1>. QED
    BY <1>1, <1>2

(* A step of one request that draws no nonce: it ends in order if the request knows what it must
   and, where it has a nonce accepted, it is the first that could. *)
LEMMA KvRequestStep ==
    ASSUME Ts!NonceInv, NEW q \in Request, req[q].pc # "200",
           NEW rec \in Ts!ReqRecord, req' = [req EXCEPT ![q] = rec],
           UNCHANGED <<kvNow, cfg, degrade, issued, evicted>>,
           object' \in [Nonce -> Nat], kv' \in [Nonce -> Ts!Entry], view' \in [Region -> [Nonce -> Ts!Entry]],
           \A n \in Nonce : /\ object'[n] \in {object[n], Ts!Absent} /\ kv'[n] \in {kv[n], Ts!NoEntry}
                            /\ \A r \in Region : view'[r][n] \in {view[r][n], kv[n], Ts!NoEntry},
           cached' \in [Isolate -> Ts!Backends \cup {Ts!None}],
           Ts!Knows(q)', Ts!StaysDurable', cfg.singleUse => rec.use # Ts!Kv,
           \/ taken' = taken
           \/ \E n \in Nonce :
                 /\ taken' = [taken EXCEPT ![n] = taken[n] \cup {q}]
                 /\ rec.pc = "200" /\ ~rec.late /\ rec.use = issued[n].by /\ rec.use \in Ts!Backends
                 /\ object'[n] = Ts!Absent /\ kv'[n] = Ts!NoEntry
                 /\ rec.use = Ts!Kv => view'[Home[rec.iso]][n] = Ts!NoEntry
                 /\ rec.use = Ts!Durable => taken[n] = {}
    PROVE  Ts!NonceInv'
  <1>1. /\ req \in [Request -> Ts!ReqRecord] /\ taken \in [Nonce -> SUBSET Request]
        /\ req'[q] = rec /\ \A p \in Request : p # q => req'[p] = req[p]
    BY DEF Ts!NonceInv, Ts!TypeOK
  <1>2. taken' \in [Nonce -> SUBSET Request] /\ \A n \in Nonce : taken[n] \subseteq taken'[n]
    BY <1>1
  <1>3. Ts!TypeOK'
    <2>1. req' \in [Request -> Ts!ReqRecord]
      BY <1>1
    <2>2. Ts!TypeOK
      BY DEF Ts!NonceInv
    <2>. QED
      BY <1>2, <2>1, <2>2 DEF Ts!TypeOK
  <1>4. \A p \in Request : Ts!Knows(p)'
    BY <1>1, <1>2, KvKnow
  <1>5. Ts!StoresHoldTheirOwn'
    BY KvShrinks
  <1>6. \A n \in Nonce : \A p \in taken[n] : p \in Request /\ p # q /\ req'[p] = req[p]
    BY <1>1, <1>2, KvOthers
  <1>7. \A n \in Nonce : \A p \in taken'[n] : p \in taken[n] \/
           /\ p = q
           /\ rec.pc = "200" /\ ~rec.late /\ rec.use = issued[n].by /\ rec.use \in Ts!Backends
           /\ object'[n] = Ts!Absent /\ kv'[n] = Ts!NoEntry
           /\ rec.use = Ts!Kv => view'[Home[rec.iso]][n] = Ts!NoEntry
           /\ rec.use = Ts!Durable => taken[n] = {}
    BY <1>1
  <1>8. Ts!AcceptedIsGone'
    <2> SUFFICES ASSUME NEW n \in Nonce, NEW p \in taken'[n]
                 PROVE  /\ req'[p].pc = "200" /\ req'[p].use = issued'[n].by /\ req'[p].use \in Ts!Backends
                        /\ object'[n] = Ts!Absent /\ kv'[n] = Ts!NoEntry
                        /\ req'[p].use = Ts!Kv => view'[Home[req'[p].iso]][n] = Ts!NoEntry
      BY DEF Ts!AcceptedIsGone
    <2>1. CASE p \in taken[n]
      <3>1. req[p].pc = "200" /\ req[p].use = issued[n].by /\ req[p].use \in Ts!Backends
        BY <2>1 DEF Ts!NonceInv, Ts!AcceptedIsGone
      <3>2. /\ object'[n] = Ts!Absent /\ kv'[n] = Ts!NoEntry
            /\ req[p].use = Ts!Kv => view'[Home[req[p].iso]][n] = Ts!NoEntry
        BY <2>1, KvShrinks
      <3>. QED
        BY <1>6, <2>1, <3>1, <3>2
    <2>2. CASE p \notin taken[n]
      BY <1>1, <1>7, <2>2
    <2>. QED
      BY <2>1, <2>2
  <1>9. Ts!DurableOnce'
    <2> SUFFICES ASSUME NEW n \in Nonce, issued[n].by = Ts!Durable \/ cfg.singleUse,
                        NEW p \in taken'[n], NEW s \in taken'[n]
                 PROVE  p = s
      BY DEF Ts!DurableOnce
    <2>1. p \in taken[n] /\ s \in taken[n] => p = s
      BY DEF Ts!NonceInv, Ts!DurableOnce
    <2>2. q \in taken'[n] /\ q \notin taken[n] => taken[n] = {}
      <3>1. rec.use \in Ts!Backends /\ rec.use = issued[n].by /\ (cfg.singleUse => rec.use # Ts!Kv)
              => rec.use = Ts!Durable
        BY DEF Ts!Backends, Ts!Durable, Ts!Kv
      <3>. QED
        BY <1>7, <3>1
    <2>. QED
      BY <1>7, <2>1, <2>2
  <1>10. Ts!SpentIsRefused'
    <2>1. \A n \in Nonce : \A p \in taken[n] : ~req[p].late
      BY DEF Ts!NonceInv, Ts!SpentIsRefused
    <2>. QED
      BY <1>1, <1>6, <1>7, <2>1 DEF Ts!SpentIsRefused
  <1>11. Ts!RedemptionsPresent'
    BY <1>1 DEF Ts!NonceInv, Ts!RedemptionsPresent
  <1>. QED
    BY <1>3, <1>4, <1>5, <1>8, <1>9, <1>10, <1>11 DEF Ts!NonceInv

(* What a step of a request must know of the state, taken from the invariant. *)
LEMMA KvState ==
    ASSUME Ts!NonceInv
    PROVE  /\ req \in [Request -> Ts!ReqRecord] /\ taken \in [Nonce -> SUBSET Request] /\ kvNow \in Nat
           /\ object \in [Nonce -> Nat] /\ kv \in [Nonce -> Ts!Entry] /\ view \in [Region -> [Nonce -> Ts!Entry]]
           /\ cached \in [Isolate -> Ts!Backends \cup {Ts!None}]
           /\ issued \in [Nonce -> [by : Ts!Backends \cup {Ts!None}, expiry : Nat]]
           /\ \A q \in Request : Ts!Knows(q)
           /\ cfg \in [singleUse : BOOLEAN, backend : Ts!Backends, bound : BOOLEAN]
  BY DEF Ts!NonceInv, Ts!TypeOK

(* A request reaches an isolate. *)
LEMMA KvArrive ==
    ASSUME Ts!NonceInv, NEW q \in Request, NEW i \in Isolate, NEW n \in Nonce \cup {Ts!None}, Ts!Arrive(q, i, n)
    PROVE  Ts!NonceInv'
  <1> DEFINE r == [Ts!Idle EXCEPT !.iso = i, !.nonce = n, !.late = n # Ts!None /\ Ts!SpentFor(n, Home[i])]
  <1>1. /\ req[q].pc = "idle"
        /\ UNCHANGED <<kvNow, cfg, kv, view, degrade, object, issued, taken, evicted>>
    BY DEF Ts!Arrive, Ts!stores
  <1>2. /\ r \in Ts!ReqRecord /\ r.pc = "idle" /\ r.iso = i /\ r.nonce = n /\ r.use = Ts!None
        /\ r.late => n # Ts!None /\ Ts!SpentFor(n, Home[i])
    <2>1. (n # Ts!None /\ Ts!SpentFor(n, Home[i])) \in BOOLEAN
      OBVIOUS
    <2>. QED
      BY <2>1 DEF Ts!Idle, Ts!ReqRecord, Ts!Phases, Ts!Absent
  <1>3. \E rec \in Ts!ReqRecord :
           /\ req' = [req EXCEPT ![q] = rec] /\ rec.iso = i /\ rec.nonce = n /\ rec.late = r.late
           /\ \/ /\ rec.pc = "500" /\ cached' = cached /\ rec.use = Ts!None
              \/ /\ rec.pc = "flag" /\ cached' = cached /\ rec.use = Ts!None /\ ~cfg.singleUse
              \/ /\ rec.pc = (IF n = Ts!None THEN "issue" ELSE "take") /\ rec.use \in Ts!Backends
                 /\ cfg.singleUse => rec.use # Ts!Kv
                 /\ cached' = [cached EXCEPT ![i] = rec.use]
    <2>1. cached \in [Isolate -> Ts!Backends \cup {Ts!None}] /\ cfg.backend \in Ts!Backends
      BY KvState
    <2>2. CASE cached[i] # Ts!None
      <3>1. req' = [req EXCEPT ![q] = Ts!Begin(r, cached[i])] /\ cached' = cached
        BY <2>2 DEF Ts!Arrive
      <3>2. cfg.singleUse => cached[i] # Ts!Kv
        BY DEF Ts!NonceInv, Ts!StaysDurable
      <3>3. cached = [cached EXCEPT ![i] = cached[i]] /\ cached[i] \in Ts!Backends
        BY <2>1, <2>2
      <3>4. Ts!Begin(r, cached[i]) \in Ts!ReqRecord
        BY <1>2, <3>3 DEF Ts!Begin, Ts!ReqRecord, Ts!Phases
      <3>5. /\ Ts!Begin(r, cached[i]).pc = (IF n = Ts!None THEN "issue" ELSE "take")
            /\ Ts!Begin(r, cached[i]).use = cached[i] /\ Ts!Begin(r, cached[i]).iso = i
            /\ Ts!Begin(r, cached[i]).nonce = n /\ Ts!Begin(r, cached[i]).late = r.late
        BY <1>2 DEF Ts!Begin, Ts!ReqRecord
      <3> HIDE DEF r
      <3>. QED
        BY <3>1, <3>2, <3>3, <3>4, <3>5
    <2>3. CASE cached[i] = Ts!None /\ Ts!Misconfigured
      <3>1. req' = [req EXCEPT ![q] = [r EXCEPT !.pc = "500"]] /\ cached' = cached
        BY <2>3 DEF Ts!Arrive
      <3>2. [r EXCEPT !.pc = "500"] \in Ts!ReqRecord
        BY <1>2 DEF Ts!ReqRecord, Ts!Phases
      <3> HIDE DEF r
      <3>. QED
        BY <1>2, <3>1, <3>2 DEF Ts!ReqRecord
    <2>4. CASE cached[i] = Ts!None /\ ~Ts!Misconfigured /\ Ts!AsksFlag
      <3>1. req' = [req EXCEPT ![q] = [r EXCEPT !.pc = "flag"]] /\ cached' = cached
        BY <2>4 DEF Ts!Arrive
      <3>2. [r EXCEPT !.pc = "flag"] \in Ts!ReqRecord /\ ~cfg.singleUse
        BY <1>2, <2>4 DEF Ts!ReqRecord, Ts!Phases, Ts!AsksFlag
      <3> HIDE DEF r
      <3>. QED
        BY <1>2, <3>1, <3>2 DEF Ts!ReqRecord
    <2>5. CASE cached[i] = Ts!None /\ ~Ts!Misconfigured /\ ~Ts!AsksFlag
      <3>1. req' = [req EXCEPT ![q] = Ts!Begin(r, cfg.backend)] /\ cached' = [cached EXCEPT ![i] = cfg.backend]
        BY <2>5 DEF Ts!Arrive
      <3>2. cfg.singleUse => cfg.backend # Ts!Kv
        BY <2>5 DEF Ts!Misconfigured
      <3>3. Ts!Begin(r, cfg.backend) \in Ts!ReqRecord
        BY <1>2, <2>1 DEF Ts!Begin, Ts!ReqRecord, Ts!Phases
      <3>4. /\ Ts!Begin(r, cfg.backend).pc = (IF n = Ts!None THEN "issue" ELSE "take")
            /\ Ts!Begin(r, cfg.backend).use = cfg.backend /\ Ts!Begin(r, cfg.backend).iso = i
            /\ Ts!Begin(r, cfg.backend).nonce = n /\ Ts!Begin(r, cfg.backend).late = r.late
        BY <1>2 DEF Ts!Begin, Ts!ReqRecord
      <3> HIDE DEF r
      <3>. QED
        BY <2>1, <3>1, <3>2, <3>3, <3>4
    <2>. QED
      BY <2>2, <2>3, <2>4, <2>5
  <1> HIDE DEF r
  <1>4. PICK rec \in Ts!ReqRecord :
           /\ req' = [req EXCEPT ![q] = rec] /\ rec.iso = i /\ rec.nonce = n /\ rec.late = r.late
           /\ \/ /\ rec.pc = "500" /\ cached' = cached /\ rec.use = Ts!None
              \/ /\ rec.pc = "flag" /\ cached' = cached /\ rec.use = Ts!None /\ ~cfg.singleUse
              \/ /\ rec.pc = (IF n = Ts!None THEN "issue" ELSE "take") /\ rec.use \in Ts!Backends
                 /\ cfg.singleUse => rec.use # Ts!Kv
                 /\ cached' = [cached EXCEPT ![i] = rec.use]
    BY <1>3
  <1>5. req'[q] = rec /\ \A p \in Request : p # q => req'[p] = req[p]
    BY <1>4, KvState
  <1>6. r.late => n \in Nonce /\ Ts!SpentFor(n, Home[i])'
    <2>1. \A m \in Nonce : taken[m] \subseteq taken'[m]
      BY <1>1
    <2>2. \A m \in Nonce : \A x : Ts!SpentFor(m, x) => Ts!SpentFor(m, x)'
      BY <1>1, <1>5, <2>1, KvOthers
    <2>. QED
      BY <1>2, <2>2
  <1>7. Ts!Knows(q)'
    BY <1>4, <1>5, <1>6, <1>1 DEF Ts!Knows
  <1>8. cached' \in [Isolate -> Ts!Backends \cup {Ts!None}]
    BY <1>4, KvState
  <1>9. Ts!StaysDurable' /\ (cfg.singleUse => rec.use # Ts!Kv)
    <2>1. cfg.singleUse => \A j \in Isolate : cached[j] # Ts!Kv
      BY DEF Ts!NonceInv, Ts!StaysDurable
    <2>. QED
      BY <1>1, <1>4, <2>1, KvState DEF Ts!StaysDurable, Ts!None, Ts!Kv
  <1>. QED
    BY <1>1, <1>4, <1>7, <1>8, <1>9, KvState, KvRequestStep

(* The flag arrives. *)
LEMMA KvFlagRead ==
    ASSUME Ts!NonceInv, NEW q \in Request, Ts!FlagRead(q)
    PROVE  Ts!NonceInv'
  <1>1. PICK use \in Ts!Backends :
           req' = [req EXCEPT ![q] = Ts!Begin(req[q], use)] /\ cached' = [cached EXCEPT ![req[q].iso] = use]
    BY DEF Ts!FlagRead, Ts!Backends
  <1>2. /\ req[q].pc = "flag" /\ ~cfg.singleUse /\ req[q].iso \in Isolate /\ req[q] \in Ts!ReqRecord
        /\ UNCHANGED <<kvNow, cfg, kv, view, degrade, object, issued, taken, evicted>>
    BY KvState DEF Ts!FlagRead, Ts!stores, Ts!Knows
  <1> DEFINE rec == Ts!Begin(req[q], use)
  <1>3. rec \in Ts!ReqRecord
    BY <1>2 DEF Ts!Begin, Ts!ReqRecord, Ts!Phases
  <1>4. /\ rec.pc = (IF req[q].nonce = Ts!None THEN "issue" ELSE "take") /\ rec.use = use
        /\ rec.iso = req[q].iso /\ rec.nonce = req[q].nonce /\ rec.late = req[q].late
    BY <1>2 DEF Ts!Begin, Ts!ReqRecord
  <1>5. req'[q] = rec /\ \A p \in Request : p # q => req'[p] = req[p]
    BY <1>1, KvState
  <1> HIDE DEF rec
  <1>6. /\ req[q].late => req[q].nonce \in Nonce /\ Ts!SpentFor(req[q].nonce, Home[req[q].iso])
        /\ \A m \in Nonce : \A x : Ts!SpentFor(m, x) => Ts!SpentFor(m, x)'
    <2>1. \A m \in Nonce : taken[m] \subseteq taken'[m]
      BY <1>2
    <2>. QED
      BY <1>2, <1>5, <2>1, KvOthers, KvState DEF Ts!Knows
  <1>7. req[q].nonce \in Nonce \cup {Ts!None}
    BY <1>2 DEF Ts!ReqRecord
  <1>8. Ts!Knows(q)'
    BY <1>2, <1>4, <1>5, <1>6, <1>7 DEF Ts!Knows
  <1>9. cached' \in [Isolate -> Ts!Backends \cup {Ts!None}] /\ Ts!StaysDurable'
    BY <1>1, <1>2, KvState DEF Ts!StaysDurable
  <1>10. req' = [req EXCEPT ![q] = rec]
    BY <1>1 DEF rec
  <1>. QED
    BY <1>2, <1>3, <1>8, <1>9, <1>10, KvState, KvRequestStep

(* A move of a request that keeps who it is and what it runs on: its lateness is still true. *)
LEMMA KvAnswered ==
    ASSUME Ts!NonceInv, NEW q \in Request, req[q].pc # "200", req[q].pc # "idle",
           NEW p \in {"200", "401", "503"}, req' = [req EXCEPT ![q].pc = p],
           \A n \in Nonce : taken[n] \subseteq taken'[n]
    PROVE  /\ [req[q] EXCEPT !.pc = p] \in Ts!ReqRecord
           /\ req' = [req EXCEPT ![q] = [req[q] EXCEPT !.pc = p]]
           /\ [req[q] EXCEPT !.pc = p].pc = p /\ [req[q] EXCEPT !.pc = p].use = req[q].use
           /\ [req[q] EXCEPT !.pc = p].iso = req[q].iso /\ [req[q] EXCEPT !.pc = p].late = req[q].late
           /\ cfg' = cfg => Ts!Knows(q)'
           /\ cfg.singleUse => req[q].use # Ts!Kv
  <1> DEFINE rec == [req[q] EXCEPT !.pc = p]
  <1>1. req \in [Request -> Ts!ReqRecord] /\ Ts!Knows(q)
    BY KvState
  <1>2. rec \in Ts!ReqRecord
    BY <1>1 DEF Ts!ReqRecord, Ts!Phases
  <1>3. /\ rec.pc = p /\ rec.use = req[q].use /\ rec.iso = req[q].iso /\ rec.late = req[q].late
        /\ rec.nonce = req[q].nonce
    BY <1>1 DEF Ts!ReqRecord
  <1>4. req' = [req EXCEPT ![q] = rec] /\ req'[q] = rec /\ \A s \in Request : s # q => req'[s] = req[s]
    BY <1>1
  <1> HIDE DEF rec
  <1>5. \A m \in Nonce : \A x : Ts!SpentFor(m, x) => Ts!SpentFor(m, x)'
    BY <1>4, KvOthers
  <1>6. ASSUME cfg' = cfg PROVE Ts!Knows(q)'
    BY <1>1, <1>3, <1>4, <1>5, <1>6 DEF Ts!Knows
  <1>7. cfg.singleUse => req[q].use # Ts!Kv
    BY DEF Ts!NonceInv, Ts!RedemptionsPresent
  <1>8. rec = [req[q] EXCEPT !.pc = p]
    BY DEF rec
  <1>. QED
    BY <1>2, <1>3, <1>4, <1>6, <1>7, <1>8

(* Who issued a nonce that a store holds. *)
LEMMA KvHeld ==
    ASSUME Ts!NonceInv, NEW n \in Nonce
    PROVE  /\ kv[n] # Ts!NoEntry => issued[n].by = Ts!Kv
           /\ \A r \in Region : view[r][n] # Ts!NoEntry => issued[n].by = Ts!Kv
  <1>1. ASSUME NEW entry, issued[n] = [by |-> Ts!Kv, expiry |-> entry.e] PROVE issued[n].by = Ts!Kv
    BY <1>1
  <1>2. kv[n] # Ts!NoEntry => issued[n] = [by |-> Ts!Kv, expiry |-> kv[n].e]
    BY DEF Ts!NonceInv, Ts!StoresHoldTheirOwn
  <1>3. ASSUME NEW r \in Region, view[r][n] # Ts!NoEntry PROVE issued[n].by = Ts!Kv
    <2>1. issued[n] = [by |-> Ts!Kv, expiry |-> view[r][n].e]
      BY <1>3 DEF Ts!NonceInv, Ts!StoresHoldTheirOwn
    <2>. QED
      BY <2>1
  <1>. QED
    BY <1>1, <1>2, <1>3

(* `takeIfValid` of the object. *)
LEMMA KvTakeDurable ==
    ASSUME Ts!NonceInv, NEW q \in Request, Ts!TakeDurable(q)
    PROVE  Ts!NonceInv' /\ \A n \in Nonce : taken'[n] # taken[n] => kvNow < issued[n].expiry
  <1> DEFINE n == req[q].nonce
  <1>1. /\ req[q].pc = "take" /\ req[q].use = Ts!Durable /\ n \in Nonce
        /\ UNCHANGED <<kvNow, cfg, kv, view, degrade, cached, issued, evicted>>
        /\ object' = [object EXCEPT ![n] = Ts!Absent]
    BY KvState DEF Ts!TakeDurable, Ts!Take, Ts!Knows
  <1>2. /\ object' \in [Nonce -> Nat] /\ object'[n] = Ts!Absent
        /\ \A m \in Nonce : object'[m] \in {object[m], Ts!Absent}
    BY <1>1, KvState DEF Ts!Absent
  <1>3. Ts!StaysDurable'
    BY <1>1 DEF Ts!NonceInv, Ts!StaysDurable
  <1>4. CASE Ts!Alive(object, n, kvNow)
    <2>1. req' = [req EXCEPT ![q].pc = "200"] /\ taken' = [taken EXCEPT ![n] = taken[n] \cup {q}]
      BY <1>4 DEF Ts!TakeDurable, Ts!Answer
    <2>2. object[n] > kvNow /\ object[n] # Ts!Absent
      BY <1>1, <1>4, KvState DEF Ts!Alive, Ts!Absent
    <2>3. issued[n] = [by |-> Ts!Durable, expiry |-> object[n]]
      BY <1>1, <2>2 DEF Ts!NonceInv, Ts!StoresHoldTheirOwn
    <2>4. taken[n] = {}
      BY <1>1, <2>2 DEF Ts!NonceInv, Ts!AcceptedIsGone
    <2>5. ~req[q].late
      BY <1>1, <2>4, KvState DEF Ts!Knows, Ts!SpentFor
    <2>6. kv[n] = Ts!NoEntry
      <3>1. issued[n].by = Ts!Durable
        BY <2>3
      <3>2. kv[n] # Ts!NoEntry => issued[n].by = Ts!Kv
        BY <1>1, KvHeld
      <3>. QED
        BY <3>1, <3>2 DEF Ts!Kv, Ts!Durable
    <2>7. \A m \in Nonce : taken[m] \subseteq taken'[m]
      BY <1>1, <2>1, KvState
    <2> DEFINE rec == [req[q] EXCEPT !.pc = "200"]
    <2>8. /\ rec \in Ts!ReqRecord /\ req' = [req EXCEPT ![q] = rec] /\ Ts!Knows(q)'
          /\ rec.pc = "200" /\ rec.use = Ts!Durable /\ ~rec.late /\ (cfg.singleUse => rec.use # Ts!Kv)
      BY <1>1, <2>1, <2>5, <2>7, KvAnswered
    <2>9. Ts!Durable \in Ts!Backends /\ Ts!Durable # Ts!Kv
      BY DEF Ts!Backends, Ts!Durable, Ts!Kv
    <2>10. \E m \in Nonce :
             /\ taken' = [taken EXCEPT ![m] = taken[m] \cup {q}]
             /\ rec.pc = "200" /\ ~rec.late /\ rec.use = issued[m].by /\ rec.use \in Ts!Backends
             /\ object'[m] = Ts!Absent /\ kv'[m] = Ts!NoEntry
             /\ rec.use = Ts!Kv => view'[Home[rec.iso]][m] = Ts!NoEntry
             /\ rec.use = Ts!Durable => taken[m] = {}
      <3> HIDE DEF rec
      <3>1. rec.use = issued[n].by /\ rec.use # Ts!Kv
        BY <2>3, <2>8, <2>9
      <3> n \in Nonce
        BY <1>1
      <3> WITNESS n \in Nonce
      <3>. QED
        BY <1>1, <1>2, <2>1, <2>4, <2>6, <2>8, <2>9, <3>1
    <2> HIDE DEF rec
    <2>11. Ts!NonceInv'
      BY <1>1, <1>2, <1>3, <2>8, <2>10, KvState, KvRequestStep
    <2>12. \A m \in Nonce : taken'[m] # taken[m] => kvNow < issued[m].expiry
      BY <1>1, <2>1, <2>2, <2>3, KvState
    <2>. QED
      BY <2>11, <2>12
  <1>5. CASE ~Ts!Alive(object, n, kvNow)
    <2>1. req' = [req EXCEPT ![q].pc = "401"] /\ taken' = taken
      BY <1>5 DEF Ts!TakeDurable, Ts!Answer
    <2> DEFINE rec == [req[q] EXCEPT !.pc = "401"]
    <2>2. /\ rec \in Ts!ReqRecord /\ req' = [req EXCEPT ![q] = rec] /\ Ts!Knows(q)'
          /\ (cfg.singleUse => rec.use # Ts!Kv)
      BY <1>1, <2>1, KvAnswered
    <2> HIDE DEF rec
    <2>. QED
      BY <1>1, <1>2, <1>3, <2>1, <2>2, KvState, KvRequestStep
  <1>. QED
    BY <1>4, <1>5

(* `takeIfValid` of KV: the read finds what its region still holds. *)
LEMMA KvRead ==
    ASSUME Ts!NonceInv, NEW q \in Request, Ts!KvGet(q)
    PROVE  Ts!NonceInv'
  <1> DEFINE n == req[q].nonce
             seen == view[Home[req[q].iso]][n]
             p == IF seen = Ts!NoEntry THEN "401" ELSE "delete"
             rec == [req[q] EXCEPT !.pc = p, !.read = seen.e]
  <1>1. /\ req[q].pc = "take" /\ req[q].use = Ts!Kv /\ n \in Nonce /\ req[q].iso \in Isolate
        /\ req[q] \in Ts!ReqRecord
        /\ UNCHANGED <<kvNow, cfg, kv, view, degrade, object, cached, issued, taken, evicted>>
    BY KvState DEF Ts!KvGet, Ts!stores, Ts!Knows
  <1>2. Home[req[q].iso] \in Region /\ seen \in Ts!Entry /\ seen.e \in Nat
    <2>1. Home[req[q].iso] \in Region
      BY <1>1, KvTypes
    <2>. QED
      BY <1>1, <2>1, KvState DEF Ts!Entry
  <1>3. req' = [req EXCEPT ![q] = rec]
    BY <1>1, KvState DEF Ts!KvGet
  <1>4. rec \in Ts!ReqRecord
    BY <1>1, <1>2 DEF Ts!ReqRecord, Ts!Phases
  <1>5. /\ rec.pc = p /\ rec.read = seen.e /\ rec.use = Ts!Kv /\ rec.nonce = n
        /\ rec.iso = req[q].iso /\ rec.late = req[q].late
    BY <1>1 DEF Ts!ReqRecord
  <1>6. req'[q] = rec /\ \A s \in Request : s # q => req'[s] = req[s]
    BY <1>3, KvState
  <1>7. p = "delete" => issued[n] = [by |-> Ts!Kv, expiry |-> seen.e]
    BY <1>1, <1>2 DEF Ts!NonceInv, Ts!StoresHoldTheirOwn
  <1>8. p = "delete" => ~req[q].late
    <2> SUFFICES ASSUME seen # Ts!NoEntry, req[q].late PROVE FALSE
      OBVIOUS
    <2>1. PICK s \in taken[n] : req[s].use = Ts!Durable \/ Home[req[s].iso] = Home[req[q].iso]
      BY KvState DEF Ts!Knows, Ts!SpentFor
    <2>2. issued[n].by = Ts!Kv
      BY <1>1, <1>2, KvHeld
    <2>3. /\ req[s].use = issued[n].by
          /\ req[s].use = Ts!Kv => view[Home[req[s].iso]][n] = Ts!NoEntry
      BY <1>1, <2>1 DEF Ts!NonceInv, Ts!AcceptedIsGone
    <2>. QED
      BY <2>1, <2>2, <2>3 DEF Ts!Durable, Ts!Kv
  <1>9. /\ req[q].late => Ts!SpentFor(n, Home[req[q].iso])
        /\ \A m \in Nonce : \A x : Ts!SpentFor(m, x) => Ts!SpentFor(m, x)'
    <2>1. \A m \in Nonce : taken[m] \subseteq taken'[m]
      BY <1>1
    <2>. QED
      BY <1>1, <1>6, <2>1, KvOthers, KvState DEF Ts!Knows
  <1>10. p = "401" \/ p = "delete"
    OBVIOUS
  <1>11. Ts!StaysDurable' /\ (cfg.singleUse => req[q].use # Ts!Kv)
    BY <1>1 DEF Ts!NonceInv, Ts!StaysDurable, Ts!RedemptionsPresent
  <1> HIDE DEF rec, p, seen, n
  <1>12. Ts!Knows(q)'
    BY <1>1, <1>5, <1>6, <1>7, <1>8, <1>9, <1>10 DEF Ts!Knows, n
  <1>. QED
    BY <1>1, <1>3, <1>4, <1>5, <1>11, <1>12, KvState, KvRequestStep

(* What a delete writes. *)
LEMMA KvDeleted ==
    ASSUME Ts!NonceInv, NEW n \in Nonce, NEW r \in Region, Ts!Write(n, Ts!NoEntry, r)
    PROVE  /\ kv' \in [Nonce -> Ts!Entry] /\ view' \in [Region -> [Nonce -> Ts!Entry]]
           /\ kv'[n] = Ts!NoEntry /\ view'[r][n] = Ts!NoEntry
           /\ \A m \in Nonce : /\ kv'[m] \in {kv[m], Ts!NoEntry}
                               /\ \A x \in Region : view'[x][m] \in {view[x][m], kv[m], Ts!NoEntry}
  <1>1. Ts!NoEntry \in Ts!Entry
    BY DEF Ts!NoEntry, Ts!Entry, Ts!Absent
  <1>. QED
    BY <1>1, KvState DEF Ts!Write

(* `takeIfValid` of KV: the delete, and the clock. *)
LEMMA KvDeletes ==
    ASSUME Ts!NonceInv, NEW q \in Request, Ts!KvDelete(q)
    PROVE  Ts!NonceInv' /\ \A n \in Nonce : taken'[n] # taken[n] => kvNow < issued[n].expiry
  <1> DEFINE n == req[q].nonce
             r == Home[req[q].iso]
  <1>1. /\ req[q].pc = "delete" /\ req[q].use = Ts!Kv /\ n \in Nonce /\ ~req[q].late /\ r \in Region
        /\ issued[n].by = Ts!Kv /\ issued[n].expiry = req[q].read
        /\ UNCHANGED <<kvNow, cfg, degrade, object, cached, issued, evicted>>
        /\ Ts!Write(n, Ts!NoEntry, r)
    <2>1. req[q].pc = "delete" /\ Ts!Knows(q)
      BY KvState DEF Ts!KvDelete
    <2>2. issued[n] = [by |-> Ts!Kv, expiry |-> req[q].read] /\ req[q].iso \in Isolate
      BY <2>1 DEF Ts!Knows
    <2>3. r \in Region
      BY <2>2, KvTypes
    <2>. QED
      BY <2>1, <2>2, <2>3 DEF Ts!KvDelete, Ts!Knows
  <1> HIDE DEF r
  <1>2. /\ kv' \in [Nonce -> Ts!Entry] /\ view' \in [Region -> [Nonce -> Ts!Entry]]
        /\ kv'[n] = Ts!NoEntry /\ view'[r][n] = Ts!NoEntry
        /\ \A m \in Nonce : /\ kv'[m] \in {kv[m], Ts!NoEntry}
                            /\ \A x \in Region : view'[x][m] \in {view[x][m], kv[m], Ts!NoEntry}
    BY <1>1, KvDeleted
  <1>3. Ts!StaysDurable'
    BY <1>1 DEF Ts!NonceInv, Ts!StaysDurable
  <1>4. CASE req[q].read > kvNow
    <2>1. req' = [req EXCEPT ![q].pc = "200"] /\ taken' = [taken EXCEPT ![n] = taken[n] \cup {q}]
      BY <1>4 DEF Ts!KvDelete, Ts!Answer
    <2>2. object[n] = Ts!Absent
      <3>1. object[n] # Ts!Absent => issued[n] = [by |-> Ts!Durable, expiry |-> object[n]]
        BY <1>1 DEF Ts!NonceInv, Ts!StoresHoldTheirOwn
      <3>2. object[n] # Ts!Absent => issued[n].by = Ts!Durable
        BY <3>1
      <3>. QED
        BY <1>1, <3>2 DEF Ts!Kv, Ts!Durable
    <2>3. \A m \in Nonce : taken[m] \subseteq taken'[m]
      BY <1>1, <2>1, KvState
    <2> DEFINE rec == [req[q] EXCEPT !.pc = "200"]
    <2>4. /\ rec \in Ts!ReqRecord /\ req' = [req EXCEPT ![q] = rec] /\ Ts!Knows(q)'
          /\ rec.pc = "200" /\ rec.use = Ts!Kv /\ rec.iso = req[q].iso /\ ~rec.late
          /\ (cfg.singleUse => rec.use # Ts!Kv)
      BY <1>1, <2>1, <2>3, KvAnswered
    <2> HIDE DEF rec
    <2>5. \E m \in Nonce :
             /\ taken' = [taken EXCEPT ![m] = taken[m] \cup {q}]
             /\ rec.pc = "200" /\ ~rec.late /\ rec.use = issued[m].by /\ rec.use \in Ts!Backends
             /\ object'[m] = Ts!Absent /\ kv'[m] = Ts!NoEntry
             /\ rec.use = Ts!Kv => view'[Home[rec.iso]][m] = Ts!NoEntry
             /\ rec.use = Ts!Durable => taken[m] = {}
      <3>1. Ts!Kv \in Ts!Backends /\ Ts!Durable # Ts!Kv
        BY DEF Ts!Backends, Ts!Durable, Ts!Kv
      <3> n \in Nonce
        BY <1>1
      <3> WITNESS n \in Nonce
      <3>. QED
        BY <1>1, <1>2, <2>1, <2>2, <2>4, <3>1 DEF r
    <2>6. object' \in [Nonce -> Nat] /\ \A m \in Nonce : object'[m] \in {object[m], Ts!Absent}
      BY <1>1, KvState
    <2>7. Ts!NonceInv'
      BY <1>1, <1>2, <1>3, <2>4, <2>5, <2>6, KvState, KvRequestStep
    <2>8. \A m \in Nonce : taken'[m] # taken[m] => kvNow < issued[m].expiry
      BY <1>1, <1>4, <2>1, KvState
    <2>. QED
      BY <2>7, <2>8
  <1>5. CASE ~(req[q].read > kvNow)
    <2>1. req' = [req EXCEPT ![q].pc = "401"] /\ taken' = taken
      BY <1>5 DEF Ts!KvDelete, Ts!Answer
    <2> DEFINE rec == [req[q] EXCEPT !.pc = "401"]
    <2>2. /\ rec \in Ts!ReqRecord /\ req' = [req EXCEPT ![q] = rec] /\ Ts!Knows(q)'
          /\ (cfg.singleUse => rec.use # Ts!Kv)
      BY <1>1, <2>1, KvAnswered
    <2> HIDE DEF rec
    <2>3. object' \in [Nonce -> Nat] /\ \A m \in Nonce : object'[m] \in {object[m], Ts!Absent}
      BY <1>1, KvState
    <2>. QED
      BY <1>1, <1>2, <1>3, <2>1, <2>2, <2>3, KvState, KvRequestStep
  <1>. QED
    BY <1>4, <1>5

(* A store call fails, with or without its effect. *)
LEMMA KvFails ==
    ASSUME Ts!NonceInv, NEW q \in Request, Ts!StoreError(q)
    PROVE  Ts!NonceInv'
  <1>1. /\ req[q].pc \in {"issue", "take", "delete"} /\ req' = [req EXCEPT ![q].pc = "503"]
        /\ UNCHANGED <<kvNow, cfg, degrade, cached, issued, taken, evicted>>
    BY DEF Ts!StoreError, Ts!Answer
  <1>2. req[q].pc = "delete" => req[q].nonce \in Nonce /\ Home[req[q].iso] \in Region
    BY KvState, KvTypes DEF Ts!Knows
  <1>3. req[q].pc = "take" => req[q].nonce \in Nonce
    BY KvState DEF Ts!Knows
  <1>4. /\ object' \in [Nonce -> Nat] /\ kv' \in [Nonce -> Ts!Entry] /\ view' \in [Region -> [Nonce -> Ts!Entry]]
        /\ \A n \in Nonce : /\ object'[n] \in {object[n], Ts!Absent} /\ kv'[n] \in {kv[n], Ts!NoEntry}
                            /\ \A r \in Region : view'[r][n] \in {view[r][n], kv[n], Ts!NoEntry}
    <2>1. CASE UNCHANGED <<kv, view, object>>
      BY <2>1, KvState
    <2>2. CASE req[q].pc = "take" /\ object' = Ts!Take(object, req[q].nonce) /\ UNCHANGED <<kv, view>>
      BY <1>3, <2>2, KvState DEF Ts!Take, Ts!Absent
    <2>3. CASE req[q].pc = "delete" /\ Ts!Write(req[q].nonce, Ts!NoEntry, Home[req[q].iso]) /\ UNCHANGED object
      BY <1>2, <2>3, KvState, KvDeleted
    <2>. QED
      BY <2>1, <2>2, <2>3 DEF Ts!StoreError
  <1>5. Ts!StaysDurable'
    BY <1>1 DEF Ts!NonceInv, Ts!StaysDurable
  <1> DEFINE rec == [req[q] EXCEPT !.pc = "503"]
  <1>6. /\ rec \in Ts!ReqRecord /\ req' = [req EXCEPT ![q] = rec] /\ Ts!Knows(q)'
        /\ (cfg.singleUse => rec.use # Ts!Kv)
    BY <1>1, KvAnswered
  <1> HIDE DEF rec
  <1>. QED
    BY <1>1, <1>4, <1>5, <1>6, KvState, KvRequestStep

(* `issue`. *)
LEMMA KvIssues ==
    ASSUME Ts!NonceInv, NEW q \in Request, NEW n \in Nonce, Ts!IssueNonce(q, n)
    PROVE  Ts!NonceInv'
  <1> DEFINE by == req[q].use
             rec == [req[q] EXCEPT !.pc = "200"]
  <1>1. /\ req[q].pc = "issue" /\ issued[n].by = Ts!None /\ by \in Ts!Backends /\ req[q].iso \in Isolate
        /\ req' = [req EXCEPT ![q].pc = "200"]
        /\ issued' = [issued EXCEPT ![n] = [by |-> by, expiry |-> kvNow + Ttl]]
        /\ UNCHANGED <<kvNow, cfg, degrade, cached, taken, evicted>>
    BY KvState DEF Ts!IssueNonce, Ts!Answer, Ts!Knows
  <1>2. issued[n].by # Ts!Durable /\ issued[n].by # Ts!Kv /\ issued[n].by \notin Ts!Backends
    BY <1>1 DEF Ts!Durable, Ts!Kv, Ts!None, Ts!Backends
  <1>3. taken[n] = {}
    BY <1>2 DEF Ts!NonceInv, Ts!AcceptedIsGone
  <1>4. kv[n] = Ts!NoEntry /\ \A r \in Region : view[r][n] = Ts!NoEntry
    BY <1>2, KvHeld
  <1>5. object[n] = Ts!Absent
    <2>1. object[n] # Ts!Absent => issued[n] = [by |-> Ts!Durable, expiry |-> object[n]]
      BY DEF Ts!NonceInv, Ts!StoresHoldTheirOwn
    <2>2. object[n] # Ts!Absent => issued[n].by = Ts!Durable
      BY <2>1
    <2>. QED
      BY <1>2, <2>2
  <1>6. /\ issued'[n] = [by |-> by, expiry |-> kvNow + Ttl] /\ kvNow + Ttl \in Nat
        /\ \A m \in Nonce : m # n => issued'[m] = issued[m]
        /\ issued' \in [Nonce -> [by : Ts!Backends \cup {Ts!None}, expiry : Nat]]
    BY <1>1, KvState, KvTypes
  <1>7. /\ object' \in [Nonce -> Nat] /\ kv' \in [Nonce -> Ts!Entry] /\ view' \in [Region -> [Nonce -> Ts!Entry]]
        /\ \A m \in Nonce : m # n =>
              /\ object'[m] = object[m] \/ object'[m] = Ts!Absent
              /\ kv'[m] = kv[m] /\ \A r \in Region : view'[r][m] = view[r][m]
        /\ object'[n] = Ts!Absent \/ (by = Ts!Durable /\ object'[n] = kvNow + Ttl)
        /\ kv'[n] = Ts!NoEntry \/ (by = Ts!Kv /\ kv'[n].e = kvNow + Ttl)
        /\ \A r \in Region : view'[r][n] = Ts!NoEntry \/ (by = Ts!Kv /\ view'[r][n].e = kvNow + Ttl)
    <2>1. CASE /\ by = Ts!Durable /\ object' \in Ts!Issue(object, n, kvNow, Ttl, MaxNonces)
               /\ UNCHANGED <<kv, view>>
      <3>1. object \in [Nonce -> Nat] /\ kvNow \in Nat /\ object' \in Ts!Issue(object, n, kvNow, Ttl, MaxNonces)
        BY <2>1, KvState
      <3>2. /\ object' \in [Nonce -> Nat] /\ object'[n] = kvNow + Ttl
            /\ \A m \in Nonce : m # n => object'[m] = object[m] \/ object'[m] = Ts!Absent
        BY <3>1, KvIssueFacts
      <3>. QED
        BY <1>4, <2>1, <3>2, KvState
    <2>2. CASE by = Ts!Kv /\ Ts!Write(n, Ts!KvEntry(kvNow), Home[req[q].iso]) /\ UNCHANGED object
      <3>1. Ts!KvEntry(kvNow) \in Ts!Entry /\ Ts!KvEntry(kvNow).e = kvNow + Ttl
        BY KvState, KvTypes DEF Ts!KvEntry, Ts!Entry
      <3>2. Home[req[q].iso] \in Region
        BY <1>1, KvTypes
      <3>3. /\ kv' \in [Nonce -> Ts!Entry] /\ kv'[n] = Ts!KvEntry(kvNow)
            /\ \A m \in Nonce : m # n => kv'[m] = kv[m]
        BY <2>2, <3>1, KvState DEF Ts!Write
      <3>4. /\ view' \in [Region -> [Nonce -> Ts!Entry]]
            /\ \A r \in Region : view'[r][n] = view[r][n] \/ view'[r][n] = Ts!KvEntry(kvNow)
            /\ \A m \in Nonce : m # n => \A r \in Region : view'[r][m] = view[r][m]
        BY <2>2, <3>1, <3>2, KvState DEF Ts!Write
      <3>. QED
        BY <1>4, <1>5, <2>2, <3>1, <3>3, <3>4, KvState
    <2>. QED
      BY <2>1, <2>2 DEF Ts!IssueNonce
  <1>8. /\ rec \in Ts!ReqRecord /\ req' = [req EXCEPT ![q] = rec] /\ Ts!Knows(q)'
        /\ (cfg.singleUse => req[q].use # Ts!Kv) /\ rec.use = by
    BY <1>1, KvAnswered
  <1>9. req'[q] = rec /\ \A p \in Request : p # q => req'[p] = req[p]
    BY <1>8, KvState
  <1> HIDE DEF rec, by
  <1>10. \A p \in Request : Ts!Knows(p)'
    <2>1. \A m \in Nonce : issued[m].by # Ts!None => issued'[m] = issued[m]
      BY <1>1, <1>6
    <2>. QED
      BY <1>1, <1>8, <1>9, <2>1, KvKnow
  <1>11. Ts!TypeOK'
    <2>1. req' \in [Request -> Ts!ReqRecord]
      BY <1>8, KvState
    <2>2. Ts!TypeOK
      BY DEF Ts!NonceInv
    <2>. QED
      BY <1>1, <1>6, <1>7, <2>1, <2>2 DEF Ts!TypeOK
  <1>12. Ts!StoresHoldTheirOwn'
    <2>1. ASSUME NEW m \in Nonce, m # n
          PROVE  /\ object'[m] # Ts!Absent => issued'[m] = [by |-> Ts!Durable, expiry |-> object'[m]]
                 /\ kv'[m] # Ts!NoEntry => issued'[m] = [by |-> Ts!Kv, expiry |-> kv'[m].e]
                 /\ \A r \in Region : view'[r][m] # Ts!NoEntry =>
                                         issued'[m] = [by |-> Ts!Kv, expiry |-> view'[r][m].e]
      <3>1. /\ object[m] # Ts!Absent => issued[m] = [by |-> Ts!Durable, expiry |-> object[m]]
            /\ kv[m] # Ts!NoEntry => issued[m] = [by |-> Ts!Kv, expiry |-> kv[m].e]
            /\ \A r \in Region : view[r][m] # Ts!NoEntry => issued[m] = [by |-> Ts!Kv, expiry |-> view[r][m].e]
        BY DEF Ts!NonceInv, Ts!StoresHoldTheirOwn
      <3>2. /\ issued'[m] = issued[m] /\ (object'[m] = object[m] \/ object'[m] = Ts!Absent)
            /\ kv'[m] = kv[m] /\ \A r \in Region : view'[r][m] = view[r][m]
        BY <1>6, <1>7, <2>1
      <3>. QED
        BY <3>1, <3>2
    <2>2. /\ object'[n] # Ts!Absent => issued'[n] = [by |-> Ts!Durable, expiry |-> object'[n]]
          /\ kv'[n] # Ts!NoEntry => issued'[n] = [by |-> Ts!Kv, expiry |-> kv'[n].e]
          /\ \A r \in Region : view'[r][n] # Ts!NoEntry =>
                                  issued'[n] = [by |-> Ts!Kv, expiry |-> view'[r][n].e]
      BY <1>6, <1>7
    <2>. QED
      BY <2>1, <2>2 DEF Ts!StoresHoldTheirOwn
  <1>13. \A m \in Nonce : \A p \in taken[m] : m # n /\ p \in Request /\ p # q /\ req'[p] = req[p]
    BY <1>1, <1>3, <1>9, KvOthers
  <1>14. Ts!AcceptedIsGone'
    <2> SUFFICES ASSUME NEW m \in Nonce, NEW p \in taken[m]
                 PROVE  /\ req'[p].pc = "200" /\ req'[p].use = issued'[m].by /\ req'[p].use \in Ts!Backends
                        /\ object'[m] = Ts!Absent /\ kv'[m] = Ts!NoEntry
                        /\ req'[p].use = Ts!Kv => view'[Home[req'[p].iso]][m] = Ts!NoEntry
      BY <1>1 DEF Ts!AcceptedIsGone
    <2>1. /\ req[p].pc = "200" /\ req[p].use = issued[m].by /\ req[p].use \in Ts!Backends
          /\ object[m] = Ts!Absent /\ kv[m] = Ts!NoEntry
          /\ req[p].use = Ts!Kv => view[Home[req[p].iso]][m] = Ts!NoEntry
      BY DEF Ts!NonceInv, Ts!AcceptedIsGone
    <2>2. Home[req[p].iso] \in Region
      BY <1>13, <2>1, KvState, KvTypes DEF Ts!Knows
    <2>. QED
      BY <1>6, <1>7, <1>13, <2>1, <2>2
  <1>15. Ts!DurableOnce'
    BY <1>1, <1>3, <1>6 DEF Ts!NonceInv, Ts!DurableOnce
  <1>16. Ts!SpentIsRefused'
    BY <1>1, <1>13 DEF Ts!NonceInv, Ts!SpentIsRefused
  <1>17. Ts!RedemptionsPresent'
    BY <1>1, <1>8, <1>9 DEF Ts!NonceInv, Ts!RedemptionsPresent, by
  <1>18. Ts!StaysDurable'
    BY <1>1 DEF Ts!NonceInv, Ts!StaysDurable
  <1>. QED
    BY <1>10, <1>11, <1>12, <1>14, <1>15, <1>16, <1>17, <1>18 DEF Ts!NonceInv

(* The platform: the flag, a region that catches up, a key that expires, the clock. *)
LEMMA KvPlatform ==
    ASSUME Ts!NonceInv, UNCHANGED <<cfg, object, cached, req, issued, taken, evicted>>,
           kvNow' \in Nat, degrade' \in [set : BOOLEAN, seen : SUBSET Region],
           kv' \in [Nonce -> Ts!Entry], view' \in [Region -> [Nonce -> Ts!Entry]],
           \A n \in Nonce : /\ kv'[n] \in {kv[n], Ts!NoEntry}
                            /\ \A r \in Region : view'[r][n] \in {view[r][n], kv[n], Ts!NoEntry}
    PROVE  Ts!NonceInv'
  <1>1. Ts!TypeOK'
    BY DEF Ts!NonceInv, Ts!TypeOK
  <1>2. \A q \in Request : Ts!Knows(q)'
    BY KvState DEF Ts!Knows, Ts!SpentFor
  <1>3. /\ Ts!StoresHoldTheirOwn'
        /\ \A n \in Nonce : \A p \in taken[n] :
              /\ object'[n] = Ts!Absent /\ kv'[n] = Ts!NoEntry
              /\ req[p].use = Ts!Kv => view'[Home[req[p].iso]][n] = Ts!NoEntry
    BY KvShrinks
  <1>4. Ts!AcceptedIsGone'
    BY <1>3 DEF Ts!NonceInv, Ts!AcceptedIsGone
  <1>5. Ts!StaysDurable' /\ Ts!DurableOnce' /\ Ts!SpentIsRefused' /\ Ts!RedemptionsPresent'
    BY DEF Ts!NonceInv, Ts!StaysDurable, Ts!DurableOnce, Ts!SpentIsRefused, Ts!RedemptionsPresent
  <1>. QED
    BY <1>1, <1>2, <1>3, <1>4, <1>5 DEF Ts!NonceInv

(* An isolate is evicted: what was accepted has been answered. *)
LEMMA KvEvicts ==
    ASSUME Ts!NonceInv, NEW i \in Isolate, Ts!Evict(i)
    PROVE  Ts!NonceInv'
  <1>1. /\ UNCHANGED <<kvNow, cfg, kv, view, degrade, object, issued, taken>>
        /\ evicted' = evicted + 1 /\ cached' = [cached EXCEPT ![i] = Ts!None]
        /\ req' = [q \in Request |->
                     IF req[q].iso = i /\ req[q].pc \in {"flag", "issue", "take", "delete"}
                     THEN [req[q] EXCEPT !.pc = "gone"] ELSE req[q]]
    BY DEF Ts!Evict, Ts!stores
  <1>2. \A q \in Request :
           /\ req'[q] \in Ts!ReqRecord
           /\ req'[q] = req[q] \/ (req[q].pc \notin {"idle", "200"} /\ req'[q].pc = "gone")
           /\ req'[q].iso = req[q].iso /\ req'[q].nonce = req[q].nonce /\ req'[q].use = req[q].use
           /\ req'[q].late = req[q].late
    <2> TAKE q \in Request
    <2>1. req[q] \in Ts!ReqRecord
      BY KvState
    <2>2. CASE req[q].iso = i /\ req[q].pc \in {"flag", "issue", "take", "delete"}
      <3>1. req'[q] = [req[q] EXCEPT !.pc = "gone"]
        BY <1>1, <2>2
      <3>. QED
        BY <2>1, <2>2, <3>1 DEF Ts!ReqRecord, Ts!Phases
    <2>3. CASE ~(req[q].iso = i /\ req[q].pc \in {"flag", "issue", "take", "delete"})
      BY <1>1, <2>1, <2>3
    <2>. QED
      BY <2>2, <2>3
  <1>3. req' \in [Request -> Ts!ReqRecord]
    BY <1>1, <1>2
  <1>4. \A n \in Nonce : \A p \in taken[n] : p \in Request /\ req'[p] = req[p]
    BY <1>2 DEF Ts!NonceInv, Ts!AcceptedIsGone, Ts!TypeOK
  <1>5. Ts!TypeOK'
    BY <1>1, <1>3 DEF Ts!NonceInv, Ts!TypeOK
  <1>6. \A q \in Request : Ts!Knows(q)'
    <2>1. \A n \in Nonce : \A x : Ts!SpentFor(n, x) => Ts!SpentFor(n, x)'
      BY <1>1, <1>4 DEF Ts!SpentFor
    <2>. QED
      BY <1>1, <1>2, <2>1, KvState DEF Ts!Knows
  <1>7. Ts!StoresHoldTheirOwn'
    BY <1>1 DEF Ts!NonceInv, Ts!StoresHoldTheirOwn
  <1>8. Ts!AcceptedIsGone' /\ Ts!SpentIsRefused'
    BY <1>1, <1>4 DEF Ts!NonceInv, Ts!AcceptedIsGone, Ts!SpentIsRefused
  <1>9. Ts!DurableOnce' /\ Ts!RedemptionsPresent'
    BY <1>1, <1>2 DEF Ts!NonceInv, Ts!DurableOnce, Ts!RedemptionsPresent
  <1>10. Ts!StaysDurable'
    <2>1. \A j \in Isolate : cached'[j] = cached[j] \/ cached'[j] = Ts!None
      BY <1>1, KvState
    <2>2. Ts!None # Ts!Kv
      BY DEF Ts!None, Ts!Kv
    <2>. QED
      BY <1>1, <2>1, <2>2 DEF Ts!NonceInv, Ts!StaysDurable
  <1>. QED
    BY <1>5, <1>6, <1>7, <1>8, <1>9, <1>10 DEF Ts!NonceInv

(* Every step keeps the bookkeeping, and accepts no nonce at or after its expiry. *)
LEMMA KvStep ==
    ASSUME Ts!NonceInv, [Ts!Next]_kvVars
    PROVE  Ts!NonceInv' /\ \A n \in Nonce : taken'[n] # taken[n] => kvNow < issued[n].expiry
  <1>1. CASE \E q \in Request : Ts!TakeDurable(q) \/ Ts!KvDelete(q)
    BY <1>1, KvTakeDurable, KvDeletes
  <1>2. ASSUME NEW q \in Request, NEW i \in Isolate, NEW n \in Nonce \cup {Ts!None}, Ts!Arrive(q, i, n)
        PROVE  Ts!NonceInv' /\ taken' = taken
    BY <1>2, KvArrive DEF Ts!Arrive
  <1>3. ASSUME NEW q \in Request, Ts!FlagRead(q) PROVE Ts!NonceInv' /\ taken' = taken
    BY <1>3, KvFlagRead DEF Ts!FlagRead
  <1>4. ASSUME NEW q \in Request, Ts!KvGet(q) PROVE Ts!NonceInv' /\ taken' = taken
    BY <1>4, KvRead DEF Ts!KvGet
  <1>5. ASSUME NEW q \in Request, Ts!StoreError(q) PROVE Ts!NonceInv' /\ taken' = taken
    BY <1>5, KvFails DEF Ts!StoreError
  <1>6. ASSUME NEW q \in Request, NEW n \in Nonce, Ts!IssueNonce(q, n) PROVE Ts!NonceInv' /\ taken' = taken
    BY <1>6, KvIssues DEF Ts!IssueNonce
  <1>7. ASSUME NEW i \in Isolate, Ts!Evict(i) PROVE Ts!NonceInv' /\ taken' = taken
    BY <1>7, KvEvicts DEF Ts!Evict
  <1>8. degrade \in [set : BOOLEAN, seen : SUBSET Region]
    BY DEF Ts!NonceInv, Ts!TypeOK
  <1>9. ASSUME NEW set \in BOOLEAN, Ts!GuardRuns(set) PROVE Ts!NonceInv' /\ taken' = taken
    <2>1. UNCHANGED <<kvNow, cfg, kv, view, object, cached, req, issued, taken, evicted>>
      BY <1>9 DEF Ts!GuardRuns
    <2>2. degrade' \in [set : BOOLEAN, seen : SUBSET Region]
      BY <1>8, <1>9 DEF Ts!GuardRuns
    <2>. QED
      BY <2>1, <2>2, KvState, KvPlatform
  <1>10. ASSUME NEW r \in Region, Ts!CatchUp(r) PROVE Ts!NonceInv' /\ taken' = taken
    <2>1. UNCHANGED <<kvNow, cfg, kv, object, cached, req, issued, taken, evicted>>
      BY <1>10 DEF Ts!CatchUp
    <2>2. /\ view' \in [Region -> [Nonce -> Ts!Entry]] /\ degrade' \in [set : BOOLEAN, seen : SUBSET Region]
          /\ \A n \in Nonce : \A x \in Region : view'[x][n] \in {view[x][n], kv[n], Ts!NoEntry}
      <3>1. CASE \E n \in Nonce : view' = [view EXCEPT ![r][n] = kv[n]] /\ degrade' = degrade
        BY <1>8, <3>1, KvState
      <3>2. CASE view' = view /\ degrade' = [degrade EXCEPT !.seen = IF degrade.set THEN @ \cup {r} ELSE @ \ {r}]
        BY <1>8, <3>2, KvState
      <3>. QED
        BY <1>10, <3>1, <3>2 DEF Ts!CatchUp
    <2>. QED
      BY <2>1, <2>2, KvState, KvPlatform
  <1>11. ASSUME NEW n \in Nonce, Ts!KvExpire(n) PROVE Ts!NonceInv' /\ taken' = taken
    <2>1. /\ UNCHANGED <<kvNow, cfg, view, degrade, object, cached, req, issued, taken, evicted>>
          /\ kv' = [kv EXCEPT ![n] = Ts!NoEntry]
      BY <1>11 DEF Ts!KvExpire
    <2>2. kv' \in [Nonce -> Ts!Entry] /\ \A m \in Nonce : kv'[m] \in {kv[m], Ts!NoEntry}
      BY <2>1, KvState DEF Ts!NoEntry, Ts!Entry, Ts!Absent
    <2>. QED
      BY <1>8, <2>1, <2>2, KvState, KvPlatform
  <1>12. CASE Ts!Tick
    <2>1. kvNow' = kvNow + 1 /\ UNCHANGED <<cfg, kv, view, degrade, object, cached, req, issued, taken, evicted>>
      BY <1>12 DEF Ts!Tick, Ts!stores
    <2>2. kvNow' \in Nat
      BY <2>1, KvState
    <2>. QED
      BY <1>8, <2>1, <2>2, KvState, KvPlatform
  <1>13. CASE UNCHANGED kvVars
    <2>1. UNCHANGED <<kvNow, cfg, kv, view, degrade, object, cached, req, issued, taken, evicted>>
      BY <1>13 DEF kvVars
    <2>. QED
      BY <1>8, <2>1, KvState, KvPlatform
  <1>. QED
    BY <1>1, <1>2, <1>3, <1>4, <1>5, <1>6, <1>7, <1>9, <1>10, <1>11, <1>12, <1>13 DEF Ts!Next

(* A nonce of the TypeScript gateway: accepted once where the object issued it or single use
   demands it, never where it is known to be spent, never late. *)
THEOREM NoncesHoldOnKv == PartsSpec => KvNoncesHold
  <1>1. PartsInit => Ts!NonceInv
    <2> SUFFICES ASSUME Ts!Init PROVE Ts!NonceInv
      BY DEF PartsInit
    <2>1. Ts!Idle \in Ts!ReqRecord /\ Ts!Idle.pc = "idle" /\ ~Ts!Idle.late /\ Ts!Idle.use = Ts!None
      BY DEF Ts!Idle, Ts!ReqRecord, Ts!Phases, Ts!Absent
    <2>2. Ts!NoEntry \in Ts!Entry
      BY DEF Ts!NoEntry, Ts!Entry, Ts!Absent
    <2>3. Ts!TypeOK
      BY <2>1, <2>2 DEF Ts!Init, Ts!TypeOK, Ts!Absent
    <2>4. \A q \in Request : Ts!Knows(q)
      BY <2>1 DEF Ts!Init, Ts!Knows
    <2>5. Ts!StoresHoldTheirOwn
      BY DEF Ts!Init, Ts!StoresHoldTheirOwn
    <2>6. Ts!AcceptedIsGone /\ Ts!DurableOnce /\ Ts!SpentIsRefused
      BY DEF Ts!Init, Ts!AcceptedIsGone, Ts!DurableOnce, Ts!SpentIsRefused
    <2>7. Ts!StaysDurable /\ Ts!RedemptionsPresent
      <3>1. Ts!None # Ts!Kv
        BY DEF Ts!None, Ts!Kv
      <3>. QED
        BY <2>1, <3>1 DEF Ts!Init, Ts!StaysDurable, Ts!RedemptionsPresent
    <2>. QED
      BY <2>3, <2>4, <2>5, <2>6, <2>7 DEF Ts!NonceInv
  <1>2. [PartsNext]_allVars => [Ts!Next]_kvVars
    BY DEF PartsNext, allVars
  <1>3. Ts!NonceInv /\ [PartsNext]_allVars => Ts!NonceInv'
    BY <1>2, KvStep
  <1>4. Ts!NonceInv /\ [PartsNext]_allVars =>
           [\A n \in Nonce : taken'[n] # taken[n] => kvNow < issued[n].expiry]_(Ts!vars)
    BY <1>2, KvStep
  <1>. QED
    BY <1>1, <1>3, <1>4, PTL DEF PartsSpec, KvNoncesHold, Ts!AcceptedInTime
=============================================================================
