------------------------------ MODULE StoreProofs ------------------------------
(***************************************************************************)
(* Either backend of `NonceStore`, and the Worker's Durable Objects,       *)
(* implement the port StateStore, for any callers, keys, caps and TTLs.    *)
(* The port sees the tables without their expired entries: every command   *)
(* is shown to do to that view what one call of the port does.             *)
(***************************************************************************)
EXTENDS MCStores, Sequences, TLAPS

RowTable == [Key -> StoredRow]
NonceTables == [Nonce -> Nat]

-----------------------------------------------------------------------------
(* What the view keeps of a table. *)

(* A stored row with a future expiry is seen as it is, and nothing else changes. *)
LEMMA LivePut ==
    ASSUME NEW m \in Nat, NEW t \in RowTable, NEW k \in Key, NEW r \in StoredRow,
           r.expiry > m
    PROVE  Retain([t EXCEPT ![k] = r], m) = [Retain(t, m) EXCEPT ![k] = r]
  BY DEF Retain, RowTable

(* Removing a row removes it from the view. *)
LEMMA LiveDrop ==
    ASSUME NEW m \in Nat, NEW t \in RowTable, NEW k \in Key
    PROVE  Retain([t EXCEPT ![k] = NoRow], m) = [Retain(t, m) EXCEPT ![k] = NoRow]
  BY DEF Retain, NoRow, RowTable

(* Rows are well typed and keep the expiry they are made with. *)
LEMMA RowTypes ==
    ASSUME NEW c \in Client, NEW e \in Nat
    PROVE  /\ NoRow \in StoredRow
           /\ LeaseRow(e, c) \in StoredRow /\ LeaseRow(e, c).expiry = e
           /\ CommitRow(e) \in StoredRow /\ CommitRow(e).expiry = e
  BY DEF NoRow, LeaseRow, CommitRow, Row, StoredRow

(* The view has a row or none, and looking twice shows the same. *)
LEMMA LiveType ==
    ASSUME NEW m \in Nat, NEW t \in RowTable
    PROVE  /\ Retain(t, m) \in RowTable
           /\ Retain(Retain(t, m), m) = Retain(t, m)
           /\ \A k \in Key : \/ Retain(t, m)[k] = NoRow /\ ~(t[k].expiry > m)
                             \/ Retain(t, m)[k] = t[k] /\ t[k].expiry > m
  <1>1. NoRow \in StoredRow /\ NoRow.expiry = 0
    BY DEF NoRow, Row, StoredRow
  <1>2. \A k \in Key : t[k].expiry \in Nat
    BY DEF RowTable, Row, StoredRow
  <1> QED
    BY <1>1, <1>2 DEF Retain, RowTable

(* Later, the view of the view is the view. *)
LEMMA LiveLater ==
    ASSUME NEW m \in Nat, NEW t \in RowTable
    PROVE  Retain(t, m + 1) = Retain(Retain(t, m), m + 1)
  <1>1. NoRow.expiry = 0
    BY DEF NoRow
  <1>2. \A k \in Key : t[k].expiry \in Nat
    BY DEF RowTable, Row, StoredRow
  <1> QED
    BY <1>1, <1>2 DEF Retain, RowTable

(* A table that makes room drops at most one lease. *)
LEMMA EvictedTables ==
    ASSUME NEW t \in RowTable, NEW u \in Evicted(t, MaxEntries)
    PROVE  /\ u \in RowTable
           /\ u = t \/ \E v \in Leases(t) : u = [t EXCEPT ![v] = NoRow]
  <1>1. NoRow \in StoredRow
    BY DEF NoRow, Row, StoredRow
  <1>2. Victims(t, MaxEntries) \subseteq Leases(t)
    BY DEF Victims
  <1>3. u = t \/ \E v \in Leases(t) : u = [t EXCEPT ![v] = NoRow]
    BY <1>2 DEF Evicted
  <1> QED
    BY <1>1, <1>3 DEF RowTable

(* A nonce table that makes room drops nonces it holds. *)
LEMMA OldestHeld == \A t, m : Oldest(t, m) \subseteq Held(t)
  BY DEF Oldest

(* A nonce table keeps its type when it is pruned, and the view shows the same. *)
LEMMA FreshType ==
    ASSUME NEW m \in Nat, NEW t \in NonceTables
    PROVE  /\ Prune(t, m) \in NonceTables
           /\ Prune(Prune(t, m), m) = Prune(t, m)
           /\ Prune(t, m + 1) = Prune(Prune(t, m), m + 1)
           /\ \A n \in Nonce : Alive(t, n, m) <=> Alive(Prune(t, m), n, m)
  BY DEF Prune, Absent, Alive, NonceTables

(* Storing a future expiry and removing a nonce commute with the view. *)
LEMMA FreshPut ==
    ASSUME NEW m \in Nat, NEW t \in NonceTables, NEW n \in Nonce, NEW e \in Nat,
           e > m \/ e = Absent
    PROVE  Prune([t EXCEPT ![n] = e], m) = [Prune(t, m) EXCEPT ![n] = e]
  BY DEF Prune, Absent, NonceTables

-----------------------------------------------------------------------------
(* The port is built from the same tables. *)

(* The tables of the port are the tables of this module. *)
LEMMA PortRows ==
    /\ Port!NoRow = NoRow
    /\ \A e, c : Port!LeaseRow(e, c) = LeaseRow(e, c)
    /\ \A e : Port!CommitRow(e) = CommitRow(e)
    /\ \A t : Port!Leases(t) = Leases(t)
    /\ \A t, x : Port!Retain(t, x) = Retain(t, x)
    /\ \A t, k, c, x : Port!Owns(t, k, c, x) <=> Owns(t, k, c, x)
    /\ \A t, k, c, x, r : Port!Commit(t, k, c, x, r) = Commit(t, k, c, x, r)
    /\ \A t, k, c : Port!Release(t, k, c) = Release(t, k, c)
  BY DEF Port!NoRow, NoRow, Port!LeaseRow, LeaseRow, Port!CommitRow, CommitRow,
         Port!Leases, Leases, Port!Retain, Retain, Port!Owns, Owns, Port!Commit, Commit,
         Port!Release, Release

LEMMA PortNonces ==
    /\ Port!Absent = Absent
    /\ \A t : Port!Held(t) = Held(t)
    /\ \A t, x : Port!Prune(t, x) = Prune(t, x)
    /\ \A t, n : Port!Take(t, n) = Take(t, n)
    /\ \A t, n, x : Port!Alive(t, n, x) <=> Alive(t, n, x)
  BY DEF Port!Absent, Absent, Port!Held, Held, Port!Prune, Prune, Port!Take, Take,
         Port!Alive, Alive
-----------------------------------------------------------------------------
(* The invariant. *)

(* What the tables' operations return. *)
LEMMA TableTypes ==
    ASSUME NEW m \in Nat, NEW t \in RowTable, NEW k \in Key, NEW c \in Client
    PROVE  /\ TryLease(t, k, m, LeaseTtl, MaxEntries, c) \subseteq RowTable
           /\ Commit(t, k, c, m, Retention) \in RowTable
           /\ Release(t, k, c) \in RowTable
           /\ Verdict(t, k, m) \in {"ok", "leased", "redeemed"}
  <1>1. m + LeaseTtl \in Nat /\ m + Retention \in Nat
    BY StoreConstants
  <1>2. LeaseRow(m + LeaseTtl, c) \in StoredRow /\ CommitRow(m + Retention) \in StoredRow
        /\ NoRow \in StoredRow
    BY <1>1, RowTypes
  <1>3. Retain(t, m) \in RowTable
    BY LiveType
  <1>4. TryLease(t, k, m, LeaseTtl, MaxEntries, c) \subseteq RowTable
    BY <1>2, <1>3, EvictedTables DEF TryLease, RowTable
  <1>5. Verdict(t, k, m) \in {"ok", "leased", "redeemed"}
    <2>1. Retain(t, m)[k].state \in {"none", "leased", "committed"}
      BY <1>3 DEF RowTable, Row, StoredRow
    <2> QED
      BY <2>1 DEF Verdict
  <1> QED
    BY <1>2, <1>4, <1>5 DEF Commit, Release, RowTable

(* The operations of the nonce table return tables. *)
LEMMA NonceTypes ==
    ASSUME NEW m \in Nat, NEW t \in NonceTables, NEW n \in Nonce
    PROVE  /\ Issue(t, n, m, NonceTtl, Capacity(MaxEntries)) \subseteq NonceTables
           /\ [t EXCEPT ![n] = m + NonceTtl] \in NonceTables
           /\ Take(t, n) \in NonceTables
  <1>1. m + NonceTtl \in Nat /\ Absent \in Nat
    BY StoreConstants DEF Absent
  <1>2. Prune(t, m) \in NonceTables
    BY FreshType
  <1> QED
    BY <1>1, <1>2 DEF Issue, Take, NonceTables

(* Initially the store is empty and nobody has asked. *)
LEMMA StoreInit == Init => StoreInv
  <1> SUFFICES ASSUME Init PROVE StoreInv
    OBVIOUS
  <1>1. NoRow \in StoredRow /\ Absent \in Nat
    BY DEF NoRow, Row, StoredRow, Absent
  <1>2. TypeOK
    BY <1>1 DEF Init, TypeOK, Answer
  <1> QED
    BY <1>2 DEF Init, StoreInv, NoRedemptions, ConflictsAreReal, RefusalWasContested

(* Every step keeps the invariant. *)
LEMMA StoreStep == StoreInv /\ [Next]_vars => StoreInv'
  <1> SUFFICES ASSUME StoreInv, [Next]_vars PROVE StoreInv'
    OBVIOUS
  <1> USE DEF StoreInv
  <1>0. /\ rows \in RowTable /\ nonces \in NonceTables /\ now \in Nat
        /\ key \in [Client -> Key] /\ answer \in [Client -> Answer]
    BY DEF TypeOK, RowTable, NonceTables
  <1>a. \A c \in Client, x \in Answer : Reply(c, x) =>
            /\ answer' \in [Client -> Answer]
            /\ \A d \in Client : answer'[d] # answer[d] => d = c /\ answer'[d] \in {x, "error"}
    BY <1>0 DEF Reply, Answer
  <1>b. \A c \in Client : Found(key[c]) \in StoredRow /\ (Found(key[c]) # NoRow => Taken(c))
    BY <1>0, LiveType DEF Found, Taken, RowTable
  <1>1. ASSUME NEW c \in Client, LeaseInMemory(c) PROVE StoreInv'
    <2>1. rows' \in RowTable /\ Verdict(rows, key[c], now) \in {"ok", "leased", "redeemed"}
      BY <1>0, <1>1, TableTypes DEF LeaseInMemory
    <2>2. Verdict(rows, key[c], now) # "ok" => Taken(c)
      <3>1. Found(key[c]) = NoRow => Verdict(rows, key[c], now) = "ok"
        BY DEF Found, Verdict, NoRow
      <3> QED
        BY <3>1, <1>b
    <2>3. TypeOK'
      BY <1>0, <1>1, <2>1 DEF LeaseInMemory, TypeOK, RowTable, Answer, Taken
    <2>4. ConfigAccepted(cfg)' /\ NoRedemptions'
      BY <1>1 DEF LeaseInMemory, ConfigAccepted, NoRedemptions
    <2>5. ConflictsAreReal' /\ RefusalWasContested'
      BY <1>0, <1>1, <2>1, <2>2 DEF LeaseInMemory, TypeOK, Answer, ConflictsAreReal, RefusalWasContested, Taken
    <2> QED
      BY <2>3, <2>4, <2>5
  <1>2. ASSUME NEW c \in Client, LeaseSet(c) PROVE StoreInv'
    <2>1. LeaseRow(now + LeaseTtl, c) \in StoredRow
      BY <1>0, RowTypes, StoreConstants
    <2>2. TypeOK'
      <3>1. rows' \in RowTable
        BY <1>0, <1>2, <2>1 DEF LeaseSet, RowTable
      <3>2. answer' \in [Client -> Answer]
        BY <1>0, <1>2, <1>a DEF LeaseSet, Answer
      <3>3. clash' \in [Client -> BOOLEAN]
        <4>1. Taken(c) \in BOOLEAN
          BY <1>0 DEF Taken, RowTable, StoredRow, Row
        <4> QED
          BY <1>2, <4>1 DEF LeaseSet, TypeOK
      <3>4. pc' \in [Client -> {"idle", "classify", "asked"}]
        BY <1>2 DEF LeaseSet, TypeOK
      <3> QED
        BY <1>2, <3>1, <3>2, <3>3, <3>4 DEF LeaseSet, TypeOK, RowTable
    <2>3. ConfigAccepted(cfg)' /\ NoRedemptions'
      BY <1>2 DEF LeaseSet, ConfigAccepted, NoRedemptions
    <2>4. ConflictsAreReal' /\ RefusalWasContested'
      BY <1>0, <1>2, <1>a, <1>b DEF LeaseSet, TypeOK, Answer, ConflictsAreReal, RefusalWasContested
    <2> QED
      BY <2>2, <2>3, <2>4
  <1>3. ASSUME NEW c \in Client, LeaseGet(c) PROVE StoreInv'
    BY <1>0, <1>3, <1>a DEF LeaseGet, Classify, TypeOK, Answer, NoRedemptions,
       ConflictsAreReal, RefusalWasContested, ConfigAccepted
  <1>4. ASSUME NEW c \in Client, CommitRedemption(c) \/ ReleaseRedemption(c) PROVE StoreInv'
    <2>1. rows' \in RowTable /\ (rows = [k \in Key |-> NoRow] => rows' = rows)
      <3>1. rows = [k \in Key |-> NoRow] => rows[key[c]].state = "none"
        BY <1>0 DEF NoRow
      <3>2. key[c] \in Key
        BY <1>0
      <3>3. rows' \in {rows, Commit(rows, key[c], c, now, Retention), Release(rows, key[c], c)}
        BY <1>4 DEF CommitRedemption, ReleaseRedemption
      <3>4. rows' \in RowTable
        BY <3>2, <3>3, <1>0, TableTypes
      <3> QED
        BY <3>1, <3>3, <3>4 DEF Commit, Release, Owns
    <2>2. answer' \in [Client -> Answer]
          /\ \A d \in Client : answer'[d] \in {"leased", "redeemed"} => answer'[d] = answer[d]
      BY <1>4, <1>a DEF CommitRedemption, ReleaseRedemption, Answer
    <2>3. UNCHANGED <<cfg, now, nonces, pc, key, drawn, clash>>
      BY <1>4 DEF CommitRedemption, ReleaseRedemption
    <2> QED
      BY <2>1, <2>2, <2>3 DEF TypeOK, RowTable, NoRedemptions,
         ConflictsAreReal, RefusalWasContested, ConfigAccepted
  <1>5. ASSUME NEW c \in Client, IssueNonce(c) \/ TakeIfValid(c) PROVE StoreInv'
    <2>1. nonces' \in NonceTables /\ drawn' \subseteq Nonce
      <3>1. CASE IssueNonce(c)
        <4>1. PICK n \in Nonce \ drawn :
                 /\ nonces' \in IF cfg.redis THEN {[nonces EXCEPT ![n] = now + NonceTtl]}
                                ELSE Issue(nonces, n, now, NonceTtl, Capacity(MaxEntries))
                 /\ drawn' = drawn \cup {n}
          BY <3>1 DEF IssueNonce
        <4>2. nonces' \in NonceTables
          BY <4>1, <1>0, NonceTypes
        <4> QED
          BY <4>1, <4>2 DEF TypeOK
      <3>2. CASE TakeIfValid(c)
        <4>1. PICK n \in Nonce : nonces' = TakenFrom(nonces, n)
          BY <3>2 DEF TakeIfValid
        <4>2. nonces' \in NonceTables
          BY <4>1, <1>0, NonceTypes DEF TakenFrom
        <4> QED
          BY <3>2, <4>2 DEF TakeIfValid, TypeOK
      <3> QED
        BY <3>1, <3>2, <1>5
    <2>2. answer' \in [Client -> Answer]
          /\ \A d \in Client : answer'[d] \in {"leased", "redeemed"} => answer'[d] = answer[d]
      BY <1>5, <1>a DEF IssueNonce, TakeIfValid, Answer
    <2>3. UNCHANGED <<cfg, now, rows, pc, key, clash>>
      BY <1>5 DEF IssueNonce, TakeIfValid
    <2> QED
      BY <2>1, <2>2, <2>3 DEF TypeOK, NonceTables, NoRedemptions,
         ConflictsAreReal, RefusalWasContested, ConfigAccepted
  <1>6. ASSUME NEW c \in Client, CommandFails(c) PROVE StoreInv'
    BY <1>0, <1>6 DEF CommandFails, TypeOK, Answer, NoRedemptions,
       ConflictsAreReal, RefusalWasContested, ConfigAccepted
  <1>7. CASE PruneNonces
    BY <1>0, <1>7, FreshType DEF PruneNonces, TypeOK, NonceTables, NoRedemptions,
       ConflictsAreReal, RefusalWasContested, ConfigAccepted
  <1>8. CASE Restart
    <2>1. NoRow \in StoredRow /\ Absent \in Nat
      BY DEF NoRow, Row, StoredRow, Absent
    <2> QED
      BY <1>8, <2>1 DEF Restart, TypeOK, NoRedemptions,
         ConflictsAreReal, RefusalWasContested, ConfigAccepted
  <1>9. CASE Tick \/ UNCHANGED vars
    BY <1>9 DEF Tick, vars, TypeOK, NoRedemptions,
       ConflictsAreReal, RefusalWasContested, ConfigAccepted
  <1> QED
    BY <1>1, <1>2, <1>3, <1>4, <1>5, <1>6, <1>7, <1>8, <1>9 DEF Next

(* The bookkeeping of both backends: no redemption without single use, no conflict that
   was not met. *)
THEOREM StoreBookkeeping == Spec => []StoreInv
  BY StoreInit, StoreStep, PTL DEF Spec

(* Between SET NX and GET a key may lapse, be released or be committed; still nobody is
   turned away from a consume that was free throughout its attempt. *)
THEOREM RefusalsAreContested == Spec => []RefusalWasContested
  <1>1. StoreInv => RefusalWasContested
    BY DEF StoreInv
  <1> QED
    BY <1>1, StoreBookkeeping, PTL
-----------------------------------------------------------------------------
(* The refinement. *)

(* An error, or an answer, is what the port lets a caller learn. *)
LEMMA PortLearns ==
    ASSUME NEW c \in Client, NEW x, Reply(c, x)
    PROVE  Port!Learns(c, x)
  BY DEF Reply, Port!Learns

(* Commit and release act on the view as they do on the table. *)
LEMMA ViewOps ==
    ASSUME NEW m \in Nat, NEW t \in RowTable, NEW k \in Key, NEW c \in Client
    PROVE  /\ Owns(t, k, c, m) <=> Owns(Retain(t, m), k, c, m)
           /\ Retain(Commit(t, k, c, m, Retention), m) = Commit(Retain(t, m), k, c, m, Retention)
           /\ Retain(Release(t, k, c), m) = Release(Retain(t, m), k, c)
  <1>0. Retain(t, m) \in RowTable
    BY LiveType
  <1>1. \/ Retain(t, m)[k] = NoRow /\ ~(t[k].expiry > m)
        \/ Retain(t, m)[k] = t[k] /\ t[k].expiry > m
    BY LiveType
  <1>2. NoRow.state = "none"
    BY DEF NoRow
  <1>3. Owns(t, k, c, m) <=> Owns(Retain(t, m), k, c, m)
    BY <1>1, <1>2 DEF Owns
  <1>4. Retain(Commit(t, k, c, m, Retention), m) = Commit(Retain(t, m), k, c, m, Retention)
    <2>1. CommitRow(m + Retention) \in StoredRow /\ CommitRow(m + Retention).expiry > m
      BY RowTypes, StoreConstants
    <2> QED
      BY <1>3, <2>1, LivePut DEF Commit
  <1>5. Retain(Release(t, k, c), m) = Release(Retain(t, m), k, c)
    <2>1. CASE t[k].expiry > m
      BY <1>1, <2>1, LiveDrop DEF Release
    <2>2. CASE ~(t[k].expiry > m)
      <3>1. Retain([t EXCEPT ![k] = NoRow], m) = Retain(t, m)
        BY <2>2 DEF RowTable, Retain, NoRow
      <3> QED
        BY <3>1, <1>1, <1>2, <2>2 DEF Release
    <2> QED
      BY <2>1, <2>2
  <1> QED
    BY <1>3, <1>4, <1>5

(* The table of a successful lease attempt, as the port sees it. *)
LEMMA LeasedView ==
    ASSUME NEW m \in Nat, NEW k \in Key, NEW c \in Client,
           NEW u \in RowTable, u = Retain(u, m)
    PROVE  Retain([u EXCEPT ![k] = LeaseRow(m + LeaseTtl, c)], m)
              = [u EXCEPT ![k] = LeaseRow(m + LeaseTtl, c)]
  <1>1. LeaseRow(m + LeaseTtl, c) \in StoredRow /\ LeaseRow(m + LeaseTtl, c).expiry > m
    BY RowTypes, StoreConstants
  <1> QED
    BY <1>1, LivePut

(* A lease in memory is a lease, or a refusal, of the port. *)
LEMMA MemoryLeaseRefines ==
    ASSUME StoreInv, NEW c \in Client, LeaseInMemory(c)
    PROVE  Port!Lease(c, key[c]) \/ Port!Refuse(c, key[c])
  <1> DEFINE k == key[c]
             kept == Retain(rows, now)
             row == LeaseRow(now + LeaseTtl, c)
  <1>0. rows \in RowTable /\ now \in Nat /\ k \in Key /\ now' = now /\ nonces' = nonces
    BY DEF StoreInv, TypeOK, RowTable, LeaseInMemory
  <1>1. kept \in RowTable /\ Retain(kept, now) = kept
    BY <1>0, LiveType
  <1>2. rows' \in TryLease(rows, k, now, LeaseTtl, MaxEntries, c)
        /\ answer' = [answer EXCEPT ![c] = Verdict(rows, k, now)]
    BY DEF LeaseInMemory
  <1>3. Prune(nonces', now') = Prune(nonces, now)
    BY <1>0
  <1>4. kept[k] \in StoredRow /\ kept[k].state \in {"none", "leased", "committed"}
    BY <1>0, <1>1 DEF RowTable, Row, StoredRow
  <1>5. CASE Verdict(rows, k, now) = "ok"
    <2>1. kept[k] = NoRow
      BY <1>4, <1>5 DEF Verdict, StoredRow
    <2>2. PICK u \in Evicted(kept, MaxEntries) : rows' = [u EXCEPT ![k] = row]
      BY <1>2, <1>5 DEF TryLease
    <2>3. u \in RowTable /\ u \in {kept} \cup {[kept EXCEPT ![v] = NoRow] : v \in Leases(kept)}
      BY <1>1, EvictedTables
    <2>4. Retain(u, now) = u
      <3>1. CASE u = kept
        BY <3>1, <1>1
      <3>2. CASE u # kept
        <4>1. PICK v \in Leases(kept) : u = [kept EXCEPT ![v] = NoRow]
          BY <3>2, <2>3
        <4>2. v \in Key
          BY <1>1 DEF Leases, RowTable
        <4> HIDE DEF kept
        <4>3. Retain([kept EXCEPT ![v] = NoRow], now) = [Retain(kept, now) EXCEPT ![v] = NoRow]
          BY <4>2, <1>0, <1>1, LiveDrop
        <4> QED
          BY <4>1, <4>3, <1>1
      <3> QED
        BY <3>1, <3>2
    <2>5. Retain(rows', now') = [u EXCEPT ![k] = row]
      <3> HIDE DEF kept, k
      <3>1. Retain([u EXCEPT ![k] = row], now) = [u EXCEPT ![k] = row]
        BY <2>3, <2>4, <1>0, LeasedView
      <3> QED
        BY <3>1, <2>2, <1>0
    <2>6. Port!Learns(c, "ok")
      BY <1>2, <1>5 DEF Port!Learns
    <2>7. Port!Lease(c, k)
      BY <2>1, <2>3, <2>5, <2>6, <1>0, <1>3, PortRows DEF Port!Lease
    <2> QED
      BY <2>7
  <1>6. CASE Verdict(rows, k, now) # "ok"
    <2>1. rows' = kept
      BY <1>2, <1>6 DEF TryLease
    <2>2. Retain(rows', now') = kept
      BY <2>1, <1>0, <1>1
    <2>3. Verdict(rows, k, now) \in {"leased", "redeemed"}
          /\ (Verdict(rows, k, now) = "redeemed" => kept[k].state = "committed")
      BY <1>4, <1>6 DEF Verdict
    <2>4. Port!Learns(c, Verdict(rows, k, now))
      BY <1>2 DEF Port!Learns
    <2>5. Port!Refuse(c, k)
      BY <2>2, <2>3, <2>4, <1>0, <1>3 DEF Port!Refuse
    <2> QED
      BY <2>5
  <1> QED
    BY <1>5, <1>6

(* SET NX is a lease of the port, or changes nothing it can see. *)
LEMMA SetRefines ==
    ASSUME StoreInv, NEW c \in Client, LeaseSet(c)
    PROVE  Port!Lease(c, key[c]) \/ UNCHANGED Port!vars
  <1>0. rows \in RowTable /\ now \in Nat /\ key[c] \in Key /\ now' = now /\ nonces' = nonces
    BY DEF StoreInv, TypeOK, RowTable, LeaseSet
  <1>1. CASE Found(key[c]) = NoRow
    <2>1. rows' = [rows EXCEPT ![key[c]] = LeaseRow(now + LeaseTtl, c)] /\ Reply(c, "ok")
      BY <1>1 DEF LeaseSet
    <2>2. LeaseRow(now + LeaseTtl, c) \in StoredRow /\ LeaseRow(now + LeaseTtl, c).expiry > now
      BY <1>0, RowTypes, StoreConstants
    <2>3. Retain(rows', now') = [Retain(rows, now) EXCEPT ![key[c]] = LeaseRow(now + LeaseTtl, c)]
      <3>1. Retain([rows EXCEPT ![key[c]] = LeaseRow(now + LeaseTtl, c)], now)
              = [Retain(rows, now) EXCEPT ![key[c]] = LeaseRow(now + LeaseTtl, c)]
        BY <2>2, <1>0, LivePut
      <3> QED
        BY <3>1, <2>1, <1>0
    <2>4. Port!Learns(c, "ok")
      BY <2>1, PortLearns
    <2> QED
      BY <2>3, <2>4, <1>0, <1>1, PortRows DEF Port!Lease, Found
  <1>2. CASE Found(key[c]) # NoRow
    BY <1>0, <1>2 DEF LeaseSet, Port!vars
  <1> QED
    BY <1>1, <1>2

(* GET classifies: a refusal of the port. *)
LEMMA GetRefines ==
    ASSUME NEW c \in Client, LeaseGet(c)
    PROVE  Port!Refuse(c, key[c])
  <1>1. Port!Learns(c, Classify(Found(key[c])))
    BY PortLearns DEF LeaseGet
  <1> QED
    BY <1>1 DEF LeaseGet, Classify, Found, Port!Refuse

(* The scripts are the port's commit and release. *)
LEMMA ScriptsRefine ==
    ASSUME StoreInv, NEW c \in Client
    PROVE  /\ CommitRedemption(c) => Port!CommitLease(c, key[c])
           /\ ReleaseRedemption(c) => Port!ReleaseLease(c, key[c])
  <1>0. rows \in RowTable /\ now \in Nat /\ key[c] \in Key
    BY DEF StoreInv, TypeOK, RowTable
  <1>1. /\ Owns(rows, key[c], c, now) <=> Owns(Retain(rows, now), key[c], c, now)
        /\ Retain(Commit(rows, key[c], c, now, Retention), now)
              = Commit(Retain(rows, now), key[c], c, now, Retention)
        /\ Retain(Release(rows, key[c], c), now) = Release(Retain(rows, now), key[c], c)
    BY <1>0, ViewOps
  <1>2. ASSUME CommitRedemption(c) PROVE Port!CommitLease(c, key[c])
    <2>1. Port!Learns(c, IF Owns(rows, key[c], c, now) THEN "committed" ELSE "lost")
      BY <1>2, PortLearns DEF CommitRedemption
    <2> QED
      BY <1>1, <1>2, <2>1, PortRows DEF CommitRedemption, Port!CommitLease
  <1>3. ASSUME ReleaseRedemption(c) PROVE Port!ReleaseLease(c, key[c])
    <2>1. Port!Learns(c, "released")
      BY <1>3, PortLearns DEF ReleaseRedemption
    <2>2. Found(key[c]) = NoRow => Release(Retain(rows, now), key[c], c) = Retain(rows, now)
      BY DEF Found, Release, NoRow
    <2>3. Retain(rows', now) = Release(Retain(rows, now), key[c], c)
      BY <1>1, <1>3, <2>2 DEF ReleaseRedemption
    <2> QED
      BY <1>3, <2>1, <2>3, PortRows DEF ReleaseRedemption, Port!ReleaseLease
  <1> QED
    BY <1>2, <1>3

(* Issuing and taking a nonce. *)
LEMMA NoncesRefine ==
    ASSUME StoreInv, NEW c \in Client
    PROVE  /\ IssueNonce(c) => \E n \in Nonce : Port!IssueNonce(c, n)
           /\ TakeIfValid(c) => \E n \in Nonce : Port!TakeNonce(c, n)
  <1>0. nonces \in NonceTables /\ now \in Nat /\ now + NonceTtl \in Nat /\ now + NonceTtl > now
    BY StoreConstants DEF StoreInv, TypeOK, NonceTables
  <1> DEFINE view == Prune(nonces, now)
  <1>a. view \in NonceTables /\ Prune(view, now) = view
    BY <1>0, FreshType
  <1>1. ASSUME IssueNonce(c) PROVE \E n \in Nonce : Port!IssueNonce(c, n)
    <2>1. PICK n \in Nonce \ drawn :
             nonces' \in IF cfg.redis THEN {[nonces EXCEPT ![n] = now + NonceTtl]}
                         ELSE Issue(nonces, n, now, NonceTtl, Capacity(MaxEntries))
      BY <1>1 DEF IssueNonce
    <2>2. PICK t \in {view} \cup {[view EXCEPT ![v] = Absent] : v \in Held(view)} :
             Prune(nonces', now) = [t EXCEPT ![n] = now + NonceTtl]
      <3>1. CASE cfg.redis
        <4>1. Prune([nonces EXCEPT ![n] = now + NonceTtl], now) = [view EXCEPT ![n] = now + NonceTtl]
          BY <1>0, FreshPut
        <4> QED
          BY <3>1, <4>1, <2>1
      <3>2. CASE ~cfg.redis
        <4>1. PICK t \in {view} \cup {[view EXCEPT ![v] = Absent] : v \in Held(view)} :
                 nonces' = [t EXCEPT ![n] = now + NonceTtl]
          <5>1. Oldest(view, Capacity(MaxEntries)) \subseteq Held(view)
            BY OldestHeld
          <5>2. nonces' \in Issue(nonces, n, now, NonceTtl, Capacity(MaxEntries))
            BY <3>2, <2>1
          <5> QED
            BY <5>1, <5>2 DEF Issue
        <4> HIDE DEF view
        <4>2. t \in NonceTables /\ Prune(t, now) = t
          <5>1. CASE t = view
            BY <5>1, <1>a
          <5>2. CASE t # view
            <6>1. PICK v \in Held(view) : t = [view EXCEPT ![v] = Absent]
              BY <5>2
            <6>2. v \in Nonce /\ Absent \in Nat
              BY <1>a DEF Held, NonceTables, Absent
            <6>3. Prune([view EXCEPT ![v] = Absent], now) = [Prune(view, now) EXCEPT ![v] = Absent]
              BY <6>2, <1>a, <1>0, FreshPut
            <6> QED
              BY <6>1, <6>2, <6>3, <1>a DEF NonceTables
          <5> QED
            BY <5>1, <5>2
        <4>3. Prune([t EXCEPT ![n] = now + NonceTtl], now) = [Prune(t, now) EXCEPT ![n] = now + NonceTtl]
          BY <4>2, <1>0, FreshPut
        <4> QED
          BY <4>1, <4>2, <4>3
      <3> QED
        BY <3>1, <3>2
    <2>3. Port!Learns(c, "issued") /\ now' = now /\ rows' = rows
      BY <1>1, PortLearns DEF IssueNonce
    <2>4. Port!IssueNonce(c, n)
      BY <2>2, <2>3, PortNonces DEF Port!IssueNonce
    <2> QED
      BY <2>4
  <1>2. ASSUME TakeIfValid(c) PROVE \E n \in Nonce : Port!TakeNonce(c, n)
    <2>1. PICK n \in Nonce :
             /\ nonces' = TakenFrom(nonces, n)
             /\ Reply(c, IF Alive(nonces, n, now) THEN "taken" ELSE "invalid")
      BY <1>2 DEF TakeIfValid
    <2>2. Alive(nonces, n, now) <=> Alive(view, n, now)
      BY <1>0, FreshType
    <2>3. Prune(nonces', now) = Take(view, n)
      <3>1. Prune(Take(nonces, n), now) = Take(view, n)
        BY <1>0, FreshPut DEF Take, Absent
      <3>2. ~Alive(nonces, n, now) => Take(view, n) = view
        BY <1>0 DEF Take, Alive, Prune, NonceTables
      <3> QED
        BY <3>1, <3>2, <2>1 DEF TakenFrom
    <2>4. Port!Learns(c, IF Alive(view, n, now) THEN "taken" ELSE "invalid")
      BY <2>1, <2>2, PortLearns
    <2>5. now' = now /\ rows' = rows
      BY <1>2 DEF TakeIfValid
    <2>6. Port!TakeNonce(c, n)
      BY <2>3, <2>4, <2>5, PortNonces DEF Port!TakeNonce
    <2> QED
      BY <2>6
  <1> QED
    BY <1>1, <1>2

(* What the process and the clock do on their own. *)
LEMMA RestRefines ==
    ASSUME StoreInv
    PROVE  /\ \A c \in Client : CommandFails(c) => Port!Fail(c)
           /\ PruneNonces => UNCHANGED Port!vars
           /\ Restart => Port!Restart
           /\ Tick => Port!Tick
           /\ UNCHANGED vars => UNCHANGED Port!vars
  <1>0. rows \in RowTable /\ nonces \in NonceTables /\ now \in Nat /\ answer \in [Client -> Answer]
    BY DEF StoreInv, TypeOK, RowTable, NonceTables
  <1>1. \A c \in Client : CommandFails(c) => Port!Fail(c)
    BY DEF CommandFails, Port!Fail
  <1>2. PruneNonces => UNCHANGED Port!vars
    BY <1>0, FreshType DEF PruneNonces, Port!vars
  <1>3. ASSUME Restart PROVE Port!Restart
    <2>1. now' = now /\ answer' = answer
      BY <1>3 DEF Restart
    <2>2. Prune(nonces', now) \in {Prune(nonces, now), [n \in Nonce |-> Absent]}
      <3>1. Prune([n \in Nonce |-> Absent], now) = [n \in Nonce |-> Absent]
        BY <1>0 DEF Prune, Absent
      <3> QED
        BY <1>3, <3>1 DEF Restart
    <2>3. Retain(rows', now) \in {Retain(rows, now), [k \in Key |-> NoRow]}
      <3>1. Retain([k \in Key |-> NoRow], now) = [k \in Key |-> NoRow]
        BY <1>0 DEF Retain, NoRow
      <3> QED
        BY <1>3, <3>1 DEF Restart
    <2> QED
      BY <1>0, <2>1, <2>2, <2>3, PortRows, PortNonces DEF Port!Restart
  <1>4. ASSUME Tick PROVE Port!Tick
    <2>1. Retain(rows, now + 1) = Retain(Retain(rows, now), now + 1)
      BY <1>0, LiveLater
    <2>2. Prune(nonces, now + 1) = Prune(Prune(nonces, now), now + 1)
      BY <1>0, FreshType
    <2> QED
      BY <1>4, <2>1, <2>2, PortRows, PortNonces DEF Tick, Port!Tick
  <1>5. UNCHANGED vars => UNCHANGED Port!vars
    BY DEF vars, Port!vars
  <1> QED
    BY <1>1, <1>2, <1>3, <1>4, <1>5

(* Every action of the port but a restart. *)
PortCall ==
    \/ \E c \in Client :
          \/ \E k \in Key :
                Port!Lease(c, k) \/ Port!Refuse(c, k) \/ Port!CommitLease(c, k) \/ Port!ReleaseLease(c, k)
          \/ \E n \in Nonce : Port!IssueNonce(c, n) \/ Port!TakeNonce(c, n)
          \/ Port!Fail(c)
    \/ Port!Tick

(* An empty store is an empty port. *)
LEMMA InitRefines == Init => Port!Init
  <1> SUFFICES ASSUME Init PROVE Port!Init
    OBVIOUS
  <1>1. Retain([k \in Key |-> NoRow], 0) = [k \in Key |-> NoRow]
    BY DEF Retain, NoRow
  <1>2. Prune([n \in Nonce |-> Absent], 0) = [n \in Nonce |-> Absent]
    BY DEF Prune, Absent
  <1> QED
    BY <1>1, <1>2, PortRows, PortNonces DEF Init, Port!Init

(* Every step but a restart is a call of the port, or time, or invisible. *)
LEMMA StepRefines ==
    ASSUME StoreInv, [Next]_vars, ~Restart
    PROVE  PortCall \/ UNCHANGED Port!vars
  <1>0. key \in [Client -> Key]
    BY DEF StoreInv, TypeOK
  <1>1. ASSUME NEW c \in Client, LeaseInMemory(c) PROVE PortCall
    BY <1>0, <1>1, MemoryLeaseRefines DEF PortCall
  <1>2. ASSUME NEW c \in Client, LeaseSet(c) PROVE PortCall \/ UNCHANGED Port!vars
    BY <1>0, <1>2, SetRefines DEF PortCall
  <1>3. ASSUME NEW c \in Client, LeaseGet(c) PROVE PortCall
    BY <1>0, <1>3, GetRefines DEF PortCall
  <1>4. ASSUME NEW c \in Client, CommitRedemption(c) \/ ReleaseRedemption(c) PROVE PortCall
    BY <1>0, <1>4, ScriptsRefine DEF PortCall
  <1>5. ASSUME NEW c \in Client, IssueNonce(c) \/ TakeIfValid(c) PROVE PortCall
    BY <1>5, NoncesRefine DEF PortCall
  <1>6. ASSUME NEW c \in Client, CommandFails(c) PROVE PortCall
    BY <1>6, RestRefines DEF PortCall
  <1>7. CASE PruneNonces \/ Tick \/ UNCHANGED vars
    BY <1>7, RestRefines DEF PortCall
  <1> QED
    BY <1>1, <1>2, <1>3, <1>4, <1>5, <1>6, <1>7 DEF Next

(* The native store, in memory or in Redis, with failing commands, lost replies, expiry
   and restarts, gives the gateway the port it is written against: nonces that are taken
   once, leases that only their owner commits or releases, commits that nothing but their
   retention ends, and no final refusal without a commit. *)
THEOREM StoreImplementsPort == Spec => ImplementsStateStore
  <1>1. PortCall => Port!Next
    BY DEF PortCall, Port!Next
  <1>2. StoreInv /\ [Next]_vars => [Port!Next]_(Port!vars)
    <2> SUFFICES ASSUME StoreInv, [Next]_vars PROVE [Port!Next]_(Port!vars)
      OBVIOUS
    <2>1. CASE Restart
      BY <2>1, RestRefines DEF Port!Next
    <2>2. CASE ~Restart
      BY <1>1, <2>2, StepRefines
    <2> QED
      BY <2>1, <2>2
  <1> QED
    BY <1>2, InitRefines, StoreBookkeeping, PTL DEF Spec, ImplementsStateStore, Port!Spec

-----------------------------------------------------------------------------
(* The port that forgets nothing. *)

(* Both ports are built from the same tables. *)
LEMMA DurableTables ==
    /\ DurablePort!NoRow = Port!NoRow
    /\ \A e, c : DurablePort!LeaseRow(e, c) = Port!LeaseRow(e, c)
    /\ \A t : DurablePort!Leases(t) = Port!Leases(t)
    /\ \A t, x : DurablePort!Retain(t, x) = Port!Retain(t, x)
    /\ \A t, k, c, x : DurablePort!Owns(t, k, c, x) <=> Port!Owns(t, k, c, x)
    /\ \A t, k, c, x, r : DurablePort!Commit(t, k, c, x, r) = Port!Commit(t, k, c, x, r)
    /\ \A t, k, c : DurablePort!Release(t, k, c) = Port!Release(t, k, c)
    /\ DurablePort!Absent = Port!Absent
    /\ \A t : DurablePort!Held(t) = Port!Held(t)
    /\ \A t, x : DurablePort!Prune(t, x) = Port!Prune(t, x)
    /\ \A t, n : DurablePort!Take(t, n) = Port!Take(t, n)
    /\ \A t, n, x : DurablePort!Alive(t, n, x) <=> Port!Alive(t, n, x)
  BY DEF DurablePort!NoRow, Port!NoRow, DurablePort!LeaseRow, Port!LeaseRow,
         DurablePort!CommitRow, Port!CommitRow, DurablePort!Leases, Port!Leases,
         DurablePort!Retain, Port!Retain, DurablePort!Owns, Port!Owns, DurablePort!Commit,
         Port!Commit, DurablePort!Release, Port!Release, DurablePort!Absent, Port!Absent,
         DurablePort!Held, Port!Held, DurablePort!Prune, Port!Prune, DurablePort!Take,
         Port!Take, DurablePort!Alive, Port!Alive

(* Calls and time are the same in both; only restarts differ. *)
LEMMA DurableCalls ==
    /\ Port!Init => DurablePort!Init
    /\ PortCall => DurablePort!Next
    /\ UNCHANGED Port!vars => UNCHANGED DurablePort!vars
  <1>1. Port!Init => DurablePort!Init
    BY DurableTables DEF Port!Init, DurablePort!Init
  <1>2. ASSUME NEW c \in Client, NEW k \in Key
        PROVE  /\ Port!Lease(c, k) => DurablePort!Lease(c, k)
               /\ Port!Refuse(c, k) => DurablePort!Refuse(c, k)
               /\ Port!CommitLease(c, k) => DurablePort!CommitLease(c, k)
               /\ Port!ReleaseLease(c, k) => DurablePort!ReleaseLease(c, k)
    <2>1. \A x : Port!Learns(c, x) => DurablePort!Learns(c, x)
      BY DEF Port!Learns, DurablePort!Learns
    <2>2. Port!Lease(c, k) => DurablePort!Lease(c, k)
      BY <2>1, DurableTables DEF Port!Lease, DurablePort!Lease
    <2>3. Port!Refuse(c, k) => DurablePort!Refuse(c, k)
      BY <2>1 DEF Port!Refuse, DurablePort!Refuse
    <2>4. Port!CommitLease(c, k) => DurablePort!CommitLease(c, k)
      BY <2>1, DurableTables DEF Port!CommitLease, DurablePort!CommitLease
    <2>5. Port!ReleaseLease(c, k) => DurablePort!ReleaseLease(c, k)
      BY <2>1, DurableTables DEF Port!ReleaseLease, DurablePort!ReleaseLease
    <2> QED
      BY <2>2, <2>3, <2>4, <2>5
  <1>3. ASSUME NEW c \in Client, NEW n \in Nonce
        PROVE  /\ Port!IssueNonce(c, n) => DurablePort!IssueNonce(c, n)
               /\ Port!TakeNonce(c, n) => DurablePort!TakeNonce(c, n)
    <2>1. \A x : Port!Learns(c, x) => DurablePort!Learns(c, x)
      BY DEF Port!Learns, DurablePort!Learns
    <2> QED
      BY <2>1, DurableTables DEF Port!IssueNonce, DurablePort!IssueNonce, Port!TakeNonce, DurablePort!TakeNonce
  <1>4. \A c \in Client : Port!Fail(c) => DurablePort!Fail(c)
    BY DurableTables DEF Port!Fail, DurablePort!Fail
  <1>5. Port!Tick => DurablePort!Tick
    BY DurableTables DEF Port!Tick, DurablePort!Tick
  <1>6. PortCall => DurablePort!Next
    BY <1>2, <1>3, <1>4, <1>5 DEF PortCall, DurablePort!Next
  <1>7. UNCHANGED Port!vars => UNCHANGED DurablePort!vars
    BY DEF Port!vars, DurablePort!vars
  <1> QED
    BY <1>1, <1>6, <1>7

(* A restart that loses what is in memory loses no redemption: the store that keeps some in
   memory is the one `from_lookup` refuses, unless the operator allowed it. *)
LEMMA DurableRestart ==
    ASSUME StoreInv, Restart, Remembers
    PROVE  DurablePort!Restart
  <1>0. now \in Nat /\ answer \in [Client -> Answer] /\ cfg.redis \in BOOLEAN /\ cfg.single_use \in BOOLEAN
    BY DEF StoreInv, TypeOK, Settings
  <1>1. now' = now /\ answer' = answer
    BY DEF Restart
  <1>2. Prune(nonces', now) \in {Prune(nonces, now), [n \in Nonce |-> Absent]}
    <2>1. Prune([n \in Nonce |-> Absent], now) = [n \in Nonce |-> Absent]
      BY <1>0 DEF Prune, Absent
    <2> QED
      BY <2>1 DEF Restart
  <1>3. rows' = rows
    <2>1. CASE cfg.redis
      BY <2>1 DEF Restart
    <2>2. CASE ~cfg.redis
      <3>1. ~cfg.single_use
        BY <1>0, <2>2, StoreConstants DEF Remembers, StoreInv, ConfigAccepted
      <3> QED
        BY <2>2, <3>1 DEF Restart, StoreInv, NoRedemptions
    <2> QED
      BY <2>1, <2>2
  <1> QED
    BY <1>0, <1>1, <1>2, <1>3, PortNonces, DurableTables DEF DurablePort!Restart

(* The configurations `from_lookup` accepts without ALLOW_VOLATILE_REDEMPTIONS, and every
   configuration with Redis, implement the port whose restarts forget no redemption. *)
THEOREM RedemptionsSurviveRestarts == Spec => ForgetsNoRedemption
  <1>1. Init => DurablePort!Init
    BY InitRefines, DurableCalls
  <1>2. StoreInv /\ [Next]_vars => [Remembers => UNCHANGED DurablePort!vars \/ DurablePort!Next]_vars
    <2> SUFFICES ASSUME StoreInv, Remembers, [Next]_vars
                 PROVE  UNCHANGED DurablePort!vars \/ DurablePort!Next
      OBVIOUS
    <2>1. CASE Restart
      BY <2>1, DurableRestart DEF DurablePort!Next
    <2>2. CASE ~Restart
      <3>1. PortCall \/ UNCHANGED Port!vars
        BY <2>2, StepRefines
      <3> QED
        BY <3>1, DurableCalls
    <2> QED
      BY <2>1, <2>2
  <1> QED
    BY <1>1, <1>2, StoreBookkeeping, PTL DEF Spec, ForgetsNoRedemption

-----------------------------------------------------------------------------
(***************************************************************************)
(* The Durable Objects, for any callers, consumes, nonces, regions and     *)
(* caps.  The port sees one table of redemptions and one of nonces,        *)
(* without their expired entries; the nonces are spread over the           *)
(* instances, so the argument needs that a nonce is only ever stored where *)
(* its own tag leads (StoredWhereTagLeads).                                *)
(***************************************************************************)

(* Lifetimes are positive. *)
LEMMA Lifetimes ==
    ASSUME Objects!DurableConstants, NEW m \in Nat
    PROVE  /\ m + LeaseTtl \in Nat /\ m + LeaseTtl > m
           /\ m + Retention \in Nat /\ m + Retention > m
           /\ m + NonceTtl \in Nat /\ m + NonceTtl > m
  <1>1. {LeaseTtl, Retention, NonceTtl} \subseteq Nat \ {0}
    BY Zenon DEF Objects!DurableConstants
  <1> QED
    BY <1>1

ObjectRowTable == [Key -> Objects!StoredRow]
ObjectNonceTables == [ObjectNonce -> Nat]

-----------------------------------------------------------------------------
(* The table of redemptions, and what is alive of it. *)

(* Rows are well typed and keep the expiry they are made with. *)
LEMMA ObjectRowTypes ==
    ASSUME NEW e \in Nat, NEW c \in Client \cup {NoToken}
    PROVE  /\ Objects!NoRow \in Objects!StoredRow /\ Objects!NoRow.expiry = 0 /\ Objects!NoRow.state = "none"
           /\ Objects!LeaseRow(e, c) \in Objects!StoredRow /\ Objects!LeaseRow(e, c).expiry = e
           /\ Objects!CommitRow(e) \in Objects!StoredRow /\ Objects!CommitRow(e).expiry = e
  BY DEF Objects!NoRow, Objects!LeaseRow, Objects!CommitRow, Objects!Row, Objects!StoredRow

(* The view of a table is a table: it has a row or none, and looking twice shows the same. *)
LEMMA ViewType ==
    ASSUME NEW m \in Nat, NEW t \in ObjectRowTable
    PROVE  /\ Objects!Retain(t, m) \in ObjectRowTable
           /\ Objects!Retain(Objects!Retain(t, m), m) = Objects!Retain(t, m)
           /\ Objects!Retain(t, m + 1) = Objects!Retain(Objects!Retain(t, m), m + 1)
           /\ \A k \in Key : \/ Objects!Retain(t, m)[k] = Objects!NoRow /\ ~(t[k].expiry > m)
                             \/ Objects!Retain(t, m)[k] = t[k] /\ t[k].expiry > m
  <1>1. Objects!NoRow \in Objects!StoredRow /\ Objects!NoRow.expiry = 0
    BY DEF Objects!NoRow, Objects!Row, Objects!StoredRow
  <1>2. \A k \in Key : t[k].expiry \in Nat
    BY DEF ObjectRowTable, Objects!Row, Objects!StoredRow
  <1> QED
    BY <1>1, <1>2 DEF Objects!Retain, ObjectRowTable

(* Storing a row that has not lapsed, or removing one, commutes with the view. *)
LEMMA ViewPut ==
    ASSUME NEW m \in Nat, NEW t \in ObjectRowTable, NEW k \in Key, NEW r \in Objects!StoredRow,
           r.expiry > m \/ r = Objects!NoRow
    PROVE  /\ [t EXCEPT ![k] = r] \in ObjectRowTable
           /\ Objects!Retain([t EXCEPT ![k] = r], m) = [Objects!Retain(t, m) EXCEPT ![k] = r]
  BY DEF Objects!Retain, ObjectRowTable, Objects!NoRow

(* A table that makes room drops at most one lease, and what is left has not lapsed. *)
LEMMA ObjectEvictedTables ==
    ASSUME NEW m \in Nat, NEW t \in ObjectRowTable, NEW u \in Objects!Evicted(Objects!Retain(t, m), MaxEntries)
    PROVE  /\ u \in ObjectRowTable /\ Objects!Retain(u, m) = u
           /\ u \in {Objects!Retain(t, m)} \cup {[Objects!Retain(t, m) EXCEPT ![v] = Objects!NoRow] : v \in Objects!Leases(Objects!Retain(t, m))}
  <1> DEFINE kept == Objects!Retain(t, m)
  <1>1. kept \in ObjectRowTable /\ Objects!Retain(kept, m) = kept
    BY ViewType
  <1> HIDE DEF kept
  <1>2. Objects!Victims(kept, MaxEntries) \subseteq Objects!Leases(kept)
    BY DEF Objects!Victims
  <1>3. u \in Objects!Evicted(kept, MaxEntries)
    BY DEF kept
  <1>4. CASE u = kept
    BY <1>1, <1>4 DEF kept
  <1>5. CASE u # kept
    <2>1. PICK v \in Objects!Leases(kept) : u = [kept EXCEPT ![v] = Objects!NoRow]
      BY <1>2, <1>3, <1>5 DEF Objects!Evicted
    <2>2. v \in Key /\ Objects!NoRow \in Objects!StoredRow
      BY <1>1 DEF Objects!Leases, ObjectRowTable, Objects!NoRow, Objects!Row, Objects!StoredRow
    <2>3. /\ [kept EXCEPT ![v] = Objects!NoRow] \in ObjectRowTable
          /\ Objects!Retain([kept EXCEPT ![v] = Objects!NoRow], m) = [Objects!Retain(kept, m) EXCEPT ![v] = Objects!NoRow]
      BY <1>1, <2>2, ViewPut
    <2> QED
      BY <1>1, <2>1, <2>3 DEF kept
  <1> QED
    BY <1>4, <1>5

(* Commit and release act on the view as they do on the table. *)
LEMMA ObjectViewOps ==
    ASSUME Objects!DurableConstants, NEW m \in Nat, NEW t \in ObjectRowTable, NEW k \in Key, NEW c \in Client
    PROVE  /\ Objects!Commit(t, k, c, m, Retention) \in ObjectRowTable /\ Objects!Release(t, k, c) \in ObjectRowTable
           /\ Objects!Owns(t, k, c, m) <=> Objects!Owns(Objects!Retain(t, m), k, c, m)
           /\ Objects!Retain(Objects!Commit(t, k, c, m, Retention), m) = Objects!Commit(Objects!Retain(t, m), k, c, m, Retention)
           /\ Objects!Retain(Objects!Release(t, k, c), m) = Objects!Release(Objects!Retain(t, m), k, c)
  <1>1. \/ Objects!Retain(t, m)[k] = Objects!NoRow /\ ~(t[k].expiry > m)
        \/ Objects!Retain(t, m)[k] = t[k] /\ t[k].expiry > m
    BY ViewType
  <1>2. Objects!NoRow.state = "none" /\ Objects!NoRow \in Objects!StoredRow
    BY DEF Objects!NoRow, Objects!Row, Objects!StoredRow
  <1>3. Objects!Owns(t, k, c, m) <=> Objects!Owns(Objects!Retain(t, m), k, c, m)
    BY <1>1, <1>2 DEF Objects!Owns
  <1>4. Objects!CommitRow(m + Retention) \in Objects!StoredRow /\ Objects!CommitRow(m + Retention).expiry > m
    <2>1. m + Retention \in Nat /\ m + Retention > m
      BY Lifetimes
    <2> QED
      BY <2>1, ObjectRowTypes
  <1>5. /\ Objects!Commit(t, k, c, m, Retention) \in ObjectRowTable
        /\ Objects!Retain(Objects!Commit(t, k, c, m, Retention), m) = Objects!Commit(Objects!Retain(t, m), k, c, m, Retention)
    BY <1>3, <1>4, ViewPut DEF Objects!Commit
  <1>6. Objects!Release(t, k, c) \in ObjectRowTable /\ Objects!Retain(Objects!Release(t, k, c), m) = Objects!Release(Objects!Retain(t, m), k, c)
    <2>1. CASE t[k].expiry > m
      BY <1>1, <1>2, <2>1, ViewPut DEF Objects!Release
    <2>2. CASE ~(t[k].expiry > m)
      <3>1. Objects!Retain([t EXCEPT ![k] = Objects!NoRow], m) = Objects!Retain(t, m)
        BY <2>2 DEF ObjectRowTable, Objects!Retain, Objects!NoRow
      <3>2. [t EXCEPT ![k] = Objects!NoRow] \in ObjectRowTable
        BY <1>2, ViewPut
      <3> QED
        BY <3>1, <3>2, <1>1, <1>2, <2>2 DEF Objects!Release
    <2> QED
      BY <2>1, <2>2
  <1> QED
    BY <1>3, <1>5, <1>6

(* What a lease attempt leaves behind: the view with a new lease, after making room. *)
LEMMA LeasedTables ==
    ASSUME Objects!DurableConstants, NEW m \in Nat, NEW t \in ObjectRowTable, NEW k \in Key, NEW c \in Client,
           NEW u \in Objects!TryLease(t, k, m, LeaseTtl, MaxEntries, c)
    PROVE  /\ u \in ObjectRowTable /\ Objects!Retain(u, m) = u
           /\ Objects!Verdict(t, k, m) = "ok" =>
                 /\ Objects!Retain(t, m)[k] = Objects!NoRow
                 /\ \E w \in {Objects!Retain(t, m)}
                             \cup {[Objects!Retain(t, m) EXCEPT ![v] = Objects!NoRow] : v \in Objects!Leases(Objects!Retain(t, m))} :
                       u = [w EXCEPT ![k] = Objects!LeaseRow(m + LeaseTtl, c)]
           /\ Objects!Verdict(t, k, m) # "ok" =>
                 /\ u = Objects!Retain(t, m)
                 /\ \/ Objects!Verdict(t, k, m) = "leased"
                    \/ Objects!Verdict(t, k, m) = "redeemed" /\ Objects!Retain(t, m)[k].state = "committed"
  <1>1. Objects!Retain(t, m) \in ObjectRowTable /\ Objects!Retain(Objects!Retain(t, m), m) = Objects!Retain(t, m)
    BY ViewType
  <1>2. Objects!Retain(t, m)[k] \in Objects!StoredRow /\ Objects!Retain(t, m)[k].state \in {"none", "leased", "committed"}
    BY <1>1 DEF ObjectRowTable, Objects!Row, Objects!StoredRow
  <1>3. CASE Objects!Verdict(t, k, m) = "ok"
    <2>1. Objects!Retain(t, m)[k] = Objects!NoRow
      BY <1>2, <1>3 DEF Objects!Verdict, Objects!StoredRow
    <2>2. PICK w \in Objects!Evicted(Objects!Retain(t, m), MaxEntries) : u = [w EXCEPT ![k] = Objects!LeaseRow(m + LeaseTtl, c)]
      BY <1>3 DEF Objects!TryLease
    <2>3. Objects!LeaseRow(m + LeaseTtl, c) \in Objects!StoredRow /\ Objects!LeaseRow(m + LeaseTtl, c).expiry > m
      <3>1. m + LeaseTtl \in Nat /\ m + LeaseTtl > m
        BY Lifetimes
      <3> QED
        BY <3>1, ObjectRowTypes
    <2>4. /\ w \in ObjectRowTable /\ Objects!Retain(w, m) = w
          /\ w \in {Objects!Retain(t, m)} \cup {[Objects!Retain(t, m) EXCEPT ![v] = Objects!NoRow] : v \in Objects!Leases(Objects!Retain(t, m))}
      BY <2>2, ObjectEvictedTables
    <2>5. u \in ObjectRowTable /\ Objects!Retain(u, m) = u
      <3> DEFINE r == Objects!LeaseRow(m + LeaseTtl, c)
      <3> HIDE DEF r
      <3>1. [w EXCEPT ![k] = r] \in ObjectRowTable /\ Objects!Retain([w EXCEPT ![k] = r], m) = [Objects!Retain(w, m) EXCEPT ![k] = r]
        BY <2>3, <2>4, ViewPut DEF r
      <3> QED
        BY <2>2, <2>4, <3>1 DEF r
    <2> QED
      BY <1>3, <2>1, <2>2, <2>4, <2>5
  <1>4. CASE Objects!Verdict(t, k, m) # "ok"
    <2>1. u = Objects!Retain(t, m)
      BY <1>4 DEF Objects!TryLease
    <2>2. \/ Objects!Verdict(t, k, m) = "leased"
          \/ Objects!Verdict(t, k, m) = "redeemed" /\ Objects!Retain(t, m)[k].state = "committed"
      BY <1>2, <1>4 DEF Objects!Verdict
    <2> QED
      BY <1>1, <1>4, <2>1, <2>2
  <1> QED
    BY <1>3, <1>4

-----------------------------------------------------------------------------
(* The nonces, spread over the instances. *)

(* Routing: a continent has a shard; a nonce has one shard or none. *)
LEMMA Routing ==
    ASSUME Objects!DurableConstants
    PROVE  /\ \A continent : Objects!RegionOf(continent) \in Shards
           /\ \A n \in ObjectNonce : Objects!ShardOfNonce(n) \subseteq Shards
           /\ \A n \in ObjectNonce : n.tag \in Shards => Objects!ShardOfNonce(n) = {n.tag}
           /\ \A n \in ObjectNonce : \A s \in Objects!ShardOfNonce(n) : Objects!ShardOfNonce(n) = {s}
           /\ Shards \subseteq Objects!Instance /\ Objects!Redeem \in Objects!Instance
  BY DEF Objects!DurableConstants, Objects!RegionOf, Objects!ShardOfNonce, Objects!Instance

(* The tables `issue` may leave: the new nonce, and nothing that was not there. *)
LEMMA IssuedTables ==
    ASSUME Objects!DurableConstants, NEW m \in Nat, NEW t \in ObjectNonceTables, NEW n \in ObjectNonce,
           NEW u \in Objects!Issue(t, n, m, NonceTtl, Objects!Capacity(MaxEntries))
    PROVE  /\ u \in ObjectNonceTables /\ Objects!Held(u) \subseteq Objects!Held(t) \cup {n}
           /\ \E w \in {Objects!Prune(t, m)} \cup {[Objects!Prune(t, m) EXCEPT ![v] = Objects!Absent] : v \in Objects!Held(Objects!Prune(t, m))} :
                 u = [w EXCEPT ![n] = m + NonceTtl]
  <1>1. Objects!Prune(t, m) \in ObjectNonceTables /\ Objects!Held(Objects!Prune(t, m)) \subseteq Objects!Held(t)
    BY DEF Objects!Prune, Objects!Held, Objects!Absent, ObjectNonceTables
  <1>2. Objects!Oldest(Objects!Prune(t, m), Objects!Capacity(MaxEntries)) \subseteq Objects!Held(Objects!Prune(t, m))
    BY DEF Objects!Oldest
  <1>3. PICK w \in {Objects!Prune(t, m)} \cup {[Objects!Prune(t, m) EXCEPT ![v] = Objects!Absent] : v \in Objects!Held(Objects!Prune(t, m))} :
           u = [w EXCEPT ![n] = m + NonceTtl]
    BY <1>2 DEF Objects!Issue
  <1>4. w \in ObjectNonceTables /\ Objects!Held(w) \subseteq Objects!Held(t)
    BY <1>1, <1>3 DEF ObjectNonceTables, Objects!Held, Objects!Absent
  <1>5. m + NonceTtl \in Nat
    BY Lifetimes
  <1>6. u \in ObjectNonceTables /\ Objects!Held(u) \subseteq Objects!Held(t) \cup {n}
    BY <1>3, <1>4, <1>5 DEF ObjectNonceTables, Objects!Held
  <1> QED
    BY <1>3, <1>6

(* `Stored` as an operator of the tables and the clock. *)
FoundIn(tables, m, n) ==
    LET found == {tables[s][n] : s \in Objects!ShardOfNonce(n)}
    IN  IF \E e \in found : e > m THEN CHOOSE e \in found : TRUE ELSE Objects!Absent

(* What a caller can find of a nonce: what its shard holds, while it is alive. *)
LEMMA FoundIs ==
    ASSUME Objects!DurableConstants, NEW T \in [Objects!Instance -> ObjectNonceTables], NEW m \in Nat, NEW n \in ObjectNonce
    PROVE  /\ Objects!ShardOfNonce(n) = {} => FoundIn(T, m, n) = Objects!Absent
           /\ \A s \in Objects!ShardOfNonce(n) :
                 /\ s \in Objects!Instance
                 /\ FoundIn(T, m, n) = IF T[s][n] > m THEN T[s][n] ELSE Objects!Absent
           /\ FoundIn(T, m, n) \in Nat
           /\ FoundIn(T, m, n) = Objects!Absent \/ FoundIn(T, m, n) > m
  <1>1. Objects!ShardOfNonce(n) = {} => FoundIn(T, m, n) = Objects!Absent
    BY DEF FoundIn
  <1>2. ASSUME NEW s \in Objects!ShardOfNonce(n)
        PROVE  /\ s \in Objects!Instance /\ T[s][n] \in Nat
               /\ FoundIn(T, m, n) = IF T[s][n] > m THEN T[s][n] ELSE Objects!Absent
    <2>1. s \in Objects!Instance /\ Objects!ShardOfNonce(n) = {s}
      BY Routing
    <2>2. {T[x][n] : x \in Objects!ShardOfNonce(n)} = {T[s][n]}
      BY <2>1
    <2>3. (CHOOSE e \in {T[s][n]} : TRUE) = T[s][n]
      OBVIOUS
    <2>4. T[s][n] \in Nat
      BY <2>1 DEF ObjectNonceTables
    <2> QED
      BY <2>1, <2>2, <2>3, <2>4 DEF FoundIn
  <1> QED
    BY <1>1, <1>2 DEF Objects!Absent

-----------------------------------------------------------------------------
(* The invariant. *)

(* What a deploy finds is routed: old rows are typed, and no nonce is stored. *)
LEMMA RoutedInit == ASSUME Objects!DurableConstants PROVE Objects!Init => Objects!StoresAreRouted
  <1> SUFFICES ASSUME Objects!Init PROVE Objects!StoresAreRouted
    OBVIOUS
  <1>1. doRows \in [Key -> Objects!StoredRow]
    <2>1. LeaseTtl \in Nat /\ Retention \in Nat
      <3>1. {LeaseTtl, Retention, NonceTtl} \subseteq Nat \ {0}
        BY Zenon DEF Objects!DurableConstants
      <3> QED
        BY <3>1
    <2>2. {Objects!NoRow, Objects!LeaseRow(LeaseTtl, NoToken), Objects!CommitRow(Retention)} \subseteq Objects!StoredRow
      BY <2>1, ObjectRowTypes
    <2>3. \A k \in Key : doRows[k] \in {Objects!NoRow, Objects!LeaseRow(LeaseTtl, NoToken), Objects!CommitRow(Retention)}
      BY DEF Objects!Init
    <2>4. doRows = [k \in Key |-> doRows[k]]
      BY DEF Objects!Init
    <2> QED
      BY <2>2, <2>3, <2>4
  <1>2. schema \in [Objects!Instance -> SUBSET {Objects!Columns[i] : i \in DOMAIN Objects!Columns}]
    <2>1. Objects!Legacy \subseteq {Objects!Columns[i] : i \in DOMAIN Objects!Columns}
      BY DEF Objects!Legacy, Objects!Columns
    <2>2. \E tables \in {{}, Objects!Legacy} : schema = [s \in Objects!Instance |-> IF s = Objects!Redeem THEN tables ELSE {}]
      BY DEF Objects!Init
    <2> QED
      BY <2>1, <2>2
  <1>3. Objects!TypeOK
    BY <1>1, <1>2 DEF Objects!Init, Objects!TypeOK, Objects!Absent
  <1>4. Objects!NoForgedInstance
    BY DEF Objects!Init, Objects!NoForgedInstance
  <1>5. Objects!StoredWhereTagLeads
    BY DEF Objects!Init, Objects!StoredWhereTagLeads, Objects!Held, Objects!Absent
  <1> QED
    BY <1>3, <1>4, <1>5 DEF Objects!StoresAreRouted

(* A construction keeps the schema's type and is recorded. *)
LEMMA ReachType ==
    ASSUME Objects!TypeOK, NEW s \in Objects!Instance, Objects!Reach(s)
    PROVE  /\ schema' \in [Objects!Instance -> SUBSET {Objects!Columns[i] : i \in DOMAIN Objects!Columns}]
           /\ up' \subseteq Objects!Instance
           /\ minted' = minted \cup {s}
  <1>1. DOMAIN Objects!Columns = 1..Len(Objects!Columns)
    BY DEF Objects!Columns
  <1>2. Objects!Migrated(schema[s]) \subseteq SUBSET {Objects!Columns[i] : i \in DOMAIN Objects!Columns}
    <2>1. Len(Objects!Columns) \in Nat
      BY DEF Objects!Columns
    <2>2. \A done \in 0..Len(Objects!Columns) : {Objects!Columns[i] : i \in 1..done} \subseteq {Objects!Columns[i] : i \in DOMAIN Objects!Columns}
      BY <1>1, <2>1
    <2>3. schema[s] \subseteq {Objects!Columns[i] : i \in DOMAIN Objects!Columns}
      BY DEF Objects!TypeOK
    <2> QED
      BY <2>2, <2>3 DEF Objects!Migrated
  <1> QED
    BY <1>2 DEF Objects!Reach, Objects!TypeOK

(* A call for redemptions touches them alone, and comes after a lease attempt. *)
LEMMA RedemptionCallsRouted ==
    ASSUME Objects!DurableConstants, Objects!StoresAreRouted, NEW c \in Client, NEW k \in Key,
           Objects!TryLeaseRedemption(c, k) \/ Objects!CommitRedemption(c, k) \/ Objects!ReleaseRedemption(c, k)
    PROVE  Objects!StoresAreRouted'
  <1>0. doRows \in ObjectRowTable /\ doNow \in Nat /\ Objects!TypeOK
    BY DEF Objects!StoresAreRouted, Objects!TypeOK, ObjectRowTable
  <1>1. Objects!Reach(Objects!Redeem) /\ doNonces' = doNonces /\ doNow' = doNow /\ doDrawn' = doDrawn /\ asked \subseteq asked' /\ c \in asked'
    BY DEF Objects!TryLeaseRedemption, Objects!CommitRedemption, Objects!ReleaseRedemption, Objects!StatementFails, Objects!store
  <1>2. doRows' \in ObjectRowTable
    <2>1. CASE Objects!TryLeaseRedemption(c, k)
      <3>1. doRows' = doRows \/ doRows' \in Objects!TryLease(doRows, k, doNow, LeaseTtl, MaxEntries, c)
            \/ doRows' \in Objects!Evicted(Objects!Retain(doRows, doNow), MaxEntries)
        BY <2>1 DEF Objects!TryLeaseRedemption, Objects!StatementFails, Objects!store
      <3> QED
        BY <3>1, <1>0, LeasedTables, ObjectEvictedTables
    <2>2. CASE Objects!CommitRedemption(c, k)
      <3>1. doRows' = doRows \/ doRows' = Objects!Commit(doRows, k, c, doNow, Retention)
        BY <2>2 DEF Objects!CommitRedemption, Objects!StatementFails, Objects!store
      <3> QED
        BY <3>1, <1>0, ObjectViewOps
    <2>3. CASE Objects!ReleaseRedemption(c, k)
      <3>1. doRows' = doRows \/ doRows' = Objects!Release(doRows, k, c)
        BY <2>3 DEF Objects!ReleaseRedemption, Objects!StatementFails, Objects!store
      <3> QED
        BY <3>1, <1>0, ObjectViewOps
    <2> QED
      BY <2>1, <2>2, <2>3
  <1>3. /\ schema' \in [Objects!Instance -> SUBSET {Objects!Columns[i] : i \in DOMAIN Objects!Columns}]
        /\ up' \subseteq Objects!Instance
        /\ minted' = minted \cup {Objects!Redeem}
    BY <1>0, <1>1, Routing, ReachType
  <1>4. Objects!TypeOK'
    BY <1>0, <1>1, <1>2, <1>3 DEF Objects!TypeOK, ObjectRowTable
  <1>5. Objects!NoForgedInstance'
    BY <1>1, <1>3 DEF Objects!StoresAreRouted, Objects!NoForgedInstance
  <1>6. Objects!StoredWhereTagLeads'
    BY <1>1 DEF Objects!StoresAreRouted, Objects!StoredWhereTagLeads
  <1> QED
    BY <1>4, <1>5, <1>6 DEF Objects!StoresAreRouted

(* A challenge is stored in the shard its nonce names. *)
LEMMA IssueRouted ==
    ASSUME Objects!DurableConstants, Objects!StoresAreRouted, NEW c \in Client, NEW continent, Objects!IssueNonce(c, continent)
    PROVE  Objects!StoresAreRouted'
  <1>0. doNow \in Nat /\ Objects!TypeOK /\ doNonces \in [Objects!Instance -> ObjectNonceTables]
    BY DEF Objects!StoresAreRouted, Objects!TypeOK, ObjectNonceTables
  <1>1. PICK n \in ObjectNonce \ doDrawn :
           /\ n.tag = Objects!RegionOf(continent)
           /\ doDrawn' = doDrawn \cup {n}
           /\ Objects!Reach(n.tag)
           /\ \/ \E table \in Objects!Issue(doNonces[n.tag], n, doNow, NonceTtl, Objects!Capacity(MaxEntries)) :
                    doNonces' = [doNonces EXCEPT ![n.tag] = table]
              \/ doNonces' = doNonces
           /\ doRows' = doRows /\ doNow' = doNow /\ asked' = asked
    BY DEF Objects!IssueNonce, Objects!StatementFails, Objects!store
  <1>2. n \in ObjectNonce /\ n.tag \in Shards /\ n.tag \in Objects!Instance /\ Objects!ShardOfNonce(n) = {n.tag}
    BY <1>1, Routing
  <1>3. /\ schema' \in [Objects!Instance -> SUBSET {Objects!Columns[i] : i \in DOMAIN Objects!Columns}]
        /\ up' \subseteq Objects!Instance
        /\ minted' = minted \cup {n.tag}
    BY <1>0, <1>1, <1>2, ReachType
  <1>4. doNonces' \in [Objects!Instance -> ObjectNonceTables] /\ Objects!StoredWhereTagLeads'
    <2>1. CASE doNonces' = doNonces
      BY <2>1, <1>0 DEF Objects!StoresAreRouted, Objects!StoredWhereTagLeads
    <2>2. CASE doNonces' # doNonces
      <3>1. PICK table \in Objects!Issue(doNonces[n.tag], n, doNow, NonceTtl, Objects!Capacity(MaxEntries)) :
               doNonces' = [doNonces EXCEPT ![n.tag] = table]
        BY <1>1, <2>2
      <3>2. doNonces[n.tag] \in ObjectNonceTables
        BY <1>0, <1>2
      <3>3. table \in ObjectNonceTables /\ Objects!Held(table) \subseteq Objects!Held(doNonces[n.tag]) \cup {n}
        BY <1>0, <1>2, <3>1, <3>2, IssuedTables
      <3>4. doNonces' \in [Objects!Instance -> ObjectNonceTables]
        BY <1>0, <3>1, <3>3
      <3>5. ASSUME NEW s \in Objects!Instance, NEW m \in Objects!Held(doNonces'[s]) PROVE Objects!ShardOfNonce(m) = {s}
        <4>1. CASE s = n.tag
          BY <4>1, <1>0, <1>2, <3>1, <3>3, <3>5 DEF Objects!StoresAreRouted, Objects!StoredWhereTagLeads
        <4>2. CASE s # n.tag
          BY <4>2, <1>0, <3>1, <3>5 DEF Objects!StoresAreRouted, Objects!StoredWhereTagLeads
        <4> QED
          BY <4>1, <4>2
      <3> QED
        BY <3>4, <3>5 DEF Objects!StoredWhereTagLeads
    <2> QED
      BY <2>1, <2>2
  <1>5. Objects!TypeOK'
    BY <1>0, <1>1, <1>3, <1>4 DEF Objects!TypeOK, ObjectNonceTables
  <1>6. Objects!NoForgedInstance'
    BY <1>1, <1>2, <1>3 DEF Objects!StoresAreRouted, Objects!NoForgedInstance
  <1> QED
    BY <1>4, <1>5, <1>6 DEF Objects!StoresAreRouted

(* A presented nonce reaches a shard or nothing. *)
LEMMA TakeRouted ==
    ASSUME Objects!DurableConstants, Objects!StoresAreRouted, NEW c \in Client, NEW n \in ObjectNonce, Objects!TakeNonce(c, n)
    PROVE  Objects!StoresAreRouted'
  <1>0. Objects!TypeOK /\ doNonces \in [Objects!Instance -> ObjectNonceTables]
    BY DEF Objects!StoresAreRouted, Objects!TypeOK, ObjectNonceTables
  <1>1. doRows' = doRows /\ doNow' = doNow /\ asked' = asked /\ doDrawn' = doDrawn
    BY DEF Objects!TakeNonce, Objects!StatementFails, Objects!store
  <1>2. CASE Objects!ShardOfNonce(n) = {}
    <2>1. UNCHANGED <<schema, up, minted, doNonces>>
      BY <1>2 DEF Objects!TakeNonce, Objects!store
    <2> QED
      BY <1>1, <2>1 DEF Objects!StoresAreRouted, Objects!TypeOK, Objects!NoForgedInstance, Objects!StoredWhereTagLeads
  <1>3. CASE Objects!ShardOfNonce(n) # {}
    <2>1. PICK s \in Objects!ShardOfNonce(n) :
             Objects!Reach(s) /\ (doNonces' = doNonces \/ doNonces' = [doNonces EXCEPT ![s] = Objects!Take(@, n)])
      BY <1>3 DEF Objects!TakeNonce, Objects!StatementFails, Objects!store
    <2>2. s \in Shards /\ s \in Objects!Instance
      BY <2>1, Routing
    <2>3. /\ schema' \in [Objects!Instance -> SUBSET {Objects!Columns[i] : i \in DOMAIN Objects!Columns}]
          /\ up' \subseteq Objects!Instance
          /\ minted' = minted \cup {s}
      BY <1>0, <2>1, <2>2, ReachType
    <2>4. Objects!Take(doNonces[s], n) \in ObjectNonceTables /\ Objects!Held(Objects!Take(doNonces[s], n)) \subseteq Objects!Held(doNonces[s])
      BY <1>0, <2>2 DEF Objects!Take, Objects!Held, Objects!Absent, ObjectNonceTables
    <2>5. doNonces' \in [Objects!Instance -> ObjectNonceTables] /\ \A x \in Objects!Instance : Objects!Held(doNonces'[x]) \subseteq Objects!Held(doNonces[x])
      BY <1>0, <2>1, <2>2, <2>4
    <2>6. Objects!TypeOK'
      BY <1>0, <1>1, <2>3, <2>5 DEF Objects!TypeOK, ObjectNonceTables
    <2>7. Objects!NoForgedInstance'
      BY <1>1, <2>2, <2>3 DEF Objects!StoresAreRouted, Objects!NoForgedInstance
    <2>8. Objects!StoredWhereTagLeads'
      BY <2>5 DEF Objects!StoresAreRouted, Objects!StoredWhereTagLeads
    <2> QED
      BY <2>6, <2>7, <2>8 DEF Objects!StoresAreRouted
  <1> QED
    BY <1>2, <1>3

(* Every step keeps the routing. *)
LEMMA RoutedStep == ASSUME Objects!DurableConstants PROVE Objects!StoresAreRouted /\ [Objects!Next]_(Objects!vars) => Objects!StoresAreRouted'
  <1> SUFFICES ASSUME Objects!StoresAreRouted, [Objects!Next]_(Objects!vars) PROVE Objects!StoresAreRouted'
    OBVIOUS
  <1>1. ASSUME NEW c \in Client, NEW k \in Key,
               Objects!TryLeaseRedemption(c, k) \/ Objects!CommitRedemption(c, k) \/ Objects!ReleaseRedemption(c, k)
        PROVE  Objects!StoresAreRouted'
    BY <1>1, RedemptionCallsRouted
  <1>2. ASSUME NEW c \in Client, NEW continent \in Continent, Objects!IssueNonce(c, continent) PROVE Objects!StoresAreRouted'
    BY <1>2, IssueRouted
  <1>3. ASSUME NEW c \in Client, NEW n \in ObjectNonce, Objects!TakeNonce(c, n) PROVE Objects!StoresAreRouted'
    BY <1>3, TakeRouted
  <1>4. ASSUME NEW c \in Client, Objects!CallFails(c) PROVE Objects!StoresAreRouted'
    BY <1>4 DEF Objects!CallFails, Objects!store, Objects!StoresAreRouted, Objects!TypeOK, Objects!NoForgedInstance, Objects!StoredWhereTagLeads
  <1>5. ASSUME NEW s \in Objects!Instance, Objects!Dropped(s) PROVE Objects!StoresAreRouted'
    BY <1>5 DEF Objects!Dropped, Objects!store, Objects!StoresAreRouted, Objects!TypeOK, Objects!NoForgedInstance, Objects!StoredWhereTagLeads
  <1>6. CASE Objects!Tick \/ UNCHANGED Objects!vars
    BY <1>6 DEF Objects!Tick, Objects!vars, Objects!store, Objects!StoresAreRouted, Objects!TypeOK, Objects!NoForgedInstance, Objects!StoredWhereTagLeads
  <1> QED
    BY <1>1, <1>2, <1>3, <1>4, <1>5, <1>6 DEF Objects!Next

(* No nonce a client makes up brings an instance to life or reaches the redemptions, and a
   nonce is stored where its own tag leads (`shard_of_nonce`), whatever calls are lost and
   however often instances are dropped and set up half way. *)
THEOREM ObjectsAreRouted == ASSUME Objects!DurableConstants PROVE Objects!Spec => []Objects!StoresAreRouted
  BY RoutedInit, RoutedStep, PTL DEF Objects!Spec

-----------------------------------------------------------------------------
(* The refinement. *)

(* The tables of the port are the tables of this module. *)
LEMMA PortTables ==
    /\ Objects!Port!NoRow = Objects!NoRow
    /\ \A e, c : Objects!Port!LeaseRow(e, c) = Objects!LeaseRow(e, c)
    /\ \A t : Objects!Port!Leases(t) = Objects!Leases(t)
    /\ \A t, x : Objects!Port!Retain(t, x) = Objects!Retain(t, x)
    /\ \A t, k, c, x : Objects!Port!Owns(t, k, c, x) <=> Objects!Owns(t, k, c, x)
    /\ \A t, k, c, x, r : Objects!Port!Commit(t, k, c, x, r) = Objects!Commit(t, k, c, x, r)
    /\ \A t, k, c : Objects!Port!Release(t, k, c) = Objects!Release(t, k, c)
    /\ Objects!Port!Absent = Objects!Absent
    /\ \A t : Objects!Port!Held(t) = Objects!Held(t)
    /\ \A t, x : Objects!Port!Prune(t, x) = Objects!Prune(t, x)
    /\ \A t, n : Objects!Port!Take(t, n) = Objects!Take(t, n)
    /\ \A t, n, x : Objects!Port!Alive(t, n, x) <=> Objects!Alive(t, n, x)
  BY DEF Objects!Port!NoRow, Objects!NoRow, Objects!Port!LeaseRow, Objects!LeaseRow, Objects!Port!CommitRow, Objects!CommitRow,
         Objects!Port!Leases, Objects!Leases, Objects!Port!Retain, Objects!Retain, Objects!Port!Owns, Objects!Owns, Objects!Port!Commit, Objects!Commit,
         Objects!Port!Release, Objects!Release, Objects!Port!Absent, Objects!Absent, Objects!Port!Held, Objects!Held, Objects!Port!Prune, Objects!Prune,
         Objects!Port!Take, Objects!Take, Objects!Port!Alive, Objects!Alive

(* All that is alive of the nonces, over all instances. *)
View == [n \in ObjectNonce |-> Objects!Stored(n)]

LEMMA ViewIs ==
    /\ View = [n \in ObjectNonce |-> FoundIn(doNonces, doNow, n)]
    /\ View' = [n \in ObjectNonce |-> FoundIn(doNonces', doNow', n)]
  BY DEF View, Objects!Stored, FoundIn

(* Nothing moves the clock or the tables: nothing moves the view. *)
LEMMA ViewStays == doNow' = doNow /\ doNonces' = doNonces => View' = View
  BY DEF View, Objects!Stored

(* A failed statement, and a call that got lost, are the port's failure. *)
LEMMA FailureRefines ==
    ASSUME Objects!StoresAreRouted, NEW c \in Client, doNow' = doNow, doNonces' = doNonces,
           doAnswer' = [doAnswer EXCEPT ![c] = "error"],
           doRows' = doRows \/ doRows' \in Objects!Evicted(Objects!Retain(doRows, doNow), MaxEntries)
    PROVE  Objects!Port!Fail(c)
  <1>1. doRows \in ObjectRowTable /\ doNow \in Nat
    BY DEF Objects!StoresAreRouted, Objects!TypeOK, ObjectRowTable
  <1>2. Objects!Retain(doRows', doNow) \in {Objects!Retain(doRows, doNow)}
            \cup {[Objects!Retain(doRows, doNow) EXCEPT ![v] = Objects!NoRow] : v \in Objects!Leases(Objects!Retain(doRows, doNow))}
    BY <1>1, ObjectEvictedTables
  <1>3. View' = View
    BY ViewStays
  <1> QED
    BY <1>2, <1>3, PortTables DEF Objects!Port!Fail, View

(* A lease attempt leases, is refused, or fails; then it may have made room in vain. *)
LEMMA LeaseRefines ==
    ASSUME Objects!DurableConstants, Objects!StoresAreRouted, NEW c \in Client, NEW k \in Key, Objects!TryLeaseRedemption(c, k)
    PROVE  Objects!Port!Lease(c, k) \/ Objects!Port!Refuse(c, k) \/ Objects!Port!Fail(c)
  <1>0. doRows \in ObjectRowTable /\ doNow \in Nat
    BY DEF Objects!StoresAreRouted, Objects!TypeOK, ObjectRowTable
  <1>1. doNow' = doNow /\ doNonces' = doNonces /\ View' = View
    BY ViewStays DEF Objects!TryLeaseRedemption, Objects!StatementFails, Objects!store
  <1>2. \/ doRows' \in Objects!TryLease(doRows, k, doNow, LeaseTtl, MaxEntries, c) /\ Objects!Reply(c, Objects!Verdict(doRows, k, doNow))
        \/ doRows' \in Objects!Evicted(Objects!Retain(doRows, doNow), MaxEntries) /\ doAnswer' = [doAnswer EXCEPT ![c] = "error"]
        \/ doRows' = doRows /\ doAnswer' = [doAnswer EXCEPT ![c] = "error"]
    BY DEF Objects!TryLeaseRedemption, Objects!StatementFails, Objects!store
  <1>3. CASE doRows' \in Objects!TryLease(doRows, k, doNow, LeaseTtl, MaxEntries, c) /\ Objects!Reply(c, Objects!Verdict(doRows, k, doNow))
    <2>1. Objects!Port!Learns(c, Objects!Verdict(doRows, k, doNow))
      BY <1>3 DEF Objects!Reply, Objects!Port!Learns
    <2>2. CASE Objects!Verdict(doRows, k, doNow) = "ok"
      <3>1. /\ Objects!Retain(doRows, doNow)[k] = Objects!NoRow
            /\ Objects!Retain(doRows', doNow) = doRows'
            /\ \E w \in {Objects!Retain(doRows, doNow)}
                        \cup {[Objects!Retain(doRows, doNow) EXCEPT ![v] = Objects!NoRow] : v \in Objects!Leases(Objects!Retain(doRows, doNow))} :
                  doRows' = [w EXCEPT ![k] = Objects!LeaseRow(doNow + LeaseTtl, c)]
        BY <1>0, <1>3, <2>2, LeasedTables
      <3> QED
        BY <1>1, <2>1, <2>2, <3>1, PortTables DEF Objects!Port!Lease, View
    <2>3. CASE Objects!Verdict(doRows, k, doNow) # "ok"
      <3>1. /\ Objects!Retain(doRows', doNow) = Objects!Retain(doRows, doNow)
            /\ \/ Objects!Verdict(doRows, k, doNow) = "leased"
               \/ Objects!Verdict(doRows, k, doNow) = "redeemed" /\ Objects!Retain(doRows, doNow)[k].state = "committed"
        BY <1>0, <1>3, <2>3, LeasedTables
      <3> QED
        BY <1>1, <2>1, <3>1 DEF Objects!Port!Refuse, View
    <2> QED
      BY <2>2, <2>3
  <1>4. CASE \/ doRows' \in Objects!Evicted(Objects!Retain(doRows, doNow), MaxEntries) /\ doAnswer' = [doAnswer EXCEPT ![c] = "error"]
             \/ doRows' = doRows /\ doAnswer' = [doAnswer EXCEPT ![c] = "error"]
    BY <1>1, <1>4, FailureRefines
  <1> QED
    BY <1>2, <1>3, <1>4

(* Commit and release are the port's, or fail. *)
LEMMA OwnersRefine ==
    ASSUME Objects!DurableConstants, Objects!StoresAreRouted, NEW c \in Client, NEW k \in Key
    PROVE  /\ Objects!CommitRedemption(c, k) => Objects!Port!CommitLease(c, k) \/ Objects!Port!Fail(c)
           /\ Objects!ReleaseRedemption(c, k) => Objects!Port!ReleaseLease(c, k) \/ Objects!Port!Fail(c)
  <1>0. doRows \in ObjectRowTable /\ doNow \in Nat
    BY DEF Objects!StoresAreRouted, Objects!TypeOK, ObjectRowTable
  <1>1. /\ Objects!Owns(doRows, k, c, doNow) <=> Objects!Owns(Objects!Retain(doRows, doNow), k, c, doNow)
        /\ Objects!Retain(Objects!Commit(doRows, k, c, doNow, Retention), doNow) = Objects!Commit(Objects!Retain(doRows, doNow), k, c, doNow, Retention)
        /\ Objects!Retain(Objects!Release(doRows, k, c), doNow) = Objects!Release(Objects!Retain(doRows, doNow), k, c)
    BY <1>0, ObjectViewOps
  <1>2. ASSUME Objects!CommitRedemption(c, k) PROVE Objects!Port!CommitLease(c, k) \/ Objects!Port!Fail(c)
    <2>1. doNow' = doNow /\ doNonces' = doNonces /\ View' = View
      BY <1>2, ViewStays DEF Objects!CommitRedemption, Objects!StatementFails, Objects!store
    <2>2. CASE /\ doRows' = Objects!Commit(doRows, k, c, doNow, Retention)
               /\ Objects!Reply(c, IF Objects!Owns(doRows, k, c, doNow) THEN "committed" ELSE "lost")
      <3>1. Objects!Port!Learns(c, IF Objects!Owns(Objects!Retain(doRows, doNow), k, c, doNow) THEN "committed" ELSE "lost")
        BY <1>1, <2>2 DEF Objects!Reply, Objects!Port!Learns
      <3> QED
        BY <1>1, <2>1, <2>2, <3>1, PortTables DEF Objects!Port!CommitLease, View
    <2>3. CASE Objects!StatementFails(c)
      BY <2>1, <2>3, FailureRefines DEF Objects!StatementFails, Objects!store
    <2> QED
      BY <1>2, <2>2, <2>3 DEF Objects!CommitRedemption
  <1>3. ASSUME Objects!ReleaseRedemption(c, k) PROVE Objects!Port!ReleaseLease(c, k) \/ Objects!Port!Fail(c)
    <2>1. doNow' = doNow /\ doNonces' = doNonces /\ View' = View
      BY <1>3, ViewStays DEF Objects!ReleaseRedemption, Objects!StatementFails, Objects!store
    <2>2. CASE doRows' = Objects!Release(doRows, k, c) /\ Objects!Reply(c, "released")
      <3>1. Objects!Port!Learns(c, "released")
        BY <2>2 DEF Objects!Reply, Objects!Port!Learns
      <3> QED
        BY <1>1, <2>1, <2>2, <3>1, PortTables DEF Objects!Port!ReleaseLease, View
    <2>3. CASE Objects!StatementFails(c)
      BY <2>1, <2>3, FailureRefines DEF Objects!StatementFails, Objects!store
    <2> QED
      BY <1>3, <2>2, <2>3 DEF Objects!ReleaseRedemption
  <1> QED
    BY <1>2, <1>3

(* The view of given tables at a given time. *)
ViewOf(tables, m) == [n \in ObjectNonce |-> FoundIn(tables, m, n)]

(* A table, or the table without one nonce it holds. *)
Roomed(table) == {table} \cup {[table EXCEPT ![v] = Objects!Absent] : v \in Objects!Held(table)}

(* What the port may make of its nonces when n is issued. *)
Issued(table, n, m) == {[t EXCEPT ![n] = m + NonceTtl] : t \in Roomed(table)}

(* StoredWhereTagLeads of given tables. *)
TagsLead(tables) == \A s \in Objects!Instance : \A n \in Objects!Held(tables[s]) : Objects!ShardOfNonce(n) = {s}

(* What an issue in shard s does to the view: the new nonce, and at most one dropped. *)
LEMMA IssuedView ==
    ASSUME Objects!DurableConstants, NEW m \in Nat, NEW T \in [Objects!Instance -> ObjectNonceTables],
           TagsLead(T),
           NEW n \in ObjectNonce, NEW s \in Objects!Instance, Objects!ShardOfNonce(n) = {s},
           NEW u \in Objects!Issue(T[s], n, m, NonceTtl, Objects!Capacity(MaxEntries)),
           NEW U, U = [T EXCEPT ![s] = u]
    PROVE  ViewOf(U, m) \in Issued(ViewOf(T, m), n, m)
  <1> DEFINE before == ViewOf(T, m)
             after  == ViewOf(U, m)
             kept == Objects!Prune(T[s], m)
  <1>1. T[s] \in ObjectNonceTables /\ m + NonceTtl \in Nat /\ m + NonceTtl > m
    BY Lifetimes
  <1>2. /\ u \in ObjectNonceTables
        /\ \E w \in {kept} \cup {[kept EXCEPT ![v] = Objects!Absent] : v \in Objects!Held(kept)} :
              u = [w EXCEPT ![n] = m + NonceTtl]
    BY <1>1, IssuedTables
  <1>3. PICK w \in {kept} \cup {[kept EXCEPT ![v] = Objects!Absent] : v \in Objects!Held(kept)} :
           u = [w EXCEPT ![n] = m + NonceTtl]
    BY <1>2
  <1>4. kept \in ObjectNonceTables /\ \A j \in ObjectNonce : kept[j] = IF T[s][j] > m THEN T[s][j] ELSE Objects!Absent
    BY <1>1 DEF Objects!Prune, ObjectNonceTables, Objects!Absent
  <1>5. U \in [Objects!Instance -> ObjectNonceTables] /\ U[s] = u /\ \A x \in Objects!Instance : x # s => U[x] = T[x]
    BY <1>2
  <1>6. FoundIn(U, m, n) = m + NonceTtl
    <2>1. w \in ObjectNonceTables
      BY <1>3, <1>4 DEF ObjectNonceTables, Objects!Absent
    <2>2. u[n] = m + NonceTtl
      BY <1>3, <2>1 DEF ObjectNonceTables
    <2>3. FoundIn(U, m, n) = IF U[s][n] > m THEN U[s][n] ELSE Objects!Absent
      BY <1>5, FoundIs
    <2> QED
      BY <1>1, <1>5, <2>2, <2>3
  <1>7. ASSUME NEW j \in ObjectNonce, j # n, w[j] = kept[j] PROVE FoundIn(U, m, j) = FoundIn(T, m, j)
    <2>1. CASE Objects!ShardOfNonce(j) = {}
      BY <2>1, <1>5, FoundIs
    <2>2. ASSUME NEW x \in Objects!ShardOfNonce(j) PROVE FoundIn(U, m, j) = FoundIn(T, m, j)
      <3>1. /\ x \in Objects!Instance
            /\ FoundIn(T, m, j) = IF T[x][j] > m THEN T[x][j] ELSE Objects!Absent
            /\ FoundIn(U, m, j) = IF U[x][j] > m THEN U[x][j] ELSE Objects!Absent
        BY <1>5, FoundIs
      <3>2. CASE x # s
        BY <3>1, <3>2, <1>5
      <3>3. CASE x = s
        <4>1. U[x][j] = kept[j]
          BY <3>3, <1>3, <1>4, <1>5, <1>7 DEF ObjectNonceTables
        <4>2. T[s][j] \in Nat
          BY <1>1 DEF ObjectNonceTables
        <4> QED
          BY <3>1, <3>3, <4>1, <4>2, <1>4 DEF Objects!Absent
      <3> QED
        BY <3>2, <3>3
    <2> QED
      BY <2>1, <2>2
  <1>8. CASE w = kept
    <2>1. after = [before EXCEPT ![n] = m + NonceTtl]
      <3> HIDE DEF kept
      <3> QED
        BY <1>6, <1>7, <1>8 DEF ViewOf
    <2> QED
      BY <2>1 DEF Roomed, Issued
  <1>9. CASE w # kept
    <2>1. PICK v \in Objects!Held(kept) : w = [kept EXCEPT ![v] = Objects!Absent]
      BY <1>3, <1>9
    <2>2. v \in ObjectNonce /\ T[s][v] > m /\ T[s][v] \in Nat /\ v \in Objects!Held(T[s])
      BY <2>1, <1>1, <1>4 DEF Objects!Held, ObjectNonceTables, Objects!Absent
    <2>3. Objects!ShardOfNonce(v) = {s}
      BY <2>2 DEF TagsLead
    <2>4. FoundIn(T, m, v) = T[s][v] /\ v \in Objects!Held(before)
      <3>1. FoundIn(T, m, v) = T[s][v]
        BY <2>2, <2>3, FoundIs
      <3> QED
        BY <3>1, <2>2 DEF Objects!Held, Objects!Absent, ViewOf
    <2>5. v # n => FoundIn(U, m, v) = Objects!Absent
      <3>1. ASSUME v # n PROVE U[s][v] = Objects!Absent
        BY <3>1, <2>1, <2>2, <1>3, <1>4, <1>5 DEF ObjectNonceTables
      <3>2. FoundIn(U, m, v) = IF U[s][v] > m THEN U[s][v] ELSE Objects!Absent
        BY <1>5, <2>2, <2>3, FoundIs
      <3> QED
        BY <3>1, <3>2
    <2>6. \A j \in ObjectNonce : j # n /\ j # v => FoundIn(U, m, j) = FoundIn(T, m, j)
      BY <1>4, <1>7, <2>1 DEF ObjectNonceTables
    <2>7. after = [[before EXCEPT ![v] = Objects!Absent] EXCEPT ![n] = m + NonceTtl]
      <3> HIDE DEF kept
      <3> QED
        BY <1>6, <2>2, <2>5, <2>6 DEF ViewOf
    <2> QED
      BY <2>4, <2>7 DEF Roomed, Issued
  <1> QED
    BY <1>8, <1>9

(* A challenge is issued by the port, or fails. *)
LEMMA IssueRefines ==
    ASSUME Objects!DurableConstants, Objects!StoresAreRouted, NEW c \in Client, NEW continent, Objects!IssueNonce(c, continent)
    PROVE  (\E n \in ObjectNonce : Objects!Port!IssueNonce(c, n)) \/ Objects!Port!Fail(c)
  <1>0. doNow \in Nat /\ doNonces \in [Objects!Instance -> ObjectNonceTables]
    BY DEF Objects!StoresAreRouted, Objects!TypeOK, ObjectNonceTables
  <1>1. PICK n \in ObjectNonce \ doDrawn :
           /\ n.tag = Objects!RegionOf(continent)
           /\ \/ /\ \E table \in Objects!Issue(doNonces[n.tag], n, doNow, NonceTtl, Objects!Capacity(MaxEntries)) :
                       doNonces' = [doNonces EXCEPT ![n.tag] = table]
                 /\ Objects!Reply(c, "issued")
                 /\ doRows' = doRows
              \/ Objects!StatementFails(c)
           /\ doNow' = doNow
    BY DEF Objects!IssueNonce
  <1>2. n \in ObjectNonce /\ n.tag \in Objects!Instance /\ Objects!ShardOfNonce(n) = {n.tag}
    BY <1>1, Routing
  <1>3. CASE Objects!StatementFails(c)
    BY <1>1, <1>3, FailureRefines DEF Objects!StatementFails, Objects!store
  <1>4. CASE /\ \E table \in Objects!Issue(doNonces[n.tag], n, doNow, NonceTtl, Objects!Capacity(MaxEntries)) :
                   doNonces' = [doNonces EXCEPT ![n.tag] = table]
             /\ Objects!Reply(c, "issued")
             /\ doRows' = doRows
    <2>1. PICK table \in Objects!Issue(doNonces[n.tag], n, doNow, NonceTtl, Objects!Capacity(MaxEntries)) :
             doNonces' = [doNonces EXCEPT ![n.tag] = table]
      BY <1>4
    <2>2. TagsLead(doNonces)
      BY DEF Objects!StoresAreRouted, Objects!StoredWhereTagLeads, TagsLead
    <2>3. \E t \in {View} \cup {[View EXCEPT ![v] = Objects!Absent] : v \in Objects!Held(View)} :
             View' = [t EXCEPT ![n] = doNow + NonceTtl]
      <3>1. View = ViewOf(doNonces, doNow) /\ View' = ViewOf(doNonces', doNow)
        BY <1>1, <2>1, ViewIs DEF ViewOf
      <3>2. PICK s \in Objects!Instance : s = n.tag
        BY <1>2
      <3>3. /\ Objects!ShardOfNonce(n) = {s} /\ table \in Objects!Issue(doNonces[s], n, doNow, NonceTtl, Objects!Capacity(MaxEntries))
            /\ doNonces' = [doNonces EXCEPT ![s] = table]
        BY <1>2, <2>1, <3>2
      <3>4. ViewOf(doNonces', doNow) \in Issued(ViewOf(doNonces, doNow), n, doNow)
        BY <1>0, <1>2, <2>2, <3>3, IssuedView
      <3> QED
        BY <3>1, <3>4 DEF Roomed, Issued
    <2>4. Objects!Port!Learns(c, "issued")
      BY <1>4 DEF Objects!Reply, Objects!Port!Learns
    <2>5. Objects!Port!IssueNonce(c, n)
      BY <1>1, <1>4, <2>3, <2>4, PortTables DEF Objects!Port!IssueNonce, View
    <2> QED
      BY <1>2, <2>5
  <1> QED
    BY <1>1, <1>3, <1>4

(* A nonce is taken from the port, wherever it is presented, or the call fails. *)
LEMMA TakeRefines ==
    ASSUME Objects!DurableConstants, Objects!StoresAreRouted, NEW c \in Client, NEW n \in ObjectNonce, Objects!TakeNonce(c, n)
    PROVE  Objects!Port!TakeNonce(c, n) \/ Objects!Port!Fail(c)
  <1>0. doNow \in Nat /\ doNonces \in [Objects!Instance -> ObjectNonceTables] /\ doNow' = doNow /\ doRows' = doRows
    BY DEF Objects!StoresAreRouted, Objects!TypeOK, ObjectNonceTables, Objects!TakeNonce, Objects!StatementFails, Objects!store
  <1>1. View \in [ObjectNonce -> Nat] /\ View[n] = FoundIn(doNonces, doNow, n)
    BY <1>0, ViewIs, FoundIs
  <1>2. CASE Objects!ShardOfNonce(n) = {}
    <2>1. View[n] = Objects!Absent
      BY <1>0, <1>1, <1>2, FoundIs
    <2>2. doNonces' = doNonces /\ doAnswer' = [doAnswer EXCEPT ![c] = "invalid"]
      BY <1>2 DEF Objects!TakeNonce, Objects!store
    <2>3. View' = Objects!Take(View, n) /\ ~Objects!Alive(View, n, doNow)
      <3>1. View' = View
        BY <1>0, <2>2, ViewStays
      <3> QED
        BY <1>0, <1>1, <2>1, <3>1 DEF Objects!Take, Objects!Alive, Objects!Absent
    <2>4. Objects!Port!Learns(c, "invalid")
      BY <2>2 DEF Objects!Port!Learns
    <2> QED
      BY <1>0, <2>3, <2>4, PortTables DEF Objects!Port!TakeNonce, View
  <1>3. ASSUME NEW s \in Objects!ShardOfNonce(n),
               doNonces' = [doNonces EXCEPT ![s] = Objects!Take(@, n)],
               Objects!Reply(c, IF Objects!Alive(doNonces[s], n, doNow) THEN "taken" ELSE "invalid")
        PROVE  Objects!Port!TakeNonce(c, n)
    <2>1. /\ s \in Objects!Instance /\ Objects!ShardOfNonce(n) = {s} /\ doNonces[s] \in ObjectNonceTables
          /\ View[n] = IF doNonces[s][n] > doNow THEN doNonces[s][n] ELSE Objects!Absent
      BY <1>0, <1>1, Routing, FoundIs
    <2>2. Objects!Alive(View, n, doNow) <=> Objects!Alive(doNonces[s], n, doNow)
      BY <1>0, <2>1 DEF Objects!Alive, Objects!Absent
    <2>3. Objects!Take(doNonces[s], n) \in ObjectNonceTables /\ doNonces' \in [Objects!Instance -> ObjectNonceTables]
      BY <1>0, <1>3, <2>1 DEF Objects!Take, ObjectNonceTables, Objects!Absent
    <2>4. FoundIn(doNonces', doNow, n) = Objects!Absent
      <3>1. doNonces'[s][n] = Objects!Absent
        BY <1>0, <1>3, <2>1 DEF Objects!Take, ObjectNonceTables
      <3>2. FoundIn(doNonces', doNow, n) = IF doNonces'[s][n] > doNow THEN doNonces'[s][n] ELSE Objects!Absent
        BY <1>0, <2>1, <2>3, FoundIs
      <3> QED
        BY <3>1, <3>2
    <2>5. ASSUME NEW j \in ObjectNonce, j # n PROVE FoundIn(doNonces', doNow, j) = FoundIn(doNonces, doNow, j)
      <3>1. \A x \in Objects!Instance : doNonces'[x][j] = doNonces[x][j]
        BY <1>0, <1>3, <2>1, <2>5 DEF Objects!Take, ObjectNonceTables
      <3>2. CASE Objects!ShardOfNonce(j) = {}
        BY <3>2, <1>0, <2>3, FoundIs
      <3>3. ASSUME NEW x \in Objects!ShardOfNonce(j) PROVE FoundIn(doNonces', doNow, j) = FoundIn(doNonces, doNow, j)
        <4>1. /\ x \in Objects!Instance
              /\ FoundIn(doNonces, doNow, j) = IF doNonces[x][j] > doNow THEN doNonces[x][j] ELSE Objects!Absent
              /\ FoundIn(doNonces', doNow, j) = IF doNonces'[x][j] > doNow THEN doNonces'[x][j] ELSE Objects!Absent
          BY <1>0, <2>3, FoundIs
        <4> QED
          BY <3>1, <4>1
      <3> QED
        BY <3>2, <3>3
    <2>6. View' = Objects!Take(View, n)
      BY <1>0, <2>4, <2>5, ViewIs DEF Objects!Take
    <2>7. Objects!Port!Learns(c, IF Objects!Alive(View, n, doNow) THEN "taken" ELSE "invalid")
      BY <1>3, <2>2 DEF Objects!Reply, Objects!Port!Learns
    <2> QED
      BY <1>0, <2>6, <2>7, PortTables DEF Objects!Port!TakeNonce, View
  <1>4. CASE doNonces' = doNonces /\ Objects!StatementFails(c)
    BY <1>0, <1>4, FailureRefines DEF Objects!StatementFails
  <1> QED
    BY <1>2, <1>3, <1>4 DEF Objects!TakeNonce, Objects!StatementFails, Objects!store

(* Time passes for the port as well. *)
LEMMA TickRefines ==
    ASSUME Objects!DurableConstants, Objects!StoresAreRouted, Objects!Tick
    PROVE  Objects!Port!Tick
  <1>0. /\ doNow \in Nat /\ doRows \in ObjectRowTable /\ doNonces \in [Objects!Instance -> ObjectNonceTables]
        /\ doNow' = doNow + 1 /\ doRows' = doRows /\ doNonces' = doNonces /\ doAnswer' = doAnswer
    BY DEF Objects!StoresAreRouted, Objects!TypeOK, ObjectNonceTables, ObjectRowTable, Objects!Tick, Objects!store
  <1>1. Objects!Retain(doRows', doNow') = Objects!Retain(Objects!Retain(doRows, doNow), doNow')
    BY <1>0, ViewType
  <1>2. ASSUME NEW n \in ObjectNonce
        PROVE  FoundIn(doNonces, doNow + 1, n)
                  = IF FoundIn(doNonces, doNow, n) > doNow + 1 THEN FoundIn(doNonces, doNow, n) ELSE Objects!Absent
    <2>1. CASE Objects!ShardOfNonce(n) = {}
      BY <1>0, <2>1, FoundIs DEF Objects!Absent
    <2>2. ASSUME NEW x \in Objects!ShardOfNonce(n)
          PROVE  FoundIn(doNonces, doNow + 1, n)
                    = IF FoundIn(doNonces, doNow, n) > doNow + 1 THEN FoundIn(doNonces, doNow, n) ELSE Objects!Absent
      <3>1. /\ x \in Objects!Instance /\ doNonces[x][n] \in Nat
            /\ FoundIn(doNonces, doNow, n) = IF doNonces[x][n] > doNow THEN doNonces[x][n] ELSE Objects!Absent
        BY <1>0, FoundIs DEF ObjectNonceTables
      <3>2. FoundIn(doNonces, doNow + 1, n) = IF doNonces[x][n] > doNow + 1 THEN doNonces[x][n] ELSE Objects!Absent
        BY <1>0, FoundIs
      <3> QED
        BY <1>0, <3>1, <3>2 DEF Objects!Absent
    <2> QED
      BY <2>1, <2>2
  <1>3. View' = Objects!Prune(View, doNow')
    BY <1>0, <1>2, ViewIs DEF Objects!Prune
  <1> QED
    BY <1>0, <1>1, <1>3, PortTables DEF Objects!Port!Tick, View

(* The sharded Durable Objects give the gateway the port it is written against, over any
   regions, lost calls, instances that come and go, a schema set up half way and rows of the
   script before owner tokens: a nonce is found from any region and taken once, a lease is
   its owner's alone, a commit ends with its retention, and no final refusal is without a
   commit.  Restarts of the platform forget nothing (Volatile is FALSE). *)
THEOREM DurableObjectsImplementPort == ASSUME Objects!DurableConstants PROVE Objects!Spec => Objects!ObjectsImplementPort
  <1>1. Objects!Init => Objects!Port!Init
    <2> SUFFICES ASSUME Objects!Init PROVE Objects!Port!Init
      OBVIOUS
    <2>1. Objects!StoresAreRouted
      BY RoutedInit
    <2>2. doRows \in ObjectRowTable /\ doNow = 0
      BY <2>1 DEF Objects!StoresAreRouted, Objects!TypeOK, ObjectRowTable, Objects!Init
    <2>3. \A k \in Key : doRows[k].token = NoToken
      <3>1. \A k \in Key : doRows[k] \in {Objects!NoRow, Objects!LeaseRow(LeaseTtl, NoToken), Objects!CommitRow(Retention)}
        BY DEF Objects!Init
      <3> QED
        BY <3>1 DEF Objects!NoRow, Objects!LeaseRow, Objects!CommitRow
    <2>4. /\ Objects!Retain(doRows, doNow) = [k \in Key |-> Objects!Retain(doRows, doNow)[k]]
          /\ \A k \in Key : Objects!Retain(doRows, doNow)[k] # Objects!NoRow =>
                Objects!Retain(doRows, doNow)[k].expiry > doNow /\ Objects!Retain(doRows, doNow)[k].token = NoToken
      <3>1. Objects!Retain(doRows, doNow) \in ObjectRowTable
        BY <2>2, ViewType
      <3> QED
        BY <2>2, <2>3, <3>1, ViewType DEF ObjectRowTable
    <2>5. View = [n \in ObjectNonce |-> Objects!Absent]
      <3>1. doNonces \in [Objects!Instance -> ObjectNonceTables] /\ doNow \in Nat
        BY <2>1 DEF Objects!StoresAreRouted, Objects!TypeOK, ObjectNonceTables
      <3>2. \A s \in Objects!Instance, n \in ObjectNonce : doNonces[s][n] = Objects!Absent
        BY DEF Objects!Init
      <3>3. \A n \in ObjectNonce : FoundIn(doNonces, doNow, n) = Objects!Absent
        <4> SUFFICES ASSUME NEW n \in ObjectNonce PROVE FoundIn(doNonces, doNow, n) = Objects!Absent
          OBVIOUS
        <4>1. CASE Objects!ShardOfNonce(n) = {}
          BY <4>1, <3>1, FoundIs
        <4>2. ASSUME NEW x \in Objects!ShardOfNonce(n) PROVE FoundIn(doNonces, doNow, n) = Objects!Absent
          BY <3>1, <3>2, FoundIs
        <4> QED
          BY <4>1, <4>2
      <3> QED
        BY <3>3, ViewIs
    <2>6. doAnswer = [c \in Client |-> "none"]
      BY DEF Objects!Init
    <2> QED
      BY <2>2, <2>4, <2>5, <2>6, PortTables DEF Objects!Port!Init, View
  <1>2. Objects!StoresAreRouted /\ [Objects!Next]_(Objects!vars) => [Objects!Port!Next]_(Objects!Port!vars)
    <2> SUFFICES ASSUME Objects!StoresAreRouted, [Objects!Next]_(Objects!vars) PROVE [Objects!Port!Next]_(Objects!Port!vars)
      OBVIOUS
    <2>1. ASSUME NEW c \in Client, NEW k \in Key, Objects!TryLeaseRedemption(c, k) PROVE Objects!Port!Next
      BY <2>1, LeaseRefines DEF Objects!Port!Next
    <2>2. ASSUME NEW c \in Client, NEW k \in Key, Objects!CommitRedemption(c, k) \/ Objects!ReleaseRedemption(c, k)
          PROVE  Objects!Port!Next
      BY <2>2, OwnersRefine DEF Objects!Port!Next
    <2>3. ASSUME NEW c \in Client, NEW continent \in Continent, Objects!IssueNonce(c, continent) PROVE Objects!Port!Next
      BY <2>3, IssueRefines DEF Objects!Port!Next
    <2>4. ASSUME NEW c \in Client, NEW n \in ObjectNonce, Objects!TakeNonce(c, n) PROVE Objects!Port!Next
      BY <2>4, TakeRefines DEF Objects!Port!Next
    <2>5. ASSUME NEW c \in Client, Objects!CallFails(c) PROVE Objects!Port!Next
      <3>1. Objects!Port!Fail(c)
        BY <2>5, FailureRefines DEF Objects!CallFails, Objects!store
      <3> QED
        BY <3>1 DEF Objects!Port!Next
    <2>6. ASSUME \/ \E s \in Objects!Instance : Objects!Dropped(s)
                 \/ UNCHANGED Objects!vars
          PROVE  UNCHANGED Objects!Port!vars
      <3>1. doNow' = doNow /\ doRows' = doRows /\ doNonces' = doNonces /\ doAnswer' = doAnswer
        BY <2>6 DEF Objects!Dropped, Objects!vars, Objects!store
      <3> QED
        BY <3>1, ViewStays DEF Objects!Port!vars, View
    <2>7. CASE Objects!Tick
      BY <2>7, TickRefines DEF Objects!Port!Next
    <2> QED
      BY <2>1, <2>2, <2>3, <2>4, <2>5, <2>6, <2>7 DEF Objects!Next
  <1> QED
    BY <1>1, <1>2, ObjectsAreRouted, PTL DEF Objects!Spec, Objects!ObjectsImplementPort, Objects!Port!Spec

-----------------------------------------------------------------------------
(* The two stores side by side, as the run has them. *)

(* The bounds of the run only leave steps out. *)
LEMMA PartsAreStores == PartsSpec => Spec /\ Objects!Spec
  <1>1. PartsInit => Init /\ Objects!Init
    BY DEF PartsInit
  <1>2. [PartsNext]_allVars => [Next]_vars /\ [Objects!Next]_(Objects!vars)
    BY DEF PartsNext, allVars, doVars, vars, Objects!vars
  <1> QED
    BY <1>1, <1>2, PTL DEF PartsSpec, Spec, Objects!Spec

(* No forged nonce brings an instance to life, every nonce is stored where its tag leads, and
   the native store keeps its bookkeeping. *)
THEOREM StoresStayRouted == PartsSpec => []StoresAreRouted
  <1>1. StoreInv /\ Objects!StoresAreRouted => StoresAreRouted
    BY DEF StoresAreRouted
  <1>2. Objects!Spec => []Objects!StoresAreRouted
    BY ObjectConstants, ObjectsAreRouted
  <1> QED
    BY <1>1, <1>2, PartsAreStores, StoreBookkeeping, PTL

(* The Durable Objects are the port whose restarts forget no redemption. *)
THEOREM ObjectsAreThePort == PartsSpec => ObjectsImplementPort
  <1>1. Objects!Spec => Objects!ObjectsImplementPort
    BY ObjectConstants, DurableObjectsImplementPort
  <1>2. Objects!ObjectsImplementPort => Objects!Port!Init /\ [][Objects!Port!Next]_(Objects!Port!vars)
    BY DEF Objects!ObjectsImplementPort, Objects!Port!Spec
  <1>3. [Objects!Port!Next]_(Objects!Port!vars)
          => [part # "native" => UNCHANGED Objects!Port!vars \/ Objects!Port!Next]_allVars
    OBVIOUS
  <1> QED
    BY <1>1, <1>2, <1>3, PartsAreStores, PTL DEF ObjectsImplementPort

=============================================================================
