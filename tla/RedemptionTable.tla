--------------------------- MODULE RedemptionTable ---------------------------
(***************************************************************************)
(* The pure table behind single-use redemption: `RedemptionTable` of       *)
(* core/src/redemption.rs.  A table is a function from consume digests to  *)
(* rows; NoRow stands for a key the HashMap does not hold.  Every operator *)
(* takes the clock explicitly, as the Rust methods do.                     *)
(***************************************************************************)
EXTENDS Naturals, FiniteSets

CONSTANT NoToken      \* the cleared owner token of a committed row

NoRow           == [state |-> "none",      expiry |-> 0, token |-> NoToken]
LeaseRow(e, t)  == [state |-> "leased",    expiry |-> e, token |-> t]
CommitRow(e)    == [state |-> "committed", expiry |-> e, token |-> NoToken]

(* `Row` over the given set of owner tokens. *)
Row(Token) == [state  : {"none", "leased", "committed"},
               expiry : Nat,
               token  : Token \cup {NoToken}]

-----------------------------------------------------------------------------

Present(rows) == {k \in DOMAIN rows : rows[k].state # "none"}
Leases(rows)  == {k \in DOMAIN rows : rows[k].state = "leased"}
Commits(rows) == {k \in DOMAIN rows : rows[k].state = "committed"}

(* `rows.retain(expiry_ms > now)`: the prune that opens every lease attempt. *)
Retain(rows, now) ==
    [k \in DOMAIN rows |-> IF rows[k].expiry > now THEN rows[k] ELSE NoRow]

(* The answer of a lease attempt, read from the pruned table. *)
Verdict(rows, k, now) ==
    LET row == Retain(rows, now)[k]
    IN  CASE row.state = "committed" -> "redeemed"
          [] row.state = "leased"    -> "leased"
          [] row.state = "none"      -> "ok"

(* `max_entries.max(1)`. *)
Capacity(max) == IF max = 0 THEN 1 ELSE max

(* Mutant of Victims: commits are evicted like leases. *)
VictimsAnyRow(rows, max) ==
    IF Cardinality(Present(rows)) < Capacity(max) THEN {}
    ELSE {k \in Present(rows) :
             \A j \in Present(rows) : rows[k].expiry <= rows[j].expiry}

(* Mutant of Victims: the cap is not enforced. *)
VictimsNone(rows, max) == {}

(***************************************************************************)
(* The rows an insertion into a full table may evict: a lease that expires *)
(* soonest.  `min_by_key` over a HashMap breaks ties in iteration order,   *)
(* which is unspecified, so every minimal lease is a candidate.  The set   *)
(* is empty below the cap and when every row is committed.                 *)
(***************************************************************************)
Victims(rows, max) ==
    IF Cardinality(Present(rows)) < Capacity(max) THEN {}
    ELSE {k \in Leases(rows) :
             \A j \in Leases(rows) : rows[k].expiry <= rows[j].expiry}

Evicted(rows, max) ==
    IF Victims(rows, max) = {} THEN {rows}
    ELSE {[rows EXCEPT ![v] = NoRow] : v \in Victims(rows, max)}

(* Mutant of TryLease: the TTL is converted to milliseconds twice. *)
TryLeaseForever(rows, k, now, ttl, max, token) ==
    LET kept == Retain(rows, now)
    IN  IF Verdict(rows, k, now) # "ok" THEN {kept}
        ELSE {[t EXCEPT ![k] = LeaseRow(now + ttl * 1000, token)] : t \in Evicted(kept, max)}

(* The tables `try_lease` may leave behind.  Only the verdict "ok" inserts. *)
TryLease(rows, k, now, ttl, max, token) ==
    LET kept == Retain(rows, now)
    IN  IF Verdict(rows, k, now) # "ok" THEN {kept}
        ELSE {[t EXCEPT ![k] = LeaseRow(now + ttl, token)] : t \in Evicted(kept, max)}

-----------------------------------------------------------------------------

(* Mutant of Owns: the token is not compared. *)
OwnsAnyToken(rows, k, token, now) ==
    rows[k].state = "leased" /\ rows[k].expiry > now

(* The compare of `commit`: the caller still owns an unexpired lease. *)
Owns(rows, k, token, now) ==
    /\ rows[k].state = "leased"
    /\ rows[k].token = token
    /\ rows[k].expiry > now

(* `commit`: Lost leaves the table alone. *)
Commit(rows, k, token, now, retention) ==
    IF Owns(rows, k, token, now)
    THEN [rows EXCEPT ![k] = CommitRow(now + retention)]
    ELSE rows

(* Mutant of Release: the token is not compared. *)
ReleaseAnyToken(rows, k, token) ==
    IF rows[k].state = "leased" THEN [rows EXCEPT ![k] = NoRow] ELSE rows

(* Mutant of Release: a commit is released like a lease. *)
ReleaseAnyRow(rows, k, token) == [rows EXCEPT ![k] = NoRow]

(* `release`: only the owner's own lease, expired or not, never a commit. *)
Release(rows, k, token) ==
    IF rows[k].state = "leased" /\ rows[k].token = token
    THEN [rows EXCEPT ![k] = NoRow]
    ELSE rows
=============================================================================
