------------------------------ MODULE StateStore ------------------------------
(***************************************************************************)
(* What the gateway may assume of its state, whatever holds the bytes: the *)
(* port `StateStore` of core/src/state.rs.  The state is what a caller can *)
(* observe, so it never holds an expired row or nonce.  A call takes       *)
(* effect at once or not at all, and its caller learns the outcome or an   *)
(* error that tells it nothing.                                            *)
(***************************************************************************)
EXTENDS RedemptionTable, NonceTable

CONSTANTS
    Client,      \* callers; the owner token of a caller's lease is the caller
    Key,         \* consume digests
    Nonce,       \* challenge nonces
    LeaseTtl,    \* REDEMPTION_LEASE_TTL_SECS
    Retention,   \* REDEMPTION_RETENTION_SECS
    NonceTtl,    \* CHALLENGE_TTL_SECS
    Volatile     \* TRUE: the operator accepted that a restart forgets redemptions

VARIABLES
    now,      \* the store's clock
    rows,     \* unexpired redemptions
    nonces,   \* unexpired nonces
    answer    \* answer[c]: what caller c learned last

vars == <<now, rows, nonces, answer>>

(* Earlier processes may have left redemptions behind: none a caller of this one owns. *)
Init ==
    /\ now = 0
    /\ rows = [k \in Key |-> rows[k]]
    /\ \A k \in Key : rows[k] # NoRow => rows[k].expiry > now /\ rows[k].token = NoToken
    /\ nonces = [n \in Nonce |-> Absent]
    /\ answer = [c \in Client |-> "none"]

(* An error never says whether the call was applied. *)
Learns(c, outcome) == \E a \in {outcome, "error"} : answer' = [answer EXCEPT ![c] = a]

(* A free consume is leased; a full store may give up another's lease, never a commit. *)
Lease(c, k) ==
    /\ rows[k] = NoRow
    /\ \E t \in {rows} \cup {[rows EXCEPT ![v] = NoRow] : v \in Leases(rows)} :
          rows' = [t EXCEPT ![k] = LeaseRow(now + LeaseTtl, c)]
    /\ Learns(c, "ok")
    /\ UNCHANGED <<now, nonces>>

(* A refusal.  `Redeemed` is final, so it needs a recorded commit; `Leased` only asks
   the client to come back. *)
Refuse(c, k) ==
    /\ \/ rows[k].state = "committed" /\ Learns(c, "redeemed")
       \/ Learns(c, "leased")
    /\ UNCHANGED <<now, rows, nonces>>

CommitLease(c, k) ==
    /\ rows' = Commit(rows, k, c, now, Retention)
    /\ Learns(c, IF Owns(rows, k, c, now) THEN "committed" ELSE "lost")
    /\ UNCHANGED <<now, nonces>>

ReleaseLease(c, k) ==
    /\ rows' = Release(rows, k, c)
    /\ Learns(c, "released")
    /\ UNCHANGED <<now, nonces>>

(* A full store may give up another nonce. *)
IssueNonce(c, n) ==
    /\ \E t \in {nonces} \cup {[nonces EXCEPT ![v] = Absent] : v \in Held(nonces)} :
          nonces' = [t EXCEPT ![n] = now + NonceTtl]
    /\ Learns(c, "issued")
    /\ UNCHANGED <<now, rows>>

TakeNonce(c, n) ==
    /\ nonces' = Take(nonces, n)
    /\ Learns(c, IF Alive(nonces, n, now) THEN "taken" ELSE "invalid")
    /\ UNCHANGED <<now, rows>>

(* A full store may have given up a lease before the call failed. *)
Fail(c) ==
    /\ answer' = [answer EXCEPT ![c] = "error"]
    /\ rows' \in {rows} \cup {[rows EXCEPT ![v] = NoRow] : v \in Leases(rows)}
    /\ UNCHANGED <<now, nonces>>

(* A restart may lose nonces; redemptions only where that was accepted. *)
Restart ==
    /\ nonces' \in {nonces, [n \in Nonce |-> Absent]}
    /\ rows' \in {rows} \cup (IF Volatile THEN {[k \in Key |-> NoRow]} ELSE {})
    /\ \A c \in Client : answer'[c] \in {answer[c], "error"}
    /\ DOMAIN answer' = Client
    /\ UNCHANGED now

Tick ==
    /\ now' = now + 1
    /\ rows' = Retain(rows, now')
    /\ nonces' = Prune(nonces, now')
    /\ UNCHANGED answer

Next ==
    \/ Tick
    \/ Restart
    \/ \E c \in Client :
          \/ Fail(c)
          \/ \E k \in Key : Lease(c, k) \/ Refuse(c, k) \/ CommitLease(c, k) \/ ReleaseLease(c, k)
          \/ \E n \in Nonce : IssueNonce(c, n) \/ TakeNonce(c, n)

Spec == Init /\ [][Next]_vars
=============================================================================
