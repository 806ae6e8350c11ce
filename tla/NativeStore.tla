------------------------------ MODULE NativeStore ------------------------------
(***************************************************************************)
(* The nonce and redemption store of the native gateway: `NonceStore` of   *)
(* gateway-rust/src/challenge.rs behind `NativeState`.  In process memory  *)
(* a call is one step under a lock, within a cap.  In Redis it is one      *)
(* command or script, except a lease, which is SET NX and, when that finds *)
(* a key, a separate GET; a command may fail before it is applied or lose  *)
(* its reply.  An expired key is still stored but no command sees it.      *)
(* Callers may commit and release whenever they like after their lease     *)
(* attempt, which includes every late call.                                *)
(***************************************************************************)
EXTENDS RedemptionTable, NonceTable

CONSTANTS Client, Key, Nonce, LeaseTtl, Retention, NonceTtl, MaxEntries,
    MaxTime   \* bound: the clock stops here

ASSUME StoreConstants ==
    /\ {LeaseTtl, Retention, NonceTtl} \subseteq Nat \ {0}
    /\ {MaxEntries, MaxTime} \subseteq Nat
    /\ NoToken \notin Client

VARIABLES
    cfg,      \* what the process started with: SINGLE_USE, REDIS_URL, ALLOW_VOLATILE_REDEMPTIONS
    now,      \* the clock
    rows,     \* redemptions: the table, or the keys `nftgate:redeem:*`
    nonces,   \* nonces: the table, or the keys `nftgate:nonce:*`
    pc,       \* pc[c]: "idle", "classify" between SET NX and GET, "asked" after the attempt
    key,      \* key[c]: the consume c asks for
    answer,   \* answer[c]: the last answer to c
    drawn,    \* nonces drawn so far: 192 random bits never repeat
    clash     \* history: clash[c], c saw its key taken during its lease attempt

vars == <<cfg, now, rows, nonces, pc, key, answer, drawn, clash>>

Answer == {"none", "ok", "leased", "redeemed", "committed", "lost", "released",
           "issued", "taken", "invalid", "error"}

Settings == [single_use : BOOLEAN, redis : BOOLEAN, allow_volatile : BOOLEAN]

(* A stored row is a lease or a commit. *)
StoredRow == {r \in Row(Client) : r.state = "none" => r = NoRow}

TypeOK ==
    /\ cfg \in Settings
    /\ now \in Nat
    /\ rows \in [Key -> StoredRow]
    /\ nonces \in [Nonce -> Nat]
    /\ pc \in [Client -> {"idle", "classify", "asked"}]
    /\ key \in [Client -> Key]
    /\ answer \in [Client -> Answer]
    /\ drawn \subseteq Nonce
    /\ clash \in [Client -> BOOLEAN]

-----------------------------------------------------------------------------
(* Mutant of ConfigAccepted: single use starts without a durable store. *)
ConfigAlways(c) == TRUE

(* `from_lookup` refuses single use on a store that a restart empties. *)
ConfigAccepted(c) == c.single_use /\ ~c.redis => c.allow_volatile

Init ==
    /\ cfg \in {c \in Settings : ConfigAccepted(c)}
    /\ now = 0
    /\ rows = [k \in Key |-> NoRow]
    /\ nonces = [n \in Nonce |-> Absent]
    /\ pc = [c \in Client |-> "idle"]
    /\ key \in [Client -> Key]
    /\ answer = [c \in Client |-> "none"]
    /\ drawn = {}
    /\ clash = [c \in Client |-> FALSE]

(* A reply reaches the caller, or, from Redis, is lost. *)
Reply(c, outcome) ==
    \E a \in {outcome} \cup (IF cfg.redis THEN {"error"} ELSE {}) :
        answer' = [answer EXCEPT ![c] = a]

(* Mutant of Found: a key past its expiry still counts. *)
FoundExpired(k) == rows[k]

(* What GET finds. *)
Found(k) == Retain(rows, now)[k]

(* Whether the consume of c is taken at this moment. *)
Taken(c) == rows[key[c]].expiry > now

(* `try_lease_redemption`, in memory. *)
LeaseInMemory(c) ==
    /\ cfg.single_use /\ ~cfg.redis
    /\ pc[c] = "idle"
    /\ rows' \in TryLease(rows, key[c], now, LeaseTtl, MaxEntries, c)
    /\ answer' = [answer EXCEPT ![c] = Verdict(rows, key[c], now)]
    /\ pc' = [pc EXCEPT ![c] = "asked"]
    /\ clash' = [clash EXCEPT ![c] = Taken(c)]
    /\ UNCHANGED <<cfg, now, nonces, key, drawn>>

(* `SET key leased:<token> NX PX`: done, or the key is taken and must be classified. *)
LeaseSet(c) ==
    /\ cfg.single_use /\ cfg.redis
    /\ pc[c] = "idle"
    /\ IF Found(key[c]) = NoRow
       THEN /\ rows' = [rows EXCEPT ![key[c]] = LeaseRow(now + LeaseTtl, c)]
            /\ Reply(c, "ok")
            /\ pc' = [pc EXCEPT ![c] = "asked"]
            /\ UNCHANGED clash
       ELSE /\ pc' = [pc EXCEPT ![c] = "classify"]
            /\ clash' = [clash EXCEPT ![c] = Taken(c)]
            /\ UNCHANGED <<rows, answer>>
    /\ UNCHANGED <<cfg, now, nonces, key, drawn>>

(* Only `committed` is final; a lease, or a key that has gone since, is a conflict. *)
Classify(row) == IF row.state = "committed" THEN "redeemed" ELSE "leased"

LeaseGet(c) ==
    /\ pc[c] = "classify"
    /\ Reply(c, Classify(Found(key[c])))
    /\ pc' = [pc EXCEPT ![c] = "asked"]
    /\ UNCHANGED <<cfg, now, rows, nonces, key, drawn, clash>>

(* Mutant of CommitRedemption: SET without the compare. *)
CommitBlind(c) ==
    /\ pc[c] = "asked"
    /\ rows' = [rows EXCEPT ![key[c]] = CommitRow(now + Retention)]
    /\ Reply(c, "committed")
    /\ UNCHANGED <<cfg, now, nonces, pc, key, drawn, clash>>

(* The compare-and-set script; in memory, the table's commit. *)
CommitRedemption(c) ==
    /\ pc[c] = "asked"
    /\ rows' = Commit(rows, key[c], c, now, Retention)
    /\ Reply(c, IF Owns(rows, key[c], c, now) THEN "committed" ELSE "lost")
    /\ UNCHANGED <<cfg, now, nonces, pc, key, drawn, clash>>

(* The compare-and-delete script sees unexpired keys only; the table's release any. *)
ReleaseRedemption(c) ==
    /\ pc[c] = "asked"
    /\ rows' = IF cfg.redis /\ Found(key[c]) = NoRow THEN rows ELSE Release(rows, key[c], c)
    /\ Reply(c, "released")
    /\ UNCHANGED <<cfg, now, nonces, pc, key, drawn, clash>>

(* `issue`: under the cap in memory, `SET PX` in Redis. *)
IssueNonce(c) ==
    /\ \E n \in Nonce \ drawn :
          /\ nonces' \in IF cfg.redis THEN {[nonces EXCEPT ![n] = now + NonceTtl]}
                         ELSE Issue(nonces, n, now, NonceTtl, Capacity(MaxEntries))
          /\ drawn' = drawn \cup {n}
    /\ Reply(c, "issued")
    /\ UNCHANGED <<cfg, now, rows, pc, key, clash>>

(* `GETDEL` finds unexpired keys only; the table drops an expired nonce as well. *)
TakenFrom(table, n) == IF cfg.redis /\ ~Alive(table, n, now) THEN table ELSE Take(table, n)

(* `take_if_valid`: any nonce may be presented, issued or not. *)
TakeIfValid(c) ==
    /\ \E n \in Nonce :
          /\ nonces' = TakenFrom(nonces, n)
          /\ Reply(c, IF Alive(nonces, n, now) THEN "taken" ELSE "invalid")
    /\ UNCHANGED <<cfg, now, rows, pc, key, drawn, clash>>

(* A Redis command fails before it is applied, or its reply does not arrive in time
   (`REDIS_TIMEOUT`); a lease attempt ends there. *)
CommandFails(c) ==
    /\ cfg.redis
    /\ answer' = [answer EXCEPT ![c] = "error"]
    /\ pc' = [pc EXCEPT ![c] = "asked"]
    /\ UNCHANGED <<cfg, now, rows, nonces, key, drawn, clash>>

(* The background prune; `NonceStore::prune` does nothing for Redis. *)
PruneNonces ==
    /\ ~cfg.redis
    /\ nonces' = Prune(nonces, now)
    /\ UNCHANGED <<cfg, now, rows, pc, key, answer, drawn, clash>>

(* The process restarts with the same configuration: callers are gone, and so is
   what was in memory. *)
Restart ==
    /\ rows' = IF cfg.redis THEN rows ELSE [k \in Key |-> NoRow]
    /\ nonces' = IF cfg.redis THEN nonces ELSE [n \in Nonce |-> Absent]
    /\ pc' = [c \in Client |-> IF pc[c] = "classify" THEN "asked" ELSE pc[c]]
    /\ UNCHANGED <<cfg, now, key, answer, drawn, clash>>

Tick ==
    /\ now < MaxTime
    /\ now' = now + 1
    /\ UNCHANGED <<cfg, rows, nonces, pc, key, answer, drawn, clash>>

Next ==
    \/ \E c \in Client :
          \/ LeaseInMemory(c) \/ LeaseSet(c) \/ LeaseGet(c)
          \/ CommitRedemption(c) \/ ReleaseRedemption(c)
          \/ IssueNonce(c) \/ TakeIfValid(c) \/ CommandFails(c)
    \/ PruneNonces \/ Restart \/ Tick

Spec == Init /\ [][Next]_vars

-----------------------------------------------------------------------------
(* Either backend, with its own atomicity, clock and failures, gives the gateway the
   port it is written against: challenge.rs promises "exactly once" nonces, owner-bound
   leases and answers that never turn an error into a conflict or a success. *)
Port == INSTANCE StateStore WITH
    rows     <- Retain(rows, now),
    nonces   <- Prune(nonces, now),
    Volatile <- TRUE

ImplementsStateStore == Port!Spec

(* Unless the process runs with single use in memory, which the operator had to allow, it
   is a port whose restarts forget no redemption. *)
DurablePort == INSTANCE StateStore WITH
    rows     <- Retain(rows, now),
    nonces   <- Prune(nonces, now),
    Volatile <- FALSE

Remembers == ~cfg.allow_volatile \/ cfg.redis \/ ~cfg.single_use

ForgetsNoRedemption ==
    /\ Remembers => DurablePort!Init
    /\ [][Remembers => UNCHANGED DurablePort!vars \/ DurablePort!Next]_vars

(* A caller is turned away only if its consume was taken at some moment of its own
   attempt, however leases lapse and are released between SET NX and GET. *)
RefusalWasContested ==
    \A c \in Client : answer[c] \in {"leased", "redeemed"} => clash[c]

(* The inductive invariant behind the two: a store without redemptions holds none, the
   configuration was accepted, and a caller that must classify a conflict met one. *)
NoRedemptions == ~cfg.single_use => rows = [k \in Key |-> NoRow]
ConflictsAreReal == \A c \in Client : pc[c] = "classify" => clash[c]
StoreInv == TypeOK /\ ConfigAccepted(cfg) /\ NoRedemptions /\ ConflictsAreReal /\ RefusalWasContested
=============================================================================
