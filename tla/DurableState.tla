----------------------------- MODULE DurableState -----------------------------
(***************************************************************************)
(* The Worker's store: the SQLite Durable Object `NonceRateState`          *)
(* (worker/src/do_state.rs), its client `DoState` (worker/src/state.rs)    *)
(* and the routing between them (worker/src/region.rs).  Nonces live in    *)
(* one instance per region, redemptions in a fixed one.  An operation is   *)
(* one synchronous section of its instance; what the platform may do is    *)
(* lose a call or its answer, drop an instance from memory and construct   *)
(* it again, and let the schema setup stop half way.  A table is a         *)
(* function, as in RedemptionTable and NonceTable.                         *)
(***************************************************************************)
EXTENDS RedemptionTable, NonceTable, Sequences

CONSTANTS Client, Key, LeaseTtl, Retention, NonceTtl, MaxEntries,
    Nonce,      \* [tag, id]: the text `<tag>.<id>`; tag "" is a text without a tag
    Shards,     \* NONCE_SHARDS
    Continent,  \* cf.continent of a request, lower-cased
    Global,     \* the Worker runs in global mode
    MaxTime     \* bound: the clock stops here

Redeem == "redeem"   \* REDEEM_SHARD
Columns == <<"nonces", "rate", "redemptions", "token">>   \* what `migrate` sets up, in order
Legacy == {"nonces", "rate", "redemptions"}               \* tables from before owner tokens

(* Every instance a name can reach. *)
Instance == Shards \cup {Redeem} \cup {n.tag : n \in Nonce}

(* What the constants must be; every instance assumes it. *)
DurableConstants ==
    /\ {LeaseTtl, Retention, NonceTtl} \subseteq Nat \ {0}
    /\ {MaxEntries, MaxTime} \subseteq Nat
    /\ "g" \in Shards /\ Shards \cap {Redeem, ""} = {} /\ NoToken \notin Client

VARIABLES
    now,      \* the clock
    schema,   \* schema[s]: the tables and the column instance s has
    up,       \* instances in memory
    rows,     \* table `redemptions` of the instance Redeem
    nonces,   \* nonces[s]: table `nonces` of instance s
    asked,    \* clients whose lease was attempted
    answer,   \* answer[c]: what c learned last
    drawn,    \* nonces drawn so far: 192 random bits never repeat
    minted    \* history: instances that were ever constructed

vars == <<now, schema, up, rows, nonces, asked, answer, drawn, minted>>
store == <<rows, nonces>>

(* A stored row is a lease or a commit. *)
StoredRow == {r \in Row(Client) : r.state = "none" => r = NoRow}

TypeOK ==
    /\ now \in Nat
    /\ schema \in [Instance -> SUBSET {Columns[i] : i \in DOMAIN Columns}]
    /\ up \subseteq Instance
    /\ rows \in [Key -> StoredRow]
    /\ nonces \in [Instance -> [Nonce -> Nat]]
    /\ drawn \subseteq Nonce

(* A deploy finds nothing, or what the previous script left: leases without an owner
   token, and commits. *)
Init ==
    /\ now = 0
    /\ schema \in {[s \in Instance |-> IF s = Redeem THEN tables ELSE {}] : tables \in {{}, Legacy}}
    /\ rows \in [Key -> IF schema[Redeem] = {} THEN {NoRow}
                        ELSE {NoRow, LeaseRow(LeaseTtl, NoToken), CommitRow(Retention)}]
    /\ nonces = [s \in Instance |-> [n \in Nonce |-> Absent]]
    /\ answer = [c \in Client |-> "none"]
    /\ asked = {} /\ drawn = {} /\ up = {} /\ minted = {}

-----------------------------------------------------------------------------
(* Routing. *)

RegionOf(continent) == IF ~Global /\ continent \in Shards THEN continent ELSE "g"

(* Mutant of ShardOfNonce: the tag is followed wherever it points. *)
ShardOfAnyTag(n) == {IF n.tag = "" THEN "g" ELSE n.tag}

(* The instance a nonce names: none when the tag is not a shard. *)
ShardOfNonce(n) == IF n.tag = "" THEN {"g"} ELSE {n.tag} \cap Shards

(* `migrate` from the given tables: it may stop after any of its steps. *)
Migrated(tables) == {tables \cup {Columns[i] : i \in 1..done} : done \in 0..Len(Columns)}

(* A call reaches an instance, which is constructed first unless it is in memory. *)
Reach(s) ==
    /\ \E tables \in IF s \in up THEN {schema[s]} ELSE Migrated(schema[s]) :
          schema' = [schema EXCEPT ![s] = tables]
    /\ up' = up \cup {s}
    /\ minted' = minted \cup {s}

Has(s, columns) == columns \subseteq schema'[s]

(* The answer of the object arrives or is lost. *)
Reply(c, outcome) == \E a \in {outcome, "error"} : answer' = [answer EXCEPT ![c] = a]

(* A statement fails: HTTP 500, which the client reports as an error. *)
StatementFails(c) ==
    /\ answer' = [answer EXCEPT ![c] = "error"]
    /\ UNCHANGED store

-----------------------------------------------------------------------------
(* Mutant of IssueNonce: the challenge is stored in the shard of another region. *)
IssueNonceElsewhere(c, continent) ==
    \E n \in Nonce \ drawn, s \in Shards :
        /\ n.tag = RegionOf(continent)
        /\ drawn' = drawn \cup {n}
        /\ Reach(s)
        /\ \/ /\ Has(s, {"nonces"})
              /\ nonces' = [nonces EXCEPT ![s][n] = now + NonceTtl]
              /\ Reply(c, "issued")
              /\ UNCHANGED rows
           \/ ~Has(s, {"nonces"}) /\ StatementFails(c)
        /\ UNCHANGED <<now, asked>>

(* `issue_nonce`: the tag of the new nonce is the region it is stored in. *)
IssueNonce(c, continent) ==
    \E n \in Nonce \ drawn :
        /\ n.tag = RegionOf(continent)
        /\ drawn' = drawn \cup {n}
        /\ Reach(n.tag)
        /\ \/ /\ Has(n.tag, {"nonces"})
              /\ \E table \in Issue(nonces[n.tag], n, now, NonceTtl, Capacity(MaxEntries)) :
                    nonces' = [nonces EXCEPT ![n.tag] = table]
              /\ Reply(c, "issued")
              /\ UNCHANGED rows
           \/ ~Has(n.tag, {"nonces"}) /\ StatementFails(c)
        /\ UNCHANGED <<now, asked>>

(* `take_nonce` of a nonce from anywhere: a forged tag is refused on the spot. *)
TakeNonce(c, n) ==
    /\ \/ /\ ShardOfNonce(n) = {}
          /\ answer' = [answer EXCEPT ![c] = "invalid"]
          /\ UNCHANGED <<schema, up, minted, store>>
       \/ \E s \in ShardOfNonce(n) :
          /\ Reach(s)
          /\ \/ /\ Has(s, {"nonces"})
                /\ nonces' = [nonces EXCEPT ![s] = Take(@, n)]
                /\ Reply(c, IF Alive(nonces[s], n, now) THEN "taken" ELSE "invalid")
                /\ UNCHANGED rows
             \/ ~Has(s, {"nonces"}) /\ StatementFails(c)
    /\ UNCHANGED <<now, asked, drawn>>

(* `lease`.  The eviction precedes the draw of the owner token, which may fail. *)
TryLeaseRedemption(c, k) ==
    /\ c \notin asked
    /\ asked' = asked \cup {c}
    /\ Reach(Redeem)
    /\ \/ /\ Has(Redeem, {"redemptions", "token"})
          /\ \/ /\ rows' \in TryLease(rows, k, now, LeaseTtl, MaxEntries, c)
                /\ Reply(c, Verdict(rows, k, now))
             \/ /\ Verdict(rows, k, now) = "ok"
                /\ rows' \in Evicted(Retain(rows, now), MaxEntries)
                /\ answer' = [answer EXCEPT ![c] = "error"]
          /\ UNCHANGED nonces
       \/ ~Has(Redeem, {"redemptions", "token"}) /\ StatementFails(c)
    /\ UNCHANGED <<now, drawn>>

(* Mutant of CommitRedemption: a lease is committed whoever owns it. *)
CommitAnyLease(c, k) ==
    /\ c \in asked
    /\ Reach(Redeem)
    /\ Has(Redeem, {"redemptions", "token"})
    /\ rows' = IF rows[k].state = "leased" THEN [rows EXCEPT ![k] = CommitRow(now + Retention)] ELSE rows
    /\ Reply(c, "committed")
    /\ UNCHANGED <<now, nonces, asked, drawn>>

(* Mutant of CommitRedemption: the deadline is cleared together with the token. *)
CommitNullDeadline(c, k) ==
    /\ c \in asked
    /\ Reach(Redeem)
    /\ rows' = [rows EXCEPT ![k] = [state |-> "committed", expiry |-> NoToken, token |-> NoToken]]
    /\ Reply(c, "committed")
    /\ UNCHANGED <<now, nonces, asked, drawn>>

(* `commit`: `token = ?` holds of no row whose owner is NULL. *)
CommitRedemption(c, k) ==
    /\ c \in asked
    /\ Reach(Redeem)
    /\ \/ /\ Has(Redeem, {"redemptions", "token"})
          /\ rows' = Commit(rows, k, c, now, Retention)
          /\ Reply(c, IF Owns(rows, k, c, now) THEN "committed" ELSE "lost")
          /\ UNCHANGED nonces
       \/ ~Has(Redeem, {"redemptions", "token"}) /\ StatementFails(c)
    /\ UNCHANGED <<now, asked, drawn>>

ReleaseRedemption(c, k) ==
    /\ c \in asked
    /\ Reach(Redeem)
    /\ \/ /\ Has(Redeem, {"redemptions", "token"})
          /\ rows' = Release(rows, k, c)
          /\ Reply(c, "released")
          /\ UNCHANGED nonces
       \/ ~Has(Redeem, {"redemptions", "token"}) /\ StatementFails(c)
    /\ UNCHANGED <<now, asked, drawn>>

(* The call never reaches its instance. *)
CallFails(c) ==
    /\ answer' = [answer EXCEPT ![c] = "error"]
    /\ asked' = asked \cup {c}
    /\ UNCHANGED <<now, schema, up, minted, store, drawn>>

(* The platform drops an instance from memory; its tables stay. *)
Dropped(s) ==
    /\ s \in up
    /\ up' = up \ {s}
    /\ UNCHANGED <<now, schema, store, asked, answer, drawn, minted>>

Tick ==
    /\ now < MaxTime
    /\ now' = now + 1
    /\ UNCHANGED <<schema, up, store, asked, answer, drawn, minted>>

Next ==
    \/ \E c \in Client :
          \/ \E continent \in Continent : IssueNonce(c, continent)
          \/ \E n \in Nonce : TakeNonce(c, n)
          \/ \E k \in Key : TryLeaseRedemption(c, k) \/ CommitRedemption(c, k) \/ ReleaseRedemption(c, k)
          \/ CallFails(c)
    \/ \E s \in Instance : Dropped(s)
    \/ Tick

Spec == Init /\ [][Next]_vars

-----------------------------------------------------------------------------
(* The sharded store is the port the gateway is written against, across regions, lost
   calls, instances that come and go and a schema setup that fails: a nonce is found
   from any region and once only, a lease of the previous script blocks its consume
   until it lapses and is nobody's to commit, and an instance without its tables
   answers with errors, never with a conflict or a success. *)
Stored(n) ==
    LET found == {nonces[s][n] : s \in ShardOfNonce(n)}
    IN  IF \E e \in found : e > now THEN CHOOSE e \in found : TRUE ELSE Absent

Port == INSTANCE StateStore WITH
    rows     <- Retain(rows, now),
    nonces   <- [n \in Nonce |-> Stored(n)],
    Volatile <- FALSE

ObjectsImplementPort == Port!Spec

(* No nonce a client makes up brings an instance to life that the gateway does not use,
   or reaches the redemptions: only a lease attempt touches those. *)
NoForgedInstance == minted \subseteq Shards \cup (IF asked = {} THEN {} ELSE {Redeem})

(* A nonce is stored where its own tag leads, so the instance that answers a take is
   the one that issued it, whatever region the take comes from. *)
StoredWhereTagLeads ==
    \A s \in Instance : \A n \in Held(nonces[s]) : ShardOfNonce(n) = {s}

StoresAreRouted == TypeOK /\ NoForgedInstance /\ StoredWhereTagLeads
=============================================================================
