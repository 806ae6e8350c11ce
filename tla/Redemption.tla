------------------------------ MODULE Redemption ------------------------------
(***************************************************************************)
(* Single-use redemption end to end: `redeem_and_forward` of               *)
(* core/src/gateway.rs run by concurrent requests against one redemption   *)
(* store (core/src/redemption.rs), after the age check of the consume      *)
(* event (core/src/chain.rs).  The store may sit across a network (Redis,  *)
(* a Durable Object): a call may fail before it is applied, or be applied  *)
(* after the caller has stopped waiting for it.  A request may disappear   *)
(* at any await (client gone, shutdown, crash).                            *)
(*                                                                         *)
(* Time is a counter.  The constants give, in its unit, the configured     *)
(* limits and the longest time each phase of a request may take.           *)
(***************************************************************************)
EXTENDS Naturals, RedemptionTable

CONSTANTS
    Request,      \* requests; each makes one lease attempt, and its owner token is itself
    Consume,      \* on-chain consume digests, the redemption keys
    LeaseTtl,     \* REDEMPTION_LEASE_TTL_SECS
    Retention,    \* REDEMPTION_RETENTION_SECS
    MaxAge,       \* CONSUME_MAX_AGE_SECS
    Skew,         \* CLOCK_SKEW_MS, how far ahead an event timestamp may be
    ForwardMax,   \* BODY_READ_TIMEOUT_SECS + UPSTREAM_TIMEOUT_SECS
    CallMax,      \* longest wait for a store call (0: in process)
    LeaseGap,     \* longest time from the age check to the lease attempt
    MaxEntries,   \* cap of the table
    Unreliable,   \* TRUE: store calls may fail or be applied late
    Stamps,       \* event timestamps the chain may report
    LastArrival,  \* bound: no request arrives later
    LastLate,     \* bound: no abandoned call is applied later
    MaxTime       \* bound: the clock stops here

(* The relations between limits that `GatewayConfig::from_env` enforces. *)
ConfigValid ==
    /\ LeaseTtl > ForwardMax
    /\ MaxAge <= Retention

ASSUME ConstantTypes ==
    /\ {LeaseTtl, Retention, MaxAge, Skew, ForwardMax, CallMax, LeaseGap,
        MaxEntries, LastArrival, LastLate, MaxTime} \subseteq Nat
    /\ Stamps \subseteq Nat
    /\ Unreliable \in BOOLEAN
    /\ NoToken \notin Request

ASSUME ConfigAssumption == ConfigValid

VARIABLES
    now,      \* the clock
    stamp,    \* stamp[c]: timestamp of the consume event, fixed by the chain
    rows,     \* the redemption table
    pc,       \* pc[r]: where request r is, or how it ended
    key,      \* key[r]: the consume r presented
    due,      \* due[r]: when the current phase of r ends at the latest
    limbo,    \* store calls nobody waits for that may still be applied
    winners,  \* history: winners[c] are the requests whose commit of c was applied
    paidAt    \* history: when the last commit of c was applied

vars == <<now, stamp, rows, pc, key, due, limbo, winners, paidAt>>

InFlight == {"verified", "forwarding", "committing", "releasing", "rollback"}

(* How a request ends: refused, conflict, relayed, failed, or dropped. *)
Ended == {"denied", "unavailable", "redeemed", "leased", "upstream_error",
          "success", "lost", "commit_failed", "gone"}

Call(op, r) == [op |-> op, req |-> r]
Calls == [op : {"lease", "commit", "release"}, req : Request]

TypeOK ==
    /\ now \in Nat
    /\ stamp \in [Consume -> Nat]
    /\ rows \in [Consume -> Row(Request)]
    /\ pc \in [Request -> {"idle"} \cup InFlight \cup Ended]
    /\ key \in [Request -> Consume]
    /\ due \in [Request -> Nat]
    /\ limbo \subseteq Calls
    /\ winners \in [Consume -> SUBSET Request]
    /\ paidAt \in [Consume -> Nat]

Init ==
    /\ now = 0
    /\ stamp \in [Consume -> Stamps]
    /\ rows = [c \in Consume |-> NoRow]
    /\ pc = [r \in Request |-> "idle"]
    /\ key \in [Request -> Consume]
    /\ due = [r \in Request |-> 0]
    /\ limbo = {}
    /\ winners = [c \in Consume |-> {}]
    /\ paidAt = [c \in Consume |-> 0]

-----------------------------------------------------------------------------
(* The store's side of each call, whether its caller still waits or not. *)

ApplyLease(r) ==
    /\ rows' \in TryLease(rows, key[r], now, LeaseTtl, MaxEntries, r)
    /\ UNCHANGED <<winners, paidAt>>

ApplyCommit(r) ==
    /\ rows' = Commit(rows, key[r], r, now, Retention)
    /\ IF Owns(rows, key[r], r, now)
       THEN /\ winners' = [winners EXCEPT ![key[r]] = @ \cup {r}]
            /\ paidAt' = [paidAt EXCEPT ![key[r]] = now]
       ELSE UNCHANGED <<winners, paidAt>>

ApplyRelease(r) ==
    /\ rows' = Release(rows, key[r], r)
    /\ UNCHANGED <<winners, paidAt>>

-----------------------------------------------------------------------------
(* One request. *)

(* When a phase entered now must be over; 0 for a request that is not in flight. *)
EndsBy(p) ==
    CASE p = "verified"                               -> now + LeaseGap
      [] p = "forwarding"                             -> now + CallMax + ForwardMax
      [] p \in {"committing", "releasing", "rollback"} -> now + CallMax
      [] OTHER                                        -> 0

Goto(r, p) ==
    /\ pc' = [pc EXCEPT ![r] = p]
    /\ due' = [due EXCEPT ![r] = EndsBy(p)]

(* Mutant of EventIsRecent: the age of the event is not bounded. *)
EventIsNotFuture(c) == stamp[c] <= now + Skew

(* `event_is_recent`: not in the future beyond clock skew, not too old. *)
EventIsRecent(c) ==
    /\ stamp[c] <= now + Skew
    /\ now <= stamp[c] + MaxAge

(* `consume_tx_valid` answers for a consume of a valid proof. *)
Verify(r) ==
    /\ pc[r] = "idle"
    /\ now <= LastArrival
    /\ Goto(r, IF EventIsRecent(key[r]) THEN "verified" ELSE "denied")
    /\ UNCHANGED <<now, stamp, rows, key, limbo, winners, paidAt>>

(* Mutant of AfterLease: an upload in progress is not a conflict. *)
AfterLeaseProceeds(verdict) ==
    IF verdict \in {"ok", "leased"} THEN "forwarding" ELSE verdict

AfterLease(verdict) ==
    IF verdict = "ok" THEN "forwarding" ELSE verdict

(* `try_lease_redemption` answers: 409 redeemed, 409 leased, or the lease. *)
Lease(r) ==
    /\ pc[r] = "verified"
    /\ ApplyLease(r)
    /\ Goto(r, AfterLease(Verdict(rows, key[r], now)))
    /\ UNCHANGED <<now, stamp, key, limbo>>

(* The upstream answers (or times out): 2xx commits, anything else releases. *)
Forward(r) ==
    /\ pc[r] = "forwarding"
    /\ Goto(r, "committing") \/ Goto(r, "releasing")
    /\ UNCHANGED <<now, stamp, rows, key, limbo, winners, paidAt>>

CommitReply(r) == IF Owns(rows, key[r], r, now) THEN "success" ELSE "lost"

(* `commit_redemption` answers: the upstream's response, or 502 lease lost. *)
CommitLease(r) ==
    /\ pc[r] = "committing"
    /\ ApplyCommit(r)
    /\ Goto(r, CommitReply(r))
    /\ UNCHANGED <<now, stamp, key, limbo>>

(* Mutant of ReleaseReply: a release is repeated. *)
ReleaseReplyAgain(p) == p

ReleaseReply(p) == IF p = "releasing" THEN "upstream_error" ELSE "commit_failed"

(* `release_redemption` answers; the reply was decided before. *)
ReleaseLease(r) ==
    /\ pc[r] \in {"releasing", "rollback"}
    /\ ApplyRelease(r)
    /\ Goto(r, ReleaseReply(pc[r]))
    /\ UNCHANGED <<now, stamp, key, limbo>>

-----------------------------------------------------------------------------
(* Failures. *)

(* The store call request r is waiting for, if any. *)
Outstanding(r) ==
    CASE pc[r] = "verified"                  -> {Call("lease", r)}
      [] pc[r] = "committing"                -> {Call("commit", r)}
      [] pc[r] \in {"releasing", "rollback"} -> {Call("release", r)}
      [] OTHER                               -> {}

(* An unanswered call is lost, or is left for the store to apply later. *)
Orphan(r) == \E left \in SUBSET Outstanding(r) : limbo' = limbo \cup left

(* Mutant of AfterError: a commit that failed is reported as success. *)
AfterErrorOptimistic(p) ==
    CASE p = "verified"   -> "unavailable"
      [] p = "committing" -> "success"
      [] OTHER            -> ReleaseReply(p)

(* A lease error is a 503, a commit error releases and is a 502, a release
   error is only logged. *)
AfterError(p) ==
    CASE p = "verified"   -> "unavailable"
      [] p = "committing" -> "rollback"
      [] OTHER            -> ReleaseReply(p)

(* The store call of r returns an error (refused, timed out, reply lost). *)
StoreError(r) ==
    /\ Unreliable
    /\ Outstanding(r) # {}
    /\ Orphan(r)
    /\ Goto(r, AfterError(pc[r]))
    /\ UNCHANGED <<now, stamp, rows, key, winners, paidAt>>

(* The handler of r is dropped at an await: nothing after it runs. *)
Abandon(r) ==
    /\ pc[r] \in InFlight
    /\ Goto(r, "gone")
    /\ Orphan(r)
    /\ UNCHANGED <<now, stamp, rows, key, winners, paidAt>>

Apply(call) ==
    CASE call.op = "lease"   -> ApplyLease(call.req)
      [] call.op = "commit"  -> ApplyCommit(call.req)
      [] call.op = "release" -> ApplyRelease(call.req)

(* The store applies a call whose caller no longer waits. *)
LateCall(call) ==
    /\ now <= LastLate
    /\ Apply(call)
    /\ limbo' = limbo \ {call}
    /\ UNCHANGED <<now, stamp, pc, key, due>>

-----------------------------------------------------------------------------

(* Time passes, but no phase of a request outlives its limit. *)
Tick ==
    /\ now < MaxTime
    /\ \A r \in Request : pc[r] \in InFlight => now < due[r]
    /\ now' = now + 1
    /\ UNCHANGED <<stamp, rows, pc, key, due, limbo, winners, paidAt>>

(* The bounded run is over: every request has ended and the clock has stopped. *)
Quiesce ==
    /\ now = MaxTime
    /\ \A r \in Request : pc[r] \notin InFlight
    /\ UNCHANGED vars

Answer(r) == Lease(r) \/ Forward(r) \/ CommitLease(r) \/ ReleaseLease(r)

Next ==
    \/ \E r \in Request : Verify(r) \/ Answer(r) \/ StoreError(r) \/ Abandon(r)
    \/ \E call \in limbo : LateCall(call)
    \/ Tick
    \/ Quiesce

Spec == Init /\ [][Next]_vars

(***************************************************************************)
(* Every await of a handler ends: store calls and the forward have          *)
(* timeouts, and the executor polls a handler whose await is over.  Clocks  *)
(* advance.  Nothing forces a client to arrive, a fault to happen or an     *)
(* abandoned call to reach the store.                                       *)
(***************************************************************************)
FairSpec ==
    /\ Spec
    /\ WF_vars(Tick)
    /\ \A r \in Request : WF_vars(Answer(r))

-----------------------------------------------------------------------------
(* Properties. *)

(* The margin that makes retention outlast presentability: what the age check
   and `ConfigValid` need to rule out a second redemption. *)
RetentionMargin == Retention > MaxAge + Skew + LeaseGap

(* The margin that makes a lease outlive its request, calls included. *)
LeaseMargin == LeaseTtl > ForwardMax + 2 * CallMax

(* The consumes some request presents. *)
Wanted == {key[r] : r \in Request}

(* Room for all of them, so that a lease attempt evicts nothing. *)
Fits == IsFiniteSet(Wanted) /\ Cardinality(Wanted) <= Capacity(MaxEntries)

(* "A duplicate can't double-spend it" (redeem_and_forward): whatever is
   retried, lost, late or abandoned, at most one commit of a consume is ever
   applied, also after the table has forgotten it. *)
AtMostOneRedemption ==
    \A c \in Consume : \A r, s \in winners[c] : r = s

(* "A 502, never success": the upstream's 2xx reaches a client only when the
   commit of that very request is the one recorded. *)
SuccessIsRecorded ==
    \A r \in Request : pc[r] = "success" => winners[key[r]] = {r}

(* Two handlers never have the same consume at the upstream at once: the lease
   outlives the body-read and upstream deadlines together (redeem_and_forward,
   from_env), while the table has room. *)
NoConcurrentUploads ==
    Fits => \A r, s \in Request :
        pc[r] = "forwarding" /\ pc[s] = "forwarding" /\ key[r] = key[s] => r = s

(* The table outgrows `max_entries` by commits alone: at the cap a lease only
   displaces a lease, so two leases are never both above it. *)
CapExceededByCommitsOnly ==
    \/ Cardinality(Leases(rows)) <= 1
    \/ Cardinality(Present(rows)) <= Capacity(MaxEntries)

(* A recorded redemption is untouchable while it is retained: no release,
   eviction, late call or newer request changes it. *)
LiveCommitUntouched ==
    [][\A c \in Consume :
          rows[c].state = "committed" /\ rows[c].expiry > now => rows'[c] = rows[c]]_vars

(* "A request whose lease lapsed can never clear or overwrite a newer holder's":
   an unexpired lease changes only by a step of its owner, or by its owner's own
   late call, while the table has room. *)
OnlyOwnerMovesLease ==
    [][Fits => \A c \in Consume :
          rows[c].state = "leased" /\ rows[c].expiry > now /\ rows'[c] # rows[c]
          => LET owner == rows[c].token
             IN  \/ pc[owner] \in {"committing", "releasing", "rollback"} /\ pc'[owner] # pc[owner]
                 \/ \E call \in limbo \ limbo' : call.req = owner]_vars

(* Every request that passed verification is answered or dropped. *)
EveryRequestEnds ==
    \A r \in Request : pc[r] \in InFlight ~> pc[r] \in Ended

(* "An interrupted upload leaves the consume redeemable": a lease whose holder
   is gone, also one applied after its caller had given up, does not block the
   consume forever. *)
AbandonedLeaseLapses ==
    \A r \in Request :
        rows[key[r]].token = r /\ pc[r] \in Ended
        ~> rows[key[r]].token # r \/ rows[key[r]].expiry <= now

(* "A commit that fails is a 502 and releases the lease so the same consume can
   be retried: a paid use is never lost to a commit failure" (redeem_and_forward). *)
CommitFailureLeavesRetryable ==
    \A r \in Request : pc[r] = "commit_failed" => r \notin winners[key[r]]

(***************************************************************************)
(* The inductive invariant behind AtMostOneRedemption, for a retention with *)
(* margin.  The commit of a consume rests on a lease whose owner can still  *)
(* present its token.  Once a consume is spent no such lease exists         *)
(* (SpentStaysSpent): a new one would need a verified request, and as long  *)
(* as requests can verify the table remembers the commit (SpentRemembered). *)
(***************************************************************************)

(* r may still have a commit applied: it holds the lease reply, or its commit
   is in flight. *)
Committable(r) ==
    pc[r] \in {"forwarding", "committing"} \/ Call("commit", r) \in limbo

OnTime ==
    \A r \in Request :
        /\ pc[r] \in InFlight => now <= due[r]
        /\ pc[r] = "verified" => due[r] <= stamp[key[r]] + MaxAge + LeaseGap

NotEarly ==
    \A r \in Request :
        pc[r] \notin {"idle", "denied"} => stamp[key[r]] <= now + Skew

OrphansHaveNoCaller ==
    \A r \in Request :
        /\ Call("lease", r) \in limbo =>
              pc[r] \in Ended \ {"denied"} /\ Call("commit", r) \notin limbo
        /\ Call("commit", r) \in limbo =>
              pc[r] \in (Ended \ {"denied"}) \cup {"rollback"}

LeasesHaveOwners ==
    \A c \in Consume :
        rows[c].state = "leased" =>
            /\ rows[c].token \in Request
            /\ key[rows[c].token] = c
            /\ pc[rows[c].token] \notin {"idle", "denied", "verified"}

SpentStaysSpent ==
    \A c \in Consume :
        winners[c] # {} /\ rows[c].state = "leased" => ~Committable(rows[c].token)

SpentRemembered ==
    \A c \in Consume :
        winners[c] # {} =>
            /\ stamp[c] <= paidAt[c] + Skew
            /\ rows[c] = CommitRow(paidAt[c] + Retention) \/ paidAt[c] + Retention <= now

RequestInv == OnTime /\ NotEarly /\ OrphansHaveNoCaller
TableInv   == LeasesHaveOwners /\ SpentStaysSpent /\ SpentRemembered

(* With margin, the whole bookkeeping of requests, orphaned calls and rows. *)
RedemptionInv ==
    TypeOK /\ RequestInv /\ TableInv /\ AtMostOneRedemption /\ SuccessIsRecorded

(* The table holds rows of consumes that were presented, and of no other. *)
RowsAreWanted == Present(rows) \subseteq Wanted

(* With room and a lease that outlives its request, an upload holds its lease until
   the store has answered its commit: no upload that the upstream accepted is "lost"
   to a lapsed lease.  The third part says which releases may still be under way. *)
UploadsKeepLease ==
    Fits => \A r \in Request :
        /\ pc[r] = "forwarding" => Owns(rows, key[r], r, due[r] + CallMax)
        /\ pc[r] = "committing" => Owns(rows, key[r], r, due[r])
        /\ Call("release", r) \in limbo => pc[r] \in Ended
        /\ pc[r] # "lost"

(* A commit is not touched while it lives, and a lease is moved by its owner or the clock
   only (`commit`, `release`, `try_lease`), whoever is late; with both margins and room no
   upload loses its lease, and the bookkeeping of RedemptionInv holds. *)
RowsKeepTheirOwners ==
    [](RedemptionInv /\ RowsAreWanted /\ UploadsKeepLease) /\ LiveCommitUntouched /\ OnlyOwnerMovesLease

(* At the cap of `try_lease` too a consume is redeemed once, only commits may hold more rows than
   allowed, and eviction never touches a live commit. *)
FullTableSpendsOnce ==
    [](AtMostOneRedemption /\ CapExceededByCommitsOnly) /\ LiveCommitUntouched

(* The refinement mapping: an unexpired lease is held by its token. *)
Holder(c) ==
    IF rows[c].state = "leased" /\ rows[c].expiry > now THEN rows[c].token ELSE NoToken

Abstract == INSTANCE SingleUse WITH
    Nobody <- NoToken,
    held   <- [c \in Consume |-> Holder(c)],
    spent  <- winners

(* Redemption implements the promise of SingleUse. *)
ImplementsSingleUse == Abstract!Spec
=============================================================================
