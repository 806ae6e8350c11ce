------------------------------ MODULE WorkerRates ------------------------------
(***************************************************************************)
(* The Worker's rate windows: `rate_check` of worker/src/do_state.rs, one  *)
(* SQLite table per region shard, and its client in worker/src/state.rs.   *)
(* A request is charged in the region it enters by, so a key that moves    *)
(* between regions has a window in each.  Every scope has its own key      *)
(* space in the shared table, so a scope's windows are a table of theirs.  *)
(***************************************************************************)
EXTENDS Naturals, Sequences, FiniteSets

CONSTANTS
    Key,       \* rate keys: a scope's prefix and an IP, or a wallet address
    Shards,    \* NONCE_SHARDS
    Window,    \* 60_000
    Budget,    \* the budget of the scope; 0 disables
    MaxTime,   \* bound: the clock stops here
    MaxLog     \* bound: admissions of one key in one shard

(* What the constants must be; every instance assumes it. *)
WorkerRateConstants ==
    /\ Window \in Nat \ {0}
    /\ {Budget, MaxTime, MaxLog} \subseteq Nat
    /\ "g" \in Shards

VARIABLES
    global,    \* NONCE_SHARD: every request is routed to the shard "g"
    now,       \* the clock
    rate,      \* rate[s][k]: the row of k in shard s; count 0 stands for no row
    admitted   \* history: admitted[s][k], when k was admitted through shard s

vars == <<global, now, rate, admitted>>

NoWindow == [start |-> 0, count |-> 0]

TypeOK ==
    /\ global \in BOOLEAN
    /\ now \in Nat
    /\ rate \in [Shards -> [Key -> [start : Nat, count : Nat]]]
    /\ admitted \in [Shards -> [Key -> Seq(Nat)]]

Init ==
    /\ global \in BOOLEAN
    /\ now = 0
    /\ rate = [s \in Shards |-> [k \in Key |-> NoWindow]]
    /\ admitted = [s \in Shards |-> [k \in Key |-> << >>]]

(* Where a request from a region is charged. *)
Charged(region) == IF global THEN "g" ELSE region

(* Mutant of Current: a window runs one unit longer. *)
CurrentLong(s, k) ==
    IF rate[s][k].count > 0 /\ now - rate[s][k].start <= Window
    THEN rate[s][k] ELSE [start |-> now, count |-> 0]

(* Mutant of Current: the window is dated back by its length. *)
CurrentDatedBack(s, k) == [start |-> now - Window, count |-> rate[s][k].count]

(* The window a request is counted in: the stored one until it has run its length. *)
Current(s, k) ==
    IF rate[s][k].count > 0 /\ now - rate[s][k].start < Window
    THEN rate[s][k] ELSE [start |-> now, count |-> 0]

(* Mutant of Swept: the cut lies in the future. *)
SweptAll(table) == [k \in Key |-> NoWindow]

(* `DELETE FROM rate WHERE start < now - 60_000`. *)
Swept(table) ==
    [k \in Key |-> IF now - table[k].start > Window THEN NoWindow ELSE table[k]]

(* `rate_check` admits and counts; two in a hundred times it sweeps first. *)
RateCheck(region, k) ==
    LET s == Charged(region)
        window == Current(s, k)
    IN  /\ Budget > 0 /\ window.count < Budget
        /\ Len(admitted[s][k]) < MaxLog
        /\ \E table \in {rate[s], Swept(rate[s])} :
              rate' = [rate EXCEPT ![s] = [table EXCEPT ![k] = [window EXCEPT !.count = @ + 1]]]
        /\ admitted' = [admitted EXCEPT ![s][k] = Append(@, now)]
        /\ UNCHANGED <<global, now>>

Refused(region, k) == Budget > 0 /\ Current(Charged(region), k).count >= Budget

Tick ==
    /\ now < MaxTime
    /\ now' = now + 1
    /\ UNCHANGED <<global, rate, admitted>>

Next ==
    \/ \E region \in Shards, k \in Key : RateCheck(region, k)
    \/ Tick

Spec == Init /\ [][Next]_vars

-----------------------------------------------------------------------------
(* The admissions of k through s that fall into the Window that starts at t. *)
Burst(s, k, t) ==
    Cardinality({i \in DOMAIN admitted[s][k] : admitted[s][k][i] \in t .. t + Window - 1})

(* What a client that moves between regions gets: at most two budgets in any span of a
   window's length from each region it enters by, and in global mode from all of them
   together.  The sweep never buys it more. *)
RegionalBudget ==
    \A k \in Key, t \in 0 .. now :
        /\ \A s \in Shards : Burst(s, k, t) <= 2 * Budget
        /\ global => \A s \in Shards \ {"g"} : admitted[s][k] = << >>

(* A refusal is earned in the region it happens in: that many requests of this key were
   admitted there within the last window, none of them in another region. *)
RefusalEarnedHere ==
    \A region \in Shards, k \in Key :
        Refused(region, k) =>
            Burst(Charged(region), k, IF now < Window THEN 0 ELSE now - Window + 1) >= Budget
=============================================================================
