------------------------------ MODULE RateLimiter ------------------------------
(***************************************************************************)
(* The in-memory rate limiter: `RateTable` of core/src/redemption.rs and   *)
(* `MemoryRates` of core/src/state.rs.  Each of its tables holds one fixed *)
(* window per key, is swept periodically and is capped.  The two IP scopes *)
(* (challenge, public) share a table.                                      *)
(***************************************************************************)
EXTENDS Naturals, FiniteSets, Sequences

CONSTANTS
    Key,        \* client addresses and wallet addresses
    Window,     \* RATE_WINDOW_MS
    IpBudget, PreauthBudget, AddressBudget,   \* RateBudgets; 0 is unlimited
    MaxKeys,    \* cap on the windows of a table
    MaxTime,    \* bound: the clock stops here
    MaxLog      \* bound: admissions of one key in one table

ASSUME RateTypes ==
    /\ Window \in Nat \ {0}
    /\ {IpBudget, PreauthBudget, AddressBudget, MaxKeys, MaxTime, MaxLog} \subseteq Nat

Scope == {"challenge", "public", "preauth", "address"}
Tables == {"ip", "preauth", "address"}

(* `MemoryRates::check`: which table a scope charges, and its budget. *)
TableOf(s) == IF s \in {"challenge", "public"} THEN "ip" ELSE s
BudgetOf(s) ==
    CASE TableOf(s) = "ip"      -> IpBudget
      [] TableOf(s) = "preauth" -> PreauthBudget
      [] TableOf(s) = "address" -> AddressBudget

VARIABLES
    now,       \* the clock
    rows,      \* rows[t][k]: the window of key k in table t; count 0 stands for no window
    unswept,   \* history: the windows had nothing ever been swept or evicted
    admitted   \* history: admitted[t][k], the times at which k was admitted

vars == <<now, rows, unswept, admitted>>

NoWindow == [start |-> 0, count |-> 0]
Windows == [start : Nat, count : Nat]

(* No window is dated before the clock's origin, and counts are whole. *)
TypeOK ==
    /\ now \in Nat
    /\ rows \in [Tables -> [Key -> Windows]]
    /\ unswept \in [Tables -> [Key -> Windows]]
    /\ admitted \in [Tables -> [Key -> Seq(Nat)]]

Init ==
    /\ now = 0
    /\ rows = [t \in Tables |-> [k \in Key |-> NoWindow]]
    /\ unswept = rows
    /\ admitted = [t \in Tables |-> [k \in Key |-> << >>]]

-----------------------------------------------------------------------------
(* `RateTable`: a table is a function from keys to windows. *)

Live(table) == {k \in DOMAIN table : table[k].count > 0}

(* Mutant of Running: the window ends one unit late. *)
RunningLong(w, t) == t - w.start <= Window
(* The window has not ended: `now.saturating_sub(start) < RATE_WINDOW_MS`. *)
Running(w, t) == t - w.start < Window

(* The window a request at time t is counted in. *)
Current(table, k, t) ==
    IF table[k].count > 0 /\ Running(table[k], t)
    THEN table[k] ELSE [start |-> t, count |-> 0]

(* Mutant of Allowed: the budget is exceeded by one. *)
AllowedOneMore(table, k, t, budget) ==
    budget = 0 \/ Current(table, k, t).count <= budget

Allowed(table, k, t, budget) ==
    budget = 0 \/ Current(table, k, t).count < budget

(* Mutant of Prune: windows are dropped while they still run. *)
PruneEarly(table, t) ==
    [k \in DOMAIN table |-> IF t - table[k].start + 1 < Window THEN table[k] ELSE NoWindow]

(* `prune`: drop the windows that have ended. *)
Prune(table, t) ==
    [k \in DOMAIN table |-> IF Running(table[k], t) THEN table[k] ELSE NoWindow]

Capacity == IF MaxKeys = 0 THEN 1 ELSE MaxKeys

(* Mutant of MakeRoom: eviction only looks for ended windows. *)
MakeRoomPruneOnly(table, k, t) ==
    IF table[k].count > 0 \/ Cardinality(Live(table)) < Capacity THEN {table}
    ELSE {Prune(table, t)}

(***************************************************************************)
(* Room for a new key: prune, and if the table is still full drop a window *)
(* that ends soonest (any of them: HashMap order breaks ties).             *)
(***************************************************************************)
MakeRoom(table, k, t) ==
    LET pruned == Prune(table, t)
        full(tab) == Cardinality(Live(tab)) >= Capacity
        soonest == {v \in Live(pruned) : \A u \in Live(pruned) : pruned[v].start <= pruned[u].start}
    IN  IF table[k].count > 0 \/ ~full(table) THEN {table}
        ELSE IF ~full(pruned) THEN {pruned}
        ELSE {[pruned EXCEPT ![v] = NoWindow] : v \in soonest}

(* Mutant of Counted: the window is dated back by its length. *)
CountedFromEnd(table, k, t) ==
    [start |-> Current(table, k, t).start - Window, count |-> Current(table, k, t).count + 1]

(* The window after counting one more request. *)
Counted(table, k, t) ==
    [start |-> Current(table, k, t).start, count |-> Current(table, k, t).count + 1]

-----------------------------------------------------------------------------

(* `check_capped` refuses, or admits without a limit: nothing is stored. *)
Refuse(s, k) ==
    /\ ~Allowed(rows[TableOf(s)], k, now, BudgetOf(s))
    /\ UNCHANGED vars

AdmitUnlimited(s, k) ==
    /\ BudgetOf(s) = 0
    /\ UNCHANGED vars

(* `check_capped` admits and counts the request. *)
Admit(s, k) ==
    LET t == TableOf(s)
    IN  /\ BudgetOf(s) # 0
        /\ Allowed(rows[t], k, now, BudgetOf(s))
        /\ Len(admitted[t][k]) < MaxLog
        /\ \E room \in MakeRoom(rows[t], k, now) :
              rows' = [rows EXCEPT ![t] = [room EXCEPT ![k] = Counted(rows[t], k, now)]]
        /\ unswept' = [unswept EXCEPT ![t][k] = Counted(unswept[t], k, now)]
        /\ admitted' = [admitted EXCEPT ![t][k] = Append(@, now)]
        /\ UNCHANGED now

(* `MemoryRates::prune`, the periodic sweep, over all tables. *)
Sweep ==
    /\ rows' = [t \in Tables |-> Prune(rows[t], now)]
    /\ UNCHANGED <<now, unswept, admitted>>

Tick ==
    /\ now < MaxTime
    /\ now' = now + 1
    /\ UNCHANGED <<rows, unswept, admitted>>

Next ==
    \/ \E s \in Scope, k \in Key : Refuse(s, k) \/ AdmitUnlimited(s, k) \/ Admit(s, k)
    \/ Sweep
    \/ Tick

Spec == Init /\ [][Next]_vars

-----------------------------------------------------------------------------
(* Properties. *)

(* The cap was never exceeded: all keys a table has ever admitted fit into it.  Always so for
   `RateTable::check`, which passes usize::MAX. *)
Fits(t) == Cardinality(Live(unswept[t])) <= Capacity

(* "This changes no verdict" (RateTable::prune): while a table's keys fit, it counts every key
   in the same window, with the same count, as if it had never been swept. *)
SweepInvisible ==
    \A t \in Tables : Fits(t) =>
        \A k \in Key : Current(rows[t], k, now) = Current(unswept[t], k, now)

(* The sweep leaves the limit intact: no interval as long as a window sees more
   than two windows' worth of admissions of one key, however sweeps and requests
   interleave.  Holds while the table's keys fit: an eviction gives a key a new window. *)
BurstBounded ==
    \A s \in Scope : BudgetOf(s) # 0 /\ Fits(TableOf(s)) =>
        \A k \in Key :
            LET times == admitted[TableOf(s)][k]
            IN  \A i \in DOMAIN times :
                   Cardinality({j \in DOMAIN times : times[j] >= times[i] /\ times[j] < times[i] + Window})
                       <= 2 * BudgetOf(s)

(* "A flood of distinct keys must not lock the others out" (RateTable): a key
   is refused only if its own admissions of the last window reach the budget,
   also at the cap, where other keys' windows come and go. *)
RefusalEarned ==
    \A s \in Scope, k \in Key :
        ~Allowed(rows[TableOf(s)], k, now, BudgetOf(s)) =>
            LET times == admitted[TableOf(s)][k]
            IN  Cardinality({i \in DOMAIN times : times[i] + Window > now}) >= BudgetOf(s)

(* "Never lets the table hold more than max_keys windows" (RateTable). *)
TablesCapped == \A t \in Tables : Cardinality(Live(rows[t])) <= Capacity

(* No key gets more than two budgets in any span of one window (`RateTable::check`), and the
   windows keep their types. *)
BurstsBounded == TypeOK /\ BurstBounded

(* At the cap `check_capped` refuses nobody who has budget left, and no table of MemoryRates
   grows beyond its cap. *)
FairAtTheCap == RefusalEarned /\ TablesCapped
=============================================================================
