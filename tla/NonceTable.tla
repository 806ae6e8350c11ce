------------------------------ MODULE NonceTable ------------------------------
(***************************************************************************)
(* The pure table of challenge nonces: `NonceTable` of                     *)
(* core/src/redemption.rs.  A table is a function from nonces to expiries; *)
(* Absent stands for a nonce the HashMap does not hold (a stored expiry    *)
(* lies in the future of the moment it is stored, so it is never 0).       *)
(***************************************************************************)
EXTENDS Naturals, FiniteSets

Absent == 0

Held(table) == {n \in DOMAIN table : table[n] # Absent}

(* `prune`: drop the expired nonces.  It also opens every `issue`. *)
Prune(table, t) == [n \in DOMAIN table |-> IF table[n] > t THEN table[n] ELSE Absent]

(* Mutant of Oldest: the freshest nonce makes room. *)
Newest(table, max) ==
    IF Cardinality(Held(table)) < max THEN {}
    ELSE {n \in Held(table) : \A m \in Held(table) : table[n] >= table[m]}

(* Who may make room for a new nonce: nobody below the cap, else a nonce that
   expires soonest (ties fall in HashMap order). *)
Oldest(table, max) ==
    IF Cardinality(Held(table)) < max THEN {}
    ELSE {n \in Held(table) : \A m \in Held(table) : table[n] <= table[m]}

(* The tables `issue` may leave behind. *)
Issue(table, n, t, ttl, max) ==
    LET kept  == Prune(table, t)
        drops == Oldest(kept, max)
        room  == IF drops = {} THEN {kept} ELSE {[kept EXCEPT ![v] = Absent] : v \in drops}
    IN  {[tab EXCEPT ![n] = t + ttl] : tab \in room}

(* Mutant of Take: a nonce is removed only by the periodic prune. *)
TakeKeeps(table, n) == table

(* `take_if_valid`: present means gone, and the answer is whether it was alive. *)
Take(table, n) == [table EXCEPT ![n] = Absent]
Alive(table, n, t) == table[n] > t
=============================================================================
