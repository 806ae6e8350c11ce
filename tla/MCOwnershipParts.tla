--------------------------- MODULE MCOwnershipParts ---------------------------
(***************************************************************************)
(* The ownership check in two scenarios of one run: concurrent checks over *)
(* a small cache, and one scan of a list that changes between its pages.   *)
(* `part` says which one a behaviour is about.                             *)
(***************************************************************************)
EXTENDS OwnershipCache, TLC

CONSTANTS
    Elsewhere  \* a wallet nobody asks about
VARIABLE part

(* One pass changes hands under all checks; or all passes do, under one check without a cache
   and with a node that fails. *)
Scenario ==
    /\ \A c \in Check : wallet[c] # Elsewhere
    /\ \/ /\ part = "cache" /\ caching
          /\ \A p \in Pass : owner[p] = Elsewhere <=> p # 1
          /\ Pass \ {1} \subseteq usable
          /\ \A c \in Check : pc[c] # "error"
       \/ /\ part = "pages" /\ ~caching
          /\ \A p \in Pass : owner[p] # Elsewhere
          /\ Cardinality({c \in Check : pc[c] # "idle"}) <= 1

PartsInit == part \in {"cache", "pages"} /\ Init /\ Scenario
PartsNext == Next /\ UNCHANGED part /\ Scenario'
PartsSpec == PartsInit /\ [][PartsNext]_<<part, vars>>

Symmetry == Permutations(Check) \cup Permutations(Wallet \ {Elsewhere})
=============================================================================
