--------------------------- MODULE MCGatewayParts ---------------------------
(***************************************************************************)
(* The pipeline in two scenarios of one run: nonces under lost and late    *)
(* calls in single-use mode, and every branch of the routing in ownership  *)
(* mode.  `part` says which one a behaviour is about.                      *)
(***************************************************************************)
EXTENDS Gateway, TLC

VARIABLE part

AllHeads == [looped : BOOLEAN, method : {"GET", "POST", "DELETE"}, path : Path, token : BOOLEAN]

(* Requests for a nonce and requests that present one. *)
CoreHeads ==
    {[looped |-> FALSE, method |-> "POST", path |-> "gated", token |-> TRUE],
     [looped |-> FALSE, method |-> "GET", path |-> "challenge", token |-> FALSE]}

(* Three requests over all nonces, one pause; or two requests with any head over one nonce,
   while the gate is paused and opened. *)
Scenario ==
    \/ /\ part = "nonces" /\ single_use
       /\ changes <= 1
       /\ \A r \in Request : head[r] \in CoreHeads \cup {NoHead}
    \/ /\ part = "routing" /\ ~single_use
       /\ Cardinality({r \in Request : pc[r] # "idle"}) <= 2
       /\ Cardinality({nonce[r] : r \in Request} \ {NoNonce}) <= 1

PartsInit == part \in {"nonces", "routing"} /\ Init /\ Scenario
PartsNext == Next /\ UNCHANGED part /\ Scenario'
PartsSpec == PartsInit /\ [][PartsNext]_<<part, vars>>

Symmetry == Permutations(Request) \cup Permutations(Nonce)
=============================================================================
