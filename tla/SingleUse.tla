------------------------------- MODULE SingleUse -------------------------------
(***************************************************************************)
(* What single-use gating promises, with no clock, store or network: a     *)
(* consume is held by at most one request at a time, only its holder may   *)
(* spend it, it is spent at most once, and a spent consume stays spent.    *)
(* One step may touch several consumes (a lease that expires or is evicted *)
(* while another is taken), so a step is a conjunction over consumes.      *)
(***************************************************************************)
CONSTANTS Consume, Request, Nobody

VARIABLES
    held,     \* held[c]: the request holding c, or Nobody
    spent     \* spent[c]: the requests that have redeemed c

Init ==
    /\ held  = [c \in Consume |-> Nobody]
    /\ spent = [c \in Consume |-> {}]

Hold(c) ==
    /\ held[c] = Nobody
    /\ held'[c] \in Request
    /\ spent'[c] = spent[c]

GiveBack(c) ==
    /\ held[c] # Nobody
    /\ held'[c] = Nobody
    /\ spent'[c] = spent[c]

Spend(c) ==
    /\ held[c] # Nobody
    /\ spent[c] = {}
    /\ spent'[c] = {held[c]}
    /\ held'[c] = Nobody

Keep(c) == held'[c] = held[c] /\ spent'[c] = spent[c]

Next == \A c \in Consume : Hold(c) \/ GiveBack(c) \/ Spend(c) \/ Keep(c)

Spec == Init /\ [][Next]_<<held, spent>>
=============================================================================
