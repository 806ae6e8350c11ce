----------------------------- MODULE MCRedemption -----------------------------
(* Redemption for TLC: requests and consumes are interchangeable. *)
EXTENDS Redemption, TLC

Symmetry == Permutations(Request) \cup Permutations(Consume)
=============================================================================
