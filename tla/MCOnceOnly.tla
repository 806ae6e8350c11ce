------------------------------ MODULE MCOnceOnly ------------------------------
(***************************************************************************)
(* What works once only, in one run: a consume that three requests want,   *)
(* over faults and forgotten commits ("faults"); two consumes that want    *)
(* the one row the table has ("full"); and a nonce of the TypeScript       *)
(* gateway ("kv").  The redemptions and the nonces share nothing: `part`   *)
(* says which a behaviour is about, and the other stays in an initial      *)
(* state.                                                                  *)
(***************************************************************************)
EXTENDS Redemption, TLC

(* The constants of KvNonces that Redemption has not. *)
CONSTANTS Isolate, Region, Home, Nonce, Ttl, KvMinTtl, MaxNonces, MaxNonceTime, MaxEvict

VARIABLES part,
    kvNow, cfg, kv, view, degrade, object, cached, req, issued, taken, evicted

kvVars == <<kvNow, cfg, kv, view, degrade, object, cached, req, issued, taken, evicted>>
allVars == <<part, vars, kvVars>>

Ts == INSTANCE KvNonces WITH MaxEntries <- MaxNonces, MaxTime <- MaxNonceTime, now <- kvNow

ASSUME NonceConstants == Ts!KvConstants

(* Bound: the table that overflows is watched up to this time, and its calls are not left behind. *)
FullTime == 5

Scenario ==
    /\ part = "faults" => \A q, r \in Request : key[q] = key[r]
    /\ part = "full" => now <= FullTime /\ limbo = {}

PartsInit ==
    /\ part \in {"faults", "full", "kv"}
    /\ Init /\ \A b, c \in Consume : stamp[b] = stamp[c]
    /\ part # "faults" => \A c \in Consume : stamp[c] = 1
    /\ part = "kv" => \A q, r \in Request : key[q] = key[r]
    /\ Ts!Init /\ (part # "kv" => cfg = [singleUse |-> FALSE, backend |-> "kv", bound |-> TRUE])
    /\ Scenario

PartsNext ==
    \/ part \in {"faults", "full"} /\ Next /\ UNCHANGED <<part, kvVars>> /\ Scenario'
    \/ part = "kv" /\ Ts!Next /\ UNCHANGED <<part, vars>>
    \/ part = "full" /\ now = FullTime /\ UNCHANGED allVars
    \/ part = "kv" /\ kvNow = MaxNonceTime /\ UNCHANGED allVars   \* the end of its time

PartsSpec == PartsInit /\ [][PartsNext]_allVars

(* An isolate in each of two regions. *)
MCHome == "i1" :> "eu" @@ "i2" :> "us"

Symmetry == Permutations(Request) \cup Permutations(Consume)

-----------------------------------------------------------------------------
(* A nonce the Durable Object issued, and every nonce of a single-use deployment, is accepted
   at most once, whatever isolates on KV, the degrade flag and lost answers do; what KV may
   repeat are requests that overlap or come from another region; no nonce is accepted at or
   after its expiry; and single use never runs without its redemption store. *)
KvNoncesHold == [](part = "kv" => Ts!NonceInv) /\ Ts!AcceptedInTime
=============================================================================
