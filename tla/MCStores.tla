------------------------------- MODULE MCStores -------------------------------
(***************************************************************************)
(* The stores of nonces and redemptions in one run: the native one         *)
(* ("native") and the Durable Objects, of which a behaviour shows either   *)
(* the redemptions ("redemptions") or the regions ("regions").  The two    *)
(* stores share nothing; `part` says which one a behaviour is about, and   *)
(* the other stays in an initial state.                                    *)
(***************************************************************************)
EXTENDS NativeStore, TLC

CONSTANTS
    ObjectNonce,     \* the nonces of the Durable Objects, with their tags
    Shards, Continent, Global,
    ObjectMaxTime    \* bound: the clock of the Durable Objects stops here

VARIABLES part,
    doNow, schema, up, doRows, doNonces, asked, doAnswer, doDrawn, minted

doVars == <<doNow, schema, up, doRows, doNonces, asked, doAnswer, doDrawn, minted>>
allVars == <<part, vars, doVars>>

Objects == INSTANCE DurableState WITH
    Nonce <- ObjectNonce, MaxTime <- ObjectMaxTime,
    now <- doNow, rows <- doRows, nonces <- doNonces, answer <- doAnswer, drawn <- doDrawn

ASSUME ObjectConstants == Objects!DurableConstants

Tagged(tag, id) == [tag |-> tag, id |-> id]

(* Three nonces the gateway may draw and two it never draws: one names no shard but the
   redemption instance, one has no tag at all. *)
MCObjectNonce ==
    {Tagged("eu", 1), Tagged("eu", 2), Tagged("g", 1), Tagged("redeem", 1), Tagged("", 1)}

PartsInit ==
    /\ part \in {"native", "redemptions", "regions"}
    /\ Init /\ Objects!Init
    /\ part # "native" => cfg.single_use /\ cfg.redis /\ \A c, d \in Client : key[c] = key[d]
    /\ cfg.allow_volatile => cfg.single_use /\ ~cfg.redis
    /\ part # "redemptions" => schema["redeem"] = {}

(* Bounds: what a behaviour of the Durable Objects is about.  With redemptions, no shard comes
   to life; with regions, one client acts, early, and leases nothing. *)
Bounds ==
    \/ part = "redemptions" /\ minted \subseteq {"redeem"}
    \/ part = "regions" /\ asked = {} /\ doNow < 2
       /\ \A c, d \in Client : doAnswer[c] # "none" /\ doAnswer[d] # "none" => c = d

PartsNext ==
    \/ part = "native" /\ Next /\ UNCHANGED <<part, doVars>>
    \/ Objects!Next /\ UNCHANGED <<part, vars>> /\ Bounds'

PartsSpec == PartsInit /\ [][PartsNext]_allVars

Symmetry == Permutations(Client) \cup Permutations(Key) \cup Permutations(Nonce)

-----------------------------------------------------------------------------
(* The Durable Objects are the port whose restarts forget no redemption, with redemptions of
   an earlier deploy, lost calls and a half-made schema, and over two regions with forged
   nonces. *)
ObjectsImplementPort ==
    /\ Objects!Port!Init
    /\ [][part # "native" => UNCHANGED Objects!Port!vars \/ Objects!Port!Next]_allVars

(* No nonce a client makes up brings an instance to life that the gateway does not use, or
   reaches the redemptions (`shard_of_nonce`); a nonce is stored where its own tag leads, so a
   take finds it from any region; and the native store keeps its bookkeeping. *)
StoresAreRouted == IF part = "native" THEN StoreInv ELSE Objects!StoresAreRouted
=============================================================================
