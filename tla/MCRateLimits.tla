----------------------------- MODULE MCRateLimits -----------------------------
(***************************************************************************)
(* The rate tables in one run: the native ones ("native"), which may hold  *)
(* fewer keys than there are, and the Worker's, per region or in one shard *)
(* ("worker").  They share nothing; `part` says which one a behaviour is   *)
(* about, and the other stays in an initial state.                         *)
(***************************************************************************)
EXTENDS RateLimiter, TLC

CONSTANTS Shards, ShardBudget

VARIABLES part, global, shardNow, rate, shardAdmitted

shardVars == <<global, shardNow, rate, shardAdmitted>>
allVars == <<part, vars, shardVars>>

Shard == INSTANCE WorkerRates WITH Budget <- ShardBudget, now <- shardNow, admitted <- shardAdmitted

ASSUME ShardConstants == Shard!WorkerRateConstants

PartsInit ==
    /\ part \in {"native", "worker"}
    /\ Init /\ Shard!Init
    /\ part = "native" => ~global

(* Bounds: where there are keys enough to exceed the cap, a key is admitted less often; and the
   Worker's requests fill at most two rows. *)
Bounds ==
    /\ \A t \in Tables : ~Fits(t) => \A k \in Key : Len(admitted[t][k]) <= 3
    /\ Cardinality({p \in Shards \X Key : shardAdmitted[p[1]][p[2]] # << >>}) <= 2

PartsNext ==
    \/ part = "native" /\ Next /\ UNCHANGED <<part, shardVars>> /\ Bounds'
    \/ part = "worker" /\ Shard!Next /\ UNCHANGED <<part, vars>> /\ Bounds'

PartsSpec == PartsInit /\ [][PartsNext]_allVars

Symmetry == Permutations(Key)

-----------------------------------------------------------------------------
(* A key gets at most two budgets in any span of one window through one shard of the Durable
   Objects, in global mode from all regions together, whatever their random sweep deletes, and
   a shard refuses only a key that used up its budget there. *)
ShardBudgets == Shard!TypeOK /\ Shard!RegionalBudget /\ Shard!RefusalEarnedHere
=============================================================================
