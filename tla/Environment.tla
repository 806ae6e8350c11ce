----------------------------- MODULE Environment -----------------------------
(***************************************************************************)
(* The variables a gateway is configured with (core/src/config.rs and the  *)
(* two platforms' config.rs).  A variable's text stands for the features   *)
(* its parser looks at.                                                    *)
(***************************************************************************)
Unset == [is |-> "unset"]
Opaque == [is |-> "opaque"]          \* no text: not UTF-8, or a binding that is not a string
Junk == [is |-> "junk"]              \* text no parser accepts: a typo
Num(n) == [is |-> "number", n |-> n] \* a plain decimal
Text(s) == [is |-> "text", s |-> s]
List(s) == [is |-> "list", items |-> s]

(* Bounds of the integer variables: default, least, greatest. *)
CoreInts ==
    [UPSTREAM_TIMEOUT_SECS |-> <<600, 1, 3600>>, BODY_READ_TIMEOUT_SECS |-> <<30, 1, 3600>>,
     REDEMPTION_LEASE_TTL_SECS |-> <<900, 30, 86400>>,
     REDEMPTION_RETENTION_SECS |-> <<2592000, 3600, 31536000>>,
     CONSUME_MAX_AGE_SECS |-> <<432000, 60, 31536000>>, CHALLENGE_TTL_SECS |-> <<300, 10, 3600>>,
     RATE_LIMIT_PER_MIN |-> <<30, 0, 1000000>>, CHALLENGE_RATE_LIMIT_PER_MIN |-> <<30, 0, 1000000>>,
     GATED_PREAUTH_RATE_LIMIT_PER_MIN |-> <<120, 0, 1000000>>,
     MAX_BODY_BYTES |-> <<262144, 1, 1073741824>>, NONCE_MAX_ENTRIES |-> <<1000000, 1, 100000000>>,
     OWNERSHIP_CACHE_TTL_MS |-> <<0, 0, 3600000>>, RPC_TIMEOUT_SECS |-> <<15, 1, 120>>,
     MAX_RESPONSE_BYTES |-> <<16777216, 1, 1073741824>>]

NativeInts ==
    [NONCE_PRUNE_INTERVAL_SECS |-> <<60, 1, 86400>>, HEADER_READ_TIMEOUT_SECS |-> <<10, 1, 300>>,
     MAX_CONNECTIONS |-> <<1024, 1, 1000000>>, SHUTDOWN_GRACE_SECS |-> <<30, 1, 3600>>,
     MAX_CONCURRENT_REQUESTS |-> <<64, 1, 100000>>, TRUSTED_PROXY_HOPS |-> <<0, 0, 16>>]

WorkerInts ==
    [PUBLIC_RATE_LIMIT_PER_MIN |-> <<120, 0, 1000000>>, PUBLIC_CACHE_TTL_SECS |-> <<60, 0, 86400>>]

(* Every variable there is. *)
Keys ==
    DOMAIN CoreInts \cup DOMAIN NativeInts \cup DOMAIN WorkerInts
    \cup {"GATEWAY_ORIGIN", "NETWORK", "UPSTREAM_URL", "SUI_RPC_URL", "NFT_TYPE", "GATE_ID", "SINGLE_USE",
          "ALLOW_INSECURE_HTTP", "PUBLIC_PATHS", "ALLOWED_ORIGINS", "UPSTREAM_AUTH_HEADERS", "SUI_RPC_AUTH_HEADER",
          "BIND_ADDR", "REDIS_URL", "ALLOW_VOLATILE_REDEMPTIONS",
          "NONCE_BACKEND", "NONCE_SHARD", "QUOTA_GUARD_ENABLED", "WORKERS_PLAN"}

IsEnvironment(e) == e = [key \in DOMAIN e |-> e[key]] /\ DOMAIN e \subseteq Keys

(* `Env::get`: a variable's text; one that holds none counts as unset. *)
Value(e, key) == IF key \in DOMAIN e /\ e[key] # Opaque THEN e[key] ELSE Unset
=============================================================================
