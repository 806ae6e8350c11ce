-------------------------------- MODULE Config --------------------------------
(***************************************************************************)
(* Starting the gateway from an environment: `GatewayConfig::from_env`     *)
(* (core/src/config.rs, core/src/origin.rs), the native server's and the   *)
(* Worker's additions, and what an accepted configuration promises to the  *)
(* requests that follow: public paths, the upstream's address, and how     *)
(* long a spent consume is remembered.  Operators edit the environment and *)
(* restart; a shared redemption store survives, and instances of the       *)
(* former configuration may still finish what they began.                  *)
(***************************************************************************)
EXTENDS Environment, Integers, Sequences

CONSTANTS
    Platforms,    \* subset of {"native", "worker"}
    Bases,        \* environments of a first start: of the variables that are set
    Edits,        \* what an operator may change: pairs <<variable, value>>
    RequestPaths, \* paths clients ask for, as sequences of segments
    Stamps,       \* when the one consume may have happened, by the chain's clock
    Skew,         \* CLOCK_SKEW_MS (in seconds): how far ahead a timestamp may be
    LeaseGap,     \* longest time from the age check of a consume to its lease
    Steps,        \* time steps
    MaxEdits,     \* bound: edits
    MaxTime       \* bound: time (seconds)

VARIABLES
    plat,     \* the platform
    env,      \* the environment
    edits,    \* edits made
    running,  \* the configuration in force; Stopped when there is none
    former,   \* the one before it, whose last requests may be in flight; or Stopped
    stamp,    \* the consume's timestamp
    spender,  \* the configuration it was last redeemed under; Stopped: none, or forgotten in a restart
    memory,   \* when the store forgets it
    time

vars == <<plat, env, edits, running, former, stamp, spender, memory, time>>

(* What the constants must be; every instance assumes it. *)
ConfigConstants ==
    /\ Platforms \subseteq {"native", "worker"}
    /\ \A b \in Bases : IsEnvironment(b)
    /\ \A x \in Edits : x[1] \in Keys
    /\ Stamps \cup Steps \cup {Skew, LeaseGap, MaxEdits, MaxTime} \subseteq Nat

-----------------------------------------------------------------------------
(* Mutant of Integer: what cannot be read is ignored. *)
IntegerLenient(e, key, spec) ==
    IF Value(e, key).is = "number" /\ Value(e, key).n \in spec[2] .. spec[3] THEN Value(e, key).n ELSE spec[1]

(* The value of an integer variable, or -1. *)
Integer(e, key, spec) ==
    CASE Value(e, key) = Unset -> spec[1]
      [] Value(e, key).is = "number" /\ Value(e, key).n \in spec[2] .. spec[3] -> Value(e, key).n
      [] OTHER -> -1

Ints(e, specs) == \A key \in DOMAIN specs : Integer(e, key, specs[key]) >= 0

Boolean(e, key) == Value(e, key) \in {Unset, Text("true"), Text("false")}

Required(e, key) == Value(e, key) \notin {Unset, Text("")}

-----------------------------------------------------------------------------
(* A URL: [is |-> "url", scheme, userinfo, host, port, path]; a port "" is none, ":" a colon
   with nothing after it, and "0443" one with a leading zero. *)

Lower(s) == CASE s = "HTTPS" -> "https" [] s = "GW.example" -> "gw.example" [] OTHER -> s

DefaultPort(scheme) == CASE scheme = "https" -> "443" [] scheme = "http" -> "80" [] OTHER -> "none"

(* A port that is written as usual, or left out. *)
PlainPort(port) == port \notin {":", "0443"}

Loopback == {"localhost", "127.0.0.1"}

(* `is_canonical_origin`: a lower-case host, no userinfo and no path, a port that is plain and
   not the one the scheme implies, and http for loopback hosts only. *)
IsCanonicalOrigin(u) ==
    /\ u.is = "url"
    /\ u.scheme \in {"https", "http"} /\ u.path = "" /\ ~u.userinfo
    /\ u.host # "" /\ Lower(u.host) = u.host
    /\ PlainPort(u.port) /\ u.port # DefaultPort(u.scheme)
    /\ u.scheme = "http" => u.host \in Loopback

(* Mutant of NormalizedOrigin: a spelled-out default port is kept. *)
NormalizedOriginPort(u) == [scheme |-> Lower(u.scheme), host |-> Lower(u.host), port |-> u.port]

NormalizedOrigin(u) ==
    [scheme |-> Lower(u.scheme), host |-> Lower(u.host),
     port |-> IF u.port = DefaultPort(Lower(u.scheme)) THEN "" ELSE u.port]

(* Mutant of CheckScheme: http is a scheme like any other. *)
CheckSchemeAny(u, http) == u.is = "url" /\ u.scheme \in {"https", "http"} /\ ~u.userinfo /\ u.host # ""

CheckScheme(u, http) ==
    /\ u.is = "url"
    /\ u.scheme = "https" \/ (http /\ u.scheme = "http")
    /\ ~u.userinfo /\ u.host # ""

-----------------------------------------------------------------------------
AllowInsecureHttp(e) == Value(e, "ALLOW_INSECURE_HTTP") = Text("1")

InsecureHttpReadable(e) == Value(e, "ALLOW_INSECURE_HTTP") \in {Unset, Text(""), Text("0"), Text("1")}

(* Lists: blank entries are skipped, every other one must be right. *)
Entries(v) == IF v.is = "list" THEN {v.items[i] : i \in DOMAIN v.items} \ {Text("")} ELSE {}

AllowedOriginsOK(e) ==
    /\ Value(e, "ALLOWED_ORIGINS") = Unset \/ Value(e, "ALLOWED_ORIGINS").is = "list"
    /\ \A o \in Entries(Value(e, "ALLOWED_ORIGINS")) :
          IsCanonicalOrigin(o) /\ (AllowInsecureHttp(e) \/ o.scheme = "https")

(* Mutant of PublicPathsOK: only dot-dot segments are looked for. *)
PublicPathsDots(e) ==
    /\ Value(e, "PUBLIC_PATHS") = Unset \/ Value(e, "PUBLIC_PATHS").is = "list"
    /\ \A p \in Entries(Value(e, "PUBLIC_PATHS")) :
          p.is = "path" /\ \A i \in DOMAIN p.segs : p.segs[i] \notin {"..", "%2e", "\\"}

(* Plain absolute paths: unreserved characters only, no dot segments. *)
PublicPathsOK(e) ==
    /\ Value(e, "PUBLIC_PATHS") = Unset \/ Value(e, "PUBLIC_PATHS").is = "list"
    /\ \A p \in Entries(Value(e, "PUBLIC_PATHS")) :
          p.is = "path" /\ \A i \in DOMAIN p.segs : p.segs[i] \notin {".", "..", "%2e", "\\"}

ConfiguredPaths(e) ==
    IF Value(e, "PUBLIC_PATHS") = Unset THEN {<<"v1", "tip-config">>}
    ELSE {p.segs : p \in Entries(Value(e, "PUBLIC_PATHS"))}

(* `is_safe_path`: what the forwarder refuses, whoever asks. *)
IsSafePath(p) == \A i \in DOMAIN p : p[i] \notin {"..", "%2e%2e", "\\", "%2f"} /\ (p[i] = "" => i = Len(p))

(* Credentials: a list of headers with a proper name and a value on one line. *)
UpstreamAuthOK(e) ==
    LET v == Value(e, "UPSTREAM_AUTH_HEADERS")
    IN  v \in {Unset, Text("")} \/ (v.is = "list" /\ \A h \in Entries(v) : h = Text("Name: value"))

RpcAuthOK(e) == Value(e, "SUI_RPC_AUTH_HEADER") \in {Unset, Text(""), Text("Name: value")}

-----------------------------------------------------------------------------
OriginOK(e) ==
    /\ Required(e, "GATEWAY_ORIGIN") /\ IsCanonicalOrigin(Value(e, "GATEWAY_ORIGIN"))
    /\ AllowInsecureHttp(e) \/ Value(e, "GATEWAY_ORIGIN").scheme = "https"

NetworkOK(e) == Value(e, "NETWORK") \in {Text(n) : n \in {"localnet", "devnet", "testnet", "mainnet"}}

UpstreamOK(e) ==
    /\ \A key \in {"UPSTREAM_URL", "SUI_RPC_URL"} :
          Required(e, key) /\ CheckScheme(Value(e, key), AllowInsecureHttp(e))
    /\ NormalizedOrigin(Value(e, "UPSTREAM_URL")) # NormalizedOrigin(Value(e, "GATEWAY_ORIGIN"))

IsObjectId(v) == v = Text("0x2")

(* <pkg>::access_gate::AccessNFT or SoulboundAccessNFT. *)
IsAccessGatePassType(v) ==
    v \in {Text("0x2::access_gate::AccessNFT"), Text("0x2::access_gate::SoulboundAccessNFT")}

MaxAge(e) == Integer(e, "CONSUME_MAX_AGE_SECS", CoreInts.CONSUME_MAX_AGE_SECS)

Retention(e) == Integer(e, "REDEMPTION_RETENTION_SECS", CoreInts.REDEMPTION_RETENTION_SECS)

LeaseOutlivesRequest(e) ==
    LET n(key) == Integer(e, key, CoreInts[key])
    IN  n("REDEMPTION_LEASE_TTL_SECS") > n("UPSTREAM_TIMEOUT_SECS") + n("BODY_READ_TIMEOUT_SECS")

(* Mutant of RetentionCoversAge: the two windows are not compared. *)
RetentionUnchecked(e) == TRUE

RetentionCoversAge(e) == MaxAge(e) <= Retention(e)

CoreOK(e) ==
    /\ InsecureHttpReadable(e)
    /\ OriginOK(e) /\ NetworkOK(e) /\ UpstreamOK(e)
    /\ IsAccessGatePassType(Value(e, "NFT_TYPE")) /\ IsObjectId(Value(e, "GATE_ID"))
    /\ Boolean(e, "SINGLE_USE")
    /\ Ints(e, CoreInts) /\ LeaseOutlivesRequest(e) /\ RetentionCoversAge(e)
    /\ UpstreamAuthOK(e) /\ RpcAuthOK(e)
    /\ PublicPathsOK(e) /\ AllowedOriginsOK(e)

SingleUse(e) == Value(e, "SINGLE_USE") = Text("true")

(* Native: BIND_ADDR, and single use needs a store that survives. *)
NativeOK(e) ==
    /\ Value(e, "BIND_ADDR") \in {Unset, Text("0.0.0.0:8080")}
    /\ Boolean(e, "ALLOW_VOLATILE_REDEMPTIONS")
    /\ SingleUse(e) => Value(e, "REDIS_URL") \notin {Unset, Text("")} \/ Value(e, "ALLOW_VOLATILE_REDEMPTIONS") = Text("true")
    /\ Ints(e, NativeInts)

WorkerOK(e) ==
    /\ Value(e, "NONCE_BACKEND") \in {Unset, Text("durable-object")}
    /\ Value(e, "NONCE_SHARD") \in {Unset, Text("region"), Text("global")}
    /\ Boolean(e, "QUOTA_GUARD_ENABLED")
    /\ Value(e, "WORKERS_PLAN") \in {Unset, Text("free"), Text("paid")}
    /\ Ints(e, WorkerInts)

FromEnv(e) == CoreOK(e) /\ IF plat = "native" THEN NativeOK(e) ELSE WorkerOK(e)

-----------------------------------------------------------------------------
Stopped == [NETWORK |-> Unset]

TypeOK ==
    /\ plat \in Platforms
    /\ IsEnvironment(env)
    /\ edits \in 0 .. MaxEdits
    /\ \A c \in {running, former, spender} : c # Stopped => IsEnvironment(c)
    /\ stamp \in Stamps
    /\ memory \in Nat /\ time \in 0 .. MaxTime

Init ==
    /\ plat \in Platforms
    /\ env \in Bases /\ edits = 0
    /\ running = Stopped /\ former = Stopped
    /\ stamp \in Stamps /\ spender = Stopped /\ memory = 0
    /\ time = 0

(* Variables only the other platform reads. *)
Unread ==
    IF plat = "native"
    THEN DOMAIN WorkerInts \cup {"NONCE_BACKEND", "NONCE_SHARD", "QUOTA_GUARD_ENABLED", "WORKERS_PLAN"}
    ELSE DOMAIN NativeInts \cup {"BIND_ADDR", "REDIS_URL", "ALLOW_VOLATILE_REDEMPTIONS"}

Edit ==
    /\ edits < MaxEdits
    /\ \E x \in Edits :
          /\ x[1] \notin Unread
          /\ env' = [key \in DOMAIN env \cup {x[1]} |-> IF key = x[1] THEN x[2] ELSE env[key]]
    /\ edits' = edits + 1
    /\ UNCHANGED <<plat, running, former, stamp, spender, memory, time>>

(* Redemptions are kept in memory. *)
Volatile(e) == plat = "native" /\ Value(e, "REDIS_URL") \in {Unset, Text("")}

(* A restart forgets them, if that was or will be so. *)
Forgets == Volatile(env) \/ (running # Stopped /\ Volatile(running))

(* Mutant of Start: the configuration is not checked. *)
StartUnchecked ==
    /\ running' = env /\ former' = running
    /\ UNCHANGED <<plat, env, edits, stamp, spender, memory, time>>

(* A start, or a restart (a new deployment of the Worker), with the environment of the
   moment; a configuration that is not accepted serves nothing.  A shared store survives, and
   so may the last instances that use it. *)
Start ==
    /\ running' = IF FromEnv(env) THEN env ELSE Stopped
    /\ former' = IF Forgets THEN Stopped ELSE running
    /\ memory' = IF Forgets THEN 0 ELSE memory
    /\ spender' = IF Forgets THEN Stopped ELSE spender
    /\ UNCHANGED <<plat, env, edits, stamp, time>>

(* `event_is_recent`: not in the future beyond clock skew, not too old. *)
EventIsRecent(c, now) == stamp <= now + Skew /\ now <= stamp + MaxAge(c)

(* An instance found the consume recent, a while ago, and not remembered, now; its upload
   succeeds, and it commits for as long as its configuration says. *)
Redeem ==
    /\ \E c \in {running, former} \ {Stopped} :
          /\ SingleUse(c)
          /\ \E ago \in 0 .. LeaseGap : ago <= time /\ EventIsRecent(c, time - ago)
          /\ memory <= time
          /\ memory' = time + Retention(c)
          /\ spender' = c
    /\ UNCHANGED <<plat, env, edits, running, former, stamp, time>>

Tick ==
    /\ \E d \in Steps : time' = time + d
    /\ time' <= MaxTime
    /\ UNCHANGED <<plat, env, edits, running, former, stamp, spender, memory>>

Next == Edit \/ Start \/ Redeem \/ Tick

Spec == Init /\ [][Next]_vars

-----------------------------------------------------------------------------
Serving == running # Stopped

(* Where a request to a URL ends up: the port its digits stand for, or the scheme's. *)
PortMeant(u) ==
    CASE u.port \in {"", ":"} -> DefaultPort(Lower(u.scheme)) [] u.port = "0443" -> "443" [] OTHER -> u.port

SameEndpoint(u, v) ==
    Lower(u.scheme) = Lower(v.scheme) /\ Lower(u.host) = Lower(v.host) /\ PortMeant(u) = PortMeant(v)

(* However the upstream's URL spells the scheme and the host, and whether or not it names the
   port, a gateway that serves does not have its own address as its upstream; unless the URL
   writes the port in a way of its own, which `normalized_origin` takes for another port. *)
UpstreamIsElsewhere ==
    Serving /\ PlainPort(Value(running, "UPSTREAM_URL").port) =>
        ~SameEndpoint(Value(running, "UPSTREAM_URL"), Value(running, "GATEWAY_ORIGIN"))

(* What the upstream keeps of a path: dot segments, escaped or not, lead nowhere. *)
Resolved(p) == {i \in DOMAIN p : p[i] \notin {".", "%2e"}}

(* A request served without a proof reaches exactly the path it was let through for. *)
PublicStaysPublic ==
    Serving => \A p \in RequestPaths :
        p \in ConfiguredPaths(running) /\ IsSafePath(p) => Resolved(p) = DOMAIN p

(* Without ALLOW_INSECURE_HTTP no address in use is http, credentials included. *)
SecureByDefault ==
    Serving /\ ~AllowInsecureHttp(running) =>
        \A u \in {Value(running, "GATEWAY_ORIGIN"), Value(running, "UPSTREAM_URL"), Value(running, "SUI_RPC_URL")}
                   \cup Entries(Value(running, "ALLOWED_ORIGINS")) : u.scheme = "https"

(* "A typo is an error, never a silent fall-back to a weaker mode": text that cannot be read
   keeps the gateway from serving, whichever variable it is in (the store itself takes or
   refuses REDIS_URL), and what is no text keeps it from serving where it needs a value. *)
NoSilentFallback ==
    Serving =>
        /\ \A key \in DOMAIN running \ (Unread \cup {"REDIS_URL"}) : running[key] # Junk
        /\ \A key \in {"GATEWAY_ORIGIN", "NETWORK", "UPSTREAM_URL", "SUI_RPC_URL", "NFT_TYPE", "GATE_ID"} :
              key \in DOMAIN running /\ running[key] # Opaque

(***************************************************************************)
(* The inductive invariant: what serves, or redeemed, was accepted; and    *)
(* the consume is remembered for the retention of its last redeemer, after *)
(* its timestamp, but for the clock skew.                                  *)
(***************************************************************************)
ServesAccepted == \A c \in {running, former, spender} : c # Stopped => FromEnv(c)

SpentIsRemembered == spender # Stopped => stamp + Retention(spender) <= memory + Skew

ConfigInv == TypeOK /\ ServesAccepted /\ SpentIsRemembered

(* A configuration redeems a consume again, however long the gateway runs and whatever it is
   reconfigured to in between, only if its two windows are so close that the clock skew and the
   time from the age check to the lease bridge them. *)
SpentOnce ==
    [][memory' > memory /\ spender' = spender =>
          Retention(spender) - MaxAge(spender) \in 0 .. Skew + LeaseGap]_vars
=============================================================================
