-------------------------------- MODULE MCEdge --------------------------------
(***************************************************************************)
(* The edge of the gateway in one run: the Worker's entry point and cache  *)
(* ("cache"), the header policy ("headers"), the client's address, with an *)
(* ordinary and with a dual-stack socket ("address"), the configuration    *)
(* that all of them follow ("config"), and the quota guard ("quota").      *)
(* They share nothing; `part` says which one a behaviour is about, and the *)
(* others stay in an initial state.                                        *)
(***************************************************************************)
EXTENDS WorkerEdge, TLC, Sequences

CONSTANTS
    Credential, HopByHop, Private, Plain, Auth, Entry, Origin, MaxHops,
    Client, Forged, Proxies, MaxCharged,
    Platforms, Bases, Edits, RequestPaths, Stamps, Skew, LeaseGap, Steps, MaxEdits, MaxConfigTime,
    GuardSettings, Starts, DayLength, Allowance

VARIABLES part,
    at, fields, named, via, origin, grant, crossed, hops,
    platform, proxies, dualStack, request, charged,
    plat, settings, edits, running, former, stamp, spender, memory, clock,
    setting, start, now, date, window, rows, query, log

headerVars == <<at, fields, named, via, origin, grant, crossed, hops>>
addressVars == <<<<platform, proxies, dualStack>>, request, charged>>
configVars == <<plat, settings, edits, running, former, stamp, spender, memory, clock>>
quotaVars == <<setting, start, now, date, window, rows, query, log>>
allVars == <<part, vars, headerVars, addressVars, configVars, quotaVars>>

Get(path, asked, from) ==
    [method |-> "GET", path |-> path, query |-> asked, looped |-> FALSE, origin |-> from]

(* GETs of the public path by two origins, one of them allowed, with and without a query;
   a gated request, a preflight and a loop. *)
MCShape ==
    {Get("/pub", "", "https://a"), Get("/pub", "?x", "https://b"), Get("/up", "?x", "https://a"),
     [Get("/pub", "", "") EXCEPT !.looped = TRUE],
     [Get("/up", "", "https://a") EXCEPT !.method = "OPTIONS"]}

(* Via entries: a CDN's, this gateway's in another case, its name in a comment and as the
   protocol, an entry without a name, and the gateway's former name. *)
MCEntry ==
    {<<"1.1", "cdn">>, <<"1.1", "NFT-Gate">>, <<"1.1", "cdn", "(nft-gate)">>,
     <<"nft-gate", "cdn">>, <<"1.1">>, <<"1.1", "access-gate-gateway">>}

Headers == INSTANCE HeaderPolicy

Address(family, subscriber, host) == [family |-> family, subscriber |-> subscriber, host |-> host]

(* Two IPv4 clients, two hosts of one IPv6 subscriber and one of another. *)
MCClient ==
    {Address("v4", "a", "h1"), Address("v4", "b", "h1"),
     Address("v6", "c", "h1"), Address("v6", "c", "h2"), Address("v6", "d", "h1")}

Spoofed == [is |-> "v4", prefix |-> "a", rest |-> "h1"]
Empty == [is |-> "empty", prefix |-> "", rest |-> ""]
Opaque == [is |-> "opaque", prefix |-> "", rest |-> ""]

(* Nothing; one or two entries that name somebody else; empty entries; another field; and
   one that is not text. *)
MCForged ==
    {<< >>, <<<<Spoofed>>>>, <<<<Spoofed, Spoofed>>>>, <<<<Spoofed, Empty>>>>, <<<<Spoofed>>, <<Empty>>>>,
     <<<<Opaque>>>>, <<<<Spoofed>>, <<Opaque>>>>}

Net == INSTANCE ClientAddress WITH Hops <- Proxies, hops <- proxies

Var == INSTANCE Environment

Cfg == INSTANCE Config WITH env <- settings, time <- clock, MaxTime <- MaxConfigTime

Url(scheme, host, port) ==
    [is |-> "url", scheme |-> scheme, userinfo |-> FALSE, host |-> host, port |-> port, path |-> ""]

Path(s) == [is |-> "path", segs |-> s]

Gw == Url("https", "gw.example", "")
Relay == Url("https", "relay.example", "")

MCBase ==
    ("GATEWAY_ORIGIN" :> Gw) @@ ("NETWORK" :> Var!Text("testnet"))
    @@ ("UPSTREAM_URL" :> Relay) @@ ("SUI_RPC_URL" :> Url("https", "rpc.example", "8443"))
    @@ ("NFT_TYPE" :> Var!Text("0x2::access_gate::AccessNFT")) @@ ("GATE_ID" :> Var!Text("0x2"))
    @@ ("SINGLE_USE" :> Var!Text("true")) @@ ("REDIS_URL" :> Var!Text("redis"))

(* Nothing is set, or enough to serve. *)
MCBases == {<< >>, MCBase}

(* Every variable but REDIS_URL; of the integers, one of each table. *)
Typos ==
    (Var!Keys \ ({"REDIS_URL"} \cup DOMAIN Var!CoreInts \cup DOMAIN Var!NativeInts \cup DOMAIN Var!WorkerInts))
    \cup {"MAX_BODY_BYTES", "TRUSTED_PROXY_HOPS", "PUBLIC_CACHE_TTL_SECS"}

(* Other spellings of the gateway's own address, plain http, a loopback gateway, odd
   public paths, credentials in a URL, numbers at and past their limits, typos, and values
   that are no text. *)
MCEdits ==
    {<<"UPSTREAM_URL", u>> : u \in
        {Gw, Url("https", "GW.example", "443"),
         Url("HTTPS", "gw.example", ""), Url("http", "gw.example", "443"),
         Url("https", "gw.example", ":"), Url("https", "gw.example", "0443"),
         Url("http", "relay.example", ""), [Relay EXCEPT !.userinfo = TRUE], Url("https", "", "")}}
    \cup {<<"GATEWAY_ORIGIN", u>> : u \in
        {Url("http", "localhost", "443"), Url("https", "gw.example", "443"), Url("https", "GW.example", "")}}
    \cup {<<"SUI_RPC_URL", Url("http", "rpc.example", "")>>, <<"GATE_ID", Var!Text("")>>,
          <<"ALLOW_INSECURE_HTTP", Var!Text("1")>>, <<"REDIS_URL", Var!Text("")>>,
          <<"ALLOW_VOLATILE_REDEMPTIONS", Var!Text("true")>>, <<"SINGLE_USE", Var!Text("false")>>,
          <<"ALLOWED_ORIGINS", Var!List(<<Var!Text(""), Url("http", "localhost", "")>>)>>,
          <<"UPSTREAM_AUTH_HEADERS", Var!List(<<Var!Text("Name: value"), Var!Junk>>)>>}
    \cup {<<"PUBLIC_PATHS", Var!List(<<Path(<<"a">>), Path(<<"b", s>>)>>)>> : s \in {".", "..", "%2e", "c", ""}}
    \cup {<<"REDEMPTION_RETENTION_SECS", Var!Num(n)>> : n \in {3599, 3600, 3661, 31536000, 31536001}}
    \cup {<<"CONSUME_MAX_AGE_SECS", Var!Num(n)>> : n \in {3600, 7200}}
    \cup {<<"REDEMPTION_LEASE_TTL_SECS", Var!Num(n)>> : n \in {630, 631}}
    \cup {<<k, Var!Junk>> : k \in Typos}
    \cup {<<k, Var!Opaque>> : k \in {"NETWORK", "UPSTREAM_URL", "SINGLE_USE", "REDIS_URL", "MAX_BODY_BYTES"}}

MCRequestPaths == {<<"a">>, <<"b", "c">>, <<"b", ".">>, <<"b", "..">>, <<"b", "%2e">>, <<"b", "">>}

Guard == INSTANCE Quota WITH Setting <- GuardSettings

(* The guard is off, or lacks its credentials or a plan, or warns for either plan. *)
MCGuardSettings ==
    {[enabled |-> TRUE, plan |-> plan, credentials |-> TRUE] : plan \in {"unset", "paid", "Paid"}}
    \cup {[enabled |-> enabled, plan |-> "paid", credentials |-> ~enabled] : enabled \in BOOLEAN}

(* From a leap day to the next month, with traffic; and without over the first years of the
   calendar, over 2000, a leap year, and over 2100, which is none. *)
MCStarts ==
    {[day |-> 21243, date |-> <<2028, 2, 29>>, last |-> 21244, rows |-> 3],
     [day |-> 0, date |-> <<1970, 1, 1>>, last |-> 1155, rows |-> 0],
     [day |-> 10956, date |-> <<1999, 12, 31>>, last |-> 11382, rows |-> 0],
     [day |-> 47481, date |-> <<2099, 12, 31>>, last |-> 47906, rows |-> 0]}

MCAllowance ==
    [free |-> [worker_requests |-> 2, worker_cpu_ms |-> 0, do_requests |-> 2, do_gb_seconds |-> 1],
     paid |-> [worker_requests |-> 3, worker_cpu_ms |-> 2, do_requests |-> 2, do_gb_seconds |-> 2]]

ASSUME OtherEdgeConstants ==
    Headers!HeaderConstants /\ Net!AddressConstants /\ Cfg!ConfigConstants /\ Guard!QuotaConstants

PartsInit ==
    /\ part \in {"cache", "headers", "address", "config", "quota"}
    /\ Cfg!Init /\ (part # "config" => plat = "native" /\ settings = << >> /\ stamp = Skew)
    /\ Guard!Init /\ (setting.enabled => part = "quota" /\ start.rows > 0) /\ (part # "quota" => start.day = 0)
    /\ Init /\ (part # "cache" => env = "good" /\ ttl = 1)
    /\ Net!Init /\ (part # "address" => platform = "native" /\ proxies = 0 /\ ~dualStack)
    /\ Headers!Init /\ (part # "headers" => Headers!Present = {} /\ via = << >> /\ origin = "")

PartsNext ==
    \/ part = "cache" /\ Next /\ UNCHANGED <<part, headerVars, addressVars, configVars, quotaVars>>
    \/ part = "headers" /\ Headers!Next /\ UNCHANGED <<part, vars, addressVars, configVars, quotaVars>>
    \/ part = "address" /\ Net!Next /\ UNCHANGED <<part, vars, headerVars, configVars, quotaVars>>
    \/ part = "config" /\ Cfg!Next /\ UNCHANGED <<part, vars, headerVars, addressVars, quotaVars>>
    \/ part = "quota" /\ Guard!Next /\ UNCHANGED <<part, vars, headerVars, addressVars, configVars>>

PartsSpec == PartsInit /\ [][PartsNext]_allVars

Symmetry == Permutations(Request)

-----------------------------------------------------------------------------
(* Whatever the client sends and lists in Connection, the upstream sees the gateway's
   credentials, none of the client's and no hop-by-hop field; a request is forwarded at most
   once, wherever the upstream's name leads; and the client learns nothing the upstream meant
   for the connection or for itself, nor gets a grant for an origin that is not allowed. *)
HeadersStayClean == [](part = "headers" => Headers!HeaderInv) /\ Headers!ListedFieldsStay

(* While the gateway can read the fields its proxies write into, a subscriber has one budget: no
   other entry and no change of host within its prefix gives it another (`client_ip_raw`,
   `rate_key`).  And nobody uses up another's, unless a dual-stack socket shows the gateway IPv4
   peers as addresses of one IPv6 prefix. *)
OneBudgetEach == part = "address" => Net!AddressInv /\ Net!OneBudget /\ Net!OwnBudget

(* A gateway that serves is not weaker than its environment says: its upstream is not itself
   in another case or with the default port spelled out, public requests reach the path they
   were let through for, http needs ALLOW_INSECURE_HTTP, and text that cannot be read keeps it
   from serving (`from_env`). *)
ServesAsConfigured ==
    part = "config" =>
        /\ Cfg!ConfigInv /\ Cfg!UpstreamIsElsewhere /\ Cfg!PublicStaysPublic
        /\ Cfg!SecureByDefault /\ Cfg!NoSilentFallback

(* A configuration redeems a consume again only if it accepts consumes for about as long as it
   remembers them, to within the clock skew and the time from the age check to the lease:
   `from_env` lets the two windows be equal (CONSUME_MAX_AGE_SECS, REDEMPTION_RETENTION_SECS). *)
SpentOnce == Cfg!SpentOnce

(* `civil_from_days` and `days_from_civil` agree with the calendar, and `window_start_ms` with
   the day the plan's window began; a full answer leads to a warning exactly if the usage of
   the window asked about has reached the threshold of some meter of the plan, also if midnight
   passed meanwhile; and the guard asks only with credentials and a plan it can read. *)
WarnsWhenDue == part = "quota" => Guard!QuotaInv
=============================================================================
