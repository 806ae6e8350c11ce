---------------------------- MODULE ClientAddress ----------------------------
(***************************************************************************)
(* The key of the pre-auth rate limit (core/src/net.rs, `request_head` of  *)
(* gateway-rust/src/main.rs, `client_ip` of worker/src/lib.rs).  Clients   *)
(* write what they like into X-Forwarded-For; every proxy on the way adds  *)
(* the address it saw; the gateway trusts as many entries as it has        *)
(* proxies, or on Cloudflare the header the edge sets.  A field of that    *)
(* header with a byte that is not visible ASCII does not reach the count,  *)
(* whoever wrote the rest of it.                                           *)
(***************************************************************************)
EXTENDS Naturals, Sequences, FiniteSets

CONSTANTS
    Client,      \* addresses: family, subscriber, host
    Forged,      \* what a client may send as X-Forwarded-For: sequences of fields, each
                 \* a sequence of entries
    Hops,        \* numbers of proxies, with TRUSTED_PROXY_HOPS set to match
    MaxCharged   \* bound: requests

VARIABLES
    platform,   \* "native" or "worker"
    hops,
    dualStack,  \* BIND_ADDR is an IPv6 wildcard, which takes IPv4 connections too
    request,    \* the request on its way, or none
    charged     \* the requests charged: client and key, and whether the gateway could read
                \* what its proxies wrote

site == <<platform, hops, dualStack>>
vars == <<site, request, charged>>

(* Addresses as text.  An IPv6 text has a prefix of 64 bits and the rest. *)
Text(c) == [is |-> c.family, prefix |-> c.subscriber, rest |-> c.host]
Proxy(n) == [is |-> "v4", prefix |-> <<"p1", "p2">>[n], rest |-> "proxy"]
Opaque == [is |-> "opaque", prefix |-> "", rest |-> ""]
Unknown == [is |-> "other", prefix |-> "unknown", rest |-> ""]
Empty == [is |-> "empty", prefix |-> "", rest |-> ""]

(* What an entry may be: what a client writes, a client's address or a proxy's. *)
Said ==
    [is : {"v4", "v6", "other", "opaque", "empty"}, prefix : STRING, rest : STRING]
    \cup {Text(c) : c \in Client} \cup {Proxy(n) : n \in 1 .. 2}

(* What the constants must be; every instance assumes it.  An IPv4 subscriber is one host. *)
AddressConstants ==
    /\ Client \subseteq [family : {"v4", "v6"}, subscriber : STRING, host : STRING]
    /\ \A c, d \in Client : c.subscriber = d.subscriber => c.family = d.family /\ (c.family = "v4" => c = d)
    /\ Forged \subseteq Seq(Seq(Said))
    /\ Hops \subseteq 0 .. 2 /\ MaxCharged \in Nat

(* An IPv4 peer of a dual-stack socket is ::ffff:a.b.c.d. *)
PeerText(t) ==
    IF dualStack /\ t.is = "v4" THEN [is |-> "v6", prefix |-> "0:0:0:0", rest |-> t.prefix] ELSE t

NoRequest == [client |-> Empty, fields |-> << >>, passed |-> 0]

TypeOK ==
    /\ platform \in {"native", "worker"} /\ hops \in Hops /\ dualStack \in BOOLEAN
    /\ request # NoRequest => request \in [client : Client, fields : Seq(Seq(Said)), passed : 0 .. hops]

Init ==
    /\ platform \in {"native", "worker"} /\ hops \in Hops /\ dualStack \in BOOLEAN
    /\ request = NoRequest /\ charged = {}

-----------------------------------------------------------------------------
(* `rate_key`: an IPv6 address by its /64, anything else as it is. *)
RateKey(t) == IF t.is = "v6" THEN [t EXCEPT !.rest = "/64"] ELSE t

(* Where something is listed: the fields are one list, in which empty entries do not count. *)
Listed(fields) ==
    {p \in UNION {{i} \X DOMAIN fields[i] : i \in DOMAIN fields} : fields[p[1]][p[2]] # Empty}

(* `to_str().ok()`: a field is read as a whole, or not at all. *)
Readable(field) == \A j \in DOMAIN field : field[j].is # "opaque"

(* The entries the gateway counts: those of the fields it can read. *)
Entries(fields) == {p \in Listed(fields) : Readable(fields[p[1]])}

NoLater(p, q) == p[1] < q[1] \/ (p[1] = q[1] /\ p[2] <= q[2])

(* The place of an entry, counted from the last one. *)
FromEnd(p, entries) == Cardinality({q \in entries : NoLater(p, q)})

At(n, fields) ==
    LET p == CHOOSE p \in Entries(fields) : FromEnd(p, Entries(fields)) = n
    IN  fields[p[1]][p[2]]

(* Mutant of ClientIpRaw: the first entry is the client. *)
ClientIpLeftmost(fields, peer) ==
    IF Entries(fields) = {} THEN peer ELSE At(Cardinality(Entries(fields)), fields)

(* Mutant of ClientIpRaw: the peer, whoever it is. *)
ClientIpPeer(fields, peer) == peer

(* `client_ip_raw`: the entry of the outermost trusted proxy, else the peer. *)
ClientIpRaw(fields, peer) ==
    IF hops = 0 \/ Cardinality(Entries(fields)) < hops THEN peer ELSE At(hops, fields)

(* `request_head`: the TCP peer is the last proxy, or the client. *)
NativeKey(r) ==
    RateKey(ClientIpRaw(r.fields, PeerText(IF r.passed = 0 THEN Text(r.client) ELSE Proxy(r.passed))))

(* Every field a proxy wrote into can be read. *)
Legible(r) ==
    \A p \in Listed(r.fields) : FromEnd(p, Listed(r.fields)) <= r.passed => Readable(r.fields[p[1]])

(* The Worker's `client_ip`: CF-Connecting-IP, or one key for all without it. *)
WorkerKey(r, observed) == IF observed THEN RateKey(Text(r.client)) ELSE Unknown

-----------------------------------------------------------------------------
Send(c) ==
    /\ request = NoRequest /\ Cardinality(charged) < MaxCharged
    /\ \E f \in Forged : request' = [client |-> c, fields |-> f, passed |-> 0]
    /\ UNCHANGED <<site, charged>>

(* A proxy adds the address it saw, to the last field or as a field of its own. *)
Forward ==
    /\ request # NoRequest /\ request.passed < hops
    /\ LET seen == IF request.passed = 0 THEN Text(request.client) ELSE Proxy(request.passed)
           f == request.fields
       IN  \/ request' = [request EXCEPT !.fields = Append(f, <<seen>>), !.passed = @ + 1]
           \/ /\ f # << >>
              /\ request' = [request EXCEPT !.fields = [f EXCEPT ![Len(f)] = Append(@, seen)], !.passed = @ + 1]
    /\ UNCHANGED <<site, charged>>

Charge ==
    /\ request # NoRequest
    /\ \/ /\ platform = "native" /\ request.passed = hops
          /\ charged' = charged \cup
                {[client |-> request.client, key |-> NativeKey(request), legible |-> Legible(request)]}
       \/ /\ platform = "worker"
          /\ \E observed \in BOOLEAN :
                charged' = charged \cup
                   {[client |-> request.client, key |-> WorkerKey(request, observed), legible |-> TRUE]}
    /\ request' = NoRequest
    /\ UNCHANGED site

Next == (\E c \in Client : Send(c)) \/ Forward \/ Charge

Spec == Init /\ [][Next]_vars

-----------------------------------------------------------------------------
Known == {a \in charged : a.legible /\ a.key # Unknown}

(* A subscriber has one budget: no header and no change of host within its prefix gives
   it another (IPv4 clients are single hosts), as long as the fields its proxies wrote into
   can be read.  A client can see to it that a proxy which appends to its field writes into
   one that cannot (`request_head`), and is then charged to another key. *)
OneBudget == \A a, b \in Known : a.client.subscriber = b.client.subscriber => a.key = b.key

(* `IPv4 ... used as is`, IPv6 `by their /64`: with legible fields nobody uses up another
   subscriber's budget, unless a dual-stack socket shows IPv4 peers as addresses of one
   IPv6 prefix. *)
OwnBudget ==
    ~dualStack => \A a, b \in Known : a.key = b.key => a.client.subscriber = b.client.subscriber

(***************************************************************************)
(* The inductive invariant behind both: whatever stands before it, the     *)
(* entry that the first proxy added is as far from the end as proxies were *)
(* passed, and it is the client's address; so the key is the client's own  *)
(* if all of these entries count.                                          *)
(***************************************************************************)
ClientIsListed ==
    request # NoRequest /\ request.passed > 0 =>
        \E p \in Listed(request.fields) :
            /\ FromEnd(p, Listed(request.fields)) = request.passed
            /\ request.fields[p[1]][p[2]] = Text(request.client)

(* A client's key: its address as the gateway sees it. *)
KeyOf(c) == RateKey(IF platform = "native" /\ hops = 0 THEN PeerText(Text(c)) ELSE Text(c))

ChargedByClient ==
    \A a \in charged : a.client \in Client /\ (a.legible => a.key \in {Unknown, KeyOf(a.client)})

AddressInv == TypeOK /\ ClientIsListed /\ ChargedByClient
=============================================================================
