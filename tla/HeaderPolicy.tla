----------------------------- MODULE HeaderPolicy -----------------------------
(***************************************************************************)
(* What happens to a message's header fields on its way through the        *)
(* gateway: the lists and predicates of core/src/headers.rs as both        *)
(* platforms apply them (gateway-rust/src/headers.rs and http_client.rs,   *)
(* worker/src/upstream.rs), the `Via` loop guard and the CORS layer        *)
(* (main.rs, worker/src/out.rs).  A request may meet other proxies, and    *)
(* its way may lead back to the gateway.  Field names stand for the        *)
(* classes the lists distinguish; a `Via` entry is its sequence of words.  *)
(***************************************************************************)
EXTENDS Naturals, Sequences

CONSTANTS
    Credential,   \* REQUEST_STRIP, cf-access-*: never taken from the client
    HopByHop,     \* HOP_BY_HOP; "connection" is one of them
    Private,      \* RESPONSE_STRIP, access-control-*: never taken from the upstream
    Plain,        \* fields of no list
    Auth,         \* names configured in UPSTREAM_AUTH_HEADERS
    Entry,        \* Via entries a client may send
    Allowed,      \* ALLOWED_ORIGINS
    Origin,       \* origins of requests; "" for none
    MaxHops       \* bound: hops of one request

(* What the constants must be; every instance assumes it. *)
HeaderConstants ==
    /\ "connection" \in HopByHop
    /\ Auth \cap (HopByHop \cup {"via"}) = {}
    /\ "" \notin Allowed /\ "" \in Origin
    /\ MaxHops \in Nat

Name == Credential \cup HopByHop \cup Private \cup Plain \cup Auth

VARIABLES
    at,       \* where the message is: "edge", "gateway", "behind", "upstream" or "refused";
              \* "back" and "client" for the response
    fields,   \* fields[n]: who wrote field n last: "none", "peer" or "gateway"
    named,    \* fields the Connection header lists
    via,      \* the Via entries
    origin,   \* Origin of the request
    grant,    \* Access-Control-Allow-Origin of the response; "" for none
    crossed,  \* times the gateway forwarded the request
    hops      \* hops so far

vars == <<at, fields, named, via, origin, grant, crossed, hops>>

Present == {n \in Name : fields[n] # "none"}

TypeOK ==
    /\ at \in {"edge", "gateway", "behind", "upstream", "refused", "back", "client"}
    /\ fields \in [Name -> {"none", "peer", "gateway"}]
    /\ named \subseteq Name
    /\ origin \in Origin /\ grant \in Origin
    /\ crossed \in 0 .. MaxHops /\ hops \in 0 .. MaxHops

(* Any message a peer can build. *)
Written(present, listed) ==
    /\ fields' = [n \in Name |-> IF n \in present THEN "peer" ELSE "none"]
    /\ named' = IF "connection" \in present THEN listed ELSE {}

Init ==
    /\ at = "edge"
    /\ \E present \in SUBSET (Name \ Private) : fields = [n \in Name |-> IF n \in present THEN "peer" ELSE "none"]
    /\ named \in IF fields["connection"] = "none" THEN {{}} ELSE SUBSET (Plain \cup Auth)
    /\ via \in {<< >>} \cup {<<e>> : e \in Entry}
    /\ origin \in Origin
    /\ grant = "" /\ crossed = 0 /\ hops = 0

-----------------------------------------------------------------------------
(* The received-by name is the second word, in any case; a comment is not looked at. *)
ViaIsLooped(entries) ==
    \E i \in DOMAIN entries : Len(entries[i]) >= 2 /\ entries[i][2] \in {"nft-gate", "NFT-Gate"}

ViaToken == <<"1.1", "nft-gate">>

(* Mutant of DropRequestHeader: the client's Connection header is not read. *)
DropRequestHeaderFixed(n) == n \in HopByHop \/ n \in Credential

DropRequestHeader(n) == n \in HopByHop \/ n \in named \/ n \in Credential

(* Mutant of DropResponseHeader: the upstream's Connection header is not read. *)
DropResponseHeaderFixed(n) == n \in HopByHop \/ n \in Private

DropResponseHeader(n) == n \in HopByHop \/ n \in named \/ n \in Private

(* Mutant of UpstreamRequest: the credentials are added before the client's are dropped. *)
UpstreamRequestEarly == [n \in Name |->
    IF DropRequestHeader(n) THEN "none" ELSE IF n \in Auth THEN "gateway" ELSE fields[n]]

(* `upstream_request_headers` and `insert_auth`: what is left of the client's fields,
   and the configured credentials, whatever the client sent under their names. *)
UpstreamRequest == [n \in Name |->
    IF n \in Auth THEN "gateway" ELSE IF DropRequestHeader(n) THEN "none" ELSE fields[n]]

ClientResponse == [n \in Name |-> IF DropResponseHeader(n) THEN "none" ELSE fields[n]]

(* Mutant of CorsAllowedOrigin: any origin that asks is reflected. *)
CorsReflect(o) == o

(* Mutant of CorsAllowedOrigin: everybody is allowed. *)
CorsStar(o) == "*"

(* Only an exact match is reflected. *)
CorsAllowedOrigin(o) == IF o \in Allowed THEN o ELSE ""

-----------------------------------------------------------------------------
(* Another proxy on the way, which appends its own Via entry as RFC 9110 asks. *)
Proxy ==
    /\ at \in {"edge", "behind"} /\ hops < MaxHops
    /\ via' = Append(via, <<"1.1", "cdn">>)
    /\ hops' = hops + 1
    /\ UNCHANGED <<at, fields, named, origin, grant, crossed>>

Arrive ==
    /\ at = "edge"
    /\ at' = "gateway"
    /\ UNCHANGED <<fields, named, via, origin, grant, crossed, hops>>

Refuse ==
    /\ at = "gateway" /\ ViaIsLooped(via)
    /\ at' = "refused"
    /\ UNCHANGED <<fields, named, via, origin, grant, crossed, hops>>

(* Mutant of Forward: the client's Via is kept and the gateway adds none. *)
ForwardUnmarked ==
    /\ at = "gateway" /\ ~ViaIsLooped(via) /\ hops < MaxHops
    /\ fields' = UpstreamRequest
    /\ named' = {}
    /\ crossed' = crossed + 1 /\ hops' = hops + 1
    /\ at' = "behind"
    /\ UNCHANGED <<via, origin, grant>>

(* The gateway forwards: the client's Via goes with the other fields, then its own. *)
Forward ==
    /\ at = "gateway" /\ ~ViaIsLooped(via) /\ hops < MaxHops
    /\ fields' = UpstreamRequest
    /\ named' = {}
    /\ via' = <<ViaToken>>
    /\ crossed' = crossed + 1 /\ hops' = hops + 1
    /\ at' = "behind"
    /\ UNCHANGED <<origin, grant>>

(* The upstream's name leads to the upstream, or back to this gateway. *)
Deliver ==
    /\ at = "behind"
    /\ at' \in {"upstream", "gateway"}
    /\ UNCHANGED <<fields, named, via, origin, grant, crossed, hops>>

(* The upstream answers with any fields of its own. *)
Respond ==
    /\ at = "upstream"
    /\ \E present \in SUBSET (HopByHop \cup Private \cup Plain), listed \in SUBSET Plain :
          Written(present, listed)
    /\ at' = "back"
    /\ UNCHANGED <<via, origin, grant, crossed, hops>>

(* The response policy, then the CORS layer, which removes what is left of anybody
   else's grants and sets the gateway's. *)
Return ==
    /\ at \in {"back", "refused"}
    /\ fields' = IF at = "back" THEN ClientResponse ELSE [n \in Name |-> "none"]
    /\ named' = {}
    /\ grant' = CorsAllowedOrigin(origin)
    /\ at' = "client"
    /\ UNCHANGED <<via, origin, crossed, hops>>

Next == Proxy \/ Arrive \/ Refuse \/ Forward \/ Deliver \/ Respond \/ Return

Spec == Init /\ [][Next]_vars

-----------------------------------------------------------------------------
(* Whatever the client sends and lists in Connection, the upstream sees the gateway's
   credentials and nothing a client may not say: no credential, cookie or forwarding
   field of its own and no hop-by-hop field. *)
UpstreamSeesOwnCredentials ==
    at \in {"behind", "upstream"} =>
        /\ \A n \in Auth : fields[n] = "gateway"
        /\ (HopByHop \cup Credential) \cap (Present \ Auth) = {}

(* A request is forwarded at most once by this gateway, whichever proxies it meets and
   wherever the upstream's name leads. *)
ForwardedOnce == crossed <= 1

(* The client of a response learns nothing the upstream meant for the connection or for
   itself, and a browser is granted access to it only for an allowed origin. *)
ClientSeesClean ==
    at = "client" =>
        /\ (HopByHop \cup Private) \cap Present = {}
        /\ grant # "" => grant = origin /\ origin \in Allowed

(***************************************************************************)
(* The inductive invariant: what the gateway has forwarded carries its     *)
(* mark, which no proxy on the way takes off again.                        *)
(***************************************************************************)
ForwardedIsMarked ==
    /\ via \in Seq(Entry \cup {<<"1.1", "cdn">>, ViaToken})
    /\ crossed > 0 => ViaIsLooped(via)
    /\ crossed <= hops

HeaderInv == TypeOK /\ ForwardedIsMarked /\ UpstreamSeesOwnCredentials /\ ForwardedOnce /\ ClientSeesClean

(* A field that a Connection header lists, the client's or the upstream's, stays behind at the
   gateway; the gateway's own credentials are not the client's to list. *)
ListedStay ==
    /\ at = "gateway" /\ at' = "behind" => \A n \in named \ Auth : fields'[n] = "none"
    /\ at = "back" => \A n \in named : fields'[n] = "none"

ListedFieldsStay == [][ListedStay]_vars
=============================================================================
