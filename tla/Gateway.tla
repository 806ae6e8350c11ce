-------------------------------- MODULE Gateway --------------------------------
(***************************************************************************)
(* The request pipeline: `Gateway::handle` of core/src/gateway.rs with     *)
(* `verify_access_request` of core/src/decision.rs and the nonce table.    *)
(* Concurrent requests run over a gate that is paused and unpaused under   *)
(* them and a nonce store that may answer late or not at all.  Of the rate *)
(* limiter (module RateLimiter) and of the ownership check (module         *)
(* OwnershipCache) only the answers matter here.  In single-use mode a     *)
(* request that passes goes on to `redeem_and_forward` (Redemption).       *)
(***************************************************************************)
EXTENDS Naturals, FiniteSets, NonceTable

CONSTANTS
    Request,      \* requests
    Nonce,        \* nonces the store draws, and whatever a client presents
    Head,         \* request heads: [looped, method, path, token]
    ChallengeTtl, \* CHALLENGE_TTL_SECS
    MaxNonces,    \* NONCE_MAX_ENTRIES
    NoNonce,      \* no nonce drawn or presented yet
    Unreliable,   \* TRUE: state and chain calls may fail
    MaxChanges,   \* bound: changes of the chain
    MaxTime       \* bound: the clock stops here

Method == {"GET", "HEAD", "POST", "PUT", "DELETE"}
Path == {"challenge", "public", "gated"}

ASSUME GatewayTypes ==
    /\ {MaxNonces, MaxChanges, MaxTime} \subseteq Nat
    /\ ChallengeTtl \in Nat \ {0}
    /\ Head \subseteq [looped : BOOLEAN, method : Method, path : Path, token : BOOLEAN]
    /\ Unreliable \in BOOLEAN
    /\ NoNonce \notin Nonce

VARIABLES
    single_use, \* SINGLE_USE, read once at the start
    now,      \* the clock
    nonces,   \* the nonce table
    drawn,    \* nonces drawn by `issue_nonce`: 192 random bits never repeat
    blocked,  \* chain: the gate is paused and its policy blocks access
    changes,  \* number of chain changes so far
    pc,       \* pc[r]: the call r awaits, or the status it was answered with
    head,     \* head[r]: what the pipeline reads of the request
    nonce,    \* nonce[r]: the nonce drawn for r, or named by its proof
    sound,    \* sound[r]: its proof decodes, has what the mode needs, and its signature verifies
    limbo,    \* nonce calls nobody waits for that may still be applied
    recorded, \* history: recorded[n] is the expiry the store gave n, 0 if it never did
    passed,   \* history: passed[n] are the requests whose take of n was answered "valid"
    vouched,  \* history: requests the chain vouched for (a pass, or a valid consume)
    sawOpen   \* history: the gate was open at some moment since r arrived

chain == <<blocked, changes>>
history == <<vouched, sawOpen>>
vars == <<single_use, now, nonces, drawn, chain, pc, head, nonce, sound, limbo, recorded, passed, history>>

(* The calls of the pipeline.  The first four are rate checks, one per RateScope. *)
Charging == {"challenge", "public", "preauth", "address"}
InFlight == Charging \cup {"issuing", "taking", "pause", "consume", "owns"}

(* How the pipeline ends: a status of its own, an issued nonce, the upstream,
   the redemption of a single-use request, or a dropped handler. *)
Ended == {"401", "403", "405", "429", "502", "503", "508", "issued", "upstream", "redeem", "gone"}

NoHead == [looped |-> FALSE, method |-> "GET", path |-> "gated", token |-> FALSE]

(* `max_entries.max(1)`. *)
Cap == IF MaxNonces = 0 THEN 1 ELSE MaxNonces

ForwardedMethods == {"GET", "HEAD", "POST", "PUT"}

Call(op, r) == [op |-> op, req |-> r]

TypeOK ==
    /\ single_use \in BOOLEAN
    /\ now \in Nat
    /\ nonces \in [Nonce -> Nat]
    /\ drawn \subseteq Nonce
    /\ blocked \in BOOLEAN
    /\ changes \in Nat
    /\ pc \in [Request -> {"idle"} \cup InFlight \cup Ended]
    /\ head \in [Request -> Head \cup {NoHead}]
    /\ nonce \in [Request -> Nonce \cup {NoNonce}]
    /\ sound \in [Request -> BOOLEAN]
    /\ limbo \subseteq [op : {"issue", "take"}, req : Request]
    /\ recorded \in [Nonce -> Nat]
    /\ passed \in [Nonce -> SUBSET Request]
    /\ vouched \subseteq Request
    /\ sawOpen \in [Request -> BOOLEAN]

Init ==
    /\ single_use \in BOOLEAN
    /\ now = 0
    /\ nonces = [n \in Nonce |-> Absent]
    /\ drawn = {}
    /\ blocked = FALSE
    /\ changes = 0
    /\ pc = [r \in Request |-> "idle"]
    /\ head = [r \in Request |-> NoHead]
    /\ nonce = [r \in Request |-> NoNonce]
    /\ sound = [r \in Request |-> FALSE]
    /\ limbo = {}
    /\ recorded = [n \in Nonce |-> 0]
    /\ passed = [n \in Nonce |-> {}]
    /\ vouched = {}
    /\ sawOpen = [r \in Request |-> FALSE]

-----------------------------------------------------------------------------
(* The nonce store's side of a call, whether its caller still waits or not. *)

ApplyIssue(r) ==
    /\ nonces' \in Issue(nonces, nonce[r], now, ChallengeTtl, Cap)
    /\ recorded' = [recorded EXCEPT ![nonce[r]] = now + ChallengeTtl]

ApplyTake(r) ==
    /\ nonces' = Take(nonces, nonce[r])
    /\ UNCHANGED recorded

(* The call r waits for, if it is one of the nonce store. *)
Outstanding(r) ==
    CASE pc[r] = "issuing" -> {Call("issue", r)}
      [] pc[r] = "taking"  -> {Call("take", r)}
      [] OTHER             -> {}

(* An unanswered call is lost, or is left for the store to apply later. *)
Orphan(r) == \E left \in SUBSET Outstanding(r) : limbo' = limbo \cup left

Goto(r, p) == pc' = [pc EXCEPT ![r] = p]

-----------------------------------------------------------------------------
(* One request. *)

(* `handle` up to its first await: refusals, or the rate check to pay first. *)
Route(h) ==
    IF h.looped THEN "508"
    ELSE IF h.method = "GET" /\ h.path = "challenge" THEN "challenge"
    ELSE IF h.path = "public" THEN
         IF h.method \in {"GET", "HEAD"} THEN "public" ELSE "405"
    ELSE IF h.method \notin ForwardedMethods THEN "405"
    ELSE IF ~h.token THEN "401"
    ELSE "preauth"

(* A request arrives.  Its proof may name any nonce. *)
Arrive(r, h, n, ok) ==
    /\ pc[r] = "idle"
    /\ Goto(r, Route(h))
    /\ head' = [head EXCEPT ![r] = h]
    /\ IF Route(h) = "preauth"
       THEN /\ nonce' = [nonce EXCEPT ![r] = n]
            /\ sound' = [sound EXCEPT ![r] = ok]
       ELSE UNCHANGED <<nonce, sound>>
    /\ sawOpen' = [sawOpen EXCEPT ![r] = ~blocked]
    /\ UNCHANGED <<now, nonces, drawn, chain, limbo, recorded, passed, vouched>>

(* Mutant of AfterCharge: the nonce is taken before the signature is checked. *)
AfterChargeUnchecked(r) ==
    CASE pc[r] = "challenge" -> "issuing"
      [] pc[r] = "public"    -> "upstream"
      [] pc[r] = "preauth"   -> "taking"
      [] pc[r] = "address"   -> IF single_use THEN "redeem" ELSE "upstream"

(* What follows a rate check that admits: after the pre-auth check the proof is
   decoded and its signature verified, then the nonce is taken. *)
AfterCharge(r) ==
    CASE pc[r] = "challenge" -> "issuing"
      [] pc[r] = "public"    -> "upstream"
      [] pc[r] = "preauth"   -> IF sound[r] THEN "taking" ELSE "403"
      [] pc[r] = "address"   -> IF single_use THEN "redeem" ELSE "upstream"

(* `charge`: 429 when the budget is spent, 503 when the limiter cannot answer.
   An admitted challenge request draws its nonce. *)
Charge(r) ==
    /\ pc[r] \in Charging
    /\ \/ /\ Goto(r, AfterCharge(r))
          /\ IF pc[r] = "challenge"
             THEN \E n \in Nonce \ drawn :
                     /\ nonce' = [nonce EXCEPT ![r] = n]
                     /\ drawn' = drawn \cup {n}
             ELSE UNCHANGED <<nonce, drawn>>
       \/ Goto(r, "429") /\ UNCHANGED <<nonce, drawn>>
       \/ Unreliable /\ Goto(r, "503") /\ UNCHANGED <<nonce, drawn>>
    /\ UNCHANGED <<now, nonces, chain, head, sound, limbo, recorded, passed, history>>

(* `issue_nonce` answers: the client is told the nonce and its expiry. *)
IssueNonce(r) ==
    /\ pc[r] = "issuing"
    /\ ApplyIssue(r)
    /\ Goto(r, "issued")
    /\ UNCHANGED <<now, drawn, chain, head, nonce, sound, limbo, passed, history>>

(* `take_if_valid` answers: a nonce that is gone or expired is a 403. *)
TakeNonce(r) ==
    /\ pc[r] = "taking"
    /\ ApplyTake(r)
    /\ IF Alive(nonces, nonce[r], now)
       THEN Goto(r, "pause") /\ passed' = [passed EXCEPT ![nonce[r]] = @ \cup {r}]
       ELSE Goto(r, "403") /\ UNCHANGED passed
    /\ UNCHANGED <<now, drawn, chain, head, nonce, sound, limbo, history>>

(* Mutant of AfterPause: a blocked gate is not refused. *)
AfterPauseOpen(closed) == IF single_use THEN "consume" ELSE "owns"

AfterPause(closed) ==
    IF closed THEN "403" ELSE IF single_use THEN "consume" ELSE "owns"

(* `gate_access_blocked`: the node reads the gate. *)
CheckPause(r) ==
    /\ pc[r] = "pause"
    /\ Goto(r, AfterPause(blocked))
    /\ UNCHANGED <<now, nonces, drawn, chain, head, nonce, sound, limbo, recorded, passed, history>>

(* `consume_tx_valid` (its age check is in Redemption) or `owns_nft` answers. *)
CheckChain(r) ==
    /\ pc[r] \in {"consume", "owns"}
    /\ \/ Goto(r, "address") /\ vouched' = vouched \cup {r}
       \/ Goto(r, "403") /\ UNCHANGED vouched
    /\ UNCHANGED <<now, nonces, drawn, chain, head, nonce, sound, limbo, recorded, passed, sawOpen>>

-----------------------------------------------------------------------------
(* Failures. *)

(* A nonce call fails (503), or a chain call fails or times out (502). *)
AfterError(p) == IF p \in {"issuing", "taking"} THEN "503" ELSE "502"

CallError(r) ==
    /\ Unreliable
    /\ pc[r] \in InFlight \ Charging
    /\ Orphan(r)
    /\ Goto(r, AfterError(pc[r]))
    /\ UNCHANGED <<now, nonces, drawn, chain, head, nonce, sound, recorded, passed, history>>

(* The handler of r is dropped at an await (client gone, shutdown). *)
Abandon(r) ==
    /\ pc[r] \in InFlight
    /\ Orphan(r)
    /\ Goto(r, "gone")
    /\ UNCHANGED <<now, nonces, drawn, chain, head, nonce, sound, recorded, passed, history>>

(* The store applies a call whose caller no longer waits. *)
LateCall(call) ==
    /\ \/ call.op = "issue" /\ ApplyIssue(call.req)
       \/ call.op = "take" /\ ApplyTake(call.req)
    /\ limbo' = limbo \ {call}
    /\ UNCHANGED <<now, drawn, chain, pc, head, nonce, sound, passed, history>>

-----------------------------------------------------------------------------
(* The world around the gateway. *)

(* The periodic sweep of the in-memory store. *)
PruneNonces ==
    /\ nonces' = Prune(nonces, now)
    /\ UNCHANGED <<now, drawn, chain, pc, head, nonce, sound, limbo, recorded, passed, history>>

(* The admin pauses or unpauses the gate. *)
TogglePause ==
    /\ changes < MaxChanges
    /\ changes' = changes + 1
    /\ blocked' = ~blocked
    /\ sawOpen' = [r \in Request |-> sawOpen[r] \/ (blocked /\ pc[r] \in InFlight)]
    /\ UNCHANGED <<now, nonces, drawn, pc, head, nonce, sound, limbo,
                   recorded, passed, vouched>>

Tick ==
    /\ now < MaxTime
    /\ now' = now + 1
    /\ UNCHANGED <<nonces, drawn, chain, pc, head, nonce, sound, limbo,
                   recorded, passed, vouched, sawOpen>>

Step(r) == Charge(r) \/ IssueNonce(r) \/ TakeNonce(r) \/ CheckPause(r) \/ CheckChain(r)

Work ==
    \/ \E r \in Request, h \in Head, n \in Nonce, ok \in BOOLEAN : Arrive(r, h, n, ok)
    \/ \E r \in Request : Step(r) \/ CallError(r) \/ Abandon(r)
    \/ \E call \in limbo : LateCall(call)
    \/ PruneNonces
    \/ TogglePause
    \/ Tick

Next == Work /\ UNCHANGED single_use

Spec == Init /\ [][Next]_vars

-----------------------------------------------------------------------------
(* Properties. *)

(* "A replay presents an already-used nonce and is rejected": whatever is
   retried, lost or applied late, a nonce lets at most one request through. *)
NonceAdmitsOnce ==
    \A n \in Nonce : \A r, s \in passed[n] : r = s

(* A request passed with n, or took it with a sound proof and was not told. *)
TakenSoundly(n) ==
    \/ passed[n] # {}
    \/ \E s \in Request : nonce[s] = n /\ sound[s] /\ pc[s] \in {"503", "gone"}

(* A full table of nonces at least as fresh was recorded besides n. *)
Displaced(n) == Cardinality({m \in Nonce \ {n} : recorded[m] >= recorded[n]}) >= Cap

(* "A nonce that could never verify must not be handed out", and one that was is
   good until the expiry the client was told: if it is gone early, a sound proof
   took it (perhaps unheard), or a full table of nonces as fresh displaced it. *)
HandedOutNonceWorks ==
    \A r \in Request :
        LET n == nonce[r]
        IN  pc[r] = "issued" =>
                /\ recorded[n] # 0
                /\ recorded[n] > now /\ nonces[n] = Absent => TakenSoundly(n) \/ Displaced(n)

(* "The nonce is consumed as part of a successful signature check": a live nonce
   disappears by a proof that verifies, or to make room at the cap. *)
OnlySoundProofBurnsNonce ==
    [][\A n \in Nonce :
          Alive(nonces, n, now) /\ nonces'[n] = Absent =>
              \/ \E r \in Request : nonce[r] = n /\ sound[r]
                    /\ (pc[r] = "taking" \/ Call("take", r) \in limbo)
              \/ recorded' # recorded /\ Cardinality(Held(nonces)) >= Cap]_vars

PublicRead(r) == head[r].path = "public" /\ head[r].method \in {"GET", "HEAD"}

Authorised(r) == nonce[r] \in Nonce /\ r \in passed[nonce[r]] /\ r \in vouched /\ sawOpen[r]

(* What reaches the upstream unproven is a read of a public path; anything else
   took a live nonce, was vouched for by the chain, and found the gate open at some
   moment since it arrived, however the gate is paused and unpaused meanwhile. *)
UpstreamIsAuthorised ==
    \A r \in Request : pc[r] \in {"upstream", "redeem"} => PublicRead(r) \/ Authorised(r)

(***************************************************************************)
(* The inductive invariant behind NonceAdmitsOnce.  A nonce enters the     *)
(* table through one issue call only (OneIssuePerNonce), which precedes    *)
(* everything else that happens to it (IssueComesFirst), and it leaves the *)
(* table for good when a request passes with it (PassedIsGone).            *)
(***************************************************************************)

(* The issue of r's nonce may still be applied. *)
Issuing(r) == pc[r] = "issuing" \/ Call("issue", r) \in limbo

CallsHaveNonces ==
    \A r \in Request :
        /\ pc[r] \in {"preauth", "taking", "issuing"} => nonce[r] \in Nonce
        /\ \A op \in {"issue", "take"} :
              Call(op, r) \in limbo => nonce[r] \in Nonce /\ pc[r] \in Ended

OneIssuePerNonce ==
    \A r, s \in Request : Issuing(r) /\ Issuing(s) /\ nonce[r] = nonce[s] => r = s

IssueComesFirst ==
    \A r \in Request : Issuing(r) =>
        nonce[r] \in drawn /\ nonces[nonce[r]] = Absent /\ passed[nonce[r]] = {}

DrawnFirst ==
    \A n \in Nonce \ drawn : nonces[n] = Absent /\ passed[n] = {}

PassedIsGone ==
    \A n \in Nonce : passed[n] # {} => nonces[n] = Absent

(* Every nonce goes through its life in order: drawn, recorded, taken. *)
NonceInv ==
    TypeOK /\ CallsHaveNonces /\ OneIssuePerNonce /\ IssueComesFirst
    /\ DrawnFirst /\ PassedIsGone /\ NonceAdmitsOnce

(***************************************************************************)
(* The inductive invariant behind UpstreamIsAuthorised: what a request has *)
(* shown by the time it awaits each call.                                  *)
(***************************************************************************)
Stage(r) ==
    /\ pc[r] \in InFlight /\ ~blocked => sawOpen[r]
    /\ pc[r] = "public" => PublicRead(r)
    /\ pc[r] \in {"pause", "consume", "owns", "address"} =>
          nonce[r] \in Nonce /\ r \in passed[nonce[r]]
    /\ pc[r] \in {"consume", "owns", "address"} => sawOpen[r]
    /\ pc[r] = "address" => r \in vouched
    /\ pc[r] \in {"upstream", "redeem"} => PublicRead(r) \/ Authorised(r)

(* No request is further along the pipeline than its evidence. *)
PipelineInv == \A r \in Request : Stage(r)

(***************************************************************************)
(* The inductive invariant behind HandedOutNonceWorks and                  *)
(* OnlySoundProofBurnsNonce: a nonce is recorded once, before its caller   *)
(* is told; the table holds it with the recorded expiry or not at all; and *)
(* if not at all before its time, then for a reason.                       *)
(***************************************************************************)
SoundTakers ==
    \A r \in Request :
        /\ pc[r] = "taking" => sound[r]
        /\ Call("take", r) \in limbo => sound[r] /\ pc[r] \in {"503", "gone"}

RecordedOnce ==
    /\ \A r \in Request :
          /\ Issuing(r) => recorded[nonce[r]] = 0
          /\ pc[r] = "issued" => nonce[r] \in Nonce /\ recorded[nonce[r]] # 0
    /\ \A n \in Nonce \ drawn : recorded[n] = 0
    /\ IsFiniteSet({n \in Nonce : recorded[n] # 0})

TableIsRecorded ==
    \A n \in Nonce : nonces[n] \in {Absent, recorded[n]} /\ recorded[n] <= now + ChallengeTtl

GoneForAReason ==
    \A n \in Nonce : recorded[n] > now /\ nonces[n] = Absent => TakenSoundly(n) \/ Displaced(n)

RecordInv == SoundTakers /\ RecordedOnce /\ TableIsRecorded /\ GoneForAReason

(* Through every branch of `handle`, in either mode, no request is further along than what it
   has shown, and every nonce is drawn, recorded and taken in that order: only public reads and
   requests that have shown all that `verify_access_request` asks for reach the upstream. *)
NobodyAheadOfEvidence == NonceInv /\ RecordInv /\ PipelineInv
=============================================================================
