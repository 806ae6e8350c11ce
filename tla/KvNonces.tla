------------------------------- MODULE KvNonces -------------------------------
(***************************************************************************)
(* Challenge nonces of the TypeScript gateway (gateway-workers/src): every *)
(* isolate picks its nonce backend once, from the configuration and from   *)
(* the flag `quota:degrade` (`getState`), so isolates on Durable Objects   *)
(* and isolates on Workers KV serve side by side.  The object takes a      *)
(* nonce in one step; KV reads it, deletes it and only then looks at its   *)
(* expiry, and other regions see old values until they catch up.  The      *)
(* object runs in global mode (one instance): regions are DurableState's.  *)
(***************************************************************************)
EXTENDS NonceTable

CONSTANTS Isolate, Region, Nonce, Request,
    Home,         \* Home[i]: the region isolate i runs in
    Ttl,          \* CHALLENGE_TTL_SECS
    KvMinTtl,     \* KV_MIN_TTL_SECS
    MaxEntries,   \* NONCE_MAX_ENTRIES
    MaxTime,      \* bound: the clock stops here
    MaxEvict      \* bound: isolates evicted

(* What the constants must be; every instance assumes it. *)
KvConstants ==
    /\ {Ttl, KvMinTtl, MaxEntries} \subseteq Nat \ {0}
    /\ {MaxTime, MaxEvict} \subseteq Nat
    /\ Home \in [Isolate -> Region]
    /\ "none" \notin Nonce

Durable == "durable-object"
Kv == "kv"
None == "none"
Flag == "quota:degrade"
Backends == {Durable, Kv}
Idle == [pc |-> "idle", iso |-> None, nonce |-> None, use |-> None, read |-> Absent, late |-> FALSE]

VARIABLES
    now,
    cfg,      \* SINGLE_USE, NONCE_BACKEND and whether NONCE_KV is bound
    kv,       \* the KV nonces: [e: expiry in the value, gc: expirationTtl as a time]
    view,     \* view[r]: what region r reads
    degrade,  \* the flag as written, and the regions that read it as set
    object,   \* table `nonces` of the Durable Object
    cached,   \* cached[i]: the backend isolate i keeps
    req,      \* req[q]: a request between its awaits; `late`: it came after its nonce was spent
    issued,   \* history: issued[n]: who issued n and its expiry
    taken,    \* history: the requests that had n accepted
    evicted

vars == <<now, cfg, kv, view, degrade, object, cached, req, issued, taken, evicted>>
stores == <<kv, view, degrade, object>>

NoEntry == [e |-> Absent, gc |-> Absent]
Entry == [e : Nat, gc : Nat]

(* Where a request is, or the status it ended with. *)
Phases == {"idle", "flag", "issue", "take", "delete", "200", "401", "500", "503", "gone"}

ReqRecord == [pc : Phases, iso : Isolate \cup {None}, nonce : Nonce \cup {None},
              use : Backends \cup {None}, read : Nat, late : BOOLEAN]

TypeOK ==
    /\ now \in Nat
    /\ cfg \in [singleUse : BOOLEAN, backend : Backends, bound : BOOLEAN]
    /\ kv \in [Nonce -> Entry] /\ view \in [Region -> [Nonce -> Entry]]
    /\ degrade \in [set : BOOLEAN, seen : SUBSET Region]
    /\ object \in [Nonce -> Nat]
    /\ cached \in [Isolate -> Backends \cup {None}]
    /\ req \in [Request -> ReqRecord]
    /\ issued \in [Nonce -> [by : Backends \cup {None}, expiry : Nat]]
    /\ taken \in [Nonce -> SUBSET Request]
    /\ evicted \in Nat

Init ==
    /\ now = 0 /\ evicted = 0
    /\ cfg \in [singleUse : BOOLEAN, backend : Backends, bound : BOOLEAN]
    /\ kv = [n \in Nonce |-> NoEntry]
    /\ view = [r \in Region |-> kv]
    /\ degrade = [set |-> FALSE, seen |-> {}]
    /\ object = [n \in Nonce |-> Absent]
    /\ cached = [i \in Isolate |-> None]
    /\ req = [q \in Request |-> Idle]
    /\ issued = [n \in Nonce |-> [by |-> None, expiry |-> Absent]]
    /\ taken = [n \in Nonce |-> {}]

-----------------------------------------------------------------------------
(* `getState`. *)

(* `loadConfig` and `makeBackends` refuse KV nonces for single use or without a binding. *)
Misconfigured == cfg.backend = Kv /\ (cfg.singleUse \/ ~cfg.bound)

(* Mutant of AsksFlag: the flag also moves a single-use deployment. *)
AsksFlagAlways == cfg.backend = Durable /\ cfg.bound

(* When the flag counts at all. *)
AsksFlag == ~cfg.singleUse /\ cfg.backend = Durable /\ cfg.bound

(* What a request does next once it has its state: it has a nonce to present, or wants one. *)
Begin(r, use) == [r EXCEPT !.use = use, !.pc = IF r.nonce = None THEN "issue" ELSE "take"]

(* A nonce is spent for a newcomer if the object gave it up, or KV did in the same region. *)
SpentFor(n, r) == \E q \in taken[n] : req[q].use = Durable \/ Home[req[q].iso] = r

(* A request reaches an isolate: for a challenge, or with a nonce some client holds.  The kept state is
   used as it is; without one the configuration is loaded, and the flag read if it counts. *)
Arrive(q, i, n) ==
    /\ req[q].pc = "idle"
    /\ n # None => issued[n].by # None
    /\ LET r == [Idle EXCEPT !.iso = i, !.nonce = n, !.late = n # None /\ SpentFor(n, Home[i])] IN
       IF cached[i] # None
       THEN req' = [req EXCEPT ![q] = Begin(r, cached[i])] /\ UNCHANGED cached
       ELSE IF Misconfigured
       THEN req' = [req EXCEPT ![q] = [r EXCEPT !.pc = "500"]] /\ UNCHANGED cached
       ELSE IF AsksFlag
       THEN req' = [req EXCEPT ![q] = [r EXCEPT !.pc = "flag"]] /\ UNCHANGED cached
       ELSE req' = [req EXCEPT ![q] = Begin(r, cfg.backend)] /\ cached' = [cached EXCEPT ![i] = cfg.backend]
    /\ UNCHANGED <<now, cfg, stores, issued, taken, evicted>>

(* The flag arrives, or its read fails: two requests of one isolate may build its state
   differently, and the last one stays. *)
FlagRead(q) ==
    /\ req[q].pc = "flag"
    /\ \E use \in {Durable} \cup (IF Home[req[q].iso] \in degrade.seen THEN {Kv} ELSE {}) :
        /\ req' = [req EXCEPT ![q] = Begin(req[q], use)]
        /\ cached' = [cached EXCEPT ![req[q].iso] = use]
    /\ UNCHANGED <<now, cfg, stores, issued, taken, evicted>>

-----------------------------------------------------------------------------
(* The backends. *)

Answer(q, pc) == req' = [req EXCEPT ![q].pc = pc]

(* A value written from region r: its readers see it at once, the others when they catch up. *)
Write(n, entry, r) ==
    /\ kv' = [kv EXCEPT ![n] = entry]
    /\ view' = [view EXCEPT ![r][n] = entry]

(* Mutant of KvEntry: the expiry of the value is the one of KV. *)
KvEntryPadded(t) == LET gc == t + (IF Ttl > KvMinTtl THEN Ttl ELSE KvMinTtl) IN [e |-> gc, gc |-> gc]

(* Mutant of KvEntry: the deadline lies before the issue. *)
KvEntryPast(t) == [e |-> t - Ttl, gc |-> t + KvMinTtl]

(* The expiry counts in the value; KV itself keeps the key for at least KvMinTtl. *)
KvEntry(t) == [e |-> t + Ttl, gc |-> t + (IF Ttl > KvMinTtl THEN Ttl ELSE KvMinTtl)]

(* `issue`: a nonce nobody has drawn.  If the call fails (StoreError) no client learns the nonce. *)
IssueNonce(q, n) ==
    /\ req[q].pc = "issue" /\ issued[n].by = None
    /\ \/ /\ req[q].use = Durable
          /\ object' \in Issue(object, n, now, Ttl, MaxEntries)
          /\ UNCHANGED <<kv, view>>
       \/ /\ req[q].use = Kv
          /\ Write(n, KvEntry(now), Home[req[q].iso])
          /\ UNCHANGED object
    /\ issued' = [issued EXCEPT ![n] = [by |-> req[q].use, expiry |-> now + Ttl]]
    /\ Answer(q, "200")
    /\ UNCHANGED <<now, cfg, degrade, cached, taken, evicted>>

(* Mutant of TakeDurable: the row outlives its use. *)
TakeDurableKeeps(q) ==
    LET n == req[q].nonce IN
    /\ req[q].pc = "take" /\ req[q].use = Durable
    /\ IF Alive(object, n, now) THEN Answer(q, "200") /\ taken' = [taken EXCEPT ![n] = @ \cup {q}]
       ELSE Answer(q, "401") /\ UNCHANGED taken
    /\ UNCHANGED <<now, cfg, stores, cached, issued, evicted>>

(* `takeIfValid` of the object: one step. *)
TakeDurable(q) ==
    LET n == req[q].nonce IN
    /\ req[q].pc = "take" /\ req[q].use = Durable
    /\ object' = Take(object, n)
    /\ IF Alive(object, n, now) THEN Answer(q, "200") /\ taken' = [taken EXCEPT ![n] = @ \cup {q}]
       ELSE Answer(q, "401") /\ UNCHANGED taken
    /\ UNCHANGED <<now, cfg, kv, view, degrade, cached, issued, evicted>>

(* `takeIfValid` of KV: the read ... *)
KvGet(q) ==
    LET seen == view[Home[req[q].iso]][req[q].nonce] IN
    /\ req[q].pc = "take" /\ req[q].use = Kv
    /\ req' = [req EXCEPT ![q].pc = IF seen = NoEntry THEN "401" ELSE "delete", ![q].read = seen.e]
    /\ UNCHANGED <<now, cfg, stores, cached, issued, taken, evicted>>

(* Mutant of KvDelete: the key is left to its KV expiry. *)
KvDeleteNot(q) ==
    /\ req[q].pc = "delete"
    /\ IF req[q].read > now THEN Answer(q, "200") /\ taken' = [taken EXCEPT ![req[q].nonce] = @ \cup {q}]
       ELSE Answer(q, "401") /\ UNCHANGED taken
    /\ UNCHANGED <<now, cfg, stores, cached, issued, evicted>>

(* ... then the delete, and the clock read after it decides. *)
KvDelete(q) ==
    /\ req[q].pc = "delete"
    /\ Write(req[q].nonce, NoEntry, Home[req[q].iso])
    /\ IF req[q].read > now THEN Answer(q, "200") /\ taken' = [taken EXCEPT ![req[q].nonce] = @ \cup {q}]
       ELSE Answer(q, "401") /\ UNCHANGED taken
    /\ UNCHANGED <<now, cfg, degrade, object, cached, issued, evicted>>

(* A store call fails before it took effect, or its effect stays and the answer is lost. *)
StoreError(q) ==
    /\ req[q].pc \in {"issue", "take", "delete"}
    /\ Answer(q, "503")
    /\ \/ UNCHANGED <<kv, view, object>>
       \/ req[q].pc = "take" /\ req[q].use = Durable /\ object' = Take(object, req[q].nonce) /\ UNCHANGED <<kv, view>>
       \/ req[q].pc = "delete" /\ Write(req[q].nonce, NoEntry, Home[req[q].iso]) /\ UNCHANGED object
    /\ UNCHANGED <<now, cfg, degrade, cached, issued, taken, evicted>>

-----------------------------------------------------------------------------
(* The platform. *)

(* The quota guard sets or clears the flag. *)
GuardRuns(set) ==
    /\ cfg.bound /\ degrade.set # set
    /\ degrade' = [degrade EXCEPT !.set = set]
    /\ UNCHANGED <<now, cfg, kv, view, object, cached, req, issued, taken, evicted>>

(* A region catches up with one key. *)
CatchUp(r) ==
    /\ \/ \E n \in Nonce : /\ view[r][n] # kv[n]
                           /\ view' = [view EXCEPT ![r][n] = kv[n]]
                           /\ UNCHANGED degrade
       \/ /\ (r \in degrade.seen) # degrade.set
          /\ degrade' = [degrade EXCEPT !.seen = IF degrade.set THEN @ \cup {r} ELSE @ \ {r}]
          /\ UNCHANGED view
    /\ UNCHANGED <<now, cfg, kv, object, cached, req, issued, taken, evicted>>

(* KV drops a key whose expirationTtl has passed. *)
KvExpire(n) ==
    /\ kv[n] # NoEntry /\ kv[n].gc <= now
    /\ kv' = [kv EXCEPT ![n] = NoEntry]
    /\ UNCHANGED <<now, cfg, view, degrade, object, cached, req, issued, taken, evicted>>

(* An isolate is evicted, its requests with it. *)
Evict(i) ==
    /\ cached[i] # None /\ evicted < MaxEvict
    /\ evicted' = evicted + 1
    /\ cached' = [cached EXCEPT ![i] = None]
    /\ req' = [q \in Request |->
                IF req[q].iso = i /\ req[q].pc \in {"flag", "issue", "take", "delete"} THEN [req[q] EXCEPT !.pc = "gone"]
                ELSE req[q]]
    /\ UNCHANGED <<now, cfg, stores, issued, taken>>

Tick == now < MaxTime /\ now' = now + 1 /\ UNCHANGED <<cfg, stores, cached, req, issued, taken, evicted>>

Next ==
    \/ \E q \in Request :
        \/ \E i \in Isolate, n \in Nonce \cup {None} : Arrive(q, i, n)
        \/ FlagRead(q) \/ TakeDurable(q) \/ KvGet(q) \/ KvDelete(q) \/ StoreError(q)
        \/ \E n \in Nonce : IssueNonce(q, n)
    \/ \E set \in BOOLEAN : GuardRuns(set)
    \/ \E r \in Region : CatchUp(r)
    \/ \E n \in Nonce : KvExpire(n)
    \/ \E i \in Isolate : Evict(i)
    \/ Tick

Spec == Init /\ [][Next]_vars

-----------------------------------------------------------------------------
(* A nonce the Durable Object issued is accepted at most once, and so is every nonce of a single-use
   deployment, whatever isolates on KV, the degrade flag and lost answers do. *)
DurableOnce ==
    \A n \in Nonce : issued[n].by = Durable \/ cfg.singleUse =>
        \A p, q \in taken[n] : p = q

(* No nonce is accepted at or after the expiry its client was told, though KV keeps the key longer
   and a region may go on reading it after it was dropped. *)
AcceptedInTime ==
    [][\A n \in Nonce : taken'[n] # taken[n] => now < issued[n].expiry]_vars

(* What KV may repeat are requests that overlap or that come from another region: a request that
   reaches a region after its nonce was spent there, or by the object anywhere, is refused. *)
SpentIsRefused == \A n \in Nonce : \A q \in taken[n] : ~req[q].late

(* A single-use deployment redeems: no request of it ever runs on a state without the redemption
   store, which `handle` would answer with an exception after the proof was accepted. *)
RedemptionsPresent == cfg.singleUse => \A q \in Request : req[q].use # Kv

(***************************************************************************)
(* The inductive invariant behind them: which store may hold a nonce       *)
(* follows from who issued it, and an acceptance leaves it where no later  *)
(* request of the same store and region finds it.                          *)
(***************************************************************************)

(* What a request between its awaits may count on. *)
Knows(q) ==
    /\ req[q].pc # "idle" => req[q].iso \in Isolate
    /\ req[q].pc \in {"issue", "take"} => req[q].use \in Backends
    /\ req[q].pc = "flag" => ~cfg.singleUse
    /\ req[q].pc = "take" => req[q].nonce \in Nonce
    /\ req[q].pc = "delete" =>
          /\ req[q].use = Kv /\ req[q].nonce \in Nonce /\ ~req[q].late
          /\ issued[req[q].nonce] = [by |-> Kv, expiry |-> req[q].read]
    /\ req[q].late => req[q].nonce \in Nonce /\ SpentFor(req[q].nonce, Home[req[q].iso])

(* A store holds the nonces it issued, with the expiry their clients were told. *)
StoresHoldTheirOwn ==
    \A n \in Nonce :
        /\ object[n] # Absent => issued[n] = [by |-> Durable, expiry |-> object[n]]
        /\ kv[n] # NoEntry => issued[n] = [by |-> Kv, expiry |-> kv[n].e]
        /\ \A r \in Region : view[r][n] # NoEntry => issued[n] = [by |-> Kv, expiry |-> view[r][n].e]

(* What was accepted is gone from the object, or from KV and the region that took it. *)
AcceptedIsGone ==
    \A n \in Nonce : \A q \in taken[n] :
        /\ req[q].pc = "200" /\ req[q].use = issued[n].by /\ req[q].use \in Backends
        /\ object[n] = Absent /\ kv[n] = NoEntry
        /\ req[q].use = Kv => view[Home[req[q].iso]][n] = NoEntry

(* Single use never falls back to KV. *)
StaysDurable == cfg.singleUse => \A i \in Isolate : cached[i] # Kv

NonceInv ==
    /\ TypeOK /\ (\A q \in Request : Knows(q)) /\ StoresHoldTheirOwn /\ AcceptedIsGone /\ StaysDurable
    /\ DurableOnce /\ SpentIsRefused /\ RedemptionsPresent
=============================================================================
