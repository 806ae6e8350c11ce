---------------------------- MODULE OwnershipCache ----------------------------
(***************************************************************************)
(* The ownership check: `SuiRpc::owns_nft` and `scan_owned` of             *)
(* core/src/chain.rs.  Concurrent checks share one cache; a check that     *)
(* misses it reads the wallet's objects page by page from a full node,     *)
(* while passes change hands.  A pass that is exhausted stays in its       *)
(* wallet, on a page, but does not count.                                  *)
(***************************************************************************)
EXTENDS Naturals, FiniteSets

CONSTANTS
    Check,       \* calls of owns_nft
    Wallet,
    Pass,        \* pass objects, numbered in the order the node lists them
    PageSize,    \* OWNED_PAGE_SIZE
    MaxPages,    \* MAX_OWNED_PAGES
    CacheTtl,    \* OWNERSHIP_CACHE_TTL_MS, where it is not 0
    MaxCache,    \* MAX_CACHE_ENTRIES
    Timeout,     \* RPC_TIMEOUT_SECS, the deadline of a scan, checked between pages
    CallMax,     \* longest time one page request takes
    Nobody,      \* no wallet asked about yet
    Unreliable,  \* TRUE: page requests may fail
    MaxChanges,  \* bound: changes of the chain
    MaxTime      \* bound: the clock stops here

ASSUME CacheTypes ==
    /\ {CacheTtl, Timeout, CallMax, MaxChanges, MaxTime} \subseteq Nat
    /\ {PageSize, MaxPages, MaxCache} \subseteq Nat \ {0}
    /\ Pass \subseteq Nat \ {0}
    /\ Unreliable \in BOOLEAN
    /\ Nobody \notin Wallet

VARIABLES
    caching,  \* OWNERSHIP_CACHE_TTL_MS is not 0: there is a cache
    now,      \* the clock
    owner,    \* chain: owner[p]
    usable,   \* chain: the passes with uses left
    changes,  \* number of chain changes so far
    cache,    \* cache[w] = [owns, expiry]; expiry 0 is no entry
    pc,       \* pc[c]: idle, awaiting a page, its reply, or the outcome
    wallet,   \* wallet[c]: the wallet c asks about
    scan,     \* scan[c]: page token, pages asked for, and the last page's content
    asked,    \* asked[c]: when c started (`started` of scan_owned)
    called,   \* called[c]: when the current page was asked for
    since,    \* history: since[p] is when p last changed
    lastHeld  \* history: the last moment at which w held a usable pass

chain == <<owner, usable, changes>>
vars  == <<caching, now, chain, cache, pc, wallet, scan, asked, called, since, lastHeld>>

(* The process starts late enough for 0 to mean "never". *)
Epoch == CacheTtl + Timeout + CallMax + 1

NoEntry == [owns |-> FALSE, expiry |-> 0]

(* The n-th page, the one after token, is asked for. *)
Asking(token, n) == [token |-> token, pages |-> n, found |-> FALSE, next |-> 0]
NoScan == Asking(0, 0)

TypeOK ==
    /\ caching \in BOOLEAN
    /\ now \in Nat
    /\ owner \in [Pass -> Wallet]
    /\ usable \subseteq Pass
    /\ changes \in Nat
    /\ cache \in [Wallet -> [owns : BOOLEAN, expiry : Nat]]
    /\ pc \in [Check -> {"idle", "reading", "replied", "yes", "no", "error"}]
    /\ wallet \in [Check -> Wallet \cup {Nobody}]
    /\ scan \in [Check -> [token : Nat, pages : Nat, found : BOOLEAN, next : Nat]]
    /\ asked \in [Check -> Nat]
    /\ called \in [Check -> Nat]
    /\ since \in [Pass -> Nat]
    /\ lastHeld \in [Wallet -> Nat]

Holds(w) == \E p \in usable : owner[p] = w

Init ==
    /\ caching \in BOOLEAN
    /\ now = Epoch
    /\ owner \in [Pass -> Wallet]
    /\ usable = Pass
    /\ changes = 0
    /\ cache = [w \in Wallet |-> NoEntry]
    /\ pc = [c \in Check |-> "idle"]
    /\ wallet = [c \in Check |-> Nobody]
    /\ scan = [c \in Check |-> NoScan]
    /\ asked = [c \in Check |-> 0]
    /\ called = [c \in Check |-> 0]
    /\ since = [p \in Pass |-> 0]
    /\ lastHeld = [w \in Wallet |-> IF Holds(w) THEN now ELSE 0]

-----------------------------------------------------------------------------
(* The cache. *)

(* Mutants of Entry: an entry, respectively a refusal, lives three times as long. *)
EntryLong(owns) == [owns |-> owns, expiry |-> now + 3 * CacheTtl]
EntryLongRefusal(owns) == [owns |-> owns, expiry |-> now + (IF owns THEN 1 ELSE 3) * CacheTtl]

Entry(owns) == [owns |-> owns, expiry |-> now + CacheTtl]

(* Mutant of Victims: room is made one entry too late. *)
VictimsLate(live, kept) ==
    {v \in live : Cardinality(live) > MaxCache /\ \A u \in live : kept[v].expiry <= kept[u].expiry}

(* At the cap, an entry that expires soonest makes room, perhaps the wallet's own. *)
Victims(live, kept) ==
    {v \in live : Cardinality(live) >= MaxCache /\ \A u \in live : kept[v].expiry <= kept[u].expiry}

(* The caches that storing an answer may leave behind: expired entries go first. *)
Stored(w, owns) ==
    LET kept  == [v \in Wallet |-> IF cache[v].expiry > now THEN cache[v] ELSE NoEntry]
        live  == {v \in Wallet : kept[v] # NoEntry}
        drops == Victims(live, kept)
        room  == IF drops = {} THEN {kept} ELSE {[kept EXCEPT ![v] = NoEntry] : v \in drops}
    IN  {[table EXCEPT ![w] = Entry(owns)] : table \in room}

Outcome(owns) == IF owns THEN "yes" ELSE "no"

(* A check is over: its answer is cached, when there is a cache. *)
Finish(c, owns) ==
    /\ pc' = [pc EXCEPT ![c] = Outcome(owns)]
    /\ cache' \in IF caching THEN Stored(wallet[c], owns) ELSE {cache}
    /\ scan' = [scan EXCEPT ![c] = NoScan]
    /\ UNCHANGED called

Fail(c) ==
    /\ pc' = [pc EXCEPT ![c] = "error"]
    /\ scan' = [scan EXCEPT ![c] = NoScan]
    /\ UNCHANGED <<cache, called>>

-----------------------------------------------------------------------------
(* One check. *)

(* An unexpired entry answers at once. *)
Hit(c, w) ==
    /\ pc[c] = "idle"
    /\ caching /\ cache[w].expiry > now
    /\ wallet' = [wallet EXCEPT ![c] = w]
    /\ asked' = [asked EXCEPT ![c] = now]
    /\ pc' = [pc EXCEPT ![c] = Outcome(cache[w].owns)]
    /\ UNCHANGED <<now, chain, cache, scan, called, since, lastHeld>>

(* Otherwise the first page is asked for. *)
Miss(c, w) ==
    /\ pc[c] = "idle"
    /\ ~caching \/ cache[w].expiry <= now
    /\ wallet' = [wallet EXCEPT ![c] = w]
    /\ asked' = [asked EXCEPT ![c] = now]
    /\ called' = [called EXCEPT ![c] = now]
    /\ scan' = [scan EXCEPT ![c] = Asking(0, 1)]
    /\ pc' = [pc EXCEPT ![c] = "reading"]
    /\ UNCHANGED <<now, chain, cache, since, lastHeld>>

(* The wallet's objects after the page token, and the first page of them. *)
Rest(w, token) == {p \in Pass : owner[p] = w /\ p > token}
Page(w, token) ==
    {p \in Rest(w, token) : Cardinality({q \in Rest(w, token) : q < p}) < PageSize}

(* The token of the next page: the last object of this one, 0 if there is no more. *)
NextToken(w, token) ==
    LET page == Page(w, token)
    IN  IF Rest(w, token) = page THEN {0} ELSE {p \in page : \A q \in page : q <= p}

(* Mutant of PageIsUsable: an exhausted pass counts. *)
PageHasPass(page) == page # {}
(* `response_has_owned`: some pass on the page is usable. *)
PageIsUsable(page) == page \cap usable # {}

(* The node answers the page request from its state of this moment. *)
ReadPage(c) ==
    /\ pc[c] = "reading"
    /\ \E next \in NextToken(wallet[c], scan[c].token) :
          scan' = [scan EXCEPT ![c].found = PageIsUsable(Page(wallet[c], scan[c].token)),
                               ![c].next = next]
    /\ pc' = [pc EXCEPT ![c] = "replied"]
    /\ UNCHANGED <<now, chain, cache, wallet, asked, called, since, lastHeld>>

(* Mutant of GiveUp: a list that is too long is read as "no pass". *)
GiveUpQuietly(c) == Finish(c, FALSE)
(* "Refusing to decide ownership", or the scan's deadline has passed. *)
GiveUp(c) == Fail(c)

Late(c) == now - asked[c] > Timeout

(* The page reaches the handler: a usable pass decides, the last page decides,
   or the next page is asked for within the page and time limits. *)
PageReply(c) ==
    /\ pc[c] = "replied"
    /\ \/ scan[c].found /\ Finish(c, TRUE)
       \/ ~scan[c].found /\ scan[c].next = 0 /\ Finish(c, FALSE)
       \/ /\ ~scan[c].found /\ scan[c].next # 0
          /\ scan[c].pages >= MaxPages \/ Late(c)
          /\ GiveUp(c)
       \/ /\ ~scan[c].found /\ scan[c].next # 0
          /\ scan[c].pages < MaxPages /\ ~Late(c)
          /\ scan' = [scan EXCEPT ![c] = Asking(scan[c].next, scan[c].pages + 1)]
          /\ called' = [called EXCEPT ![c] = now]
          /\ pc' = [pc EXCEPT ![c] = "reading"]
          /\ UNCHANGED cache
    /\ UNCHANGED <<now, chain, wallet, asked, since, lastHeld>>

(* The page request fails or times out. *)
PageError(c) ==
    /\ Unreliable
    /\ pc[c] \in {"reading", "replied"}
    /\ Fail(c)
    /\ UNCHANGED <<now, chain, wallet, asked, since, lastHeld>>

-----------------------------------------------------------------------------
(* The chain and the clock. *)

Changed(p) ==
    /\ changes < MaxChanges
    /\ changes' = changes + 1
    /\ since' = [since EXCEPT ![p] = now]
    /\ lastHeld' = [w \in Wallet |-> IF Holds(w) \/ Holds(w)' THEN now ELSE lastHeld[w]]
    /\ UNCHANGED <<now, cache, pc, wallet, scan, asked, called>>

Transfer(p, w) ==
    /\ owner[p] # w
    /\ owner' = [owner EXCEPT ![p] = w]
    /\ UNCHANGED usable
    /\ Changed(p)

Exhaust(p) ==
    /\ p \in usable
    /\ usable' = usable \ {p}
    /\ UNCHANGED owner
    /\ Changed(p)

(* Time passes, but no page request takes longer than its limit. *)
Tick ==
    /\ now < Epoch + MaxTime
    /\ \A c \in Check : pc[c] \in {"reading", "replied"} => now < called[c] + CallMax
    /\ now' = now + 1
    /\ lastHeld' = [w \in Wallet |-> IF Holds(w) THEN now + 1 ELSE lastHeld[w]]
    /\ UNCHANGED <<chain, cache, pc, wallet, scan, asked, called, since>>

(* The bounded run is over. *)
Quiesce ==
    /\ now = Epoch + MaxTime
    /\ \A c \in Check : pc[c] \notin {"reading", "replied"}
    /\ UNCHANGED vars

Answer(c) == ReadPage(c) \/ PageReply(c)

Work ==
    \/ \E c \in Check : (\E w \in Wallet : Hit(c, w) \/ Miss(c, w)) \/ Answer(c) \/ PageError(c)
    \/ \E p \in Pass : Exhaust(p) \/ \E w \in Wallet : Transfer(p, w)
    \/ Tick
    \/ Quiesce

Next == Work /\ UNCHANGED caching

Spec == Init /\ [][Next]_vars

-----------------------------------------------------------------------------
(* Properties. *)

(* How old the evidence behind an answer may be: none older than the check itself
   without a cache, else a cached answer and the calls that produced it. *)
GrantLag   == IF caching THEN CacheTtl + CallMax ELSE 0
RefusalLag == IF caching THEN CacheTtl + Timeout + CallMax ELSE 0

(* "A gated action is always confirmed on-chain", up to "a brief staleness window"
   with the cache: the wallet of a granted check held a usable pass while the
   check ran or at most a TTL and one call before, also when a slow scan stores
   its answer over a newer one. *)
GrantIsRecent ==
    \A c \in Check : pc[c] = "yes" => lastHeld[wallet[c]] + GrantLag >= asked[c]

(* A holder is not refused: if a check says no, every usable pass its wallet has
   came after the evidence, through any number of pages and changes of hands. *)
RefusalIsRecent ==
    \A c \in Check : pc[c] = "no" =>
        \A p \in usable : owner[p] = wallet[c] => since[p] + RefusalLag >= asked[c]

(* "The oldest is dropped past it": the cache stays within MAX_CACHE_ENTRIES. *)
CacheCapped == Cardinality({w \in Wallet : cache[w] # NoEntry}) <= MaxCache

(***************************************************************************)
(* The inductive invariant behind GrantIsRecent: evidence is passed from   *)
(* the chain (HeldNow) to a page (PageEvidence) to the cache               *)
(* (EntryEvidence), and loses at most one call and one TTL on the way.     *)
(***************************************************************************)

Waiting(c) == pc[c] \in {"reading", "replied"}

HeldNow ==
    \A w \in Wallet : lastHeld[w] <= now /\ (Holds(w) => lastHeld[w] = now)

OnTime ==
    \A c \in Check : Waiting(c) =>
        /\ wallet[c] \in Wallet
        /\ asked[c] <= called[c] /\ called[c] <= now /\ now <= called[c] + CallMax

PageEvidence ==
    \A c \in Check :
        pc[c] = "replied" /\ scan[c].found => lastHeld[wallet[c]] >= called[c]

EntryEvidence ==
    \A w \in Wallet :
        cache[w].owns => lastHeld[w] + CacheTtl + CallMax >= cache[w].expiry

GrantedWallet == \A c \in Check : pc[c] = "yes" => wallet[c] \in Wallet

(* No answer, in flight, cached or given, is more favourable than its evidence. *)
CacheInv ==
    TypeOK /\ HeldNow /\ OnTime /\ PageEvidence /\ EntryEvidence /\ GrantedWallet /\ GrantIsRecent

(***************************************************************************)
(* The inductive invariant behind RefusalIsRecent: below the page token a  *)
(* scan has seen no usable pass, so one that is there now came after the   *)
(* scan began; a stored refusal is as old as its scan, and no older than   *)
(* one deadline, one call and one TTL when it expires.                     *)
(***************************************************************************)

NoClockSkew ==
    /\ \A c \in Check : asked[c] <= now
    /\ \A w \in Wallet : cache[w].expiry <= now + CacheTtl

WithinDeadline == \A c \in Check : Waiting(c) => called[c] <= asked[c] + Timeout

(* The pass is not on a page the scan still has to see. *)
Passed(c, p) ==
    IF pc[c] = "reading" THEN p <= scan[c].token ELSE scan[c].next = 0 \/ p <= scan[c].next

ScanEvidence ==
    \A c \in Check :
        pc[c] = "reading" \/ (pc[c] = "replied" /\ ~scan[c].found) =>
            \A p \in usable : owner[p] = wallet[c] /\ Passed(c, p) => since[p] >= asked[c]

RefusalEvidence ==
    \A p \in usable :
        ~cache[owner[p]].owns => since[p] + CacheTtl + Timeout + CallMax >= cache[owner[p]].expiry

RefusalInv ==
    /\ NoClockSkew /\ WithinDeadline /\ ScanEvidence /\ RefusalEvidence
    /\ RefusalIsRecent

(* If a check says no, every usable pass its wallet has came after the evidence, although scans
   finish out of order over a cache at its cap, which it never exceeds. *)
RefusalsAreRecent == CacheInv /\ RefusalInv /\ CacheCapped
=============================================================================
