------------------------- MODULE OwnershipCacheProofs -------------------------
(***************************************************************************)
(* A granted ownership check rests on recent evidence, and so does a       *)
(* refused one, for every set of wallets, passes and checks, every page    *)
(* size and limit and every TTL; the cache stays within its cap.           *)
(***************************************************************************)
EXTENDS OwnershipCache, FiniteSetTheorems, WellFoundedInduction, TLAPS

CacheTable == [Wallet -> [owns : BOOLEAN, expiry : Nat]]

(* Typed facts about the constants. *)
LEMMA ConstantFacts ==
    CacheTtl \in Nat /\ CallMax \in Nat /\ Timeout \in Nat /\ Epoch \in Nat
  BY CacheTypes DEF Epoch

(* The configuration stays: whether there is a cache, and so how old evidence may be. *)
LEMMA SteadyLags ==
    ASSUME [Next]_vars
    PROVE  UNCHANGED <<caching, GrantLag, RefusalLag>>
  <1>1. caching' = caching
    BY DEF Next, vars
  <1>. QED
    BY <1>1 DEF GrantLag, RefusalLag

(* Storing an answer touches one entry; the others stay or go. *)
LEMMA StoredFacts ==
    ASSUME cache \in CacheTable, now \in Nat,
           NEW w \in Wallet, NEW owns \in BOOLEAN, NEW table \in Stored(w, owns)
    PROVE  /\ table \in CacheTable
           /\ table[w] = Entry(owns)
           /\ \A v \in Wallet \ {w} : table[v] = cache[v] \/ table[v] = NoEntry
  <1> DEFINE kept == [v \in Wallet |-> IF cache[v].expiry > now THEN cache[v] ELSE NoEntry]
             live == {v \in Wallet : kept[v] # NoEntry}
             room == IF Victims(live, kept) = {} THEN {kept}
                     ELSE {[kept EXCEPT ![v] = NoEntry] : v \in Victims(live, kept)}
  <1>1. kept \in CacheTable
    BY DEF CacheTable, NoEntry
  <1>2. \A v \in Wallet : kept[v] = cache[v] \/ kept[v] = NoEntry
    OBVIOUS
  <1>3. PICK base \in room : table = [base EXCEPT ![w] = Entry(owns)]
    BY DEF Stored
  <1>4. base \in CacheTable /\ \A v \in Wallet : base[v] = cache[v] \/ base[v] = NoEntry
    <2>1. CASE base = kept
      BY <2>1, <1>1, <1>2
    <2>2. CASE base # kept
      <3>1. PICK v \in Victims(live, kept) : base = [kept EXCEPT ![v] = NoEntry]
        BY <1>3, <2>2
      <3>2. v \in Wallet
        BY <3>1 DEF Victims
      <3> HIDE DEF kept
      <3>. QED
        BY <3>1, <3>2, <1>1, <1>2 DEF CacheTable, NoEntry
    <2>. QED
      BY <2>1, <2>2
  <1>5. Entry(owns) \in [owns : BOOLEAN, expiry : Nat]
    BY ConstantFacts DEF Entry
  <1>. QED
    BY <1>3, <1>4, <1>5 DEF CacheTable


(***************************************************************************)
(* Steps of a check: the chain and the clock stand still.                  *)
(***************************************************************************)

(* A check that ends without an answer disturbs nothing. *)
LEMMA FailStep ==
    ASSUME UNCHANGED <<caching, GrantLag, RefusalLag>>,
           CacheInv, NEW c \in Check, Fail(c),
           UNCHANGED <<now, chain, wallet, asked, since, lastHeld>>
    PROVE  CacheInv'
  <1> USE DEF CacheInv, Fail, chain
  <1>1. TypeOK'
    BY DEF TypeOK, NoScan, Asking
  <1>2. HeldNow' /\ EntryEvidence'
    BY DEF HeldNow, EntryEvidence, Holds
  <1>3. OnTime' /\ PageEvidence' /\ GrantedWallet' /\ GrantIsRecent'
    BY DEF OnTime, PageEvidence, GrantedWallet, GrantIsRecent, Waiting, TypeOK
  <1>. QED
    BY <1>1, <1>2, <1>3

(* A check that ends with an answer passes its evidence on to the cache. *)
LEMMA FinishStep ==
    ASSUME UNCHANGED <<caching, GrantLag, RefusalLag>>,
           CacheInv, NEW c \in Check, NEW owns \in BOOLEAN, pc[c] = "replied",
           owns => scan[c].found, Finish(c, owns),
           UNCHANGED <<now, chain, wallet, asked, since, lastHeld>>
    PROVE  CacheInv'
  <1> USE DEF CacheInv
  <1>1. /\ wallet[c] \in Wallet /\ asked[c] \in Nat /\ called[c] \in Nat /\ now \in Nat
        /\ asked[c] <= called[c] /\ now <= called[c] + CallMax
        /\ lastHeld[wallet[c]] \in Nat
        /\ owns => lastHeld[wallet[c]] >= called[c]
    BY DEF OnTime, Waiting, PageEvidence, TypeOK
  <1>2. /\ cache' \in CacheTable
        /\ \A v \in Wallet :
              \/ cache'[v] = cache[v]
              \/ cache'[v] = NoEntry
              \/ v = wallet[c] /\ cache'[v] = Entry(owns)
    <2>1. cache \in CacheTable /\ now \in Nat
      BY DEF TypeOK, CacheTable
    <2>2. CASE ~caching
      BY <2>1, <2>2 DEF Finish
    <2>3. CASE caching
      <3>1. cache' \in Stored(wallet[c], owns)
        BY <2>3 DEF Finish
      <3>. QED
        BY <3>1, <2>1, <1>1, StoredFacts
    <2>. QED
      BY <2>2, <2>3
  <1>3. /\ pc' = [pc EXCEPT ![c] = Outcome(owns)]
        /\ scan' = [scan EXCEPT ![c] = NoScan]
        /\ UNCHANGED <<now, owner, usable, changes, wallet, asked, called, since, lastHeld>>
    BY DEF Finish, chain
  <1>4. TypeOK'
    BY <1>2, <1>3 DEF TypeOK, NoScan, Asking, CacheTable, Outcome
  <1>5. HeldNow'
    BY <1>3 DEF HeldNow, Holds
  <1>6. OnTime' /\ PageEvidence' /\ GrantedWallet'
    BY <1>1, <1>3 DEF OnTime, PageEvidence, GrantedWallet, Waiting, TypeOK, Outcome
  <1>7. EntryEvidence'
    <2>1. Entry(owns).owns => lastHeld[wallet[c]] + CacheTtl + CallMax >= Entry(owns).expiry
      BY <1>1, ConstantFacts DEF Entry
    <2> SUFFICES ASSUME NEW v \in Wallet, cache'[v].owns
                 PROVE  lastHeld[v] + CacheTtl + CallMax >= cache'[v].expiry
      BY <1>3 DEF EntryEvidence
    <2>2. CASE cache'[v] = cache[v]
      BY <2>2 DEF EntryEvidence
    <2>3. CASE cache'[v] = NoEntry
      BY <2>3 DEF NoEntry
    <2>4. CASE v = wallet[c] /\ cache'[v] = Entry(owns)
      BY <2>1, <2>4
    <2>. QED
      BY <1>2, <2>2, <2>3, <2>4
  <1>8. GrantIsRecent'
    <2>1. owns => lastHeld[wallet[c]] + GrantLag >= asked[c]
      BY <1>1, ConstantFacts DEF GrantLag
    <2>. QED
      BY <2>1, <1>3 DEF GrantIsRecent, Outcome, TypeOK
  <1>. QED
    BY <1>4, <1>5, <1>6, <1>7, <1>8

(* A hit hands the entry's evidence to the check. *)
LEMMA HitStep ==
    ASSUME UNCHANGED <<caching, GrantLag, RefusalLag>>,
           CacheInv, NEW c \in Check, NEW w \in Wallet, Hit(c, w)
    PROVE  CacheInv'
  <1> USE DEF CacheInv
  <1>1. /\ pc' = [pc EXCEPT ![c] = Outcome(cache[w].owns)]
        /\ wallet' = [wallet EXCEPT ![c] = w]
        /\ asked' = [asked EXCEPT ![c] = now]
        /\ pc[c] = "idle" /\ caching /\ cache[w].expiry > now
        /\ UNCHANGED <<now, owner, usable, changes, cache, scan, called, since, lastHeld>>
    BY DEF Hit, chain
  <1>2. TypeOK'
    BY <1>1 DEF TypeOK, Outcome
  <1>3. HeldNow' /\ EntryEvidence'
    BY <1>1 DEF HeldNow, EntryEvidence, Holds
  <1>4. OnTime' /\ PageEvidence' /\ GrantedWallet'
    BY <1>1 DEF OnTime, PageEvidence, GrantedWallet, Waiting, TypeOK, Outcome
  <1>5. GrantIsRecent'
    <2>1. cache[w].owns => lastHeld[w] + GrantLag >= now
      BY <1>1, ConstantFacts DEF EntryEvidence, GrantLag, TypeOK
    <2>. QED
      BY <2>1, <1>1 DEF GrantIsRecent, Outcome, TypeOK
  <1>. QED
    BY <1>2, <1>3, <1>4, <1>5

(* Asking for a page, the first or the next. *)
LEMMA AskStep ==
    ASSUME UNCHANGED <<caching, GrantLag, RefusalLag>>,
           CacheInv, NEW c \in Check, NEW w \in Wallet, NEW t \in Nat, NEW n \in Nat, NEW a \in Nat,
           pc[c] \in {"idle", "replied"}, a <= now,
           wallet' = [wallet EXCEPT ![c] = w], asked' = [asked EXCEPT ![c] = a],
           called' = [called EXCEPT ![c] = now],
           scan' = [scan EXCEPT ![c] = Asking(t, n)],
           pc' = [pc EXCEPT ![c] = "reading"],
           UNCHANGED <<now, chain, cache, since, lastHeld>>
    PROVE  CacheInv'
  <1> USE DEF CacheInv, chain
  <1>1. TypeOK'
    BY DEF TypeOK, NoScan, Asking
  <1>2. HeldNow' /\ EntryEvidence'
    BY DEF HeldNow, EntryEvidence, Holds
  <1>3. OnTime'
    BY ConstantFacts DEF OnTime, Waiting, TypeOK
  <1>4. PageEvidence' /\ GrantedWallet' /\ GrantIsRecent'
    BY DEF PageEvidence, GrantedWallet, GrantIsRecent, TypeOK
  <1>. QED
    BY <1>1, <1>2, <1>3, <1>4

(* The node's answer is evidence of this moment. *)
LEMMA ReadStep ==
    ASSUME UNCHANGED <<caching, GrantLag, RefusalLag>>,
           CacheInv, NEW c \in Check, ReadPage(c)
    PROVE  CacheInv'
  <1> USE DEF CacheInv
  <1> DEFINE w == wallet[c]
             found == PageIsUsable(Page(w, scan[c].token))
  <1>1. PICK next \in NextToken(w, scan[c].token) :
           scan' = [scan EXCEPT ![c].found = found, ![c].next = next]
    BY DEF ReadPage
  <1>2. /\ pc[c] = "reading"
        /\ pc' = [pc EXCEPT ![c] = "replied"]
        /\ UNCHANGED <<now, owner, usable, changes, cache, wallet, asked, called, since, lastHeld>>
    BY DEF ReadPage, chain
  <1>3. found \in BOOLEAN /\ next \in Nat
    BY <1>1, CacheTypes DEF PageIsUsable, NextToken, Page, Rest
  <1>4. scan[c] \in [token : Nat, pages : Nat, found : BOOLEAN, next : Nat]
    BY DEF TypeOK
  <1>5. /\ scan' \in [Check -> [token : Nat, pages : Nat, found : BOOLEAN, next : Nat]]
        /\ scan'[c].found = found
        /\ \A d \in Check \ {c} : scan'[d] = scan[d]
    BY <1>1, <1>3, <1>4 DEF TypeOK
  <1>6. TypeOK'
    BY <1>2, <1>5 DEF TypeOK
  <1>7. HeldNow' /\ EntryEvidence'
    BY <1>2 DEF HeldNow, EntryEvidence, Holds
  <1>8. OnTime' /\ GrantedWallet' /\ GrantIsRecent'
    BY <1>2 DEF OnTime, GrantedWallet, GrantIsRecent, Waiting, TypeOK
  <1>9. PageEvidence'
    <2>1. found => Holds(w)
      BY DEF PageIsUsable, Page, Rest, Holds
    <2>2. w \in Wallet /\ called[c] <= now
      BY <1>2 DEF OnTime, Waiting
    <2>3. found => lastHeld[w] >= called[c]
      BY <2>1, <2>2 DEF HeldNow, TypeOK
    <2>. QED
      BY <2>3, <1>2, <1>5 DEF PageEvidence, TypeOK
  <1>. QED
    BY <1>6, <1>7, <1>8, <1>9

(* A miss asks for the first page. *)
LEMMA MissStep ==
    ASSUME UNCHANGED <<caching, GrantLag, RefusalLag>>,
           CacheInv, NEW c \in Check, NEW w \in Wallet, Miss(c, w)
    PROVE  CacheInv'
  <1>1. now \in Nat /\ now <= now /\ 0 \in Nat /\ 1 \in Nat /\ pc[c] \in {"idle", "replied"}
    BY DEF CacheInv, TypeOK, Miss
  <1>2. /\ scan' = [scan EXCEPT ![c] = Asking(0, 1)]
        /\ pc' = [pc EXCEPT ![c] = "reading"]
        /\ wallet' = [wallet EXCEPT ![c] = w]
        /\ asked' = [asked EXCEPT ![c] = now]
        /\ called' = [called EXCEPT ![c] = now]
        /\ UNCHANGED <<now, chain, cache, since, lastHeld>>
    BY DEF Miss
  <1>. QED
    BY <1>1, <1>2, AskStep

(* A page's reply ends the check or leads to the next page. *)
LEMMA ReplyStep ==
    ASSUME UNCHANGED <<caching, GrantLag, RefusalLag>>,
           CacheInv, NEW c \in Check, PageReply(c)
    PROVE  CacheInv'
  <1> DEFINE Ask == /\ scan' = [scan EXCEPT ![c] = Asking(scan[c].next, scan[c].pages + 1)]
                    /\ called' = [called EXCEPT ![c] = now]
                    /\ pc' = [pc EXCEPT ![c] = "reading"]
                    /\ UNCHANGED cache
  <1>1. /\ pc[c] = "replied"
        /\ UNCHANGED <<now, chain, wallet, asked, since, lastHeld>>
        /\ \/ scan[c].found /\ Finish(c, TRUE)
           \/ Finish(c, FALSE)
           \/ Fail(c)
           \/ Ask
    BY DEF PageReply, GiveUp
  <1>2. CASE scan[c].found /\ Finish(c, TRUE)
    BY <1>1, <1>2, FinishStep
  <1>3. CASE Finish(c, FALSE)
    BY <1>1, <1>3, FinishStep
  <1>4. CASE Fail(c)
    BY <1>1, <1>4, FailStep
  <1>5. CASE Ask
    <2>1. /\ wallet[c] \in Wallet /\ asked[c] \in Nat /\ asked[c] <= now
          /\ scan[c].next \in Nat /\ scan[c].pages + 1 \in Nat
      BY <1>1 DEF CacheInv, TypeOK, OnTime, Waiting
    <2>2. /\ wallet' = [wallet EXCEPT ![c] = wallet[c]]
          /\ asked' = [asked EXCEPT ![c] = asked[c]]
      BY <1>1 DEF CacheInv, TypeOK
    <2>3. UNCHANGED <<now, chain, cache, since, lastHeld>>
      BY <1>1, <1>5
    <2>. QED
      BY <1>1, <1>5, <2>1, <2>2, <2>3, AskStep
  <1>. QED
    BY <1>1, <1>2, <1>3, <1>4, <1>5

-----------------------------------------------------------------------------
(* The chain and the clock only move the evidence forward. *)

LEMMA ChangedStep ==
    ASSUME UNCHANGED <<caching, GrantLag, RefusalLag>>,
           CacheInv, NEW p \in Pass, Changed(p),
           owner' \in [Pass -> Wallet], usable' \subseteq Pass
    PROVE  CacheInv'
  <1> USE DEF CacheInv
  <1>1. /\ changes' = changes + 1
        /\ since' = [since EXCEPT ![p] = now]
        /\ UNCHANGED <<now, cache, pc, wallet, scan, asked, called>>
    BY DEF Changed
  <1>2. /\ \A w \in Wallet : lastHeld'[w] = now \/ lastHeld'[w] = lastHeld[w]
        /\ \A w \in Wallet : (\E q \in usable' : owner'[q] = w) => lastHeld'[w] = now
    BY DEF Changed, Holds
  <1>3. lastHeld' \in [Wallet -> Nat]
    BY DEF Changed, TypeOK
  <1>4. \A w \in Wallet : lastHeld'[w] >= lastHeld[w] /\ lastHeld'[w] <= now
    <2>1. \A w \in Wallet : lastHeld[w] \in Nat /\ lastHeld[w] <= now /\ now \in Nat
      BY DEF HeldNow, TypeOK
    <2>2. \A w \in Wallet : lastHeld'[w] = now \/ lastHeld'[w] = lastHeld[w]
      BY <1>2
    <2>. QED
      BY <2>1, <2>2
  <1>5. TypeOK'
    BY <1>1, <1>3 DEF TypeOK
  <1>6. HeldNow'
    BY <1>1, <1>2, <1>4 DEF HeldNow, Holds
  <1>7. OnTime' /\ GrantedWallet'
    BY <1>1 DEF OnTime, GrantedWallet, Waiting
  <1>8. PageEvidence' /\ EntryEvidence' /\ GrantIsRecent'
    <2>1. GrantLag \in Nat
      BY ConstantFacts DEF GrantLag
    <2>2. PageEvidence'
      BY <1>1, <1>3, <1>4 DEF PageEvidence, OnTime, Waiting, TypeOK
    <2>3. EntryEvidence'
      BY <1>1, <1>3, <1>4, ConstantFacts DEF EntryEvidence, TypeOK
    <2>4. GrantIsRecent'
      BY <1>1, <1>3, <1>4, <2>1 DEF GrantIsRecent, GrantedWallet, TypeOK
    <2>. QED
      BY <2>2, <2>3, <2>4
  <1>. QED
    BY <1>5, <1>6, <1>7, <1>8

LEMMA TickStep ==
    ASSUME UNCHANGED <<caching, GrantLag, RefusalLag>>,
           CacheInv, Tick
    PROVE  CacheInv'
  <1> USE DEF CacheInv
  <1>1. /\ now' = now + 1
        /\ \A c \in Check : Waiting(c) => now < called[c] + CallMax
        /\ UNCHANGED <<owner, usable, changes, cache, pc, wallet, scan, asked, called, since>>
    BY DEF Tick, chain, Waiting
  <1>2. /\ lastHeld' \in [Wallet -> Nat]
        /\ \A w \in Wallet : lastHeld'[w] = IF Holds(w) THEN now + 1 ELSE lastHeld[w]
    BY DEF Tick, TypeOK
  <1>3. \A w \in Wallet : lastHeld'[w] >= lastHeld[w] /\ lastHeld'[w] <= now + 1
    BY <1>2 DEF HeldNow, TypeOK
  <1>4. TypeOK'
    BY <1>1, <1>2 DEF TypeOK
  <1>5. HeldNow'
    BY <1>1, <1>2, <1>3 DEF HeldNow, Holds
  <1>6. OnTime' /\ GrantedWallet'
    BY <1>1, ConstantFacts DEF OnTime, GrantedWallet, Waiting, TypeOK
  <1>7. GrantLag \in Nat
    BY ConstantFacts DEF GrantLag
  <1>8. PageEvidence'
    BY <1>1, <1>2, <1>3 DEF PageEvidence, OnTime, Waiting, TypeOK
  <1>9. EntryEvidence'
    BY <1>1, <1>2, <1>3, ConstantFacts DEF EntryEvidence, TypeOK
  <1>10. GrantIsRecent'
    BY <1>1, <1>2, <1>3, <1>7 DEF GrantIsRecent, GrantedWallet, TypeOK
  <1>. QED
    BY <1>4, <1>5, <1>6, <1>8, <1>9, <1>10

LEMMA StutterStep ==
    ASSUME UNCHANGED <<caching, GrantLag, RefusalLag>>, CacheInv, UNCHANGED vars
    PROVE  CacheInv'
  BY DEF vars, chain, CacheInv, TypeOK, HeldNow, Holds, OnTime, Waiting, PageEvidence,
         EntryEvidence, GrantedWallet, GrantIsRecent

LEMMA InitEstablishesInv ==
    ASSUME Init
    PROVE  CacheInv
  <1>1. TypeOK
    BY ConstantFacts DEF Init, TypeOK, NoEntry, NoScan, Asking
  <1>2. HeldNow
    BY ConstantFacts DEF Init, HeldNow
  <1>3. OnTime /\ PageEvidence /\ EntryEvidence /\ GrantedWallet /\ GrantIsRecent
    BY DEF Init, OnTime, Waiting, PageEvidence, EntryEvidence, NoEntry, GrantedWallet, GrantIsRecent
  <1>. QED
    BY <1>1, <1>2, <1>3 DEF CacheInv

-----------------------------------------------------------------------------
(* No answer is more favourable than its evidence: what is in flight, cached or
   given by `owns_nft` and `scan_owned` traces back to the chain. *)
THEOREM AnswersHaveEvidence == Spec => []CacheInv
  <1>1. Init => CacheInv
    BY InitEstablishesInv
  <1>2. CacheInv /\ [Next]_vars => CacheInv'
    <2> SUFFICES ASSUME CacheInv, [Next]_vars PROVE CacheInv'
      OBVIOUS
    <2>0. UNCHANGED <<caching, GrantLag, RefusalLag>>
      BY SteadyLags
    <2> USE <2>0
    <2>1. ASSUME NEW c \in Check, NEW w \in Wallet, Hit(c, w) \/ Miss(c, w) PROVE CacheInv'
      BY <2>1, HitStep, MissStep
    <2>2. ASSUME NEW c \in Check, Answer(c) PROVE CacheInv'
      BY <2>2, ReadStep, ReplyStep DEF Answer
    <2>3. ASSUME NEW c \in Check, PageError(c) PROVE CacheInv'
      BY <2>3, FailStep DEF PageError
    <2>4. ASSUME NEW p \in Pass, Exhaust(p) PROVE CacheInv'
      <3>1. owner' \in [Pass -> Wallet] /\ usable' \subseteq Pass /\ Changed(p)
        BY <2>4 DEF Exhaust, CacheInv, TypeOK
      <3>. QED
        BY <3>1, ChangedStep
    <2>5. ASSUME NEW p \in Pass, NEW w \in Wallet, Transfer(p, w) PROVE CacheInv'
      <3>1. owner' \in [Pass -> Wallet] /\ usable' \subseteq Pass /\ Changed(p)
        BY <2>5 DEF Transfer, CacheInv, TypeOK
      <3>. QED
        BY <3>1, ChangedStep
    <2>. QED
      BY <2>1, <2>2, <2>3, <2>4, <2>5, TickStep, StutterStep DEF Next, Work, Quiesce
  <1>. QED
    BY <1>1, <1>2, PTL DEF Spec

(* A granted check's wallet held a usable pass during the check, or at most one
   TTL and one node call before it: the staleness window of `owns_nft` that the
   cache's comment promises, whatever changes hands and whatever scans overlap. *)
THEOREM GrantsAreRecent == Spec => []GrantIsRecent
  BY AnswersHaveEvidence, PTL DEF CacheInv

-----------------------------------------------------------------------------
(* Refusals.  Each lemma takes CacheInv, proved above, for granted. *)

(* A page without a usable pass leaves none between its token and the next. *)
LEMMA PageCovers ==
    ASSUME TypeOK, NEW w, NEW t \in Nat, ~PageIsUsable(Page(w, t)),
           NEW next \in NextToken(w, t), NEW p \in usable, owner[p] = w, p > t
    PROVE  next # 0 /\ p > next
  <1> DEFINE Before(x) == {q \in Rest(w, t) : q < x}
  <1>1. p \in Rest(w, t) /\ p \in Nat
    BY CacheTypes DEF TypeOK, Rest
  <1>2. p \notin Page(w, t)
    BY DEF PageIsUsable
  <1>3. /\ next \in Page(w, t) /\ next \in Nat \ {0}
        /\ \A q \in Page(w, t) : q <= next
    BY <1>1, <1>2, CacheTypes DEF NextToken, Page, Rest
  <1>4. p # next
    BY <1>2, <1>3
  <1>5. SUFFICES ASSUME p < next PROVE FALSE
    BY <1>1, <1>3, <1>4
  <1>0. Rest(w, t) \subseteq Nat
    BY CacheTypes DEF Rest
  <1>6. Before(p) \subseteq Before(next)
    BY <1>0, <1>1, <1>3, <1>5
  <1>7. IsFiniteSet(Before(next))
    <2>1. Before(next) \subseteq 0..next
      BY <1>0, <1>3
    <2>2. IsFiniteSet(0..next)
      BY <1>3, FS_Interval
    <2>. QED
      BY <2>1, <2>2, FS_Subset
  <1>8. Cardinality(Before(p)) <= Cardinality(Before(next)) /\ IsFiniteSet(Before(p))
    BY <1>6, <1>7, FS_Subset
  <1>9. Cardinality(Before(next)) < PageSize
    BY <1>3 DEF Page
  <1>10. Cardinality(Before(p)) < PageSize
    BY <1>7, <1>8, <1>9, FS_CardinalityType, CacheTypes
  <1>. QED
    BY <1>1, <1>2, <1>10 DEF Page

(* What a step of a check may do to the evidence behind refusals: the clock and
   the chain stand, and any entry it changes is empty or rests on evidence. *)
LEMMA RefusalFrame ==
    ASSUME UNCHANGED <<caching, GrantLag, RefusalLag>>,
           CacheInv, RefusalInv, NEW c \in Check, CacheInv',
           UNCHANGED <<now, owner, usable, since>>,
           \A d \in Check \ {c} :
               /\ pc'[d] = pc[d] /\ wallet'[d] = wallet[d] /\ scan'[d] = scan[d]
               /\ asked'[d] = asked[d] /\ called'[d] = called[d],
           asked'[c] <= now,
           Waiting(c)' => called'[c] <= asked'[c] + Timeout,
           pc'[c] = "reading" \/ (pc'[c] = "replied" /\ ~scan'[c].found) =>
               \A p \in usable : owner[p] = wallet'[c] /\ Passed(c, p)' => since[p] >= asked'[c],
           pc'[c] = "no" =>
               \A p \in usable : owner[p] = wallet'[c] => since[p] + RefusalLag >= asked'[c],
           \A w \in Wallet :
               \/ cache'[w] = cache[w]
               \/ cache'[w] = NoEntry
               \/ /\ cache'[w].expiry <= now + CacheTtl
                  /\ ~cache'[w].owns =>
                        \A p \in usable : owner[p] = w =>
                            since[p] + CacheTtl + Timeout + CallMax >= cache'[w].expiry
    PROVE  RefusalInv'
  <1>1. NoClockSkew'
    <2>1. \A d \in Check : asked'[d] <= now
      BY DEF RefusalInv, NoClockSkew
    <2>2. ASSUME NEW w \in Wallet PROVE cache'[w].expiry <= now + CacheTtl
      <3>1. CASE cache'[w] = cache[w]
        BY <3>1 DEF RefusalInv, NoClockSkew
      <3>2. CASE cache'[w] = NoEntry
        BY <3>2, ConstantFacts DEF NoEntry, CacheInv, TypeOK
      <3>. QED
        BY <3>1, <3>2
    <2>. QED
      BY <2>1, <2>2 DEF NoClockSkew
  <1>2. WithinDeadline'
    BY DEF RefusalInv, WithinDeadline, Waiting
  <1>3. ScanEvidence'
    BY DEF RefusalInv, ScanEvidence, Passed
  <1>4. RefusalEvidence'
    <2> SUFFICES ASSUME NEW p \in usable, ~cache'[owner[p]].owns
                 PROVE  since[p] + CacheTtl + Timeout + CallMax >= cache'[owner[p]].expiry
      BY DEF RefusalEvidence
    <2>1. owner[p] \in Wallet /\ since[p] \in Nat
      BY DEF CacheInv, TypeOK
    <2>2. CASE cache'[owner[p]] = cache[owner[p]]
      BY <2>2 DEF RefusalInv, RefusalEvidence
    <2>3. CASE cache'[owner[p]] = NoEntry
      BY <2>1, <2>3, ConstantFacts DEF NoEntry
    <2>. QED
      BY <2>1, <2>2, <2>3
  <1>5. RefusalIsRecent'
    BY DEF RefusalInv, RefusalIsRecent
  <1>. QED
    BY <1>1, <1>2, <1>3, <1>4, <1>5 DEF RefusalInv

(* A hit hands the entry's age to the check. *)
LEMMA RefusalHit ==
    ASSUME UNCHANGED <<caching, GrantLag, RefusalLag>>,
           CacheInv, CacheInv', RefusalInv, NEW c \in Check, NEW w \in Wallet, Hit(c, w)
    PROVE  RefusalInv'
  <1>1. /\ pc' = [pc EXCEPT ![c] = Outcome(cache[w].owns)]
        /\ wallet' = [wallet EXCEPT ![c] = w]
        /\ asked' = [asked EXCEPT ![c] = now]
        /\ caching /\ cache[w].expiry > now
        /\ UNCHANGED <<now, owner, usable, cache, scan, called, since>>
    BY DEF Hit, chain
  <1>2. /\ pc'[c] = Outcome(cache[w].owns) /\ wallet'[c] = w /\ asked'[c] = now /\ now \in Nat
        /\ \A d \in Check \ {c} :
               pc'[d] = pc[d] /\ wallet'[d] = wallet[d] /\ scan'[d] = scan[d]
               /\ asked'[d] = asked[d] /\ called'[d] = called[d]
    BY <1>1 DEF CacheInv, TypeOK
  <1>3. pc'[c] \in {"yes", "no"} /\ (pc'[c] = "no" => ~cache[w].owns)
    BY <1>2 DEF Outcome
  <1>4. ASSUME pc'[c] = "no", NEW p \in usable, owner[p] = w
        PROVE  since[p] + RefusalLag >= now
    <2>1. since[p] + CacheTtl + Timeout + CallMax >= cache[w].expiry
      BY <1>3, <1>4 DEF RefusalInv, RefusalEvidence
    <2>2. since[p] \in Nat /\ cache[w].expiry \in Nat
      BY DEF CacheInv, TypeOK
    <2>. QED
      BY <1>1, <1>2, <2>1, <2>2, ConstantFacts DEF RefusalLag
  <1>5. ~Waiting(c)' /\ asked'[c] <= now
    BY <1>2, <1>3 DEF Waiting
  <1>. QED
    BY <1>1, <1>2, <1>3, <1>4, <1>5, RefusalFrame DEF Waiting

(* Asking for a page: the passes before its token are accounted for. *)
LEMMA RefusalAsk ==
    ASSUME UNCHANGED <<caching, GrantLag, RefusalLag>>,
           CacheInv, CacheInv', RefusalInv, NEW c \in Check,
           NEW w \in Wallet, NEW t \in Nat, NEW n \in Nat, NEW a \in Nat,
           a <= now, now <= a + Timeout,
           \A p \in usable : owner[p] = w /\ p <= t => since[p] >= a,
           wallet' = [wallet EXCEPT ![c] = w], asked' = [asked EXCEPT ![c] = a],
           called' = [called EXCEPT ![c] = now],
           scan' = [scan EXCEPT ![c] = Asking(t, n)],
           pc' = [pc EXCEPT ![c] = "reading"],
           UNCHANGED <<now, chain, cache, since, lastHeld>>
    PROVE  RefusalInv'
  <1>1. /\ pc'[c] = "reading" /\ wallet'[c] = w /\ asked'[c] = a /\ called'[c] = now
        /\ scan'[c].token = t
        /\ \A d \in Check \ {c} :
               pc'[d] = pc[d] /\ wallet'[d] = wallet[d] /\ scan'[d] = scan[d]
               /\ asked'[d] = asked[d] /\ called'[d] = called[d]
    BY DEF CacheInv, TypeOK, Asking
  <1>2. \A p : Passed(c, p)' => p <= t
    BY <1>1 DEF Passed
  <1>. QED
    BY <1>1, <1>2, RefusalFrame DEF chain

(* The node's answer accounts for the passes on its page. *)
LEMMA RefusalRead ==
    ASSUME UNCHANGED <<caching, GrantLag, RefusalLag>>,
           CacheInv, CacheInv', RefusalInv, NEW c \in Check, ReadPage(c)
    PROVE  RefusalInv'
  <1> DEFINE w == wallet[c]
             t == scan[c].token
  <1>1. PICK next \in NextToken(w, t) :
           scan' = [scan EXCEPT ![c].found = PageIsUsable(Page(w, t)), ![c].next = next]
    BY DEF ReadPage
  <1>2. /\ pc[c] = "reading"
        /\ pc' = [pc EXCEPT ![c] = "replied"]
        /\ UNCHANGED <<now, owner, usable, cache, wallet, asked, called, since>>
    BY DEF ReadPage, chain
  <1>3. scan[c] \in [token : Nat, pages : Nat, found : BOOLEAN, next : Nat]
    BY DEF CacheInv, TypeOK
  <1>4. /\ scan'[c].found = PageIsUsable(Page(w, t)) /\ scan'[c].next = next
        /\ pc'[c] = "replied"
        /\ \A d \in Check \ {c} : pc'[d] = pc[d] /\ scan'[d] = scan[d]
    BY <1>1, <1>2, <1>3 DEF CacheInv, TypeOK
  <1>5. ASSUME ~scan'[c].found, NEW p \in usable, owner[p] = w, Passed(c, p)'
        PROVE  since[p] >= asked[c]
    <2>1. scan'[c].next = 0 \/ p <= scan'[c].next
      BY <1>4, <1>5 DEF Passed
    <2>2. p \in Nat /\ t \in Nat /\ next \in Nat
      BY <1>1, <1>3, CacheTypes DEF CacheInv, TypeOK, NextToken, Page, Rest
    <2>3. p <= t
      BY <1>4, <1>5, <2>1, <2>2, PageCovers DEF CacheInv
    <2>4. Passed(c, p)
      BY <1>2, <2>3 DEF Passed
    <2>. QED
      BY <1>2, <1>5, <2>4 DEF RefusalInv, ScanEvidence
  <1>6. asked[c] <= now /\ called[c] <= asked[c] + Timeout
    BY <1>2 DEF RefusalInv, NoClockSkew, WithinDeadline, Waiting
  <1>7. /\ asked'[c] <= now
        /\ Waiting(c)' => called'[c] <= asked'[c] + Timeout
        /\ pc'[c] = "reading" \/ (pc'[c] = "replied" /\ ~scan'[c].found) =>
               \A p \in usable : owner[p] = wallet'[c] /\ Passed(c, p)' => since[p] >= asked'[c]
        /\ pc'[c] # "no"
    BY <1>2, <1>4, <1>5, <1>6
  <1>. QED
    BY <1>2, <1>4, <1>7, RefusalFrame

(* A check that fails leaves nothing behind. *)
LEMMA RefusalFail ==
    ASSUME UNCHANGED <<caching, GrantLag, RefusalLag>>,
           CacheInv, CacheInv', RefusalInv, NEW c \in Check, Fail(c),
           UNCHANGED <<now, chain, wallet, asked, since, lastHeld>>
    PROVE  RefusalInv'
  <1>1. /\ pc'[c] = "error" /\ asked[c] <= now
        /\ \A d \in Check \ {c} : pc'[d] = pc[d] /\ scan'[d] = scan[d]
        /\ UNCHANGED <<now, owner, usable, since, cache, wallet, asked, called>>
    BY DEF CacheInv, TypeOK, Fail, chain, RefusalInv, NoClockSkew
  <1>. QED
    BY <1>1, RefusalFrame DEF Waiting

(* A check that ends with an answer stores it; a refusal is as old as its scan. *)
LEMMA RefusalFinish ==
    ASSUME UNCHANGED <<caching, GrantLag, RefusalLag>>,
           CacheInv, CacheInv', RefusalInv, NEW c \in Check, NEW owns \in BOOLEAN,
           pc[c] = "replied", ~owns => ~scan[c].found /\ scan[c].next = 0, Finish(c, owns),
           UNCHANGED <<now, chain, wallet, asked, since, lastHeld>>
    PROVE  RefusalInv'
  <1>1. /\ wallet[c] \in Wallet /\ asked[c] \in Nat /\ called[c] \in Nat /\ now \in Nat
        /\ asked[c] <= now /\ called[c] <= asked[c] + Timeout /\ now <= called[c] + CallMax
    BY DEF CacheInv, OnTime, Waiting, TypeOK, RefusalInv, NoClockSkew, WithinDeadline
  <1>2. ~owns => \A p \in usable : owner[p] = wallet[c] => since[p] >= asked[c]
    BY DEF RefusalInv, ScanEvidence, Passed
  <1>3. \A p \in usable : since[p] \in Nat
    BY DEF CacheInv, TypeOK
  <1>4. \A v \in Wallet :
              \/ cache'[v] = cache[v]
              \/ cache'[v] = NoEntry
              \/ v = wallet[c] /\ cache'[v] = Entry(owns)
    <2>1. cache \in CacheTable /\ now \in Nat
      BY DEF CacheInv, TypeOK, CacheTable
    <2>2. CASE ~caching
      BY <2>2 DEF Finish
    <2>3. CASE caching
      <3>1. cache' \in Stored(wallet[c], owns)
        BY <2>3 DEF Finish
      <3>. QED
        BY <3>1, <2>1, <1>1, StoredFacts
    <2>. QED
      BY <2>2, <2>3
  <1>5. /\ Entry(owns).expiry <= now + CacheTtl
        /\ ~Entry(owns).owns =>
              \A p \in usable : owner[p] = wallet[c] =>
                  since[p] + CacheTtl + Timeout + CallMax >= Entry(owns).expiry
    BY <1>1, <1>2, <1>3, ConstantFacts DEF Entry
  <1>6. /\ pc'[c] = Outcome(owns)
        /\ \A d \in Check \ {c} : pc'[d] = pc[d] /\ scan'[d] = scan[d]
        /\ UNCHANGED <<now, owner, usable, since, wallet, asked, called>>
    BY DEF Finish, chain, CacheInv, TypeOK
  <1>7. pc'[c] \in {"yes", "no"} /\ (pc'[c] = "no" => ~owns)
    BY <1>6 DEF Outcome
  <1>8. pc'[c] = "no" => \A p \in usable : owner[p] = wallet[c] => since[p] + RefusalLag >= asked[c]
    BY <1>1, <1>2, <1>3, <1>7, ConstantFacts DEF RefusalLag
  <1>9. \A w \in Wallet :
               \/ cache'[w] = cache[w]
               \/ cache'[w] = NoEntry
               \/ /\ cache'[w].expiry <= now + CacheTtl
                  /\ ~cache'[w].owns =>
                        \A p \in usable : owner[p] = w =>
                            since[p] + CacheTtl + Timeout + CallMax >= cache'[w].expiry
    BY <1>4, <1>5
  <1>10. ~Waiting(c)'
    BY <1>7 DEF Waiting
  <1>. QED
    BY <1>1, <1>6, <1>7, <1>8, <1>9, <1>10, RefusalFrame

(* A page's reply ends the check or asks for the next page within the deadline. *)
LEMMA RefusalReply ==
    ASSUME UNCHANGED <<caching, GrantLag, RefusalLag>>,
           CacheInv, CacheInv', RefusalInv, NEW c \in Check, PageReply(c)
    PROVE  RefusalInv'
  <1> DEFINE Ask == /\ ~scan[c].found /\ ~Late(c) /\ scan[c].next # 0
                    /\ scan' = [scan EXCEPT ![c] = Asking(scan[c].next, scan[c].pages + 1)]
                    /\ called' = [called EXCEPT ![c] = now]
                    /\ pc' = [pc EXCEPT ![c] = "reading"]
                    /\ UNCHANGED cache
  <1>1. /\ pc[c] = "replied"
        /\ UNCHANGED <<now, chain, wallet, asked, since, lastHeld>>
        /\ \/ Finish(c, TRUE)
           \/ ~scan[c].found /\ scan[c].next = 0 /\ Finish(c, FALSE)
           \/ Fail(c)
           \/ Ask
    BY DEF PageReply, GiveUp
  <1>2. CASE Finish(c, TRUE)
    BY <1>1, <1>2, RefusalFinish
  <1>3. CASE ~scan[c].found /\ scan[c].next = 0 /\ Finish(c, FALSE)
    BY <1>1, <1>3, RefusalFinish
  <1>4. CASE Fail(c)
    BY <1>1, <1>4, RefusalFail
  <1>5. CASE Ask
    <2>1. asked[c] \in Nat /\ now \in Nat /\ asked[c] <= now
      BY DEF CacheInv, TypeOK, RefusalInv, NoClockSkew
    <2>2. now <= asked[c] + Timeout
      BY <1>5, <2>1, ConstantFacts DEF Late
    <2>3. /\ wallet' = [wallet EXCEPT ![c] = wallet[c]]
          /\ asked' = [asked EXCEPT ![c] = asked[c]]
      BY <1>1 DEF CacheInv, TypeOK
    <2>4. UNCHANGED <<now, chain, cache, since, lastHeld>>
      BY <1>1, <1>5
    <2>5. \A p \in usable : owner[p] = wallet[c] /\ p <= scan[c].next => since[p] >= asked[c]
      BY <1>1, <1>5 DEF RefusalInv, ScanEvidence, Passed
    <2>6. wallet[c] \in Wallet /\ scan[c].next \in Nat /\ scan[c].pages + 1 \in Nat
      BY <1>1 DEF CacheInv, TypeOK, OnTime, Waiting
    <2>7. /\ scan' = [scan EXCEPT ![c] = Asking(scan[c].next, scan[c].pages + 1)]
          /\ called' = [called EXCEPT ![c] = now]
          /\ pc' = [pc EXCEPT ![c] = "reading"]
      BY <1>5
    <2> HIDE DEF Ask
    <2>. QED
      BY <2>1, <2>2, <2>3, <2>4, <2>5, <2>6, <2>7, RefusalAsk
  <1>. QED
    BY <1>1, <1>2, <1>3, <1>4, <1>5

(* A pass that changes hands is newer than every answer. *)
LEMMA RefusalChanged ==
    ASSUME UNCHANGED <<caching, GrantLag, RefusalLag>>,
           CacheInv, RefusalInv, NEW p \in Pass, Changed(p),
           usable' \subseteq usable, owner' \in [Pass -> Wallet],
           \A q \in Pass \ {p} : owner'[q] = owner[q]
    PROVE  RefusalInv'
  <1>1. /\ since' = [since EXCEPT ![p] = now]
        /\ UNCHANGED <<now, cache, pc, wallet, scan, asked, called>>
    BY DEF Changed
  <1>2. /\ since'[p] = now /\ now \in Nat
        /\ \A q \in usable' : q \in usable /\ q \in Pass
        /\ \A q \in Pass \ {p} : since'[q] = since[q] /\ owner'[q] = owner[q]
    BY <1>1 DEF CacheInv, TypeOK
  <1>3. NoClockSkew' /\ WithinDeadline'
    BY <1>1 DEF RefusalInv, NoClockSkew, WithinDeadline, Waiting
  <1>4. \A c \in Check : asked[c] <= now /\ asked[c] \in Nat
    BY DEF RefusalInv, NoClockSkew, CacheInv, TypeOK
  <1>5. ScanEvidence'
    <2> SUFFICES ASSUME NEW c \in Check,
                        pc[c] = "reading" \/ (pc[c] = "replied" /\ ~scan[c].found),
                        NEW q \in usable', owner'[q] = wallet[c], Passed(c, q)'
                 PROVE  since'[q] >= asked[c]
      BY <1>1 DEF ScanEvidence
    <2>1. CASE q = p
      BY <2>1, <1>2, <1>4
    <2>2. CASE q # p
      <3>1. Passed(c, q)
        BY <1>1 DEF Passed
      <3>. QED
        BY <2>2, <3>1, <1>2 DEF RefusalInv, ScanEvidence
    <2>. QED
      BY <2>1, <2>2
  <1>6. RefusalEvidence'
    <2> SUFFICES ASSUME NEW q \in usable', ~cache[owner'[q]].owns
                 PROVE  since'[q] + CacheTtl + Timeout + CallMax >= cache[owner'[q]].expiry
      BY <1>1 DEF RefusalEvidence
    <2>1. CASE q = p
      <3>1. owner'[q] \in Wallet
        BY <1>2
      <3>2. cache[owner'[q]].expiry <= now + CacheTtl /\ cache[owner'[q]].expiry \in Nat
        BY <3>1 DEF RefusalInv, NoClockSkew, CacheInv, TypeOK
      <3>. QED
        BY <2>1, <3>2, <1>2, ConstantFacts
    <2>2. CASE q # p
      BY <2>2, <1>2 DEF RefusalInv, RefusalEvidence
    <2>. QED
      BY <2>1, <2>2
  <1>7. RefusalIsRecent'
    <2> SUFFICES ASSUME NEW c \in Check, pc[c] = "no", NEW q \in usable', owner'[q] = wallet[c]
                 PROVE  since'[q] + RefusalLag >= asked[c]
      BY <1>1 DEF RefusalIsRecent
    <2>1. RefusalLag \in Nat
      BY ConstantFacts DEF RefusalLag
    <2>2. CASE q = p
      BY <2>1, <2>2, <1>2, <1>4
    <2>3. CASE q # p
      BY <2>3, <1>2 DEF RefusalInv, RefusalIsRecent
    <2>. QED
      BY <2>2, <2>3
  <1>. QED
    BY <1>3, <1>5, <1>6, <1>7 DEF RefusalInv

LEMMA RefusalTick ==
    ASSUME UNCHANGED <<caching, GrantLag, RefusalLag>>,
           CacheInv, RefusalInv, Tick
    PROVE  RefusalInv'
  <1>1. now' = now + 1 /\ UNCHANGED <<owner, usable, cache, pc, wallet, scan, asked, called, since>>
    BY DEF Tick, chain
  <1>2. NoClockSkew'
    BY <1>1, ConstantFacts DEF RefusalInv, NoClockSkew, CacheInv, TypeOK
  <1>3. WithinDeadline' /\ ScanEvidence' /\ RefusalEvidence' /\ RefusalIsRecent'
    BY <1>1 DEF RefusalInv, WithinDeadline, Waiting, ScanEvidence, Passed, RefusalEvidence, RefusalIsRecent
  <1>. QED
    BY <1>2, <1>3 DEF RefusalInv

(* A miss asks for the first page; no pass is numbered before it. *)
LEMMA RefusalMiss ==
    ASSUME UNCHANGED <<caching, GrantLag, RefusalLag>>,
           CacheInv, CacheInv', RefusalInv, NEW c \in Check, NEW w \in Wallet, Miss(c, w)
    PROVE  RefusalInv'
  <1>1. now \in Nat /\ now <= now /\ now <= now + Timeout /\ 0 \in Nat /\ 1 \in Nat
    BY ConstantFacts DEF CacheInv, TypeOK
  <1>2. \A p \in usable : owner[p] = w /\ p <= 0 => since[p] >= now
    BY CacheTypes DEF CacheInv, TypeOK
  <1>3. /\ scan' = [scan EXCEPT ![c] = Asking(0, 1)]
        /\ pc' = [pc EXCEPT ![c] = "reading"]
        /\ wallet' = [wallet EXCEPT ![c] = w]
        /\ asked' = [asked EXCEPT ![c] = now]
        /\ called' = [called EXCEPT ![c] = now]
        /\ UNCHANGED <<now, chain, cache, since, lastHeld>>
    BY DEF Miss
  <1>4. /\ pc'[c] = "reading" /\ wallet'[c] = w /\ asked'[c] = now /\ called'[c] = now
        /\ scan'[c].token = 0
        /\ \A d \in Check \ {c} :
               pc'[d] = pc[d] /\ wallet'[d] = wallet[d] /\ scan'[d] = scan[d]
               /\ asked'[d] = asked[d] /\ called'[d] = called[d]
    BY <1>3 DEF CacheInv, TypeOK, Asking
  <1>5. \A p : Passed(c, p)' => p <= 0
    BY <1>4 DEF Passed
  <1>6. \A p \in usable : owner[p] = wallet'[c] /\ Passed(c, p)' => since[p] >= asked'[c]
    BY <1>2, <1>4, <1>5
  <1>7. UNCHANGED <<now, owner, usable, cache, since>>
    BY <1>3 DEF chain
  <1>. QED
    BY <1>1, <1>4, <1>6, <1>7, RefusalFrame

LEMMA RefusalStep ==
    ASSUME CacheInv, CacheInv', RefusalInv, [Next]_vars
    PROVE  RefusalInv'
  <1>0. UNCHANGED <<caching, GrantLag, RefusalLag>>
    BY SteadyLags
  <1> USE <1>0
  <1>1. ASSUME NEW c \in Check, NEW w \in Wallet, Hit(c, w) \/ Miss(c, w) PROVE RefusalInv'
    BY <1>1, RefusalHit, RefusalMiss
  <1>2. ASSUME NEW c \in Check, Answer(c) PROVE RefusalInv'
    BY <1>2, RefusalRead, RefusalReply DEF Answer
  <1>3. ASSUME NEW c \in Check, PageError(c) PROVE RefusalInv'
    BY <1>3, RefusalFail DEF PageError
  <1>4. ASSUME NEW p \in Pass, Exhaust(p) PROVE RefusalInv'
    <2>1. /\ Changed(p) /\ usable' \subseteq usable /\ owner' \in [Pass -> Wallet]
          /\ \A q \in Pass \ {p} : owner'[q] = owner[q]
      BY <1>4 DEF Exhaust, CacheInv, TypeOK
    <2>. QED
      BY <2>1, RefusalChanged
  <1>5. ASSUME NEW p \in Pass, NEW w \in Wallet, Transfer(p, w) PROVE RefusalInv'
    <2>1. /\ Changed(p) /\ usable' \subseteq usable /\ owner' \in [Pass -> Wallet]
          /\ \A q \in Pass \ {p} : owner'[q] = owner[q]
      BY <1>5 DEF Transfer, CacheInv, TypeOK
    <2>. QED
      BY <2>1, RefusalChanged
  <1>6. ASSUME UNCHANGED vars PROVE RefusalInv'
    BY <1>6 DEF vars, chain, RefusalInv, NoClockSkew, WithinDeadline, Waiting, ScanEvidence, Passed,
                RefusalEvidence, RefusalIsRecent
  <1>. QED
    BY <1>1, <1>2, <1>3, <1>4, <1>5, <1>6, RefusalTick DEF Next, Work, Quiesce

-----------------------------------------------------------------------------
(* The cap. *)

(* A set of numbers has a least element. *)
LEMMA Earliest ==
    ASSUME NEW T \in SUBSET Nat, T # {}
    PROVE  \E x \in T : \A y \in T : x <= y
  <1>1. PICK x \in T : \A y \in T : ~(<<y, x>> \in OpToRel(<, Nat))
    BY NatLessThanWellFounded, WFMin
  <1>2. \A y \in T : ~(y < x)
    BY <1>1 DEF OpToRel
  <1>. QED
    BY <1>2

Entries(table) == {w \in Wallet : table[w] # NoEntry}
Capped(table) == IsFiniteSet(Entries(table)) /\ Cardinality(Entries(table)) <= MaxCache

(* Storing an answer makes room first: at the cap there is always a victim. *)
LEMMA StoredCapped ==
    ASSUME cache \in CacheTable, now \in Nat, Capped(cache),
           NEW w \in Wallet, NEW owns \in BOOLEAN, NEW table \in Stored(w, owns)
    PROVE  Capped(table)
  <1> DEFINE kept == [v \in Wallet |-> IF cache[v].expiry > now THEN cache[v] ELSE NoEntry]
             live == Entries(kept)
             drops == Victims(live, kept)
             room == IF drops = {} THEN {kept} ELSE {[kept EXCEPT ![v] = NoEntry] : v \in drops}
  <1>1. kept \in CacheTable
    BY DEF CacheTable, NoEntry
  <1>2. live \subseteq Entries(cache)
    BY DEF Entries
  <1>3. IsFiniteSet(live) /\ Cardinality(live) \in Nat /\ Cardinality(live) <= MaxCache
    BY <1>2, FS_Subset, FS_CardinalityType, CacheTypes DEF Capped
  <1>4. PICK base \in room : table = [base EXCEPT ![w] = Entry(owns)]
    BY DEF Stored, Entries
  <1>5. /\ base \in CacheTable /\ IsFiniteSet(Entries(base))
        /\ Cardinality(Entries(base)) \in Nat /\ Cardinality(Entries(base)) < MaxCache
    <2>1. CASE drops = {}
      <3>1. base = kept
        BY <1>4, <2>1
      <3>2. Cardinality(live) < MaxCache
        <4> SUFFICES ASSUME Cardinality(live) >= MaxCache PROVE FALSE
          BY <1>3, CacheTypes
        <4> DEFINE T == {kept[v].expiry : v \in live}
        <4>1. live # {}
          BY <1>3, FS_EmptySet, CacheTypes
        <4>2. T \in SUBSET Nat /\ T # {}
          BY <1>1, <4>1 DEF CacheTable, Entries
        <4>3. PICK x \in T : \A y \in T : x <= y
          BY <4>2, Earliest
        <4>4. PICK v \in live : x = kept[v].expiry
          BY <4>3
        <4>5. \A u \in live : kept[v].expiry <= kept[u].expiry
          BY <4>3, <4>4
        <4>. QED
          BY <4>4, <4>5, <2>1 DEF Victims
      <3>. QED
        BY <3>1, <3>2, <1>1, <1>3
    <2>2. CASE drops # {}
      <3>1. PICK v \in drops : base = [kept EXCEPT ![v] = NoEntry]
        BY <1>4, <2>2
      <3>2. v \in live /\ v \in Wallet
        BY <3>1 DEF Victims, Entries
      <3> HIDE DEF kept
      <3>3. base \in CacheTable
        BY <3>1, <3>2, <1>1 DEF CacheTable, NoEntry
      <3>4. Entries(base) = live \ {v}
        BY <3>1, <3>2, <1>1 DEF CacheTable, Entries
      <3>5. IsFiniteSet(live \ {v}) /\ Cardinality(live \ {v}) = Cardinality(live) - 1
        BY <1>3, <3>2, FS_RemoveElement
      <3>. QED
        BY <3>3, <3>4, <3>5, <1>3, FS_CardinalityType, CacheTypes
    <2>. QED
      BY <2>1, <2>2
  <1>6. Entries(table) \subseteq Entries(base) \cup {w}
    BY <1>4, <1>5 DEF CacheTable, Entries
  <1>7. /\ IsFiniteSet(Entries(base) \cup {w})
        /\ Cardinality(Entries(base) \cup {w}) <= Cardinality(Entries(base)) + 1
    <2>1. /\ IsFiniteSet(Entries(base) \cup {w})
          /\ Cardinality(Entries(base) \cup {w}) =
                IF w \in Entries(base) THEN Cardinality(Entries(base)) ELSE Cardinality(Entries(base)) + 1
      BY <1>5, FS_AddElement
    <2>. QED
      BY <2>1, <1>5
  <1>. QED
    BY <1>5, <1>6, <1>7, FS_Subset, FS_CardinalityType, CacheTypes DEF Capped

LEMMA CapStep ==
    ASSUME CacheInv, Capped(cache), [Next]_vars
    PROVE  Capped(cache')
  <1>1. \/ UNCHANGED cache
        \/ \E c \in Check, owns \in BOOLEAN : pc[c] = "replied" /\ cache' \in Stored(wallet[c], owns)
    BY DEF Next, Work, vars, Hit, Miss, Answer, ReadPage, PageReply, PageError, Finish, Fail, GiveUp,
           Exhaust, Transfer, Changed, Tick, Quiesce
  <1>2. CASE UNCHANGED cache
    BY <1>2
  <1>3. ASSUME NEW c \in Check, NEW owns \in BOOLEAN,
               pc[c] = "replied", cache' \in Stored(wallet[c], owns)
        PROVE  Capped(cache')
    <2>1. wallet[c] \in Wallet /\ now \in Nat /\ cache \in CacheTable
      BY <1>3 DEF CacheInv, OnTime, Waiting, TypeOK, CacheTable
    <2>. QED
      BY <1>3, <2>1, StoredCapped
  <1>. QED
    BY <1>1, <1>2, <1>3

-----------------------------------------------------------------------------
(* A refused check is right about its wallet up to one TTL, one scan deadline and
   one call: every usable pass the wallet has came after the evidence, however
   `scan_owned`'s pages change under it and however slow scans overwrite newer
   answers; and the cache of `owns_nft` never outgrows MAX_CACHE_ENTRIES. *)
THEOREM RefusalsHaveEvidence == Spec => []RefusalsAreRecent
  <1>1. Init => RefusalInv /\ Capped(cache)
    <2> SUFFICES ASSUME Init PROVE RefusalInv /\ Capped(cache)
      OBVIOUS
    <2>1. NoClockSkew
      BY ConstantFacts DEF Init, NoClockSkew, NoEntry
    <2>2. WithinDeadline /\ ScanEvidence /\ RefusalIsRecent
      BY DEF Init, WithinDeadline, Waiting, ScanEvidence, RefusalIsRecent
    <2>3. RefusalEvidence
      BY ConstantFacts, CacheTypes DEF Init, RefusalEvidence, NoEntry
    <2>4. Entries(cache) = {}
      BY DEF Init, Entries
    <2>. QED
      BY <2>1, <2>2, <2>3, <2>4, FS_EmptySet, CacheTypes DEF RefusalInv, Capped
  <1>2. CacheInv /\ CacheInv' /\ (RefusalInv /\ Capped(cache)) /\ [Next]_vars
        => (RefusalInv /\ Capped(cache))'
    BY RefusalStep, CapStep
  <1>3. CacheInv /\ RefusalInv /\ Capped(cache) => RefusalsAreRecent
    BY DEF RefusalsAreRecent, CacheCapped, Capped, Entries
  <1>. QED
    BY <1>1, <1>2, <1>3, AnswersHaveEvidence, PTL DEF Spec
=============================================================================
