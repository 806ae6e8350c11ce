------------------------------- MODULE EdgeProofs -------------------------------
(***************************************************************************)
(* The edge of the gateway.  The edge cache of the Worker, for any         *)
(* requests, paths, origins, TTL, deadline, delay of a task and number of  *)
(* versions: what one client gets of another is public, bare and recent,   *)
(* though answers take time, copies are written late, out of order or      *)
(* never, and the upstream changes and fails meanwhile.  The header        *)
(* policy, for any names and lists; the client's address, for any clients  *)
(* and forged headers; the configuration, for any environments and edits;  *)
(* and the quota guard, for any first day, allowances, traffic and         *)
(* answers, through every leap year.                                       *)
(***************************************************************************)
EXTENDS MCEdge, FiniteSetTheorems, TLAPS

(* What a step tells a client, or nothing. *)
Safely == SharedOnlyPublic /\ NoForeignGrant /\ FailureIsOwn /\ Freshness

Inv == TypeOK /\ EdgeInv /\ Safely

LEMMA Bounds ==
    /\ MaxTime \in Nat /\ MaxPut \in Nat /\ MaxPage \in Nat /\ MaxPage > 0 /\ OriginAge \in Nat
    /\ UpstreamTimeout \in Nat /\ Ttls \subseteq Nat /\ Never = MaxTime + 1 /\ Never \in Nat
  <1>1. /\ Ttls \subseteq Nat
        /\ \A n \in {OriginAge, UpstreamTimeout, MaxPut, MaxTime, MaxPage, MaxTasks} : n \in Nat
    BY EdgeConstants
  <1>2. MaxPage > 0
    BY EdgeConstants
  <1>. QED
    BY <1>1, <1>2 DEF Never

LEMMA Clocks ==
    ASSUME Inv
    PROVE  /\ time \in Nat /\ time <= MaxTime /\ ttl \in Nat
           /\ page \in Nat /\ 1 <= page /\ page <= MaxPage
           /\ ended[page] = Never
           /\ \A v \in 1 .. page : ended[v] \in Nat /\ v \in 0 .. MaxPage
  <1>1. TypeOK /\ ContentIsCurrent
    BY DEF Inv, EdgeInv
  <1>2. time \in 0 .. MaxTime /\ page \in 1 .. MaxPage /\ ttl \in Ttls
    BY <1>1 DEF TypeOK
  <1>3. /\ time \in Nat /\ time <= MaxTime /\ ttl \in Nat
        /\ page \in Nat /\ 1 <= page /\ page <= MaxPage
    BY <1>2, Bounds
  <1>4. \A v \in 1 .. page : v \in 1 .. MaxPage /\ v \in 0 .. MaxPage
    BY <1>3, Bounds
  <1>5. page \in page .. MaxPage
    BY <1>3, Bounds
  <1>6. ended[page] = Never /\ \A v \in 1 .. MaxPage : ended[v] \in 0 .. Never
    BY <1>1, <1>5 DEF ContentIsCurrent
  <1>. QED
    BY <1>3, <1>4, <1>6, Bounds

(* A request that is somewhere is a flight. *)
LEMMA InFlight ==
    ASSUME TypeOK, NEW r \in Request, req[r] # Idle
    PROVE  /\ req[r] \in Flight /\ req[r].shape \in Shape /\ req[r].since \in Nat
           /\ req[r].at \in {"cache", "fetch"}
           /\ AskerOf(r) \in Asker /\ AskerOf(r).shape = req[r].shape /\ AskerOf(r).since = req[r].since
  BY DEF TypeOK, Flight, AskerOf, Asker

LEMMA AtIsInFlight ==
    ASSUME NEW r \in Request, req[r].at \in {"cache", "fetch"}
    PROVE  req[r] # Idle
  BY DEF Idle

-----------------------------------------------------------------------------
(* Answers. *)

LEMMA OwnStatus ==
    ASSUME NEW s
    PROVE  Own(s) \in {200, 204, 508, 500, 403}
  BY DEF Own

LEMMA OwnAnswers ==
    ASSUME NEW status \in Nat
    PROVE  /\ OwnAnswer(status) \in Answer /\ OwnAnswer(status).kind = "own"
           /\ OwnAnswer(status).shared = FALSE /\ OwnAnswer(status).grant = ""
  <1>1. 0 \in 0 .. MaxPage
    BY Bounds
  <1>. QED
    BY <1>1 DEF OwnAnswer, Answer, Query, Grant

(* `finish` decorates, and changes nothing else. *)
LEMMA FinishedAnswers ==
    ASSUME NEW s \in Shape, NEW a \in Answer, a.grant = ""
    PROVE  /\ Finished(s, a) \in Answer
           /\ Finished(s, a).kind = a.kind /\ Finished(s, a).query = a.query
           /\ Finished(s, a).shared = a.shared /\ Finished(s, a).status = a.status
           /\ Finished(s, a).page = a.page
           /\ Finished(s, a).grant # "" => Finished(s, a).grant = s.origin /\ s.origin \in Allowed
  BY DEF Finished, Answer, Grant

(* An answer that may be given to whoever asks like this. *)
MayBeTold(to, a) ==
    /\ a.grant = ""
    /\ a.shared => /\ to.shape.method = "GET" /\ to.shape.path \in PublicPaths
                   /\ a.kind = "Public" /\ a.query = "" /\ a.status # 0
    /\ a.kind # "own" =>
          IF a.shared THEN to.since < ended[a.page] + UpstreamTimeout + MaxPut + ttl
                      ELSE to.since <= ended[a.page]

(* The answer r is given tells no more than it may. *)
LEMMA FinishTells ==
    ASSUME TypeOK, NEW r \in Request, NEW to \in Asker, NEW a \in Answer, Finish(r, to, a),
           UNCHANGED <<env, ttl, ended>>, MayBeTold(to, a)
    PROVE  /\ Safely'
           /\ last' # NoAnswer => last'.to \in Asker /\ last'.answer \in Answer
           /\ req' \in [Request -> Flight \cup {Idle}]
           /\ req'[r] = Idle /\ \A q \in Request \ {r} : req'[q] = req[q]
  <1> DEFINE b == Finished(to.shape, a)
  <1>1. /\ last' = [kind |-> "answer", to |-> to, answer |-> b]
        /\ req' = [req EXCEPT ![r] = Idle]
    BY DEF Finish
  <1>2. to.shape \in Shape
    BY DEF Asker
  <1>3. /\ b \in Answer /\ b.kind = a.kind /\ b.query = a.query /\ b.shared = a.shared
        /\ b.status = a.status /\ b.page = a.page
        /\ b.grant # "" => b.grant = to.shape.origin /\ to.shape.origin \in Allowed
    BY <1>2, FinishedAnswers DEF MayBeTold
  <1> HIDE DEF b
  <1>4. last'.to = to /\ last'.answer = b
    BY <1>1
  <1>5. SharedOnlyPublic' /\ NoForeignGrant'
    BY <1>3, <1>4 DEF SharedOnlyPublic, NoForeignGrant, Told, MayBeTold
  <1>6. FailureIsOwn'
    BY <1>3, <1>4 DEF FailureIsOwn, Told, MayBeTold
  <1>7. Freshness'
    BY <1>3, <1>4 DEF Freshness, Told, MayBeTold
  <1>8. req' \in [Request -> Flight \cup {Idle}] /\ req'[r] = Idle /\ \A q \in Request \ {r} : req'[q] = req[q]
    BY <1>1 DEF TypeOK
  <1>. QED
    BY <1>3, <1>4, <1>5, <1>6, <1>7, <1>8 DEF Safely

(* A step that answers nobody. *)
LEMMA TellsNothing ==
    ASSUME last' = NoAnswer
    PROVE  Safely'
  BY DEF Safely, SharedOnlyPublic, NoForeignGrant, FailureIsOwn, Freshness, Told

-----------------------------------------------------------------------------
(* Requests. *)

(* What is known of a request that is somewhere. *)
OnTrack(f) ==
    /\ f.since <= time
    /\ f.at = "cache" => f.shape.path \in PublicPaths /\ Cached(f.shape, "Public")
    /\ f.at = "fetch" => time <= f.since + UpstreamTimeout
    /\ f.answer # NoAnswer =>
          f.at = "fetch" /\ Fetched(f.shape, f.answer) /\ f.since <= ended[f.answer.page]

LEMMA KeepTrack == RequestsKeepTrack <=> \A r \in Request : req[r] # Idle => OnTrack(req[r])
  BY DEF RequestsKeepTrack, OnTrack

(* The same of the next state. *)
LEMMA KeepTrackNext == RequestsKeepTrack' <=> \A r \in Request : req'[r] # Idle => OnTrack(req[r])'
  BY DEF RequestsKeepTrack, OnTrack

(* A step of r leaves the others, the cache and the upstream alone. *)
LEMMA RequestFrame ==
    ASSUME Inv, NEW r \in Request, UNCHANGED <<cache, puts, world>>,
           req' \in [Request -> Flight \cup {Idle}],
           \A q \in Request \ {r} : req'[q] = req[q],
           req'[r] # Idle => OnTrack(req'[r]),
           last' # NoAnswer => last'.to \in Asker /\ last'.answer \in Answer
    PROVE  TypeOK' /\ EdgeInv'
  <1>1. TypeOK'
    BY DEF Inv, TypeOK, world
  <1>2. \A f : OnTrack(f)' <=> OnTrack(f)
    BY DEF OnTrack, Cached, Fetched, world
  <1>3. RequestsKeepTrack'
    <2> SUFFICES ASSUME NEW q \in Request, req'[q] # Idle PROVE OnTrack(req[q])'
      BY KeepTrackNext
    <2>1. CASE q = r
      BY <2>1, <1>2 DEF OnTrack, Cached, Fetched, world
    <2>2. CASE q # r
      <3>1. req'[q] = req[q] /\ OnTrack(req[q])
        BY <2>2, KeepTrack DEF Inv, EdgeInv
      <3>2. time' = time /\ ttl' = ttl /\ page' = page /\ ended' = ended
        BY DEF world
      <3>3. Cached(req[q].shape, "Public")' <=> Cached(req[q].shape, "Public")
        BY <3>1, <3>2 DEF Cached
      <3>4. Fetched(req[q].shape, req[q].answer)' <=> Fetched(req[q].shape, req[q].answer)
        BY <3>1, <3>2 DEF Fetched, Cached
      <3>. QED
        BY <3>1, <3>2, <3>3, <3>4, Zenon DEF OnTrack
    <2>. QED
      BY <2>1, <2>2
  <1>4. \A a : Shareable(a)' <=> Shareable(a)
    BY DEF Shareable, world
  <1>5. TasksAreRecent' /\ EntriesAreRecent' /\ ContentIsCurrent'
    BY <1>4 DEF Inv, EdgeInv, TasksAreRecent, EntriesAreRecent, ContentIsCurrent, world
  <1>. QED
    BY <1>1, <1>3, <1>5 DEF EdgeInv

(* A request that goes to the cache or to the upstream. *)
LEMMA SentSafe ==
    ASSUME Inv, NEW r \in Request, NEW s \in Shape, NEW place \in {"cache", "fetch"},
           req' = [req EXCEPT ![r] = Sent(s, place)], last' = NoAnswer, UNCHANGED <<cache, puts, world>>,
           place = "cache" => s.path \in PublicPaths /\ Cached(s, "Public")
    PROVE  Inv'
  <1> DEFINE f == Sent(s, place)
  <1>1. f \in Flight /\ f.at = place /\ f.since = time /\ f.shape = s /\ f.answer = NoAnswer /\ time \in Nat
    BY Clocks DEF Sent, Flight, Inv, TypeOK
  <1> HIDE DEF f
  <1>2. req' \in [Request -> Flight \cup {Idle}] /\ req'[r] = f /\ \A q \in Request \ {r} : req'[q] = req[q]
    BY <1>1 DEF Inv, TypeOK, f
  <1>3. OnTrack(f)
    <2>1. time <= time + UpstreamTimeout /\ time <= time
      BY <1>1, Bounds
    <2>. QED
      BY <1>1, <2>1 DEF OnTrack
  <1>4. TypeOK' /\ EdgeInv'
    BY <1>2, <1>3, RequestFrame
  <1>. QED
    BY <1>4, TellsNothing DEF Inv

LEMMA ForwardSafe ==
    ASSUME Inv, NEW r \in Request, Forward(r)
    PROVE  Inv'
  <1>0. PICK s \in Shape : \E kind \in Forwarded(s) :
           req' = [req EXCEPT ![r] = Sent(s, IF Cached(s, kind) THEN "cache" ELSE "fetch")]
    BY DEF Forward
  <1>1. PICK kind \in Forwarded(s) :
           req' = [req EXCEPT ![r] = Sent(s, IF Cached(s, kind) THEN "cache" ELSE "fetch")]
    BY <1>0
  <1>2. Cached(s, kind) => s.path \in PublicPaths /\ Cached(s, "Public")
    BY DEF Cached, Forwarded
  <1>3. last' = NoAnswer /\ UNCHANGED <<cache, puts, world>>
    BY DEF Forward
  <1>4. CASE Cached(s, kind)
    BY <1>1, <1>2, <1>3, <1>4, SentSafe
  <1>5. CASE ~Cached(s, kind)
    BY <1>1, <1>3, <1>5, SentSafe
  <1>. QED
    BY <1>4, <1>5

LEMMA MissSafe ==
    ASSUME Inv, NEW r \in Request, Miss(r)
    PROVE  Inv'
  <1>1. req[r].shape \in Shape
    BY AtIsInFlight, InFlight DEF Miss, Inv
  <1>. QED
    BY <1>1, SentSafe DEF Miss

(* What the upstream shows now is current, and was not asked for later. *)
LEMMA ReplySafe ==
    ASSUME Inv, NEW r \in Request, Reply(r)
    PROVE  Inv'
  <1> DEFINE s == req[r].shape
  <1>1. req[r] # Idle /\ req[r] \in Flight /\ s \in Shape /\ req[r].since \in Nat /\ req[r].at = "fetch"
    BY AtIsInFlight, InFlight DEF Reply, Inv
  <1>2. PICK kind \in Forwarded(s), works \in BOOLEAN :
           req' = [req EXCEPT ![r].answer =
                     UpstreamAnswer(kind, IF Cached(s, kind) THEN FillQuery(s) ELSE s.query, works)]
    BY DEF Reply
  <1> DEFINE asked == IF Cached(s, kind) THEN FillQuery(s) ELSE s.query
             a == UpstreamAnswer(kind, asked, works)
  <1>3. /\ kind \in {"Public", "Gated"} /\ asked \in Query
        /\ Cached(s, kind) => asked = "" /\ s.path \in PublicPaths
    BY <1>1 DEF Forwarded, Query, FillQuery, Cached
  <1> HIDE DEF asked
  <1>4. /\ a \in Answer /\ a.kind = kind /\ a.query = asked /\ a.shared = FALSE /\ a.grant = ""
        /\ a.page = page /\ a.status \in {0, 200}
    <2>1. page \in 0 .. MaxPage /\ OriginAge \in Nat
      BY Bounds, Clocks
    <2>. QED
      BY <1>3, <2>1 DEF UpstreamAnswer, Answer, Grant
  <1> HIDE DEF a
  <1>5. Fetched(s, a)
    <2>1. page \in 1 .. page
      BY Clocks
    <2>. QED
      BY <1>3, <1>4, <2>1 DEF Fetched
  <1>6. /\ req' \in [Request -> Flight \cup {Idle}] /\ \A q \in Request \ {r} : req'[q] = req[q]
        /\ req'[r].at = "fetch" /\ req'[r].since = req[r].since /\ req'[r].shape = s /\ req'[r].answer = a
    <2>1. req' = [req EXCEPT ![r].answer = a]
      BY <1>2 DEF a, asked
    <2>2. req \in [Request -> Flight \cup {Idle}]
      BY DEF Inv, TypeOK
    <2> DEFINE f == [req[r] EXCEPT !.answer = a]
    <2>3. req'[r] = f /\ req' = [req EXCEPT ![r] = f]
      BY <2>1, <2>2
    <2>4. f \in Flight /\ f.at = "fetch" /\ f.since = req[r].since /\ f.shape = s /\ f.answer = a
      BY <1>1, <1>4 DEF Flight
    <2> HIDE DEF f
    <2>. QED
      BY <2>2, <2>3, <2>4
  <1>7. OnTrack(req[r])
    BY <1>1, KeepTrack DEF Inv, EdgeInv
  <1>8. req[r].since <= ended[page]
    <2>1. req[r].since <= time
      BY <1>7 DEF OnTrack
    <2>. QED
      BY <1>1, <2>1, Bounds, Clocks
  <1>9. OnTrack(req'[r])
    BY <1>1, <1>4, <1>5, <1>6, <1>7, <1>8 DEF OnTrack
  <1>10. UNCHANGED <<cache, puts, world>> /\ last' = NoAnswer
    BY DEF Reply
  <1>11. TypeOK' /\ EdgeInv'
    BY <1>6, <1>9, <1>10, RequestFrame
  <1>. QED
    BY <1>10, <1>11, TellsNothing DEF Inv

(* An answer that is not kept. *)
LEMMA AnswerSafe ==
    ASSUME Inv, NEW r \in Request, NEW to \in Asker, NEW a \in Answer, Finish(r, to, a),
           UNCHANGED <<cache, puts, world>>, MayBeTold(to, a)
    PROVE  Inv'
  <1>1. /\ Safely'
        /\ last' # NoAnswer => last'.to \in Asker /\ last'.answer \in Answer
        /\ req' \in [Request -> Flight \cup {Idle}]
        /\ req'[r] = Idle /\ \A q \in Request \ {r} : req'[q] = req[q]
    BY FinishTells DEF Inv, world
  <1>2. TypeOK' /\ EdgeInv'
    BY <1>1, RequestFrame
  <1>. QED
    BY <1>1, <1>2 DEF Inv

LEMMA OwnSafe ==
    ASSUME Inv, NEW r \in Request, Route(r) \/ Fault(r) \/ TimedOut(r)
    PROVE  Inv'
  <1>1. PICK to \in Asker, status \in Nat : Finish(r, to, OwnAnswer(status))
    <2>1. CASE Route(r)
      <3>1. PICK s \in Shape : Finish(r, [shape |-> s, since |-> time], OwnAnswer(Own(s)))
        BY <2>1 DEF Route
      <3>2. [shape |-> s, since |-> time] \in Asker /\ Own(s) \in Nat
        BY OwnStatus DEF Asker, Inv, TypeOK
      <3>. QED
        BY <3>1, <3>2
    <2>2. CASE Fault(r)
      BY <2>2, InFlight DEF Fault, Inv
    <2>3. CASE TimedOut(r)
      BY <2>3, AtIsInFlight, InFlight DEF TimedOut, Inv
    <2>. QED
      BY <2>1, <2>2, <2>3
  <1>2. UNCHANGED <<cache, puts, world>>
    BY DEF Route, Fault, TimedOut
  <1>3. OwnAnswer(status) \in Answer /\ MayBeTold(to, OwnAnswer(status))
    BY OwnAnswers DEF MayBeTold
  <1>. QED
    BY <1>1, <1>2, <1>3, AnswerSafe

(* What the upstream answered to a fetch. *)
LEMMA FetchedAnswer ==
    ASSUME Inv, NEW r \in Request, req[r].at = "fetch", req[r].answer # NoAnswer
    PROVE  /\ req[r] # Idle /\ req[r].shape \in Shape /\ req[r].since \in Nat
           /\ Fetched(req[r].shape, req[r].answer) /\ req[r].since <= ended[req[r].answer.page]
           /\ time <= req[r].since + UpstreamTimeout
           /\ AskerOf(r) \in Asker /\ AskerOf(r).shape = req[r].shape /\ AskerOf(r).since = req[r].since
  <1>1. req[r] # Idle
    BY AtIsInFlight
  <1>2. OnTrack(req[r])
    BY <1>1, KeepTrack DEF Inv, EdgeInv
  <1>. QED
    BY <1>1, <1>2, InFlight DEF OnTrack, Inv

LEMMA SendSafe ==
    ASSUME Inv, NEW r \in Request, Send(r)
    PROVE  Inv'
  <1> DEFINE a == req[r].answer
  <1>1. /\ Fetched(req[r].shape, a) /\ req[r].since <= ended[a.page]
        /\ AskerOf(r) \in Asker /\ AskerOf(r).since = req[r].since
    BY FetchedAnswer DEF Send
  <1>2. a \in Answer /\ MayBeTold(AskerOf(r), a)
    BY <1>1 DEF Fetched, MayBeTold
  <1>3. Finish(r, AskerOf(r), a) /\ UNCHANGED <<cache, puts, world>>
    BY DEF Send
  <1>. QED
    BY <1>1, <1>2, <1>3, AnswerSafe

(* A hit: the entry is younger than the TTL, its content a fetch and one task's delay older. *)
LEMMA HitSafe ==
    ASSUME Inv, NEW r \in Request, Hit(r)
    PROVE  Inv'
  <1> DEFINE p == req[r].shape.path
             entry == cache[p]
             a == Copied(entry)
  <1>1. /\ req[r] # Idle /\ req[r].since \in Nat /\ req[r].at = "cache"
        /\ AskerOf(r) \in Asker /\ AskerOf(r).shape = req[r].shape /\ AskerOf(r).since = req[r].since
    BY AtIsInFlight, InFlight DEF Hit, Inv
  <1>2. p \in PublicPaths /\ req[r].shape.method = "GET" /\ req[r].since <= time
    BY <1>1 DEF Inv, EdgeInv, RequestsKeepTrack, Cached
  <1>3. entry # NoEntry /\ time < entry.at + entry.answer.age
    BY DEF Hit, Fresh
  <1>4. /\ Shareable(entry.answer) /\ entry.at \in 0 .. time
        /\ entry.at <= ended[entry.answer.page] + UpstreamTimeout + MaxPut
    BY <1>2, <1>3 DEF Inv, EdgeInv, EntriesAreRecent
  <1>5. /\ a \in Answer /\ a.shared = TRUE /\ a.grant = "" /\ a.kind = "Public" /\ a.query = ""
        /\ a.status = 200 /\ a.page = entry.answer.page /\ a.page \in 1 .. page
    BY <1>4 DEF Copied, Shareable, Answer
  <1>6. req[r].since < ended[a.page] + UpstreamTimeout + MaxPut + ttl
    <2>1. time \in Nat /\ ttl \in Nat /\ entry.answer.age = ttl
      BY <1>4, Clocks DEF Shareable
    <2>2. ended[a.page] \in Nat
      BY <1>5, Clocks
    <2> HIDE DEF entry, a
    <2>3. time < entry.at + ttl /\ entry.at \in Nat
      BY <1>3, <1>4, <2>1
    <2>4. entry.at <= ended[a.page] + UpstreamTimeout + MaxPut /\ req[r].since <= time
      BY <1>2, <1>4, <1>5
    <2>. QED
      BY <1>1, <2>1, <2>2, <2>3, <2>4, Bounds
  <1> HIDE DEF a
  <1>7. Finish(r, AskerOf(r), a) /\ UNCHANGED <<cache, puts, world>>
    BY DEF Hit, a
  <1>8. MayBeTold(AskerOf(r), a)
    <2>0. 200 # 0
      OBVIOUS
    <2>1. a.status # 0
      BY <1>5, <2>0, Zenon
    <2>. QED
      BY <1>1, <1>2, <1>5, <1>6, <2>1 DEF MayBeTold
  <1>. QED
    BY <1>1, <1>5, <1>7, <1>8, AnswerSafe

(* A miss goes on: what is kept for others is the answer to the bare path, before CORS. *)
LEMMA FillSafe ==
    ASSUME Inv, NEW r \in Request, Fill(r)
    PROVE  Inv'
  <1> DEFINE s == req[r].shape
             live == req[r].answer
             a == MaxAge(live)
             task == [path |-> s.path, answer |-> a, made |-> time]
  <1>1. /\ Fetched(s, live) /\ req[r].since <= ended[live.page] /\ time <= req[r].since + UpstreamTimeout
        /\ AskerOf(r) \in Asker /\ AskerOf(r).since = req[r].since /\ req[r].since \in Nat /\ TypeOK
    BY FetchedAnswer DEF Fill, Inv
  <1>2. Cached(s, live.kind) /\ ttl > 0 /\ ttl \in Nat
    BY Clocks DEF Fill, Cached
  <1>3. /\ live \in Answer /\ live.kind = "Public" /\ live.query = "" /\ live.shared = FALSE
        /\ live.grant = "" /\ live.page \in 1 .. page /\ live.status \in {0, 200} /\ s.path \in PublicPaths
    BY <1>1, <1>2 DEF Fetched, Cached, Answer
  <1> HIDE DEF live
  <1>4. /\ a \in Answer /\ a.kind = "Public" /\ a.query = "" /\ a.shared = FALSE
        /\ a.grant = "" /\ a.page = live.page /\ a.status = live.status
        /\ Storable(a) => a.age = ttl /\ a.status = 200
    <2>1. Storable(live) => live.status = 200
      <3>1. 0 \notin 200 .. 299
        OBVIOUS
      <3>. QED
        BY <1>3, <3>1, Zenon DEF Storable
    <2>2. CASE Storable(live)
      <3>1. a = [live EXCEPT !.age = ttl]
        BY <2>2 DEF MaxAge
      <3> HIDE DEF a
      <3>2. a \in Answer /\ a.age = ttl
        BY <1>2, <1>3, <3>1 DEF Answer
      <3>3. /\ a.kind = live.kind /\ a.query = live.query /\ a.shared = live.shared
            /\ a.grant = live.grant /\ a.page = live.page /\ a.status = live.status
        BY <1>3, <3>1 DEF Answer
      <3>. QED
        BY <1>3, <2>1, <2>2, <3>2, <3>3
    <2>3. CASE ~Storable(live)
      <3>1. a = live
        BY <2>3 DEF MaxAge
      <3> HIDE DEF a
      <3>. QED
        BY <1>3, <2>3, <3>1
    <2>. QED
      BY <2>2, <2>3
  <1> HIDE DEF a
  <1>5. /\ Finish(r, AskerOf(r), a) /\ UNCHANGED <<cache, world>>
        /\ puts' = puts \/ (Storable(a) /\ puts' = puts \cup {task})
    BY DEF Fill, a, live, ForCache
  <1>6. /\ Safely'
        /\ last' # NoAnswer => last'.to \in Asker /\ last'.answer \in Answer
        /\ req' \in [Request -> Flight \cup {Idle}]
        /\ req'[r] = Idle /\ \A q \in Request \ {r} : req'[q] = req[q]
    <2>1. MayBeTold(AskerOf(r), a)
      BY <1>1, <1>4 DEF MayBeTold
    <2>2. UNCHANGED <<env, ttl, ended>>
      BY <1>5 DEF world
    <2>. QED
      BY <1>1, <1>4, <1>5, <2>1, <2>2, FinishTells
  <1>7. TypeOK'
    BY <1>1, <1>5, <1>6 DEF TypeOK, world
  <1>8. RequestsKeepTrack'
    <2> SUFFICES ASSUME NEW q \in Request, req'[q] # Idle PROVE OnTrack(req[q])'
      BY KeepTrackNext
    <2>1. req'[q] = req[q] /\ OnTrack(req[q])
      BY <1>6, KeepTrack DEF Inv, EdgeInv
    <2>. QED
      BY <1>5, <2>1 DEF OnTrack, Cached, Fetched, world
  <1>9. \A b : Shareable(b)' <=> Shareable(b)
    BY <1>5 DEF Shareable, world
  <1>10. EntriesAreRecent' /\ ContentIsCurrent'
    BY <1>5, <1>9 DEF Inv, EdgeInv, EntriesAreRecent, ContentIsCurrent, world
  <1>11. ASSUME Storable(a)
         PROVE  /\ task.path \in PublicPaths /\ Shareable(task.answer)
                /\ task.made \in 0 .. time /\ time <= task.made + MaxPut
                /\ task.made <= ended[task.answer.page] + UpstreamTimeout
    <2>1. time \in 0 .. time /\ time <= time + MaxPut
      BY Bounds, Clocks
    <2>2. time <= ended[a.page] + UpstreamTimeout
      <3>1. ended[a.page] \in Nat /\ req[r].since <= ended[a.page]
        BY <1>1, <1>3, <1>4, Clocks
      <3>. QED
        BY <1>1, <3>1, Bounds, Clocks
    <2>3. Shareable(a)
      BY <1>3, <1>4, <1>11 DEF Shareable
    <2>. QED
      BY <1>3, <2>1, <2>2, <2>3
  <1> HIDE DEF task
  <1>12. TasksAreRecent'
    BY <1>2, <1>5, <1>9, <1>11 DEF Inv, EdgeInv, TasksAreRecent, world
  <1>. QED
    BY <1>6, <1>7, <1>8, <1>10, <1>12 DEF Inv, EdgeInv

-----------------------------------------------------------------------------
(* The runtime and the upstream. *)

(* A step that answers nobody and leaves the requests alone. *)
LEMMA QuietFrame ==
    ASSUME Inv, last' = NoAnswer, UNCHANGED <<req, world>>, puts' \subseteq puts,
           \A p \in PublicPaths :
              \/ cache'[p] = cache[p] \/ cache'[p] = NoEntry
              \/ /\ Shareable(cache'[p].answer) /\ ttl > 0 /\ cache'[p].at \in 0 .. time
                 /\ cache'[p].at <= ended[cache'[p].answer.page] + UpstreamTimeout + MaxPut
    PROVE  Inv'
  <1>1. \A b : Shareable(b)' <=> Shareable(b)
    BY DEF Shareable, world
  <1>2. TypeOK'
    <2>1. \A p \in PublicPaths : cache'[p] # NoEntry => cache'[p].answer \in Answer /\ ttl > 0
      <3> SUFFICES ASSUME NEW p \in PublicPaths, cache'[p] # NoEntry
                   PROVE  cache'[p].answer \in Answer /\ ttl > 0
        OBVIOUS
      <3>1. CASE cache'[p] = cache[p]
        BY <3>1 DEF Inv, TypeOK
      <3>2. CASE cache'[p] # cache[p]
        BY <3>2 DEF Shareable
      <3>. QED
        BY <3>1, <3>2
    <2>. QED
      BY <2>1 DEF Inv, TypeOK, world
  <1>3. EntriesAreRecent'
    BY <1>1 DEF Inv, EdgeInv, EntriesAreRecent, world
  <1>4. TasksAreRecent'
    BY <1>1 DEF Inv, EdgeInv, TasksAreRecent, world
  <1>5. RequestsKeepTrack' /\ ContentIsCurrent'
    BY DEF Inv, EdgeInv, RequestsKeepTrack, ContentIsCurrent, Cached, Fetched, world
  <1>. QED
    BY <1>2, <1>3, <1>4, <1>5, TellsNothing DEF Inv, EdgeInv

LEMMA TaskSafe ==
    ASSUME Inv, NEW task \in puts, Put(task) \/ PutLost(task)
    PROVE  Inv'
  <1>1. CASE PutLost(task)
    BY <1>1, QuietFrame DEF PutLost
  <1>2. CASE Put(task)
    <2>1. /\ task.path \in PublicPaths /\ Shareable(task.answer) /\ ttl > 0 /\ task.made \in 0 .. time
          /\ time <= task.made + MaxPut /\ task.made <= ended[task.answer.page] + UpstreamTimeout
      BY DEF Inv, EdgeInv, TasksAreRecent
    <2>2. ended[task.answer.page] \in Nat /\ time \in Nat
      BY <2>1, Clocks DEF Shareable
    <2> DEFINE entry == [at |-> time, answer |-> task.answer]
    <2>3. entry.answer = task.answer /\ entry.at \in 0 .. time /\ entry.at <= ended[task.answer.page] + UpstreamTimeout + MaxPut
      BY <2>1, <2>2, Bounds
    <2> HIDE DEF entry
    <2>4. \A p \in PublicPaths : cache'[p] = cache[p] \/ cache'[p] = entry
      BY <1>2 DEF Put, entry
    <2>. QED
      BY <1>2, <2>1, <2>3, <2>4, QuietFrame DEF Put
  <1>. QED
    BY <1>1, <1>2

LEMMA EvictSafe ==
    ASSUME Inv, NEW p \in PublicPaths, Evict(p)
    PROVE  Inv'
  <1>1. \A q \in PublicPaths : cache'[q] = cache[q] \/ cache'[q] = NoEntry
    BY DEF Evict
  <1>. QED
    BY <1>1, QuietFrame DEF Evict

(* Time passes, but not past the delay of a pending task. *)
LEMMA TickSafe ==
    ASSUME Inv, Tick
    PROVE  Inv'
  <1>1. /\ time' = time + 1 /\ time' \in 0 .. MaxTime /\ time \in Nat /\ last' = NoAnswer
        /\ UNCHANGED <<env, ttl, req, cache, puts, page, ended>>
    BY Clocks, Bounds DEF Tick
  <1>2. TypeOK'
    BY <1>1 DEF Inv, TypeOK
  <1>3. \A b : Shareable(b)' <=> Shareable(b)
    BY <1>1 DEF Shareable
  <1>4. RequestsKeepTrack'
    <2> SUFFICES ASSUME NEW r \in Request, req[r] # Idle PROVE OnTrack(req[r])'
      BY <1>1, KeepTrackNext
    <2>1. OnTrack(req[r])
      BY KeepTrack DEF Inv, EdgeInv
    <2>2. req[r].since \in Nat
      BY InFlight DEF Inv
    <2>3. req[r].since <= time'
      BY <1>1, <2>1, <2>2 DEF OnTrack
    <2>4. req[r].at = "fetch" => time' <= req[r].since + UpstreamTimeout
      BY <1>1, <2>2, Bounds DEF Tick
    <2>. QED
      BY <1>1, <2>1, <2>3, <2>4 DEF OnTrack, Cached, Fetched
  <1>5. TasksAreRecent'
    <2> SUFFICES ASSUME NEW task \in puts
                 PROVE  /\ task.path \in PublicPaths /\ Shareable(task.answer) /\ ttl > 0
                        /\ task.made \in 0 .. time' /\ time' <= task.made + MaxPut
                        /\ task.made <= ended[task.answer.page] + UpstreamTimeout
      BY <1>1, <1>3 DEF TasksAreRecent
    <2>1. /\ task.path \in PublicPaths /\ Shareable(task.answer) /\ ttl > 0
          /\ task.made \in 0 .. time /\ task.made <= ended[task.answer.page] + UpstreamTimeout
      BY DEF Inv, EdgeInv, TasksAreRecent
    <2>2. time < task.made + MaxPut
      BY DEF Tick
    <2>3. task.made \in 0 .. time' /\ time' <= task.made + MaxPut
      BY <1>1, <2>1, <2>2, Bounds
    <2>. QED
      BY <2>1, <2>3
  <1>6. EntriesAreRecent'
    <2> SUFFICES ASSUME NEW p \in PublicPaths, cache[p] # NoEntry
                 PROVE  /\ Shareable(cache[p].answer) /\ cache[p].at \in 0 .. time'
                        /\ cache[p].at <= ended[cache[p].answer.page] + UpstreamTimeout + MaxPut
      BY <1>1, <1>3 DEF EntriesAreRecent
    <2>1. /\ Shareable(cache[p].answer) /\ cache[p].at \in 0 .. time
          /\ cache[p].at <= ended[cache[p].answer.page] + UpstreamTimeout + MaxPut
      BY DEF Inv, EdgeInv, EntriesAreRecent
    <2>2. cache[p].at \in 0 .. time'
      BY <1>1, <2>1
    <2>. QED
      BY <2>1, <2>2
  <1>7. ContentIsCurrent'
    BY <1>1 DEF Inv, EdgeInv, ContentIsCurrent
  <1>. QED
    BY <1>1, <1>2, <1>4, <1>5, <1>6, <1>7, TellsNothing DEF Inv, EdgeInv

(* New content: what shows the old one was made while it was current. *)
LEMMA PublishSafe ==
    ASSUME Inv, Publish
    PROVE  Inv'
  <1>1. /\ page' = page + 1 /\ page' \in 1 .. MaxPage /\ page \in Nat /\ 1 <= page
        /\ ended' = [ended EXCEPT ![page] = time]
        /\ last' = NoAnswer /\ UNCHANGED <<env, ttl, req, cache, puts, time>>
        /\ time \in 0 .. Never /\ time \in Nat
    BY Clocks, Bounds DEF Publish
  <1>2. /\ page \in 1 .. MaxPage /\ ended \in [1 .. MaxPage -> 0 .. Never]
    BY DEF Inv, TypeOK, EdgeInv, ContentIsCurrent
  <1>3. /\ ended' \in [1 .. MaxPage -> 0 .. Never] /\ ended'[page] = time
        /\ \A v \in 1 .. MaxPage : v # page => ended'[v] = ended[v]
    BY <1>1, <1>2
  <1>4. TypeOK'
    BY <1>1 DEF Inv, TypeOK
  <1>5. \A b : Shareable(b) => Shareable(b)' /\ b.page \in 1 .. MaxPage
    <2>1. \A v \in 1 .. page : v \in 1 .. page' /\ v \in 1 .. MaxPage
      BY <1>1, <1>2, Bounds
    <2>2. ttl' = ttl
      BY <1>1
    <2>. QED
      BY <2>1, <2>2, Zenon DEF Shareable
  <1>6. RequestsKeepTrack'
    <2> SUFFICES ASSUME NEW r \in Request, req[r] # Idle PROVE OnTrack(req[r])'
      BY <1>1, KeepTrackNext
    <2>1. OnTrack(req[r]) /\ req[r].since \in Nat
      BY KeepTrack, InFlight DEF Inv, EdgeInv
    <2>2. ASSUME req[r].answer # NoAnswer
          PROVE  Fetched(req[r].shape, req[r].answer)' /\ req[r].since <= ended'[req[r].answer.page]
      <3>1. Fetched(req[r].shape, req[r].answer) /\ req[r].since <= ended[req[r].answer.page] /\ req[r].since <= time
        BY <2>1, <2>2 DEF OnTrack
      <3>2. req[r].answer.page \in 1 .. page' /\ req[r].answer.page \in 1 .. MaxPage
        <4>1. req[r].answer.page \in 1 .. page
          BY <3>1 DEF Fetched
        <4>2. \A v \in 1 .. page : v \in 1 .. page' /\ v \in 1 .. MaxPage
          BY <1>1, <1>2, Bounds
        <4>. QED
          BY <4>1, <4>2
      <3>3. req[r].since <= ended'[req[r].answer.page]
        BY <1>3, <3>1, <3>2
      <3>. QED
        BY <1>1, <3>1, <3>2, <3>3 DEF Fetched, Cached
    <2>. QED
      BY <1>1, <2>1, <2>2 DEF OnTrack, Cached
  <1>7. TasksAreRecent'
    <2> SUFFICES ASSUME NEW task \in puts
                 PROVE  /\ task.path \in PublicPaths /\ Shareable(task.answer) /\ ttl > 0
                        /\ task.made \in 0 .. time /\ time <= task.made + MaxPut
                        /\ task.made <= ended'[task.answer.page] + UpstreamTimeout
      BY <1>1, <1>5 DEF TasksAreRecent
    <2>1. /\ task.path \in PublicPaths /\ Shareable(task.answer) /\ ttl > 0
          /\ task.made \in 0 .. time /\ time <= task.made + MaxPut
          /\ task.made <= ended[task.answer.page] + UpstreamTimeout
      BY DEF Inv, EdgeInv, TasksAreRecent
    <2>2. task.answer.page \in 1 .. MaxPage
      BY <1>5, <2>1
    <2>3. task.made <= ended'[task.answer.page] + UpstreamTimeout
      BY <1>1, <1>3, <2>1, <2>2, Bounds
    <2>. QED
      BY <2>1, <2>3
  <1>8. EntriesAreRecent'
    <2> SUFFICES ASSUME NEW p \in PublicPaths, cache[p] # NoEntry
                 PROVE  /\ Shareable(cache[p].answer) /\ cache[p].at \in 0 .. time
                        /\ cache[p].at <= ended'[cache[p].answer.page] + UpstreamTimeout + MaxPut
      BY <1>1, <1>5 DEF EntriesAreRecent
    <2>1. /\ Shareable(cache[p].answer) /\ cache[p].at \in 0 .. time
          /\ cache[p].at <= ended[cache[p].answer.page] + UpstreamTimeout + MaxPut
      BY DEF Inv, EdgeInv, EntriesAreRecent
    <2>2. cache[p].answer.page \in 1 .. MaxPage
      BY <1>5, <2>1
    <2>3. cache[p].at <= ended'[cache[p].answer.page] + UpstreamTimeout + MaxPut
      BY <1>1, <1>3, <2>1, <2>2, Bounds
    <2>. QED
      BY <2>1, <2>3
  <1>9. ContentIsCurrent'
    <2>1. \A v \in page' .. MaxPage : v \in page .. MaxPage /\ v # page /\ v \in 1 .. MaxPage
      BY <1>1, Bounds
    <2>2. \A v \in page .. MaxPage : ended[v] = Never
      BY DEF Inv, EdgeInv, ContentIsCurrent
    <2>3. Never' = Never
      BY DEF Never
    <2>. QED
      BY <1>3, <2>1, <2>2, <2>3 DEF ContentIsCurrent
  <1>. QED
    BY <1>1, <1>4, <1>6, <1>7, <1>8, <1>9, TellsNothing DEF Inv, EdgeInv

LEMMA StutterSafe ==
    ASSUME Inv, UNCHANGED vars
    PROVE  Inv'
  <1>1. TypeOK'
    BY DEF Inv, TypeOK, vars
  <1>2. \A b : Shareable(b)' <=> Shareable(b)
    BY DEF Shareable, vars
  <1>3. EdgeInv'
    <2>1. RequestsKeepTrack'
      BY DEF Inv, EdgeInv, RequestsKeepTrack, Cached, Fetched, vars
    <2>2. TasksAreRecent' /\ EntriesAreRecent' /\ ContentIsCurrent'
      BY <1>2 DEF Inv, EdgeInv, TasksAreRecent, EntriesAreRecent, ContentIsCurrent, vars
    <2>. QED
      BY <2>1, <2>2 DEF EdgeInv
  <1>4. Safely'
    BY DEF Inv, Safely, SharedOnlyPublic, NoForeignGrant, FailureIsOwn, Freshness, Told, vars
  <1>. QED
    BY <1>1, <1>3, <1>4 DEF Inv

LEMMA EdgeInit ==
    ASSUME Init
    PROVE  Inv
  <1>1. 1 \in 1 .. MaxPage /\ 0 \in 0 .. MaxTime /\ Never \in 0 .. Never
    BY Bounds
  <1>2. TypeOK
    BY <1>1 DEF Init, TypeOK
  <1>3. RequestsKeepTrack /\ TasksAreRecent
    BY DEF Init, RequestsKeepTrack, TasksAreRecent
  <1>4. EntriesAreRecent
    BY DEF Init, EntriesAreRecent
  <1>5. ContentIsCurrent
    BY <1>1 DEF Init, ContentIsCurrent
  <1>6. Safely
    BY DEF Init, Safely, SharedOnlyPublic, NoForeignGrant, FailureIsOwn, Freshness, Told
  <1>. QED
    BY <1>2, <1>3, <1>4, <1>5, <1>6 DEF Inv, EdgeInv

LEMMA EdgeKeeps == PartsSpec => []Inv
  <1>1. PartsInit => Inv
    BY EdgeInit DEF PartsInit
  <1>2. Inv /\ [Next]_vars => Inv'
    BY OwnSafe, ForwardSafe, MissSafe, ReplySafe, SendSafe, HitSafe, FillSafe, TaskSafe, EvictSafe,
       TickSafe, PublishSafe, StutterSafe DEF Next
  <1>3. [PartsNext]_allVars => [Next]_vars
    BY DEF PartsNext, allVars
  <1>. QED
    BY <1>1, <1>2, <1>3, PTL DEF PartsSpec

(* What the Worker's cache gives to another client is a public answer to the bare
   path, without anybody's CORS grant and never a failure. *)
THEOREM SharesSafely == PartsSpec => []CacheSharesSafely
  <1>1. Inv => CacheSharesSafely
    BY DEF Inv, Safely, CacheSharesSafely
  <1>. QED
    BY <1>1, EdgeKeeps, PTL

(* No client of the Worker is shown content that was superseded before the upstream was asked
   for it, nor from the cache content superseded longer ago than the TTL, the delay of one task
   and the deadline of a fetch, even if the copies of several misses overtake each other. *)
THEOREM ContentIsFresh == PartsSpec => []Freshness
  <1>1. Inv => Freshness
    BY DEF Inv, Safely
  <1>. QED
    BY <1>1, EdgeKeeps, PTL

-----------------------------------------------------------------------------
(* Header fields. *)

LEMMA HeaderParameters ==
    /\ MaxHops \in Nat /\ "" \in Origin /\ "" \notin Allowed
    /\ Plain \subseteq Headers!Name /\ Auth \subseteq Headers!Name
  BY OtherEdgeConstants DEF Headers!HeaderConstants, Headers!Name

(* Another hop, if there is one. *)
LEMMA HopCounts ==
    ASSUME NEW n, NEW m, n \in 0 .. MaxHops, m \in 0 .. MaxHops, m <= n, n < MaxHops
    PROVE  n + 1 \in 0 .. MaxHops /\ m <= n + 1 /\ (m = 0 => m + 1 \in 0 .. MaxHops /\ m + 1 <= n + 1 /\ m + 1 <= 1)
  <1>1. MaxHops \in Nat
    BY HeaderParameters
  <1>. QED
    BY <1>1

(* The gateway's mark stays, whatever is appended to it. *)
LEMMA MarkStays ==
    ASSUME NEW S, NEW v \in Seq(S), NEW e \in S, Headers!ViaIsLooped(v)
    PROVE  Headers!ViaIsLooped(Append(v, e))
  <1>1. PICK i \in DOMAIN v : Len(v[i]) >= 2 /\ v[i][2] \in {"nft-gate", "NFT-Gate"}
    BY DEF Headers!ViaIsLooped
  <1>2. i \in DOMAIN Append(v, e) /\ Append(v, e)[i] = v[i]
    BY <1>1
  <1>. QED
    BY <1>1, <1>2 DEF Headers!ViaIsLooped

LEMMA TokenIsLooped == Headers!ViaIsLooped(<<Headers!ViaToken>>)
  BY DEF Headers!ViaIsLooped, Headers!ViaToken

LEMMA HeadersStart ==
    ASSUME Headers!Init
    PROVE  Headers!HeaderInv
  <1>1. fields \in [Headers!Name -> {"none", "peer", "gateway"}]
    BY DEF Headers!Init
  <1>2. named \subseteq Headers!Name
    BY DEF Headers!Init, Headers!Name
  <1>3. Headers!TypeOK
    <2>1. 0 \in 0 .. MaxHops
      <3>1. MaxHops \in Nat
        BY HeaderParameters
      <3>. QED
        BY <3>1
    <2>2. "" \in Origin
      BY HeaderParameters
    <2>. QED
      BY <1>1, <1>2, <2>1, <2>2 DEF Headers!Init, Headers!TypeOK
  <1>4. via \in Seq(Entry \cup {<<"1.1", "cdn">>, Headers!ViaToken})
    <2>1. via = << >> \/ \E e \in Entry : via = <<e>>
      BY DEF Headers!Init
    <2>2. ASSUME NEW S, NEW e \in S PROVE <<e>> \in Seq(S)
      OBVIOUS
    <2>3. ASSUME NEW S PROVE << >> \in Seq(S)
      OBVIOUS
    <2>. QED
      BY <2>1, <2>2, <2>3
  <1>5. at = "edge" /\ crossed = 0 /\ hops = 0
    BY DEF Headers!Init
  <1>. QED
    BY <1>3, <1>4, <1>5 DEF Headers!HeaderInv, Headers!ForwardedIsMarked, Headers!UpstreamSeesOwnCredentials,
       Headers!ForwardedOnce, Headers!ClientSeesClean

LEMMA ProxyClean ==
    ASSUME Headers!HeaderInv, Headers!Proxy
    PROVE  Headers!HeaderInv'
  <1>1. /\ at \in {"edge", "behind"} /\ via' = Append(via, <<"1.1", "cdn">>)
        /\ hops < MaxHops /\ hops' = hops + 1 /\ UNCHANGED <<at, fields, named, origin, grant, crossed>>
    BY DEF Headers!Proxy
  <1>2. /\ hops \in 0 .. MaxHops /\ crossed \in 0 .. MaxHops /\ crossed <= hops
        /\ via \in Seq(Entry \cup {<<"1.1", "cdn">>, Headers!ViaToken})
    BY DEF Headers!HeaderInv, Headers!TypeOK, Headers!ForwardedIsMarked
  <1>3. Headers!TypeOK'
    <2>1. hops' \in 0 .. MaxHops
      BY <1>1, <1>2, HopCounts
    <2>. QED
      BY <1>1, <2>1 DEF Headers!HeaderInv, Headers!TypeOK
  <1>4. via' \in Seq(Entry \cup {<<"1.1", "cdn">>, Headers!ViaToken})
    BY <1>1, <1>2
  <1>5. Headers!ViaIsLooped(via) => Headers!ViaIsLooped(via')
    BY <1>1, <1>2, MarkStays
  <1>6. Headers!ForwardedIsMarked'
    <2>1. crossed' > 0 => Headers!ViaIsLooped(via')
      BY <1>1, <1>5 DEF Headers!HeaderInv, Headers!ForwardedIsMarked
    <2>2. Headers!ViaIsLooped(via)' <=> Headers!ViaIsLooped(via')
      BY DEF Headers!ViaIsLooped
    <2>3. crossed' <= hops' /\ Headers!ViaToken' = Headers!ViaToken
      BY <1>1, <1>2, HopCounts DEF Headers!ViaToken
    <2>. QED
      BY <1>4, <2>1, <2>2, <2>3 DEF Headers!ForwardedIsMarked
  <1>. QED
    BY <1>1, <1>3, <1>6 DEF Headers!HeaderInv, Headers!UpstreamSeesOwnCredentials, Headers!ForwardedOnce,
       Headers!ClientSeesClean, Headers!Present

(* A message that only moves on, to where nothing is promised or everything already is. *)
LEMMA MoveClean ==
    ASSUME Headers!HeaderInv, Headers!Arrive \/ Headers!Refuse \/ Headers!Deliver \/ UNCHANGED headerVars
    PROVE  Headers!HeaderInv'
  <1>1. /\ UNCHANGED <<fields, named, via, origin, grant, crossed, hops>>
        /\ at' \in {"edge", "gateway", "behind", "upstream", "refused", "back", "client"}
        /\ at' \in {"behind", "upstream"} => at \in {"behind", "upstream"}
        /\ at' = "client" => at = "client"
    BY DEF Headers!HeaderInv, Headers!TypeOK, Headers!Arrive, Headers!Refuse, Headers!Deliver, headerVars
  <1>. QED
    BY <1>1 DEF Headers!HeaderInv, Headers!TypeOK, Headers!ForwardedIsMarked, Headers!UpstreamSeesOwnCredentials,
       Headers!ForwardedOnce, Headers!ClientSeesClean, Headers!Present, Headers!ViaIsLooped, Headers!ViaToken

LEMMA ForwardClean ==
    ASSUME Headers!HeaderInv, Headers!Forward
    PROVE  Headers!HeaderInv' /\ Headers!ListedStay
  <1>1. /\ ~Headers!ViaIsLooped(via) /\ hops < MaxHops /\ fields' = Headers!UpstreamRequest /\ named' = {}
        /\ via' = <<Headers!ViaToken>> /\ crossed' = crossed + 1 /\ hops' = hops + 1 /\ at' = "behind"
        /\ UNCHANGED <<origin, grant>>
    BY DEF Headers!Forward
  <1>2. crossed = 0 /\ crossed' \in 0 .. MaxHops /\ hops' \in 0 .. MaxHops /\ crossed' <= hops' /\ crossed' <= 1
    <2>1. crossed = 0 /\ crossed <= hops /\ crossed \in 0 .. MaxHops /\ hops \in 0 .. MaxHops
      BY <1>1 DEF Headers!HeaderInv, Headers!TypeOK, Headers!ForwardedIsMarked
    <2>. QED
      BY <1>1, <2>1, HopCounts
  <1>3. fields' \in [Headers!Name -> {"none", "peer", "gateway"}]
    BY <1>1 DEF Headers!HeaderInv, Headers!TypeOK, Headers!UpstreamRequest
  <1>4. Headers!TypeOK'
    BY <1>1, <1>2, <1>3 DEF Headers!HeaderInv, Headers!TypeOK
  <1>5. Headers!ForwardedIsMarked'
    <2>1. Headers!ViaIsLooped(via)'
      BY <1>1, TokenIsLooped DEF Headers!ViaIsLooped, Headers!ViaToken
    <2>2. via' \in Seq(Entry \cup {<<"1.1", "cdn">>, Headers!ViaToken}) /\ Headers!ViaToken' = Headers!ViaToken
      BY <1>1 DEF Headers!ViaToken
    <2>. QED
      BY <1>2, <2>1, <2>2 DEF Headers!ForwardedIsMarked
  <1>6. Headers!UpstreamSeesOwnCredentials'
    BY <1>1, HeaderParameters
       DEF Headers!UpstreamSeesOwnCredentials, Headers!UpstreamRequest, Headers!DropRequestHeader, Headers!Present
  <1>7. Headers!ListedStay
    BY <1>1 DEF Headers!Forward, Headers!HeaderInv, Headers!TypeOK, Headers!ListedStay, Headers!UpstreamRequest,
       Headers!DropRequestHeader
  <1>. QED
    BY <1>1, <1>2, <1>4, <1>5, <1>6, <1>7 DEF Headers!HeaderInv, Headers!ForwardedOnce, Headers!ClientSeesClean

LEMMA RespondClean ==
    ASSUME Headers!HeaderInv, Headers!Respond
    PROVE  Headers!HeaderInv'
  <1>1. at' = "back" /\ UNCHANGED <<via, origin, grant, crossed, hops>>
    BY DEF Headers!Respond
  <1>2. fields' \in [Headers!Name -> {"none", "peer", "gateway"}] /\ named' \subseteq Headers!Name
    BY HeaderParameters DEF Headers!Respond, Headers!Written
  <1>. QED
    BY <1>1, <1>2 DEF Headers!HeaderInv, Headers!TypeOK, Headers!ForwardedIsMarked, Headers!UpstreamSeesOwnCredentials,
       Headers!ForwardedOnce, Headers!ClientSeesClean, Headers!ViaIsLooped, Headers!ViaToken

LEMMA ReturnClean ==
    ASSUME Headers!HeaderInv, Headers!Return
    PROVE  Headers!HeaderInv' /\ Headers!ListedStay
  <1>1. /\ fields' = IF at = "back" THEN Headers!ClientResponse ELSE [n \in Headers!Name |-> "none"]
        /\ named' = {} /\ grant' = Headers!CorsAllowedOrigin(origin) /\ at' = "client"
        /\ UNCHANGED <<via, origin, crossed, hops>>
    BY DEF Headers!Return
  <1>2. fields' \in [Headers!Name -> {"none", "peer", "gateway"}]
    BY <1>1 DEF Headers!HeaderInv, Headers!TypeOK, Headers!ClientResponse
  <1>3. Headers!TypeOK'
    BY <1>1, <1>2, HeaderParameters DEF Headers!HeaderInv, Headers!TypeOK, Headers!CorsAllowedOrigin
  <1>4. Headers!ClientSeesClean'
    BY <1>1, HeaderParameters DEF Headers!ClientSeesClean, Headers!ClientResponse, Headers!DropResponseHeader,
       Headers!CorsAllowedOrigin, Headers!Present
  <1>5. Headers!ForwardedIsMarked'
    BY <1>1 DEF Headers!HeaderInv, Headers!ForwardedIsMarked, Headers!ViaIsLooped, Headers!ViaToken
  <1>6. Headers!ListedStay
    BY <1>1 DEF Headers!HeaderInv, Headers!TypeOK, Headers!ListedStay, Headers!ClientResponse, Headers!DropResponseHeader
  <1>. QED
    BY <1>1, <1>3, <1>4, <1>5, <1>6 DEF Headers!HeaderInv, Headers!UpstreamSeesOwnCredentials, Headers!ForwardedOnce

(* Whatever clients, upstream and proxies write and list, the upstream sees the gateway's own
   credentials and none of the client's, a request passes the gateway at most once, and the
   client sees nothing that was meant for the connection, nor a grant for another origin. *)
THEOREM MessagesStayClean == PartsSpec => HeadersStayClean
  <1>1. PartsInit => Headers!HeaderInv
    BY HeadersStart DEF PartsInit
  <1>2. Headers!HeaderInv /\ [PartsNext]_allVars
           => Headers!HeaderInv' /\ [Headers!ListedStay]_headerVars
    <2> SUFFICES ASSUME Headers!HeaderInv, [PartsNext]_allVars
                 PROVE  Headers!HeaderInv' /\ [Headers!ListedStay]_headerVars
      OBVIOUS
    <2>1. Headers!Next \/ UNCHANGED headerVars
      BY DEF PartsNext, allVars
    <2>2. CASE Headers!Proxy
      BY <2>2, ProxyClean DEF Headers!ListedStay, Headers!Proxy
    <2>3. CASE Headers!Arrive \/ Headers!Refuse \/ Headers!Deliver \/ UNCHANGED headerVars
      BY <2>3, MoveClean DEF Headers!ListedStay, Headers!Arrive, Headers!Refuse, Headers!Deliver
    <2>4. CASE Headers!Forward
      BY <2>4, ForwardClean
    <2>5. CASE Headers!Respond
      BY <2>5, RespondClean DEF Headers!ListedStay, Headers!Respond
    <2>6. CASE Headers!Return
      BY <2>6, ReturnClean
    <2>. QED
      BY <2>1, <2>2, <2>3, <2>4, <2>5, <2>6 DEF Headers!Next
  <1>3. [Headers!ListedStay]_headerVars <=> [Headers!ListedStay]_Headers!vars
    BY DEF headerVars, Headers!vars
  <1>. QED
    BY <1>1, <1>2, <1>3, PTL DEF PartsSpec, HeadersStayClean, Headers!ListedFieldsStay

-----------------------------------------------------------------------------
(* The client's address. *)

LEMMA SameCount == \A S : Net!Cardinality(S) = Cardinality(S)
  BY Zenon DEF Net!Cardinality, Cardinality

LEMMA Counted == \A p, E : Net!FromEnd(p, E) = Cardinality({q \in E : Net!NoLater(p, q)})
  BY SameCount, Zenon DEF Net!FromEnd

(* An entry is a pair of numbers: its field's and its own. *)
LEMMA EntryPlaces ==
    ASSUME NEW S, NEW f \in Seq(Seq(S))
    PROVE  /\ \A p \in Net!Listed(f) : \E i \in 1 .. Len(f) : \E j \in 1 .. Len(f[i]) : p = <<i, j>> /\ f[i][j] # Net!Empty
           /\ \A i \in 1 .. Len(f) : \A j \in 1 .. Len(f[i]) : f[i][j] # Net!Empty => <<i, j>> \in Net!Listed(f)
           /\ \A i \in 1 .. Len(f) : f[i] \in Seq(S) /\ Len(f[i]) \in Nat /\ DOMAIN f[i] = 1 .. Len(f[i])
           /\ Len(f) \in Nat
  <1>1. /\ Len(f) \in Nat /\ DOMAIN f = 1 .. Len(f)
        /\ \A i \in 1 .. Len(f) : f[i] \in Seq(S) /\ Len(f[i]) \in Nat /\ DOMAIN f[i] = 1 .. Len(f[i])
    OBVIOUS
  <1>2. ASSUME NEW p \in Net!Listed(f)
        PROVE  \E i \in 1 .. Len(f) : \E j \in 1 .. Len(f[i]) : p = <<i, j>> /\ f[i][j] # Net!Empty
    <2>1. f[p[1]][p[2]] # Net!Empty /\ \E i \in 1 .. Len(f) : p \in {i} \X DOMAIN f[i]
      BY <1>1 DEF Net!Listed
    <2>2. PICK i \in 1 .. Len(f) : p \in {i} \X DOMAIN f[i]
      BY <2>1
    <2>3. p = <<i, p[2]>> /\ p[2] \in 1 .. Len(f[i]) /\ p[1] = i
      BY <1>1, <2>2
    <2>. QED
      BY <2>1, <2>3
  <1>3. ASSUME NEW i \in 1 .. Len(f), NEW j \in 1 .. Len(f[i]), f[i][j] # Net!Empty
        PROVE  <<i, j>> \in Net!Listed(f)
    <2>1. <<i, j>> \in {i} \X DOMAIN f[i] /\ i \in DOMAIN f
      BY <1>1
    <2>2. f[<<i, j>>[1]][<<i, j>>[2]] # Net!Empty
      BY <1>3
    <2>. QED
      BY <2>1, <2>2 DEF Net!Listed
  <1>. QED
    BY <1>1, <1>2, <1>3

LEMMA EntriesAreFinite ==
    ASSUME NEW S, NEW f \in Seq(Seq(S))
    PROVE  IsFiniteSet(Net!Listed(f))
  <1> DEFINE Row(i) == {i} \X DOMAIN f[i]
             row == [i \in 1 .. Len(f) |-> Row(i)]
             Rows == {Row(i) : i \in DOMAIN f}
  <1>1. DOMAIN f = 1 .. Len(f) /\ Len(f) \in Nat
    OBVIOUS
  <1>2. IsFiniteSet(1 .. Len(f))
    BY <1>1, FS_Interval
  <1>3. IsFiniteSet(Rows)
    <2>1. row \in [1 .. Len(f) -> Rows] /\ \A x \in Rows : \E i \in 1 .. Len(f) : row[i] = x
      BY <1>1
    <2>2. row \in Surjection(1 .. Len(f), Rows)
      BY <2>1 DEF Surjection
    <2> HIDE DEF row, Rows
    <2>. QED
      BY <1>2, <2>2, FS_Surjection
  <1>4. \A x \in Rows : IsFiniteSet(x)
    <2> SUFFICES ASSUME NEW i \in 1 .. Len(f) PROVE IsFiniteSet(Row(i))
      BY <1>1
    <2>1. DOMAIN f[i] = 1 .. Len(f[i]) /\ Len(f[i]) \in Nat
      BY EntryPlaces
    <2>2. IsFiniteSet(1 .. Len(f[i]))
      <3> DEFINE n == Len(f[i])
      <3>1. 1 \in Int /\ n \in Int
        BY <2>1
      <3> HIDE DEF n
      <3>2. IsFiniteSet(1 .. n)
        BY <3>1, FS_Interval, Zenon
      <3>. QED
        BY <3>2 DEF n
    <2>3. IsFiniteSet({i})
      BY FS_Singleton, Zenon
    <2>. QED
      BY <2>1, <2>2, <2>3, FS_Product
  <1>5. IsFiniteSet(UNION Rows)
    BY <1>3, <1>4, FS_UNION
  <1>6. Net!Listed(f) \in SUBSET (UNION Rows)
    BY DEF Net!Listed
  <1>. QED
    BY <1>5, <1>6, FS_Subset

(* One more entry behind all others is the last, and moves them one place from the end. *)
LEMMA EntryAdded ==
    ASSUME NEW E, IsFiniteSet(E), NEW t, t \notin E, Net!NoLater(t, t),
           \A q \in E : Net!NoLater(q, t) /\ ~Net!NoLater(t, q)
    PROVE  /\ Net!FromEnd(t, E \cup {t}) = 1
           /\ \A p \in E : Net!FromEnd(p, E \cup {t}) = Net!FromEnd(p, E) + 1
  <1>1. Net!FromEnd(t, E \cup {t}) = 1
    <2>1. {q \in E \cup {t} : Net!NoLater(t, q)} = {t}
      OBVIOUS
    <2>2. Net!FromEnd(t, E \cup {t}) = Cardinality({t})
      BY <2>1, Counted, Zenon
    <2>3. Cardinality({t}) = 1
      BY FS_Singleton, Zenon
    <2>. QED
      BY <2>2, <2>3
  <1>2. ASSUME NEW p \in E
        PROVE  Net!FromEnd(p, E \cup {t}) = Net!FromEnd(p, E) + 1
    <2> DEFINE F == {q \in E : Net!NoLater(p, q)}
    <2>1. {q \in E \cup {t} : Net!NoLater(p, q)} = F \cup {t} /\ t \notin F
      OBVIOUS
    <2>2. F \in SUBSET E
      OBVIOUS
    <2>3. IsFiniteSet(F)
      BY <2>2, FS_Subset
    <2>4. Cardinality(F \cup {t}) = Cardinality(F) + 1
      BY <2>1, <2>3, FS_AddElement
    <2>5. Net!FromEnd(p, E \cup {t}) = Cardinality(F \cup {t}) /\ Net!FromEnd(p, E) = Cardinality(F)
      BY <2>1, Counted, Zenon
    <2>. QED
      BY <2>4, <2>5
  <1>. QED
    BY <1>1, <1>2

(* No two entries have the same place, and a place is no further than the entries reach; of all
   that are listed, or of some. *)
LEMMA PlacesDiffer ==
    ASSUME NEW S, NEW f \in Seq(Seq(S)), NEW E \in SUBSET Net!Listed(f), NEW p \in E
    PROVE  /\ Net!FromEnd(p, E) <= Cardinality(E)
           /\ \A q \in E : Net!FromEnd(p, E) = Net!FromEnd(q, E) => p = q
  <1> DEFINE After(q) == {x \in E : Net!NoLater(q, x)}
  <1>1. IsFiniteSet(E) /\ \A q \in E : After(q) \in SUBSET E
    BY EntriesAreFinite, FS_Subset
  <1>2. \A q \in E : IsFiniteSet(After(q)) /\ Cardinality(After(q)) <= Cardinality(E)
    BY <1>1, FS_Subset
  <1>3. \A q \in E : \E i, j \in Nat : q = <<i, j>>
    BY EntryPlaces
  <1>4. ASSUME NEW x \in E, NEW y \in E, x # y, Net!NoLater(x, y)
        PROVE  Cardinality(After(x)) # Cardinality(After(y))
    <2>1. PICK xi \in Nat, xj \in Nat : x = <<xi, xj>>
      BY <1>3
    <2>2. PICK yi \in Nat, yj \in Nat : y = <<yi, yj>>
      BY <1>3
    <2>3. xi < yi \/ (xi = yi /\ xj < yj)
      BY <1>4, <2>1, <2>2 DEF Net!NoLater
    <2>4. After(y) \subseteq After(x)
      <3> SUFFICES ASSUME NEW z \in E, Net!NoLater(y, z) PROVE Net!NoLater(x, z)
        OBVIOUS
      <3>1. PICK zi \in Nat, zj \in Nat : z = <<zi, zj>>
        BY <1>3
      <3>. QED
        BY <2>1, <2>2, <2>3, <3>1 DEF Net!NoLater
    <2>5. x \in After(x) /\ x \notin After(y)
      BY <2>1, <2>2, <2>3 DEF Net!NoLater
    <2>6. After(x) # After(y)
      BY <2>5
    <2> HIDE DEF After
    <2>. QED
      BY <1>2, <2>4, <2>6, FS_Subset
  <1>5. ASSUME NEW q \in E, p # q PROVE Cardinality(After(p)) # Cardinality(After(q))
    <2>1. Net!NoLater(p, q) \/ Net!NoLater(q, p)
      <3>1. PICK xi \in Nat, xj \in Nat : p = <<xi, xj>>
        BY <1>3
      <3>2. PICK yi \in Nat, yj \in Nat : q = <<yi, yj>>
        BY <1>3
      <3>. QED
        BY <3>1, <3>2 DEF Net!NoLater
    <2> HIDE DEF After
    <2>. QED
      BY <1>4, <1>5, <2>1
  <1>6. \A q : Net!FromEnd(q, E) = Cardinality(After(q))
    BY Counted, Zenon
  <1> HIDE DEF After
  <1>. QED
    BY <1>2, <1>5, <1>6

(* The entry in a place is the one that was put there. *)
LEMMA AtPlace ==
    ASSUME NEW S, NEW f \in Seq(Seq(S)), NEW p \in Net!Entries(f), NEW n,
           Net!FromEnd(p, Net!Entries(f)) = n
    PROVE  Net!At(n, f) = f[p[1]][p[2]] /\ n <= Cardinality(Net!Entries(f))
  <1> DEFINE c == CHOOSE q \in Net!Entries(f) : Net!FromEnd(q, Net!Entries(f)) = n
  <1>1. c \in Net!Entries(f) /\ Net!FromEnd(c, Net!Entries(f)) = n
    OBVIOUS
  <1>2. Net!Entries(f) \in SUBSET Net!Listed(f)
    BY DEF Net!Entries
  <1>3. /\ c = p
        /\ Net!FromEnd(p, Net!Entries(f)) <= Cardinality(Net!Entries(f))
    BY <1>1, <1>2, PlacesDiffer
  <1>. QED
    BY <1>3 DEF Net!At

(* An entry behind which everything can be read has the same place among the readable ones. *)
LEMMA SamePlace ==
    ASSUME NEW S, NEW f \in Seq(Seq(S)), NEW p \in Net!Listed(f), NEW n \in Nat,
           Net!FromEnd(p, Net!Listed(f)) = n,
           \A q \in Net!Listed(f) : Net!FromEnd(q, Net!Listed(f)) <= n => Net!Readable(f[q[1]])
    PROVE  p \in Net!Entries(f) /\ Net!FromEnd(p, Net!Entries(f)) = n
  <1> DEFINE L == Net!Listed(f)
             After(q) == {x \in L : Net!NoLater(q, x)}
  <1>1. IsFiniteSet(L) /\ \A q \in L : \E i, j \in Nat : q = <<i, j>>
    BY EntriesAreFinite, EntryPlaces
  <1>2. ASSUME NEW q \in L, Net!NoLater(p, q) PROVE Net!Readable(f[q[1]])
    <2>1. PICK pi \in Nat, pj \in Nat : p = <<pi, pj>>
      BY <1>1
    <2>2. PICK qi \in Nat, qj \in Nat : q = <<qi, qj>>
      BY <1>1
    <2>3. After(q) \subseteq After(p)
      <3> SUFFICES ASSUME NEW x \in L, Net!NoLater(q, x) PROVE Net!NoLater(p, x)
        OBVIOUS
      <3>1. PICK xi \in Nat, xj \in Nat : x = <<xi, xj>>
        BY <1>1
      <3>. QED
        BY <1>2, <2>1, <2>2, <3>1 DEF Net!NoLater
    <2>4. After(p) \in SUBSET L /\ After(q) \in SUBSET After(p)
      BY <2>3
    <2>5. Net!FromEnd(q, L) = Cardinality(After(q)) /\ Net!FromEnd(p, L) = Cardinality(After(p))
      BY Counted, Zenon
    <2> HIDE DEF After, L
    <2>6. IsFiniteSet(After(p))
      BY <1>1, <2>4, FS_Subset
    <2>7. Cardinality(After(q)) <= Cardinality(After(p))
      BY <2>4, <2>6, FS_Subset
    <2>. QED
      BY <2>5, <2>7 DEF L
  <1>3. {x \in Net!Entries(f) : Net!NoLater(p, x)} = After(p)
    BY <1>2 DEF Net!Entries
  <1>4. p \in Net!Entries(f)
    <2>1. Net!NoLater(p, p)
      BY <1>1 DEF Net!NoLater
    <2>. QED
      BY <1>2, <2>1 DEF Net!Entries
  <1>5. Net!FromEnd(p, Net!Entries(f)) = Net!FromEnd(p, L)
    BY <1>3, Counted, Zenon
  <1>. QED
    BY <1>4, <1>5

(* The header with what a proxy adds, as an entry of the last field or as a field of its own. *)
Extends(g, f, seen) ==
    \/ g = Append(f, <<seen>>)
    \/ f # << >> /\ g = [f EXCEPT ![Len(f)] = Append(@, seen)]

(* It comes last, and moves the others one place on. *)
ComesLast(g, f, seen) ==
    /\ \E t \in Net!Listed(g) : Net!FromEnd(t, Net!Listed(g)) = 1 /\ g[t[1]][t[2]] = seen
    /\ \A p \in Net!Listed(f) :
          /\ p \in Net!Listed(g) /\ g[p[1]][p[2]] = f[p[1]][p[2]]
          /\ Net!FromEnd(p, Net!Listed(g)) = Net!FromEnd(p, Net!Listed(f)) + 1

LEMMA ProxyAdds ==
    ASSUME NEW S, NEW f \in Seq(Seq(S)), NEW seen \in S, seen # Net!Empty, NEW g, Extends(g, f, seen)
    PROVE  g \in Seq(Seq(S)) /\ ComesLast(g, f, seen)
  <1> DEFINE E == Net!Listed(f)
             Added(t) ==
                 /\ g \in Seq(Seq(S)) /\ Net!Listed(g) = E \cup {t} /\ t \notin E
                 /\ g[t[1]][t[2]] = seen /\ \A p \in E : g[p[1]][p[2]] = f[p[1]][p[2]]
                 /\ Net!NoLater(t, t) /\ \A q \in E : Net!NoLater(q, t) /\ ~Net!NoLater(t, q)
  <1>1. /\ \A p \in E : \E i \in 1 .. Len(f) : \E j \in 1 .. Len(f[i]) : p = <<i, j>> /\ f[i][j] # Net!Empty
        /\ \A i \in 1 .. Len(f) : \A j \in 1 .. Len(f[i]) : f[i][j] # Net!Empty => <<i, j>> \in E
        /\ \A i \in 1 .. Len(f) : f[i] \in Seq(S) /\ Len(f[i]) \in Nat /\ DOMAIN f[i] = 1 .. Len(f[i])
        /\ Len(f) \in Nat
    BY EntryPlaces
  <1>2. ASSUME g \in Seq(Seq(S)), NEW ti \in Nat, NEW tj \in Nat, ti \in 1 .. Len(g), tj \in 1 .. Len(g[ti]), g[ti][tj] = seen,
               \A i \in 1 .. Len(f) : \A j \in 1 .. Len(f[i]) :
                  /\ i \in 1 .. Len(g) /\ j \in 1 .. Len(g[i]) /\ g[i][j] = f[i][j]
                  /\ i < ti \/ (i = ti /\ j < tj),
               \A i \in 1 .. Len(g) : \A j \in 1 .. Len(g[i]) :
                  (i = ti /\ j = tj) \/ (i \in 1 .. Len(f) /\ j \in 1 .. Len(f[i]))
        PROVE  Added(<<ti, tj>>)
    <2> DEFINE t == <<ti, tj>>
    <2>1. /\ \A p \in Net!Listed(g) : \E i \in 1 .. Len(g) : \E j \in 1 .. Len(g[i]) : p = <<i, j>> /\ g[i][j] # Net!Empty
          /\ \A i \in 1 .. Len(g) : \A j \in 1 .. Len(g[i]) : g[i][j] # Net!Empty => <<i, j>> \in Net!Listed(g)
      <3>1. g \in Seq(Seq(S))
        BY <1>2
      <3>. QED
        BY ONLY <3>1, EntryPlaces
    <2>2. t \in Net!Listed(g) /\ E \subseteq Net!Listed(g)
      <3>1. t \in Net!Listed(g)
        BY <1>2, <2>1
      <3>2. ASSUME NEW p \in E PROVE p \in Net!Listed(g)
        <4>1. PICK i \in 1 .. Len(f) : \E j \in 1 .. Len(f[i]) : p = <<i, j>> /\ f[i][j] # Net!Empty
          BY <1>1
        <4>2. PICK j \in 1 .. Len(f[i]) : p = <<i, j>> /\ f[i][j] # Net!Empty
          BY <4>1
        <4>. QED
          BY <1>2, <2>1, <4>2
      <3>. QED
        BY <3>1, <3>2
    <2>3. Net!Listed(g) \subseteq E \cup {t}
      <3> SUFFICES ASSUME NEW p \in Net!Listed(g), p # t PROVE p \in E
        OBVIOUS
      <3>1. PICK i \in 1 .. Len(g) : \E j \in 1 .. Len(g[i]) : p = <<i, j>> /\ g[i][j] # Net!Empty
        BY <2>1
      <3>2. PICK j \in 1 .. Len(g[i]) : p = <<i, j>> /\ g[i][j] # Net!Empty
        BY <3>1
      <3>3. i \in 1 .. Len(f) /\ j \in 1 .. Len(f[i])
        BY <1>2, <3>2
      <3>. QED
        BY <1>1, <1>2, <3>2, <3>3
    <2>4. ASSUME NEW p \in E
          PROVE  g[p[1]][p[2]] = f[p[1]][p[2]] /\ Net!NoLater(p, t) /\ ~Net!NoLater(t, p)
      <3>1. PICK i \in 1 .. Len(f) : \E j \in 1 .. Len(f[i]) : p = <<i, j>>
        BY <1>1
      <3>2. PICK j \in 1 .. Len(f[i]) : p = <<i, j>>
        BY <3>1
      <3>3. p[1] = i /\ p[2] = j /\ t[1] = ti /\ t[2] = tj /\ i \in Nat /\ j \in Nat
        BY <1>1, <3>2
      <3>4. g[i][j] = f[i][j] /\ (i < ti \/ (i = ti /\ j < tj))
        BY <1>2, <3>2
      <3>5. Net!NoLater(p, t) /\ ~Net!NoLater(t, p)
        BY <3>3, <3>4 DEF Net!NoLater
      <3>. QED
        BY <3>3, <3>4, <3>5
    <2>5. Net!NoLater(t, t)
      BY DEF Net!NoLater
    <2>6. t \notin E
      BY <2>4, <2>5
    <2>7. g[t[1]][t[2]] = seen
      BY <1>2
    <2> HIDE DEF t, E
    <2>. QED
      BY <1>2, <2>2, <2>3, <2>4, <2>5, <2>6, <2>7 DEF t
  <1>3. \E t : Added(t)
    <2>1. CASE g = Append(f, <<seen>>)
      <3>1. <<seen>> \in Seq(S) /\ Len(<<seen>>) = 1 /\ <<seen>>[1] = seen
        OBVIOUS
      <3>2. /\ g \in Seq(Seq(S)) /\ Len(g) = Len(f) + 1 /\ g[Len(f) + 1] = <<seen>>
            /\ \A i \in 1 .. Len(f) : g[i] = f[i]
        BY <1>1, <2>1, <3>1
      <3>3. Added(<<Len(f) + 1, 1>>)
        <4>1. Len(f) + 1 \in Nat /\ 1 \in Nat /\ Len(f) + 1 \in 1 .. Len(g) /\ 1 \in 1 .. Len(g[Len(f) + 1])
          BY <1>1, <3>1, <3>2
        <4>2. g[Len(f) + 1][1] = seen
          BY <3>1, <3>2
        <4>3. \A i \in 1 .. Len(f) : \A j \in 1 .. Len(f[i]) :
                 /\ i \in 1 .. Len(g) /\ j \in 1 .. Len(g[i]) /\ g[i][j] = f[i][j]
                 /\ i < Len(f) + 1 \/ (i = Len(f) + 1 /\ j < 1)
          BY <1>1, <3>2
        <4>4. \A i \in 1 .. Len(g) : \A j \in 1 .. Len(g[i]) :
                 (i = Len(f) + 1 /\ j = 1) \/ (i \in 1 .. Len(f) /\ j \in 1 .. Len(f[i]))
          <5> SUFFICES ASSUME NEW i \in 1 .. Len(g), NEW j \in 1 .. Len(g[i])
                       PROVE  (i = Len(f) + 1 /\ j = 1) \/ (i \in 1 .. Len(f) /\ j \in 1 .. Len(f[i]))
            OBVIOUS
          <5>1. CASE i = Len(f) + 1
            <6>1. Len(g[i]) = 1
              BY <3>1, <3>2, <5>1
            <6>2. j \in 1 .. 1
              BY <6>1
            <6>. QED
              BY <5>1, <6>2
          <5>2. CASE i \in 1 .. Len(f)
            BY <3>2, <5>2
          <5>. QED
            BY <1>1, <3>2, <5>1, <5>2
        <4> HIDE DEF Added
        <4>. QED
          BY <1>2, <3>2, <4>1, <4>2, <4>3, <4>4
      <3> HIDE DEF Added
      <3>. QED
        BY <3>3
    <2>2. CASE f # << >> /\ g = [f EXCEPT ![Len(f)] = Append(@, seen)]
      <3> DEFINE n == Len(f)
                 m == Len(f[n])
      <3>1. n \in 1 .. Len(f) /\ n \in Nat /\ f[n] \in Seq(S) /\ m \in Nat
        <4>1. Len(f) # 0
          BY <2>2
        <4>2. n \in 1 .. Len(f) /\ n \in Nat
          BY <1>1, <4>1
        <4>. QED
          BY <1>1, <4>2
      <3>2. /\ Append(f[n], seen) \in Seq(S) /\ Len(Append(f[n], seen)) = m + 1 /\ Append(f[n], seen)[m + 1] = seen
            /\ \A j \in 1 .. m : Append(f[n], seen)[j] = f[n][j]
        BY <3>1
      <3>3. /\ g \in Seq(Seq(S)) /\ Len(g) = n /\ g[n] = Append(f[n], seen)
            /\ \A i \in 1 .. Len(f) : i # n => g[i] = f[i]
        BY <1>1, <2>2, <3>1, <3>2
      <3> HIDE DEF n, m
      <3>4. Added(<<n, m + 1>>)
        <4>1. n \in Nat /\ m + 1 \in Nat /\ n \in 1 .. Len(g) /\ m + 1 \in 1 .. Len(g[n]) /\ g[n][m + 1] = seen
          BY <3>1, <3>2, <3>3 DEF n
        <4>2. \A i \in 1 .. Len(f) : \A j \in 1 .. Len(f[i]) :
                 /\ i \in 1 .. Len(g) /\ j \in 1 .. Len(g[i]) /\ g[i][j] = f[i][j]
                 /\ i < n \/ (i = n /\ j < m + 1)
          <5> SUFFICES ASSUME NEW i \in 1 .. Len(f), NEW j \in 1 .. Len(f[i])
                       PROVE  /\ i \in 1 .. Len(g) /\ j \in 1 .. Len(g[i]) /\ g[i][j] = f[i][j]
                              /\ i < n \/ (i = n /\ j < m + 1)
            OBVIOUS
          <5>1. i \in Nat /\ j \in Nat /\ i <= n /\ Len(f) = n /\ Len(f[i]) \in Nat
            BY <1>1 DEF n
          <5>2. CASE i = n
            <6>1. Len(g[i]) = m + 1 /\ g[i] = Append(f[n], seen) /\ i \in 1 .. Len(g)
              BY <3>1, <3>2, <3>3, <5>1, <5>2
            <6>2. j \in 1 .. m
              BY <5>2 DEF m
            <6>3. g[i][j] = f[i][j]
              BY <3>2, <5>2, <6>1, <6>2
            <6>. QED
              BY <3>1, <5>2, <6>1, <6>2, <6>3
          <5>3. CASE i # n
            BY <3>1, <3>3, <5>1, <5>3
          <5>. QED
            BY <5>2, <5>3
        <4>3. \A i \in 1 .. Len(g) : \A j \in 1 .. Len(g[i]) :
                 (i = n /\ j = m + 1) \/ (i \in 1 .. Len(f) /\ j \in 1 .. Len(f[i]))
          <5> SUFFICES ASSUME NEW i \in 1 .. Len(g), NEW j \in 1 .. Len(g[i])
                       PROVE  (i = n /\ j = m + 1) \/ (i \in 1 .. Len(f) /\ j \in 1 .. Len(f[i]))
            OBVIOUS
          <5>1. i \in 1 .. Len(f)
            BY <3>3 DEF n
          <5>2. CASE i = n
            <6>1. Len(g[i]) = m + 1 /\ Len(f[i]) = m
              BY <3>2, <3>3, <5>2 DEF m
            <6>2. j \in 1 .. m + 1
              BY <6>1
            <6>3. j \in 1 .. m \/ j = m + 1
              BY <3>1, <6>2
            <6>. QED
              BY <5>1, <5>2, <6>1, <6>3
          <5>3. CASE i # n
            BY <3>3, <5>1, <5>3
          <5>. QED
            BY <5>2, <5>3
        <4> HIDE DEF Added
        <4>. QED
          BY <1>2, <3>3, <4>1, <4>2, <4>3
      <3> HIDE DEF Added
      <3>. QED
        BY <3>4
    <2>. QED
      BY <2>1, <2>2 DEF Extends
  <1>4. PICK t : Added(t)
    BY <1>3
  <1>5. IsFiniteSet(E)
    BY EntriesAreFinite
  <1>6. /\ Net!FromEnd(t, E \cup {t}) = 1
        /\ \A p \in E : Net!FromEnd(p, E \cup {t}) = Net!FromEnd(p, E) + 1
    BY <1>4, <1>5, EntryAdded
  <1> HIDE DEF E
  <1>. QED
    BY <1>4, <1>6 DEF E, ComesLast

(* A client's address is no empty text, and never that of nobody. *)
LEMMA ClientTexts ==
    ASSUME NEW c \in Client
    PROVE  /\ Net!Text(c) \in Net!Said /\ Net!Text(c) # Net!Empty
           /\ Net!Text(c).is = c.family /\ Net!Text(c).prefix = c.subscriber /\ Net!Text(c).rest = c.host
           /\ c.family \in {"v4", "v6"} /\ DOMAIN Net!Text(c) = {"is", "prefix", "rest"}
  <1>1. c \in [family : {"v4", "v6"}, subscriber : STRING, host : STRING]
    BY OtherEdgeConstants DEF Net!AddressConstants
  <1>2. Net!Text(c) \in Net!Said
    BY DEF Net!Said
  <1>3. /\ Net!Text(c).is = c.family /\ Net!Text(c).prefix = c.subscriber /\ Net!Text(c).rest = c.host
        /\ c.family \in {"v4", "v6"} /\ DOMAIN Net!Text(c) = {"is", "prefix", "rest"}
    BY <1>1 DEF Net!Text
  <1>4. Net!Empty.is = "empty"
    BY DEF Net!Empty
  <1>. QED
    BY <1>2, <1>3, <1>4

LEMMA ProxyTexts ==
    ASSUME NEW n \in 1 .. 2
    PROVE  Net!Proxy(n) \in Net!Said /\ Net!Proxy(n) # Net!Empty
  <1>1. Net!Proxy(n).is = "v4" /\ Net!Empty.is = "empty"
    BY DEF Net!Proxy, Net!Empty
  <1>. QED
    BY <1>1 DEF Net!Said

LEMMA SaidIsFixed == Net!Said' = Net!Said
  BY DEF Net!Said, Net!Text, Net!Proxy

(* Keys are settled by the configuration. *)
LEMMA KeysStay ==
    ASSUME UNCHANGED <<platform, proxies, dualStack>>
    PROVE  (\A c : Net!KeyOf(c)' = Net!KeyOf(c)) /\ Net!Unknown' = Net!Unknown
  BY DEF Net!KeyOf, Net!RateKey, Net!PeerText, Net!Text, Net!Unknown

LEMMA ChargedStays ==
    ASSUME Net!ChargedByClient, UNCHANGED <<platform, proxies, dualStack, charged>>
    PROVE  Net!ChargedByClient'
  BY KeysStay DEF Net!ChargedByClient

LEMMA SendListed ==
    ASSUME Net!AddressInv, NEW c \in Client, Net!Send(c)
    PROVE  Net!AddressInv'
  <1>1. PICK f \in Forged : request' = [client |-> c, fields |-> f, passed |-> 0]
    BY DEF Net!Send
  <1>2. UNCHANGED <<platform, proxies, dualStack, charged>>
    BY DEF Net!Send, Net!site
  <1>3. f \in Seq(Seq(Net!Said)) /\ proxies \in 0 .. 2
    BY OtherEdgeConstants DEF Net!AddressConstants, Net!AddressInv, Net!TypeOK
  <1>4. request' \in [client : Client, fields : Seq(Seq(Net!Said)), passed : 0 .. proxies] /\ request'.passed = 0
    <2>1. 0 \in 0 .. proxies
      BY <1>3
    <2>. QED
      BY <1>1, <1>3, <2>1
  <1>5. Net!TypeOK'
    BY <1>2, <1>4, SaidIsFixed DEF Net!AddressInv, Net!TypeOK
  <1>6. Net!ClientIsListed'
    BY <1>4 DEF Net!ClientIsListed
  <1>7. Net!ChargedByClient'
    BY <1>2, ChargedStays DEF Net!AddressInv
  <1>. QED
    BY <1>5, <1>6, <1>7 DEF Net!AddressInv

(* The first proxy adds the client's address; every other one moves it one place on. *)
LEMMA ForwardListed ==
    ASSUME Net!AddressInv, Net!Forward
    PROVE  Net!AddressInv'
  <1> DEFINE f == request.fields
             seen == IF request.passed = 0 THEN Net!Text(request.client) ELSE Net!Proxy(request.passed)
  <1>1. /\ request.client \in Client /\ f \in Seq(Seq(Net!Said)) /\ request.passed \in 0 .. proxies
        /\ proxies \in 0 .. 2 /\ request.passed < proxies /\ request # Net!NoRequest
        /\ request \in [client : Client, fields : Seq(Seq(Net!Said)), passed : 0 .. proxies]
    BY OtherEdgeConstants DEF Net!AddressConstants, Net!AddressInv, Net!TypeOK, Net!Forward
  <1>2. PICK g : /\ request' = [request EXCEPT !.fields = g, !.passed = @ + 1]
                 /\ \/ g = Append(f, <<seen>>)
                    \/ f # << >> /\ g = [f EXCEPT ![Len(f)] = Append(@, seen)]
    BY DEF Net!Forward
  <1>3. UNCHANGED <<platform, proxies, dualStack, charged>>
    BY DEF Net!Forward, Net!site
  <1>4. seen \in Net!Said /\ seen # Net!Empty
    <2>1. CASE request.passed = 0
      BY <1>1, <2>1, ClientTexts
    <2>2. CASE request.passed # 0
      <3>1. request.passed \in 1 .. 2
        BY <1>1, <2>2
      <3>. QED
        BY <2>2, <3>1, ProxyTexts
    <2>. QED
      BY <2>1, <2>2
  <1> HIDE DEF seen
  <1>5. g \in Seq(Seq(Net!Said)) /\ ComesLast(g, f, seen)
    <2>1. Extends(g, f, seen)
      BY <1>2 DEF Extends
    <2> HIDE DEF f
    <2>. QED
      BY <1>1, <1>4, <2>1, ProxyAdds DEF f
  <1>6. /\ request' \in [client : Client, fields : Seq(Seq(Net!Said)), passed : 0 .. proxies]
        /\ request'.client = request.client /\ request'.fields = g /\ request'.passed = request.passed + 1
    <2>1. request' = [request EXCEPT !.fields = g, !.passed = @ + 1]
      BY <1>2
    <2>2. request.passed + 1 \in 0 .. proxies
      BY <1>1
    <2>3. g \in Seq(Seq(Net!Said)) /\ request \in [client : Client, fields : Seq(Seq(Net!Said)), passed : 0 .. proxies]
      BY <1>1, <1>5
    <2>. QED
      BY <2>1, <2>2, <2>3
  <1>7. Net!TypeOK'
    BY <1>1, <1>3, <1>6, SaidIsFixed DEF Net!AddressInv, Net!TypeOK
  <1>8. \E p \in Net!Listed(g) : Net!FromEnd(p, Net!Listed(g)) = request'.passed /\ g[p[1]][p[2]] = Net!Text(request.client)
    <2>1. CASE request.passed = 0
      BY <1>5, <1>6, <2>1 DEF seen, ComesLast
    <2>2. CASE request.passed > 0
      <3>1. PICK p \in Net!Listed(f) : Net!FromEnd(p, Net!Listed(f)) = request.passed /\ f[p[1]][p[2]] = Net!Text(request.client)
        BY <1>1, <2>2 DEF Net!AddressInv, Net!ClientIsListed
      <3> HIDE DEF f
      <3>. QED
        BY <1>5, <1>6, <3>1 DEF ComesLast
    <2>. QED
      BY <1>1, <2>1, <2>2
  <1>9. Net!ClientIsListed'
    <2>1. Net!Listed(request.fields)' = Net!Listed(g)
      BY <1>6 DEF Net!Listed, Net!Empty
    <2>2. \A p : Net!FromEnd(p, Net!Listed(request.fields))' = Net!FromEnd(p, Net!Listed(g))
      BY <2>1 DEF Net!FromEnd, Net!NoLater
    <2>3. Net!Text(request.client)' = Net!Text(request.client)
      BY <1>6 DEF Net!Text
    <2>. QED
      BY <1>6, <1>8, <2>1, <2>2, <2>3 DEF Net!ClientIsListed
  <1>10. Net!ChargedByClient'
    BY <1>3, ChargedStays DEF Net!AddressInv
  <1>. QED
    BY <1>7, <1>9, <1>10 DEF Net!AddressInv


(* The gateway charges the client's own key, if it can read what its proxies wrote. *)
LEMMA NativeKeyIsOwn ==
    ASSUME Net!AddressInv, request # Net!NoRequest, platform = "native", request.passed = proxies,
           Net!Legible(request)
    PROVE  Net!NativeKey(request) = Net!KeyOf(request.client)
  <1>1. request.client \in Client /\ request.fields \in Seq(Seq(Net!Said)) /\ proxies \in 0 .. 2
    BY OtherEdgeConstants DEF Net!AddressConstants, Net!AddressInv, Net!TypeOK
  <1>2. CASE proxies = 0
    BY <1>2 DEF Net!NativeKey, Net!ClientIpRaw, Net!KeyOf
  <1>3. CASE proxies > 0
    <2>1. PICK p \in Net!Listed(request.fields) :
             /\ Net!FromEnd(p, Net!Listed(request.fields)) = proxies
             /\ request.fields[p[1]][p[2]] = Net!Text(request.client)
      BY <1>3 DEF Net!AddressInv, Net!ClientIsListed
    <2>2. p \in Net!Entries(request.fields) /\ Net!FromEnd(p, Net!Entries(request.fields)) = proxies
      <3>1. \A q \in Net!Listed(request.fields) :
               Net!FromEnd(q, Net!Listed(request.fields)) <= proxies => Net!Readable(request.fields[q[1]])
        BY DEF Net!Legible
      <3>2. proxies \in Nat
        BY <1>1
      <3>. QED
        BY <1>1, <2>1, <3>1, <3>2, SamePlace
    <2>3. /\ Net!At(proxies, request.fields) = Net!Text(request.client)
          /\ proxies <= Cardinality(Net!Entries(request.fields))
      BY <1>1, <2>1, <2>2, AtPlace
    <2>4. Cardinality(Net!Entries(request.fields)) \in Nat
      <3>1. Net!Entries(request.fields) \in SUBSET Net!Listed(request.fields)
        BY DEF Net!Entries
      <3>. QED
        BY <1>1, <3>1, EntriesAreFinite, FS_Subset, FS_CardinalityType
    <2>5. ~(Net!Cardinality(Net!Entries(request.fields)) < proxies) /\ proxies # 0
      BY <1>1, <1>3, <2>3, <2>4, SameCount
    <2>6. \A peer : Net!ClientIpRaw(request.fields, peer) = Net!Text(request.client)
      BY <2>3, <2>5 DEF Net!ClientIpRaw
    <2>. QED
      BY <1>3, <2>5, <2>6 DEF Net!NativeKey, Net!KeyOf
  <1>. QED
    BY <1>1, <1>2, <1>3

LEMMA ChargeListed ==
    ASSUME Net!AddressInv, Net!Charge
    PROVE  Net!AddressInv'
  <1>1. /\ request # Net!NoRequest /\ request' = Net!NoRequest /\ UNCHANGED <<platform, proxies, dualStack>>
        /\ request.client \in Client
    BY DEF Net!Charge, Net!site, Net!AddressInv, Net!TypeOK
  <1>2. \E k, l : /\ charged' = charged \cup {[client |-> request.client, key |-> k, legible |-> l]}
                  /\ l => k \in {Net!Unknown, Net!KeyOf(request.client)}
    <2>1. CASE /\ platform = "native" /\ request.passed = proxies
               /\ charged' = charged \cup
                    {[client |-> request.client, key |-> Net!NativeKey(request), legible |-> Net!Legible(request)]}
      <3>1. Net!Legible(request) => Net!NativeKey(request) \in {Net!Unknown, Net!KeyOf(request.client)}
        BY <1>1, <2>1, NativeKeyIsOwn
      <3>. QED
        BY <2>1, <3>1
    <2>2. ASSUME NEW observed \in BOOLEAN, platform = "worker",
                 charged' = charged \cup
                    {[client |-> request.client, key |-> Net!WorkerKey(request, observed), legible |-> TRUE]}
          PROVE  Net!WorkerKey(request, observed) \in {Net!Unknown, Net!KeyOf(request.client)}
      BY <2>2 DEF Net!WorkerKey, Net!KeyOf
    <2>. QED
      BY <2>1, <2>2 DEF Net!Charge
  <1>3. PICK k, l : /\ charged' = charged \cup {[client |-> request.client, key |-> k, legible |-> l]}
                    /\ l => k \in {Net!Unknown, Net!KeyOf(request.client)}
    BY <1>2
  <1>4. Net!NoRequest' = Net!NoRequest
    BY DEF Net!NoRequest, Net!Empty
  <1>5. Net!TypeOK' /\ Net!ClientIsListed'
    BY <1>1, <1>4 DEF Net!AddressInv, Net!TypeOK, Net!ClientIsListed
  <1>6. Net!ChargedByClient'
    BY <1>1, <1>3, KeysStay DEF Net!AddressInv, Net!ChargedByClient
  <1>. QED
    BY <1>5, <1>6 DEF Net!AddressInv

(* One key for every subscriber's address, and another's for nobody's. *)
LEMMA KeysTellSubscribers ==
    ASSUME Net!AddressInv, NEW c \in Client, NEW d \in Client
    PROVE  /\ c.subscriber = d.subscriber => Net!KeyOf(c) = Net!KeyOf(d)
           /\ ~dualStack /\ Net!KeyOf(c) = Net!KeyOf(d) => c.subscriber = d.subscriber
  <1>1. /\ c \in [family : {"v4", "v6"}, subscriber : STRING, host : STRING]
        /\ d \in [family : {"v4", "v6"}, subscriber : STRING, host : STRING]
        /\ c.subscriber = d.subscriber => c.family = d.family /\ (c.family = "v4" => c = d)
    BY OtherEdgeConstants DEF Net!AddressConstants
  <1>2. ASSUME c.subscriber = d.subscriber PROVE Net!KeyOf(c) = Net!KeyOf(d)
    <2>1. CASE c.family = "v4"
      BY <1>1, <1>2, <2>1
    <2>2. CASE c.family = "v6" /\ d.family = "v6"
      BY <1>2, <2>2 DEF Net!KeyOf, Net!RateKey, Net!PeerText, Net!Text
    <2>. QED
      BY <1>1, <1>2, <2>1, <2>2
  <1>3. ASSUME ~dualStack PROVE Net!KeyOf(c).prefix = c.subscriber /\ Net!KeyOf(d).prefix = d.subscriber
    BY <1>3 DEF Net!KeyOf, Net!RateKey, Net!PeerText, Net!Text
  <1>. QED
    BY <1>2, <1>3

(* While the gateway can read the fields its proxies wrote into, a client is charged to the one
   budget of its subscriber, whatever else is in its headers and whichever host of its prefix it
   sends from; and, but for the IPv4 peers of a dual-stack socket, to nobody else's. *)
THEOREM BudgetsAreOwn == PartsSpec => []OneBudgetEach
  <1>1. PartsInit => Net!AddressInv
    <2> SUFFICES ASSUME Net!Init PROVE Net!AddressInv
      BY DEF PartsInit
    <2>1. request = Net!NoRequest /\ charged = {}
      BY DEF Net!Init
    <2>2. Net!TypeOK
      BY <2>1 DEF Net!Init, Net!TypeOK
    <2>. QED
      BY <2>1, <2>2 DEF Net!AddressInv, Net!ClientIsListed, Net!ChargedByClient
  <1>2. Net!AddressInv /\ [PartsNext]_allVars => Net!AddressInv'
    <2> SUFFICES ASSUME Net!AddressInv, [PartsNext]_allVars PROVE Net!AddressInv'
      OBVIOUS
    <2>1. Net!Next \/ UNCHANGED addressVars
      BY DEF PartsNext, allVars
    <2>2. CASE UNCHANGED addressVars
      <3>1. UNCHANGED <<platform, proxies, dualStack, request, charged>>
        BY <2>2 DEF addressVars
      <3>. QED
        BY <3>1, SaidIsFixed, ChargedStays DEF Net!AddressInv, Net!TypeOK, Net!ClientIsListed
    <2>. QED
      BY <2>1, <2>2, SendListed, ForwardListed, ChargeListed DEF Net!Next
  <1>3. Net!AddressInv => OneBudgetEach
    <2> SUFFICES ASSUME Net!AddressInv PROVE Net!OneBudget /\ Net!OwnBudget
      BY DEF OneBudgetEach
    <2>1. \A a \in Net!Known : a.client \in Client /\ a.key = Net!KeyOf(a.client)
      BY DEF Net!AddressInv, Net!ChargedByClient, Net!Known
    <2>. QED
      BY <2>1, KeysTellSubscribers DEF Net!OneBudget, Net!OwnBudget
  <1>. QED
    BY <1>1, <1>2, <1>3, PTL DEF PartsSpec

-----------------------------------------------------------------------------
(* The configuration. *)

LEMMA ConfigParameters ==
    /\ Platforms \subseteq {"native", "worker"} /\ MaxEdits \in Nat /\ MaxConfigTime \in Nat
    /\ Steps \subseteq Nat /\ Stamps \subseteq Nat /\ Skew \in Nat /\ LeaseGap \in Nat
    /\ \A b \in Bases : Cfg!IsEnvironment(b)
    /\ \A x \in Edits : x[1] \in Cfg!Keys
  BY OtherEdgeConstants DEF Cfg!ConfigConstants

(* An accepted environment remembers a consume for at least as long as it accepts it. *)
LEMMA AcceptedWindows ==
    ASSUME NEW e, Cfg!FromEnv(e)
    PROVE  Cfg!Retention(e) \in Nat /\ Cfg!MaxAge(e) \in Nat /\ Cfg!MaxAge(e) <= Cfg!Retention(e)
  <1>1. Cfg!Ints(e, Cfg!CoreInts) /\ Cfg!RetentionCoversAge(e)
    BY DEF Cfg!FromEnv, Cfg!CoreOK
  <1>2. Cfg!MaxAge(e) <= Cfg!Retention(e)
    BY <1>1 DEF Cfg!RetentionCoversAge
  <1>3. Cfg!Retention(e) >= 0 /\ Cfg!MaxAge(e) >= 0
    <2>1. {"REDEMPTION_RETENTION_SECS", "CONSUME_MAX_AGE_SECS"} \subseteq DOMAIN Cfg!CoreInts
      BY DEF Cfg!CoreInts
    <2>. QED
      BY <1>1, <2>1 DEF Cfg!Ints, Cfg!MaxAge, Cfg!Retention
  <1>4. Cfg!Retention(e) \in Int /\ Cfg!MaxAge(e) \in Int
    <2>1. ASSUME NEW key, NEW a \in Int, NEW b \in Int, NEW c \in Int
          PROVE  Cfg!Integer(e, key, <<a, b, c>>) \in Int
      BY DEF Cfg!Integer
    <2>2. /\ Cfg!CoreInts.REDEMPTION_RETENTION_SECS = <<2592000, 3600, 31536000>>
          /\ Cfg!CoreInts.CONSUME_MAX_AGE_SECS = <<432000, 60, 31536000>>
      BY DEF Cfg!CoreInts
    <2>. QED
      BY <2>1, <2>2 DEF Cfg!Retention, Cfg!MaxAge
  <1>. QED
    BY <1>2, <1>3, <1>4

LEMMA ConfigStart ==
    ASSUME Cfg!Init
    PROVE  Cfg!ConfigInv
  <1>1. 0 \in 0 .. MaxEdits /\ 0 \in 0 .. MaxConfigTime
    BY ConfigParameters
  <1>2. running = Cfg!Stopped /\ former = Cfg!Stopped /\ spender = Cfg!Stopped
    BY DEF Cfg!Init
  <1>3. Cfg!TypeOK
    <2>1. Cfg!IsEnvironment(settings) /\ plat \in Platforms /\ stamp \in Stamps
      BY ConfigParameters DEF Cfg!Init
    <2>2. edits = 0 /\ memory = 0 /\ clock = 0
      BY DEF Cfg!Init
    <2>. QED
      BY <1>1, <1>2, <2>1, <2>2 DEF Cfg!TypeOK
  <1>. QED
    BY <1>2, <1>3 DEF Cfg!ConfigInv, Cfg!ServesAccepted, Cfg!SpentIsRemembered

(* Whether an environment is accepted depends on nothing but the platform. *)
LEMMA AcceptedStays ==
    ASSUME plat' = plat,
           \A c \in {running', former', spender'} : c # Cfg!Stopped => Cfg!FromEnv(c)
    PROVE  Cfg!ServesAccepted'
  <1>1. \A c : Cfg!FromEnv(c)' <=> Cfg!FromEnv(c)
    BY DEF Cfg!FromEnv
  <1>. QED
    BY <1>1 DEF Cfg!ServesAccepted

(* A step that starts nothing and redeems nothing. *)
LEMMA NothingSpent ==
    ASSUME Cfg!ConfigInv, UNCHANGED <<plat, running, former, stamp, spender, memory>>
    PROVE  Cfg!ServesAccepted' /\ Cfg!SpentIsRemembered'
  <1>1. Cfg!ServesAccepted'
    BY AcceptedStays DEF Cfg!ConfigInv, Cfg!ServesAccepted
  <1>2. Cfg!SpentIsRemembered'
    BY DEF Cfg!ConfigInv, Cfg!SpentIsRemembered
  <1>. QED
    BY <1>1, <1>2

LEMMA EditConfigured ==
    ASSUME Cfg!ConfigInv, Cfg!Edit
    PROVE  Cfg!ConfigInv'
  <1>1. PICK x \in Edits :
           settings' = [key \in DOMAIN settings \cup {x[1]} |-> IF key = x[1] THEN x[2] ELSE settings[key]]
    BY DEF Cfg!Edit
  <1>2. edits < MaxEdits /\ edits' = edits + 1 /\ UNCHANGED <<plat, running, former, stamp, spender, memory, clock>>
    BY DEF Cfg!Edit
  <1>3. Cfg!IsEnvironment(settings')
    <2>1. DOMAIN settings \subseteq Cfg!Keys /\ x[1] \in Cfg!Keys
      BY ConfigParameters DEF Cfg!ConfigInv, Cfg!TypeOK, Cfg!IsEnvironment
    <2>2. DOMAIN settings' = DOMAIN settings \cup {x[1]}
      BY <1>1
    <2>3. settings' = [key \in DOMAIN settings' |-> settings'[key]]
      BY <1>1
    <2>. QED
      BY <2>1, <2>2, <2>3 DEF Cfg!IsEnvironment
  <1>4. edits' \in 0 .. MaxEdits
    <2>1. edits \in 0 .. MaxEdits /\ MaxEdits \in Nat
      BY ConfigParameters DEF Cfg!ConfigInv, Cfg!TypeOK
    <2>. QED
      BY <1>2, <2>1
  <1>5. Cfg!TypeOK'
    BY <1>2, <1>3, <1>4 DEF Cfg!ConfigInv, Cfg!TypeOK
  <1>. QED
    BY <1>2, <1>5, NothingSpent DEF Cfg!ConfigInv

LEMMA StartConfigured ==
    ASSUME Cfg!ConfigInv, Cfg!Start
    PROVE  Cfg!ConfigInv' /\ memory' <= memory
  <1>1. /\ running' = IF Cfg!FromEnv(settings) THEN settings ELSE Cfg!Stopped
        /\ UNCHANGED <<plat, settings, edits, stamp, clock>>
    BY DEF Cfg!Start
  <1>2. \/ former' = Cfg!Stopped /\ memory' = 0 /\ spender' = Cfg!Stopped
        \/ former' = running /\ memory' = memory /\ spender' = spender
    BY DEF Cfg!Start
  <1>3. memory \in Nat
    BY DEF Cfg!ConfigInv, Cfg!TypeOK
  <1>4. Cfg!TypeOK'
    BY <1>1, <1>2, <1>3 DEF Cfg!ConfigInv, Cfg!TypeOK
  <1>5. Cfg!ServesAccepted'
    <2>1. \A c \in {running', former', spender'} : c # Cfg!Stopped => Cfg!FromEnv(c)
      BY <1>1, <1>2 DEF Cfg!ConfigInv, Cfg!ServesAccepted
    <2>. QED
      BY <1>1, <2>1, AcceptedStays
  <1>6. Cfg!SpentIsRemembered'
    BY <1>1, <1>2 DEF Cfg!ConfigInv, Cfg!SpentIsRemembered
  <1>. QED
    BY <1>2, <1>3, <1>4, <1>5, <1>6 DEF Cfg!ConfigInv

(* What a redeemer knows: the consume is not older than it accepts, nor stamped further ahead
   than the skew. *)
LEMMA RedeemIsInTime ==
    ASSUME Cfg!ConfigInv, Cfg!Redeem
    PROVE  \E c \in {running, former} :
             /\ c # Cfg!Stopped /\ Cfg!FromEnv(c) /\ spender' = c
             /\ memory <= clock /\ memory' = clock + Cfg!Retention(c)
             /\ stamp <= clock + Skew /\ clock <= stamp + Cfg!MaxAge(c) + LeaseGap
  <1>1. PICK c \in {running, former} \ {Cfg!Stopped} :
           /\ \E ago \in 0 .. LeaseGap : ago <= clock /\ Cfg!EventIsRecent(c, clock - ago)
           /\ memory <= clock /\ memory' = clock + Cfg!Retention(c) /\ spender' = c
    BY DEF Cfg!Redeem
  <1>2. PICK ago \in 0 .. LeaseGap : ago <= clock /\ Cfg!EventIsRecent(c, clock - ago)
    BY <1>1
  <1>3. Cfg!FromEnv(c)
    BY <1>1 DEF Cfg!ConfigInv, Cfg!ServesAccepted
  <1>4. stamp <= (clock - ago) + Skew /\ clock - ago <= stamp + Cfg!MaxAge(c)
    BY <1>2 DEF Cfg!EventIsRecent
  <1>5. clock \in Nat /\ stamp \in Nat /\ Cfg!MaxAge(c) \in Nat /\ Skew \in Nat /\ LeaseGap \in Nat
    BY <1>3, ConfigParameters, AcceptedWindows DEF Cfg!ConfigInv, Cfg!TypeOK
  <1>6. stamp <= clock + Skew /\ clock <= stamp + Cfg!MaxAge(c) + LeaseGap
    BY <1>2, <1>4, <1>5
  <1>. QED
    BY <1>1, <1>3, <1>6

(* A redemption is remembered until the retention has passed since the timestamp, but for the
   skew; so a second one under the same configuration needs windows this close. *)
LEMMA RedeemConfigured ==
    ASSUME Cfg!ConfigInv, Cfg!Redeem
    PROVE  /\ Cfg!ConfigInv'
           /\ spender' = spender => Cfg!Retention(spender) - Cfg!MaxAge(spender) \in 0 .. Skew + LeaseGap
  <1>1. PICK c \in {running, former} :
             /\ c # Cfg!Stopped /\ Cfg!FromEnv(c) /\ spender' = c
             /\ memory <= clock /\ memory' = clock + Cfg!Retention(c)
             /\ stamp <= clock + Skew /\ clock <= stamp + Cfg!MaxAge(c) + LeaseGap
    BY RedeemIsInTime
  <1>2. UNCHANGED <<plat, settings, edits, running, former, stamp, clock>>
    BY DEF Cfg!Redeem
  <1>3. Cfg!Retention(c) \in Nat /\ Cfg!MaxAge(c) \in Nat /\ Cfg!MaxAge(c) <= Cfg!Retention(c)
    BY <1>1, AcceptedWindows
  <1>4. clock \in Nat /\ stamp \in Nat /\ memory \in Nat /\ Skew \in Nat /\ LeaseGap \in Nat
    BY ConfigParameters DEF Cfg!ConfigInv, Cfg!TypeOK
  <1>5. memory' \in Nat /\ stamp + Cfg!Retention(c) <= memory' + Skew
    BY <1>1, <1>3, <1>4
  <1>6. Cfg!TypeOK'
    BY <1>1, <1>2, <1>5 DEF Cfg!ConfigInv, Cfg!TypeOK
  <1>7. Cfg!ServesAccepted'
    <2>1. \A d \in {running', former', spender'} : d # Cfg!Stopped => Cfg!FromEnv(d)
      BY <1>1, <1>2 DEF Cfg!ConfigInv, Cfg!ServesAccepted
    <2>. QED
      BY <1>2, <2>1, AcceptedStays
  <1>8. Cfg!SpentIsRemembered'
    <2>1. Cfg!Retention(spender)' = Cfg!Retention(c)
      BY <1>1
    <2>. QED
      BY <1>2, <1>5, <2>1 DEF Cfg!SpentIsRemembered
  <1>9. ASSUME spender' = spender
        PROVE  Cfg!Retention(spender) - Cfg!MaxAge(spender) \in 0 .. Skew + LeaseGap
    <2>1. spender = c
      BY <1>1, <1>9
    <2>2. stamp + Cfg!Retention(c) <= memory + Skew
      BY <1>1, <2>1 DEF Cfg!ConfigInv, Cfg!SpentIsRemembered
    <2>3. Cfg!Retention(c) - Cfg!MaxAge(c) \in 0 .. Skew + LeaseGap
      BY <1>1, <1>3, <1>4, <2>2
    <2>. QED
      BY <2>1, <2>3
  <1>. QED
    BY <1>6, <1>7, <1>8, <1>9 DEF Cfg!ConfigInv

LEMMA TickConfigured ==
    ASSUME Cfg!ConfigInv, Cfg!Tick
    PROVE  Cfg!ConfigInv'
  <1>1. clock' <= MaxConfigTime /\ UNCHANGED <<plat, settings, edits, running, former, stamp, spender, memory>>
    BY DEF Cfg!Tick
  <1>2. clock' \in Nat
    <2>1. clock \in Nat /\ \A d \in Steps : d \in Nat
      BY ConfigParameters DEF Cfg!ConfigInv, Cfg!TypeOK
    <2>. QED
      BY <2>1 DEF Cfg!Tick
  <1>3. clock' \in 0 .. MaxConfigTime
    <2>1. MaxConfigTime \in Nat
      BY ConfigParameters
    <2>. QED
      BY <1>1, <1>2, <2>1
  <1>4. Cfg!TypeOK'
    BY <1>1, <1>3 DEF Cfg!ConfigInv, Cfg!TypeOK
  <1>. QED
    BY <1>1, <1>4, NothingSpent DEF Cfg!ConfigInv

(* A configuration does not redeem again, unless its windows are close. *)
RedeemsOnce ==
    memory' > memory /\ spender' = spender =>
        Cfg!Retention(spender) - Cfg!MaxAge(spender) \in 0 .. Skew + LeaseGap

LEMMA ConfigKeeps ==
    ASSUME Cfg!ConfigInv, [PartsNext]_allVars
    PROVE  Cfg!ConfigInv' /\ [RedeemsOnce]_configVars
  <1>1. Cfg!Next \/ UNCHANGED configVars
    BY DEF PartsNext, allVars
  <1>2. memory \in Nat
    BY DEF Cfg!ConfigInv, Cfg!TypeOK
  <1>3. CASE Cfg!Edit
    <2>1. memory' = memory
      BY <1>3 DEF Cfg!Edit
    <2>. QED
      BY <1>2, <1>3, <2>1, EditConfigured DEF RedeemsOnce
  <1>4. CASE Cfg!Start
    <2>1. memory' <= memory /\ memory' \in Nat /\ Cfg!ConfigInv'
      BY <1>4, StartConfigured DEF Cfg!ConfigInv, Cfg!TypeOK
    <2>. QED
      BY <1>2, <2>1 DEF RedeemsOnce
  <1>5. CASE Cfg!Redeem
    BY <1>5, RedeemConfigured DEF RedeemsOnce
  <1>6. CASE Cfg!Tick
    <2>1. memory' = memory
      BY <1>6 DEF Cfg!Tick
    <2>. QED
      BY <1>2, <1>6, <2>1, TickConfigured DEF RedeemsOnce
  <1>7. CASE UNCHANGED configVars
    <2>1. UNCHANGED <<plat, settings, edits, running, former, stamp, spender, memory, clock>>
      BY <1>7 DEF configVars
    <2>2. Cfg!TypeOK'
      BY <2>1 DEF Cfg!ConfigInv, Cfg!TypeOK
    <2>. QED
      BY <1>7, <2>1, <2>2, NothingSpent DEF Cfg!ConfigInv
  <1>. QED
    BY <1>1, <1>3, <1>4, <1>5, <1>6, <1>7 DEF Cfg!Next

(* However long the gateway runs, and however often it is restarted or reconfigured, a
   configuration redeems a consume a second time only if CONSUME_MAX_AGE_SECS is within the
   skew and the lease's delay of REDEMPTION_RETENTION_SECS. *)
THEOREM ConsumeIsSpentOnce == PartsSpec => SpentOnce
  <1>1. PartsInit => Cfg!ConfigInv
    BY ConfigStart DEF PartsInit
  <1>2. Cfg!ConfigInv /\ [PartsNext]_allVars => Cfg!ConfigInv' /\ [RedeemsOnce]_configVars
    BY ConfigKeeps
  <1>3. [RedeemsOnce]_configVars
          <=> [memory' > memory /\ spender' = spender =>
                 Cfg!Retention(spender) - Cfg!MaxAge(spender) \in 0 .. Skew + LeaseGap]_Cfg!vars
    BY DEF configVars, Cfg!vars, RedeemsOnce
  <1>. QED
    BY <1>1, <1>2, <1>3, PTL DEF PartsSpec, SpentOnce, Cfg!SpentOnce

(* The port a URL leaves out is the one its scheme implies, so two URLs of one endpoint with
   plain ports have one normalized origin. *)
LEMMA EndpointsNormalize ==
    ASSUME NEW u, NEW v, Cfg!SameEndpoint(u, v), Cfg!PlainPort(u.port), Cfg!PlainPort(v.port)
    PROVE  Cfg!NormalizedOrigin(u) = Cfg!NormalizedOrigin(v)
  <1>. DEFINE D == Cfg!DefaultPort(Cfg!Lower(u.scheme))
  <1>1. Cfg!Lower(u.scheme) = Cfg!Lower(v.scheme) /\ Cfg!Lower(u.host) = Cfg!Lower(v.host)
    BY DEF Cfg!SameEndpoint
  <1>2. (IF u.port = "" THEN D ELSE u.port) = (IF v.port = "" THEN D ELSE v.port)
    <2>1. /\ Cfg!PortMeant(u) = IF u.port = "" THEN D ELSE u.port
          /\ Cfg!PortMeant(v) = IF v.port = "" THEN D ELSE v.port
      BY <1>1 DEF Cfg!PortMeant, Cfg!PlainPort
    <2>. QED
      BY <2>1 DEF Cfg!SameEndpoint
  <1>3. D # ""
    BY DEF Cfg!DefaultPort
  <1>4. (IF u.port = D THEN "" ELSE u.port) = (IF v.port = D THEN "" ELSE v.port)
    <2>. HIDE DEF D
    <2>. QED
      BY <1>2, <1>3
  <1>5. D = Cfg!DefaultPort(Cfg!Lower(v.scheme))
    BY <1>1
  <1>. QED
    BY <1>1, <1>4, <1>5 DEF Cfg!NormalizedOrigin

(* Typos are neither unset nor a text, a number or a list; nor are they no text. *)
LEMMA JunkIsNothingElse ==
    /\ Cfg!Junk.is = "junk" /\ Cfg!Junk # Cfg!Unset /\ Cfg!Junk # Cfg!Opaque
    /\ \A t : Cfg!Junk # Cfg!Text(t)
  <1>1. /\ Cfg!Junk.is = "junk" /\ Cfg!Unset.is = "unset" /\ Cfg!Opaque.is = "opaque"
        /\ \A t : Cfg!Text(t).is = "text"
    BY DEF Cfg!Junk, Cfg!Unset, Cfg!Opaque, Cfg!Text
  <1>. QED
    BY <1>1

LEMMA ReadableInts ==
    ASSUME NEW e, NEW specs, NEW key \in DOMAIN specs, Cfg!Ints(e, specs)
    PROVE  Cfg!Value(e, key) # Cfg!Junk
  <1>1. SUFFICES ASSUME Cfg!Value(e, key) = Cfg!Junk PROVE FALSE
    OBVIOUS
  <1>2. Cfg!Integer(e, key, specs[key]) = -1
    BY <1>1, JunkIsNothingElse DEF Cfg!Integer
  <1>3. Cfg!Integer(e, key, specs[key]) >= 0
    BY DEF Cfg!Ints
  <1>. QED
    BY <1>2, <1>3

(* What an accepted environment is worth. *)
LEMMA AcceptedIsElsewhere ==
    ASSUME Cfg!ServesAccepted
    PROVE  Cfg!UpstreamIsElsewhere
  <1>1. Cfg!Serving => Cfg!UpstreamOK(running) /\ Cfg!PlainPort(Cfg!Value(running, "GATEWAY_ORIGIN").port)
    BY DEF Cfg!Serving, Cfg!ServesAccepted, Cfg!FromEnv, Cfg!CoreOK, Cfg!OriginOK, Cfg!IsCanonicalOrigin
  <1>. QED
    BY <1>1, EndpointsNormalize DEF Cfg!UpstreamIsElsewhere, Cfg!UpstreamOK

LEMMA AcceptedStaysPublic ==
    ASSUME Cfg!ServesAccepted
    PROVE  Cfg!PublicStaysPublic
  <1>1. SUFFICES ASSUME Cfg!Serving, NEW p \in Cfg!ConfiguredPaths(running)
                 PROVE  Cfg!Resolved(p) = DOMAIN p
    BY DEF Cfg!PublicStaysPublic
  <1>2. Cfg!PublicPathsOK(running)
    BY <1>1 DEF Cfg!Serving, Cfg!ServesAccepted, Cfg!FromEnv, Cfg!CoreOK
  <1>. DEFINE V == Cfg!Value(running, "PUBLIC_PATHS")
  <1>3. \A i \in DOMAIN p : p[i] \notin {".", "%2e"}
    <2>1. CASE V = Cfg!Unset
      <3>1. p = <<"v1", "tip-config">>
        BY <1>1, <2>1 DEF Cfg!ConfiguredPaths
      <3>. QED
        BY <3>1
    <2>2. CASE V # Cfg!Unset
      <3>1. PICK q \in Cfg!Entries(V) : p = q.segs
        BY <1>1, <2>2 DEF Cfg!ConfiguredPaths
      <3>2. \A i \in DOMAIN q.segs : q.segs[i] \notin {".", "..", "%2e", "\\"}
        BY <1>2, <3>1 DEF Cfg!PublicPathsOK
      <3>. QED
        BY <3>1, <3>2
    <2>. QED
      BY <2>1, <2>2
  <1>. QED
    BY <1>3 DEF Cfg!Resolved

LEMMA AcceptedIsSecure ==
    ASSUME Cfg!ServesAccepted
    PROVE  Cfg!SecureByDefault
  <1>1. SUFFICES ASSUME Cfg!Serving, ~Cfg!AllowInsecureHttp(running)
                 PROVE  /\ Cfg!Value(running, "GATEWAY_ORIGIN").scheme = "https"
                        /\ Cfg!Value(running, "UPSTREAM_URL").scheme = "https"
                        /\ Cfg!Value(running, "SUI_RPC_URL").scheme = "https"
                        /\ \A u \in Cfg!Entries(Cfg!Value(running, "ALLOWED_ORIGINS")) : u.scheme = "https"
    BY DEF Cfg!SecureByDefault
  <1>2. Cfg!OriginOK(running) /\ Cfg!UpstreamOK(running) /\ Cfg!AllowedOriginsOK(running)
    BY <1>1 DEF Cfg!Serving, Cfg!ServesAccepted, Cfg!FromEnv, Cfg!CoreOK
  <1>3. Cfg!Value(running, "GATEWAY_ORIGIN").scheme = "https"
    BY <1>1, <1>2 DEF Cfg!OriginOK
  <1>4. \A key \in {"UPSTREAM_URL", "SUI_RPC_URL"} : Cfg!Value(running, key).scheme = "https"
    BY <1>1, <1>2 DEF Cfg!UpstreamOK, Cfg!CheckScheme
  <1>5. \A u \in Cfg!Entries(Cfg!Value(running, "ALLOWED_ORIGINS")) : u.scheme = "https"
    BY <1>1, <1>2 DEF Cfg!AllowedOriginsOK
  <1>. QED
    BY <1>3, <1>4, <1>5

(* Variables of the core that are no integers, and of either platform. *)
CoreTexts ==
    {"GATEWAY_ORIGIN", "NETWORK", "UPSTREAM_URL", "SUI_RPC_URL", "NFT_TYPE", "GATE_ID", "SINGLE_USE",
     "ALLOW_INSECURE_HTTP", "PUBLIC_PATHS", "ALLOWED_ORIGINS", "UPSTREAM_AUTH_HEADERS", "SUI_RPC_AUTH_HEADER"}
NativeTexts == {"BIND_ADDR", "ALLOW_VOLATILE_REDEMPTIONS"}
WorkerTexts == {"NONCE_BACKEND", "NONCE_SHARD", "QUOTA_GUARD_ENABLED", "WORKERS_PLAN"}

LEMMA ReadableCore ==
    ASSUME NEW e, NEW key \in CoreTexts, Cfg!CoreOK(e)
    PROVE  Cfg!Value(e, key) # Cfg!Junk
  <1>1. \A k \in {"GATEWAY_ORIGIN", "UPSTREAM_URL", "SUI_RPC_URL"} : Cfg!Value(e, k).is = "url"
    BY DEF Cfg!CoreOK, Cfg!OriginOK, Cfg!IsCanonicalOrigin, Cfg!UpstreamOK, Cfg!CheckScheme
  <1>2. \A k \in {"PUBLIC_PATHS", "ALLOWED_ORIGINS"} :
           Cfg!Value(e, k) = Cfg!Unset \/ Cfg!Value(e, k).is = "list"
    BY DEF Cfg!CoreOK, Cfg!PublicPathsOK, Cfg!AllowedOriginsOK
  <1>3. \A k \in {"NETWORK", "NFT_TYPE", "GATE_ID", "SINGLE_USE", "ALLOW_INSECURE_HTTP", "SUI_RPC_AUTH_HEADER"} :
           Cfg!Value(e, k) = Cfg!Unset \/ \E t : Cfg!Value(e, k) = Cfg!Text(t)
    <2>1. \E t : Cfg!Value(e, "NETWORK") = Cfg!Text(t)
      BY DEF Cfg!CoreOK, Cfg!NetworkOK
    <2>2. \E t : Cfg!Value(e, "NFT_TYPE") = Cfg!Text(t)
      BY DEF Cfg!CoreOK, Cfg!IsAccessGatePassType
    <2>3. \E t : Cfg!Value(e, "GATE_ID") = Cfg!Text(t)
      BY DEF Cfg!CoreOK, Cfg!IsObjectId
    <2>4. Cfg!Value(e, "SINGLE_USE") \in {Cfg!Unset, Cfg!Text("true"), Cfg!Text("false")}
      BY DEF Cfg!CoreOK, Cfg!Boolean
    <2>5. Cfg!Value(e, "ALLOW_INSECURE_HTTP") \in {Cfg!Unset, Cfg!Text(""), Cfg!Text("0"), Cfg!Text("1")}
      BY DEF Cfg!CoreOK, Cfg!InsecureHttpReadable
    <2>6. Cfg!Value(e, "SUI_RPC_AUTH_HEADER") \in {Cfg!Unset, Cfg!Text(""), Cfg!Text("Name: value")}
      BY DEF Cfg!CoreOK, Cfg!RpcAuthOK
    <2>. QED
      BY <2>1, <2>2, <2>3, <2>4, <2>5, <2>6
  <1>4. \/ Cfg!Value(e, "UPSTREAM_AUTH_HEADERS") \in {Cfg!Unset, Cfg!Text("")}
        \/ Cfg!Value(e, "UPSTREAM_AUTH_HEADERS").is = "list"
    BY DEF Cfg!CoreOK, Cfg!UpstreamAuthOK
  <1>. QED
    BY <1>1, <1>2, <1>3, <1>4, JunkIsNothingElse DEF CoreTexts

LEMMA ReadableNative ==
    ASSUME NEW e, NEW key \in NativeTexts, Cfg!NativeOK(e)
    PROVE  Cfg!Value(e, key) # Cfg!Junk
  BY JunkIsNothingElse DEF NativeTexts, Cfg!NativeOK, Cfg!Boolean

LEMMA ReadableWorker ==
    ASSUME NEW e, NEW key \in WorkerTexts, Cfg!WorkerOK(e)
    PROVE  Cfg!Value(e, key) # Cfg!Junk
  BY JunkIsNothingElse DEF WorkerTexts, Cfg!WorkerOK, Cfg!Boolean

(* What is no text counts as unset, and a required variable must not be. *)
LEMMA RequiredIsText ==
    ASSUME NEW e, Cfg!CoreOK(e),
           NEW key \in {"GATEWAY_ORIGIN", "NETWORK", "UPSTREAM_URL", "SUI_RPC_URL", "NFT_TYPE", "GATE_ID"}
    PROVE  key \in DOMAIN e /\ e[key] # Cfg!Opaque
  <1>1. Cfg!Unset.is = "unset" /\ \A t : Cfg!Text(t).is = "text"
    BY DEF Cfg!Unset, Cfg!Text
  <1>2. CASE key \in {"GATEWAY_ORIGIN", "UPSTREAM_URL", "SUI_RPC_URL"}
    <2>1. Cfg!Value(e, key).is = "url"
      BY <1>2 DEF Cfg!CoreOK, Cfg!OriginOK, Cfg!IsCanonicalOrigin, Cfg!UpstreamOK, Cfg!CheckScheme
    <2>2. Cfg!Value(e, key) # Cfg!Unset
      BY <1>1, <2>1
    <2>. QED
      BY <2>2 DEF Cfg!Value
  <1>3. CASE key \in {"NETWORK", "NFT_TYPE", "GATE_ID"}
    <2>1. \E t : Cfg!Value(e, key) = Cfg!Text(t)
      BY <1>3 DEF Cfg!CoreOK, Cfg!NetworkOK, Cfg!IsAccessGatePassType, Cfg!IsObjectId
    <2>2. Cfg!Value(e, key) # Cfg!Unset
      BY <1>1, <2>1
    <2>. QED
      BY <2>2 DEF Cfg!Value
  <1>. QED
    BY <1>2, <1>3

LEMMA AcceptedIsReadable ==
    ASSUME Cfg!TypeOK, Cfg!ServesAccepted
    PROVE  Cfg!NoSilentFallback
  <1>1. SUFFICES ASSUME Cfg!Serving
                 PROVE  /\ \A key \in DOMAIN running \ (Cfg!Unread \cup {"REDIS_URL"}) : running[key] # Cfg!Junk
                        /\ \A key \in {"GATEWAY_ORIGIN", "NETWORK", "UPSTREAM_URL", "SUI_RPC_URL", "NFT_TYPE",
                                      "GATE_ID"} : key \in DOMAIN running /\ running[key] # Cfg!Opaque
    BY DEF Cfg!NoSilentFallback
  <1>2. Cfg!FromEnv(running) /\ Cfg!IsEnvironment(running)
    BY <1>1 DEF Cfg!Serving, Cfg!ServesAccepted, Cfg!TypeOK
  <1>3. Cfg!CoreOK(running) /\ Cfg!Ints(running, Cfg!CoreInts)
    BY <1>2 DEF Cfg!FromEnv, Cfg!CoreOK
  <1>4. /\ plat = "native" => Cfg!NativeOK(running) /\ Cfg!Ints(running, Cfg!NativeInts)
        /\ plat # "native" => Cfg!WorkerOK(running) /\ Cfg!Ints(running, Cfg!WorkerInts)
    BY <1>2 DEF Cfg!FromEnv, Cfg!NativeOK, Cfg!WorkerOK
  <1>5. ASSUME NEW key \in DOMAIN running, key \notin Cfg!Unread, key # "REDIS_URL"
        PROVE  running[key] # Cfg!Junk
    <2>1. running[key] = Cfg!Junk => Cfg!Value(running, key) = Cfg!Junk
      BY <1>5, JunkIsNothingElse DEF Cfg!Value
    <2>2. \/ key \in DOMAIN Cfg!CoreInts \cup CoreTexts
          \/ plat = "native" /\ key \in DOMAIN Cfg!NativeInts \cup NativeTexts
          \/ plat # "native" /\ key \in DOMAIN Cfg!WorkerInts \cup WorkerTexts
      <3>1. key \in Cfg!Keys
        BY <1>2 DEF Cfg!IsEnvironment
      <3>. QED
        BY <1>5, <3>1, Zenon DEF Cfg!Keys, Cfg!Unread, CoreTexts, NativeTexts, WorkerTexts
    <2>3. Cfg!Value(running, key) # Cfg!Junk
      BY <1>3, <1>4, <2>2, ReadableInts, ReadableCore, ReadableNative, ReadableWorker
    <2>. QED
      BY <2>1, <2>3
  <1>. QED
    BY <1>3, <1>5, RequiredIsText

(* A gateway that serves is not weaker than its environment says: for any environments,
   edits and request paths, in any order of edits, restarts and redemptions. *)
THEOREM ServesWhatIsConfigured == PartsSpec => []ServesAsConfigured
  <1>1. PartsInit => Cfg!ConfigInv
    BY ConfigStart DEF PartsInit
  <1>2. Cfg!ConfigInv /\ [PartsNext]_allVars => Cfg!ConfigInv'
    BY ConfigKeeps
  <1>3. Cfg!ConfigInv => ServesAsConfigured
    BY AcceptedIsElsewhere, AcceptedStaysPublic, AcceptedIsSecure, AcceptedIsReadable
       DEF Cfg!ConfigInv, ServesAsConfigured
  <1>. QED
    BY <1>1, <1>2, <1>3, PTL DEF PartsSpec

-----------------------------------------------------------------------------
(* The quota guard: division, the calendar, and the guard itself. *)

LEMMA QuotaParameters ==
    /\ DayLength \in Nat \ {0}
    /\ Allowance \in [{"free", "paid"} -> [Guard!Meter -> Nat]]
    /\ \A s \in Starts : /\ s.day \in Nat /\ s.last \in Nat /\ s.rows \in Nat /\ s.day <= s.last
                         /\ Guard!IsDate(s.date) /\ Guard!DaysFromCivil(s.date) = s.day /\ s.date[3] <= s.day + 1
  BY OtherEdgeConstants DEF Guard!QuotaConstants

(* m is q times d, and r over. *)
Divided(m, d, q, r) == q \in Nat /\ d \in Nat \ {0} /\ r \in 0 .. d - 1 /\ m = q * d + r

LEMMA Division ==
    ASSUME NEW n \in Nat, NEW d \in Nat \ {0}
    PROVE  Divided(n, d, n \div d, n % d)
  <1>1. n \div d \in Nat
    BY SMT
  <1>2. n % d \in 0 .. d - 1
    BY SMT
  <1>3. n = d * (n \div d) + (n % d)
    BY SMT
  <1>4. n = (n \div d) * d + (n % d)
    BY <1>1, <1>3, SMT
  <1>. QED
    BY <1>1, <1>2, <1>4 DEF Divided

LEMMA Quotient ==
    ASSUME NEW m, NEW d, NEW q, NEW r, Divided(m, d, q, r)
    PROVE  m \div d = q /\ m % d = r
  <1>1. m \div d = q
    BY SMT DEF Divided
  <1>2. m % d = r
    BY SMT DEF Divided
  <1>. QED
    BY <1>1, <1>2

(* A day ends where the clock's next reading is a multiple of its length. *)
LEMMA NextDay ==
    ASSUME NEW n \in Nat, NEW d \in Nat \ {0}
    PROVE  (n + 1) \div d = IF (n + 1) % d = 0 THEN (n \div d) + 1 ELSE n \div d
  <1>. DEFINE q == n \div d
              r == n % d
  <1>1. Divided(n, d, q, r)
    BY Division
  <1>. HIDE DEF q, r
  <1>2. CASE r < d - 1
    <2>1. Divided(n + 1, d, q, r + 1) /\ r + 1 # 0
      BY <1>1, <1>2, SMT DEF Divided
    <2>2. (n + 1) \div d = q /\ (n + 1) % d = r + 1
      BY <2>1, Quotient
    <2>. QED
      BY <2>1, <2>2 DEF q
  <1>3. CASE r = d - 1
    <2>1. Divided(n + 1, d, q + 1, 0)
      BY <1>1, <1>3, SMT DEF Divided
    <2>2. (n + 1) \div d = q + 1 /\ (n + 1) % d = 0
      BY <2>1, Quotient
    <2>. QED
      BY <2>2 DEF q
  <1>. QED
    BY <1>1, <1>2, <1>3 DEF Divided

LEMMA Before ==
    ASSUME NEW n \in Nat, NEW d \in Nat \ {0}, NEW k \in Nat, n < k * d
    PROVE  n \div d < k
  <1>. DEFINE q == n \div d
  <1>1. q \in Nat /\ q * d <= n
    BY Division DEF Divided
  <1>. HIDE DEF q
  <1>2. SUFFICES ASSUME q >= k PROVE FALSE
    BY <1>1 DEF q
  <1>3. q * d >= k * d
    BY <1>1, <1>2
  <1>. QED
    BY <1>1, <1>3

-----------------------------------------------------------------------------
(* The place of a year in the cycle of 400: n cycles, c centuries, q times four years, r. *)
InCycle(y, n, c, q, r) ==
    n \in Nat /\ c \in 0 .. 3 /\ q \in 0 .. 24 /\ r \in 0 .. 3 /\ y = 400 * n + 100 * c + 4 * q + r

LEMMA YearSplits ==
    ASSUME NEW y \in Nat
    PROVE  \E n, c, q, r : InCycle(y, n, c, q, r)
  <1>. DEFINE n == y \div 400
              e == y % 400
              c == e \div 100
              f == e % 100
              q == f \div 4
              r == f % 4
  <1>1. n \in Nat /\ e \in 0 .. 399 /\ y = 400 * n + e
    BY SMT
  <1>2. c \in 0 .. 3 /\ f \in 0 .. 99 /\ e = 100 * c + f
    BY SMT
  <1>3. q \in 0 .. 24 /\ r \in 0 .. 3 /\ f = 4 * q + r
    BY SMT
  <1>. HIDE DEF n, e, c, f, q, r
  <1>4. InCycle(y, n, c, q, r)
    BY <1>1, <1>2, <1>3, SMT DEF InCycle
  <1>. QED
    BY <1>4

(* Days of the years before year y, which begin in March. *)
DaysBefore(y) == (y \div 400) * 146097 + ((y % 400) * 365 + (y % 400) \div 4 - (y % 400) \div 100)

LEMMA CycleDays ==
    ASSUME NEW y, NEW n, NEW c, NEW q, NEW r, InCycle(y, n, c, q, r)
    PROVE  DaysBefore(y) = 146097 * n + 36524 * c + 1461 * q + 365 * r
  <1>. DEFINE e == y % 400
  <1>1. y \div 400 = n /\ e = 100 * c + 4 * q + r
    BY SMT DEF InCycle
  <1>2. e \div 4 = 25 * c + q
    BY <1>1, SMT DEF InCycle
  <1>3. e \div 100 = c
    BY <1>1, SMT DEF InCycle
  <1>4. DaysBefore(y) = n * 146097 + (e * 365 + (25 * c + q) - c)
    BY <1>1, <1>2, <1>3, SMT DEF DaysBefore
  <1>. HIDE DEF e
  <1>. QED
    BY <1>1, <1>4, SMT DEF InCycle

LEMMA LeapByCycle ==
    ASSUME NEW y, NEW n, NEW c, NEW q, NEW r, InCycle(y, n, c, q, r)
    PROVE  Guard!Leap(y) <=> r = 0 /\ (q = 0 => c = 0)
  <1>1. y % 4 = r
    BY SMT DEF InCycle
  <1>2. y % 100 = 4 * q + r
    BY SMT DEF InCycle
  <1>3. y % 400 = 100 * c + 4 * q + r
    BY SMT DEF InCycle
  <1>. QED
    BY <1>1, <1>2, <1>3, SMT DEF Guard!Leap, InCycle

(* The year from March to February that ends in a leap year has one day more. *)
LEMMA YearLength ==
    ASSUME NEW y \in Nat
    PROVE  DaysBefore(y + 1) = DaysBefore(y) + (IF Guard!Leap(y + 1) THEN 366 ELSE 365)
  <1>1. PICK n, c, q, r : InCycle(y, n, c, q, r)
    BY YearSplits
  <1>2. DaysBefore(y) = 146097 * n + 36524 * c + 1461 * q + 365 * r
    BY <1>1, CycleDays, SMT
  <1>3. CASE r < 3
    <2>1. InCycle(y + 1, n, c, q, r + 1) /\ r + 1 # 0
      BY <1>1, <1>3, SMT DEF InCycle
    <2>2. DaysBefore(y + 1) = 146097 * n + 36524 * c + 1461 * q + 365 * (r + 1)
      BY <2>1, CycleDays, SMT
    <2>3. ~Guard!Leap(y + 1)
      BY <2>1, LeapByCycle, SMT
    <2>. QED
      BY <1>1, <1>2, <2>2, <2>3, SMT DEF InCycle
  <1>4. CASE r = 3 /\ q < 24
    <2>1. InCycle(y + 1, n, c, q + 1, 0) /\ q + 1 # 0
      BY <1>1, <1>4, SMT DEF InCycle
    <2>2. DaysBefore(y + 1) = 146097 * n + 36524 * c + 1461 * (q + 1) + 365 * 0
      BY <2>1, CycleDays, SMT
    <2>3. Guard!Leap(y + 1)
      BY <2>1, LeapByCycle, SMT
    <2>. QED
      BY <1>1, <1>2, <1>4, <2>2, <2>3, SMT DEF InCycle
  <1>5. CASE r = 3 /\ q = 24 /\ c < 3
    <2>1. InCycle(y + 1, n, c + 1, 0, 0) /\ c + 1 # 0
      BY <1>1, <1>5, SMT DEF InCycle
    <2>2. DaysBefore(y + 1) = 146097 * n + 36524 * (c + 1) + 1461 * 0 + 365 * 0
      BY <2>1, CycleDays, SMT
    <2>3. ~Guard!Leap(y + 1)
      BY <2>1, LeapByCycle, SMT
    <2>. QED
      BY <1>1, <1>2, <1>5, <2>2, <2>3, SMT DEF InCycle
  <1>6. CASE r = 3 /\ q = 24 /\ c = 3
    <2>1. InCycle(y + 1, n + 1, 0, 0, 0)
      BY <1>1, <1>6, SMT DEF InCycle
    <2>2. DaysBefore(y + 1) = 146097 * (n + 1) + 36524 * 0 + 1461 * 0 + 365 * 0
      BY <2>1, CycleDays, SMT
    <2>3. Guard!Leap(y + 1)
      BY <2>1, LeapByCycle, SMT
    <2>. QED
      BY <1>1, <1>2, <1>6, <2>2, <2>3, SMT DEF InCycle
  <1>. QED
    BY <1>1, <1>3, <1>4, <1>5, <1>6, SMT DEF InCycle

-----------------------------------------------------------------------------
(* Dates by years that begin in March. *)
MarchYear(d) == IF d[2] <= 2 THEN d[1] - 1 ELSE d[1]
MarchMonth(d) == IF d[2] > 2 THEN d[2] - 3 ELSE d[2] + 9
DayOfYear(d) == (153 * MarchMonth(d) + 2) \div 5 + d[3] - 1

LEMMA Dates ==
    ASSUME NEW d, Guard!IsDate(d)
    PROVE  /\ d = <<d[1], d[2], d[3]>>
           /\ d[1] \in Nat \ {0} /\ d[2] \in 1 .. 12 /\ d[3] \in 1 .. 31
           /\ d[2] \in {4, 6, 9, 11} => d[3] <= 30
           /\ d[2] = 2 => d[3] <= 29 /\ (d[3] = 29 => Guard!Leap(d[1]))
           /\ MarchYear(d) \in Nat /\ MarchMonth(d) \in 0 .. 11
  <1>. DEFINE y == d[1]
              m == d[2]
              k == d[3]
              l == Guard!MonthLength(y, m)
  <1>1. d = <<y, m, k>> /\ y \in Nat \ {0} /\ m \in 1 .. 12 /\ k \in 1 .. l
    BY DEF Guard!IsDate
  <1>2. /\ l \in {28, 29, 30, 31} /\ (m \in {4, 6, 9, 11} => l = 30)
        /\ m = 2 => l <= 29 /\ (l = 29 => Guard!Leap(y))
    BY <1>1, SMT DEF Guard!MonthLength
  <1>. HIDE DEF l
  <1>3. k \in 1 .. 31 /\ (m \in {4, 6, 9, 11} => k <= 30) /\ (m = 2 => k <= 29 /\ (k = 29 => Guard!Leap(y)))
    BY <1>1, <1>2, SMT
  <1>4. MarchYear(d) \in Nat /\ MarchMonth(d) \in 0 .. 11
    BY <1>1, SMT DEF MarchYear, MarchMonth
  <1>. QED
    BY <1>1, <1>3, <1>4

(* The 366th day of a year is the 29th of February. *)
LEMMA DaysOfYear ==
    ASSUME NEW d, Guard!IsDate(d)
    PROVE  /\ DayOfYear(d) \in 0 .. 365
           /\ DayOfYear(d) = 365 => d[2] = 2 /\ d[3] = 29
           /\ (5 * DayOfYear(d) + 2) \div 153 = MarchMonth(d)
  <1>. DEFINE mp == MarchMonth(d)
              k == d[3]
              m == d[2]
              s == (153 * mp + 2) \div 5
  <1>1. /\ m \in 1 .. 12 /\ k \in 1 .. 31 /\ (m \in {4, 6, 9, 11} => k <= 30) /\ (m = 2 => k <= 29)
        /\ mp = IF m > 2 THEN m - 3 ELSE m + 9
    BY Dates DEF MarchMonth
  <1>2. DayOfYear(d) = s + k - 1
    BY DEF DayOfYear
  <1>. HIDE DEF mp, k, m
  <1>3. s + k - 1 \in 0 .. 365 /\ (s + k - 1 = 365 => m = 2 /\ k = 29)
    BY <1>1, SMTT(60)
  <1>4. (5 * (s + k - 1) + 2) \div 153 = mp
    BY <1>1, SMTT(60)
  <1>. QED
    BY <1>2, <1>3, <1>4 DEF mp, k, m

LEMMA DayNumber ==
    ASSUME NEW d, Guard!IsDate(d)
    PROVE  Guard!DaysFromCivil(d) = DaysBefore(MarchYear(d)) + DayOfYear(d) - 719468
  <1>. DEFINE y == MarchYear(d)
              a == (y \div 400) * 146097
              e == (y % 400) * 365
              f == (y % 400) \div 4
              g == (y % 400) \div 100
              s == (153 * MarchMonth(d) + 2) \div 5
  <1>1. a \in Int /\ e \in Int /\ f \in Int /\ g \in Int /\ s \in Int /\ d[3] \in Int
    BY Dates, SMT
  <1>2. Guard!DaysFromCivil(d) = a + (e + f - g + s + d[3] - 1) - 719468
    BY DEF Guard!DaysFromCivil, MarchYear, MarchMonth
  <1>3. DaysBefore(MarchYear(d)) = a + (e + f - g) /\ DayOfYear(d) = s + d[3] - 1
    BY DEF DaysBefore, DayOfYear
  <1>. HIDE DEF a, e, f, g, s
  <1>. QED
    BY <1>1, <1>2, <1>3, SMT

(* A day doe of the cycle: day doy of the year that lies at c, q and r. *)
DayInCycle(doe, c, q, r, doy) ==
    /\ doe \in Int /\ c \in 0 .. 3 /\ q \in 0 .. 24 /\ r \in 0 .. 3 /\ doy \in 0 .. 365
    /\ doy = 365 => r = 3 /\ (q = 24 => c = 3)
    /\ doe = 36524 * c + 1461 * q + 365 * r + doy

(* The cycle read backwards. *)
LEMMA CycleYear ==
    ASSUME NEW doe, NEW c, NEW q, NEW r, NEW doy, DayInCycle(doe, c, q, r, doy)
    PROVE  /\ doe >= 0 /\ doe <= 146096
           /\ (doe - doe \div 1460 + doe \div 36524 - doe \div 146096) \div 365 = 100 * c + 4 * q + r
  <1>1. doe >= 0 /\ doe <= 146096
    BY SMT DEF DayInCycle
  <1>2. (doe - doe \div 1460 + doe \div 36524 - doe \div 146096) \div 365 = 100 * c + 4 * q + r
    BY SMTT(120) DEF DayInCycle
  <1>. QED
    BY <1>1, <1>2, SMT

LEMMA LeapYearEnds ==
    ASSUME NEW y, NEW n, NEW c, NEW q, NEW r, InCycle(y, n, c, q, r), Guard!Leap(y + 1)
    PROVE  r = 3 /\ (q = 24 => c = 3)
  <1>1. ASSUME r < 3 PROVE FALSE
    <2>1. InCycle(y + 1, n, c, q, r + 1) /\ r + 1 # 0
      BY <1>1, SMT DEF InCycle
    <2>. QED
      BY <2>1, LeapByCycle, SMT
  <1>2. ASSUME r = 3, q = 24, c < 3 PROVE FALSE
    <2>1. InCycle(y + 1, n, c + 1, 0, 0) /\ c + 1 # 0
      BY <1>2, SMT DEF InCycle
    <2>. QED
      BY <2>1, LeapByCycle, SMT
  <1>. QED
    BY <1>1, <1>2, SMT DEF InCycle

(* What `civil_from_days` computes on the way. *)
CivilParts(days, z, doe, yoe, doy, mp, m) ==
    /\ z = days + 719468 /\ doe = z % 146097
    /\ yoe = Guard!YearOfEra(doe) /\ doy = Guard!DayOfYear(doe) /\ mp = Guard!MonthOfYear(doy)
    /\ m = IF mp < 10 THEN mp + 3 ELSE mp - 9

LEMMA CivilByParts ==
    ASSUME NEW days, NEW z, NEW doe, NEW yoe, NEW doy, NEW mp, NEW m,
           CivilParts(days, z, doe, yoe, doy, mp, m)
    PROVE  Guard!CivilFromDays(days)
              = <<yoe + (z \div 146097) * 400 + (IF m <= 2 THEN 1 ELSE 0), m, doy - (153 * mp + 2) \div 5 + 1>>
  BY SMT DEF Guard!CivilFromDays, CivilParts

(* `civil_from_days` is the inverse of `days_from_civil`. *)
LEMMA CivilOfDays ==
    ASSUME NEW d, Guard!IsDate(d)
    PROVE  Guard!CivilFromDays(Guard!DaysFromCivil(d)) = d
  <1>. DEFINE Y == MarchYear(d)
              doy == DayOfYear(d)
              mp == MarchMonth(d)
              days == Guard!DaysFromCivil(d)
  <1>1. PICK n, c, q, r : InCycle(Y, n, c, q, r)
    BY Dates, YearSplits
  <1>2. n \in Nat /\ c \in 0 .. 3 /\ q \in 0 .. 24 /\ r \in 0 .. 3 /\ Y = 400 * n + 100 * c + 4 * q + r
    BY <1>1 DEF InCycle
  <1>3. doy \in 0 .. 365 /\ mp = (5 * doy + 2) \div 153
    BY DaysOfYear
  <1>4. doy = 365 => r = 3 /\ (q = 24 => c = 3)
    <2>1. SUFFICES ASSUME doy = 365 PROVE r = 3 /\ (q = 24 => c = 3)
      OBVIOUS
    <2>2. d[2] = 2 /\ d[3] = 29
      BY <2>1, DaysOfYear
    <2>3. Guard!Leap(d[1]) /\ d[1] \in Nat
      BY <2>2, Dates
    <2>4. Y + 1 = d[1]
      BY <2>2, <2>3 DEF MarchYear
    <2>. QED
      BY <1>1, <2>3, <2>4, LeapYearEnds
  <1>. DEFINE doe == 36524 * c + 1461 * q + 365 * r + doy
              z == 146097 * n + doe
              yoe == 100 * c + 4 * q + r
  <1>5. days = DaysBefore(Y) + doy - 719468
    BY DayNumber
  <1>6. DaysBefore(Y) = 146097 * n + 36524 * c + 1461 * q + 365 * r
    BY <1>1, CycleDays
  <1>. HIDE DEF Y, doy, mp, days
  <1>7. doe \in Int /\ z \in Int /\ yoe \in Int
    BY <1>2, <1>3, SMT
  <1>8. z = days + 719468
    BY <1>2, <1>3, <1>5, <1>6, SMT
  <1>9. /\ doe >= 0 /\ doe <= 146096
        /\ (doe - doe \div 1460 + doe \div 36524 - doe \div 146096) \div 365 = yoe
    <2>1. DayInCycle(doe, c, q, r, doy)
      BY <1>2, <1>3, <1>4, <1>7, SMT DEF DayInCycle
    <2>. HIDE DEF doe
    <2>. QED
      BY <2>1, CycleYear, SMT
  <1>10. yoe \div 4 = 25 * c + q /\ yoe \div 100 = c
    BY <1>2, SMT
  <1>11. doy = doe - (365 * yoe + yoe \div 4 - yoe \div 100)
    BY <1>2, <1>3, <1>10, SMT
  <1>12. doe = z % 146097 /\ z \div 146097 = n
    <2>. HIDE DEF doe
    <2>. QED
      BY <1>2, <1>7, <1>9, SMT
  <1>. HIDE DEF doe, z
  <1>13. d[2] = IF mp < 10 THEN mp + 3 ELSE mp - 9
    BY Dates, SMT DEF MarchMonth, mp
  <1>14. Guard!CivilFromDays(days)
           = <<yoe + (z \div 146097) * 400 + (IF d[2] <= 2 THEN 1 ELSE 0), d[2], doy - (153 * mp + 2) \div 5 + 1>>
    <2>1. yoe = Guard!YearOfEra(doe)
      BY <1>9, SMT DEF Guard!YearOfEra
    <2>. HIDE DEF yoe
    <2>2. doy = Guard!DayOfYear(doe)
      BY <1>11, <2>1, SMT DEF Guard!DayOfYear
    <2>3. mp = Guard!MonthOfYear(doy)
      BY <1>3, SMT DEF Guard!MonthOfYear
    <2>4. CivilParts(days, z, doe, yoe, doy, mp, d[2])
      BY <1>8, <1>12, <1>13, <2>1, <2>2, <2>3 DEF CivilParts
    <2>. QED
      BY <2>4, CivilByParts, SMT
  <1>15. yoe + (z \div 146097) * 400 + (IF d[2] <= 2 THEN 1 ELSE 0) = d[1]
    <2>1. d[1] \in Nat /\ d[2] \in 1 .. 12 /\ Y = IF d[2] <= 2 THEN d[1] - 1 ELSE d[1]
      BY Dates DEF Y, MarchYear
    <2>. QED
      BY <1>2, <1>12, <2>1, SMT
  <1>16. doy - (153 * mp + 2) \div 5 + 1 = d[3]
    <2>1. doy = (153 * mp + 2) \div 5 + d[3] - 1 /\ d[3] \in Int /\ mp \in Int
      BY Dates DEF doy, mp, DayOfYear
    <2>. QED
      BY <2>1, SMT
  <1>17. d = <<d[1], d[2], d[3]>>
    BY Dates
  <1>. HIDE DEF yoe
  <1>. QED
    BY <1>14, <1>15, <1>16, <1>17 DEF days

(* Within a month, days are numbered as they follow. *)
LEMMA SameMonth ==
    ASSUME NEW d, Guard!IsDate(d), NEW k \in Int, Guard!IsDate(<<d[1], d[2], k>>)
    PROVE  Guard!DaysFromCivil(<<d[1], d[2], k>>) = Guard!DaysFromCivil(d) + k - d[3]
  <1>. DEFINE e == <<d[1], d[2], k>>
              s == (153 * MarchMonth(d) + 2) \div 5
  <1>1. e[1] = d[1] /\ e[2] = d[2] /\ e[3] = k
    OBVIOUS
  <1>. HIDE DEF e
  <1>2. MarchYear(e) = MarchYear(d) /\ MarchMonth(e) = MarchMonth(d)
    BY <1>1 DEF MarchYear, MarchMonth
  <1>3. DayOfYear(d) = s + d[3] - 1 /\ DayOfYear(e) = s + k - 1
    BY <1>1, <1>2 DEF DayOfYear
  <1>4. s \in Int /\ d[3] \in Int
    BY Dates, SMT
  <1>5. DaysBefore(MarchYear(d)) \in Int
    BY Dates, SMT DEF DaysBefore
  <1>6. Guard!DaysFromCivil(d) = DaysBefore(MarchYear(d)) + DayOfYear(d) - 719468
    BY DayNumber
  <1>7. Guard!DaysFromCivil(e) = DaysBefore(MarchYear(d)) + DayOfYear(e) - 719468
    BY DayNumber, <1>2 DEF e
  <1>. HIDE DEF s
  <1>. QED
    BY <1>3, <1>4, <1>5, <1>6, <1>7, SMT DEF e

LEMMA DaysAreNumbers ==
    ASSUME NEW d, Guard!IsDate(d)
    PROVE  DaysBefore(MarchYear(d)) \in Int /\ DayOfYear(d) \in Int /\ Guard!DaysFromCivil(d) \in Int
  <1>1. DaysBefore(MarchYear(d)) \in Int
    BY Dates, SMT DEF DaysBefore
  <1>2. DayOfYear(d) \in Int
    BY DaysOfYear
  <1>. QED
    BY <1>1, <1>2, DayNumber

(* The day after a date has the next number. *)
LEMMA DaySucceeds ==
    ASSUME NEW d, Guard!IsDate(d)
    PROVE  /\ Guard!IsDate(Guard!DayAfter(d))
           /\ Guard!DaysFromCivil(Guard!DayAfter(d)) = Guard!DaysFromCivil(d) + 1
           /\ Guard!DayAfter(d)[3] \in {1, d[3] + 1}
  <1>. DEFINE y == d[1]
              m == d[2]
              k == d[3]
              l == Guard!MonthLength(y, m)
  <1>1. y \in Nat \ {0} /\ m \in 1 .. 12 /\ k \in 1 .. l /\ k \in Int
    BY Dates DEF Guard!IsDate
  <1>2. /\ \A a, b : Guard!MonthLength(a, b) \in {28, 29, 30, 31}
        /\ \A a : Guard!MonthLength(a, 2) = IF Guard!Leap(a) THEN 29 ELSE 28
        /\ m # 2 => l = IF m \in {4, 6, 9, 11} THEN 30 ELSE 31
    BY SMT DEF Guard!MonthLength
  <1>3. CASE k < l
    <2>. DEFINE e == <<y, m, k + 1>>
    <2>1. Guard!DayAfter(d) = e
      BY <1>3 DEF Guard!DayAfter
    <2>2. Guard!IsDate(e)
      <3>1. k + 1 \in 1 .. l
        BY <1>1, <1>2, <1>3
      <3>. QED
        BY <1>1, <3>1 DEF Guard!IsDate
    <2>3. Guard!DaysFromCivil(e) = Guard!DaysFromCivil(d) + (k + 1) - k
      BY <1>1, <2>2, SameMonth
    <2>4. Guard!DaysFromCivil(d) \in Int
      BY DaysAreNumbers
    <2>. QED
      BY <1>1, <2>1, <2>2, <2>3, <2>4
  <1>4. ASSUME k = l, NEW e, Guard!DayAfter(d) = e, Guard!IsDate(e), e[3] = 1,
               DaysBefore(MarchYear(e)) + DayOfYear(e) = DaysBefore(MarchYear(d)) + DayOfYear(d) + 1
        PROVE  /\ Guard!IsDate(Guard!DayAfter(d))
               /\ Guard!DaysFromCivil(Guard!DayAfter(d)) = Guard!DaysFromCivil(d) + 1
               /\ Guard!DayAfter(d)[3] \in {1, d[3] + 1}
    <2>1. /\ Guard!DaysFromCivil(e) = DaysBefore(MarchYear(e)) + DayOfYear(e) - 719468
          /\ Guard!DaysFromCivil(d) = DaysBefore(MarchYear(d)) + DayOfYear(d) - 719468
      BY <1>4, DayNumber
    <2>2. /\ DaysBefore(MarchYear(e)) \in Int /\ DayOfYear(e) \in Int
          /\ DaysBefore(MarchYear(d)) \in Int /\ DayOfYear(d) \in Int
      BY <1>4, DaysAreNumbers
    <2>3. Guard!DaysFromCivil(e) = Guard!DaysFromCivil(d) + 1
      BY <1>4, <2>1, <2>2, SMT
    <2>. QED
      BY <1>4, <2>3
  <1>5. CASE k = l /\ m = 2
    <2>. DEFINE e == <<y, 3, 1>>
    <2>1. Guard!DayAfter(d) = e
      BY <1>1, <1>2, <1>5 DEF Guard!DayAfter
    <2>2. Guard!IsDate(e) /\ e[3] = 1
      BY <1>1, <1>2, SMT DEF Guard!IsDate
    <2>3. MarchYear(d) = y - 1 /\ MarchYear(e) = y /\ MarchMonth(d) = 11 /\ MarchMonth(e) = 0
      BY <1>5 DEF MarchYear, MarchMonth
    <2>4. DayOfYear(d) = 336 + k /\ DayOfYear(e) = 0
      BY <1>1, <2>2, <2>3, SMT DEF DayOfYear
    <2>5. DaysBefore(y) = DaysBefore(y - 1) + (IF Guard!Leap(y) THEN 366 ELSE 365)
      <3>1. y - 1 \in Nat /\ (y - 1) + 1 = y
        BY <1>1
      <3>. QED
        BY <3>1, YearLength, SMT
    <2>6. k = IF Guard!Leap(y) THEN 29 ELSE 28
      BY <1>2, <1>5
    <2>7. DaysBefore(y - 1) \in Int
      BY <2>3, DaysAreNumbers
    <2>8. DaysBefore(MarchYear(e)) + DayOfYear(e) = DaysBefore(MarchYear(d)) + DayOfYear(d) + 1
      <3>. HIDE DEF e
      <3>. QED
        BY <1>1, <2>3, <2>4, <2>5, <2>6, <2>7, SMT
    <2>. QED
      BY <1>4, <1>5, <2>1, <2>2, <2>8
  <1>6. CASE k = l /\ m # 2
    <2>. DEFINE e == IF m < 12 THEN <<y, m + 1, 1>> ELSE <<y + 1, 1, 1>>
    <2>1. Guard!DayAfter(d) = e
      BY <1>1, <1>2, <1>6 DEF Guard!DayAfter
    <2>2. e[1] = (IF m < 12 THEN y ELSE y + 1) /\ e[2] = (IF m < 12 THEN m + 1 ELSE 1) /\ e[3] = 1
      OBVIOUS
    <2>3. Guard!IsDate(e)
      <3>1. e = <<e[1], e[2], e[3]>>
        BY <2>2
      <3>2. e[1] \in Nat \ {0} /\ e[2] \in 1 .. 12
        BY <1>1, <2>2, SMT
      <3>3. e[3] \in 1 .. Guard!MonthLength(e[1], e[2])
        BY <1>2, <2>2
      <3>. QED
        BY <3>1, <3>2, <3>3 DEF Guard!IsDate
    <2>. HIDE DEF e
    <2>4. MarchYear(e) = MarchYear(d)
      BY <1>1, <1>6, <2>2, SMT DEF MarchYear
    <2>5. MarchMonth(d) = (IF m > 2 THEN m - 3 ELSE m + 9) /\ MarchMonth(e) = MarchMonth(d) + 1
      BY <1>1, <1>6, <2>2, SMT DEF MarchMonth
    <2>6. (153 * MarchMonth(e) + 2) \div 5 = (153 * MarchMonth(d) + 2) \div 5 + l
      BY <1>1, <1>2, <1>6, <2>5, SMTT(30)
    <2>7. DayOfYear(e) = DayOfYear(d) + 1
      <3>1. DayOfYear(e) = (153 * MarchMonth(e) + 2) \div 5 + 1 - 1
        BY <2>2 DEF DayOfYear
      <3>2. DayOfYear(d) = (153 * MarchMonth(d) + 2) \div 5 + k - 1
        BY DEF DayOfYear
      <3>3. (153 * MarchMonth(d) + 2) \div 5 \in Int
        BY Dates, SMT
      <3>. QED
        BY <1>1, <1>6, <2>6, <3>1, <3>2, <3>3, SMT
    <2>8. DaysBefore(MarchYear(e)) + DayOfYear(e) = DaysBefore(MarchYear(d)) + DayOfYear(d) + 1
      BY <2>4, <2>7, DaysAreNumbers, SMT
    <2>. QED
      BY <1>4, <1>6, <2>1, <2>2, <2>3, <2>8
  <1>7. k < l \/ k = l
    BY <1>1, <1>2
  <1>. QED
    BY <1>3, <1>5, <1>6, <1>7

-----------------------------------------------------------------------------
(* The window a plan's usage is asked for begins where the calendar says. *)
LEMMA WindowBegins ==
    ASSUME NEW t \in Nat, NEW e, Guard!IsDate(e), Guard!DaysFromCivil(e) = t \div DayLength,
           NEW plan, NEW w \in Nat, w = IF Guard!Monthly(plan) THEN (t \div DayLength) + 1 - e[3] ELSE t \div DayLength
    PROVE  Guard!CivilFromDays(t \div DayLength) = e /\ Guard!WindowStart(plan, t) = w * DayLength
  <1>. DEFINE q == t \div DayLength
              r == t % DayLength
              day == t - r
              d == Guard!CivilFromDays(day \div DayLength)
              first == Guard!DaysFromCivil(<<d[1], d[2], 1>>)
  <1>1. DayLength \in Nat \ {0}
    BY QuotaParameters
  <1>2. Divided(t, DayLength, q, r)
    BY <1>1, Division
  <1>3. day = q * DayLength
    BY <1>1, <1>2, SMT DEF Divided
  <1>4. Divided(day, DayLength, q, 0)
    BY <1>1, <1>2, <1>3, SMT DEF Divided
  <1>5. day \div DayLength = q
    BY <1>4, Quotient
  <1>6. Guard!CivilFromDays(q) = e
    BY CivilOfDays
  <1>7. d = e
    BY <1>5, <1>6
  <1>8. first = q + 1 - e[3]
    <2>1. Guard!IsDate(<<e[1], e[2], 1>>)
      <3>1. 1 \in 1 .. Guard!MonthLength(e[1], e[2])
        BY SMT DEF Guard!MonthLength
      <3>. QED
        BY <3>1 DEF Guard!IsDate
    <2>. QED
      BY <1>7, <2>1, SameMonth
  <1>9. Guard!WindowStart(plan, t) = IF Guard!Monthly(plan) THEN (IF first > 0 THEN first ELSE 0) * DayLength ELSE day
    BY DEF Guard!WindowStart
  <1>. HIDE DEF first, day, q, d
  <1>10. CASE Guard!Monthly(plan)
    <2>1. first = w
      BY <1>8, <1>10 DEF q
    <2>2. (IF first > 0 THEN first ELSE 0) = w
      BY <2>1, SMT
    <2>. QED
      BY <1>6, <1>9, <1>10, <2>2 DEF q
  <1>11. CASE ~Guard!Monthly(plan)
    BY <1>3, <1>6, <1>9, <1>11 DEF q
  <1>. QED
    BY <1>10, <1>11

LEMMA Plans ==
    Guard!Plan \in {"free", "paid", "error"}
  BY DEF Guard!Plan, Guard!ParseWorkersPlan

LEMMA SameUnits == \A S : Guard!Cardinality(S) = Cardinality(S)
  BY Zenon DEF Guard!Cardinality, Cardinality

LEMMA UsageIsCounted ==
    ASSUME Guard!TypeOK, NEW m, NEW since
    PROVE  Guard!Recorded(m, since) \in Nat
  <1>. DEFINE S == {i \in DOMAIN rows : rows[i].meter = m /\ Guard!NotBefore(rows[i].date, since)}
  <1>1. DOMAIN rows = 1 .. Len(rows) /\ Len(rows) \in Nat
    BY DEF Guard!TypeOK
  <1>2. IsFiniteSet(DOMAIN rows)
    BY <1>1, FS_Interval
  <1>3. S \subseteq DOMAIN rows
    OBVIOUS
  <1>. HIDE DEF S
  <1>4. Cardinality(S) \in Nat
    BY <1>2, <1>3, FS_Subset, FS_CardinalityType
  <1>. QED
    BY <1>4, SameUnits DEF S, Guard!Recorded

LEMMA QuotaStarts ==
    ASSUME Guard!Init
    PROVE  Guard!QuotaInv
  <1>. DEFINE n == start.day
  <1>1. start \in Starts /\ setting \in GuardSettings /\ now = n * DayLength /\ date = start.date
    BY DEF Guard!Init
  <1>2. /\ n \in Nat /\ start.last \in Nat /\ start.rows \in Nat /\ n <= start.last /\ DayLength \in Nat \ {0}
        /\ Guard!IsDate(date) /\ Guard!DaysFromCivil(date) = n /\ date[3] <= n + 1
    BY <1>1, QuotaParameters
  <1>3. date[3] \in 1 .. 31
    BY <1>2, Dates
  <1>. HIDE DEF n
  <1>4. now \in Nat /\ Guard!Today = n
    <2>1. Divided(now, DayLength, n, 0) /\ now \in Nat
      BY <1>1, <1>2, SMT DEF Divided
    <2>. QED
      BY <2>1, Quotient DEF Guard!Today
  <1>5. window = (IF Guard!Monthly(Guard!Plan) THEN n + 1 - date[3] ELSE n) /\ window \in 0 .. n
    <2>1. window = IF Guard!Monthly(Guard!Plan) THEN n + 1 - date[3] ELSE n
      BY <1>1 DEF Guard!Init, n
    <2>. QED
      BY <1>2, <1>3, <2>1
  <1>6. rows = << >> /\ query = Guard!NoQuery /\ log = Guard!Silence
    BY DEF Guard!Init
  <1>7. Guard!TypeOK
    <2>1. query.window \in -1 .. n
      BY <1>2, <1>6, SMT DEF Guard!NoQuery
    <2>2. rows \in Seq(Guard!Unit) /\ Len(rows) <= start.rows
      BY <1>2, <1>6
    <2>3. log.says = "none"
      BY <1>6 DEF Guard!Silence
    <2>4. n \in start.day .. start.last
      BY <1>2 DEF n
    <2>. QED
      BY <1>1, <1>2, <1>4, <1>5, <1>6, <2>1, <2>2, <2>3, <2>4 DEF Guard!TypeOK
  <1>8. Guard!WindowIsPlans
    BY <1>4, <1>5 DEF Guard!WindowIsPlans
  <1>9. Guard!CalendarAgrees
    <2>1. now \div DayLength = n /\ window \in Nat
      BY <1>4, <1>5 DEF Guard!Today
    <2>2. window = IF Guard!Monthly(Guard!Plan) THEN (now \div DayLength) + 1 - date[3] ELSE now \div DayLength
      BY <1>5, <2>1
    <2>3. Guard!DaysFromCivil(date) = now \div DayLength
      BY <1>2, <2>1
    <2>4. /\ Guard!CivilFromDays(now \div DayLength) = date
          /\ Guard!WindowStart(Guard!Plan, now) = window * DayLength
      BY <1>2, <1>4, <2>1, <2>2, <2>3, WindowBegins
    <2>. QED
      BY <1>2, <1>4, <2>1, <2>4 DEF Guard!CalendarAgrees
  <1>. QED
    BY <1>6, <1>7, <1>8, <1>9 DEF Guard!QuotaInv, Guard!AsksForWindow, Guard!WarnsExactly, Guard!Silence

LEMMA RunAsks ==
    ASSUME Guard!QuotaInv, Guard!Run
    PROVE  Guard!QuotaInv'
  <1>1. UNCHANGED <<setting, start, now, date, window, rows>> /\ query = Guard!NoQuery /\ setting.enabled
    BY DEF Guard!Run
  <1>2. Guard!Plan' = Guard!Plan /\ Guard!Today' = Guard!Today
    BY <1>1 DEF Guard!Plan, Guard!Today
  <1>3. Guard!CalendarAgrees' /\ Guard!WindowIsPlans'
    BY <1>1, <1>2 DEF Guard!QuotaInv, Guard!CalendarAgrees, Guard!WindowIsPlans
  <1>4. CASE log' = Guard!Skipped /\ UNCHANGED query
    <2>1. log'.says = "skipped"
      BY <1>4 DEF Guard!Skipped, Guard!Silence
    <2>2. Guard!TypeOK'
      BY <1>1, <1>2, <1>4, <2>1 DEF Guard!QuotaInv, Guard!TypeOK
    <2>3. Guard!AsksForWindow' /\ Guard!WarnsExactly'
      BY <1>1, <1>4, <2>1 DEF Guard!AsksForWindow, Guard!WarnsExactly
    <2>. QED
      BY <1>3, <2>2, <2>3 DEF Guard!QuotaInv
  <1>5. CASE /\ Guard!Plan # "error" /\ setting.credentials
             /\ query' = [since |-> Guard!IsoDate(Guard!WindowStart(Guard!Plan, now)), window |-> window]
             /\ UNCHANGED log
    <2>1. query'.since = Guard!CivilFromDays((window * DayLength) \div DayLength) /\ query'.window = window
      BY <1>5 DEF Guard!QuotaInv, Guard!CalendarAgrees, Guard!IsoDate
    <2>2. window \in 0 .. Guard!Today /\ Guard!Today \in Int
      <3>1. Guard!Today \in Nat
        BY Division, QuotaParameters DEF Guard!QuotaInv, Guard!TypeOK, Guard!Today, Divided
      <3>. QED
        BY <3>1 DEF Guard!QuotaInv, Guard!TypeOK
    <2>3. (window * DayLength) \div DayLength = window
      <3>1. Divided(window * DayLength, DayLength, window, 0)
        BY <2>2, QuotaParameters, SMT DEF Divided
      <3>. QED
        BY <3>1, Quotient
    <2>4. Guard!AsksForWindow'
      BY <2>1, <2>3 DEF Guard!AsksForWindow
    <2>5. query'.window \in -1 .. Guard!Today
      BY <2>1, <2>2
    <2>6. Guard!TypeOK'
      BY <1>1, <1>2, <1>5, <2>5 DEF Guard!QuotaInv, Guard!TypeOK
    <2>7. Guard!WarnsExactly'
      BY <1>2, <1>5 DEF Guard!QuotaInv, Guard!WarnsExactly, Guard!Near
    <2>. QED
      BY <1>3, <2>4, <2>6, <2>7 DEF Guard!QuotaInv
  <1>. QED
    BY <1>4, <1>5 DEF Guard!Run

(* What the answer says is compared with the plan's allowances as the property does. *)
LEMMA AssessedIsNear ==
    ASSUME NEW u \in [Guard!Meter -> Nat], Guard!Plan # "error"
    PROVE  Guard!AssessUsage(u, Guard!Plan) <=> Guard!Near(u)
  <1>1. ASSUME NEW m \in Guard!Meter
        PROVE  /\ Allowance[Guard!Plan][m] > 0 <=> Allowance[Guard!Plan][m] # 0
               /\ u[m] * 10 >= 8 * Allowance[Guard!Plan][m] <=> 5 * u[m] >= 4 * Allowance[Guard!Plan][m]
    <2>1. u[m] \in Nat /\ Allowance[Guard!Plan][m] \in Nat
      BY <1>1, Plans, QuotaParameters
    <2>. QED
      BY <2>1, SMT
  <1>. QED
    BY <1>1 DEF Guard!AssessUsage, Guard!Near, Guard!Metered

LEMMA FinishTellsUsage ==
    ASSUME Guard!QuotaInv, Guard!Finish
    PROVE  Guard!QuotaInv'
  <1>1. /\ UNCHANGED <<setting, start, now, date, window, rows>>
        /\ query # Guard!NoQuery /\ query' = Guard!NoQuery
    BY DEF Guard!Finish
  <1>2. Guard!Plan' = Guard!Plan /\ Guard!Today' = Guard!Today
    BY <1>1 DEF Guard!Plan, Guard!Today
  <1>3. Guard!CalendarAgrees' /\ Guard!WindowIsPlans'
    BY <1>1, <1>2 DEF Guard!QuotaInv, Guard!CalendarAgrees, Guard!WindowIsPlans
  <1>4. Guard!Plan # "error" /\ query.since = Guard!CivilFromDays(query.window)
    BY <1>1 DEF Guard!QuotaInv, Guard!TypeOK, Guard!AsksForWindow
  <1>. DEFINE told == [m \in Guard!Meter |-> Guard!Recorded(m, Guard!CivilFromDays(query.window))]
              said(a) == Guard!UsageFromGraphql(a, query.since)
  <1>5. told \in [Guard!Meter -> Nat]
    BY UsageIsCounted DEF Guard!QuotaInv
  <1>6. \E a \in Guard!Answers :
           log' = IF Guard!Answered(a)
                  THEN [says |-> IF Guard!AssessUsage(said(a), Guard!Plan) THEN "warned" ELSE "quiet",
                        usage |-> told, full |-> a.missing = {}]
                  ELSE [Guard!Silence EXCEPT !.says = "failed"]
    BY DEF Guard!Finish
  <1>7. PICK a : log' = IF Guard!Answered(a)
                        THEN [says |-> IF Guard!AssessUsage(said(a), Guard!Plan) THEN "warned" ELSE "quiet",
                              usage |-> told, full |-> a.missing = {}]
                        ELSE [Guard!Silence EXCEPT !.says = "failed"]
    BY <1>6
  <1>8. a.missing = {} => said(a) = told
    BY <1>4 DEF Guard!UsageFromGraphql
  <1>9. a.missing = {} => (Guard!AssessUsage(said(a), Guard!Plan) <=> Guard!Near(told))
    <2>. HIDE DEF told, said
    <2>. QED
      BY <1>4, <1>5, <1>8, AssessedIsNear
  <1>. HIDE DEF told, said
  <1>10. /\ log'.says \in {"quiet", "warned", "failed"}
         /\ log'.says \in {"quiet", "warned"} /\ log'.full => (log'.says = "warned" <=> Guard!Near(told)) /\ log'.usage = told
    <2>1. CASE Guard!Answered(a)
      <3>1. /\ log'.says = (IF Guard!AssessUsage(said(a), Guard!Plan) THEN "warned" ELSE "quiet")
            /\ log'.usage = told /\ (log'.full <=> a.missing = {})
        BY <1>7, <2>1
      <3>. QED
        BY <1>9, <3>1
    <2>2. CASE ~Guard!Answered(a)
      <3>1. log'.says = "failed"
        BY <1>7, <2>2 DEF Guard!Silence
      <3>. QED
        BY <3>1
    <2>. QED
      BY <2>1, <2>2
  <1>11. Guard!WarnsExactly'
    <2>1. Guard!Near(log.usage)' <=> \E m \in Guard!Meter : Allowance[Guard!Plan][m] # 0 /\ 5 * log'.usage[m] >= 4 * Allowance[Guard!Plan][m]
      BY <1>2 DEF Guard!Near
    <2>2. log'.usage = told => (Guard!Near(log.usage)' <=> Guard!Near(told))
      BY <2>1 DEF Guard!Near
    <2>. QED
      BY <1>10, <2>2 DEF Guard!WarnsExactly
  <1>12. Guard!AsksForWindow'
    BY <1>1 DEF Guard!AsksForWindow
  <1>13. Guard!TypeOK'
    <2>1. Guard!Today \in Nat
      BY Division, QuotaParameters DEF Guard!QuotaInv, Guard!TypeOK, Guard!Today, Divided
    <2>2. query'.window \in -1 .. Guard!Today
      BY <1>1, <2>1, SMT DEF Guard!NoQuery
    <2>. QED
      BY <1>1, <1>2, <1>10, <2>2 DEF Guard!QuotaInv, Guard!TypeOK
  <1>. QED
    BY <1>3, <1>11, <1>12, <1>13 DEF Guard!QuotaInv

LEMMA UseIsRecorded ==
    ASSUME Guard!QuotaInv, Guard!Use
    PROVE  Guard!QuotaInv'
  <1>1. UNCHANGED <<setting, start, now, date, window, query, log>> /\ Len(rows) < start.rows
    BY DEF Guard!Use
  <1>2. Guard!Plan' = Guard!Plan /\ Guard!Today' = Guard!Today
    BY <1>1 DEF Guard!Plan, Guard!Today
  <1>3. rows' \in Seq(Guard!Unit) /\ Len(rows') <= start.rows
    <2>1. PICK m \in Guard!Meter : rows' = Append(rows, [meter |-> m, date |-> date])
      BY DEF Guard!Use
    <2>2. date \in Nat \X (1 .. 12) \X (1 .. 31)
      <3>1. Guard!IsDate(date)
        BY DEF Guard!QuotaInv, Guard!TypeOK
      <3>2. date = <<date[1], date[2], date[3]>> /\ date[1] \in Nat /\ date[2] \in 1 .. 12 /\ date[3] \in 1 .. 31
        BY <3>1, Dates
      <3>. QED
        BY <3>2
    <2>3. [meter |-> m, date |-> date] \in Guard!Unit
      BY <2>2 DEF Guard!Unit
    <2>4. rows \in Seq(Guard!Unit) /\ start.rows \in Nat
      BY QuotaParameters DEF Guard!QuotaInv, Guard!TypeOK
    <2>. QED
      BY <1>1, <2>1, <2>3, <2>4
  <1>4. Guard!TypeOK'
    BY <1>1, <1>2, <1>3 DEF Guard!QuotaInv, Guard!TypeOK
  <1>5. Guard!CalendarAgrees' /\ Guard!WindowIsPlans' /\ Guard!AsksForWindow' /\ Guard!WarnsExactly'
    BY <1>1, <1>2 DEF Guard!QuotaInv, Guard!CalendarAgrees, Guard!WindowIsPlans, Guard!AsksForWindow,
                      Guard!WarnsExactly, Guard!Near
  <1>. QED
    BY <1>4, <1>5 DEF Guard!QuotaInv

(* Midnight: the calendar turns the page and the conversions follow. *)
LEMMA TickTurnsThePage ==
    ASSUME Guard!QuotaInv, Guard!Tick
    PROVE  Guard!QuotaInv'
  <1>. DEFINE t == Guard!Today
              u == (now + 1) \div DayLength
              midnight == (now + 1) % DayLength = 0
  <1>1. UNCHANGED <<setting, start, rows, query, log>> /\ now' = now + 1 /\ now < (start.last + 1) * DayLength - 1
    BY DEF Guard!Tick
  <1>2. /\ now \in Nat /\ DayLength \in Nat \ {0} /\ start.day \in Nat /\ start.last \in Nat
        /\ Guard!IsDate(date) /\ Guard!DaysFromCivil(date) = t /\ window \in 0 .. t
        /\ t \in start.day .. start.last
    BY QuotaParameters DEF Guard!QuotaInv, Guard!TypeOK, Guard!CalendarAgrees
  <1>3. t \in Nat /\ date[3] \in 1 .. 31
    BY <1>2, Dates
  <1>4. Guard!Today' = u /\ u = IF midnight THEN t + 1 ELSE t
    BY <1>1, <1>2, NextDay DEF Guard!Today
  <1>5. u < start.last + 1
    <2>1. now + 1 \in Nat /\ start.last + 1 \in Nat /\ now + 1 < (start.last + 1) * DayLength
      BY <1>1, <1>2
    <2>. QED
      BY <1>2, <2>1, Before
  <1>6. date' = IF midnight THEN Guard!DayAfter(date) ELSE date
    BY <1>1 DEF Guard!Tick
  <1>7. window' = IF midnight /\ (Guard!Monthly(Guard!Plan) => date'[3] = 1) THEN u ELSE window
    BY <1>1 DEF Guard!Tick
  <1>8. /\ Guard!IsDate(date') /\ Guard!DaysFromCivil(date') = u
        /\ midnight => date'[3] \in {1, date[3] + 1}
    BY <1>2, <1>4, <1>6, DaySucceeds
  <1>9. window = IF Guard!Monthly(Guard!Plan) THEN t + 1 - date[3] ELSE t
    BY DEF Guard!QuotaInv, Guard!WindowIsPlans
  <1>10. Guard!Plan' = Guard!Plan
    BY <1>1 DEF Guard!Plan
  <1>. HIDE DEF t, u, midnight
  <1>11. window' = (IF Guard!Monthly(Guard!Plan) THEN u + 1 - date'[3] ELSE u) /\ window' \in 0 .. u /\ u \in Nat
    BY <1>2, <1>3, <1>4, <1>6, <1>7, <1>8, <1>9
  <1>12. Guard!WindowIsPlans'
    BY <1>4, <1>10, <1>11 DEF Guard!WindowIsPlans, Guard!Monthly
  <1>13. Guard!CalendarAgrees'
    <2>1. now' \in Nat /\ now' \div DayLength = u
      BY <1>1, <1>2 DEF u
    <2>2. window' = IF Guard!Monthly(Guard!Plan) THEN (now' \div DayLength) + 1 - date'[3] ELSE now' \div DayLength
      BY <1>11, <2>1
    <2>3. window' \in Nat
      BY <1>11
    <2>4. Guard!CivilFromDays(now' \div DayLength) = date' /\ Guard!WindowStart(Guard!Plan, now') = window' * DayLength
      BY <1>8, <2>1, <2>2, <2>3, WindowBegins
    <2>. QED
      BY <1>4, <1>8, <1>10, <2>1, <2>4 DEF Guard!CalendarAgrees
  <1>14. Guard!TypeOK'
    <2>1. u \in start.day .. start.last
      BY <1>2, <1>3, <1>4, <1>5, <1>11
    <2>2. query.window \in -1 .. u
      <3>1. query.window \in -1 .. t
        BY DEF Guard!QuotaInv, Guard!TypeOK, t
      <3>. QED
        BY <1>3, <1>4, <3>1
    <2>3. now' \in Nat
      BY <1>1, <1>2
    <2>. QED
      BY <1>1, <1>4, <1>8, <1>10, <1>11, <2>1, <2>2, <2>3 DEF Guard!QuotaInv, Guard!TypeOK
  <1>15. Guard!AsksForWindow' /\ Guard!WarnsExactly'
    BY <1>1, <1>10 DEF Guard!QuotaInv, Guard!AsksForWindow, Guard!WarnsExactly, Guard!Near
  <1>. QED
    BY <1>12, <1>13, <1>14, <1>15 DEF Guard!QuotaInv

(* The quota guard warns exactly when a full answer calls for it, and its dates are the
   calendar's: from any day on, for any allowances, traffic and answers. *)
THEOREM GuardWarnsWhenDue == PartsSpec => []WarnsWhenDue
  <1>1. PartsInit => Guard!QuotaInv
    BY QuotaStarts DEF PartsInit
  <1>2. Guard!QuotaInv /\ [PartsNext]_allVars => Guard!QuotaInv'
    <2> SUFFICES ASSUME Guard!QuotaInv, [PartsNext]_allVars PROVE Guard!QuotaInv'
      OBVIOUS
    <2>1. Guard!Next \/ UNCHANGED quotaVars
      BY DEF PartsNext, allVars
    <2>2. CASE UNCHANGED quotaVars
      <3>1. UNCHANGED <<setting, start, now, date, window, rows, query, log>>
        BY <2>2 DEF quotaVars
      <3>2. Guard!Plan' = Guard!Plan /\ Guard!Today' = Guard!Today
        BY <3>1 DEF Guard!Plan, Guard!Today
      <3>. QED
        BY <3>1, <3>2 DEF Guard!QuotaInv, Guard!TypeOK, Guard!CalendarAgrees, Guard!WindowIsPlans,
                          Guard!AsksForWindow, Guard!WarnsExactly, Guard!Near
    <2>. QED
      BY <2>1, <2>2, RunAsks, FinishTellsUsage, UseIsRecorded, TickTurnsThePage DEF Guard!Next
  <1>3. Guard!QuotaInv => WarnsWhenDue
    BY DEF WarnsWhenDue
  <1>. QED
    BY <1>1, <1>2, <1>3, PTL DEF PartsSpec
=============================================================================
