------------------------------ MODULE WorkerEdge ------------------------------
(***************************************************************************)
(* The Worker around the core: the `fetch` entry point (worker/src/lib.rs: *)
(* `/healthz`, preflights, loops, a broken configuration, then the core),  *)
(* the edge cache in front of public GETs (worker/src/upstream.rs,         *)
(* `public`) and the CORS decoration of every answer (worker/src/out.rs).  *)
(* Concurrent requests share the cache.  A miss asks the upstream, and its *)
(* answer is on its way for up to the upstream's deadline; entries are     *)
(* written after the answer is sent (`wait_until`), late, out of order or  *)
(* not at all.                                                             *)
(***************************************************************************)
EXTENDS Naturals, FiniteSets

CONSTANTS
    Request,      \* requests in flight; each is followed by others
    Shape,        \* what a request may be: method, path, query, looped, origin
    PublicPaths,  \* PUBLIC_PATHS
    Allowed,      \* ALLOWED_ORIGINS
    Ttls,         \* values of PUBLIC_CACHE_TTL_SECS; 0 disables the cache
    OriginAge,    \* max-age the upstream itself gives its responses
    UpstreamTimeout,  \* UPSTREAM_TIMEOUT_SECS
    MaxPut,       \* how long the runtime keeps a `wait_until` task alive
    MaxTime,      \* bound: time
    MaxPage,      \* bound: versions of the upstream's content
    MaxTasks      \* bound: pending tasks

ASSUME EdgeConstants ==
    /\ Shape \subseteq [method : {"GET", "HEAD", "POST", "OPTIONS"}, path : STRING,
                        query : STRING, looped : BOOLEAN, origin : STRING]
    /\ "" \notin Allowed
    /\ Ttls \cup {OriginAge, UpstreamTimeout, MaxPut, MaxTime, MaxPage, MaxTasks} \subseteq Nat
    /\ MaxPage > 0

Never == MaxTime + 1
NoEntry == [at |-> Never]
Idle == [at |-> "idle"]
NoAnswer == [kind |-> "none"]

VARIABLES
    env,     \* "good", "bad" (validation fails) or "unbound" (no Durable Object binding)
    ttl,     \* PUBLIC_CACHE_TTL_SECS
    req,     \* req[r]: Idle, or where the request is (at the "cache", or waiting for the upstream,
             \* "fetch"), its shape, since when it is there, and what the upstream answered,
             \* once it has
    last,    \* the answer given in the last step, to which request, or NoAnswer
    cache,   \* cache[p]: the entry under path p, or NoEntry
    puts,    \* `wait_until` tasks that have not written yet
    page,    \* version of the upstream's content
    ended,   \* ended[v]: when version v was superseded
    time

vars == <<env, ttl, req, last, cache, puts, page, ended, time>>
world == <<env, ttl, page, ended, time>>

(* The queries and the grants an answer may be about. *)
Query == {""} \cup {s.query : s \in Shape}
Grant == {""} \cup Allowed

(* An answer: its status (0 for a failure of the upstream), where it comes from, what it
   shows and to which query, whether it was made for another request, its max-age and its
   CORS grant. *)
Answer == [status : Nat, kind : {"own", "Public", "Gated"}, page : 0 .. MaxPage, query : Query,
           shared : BOOLEAN, age : Nat, grant : Grant]

Flight == [at : {"cache", "fetch"}, shape : Shape, since : 0 .. MaxTime,
           answer : Answer \cup {NoAnswer}]

(* What of a request its answer is measured by. *)
Asker == [shape : Shape, since : 0 .. MaxTime]
AskerOf(r) == [shape |-> req[r].shape, since |-> req[r].since]

TypeOK ==
    /\ env \in {"good", "bad", "unbound"}
    /\ ttl \in Ttls
    /\ req \in [Request -> Flight \cup {Idle}]
    /\ last # NoAnswer => last.to \in Asker /\ last.answer \in Answer
    /\ \A p \in PublicPaths : cache[p] # NoEntry => cache[p].answer \in Answer /\ ttl > 0
    /\ page \in 1 .. MaxPage /\ time \in 0 .. MaxTime

Init ==
    /\ env \in {"good", "bad", "unbound"}
    /\ ttl \in Ttls
    /\ req = [r \in Request |-> Idle]
    /\ last = NoAnswer
    /\ cache = [p \in PublicPaths |-> NoEntry]
    /\ puts = {}
    /\ page = 1 /\ ended = [v \in 1 .. MaxPage |-> Never]
    /\ time = 0

-----------------------------------------------------------------------------
(* The statuses the gateway may answer by itself, in the order of `route`; 403 stands for
   every refusal of the core, whose reasons other modules model, and for an error of the
   runtime before it has decided. *)
Own(s) ==
    IF s.path = "/healthz" THEN 200
    ELSE IF s.method = "OPTIONS" THEN 204
    ELSE IF s.looped THEN 508
    ELSE IF env # "good" THEN 500
    ELSE 403

(* The kind of forward the core may ask for. *)
Forwarded(s) ==
    IF Own(s) # 403 THEN {}
    ELSE IF s.path \notin PublicPaths THEN {"Gated"}
    ELSE IF s.method \in {"GET", "HEAD"} THEN {"Public"} ELSE {}

OwnAnswer(status) ==
    [status |-> status, kind |-> "own", page |-> 0, query |-> "", shared |-> FALSE,
     age |-> 0, grant |-> ""]

(* The upstream's answer, through the response header policy (no grant of its own). *)
UpstreamAnswer(kind, query, works) ==
    [status |-> IF works THEN 200 ELSE 0, kind |-> kind, page |-> page, query |-> query,
     shared |-> FALSE, age |-> OriginAge, grant |-> ""]

(* `finish`: an allowed origin is granted; nothing is taken away from the answer. *)
Finished(s, a) ==
    IF env # "bad" /\ s.origin \in Allowed THEN [a EXCEPT !.grant = s.origin] ELSE a

Finish(r, to, a) ==
    /\ last' = [kind |-> "answer", to |-> to, answer |-> Finished(to.shape, a)]
    /\ req' = [req EXCEPT ![r] = Idle]

-----------------------------------------------------------------------------
(* A request comes, and is answered without the upstream.  The time it spends in the core is
   the business of other modules. *)
Route(r) ==
    /\ req[r] = Idle
    /\ \E s \in Shape : Finish(r, [shape |-> s, since |-> time], OwnAnswer(Own(s)))
    /\ UNCHANGED <<cache, puts, world>>

(* `respond`: an error of the runtime while the request is on its way. *)
Fault(r) ==
    /\ req[r] # Idle
    /\ Finish(r, AskerOf(r), OwnAnswer(502))
    /\ UNCHANGED <<cache, puts, world>>

(* Mutant of Cached: a TTL of 0 does not disable the cache. *)
CachedZero(s, kind) == kind = "Public" /\ s.method = "GET"

Cached(s, kind) == kind = "Public" /\ s.method = "GET" /\ ttl > 0

(* Where a request goes, from now on. *)
Sent(s, place) == [at |-> place, shape |-> s, since |-> time, answer |-> NoAnswer]

(* The core asks for a forward: to the cache first, or straight to the upstream. *)
Forward(r) ==
    /\ req[r] = Idle
    /\ \E s \in Shape : \E kind \in Forwarded(s) :
          req' = [req EXCEPT ![r] = Sent(s, IF Cached(s, kind) THEN "cache" ELSE "fetch")]
    /\ last' = NoAnswer
    /\ UNCHANGED <<cache, puts, world>>

Fresh(p) == cache[p] # NoEntry /\ time < cache[p].at + cache[p].answer.age

(* `copy_response`: the entry as it was put. *)
Copied(entry) == [entry.answer EXCEPT !.shared = TRUE]

(* A fresh entry answers, decorated for this request alone; a lookup that fails, or a copy
   that does, is a miss. *)
Hit(r) ==
    /\ req[r].at = "cache" /\ Fresh(req[r].shape.path)
    /\ Finish(r, AskerOf(r), Copied(cache[req[r].shape.path]))
    /\ UNCHANGED <<cache, puts, world>>

(* No fresh entry, or a lookup or a copy that failed. *)
Miss(r) ==
    /\ req[r].at = "cache"
    /\ req' = [req EXCEPT ![r] = Sent(req[r].shape, "fetch")]
    /\ last' = NoAnswer
    /\ UNCHANGED <<cache, puts, world>>

(* Mutant of FillQuery: the client's query reaches the upstream, the key still drops it. *)
FillQueryKept(s) == s.query

FillQuery(s) == ""

(* The upstream answers with what it shows now, or fails: to the bare path if the answer is for the
   cache, else query and all.  The code that waits for it goes on some time later. *)
Reply(r) ==
    LET s == req[r].shape
    IN  /\ req[r].at = "fetch" /\ req[r].answer = NoAnswer
        /\ \E kind \in Forwarded(s), works \in BOOLEAN :
              req' = [req EXCEPT ![r].answer =
                        UpstreamAnswer(kind, IF Cached(s, kind) THEN FillQuery(s) ELSE s.query, works)]
        /\ last' = NoAnswer
        /\ UNCHANGED <<cache, puts, world>>

(* The deadline passes first. *)
TimedOut(r) ==
    /\ req[r].at = "fetch" /\ req[r].answer = NoAnswer /\ time >= req[r].since + UpstreamTimeout
    /\ Finish(r, AskerOf(r), OwnAnswer(504))
    /\ UNCHANGED <<cache, puts, world>>

(* `send` without the cache: the answer is passed on. *)
Send(r) ==
    /\ req[r].at = "fetch" /\ req[r].answer # NoAnswer
    /\ ~Cached(req[r].shape, req[r].answer.kind)
    /\ Finish(r, AskerOf(r), req[r].answer)
    /\ UNCHANGED <<cache, puts, world>>

(* Mutant of Storable: whatever the upstream says is kept. *)
StorableAny(a) == TRUE

Storable(a) == a.status \in 200 .. 299

(* Mutant of MaxAge: the upstream's own max-age is left in place. *)
MaxAgeKept(a) == a

MaxAge(a) == IF Storable(a) THEN [a EXCEPT !.age = ttl] ELSE a

(* Mutant of ForCache: the cache gets what the client gets. *)
ForCacheFinished(s, a) == Finished(s, a)

(* The copy for the cache is taken before CORS touches the answer. *)
ForCache(s, a) == a

(* `public` goes on after a miss: a success gets the configured max-age, and a copy of it is
   left for the cache (or not, if it cannot be copied). *)
Fill(r) ==
    LET s == req[r].shape
        a == MaxAge(req[r].answer)
    IN  /\ req[r].at = "fetch" /\ req[r].answer # NoAnswer /\ Cached(s, req[r].answer.kind)
        /\ Cardinality(puts) < MaxTasks
        /\ Finish(r, AskerOf(r), a)
        /\ \/ puts' = puts
           \/ /\ Storable(a)
              /\ puts' = puts \cup {[path |-> s.path, answer |-> ForCache(s, a), made |-> time]}
        /\ UNCHANGED <<cache, world>>

-----------------------------------------------------------------------------
(* The runtime: tasks write whenever they run, or are lost; entries may go at any time. *)

Put(task) ==
    /\ cache' = [cache EXCEPT ![task.path] = [at |-> time, answer |-> task.answer]]
    /\ puts' = puts \ {task}
    /\ last' = NoAnswer
    /\ UNCHANGED <<req, world>>

PutLost(task) ==
    /\ puts' = puts \ {task}
    /\ last' = NoAnswer
    /\ UNCHANGED <<req, cache, world>>

Evict(p) ==
    /\ cache[p] # NoEntry
    /\ cache' = [cache EXCEPT ![p] = NoEntry]
    /\ last' = NoAnswer
    /\ UNCHANGED <<req, puts, world>>

(* Time passes, but not past the end of a task, nor past a deadline before the code that
   waits has noticed. *)
Tick ==
    /\ time < MaxTime
    /\ \A r \in Request : req[r].at = "fetch" => time < req[r].since + UpstreamTimeout
    /\ \A task \in puts : time < task.made + MaxPut
    /\ time' = time + 1
    /\ last' = NoAnswer
    /\ UNCHANGED <<env, ttl, req, cache, puts, page, ended>>

(* The upstream: new content. *)
Publish ==
    /\ page < MaxPage
    /\ page' = page + 1
    /\ ended' = [ended EXCEPT ![page] = time]
    /\ last' = NoAnswer
    /\ UNCHANGED <<env, ttl, req, cache, puts, time>>

Next ==
    \/ \E r \in Request : Route(r) \/ Fault(r) \/ Forward(r) \/ Hit(r) \/ Miss(r)
    \/ \E r \in Request : Reply(r) \/ TimedOut(r) \/ Send(r) \/ Fill(r)
    \/ \E task \in puts : Put(task) \/ PutLost(task)
    \/ \E p \in PublicPaths : Evict(p)
    \/ Tick \/ Publish

Spec == Init /\ [][Next]_vars

-----------------------------------------------------------------------------
Told(P(_, _)) == last # NoAnswer => P(last.to, last.answer)

(* A client gets somebody else's answer only for a GET of a public path, and then the
   answer to the bare path: no gated response and no query of another client's. *)
SharedOnlyPublic ==
    Told(LAMBDA to, a : a.shared =>
        /\ to.shape.method = "GET" /\ to.shape.path \in PublicPaths
        /\ a.kind = "Public" /\ a.query = "")

(* A browser is granted access only for its own, allowed origin, whoever filled the cache
   entry it is served from. *)
NoForeignGrant ==
    Told(LAMBDA to, a : a.grant # "" => a.grant = to.shape.origin /\ a.grant \in Allowed)

(* An outage is never remembered: a client is told of a failure of the upstream only if the
   upstream failed the request of this client. *)
FailureIsOwn == Told(LAMBDA to, a : a.status = 0 => ~a.shared)

(* A client is shown what was the upstream's content when the upstream was asked for it or
   later; from the cache, content that was superseded, when the client's request came there,
   less than the deadline of a fetch, the delay of one task and the configured TTL before,
   even if cache writes overtake each other. *)
Freshness ==
    Told(LAMBDA to, a : a.kind # "own" =>
        IF a.shared THEN to.since < ended[a.page] + UpstreamTimeout + MaxPut + ttl
                    ELSE to.since <= ended[a.page])

(***************************************************************************)
(* The inductive invariant behind both: what may be shared was made for    *)
(* nobody in particular, and was the upstream's content after it was asked *)
(* for.                                                                    *)
(***************************************************************************)
Shareable(a) ==
    /\ a \in Answer /\ a.status = 200 /\ a.kind = "Public" /\ a.query = "" /\ a.grant = ""
    /\ a.age = ttl /\ a.page \in 1 .. page

(* The answer to a fetch: nobody's in particular, and to the bare path if it is for the cache. *)
Fetched(s, a) ==
    /\ a \in Answer /\ a.kind \in {"Public", "Gated"} /\ ~a.shared /\ a.grant = ""
    /\ a.status \in {0, 200} /\ a.page \in 1 .. page
    /\ Cached(s, a.kind) => a.query = "" /\ s.path \in PublicPaths

(* A request at the cache may be answered from it; a fetch is within its deadline, and its
   answer was the content after the upstream was asked. *)
RequestsKeepTrack ==
    \A r \in Request : req[r] # Idle =>
        /\ req[r].since <= time
        /\ req[r].at = "cache" => req[r].shape.path \in PublicPaths /\ Cached(req[r].shape, "Public")
        /\ req[r].at = "fetch" => time <= req[r].since + UpstreamTimeout
        /\ req[r].answer # NoAnswer =>
              /\ req[r].at = "fetch" /\ Fetched(req[r].shape, req[r].answer)
              /\ req[r].since <= ended[req[r].answer.page]

(* A copy on its way to the cache is at most one task's delay old, and its content one
   fetch older. *)
TasksAreRecent ==
    \A task \in puts :
        /\ task.path \in PublicPaths /\ Shareable(task.answer) /\ ttl > 0
        /\ task.made \in 0 .. time /\ time <= task.made + MaxPut
        /\ task.made <= ended[task.answer.page] + UpstreamTimeout

(* An entry showed the upstream's content at most a fetch and one task's delay before it was
   written. *)
EntriesAreRecent ==
    \A p \in PublicPaths : cache[p] # NoEntry =>
        /\ Shareable(cache[p].answer) /\ cache[p].at \in 0 .. time
        /\ cache[p].at <= ended[cache[p].answer.page] + UpstreamTimeout + MaxPut

(* The content shown now has no end yet. *)
ContentIsCurrent ==
    /\ ended \in [1 .. MaxPage -> 0 .. Never]
    /\ \A v \in page .. MaxPage : ended[v] = Never

EdgeInv == RequestsKeepTrack /\ TasksAreRecent /\ EntriesAreRecent /\ ContentIsCurrent

(* A client gets somebody else's answer only for a GET of a public path, and then the answer to
   the bare path, without a CORS grant of another origin and never a failure: nothing else comes
   out of the edge cache. *)
CacheSharesSafely == TypeOK /\ EdgeInv /\ SharedOnlyPublic /\ NoForeignGrant /\ FailureIsOwn
=============================================================================
