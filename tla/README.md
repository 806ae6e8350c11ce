# TLA+ verification of the access-gate gateway

The gateway is a reverse proxy that admits a request when it carries a wallet
signature over a fresh challenge nonce and either the wallet owns an access pass
on Sui (ownership mode) or names a recent on-chain *consume* (single-use mode).
The decisions live once, in `core/`; `gateway-rust/` and `worker/` supply I/O. The
models here are of that core, run by concurrent requests over stores, a chain and
an upstream that change, fail and answer late.

## 1. Inventory

| Component | State it keeps | Operations | What makes it correct |
| --- | --- | --- | --- |
| Redemption table (`core/src/redemption.rs`) | rows: lease or commit, expiry, owner token | `try_lease`, `commit`, `release` | a consume is redeemed once; only the owner moves its lease; a commit survives the cap |
| `redeem_and_forward` (`core/src/gateway.rs`) | per request: the lease token | lease, forward, commit or release | success only if recorded; every failure leaves the consume retryable or spent, never both |
| Rate limiter (`RateTable`, `MemoryRates`) | one fixed window per key in three tables | `check_capped`, `prune` | sweeping changes no verdict; the cap does not punish bystanders |
| Nonce table (`NonceTable`) | expiry per nonce | `issue`, `take_if_valid`, `prune` | a nonce admits one request; one that was handed out works |
| Request pipeline (`Gateway::handle`) | per request: the step it awaits | loop check, routing, four rate charges, challenge, public passthrough, gated path | nothing reaches the upstream unproven except public reads |
| Access decision (`verify_access_request`) | none | proof, signature, nonce, pause, consume or ownership | the order: a nonce is burnt only by a verified signature |
| Ownership check (`SuiRpc::owns_nft`) | a cache with TTL and cap | cache lookup, page scan with deadline | a grant is recent; a holder is not refused |
| Consume check (`consume_tx_valid`) | none | fetch with retries, event match, age | the age bound matches what the store remembers |
| Configuration (`GatewayConfig::from_env`) | the limits | validation | limits that relate to each other are checked together |
| Redis store (`gateway-rust/src/challenge.rs`) | the same tables as keys with a TTL | one command or script per call; a lease is `SET NX`, then `GET` | callers see the port `StateStore` |
| Durable Object store (`worker/src/do_state.rs`, `state.rs`, `region.rs`) | SQLite tables, one instance per region, a fixed one for redemptions | one synchronous section per call; schema setup | the same port; a forged tag reaches no instance |
| Native server (`gateway-rust/src/main.rs`) | connection permits, gated slots, tasks | start, accept, serve, shed, drain | nothing leaks; a signal ends the process in bounded time |
| Forwarding (`forward.rs`, `proxy.rs`, `http_client.rs`, `worker/src/upstream.rs`) | one exchange | body cap, two deadlines, redirects, upstream failure | the cap holds; the status tells what happened |
| Header and origin policy (`headers.rs`, `origin.rs`, CORS) | none | filters, loop guard, origins | credentials and hop-by-hop fields do not leak; no request crosses twice |
| Client address (`net.rs`) | none | the rate-limit key behind trusted hops | one key per subscriber, shared with nobody |
| Worker entry (`worker/src/lib.rs`, `out.rs`) | the edge cache | `fetch`, cached public reads, CORS | the cache shares only public answers, and no grant of another origin |
| Proof and signature (`proof.rs`, `sig.rs`) | none | decode, rebuild the message, verify | a signature admits what its signer meant, once |
| Chain transport (`grpc.rs`, `sui_rpc.rs`, `transport.rs`) | one call | frames, status, deadline, retries | a cut answer is no answer; a lag is tolerated |
| Quota guard (`quota.rs`, `quota_guard.rs`) | usage totals | window, query, verdict | the calendar; warnings exactly when due |
| TypeScript gateway (`gateway-workers/`) | as the above, plus KV | as the above | superseded by `worker/`; its KV nonces are best effort |
| Deployment helpers (`ci/`, the deploy workflow, `scripts/`) | the deployed version and secret | checks, cutover, lock check | code and secret switch together; an open origin is reported |

**Interaction.** A handler is one asynchronous function. Between two awaits it runs
alone; at each await (a store call, a node call, the forward) every other handler,
the periodic sweep and the outside world may run. In-process tables sit behind a
lock, so each call is one atomic step. A remote store call can fail before it is
applied, or be applied after the caller stopped waiting. A handler can vanish at any
await: the client left, or the server shut down.

**What is hard.** A lease that outlives or is outlived by its request; a commit whose
answer is lost; calls applied after their caller is gone; tables at their cap; sweeps
between requests; a cached answer overwritten by an older scan; a list that changes
between its pages; limits that are compared without the delays between them; a lease
that takes two commands; a body, an answer and a deadline that race; a node that lags; a
cache written after the answer; isolates that disagree on their backend. The
hazards in `PROJECT.json` name each at its line.

## 2. Modules

| Module | Models | Composition |
| --- | --- | --- |
| `RedemptionTable` | the pure table of redemptions | extended by `Redemption` |
| `SingleUse` | abstract: what single use promises, without clock or store | instantiated by `Redemption` |
| `Redemption` | `redeem_and_forward` by many requests, faults, the age check | refines `SingleUse` |
| `NonceTable` | the pure table of nonces | extended by `Gateway` |
| `Gateway` | `Gateway::handle` and `verify_access_request` | its `redeem` outcome is `Redemption`'s `verified` |
| `RateLimiter` | `RateTable`, `MemoryRates`, the sweep | `Gateway` uses its answers only |
| `OwnershipCache` | `owns_nft` and `scan_owned` over a changing chain | `Gateway` uses its answers only |
| `StateStore` | abstract: the port every store implements | instantiated by `NativeStore` and `DurableState` |
| `NativeStore` | memory and Redis stores, command by command | extends the two tables, refines `StateStore` |
| `DurableState` | the Durable Object, its client and routing | extends the two tables, refines `StateStore` |
| `WorkerRates` | the Worker's rate windows per region | the counterpart of `RateLimiter` |
| `Server` | startup, accept loop, caps, drain | a handler is `Gateway`'s; here it ends or hangs |
| `Forwarding` | one exchange with the upstream, both platforms | the `forwarding` step of `Gateway` and `Redemption` |
| `HeaderPolicy` | header fields, `Via`, CORS across several proxies | |
| `ClientAddress` | the rate-limit key on both platforms | the keys of `RateLimiter` |
| `WorkerEdge` | the Worker's entry point and edge cache | around `Gateway` |
| `Environment` | the variables and their limits | extended by `Config` |
| `Config` | `from_env`, restarts with another environment | justifies the assumptions of `Redemption` |
| `ChainFetch` | consume and gate lookups over gRPC-web | the chain answers of `Gateway` |
| `AccessProof` | messages, signatures and their presentation | `sound` of `Gateway` |
| `Quota` | the quota guard and the calendar | |
| `KvNonces` | TypeScript nonces on Durable Objects and KV | extends `NonceTable` |
| `OriginLock` | the deployment and the lock check | |
| `MC*` | instances for TLC | each extends one module and instantiates the others of its run |
| `*Proofs` | theorems | |

How state and actions correspond to the code:

* **Redemption.** `rows` is the table, `NoRow` an absent key, the owner token of a
  request is the request itself (tokens are 192 random bits). `pc[r]` names the await
  a handler is at: `verified` (lease call), `forwarding`, `committing`, `releasing`,
  `rollback` (the release after a failed commit), or its outcome. `Lease`, `Forward`,
  `CommitLease` and `ReleaseLease` are the resumptions after each await; `StoreError`
  and `Abandon` are the failed await and the dropped handler. Either may leave the
  call in `limbo`, from which `LateCall` applies it. `due[r]` bounds how long a phase
  lasts: the deadlines are the code's (`BODY_READ_TIMEOUT_SECS`,
  `UPSTREAM_TIMEOUT_SECS`, the store client's timeout). `winners` and `paidAt` are
  history. HashMap order decides ties at eviction; the model allows any.
* **Gateway.** `pc[r]` is the call a request awaits, or its status. `sound[r]` stands
  for decoding and signature verification, including the mode's requirement of a
  consume digest. `nonce[r]` is drawn for a challenge or named by a proof. Rate
  checks may answer anything; so may the chain. Nonce calls can be lost or late.
* **RateLimiter.** A window with count 0 is an absent key. `Fits(t)` says that the keys
  table t ever admitted fit into it, so that nothing was evicted. `unswept` and `admitted`
  are history: the tables had nothing been swept or evicted, and the admission times.
* **OwnershipCache.** Passes are numbered in the order the node lists them; a page
  token is the last object of a page. `ReadPage` is the node's answer, at one moment;
  `PageReply` its arrival. The deadline is checked between pages, as in `scan_owned`.
  `since` and `lastHeld` are history. `caching` is the configuration: a TTL of 0 is no cache.
* **NativeStore, DurableState.** Expired rows may stay in the tables; the refinement
  shows the port only what is alive. In Redis `LeaseSet` and `LeaseGet` are separate steps
  and the key may expire, be released or be committed between them; commands fail
  before or after they are applied. The Durable Object is constructed, dropped and
  constructed again; `migrate` may stop after any of its steps, and rows of the script
  before owner tokens are among the initial states. All shards share one clock, which is
  harmless: a shard's clock meets only its own rows. Drawing entropy fails before
  anything is stored, so only an eviction that made room could be lost; that is left out.
* **Server.** `permits` and `slots` are the two semaphores. A handler may never end:
  what bounds the drain is the grace period alone.
* **Forwarding.** Chunks, the byte counter, the upstream's answer, the deadline and the
  awaiting code are separate actors on the Worker; natively the body is read first. `cut`
  is a body that broke off; the Worker learns of it from the failed exchange only.
* **HeaderPolicy.** A field name stands for its class (credential, hop-by-hop, private,
  plain). `UPSTREAM_AUTH_HEADERS` is taken not to name `via`.
* **WorkerEdge.** A fetch takes up to `UPSTREAM_TIMEOUT_SECS`: the upstream answers with its
  content of some moment in between (`Reply`) and the waiting code goes on later (`Fill`, or
  `Send` without the cache). `wait_until` tasks write the cache late, in any order or never, within
  `MaxPut`. A public answer depends on its path only.
* **Config.** A variable is the set of features its parser tells apart. The store
  survives a restart, except through a volatile one, which forgets. `former` is the
  configuration before the last start, whose instances may still redeem; `spender` is the one
  that redeemed the consume last. `Opaque` is a value that is no text and is read as unset.
  The store, not the configuration, judges the text of `REDIS_URL`.
* **ChainFetch.** A transaction is its events, a frame a flag and a body that may be cut;
  trailers-only answers are errors. A consume is presented after its event. `knew` is what
  the node knew when the last call reached it, which a late answer may still show.
* **AccessProof.** Text is a sequence of words, so that a line break moved from one field
  to another is a case; a signature verifies under the key that made it only.
* **ClientAddress.** The deployment's proxies are as many as `TRUSTED_PROXY_HOPS` says and
  clients come through them. With `dualStack` the socket shows IPv4 peers as IPv6. A field
  with an `opaque` entry cannot be read; `legible` records whether that concerned one that a
  proxy wrote into.
* **Quota.** Amounts are scaled: an allowance is a few units, and a warning is due at
  four fifths of it. `date` and `window` are the calendar's, advanced day by day
  (`DayAfter`), beside the conversions of the code that must agree with it; a behaviour
  begins on one of `Starts`, a day and its date.
* **KvNonces.** `view[r]` is what region r reads of `kv`; a region sees its own writes.
  The flag is read between two steps of `getState`, so requests of one isolate may
  build different states. The rate counters of KV are left out: they only refuse.
* **OriginLock.** A step of the workflow fails at any point and a later run begins again;
  the zone may challenge a probe instead of letting Access answer.

Mutated forms of definitions (`Mutant of ...`) stand before the definition they
change. They are used by no specification: each shows that a property notices the bug.

## 3. Runs

Several components that share nothing are checked in one run: a variable `part`, chosen
at the start, says which of them a behaviour is about, and the others stay in an
initial state. The state graph of a run is the disjoint union of its parts' graphs, so
a property holds in the run exactly if it holds in each part. Where a component makes
several promises, its module or the MC module conjoins them under one name; the table
lists the conjuncts, which are defined and explained in the component's module; the
component's type invariant is one more. The mutants in `PROJECT.json` break the conjuncts one by one.

| Run | Part | Checks | Bounds and why |
| --- | --- | --- | --- |
| `once_only` | faults | `AtMostOneRedemption`; `SuccessIsRecorded`; `NoConcurrentUploads`; `ImplementsSingleUse`; `RowsKeepTheirOwners` (`RedemptionInv`, `RowsAreWanted`, `UploadsKeepLease`, `LiveCommitUntouched`, `OnlyOwnerMovesLease`) | 3 requests, 1 consume: holder, duplicate and a third after the commit is forgotten. Retention 4 > age 1 + skew 1 + gap 1; lease 4 > forward 1 + 2 calls. Time 8 passes both expiries |
| | full | `FullTableSpendsOnce` (`AtMostOneRedemption`, `CapExceededByCommitsOnly`, `LiveCommitUntouched`) | 3 requests, 2 consumes, room for 1 row, time 5: a lease is evicted, a commit is not and overflows the table, and the third request presents a spent consume. What speaks of room (`Fits`) is vacuous here and checked in *faults* |
| | kv | `KvNoncesHold` (`NonceInv` with `DurableOnce`, `SpentIsRefused`, `RedemptionsPresent`; `AcceptedInTime`) | 2 regions with an isolate each, a challenge and 2 uses of its nonce, lifetime 1 < KV's minimum 2, 1 eviction |
| `endings` | redemption | `RedemptionsEnd` (`EveryRequestEnds`, `AbandonedLeaseLapses`) | 2 requests, faults; the clock runs past the last possible expiry (6 + 4) |
| | server | `NothingLeaks` (`PermitsKept`, `SlotsKept`); `ServesFairly` (`ShedWhenFull`, `GraceGiven`); `ProcessesEnd` (`Terminates`, `GivesUpLate`) | 3 clients, 2 permits, 1 slot: one waits for each; the 6 attempts of the code |
| | forwarding | `ForwardHolds` (`ForwardInv` with `CapHolds`, `InTime`; `ToldTheTruth`); `ProcessesEnd` (`Answered`) | bodies below, at and above a cap of 2, and such that break off; upstream deadline 2 > body deadline 1; both platforms |
| | lock | `DeploymentHolds` (`LockInv` with `SwitchTogether`, `RefusedNotDeployed`, `OpenIsReported`); `ProcessesEnd` (`LockCheckEnds`) | 2 deployments, 1 change of the Access policy |
| `rate_limits` | native | `SweepInvisible`; `BurstsBounded` (`BurstBounded`); `FairAtTheCap` (`RefusalEarned`, `TablesCapped`) | 3 keys, 2 windows per table, window 2, budget 2, time 5: two full windows and the edge between, with room (up to 6 admissions) and at the cap (up to 3 per key) |
| | worker | `ShardBudgets` (`RegionalBudget`, `RefusalEarnedHere`) | 2 shards or one global one, 3 keys of which two rows fill, budget 1 |
| `gateway` | nonces | `NonceAdmitsOnce`; `HandedOutNonceWorks`; `OnlySoundProofBurnsNonce`; `UpstreamIsAuthorised`; `NobodyAheadOfEvidence` (`NonceInv`, `RecordInv`, `PipelineInv`) | single use; 3 requests, 3 nonces, table of 2, TTL 2, lost and late calls, the gate is paused once |
| | routing | the same | ownership mode; 2 requests with any head, 1 nonce, gate toggled twice |
| `evidence` | consume | `DecidedByTheChain` (`AcceptedIsGenuine`, `LagTolerated`); `FetchEnds` | 9 events and pairs of them, 3 attempts (the code has 4), answers cut, garbled and late |
| | gate | `PauseNotIgnored` | every way to render the gate's fields, pauses meanwhile |
| | proof | `ProofMeansItsSigner` (`AdmittedAsIntended`, `NoTwin`, `SignerIsServed`, `NonceNeedsSignature`) | 2 wallets, 3 gateways that share a gate, an origin or a network, 2 nonces, 2 signatures |
| `ownership_cache` | cache | `GrantIsRecent`; `RefusalsAreRecent` (`CacheInv`, `RefusalInv` with `RefusalIsRecent`, `CacheCapped`) | 3 checks, 2 wallets, 1 pass that changes hands twice, cache of 1, TTL 2: a slow scan overwrites a newer answer and a third check reads it |
| | pages | the same | 1 check without cache, 4 passes on pages of 1, 3 pages allowed, 2 changes: the list grows, shrinks and is too long |
| `stores` | native | `RefusalWasContested`; `ImplementsStateStore`; `ForgetsNoRedemption`; `StoresAreRouted` (`StoreInv`) | Redis and memory; 2 callers, 2 consumes, 2 nonces, cap 1; lease 1 < retention 2 < time 3. `ForgetsNoRedemption` is the refinement to a port that forgets nothing, for every accepted configuration but a volatile one that was asked for (`cfg.allow_volatile`) |
| | redemptions | `ObjectsImplementPort`; `StoresAreRouted` (`NoForgedInstance`, `StoredWhereTagLeads`) | the Durable Object of redemptions: 2 callers, 2 consumes, cap 1, old rows, interrupted setup |
| | regions | the same | 2 shards, an unknown continent, forged and missing tags; one caller, one lifetime of a nonce |
| `edge` | cache | `CacheSharesSafely` (`EdgeInv`, `SharedOnlyPublic`, `NoForeignGrant`, `FailureIsOwn`); `Freshness` | 2 requests, 2 late writes, fetch deadline 1, task delay 1, TTL 0 or 1, origin age 3; time 3 reaches the sum of the three delays |
| | headers | `HeadersStayClean` (`HeaderInv` with `UpstreamSeesOwnCredentials`, `ForwardedOnce`, `ClientSeesClean`; `ListedFieldsStay`) | 1 or 2 names per class in every combination, 3 hops: out, another proxy and back |
| | address | `OneBudgetEach` (`AddressInv`, `OneBudget`, `OwnBudget`) | 0 to 2 proxies, both families, forged lists and fields that cannot be read, ordinary and dual-stack sockets, 2 requests |
| | config | `ServesAsConfigured` (`ConfigInv`, `UpstreamIsElsewhere`, `PublicStaysPublic`, `SecureByDefault`, `NoSilentFallback`); `SpentOnce` | any 2 edits of an empty or a working environment, both platforms, with ports of every spelling, values that are no text, and retentions at and around the maximum age; starts and redemptions at any time, of a consume whose timestamp is ahead by the whole skew |
| | quota | `WarnsWhenDue` (`QuotaInv` with `CalendarAgrees`, `WarnsExactly`) | 29 February and 1 March of a leap year with midnight inside a call and 3 units of usage; every day of 1970 to February 1973, and across 2000 and 2100, without usage |

Symmetry (requests, consumes, nonces, callers, checks, wallets) is
used in runs without liveness only. `MaxTime`, `MaxChanges`, `MaxLog`, `LastArrival` and
`LastLate` are bounds of the instances, not of the code; `Quiesce` is the end of a
bounded run. Where a run does not check for deadlock its clock is bounded, and nothing
need happen at the end of time.

Four runs are violations, where the code does less than its comments say:

* `redemption_retention_edge`: `from_env` accepts a maximum age equal to the retention.
  A consume whose timestamp is ahead of the gateway's clock (up to `CLOCK_SKEW_MS` is
  accepted) can then be presented after its commit was forgotten, and is redeemed
  twice. `RetentionMargin` is the margin that rules it out; the defaults (5 and 30
  days) have it.
* `redemption_lease_edge`: the lease must exceed the body-read and upstream deadlines,
  but the store call's own delay counts too. With a TTL just above the two, two
  uploads of one consume overlap. The second commit is still refused. `LeaseMargin`
  is what would rule it out; the defaults (900 s against 630 s) have it.
* `redemption_commit_lost`: a commit that was applied but whose answer was lost is
  reported as failed, and the release that follows (rightly) leaves the commit: the
  client's paid use is gone, which the comment denies.
* `quota_missing_field`: "an unknown field must not read as zero usage", says
  `usage_from_graphql`, but it checks the errors and the account only. A dataset or a sum
  that is absent counts as zero, and the guard stays quiet with the allowance used up.
  `WarnsExactly` therefore speaks of full answers.

Smaller differences between comments and code, which the models show but no run is
about:

* A slow body is 408 natively and 504 on the Worker, which streams. Natively any error of
  the read is a 413, a body that broke off too, where the comment (`proxy.rs:44-46`) says
  "body over the cap"; `ToldTheTruth` says it as the code does.
* The comment of `via_is_looped` names `access-gate-gateway` where the code compares with
  `nft-gate`.
* The first violation again, over reconfigurations: rows keep the retention they were
  committed with, and age and retention are compared without skew and lease delay.
  `SpentOnce` says when one configuration can redeem a consume twice: only if its two
  windows are that close. After a restart with longer windows another configuration may
  redeem it again, which the property leaves open.
* `request_head` drops an `X-Forwarded-For` field with a byte that is not visible ASCII as a
  whole (`main.rs:137-142`), the entries of trusted proxies in it included. Such a request is
  charged to a proxy's key or to one the client wrote into another field, so `OneBudget` and
  `OwnBudget` speak of legible fields. On a
  dual-stack socket all IPv4 clients share one rate key, which `OwnBudget` leaves out.
* "A different spelling of this gateway's own address cannot hide a request loop"
  (`core/src/config.rs:369-370`), but an upstream port written `:` or `:0443` does: `normalized_origin`
  takes it for another port. `UpstreamIsElsewhere` speaks of plain ports; the `Via` guard
  (`ForwardedOnce`) still ends the loop.
* "A typo ... is an error, never a silent fall-back to a weaker mode" (`core/src/config.rs:14-15`), but
  a variable that is not UTF-8, or a binding of the Worker that is no string (say, a boolean
  `SINGLE_USE`), is read as unset. `NoSilentFallback` therefore speaks of text, and of the
  variables that have no default.
* If every probe is challenged the lock script still prints that the lock holds (so
  `OpenIsReported` counts the zone's challenge as no open origin).

**Fairness.** In `Redemption`, `FairSpec` assumes weak fairness of the clock and of each handler's
resumption: every await of `redeem_and_forward` has a timeout, and the executor polls
a ready task. Nothing makes a client arrive, a fault happen, or an abandoned call
reach the store. In `Server` the clock, the notice of a signal and the exit are fair
(`select!` polls the signal; the grace period is a timer); clients and handlers are
not. In `Forwarding` and `ChainFetch` the gateway's own steps, its timers and the clock
are fair; the client, the upstream and the node are not. In `OriginLock` the steps of the
script are fair (`curl` has a time limit). The other specifications are safety only.

## 4. Proofs

The theorems hold for all constants that satisfy the named assumptions of the modules:
types, positive lifetimes and caps, and what the code fixes (the shard `g` exists, the
redemption instance is no shard, `connection` is a hop-by-hop field, an empty origin is
never allowed). Every run evaluates the assumptions of its modules. A theorem
is about a component's own `Spec`, of which the run's part is an instance, or about the
specification the run checks (`PartsSpec`, several components side by side); the constants
of every part but the redemptions of `endings` are parameters there too. Only
`RedemptionProofs` assumes more where it says so: `RetentionMargin` and `LeaseMargin` are
the margins that the first two violation runs show to be needed. What counts the rows of a
full table assumes finitely many consumes.

* `RedemptionProofs`. `TypeCorrect`; and, assuming `RetentionMargin`, `Bookkeeping`,
  `RedeemedAtMostOnce`, `SuccessOnlyIfRecorded` and `RefinesSingleUse`. At most one
  redemption is not inductive: a second commit needs a lease whose owner may still
  commit, taken after the first. `RedemptionInv` says why there is none. A lease has
  an owner that passed verification (`LeasesHaveOwners`); an orphaned call has no
  caller that would repeat it (`OrphansHaveNoCaller`); a verified request leases
  within the age bound (`OnTime`); a spent consume is remembered until then
  (`SpentRemembered`, where the margin is used); and a lease of a spent consume, left
  by a late call, belongs to a request that cannot commit (`SpentStaysSpent`).
  The refinement maps an unexpired lease to `held` and the applied commits to `spent`.

  `CommitsAreKept` needs no assumption: no call, in time or late, removes a live commit.
  `LeasesAreOwned`, `UploadsHoldTheirLease`, `UploadsAreAlone` and `OwnersKeepTheirRows` are
  about properties that speak of tables with room (`Fits`: no more consumes are presented
  than the cap), because a full table may evict a lease under its owner. Rows are of
  presented consumes only (`RowsAreWanted`), so with room nothing is evicted.
  That no two uploads overlap is not inductive: `UploadsKeepLease` says that a request in
  its upload holds a lease that outlives its deadline and the store call after it; since
  nobody else moves an unexpired lease, a second request finds the consume leased.
  `OnlyCommitsExceedTheCap`: an insertion into a full table evicts a lease as long as there
  is one, so what is above the cap is committed; the induction counts rows. With it,
  `FullTableIsSafe` states all that the part *full* checks.

  `NoncesHoldOnKv`: the TypeScript gateway's nonces, on Durable Objects and KV side by
  side. `NonceInv` of `KvNonces` says of every request what it knows (`Knows`) and of every
  store that it holds its own nonces (`StoresHoldTheirOwn`); an accepted nonce is gone from
  the object, and from what its own region reads of KV (`AcceptedIsGone`).
* `RateLimiterProofs`. `SweepChangesNoVerdict`: while the keys fit (`Fits`, always so in
  `RateTable::check`), the swept and the unswept table count each key in the same *current*
  window; pruning and time preserve that. `TwoBudgetsAtMost` relates a key's window to the
  log of its admissions: the current window counts those since its start, and no earlier
  window had more than the budget, so any span of one window's length meets two windows.
  `FloodsLockNobodyOut` needs no room: every stored count is backed by admissions in the
  log, so a refusal was earned, and eviction keeps each table at its cap.
  `ShardsKeepTheirBudgets` is the same argument for `WorkerRates`, per region or in one
  shard; its sweep leaves no unswept window to compare with, so the window that keeps the
  log is said to exist.
* `GatewayProofs`, in either mode. `NonceLife` and `NonceIsSingleUse`. A nonce enters the
  table by one issue call (`OneIssuePerNonce`), which precedes everything else that happens
  to it (`IssueComesFirst`, `DrawnFirst`), and is gone once a request passed with it
  (`PassedIsGone`): a late issue cannot revive it. `PipelineIsGuarded` and
  `UpstreamOnlyIfAuthorised`: `UpstreamIsAuthorised` speaks only of the end of the
  pipeline, so `PipelineInv` says what a request has shown at each await before it
  (`Stage`). What it has shown is never withdrawn: passed nonces and chain answers
  only accumulate, and a gate that opens under a request in flight is noted in `sawOpen`.
  `RecordsAreKept`, `HandedOutNoncesWork` and `OnlySoundProofsBurn`: `RecordInv` keeps, for
  every nonce that was ever recorded, that the table agrees with the record and that it
  is gone only for a reason (`GoneForAReason`): a take with a sound proof, heard or not,
  or a table full of nonces at least as fresh. `NobodyIsAhead` is the three together.
* `OwnershipCacheProofs`. `AnswersHaveEvidence` and `GrantsAreRecent`. Evidence goes
  from the chain (`HeldNow`) to a page (`PageEvidence`) to the cache (`EntryEvidence`)
  and loses at most one call (`OnTime`) and one TTL on the way. `RefusalsHaveEvidence` is
  the harder half: a scan that found nothing must have seen every pass that has been
  there all along. `ScanEvidence` says that a usable pass of the wallet on a page already
  read came after the scan asked; pages are read in order, so the last page completes the
  evidence, and a scan stopped by the page limit or the deadline is an error. With and
  without a cache, at any cap.
* `EvidenceProofs`. `ChainDecides`: what is accepted is a consume that the chain shows, and
  what is refused was unknown to the node when the last attempt began, after all pauses.
  The work is in what a torn answer can still be read as: a prefix of frames, cut anywhere,
  is an error unless it holds the whole message, so a verdict is of `Sent(knew)` or
  `Sent(known)`. `FetchInv` adds that the attempts are paced (`Paced`). `PauseIsSeen`
  goes through every rendering of the gate's fields. `SignatureMeansItsSigner`:
  `SignerInv` says that everything signed passed the signer's checks; because nonces and
  digests are single words, the message determines its fields, so a signature that
  verifies was made for this gateway, nonce and consume.
* `StoreProofs`. `StoreBookkeeping`, `RefusalsAreContested` and
  `StoreImplementsPort`: for any callers, keys, caps and lifetimes, either backend
  implements the port `StateStore`. Each command is shown to do to the tables without
  their expired entries what one call of the port does, or nothing. The gap between
  `SET NX` and `GET` is the one place where that needs history: `StoreInv` keeps, for
  every caller between the two, that it saw the key held, so a refusal answers for a
  moment at which the consume was indeed contested. `RedemptionsSurviveRestarts` is the
  refinement to the port that forgets nothing, for every configuration accepted without
  `ALLOW_VOLATILE_REDEMPTIONS` and every one with Redis.

  `StoresStayRouted` (`ObjectsAreRouted` for the objects): nonces are stored where their
  own tags lead, and no presented nonce creates an instance. With that, `ObjectsAreThePort`
  (`DurableObjectsImplementPort`): the tables of all instances together are one table of
  nonces, an issue or a take in one instance changes one entry of it, and an instance
  without its columns only fails. Rows of the script before owner tokens are initial rows
  of the port that no caller owns.
* `ServerProofs`. `ServerLosesNothing`: permits and slots are counted against the
  connections that hold them; `ServerInv` adds that these sets are finite, which the
  counting needs. `ShedsOnlyWhenFull`, `GraceIsGiven` and both together (`ServerIsFair`)
  follow from it step by step. `ForwardIsHonest`: `ForwardInv` keeps the clocks of each
  phase (`Clocked`) and what was counted, read and sent in it (`Counted`), broken bodies
  included; a status is then read off the step that gives it. `DeploymentIsSafe`: `LockInv` keeps what the running
  deployment knows of its version and probe (`DeployKnows`) and what the counters of the
  lock check stand for (`LockCounts`).
* `EdgeProofs`. `SharesSafely` and `ContentIsFresh`: `EdgeInv` says that what may be shared
  (a cache entry, or a task that will write one) was made for nobody in particular, and how
  long its content may have been superseded: not yet when the fetch began, so at most a
  fetch's deadline when the task was made (`RequestsKeepTrack`, `TasksAreRecent`), and one
  task's delay more when it was written (`EntriesAreRecent`).

  `MessagesStayClean`: what was forwarded bears the gateway's `Via` entry
  (`ForwardedIsMarked`), whatever proxies append, so it is refused when it returns.
  `BudgetsAreOwn`: whatever is forged before it, the entry that the first proxy added is as
  far from the end as proxies were passed, and it is the client's (`ClientIsListed`); if every
  field a proxy wrote into can be read, it is as far from the end among the entries that count.

  `ConsumeIsSpentOnce` and `ServesWhatIsConfigured`: what serves, served before or redeemed
  was accepted (`ServesAccepted`), and the store remembers a consume for the retention of its
  last redeemer, counted from its timestamp, less the skew (`SpentIsRemembered`). A second
  redemption under that configuration is then within its maximum age and the lease delay, so
  the windows are that close. What acceptance promises is shown check by check:
  `normalized_origin` identifies the spellings of an endpoint with a plain port, a public path
  has no segment a server would resolve, each variable's parser refuses junk, and a required
  variable that is accepted is text.

  `GuardWarnsWhenDue`: the calendar goes from day to day, the code converts at once. The
  provers have no theory of division by constants of this size, so `Division` and
  `Quotient` characterise each quotient by its two inequalities. A year is split into its
  place in the cycles of 400, 100 and 4 years (`YearSplits`, `CycleDays`), which gives
  leap years (`LeapByCycle`) and the day number of every date; `CivilOfDays` shows that
  `civil_from_days` inverts `days_from_civil` for every date, and `DaySucceeds` that the
  day after a date has the next number. `QuotaInv` adds where the window began
  (`WindowIsPlans`) and that the outstanding query means it (`AsksForWindow`).

Every invariant and every safety action property of the passing runs is stated by one of
these theorems. Only model-checked are `FetchEnds`, `RedemptionsEnd` and `ProcessesEnd`,
which are liveness under fairness. `ProcessesEnd` also has the invariant `GivesUpLate`,
whose back-off is a power of two: its recursive definition is beyond the provers.

## 5. Not modelled

Out of the models: the arithmetic of the signature schemes and the byte encodings
(base64, BCS, varints), for which the models have symbolic signatures and records of
the fields that are read; TLS, DNS and HTTP itself; logging and wording; the tests'
hooks in the Worker; the TypeScript pipeline where it repeats the shared core, and its
KV rate counters, which are best effort by design; the shadow deployment and the
publishing workflows, which only call external services.
