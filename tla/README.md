# A TLA+ model of opencode-multi-agents

The repository is a gateway in Go. It offers an OpenAI-compatible API, forwards
each request to the provider through one of a pool of SOCKS5 proxies (WireGuard
containers of ProtonVPN accounts, or external proxies), replaces proxies that
are rate limited or fail, and optionally demands API keys that clients earn by
a proof of work. This directory holds TLA+ modules of its concurrent and
stateful parts, the TLC runs that check them on small instances, and TLAPS
proofs of their main safety properties for every value of the constants.
`PROJECT.json` is the index: which definition stands for which lines, which run
checks what, which mutant shows that a property can fail.

## 1. The system

| Component | State it keeps | Operations | What makes it correct |
|---|---|---|---|
| proxy pool (`internal/proxy/pool.go`) | `pool`, `ipBans`, `sticky`, `spawning`, the one-slot channel `available`, `done`, states of proxies | `GetProxy`, `ReleaseProxy`, `MarkRateLimited`, `MarkUnhealthy`, `ensurePoolCapacity`, `pruneDeadProxies`, `createProxy`, the health and cooldown loops, `ForceRotate`, `RefreshPool`, `SetPoolSize`, `AddExternalProxy`, `Close` | nobody waits beside an eligible proxy, no proxy stays busy without a user, no container is lost, the in-flight counter is exact, capacity comes back |
| retry loop (`internal/handler/handler.go`) | loop variables of one request | `handleChatCompletions`, `handleModels`, `handleModelRetrieve` | gives back every proxy, one at a time, bounded calls, an honest answer |
| proof-of-work keys (`internal/handler/pow.go`, `internal/pow/`) | three SQLite tables, the auth cache, buckets and windows, the difficulty | challenge, redeem, lookup, cleanup, limits, escalation | one key per challenge, a delivered key lasts, limits are kept, the difficulty follows what was measured |
| stream and tool rounds (`handler.go`, `internal/handler/tools.go`) | the chunks of a turn, withheld ones, the tokens of a request | `handleStreamResponse`, `handleNormalResponse`, the two round loops, `doRound` | nothing withheld is lost or reordered, only the gateway's own calls are kept back, bounded calls, all tokens counted |
| client caches (`internal/upstream/client.go`, `wsFor`) | two maps of HTTP clients by proxy id, an RWMutex and a Mutex | `Do`, `DoModels`, `getClient`, `wsFor` | one client per id, no race on a map, a client dials its proxy, locks are given back |
| managers (`composite_manager.go`, `docker.go`, `socks5_manager.go`) | owners of containers, external proxies | create, remove, probe | a container is removed by the manager that made it |
| ProtonVPN account (`internal/protonvpn/`) | session, server list, certificates and key in a store, `certMu` | `EnsureSession`, `FetchServerList`, `SelectServer`, `GetCertificate`, `GetOrCreateKeyPair` | a certificate belongs to the key it is used with, the best allowed server, recovery after a revoked session |
| configuration store, management API (`internal/config/store.go`, `internal/handler/manage.go`, `main.go`) | tables of accounts, proxies and settings; the live configuration | seeding, `buildManager`, CRUD handlers | accounts keep their own stores, rows keep what was answered, settings are live |
| metrics, web search, console, drivers | counters, text | | not stateful in a way others depend on |

How they interact. Request goroutines call the pool and block in `GetProxy` on
a channel shared by all waiters. A failure makes the request goroutine itself
mark the proxy, top the pool up and prune it. Goroutines of
`ensurePoolCapacity` call the manager outside the lock for up to minutes. Two
loops probe and restore proxies, and management calls rotate, resize and close
the pool at any time. The key service is called by the authentication
middleware in every request, and shares its mutex with challenge and redeem
handlers; its tables outlive the process, its cache does not.

What is hard: lock sections that use what an earlier section saw; coalesced
signals; counters that must be given back on each error path; times taken
before a lock; crashes between statements. The `hazards` of `PROJECT.json` list
them by line.

## 2. Modules

| Module | Models | Notes |
|---|---|---|
| `ProxyPool` | `pool.go`, with the acquire / mark / release protocol of the handlers and `doRound` | one action per lock section |
| `MCProxyPool` | | conversation assignments and symmetry |
| `ProxyPoolProofs` | | types, the in-flight counter, containers, hand-out, wake-up |
| `RequestRetry` | the loops of `handler.go` | pool and provider are the environment |
| `MCRequestRetry`, `RequestRetryProofs` | | |
| `PowClock` | | the clock of the three modules below |
| `KeyExchange` | | the abstract specification of the key service |
| `PowKeys` | challenges, redemption, keys and cache | one action per SQL statement or lock section, implements `KeyExchange` |
| `MCPowKeys` | | |
| `KeyLimits` | `checkKeyLimits` and the verdict of the middleware | one key |
| `PowQuota` | the quota half of `handleChallenge`, `difficulty.go` | one address |
| `PowProofs` | | about `PowKeys`, `PowQuota` and `KeyLimits` |
| `Containers` | `docker.go`, `composite_manager.go`, the construction of the managers in `main.go` | one action per call of the Docker daemon, restarts included |
| `MCContainers`, `ContainersProofs` | | |
| `Memo` | | the abstract specification of a cache of clients |
| `ClientCache` | `getClient`, `wsFor` | one action per lock operation, implements `Memo` twice |
| `MCClientCache`, `ClientCacheProofs` | | |
| `ToolRounds` | the stream parser and relay, the round loops | one action per line of the stream or call |
| `ToolRoundsProofs` | | |
| `VpnAccount`, `MCVpnAccount` | `protonvpn/client.go` with its store, as `CreateEx` uses them | one action per statement or API call |
| `VpnAccountProofs` | | |
| `Management`, `MCManagement` | the configuration store, seeding, `buildManager`, the handlers of `manage.go` | one action per statement or call, restarts included |
| `ManagementProofs` | | |

### ProxyPool

The map `pm.pool` with the states of its proxies is `state`, where `"out"`
means no entry. `boxes`, `doomed` and `leaked` are the containers that run, whose removal has been called, and whose removal failed.
`available` is the token in the one-slot channel. A step
is a section of `pm.mu`; a removal of a container is a step of its own (`Erase`),
because others act between the deletion of the entry and the end of the
container. Each goroutine has a `pc`:

* requests: `Acquire` (sticky lookup), `Seek` (candidates under the lock),
  `Wake` / `GiveUp` (the select), then `Answer`, `MarkRateLimited`,
  `MarkUnhealthy`, `Swap` (acquire, then release the old proxy)
  and `Release`. When a round of searches fails (`ToolRound`), `doRound` asks
  the pool for a proxy beside the request's own, and may wait for it like any
  other caller of `GetProxy` (`RoundSeek`, `RoundWake`, `RoundGivesUp`); the history
  variable `strays` has the proxies it took, which are never released;
* whoever calls `ensurePoolCapacity` continues with `Ensure`, `Prune` and
  `RemoveProxy`, one dead proxy at a time, as the code does;
* creators: `Create` / `CreateFails` (an attempt), `Keep` or `Rotate` (the
  unique-address loop), `Announce` (insert done, signal), `SpawnDone`;
* `HealthTick`, `Drifts` (a health check rewrites the address of a proxy without
  the lock), `CheckOne` (the lock section that applies a probe), `Restore`,
  `BanExpires`; and the management calls.

Time is abstract: a ban, a cooldown or a context may end at any moment. The
round-robin cursor is a free choice among the candidates. Region bans and used
servers only advise the manager and are left out. Failures come from `Faults`
and are counted by `faults` up to `MaxFaults`.

### RequestRetry

The state is the local variables of the handler (`attempt`, `proxy`, `ownProxy`,
`rateLimited`, `freshDeadline`, `lastUpstream`), what it left of each proxy
(`mark`), and the answer. A step is one pool call or provider call
with the code up to the next one. A nil dereference is the state `"crashed"`:
`net/http` recovers the goroutine and the client gets no response. That panic
may leave the lock of the client cache held, which has no deadline: a later
call may then wait for ever (`CallBlocks`, the state `"blocked"`), with its proxy busy.
For that reason nothing is claimed about the end of a request; `CallsReturn` of
`ClientCache` says when calls do return.

### PowKeys and KeyExchange

`row`, `bind`, `minted` are the challenge table, `stored`, `created` the key
table, `bonus`, `bonusAt` the bonus table; `keyCache` is the auth cache.
`handleRedeem` is `Load` (every check on the row as it was read), `ConsumeChallenge`,
`BumpIPBonus`, `InsertAPIKey`, `Deliver`; statements may fail. `LookupKey` on a
miss is `GetAPIKey` and `CacheFetched`. `CleanupExpired` runs at any time, and
`Restart` may come between any two steps: tables stay, cache and handlers go.
The clock counts the seconds that are stored. Hashes and `Verify` are external:
whether a client solved its challenge is a free choice.

`KeyExchange` is what a client may rely on, without tables, caches or handlers:
an offered challenge is exchanged for one key at one instant, or withdrawn; a
key is accepted from that instant until its time is over, and no key that was not
exchanged is ever accepted. It leaves open what happens to a key whose time is over, as the
auth cache does not check it. `Service` is its instance: a challenge is open while
its row is fresh or a handler that consumed it has not yet drawn the key
(`Holders`), a key is accepted if `LookupKey` says so, and the exchange happens
when `InsertAPIKey` writes the row, not when the challenge is consumed and not when
the client has its answer. A failing insertion, a cleanup or a restart
withdraws.

### KeyLimits and PowQuota

The variables have names of their own, so that one proof module can extend all
three modules of the key service; `QuotaSpec` and `LimitSpec` are the specifications.
Both handlers read the clock before they lock, so their sections may run with
times that are behind the clock and out of order. `KeyLimits` lets each call
use any time of the last `Lag` ticks. `checkKeyLimits` compares this time
with the end of a cooldown but returns what is left by the clock, and the middleware
blocks only if that is positive: a call that outlasts the cooldown in the
queue for the lock goes through and neither window nor bucket counts it (`Slip`,
remembered in `slipped`). `BurstBound` and `RpmBound` are about counted requests, and `BurstBound`
says of the others that they come only after the cooldown has been served. `PowQuota` has a step between the two. `ValveOn` is whether a rate per
address is configured.
Tokens are counted in units in which the refill of a tick is a whole number.
The moving average is exact: the fraction `ewma` / `scale`. `RecentUpTo` is the loop
that drops old times from the burst window. In `KeyLimits` the
assumption `BurstCooldown >= Second` is the configuration's (default minutes):
a shorter cooldown would forget the burst, since a trip clears the window.
`Escalated` is not modelled because only a test calls it.

### Containers

What `ProxyPool` calls its manager, in detail. The daemon (`box`, `port`,
`maker`) outlives the gateway. `Build` is `NewDockerManager` of one account
with `cleanupOrphans`; the pool serves when all are built. A `CreateEx` takes a
port (`Pick`), creates, starts and waits, each a call that may fail;
`Discard` is the removal on its error paths, which fails too when the context
has ended. `Pick` moves the round-robin counter and takes the port in one step:
the two atomic counters are only ever incremented, and between them the code reads
neither, so a creator in between could be put before or after. `GetOwner`
keeps the kind of the id it is given, since owners are entered by proxy id (a
prefix of the container id) and the pool removes by container id. With an external proxy
configured `CreateEx` never reaches a VPN account, so accounts are modelled
without them. `Stop` is any end of the process; `stale` and `lost` are history
variables that say why a container is still there.

### ClientCache and Memo

`pc` follows a request through `getClient`: `RLock`, a look at the map
(`LookHit`, `LookMiss`, or `LookNil` for the nil proxy the retry loop may
pass), `Build` outside any lock, `Announce` and `Lock`, `Check`, `Store`, `Unlock`. Go's
RWMutex is modelled with its rule that a waiting writer stops new readers. A
request that panics in `LookNil` stays `"dead"` with the read lock, as the code has no deferred
unlock there. `wsFor` is the same cache under a plain mutex that
is unlocked on both of its paths. `AddExternalProxy` puts another address under an id that is
in use; `past` remembers the addresses of an id.

`Memo` is what callers may rely on: a call takes effect at one instant, gets
the client of its key or makes it, and no entry is ever replaced. `Http` and
`Search` are its two instances; the memo is the map and a result appears when
`Check`, `Store` or `LookHit` is done.

### ToolRounds

One request on its own, with the provider, the client and the pool as its
environment. `heard` is what the provider has sent in this turn, `sent` what
has reached the client, `buffered` what is withheld. `Blank`, `Withhold`, `Relay`,
`Done` and `Intercept` are the branches of the line loop of `handleStreamResponse`; `End` is the end of
the connection, orderly, broken or within a line. A call is assembled from
fragments by index (`accs`). `Exec` runs the searches, `RoundAnswers`,
`RoundFails`, `FreshFound` and `FreshFails` are `doRound` with its two further proxies, and `Body` and
`BodyBreaks` are the answers without a stream. A chunk is the set of its parts (text,
fragments of calls, `finish_reason`, usage), which may come together: `Parses` takes calls and usage
from every chunk, and a chunk with a fragment or the finish is withheld as a whole. A line is known by its parts and
place, JSON is left out. Blocking in `doRound` on the pool is the pool's matter
(`RoundSeek` and `RoundWake` of `ProxyPool`).

### VpnAccount

A creator selects a server, gets a certificate under `certMu`, and reads the
key again without it. `EnsureSession` is `Ensure`, `Validate`, `Import`,
`Recheck`, `Login`, `SaveSession`; the API may revoke a session that
looks valid locally, and the next fetch of the list deletes it. On a conflict
(the key is already used elsewhere) `Conflict` and `Regenerate` give the key up and store a new one.
`CertAges`, `ListExpires` and `Lapse` are time. Every statement and call may
fail, and `Restart` may come between any two. A read that fails does not end a creation: the code takes
a list, session, certificate or key that it cannot read for one that is not
there, fetches, logs in, renews (`CertUnread`) or makes a new key over the old one (`KeyNew`). `spoilt` and
`disturbed` remember where this parted a certificate from its key. The credentials are right.
`SelectServer` is a function of the list and of what the pool asks to
leave out or avoid, its loop a recursive function (`BestUpTo`), compared in `SelectsBest` with a definition without passes.

### Management

The tables, the stores of the accounts (`holder`: whose session is in the store of each
place) and the live value of a setting. `LoadedUpTo` is `buildManager`'s loop over the rows. A start is `Seed` or `SeedNot`, `Load`, one `Build` per
account and `Serve`; `Exit` may come at any time, and each `Start` reads a `.env` that
may have been edited (`env`, one of `Envs`). Handlers are cut where
another request can come between: reading and writing an account, entering a
proxy, its probe and the removal of its row, storing and applying a setting.
`fate` and `gone` remember what was answered for each row, by its id. A seed enters
the accounts and proxies of `.env` as new rows, also when the
table is empty because all of them were deleted. The rows' passwords, cookies
and `store_path` (which nobody reads) are left out.

## 3. Runs

| Run | Properties | Instance and why it is enough |
|---|---|---|
| `PoolHandout` | `NoStuckActive`, `NoLostWakeup` | two requests of one conversation, a pool of one, two containers and an external proxy that is added again, a transport failure, rate limit or tool round, cooldown loop: two requests share a pinned proxy, wait for each other, free what the other uses and wait for a proxy of a round |
| `PoolContainers` | `SpawnCount`, `InFlightBound`, `NoOrphan`, `NoGhostEntry` | three creators, sizes 1 and 2, one address so that duplicates and drift happen, two rotations, a failing creation or removal, forced rotation and shutdown |
| `PoolRecovers` | `Replenishes` | one request, one replacement, any one fault of five kinds, both loops, fairness |
| `Retry` | `NoLeak`, `OneAtATime`, `CallBound`, `CrashExplained` | all three handlers, four retries, three proxies: every pair of failures follows every other |
| `PowKeys` | `DeliveredLasts`, `PenaltyPaid`, `Exchanges` | two clients, two challenges, two redeemers, a failing statement, four seconds in which challenges and keys expire |
| `KeyLimits` | `BurstBound`, `RpmBound`, `PoliteIsServed` | a second of two ticks, a minute of twelve, two requests a second, three a minute, calls late by a tick: a whole minute passes, with cooldowns that end while calls wait |
| `PowQuota` | `RateBound`, `FloodRaises`, `BaseFollows` | two handlers, a flood at three requests, a day that ends within the run, fast, good and slow solvers |
| `Containers` | `Accounted`, `Reaped`, `HeldRuns`, `OwnerRight` | one or two accounts, two creators, three containers, two failing calls, any number of restarts: orphans of two processes, cleanups of two managers and two creations meet |
| `ClientCache` | `NoMapRace`, `DialsItsProxy`, `Memos`, `CallsReturn` | three requests, two ids, three addresses, one of them of an external proxy that is replaced: a reader, a builder that lost and a writer that waits meet, also with a dead reader |
| `ToolRounds` | `Transcript`, `OnlySearchesKept`, `Answered`, `CallBound`, `UsageBilled` | two rounds, four data lines a turn of six shapes, two of them mixed (a fragment with text, the finish with the usage): two fragments, two calls, the finish and something else before it or after it, broken off anywhere; the theorems are for every set of shapes |
| `VpnAccount` | `FreshMatches`, `KeyMatches`, `SelectsBest`, `Recovers` | two creators, three faults of any kind (failed reads and calls, revocations, conflicts, restarts, ageings): a certificate comes due, its key conflicts and the gateway stops; a list with ties, a server that is down, a banned country, servers to avoid, all of them to avoid, and every country banned |
| `Management` | `StoreIsolated`, `RowsFollow`, `LiveFollows` | two versions of `.env` with one and two accounts, three names, two addresses, two handlers, three requests, two failures or restarts: accounts are added before and after a restart, all are deleted before a seed, and every two requests overlap |

`TypeOK` of each module (`QuotaTypeOK` and `LimitTypeOK` in the two with names of
their own) documents its types; it is proved for every module and is not repeated in the runs.

`CHECK_DEADLOCK FALSE` is used where the system may stop: a pool that was
closed, a request that has ended, a clock at its bound. Each property of a
passing run has a mutant in `PROJECT.json`: a plausible bug in one mapped
definition (stated beside it as "Mutant") under which TLC finds the property
violated.

Fairness. `PoolRecovers` assumes that goroutines that can run do run (weak
fairness of each goroutine's steps; every call they make has a context with a
deadline or a bounded number of attempts), that tickers tick and bans lapse, and that a
creation which is possible again and again succeeds at last (strong fairness of
`Create`: without it a manager that always fails starves the pool, which no
code can prevent). Its requests get no fairness for their calls of the provider: that one
may hang for ever is what `RequestRetry` calls blocked. `ClientCache` assumes that
a goroutine which holds or can get a lock goes on (weak fairness of its steps). `VpnAccount`
assumes that creators go on, that the pool does not ban every country for ever
(strong fairness of `Unbanned`) and that a cached list expires; failures are bounded by `MaxFaults`, so
`Recovers` speaks of the time after the last one.

### Known disagreements

The modules also state claims quoted from comments and docs that the code does
not keep. None is in `PROJECT.json`, whose runs all pass; TLC refutes each when
it is the only property of a configuration (named where one is kept here):

| Definition | Claim | What happens |
|---|---|---|
| `BlocksOnlyIfNone` | `pool.go:320` "blocking if none available" | a lapsing ban signals nobody; a waiter sleeps beside the proxy until the next signal |
| `NeverShrinks` | `pool.go:488` | with no excess every dead proxy is removed at once |
| `NeverGrowsPast` | `pool.go:426` | a dead proxy recovers while its replacement is made |
| `AllReleased` | `docs/architecture.md:60` "proxy released back to Idle" | `doRound` never releases the proxies it took, the exception of `NoStuckActive` (`PoolToolRound.cfg`) |
| `Converges` | `docs/business-logic.md:97` | drift, recovery and a stale removal can alternate for ever |
| `FreshIsTried` | `docs/business-logic.md:46` | finding a fresh proxy uses up the last attempt |
| `RelaysTheLast` | `handler.go:1068` | `lastUpstream` is never cleared |
| `PruneOnlyDead` | `pool.go:475` | a proxy that recovers between the list of the dead and their removal is removed, even in use (`PoolStalePrune.cfg`) |
| `HonestExhaustion` | `docs/business-logic.md:54` | `rateLimited` is cleared before the loop is left for want of a fresh proxy: 502 where 429 is due (`RetryExhausted.cfg`) |
| `NoNameConflict` | `docker.go:116` "to avoid name conflicts" | two accounts count ports from the same base and want the same name (`ContainersNames.cfg`) |
| `NoneSlips` | `pow.go:410` "retryAfter > 0 means blocked" | a call that outlasts a cooldown in the queue for the lock gets a remaining time of zero or less with the code `key_cooldown`, and the middleware lets it through uncounted (`KeySlip.cfg`) |
| `HintHonest` | `handler.go:239` "retry after" | the deficit is divided by a rate per minute: 60 times too short (`KeyHint.cfg`) |
| `FailsFast` | `handler.go:1004` "will fail fast" | after a transport failure without a replacement `proxy` is nil and the next attempt dereferences it (`RetryCrash.cfg`); the panic leaves the read lock of the client cache held, which is the exception of `CallsReturn` |
| `ExpiredRejected` | `pow.go:103` | a cached key is accepted after its expiry, until a restart (`PowExpiry.cfg`) |
| `EscalationEnds` | `difficulty.go:125` | the bits of an escalation stay after its window; only `Escalated` removes them and only a test calls it (`PowEscalation.cfg`) |
| `RemoveReaches` | `composite_manager.go:15` | with several accounts `Remove` looks the owner up by the container id, finds none, and the container runs on until the next start (`ContainersRemove.cfg`) |
| `Verbatim` | `handler.go:1126` "flushed to the client verbatim" | the empty lines between withheld chunks overtake them, so the client reads the chunks as one event (`ToolVerbatim.cfg`) |
| `InterceptedHidden` | `tools.go:240` "never reach it" | a usage chunk before `[DONE]` flushes the withheld calls, and the turn is intercepted all the same (`ToolHidden.cfg`) |
| `TextRelayed` | `handler.go:1265` "a faithful transcript of mixed turns" | a chunk that carries text or usage together with a fragment of a search or the finish is withheld as a whole and dropped when the turn is intercepted |
| `DialsAlways` | `client.go:181`, `tools.go:127` | caches are never evicted: an external proxy under a reused id is dialled at its old address |
| `DialsSelected` | `docker.go:271` and `docker.go:300` | the endpoint is the peer of the stored certificate, not the server just selected (`VpnDials.cfg`) |
| `KeyMatchesAlways` | `docker.go:283` "Derive WireGuard X25519 keypair from Ed25519 certificate key" | the key is read again after `certMu` is released: another creator's conflict or failed read in between, or a fresh certificate that once could not be read, gives a container a key that is not its certificate's |
| `WithinRegions` (`RegionsKept`) | `docs/protonvpn-integration.md:50` "region must be within PROTONVPN_REGIONS", `.env.example:93` | `CreateEx` always asks for the region "", so any country is selected; only bans leave countries out |
| `SeedsOnce` | `docs/business-logic.md:119` "one-time migration — subsequent restarts ignore `.env`" | a start that finds the accounts table empty seeds again: accounts and proxies of `.env` that were deleted come back as new rows, settings fall back (`ManageSeed.cfg`) |
| `StoreIsolatedAlways` | `main.go:191` "Isolate store per account" | deleting, disabling or renaming an account, or adding one to `.env`, moves others to stores that hold a foreign session (`ManageStores.cfg`) |
| `SettingsSurvive` | `docs/core-features.md:188` "survive restarts" | no start reads the stored settings (`ManageSettings.cfg`) |

Read in the code while modelling, and part of the models without a definition
of their own: a stream whose last allowed round asks for a search again ends
without `[DONE]` or error (`handler.go:1121`, the exception of `Answered`); the
synthesized usage chunk (`handler.go:1118`) is never sent, since the tokens its
condition asks for are only set by a usage chunk; a client's own tool named `web_search` is intercepted
(`tools.go:67`); cached tokens are not added up over rounds
(`tools.go:266` against `docs/business-logic.md:69`), so `UsageBilled` speaks of the others; two settings
updates at a time may leave the live value different from the stored one (the
exception of `LiveFollows`); an account of `.env` that was deleted or disabled
is used again after a restart (`main.go:136` against `docs/business-logic.md:119`);
a fresh certificate whose key was deleted while it could not be read keeps
creations from their key pair until its refresh time (`KeyLost`, the exception of `Recovers`);
a pinned proxy is freed by the first of two requests that use it.

## 4. Proofs

All for any number of proxies, goroutines, challenges, keys, accounts, rows and
lines, under the named assumptions of the modules (finiteness, naturals,
distinct ids). Every safety property that a run checks is a theorem, and so
are the action property `BaseFollows` and the refinements of `Memo` and
`KeyExchange`. Each inductive invariant was checked by TLC, on
the instance of the run or a smaller one, before it was proved.

Loops of the code are recursive functions in the models. That such a function is
what its definition says, and what it computes, is proved by the least
counterexample (`LeastNumber`, from the well-foundedness of the naturals),
since the induction rules of the library cannot be instantiated:
`SelectServer`'s best candidate, `buildManager`'s list of accounts and the burst
window of a key are proved for lists of any length in this way.

* `ProxyPoolProofs`. `TypeCorrect` by `TypeInv`, which adds to `TypeOK` that a
  goroutine in the middle of a step has a proxy in its hand. `SpawnCountHolds` and
  `InFlightBounded` by `SpawnInv`: the counter equals the number of spawners
  and some configured size bounds it. `Ensure` is where the argument lies: it
  launches at most the deficit that is left, so the bound is kept; each
  exit of a creator goes through `SpawnDone`.
  `NoOrphanHolds` and `NoGhostEntryHolds` by `BoxInv`: what a
  creator has in its hand is running, not in the pool, not doomed, and
  in no other hand. `NoStuckActiveHolds` adds which
  request uses an active proxy (`Using`), and that those without one are `strays`. `NoLostWakeupHolds` needs only the roles of the
  goroutines: each action that makes a proxy eligible leaves a token, and who takes
  the token will signal again.
* `RequestRetryProofs`. `NoLeakHolds`, `OneAtATimeHolds`, `CallBoundHolds` by `Inv`:
  the only proxy that is busy is the one the handler will give back, and the
  calls made are at most the attempts begun. `CrashExplainedHolds` by `NilOK`: in the loop
  the proxy is nil only if a wait is due or a replacement failed. It says when the
  crash of `FailsFast` happens. A blocked request is not over: `NoLeak` says nothing of it.
* `PowProofs`, keys. `TypeCorrect`, `OneKeyPerChallengeHolds`, `DeliveredLastsHolds` by `Inv`:
  a handler between the consume and the insertion is the only one there with its
  challenge, which is spent and has no key; a key that was sent, or is about to
  be, has a row or has expired. `OneKeyPerChallenge` is the readable part of what `Exchanges` says
  and has no run of its own. `PenaltyPaidHolds` by `PaidOK`, which counts: the
  keys of a client and its redemptions between bump and insertion are no more than the bonus
  bits and the bumps that were not written, unless the bonus is at its cap; and
  those that began after the last bump that was written were missed.
* `PowProofs`, the exchange. `ExchangesHolds`: `PowKeys` implements `KeyExchange`. Besides `Inv` it needs
  `KnownOK`: rows, cache and lookups know only issued keys, and an issued key whose
  time is not over has its row. From that alone a step which issues no key changes
  the acceptance of none but keys whose time is over (`Upholds`), whatever it does to the caches; what is
  left is the standing of the challenges, action by action. `Mint` maps to `Offer`, a
  successful `InsertAPIKey` to `Exchange`, every other step to `Upkeep`. That the
  handler is alone with its challenge (`OwnsOK`) is why its insertion
  closes it.
* `PowProofs`, quotas. `RateBoundHolds` by `BucketOK`: tokens and issued challenges
  together are at most a full bucket and the refill up to the bucket's own
  clock, and when an old time turned that clock back, the debt is one that the real
  time pays. `FloodRaisesHolds` by `FloodOK`. `BaseFollowsHolds` by
  `AverageOK`: the average lies between the smallest and the largest sample since the base moved,
  so an average beyond a target has a sample beyond it.
* `PowProofs`, limits of a key. `RpmBoundHolds` and `PoliteIsServedHolds` by `RateInv`: `PaidFor`
  is the account of the bucket since each admission, `DebtOK` bounds the debt of
  late calls by their lateness. `BurstBoundHolds` by `BurstInv`: for every time in
  the last second, no more admissions are after it (less `Lag`) than entries of
  the window; while a cooldown is recorded every admission is older than
  its trip, and with `BurstCooldown >= Second` none of them counts when it ends. `Sieved`
  is the lemma about the loop: it keeps the number of entries after any later time.
  `SlipInv` adds that who slips through does so at the end of a cooldown, hence a
  cooldown after what was counted before. `LimitTypeCorrect` uses the first two.
* `ContainersProofs`. `TypeCorrect`, `AccountedAlways`, `HeldRunsAlways` and
  `ReapedAlways` by `Inv`. `HandsOK` says that a container in the hands of a
  `CreateEx` is in the state it has come to, in no other hands and nobody
  else's; `BuildOK` says that nothing is created or held before all managers
  are built, which is why no cleanup meets a container in use. `OwnerRightAlways`
  adds `OwnedOK`: what a `CreateEx` has in its hands was made for the account it
  took its port from.
* `ClientCacheProofs`. `Types`, `MapRaceFree`, `DialsRight`, and `Implements`: the
  specification implies both instances of `Memo`'s. `Inv` has `Held` (a request past its start has its proxy),
  `Locked` (a writer excludes readers and writers; a dead reader keeps the
  writer out for ever), `Unbuilt` (who is about to store found no entry, and
  there still is none, by the lock) and `Pending` (no result before the call has
  taken effect). `Implements` maps `Check`, `Store`, `LookHit` and their `wsFor`
  counterparts to `Get`, acquiring a proxy to `Ask`, and every other step to a stutter.
  `DialsRight` adds `Provenance`: every entry dials an address its id has had.

* `VpnAccountProofs`. `SelectsBestHolds`: after any number of places the loop
  holds the first of the best candidates so far (`BestLeads`), and the two passes
  of `SelectServer` give what `SelectsBest` says without passes. `FreshMatchesHolds`
  and `KeyMatchesHolds` by `Keys`: certificates age in their order, so that only the last of those
  that have not expired counts, and unless the store is spoilt it is, when fresh, for the
  stored key; who holds `certMu` past its look at the store found none fresh and none
  appears, or the store is spoilt; a certificate is requested for the stored key, which only the
  holder of `certMu` replaces.
* `ManagementProofs`. `RowsFollowHolds` by `Rows`, `RowsStay` and `IdsOK`: a row that is being probed is
  in one handler's hands, ids are never given twice, and a seed begins with no account, so that
  every account before it was deleted. `LiveFollowsHolds` by `Live` and
  `Starting`: whoever is about to apply a setting has the one that is stored, unless two updates
  overlapped. `StoreIsolatedHolds` by `Stores`: as long as accounts are only
  added and `.env` keeps its own, the list a start would load only grows at its end, so each place
  belongs to one account for good, across restarts.
* `ToolRoundsProofs`. All five properties by `Inv`: what the client has and what is withheld are,
  in this order, the chunks of the turn (`Relayed`, and `Complete` at its end); the
  assembled calls say which lines were heard (`Accumulated`); `Calls` counts the
  provider's calls by where the request is in `doRound`; a turn that has not begun
  has left nothing behind (`Unheard`).

Model-checked only: `Replenishes`, `CallsReturn` and `Recovers`, since liveness is out
of the prover's reach. The theorems about tool rounds and about the active proxies of the pool
have the exceptions that the properties themselves name.

## 5. Not modelled

The Docker daemon (but for containers and their names), the SRP handshake, the
SOCKS5 handshake, hashing, SQLite itself, metrics and pricing, web search providers,
the console, the logger and the opencode drivers: byte I/O, cryptography, arithmetic on one row or
text, with no state that two actors share. Parsing of the environment and of
requests. `SOCKS5` health checks: the external manager's creation never fails, so with an
external proxy configured the composite manager never asks a VPN account. Data races
inside a lock section (`ipBannedLocked` deleting under a read lock, fields of
the live configuration read while a handler writes them) are below the
granularity of the models. Floating point is exact: in the code a bucket that lacks less than
60 ns of a token yields a wait of zero, which counts as none. Overflow does not occur at
the sizes that are configured.

## 6. Plan

1. Done: `ProxyPool`, `RequestRetry`, `PowKeys`, `KeyLimits`, `PowQuota`,
   `Containers`, `ClientCache` with its refinement of `Memo`, `ToolRounds`,
   `VpnAccount`, `Management`.
2. Done: a theorem for every safety property of a run.
3. Done: types of all modules, `KeyExchange` and its implementation by `PowKeys`.
4. Left: an abstract specification of a chat turn for `ToolRounds`, and one of the
   leases the pool gives, which would need the disagreements above to be settled
   first (a pinned proxy is shared, a tool round never releases).
