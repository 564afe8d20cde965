# A TLA+ verification project for the HITL Hub

The HITL Hub stores requests for human confirmation ("human in the loop") in PostgreSQL, shows them
to their owner as Nostr inbox items, and lets the owner, or an operator, approve or reject them. It is
one asyncio process. The modules here model it at the grain at which its coroutines can interleave:
one action per database statement or network round trip.

All source paths are relative to `src/nodus_hitl_hub/` of the repository unless they start with
`docs/`, `k8s/` or `tests/`.

## Inventory

| Part | State it keeps | Operations | Hard behaviour | What makes it correct |
|---|---|---|---|---|
| Table and statements (`core/repository.py`, `db/migrations`) | `nostr_hitl` rows | insert, lookups by id, key and reference, `set_reference`, `update_status`, `expire_stale`, `list_pending` | every statement is its own transaction; `update_status` has no guard on the status | one row per key; settled rows stay settled |
| Request engine, `request()` (`core/engine.py`) | one coroutine per call | validate, dedupe, persist, publish, record the reference, hooks, notify | lookup and insert are two statements; the row is visible before the call ends; publication may fail | retries with one key get one id; the inbox and the table agree |
| Request engine, `approve()`/`reject()` | one coroutine per attempt | read, check, merge, write, hooks | check and write are two statements; races with other attempts, the expiry task and `request()` | late attempts are refused; payload and side effects match the decision |
| Request engine, `wait()`, `check()`, `get_inbox()` | a poll loop | read the row until it is settled or time is up | deadline against poll interval; LIMIT 100 | a wait ends, and ends with what the row says |
| Nostr bridge (`core/nostr_bridge.py`) | relay client, listener task | publish kind:10020, subscribe to kind:10021, handle an answer | replaceable events; subscriptions start "now", so answers in a gap are lost; answers before the reference is stored | only the owner decides; no item replaces another |
| Lifecycle and hooks (`core/lifecycle.py`, `plugins/hooks`) | audit log, Memorium's view | created/approved/rejected/expired callbacks, the expiry loop | a hook's failure is swallowed; the POST to Memorium is not retried; expiry bypasses the hooks | side effects follow exactly the writes |
| Bootstrap (`bootstrap.py`, `db/queries.py`) | engine, pool, lock | `get_engine`, `get_notify_engine`, migrations | first use from many coroutines; failed, cancelled or half-migrated start; start without relay | one engine per process, on a complete schema |
| Validators, plugin discovery (`core/validator.py`, `plugins/validators`) | plugin list | select, validate | one failing import drops the later plugins | specific validators win over the fallback |
| Dispatcher (`core/dispatcher.py`, `plugins/notifications`) | plugin list | notify all | one plugin may raise; the two that ship only log | every loaded plugin sees every event |
| Notify engine (`core/notify_engine.py`, `core/notify_repository.py`, `core/channels.py`) | preferences, notification log | route, send, log, acknowledge, history | log after send; explicit channels; quiet hours across midnight | a disabled or quiet channel is not used; the log tells what was tried |
| MCP and REST surface (`mcp/`, `server.py`) | none | one engine call per tool or route | bearer token, malformed bodies, an exception after the commit | the status code tells what was stored |

The parts meet in three places: the table (requests, attempts, the expiry task and waiters all read
and write the same row with no lock), the relay (a request publishes, an owner answers, the listener
calls the engine), and the process (a crash ends every coroutine and the subscription, and leaves the
table and the relay).

## Modules

```
HitlTable ── Lifecycle ───┬── RequestFlow ─────┐
         └── NostrBridge ─┴── ResolutionFlow ──┴── HitlHub ─┬─ MCHitlHub
                                                            ├─ HubRefinement (Registry, Confirmation)
                                                            ├─ Watch ── MCWatch
                                                            ├─ Rest ─── MCRest
                                                            ├─ Inbox ── MCInbox
                                                            └─ HubInvariant and the proofs
Notify (Delivery) ── MCNotify      Bootstrap (Singleton)      Plugins ── MCPlugins
Proofs: HitlHub_proofs ─┬─ HubEffects_proofs ─┬─ Readers_proofs (Watch, Inbox)
                        └─ HubRefinement_proofs ── Rest_proofs (also on HubEffects_proofs)
        Notify_proofs, Bootstrap_proofs, Plugins_proofs
```

* **HitlTable**: the rows and each SQL statement as an operator; the clock and the budget of
  failures. Every call of `request()` draws a fresh uuid, so a call, its `event_id` and the Nostr id
  of the one item it may publish are one name. Of the payload only two things are kept: whether the
  request brought details (an empty JSON object is falsy and is not written) and what a resolution
  merged into it.
* **Lifecycle**: the hooks' two effects (the audit line, the call of Memorium) and the pass of the
  expiry task. The cache hook has no Redis client in this code and does nothing. `MEMORIUM_URL` is
  taken as set here; leaving it unset has the effect of the first case of `PostFails` (Plugins has both).
* **NostrBridge**: process up, connected, subscribed; the relay with its replaceable events (external,
  from the comment in `publish_request`). A bridge that is configured off and one whose `start()`
  failed behave alike for a request (`dbonly`).
* **RequestFlow**: `request()`, with `pc` naming the await where a coroutine is: `lookup`, `owner`,
  `insert`, `publish`, `setref`, `notify`. A step is the effect of the round trip and the code up to
  the next await. `duplicate` is the unique violation that `request()` lets through, `raised` any other
  database error, `lost` a process that died. Statements may fail before or after they commit.
* **ResolutionFlow**: an attempt (`Decisions`) comes by the direct route (`POST .../resolve`) or as a
  kind:10021 event, and passes `get`, `update`, `hooks`, `post`. `unknown`, `ignored` and `refused` are
  the early returns, `missed` is an answer no subscription got. The Nostr SDK's order of handler calls
  is not assumed: two handlers may overlap, which covers a serial one.
* **HitlHub**: both flows over one table, with the clock, the expiry task, the listener, starts and
  crashes; all properties.
* **MCHitlHub**: the sets of calls and attempts for TLC.
* **Notify**: `NotifyEngine.send()` and `ack()` for one user, on tables of their own; it shares no
  state with the hub's requests. `pc` is `prefs` (await of `get_preferences`), `channels` (the loop and,
  once it is empty, the await of `insert_log`). A turn of the loop is one of `Skip`, `LogOnly`,
  `NoAdapter` and `Deliver`. The preferences query has no ORDER BY, so the loop takes its channels in
  any order; an explicit list is a set, so the order of its names is any too and a name listed twice is
  not told from one listed once. `channels_failed` is `attempted` without `succeeded`. What the user
  prefers may change at any time, and the hour passes; a send keeps what it read.
* **Delivery**: what `send()` and `ack()` promise, with no preferences, clock or loop: the channels of
  a notification are settled at one moment, each is tried and no other, then there is a row, which is
  acknowledged once. `wanted`, the channels that a decision taken now would give, is an input that
  changes freely. Notify maps to it at its end: `pending` is what the loop has not come to and will not
  leave out, so a turn that skips a channel is a stutter.
* **MCNotify**, **Notify_proofs**: its instances and proofs.
* **Registry** and **Confirmation**: what the hub promises, with no coroutine, table or relay. In
  Registry a key gets at most one id, in one step, and a call is told the id of its key, fails or is
  never answered. In Confirmation a request is settled by its deadline or by an attempt let in while it
  was pending, once per attempt, with the verdict it was let in with; two attempts let in together may
  overwrite each other. **HubRefinement** maps HitlHub to both: a call is registered when its row is
  there, an attempt is let in by the read that found its row pending and decides with its UPDATE.
* **Watch**: `wait()` and `check()` beside the steps of HitlHub, under which the MCP tools
  `hitl_wait_for_confirmation` and `hitl_check_status` and `GET /hitl/requests/{id}` are one call each.
  `wpc` is `read` (await of `get`) or `sleep`; a sleep may end any time after it is over.
* **Inbox**: `hitl://inbox/{user_id}`, the listing by `created_at` with its limit. `created_at` is drawn
  when the event is built, so the order of birth is recorded there and not at the INSERT. No hub row
  can have the status `active`, which the query also selects.
* **Rest**: the REST routes and the MCP request tool: the bearer token, the body, the default timeout,
  and the status code each caller is answered. A call is either refused before it reaches the engine
  (`early`, `earlyR`) or is a call of HitlHub; the code of the latter is read off the state of its
  coroutine. An answer that is never sent (the process died) has no code.
* **Bootstrap**: `get_engine` and `get_notify_engine` for one process: the lock, the pool, the three
  migrations in sorted order, the bridge, and both engines, with a failure, a lost reply, a
  cancellation or a crash anywhere. The database survives a crash. What a call builds is named by it.
  The calls that came before a crash are lost; those after it find an empty process.
* **Singleton**: what `get_engine` promises, with no lock, pool or migration files: an engine created in
  one step, on a complete schema, for the life of the process. Bootstrap maps to it at its end.
* **Plugins**: the four registries' discovery, with one file somebody added anywhere in the order of
  one package and at most one file that cannot be imported; then the way of a request through
  validator, created hooks, notifiers and resolution hooks, of which the added one may raise. The
  creation and the resolution have a chain each (`left`): the row is there before the created hooks run,
  so a resolution may overtake them. The Memorium hook does nothing without `MEMORIUM_URL` (`url`), and
  makes its POST once: `posted` has the calls it was made for, `memorium` those Memorium heard of, for an
  answer of 400 or more and an exception are logged and that is all. Each request is resolved at most
  once in this module; attempts that race are in ResolutionFlow.
  A field stands for being there and, where the validator lists values, being one of them.
* **HubInvariant**: the inductive invariant of HitlHub. The `_proofs` modules hold the theorems.

Abstractions: one database and no reordering inside a statement; validation is a Boolean of the call;
a failure of the pool to hand out a connection is a failed statement. Rows that llibreta-v2 writes
into the shared table are not modelled.

## Runs

| Run | Instance | Shows |
|---|---|---|
| `requests` | 3 calls out of 6 kinds (retries of one key with different owners, another key, no key, the empty key, an invalid call), 1 failure or crash, clock 0..1 | `TypeOK`; `OneRequestPerKey` under every interleaving of lookups and inserts; `InboxMatchesTable` with up to three items on the relay; `PublishedUnlessFault`; `ImplementsRegistry` |
| `resolutions` | 1 call (a conflict that expires, or a bare request), 3 attempts by the owner, a stranger and the direct route, 1 failure or crash, clock 0..1 | `OwnerDecides`, `LateRefused`, `DecisionMatchesPayload`, `MemoriumAgrees`, `SettledForGood`; `ImplementsConfirmation` |
| `liveness` | 1 call, 2 attempts, 1 failure or crash, fairness | `EveryCallReturns`, `PendingSettles`, and, when nothing fails, `OwnerAnswerCounts`, `EffectsFollow` |
| `notify_routing` | 1 send out of 7 kinds, 20 tables of preferences (every window of quiet hours of a 3-hour day, ends at 24 included; disabled, no address, high threshold, a channel without an adapter, none at all), edits at any time | `ChannelsRespected`, `NoChannelForgotten`: what is tried is what is `Due`, a definition that walks the clock instead of distinguishing cases |
| `notify_log` | 2 sends, 2 acknowledgements, 2 tables, 1 failure or crash, fairness | `LogTellsTruth`, `AckedOnce`, `SendReturns`, `ImplementsDelivery`, and, when nothing fails, `DeliveredIsLogged` |
| `watch` | 1 call, 1 attempt, 2 watchers (a wait that polls as often as it can, one that polls once a tick, one without any time, a check), exceptions of their reads but no failure of the hub, clock 0..1, fairness | `ToldTheDecision`, `ToldThePayload`, `AnswersAge`: what watchers are told was decided, is complete, and does not go back to pending; `EveryWaitEnds` |
| `bootstrap` | 3 calls of either engine, 3 failures, cancellations or crashes, fairness | `OneEngine`, `SchemaReady`, `PoolsBounded`, `NotifyReady`; `HubComesUp`; `ImplementsSingleton` |
| `plugin_chains` | 1 request out of 19 (complete, or with one field missing, for every validator), every place of the added file, every broken file, `MEMORIUM_URL` set or not, a POST that Memorium hears or not | `AcceptedComplete`, `ChainComplete`, `ConflictsPosted` |
| `rest_calls` | 2 calls and 2 attempts over REST, MCP and the relay, with every refusal, 1 failure or crash | `RefusedLeavesNothing`, `AcceptedIsDone`, `RetryFindsRow`, `ApprovedExplicitly` |
| `inbox_pages` | 3 requests of one user, 1 attempt, pages of one item | `LeavesForAReason` |
| `resolved_once` | 1 call, 2 attempts, no failure | violated: the transitions of `docs/HITL_HUB_ARCHITECTURE.md:101` are not one-shot |
| `dropped_is_foreign` | 1 call, 1 attempt | violated: an early answer to the hub's own item is dropped as foreign (`core/nostr_bridge.py:193`) |

Bounds. Three calls are two that race for a key and a third that comes later or has another key; three
attempts are two that race and one that is late. Attempts on different rows share nothing but the
clock and the failures, so one row is enough for them, while the items of different requests meet on
the relay, which the three calls cover. One failure is enough to separate each pair of neighbouring
steps; the clock needs to pass one deadline. Calls and attempts are interchangeable, so the safety
runs of HitlHub, Rest and Inbox use symmetry; a run with a liveness property does not. Every call and attempt is made at most once and the
clock is bounded, so a behaviour may come to rest and the runs do not check deadlock; that no call
hangs is `EveryCallReturns`. Three hours are enough for a window to lie before, across and after an
hour, to be empty of it and to cross midnight; the proofs are for a day of any length.

Two watchers of one request are one that is told first and one that comes later; their request is
decided by an attempt or by the expiry task. A second attempt on it, a failure of the hub and a crash
are left to the theorems about Watch, which are for any number of each. A wait whose poll is shorter
than a tick may end its sleep at any moment, so it has the behaviours of every shorter interval. Three
first calls are a builder, its successor after a failure and a waiter, and three failures let each start
break off in a different place. A page of one item among three requests has the case of LIMIT 100 that
matters, more items than fit. Bodies of REST calls are one per way of being refused, since a refused call
never meets another.

Properties worth a word:

* `MemoriumAgrees` allows two writers of one row to leave Memorium with both decisions: that is the
  race of `resolved_once`. It says nothing else can.
* `DecisionMatchesPayload` excludes one corner, which the code has: a request without any details,
  rejected and at the same time approved without a response, is left approved with the reason of the
  rejection in its payload, since the approval's empty payload is sent as NULL.
* `OwnerAnswerCounts` is about answers that find a subscription and a stored reference. Answers in a
  subscription gap are lost by the code (`since(now)`), and the model loses them.
* `PublishedUnlessFault` is about behaviours without a failure; a start without the relay counts as one. After a crash between INSERT and publication a request stays unpublished, since a
  retry only finds its row: so the code has it, and no document promises otherwise.
* `ToldTheDecision` lets two watchers be told different decisions when two attempts wrote the row (the
  race of `resolved_once`); with one writer all are told the same. `AnswersAge` holds all the same.
* `AcceptedIsDone` allows a 200 whose decision was overwritten by another attempt let in with it.
* `RetryFindsRow` is about retries that come back with 201: one that overlaps the first call may be
  answered 500.
* `AcceptedComplete` is claimed if every validator can be imported; what a broken file costs is below.

## Disagreements

Two have a run that exhibits them, `resolved_once` and `dropped_is_foreign`. The model has these
behaviours too, because the code has them, and no property claims otherwise:

* Expiry is not audited. `core/lifecycle.py:33` says of `on_expired` "Called when a HITL event expires.",
  `plugins/hooks/audit.py:1` "logs all state transitions"; `expire_stale` expires rows by itself and
  nothing calls `on_expired` (`Expiry` leaves the audit log alone).
* A retry that overlaps the first call does not get the existing request (`core/engine.py:48`) but the
  unique violation (`duplicate` in RequestFlow). The next retry does get it (`OneRequestPerKey`).
* `on_created` is "Called when a new HITL event is created (status=pending)" (`core/lifecycle.py:18`), but
  after the publication, by when the row may be decided; the caller is answered PENDING all the same.
* An attempt after the deadline decides the request as long as the expiry task has not come by, where
  `mcp/tools.py:45` says "How long until the request expires".
* Answers sent before the subscription is in place are lost, with no failure anywhere
  (`core/nostr_bridge.py:6`, `173`; `missed` in ResolutionFlow).
* `wait()` gives up after its last sleep without a last read, though the request may have been decided
  meanwhile (`docs/HITL_HUB_ARCHITECTURE.md:64`; `Wake`).
* A start that fails after `create_pool` leaves its pool open, and the next opens another, where
  `bootstrap.py:4-7` wants one per process. `PoolsBounded` bounds the leak: a failure or a cancellation
  costs at most one pool, and calls that race or start without the relay cost none.
* One plugin file that cannot be imported drops the healthy ones after it, where
  `docs/HITL_HUB_ARCHITECTURE.md:148` has every file active (`Discovered` in Plugins).
* The inbox is cut at 100 rows, with no second page, where `mcp/resources.py:16` says "all pending"
  (`ListPending`; `LeavesForAReason` says what the cut cannot do).

## Fairness

`FairSpec` is weak fairness of every started coroutine's next successful step (the event loop runs
what is ready, and a database command has a 30 s timeout), of the expiry pass and of the
resubscription (both are endless loops that catch what they raise), of the clock, and of starting a
process that is down (`k8s/deployment.yaml` restarts it and its probes call `get_engine`). Nothing is
assumed of producers, owners, failures or crashes. The number of failures is bounded, so a property
under fairness says: once failures stop. `OwnerAnswerCounts` and `EffectsFollow` are about behaviours
without any. Notify assumes weak fairness of each send's own next step: every adapter gives up after 10
or 15 s. Watch adds weak fairness of each watcher's read and of the end of a sleep that is over.
Bootstrap assumes it of each call's own next step under the lock (the pool, a migration and the relay
answer or fail in bounded time, and `asyncio.Lock` goes to a waiter); `HubComesUp` is stated for each
number of failures so far, so that it says: if nothing more fails, the call gets its engine.

## Proofs

For any sets of calls, attempts, keys, pubkeys and any bounds, from the constants' assumptions alone:

* `TypeCorrect`: `Spec => []TypeOK`. `TypeOK` is not inductive by itself: the audit line of an attempt
  needs its target to be a request, which holds because `get()` found the row (`Targets`).
* `Invariance`: `HubInv` of module HubInvariant is inductive together with the types. It says what a
  coroutine may rely on at each await: before its insert a call has no row, and its draft is pending
  and unreferenced; from then on the row is there with the call's key; a call that publishes has an
  owner; a referenced row is on the relay, where every item has an author of its own; an attempt in
  `update` has its row; a late one has a settled row and is not in `update`; an answer that passed the
  listener came from the row's owner.
* `KeyUniqueness`: no two rows carry one idempotency key. It has no run of its own, since
  `ImplementsRegistry` needs it in every step; likewise `DecisionsHaveAuthors`, `EngineNotReplaced`,
  `LockHeldByBuilder` and the type theorems of the other modules below.
* `OneRequest`, `InboxConsistency`, `OwnerAuthority`, `LateAttempts`, `Settlement`:
  safety properties of HitlHub, each from `HubInv`.

* `NotifyTypeCorrect`, `NotifyInvariance`, and from them `Routing`, `Completeness`, `LogTruth` and
  `OneAcknowledgement` (the properties of the `notify` runs). `NotifyInv` adds what a send knows at each
  await: nothing is done before the preferences are read; in the loop, what was tried together with what
  will not be left out is what is due; a row describes a send that ended. `QuietHoursLemma` shows the case
  distinction of `_passes_quiet_hours` to be the walk round the clock, for a day of any length.
* `DeliveryRefinement`: Notify implements Delivery. The step that reads the preferences is the one that
  settles the channels: `RoutingLemma` shows that the targets less those left out later are what was
  wanted then, and `DueStable` that no change of preferences or hour touches them afterwards.
* `RegistryRefinement` and `ConfirmationRefinement`: HitlHub implements both abstract specifications,
  initial state to initial state and every step to a step or a stutter, from `HubInv`.
* `DecisionPayload`, `MemoriumAgreement`, `DecisionsHaveAuthors`, `Publication` (module
  HubEffects_proofs) need more than `HubInv`: which attempt wrote what, and what a coroutine that is
  past its UPDATE, or a request past its publication, has left behind. Each adds that to the invariant.
* `HubUndisturbed`, `HubUnread` and `EngineBeneath`: `WatchSpec => Spec`, `InboxSpec => Spec` and
  `RestSpec => Spec`, so that every theorem about HitlHub holds beside watchers and readers and under the
  routes (`SurfaceRefinement` says so of the two abstract specifications); on them rest `AnswersTrue`,
  `AnswersComplete`, `AnswersInOrder` (what a watcher was told stays true of the row) and
  `RefusalsAreClean`, `SuccessIsReal`, `RetriesConverge`, `ApprovalsAreExplicit`, with the two type
  theorems.
* `BootTypes`, `SingleEngine`, `SchemaFirst`, `PoolsPaidFor`, `NotifyTogether`, `EngineNotReplaced`: for
  any number of calls and failures. The invariant says that whoever is building holds the lock and
  there is no engine yet, and that a builder at its k-th file has all files before it in the database.
  For the pools it counts those left behind against the failures so far; any other is the engine's, or
  that of the one builder.
  From it `LockHeldByBuilder`, and `SingletonRefinement`: Bootstrap implements Singleton, the last
  migration being the abstract `Prepare` and `StartBridge` the abstract `Create`.
* `InboxKeepsItems`: `LeavesForAReason` for any number of requests, users and rows on a page.
  `InboxInv` says that a page holds only rows that are there, of that user; an item that is still pending
  and in time but no longer on the page has a full page of younger ones ahead of it. Like
  `PoolsPaidFor`, it argues about cardinalities.
* `ValidatedComplete`, `ChainsComplete`, `ConflictsReachThePost`: the properties of Plugins, wherever
  the added file stands in the order of discovery and whichever file is broken. `PluginsInv` relates each
  registry to a prefix of its package's files (discovery stops at the first broken one), and says that
  what of a chain is not `left` has run, whether it raised or not, for each transition by itself.
  `ConflictsReachThePost` ends at the POST: that Memorium hears it is not claimed, for the code logs a
  POST that failed and does not repeat it.

The proof that `HubInv` is kept has one step per action. Resolving, expiring and the background steps
are handled together by `Frozen` (they change nothing of a row but status and payload, and never undo
a settlement); steps of a call by `Kept` (they keep every row that is there).

Model-checked only: the liveness properties `EveryCallReturns`, `PendingSettles`, `OwnerAnswerCounts`,
`EffectsFollow`, `SendReturns`, `DeliveredIsLogged`, `EveryWaitEnds` and `HubComesUp`, which rest on
fairness and are outside the prover's reach. Every invariant, action property and refinement that a
passing run checks is also proved, with no assumption but those on the constants in the modules.

## Not modelled

* `NotifyEngine.history()` and `notify_history`: a read of the log that decides nothing.
* The layout of inbox items, of the adapters' HTTP calls and of log lines; which environment variable or
  field makes an adapter report a failure.
* `NostrBridge.stop()`, `ExpiryHook.stop()`, `close_pool()`, `get_pool()` and the registries'
  `register()`: nothing calls them.
* `server.py`: registers the tools and routes and runs the HTTP server; it has no state.
* Rows that llibreta-v2 writes into the shared table, with the status `active` among them: the writer is
  not in this repository.
* The relay and Memorium, beyond what `src/` assumes of them (replaceable events, one POST).
