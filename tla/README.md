# A specification of the chenniX-api gateway

chenniX-api is an LLM gateway: it accepts OpenAI- and Claude-format requests,
charges them against an account and an API token, forwards them to one of many
upstream keys with failover, translates between the two formats, and settles the
bill when the answer or the stream is over. This directory specifies it in TLA+:
modules that model its components, small instances TLC checks, and theorems
TLAPS proves.

## 1. Inventory

Paths are under `src/crates/`.

| Component | State | Operations | Correct when |
|---|---|---|---|
| Billing `core/src/billing.rs`, `server/src/pipeline.rs` | `users.quota/used_quota`, `tokens.remain_quota/used_quota/status`, one `BillingSession` per request | `pre_charge`, `settle`, `refund` (and their `_atomic` transactions) | each request moves both layers by exactly what it owes; nothing is admitted beyond the balance; a spent token is shut and only a spent one |
| Authentication `server/src/middleware/auth.rs` | none | `token_auth_middleware` → `validate_token` | a request is charged to the owner of the token it came with |
| Key health `core/src/health.rs` | per key a status (memory and `channel_keys.status`), per (key, upstream model) a cooldown (memory only) | `is_available`, `mark_cooldown`, `mark_disabled`, `check_recoveries`, `load_disabled_from_db` | verdicts survive restarts; windows grow within a streak, stay with their pair, end |
| Executor `core/src/executor.rs` | the walk over bindings and keys | `execute`, `execute_stream` | one session per request, closed at most once; gives up only when every key was considered; terminates |
| Pricing `core/src/executor.rs`, `billing_expr.rs` | a pricing per binding | `estimate_cost`, `extract_max_tokens`, `actual_cost`, `validate` | the estimate covers the cost; the cost is what the price list says |
| Router `core/src/router.rs` | none | `route` (priority, load balance) | each candidate once, drawn by its weight |
| Small-model quota `core/src/{health,tracker,cache}.rs` | a counter in the database, the cache and the health manager | accumulate, reset, configure | each success is counted once; only a window or an admin forgives; an exhausted model comes back |
| Config cache, normaliser `core/src/cache.rs`, `normalizer.rs` | a snapshot, an alias map | `get`, `invalidate`, `reload`, `resolve` | an admin's write is visible to the next request |
| Translation of messages `translator/src/{o2c,c2o}.rs` | none | four functions: request and answer, both ways | the server's format is kept and nothing said is lost |
| Translation of streams `translator/src/stream_state.rs` | two state machines | `process_chunk`, `process_event` | well-formed, complete event sequences |
| Streaming task `server/src/routes/mod.rs` | the session it took over, `usage_acc`, a bounded channel, `active_streams` | forward, translate, settle, track, log | settles once, whatever ends the stream; loses no chunk |
| Catalog `storage/src/{models,channels,keys}.rs`, `server/src/admin/handlers.rs` | models, channels, keys, discovered models, bindings, usage rows | every handler that writes them, the YAML import | no dangling reference, no secret twice in a channel |
| Admin sessions `server/src/admin/{auth,setup}.rs`, `config.rs` | the session store, accounts | login, the middleware, logout, account handlers, the wizard | only who is admitted changes an account |
| Start and end `server/src/main.rs`, `storage/src/{schema,bootstrap}.rs` | the database file | `init_db`, `run_migrations`, `import_from_yaml`, graceful shutdown | a killed start leaves a file the next one can use; a shutdown ends |

How they interact. A request passes the authentication middleware, which reads
`users` and `tokens`; the executor asks the cache for bindings, the router for
an order (which asks the health manager, optimistically), billing for a session,
then the health manager again before every call; each attempt ends in a usage
row (tracker) and possibly a mark on the key; the end of the walk settles or
refunds. A stream's end runs in a spawned task that owns the session. All
database access takes one async mutex, one stretch at a time; the health
manager's memory has an `RwLock` of its own; the cache has another. The admin
panel writes the database and mostly invalidates the cache, and tells neither
the health manager nor open sessions.

What is hard: every `await` between two locks is a place where other requests,
the panel or the recovery loop run; a handler's future is dropped with its
client's connection at any `await` (the session has no `Drop`); settlement
and refund errors are only logged; ids are re-used, since the tables have no
AUTOINCREMENT; usage rows pin the rows they reference; one fact is kept in up to
three places. `PROJECT.json` lists each hazard at its line.

## 2. Plan

1. `Billing`, `BillingProofs` – the money. **Done.**
2. `KeyHealth`, `KeyHealthProofs` – the keys. **Done.**
3. `OneBill`, `Executor`, `ExecutorProofs` – a request's life, composed with
   `KeyHealth` and shown to implement `OneBill`. **Done.**
4. `SmallModelQuota`, `SmallModelQuotaProofs` – three copies of a counter. **Done.**
5. `ConfigCache`, `ConfigCacheProofs` – load against invalidate. **Done.**
6. `Routing`, `Pricing` – order and price. **Done.**
7. `Conversation`, `OpenaiToClaude`, `ClaudeToOpenai` – translation; `RequestProofs`
   for 6 and 7. **Done.**
8. `StreamTask`, `StreamTaskProofs` – the task, its channel, `active_streams` and
   the drain. **Done.**
9. `AdminSessions`, `Catalog`, `Startup`, `AdminProofs` – the panel and the file.
   **Done.**
10. `Gateway` – `Executor` composed with `Billing` (the bill of `OneBill` is the
    session of `Billing`) and with `StreamTask`. Left.

Proofs left: the refinement of 10. The safety properties of all runs are proved,
their liveness is not (section 5).

## 3. Modules

### Billing

State: the rows of `users` and `tokens` (ids present, and their columns), the
`(user, token)` pairs `usage_logs` references, and per request its step and its
`BillingSession`. An action is one stretch under the database mutex:

| Action | Code |
|---|---|
| `Authenticate` | `token_auth_middleware`, `validate_token` |
| `ReadUnlimited` | the read of `unlimited_quota` in `pre_charge`; a zero estimate opens the session at once |
| `PreCharge`, `PreChargeRefused` | `pre_charge_atomic`, committed or rolled back |
| `Settle`, `ReadRemain`, `MarkExhausted` | the three lock stretches of `settle` |
| `Refund` | `refund_atomic` |
| `LogUsage` | a usage row, refused by its foreign keys |
| `Abandon` | a dropped handler, a stopped process, a storage error that is only logged |
| `UpdateUser` … `TestCharge` | the panel's writes to the two tables |

`appliedUser`, `appliedToken`, `orphans`, `tests` are history: what each
request's transactions moved, which requests lost their token row, what the
panel's test calls cost. `Owed(r)` is what the code's own state says r owes.
`SessionExact` compares the two; `Ledgers` compares the columns of both tables with
the sums over all requests, and `SpentTokenIsShut` a token's status with what is
left on it. A table of tokens has finitely many rows (`BillingAssumption`).

Abstracted: expiry dates and IP lists (they only refuse); a negative estimate
(the code refuses it without a write, which is `Abandon`), a negative actual
cost likewise; the wording of errors. `LogUsage` when a foreign key refuses
leaves the tables alone.

### KeyHealth

State: `channel_keys` (present, status), keys `usage_logs` references, the
memory of `HealthManager` (status, cooldown left, streak) and one attempt per
worker. A failed attempt takes three steps (usage row, mark in memory, write to
disk), each of which may be the last one if the handler is dropped. A disabled
row and a missing memory entry are told apart as the code does: no entry means
active. Time is relative: `Tick` takes a second off every cooldown. The streak
is counted to the exponent's cap only, where its effect stops growing.
`overridden` is history: keys whose row the panel wrote, or whose write was
lost, since the memory's last verdict.

Abstracted: priorities and names of keys (in `Catalog`), encryption, usage
counters; the small-model mirror is `SmallModelQuota`. The `cooldown` and
`quota_exhausted` values of the column are written by the panel only and read as
"not disabled".

### Executor and OneBill

`Executor` is a request's life over `KeyHealth`: its `healthVars` are
`KeyHealth`'s variables with requests as workers, and each step on a key is an
action of that module. Its own state is the place in `execute` or
`execute_stream`, the bindings and keys still to try, the session and the answer.
`Route` covers `select_keys`, the router's filter and order and the truncation
to `MAX_BINDING_ATTEMPTS`: the group and quota filters keep any subset of the
bindings, and `try_read` may let any unavailable key pass. `Kept` is the filter of a
list; an order of what was found is an injection into it (`Orders`). Bindings are given
in the order of their priority; load balancing may give any order (`Routing` says
which, and how likely). `SharedAssumption` is what `KeyHealth` asks of the constants. `PrepareFails` is a translation error before the call;
`Track` covers the one after the settlement. `Settle`, `Refund` and `Persist`
may fail, and the walk goes on as in the code.

Billing's amounts are not repeated here: the session is none, open, settled or
refunded. `OneBill` is the promise about it, in two variables per request;
`Bill` maps `session` and the answer given (`Told`) to it. A stream's
client is answered "ok" when its response begins.

### SmallModelQuota

One counter, three copies: `db` (`discovered_models`), `cache` (the snapshot,
meaningful while `loaded`), `mem` (the HealthManager's). A success runs
`accumulate_small_model_quota` in its three awaits: `Answer` reads the snapshot
and decides sum and status, `UpdateCache` stores them in the snapshot that is
there then, `Bump` adds the difference to the row. `CheckResets` zeroes every
rolled-over counter of the memory under its lock, `PersistReset` writes each row
afterwards; `Configure` and `Reset` are the panel's handlers, `Invalidate` their
second half. What answers have decided but not yet added (`Pending`) is a set of
units (`Units`), so that it can be counted for any number of workers. `main` attaches no cache to the HealthManager, so the resets do not
touch `cache`. The calendar is relative: `age` says in which period a counter
was last reset, `NewDay` and `NewMonth` age all three. `owed` is history.

### ConfigCache

The configuration is its version. A request asks for the snapshot four times
(`stage`); a miss reads the snapshot, the alias map, swaps the map and stores
the snapshot, a step each, under locks of their own. Handlers of the panel write
(`WriteAndAnnounce`, `WriteQuietly` – four of them never invalidate), invalidate
afterwards, or are dropped in between (`DropHandler`); `Reload` is the panel's
reload button. `quiet` and `raced` are history, the two excuses the property
names beside the handler that is between its write and its invalidation.

### Routing

`Filter` drops bindings outside the caller's group, with a spent quota or
without available keys; `Sort` orders by priority; `Draw` is one step of the
weighted draw without replacement, its random number any pick below `Total`;
weights below one count as one. A stable sort puts each where as many stand before
it as go ahead of it (`Ahead`), and a sum of weights is a number of tickets
(`Tickets`): both are sets that can be counted, where a fold could not be reasoned
about.

### Pricing

`SetPricing` is the admin's edit with its validation on three samples;
`PreCharge` estimates by the first binding (500 tokens of prompt, the client's
cap or 500 of completion), `Answer` reads the price of the binding that answers,
or keeps the default when it cannot be read, `Settle` is `actual_cost`. The
sum of both parts is rounded to the nearest micro-yuan. An expression is a table
of its values, `Error` where the evaluation fails: the parser of `evalexpr` is
external.

### Conversation

A client that speaks one format keeps a conversation with a server that speaks
the other. `Send` translates the whole conversation, `Answer` translates the
server's answer, and the client appends what was made of it, so that what the
server reads is a translation of translations. `BlocksOf`, `Pending`, `Merged`,
`Begun`, `ToClaude` follow `openai_to_claude_request`; `Split`, `ToOpenai` follow
`claude_to_openai_request`. A piece of content is the number of its utterance.
Each loop of the code over messages or blocks is one function of the number of
messages read (`Joined`, `Merged`): `Gathered` puts together what each gives,
`Extended` is the merging of the next turn into the last one.
The clients, servers and their rules (`ClaudeAccepts`, `OpenaiAccepts`) are
external: they are those of the two public APIs.

### OpenaiToClaude, ClaudeToOpenai

The two machines of `stream_state.rs`, each between an external upstream that
keeps its protocol and a client that reads by its own: the client's state is part
of the model and goes to "broken" at the first event its protocol forbids. An
OpenAI chunk (`Lines`) may carry reasoning, a fragment of any tool call, text,
finish and usage in any combination. `Interleaved` says whether upstream may
speak between two fragments of one call.

### StreamTask

`stream_sse_response` from `Spawn` to `Log`, one step per await: `Chunk` counts
usage and decides what is sent, `Send` waits for room in the channel,
`SendFails` finds the client gone, `Settle`, `Track`, `Log` close the session.
A position in an answer counts halves of events, so that a chunk may end inside
one (`Cuts`). `active` is the counter the guard decrements; `Signal`, `ServeEnds`,
`Drained`, `GiveUp` are the end of `main`. What the translators do with the
format they are given is in `Forwarded`; see the disagreements below.

### Catalog

Every handler that writes models, channels, keys, the pool of discovered models
and the bindings, with its checks, cascades and the usage rows that refuse a
delete; `Import` is the YAML file. A handler checks and writes under one lock,
so each is a step; ids are given out again (`NextId`). `MaxInt32` is `i32::MAX`
scaled down: `Wrapped` is the cast in `create_key_auto_priority` and in the reorders. `crossed` is
history: some key was edited under another channel's path.

### AdminSessions

Logging in (`Login`, `StoreSession`) and the middleware (`LookUp`, `Sweep`,
`LoadUser`, or `Reject`, `RefuseUser`) lock by lock, then the handler, which works
with the copy of the account the middleware loaded (`caller`). A client may send
any cookie ever given out. `SetupInitialize` is the wizard, `Restart` drops the
store and runs `ensure_default_admin`. `ended` and `founders` are history.

### Startup

`init_db` statement by statement, the mark of the version, `run_migrations`,
`ensure_default_admin`, `is_db_empty` and the import as one transaction, with a
kill (`Crash`) between any two; the file may be another release's (`foreign`).

### MCRequest and MCAdmin

Components that share no variable are checked side by side: `part` chooses which
one a behaviour follows, and the others rest. `MCRequest` holds `Pricing`,
`Routing`, `Conversation` and the two stream machines, `MCAdmin` holds `Startup`,
`AdminSessions` and `Catalog`. Their properties are conjunctions of the parts'
own, in which each part's type invariant is included. `RequestAssumption` and
`AdminAssumption` collect the parts' assumptions, and that there is a binding to price.

## 4. Runs

| Run | Question | Bounds |
|---|---|---|
| `billing_admin` | do the ledgers stay exact, are pre-charges covered, does a spent token end up shut, whatever the panel does? | 1 user, 2 tokens, 2 requests, 2 admin writes of any kind. Two requests on the same or different tokens are every pair of transactions; two writes are a delete and a re-creation of one id |
| `health` | is a verdict on disk, do windows grow, stay with their pair, end? | 1 key, 2 models, 2 workers, 2 admin writes, restarts; a cap of 5 seconds between the second and the third doubling, so both caps bite |
| `executor_failover` | does giving up mean that all was tried, and does every walk end? | 1 request, 3 bindings (one more than the cap), keys shared between them, any order, health changing under it |
| `executor_shared` | does the executor keep the promise of `OneBill`, and use the keys as `KeyHealth` says? | 2 requests on one key with two models |
| `quota_ledger` | is every success counted once, every reset durable, a total quota forgiven by admins only? | 1 model, 2 workers, 2 successes, 1 admin write, 1 restart, day and total windows, days and months passing |
| `quota_window` | does an exhausted model come back? | 2 models with a day and a month window, 1 worker, 2 successes, 1 restart |
| `cache_fresh` | how can old data be served? | 2 requests, 2 handlers, 3 writes: a load overlapping a write and an invalidation, twice |
| `stream` | is each stream settled before an orderly exit, complete, billed for what it used, and does a shutdown end? | 2 streams of any pair of formats, 4 events, a channel of 2 |
| `request_parts` | is what is computed for one request right? | 2 bindings to price, 3 to route, conversations of 6 pieces, messages of 4 blocks and 3 tool calls |
| `admin_panel` | are files, tables and sessions left whole? | 17 tables, 4 imported rows, 4 kills; 2 models, channels, keys, 7 edits; 2 accounts, 2 requests, 2 logins, 4 writes |
| `billing_exhausted` | is an exhausted token spent? **violated** | 2 requests that together fill the token |
| `stream_crossed` | does a client of the other format get an answer? **violated** | 1 stream |

What each run checks, by name; the comment above each definition says what it
means and which functions it is about:

- `billing_admin` (`MCBilling`): `SessionExact`, `Ledgers`, `SpentTokenIsShut`,
  `AdmittedWithinBalance`, `BudgetConserved`.
- `health` (`KeyHealth`): `DisabledDurable`, `BackoffGrows`, `OnePairPerFailure`,
  and, live, `CooldownEnds`.
- `executor_failover` (`MCExecutor`): `TypeOK`, `FailoverComplete` and, live,
  `RequestsEnd`; `executor_shared`: the refinements `BillsOnce` (of `OneBill`) and
  `UsesHealth` (of `KeyHealth`).
- `quota_ledger` (`MCSmallModelQuota`): `TypeOK`, `QuotaLedger`, `ResetDurable`,
  `TotalIsForgivenByAdmin`; `quota_window`: `QuotaComesBack`, live.
- `cache_fresh` (`MCConfigCache`): `FreshUnlessExcused` and `ResolvesAfterLoad`.
- `stream` (`MCStreamTask`): `TypeOK`, `DrainedIsSettled`, `WholeAnswer`,
  `UsageIsBilled` and, live, `ShutdownEnds`.
- `request_parts` (`MCRequest`): `EstimateCovers` and `PaidAsListed` (Pricing),
  `RoutesEachOnce` and `DrawIsProportional` (Routing), `RequestsAreWellFormed`,
  `NothingIsLost` and `SurvivesTwoProxies` (Conversation), `StreamsAreWellFormed`
  and `AnswersArriveWhole` (the two stream machines).
- `admin_panel` (`MCAdmin`): `StartsWhole` (Startup and the wizard), `TablesHold`
  and `AddingDisturbsNothing` (Catalog), `LoggedOutStaysOut` and
  `AccountsAreGuarded` (AdminSessions).
- `billing_exhausted` (`MCBilling`): `ExhaustedMeansSpent`, violated.
- `stream_crossed` (`MCStreamTask`): `TranslatedIsAnswered`, violated.

Deadlock is checked in `health` and the executor runs, whose environment never
stops. In the others it is not: requests, edits and starts are used up, streams
and translations end.

Bounds, by constant: `MaxAdminWrites`, `MaxWrites`, `MaxEdits` cap the panel's
writes; `MaxAnswers` successes, `MaxRestarts` and `MaxCrashes` restarts and kills;
`MaxCooldown` and `MaxExponent` stand for 1800 and 31; `MaxSaid`, `MaxBlocks`,
`MaxTools` bound what is translated; `MaxNow`, `MaxLogins` time and logins;
`MaxRows`, `MaxUsers` ids; `MaxWeight` and `MaxInt32` numbers an admin may set. A
request lives once. Amounts are chosen so that an actual cost may exceed its
estimate, be zero, and exhaust a token. Symmetry is used for requests, workers
and handlers in runs without liveness.

Fairness. `KeyHealth!FairSpec` is fair to the clock only. `Executor!FairSpec` is
fair to what the runtime does next for a request – upstream calls have a timeout
– not to the end of a stream, which no timeout covers, nor to the panel, the
loop or the clock. `SmallModelQuota!FairSpec` is fair to the calendar and to the
recovery loop, a task that `main` spawns and nothing stops. `StreamTask!FairSpec`
is fair to the clients (they read, and leave in the end), to the process and to
its deadline, and to nothing upstream does: `ShutdownEnds` holds although a task
may be stuck for ever.

### What the sources say and the code does not keep

Two disagreements are runs of their own and are quoted in `PROJECT.json`
("findings"). `billing_exhausted` takes six steps: two requests hold the whole
budget, one settles, reads zero and marks the token exhausted, the other is
refunded. `stream_crossed`: the machine that reads OpenAI chunks is created when
the upstream is Anthropic, and conversely.

The others are stated in the modules, each refuted by TLC on the instance named
(other constants as in the run of that module). Paths are under `src/`, those of
code under `src/crates/`.

| Property | Instance | What the code does | What is said |
|---|---|---|---|
| `KeyHealth!MemoryMatchesDb` | 1 key, 1 worker, 1 admin write | `update_key_handler` (`server/src/admin/handlers.rs:549`) writes the row and the memory the router asks is never told: a key disabled in the panel keeps being called until a restart | `core/src/health.rs:326` on `sync_key_from_db`: "Called when an admin API changes a key's status so that the in-memory view matches the DB" – nothing calls it |
| `KeyHealth!NewKeyAvailable` | 1 key, 2 admin writes | a deleted key's status or cooldown stays in memory and its id is given to the next key | `handlers.rs:503`: "Invalidate cache so the new key is immediately visible to the router." |
| `Executor!BrokenIsRefunded` | 1 request, 1 key | the streaming task settles after an upstream error too (`server/src/routes/mod.rs:597`) | `docs/CODE_WIKI.md:678`: "失败: refund(session)" |
| `SmallModelQuota!UsedUpIsExhausted` | 2 workers, no restart | two successes read the same cached counter, both stay below the limit, neither marks the model | `core/src/tracker.rs:178`: "After accumulating, if `new_used >= quota_limit`, mark `Exhausted`" |
| `SmallModelQuota!ExhaustedIsUsedUp` | 1 worker, 3 successes | the rollover leaves the cached counter at the last window's sum (`main.rs:110` attaches no cache): the first success exhausts the new window | `health.rs:440`: "incrementally updates the [`ConfigCache`] (when attached)" |
| `SmallModelQuota!ExhaustedIsNotRouted` | 1 worker | the tracker marks cache and database, the router asks the HealthManager's copy (`health.rs:405`) | `core/src/router.rs:12`: "drop the whole binding if `quota_filter(...)` returns false (small-model quota exhausted)" |
| `ConfigCache!AdminWritesAreSeen` | 1 request, 1 handler, 1 write | four handlers (`handlers.rs:404`, 422, 758, 778) never invalidate | `core/src/cache.rs:5`: "explicitely invalidated by `invalidate` (called by admin endpoints that mutate config)" |
| `ConfigCache!LoadersAgree` | 1 request, 1 handler, 1 write | a load that read before a write stores its snapshot after the invalidation | `cache.rs:239`: "last-writer-wins is fine here since both loaded from the same source" |
| `OpenaiToClaude!DoneIsSilent` | 2 blocks | the end of the message waits for usage and comes with `[DONE]` if there was none | `docs/CODE_WIKI.md:356`: "`[DONE]` 不再产生输出" |
| `OpenaiToClaude!WellFormed` | `Interleaved = TRUE` | a fragment of a call that follows text of the same call is a delta of a closed block (`translator/src/stream_state.rs:179`) | `docs/CODE_WIKI.md:353`: "块切换：reasoning/text/tool 之间切换时自动关闭前一个 block 并开新 block" |
| `StreamTask!UsageIsBilled` | `OpenaiOnly`, `Cuts = TRUE` | `extract_usage` parses each chunk by itself: usage that two chunks share is not billed (`adaptor/src/openai.rs:91`) | `routes/mod.rs:47`: chunks "may split across event boundaries" |
| `StreamTask!UsageIsBilled` | `ReportsEachTime` | running totals of all chunks are added up (`routes/mod.rs:524`) | `openai.rs:89`: "usage 是累积值" |
| `StreamTask!ExitIsSettled` | `OpenaiOnly` | after its deadline the drain leaves sessions charged (`server/src/main.rs:264`) | `main.rs:250`: "so pre-charged quota is properly refunded/charged before exit" |
| `Catalog!KeysAreUniqueInChannel` | 2 channels | `update_key_handler` looks for duplicates in the channel of the path, not of the key (`handlers.rs:532`) | `handlers.rs:530`: "同渠道内 api_key 唯一" |
| `Catalog!ModelsAreNameable` | `Names = {"gpt", "GPT"}` | names are compared exactly when created (`handlers.rs:715`), folded when resolved | `core/src/normalizer.rs:14`: resolution is case-insensitive |
| `Catalog!NewestIsLast` | `Priorities = {1023}`, the scaled `i32::MAX` | the cast in `create_key_auto_priority` wraps (`storage/src/keys.rs:373`) | `keys.rs:354`: "priority 自动追加到末尾" |
| `AdminSessions!OldPasswordIsVerified` | as in `admin_panel` | the old password is compared with the account of the caller's name, the new one written to the caller's id (`handlers.rs:184`): between them lie a renaming and a new account | `handlers.rs:172`: "The old password must be provided and verified before the new password is accepted." |
| `Startup!OwnFileIsAccepted` | 1 kill | a start killed before the mark leaves tables without a version, refused for good (`storage/src/schema.rs:187`) | `schema.rs:8-10`: a new file is marked at the end so that it passes the check |
| `Conversation!ContentIsNeverEmpty` | 3 pieces | a message without text and calls becomes one without content (`translator/src/o2c.rs:122`) | `translator/src/c2o.rs:318`: "Claude requires a non-empty content array" |
| `Conversation!RolesAlternate` | `Speakers = {"user", "developer"}` | an unknown role is kept | `o2c.rs:8`: "ensure user/assistant strict alternation" |
| `Routing!CheaperKeyFirst` | 1 binding, `Prices = {0, 2}` | keys are sorted by `key_priority` alone (`router.rs:125`) | `router.rs:21`: "(+ quota ratio, price)" |
| `Pricing!CapIsHonoured` | as in `request_parts` | a `max_completion_tokens` that is null hides a `max_tokens` that is set (`executor.rs:200`) | `executor.rs:191`: "whichever is set" |
| `Pricing!ValidatedIsBilled` | as in `request_parts` | an expression that fails beyond the three samples bills nothing (`billing_expr.rs:58`) | `handlers.rs:797`: validation keeps a malformed expression from "silently eval to 0" |

## 5. Proofs

Every safety property of the passing runs is a theorem for all values of the
constants. A theorem's assumptions are the `ASSUME`s of its module, which TLC
evaluates on every run, and those named below.

`BillingProofs` – any tables, requests, estimates, costs and budgets
(`BillingAssumption`: ids are positive and finitely many, prices natural numbers):

- `BillingTypes` – type correctness, one step per action.
- `SessionsAreExact` – `SessionExact`. It is not inductive alone: `Booked` adds
  that a request that has not started has applied nothing, and that a started
  one whose token row is gone is an orphan – without it, re-creating the row
  under the same id would revive a claim about what the request moved.
- `BudgetsAreConserved`, `AdmissionsAreCovered` – the two action properties,
  from the types and what `Charge` does to one row.
- `LedgersBalance` – `Ledgers`. `Books` adds that finitely many requests have
  started, that nothing is charged to a token without a row, and that a token's
  row is still its request's owner's unless the request is an orphan. That a step of one
  request changes one term of a sum is `SetInduction` over subsets, since the
  fold adds in an order of its own.
- `SpentTokensAreShut` – `SpentTokenIsShut`. The property speaks of a token at
  rest; `Gated` is what holds on the way there: a limited token that is not
  marked has something left once all its open sessions are given back, unless a
  settlement is still to look. The last of two crossing settlements therefore
  sees the zero.

`KeyHealthProofs` – `HealthAssumption` (positive bounds; the two facts about powers
of two that arithmetic provers lack are stated there and evaluated by TLC):

- `HealthTypes` – statuses, windows and streaks keep their range; the caps of
  the doubling are `BackoffRange` and `StreakRange`.
- `WindowsGrow` – `BackoffGrows`. Its first half (`Running`) is inductive; the
  second, about attempts still in flight, follows because a longer streak never
  has a shorter window.
- `VerdictsAreDurable` – `DisabledDurable`, inductive with the types: each step
  that takes an attempt out of "persisting" has written the disk or entered
  `overridden`.
- `FailuresAreIsolated` – `OnePairPerFailure`: only `MarkCooldown` opens a
  window, and only on the attempt's pair.

`ExecutorProofs` – any bindings, keys, requests, caps and routing order:

- `ExecutorBillsOnce` – `Executor` implements `OneBill`. `BInv` says what each
  place in the loops implies for session and answer; every action then maps to
  `Open`, `Settle`, `Refund`, `Reply` or a stutter. It needs no assumption about
  health: the keys only decide which path is taken.
- `GivingUpIsComplete` – `FailoverComplete`. The property looks at a walk that is
  over; `WInv` says at every place of it that each key of a routed binding is
  ruled out or still in the list (`Awaits`), and that the executor gives up with
  an empty list.
- `ExecutorUsesHealth` – the refinement of `KeyHealth`: each step is one of its
  actions or a stutter, since the keys walked over are keys (`WalkTypes`).
  `HealthHoldsForRequests` carries the theorems of `KeyHealthProofs` over to
  requests by instantiation.
- `ExecutorTypes` – the type invariant.

`SmallModelQuotaProofs` – any models, settings, successes and restarts:

- `ResetsAreDurable` – `ResetDurable`. The inductive invariant adds that only
  models whose window in memory is a day or a month wait to be persisted
  (`ResettingRolls`): a restart, which replaces the memory, empties that set.
- `QuotaLedgerBalances` – `QuotaLedger`. `Ledgered` adds that finitely many units
  are in flight; a success moves its units from `Pending` to the row.
- `TotalsAreForgivenByAdmins` – `TotalIsForgivenByAdmin`, from the first invariant
  and the fact that admin writes are counted. `QuotaTypes` – the type invariant.

`ConfigCacheProofs` – any number of requests and handlers:

- `CacheTypes` – with `Past`: no copy is ahead of the database.
- `NamesBeforeUse` – `ResolvesAfterLoad`, through `Named`: where a snapshot is
  stored or about to be, an alias map was loaded before.
- `ServesFresh` – `FreshUnlessExcused`. Freshness is not inductive: a load that
  still holds old data breaks it later. `Settled` adds that, unless excused, no
  load under way holds data older than the database (`OldLoad`).

`StreamTaskProofs` – any number of streams, length of answers and capacity:

- `DrainsAreSettled` – `DrainedIsSettled`. `Counted` ties the counter to the set
  of running tasks (finitely many, also those spawned after the signal), a
  settled place to a bill, and an exit that was not forced to a counter of zero.
- `AnswersAreWhole` – `WholeAnswer`. `Flows` follows one position from task
  through channel to client: the last one sent (`Sent`) is where the task has
  read, and a task that is done has sent the end, or an error.
- `UsesAreBilled` – `UsageIsBilled`, assuming `WholeEvents`: no chunk ends within an
  event, and usage is reported once. Without it the code bills something else
  (section 4). `Accounted` says what has been counted by any position.
- `StreamTypes` – the type invariant.

`AdminProofs` – any number of rows, accounts, requests, kills and edits. The three
parts share nothing: a step of the whole is a step or a stutter of each.

- `StartsAreWhole` – `StartsWhole`. `FileInv` says what the file must hold at each
  place of the process, wherever it may be killed, and that another release's
  file never gets beyond the check; `AccountsInv` that accounts have different
  names and that a first one is counted only while there is an account.
- `TablesAreHeld` – `TablesHold`. `TablesInv` adds the channel of every key and pool
  row: without it the import could not be shown to meet an empty table.
- `LoggedOutIsOut` – `LoggedOutStaysOut`: what was ended was given out and is not
  in the store (`SessionsInv`), so no later login can give it out again.
- `AccountsStayGuarded` – `AccountsAreGuarded`: the account whose password the
  handler compares is found by name, the one it writes by id; that names are
  unique (`AccountsInv`) makes them one unless it was renamed.
- `AddingIsHarmless` – `AddingDisturbsNothing`, assuming `Roomy`: no priority comes
  within `MaxEdits` gaps of the end of i32, where the cast wraps (section 4). `LowInv`
  bounds every priority by a `Ceiling` that rises with the edits.

`RequestProofs` – the parts of `MCRequest`:

- `EstimatesCover` – for all prices, caps and token counts: `WellPriced`, `Charged`
  and `Answered` say where estimate, expectation and price come from, and
  `CostMono` that a cost grows with its tokens – through `ProductMono` and
  `ThousandthMono`, since rounding must keep the order.
- `PricesAreListed` – `PaidAsListed`. `Listed` says at each step what the request
  has in hand: the first binding's price, then the answering one's or the
  default, and that nothing but the estimate is paid before the settlement.
- `RoutesAreWhole` – `RoutesEachOnce`, from any snapshot. `Placed`: at each step,
  who may serve waits or is placed, in one place. That sorting loses nobody is
  `Positions` – the number of those ahead tells all apart – and that an injection
  into a set of the same size is onto.
- `DrawsAreProportional` – `DrawIsProportional`, from any snapshot and for any
  weights. `TallyGrows`: the running sum grows by each weight and never shrinks;
  `PickFalls`: a binding is chosen exactly when the pick falls between two sums.
- `NothingOfATalkIsLost` – `NothingIsLost`, for conversations of any length, in
  either direction. It does not follow from itself: nothing in it says what the
  messages are made of, nor that the server reads a translation of the request.
  `TalkTyped` adds that, and `TalkSays` keeps its half about the client: reading the
  request's instructions, texts, thoughts and calls gives exactly the pieces of
  that kind in the order they were said, and its results the calls that are not
  open, each once. Every step adds to both sides the same new numbers
  (`MorePieces`), and translating keeps what is read: `MergedKeeps` (merging consecutive turns), `BegunKeeps` (the
  placeholder), `SplitKeeps` (results taken out of a message).
- `TalksSurviveProxies` – `SurvivesTwoProxies`, from the same: both directions keep
  the readings, and the budgets written for the three efforts are read back as
  the same efforts.
- `RequestsStayWellFormed` – `RequestsAreWellFormed`, assuming `Speakers = {"user"}`:
  a role the code does not know is kept and refused upstream (section 4).
  `TalkAgrees` says, while calls are still open, what the server is to read: to
  Claude, merged turns that alternate, each headed by the results of the calls
  before it, the last one lacking the open ones (`TurnsAgree`); to OpenAI, each
  message followed by the answers to its calls, the last one's calls open
  (`MessagesAgree`). Without the open calls it breaks at the first of two
  results. TLC checked `TalkInv`, the conjunction of the types, `TalkSays`, `TalkAgrees`
  and the property, on conversations of 6 pieces before it was proved.
- `StreamsStayWellFormed`, `AnswersArrive` – `StreamsAreWellFormed` and
  `AnswersArriveWhole`, assuming `Interleaved = FALSE`: upstream does not speak
  between fragments of one call, where the machine is known to go wrong (section
  4). `MessageAgrees` ties machine, upstream and client while a message is unborn,
  live, waiting for its usage or over; `CallsAgree` says that the client knows
  the calls upstream opened, each under its place among them, and no argument
  elsewhere; `EndsAgree` that it is where the machine is.

Recursion. What a recursive function computes is proved by its steps: `JoinedSteps`
and `MergedOneMore` unfold it, and an induction over the lengths reached is said
as a set of numbers or sequences, closed under one step more, that none is missing
from (`ByCounting`, `ByAppending`), since the library's induction takes an operator as a
parameter, which none of the installed provers can instantiate. Sums and sorts
are said as sizes of sets (`Tickets`, `Units`, `Ahead`).

Only model-checked:

- `CooldownEnds`, `RequestsEnd`, `QuotaComesBack`, `ShutdownEnds`: liveness under
  fairness is out of this prover's reach.

## 6. Not modelled

The composition `Gateway` (plan, 10): `Executor` and `StreamTask` treat a bill as
open or closed and `Billing` closes sessions in any order, so that no behaviour of
theirs is missing in it, but that is not shown by a refinement.

In the modelled components: expiry dates, IP lists and model limits of tokens;
encryption and usage counters of keys; images, tool definitions,
`response_format` and the wording of the format instruction in the translation;
the parser of `evalexpr`; the HTTP call that discovers models (any list of names).

Left out for good: HTTP I/O of the adaptors (only the class of an outcome and
the usage in a chunk matter), static files, logging, configuration files, the
read-only statistics, password hashing: single statements or pure I/O with no
state other components race on. Leaving out the last administrator's own removal
is no omission: the handlers allow it, and no document says whether they should.
