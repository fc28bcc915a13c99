# Formal models of pepepow-light-wallet

TLA+ models of the parts of this repository where state is shared across awaits,
across processes, with an exchange or with a node; TLC runs that check them on
small instances; and TLAPS proofs of their most important properties for every
value of the constants. All paths below are relative to `src/`.

## 1. The system

| Component | State it keeps | Operations | Who it talks to |
|---|---|---|---|
| `services/trade-api`: scheduler (`scheduler.ts`) | none but its timer | `runSchedulerTick` every few seconds, without waiting for the last one; per config it awaits the strategy's `tick` | runners, `db.ts` |
| trade-api: runners (`strategies/{mm,dca,grid,devmm}Runner.ts`) | a module-level lock per config or exchange; locals of each tick across awaits; DEVMM also its pending and placed orders | `tick`: check, list the open orders, cancel, price, create, record | exchange clients, `db.ts` |
| trade-api: strategy helper (`strategies/strategyHelper.ts`) | none | `cancelOutstandingOrders`, also in the background | exchange clients, registry |
| trade-api: wrapper and errors (`lib/runner-wrapper.ts`, `lib/errors`) | backoff rows | skip, back off, disable on authentication errors | `db.ts`, strategy helper |
| trade-api: database (`db.ts`) | configs, parameters, registry of strategy orders, executions, keys, DEVMM states | synchronous SQLite statements | everything in trade-api |
| trade-api: routes (`routes/*.ts`) | none | configure, enable, disable, start, stop, cancel, keys, manual orders | `db.ts`, strategy helper |
| `services/trade-bot` (`bot.ts`, `commands/*.ts`) | one pending wizard of each kind per user, in memory; the updates Telegram has not seen confirmed | wizards that configure keys and strategies; commands and buttons that start and stop them | Telegram, routes of trade-api |
| `services/wallet-api` (`server.ts`, `db.ts`) | upstream slots and queue, raw transaction cache, price cache; tables of users, addresses, payment requests | balance, history, utxos, raw transactions, broadcast; accounts and payment requests of the Mini App, commands of the wallet's own bot | pepew-api, the node's RPC, Telegram |
| `pepew-api/pepew-api` | RPC semaphore, a cache, ZMQ subscription | read-only queries, `rpcCall` | the node |
| `apps/web`, `packages/wallet-core`: the send page | the phase of each page that is open; marks on spent outputs in local storage, which the tabs share | list, select, build, sign, broadcast, refresh | the PEPEW Light API, a service outside this repository (`pepewLightClient.ts`) |
| `ops/pepepowd-reindex-monitor.sh` | a state file | classify the node, stop, back up, swap, restart | the node |
| `scripts` (`pack_release.sh`, `deploy_release.sh`, `rollback.sh`, `doctor.sh`) | the directories of releases, the link `current` | pack, deploy, roll back, examine | systemd, the services |
| the other scripts, `infra`, `docs` | none | one-shot administration, static content | |

How they interact. Node runs each process's JavaScript in one thread: code
between two awaits is atomic, and everything shared (module-level maps, the
SQLite file, the exchange's book) may change across an await. The scheduler
overlaps itself, routes run between the steps of ticks, and a cancellation
started by a route or by the wrapper may run beside a tick. The database
survives a crash; locks, queues and locals do not. The exchange is reached by
HTTP: a call may fail before or after it took effect, or never be answered, because
its clients set no timeout. The monitor is a shell
script beside a node that goes on between any two of its commands.

What makes each component correct:

* runners: one tick per config; an order that may be live is known to the
  database or to a tick; the limits on orders hold; a stop leaves nothing behind;
  other people's orders are left alone; every tick whose calls are answered ends and
  gives its lock back;
* strategy helper: a row is closed only when its order is gone; after a calm
  success nothing is open;
* DCA: what is bought is recorded, and the records keep to budget, limit and
  interval;
* slots and semaphore: never more calls than allowed, no idle slot while
  someone waits, service in order;
* broadcast: what a client is told is true of the node's pool;
* batch lookups: each place of the answer has its outcome, the cache is bounded;
* accounts: a user has one default address; a payment request is settled once, by its
  addressee, in time; the bot speaks to a user of that user's addresses;
* send page: a page pays once at a time; no tab spends again what one of them knows to be
  spent; no mark locks away an output that is not;
* wizards: what is saved is complete, over its market's minimum and on a market that
  exists, once for each time the wizard was opened; a key or secret typed at its prompt
  goes nowhere else;
* start and stop commands: what a stop does not report as failed, it stopped and asked
  to cancel; orders are cancelled only where the strategy was stopped; the last button
  for a strategy decides, also when a batch is handled again;
* releases: a completed script means that the services run what the link points at and
  that it answers; a deploy switches to whole directories only and never writes one
  twice; a rollback returns to what the deploy replaced;
* monitor: nothing is moved or replaced while the node may write, originals are
  backed up first, remedies act on errors of the present run, and a node that
  was stopped is started again.

The hard behaviours are the ones listed under `hazards` in `PROJECT.json`, each
at its line.

## 2. Modules

| Module | Models | Composes |
|---|---|---|
| `MmRunner` | market making: `mmRunner.ts`, `strategyHelper.ts`, `runner-wrapper.ts`, the routes and rows they use | ticks, cancel jobs, the user, the exchange, crashes |
| `DcaRunner` | dollar-cost averaging: `dcaRunner.ts`, `routes/dca.ts`, the scheduler's overlap and stale time stamps, cancellations | ticks, requests, the user, the exchange, time, crashes |
| `BudgetedBuyer` | what a DCA promises: purchases under a budget, a limit and an interval | implemented by `DcaRunner` |
| `GridRunner` | the grid: `gridRunner.ts`, its rows and routes | one tick, cancel jobs, the user, the exchange, crashes |
| `DevmmRunner` | the developer-fee market maker: `devmmRunner.ts`, `routes/devmm.ts` | one tick, stop and cancel-unknown requests, the exchange, time, crashes |
| `ApiSlots` | `withPepewApiSlot` of wallet-api | |
| `RpcSemaphore` | `Semaphore` and `rpcCall` of pepew-api | |
| `BoundedGate` | what both promise: a bounded first-in first-out gate | implemented by the two above |
| `PepewApi` | the routes of pepew-api about an address: sequences and races of calls | `RpcSemaphore` |
| `WalletApi` | the handlers of wallet-api: reads, raw transaction lookups, broadcasts | `ApiSlots`, `PepewApi`, the node's pool |
| `ReindexMonitor` | `pepepowd-reindex-monitor.sh` and the node it watches | the monitor's loop, the node, the operator |
| `BotWizards` | the wizards of trade-bot: `bot.ts`, `commands/{keys,dca,grid,mm}.ts`, and what the routes accept | the wizards of one user, the chat, the requests, restarts |
| `BotCommands` | starting and stopping from trade-bot: `bot.ts`, `commands/{stop,dca,grid,mm,devmm}.ts` | updates and their batches, the calls to trade-api, crashes, runners that stop by themselves |
| `ReleaseDeploy` | the release scripts | one script at a time, the units, systemd |
| `MCMmRunner`, `MCDcaRunner`, `MCGridRunner`, `MCDevmmRunner`, `MCWalletApi`, `MCReindexMonitor` | the instances TLC checks | |
| `Accounts` | users, addresses and payment requests of wallet-api: `db.ts`, the routes and the bot's commands | routes, commands that await two answers, the clock, restarts |
| `SendPage` | the send page: `Send.tsx`, `pepewLightClient.ts`, the selection of `txbuilder.ts` | the tabs of one browser, the gateway, its lagging indexer, late transactions |
| `Operator` | what the operator uses, with the properties of its parts | `BotWizards`, `BotCommands`, `ReleaseDeploy` |
| `WalletFront` | what the wallet's user sees, with the properties of its parts | `Accounts`, `SendPage` |
| `MCFrontends` | the instances TLC checks of both, one part at a time | `Operator`, `WalletFront` |
| `MmRunner_proofs`, `DcaRunner_proofs`, `GridRunner_proofs`, `DevmmRunner_proofs`, `RpcSemaphore_proofs`, `ReindexMonitor_proofs`, `Operator_proofs` | theorems about the module they are named after, and its parts | |
| `Wallet_proofs` | theorems about the wallet | `WalletApi` with `ApiSlots`, `WalletFront` |

### MmRunner

A configuration in REAL mode and the exchange. The variables are the database
(`enabled`, `inBackoff`, `ordersPerSide`, `keys`, `registry`), the exchange's
book (`book`: none, sent, live, done), the lock `running`, the locals of every
tick (`pc`, `ops`, `local`, `seen`, `todo`, `cur`, `outcome`) and of every
cancellation job (`jpc`, `ids`, `tries`), and the history of the cancellations
(`clean`, `settled`: how undisturbed each was). One action is the code between
two awaits: `TickStart` is the entry of `tick` up to its first await,
`TickReconcile` the whole reconciliation with the rows it closes, `SendCreate` and
`CreateReply` the two sides of the create request, `TickEnd` the write-back and the
release. `JobStart` ... `JobHardRound` are `cancelOutstandingOrders`, NestEx's three
hard rounds included. `Enable`, `Disable`, `Upsert`, `RequestCancel`, `ChangeKeys` are
the routes. `Crash` clears the memory and leaves database and exchange. Prices,
spreads and amounts are abstracted: whether a slot is skipped for them is a free
choice.

`Listings` is what a listing that says ok may show. NonKYC's shows the orders that are live.
The one of NestEx (`nestex.ts:604`) also says ok after a 404 of every endpoint, after a body that is
no JSON, and when one of its queries failed and another did not, so it may show any of them
or none, and the code takes it at its word: `ExchangeLists`, `JobList` and `JobHardRound` do too.
`strays` is history: the orders of which the process was never told (the reply of the create was lost,
or a crash came before it) or was told that they were gone although they were not (left out of such a
listing, or closed for want of keys).

### DcaRunner

A scheduler tick (`Dispatch`) reads the clock and starts `tick` later: `stamp` may
be old. `ReachCap`, `TooEarly`, `AutoDisable` and `TickStart` are the alternatives
of `tick`'s head, `TickList`/`TickClear` the hard rule that cancels what is open,
`TickPrice` ... `TickEnd` the sweeps of `executeDcaBuyAllIn` and the record of the
purchase. Requests (`Request`, `Answer`) carry out `cancelOutstandingOrders`
themselves, and a tick that reached a cap does too, so its steps (`CancelList`,
`CancelOne`, `CancelAgain`, `CancelDone`) are parameterised by the caller.
Quantities are counted in quote units at the price read by the tick; `cost`
counts in halves, because the order's limit is 1.5 times that price. `Listings` is as above.

### GridRunner

`grid` and `registry` are the OPEN rows of the two tables, `young` those less than
ten seconds old, which the phantom synchronisation spares. A tick goes through
`price`, `list`, `sync` (rows whose orders are gone are closed), `dedupe` and `cross`
(cancel duplicates and collisions), `plan` and `place`; `rows` and `aged` are its
snapshots. A price is a tick of the market, and `Ladder` nudges each target
outward off the ticks that are in use, as `gridRunner.ts` does. `strays` is history: the
orders a fault has made the bookkeeping lose; a listing of NestEx that says ok and is short is
one of the faults. `tidied` says which of `dedupe` and `cross` cancelled something: only after the latter
are the rows read again. `OldRows` are rows that an
earlier version left in the tables.

### DevmmRunner

One exchange (`exchange`), its order book with what no listing has shown yet
(`unseen`), `devmm_state` (`tracked`), and the process's memory: the bootstrap window
(`boot`), the orders it waits to see (`pending`, of which the grace is over for
`over`) and those it placed (`placed`). The tick's phases are in the head of the
module. A listing that fails counts as empty, and NestEx's may say ok and be short
or empty; both are faults (`Misleads`), after which the tick is `blind` to what it placed. `GiveUp` is what becomes of a tracked order that is neither listed
nor pending, `TickStale`/`TickConfirm` Dex-Trade's refresh, `TickPlan` the whole of the
quoting decision with its guards, `SendCreate` ... `TickVerify` the placement. A stop
(`RequestStop`) works on its own copy of the ids (`known`). `hidden`, `lost`, `booked`
and `stopped` are history.

### BoundedGate, ApiSlots, RpcSemaphore, PepewApi, WalletApi

`BoundedGate` has the clients inside and the queue of those that wait. `ApiSlots`
adds the counter and the callbacks of `acquirePepewApiSlot` and
`releasePepewApiSlot`; `RpcSemaphore` hands its permits over without counting.
Each maps `inside` to the calls under way and `waiting` to its queue.

`PepewApi` has the handlers of balance, utxos and history, which call the node
through the semaphore, and whose loop may outlive the race it lost. `WalletApi`
puts them behind the slots: a read that `fetchJson` aborts gives its slot back
while its upstream handler goes on. Beside the reads it has the lookups of raw
transactions (cache with expiry and eviction, batch workers that share an index)
and the broadcasts (two attempts, copies that arrive late, the pool).

### ReindexMonitor

`pc` walks through a cycle: sample process, chain and log, classify, write the
state file. A remedy is a sequence of commands (`todo`): stop, back up, install, move the
derived state away, restart. `setup` holds the flags and files it was started with,
`file` its state file, `kept` what has been backed up. The node works, logs errors
and dies between any two commands, and its operator starts it whenever it is down, in the
middle of a cycle too, since the script holds no lock against that. A stop does nothing when
the sample saw no process, and waits only for the one it saw; `meddled` is history: the
operator has started the node since this cycle looked for one. `MonitorDies` is a kill of
the monitor.

### BotWizards

`wizard` holds the four maps of pending wizards, for one user; `prompt` is what the last
message in the chat asks for, which the code does not keep but the user goes by;
`saving` is the request under way, `config` the row written last, `opened` which wizards
the user has opened since their last save. A button works in every state of its wizard,
because old messages keep their keyboards: `PressExchange`, `PressPair`, `PressParameter`,
`PressGridQuote`, `PressMmQuote` and `PressOps` guard only on what the handlers test. `Text` is the
dispatch of `bot.ts`: the first handler by `Rank` whose wizard is at a step that takes
text has it. `CheckAndSend` is the checks of keys and funds before a GRID or MM is sent,
`Reply` what the route does (`Accepts`) and the end of the wizard, `DcaSet` the command that
skips the wizard, `Crash` a restart of the bot. Amounts are small numbers, and a minimum of
every market says which of them it accepts: `MinOf` is that of the registry or, when trade-api does not
give it (`registryPrompt.ts:53`), that of the bot's own table, which is lower for NestEx; the record and the
request say which `table` an amount was compared with. MM has a minimum of its own on NestEx (`MmMinOf`).

### BotCommands

`inbox` is what Telegram still holds, `got` how much of it was delivered, `done` how much
handled; grammY confirms a batch by fetching the next one (`Fetch`), and a crash delivers
it again. `todo` is the sequence of calls the handler has still to make: `Plan` says what each
button and command begins with, `Follow` which calls come after a listing, `AfterFailure`
what a failed call does to the rest. `lines` are the failures that are noted for the answer (`Noted`), and
`Named` those it tells: the stop menu's names two for each exchange (`stop.ts:181`), the others
all. `Effect` is what a request does in trade-api; a request whose reply was lost, or whose sender crashed, may arrive
later (`stray`). `owes` holds the items whose orders nobody has asked to cancel since they
ran. `errors`, `touched` and `sought` are history.

### ReleaseDeploy

`tree`, `holds` and `current` are the directories of releases and the link, `runs` and `up` what each
unit was started from and whether it listens, `script` the script under way with its
position. A deploy goes through `Deploy`, `Preflight` (the doctor's exit code), `MakeDirectory`, `CopyTree`, `SwitchTo`,
`RestartUnit` for each unit, `Postflight`, `SmokeTest` and `Exit`; a rollback enters at `Rollback` and
`LinkBack` and shares the rest. `Interrupt` ends a script anywhere and leaves what it has made.
The names of directories are the seconds of a bounded clock, with the suffix that
`deploy_release.sh` adds when a name is taken. `SystemdStarts` is `Restart=always`.

### Accounts

The tables: `known` and `username` (`user`), `owner` and `default` (`user_address`),
`request` (`payment_request`). A route is synchronous and one action; `ChangeDefault` has
the alternative of a crash between the row of the user and the transaction. `SetDefaultAddress` is that
transaction, which `ClaimRequest` runs inside its own. `sessions` are the users whose token
is good. A command or a button of the bot asks for the address (`Begins`,
`AddressArrives`) and then, for a balance or a history, what is known of it (`Told`): `talk` is what it
holds between the two, `had` the history of the defaults the user has had meanwhile. The
bot keeps no state of a user, so one command of each user at a time stands for those that
overlap.

### SendPage

A job is one call of `handlePrimarySend` or `refreshUtxoState`, and `at` what it awaits. `phase` is
the React state of the page a tab shows and all that disables its buttons (`Enabled`, `BusyPhases`); the
jobs of that page and its form write it. A link of the header leaves the page (`Leave`): its jobs go on, but
are not `here` any more and show nothing, and the page that is opened next begins idle. `marks` is what the tabs share in local
storage. `SendListed` is the code from the listing to the next await: it
reconciles the marks (`Kept`), pauses for another try, gives up, or selects the largest outputs
first (`Selections`). `Answered` marks what an accepted transaction spent. `RefreshDone` takes back the error
that the refresh closed over (`erred`). An output is `new` or `stale` while the node and the
gateway's indexer differ about it; a transaction whose sender gave up may still arrive
(`late`). `told`, `overlap` and `reopened` are history.

## 3. Runs

Every property of a passing run has a mutant in `PROJECT.json`: an operator beside
the one it mutates (`AlwaysFree` beside `LockFree`), which is not used by the model.

| Run | Asks |
|---|---|
| `mm_exchanges` | two overlapping ticks and a cancellation on NonKYC, whose cancels may fail, and on NestEx, whose listing may fail too or be short, with lost replies and a crash: but for strays every live order has an open row or a tick waiting for it (`LiveIsTracked`), no row is closed while its order is live (`ClosedIsGone`) and the user's orders per side are kept (`SideLimit`); a stop that began in calm and saw no failure is clean (`StopIsClean`) |
| `mm_live` | every tick ends, a stop drains (`LockReleased`, `StopDrains`), with every fault, key changes and a crash, unless a call is never answered |
| `dca_nonkyc` | listings that fail, late and overlapping scheduler ticks: an order in flight is the one the tick at work is at (`OrderHasItsTick`); what is bought is recorded (`NothingUnrecorded`); the records of one purchase and the next keep to budget, limit and interval (`ImplementsBuyer`) |
| `dca_faults` | NestEx with every fault, key changes and a crash: a DCA whose time is up is disabled (`DurationEnds`), which needs that every tick gives its lock back, and so that its calls are answered |
| `grid` | leftovers, fills, edits, cancellations and one fault, short listing or crash anywhere: but for strays a side's levels (`GridLimit`), no new order at a tick that is taken (`OneOrderPerTick`), `LiveIsTracked`; `StopIsClean` |
| `devmm` | the three exchanges, once without faults and once with two: one quote per side (`OneQuotePerSide`), none forgotten without a fault (`LiveIsTracked`), clean stops (`StopIsClean`), on NonKYC only true fills are booked (`FillsAreReal`) |
| `walletapi` | three reads, two lookups or three broadcasts: both limiters count exactly (`BothCountsExact`) and serve in order (`ImplementsGates`), every handler ends (`HandlersEnd`), a batch is complete (`BatchIsComplete`), what is said of a broadcast is true (`BroadcastIsTrue`) |
| `monitor` | two situations, an operator who starts the node at any time, and one kill of the monitor: originals are kept (`OriginalsKept`); unless the operator meddled with the cycle nothing changes under a running node (`NoWriteUnderNode`), the node starts on a clean state (`StartsClean`), remedies act on this run's errors (`EvidenceIsFresh`), a stopped node is started again (`StopIsUndone`) |
| `frontends` | two wizards pending together, or GRID or DCA with the keyboards of two exchanges, a registry that cannot be had, old buttons, texts at every step, expiry, lost replies, restarts: what is saved is over its minimum, complete and on a market that exists (`SavedIsSound`), no secret goes elsewhere (`SecretsStayPrivate`), a wizard saves once (`DoubleTapIsHarmless`). Commands and buttons, failed calls, late requests, runners that stop, a crash: a stop is heard or its failure named, two of an exchange at most, and cancels only where it stopped (`StopIsHeard`), the last button decides (`LastWordWins`). Deploys and rollbacks of a good and a faulty version, interrupted anywhere: when a script says complete, the units run what the link points at and it answers (`CompleteIsTrue`), a deploy switches to whole directories that are never written again, and a rollback undoes it (`RollbackUndoes`). Two users and two addresses with names, or with a payment request and a clock: one default each (`OneDefault`), a request settled once (`ClaimsAreFinal`). The send page, in one tab with failures, reloads, the page left and opened again, and the end of marks, and in two tabs: one payment at a time on a page (`OneSendPerTab`), and no output selected that a tab was told it spent (`AvoidsSpent`) |

Some properties of the models are stated by theorems only, since no run needs to
check for one instance what is proved for all: `OneTick` and `StopBeforeNextCreate` of
market making, `ForeignUntouched` of DEVMM, the safety of `ImplementsBuyer` with faults, and
`RefusedOnlyWhenFull` of the slots, `SpeaksOfOwn` of the accounts, `NothingIsLockedAway` of the send
page, and the type invariants of most modules. `QuoteFits` and `CompleteWhenSaved`, two parts of
`SavedIsSound`, have theorems of their own.

Runs that expect a violation, each a disagreement between the code and what the
repository says (`findings` quotes both):

| Run | What TLC shows |
|---|---|
| `dca_v_cost` | fills are recorded at the price read, the limit is 1.5 times as high: the cost passes "Max Spend" |
| `devmm_v_pending` | on NestEx a filled quote that nothing stands opposite to is made pending again whenever it expires, so its side is never quoted again |
| `monitor_v_backup` | the report says "Backed up" of a file that `cp` failed to copy, and the original is replaced |

What a reader should also know, and why some properties have the conditions they
have:

* A market-making stop that completes while a create is on its way does not
  cancel that order (`StopIsClean` speaks of stops that began in calm), and an order whose
  create reply is lost has neither row nor prefix on NonKYC, so no stop finds it.
* `listNestExOpenOrders` says ok with some of the orders, or none, when its endpoints answer 404,
  when a body is no JSON, or when one of its queries failed (`nestex.ts:694`, `:708`, `:748`). Market making
  and the grid then close the rows of live orders and place again, past the user's limit, and a stop takes
  it for the proof that nothing is left. The properties hold but for the orders that such a listing
  left out (`strays`).
* The clients of the exchanges call `fetch` with no timeout. A call that is never answered keeps
  the lock of its config until trade-api is restarted: the scheduler goes on with the other configs, but this one
  runs no more, and a DCA whose tick hangs does not end in time. The liveness properties except it (`Hangs`).
* A failed NonKYC listing counts as no orders, so that the next tick fills every slot
  again, past the user's limit; `SideLimit` is stated where a failed listing falls
  back on the registry (`FallsBack` in the proofs).
* Without keys `cancelOutstandingOrders` closes rows without asking the exchange: such
  orders are strays too.
* A tick of market making, DCA or grid writes back the parameters it read at its
  start, over an edit made meanwhile.
* A DCA tick never reads `enabled` again after its start: a purchase under way when
  the stop is answered goes on to its end. A listing that fails counts as no open
  orders, so a purchase may begin beside one.
* A grid of more than 128 levels closer together than a tick could put two targets at
  one price, because the nudging gives up; `GridBounds` says that there are no more ticks.
* In wallet-api `POST /v1/utxos` always answers an empty list, a balance is 0 with
  status 200 when the node fails, and a history whose body times out is an empty one
  (`server.ts:375`, `:1194`). A broadcast is answered "already in mempool" when a
  different transaction conflicts with it, which is why `BroadcastIsTrue` allows for `Rivals`.
* What the monitor stops is the process that its sample saw: a node that its operator starts after
  it is not stopped, and files move under it (`NoWriteUnderNode` excepts it, `meddled`).
* A DEVMM stop that comes during a tick does not keep it from placing, and the tick's last write of
  the status is over the stop's.
* The monitor says "Restarted" whether or not the start succeeded, installs its
  artifacts without comparing their hashes, and holds no lock against a second monitor.
* The keys wizard takes every text while it is pending (`bot.ts:168`): an amount typed at a
  DCA prompt that was opened after it is stored as an API key or secret (`SecretsStayPrivate`
  is about the other direction).
* Pressing another pair keeps the order size of an MM, and an old button for the orders
  per side then saves it unchecked (`mm.ts:426`), which is why `QuoteFits` is of DCA and GRID.
* `/dca_set` in USDT checks the amount against NonKYC's minimum, and the route saves it for
  the disabled Dex-Trade (`routes/dca.ts:38`), whose minimum is higher, and where the runner never
  trades. `SavedIsSound` says that nothing else saves a disabled exchange (`OnlyRealMarkets`).
* While trade-api does not give the registry, the minimum of NestEx is the bot's own, 0.001 for
  0.0015 (`markets.ts:63`, `registry/exchanges.ts:88`), and an amount between them is saved. `QuoteFits`
  compares with the table that was used.
* The stop menu's summary names two failures for each exchange: of a third there is only the warning.
* The doctor counts the port of the running service as a conflict (`doctor.sh:107`), so it
  never exits 0 on a healthy host.
* A GRID may be saved with levels or step never chosen (an old quote button completes it):
  the API and the runner have defaults, and `CompleteWhenSaved` is of DCA and MM.
* A request whose sender crashed may arrive after the user's next button and undo it;
  `StopIsHeard` and `LastWordWins` leave out what such a request or a runner has `touched`.
  A `/grid_start` without a name, handled again after a crash, may start another
  configuration than the first time, which is why `LastWordWins` is of buttons. A second Stop All does not repeat a
  cancellation that failed twice, because the configuration is disabled by then.
* The preflight of a deploy over a running service fails unless `ALLOW_DOCTOR_FAILURE=1`. A
  rollback counts every directory, also one copied in part or withdrawn before;
  `RollbackUndoes` is of a deploy over the newest one. `grep -q` breaks the pipe under `pipefail`,
  so an installed unit may be taken for absent, with a warning. The units of trade-api and trade-bot
  run from another checkout, so a release does not change them, and they are not among `Units`.

* `upsertUser` writes the name it is given, and `setDefaultAddress` and `createPaymentRequest`
  give none (`db.ts:83`, `:110`): choosing an address forgets the user's name until the next profile.
* Whoever claims an address that is in the table takes it from its owner (`db.ts:121`), who
  then has no default: `OneDefault` says at most one.
* `refreshUtxoState` asks for the phase that it closed over (`Send.tsx:462`): one that began in an error
  enables the button under a send that began meanwhile, so a second payment may start. `OneSendPerTab`
  excepts such a tab (`reopened`).
* A link of the header leaves the send page while a payment is under way (`Header.tsx:58`), and the page that is
  opened again begins idle (`Send.tsx:265`), so a second payment may start beside the first. `OneSendPerTab` is of
  one page; `AvoidsSpent` holds across them.
* Outputs are marked only after a success, so a payment whose answer timed out
  is not marked: it may still go through, and the next one may select other outputs and pay again.
* Each listing drops the marks of what it does not show. Of two listings under way together
  the older may bring back an output whose mark the younger has dropped, in which case the
  node refuses the payment; `AvoidsSpent` is of listings that come one at a time (`~overlap`).

### Bounds

* Market making: two ticks are enough for an overlap, since the lock admits one
  and the other is the one it keeps out. One cancellation at a time keeps the
  runs runs short; the theorems allow any number, and both sides. Three buy orders exceed the larger of
  the limits in `OpsChoices = {1, 2}` by one, which is what `SideLimit` must see; the other side has
  none, since the sides meet in nothing but the loop over the slots. One crash, and any number of lost replies and
  short listings. `View` forgets which orders that are gone were strays. Order ids
  are used again when nothing refers to the old order, in every runner, so
  behaviours are not limited to that many orders. `mm_live` has one tick and no
  symmetry, because a lock that is never given back needs only one.
* In `dca_nonkyc` `Budget = 6` with a minimum of 2 makes three sweeps possible
  (4, 1, 0 or partial fills between), three seconds with `Interval = 2` give stale
  stamps, and `Caps = {10}` admits a second purchase where the first filled in part, and refuses it
  otherwise. `MaxBought` bounds what orders buy in all and is out of its reach. In
  `dca_faults`, whose faults multiply the states, a budget of 3 is one sweep, one id
  stands for every order (when a lost order occupies it, later requests fail, which
  `CreateUnsent` allows at any time), and the DCA's time is up at the second tick of
  the clock.
* `grid` has three ticks, the base in the middle, so one level per side, and
  leftovers that collide at the third; two copies tell an order from its successor.
* `devmm` takes two instances in one run (`Bounds`): both sides, two buys and an
  order of the user's without faults; one side with two orders, one more than
  `total`, and two faults. `VIEW Matters` drops the past of orders that nothing refers to.
* `walletapi`: one slot, one place in its queue, one permit, so three reads fill
  all of them; two transactions and a cache of one evict; three broadcasts, two of
  which conflict, one of which the node refuses. The families share no variable, so
  each behaviour has one of them.
* `monitor`: the two situations a remedy is meant for, one block, one kill, and a node that its operator
  starts whenever it is down; no progress line of a reindex, which only classifies. `monitor_v_backup` lets commands fail.
* `frontends`: the parts share no variable, so a behaviour has one of them
  (`part`). Of the wizards, the pairs DCA and keys, MM and keys, DCA and MM on one exchange: two
  are enough for a text to go astray; and GRID, or DCA, with two exchanges whose pairs overlap in
  part. Two pairs with different minima, of which one differs between the two tables, and the amounts 1 and 2, of
  which one fits one pair, or one table, only.
  Of the commands, an MM and a DEVMM with two updates, the least for one to be handled again
  after the other, one failure and one crash (`Near`); and a DCA and two GRIDs on two exchanges with
  one update and two failures, which can hit both tries of one cancellation (`Apart`); and a DEVMM and a
  GRID with three failures, of which the answer names two of each exchange (`Thrice`). Of the
  scripts, two seconds and the suffix give four names, enough for an interrupted deploy between two
  that completed and a rollback past it; two units, one of which is restarted first.
  Of the accounts, two users and two addresses are enough for an address to move and for a
  second default, and one request with one tick of the clock to be claimed, claimed again and expire.
  Of the send page, one tab with two jobs (a refresh beside a send, or two sends), three outputs of
  which the third is change, one retry, and an amount that after the first payment takes all that is left,
  change included, which is one input too many; and two tabs, each of which may pay with either of two
  outputs. The properties are stated once, in `Operator` and `WalletFront`, for the constants of the cfg;
  the parts with fewer items, tabs or outputs are instances that narrow them.
* One crash (`MaxCrashes = 1`) where crashes are counted apart: a second meets a
  state the first could have left.

### Fairness

Nothing is assumed of the exchanges: their clients call `fetch` with no timeout (`nestex.ts:218`,
`dextrade.ts:154`), so a call may never be answered. Market making has weak fairness of the steps a tick
takes without a call (`TickGoesOn`), and the DCA of those and of the timers: the scheduler's interval, which starts
ticks whether or not the last ended, the pause after an order, the clock, and the end of a backoff, which is a time
stamp in the database. A tick one of whose calls is never answered (`Hangs`) is the exception that the
liveness properties make, and the only one: whatever answers come, and whatever they are, the tick ends. Nothing is
assumed of users, fills, crashes or key changes. `devmm_v_pending` assumes all that could speak against its
counterexample: that the exchange answers, ticks go on and the grace of a pending order passes again and again.
For the slots of wallet-api,
`fetchJson`'s timer ends every fetch; for the semaphore, the header and body timeouts
of the RPC client; a handler's own steps are ready code. The monitor's loop is
weakly fair: nothing is assumed of the node or the operator. `BotWizards`, `BotCommands`,
`ReleaseDeploy`, `Accounts` and `SendPage` state no liveness and assume no fairness.

## 4. Proofs

All proofs are for every value of the constants; those the argument needs are
named assumptions of the modules (finite sets of orders, positive counts, the
checks the routes make of the parameters). Each proof module states its
inductive invariant as named conjuncts; TLC checked them on the instances of the runs
before they were proved.

**MmRunner_proofs**
* `TypeCorrect`, and `Mutex` (`OneTick`) from the invariant that a tick past the lock
  holds it, and that a step of a tick gives it back exactly when it leaves.
* `StopIsPrompt` (`StopBeforeNextCreate`): the only action that sends reads `enabled`.
* `NoFalseClose` (`ClosedIsGone`), with every fault, short listing and crash. Strengthening: `SentHasNoRow` (a request on its way has no row) and
  `ListingCovers` (a row opened before a listing was taken is on it, unless its order
  is gone).
* `NothingEscapes` (`LiveIsTracked`): every step that loses sight of an order makes it a stray.
* `StopLeavesNothing` (`StopIsClean`): while a calm
  cancellation runs nothing can start, and every order still live that the strategy has in sight is on its list.
* `LimitHolds` (`SideLimit`), for limits of which one is the greatest (`OpsHaveMax`)
  and where a failed listing falls back on the registry (`FallsBack`). Strengthening:
  from the reading of the rows on, the snapshot a tick counts in covers every order
  that is or may become live (`Snapshots`, `Fallback`), and `Room` counts what it has
  created since.

**DcaRunner_proofs**
* `TypeCorrect`. The type of `left` (what is left of the budget) is not inductive:
  it needs `Fits`, that a tick's order asks for no more than is left, and that no
  order buys more than it asks for.
* `OneTick`, from `Locked`.
* `RunnerImplementsBuyer` (`ImplementsBuyer`), with every fault: `Agreed` says that what
  a tick checked before its purchase (limit and interval) still holds until it
  records it, because only the tick with the lock records; so `TickEnd` is `Buy`,
  `Configure` is `SetCap`, and everything else a stutter.
* `OneOrderAtATime` (`OrderHasItsTick`) when cancels succeed, replies arrive and nothing
  crashes; listings may fail. `Handled`: an order in flight is in the hand of a tick
  that creates or settles it, a settled one has a name to cancel it by.
* `BooksAreComplete` (`NothingUnrecorded`) under the same assumptions. `Accounted`: what
  has been bought is covered by the records, what the tick at work has taken from
  its budget, and what the order in its hand has bought; `OneSweep` covers NestEx,
  which gives the whole budget to one order.

**GridRunner_proofs**, with every fault, short listing and crash, for leftovers within the limit
(`LeftoversFit`)
* `TypeCorrect`, `NothingEscapes` (`LiveIsTracked`), `StopLeavesNothing` (`StopIsClean`).
* `TicksAreUnique` (`OneOrderPerTick`) and `LimitHolds` (`GridLimit`). What is planned at
  one await is carried out over several others, so the invariant says what stays true
  of a plan meanwhile: its targets are free and apart (`PlanIsFree`), and together
  with what is on the book it fits the limit (`PlanFits`). That needs `Snapshots` (a
  snapshot, however old, covers the table and holds nothing that is on its way) and
  `Accounted` (who answers for an order: a row, the tick, or the history of lost ones).

**DevmmRunner_proofs**, with every fault and crash, on every exchange
* `TypeCorrect`, `NothingIsForgotten` (`LiveIsTracked`), `OneOrderOfASide`
  (`OneQuotePerSide`), `StopLeavesNothing` (`StopIsClean`).
* `FillsAreTrue` (`FillsAreReal`) and `ForeignIsLeftAlone` (`ForeignUntouched`).
* The invariant: an order no listing has shown is pending, being placed, or accounted
  for by a fault (`Visibility`); so a tick whose listing did not fail has
  every open order it tracks in its listing or among the pending ones (`Belief`), and
  gives up only orders that are gone. `Room` carries this on to the placement: on a
  side that has been checked every open order is listed or pending, so a side that is
  to be quoted has none. `Targets` says that ticks and stops cancel only what is the
  strategy's, `Apart` that nothing has heard of an order on its way, `CalmStops` that a
  calm stop has everything open on its list.

**RpcSemaphore_proofs**
* `PermitsAreConserved`, `NoneWaitsInVain` and `SemaphoreImplementsGate` for the
  semaphore, with at least one permit and finitely many calls (`Sound`).

**Wallet_proofs** begins with the slots by themselves (`Spec` is `ApiSlots`'s):
* `TypeCorrect`, `CounterIsExact` (`SlotsCounted`), `NoneWaitsInVain` (`NoIdleSlot`),
  `RefusalsAreJustified` (a request is refused only when the queue is full), and
  `SlotsImplementGate`, the safety part of the refinement.

It then lifts these and the semaphore's to the composition: every step of the handlers is a
step of each limiter or leaves it alone (`SlotsFrame`, `SemaphoreFrame`). `SafeAll` is
the specification without its fairness.
* `CountsAreExact` (`BothCountsExact`) and `GatesAreImplemented`, the safety half of
  `ImplementsGates`.
* `BroadcastsAreTrue` (`BroadcastIsTrue`), from what each attempt, its copies on the way
  and its answer say of the pool; `BatchesAreComplete` (`BatchIsComplete`), from the
  indices that the workers have claimed; `AllTypesCorrect` (`TypeAll`), the bound on
  the cache included.

It then takes the accounts and the send page, each as an instance:
* `OneDefaultEach` (`OneDefault`), `ClaimsSettle` (`ClaimsAreFinal`), `OwnAddressTold` (`SpeaksOfOwn`) and
  `AccountsTyped`, where the clock counts in integers (`ClockSound`). `Noted` is what the bot's words need: what is
  now a default of a user with a command under way has been noted since it began, which every
  move of an address must keep.
* `OneSendEach` (`OneSendPerTab`), `SpentIsAvoided` (`AvoidsSpent`), `MarksAreSpent`
  (`NothingIsLockedAway`) and `PageTyped`, for any tabs (at least one), jobs, outputs and forms
  (`PageSound`). `Busy`: a page that sends shows a busy phase until it is left, unless a refresh has cleared it. `Truthful` and `Shown`
  tie what jobs, marks and tabs know of an output to what the node and the indexer do. `InTurn` is the
  strengthening that the marks need: while listings have come one at a time, what somebody was
  told he spent and the gateway still lists has its mark, and a listing that has arrived
  shows all that is being spent and still listed; so reconciling with it drops no mark too early.

**ReindexMonitor_proofs**
* `NodeIsDown` (`NoWriteUnderNode`) and `EvidenceHolds` (`EvidenceIsFresh`), whatever
  command fails. `RemedyInv`: a remedy under way is a tail of the sequence its sample
  asked for, in its order (`Ordered`), and once its stop is done the node is down unless the
  operator meddled.
* `BackupsComplete` (`OriginalsKept`) and `StartIsClean` (`StartsClean`) when the commands
  succeed (`~CommandsMayFail`; `monitor_v_backup` shows why): what is still to be
  installed has been backed up or will be before (`Backed`), and every directory of
  derived state still in place will be moved away (`Moved`).

**Operator_proofs**, of the wizards, for any exchanges, pairs, amounts and minima, with restarts and
lost replies
* `TypeCorrect`; `AmountsFit` (`QuoteFits`), `SavedIsComplete` (`CompleteWhenSaved`), `OneSaveEach`
  (`DoubleTapIsHarmless`), `SecretsAreKept` (`SecretsStayPrivate`).
* `ConfigurationsAreSound` (`SavedIsSound`, the conjunction with `OnlyRealMarkets`), for keyboards without
  disabled exchanges, which is what `BotAssumption` says of them; `/dca_set` may name any market.
* The invariant follows a configuration from the draft to the row. A DCA past the step
  of its amount has one over the minimum of the pair it has now, and the parameters of
  the steps behind it (`Drafts`); GRID and MM are looked at by the press that completes
  them, MM without its amount, which the code does not look at again. `Saving` and `Saved` say of the
  request under way and of the row what was checked when it was sent (`Asked`); `Once`, that a
  pending wizard was opened since its last save, or waits for the answer that ends
  it; `Private`, that a chat that asks for a key has a keys wizard waiting for it, or
  no wizard at all, after a restart.

and of the commands, for any strategies on any exchanges and any number of updates, failures and
crashes (`CommandsSound`):
* `StopsAreHeard` (`StopIsHeard`) and `LastWordsWin` (`LastWordWins`). The calls a handler still has to make
  are a well-formed rest of its plan (`Working`, `Rest`): they address only items of its
  update, and of an item come the disable and right after it the cancellation, so that
  a failed disable takes the cancellation with it. `Owed`: while a stop is handled each item has a call
  ahead that will disable it, or one that will cancel, or nothing left to do, or its failure is noted (`OnTheList`),
  and a note is told or is one of more than two of its exchange. `Started` is
  the same of a start. `Obeyed`: of what has been handled, the last word for an item holds, and
  an update under way excepts its own items; a crash empties what has been handled, so the
  batch may be handled again in its order.
* The plans are built with `FlattenSeq`, which the community modules define by recursion. What is needed
  of it, that every call comes from a part and that the form of the parts is kept, is
  proved from its defining equation by a least counterexample: a length at which the claim
  fails and below which it holds exists because the numbers are well-founded. No theorem of induction is used.

and of the release scripts, for any versions, units and number of names (`ReleaseSound`):
* `ReleasesAreInService` (`CompleteIsTrue`) and `RollbacksUndo` (`RollbackUndoes`). `OnDisk`: the link, what it
  replaced and what runs are directories that exist, and nothing faulty listens. `Prepared`: what a deploy is about to
  link is its own copy and the newest name. `Restarted`: from the link on, a unit
  runs the release, is down, was warned of, or is still to be restarted, also when systemd starts
  units meanwhile. `UndoIsNext`: nothing lies between the link and what it replaced, so that a
  rollback to the largest earlier name finds it.

Only model-checked: the liveness properties `LockReleased` (of market making), `StopDrains`,
`DurationEnds`, `HandlersEnd` and `StopIsUndone` and the fairness part of the
refinements, because the prover does not reach liveness under fairness or ENABLED. Every
invariant and action property that a passing run checks is stated by a theorem, under the
assumptions above; for `ImplementsGates` it is the safety part. No module uses RECURSIVE.

## 5. Not modelled, and the plan

Not modelled: formatting, logging, the texts, status and reports of the bot and its
prompts for single parameters of DEVMM, which keep no state across updates that a strategy depends
on, signing, HTTP details, the scripts that deploy a service by itself (`deploy.sh`,
`deploy-bot-update.sh`), infrastructure, locales and styles. Prices and
quantities are abstracted to what the properties tell apart; the PAPER mode of
market making never touches an exchange. `walletStore.ts` and `pending.ts` of the web
wallet are not used by its pages.

What would come next:

1. A wallet that is used in two browsers, which share no marks.
2. The scheduler's MM/DEVMM occupancy, and two strategies on one NestEx pair.
3. The price cache, the hourly and daily limits of trade-api.
4. The exchange side of the DCA under a crash.
