# Verification of go_finance_bot

TLA+ models of the trading engine of this repository, TLC runs that check them
on small instances, and TLAPS proofs of the results that should hold for every
value of the constants.  Paths below are relative to `src/`; line numbers refer
to the commit the models were written from.

* [The system](#the-system) -- its parts, their state, how they interact
* [The models](#the-models) -- which module stands for what, and how
* [The runs](#the-runs) -- what each checks, with which bounds
* [What the code does otherwise](#what-the-code-does-otherwise) -- disagreements
* [The proofs](#the-proofs)
* [Not modelled](#not-modelled) and [the plan](#the-plan)

To check: `tlc -config <file>.cfg <MC module>.tla` and `tlapm <module>.tla`.
`PROJECT.json` lists runs, mutants, the map from definitions to source lines,
the findings, the hazards and the theorems.

## The system

The bot is one process.  An evaluation loop turns ticks into signals, signals
into orders and broker answers into records; around it work HTTP handlers, one
goroutine per resting limit order, and the screening and autotune passes.  They
share one `Engine` under `e.mu`, and most of what is hard here happens because
that lock is *not* held across calls to the broker, the store or the provider.

| Component | State | Operations | Talks to | Modelled in |
|---|---|---|---|---|
| risk ledger (`internal/risk/risk.go`) | day, spend of the day, reservations by id | Authorize, ReserveBuy, Release, RecordBuy, SpentToday, Restore, rollDay | called by the loop, the handlers and the limit watchers | RiskLedger, EntryRules |
| portfolio guard, sizing (`internal/risk/portfolio.go`, `sizing.go`) | none | limits on correlation, class and sector; volatility sizing; slots | a snapshot of the portfolio, the labels | EntryRules |
| labels (`engine/names.go`, `screenclass.go`, `settings.go`, `portfolio_guard.go`) | hand-written and learned sectors and classes, the merged maps, the guards built from them | resolve, learn, edit, merge, install, save, restore | provider search, guard, risk manager, screener, store | Labels |
| portfolio cache (`internal/portfolio`) | cash, holdings, marks | SetCash, SyncPositions, MarkPrice, Snapshot | written by every sync and every tick, read by everything | RiskLedger, EntryRules |
| order lifecycle (`internal/engine/engine.go`, `execute.go`, `exits.go`, `reconcile.go`, `adopt.go`, `orders.go`, `scalein.go`, `positionpersist.go`) | open-position records, sell markers, unconfirmed orders, resting watchers | act, ManualOrder, submitPlan, watchLimitOrder, exitPosition, recordOpen/Close, adopt, forget, ClearUnconfirmed | broker, ledger, store, protections, journal | OrderLifecycle, LivePosition |
| what is told of orders (`engine/blockedonce.go`, `untradeable.go`, alert and record of `engine.go`) | last reason per key, last failure per symbol, refused instruments, add backoff | recordOnce, clearBlockedOnce, announcedOrderError, noteUntradeable | notifier, journal | Announcements |
| protections (`internal/protect`, `engine/protsave.go`) | peak, day start, realized P&L, halt and its day; locks; what was last saved | Observe, RecordClose, Resume, Clear, LowerPeak, Export/Import, throttled save | fed by syncs and closes, trips the breaker | HaltControl, Protections |
| test mode (`engine/testmode.go`) | the window, its deadline, what was set aside | Enable, End, expiry | swaps broker, book and spend under everybody else | TestMode |
| screening (`engine/screen.go`) | last result, single-flight flag | rescreen, diffUniverse | screener, the watchlist | Watchlist |
| screener (`internal/screener`, `autotune/screenprobe.go`) | none between passes | pool, filters, probe, ranking, class caps, sector budget | history, replays, searches, labels | Screening |
| symbol housekeeping (`engine/losstune.go`, `dropsymbol.go`, `roundtrip.go`) | losing runs, tune requests | note a close, drop, ask for a tuning | config file, store, autotune | Watchlist, ConfigStore |
| bar store, price cache (`engine/barstore.go`, `prices.go`, `bars.go`) | a ring and a building bar per symbol; rate, price, peak | add, remove, seed, tick, rescale | feed, history, strategy | Bars |
| exit rules (`internal/exits`) | per position: peak, tranche taken, floor | Decide, NextPartial, RebaseOnAdd | called by checkExits and by the backtester | ExitRules |
| strategy (`internal/strategy/strategy.go`, `higher_timeframe.go`) | what was built from the settings | build, evaluate | detectors on bars, advisor, predictor | Signals |
| AI advisor, ML (`internal/ai`, `internal/ml`) | verdict cache with background refresh; models and what they were fitted on | Ask, refresh, forget; fit, vote | the LLM endpoint | Advisor |
| autotune (`internal/autotune`) | run slot, loss queue, retries; base of a search | schedule, loss-triggered pass, search, judge, apply | config file, overrides of the engine, replays | ConfigStore, Search |
| backtester (`internal/backtest`) | one replay's book; trials of a search | Run, report; grid, guided, refining and walk-forward searches | strategy, exit rules, risk, protections | Backtest, BacktestReport, Search |
| market data (`internal/market`) | feed connection, subscriptions, candle cache, cool-down; calendars | Subscribe, Quotes, Candles, OrderingAllowed | providers | LiveFeed, PriceHistory, TradingHours |
| brokers (`internal/broker`) | resolved names, learnt precision, exchange schedule; tokens; the simulator's book | SubmitOrder, brackets, ModifyOrder, TradingOpen, positions, cancel, list | venues | Brokers, Submission, TradingHours |
| notifications (`internal/notify`) | two lanes, counters | Send, deliver with retry, swap, Close | sinks | Notifier |
| configuration, API, start (`internal/config`, `internal/api`, `cmd/bot`) | config.yaml; the settings in force; handlers | patch, validate, write; the forms; trading switch; start | engine, autotune | ConfigStore, Watchlist, HaltControl |
| storage, error log, rendering | tables; a ring of lines | -- | everything | -- |

**What makes it correct.**  Ledger: no limit on money is exceeded by what the
*account* does, not by what the bot believes.  Lifecycle: every fill is booked
exactly once or reported, no sell is stacked on a working one, no record shows
shares that are not there.  Protections: a loss over a limit halts, nothing
else does, and only the operator ends it -- across restarts and edits.  Test
mode: nothing simulated survives its window and nothing real is lost to it.
Tracking: what is held is watched, what the operator picked stays, what was
given up stays gone.  Configuration: what runs is what a restart would load, and
the file always starts the bot.  Searches and replays: what is proposed is what
was replayed, and a replay fills nothing the market did not offer.  Services: a
halt accepted is tried at every sink and every alert is accounted for; a cache
misses no more than its age allows; all of a symbol's prices are in one
currency; a condition is told once and not mistaken for another.

**What is hard.**  Reads under a lock that are used after it (headroom, what is
held, the base of a search); two-step updates of memory and store; broker
answers that are partial, late or lost; timers that race answers (limit
timeout, adoption grace, pending-fill grace, test window); restarts that keep
records but lose markers, reservations and unconfirmed orders; sequences of
legal operator requests.  `PROJECT.json` lists each at its line.

## The models

Every model describes its environment by a record that is fixed in `Init`
(`setting`) or by a set of faults (`Faults`): what may go wrong, the
configuration, and the bounds.  Invariants say in which environments they hold;
an environment that is missing from such a condition is one in which the code
does *not* keep the promise, and has a row in
[the table](#what-the-code-does-otherwise).  A bound is a field named `max...`
or a constant marked `bound`.

A step is what happens under one lock or in one call of broker, store or
provider.  `path[t]` is what thread `t` does next, and the locals it carries
from what it read to where it uses it.

### RiskLedger

`internal/risk/risk.go` and the two buy paths that use it (`act` and
`ManualOrder`).  `day`, `spentToday` and `reserved` are the manager's fields;
`cash` and `qty` of the cached portfolio, `venueCash` and `venueQty` of the
account are kept apart, since every limit is authorised against the one and
must hold of the other.  A path syncs, sizes, authorises (`WithinCaps`, clamping
as `buyCapRules` does, with commission and slippage in the divisor), reserves,
submits, is confirmed in full, in part or not at all, releases, books and syncs.
Exits, midnight and restarts happen around it.  Prices are one number for all
symbols and amounts are integers; per-class caps and equity-scaled limits are
left out.

### HaltControl

`internal/protect/protect.go` as the engine uses it: the equity observed by
each sync, a limit watcher's close that books profit or loss, resume and clear
over HTTP, settings edits that swap or rebuild the manager, and the state file
written through `protsave.go` -- `saved` is what the engine believes is stored,
`stored` what is.  A position sold by hand at the broker (`drift`) is counted
twice until it is forgotten (`ForgetOpenPosition`, `LowerPeak`) or
`pendingFillGrace` runs out.  The per-symbol cooldown, the stop-out guard and the
low-profit pause are in Protections: they refuse entries and halt nothing.

### OrderLifecycle

One symbol.  `real` is the holding at the broker, `held` the engine's copy,
`open` the record's quantity, `guard` the pending-sell marker; `orders[id]` is
what the broker knows of an order (still to fill, filled) with what the engine
has booked for it.  The loop, the operator and up to two watchers submit,
time out, cancel, measure (`filledWhileResting`, `soldWhileResting`), fall back
to the market, flag and reconcile; slices rest beside each other and their watchers
wake in any order; the broker fills in full or in part before, with or after its
answer, and fills or cancels what works at any moment (only `"cancelFails"` puts a fill
between a watcher's look at an order and its cancel).  What the code leaves to its
surroundings is named, each in `FaultKinds`.  Two of them are ordinary days: the operator
who is `Hasty`, because `ManualOrder` (`internal/engine/engine.go:2019-2065`) asks neither
the marker nor for the orders that rest (`"hurry"`: he sells over a sell that has not landed, or buys
over an order that rests), and the listing that is newer than the snapshot (`"staleList"`),
because `reconcile` compares with no snapshot before it drops a marker.  The choice of entries is left out; scale-in and the ladder are
LivePosition, brackets are in Brokers.

### TestMode

Enabling, ending and expiry of a training window with every thread that may be
in the middle of an order while it happens.  Real and simulated accounts, the
book in memory, the rows and the spend in the store are separate variables;
every share carries which of the accounts it came from, so "simulated" and
"real" can be told apart in the book.

### Watchlist

The symbols being traded: `watchlist` and `pinned` in memory, `storedList` and
`storedPins`, the `watchlist:` block of config.yaml (`named`), the feed
(`subscribed`) and the bar builders (`bars`).  `TrackSymbols` and `RemoveSymbol`
are what `trackSymbols` and `removeSymbol` do under the lock; the calls after
it are actions of their own, and whoever called -- a handler, the screening
pass, the drop after a losing run -- goes on where they end.  `Screen` leaves
the verdicts open (any subset of the pool passes, any of the others could not
be measured, the ranking keeps any of the passing within the cap) and keeps
exactly what `rescreen` and `diffUniverse` make of them.  Positions are there
for what hangs on tracking: held, on record, unconfirmed or resting; the
trailing peak in `e.peaks` and its copy in the record; sells are those of the
loop and of manual orders, as a watcher's partial sell leaves the rest held.  A tick more than
`maxPeakJump` above the last does not raise a peak; here ticks may simply not
happen.  The loss-triggered tuning is ConfigStore's; which of the pool a pass
may pick is Screening's.

### ConfigStore

The configuration in force and the one in config.yaml, from the settings
handlers to the file and into the engine.  `file` is the YAML (`Loads` is what a
start checks), `live` the settings in force, `base` and `over` the strategies
the engine built and for which symbols, `services` which advisor and predictor
they were built with.  A form is a `save` that goes through the steps of its
handler: check, apply to the process, patch the file, or the other way round
where the code does it that way.  Autotune is `search`: the run slot, its base,
the comparison with what is live (`Compare`), the write of the override, the
collection of all overrides (`Gather`) and their installation (`Install`).
`queue` and `retries` are the loss-triggered requests.  The forms hold
`settingsMu`; the trading switch and the searches do not.

### Brokers and Submission

Submission is what `Broker.SubmitOrder` promises the engine: placed at most
once, an error means nothing was placed unless an answer was lost, a `Terminal`
result says what was filled in the end.  Brokers has the four adapters: the
rounding and the learnt precision of Trading 212, its polling with the fallback
to the order history, Alpaca's polling, Saxo's absence from the listing and its
brackets, the simulator; and the venue that takes, fills, cancels, rejects and
forgets.  `ImplementsSubmission` is `Submitted!Spec` under the refinement mapping
of `Submitted == INSTANCE Submission WITH ...`: what the adapter is doing maps to
`Waiting`, the venue's entry of the call to `placed`, `filled` and `ended`.

### The services: Services

Services gathers components that share no state: `part` says which one is under
way, the others keep still.  `Next` is the disjunction of theirs, and a property
of one is a conjunct of a property of Services.

* **Notifier** (`internal/notify/notify.go`): the routine and the urgent lane of
  each notifier, its worker between looking, taking and delivering, a halt's
  retries with `Retry-After`, the swap by a settings save, `Close` with its
  deadline and what is counted as dropped.
* **Advisor** (`internal/ai/advisor.go`, `internal/ml/predictor.go`): the verdict
  of a symbol with its age and in-flight mark, requests that wait for one of
  `MaxConcurrent` slots, answer, fail or time out; symbols forgotten and back;
  and for the model the bars at which it was fitted.
* **PriceHistory** (`internal/market/yahoo.go`, `cache.go`): a cached window
  between callers with different reach, coarser intervals when a venue has too
  few bars, the retries and cool-down under throttling.
* **LiveFeed** (`binance.go`, `finnhub.go`): subscriptions, the connection, its
  read loop, reconnects, the poller, a venue that refuses the batch for one
  symbol.
* **Bars** (`engine/barstore.go`, `setFXRate` of `engine.go`): the ring, the
  building bar, cached price, peak and trail floor of one symbol, with a rate
  change that rescales them one after the other while ticks, history and the
  tracker run.
* **Announcements** (`engine/blockedonce.go`, `untradeable.go`, `alert`): three
  paths (a strategy buy, an exit, a scale-in) meet the same conditions again on
  every evaluation; what each says, and what it clears, is said in the order of
  its gates.  `told` counts how often the operator heard of the condition that
  stands, `heard` what was told last under each key.
* **TradingHours** (`broker/trading212.go`, `market/hours.go`, `marketOpen` and
  `entryAllowed`): a venue with sessions, breaks, short days and holidays, the
  cached part of its schedule with its reload, the calendar behind it, over
  five days of eight hours.  `InSession` is what the venue does; that it lists its
  sessions apart and keeps to its calendar on regular days is assumed of it.
* **Labels** (`engine/names.go`, `screenclass.go`, `settings.go`,
  `portfolio_guard.go`): the hand-written and the learned layer, the merge under
  the lock and the installs after it, in the engine's guard, the risk manager's
  and the screener, and the cache in the store, for the resolver, a screening
  pass and the operator.

### Rules and their users: Replays

The pure rules are operators: **ExitRules** (`internal/exits`: stop, trail and
its tightening, ATR widening, return over time, ladder, the floor over an add),
**EntryRules** (`internal/risk`: caps with clamping, class, sector, correlation
and slot limits, size), **Protections** (`internal/protect` on a simulated
clock), **BacktestReport** (trips, breakdowns, periods, drawdown).  They have no
variables of their own; what is checked is their use:

* **Backtest** (`internal/backtest/backtest.go`): a session of bars over several
  symbols, in the passes of `Run` -- open, add, exit, close -- with the order
  queued at one close and looked at again when it fills.
* **LivePosition** (`engine/exits.go`, `scalein.go`, `positionpersist.go`): one
  position over ticks, settings edits and restarts; the record in memory and on
  disk, the rung sold and then marked.
* **Search** (`backtest/search.go`, `optimize.go`, `refine.go`, `walkforward.go`,
  `autotune/optimize.go`): candidates replayed (any outcome, the same each time),
  the generations of the guided search, refinement one axis at a time, the
  return floor and the gates of a proposal, the reduction to an override, the
  folds, a timeout or an interrupt at any point.
* **Screening** (`internal/screener`, `autotune/screenprobe.go`): the pool, the
  filters' verdicts, the probe's two legs, tiers and rank, class caps and sector
  budget.
* **Signals** (`internal/strategy/strategy.go`, `higher_timeframe.go`): what
  `New` builds from the settings (unknown detectors dropped, the sets and modes of
  a sell that default to those of a buy, the warmup) and one evaluation of it:
  the detectors and filters read what they will (`Read`), then the votes are
  tallied per side, the candidates ordered and gated (`Evaluate`).

**Replays** gathers Backtest, LivePosition, Search, Screening and Signals as
Services does.

### How they fit together

The modules share no variables, but for the rules, which both the replay and
the live position use as they are.  Each keeps as much of its neighbours as its
properties see: RiskLedger's buys are OrderLifecycle's orders without the
record, TestMode's orders are both without the clamping, Watchlist's positions
are OrderLifecycle's without markers.  What one module assumes the other checks:
a buy's reservation is released once (`ReservedForReason`), an unconfirmed order
stays flagged (`NoFillLost`), what a broker call may answer is Submission
(`ImplementsSubmission`), a search's proposal is what it replayed before
ConfigStore asks whether it is still about the running strategy, and what
Watchlist's `Screen` may pick contains what Screening picks.

## The runs

| Run | Shows | Bounds, and why they are enough |
|---|---|---|
| `ledger_serial` | `SpentWithinCap`; `WithinEveryCap`: the cash reserve, the invested total, the ceilings on one position and on their number, all of the account; `ReservationsMatchOrders` -- while one buy runs at a time | two symbols, orders of up to two shares, two days, two reservations; the limits are met exactly, and with a commission and a dearer fill are one unit away; two sets of limits so that each one binds |
| `halt_guarded` | `StoreKeepsUp`: what the engine takes to be stored is, or is known not to be; `HaltEndsOnlyByResume`; `HaltsExactlyOnLoss`: each limit halts and nothing else does; `HaltGetsStored` | equities 8 and 10 with limits of 20, 11 and 10 per cent put a loss on either side of each limit; one position sold by hand; two days for the daily limits |
| `orders_safe` | `NoStackedSells` (of orders sent whole, no hasty operator, no stale listing: the table below has what each of them does), `NoPhantomShares`, and `OrdersAccountedFor`: every fill is booked once or reported, and no reservation is orphaned | three orders of up to two shares: a fill can be split, a sell can meet a buy and a fallback; two watchers |
| `orders_live` | `ExitsComeBack`, `HoldingsGetTracked` | the same, without interference the promise does not cover |
| `testmode_safe` | `WindowIsUndone`: book, spend and store are the real ones again; `BrokerRestored`; `HaltsAreReal`; `WindowEnds` | up to three orders around one window and a midnight; restarts; one order under overlapping threads |
| `watchlist_tracked` | `ListsAreTrue`: the lists agree and what was given up stays gone; `OwnedIsSpared`: neither what is held nor what was picked is screened out; `TrailKeepsPeak`; `HeldGetsTracked` | two symbols, one named and one only screened; cap one, so that a ranking must choose; one position bought and sold in one or two tranches; one restart; two requests |
| `config_serial` | `ProcessMatchesFile`: what runs is what a restart would load; `SavedIsSafe`: the file starts the bot, live trading has its ceilings; `AppliedWasSearched`; `LossRequestServed` | two symbols, strategies of two parameters with one forbidden combination, so that base and override can be sound apart and not together; two edits meet one search; two losses and a queue of one |
| `brokers_reliable` | `ImplementsSubmission`, `ExitLeavesNothing`, `OrdersStayWhatTheyAre`, `AnswerComes` | two calls, so that the second finds what the first learnt; three decimals and an instrument that takes 0, 1 or 3 of them; a holding that is no multiple; a bracket changed three times |
| `services` | `OperatorIsTold`, `QueuedHaltIsTried`, `LearnedIsRight`, `ExpiredIsAskedAgain`, `PricesHold`, `SubscribedGetsTicks` | lanes of one, two sinks, a swap; two symbols and one slot; two callers; two outages; a rate change from each side; four changes of what stands in the way; five days with a holiday, a short day and a weekend; two edits and two learners of a label |
| `replays` | `ReplayIsHonest`, `BuysKeepTheRules`, `TrailNeverFalls`, `RungsSoldOnce`, `SearchIsHonest`, `PicksAreHonest` | four bars that rise, gap over two rungs, crash through the stop; two symbols where caps are shared; one restart and one edit of a position; a space of eight configurations and five walk-forward sets; four symbols in two classes and two sectors, held, pinned, probed or not; six strategies of up to three detectors and two strengths, on either side of the bar to clear, with bars on either side of the warmup |
| `watchlist_givesup` | violated: a losing symbol is never given up | two positions, limit one |
| `scalein_gap` | violated: an add needs a further fall | two adds, a price that falls once |

Properties of several parts: `OperatorIsTold` is `AlertsAreCounted`, `HaltsGoFirst`
(Notifier), `ToldOnce` and `NewsIsTold` (Announcements); `LearnedIsRight` is
`OneRequest`, `ModelsAreRefitted` (Advisor), `LabelsHold` and `HoursAreKept`;
`PricesHold` is `HitsHoldTheWindow`, `CooldownStopsTheStorm` (PriceHistory),
`OneScale` and `SeriesIsWhole` (Bars); `ReplayIsHonest` is `FillsWereTraded`,
`BooksBalance` and `ReportsAddUp`; `BuysKeepTheRules` has the `SignalsKeepTheRules` of
Signals beside it (`TheBestSideActs`, `HigherIsHeard`, `MutedStaysMute`); `SearchIsHonest` is `ProposalsReproduce`,
`NothingBetterUnused` and `FoldsAreUnseen`; `PicksAreHonest` is `PicksAreSound`,
`CapsAreKept`, `TheBestArePicked` and `MeasuredIsUsed`.  The others are composed
the same way where they say so in their module.

Each environment of the MC modules exists because some property is about it or
some action needs it; every action of every module happens in some passing run.
For every property of a passing run `PROJECT.json` names a mutant -- a dropped
guard, a missing reset, an unbooked part -- under which TLC finds it violated.

**Fairness.**  Assumed is what the code's scheduling gives, and only for the
properties that say *in the end*:

* `evaluate` is called by a ticker that never stops, so syncs, reconciles and
  expiry checks come again and again (weak fairness of the loop's step, strong
  where other threads keep disabling it); a goroutine in the middle of something
  goes on; the screening ticker starts passes again and again.
* A store that is retried over and over takes a save in the end
  (`HaltGetsStored` only).
* ConfigStore: a form or a search that has begun goes on, the schedule ticks,
  the retry timer runs out.
* Brokers: the call goes on sending, and its deadline passes.
* Services: the notifier's workers and the closing goroutine run; the advisor's
  ticks come, its requests end by answer, failure or timeout (their HTTP client
  has one); the feed's dialler, reader and poller run, and a venue that prices a
  subscribed symbol sends a trade of it again and again.

Nothing is assumed of the operator, of prices, or of a venue filling anything.

**Deadlock** is checked in the runs of the engine, where a state without a step
is a modelling error, as the loop can always evaluate.  It is not in `config_serial`,
`brokers_reliable`, `services`, `replays` and `scalein_gap`: a bounded number of
saves and searches, two calls of SubmitOrder, a closed notifier, a replay at its last
bar and a search with its answer really do stop.

## What the code does otherwise

Two runs end in a counterexample, with the sentence they refute in `PROJECT.json`:

| Run | What happens |
|---|---|
| `watchlist_givesup` | `record` runs before `syncPortfolio` on every sell path, so `dropAfterLosses` (`internal/engine/dropsymbol.go:56`) still sees the position that was just closed, and `drop_after_losses` fires only if another thread happens to sync in between. A limit watcher syncs before it books a partial sell, but then the rest is still held. |
| `scalein_gap` | `scaleInDue` (`internal/engine/scalein.go:102`) compares with the average alone; after a gap through two steps the next evaluation adds again at the same price. |

Further disagreements, each found by TLC with the module, environment and
formula given (module constants as in the passing run of that module unless
said).  Written `raw` where the formula is the consequent of the named property
without its condition.

| Environment | Violated | What happens |
|---|---|---|
| RiskLedger, `Faults = {"overlap"}`, `MaxDailySpend = 8` | `CashAboveReserve` | `ManualOrder` authorises (`internal/engine/engine.go:2034`) and reserves (2061) in two critical sections, `act` likewise: both are authorised on one headroom, and the account falls below `cash_reserve`, against 2055-2058. |
| HaltControl, `{"overlap"}`, `DailyLossPct = RealizedPct = 0` | `HaltAwaitsRestore` | `SetProtectionsConfig` publishes a first manager (`internal/engine/settings.go:191`) before it restores it (192-197); a sync in between saves the empty state over the stored halt. |
| OrderLifecycle, limit with fallback, `{"partial"}`, 3 | `EveryFillAccounted` | `marketFallback` (`internal/engine/execute.go:707`) never asks for the working rest of a partial fill: not flagged, not watched, against 385-386. |
| TestMode, `{"slices"}`, one order, one window | `BookIsReal` | the order-rate breaker ends the window between two clips (`internal/engine/engine.go:2401`); the first clip's simulated fill is then booked as real, against README.md:2378 and `testmode.go:168-173`. |
| TestMode, `{"again"}`, one order, two windows | `BrokerFollowsWindow` | a second `POST /api/testmode/start` takes the simulator for the real broker (`internal/engine/testmode.go:72`), against `testmode.go:149` and `server.go:675-677`. |
| RiskLedger, `Faults = {"syncFails"}` | `CashAboveReserve` | `syncPortfolio` returns on a failed account call and still stamps `lastSync` (`internal/engine/engine.go:2937-2949`); the next buy is authorised on cash from before the fill, against 2889's "post-fill state is always fresh". |
| RiskLedger, `{"earlyClear"}` | `InvestedWithinCap` | `ClearUnconfirmed` (`internal/engine/reconcile.go:137`) releases without a sync; the comment's "whatever filled is in the broker's snapshot" is not the cached one `Authorize` reads. |
| RiskLedger, `{}` | `SpendOnlyForFills` | a refused manual buy reaches `RecordBuy(0)` (`internal/engine/engine.go:2141`), which charges the fixed commission. |
| RiskLedger, `{}` | `ReleasedOnlyOnceBooked` | the reservation goes before the booking (`internal/engine/execute.go:204`, `engine.go:2117`), against `risk.go:236-239`. |
| HaltControl, `{"drift", "expiry"}`, `Equities = {8}`, daily and realized limits 0 | `[][~FalseHalt]_vars` | `pendingFillGrace` ends (`internal/engine/engine.go:2559`) and measured equity falls with no loss; only a forget corrects the peak. |
| HaltControl, `{"drift"}`, those limits 0 | `LossHalts` raw | `LowerPeak` (`internal/protect/protect.go:524`) lowers a peak that is older than the phantom: a real drawdown no longer halts. |
| HaltControl, `{"drift", "forgetOff"}`, those limits 0 | `[][~FalseHalt]_vars` | a forget while protections are off corrects no manager (`internal/engine/engine.go:2735`); the stored peak keeps the phantom. |
| HaltControl, `{"overlap"}`, those limits 0 | `SavedIsStored` raw | two saves land in one order and are remembered in the other (`internal/engine/protsave.go:61`). |
| HaltControl, `{"overlap"}`, those limits 0 | `ResumeKeepsNewHalt` | a halt trips while a resume is served; `SetTradingEnabled(true)` follows it (`internal/api/server.go:1214`). `AllowEntry` still refuses entries. |
| OrderLifecycle, market, `{"hurry"}`, 3 orders | `SellsCovered` | `ManualOrder` (`internal/engine/engine.go:2034-2064`) asks no `pendingSell`: a manual sell over an exit that is unconfirmed, or rests, sells the same shares again; if it fills, it also clears the marker of that exit (2085-2091), so that the next one stacks too. |
| OrderLifecycle, market, `{"hurry"}`, 4 orders | `SellsCovered` with no manual sell | a buy deletes the marker of a sell that still works (`internal/engine/engine.go:2442`). |
| OrderLifecycle, market, `{"staleList"}`, 3 | `SellsCovered` | a sell fills between the throttled sync (`internal/engine/engine.go:1211`) and `reconcile`'s listing, which clears its marker (1474-1481); the snapshot still shows the shares, and the next evaluation sells them again, against "the prior sell has settled or been cancelled, so the resubmit guard is no longer needed" (1438-1439). |
| OrderLifecycle, market, `{"overlap"}`, 3 | `SellsCovered` | the loop's exit and a manual sell are both decided before either has set the marker. |
| OrderLifecycle, market, `{"lostReply"}`, 3 | `SellsCovered` | a sell whose answer is lost works without a marker (`internal/engine/engine.go:1809`). |
| OrderLifecycle, market, `{"syncFails"}`, 3 | `SellsCovered` | the snapshot is older than a fill it should show, and what was sold is sold again. |
| OrderLifecycle, market, `{"hand"}`, 3 | `SellsCovered` | the operator sells at the broker what a decided exit is about to sell. |
| OrderLifecycle, limit, `{"partial"}`, 3 | `SellsCovered` | a limit sell partly filled at once leaves the marker at the old holding (`internal/engine/engine.go:1840`). |
| OrderLifecycle, sliced, `{}`, 4 | `SellsCovered` | the first slice of a sell fills at once and the next rests: the marker stays at the old holding (`internal/engine/engine.go:1833`), as the move to the holding after the fill, EN3-3 (1835-1841), is for unconfirmed shares only and not for resting ones; what is left can be sold again while the slice works. With the fallback, a slice of a buy sent to the market also clears the marker of an exit that works. |
| OrderLifecycle, market, `{"latePartial"}`, 3 | `SellsCovered` | an unconfirmed sell that fills in parts opens the guard with its first part (`internal/engine/exits.go:354`). |
| OrderLifecycle, market, `{"crash"}`, 3 | `SellsCovered` | the marker dies with the process (`internal/engine/engine.go:509`). |
| OrderLifecycle, market, `{"lostReply"}`, 2 | `EveryFillAccounted` | an order the broker took and did not answer for is known to nobody (`internal/engine/execute.go:182`). |
| OrderLifecycle, limit with fallback, one of `clearEarly`, `clearFilled`, `crash`, `hand`, `lostReply`, `overlap`, `syncFails`, 3 | `EveryFillAccounted` and `BookedAsFilled` raw | a watcher books the difference between two holdings as the fill of its order (`internal/engine/execute.go:594-601`): whatever else moved the holding or the record is booked as its own, or hides its own. |
| OrderLifecycle, limit with fallback, `{"cancelFails"}`, 2 | `EveryFillAccounted`, and `ReservedForReason` raw | the order fills between the watcher's look and its cancel: it returns (`internal/engine/execute.go:447`). |
| OrderLifecycle, limit, `{"latePartial"}`, 3 | `EveryFillAccounted` | shares filled and sold while a buy rests leave no excess to measure (`internal/engine/execute.go:626`). |
| OrderLifecycle, limit with fallback, no `OrderLister`, `{}`, 2 | `ReservedForReason` raw | the watcher returns with the reservation and nobody can release it (`internal/engine/execute.go:439`). |
| OrderLifecycle, market, no `OrderLister`, `{}`, 3 | `ExitsComeBack` raw | the marker of a sell cancelled at the venue stays for good (`internal/engine/engine.go:1857`). |
| OrderLifecycle, market, `{"overlap"}`, 2 | `NoPhantomShares` raw | adoption between a buy's answer and its booking counts it twice (`internal/engine/engine.go:2808`). |
| OrderLifecycle, limit with fallback, `{"latePartial"}`, 3 | `BookedAsFilled` raw; with `MaxQty = 3` `NoPhantomShares` raw | a part of a resting sell opens the guard (`internal/engine/exits.go:354`), an exit sells the rest, the resting order fills all the same, and the watcher measures a holding below zero against the record. |
| OrderLifecycle, market, `{"syncFails"}`, 3 | `NoPhantomShares` raw | what was sold is adopted from a snapshot that still shows it. |
| OrderLifecycle, market, `{}`, 2, `FairSpec` | `UnconfirmedGetsTracked` | adoption refuses an unconfirmed symbol for ever, against `internal/engine/adopt.go:49-52`. |
| TestMode, `{"overlap"}`, one order, one window | `BookIsReal` | an end or a start of the window between a fill and its booking puts it into the other world's book. |
| TestMode, `{"overlap"}`, one order, one window | `~(active /\ halted)` | a halt trips while a window is being opened (`internal/engine/testmode.go:67`). |
| TestMode, `{"again"}`, one order, two windows | `BookIsReal` | the nested window's simulated book is put back as the real one. |
| Watchlist, `{"midpass"}`, one buy | `HeldIsSpared` raw | held, pinned and current are read before a pass of minutes and used after it (`internal/engine/screen.go:97-141`): a symbol bought meanwhile is dropped, with its bars, feed and peak. `HeldGetsTracked` brings it back a pass later. |
| Watchlist, `{"midpass"}`, one request | `PickIsSpared` raw | so is one the operator pins meanwhile, `keep_manual` or not. |
| Watchlist, `{"midpass"}`, one buy, one request, limit 1 | `GivenUpStaysGone` raw | a pass with the old pins puts a symbol back that was given up meanwhile. |
| Watchlist, `{"midclose"}`, two buys, limit 1 | `HeldIsSpared` and `TrailKeepsPeak` raw | `dropAfterLosses` looks at the portfolio (`internal/engine/dropsymbol.go:56`) and then removes (70): a symbol bought again while the sale was being booked is dropped, and its peak with it. |
| Watchlist, `{"overlap"}`, two requests | `ListsAgree` raw | each edit saves a copy read earlier (`internal/engine/engine.go:644`, 671, 944); the older copy may land last. |
| Watchlist, `{"heldRemoved"}`, one buy, two prices | `TrailKeepsPeak` raw | `removeSymbol` deletes the peak of a held symbol (`internal/engine/engine.go:941`); `checkExits` trails from what is left, not from the record's peak, until a restart. |
| Watchlist, `{"omits"}`, one buy | `TrailKeepsPeak` raw | so does one positions answer that lacks the symbol (`internal/engine/engine.go:3014`). |
| Watchlist, `{"crash"}`, one buy, limit 1 | `GivenUpStaysGone` raw | the process dies between the drop and the edit of the file; the run is cleared already. |
| Watchlist, `{"fileFails"}`, one buy, limit 1 | `GivenUpStaysGone` raw | a file that cannot be edited brings the symbol back at the next start (logged, not retried). |
| Watchlist, `{"earlyClear"}`, one buy | `HeldIsSpared` raw | a buy cleared before the portfolio shows it is in neither of what `heldSymbols` reads. |
| Watchlist, `{"crash"}`, one buy, one restart | `HeldIsSpared` raw | a start forgets a symbol whose list was not saved yet; the next pass adds it back. |
| Watchlist, empty watchlist and universe | `HeldGetsTracked` raw | without verdicts `rescreen` returns early, and what is held is not added back. |
| ConfigStore, `Overlapping` | `RunningIsOnDisk` raw | `putStrategy` runs between the comparison and the installation of a search's result: the override is written for one base and installed on another, and overrides collected earlier replace the form's, against "the file on disk and the running process never disagree" (`internal/autotune/schedule.go`). |
| ConfigStore, `TradingRace` | `TradingHasCeiling` raw | the trading switch checks the ceilings (`internal/api/server.go:647-674`) while `putLimits` (604-645) takes them away; each looked before the other wrote. |
| ConfigStore, `AdvisorForm` | `AdvisorIsCurrent` | saving the AI form rebuilds the shared strategy only (`internal/api/settings.go:905-909`); symbols with an override keep the advisor that was replaced. |
| Brokers, Trading 212 and Alpaca, `losesReply` | `ErrorMeansNothingPlaced` | a lost answer is an error to the engine, which releases the reservation as "never reached the venue" (`internal/engine/execute.go:184`). |
| Notifier, `overlap`, urgent lane of two | `NoHaltDropped` | a halt taken by `Send` on the notifier a save has just closed is lost (`internal/engine/settings.go:372-387`, `internal/notify/notify.go:289-294`). |
| Notifier, `exits`, one halt | `QueuedHaltIsTried` | the grace of `Close` (350-374) is shorter than two waits of a `Retry-After` of 30 s. |
| Advisor, `forgets` | `OneRequest` | a symbol forgotten and added again while its request is in flight gets a second one, against `internal/ai/advisor.go:14-15`. |
| Bars, `overlap` | `OneScale` | two rate changes at once (`setFXRate`) interleave their rescales; and a tick taken before the change is stored after it. |
| Bars, `late` | ring times ascending | a tick older than the building bar is put into it (`internal/engine/barstore.go:168-175`); the series stays whole but may repeat a time. |
| LivePosition, `crashes` | `RungsSoldOnce` raw | the process dies between a rung's fill and `markPartialTaken` (`internal/engine/exits.go:304-306`): the rung is sold again after the restart. |
| Search, by `walk`, interrupted in a fold | the folds' mean is over whole folds | a fold cut short scores the winner of what it had tried (`internal/backtest/walkforward.go:69`). |
| Search, `Timeout` during the refinement | refinement ends with it | `refineWinner` (`internal/autotune/optimize.go:392-395`) looks at the deadline before it starts, not between variants. |
| Screening, held symbols outside the pool | the sector cap of the guard | `heldSectors` counts held symbols by the pass's verdicts (`internal/screener/screener.go:339-349`); one that no pool lists is not counted, and the guard, which counts all, refuses the pick's every buy -- what SC3-6 (332-338) says is gone. |
| Labels, `overlap` | `guard = rmGuard` when quiet | two rebuilds install in the two places in opposite order, against "the two can never hold different generations" (`internal/engine/portfolio_guard.go:10-13`). |
| Labels, `overlap` | `guard = merged` when quiet | the merge is under the lock, the install after it (`internal/engine/settings.go:273-275`): the older maps may be installed last. |
| Labels, `overlap` | `stored = auto` when quiet | two saves of copies taken earlier land in the other order (`internal/engine/names.go:362-370`). |
| Labels, `overlap` | `screenCfg = asked` when quiet | `rebuildPortfolio` reads the screener's settings and sets them again (`internal/engine/settings.go:281-283`); an edit in between is undone. |
| Announcements, an entry held by the protections | `ToldOnce` raw | `act` records it with `record`, not `recordOnce` (`internal/engine/engine.go:1662`): once per evaluation, against the header of `blockedonce.go`. |
| Announcements, a scale-in with trading off | `ToldOnce` raw | the dry run of an add is recorded on every evaluation (`internal/engine/scalein.go:193`), unlike those of an entry or an exit. |
| Announcements, two paths of a symbol fail, or one fails and one is blocked | `ToldOnce` raw | one string per symbol remembers the last failure (`internal/engine/untradeable.go:81`), and any record but an error clears it: two failures that take turns are announced each time, against "announce a given failure once" (`engine.go:2296-2301`). |
| Announcements, a buy the broker rejects | told at least once | `act` records nothing for a confirmed zero (`internal/engine/engine.go:1861-1870`); the order is sent again on the next evaluation. |

Read in the code, and not found by a run: a scale-in that cannot be sized is
silent as "the entry path already records the same condition"
(`internal/engine/scalein.go:159-163`), but with pyramiding off the entry path returns
before it sizes; `act` asks `entryAllowed` for sells of the strategy too
(`engine.go:1592`), though 1529-1532 says an exit should rather act; the rest of
a long list of unnamed symbols "are picked up on the next pass" (`names.go:27-30`) but a
pass gets only symbols newly tracked; a model whose `retrain_every` exceeds its
window is fitted once; Saxo reports an order that is gone from the listing
without a fill as filled (`internal/broker/saxo.go:651-694`), which is what the
`rejects |-> kind # "saxo"` of MCBrokers leaves out; the newest aggregate of the higher
timeframe is "the last n completed bars, not a half-formed one"
(`internal/market/resample.go:74-77`), but the live engine hands a strategy the
bar in progress as its last (`internal/engine/barstore.go:127-128`).

## The proofs

Proved with `tlapm`, for every value of the constants and so for every number of
symbols, orders, days, windows, threads, restarts and edits, from the
assumptions named in the module that declares the constants: `LedgerAssumption`,
`HaltAssumption`, `LifecycleAssumption`, `TestModeAssumption`, `WatchlistAssumption`,
`ConfigAssumption`, `BrokerAssumption`, `ServicesAssumption` with those of the parts of
Services, and those of the parts of Replays, `SearchAssumption`, `BacktestAssumption`, `LivePositionAssumption`,
`ScreeningAssumption` and `SignalsAssumption` (natural limits, a dearer effective price, limits in per cent, distinct threads,
finitely many callers and at least one, venues that list their sessions apart and keep to their
calendar on regular days, no refinement that switches the exits off, a ladder whose usable rungs have a number, a pool of
finitely many symbols whose classes are walked and have caps, environments of the right form).  TLC evaluates each of
them.  What `BacktestAssumption` asks of a replay the program sees to -- limits, costs and exits
are not negative (`internal/config/config.go:1487`, `1906`, `3073`), the cash is positive
(`cmd/backtest/main.go:75`) -- but for one thing, that the open and the close of a bar lie
within its range, which the code takes on trust from its data.  `SignalsAssumption` asks that
detectors are listed by name, that the one to fall back to, rsi, is registered
(`internal/strategy/strategy.go:735`), and that warmups and strengths are not negative.  A theorem names no environment of its own: where a property holds in some
environments only, it says so itself.  Five theorems have a hypothesis besides,
which the table gives.

| Theorem | Statement | Argument |
|---|---|---|
| `RiskLedgerProofs!TypeCorrect` | `Spec => []TypeOK` under every fault | one step per action |
| `RiskLedgerProofs!ReservationsMatch` | `Spec => []ReservationsMatchOrders` under every fault: a reservation exists for exactly the buys being submitted and the unconfirmed ones | not inductive alone, as nothing would keep two orders from sharing an id; strengthened with `OneOwner` |
| `RiskLedgerProofs!DailySpendCap` | without `overlap`, `Spec => []SpentWithinCap`, through partial fills, midnight, crashes | `SpendInv`: at most one buy is in progress, and the spend booked so far *plus what that buy may still book* (`StillToBook`: its estimate until it is filled, its cost after) is within the limit; so is what is in the store; the manager's day is never ahead of the clock |
| `RiskLedgerProofs!EveryCapHolds` | if `Faults = {}`, `Spec => []WithinEveryCap`: the account keeps to the cash reserve, the invested total, the ceiling on one position and the number of positions | `CapInv` = `Bookkeeping` and `CapsFit`: see below |
| `HaltControlProofs!TypeCorrect` | `Spec => []TypeOK` | one step per action, with the manager's methods typed by lemmas |
| `HaltControlProofs!HaltIsSticky` | `Spec => HaltEndsOnlyByResume`: no step but a resume ends a halt | `HaltInv`, in orderly environments: one thread is in the middle of something, only the operator's handlers load and import, and what they are about to import is still what is stored -- without the last an enabling of the protections could bring a state back from before the halt |
| `HaltControlProofs!StoreFollows` | `Spec => []StoreKeepsUp` | `SavedInv`: what a thread is about to remember as saved is what is stored; `CurrentInv`: what it is about to write is the state in force, which carries a day whenever it carries a peak |
| `HaltControlProofs!HaltsAreRight` | `Spec => HaltsExactlyOnLoss`: a loss over a limit halts, nothing else does | `HonestInv`: peak and start of day, in force or being restored, are the account's, or above them by no more than the position that is counted twice; a limit is a share of its baseline, so that a loss over it from a baseline that is too low is one from the right baseline (`LostFromMore`) |
| `HaltControlProofs!ReplaysAreHonest` | `ReplaysSpec => []ReplayIsHonest`: fills were traded, the cash balances, the breakdowns add up; it is kept here because a replay's buys are stopped by the same protections | `BookInv`: the account with its trips (`AccountFits`), the bar and where the passes stand in it (`BarFits`), the last fill (`FillFits`), the curve (`CurveFits`); see below |
| `HaltControlProofs!RulesAreKept` | `ReplaysSpec => BuysKeepTheRules`: no buy after a halt, under the reserve or over a class's share; the better side acts, the higher timeframe is heard, what is muted stays mute | `BookInv` with the laws of what the limits let through (`AuthorizedFits`, `ClassKept`); `SignalFits`: an evaluation runs a strategy `New` built, and its answer is `Decide` of what was read |
| `OrderLifecycleProofs!TypeCorrect` | `Spec => []TypeOK` | `Base`: the form of a path's locals (`PathShape`), and what each kind of path may hold at each of its steps (`Good`): what it counts as filled the broker has filled, a watcher has one order, an exit one clip |
| `OrderLifecycleProofs!NoPhantoms` | `Spec => []NoPhantomShares`: the record shows no shares that are not there, but for sales about to be booked or made by hand | `ApartInv`, then `PunctualInv`: see below |
| `OrderLifecycleProofs!OrdersAccounted` | `Spec => []OrdersAccountedFor`: nothing is booked that did not fill, no fill is forgotten, no reservation is orphaned | `SureInv`, on top of `ApartInv` and `PunctualInv`: see below |
| `OrderLifecycleProofs!SellsNotStacked` | `Spec => []NoStackedSells`: what works to be sold is within the holding, whenever the broker fills or cancels it; of orders sent whole, and while nobody but the bot sells, no answer is lost, the operator is not `Hasty` and no listing is newer than the snapshot | `NarrowInv`, on top of the three before: see below |
| `TestModeProofs!TypeCorrect` | `Spec => []TypeOK` in every environment: no account oversold, no window put back that was not set aside | an order under way has a clip left to send (`LocalsFit`), an enabling has room for a simulator (`RoomLeft`), a window knows what it replaced (`SetAside`) |
| `TestModeProofs!RealBrokerComesBack` | where no window is started in another, the broker is the real one exactly when no window is open | `RealAside`: what a window set aside is the real broker, and nobody is between asking for a window and installing one while one is open |
| `TestModeProofs!WindowLeavesNoTrace` | `Spec => []WindowIsUndone`: book, spend, store and rows are those of the real account | `ClipsInv`: an order has one clip, the watcher's day is not ahead; `RecordsInv`: seen from the only thread that is not at rest, every record is the real account's but for what that thread has filled and not booked |
| `TestModeProofs!HaltsStayReal` | `Spec => HaltsAreReal`: no simulated result trips a halt | `OneBusy` and `NoHaltIn`: a trip and a window are never under way together |
| `WatchlistProofs!ListsStayTrue` | `Spec => []ListsAreTrue` | `ListsInv`: one edit at a time, and for each of its steps which of watchlist, feed, bars, pins and stored copies has been changed already (`EditInv`) |
| `WatchlistProofs!TrailNeverFallsBehind` | `Spec => []TrailKeepsPeak` | `CalmInv`: for each symbol what its position is at -- none, bought and not synced, held, sold and not booked -- fixes record, peak and cache together (`At`) |
| `WatchlistProofs!OwnedStaysTracked` | `Spec => OwnedIsSpared` | `CalmInv`, as a pass drops nothing of what it read as held, and `PickInv`: what it read as picked still is |
| `ConfigStoreProofs!FileAndProcessAgree` | `Spec => []AllInv`, the invariant the next three use | what a form or a search half-way has changed on one side is what is missing on the other (`FormInv`, `SearchInv`, `Agree` up to `Lags`); `PredictorInv`, `CeilingInv` and `SecretInv` likewise |
| `ConfigStoreProofs!RunsWhatIsSaved` | `Spec => []ProcessMatchesFile` | `AllInv` with no form and no search half-way |
| `ConfigStoreProofs!WhatIsSavedIsSafe` | `Spec => []SavedIsSafe`, also right after a crash | `AllInv`: every write is of a file that was checked |
| `ConfigStoreProofs!OnlyTrialsAreApplied` | `Spec => AppliedWasSearched` | `SearchInv`: until a search writes, the strategy it compared with is in force; what it is about to install has its winner, and of the other symbols what they run |
| `ConfigStoreProofs!SearchesAreHonest` | `ReplaysSpec => []SearchIsHonest`; it is kept here because ConfigStore installs what a search answers | `HonestInv`: trials and incumbent carry what their replay said (`Replayed`), trials are ranked (`Sorted`), the incumbent of a refinement scores no less than any of them (`BestInv`), and the folds walked are in order, each with the segments of its number (`WalkedTo`) |
| `ConfigStoreProofs!NoRungTwice` | `ReplaysSpec => []RungsSoldOnce`: no rung is sold twice for one position, where the process does not die between the fill and the mark; proved for the replay and for the live engine | `TripsInOrder`: the rungs of a trip are in the order sold and below the next to sell; `LadderInv`: what is on record is what is in memory, and what was sold, and what a sale without an answer may have sold, are apart and all counted as fired (`Fired`) |
| `ConfigStoreProofs!PicksAreTheBest` | `ReplaysSpec => []PicksAreHonest`: picks are sound, caps are kept, nothing better is left out, a measurement is used | `ScreenInv`: what was ranked and probed has the form the pass gives it, and a pass that is done has walked its candidates (`Walked`); see below |
| `BrokersProofs!AdaptersKeepInv` | `Spec => []Inv` | the venue's entry of an order is consistent (`BookInv`), a call that sends has placed nothing, a call that polls has seen no more than was filled (`CallInv`) |
| `BrokersProofs!AdaptersImplementSubmission` | if no Saxo venue rejects what it took, `Spec => ImplementsSubmission` | `Inv` and one lemma per action: its step is a named step of Submission, or leaves `Submitted!order` as it is |
| `BrokersProofs!OrdersKeepTheirKind` | `Spec => OrdersStayWhatTheyAre` | `ChangeInv`: what a modification is about to send has the kind and duration the order has |
| `BrokersProofs!ExitsLeaveNothing` | `Spec => ExitLeavesNothing` | `ExitInv`: what was learnt of an instrument is never less than what it takes (`PrecisionInv`), an exit is cut to no less than the holding (`CutInv`); the number of decimals of a quantity is found by induction |
| `ServicesProofs!OperatorHears` | `Spec => []OperatorIsTold` | `AlertsInv`: what a box was offered is counted somewhere, in a lane, a hand or a tally, and a halt was overtaken at most once since the lane was last found empty; `NewsInv`: what was told of the condition that stands is remembered where the next telling looks |
| `ServicesProofs!LearnedIsKept` | `Spec => []LearnedIsRight`, if `RetrainEvery <= Window`: a model with a longer interval than window is fitted once and votes on | `VotesInv`: one refresh per symbol, known to its entry, and a model that votes is as old as its fit; `LabelsInv`: what a thread half-way has not yet installed is all that engine, risk manager and store differ in; `HoursInv`: the schedule lists some days in full, from one not later than today |
| `ServicesProofs!PricesAreKept` | `Spec => []PricesHold`, if no rate arrives while a price is being converted | `StormInv`: the requests sent since the cooldown began and those callers may still send are bounded together; `CacheInv`: what the cache holds was asked for before it came, and came; `ScaleInv`: what is stored is at the current rate but for what pending rescales owe; `SeriesInv`: a ring holds the newest bars pushed, wherever its head is (`Holds`), and their times follow each other |

The invariants have something in common: the property speaks of states at rest,
and the invariant says of every state in between what is still missing, and who
carries it.  Fourteen are worth telling.

**The limits.**  The limit on daily spend is on what is *booked*, while the
decision is made earlier: only the sum of what is booked and what may still be
booked is kept by every step.  The limits on cash and positions go further, as
they are decided on the engine's copy of the portfolio and must hold of the
account.  `Lag` bounds how far the copy may be behind -- for cash and for *every
set of symbols* -- by the reservations of orders that have settled and not been
released; `Covered` says a reservation is worth what its order may still cost.
With both, whatever passed the check on the copy fits the account (`CapsFit`: all
orders and claims come true, and the limit still holds).  Sums over orders and
symbols are cardinalities of sets of units (**Sums**), whose laws -- adding,
changing, splitting -- are proved, where they are used, from the library's facts about
finite sets.  The theorem needs `Faults = {}`: the table above has an environment for each
fault in which a limit is exceeded.

**The halt.**  A halt ends only by a resume because whatever may replace the
manager holds what is stored, and the store holds every halt: the invariant
relates memory, store and the local of a handler half-way.

**The record of an order.**  `NoPhantomShares` is about one number, and its proof
about four that move at different times: shares at the broker, in the engine's
copy, in the record, and filled but not booked.  `ApartInv` says who an order belongs
to: without `overlap` one path is at work (`OneAtATime`), with market orders no two paths have
the same order (`Disjoint`), what the record has of an order a path is done with is
what the path was told (`AllTold`), and an open order is not overbooked
(`OpenBooked`).  `PunctualInv` then speaks of the one path at work, or of any if none
is: `Sound` relates, for each of its steps, the base it read, the copy and the
holding, and bounds `open` with what it is about to book by the shares there are
with what is owed to sales; what a sell may still take is within them too, which is what keeps
`recordClose` from leaving shares behind; `Tidy` says that what filled of a resting order
is booked, or about to be by that path.  It follows that a watcher that wakes measures
what the record is short of.  The invariant was found with TLC first: its
conjuncts held in every environment of MCOrderLifecycle, and in larger ones.

**What is owed for an order.**  `OrdersAccountedFor` needs no figures but the rule who
must speak up: `SureInv` gives each path what it owes the orders it has (`Owns`: one with an
open answer is yet to be reported, is reported, or is over; any other filled as the answer said,
or a watcher has it too), and each order someone who sees to it (`SeenTo`).  An order is over
(`Ended`) when nothing works, all fill is booked and no reservation is held; `Carries` says
that no step undoes this, so that only a path's own step can break its part.  `ApartInv`
and `PunctualInv` give the rest: that no two paths answer for one order, and that a watcher
that wakes with nothing owed measures nothing.

**One sell at a time.**  That `NoStackedSells` holds is not the marker's doing alone, as the marker
is set only after an answer and is taken away in several places.  `NarrowInv` says that at most one sell works and its
shares are there (`OneSell`), and that the marker stands for it and is within the holding, or
a path that has the order is yet to set it (`Marked`, `Marking`).  The broker may fill or cancel it at any moment, so
whoever decides on the engine's copy of the holding may be looking at shares that are gone: `Safe` says that he is
then stopped by the marker, which is not above the copy, or no sell works and the copy is not above the holding.
It holds of the copy whenever no path is on its way to a sync (`AllSeen`), and of a sync's answer before it is
installed; a fill keeps its first half, and only a sync or a listing ends it.  Between two of its calls a path
relies on what it has read (`Free`): no sell works when it is about to send or to fall back to the
market, and what it is about to put into the marker is within the holding.  A buy is
in the way of nothing, as it is reserved until what filled of it is booked or about to be (`BuysReserved`, `Heard`), and one that rests
has no shares and no order beside it (`Alone`).  The environments the property leaves out are those in which
one of these fails: a hasty operator sends past the marker, a stale listing takes the marker away while the
copy is above the holding, a slice leaves it too high; each has its row in the table above.

**The refinement.**  `Submitted!order` is what a caller of `SubmitOrder` can know.
For each action of Brokers a lemma says which step of Submission it is (`Ask`, `Place`,
`Trade`, `Settle`, `Lost`...) or that it stutters; the temporal theorem only collects them.  That
Saxo is excepted is a finding: it takes an order that is gone from
the listing for filled.

**What was said.**  That the operator is told once, and told what is new, rests on what each path keeps of its last
telling, which other evaluations clear.  `NewsInv` ties every path to the condition that stands (`Settled`):
it has told nothing of it, or has told it once and will find that remembered at the gate where it would tell again
(`Remembered`).  The proof goes through the gates in the order of the code: what an evaluation says at one
gate and clears at another must leave the other paths' keys alone.

**The ring of bars.**  `Holds` says that a ring stands for a sequence, the newest of what was pushed, whatever
slot its head is at; pushing onto the one is appending to the other, which drops its first bar once the ring is
full (`%` at the boundary).  A history replayed, a gap filled and a rate applied are runs of pushes, and
`SeriesInv` follows the sequence through them.

**What a search is worth.**  A proposal passes through many hands: drawn, replayed, ranked, refined, swapped for one that
clears the return floor, reduced to the fields an override can hold.  `Replayed` says of every trial and incumbent that its
numbers are those of its configuration, `measured` only grows (`Grown`), and the override is enough to rebuild the configuration
because a proposal that differs in anything else is refused (`AppliedIs`).  That ranking keeps an order (`RankedIs`) rests on
`Before` being a strict order with ties: those ahead of a new trial are a first part of the list.  A fold that yields no trial is
left out, so `WalkedTo` gives the numbers of the folds bounds on both sides: when as many were scored as were asked for, none was
left out, and the segments join.

**The book of a replay.**  `BooksBalance` relates the cash to the results of all sales, and neither side is a
number one step could be read off: a sale books its share of the position's cost and of its commission, so the invariant must know
that the shares of a position sold to the end are all of it (`WholeShare`), that there is a trip exactly while there
is a position, and that each sale is in one trip (the last line of `AccountFits`).  The sums are folds over finite sets;
`SumIs` says that a sum is what *any* function that satisfies the recursion has for the whole domain, `SumExists`
that there is one, and the laws used everywhere -- one value changes, one is added, a set is parted,
groups add up to the whole (`SumChange`, `SumMore`, `SumSplit`, `SumGroups`) -- follow from it.  The median is one of the holding
times because the numbers of shorter ones grow from none to all (`NthExists`); the drawdown is the worst for every pair of
points of the curve because the falls are totally ordered as fractions (`DeeperTotal`) and the deepest is reached from the highest point before (`FallsFrom`).
A fill is within the bar because of what the passes have done so far: marks are the open until the symbol's own add or exit has
its turn (`BarFits`), and what is sold on the bar of an add is judged by what is left of the bar.

**The limits of a buy.**  Which limits there are is a set that depends on the settings, and the order is the least room any of
them leaves (`LeastRoom`); that the reserve is in it and counts fee and slippage is `AuthorizedFits`.  The class cap is not
one of them: it is looked at for the order *before* it was cut to the room, so `ClassKept` shows that a class is within its share after
a buy of no more than was asked for, at no more than the price it was marked at.

**The vote.**  `TheBestSideActs` and `HigherIsHeard` are about the first place in a list of at most two.  That no strategy acts
before its higher timeframe has an opinion rests on arithmetic: the warmup `New` computed leaves two aggregates to spare (`WarmupCovers`).

**The ladder.**  A sale is marked after its fill, so between the two a rung is sold and not on record.  `Fired` is what the next
look at the position will find: the marks on record, with the rung that is still to be marked.  What was sold, and what a sale without an answer may have sold, lies within the first `Fired` rungs (`RungSeq`); a
sale is of the rungs beyond them, up to the one that is due.  As a sale whose answer was lost marks its rungs as
well, also a restart finds them fired.

**The walk of the screener.**  The picks are stated as what the walk leaves: a candidate is taken exactly when it finds room after those taken that
come earlier.  As the order of the walk is strict (`WalkIsOrdered`), a class or a sector that has some taken has one taken last
(`LastOf`); it found room, so the cap holds with it.  A candidate that was not taken found none, so those that filled its class or its sector
came earlier, and within its class that means they rank above it.

Facts about data are proved where a library theorem without an operator parameter
suffices: the precision of a quantity is the least element of a set of naturals
(`NatLessThanWellFounded`, `WFMin`), the least of a set of places is there and unique (`LeastOf`, `MinIs`, and from the other end `GreatestOf`, `LastOf`), and in the same way, by hand, the fold of pushes over a history is shown to be
the chain of single pushes (`FoldPushes`).  That would have to be done anew for every operator that is
folded, as no fact about folds in general can be stated here; for sums it is done (`SumIs`).
No module that is proved about, or that one of them extends, declares a
`RECURSIVE` operator.

**Only model-checked.**

* Everything live, as fairness and `ENABLED` are beyond the prover: `HaltGetsStored`,
  `WindowEnds`, `ExitsComeBack`, `HoldingsGetTracked`, `HeldGetsTracked`,
  `LossRequestServed`, `AnswerComes`, `QueuedHaltIsTried`, `ExpiredIsAskedAgain`,
  `SubscribedGetsTicks`.
* `TrailNeverFalls` of Replays.  It is not true of every setting, and so no theorem: a ratchet whose `tight` distance is wider than its
  `trail` lets the level fall, so do exits edited away and back, and the rounding of an average price can move it by a unit.  The settings
  of MCReplays have none of this; whether those of a position do is a matter of their figures.
* Of the equations of a report, the one about the drawdown speaks of a curve that has not fallen below zero, which a fixed commission can bring about.

## Not modelled

* Numbers made of market data: the indicators and detectors, the measures behind
  the screener's filters, the training of the model, Sharpe and the other ratios
  of a report, the Monte Carlo of a backtest.  Their results are choices here.
* Rendering, JSON, YAML and SQL, the error log, the search of a provider for a
  name, the mock feed.  Where a write can fail or be lost, the module that
  depends on it says so (`saveFails`, `fileFails`, `crash`).
* Saxo's tokens: one mutex is held from the look at the expiry to the store of the
  new token, so no two callers interleave.  The pacing of requests to
  Trading 212, which delays a call and decides nothing.  Order listings and
  chart data, which are read only.
* Currency conversion in the simulator, the limits that scale with equity, and
  the average entry the portfolio cache computes: all prices of RiskLedger are
  one number.
* Coalesced writes of bars to the database, and the loading of history from
  files.
* Data races on `e.brk`, which `EnableTestMode` writes under `e.mu` and
  `exitPosition`, `ManualOrder` and `syncPortfolio` read without it: TestMode has
  them read the old or the new value, never a torn one.
* Two concurrent `syncPortfolio` calls of which the older answer is stored last.

## The plan

Done, in the order of what a mistake costs: RiskLedger, HaltControl,
OrderLifecycle and TestMode (money and trading state), Watchlist; then
ConfigStore, Submission and Brokers; then the services (Notifier, Advisor,
PriceHistory, LiveFeed, Bars, Announcements, TradingHours, Labels) and the rules
with their users (ExitRules, EntryRules, Protections, Backtest, BacktestReport,
LivePosition, Search, Screening, Signals).

Every property of a passing run is a theorem but for the live ones and `TrailNeverFalls`.

Models that could follow: the store's write queue, Saxo's tokens under a clock
that jumps, and the equity-scaled limits in RiskLedger.
