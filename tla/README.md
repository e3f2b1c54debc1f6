# Market Direction Predictor: models, checks and proofs

TLA+ modules for the backend in `src/backend/app`: the two pipelines that turn
market data into closed candles, the handlers that react to a closed candle by
predicting, grading and opening trade signals, the computation of a signal and
of a prediction from candles, the backtest and training programs, the broadcast
to the dashboards, and the store of a dashboard in `src/frontend/src`. Paths
below are relative to `src/backend/app` unless they say otherwise.

To run a check: `tlc -config daily.cfg MCTradingView.tla`. To check the proofs:
`tlapm M.tla` for each of `TradingViewProofs`, `TickProofs`, `GradingProofs`,
`FreshnessProofs`, `BacktestProofs`, `DashboardProofs`, `SignalProofs` and
`HistoryProofs` (the last takes some minutes).

## The system

The server is one process, on one asyncio event loop, over one SQLite database;
two command-line programs, for backtests and for training, run beside it. Tasks
interleave only where they await something, and every read or
commit of the database is such a point.

| component | state | operations | talks to |
|---|---|---|---|
| TradingView polling feed (`services/tradingview_feed_service.py`) | status, backoff, newest price | `backfill`, `start`, `_poll_symbol`, `_poll_one`, `_handle_closed_candle`, `stop` | TradingView client, candle table, handlers, broadcaster |
| Tick-driven feed (`services/feed_service.py`) | status, backoff, aggregator | `backfill`, `_run`, `_handle_closed_candle` | a provider, candle table, handlers, broadcaster |
| Candle aggregator (`services/candle_aggregator.py`) | one candle in progress per timeframe | `ingest` | called by the tick-driven feed |
| Providers (`feeds/`) | connection, virtual clock of the mock | `connect`, `stream_ticks`, `fetch_history`, `fetch_candles` | the outside |
| Handlers (`main.py:44-66`) | none between candles | `PredictionService`, `SignalTracker`, `SignalService`, in this order | candle, prediction and signal tables, broadcaster |
| Signal request (`api/routers/signals.py`) | none | `GET /signals/{symbol}/latest` reads, and saves a signal of its own | candle and signal tables |
| Tables (`storage/`) | candles (unique per boundary), signals, predictions; one set per pipeline | `save`, `save_many_if_missing`, `get_recent`, `get_open`, `update_outcome` | |
| Signal rules (`prediction/signal_builder.py`, `prediction/signal_resolution.py`, `features/`) | pure | `build_signal`, `eligible_entry_candles`, `resolve_signal` | |
| Backtest engine (`backtesting/signal_backtest.py`) | loop variables | `run_signal_backtest` | signal rules |
| Prediction strategies (`prediction/rule_based.py`, `ml_strategy.py`, `features/`) | pure, or a cache of model files | `run` | model files |
| Trainer (`ml/train.py`, `ml/dataset.py`) | model files | `main` | a provider |
| Backtest program (`backtesting/cli.py`, `prediction_backtest.py`) | table of runs | `main` | a provider, both engines |
| Broadcast (`services/broadcast_service.py`, `connection_manager.py`, `api/routers/websocket.py`) | set of sockets | `broadcast`, `connect`, `disconnect` | dashboards |
| Dashboard (`src/frontend/src`) | Zustand store, socket, forming candle | REST bootstrap, socket messages, reconnect | the API |

What makes it hard:

- *Check, then save.* `SignalService` and the GET request look for an open
  signal, await four more reads, and save. No constraint backs the rule of one
  open signal per symbol.
- *Batches.* A poll stores every closed bar it had missed and then handles them
  one by one, so the table a handler reads is ahead of the candle it handles.
- *Order of timeframes.* A signal is built from 4H, 1H and 15-minute windows
  that are stored at different moments, in opposite orders by the two feeds.
- *Failures.* A handler that raises loses the rest of its candle's work; a
  restart loses what was stored but not yet handled, and the backfill stores
  candles that are never handled; a tick stream that breaks tears the candle in
  progress.
- *Two implementations of one rule.* The backtest engine promises the results of
  the live services, which reach the same functions through tables and awaits.
- *One cycle, many symbols.* The polls of all symbols run at once; one that fails
  must neither end the cycle early nor go unreported.
- *Two writers on the dashboard.* Bootstrap requests race the socket, which is
  registered before it is greeted, may be cut at any moment and is replaced by a
  new one.
- *Windows that move.* Structure read out of a window must still be there in the
  next one; a backtest must not read past the candle it stands on.
- *Numeric edges.* A swing candle that is a high and a low at once, a flat candle
  at the top of a range, a leg that runs against the bias, one bin that holds
  everything.
- *Interrupted programs.* A trainer that dies while it writes a file the server
  reads; a backtest that dies between two runs.

What makes the parts correct: one open signal per symbol; no tap used twice; a
signal graded by every later candle, by the first that resolves it, never by one
it was built from, once and for all; every signal resolved in the end; each
closed candle predicted once and in order; live and backtested ledgers equal;
no candle torn by a failure; handlers run after the store, once and in order;
coarse candles there before they are needed; a status that is honest, and the
same on every connected screen; open signals shown and resolved ones not shown as
open; a signal whose entry, stop and target are where its documents put them;
backtests that are blind to the future; models served whole or not at all.

## Modules

| module | models |
|---|---|
| `SignalRules` | the pure rules: window reads, eligible taps, the grading of a signal by a candle |
| `CandleClose` | tables, handlers and GET requests of one symbol of one pipeline, one action per await that reads or commits |
| `TradingViewPipeline` | extends it with the polling feed: backfill, poll cycle, failures, restart, market |
| `SignalBacktest` | `run_signal_backtest`, the abstract specification |
| `LiveAgainstBacktest` | the refinement mapping from the pipeline to the backtest |
| `TickPipeline` | the tick-driven feed: aggregation, storage, handler calls, reconnect, restart |
| `MarketStructure` | swing points, sweeps, structure breaks, weak points, order blocks, gaps, average true range, the OTE zone of a leg |
| `VolumeProfile` | volume by price, the fullest bin, the value area |
| `SignalBuilder` | `build_signal` on candles with prices, and the grading of its signals; extends both |
| `Prediction` | indicators, votes and confidence of the rule-based strategy, what the ML strategy makes of a probability |
| `BacktestCli` | the backtest program: its jobs, fetches, the walks of both engines, the table of runs |
| `ModelTraining` | the trainer and the server that loads its files |
| `Connections` | registry, endpoints and broadcasts, send by send |
| `PollCycle` | extends it with `_run` of the polling feed over all symbols: gather, status, backoff, prices, the life of the signals |
| `Dashboard` | extends it with the dashboards: socket, store, bootstrap requests |
| `Programs` | the two programs side by side: a behaviour runs one of them |
| `MCTradingView`, `MCTick`, `MCHistory`, `MCDashboard` | values of the constants for TLC |
| `TradingViewProofs` | theorems on the signal table of a pipeline: types, at most one open, fresh taps, resolved for good |
| `GradingProofs` | theorems on predicting and grading: once and in order, no grade missed, the first hit counts |
| `FreshnessProofs` | theorems on what a signal was built from |
| `BacktestProofs` | the pipeline implements the backtest engine |
| `TickProofs` | theorems on the tick-driven feed |
| `DashboardProofs`, `SignalProofs` | theorems on the poll cycle, the status and the prices of a dashboard; on its signals |
| `HistoryProofs` | theorems on the two programs and on the computation of signals, profiles and predictions |

A definition named `Rule_Variant` (`Graded_NoStop`, `CheckOpen_NoGuard`, ...) is
a rule with a plausible bug; no specification uses it. Putting it in the rule's
place must break a property, which shows that the property watches the rule.

### How state and actions correspond to the code

`CandleClose` and `TradingViewPipeline`:

- Time is counted in 15-minute bars. `market[b]` is the set of levels of the
  setup (entry zone, stop, target) that bar `b` touches. All the code does with
  prices after a setup is found is compare them with these levels.
- `setup` stands for what `_determine_bias` and `_find_setup` read out of the
  coarse candles: it is found in windows that reach coarse bar `born` (whose
  close is `earliest_entry_time`), and no longer in those that reach `dead`. 1H
  and 4H are one coarse timeframe of `Ratio` bars. Successive setups with other
  levels are not modelled: a behaviour has one set of levels.
- `stored`, `coarse`, `signals` and `predictions` are tables. `signals[i]` is the
  row of id `i`; its `asof` is not a column, it records the newest 15-minute
  candle the builder had read. `predictions` holds the rows the feed logs, not
  those of `GET /predictions`, which nothing reads back.
- `queue` is `newly_closed`, `bar` the loop variable of its `for`, `tracked` the
  rows `SignalTracker`'s loop is still going to write, `pc[p]` the await a task
  is at, `local[p]` what it has read. Requests are tasks like the feed; a request
  may start again once it is answered.
- A read or a commit is one action; code between two awaits belongs to the one
  before it. The feed is the only writer of candles, so that its fetch, its diff
  against the table and its commit can be one action (`PollM15`). `save`'s
  refresh and the broadcasts read nothing that matters here.
- `Restart` is a stop at any await; `BackfillFails`, `FetchFails`, `PersistFails`,
  `PredictFails` and `HandlerFails` are the `except` clauses. `MaxFaults` bounds
  their number.
- `stage` is where the feed stands in its cycle. Requests are served once both
  backfills are over (`_lifespan` yields after them).

`TickPipeline`: a candle is the set of (numbers of) ticks it was made of, of
which open, high, low, close and volume are functions; a candle of the
provider's history is made of none. `open` is `_open`, `step` the await `_run`
is at, `fetches` what `backfill` has still to go through, `present` the time of
the last tick or fetch. A tick may be stamped up to `Late` before `present`, the
first one of a connection up to `Setback`: the mock sets its accelerated clock back
in `connect` (`feeds/mock_provider.py:58`), and a live feed may deliver once more
what came before its connection broke (`candle_repository.py:33-35`). `Forming`
says whether the provider's history may end with the bar in progress. `pending` holds the candles of the list `ingest`
returned that are not handled yet; a tick closes at most one of each timeframe,
so that the list is this set in the order of the timeframes, and `Turn(c)` says
whose turn it is.
`delay` counts seconds. The handlers are one step here. `Depth = 0` is the mock,
whose history is empty.

`MarketStructure`, `VolumeProfile`, `SignalBuilder`, `Prediction`:

- A window is a sequence of candles with integer prices, oldest first and
  numbered from 1; `at` is a candle's close time. The code's lists of swing
  points, sweeps and breaks are sets, and `Walked` is the order of those lists
  where the code depends on it (`breaks[-1]`, `reversed(...)`). The first of
  several POI candidates is the one with the least `found`.
- What the code divides is multiplied out: prices of zones, stops and targets are
  counted in the part `Unit` of a price, volume in the part `Shares` (any common
  multiple of the numbers of bins a candle may be spread over), ATR comparisons
  in sums. Real numbers stand for the code's floats: ties that
  rounding would decide are not told apart.
- A direction is the kind of swing point it breaks: "high" is bullish. `None` is
  the empty set, an answer a set of one element.
- Of the indicators only what a vote or a guard asks of them is kept: the sign of
  a difference of averages, the side of 60 and 40 that an RSI lies on, whether a
  value exists. `min(100, ...)` never cuts in `_combine` and is left out.

`Programs` puts `BacktestCli` and `ModelTraining` side by side; `program` says
which one runs.

`BacktestCli`: `agenda` is what is left of `main`'s loops, `fetched` the awaits
the running job has behind it, `walked` the loop variable, `ledger` is
`resolved_signals` with `open_signal` last, `tally` the counters. `alive` turns
false where an exception leaves `main`. A signal walk reads the 15-minute history
only up to the candle it stands on, so that history is revealed as it goes and
may end anywhere. `ModelTraining`: training rows
are numbered by the candle they look back from, `disk` holds the model files, `Torn` while
`joblib.dump` is in them; `cache` is `MLStrategy._models`. A model is what it was
fitted to; the classifier is external, any probability, but one class only if it
saw one class. Probabilities of exactly 45 and 55 percent, where two floats
decide differently, are left out.

`Connections`, `PollCycle`, `Dashboard`:

- A socket is a client and a number, since a reconnect makes a new one. `link` is
  its transport, `endpoint` where `websocket_endpoint` stands, `sending[t]` the
  broadcast task `t` is in: the copy of the registry it has still to go through,
  in any order, and the dead. One send is one action; a send to a cut link may
  raise or be swallowed by the transport.
- `polls[s]` is where `_poll_symbol` of a symbol stands: the timeframe, the await,
  whether a frame with bars has arrived, and the signal news a handler has yet to
  broadcast. Candles are `TradingViewPipeline`'s; here a poll may resolve the
  symbol's open signal, open one, or neither. The guard of the signal table is
  atomic here: its race is `CandleClose`'s subject.
- A price is the moment it was observed (`clock`), a signal message an id and a
  status. `store[c]` is the Zustand store for one source, `answers` and `quotes`
  are REST answers under way, `since` remembers which socket was registered when
  the first answer was computed (not part of the code; for `ShowsOpenSignals`).
- A lost connection may be reported by `onerror` before `onclose`, or only by
  `onclose`; `Cut` and `ServerRestart` have both.
- A history is polled and requests are answered for one source: the second one
  has its own tables, services and part of the store, and shares the sockets.

## Runs

| run | bounds | shows |
|---|---|---|
| `daily` | 6 bars of all shapes, coarse bars of 2, setups that appear late and disappear, no failure, no request, one bar at a time between cycles | `LiveMatchesBacktest`: the signal table is the ledger of the backtest engine. `GradedByFirstHit`, `NotGradedByOwnCandle`, `CoarseIsFresh` |
| `outage` | 4 bars, up to 3 of them ahead of the feed, so that they come in batches or fall out of the poll window, 2 failures or restarts anywhere, with fairness | `OneOpen`, `TapsIncrease`, `PredictedOnce`, `ResolvedIsFinal`, `TypeOK`; `NoMissedGradeYet`: until something fails every candle grades; `OldSignalsResolve` (liveness): once nothing fails any more, old signals are resolved |
| `clients` | 3 bars, two requests and the feed | `OpenBounded`, `ResolvedIsFinal` |
| `jobs` | legs of 9 hourly candles up and down with any one of the last 7 replaced, windows 8, 5 and 2, 3 four-hour histories, up to 4 fine candles of 4 shapes; 83 histories for predictions; two pairs to train on 4 histories | signals: `EntryInsideLeg`, `TargetUntested`, `TapsFresh`, `NothingRepaints`; profiles: `VolumeKept`, `ValueAreaHolds`; programs: `TallyBlind`, `RunsKept`, `ConfidenceEarned`, `ServedWhole`, `HoldoutUnseen` |
| `dashboard` | 2 symbols of 2 timeframes, 2 dashboards of up to 2 sockets, five budgets of events (`Scenarios`) | `CycleWhole`, `StatusInStep`, `ShowsOpenSignals`, `ResolvedStays`, `FormingNeverBehind`, `TypeOK`; `Recovers` (liveness) |
| `tick` | timeframes of 1 and 2 time units, a history of 2 bars that may end with the one in progress, 4 ticks in 0..3, up to 1 late, and up to 3 at a connection, 2 failures or restarts | `RowsComplete`, `HandledAsStored`, `HandledInOrder`, `HealthyOnlyByTick`, `TypeOK` |
| `two_open` | one request | **violated** `OneOpen` |
| `own_candle` | two bars per batch | **violated** `NotGradedByOwnCandle` |
| `lost_candle` | one restart or failed handler | **violated** `NoMissedGrade` |
| `coarse_after` | one tick at a common boundary | **violated** `CoarserStoredFirst` |
| `wrong_stop` | one history of 14 hourly candles, the real lookback of 2 and ATR of 14 | **violated** `StopBehindEntry` |
| `flat_top` | the histories of `jobs` | **violated** `VolumeDistributed` |

Why the bounds are enough: a signal's life takes a tap, a grading bar and an
expired one; a second signal needs one more bar; `Expiry = 1` or `2` lets a signal
expire within the bound, and with 4 to 6 bars two signals follow one another. The
windows (2 or 3) are smaller than the history, so that bars leave them.
A poll of `PollCount = 3` gives two closed bars and the forming one; `MaxLag` is how
many bars the feed may be behind: 1 where it polls every bar, 3 in `outage`, where a
third bar falls out of the window of the poll and is never fetched. Two failures are
enough for a restart
during the recovery from another failure. In `tick`, two fine candles make a
coarse one; four ticks close a candle, open its bucket again and close it a second
time, before and after a restart.

In `jobs`, `Lookback = 1` and `AtrPeriod = 2` let nine candles hold a sweep, a
break and an untested target; the replaced candle makes equal extremes, flat
candles, a second sweep or break, or an engulfing one at every place of the leg.
The reward must be 1.8 times the risk in every one of them, so the histories are
built around a signal and varied from there; signals of both directions occur,
are won, lost and expire, and a second one follows. The hourly window is one
candle shorter than the history, so that it moves once. `wrong_stop` uses the
code's own periods, so that the small ones of `jobs` cannot be to blame.

In `dashboard`, `left` is the budget of events of a behaviour: failed fetches
(`faults`), frames with bars (`prices`, per symbol), signals that are opened
(`signals`), rounds of bootstrap requests (`boots`, `quotes`), sockets (`joins`),
connections lost (`cuts`), restarts of the server (`restarts`). Five initial
budgets put together what can interact: two failing cycles; a failing cycle while
sockets come and go; a restart; two prices against `GET /prices`; a signal that is
opened by the feed or by a request, and resolved, against the bootstrap. The
theorems hold for any set of budgets (`Budgets`). Failures
are bounded because `Recovers` says what happens when they stop. The cycle itself
goes on without bound.

Assumptions about the surroundings, each a constant:

- `MidCycle = FALSE` (`daily`) says that no bar closes inside a poll cycle, which
  the refinement and `CoarseIsFresh` need. With `MidCycle = TRUE` both fail, since a
  coarse bar that closes between the coarse and the 15-minute fetch is missing when
  its 15-minute candle is handled. Polling coarsest first does not prevent it; the
  next 15-minute close repairs it.
- `daily` uses windows that are full by the time a setup is known. With longer
  ones the refinement fails: the backtest waits for full windows "same as a fresh
  live deployment" (`backtesting/signal_backtest.py:111`), and the live services
  do not wait.
- `Late`, `Setback` and `Forming` (`tick`) are bounds on how bad a provider may be,
  not assumptions: `tick` has all three, and the theorems hold for any values.
- `ShowsOpenSignals` is about a dashboard whose first socket was registered before
  its bootstrap requests were answered and is still up (`since[c] = 1` and
  `socket[c] = 1`). What a dashboard
  misses while its socket is down is lost: after a reconnect
  `useSignalsBootstrap` does not ask again, and where react-query does ask again
  `hydrateSignals` keeps the rows that are there (`marketStore.ts:77`), so a
  signal resolved in the meantime stays open on that screen.

Fairness: `FairSpec` is `Spec` with `WF_vars(FeedStep)`. The event loop runs
every task that is ready; the feed's awaits (fetches with a timeout, local
SQLite) complete; `_run` never returns. Nothing is assumed of the market, of
failures or of requests.

`Dashboard`'s `Fairness` is weak fairness of each symbol's poll, of `_run`, of
each task's sends, of the endpoints' steps and of the browsers' dispatch. A fetch
has a time limit (`tradingview_client.py:139`), the sleeps end, the event loop
runs what is ready. A send is the exception: `ConnectionManager` sets it no limit.
It ends because the peer reads, or because uvicorn's keepalive pings close the
connection, which is configuration of the server and not code of the repository.
Nothing is assumed of joins, cuts, restarts, requests or failures. `Dashboard`'s
`FairSpec`, too, is `Spec` with this fairness; the theorems are about `Spec`.

Deadlock is checked in `dashboard` alone, where the cycle never ends; the other
specifications stop at a bound (no bar, tick or candle is left) or with a program
that has done its work.

### What the violations say

1. `two_open`. A request passes the guard, the feed task (or another request)
   passes it too, and both save. `services/signal_service.py:59` and
   `api/routers/signals.py:53-54` say there is one. `clients` and the theorem
   `OpenSignalsBounded` say how bad it gets: one per task.
2. `own_candle`. Bars 1 and 2 arrive in one poll. While bar 1 is handled the
   window already holds bar 2, whose tap opens a signal; then bar 2 is handled
   and grades it. The order of the handlers (`main.py:54-57`) guards only against
   a batch of one. A request between the poll and the handlers has the same
   effect on a single bar.
3. `lost_candle`. After a restart the backfill stores a bar that touches an open
   signal's stop; the next poll knows it already, and no handler ever sees it.
   `src/docs/signal-method.md:81-82` says every candle grades every open signal.
4. `coarse_after`. The aggregator returns the candles of one tick finest first,
   and each is stored and handled before the next. The 15-minute handlers build
   from 1H and 4H windows that lack the candle closing at that moment, the very
   hazard `services/tradingview_feed_service.py:24-27` says this feed never has.
5. `wrong_stop`. The leg runs from the low of the sweep to the highest high since
   the break, and nothing asks that it runs up: the last walked sweep may lie high
   above the break that follows it. The zone is then measured down from the end by
   the length of the leg, the stop is put under the swept low, which is above the
   zone, and the risk is an absolute value (`prediction/signal_builder.py:101`):
   a signal to buy at 9.8 with its stop at 15. Any candle that trades below 15
   counts as a loss. `features/fibonacci.py:29-31` and `src/docs/signal-method.md:71`
   describe a leg that runs with the bias and a stop beyond the swept extreme.
6. `flat_top`. A candle whose low is the top of the range starts in a bin after the
   last (`features/volume_profile.py:82`) and is in no bin at all, against the
   docstring (`:38-39`) and the test named `bins_sum_to_total_input_volume`
   (`src/backend/tests/unit/test_volume_profile.py:54`). `VolumeKept` is what holds
   beside it: no profile holds more than the volume of its candles, and without such
   a candle it holds all of it.

Other places where code and documents part, which no run is about:

- `services/connection_manager.py:1-6` says a slow consumer is dropped rather than
  blocking; `broadcast` awaits each send without a limit, so that a peer that does
  not read holds up the poll cycle until its connection is closed.
- `src/docs/prediction-method.md:23-25`, `:34` and `:41-43` relate confidence to the
  weight that is available, `prediction/rule_based.py:97-102` to the weight of all
  votes: a lone structure vote reads 40 percent, not the 100 of the document.
  `ConfidenceEarned` is what both ask: full confidence takes the structure's vote,
  and no indicator that is there may be against it or undecided.
- `src/docs/signal-method.md:23` and `:44-47` take the bias from the last confirmed
  CHoCH, after which closes with the trend go on with it. `_determine_bias`
  (`prediction/signal_builder.py:138`) takes `breaks[-1]`, the break of the swing
  point walked last (`features/structure.py:139`). With a lookback of one and
  closes 5, 8, 5, 6, 6, 4, 9 the low at 5 is broken by the 4 and the high at 8 later by the 9; the bias
  is bearish, because the low follows the high.
- `services/tradingview_feed_service.py:24-28` says that coarser candles must be
  persisted first and that polling coarsest first fixes it; a coarse bar that closes
  inside the cycle is missed all the same (`MidCycle`, above).
- `feeds/base.py:72` promises closed candles. Nothing between
  `TwelveDataProvider.fetch_history` and the table drops a bar in progress; once
  stored it keeps the place of the whole candle, which the handlers get all the same.
- `services/candle_aggregator.py:35-36` has a candle emitted when a tick lands in the
  next bucket; a tick of an earlier one does it too, such as the first after the
  mock's `connect` has set its clock back.
- An answer of TradingView that ends early, even without a bar, counts as a good
  one; its last price is stamped with the present.
- The price card may step back when `GET /prices` answers late
  (`usePricesBootstrap.ts:41`); only the chart's candle is guarded. A socket that
  closes without an error leaves the last status on the screen
  (`useMarketSocket.ts:92`). A socket whose greeting fails stays registered until
  the next broadcast finds it dead (`api/routers/websocket.py:23-40`).
- A signal may be opened at a tap whose candle, or one since, has already traded
  through the stop (`prediction/signal_builder.py:288-296` asks for a tap only).

## Proofs

Every invariant and every action property of the passing runs is also a theorem,
for every value of the constants that the named assumptions of the modules allow:
any number of bars, ticks, symbols, requests, dashboards and failures, any windows
and any histories. The assumptions next to the constants say that bounds and
periods are numbers, that a window holds at least one candle, that the feed is not
a request, that a candle has its low no higher than its open, close and high, that
a pair is a symbol and a timeframe. What a theorem assumes beyond that stands in
its `ASSUME`, and the table below says why it has to.

| theorem | property | assumes |
|---|---|---|
| `TypeCorrect`, `ResolvedSignalsAreFinal`, `OpenSignalsBounded` | `TypeOK`, `ResolvedIsFinal`, `OpenBounded` | |
| `OneOpenWithoutRequests`, `TapsIncreaseWithoutRequests` | `OneOpen`, `TapsIncrease` | no requests (`two_open` shows why) |
| `PredictionsOnce` | `PredictedOnce` | |
| `NoGradeMissed`, `NoGradeMissedYet` | `NoMissedGrade`, `NoMissedGradeYet` | no requests; the first also no restart and no handler that raises (`lost_candle` shows why), the second that nothing has failed so far |
| `FirstHitGrades` | `GradedByFirstHit` | the same, and `MaxLag < PollCount`: a poll reaches back to the last bar it has not seen, as 20 bars do for a feed that polls every few seconds |
| `OwnCandleNeverGrades` | `NotGradedByOwnCandle` | no requests; one bar at a time (`own_candle` shows why) |
| `BuiltFromFreshCoarse` | `CoarseIsFresh` | no bar closes inside a poll cycle; a poll fetches the bar that closed (`PollCount >= 2`); no commit of coarse candles fails, after which `_poll_symbol` goes on to the 15-minute ones |
| `LiveImplementsBacktest` | `LiveMatchesBacktest` | no requests, one bar at a time and none inside a cycle, `PollCount >= 2` (`Undisturbed`); no restart, no handler that raises, no failing commit of coarse candles (`Complete`); full windows by the time a setup is known (`WarmSetups`) |
| `TickTypeCorrect`, `HealthyAgainOnlyByTick` | `TypeOK`, `HealthyOnlyByTick` | |
| `CandlesComplete`, `HandlersSeeTheirBoundary`, `CandlesHandledInOrder` | `RowsComplete`, `HandledAsStored`, `HandledInOrder` | |
| `DashboardTypeCorrect`, `CyclesEndWhole`, `StatusStaysInStep`, `FormingNeverFallsBehind` | `TypeOK`, `CycleWhole`, `StatusInStep`, `FormingNeverBehind` | |
| `ResolvedForGood`, `OpenSignalsShown` | `ResolvedStays`, `ShowsOpenSignals` | |
| `ModelsServedWhole`, `HoldoutIsLater`, `ConfidenceOnGrounds` | `ServedWhole`, `HoldoutUnseen`, `ConfidenceEarned` | |
| `EveryRunKept`, `CallsMadeBlind` | `RunsKept`, `TallyBlind` | |
| `EntriesAreFresh`, `TargetIsResting` | `TapsFresh`, `TargetUntested` | |
| `StructureKept` | `NothingRepaints` | hourly candles in the order of time, which `run_signal_backtest` asks for (`backtesting/signal_backtest.py:66`) |
| `ProfileKeepsVolume`, `ValueAreaIsTight` | `VolumeKept`, `ValueAreaHolds` | |
| `EntriesInsideLegs` | `EntryInsideLeg` | positive prices: the stop's buffer falls back to a thousandth of the price (`prediction/signal_builder.py`, `_compute_stop`), which must be above zero for the stop to be behind the swept candle |

`daily` satisfies the assumptions of `FirstHitGrades`, `OwnCandleNeverGrades`,
`BuiltFromFreshCoarse` and `LiveImplementsBacktest`, `outage` those of
`NoGradeMissedYet`, `OneOpenWithoutRequests` and `TapsIncreaseWithoutRequests`, and the histories of `jobs` are
positive and in order. What may not fail is said by an action (`CandleLost`,
`CoarseDropped`, `Complete`): a theorem `Spec /\ [][~CandleLost]_vars => ...` is about
behaviours with any number of other failures, and about every behaviour up to its
first step of that kind. With `MaxFaults = 0`, as in `daily`, nothing
fails.

### One pipeline's signals

`TradingViewProofs`:

- `Invariance`: `IInv == TypeOK /\ CarriedOK` is inductive. `TypeOK` alone is not:
  a save appends what a task has carried since its reads, and `SignalTracker`
  writes rows it read earlier. `CarriedOK` says that a task at its save carries a
  tap, and that the rows still to be written are open. One lemma per action.
- `ResolvedSignalsAreFinal`: `update_outcome` writes whatever the status is; that
  `tracked` holds open rows only is what saves it.
- `OpenSignalsBounded`: inductive given `IInv`: the guard lets a task past only
  when nothing is open, a save trades a task past the guard for an open signal,
  and there are `Cardinality(Clients) + 1` tasks. One open signal without
  requests is the bound with no client.
- `TapsIncreaseWithoutRequests` needs `FreshTap`: at its save the feed carries a
  tap newer than every row.

`GradingProofs`:

- `PredictionsOnce` (`PollInv`): a poll happens only when nothing is queued
  (`PollsAlone`), and what is queued is newer than what was predicted
  (`PredictedBeforeQueue`). That a later poll cannot bring up an older bar is not
  obvious, since a restart makes the table skip bars: `PassedIsGone` says that a
  bar that was passed over has left the window a poll fetches.
- `NoGradeMissed` (`GradeInv`): an open row has been looked at by every stored
  candle newer than the newest one its builder read, or that candle is queued or is
  being handled (`OpenUntilGraded`). It rests on the builder reading up to the
  newest candle of the table (`ReadsNewest`) and on the loop of `SignalTracker`
  writing only rows its candle resolves (`HandlersOK`). `GradedByFirstStored` says
  the same of rows already resolved. `ColdStart` is where the absence of restarts
  enters: the backfill finds an empty table, so that it stores no candle a signal
  is waiting for. A fetch, a commit or a backfill that fails stores nothing
  (`NothingStored`), which leaves the account as it is. `NoGradeMissedYet` follows,
  because failures are counted and the count never goes back (`FailuresCounted`).
- `FirstHitGrades` (`GapInv`): the first of the *stored* candles is the first of
  the *market's* when the table has no gap (`NoGap`), and it has none while no more
  bars are unread than a poll fetches (`LagBounded`).

`FreshnessProofs`:

- `OwnCandleNeverGrades` (`OwnInv`): with one unread bar at most, a batch is one
  candle, the newest of the table (`AllButNewest`, `NewestHandled`), and until its
  turn to grade is over no row knows it (`RowsKnowLess`). Failures and restarts are
  allowed.
- `BuiltFromFreshCoarse` (`CoarseInv`): from the coarse poll on, the coarse table
  has every coarse candle that closed (`CoarseCaught`), because none closes before
  the cycle is over; what a task has read of it stays fresh until it is used
  (`CoarseRead`).

`BacktestProofs`: `LiveImplementsBacktest` shows that under the mapping of
`LiveAgainstBacktest` every step of the pipeline is `Reveal`, `GradeOpen`, `Build`
or a stutter. `LiveInv` joins the invariants above and adds what the mapping needs:
all candles but the queued ones have been handled (`HandledAll`); the coarse table
is what has closed (`CoarseWhole`), so that the windows the builder reads are those
of the backtest; the tap the feed carries to its save is still the newest of the
tables (`FoundNewest`), so that check, reads and save are one step of the engine;
and an open row is the last one (`LastOpen`), which the backtest's `open_signal`
presumes. Failures that lose no candle are stutters (`FailureKeepsLive`).

### The tick-driven feed

`TickProofs`: `TypeInv` adds to `TypeOK` only that nothing is in progress while
`backfill` runs. Nothing is assumed of the timestamps, of the history or of what
fails, so boundaries prove little: two candles of one boundary may follow each
other. What does not repeat are the ticks. `IInv` follows a candle through its
stations by them: in progress it is a stretch of ticks of its bucket in a row, up to
the newest (`OpenOK`, `Growing`); closed and waiting it is unbroken, alone for its
timeframe, and shares no tick with the one in progress (`PendingOK`); as a row it is
unbroken and older than all that is still to come of its timeframe, but for the one
whose handlers run (`RowsOK`); handled, it is older than those that wait
(`HandledOK`), and older than those handled after it (`HandledAsMade`).
`RowsComplete` is not inductive without the first two: the row is what was waiting,
and that was in progress. That a boundary comes again only when time went back
(`SameBoundaryAgain`) follows from the stretches alone: the tick that closed the
older one is of another bucket, so that it or the newer one's first tick was stamped
before one that preceded it.

### Cycle and dashboards

`DashboardProofs`:

- `CyclesEndWhole` (`CycleInv`): a poll has news to tell only while it is at that
  await (`NewsOK`), and the reported status is that of the last cycle judged
  (`LoopOK`).
- `StatusStaysInStep` (`StatusInv`): for a dashboard whose socket is in the
  receiving loop and which the running broadcast has passed, the newest status
  message on its way is the feed's status, or none is on its way and the screen has
  it (`AllTold`). It needs that only a newest socket is up and is registered
  (`LinksOK`), and that a broadcast of `_run` still says what is so (`RunSays`),
  since a greeting may overtake a broadcast.
- `FormingNeverFallsBehind` is an argument about one step: whatever writes a price
  writes the forming candle, or is older than it.

`SignalProofs`:

- `ResolvedForGood` (`SignalInv`): a dashboard never hears that a signal is open
  after it has heard that it is resolved (`HeardInOrder`), because the task of the
  symbol lets nothing happen to a signal whose news it has not told (`NewsTrue`,
  `SendingTrue`), and what a screen was told to be resolved is (`HeardOver`,
  `ShownOver`).
- `OpenSignalsShown` (`ShownInv`): of a dashboard that listened before it was
  answered, what it takes for open is, or the news that it is resolved is on its
  way (`NoneStale`); and of an open signal it was answered, or shows it, or the
  news is on its way (`NoneMissed`), unless a request created it, of which no one
  is told.

### The two programs

`HistoryProofs`:

- `ModelsServedWhole`, `HoldoutIsLater` (`TrainInv`): a file holds nothing, a torn
  write or a model of its own pair (`FilesOK`), because the file name determines
  the pair. The holdout is later and not empty for any number of examples: the
  counting lemma `SplitByTime` says so of the cut at four fifths.
- `EveryRunKept` (`AgendaInv`): runs persisted and runs left are, in this order,
  the agenda of some command line.
- `CallsMadeBlind` (`BlindInv`), `EntriesAreFresh` (`TapInv`), `TargetIsResting`
  (`TargetInv`): a walk's window ends with the candle it stands on (`FineSeen`), the
  ledger is in the order of its taps with at most its last row open (`LedgerOK`),
  the hourly history stays a window of candles. The target is a swing point no
  later candle of the window has gone beyond because `_find_target` takes weak
  points only (`WeakUntouched`).
- `StructureKept`: two windows of one history in the order of time overlap in the
  same candles (`WindowMoves`), and a swing point, sweep or break is determined by
  candles around it (`PointMoves`, `FirstMoves`, `StructureStays`). Candles out of
  order could leave the window and come back.
- `ProfileKeepsVolume`, `ValueAreaIsTight`: each candle lies in a non-empty stretch
  of bins (`SpanShape`), whose shares add up to its volume (`ShareShape`); sums over
  candles and bins may be exchanged (`TotalTable`). The growing area is defined
  down to every width (`AreasExist`), takes a bin only when it must, and ends when
  it holds enough (`AreasReach`).
- `EntriesInsideLegs`: each lemma is one step of `_find_setup`: what a sweep
  (`SweepShape`), a break, a leg, an OTE zone (`OteShape`), an order block and a
  fair value gap are, that each POI candidate lies in the zone (`ZonesShape`), that
  the buffer is positive (`StopBehind`).

The library's rules of induction take an operator as a parameter, which no prover
here can instantiate. `HistoryProofs` therefore proves what it needs of finite sets
once, by a smallest counterexample (`FirstElement`, `SmallestSubset`, giving
`SubsetInduction`): minima and maxima exist (`Extremes`), and the laws of sums over
finite sets (`TotalStep` to `TotalTable`), each an instance of `SubsetInduction`.
Sums are `SumFunctionOnSet` of the community modules and `grow` is a recursive
function, so that no module with a theorem reaches a RECURSIVE operator.

### Model-checked only

`OldSignalsResolve` and `Recovers`: liveness under fairness rests on ENABLED,
which is beyond the provers. The properties of the violation runs do not hold.

## Not modelled

The wire protocols of the two data sources and the throttle of Twelve Data; the
fitting of a classifier; the values of indicators beyond what a vote asks;
prediction messages, the source toggle and the query cache of the dashboard;
failed bootstrap requests (other than 404), whose signals are missing until they
resolve; schema migration, configuration, read-only routes and presentation.
`PROJECT.json` lists every part with its status.

## Plan

Done: every component that is planned as a model, and a theorem for every
invariant and action property of the passing runs. What is left is to say more
with weaker assumptions:

1. Bounds for what fails in the violation runs: how many candles a restart can
   lose to grading, how many a batch can grade by themselves, in the way
   `OpenSignalsBounded` bounds `two_open`.
2. The safety half of the two liveness properties: an expired signal that is open
   has a candle queued that will resolve it; a dashboard that is behind has a
   message on its way.
3. Shorter proofs in `HistoryProofs`: `TargetIsResting` through `WalkAdds`, which
   `EntriesInsideLegs` already uses.
