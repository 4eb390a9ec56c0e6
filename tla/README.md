# QuantSimX in TLA+

QuantSimX is a C++ program that follows a market on Binance, computes VWAP, SMA and RSI,
derives trading signals, records what it sees in a CSV file and backtests the signals on
such a file. Around the program the repository keeps a library of low-latency building
blocks: lock-free queues, a thread pool, order books with fixed arrays, a risk manager and
others. This directory holds TLA+ modules for the parts of it that have a state worth
checking, the TLC runs that check them on small instances, and TLAPS proofs, for every value of the
constants, of all the safety properties the runs check.

Paths are relative to the repository (`src/OrderBook.cpp`, `include/HFT.h`).

Contents: [1 The system](#1-the-system), [2 Modules](#2-modules),
[3 Runs](#3-runs), [4 Fairness](#4-fairness), [5 Where code and documents
differ](#5-where-code-and-documents-differ), [6 Proofs](#6-proofs),
[7 What is not modelled](#7-what-is-not-modelled), [8 Plan](#8-plan),
[9 How to run](#9-how-to-run).

## 1 The system

### The program

`main.cpp` runs one loop of 16 ms frames for at most 180 s. It owns every object; one other
thread, inside `BinanceWebSocketClient`, runs the websocket handlers.

    exchange --REST--> main: fetch_snapshot --> OrderBook <-- on_message -- client thread
                          |                        |
                          | frame loop             | best bid/ask, last trade (atomics)
                          v                        v
         VWAPCalculator -> SignalGenerator     CSVWriter -> market_data.csv
                                                                |  load_csv
         DashboardUI (buttons -> request flags)   Backtester <--+   (its own SignalGenerator)

| component | state it keeps | operations | what makes it correct |
|---|---|---|---|
| Order book, `src/OrderBook.cpp` | two arrays of levels and their counts, last trade | `load_snapshot`, `update_bids`, `update_asks`, `update_trade`, best bid/ask | levels strictly sorted, best first; the arrays are a map from price to quantity |
| Market feed, `main.cpp:34`, `src/BinanceWebSocketClient.cpp` | what of the exchange has been applied | snapshot, connect, depth messages, parse errors, close | the book shows the exchange's quantities wherever it was told of them |
| WebSocket client | `running_`, `connected_`, `client_thread_` | `connect`, `disconnect`, `on_open/fail/close/message` | `connect()` starts one client thread; the buttons never end the process |
| Program session, `main.cpp` | dashboard state, `collecting_data`, `sample_count`, backtest flags | start-up, the steps of a frame, cleanup | samples are taken when the screen says so; the frame loop ends, loses no row; the data collected are backtested |
| CSV writer | open stream with its buffer | open (truncating), write, flush | an orderly end leaves every row in the file |
| Indicators, `src/VWAPCalculator.cpp`, `src/SignalGenerator.cpp` | sample buffer, sums, SMA, RSI, crossing flags | `add_sample`, `update` | each average covers the window it names; no crossing is reported twice or passed over |
| Backtester | bars, generator, trades, metrics | `load_csv`, `run`, `compute_metrics` | trades do not overlap and add up to what the positions gained |
| Dashboard | request flags, last state shown, smoothed histories of price, VWAP and RSI | buttons, render | flags are consumed once per frame; the chart's lines belong to the same frames |

What is hard to test here: the client thread writes the order book while `main` reads it,
without a lock; the exchange goes on changing between the snapshot and the open connection;
messages are applied level by level and may be abandoned in the middle; buttons can be
pressed in any combination between two frames; the connection can fail at any time; rows
wait in a stream's buffer; several caches (sample buffer, signal flags, printed VWAP) only
show their faults after a long session.

### The library

`main.cpp` uses none of these parts; some are exercised by `test_hft.cpp` and
`test_performance.cpp`. The threads that call them are the ones their headers describe.

| component | state | operations | what makes it correct |
|---|---|---|---|
| `LockFreeQueue`, and the SPSC queues of `HFT.h` and `HFTPerf.h` | slots, `head_`, `tail_` | push, pop, size, clear | a FIFO queue; the plain accesses of a slot are ordered |
| `TickBuffer` | slots with a ready flag, `read_pos_`, `write_pos_` | push, pop, available | the same |
| `TradingEngine` | `state_`, `collecting_data_`, a tick buffer, a client | start/stop collection, disconnect, reconnect, backtest, process trades and pending ticks | a stop stops; what is in the buffer is processed |
| `ThreadPool` | ring of tasks, `head_`, `tail_`, `task_count_`, `stop_` | enqueue, worker loop, wait_all, destructor | accepted tasks run; waiting and destruction end |
| `BitScanningOrderBook` (`HFT.h`) | levels, bit mask and count per side, list of orders | reset, add_order, remove_order | levels in use are the live orders |
| `RiskManager` | position, daily P&L, order count as atomics | check_order, on_fill, reset | limits are kept |
| `TradingAlgorithms`: ten strategies on one base class | windows, averages or bands of each, `in_position_`, `signals_` | update, reset, configure, clear_signals | no position is closed or bought into twice; windows hold the newest ticks; positions follow the lines |
| `ParameterSweep` | results, best result under a mutex | run, run_single as tasks of the pool | run returns when all tasks are through (it does not: section 7) |
| `BitmaskOrderBook` (`HFTPerf.h`) | sorted levels and a bit mask per side | clear, insert_bid, insert_ask, best | the best level is the best price |
| `FlatHashFreeArray` (`HFT.h`) | one entry per place, `count_` | insert, find, remove, clear | find returns what was stored |
| `ZeroCopyUDP` (`HFTPerf.h`) | `last_seq_`, `rx_`, `drop_` | recv | no packet twice, none late |
| `SymbolIndex`, sockets and core pinning, `Logger`, `LatencyProfiler`, `TradeTracker`, `NetworkClient` | see section 7 | | |

`PROJECT.json` lists all components with their status, and the hazards of the code, each at
the line where it bites and with the properties that would catch it.

## 2 Modules

    BoundedQueue  <=implements=  LockFreeQueue                         LockFreeQueueProofs
                  <=implements=  TickBuffer  <-extends-  TradingEngine TradingEngineProofs
    LevelMap      <=implements=  OrderBook   <-extends-  MarketFeed    MarketFeedProofs
                                 ThreadPool                            ThreadPoolProofs
                                 Session                               SessionProofs
    SignalGenerator <-extends- Indicators, Backtester <-extends- Replay  ReplayProofs
                                 TradingAlgorithms                     TradingAlgorithmsProofs
    BitScanningOrderBook, BitmaskOrderBook, FlatHashFreeArray,
    ZeroCopyUDP, RiskManager, DashboardChart                           LibraryProofs

    MCMarketData: MarketFeed, Replay       MCLifecycle: Session, ThreadPool
    MCLibrary: the library's parts and TradingAlgorithms

Each `MC<module>` only gives names to the model values of its runs, except three that put
parts which share nothing under one next-state relation, in which a behaviour is one of them
at work and the others at rest in one of their initial states: `MCMarketData` (the depth
stream and the trade stream), `MCLifecycle` (what starts threads and has to end) and
`MCLibrary`.

A definition preceded by "Mutant" states how a plausible bug in the operator below it would read: it is used by no
specification, and every property of section 3 is violated when the original is replaced
by one of them.

**BoundedQueue, LevelMap** are what the queues and the book promise: a FIFO sequence of
bounded length, and per side a map from price to quantity with at most `MaxLevels` non-zero
entries. `LockFreeQueue` and `TickBuffer` implement the first under the mapping "what was
accepted and not yet delivered"; `OrderBook` implements the second under "the quantity shown
at each price". Failed operations are stuttering steps.

**LockFreeQueue** has one atomic or plain access per step, for any number of producers and
consumers. `slots`, `head`, `tail` are the members; `loc` the locals of push, pop and size.
The memory model: a load of the other side's index returns any value between the newest the
thread has seen (`seen`) and the current one. It orders the other side's plain accesses
before the thread's next ones only if it is an acquire, or a relaxed load followed by an
acquire fence; `synced` is the newest index read that way. `pop` has the fence
(`AcquireFence`), `push` has none after its relaxed load of `head_`. The variable `kind` says
which class the queue is an object of: `SPSCQueue` and `SPSCRingBuffer` acquire in their
loads. Where two accesses of a slot are not ordered C++ gives no meaning; the values are then
those of compiled code, which performs no store before the branch it is behind.
The indices are counted modulo `IndexMod` = 2^w where the code subtracts them;
`QueueAssumption` keeps the number of pushes below it, because `pop` compares with `<=` and would find the queue
empty for ever after a wrap, which needs 2^64 pushes. `clear()` is a run of pops.

**TickBuffer** is the ring with a ready flag per slot. Here the ready flag publishes the
tick and `write_pos_` is stored after it. `seenPops` and `seenPushes` play the role of
`seen`; a load of a flag may return an old value where neither coherence nor an
acquire/release pair forbids it. A consumer can therefore run ahead of `write_pos_`, and
`available()` of an empty buffer may return `SIZE - 1`; what can be said of its result is
`AvailableIsUsable`.

**TradingEngine** adds the network thread that offers trades, the owner that drains them,
and the control calls. The source does not compile: `tick_buffer_` is not declared in
`TradingEngine.h` and `BinanceWebSocketClient::create` does not exist. The module takes the
member to be a `TickBuffer` and `create` to make the client of
`src/BinanceWebSocketClient.cpp`, as the calls suggest.

**OrderBook** keeps `book[s]`, an array of `MaxLevels` entries per side, and `count[s]`;
stale entries above the count stay, as in the code. `Insert`, `Erase` and `SetQuantity` are
`insert_bid`/`insert_ask`, the erasures and the in-place change; `LoadLevel` and
`UpdateLevel` are the bodies of the loops of the snapshot and update handlers, with the
refusal of a new level when the side is full.

**MarketFeed** composes the book with its sources: the exchange (`live`, `batch`, `Change`,
`Send`), the snapshot fetch of `main` (`FetchSnapshot`, `FetchFails`, `ReadSnapshotLevel`),
and the handlers of the client thread. One level is one step, so everything can happen in
between. `missed` is a history variable: the levels changed without the book being told.
The exchange's batches (`depth@100ms`: absolute quantities, 0 to remove) are external.

**ThreadPool** has one access of a shared variable per step and lets a load return the
latest value. All program points of the worker loop are in the module, those behind the
inverted test of `ThreadPool.cpp:26` included; theorem `TasksNeverRun` says that they are
not reached. `enqueue`'s loop on a taken slot is part of `EnqueueWrite`: no slot is ever taken.

**Session** is one run of the program as a program counter over `main.cpp`, the requests of
the dashboard, the client thread's life and the file as numbers of rows. `thread` is
`client_thread_`: "ended" means the function returned while the `std::thread` is still
joinable, the state in which an assignment terminates the process. Prices, indicators and
drawing are left out; of the trades only "the last price is positive" remains.

**SignalGenerator, Indicators, Backtester, Replay**: `Indicators` is a session's samples and
rows, `Backtester` the loading and the runs, `Replay` puts the second on what the first
wrote. Prices are integers (cents), averages are exact fractions, so that the only rounding
is the one the code performs on purpose: a row holds VWAP printed to the cent and RSI to a
tenth. Rounding errors of `double` at a threshold are outside the model. One row has one
interval number, the 5-second bucket; consecutive rows are in the same or the next one.

**BitScanningOrderBook** is `HFT.h`'s book: the level taken is the first free bit, and a removal
frees the first level with the order's price whether it is in use or not. Its
`get_best_bid_level` and `get_best_ask_level` return the level with the lowest index in use
(`HFT.h:169-182`), which is the oldest free slot's order and not the best price; the module has
no operator for it because there is nothing true to say about its value. The prices of levels
that were never written may be anything in `Leftover`: the arrays have no initial values before
`reset()`.

**TradingAlgorithms** is one object of the base class, which for its life is one of the ten
strategies (`alg`). `mem` holds the private members of that strategy, `inPosition` the flag that
each of them declares, `Decide` the rule they share: out of a position a signal opens one, in
one only a SELL closes it. Averages and percentages are compared by multiplying out; MACD's
running averages are exact because prices are scaled by a power of two; the square root of a
deviation is squared away; a division by a price of 0 (`VolatilityMomentum` stores unusable
prices) gives an infinite return after which no comparison holds, as in IEEE arithmetic.
`Configure` reads two numbers, one, or none: a word that does not parse stores 0 and ends the
reading. Left out are reasons, copies of prices in a signal, and histories that nothing reads.
The file does not compile as it stands: `emit_signal` is called with three arguments and
declared with two. `feed` and `resets` are history.

**BitmaskOrderBook** keeps the stored cents of each side, the bits set, and the prices
accepted. A price is compared as it came with levels that were rounded, and the mask holds
insertion points: it is not the set of levels in use. Prices are fractions of a cent, so
that rounding up, down and to the same cent all happen. `clear()` must come first: nothing
else gives the masks a value.

**FlatHashFreeArray** has one place for all keys with the same low bits. **ZeroCopyUDP** is
`recv` on a network that loses, repeats and reorders; the source and the network are
external. A packet of 48 to 63 bytes passes the length test but has no sequence number of
its own: what is read is whatever the buffer held (`Garbage`). A short packet is one of 1 to
47 bytes; an empty one changes nothing.

**DashboardChart** is the part of `render` that feeds the chart: a price entry for each
frame with a price, a VWAP entry for those since the first sample, both smoothed by a
factor the slider may change in every frame.

**RiskManager** has one atomic access per step. `on_fill` and `reset` hold the mutex,
`check_order` does not. The traders that check, and later fill or give up, are the model's,
and so is that each has one order under way: nothing in the repository calls the class.
`set_limits` has no caller either; the limits are constants.

## 3 Runs

Five runs pass and seven show a disagreement (section 5). The bounds are chosen so that
every action, and every disjunct of the next-state relations, happens.

**spsc_queue** (`MCLockFreeQueue.cfg`; 69,092 states). One producer, one consumer, two
items, capacity 2, four pushes: the ring is filled, refuses, is emptied and goes round
twice. The queue is a `LockFreeQueue` or an `SPSCQueue`.

- `DeliveredInOrder`, `ImplementsBoundedQueue`: a FIFO queue, although a load may be old.
  Broken by one item too many (`HasRoomOrFull`) or by a pop that stores a wrong index
  (`PopStoreSkip`).
- `NoSlotRace`: the read of a slot happens after the write of it, and in `SPSCQueue` the write
  after the read of a lap before. Broken by a `pop` without its fence (`AcquireFenceMissing`).
  For the writes of `LockFreeQueue` it is false: that is the run `queue_race`.
- `SizeIsUsable`: `size()`, which loads the indices at different times, can be acted on until
  the caller's next operation: after a non-zero result the consumer's next pop finds an item,
  after one below the capacity the producer's next push finds room.
- `EveryItemDelivered`: an accepted item reaches a polling consumer. Broken by a pop that
  leaves the last item (`HasTwoItems`).

**market_data** (`MCMarketData.cfg`; 990,563 states). The book: three prices, two quantities,
sides of two levels, snapshots of two levels, three changes by the exchange. Two levels are the
smallest side that can be full and sorted wrongly; three prices let a better price meet a
full side; three changes let one be missed, one be batched and one be overtaken.

- `BookSorted`: no duplicate, hole or unsorted level after any sequence of insertions and
  erasures (`InsertLast`).
- `TracksExchange`, `TopOfBook`: wherever the book was told of the last change and none is
  under way, it shows the exchange's quantity; with nothing missed on a side its best price
  is the exchange's. Missed are only: levels beyond the snapshot's limit, changes between
  snapshot and connection, new levels refused by a full side, the rest of a message with a
  number that does not parse, and what a dropped connection had not delivered. These happen;
  the two properties speak of the levels they leave.
- `ImplementsLevelMap` (`EraseFrom`): the shifted arrays are a map from price to quantity.

The samples: every session of up to five with prices of 1, 3 and 4 cents, windows of 2, a
buffer of 4 (so that it overflows), all groupings into intervals, and up to two backtests on
the rows. With 1, 3 and 4 the VWAP falls on, between and within half a cent of prices.

- `CrossingsAlternate`: two VWAP crossings signalled one after the other go opposite ways:
  none is reported twice, none is passed over without another signal in its place
  (`UpdatedUnlessSignal`).
- `TradesDisjoint`, `ProfitIsEquity`: trades do not overlap, and their profit is the sum of
  what the open positions gained bar by bar.
- `RerunAgrees`: the generator keeps its memory between runs; the second run may differ at
  its first bar only (and so may the trades that follow from it).
- `ReplayHidesOnly`: the cent in the file never shows a price above VWAP that was not, and
  hides one only within half a cent.

**lifecycle** (`MCLifecycle.cfg`; 158,208 states). The session: any buttons in any frame, any
fate of the connection, the timeout at any time, a row every 2 samples (the program: 5), the
automatic backtest every 3 (100), at most 7 samples, an old file or none. Coprime steps and 7
samples give frames with a row, with a backtest test, with both and with neither.

- `SamplesWhileConnected`: a sample is taken in exactly the frames the dashboard shows as
  CONNECTED, whatever buttons come together and whatever becomes of a reconnection
  (`CheckReconnectAlways`). CONNECTED on the screen is not a connection of the client: `main`
  says so two seconds after it asked for one, and no lost connection takes it back.
- `RowsSaved`: after an orderly end the file has a row for every `RowEvery` samples.
- `SessionEnds`, under section 4's fairness: a frame loop that has begun ends.

The pool: two workers, two callers, a ring of two, four calls. `CountIsAccepted`: concurrent
callers exceed `MAX_TASKS` by at most one each but the first. `DestructorReturns`: stopped
workers end wherever they are.

**trading_engine** (`MCTradingEngine.cfg`; 435,868 states). A buffer of 3 slots (two usable),
two ticks, four pushes, all orders of control calls. `NoSlotRace`, `AvailableIsUsable` and
`ImplementsBoundedQueue` for the ready-flag ring with old loads; `StopLetsOneIn`: the trade
being stored when collection stops is the only one that still enters the buffer;
`EveryTickProcessed`: what is in the buffer is processed, also after a stop, unless the
process is terminated (`reconnect` after a lost connection assigns to a joinable thread here
as well).

**library** (`MCLibrary.cfg`; 1,168,061 states). Seven parts, one at work in a behaviour.

- Bit-scanning book: three levels per side, two prices, two ids, four orders: equal prices,
  reused ids, stale and leftover prices in free levels and full sides occur.
  `NoOrderLosesLevel`: at each price there are at least as many levels as live orders;
  `LevelsAreOrders`: exactly as many, and a correct count, as long as live orders did not share
  a price. With a shared price a removal can find a free level with that price first and then
  frees nothing, while the count goes down.
- Bitmask book: three levels, five prices in quarters of a cent. `BitmaskBest`: the level
  read through the mask is the best price accepted, rounded, and the levels behind it are in
  order, although a worse price that rounds to the same cent may stand before it.
- Key table: four keys in two places, two values. `FindsLastStored`: find returns what was
  last stored, through refusals, removals and reuse of the place; `size()` is too large by
  the insertions that replaced a value.
- Packets: four numbers, six packets, any loss, repetition or order. `DeliversNewest`: the
  numbers handed over rise strictly and the newest that arrived is among them, except that
  number 0 is always dropped; one torn packet may shut out all that follow.
- Risk manager: three traders, limits of a few cents, five fills. `LimitsOvershoot` gives the
  exact allowance: one order per other trader for the position, one fill per trader for the
  loss. Broken by a test that looks at long positions only (`FitsPositionLong`).
- Strategies: each of the ten with windows of one to six ticks on feeds whose values lie on both
  sides of each of its thresholds, unusable values (0) included, with resets at up to two
  places, and signals cleared or thresholds changed at any time. Time stamps wrap at 8. All
  ten open and close positions.
  `LongSignalsAlternate`: the seven that only buy to open never close or buy into a position
  twice, and the last signal tells the position (`DecideStaying`). The first signal after a
  reset is excepted: `reset()` keeps the position.
  `PositionFollowsIndicator`: a crossover strategy (MACD, SMA, delta) is in a position when
  its fast line is above the slow one. It can be out of step only by a crossing it did not
  look at, on the first tick after a start or a reset, and a later tick either keeps the
  two as they are or brings them together (`CrossingConfirmed`).
  `WindowsHoldNewest`: the windows of SMA, of trade sizes and of a burst hold exactly the
  newest accepted ticks since the last reset (`NewestAndOne`); a burst's only from time
  `window_ms` on, because before it the cutoff wraps around.
- Chart: lines of three entries, six frames, two smoothing factors. `ChartLines`: the VWAP
  line belongs to the newest frames of the price line (and is drawn too far left until both
  are full), and a smoothed value never leaves the range of what was seen.

## 4 Fairness

Safety properties are checked with the plain specification inside the fair one. Liveness
assumes only:

- `LockFreeQueue`, `TradingEngine`: a call that was started goes on (weak fairness of the
  thread), consumers keep polling, and a store becomes visible to a polling thread in finite
  time (strong fairness of a load that returns the current value). The last is what the C++
  standard asks of atomics. Nobody has to push, and a control call need never be made.
- `ThreadPool`: every thread that runs is scheduled. Nobody has to call anything.
- `Session`: frames go on and time passes. Nothing is assumed of the start-up, which may wait
  for ever in the snapshot's connection (`BinanceRESTClient.cpp:53,70` set no timeout), so
  `SessionEnds` begins at the frame loop; and nothing of the network, so it holds with no
  connection and no data.

Deadlock is checked in the runs of the queue. In the others the
system may stop: the session ends, the exchange has no change left, the pool is destroyed,
the process is terminated, a chart has had its frames.

## 5 Where code and documents differ

Seven runs each show one counterexample.

| run | what the code does | what is said of it |
|---|---|---|
| `mpmc_queue`, `NoItemLost` | two producers load the same `tail_`, write one slot and both return true | ARCHITECTURE.md:142 "CAS-based, multi-producer/multi-consumer" |
| `empty_book`, `EmptyBookReturnsZero` | the best price is read from slot 0 whatever the count; an erased last level is still quoted | DESIGN.md:145 "Return 0.0 for bid/ask" |
| `wait_all`, `WaitAllReturns` | workers test `tail <= head` and never take a task, so the count never falls | test_performance.cpp:193-195 waits for 100 tasks and asserts that they ran |
| `connect_button`, `ConnectButtonSurvives` | `connect()` assigns to a joinable `std::thread`: `std::terminate` | main.cpp:91 "User pressed CONNECT - reconnecting..." |
| `queue_race`, `SlotReuseIsOrdered` | `push` loads `head_` relaxed (LockFreeQueue.h:18) and only releases, so its plain write of a slot is not ordered after the plain read of a lap before: a data race already with one thread on each side | ARCHITECTURE.md:135-142, "Thread Safety": "Lock-free MPMC" |
| `session_backtest`, `BacktestOnAccumulatedData` | the CSV file is truncated (main.cpp:43) before it is loaded (line 60), so `backtest_loaded` is false in every session that can write rows, and no session is backtested on its data | main.cpp:174-180 "Run backtest on accumulated data", "Only run once per session after first data" |
| `rsi_frozen`, `RsiFollowsPrices` | RSI is computed from the first 15 samples of the session for ever; no RSI signal can come after them | DESIGN.md:57-59 "Period: 14", "Average gain / Average loss over period"; README.md:42-43 promises signals on leaving the zones |

Seen while modelling and not the subject of a run:

- DESIGN.md:142 promises automatic reconnection with back-off; nothing reconnects but the
  CONNECT button, which the run `connect_button` is about. DESIGN.md:144 says a full queue drops its
  oldest tick; all queues refuse the new one.
- SMA stops at sample 4096, when the sample buffer refuses more (DESIGN.md:53 "Sum of last N
  prices / N"); theorem `AveragesAre` says what it then is.
- `ParameterSweep::run` never returns once the pool accepted a task (`wait_all` again).
- `BitScanningOrderBook`'s best levels are the lowest slots in use (section 2), and
  `BitmaskOrderBook`'s masks are not "bitmask of active levels" (ARCHITECTURE.md:115); its best
  price is right all the same (`BitmaskBest`).
- Descriptions in `TradingAlgorithms.cpp` and what is done: `VWAPBreakout` "with volume" (line
  301) looks at no volume; `TradeSizeSpike` "Buy when large trades appear" (344) opens with SELL
  on a large sell; `MomentumBurst` "Buy when price jumps X% in Y ms" (181) empties its window at
  a tick before time `window_ms`, because the cutoff is unsigned (189); `Supertrend` buys at its
  first complete window, whatever the trend, because a band of 0 is below every price, and its
  bands only ever narrow, over resets, until every price is outside both (234). `reset()` keeps
  the position of every strategy (25), so that the first signal after it can be a SELL.
- `ZeroCopyUDP::recv` counts a short packet as an error like a broken socket (both -1) and
  overwrites the caller's record with an old packet before it refuses it.
- test_hft.cpp:106-107 asserts 1000 insertions of keys `i * 100` into a `FlatHashFreeArray`
  that indexes by `key & (Capacity - 1)` and refuses a collision.
- `TradingEngine::run_backtest` leaves the engine CONNECTED whatever it was before, and the
  class does not compile (section 2).

## 6 Proofs

TLAPS checks eight modules, for all values of the constants within the named assumptions of
the modules they prove things about. `PROJECT.json` lists the theorems.

**LockFreeQueueProofs.** From `QueueAssumption` and `SingleProducerConsumer` (at most one
producer and at most one consumer): `TypeCorrect`, `Fifo`, `RaceFree`, `SizeHint` and
`Refinement`. The properties are not inductive: they do not say what a thread in the middle of
an operation knows. `IInv` adds it. `IndexInv` bounds the indices and ties them to the
histories, `ContentInv` says what the slots in use hold, `ProducerInv` that the producer's local
tail is exact and its last seen head old but safe, `ConsumerInv` the mirror image, and that what
it is about to hand out was synchronised with. There is one lemma per action; the only
arithmetic beyond addition is that two different indices less than `Capacity` apart have
different slots (`SlotsDistinct`). `Refinement` maps the slots from `head` to `tail` to the
abstract queue: `PushStore` is `Put`, `PopStore` is `Get`, every other step stutters.

**TradingEngineProofs.** From `BufferAssumption`: `EngineRaceFree`, `AnswersHold`,
`EngineRefinement` and `StopIsPrompt`. The ring with ready flags needs more than the queue,
because a flag may be read old and is set before `write_pos_` moves: `PositionInv` ties the
positions to the histories, and to what each side last saw of the other's, by program point;
`FlagInv` says which slots are ready, and with them `ContentInv` which hold an accepted tick;
`AnswerInv` keeps what `available()` answered true until the caller's next operation. `LateInv`
is the engine's part: while it collects, no tick is late, and a late one was between the test
and the store.

**MarketFeedProofs.** The book first, from `BookAssumption`: `BookTypeCorrect`,
`BookStaysSorted` and `BookImplementsMap`. `BookSorted` with the types is inductive; the work
is in the shifts of `Insert` and `Erase`, and for the refinement in `InsertShows`,
`EraseShows` and `SetQuantityShows`, which say what quantity each price has afterwards.
`QuotedBelowMax` supplies the guard of the abstract map: a side with space quotes fewer than
`MaxLevels` prices. Then the feed. `FeedUsesBook`: it is an instance of the book, that is,
every step of it either leaves the book alone or is a step of `BookNext`, whose precondition
(a snapshot level is not in the book yet) it must establish. `LiveBookSorted` and
`LiveBookImplementsMap` follow from it and the book's theorems. `FeedTracksExchange` needs
the strengthening `FeedInv`: the last word on a level, wherever it is under way (batch,
inbox, current message), is the exchange's quantity. `FeedTopOfBook` follows from tracking
and sortedness.

**ThreadPoolProofs.** From `PoolAssumption`, for any number of workers and callers:
`PoolTypeCorrect` and `TasksNeverRun`, where the strengthening is that workers stay at the
idle points of the loop and carry local tails of 0 while `head` is a natural number; and
`CountsAccepted`, where it is that callers in the middle of `enqueue` have different tasks
and that the count plus the callers already admitted stays within the allowance: each of
them saw the count before the others added to it.

**SessionProofs.** From `SessionAssumption`: `SamplesAsShown`, `FirstConnectIsSafe`, `NoRowLost`
and `BacktestIsOld` (why `session_backtest` fails). `ShowInv` ties `collecting_data` to the
dashboard's state at every program point; `ThreadInv` says that there is no thread before the
first `connect()`; `RowInv` that while the file is open its rows are the samples divided by
`RowEvery` and that the disk has no more of them; `BacktestInv` that after an opening that
truncated the file, nothing is loaded. One lemma per group of program points.

**ReplayProofs.** From the assumptions of `SignalGenerator`, `Indicators` and `Backtester`:
`CrossingsDiffer`, `AveragesAre`, `FileHidesOnly`, `TradesFollow`, `ProfitAddsUp` and
`RerunsAgree`. The module begins with a theory of folds, since sums and folds of
the community modules are recursive functions chosen by their equation, and the library's
induction theorems, which take an operator, cannot be used: induction is done over a
set of naturals (`NatInductive`) and over the subsets of a finite set (`FoldExists`,
`FoldAgree`), so that the equation has a solution and all solutions agree. From this follow
what a sum over an interval gains with one more element (`TotalGrows`), that it does not
depend on the order (`TotalSplits`), that `SumPnl` grows by each trade's profit, that
`compute_metrics` reports that sum (`TallyIs`), and that loaded bars have their types.
`LiveInv` is then inductive for sampling: the ring is a prefix of the feed, running sums are
the sums, the generator's zones are those of the last RSI, and the last signal, if it is a
crossing, says on which side of VWAP the generator stands. `BtInv` is
inductive for loading and backtesting: bars keep their types, the trades end before the open
position begins, the signals of bar 2 and later are a function of two neighbouring bars, and
equity is the closed trades' profit plus the open position's gain.

**TradingAlgorithmsProofs.** From `AlgorithmsAssumption`: `LongSignals`, which reduces ten
strategies to one rule (`Moves`: hold, open, or sell) that keeps `AlternateInv`; and
`CrossoverFollows`, an action property, with what the strategies keep of the last comparison
(`MemInv`). And `WindowsAreNewest`: all parameters, feeds and resets leave the windows of
`DualSMA`, `TradeSizeSpike` and `MomentumBurst` a function of the feed. Its hypothesis
`OrderlyMarket` is about `Offered`, a parameter: the ticks it brings carry whole prices and
volumes (the model's arithmetic is exact, so these are multiples of a unit), time stamps in
range, and trades come in the order of their times; `SmallOffered` does. Without that order
the deque is not sorted by time, and what a burst keeps depends on the order of arrival. Of the
parameters `AlgorithmsAssumption` says that window sizes are natural numbers and that a burst's
window is less than the range of a time stamp.
The property speaks of sets of indices of the feed, the memory of sequences, so the proof
begins with a theory of the two: every set of indices has one list in increasing order
(`ListExists`, `NthListed`), to which `InOrder` applies the values; the newest entries of
the list are the list of the newest indices (`LastListed`); pushing and cutting a cut list is
cutting the longer one (`NewestAgain`). This gives `WindowPushed`, the step of all windows, and
`CutAtTime`, the step of the burst's, with `CutoffIs` for the unsigned difference.
`MemoryInv` is then inductive: the feed keeps its types and its order (`FeedInv`), the memory
its shape (`ShapeInv`), and the windows are as the property says, the burst's also before time
`window_ms` (`BurstInv`).

**LibraryProofs.** A section per part, each about its own specification and from its own
assumption. `TableIsMap`: the entries are what was last stored (`TableInv`). `UdpDelivers`: the
last number handed over is the largest that arrived, unless a packet was torn (`UdpInv`).
`OvershootIsBounded`: the position stays within the allowance even when every order under way is
filled; no sum over traders is needed, because it is enough that one of the orders, the last to
be checked, fits together with as many of the largest size as there are others (`Room` in
`RiskInv`). `LevelsSuffice` and `LevelsMatch`: on a side without shared prices the first level
with a price is the one in use (`BitInv`). `BestThroughMask`: levels are in order and the first
is the best price, rounded (`PackedInv`). `ChartLinesHold`: a smoothed value lies between the
least and the greatest seen, although it is rounded in every frame, and the lines end at the
same frames (`ChartInv`).

Only model-checked: every liveness property (temporal proofs under fairness and `ENABLED` are
out of the prover's reach). Of the values that recursive definitions compute only what the
theorems need is proved: that a sum of natural numbers is one, what it gains with an
element, that its order does not matter.

## 7 What is not modelled

- `ParameterSweep`: it runs on the repository's own pool, whose workers take no task
  (`TasksNeverRun`), so no result is ever reported and `run` does not return; a model of what
  the tasks would do is one of another program.
- Sockets (`bind`, `close`, `ZeroCopyUDPSocket`) and core pinning (`CPUPinner`, `CpuPinner`):
  system calls with no state of their own.
- `SymbolIndex`: a map under one mutex whose `get` returns a pointer that outlives the lock;
  what a caller does with it after a `remove` is undefined, and the repository has no caller.
- `Logger`, `LatencyProfiler`, `TradeTracker`, `Config`, drawing and formatting: output and
  counters without control of their own (`TradeTracker` is a vector nobody fills; most of
  `DashboardUI.cpp` is drawing). `NetworkClient`: a stub no other part uses.
- In modelled parts: HTTP, TLS and JSON are reduced to a document or a failure; the
  destructor's `detach`, after which the thread may touch freed memory, is left out because
  nothing that follows has a defined state; the unsynchronised loads of a sample may pair two
  trades, in every combination, so no property is stated of them; `TickBuffer::clear` has no
  caller; of the metrics, percentages, averages and the Sharpe ratio are left out.

## 8 Plan

Done, in the order of importance: queue, book and feed, thread pool, session, replay,
trading engine, bit-scanning book, risk manager; the strategies, the remaining
structures of the HFT headers and the chart; then the proofs of section 6.

Every part with control of its own is modelled; with twelve runs the project has the
questions it can keep under control, so a new run takes the place of the weakest. Type
invariants are proved where there are proofs and are not runs' properties.

Every invariant and every action property of the passing runs is proved. Left: a proof of
liveness, when the prover supports fairness, of what the runs check on small
instances; properties of the sampling loads of `main`, when the code says what a row
should hold.

## 9 How to run

    tlc -config MCSession.cfg MCSession      # one run; the cfg names the module
    tlapm LockFreeQueueProofs.tla            # all proofs of a module

`MCTradingEngine.cfg`, `MCMarketData.cfg`, `MCLifecycle.cfg` and `MCLibrary.cfg` take about a
minute each, the others a few seconds. `PROJECT.json` lists components, runs, mutants, hazards,
findings and theorems, and maps every definition to the source lines it stands for.
