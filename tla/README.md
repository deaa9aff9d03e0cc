# fakemex in TLA+

A verification development kept beside the code of fakemex, a local terminal
for one perpetuals exchange. A Go backend holds the credentials and talks to
the exchange; an Angular frontend in the browser talks to the backend over HTTP
and one websocket. Two networks, testnet and mainnet, can be bound at once, one
of them selected; trading has to be armed by hand for the selected one.

The modules model the code, not the documentation: `PROJECT.json` maps every
definition to the lines it translates. In comments, server.go is
`backend/internal/http/server.go`, service.go is
`backend/internal/stream/service.go`, client_http.go and client_trading.go are
in `backend/internal/exchange/`; lines in `DataService` belong to the
frontend's `fakemex-data.service.ts`.

## Inventory

| component | state | operations | hard because |
| --- | --- | --- | --- |
| request gate: `http/server.go`, `cmd/fakemex/main.go` | selected runtime, armed flag, `networkMux` | 18 routes, 8 of which change something | handlers run concurrently, hold the read lock across upstream calls, the switch wants the write lock; the process may restart |
| stream manager: `stream/service.go` | feeds by key, the clients of each, cancel functions | Subscribe, Close, Reset, Snapshot; one goroutine per feed | Close, Reset and the end of a feed may all close a channel others send on; keys are reused |
| browser stream session: `server.go` 639-744 | a subscription, a sequence counter | open, forward, leave | subscription, snapshot and events are taken at three moments |
| market-data client: `exchange/client_http.go` | one websocket per feed | HTTP reads, Subscribe | reconnects silently, drops events when its channel is full |
| trading client: `exchange/client_trading.go` | last nonce | place, modify, cancel, cancel all, leverage, close position | replies get lost, batches fail in part, two operations read first and write later |
| order rules: `server.go` 868-1098, `validation/decimal.go`, price helpers of the trading client | none | pure functions | decimal arithmetic at boundaries |
| configuration: `config/config.go`, `main.go` | none after start | load, validate, bind networks | which combinations of credentials can exist |
| middleware: `http/middleware.go`, `rate/limiter.go` | visitors by address | request id, origin check, logging, rate limit | the table is never cleaned |
| data service: `frontend/.../fakemex-data.service.ts` | signals of the page, a socket, timers | bootstrap, stream, reconnect, health watch, writes | replies, events and timers in any order |
| components: `frontend/src/app` | busy flags, layout, theme | user actions | presentation, mostly |
| launcher: `launch.sh` | PID files | start, wait, stop | stale PIDs, ports in use |

Handlers call the stream manager (`Subscribe`, `Close`, `Snapshot`; `Reset` from
the switch) and the exchange client; the manager's feeds read the client's
event channel and write the sessions' channels; the session writes to the
browser's socket. What makes each correct is stated with its module below; the
hazards, each at its line, are listed in `PROJECT.json`.

Three processes interact: the page asks the server (HTTP) and listens to it
(one websocket), the server asks the exchange (HTTP) and listens to it (one
websocket per feed). The models follow these borders:

    page  DataService
      |   requests, one stream
    gate  NetworkGate -- Startup, RWMutex     contract: GateContract
      |   \__ a write: Ingress (OrderRules) --> ExchangeWrites
      |                                         contract: WriteContract
    feeds StreamManager                       contract: EventBus
      |   the data that gets through: MarketStream
    exchange (external)

## Modules

- `RWMutex` is Go's `sync.RWMutex`, external to the repository: a waiting
  writer stops new readers, and readers that waited get in before the next
  writer.
- `Startup` computes, from a configuration file and what the exchanges say of
  the accounts, whether the program starts and which network is bound to which
  account, URL and key: `config.Load` with its fall-backs and checks,
  `NewTradingClient`'s own checks, and the bindings of `main`. A file is a
  record of its settings; syntax is reduced to right or wrong.
- `NetworkGate` (extends both) is the server: every handler from the arrival of
  its request to its return, as steps between which other handlers run. A
  thread is the goroutine of one request. `entry` is the first statement after
  the lock, the other labels are the places where a handler waits for somebody
  else or has just read shared state. What a payload or the exchange answers is
  a choice among the outcomes the code distinguishes. `Restart` ends all
  threads and starts again from any file, as the file may have been changed.
- `GateContract` is what the server promises about the two gates, as one
  atomic machine: arm, disarm, start and end a write, switch, restart.
  `NetworkGate!ImplementsContract` is the refinement: the contract's `writing`
  is the runtime captured by the handlers that passed the gate, its `streams`
  are the subscriptions of the selected network.
- `StreamManager` is the stream manager of one network with its feeds'
  goroutines and the websocket loop below them. Every critical section of
  `Manager.mu` is one action; the numbering of an event, `close(out)` after the
  unlock and the blocking calls are actions of their own. Feed objects and
  subscriptions come from finite pools and are reused; the clean-up of a feed
  (`FeedExit`) returns it. `UnreliableClient` chooses between the client the
  program uses, whose `Subscribe` never fails and whose channel closes only
  after cancellation, and anything its interface allows.
- `EventBus` is what the manager promises: a topic has an audience, an event
  goes to exactly the members that have room, nobody gets anything after a
  clearing. `StreamManager!ImplementsBus` maps a key's audience to the clients
  of its current feed.
- `MarketStream` follows the data instead of the channels: from the exchange's
  websocket through the client's lossy channel, the feed and a stream's lossy
  channel to the page, beside the snapshot that is read by other means. Data is
  a version: of a state (book, asset context, account, orders) the last one
  counts, of a log (trades, candles, fills, funding) every one. Whether a
  parser finds anything depends on the shape of what it is given, so a message
  that is still raw JSON is told from one that was decoded. `view` is the
  snapshot while it is read and what the page shows afterwards; `missed` notes
  of which channels a stream lost an event to a full channel or a dead
  connection.
- `ExchangeWrites` is the signing client: each of the seven writes from the
  handler's call to its answer, with the reads before it, the nonce, the one
  post, and the parsing of the answer. The exchange is external and modelled
  from how the code uses it: it executes a posted action at any later time or
  never, also after the caller gave up; its account moves by itself (triggers
  fire, orders leave, positions drift). The clock may show anything whenever a
  write is signed. `steady` notes which orders stayed in one view while a
  cancel-all was reading, `ours` what the running process has signed, `setBack`
  whether the clock was not past a nonce of an earlier process.
- `WriteContract` is what a caller may rely on: an action takes effect once at
  most and only after it was sent, "ok" means all of it, an error means
  nothing. `ExchangeWrites!ImplementsContract` is the refinement.
- `OrderRules` computes what is accepted and what is sent: the validation and
  precision rules of the handlers, the aggressive price of a market order with
  both of its roundings, the share of a position that is closed. A decimal is a
  coefficient and a number of places, as it is written: "1.50" is not "1.5" to
  the rules that count digits. `Ingress` (extends it) is the way of a write
  through the middleware: the token bucket of its address, the origin check,
  validation, wire orders.
- `DataService` is the browser's side: `fakemex-data.service.ts` and the
  toggles and writes of `app.ts`. JavaScript runs one callback at a time, so
  every click, HTTP reply, socket event and timer is one action, and all the
  nondeterminism is in their order. Beside the page is as much of the backend
  as a page can tell: its network and toggle (`srv`), the answers to requests
  in flight (`calls`), and the server's side of each `WebSocket` (`sock`, whose
  states go from connecting to closed). `close()` leaves a socket that still
  has a close event to deliver; `intentional` is the service's
  `intentionalCloseSockets`. The page shows symbols, not prices: an event is
  its type and its sequence number, an account is where it came from (none, the
  demo, the empty one of a stream's snapshot, the configured one). `FoundArmed`
  says whether an earlier user left trading armed.
- `MCNetworkGate`, `MCStreamManager`, `MCMarketStream`, `MCDataService`,
  `MCExchangeWrites` and `MCIngress` hold the instances for TLC: files,
  requests, decimals, symmetry. `MCGateArrival` adds a history variable to the
  gate.
- `NetworkGate_proofs`, `StreamManager_proofs`, `DataService_proofs`,
  `ExchangeWrites_proofs`, `MarketStream_proofs`, `OrderRules_proofs` and
  `Ingress_proofs` hold the proofs; `NumberFacts` the facts about numbers that
  several of them use.

Definitions introduced by a comment "Mutant" are never used by a specification:
each is a plausible slip in the definition that follows it, and the property
named for it in `PROJECT.json` fails when it is put in.

## Runs

| run | question | bounds |
| --- | --- | --- |
| `gate_race` | do writes, toggles, reads, streams, switches and restarts keep the contract in every order, from any file; is every request answered, does every stream of a left network end? | 2 requests at a time, which never stop coming, of 9 of the 18 routes; 55 files, 3 answers of the exchanges |
| `gate_stale_arming` | **violated**: can a toggle that waited for a switch arm the other network? | 3 requests |
| `stream_race` | does any order of Subscribe, Close, Reset and feed exit panic, lose events silently or leave a stream on a dead feed? | 1 key, 2 subscriptions, 2 feeds, channels of 2, 3 events a feed |
| `stream_liveness` | do cancelled goroutines and reset streams end, with any client the interface allows? | 2 keys, 1 subscription, 2 feeds, 2 events a feed |
| `stream_loss` | **violated**: is a lost upstream announced? | 1 key, 1 subscription |
| `market_race` | is a page about to show the newest state whatever was queued when, does it get every fill once, does it catch up beside a browser that does not read? | 2 streams of which 1 reads, a book and the fills, 2 versions of each, channels of 2 and 1, 1 failure |
| `market_trades` | **violated**: are trades forwarded from the exchange's websocket? | 1 stream, 3 trades, no failures, room in every channel |
| `writes_race` | are nonces used once, is "ok" the truth, is cancel-all complete, does a close only reduce, is the contract kept? | 2 writes, 2 orders, positions that start or drift to -1 or 2, a clock that shows 1 or 2 ms, any number of restarts |
| `ingress` | is what is posted what the exchange trades, on the right side, for the right size, and does the limiter hold? | about 8000 writes at the edges of the rules, 2 addresses |
| `page_race` | has the page one stream, of the symbol it shows, is it never stranded, does it skip no event, is it quiet after `destroy()`, does it stream again and show the backend's network and toggle? | 2 sockets, 2 requests, 2 messages a stream, 1 user action, 1 failure |
| `page_account` | **violated**: does the stream's snapshot keep the account shown? | no failures, 1 user action |
| `page_connected` | **violated**: does a "connected" event show the page online? | no failures, 1 user action |

Two requests are a switch and whatever it meets, the handler it waits for or the
one that waits for it; requests are reused without limit, so no run bounds how
many a client sends. A reader that queues behind a switch that queues behind a
reader needs a third: `gate_stale_arming` has it, and the proofs below are for
any number. The nine routes are those of every kind the gate tells apart (the other
five writes, for example, differ in payload only). The files are no, partial,
read-only and complete credentials, in old settings and new, and each of them
with one setting wrong. With two of them only one network may trade: testnet,
or mainnet, from which a switch leads back to a testnet that can only be read.

Two feeds of one key are the one being replaced and its successor, and a third
would wait for one of them. Three events fill a channel of two, so that the
next one is dropped and counts as a gap. `MaxSequence` pauses a feed, it never
ends it. `stream_liveness` gives up the second subscription, whose part in the
end of a feed is to close, for a second key that competes for the feed objects.

In `market_race` two versions are an old one that was queued and a new one that
was read; the channel of one event overflows as soon as a page falls one event
behind. One stream opens while the other, which may have stopped reading, keeps
the feed alive.

The two writes sign in any order under any reading of the clock: the same one
twice, a later one, an earlier one; and a restart may come before, between and
after their steps. That a process whose nonces ran ahead of the clock is
started again takes three writes, which the proofs below cover. The clock is
bounded, not the nonces. One order is of a perpetual market and one is not,
because cancel-all fails on the latter. Closing shares are 50 and 100 percent of -1 and
2, one of which is too small to send.

The decimals of `ingress` lie on both sides of every limit: four to seven
digits, zeros in front and at the end, up to one place more than the market
has, markets of 0 to 7 decimals, slippages of one, the largest, and one more.

On the page, two symbols (one of them in the demo) tell a stale reply from a
fresh one. Two sockets are one whose close event is late and the current one;
requests and sockets are reused once nothing more can happen to them, so one
user action meets every delay of what came before. `MaxMoves` counts what users
do, in another window too, and `MaxFaults` what fails: the page must be seen
after the last of them. The page runs say `CHECK_DEADLOCK FALSE` because a
destroyed page stops once what was in flight has arrived. `page_race` starts
with trading left armed, so that one action of the user can be a write.

## Fairness

A handler that can run does (weak fairness): each of its waits is bounded by
`http.Server.ReadTimeout`, by the contexts of 4 to 8 seconds or by the exchange
client's timeouts. `AnnounceSwitch` gets strong fairness because Go's mutex
hands itself to a waiter that starves. Goroutines of feeds run, and the owner
of a subscription drains a channel that was closed; the latter assumes a
browser that reads, since `WriteJSON` (server.go:723) has no deadline. Nothing
is assumed about clients, restarts or the exchange.

For the market data: the client dials until it is connected (its back-off is
bounded), the feed broadcasts, and the exchange sends the state of a subscribed
channel again and again, so a push of it gets strong fairness, as there may be
no room for one at the time. Only the streams in `Readers` deliver; the others
may stop at any point. Nothing makes a stream open, or a snapshot finish.

For the page: timers fire, the browser delivers what happened to a socket, the
backend answers and subscribes (its own fairness, above), and the poll of the
health watch goes on every 15 seconds. A poll cancels the one before it
(`switchMap`), so a health reply gets strong fairness: a backend that never
answers within 15 seconds is a failure, and those are bounded. Nothing is
assumed about users and other windows.

## Proofs

`NetworkGate_proofs` proves, for any set of threads and any files, type
correctness, every safety property of `gate_race`, that mainnet is selected only
with complete credentials, and the refinement of `GateContract`. None of these
is inductive: that a write stays on its network depends on a switch running
alone. `LockUse` says that whoever is past the lock holds it, a switch
exclusively; `GateUse` that what a handler captured is still selected. Together
with the properties they make `IInv`; one lemma per part shows that a step
keeps it, one step per action. `SignersFit` is about `Startup`: whatever the
file mixes of old and new settings, a network that can trade has its own
exchange's URL and the key of its own wallet.

`StreamManager_proofs` proves for any keys, subscriptions, feeds and capacities,
and for both kinds of client, every safety property of `stream_race`: no channel
is used after it was closed, feeds are owned, open streams are served, nothing
is lost silently, and the manager implements `EventBus`. `Channels` carries the
argument: a client of a feed is open and is a client of no other, and a channel
about to be closed is still open. The refinement and `NothingIsLostSilently`
need `Numbers` in addition: a feed about to broadcast has numbered the event
last of all, and who is not subscribed holds none.

`DataService_proofs` proves for any symbols, sockets, requests and bounds the
five safety properties of `page_race` and type correctness. The invariant
`PInv` adds three things to them: the current socket was not closed by the page
(`Current`); every bootstrap in flight that no later one overtook asks for the
selected symbol (`Selection`); and only the service's own requests outlive the
page (`Requests`), which is why nothing opens a stream after `destroy()`. Steps
of a kind share a lemma: `OpenStreamStep` for whatever opens a stream,
`Progress` for a socket that moves on, `CloseEventKeeps` for a close event.

`ExchangeWrites_proofs` proves, for any writes, orders, symbols and positions,
the safety properties of `writes_race` and the refinement of `WriteContract`.
Its invariant adds: what a call has at each label (`Fresh`: no nonce and nothing
on the wire before it signs); that a nonce of this process is at most
`lastNonce` and, unless the clock once failed to be past an earlier process's
nonce, above all of those (`NonceUse`); that a close is reduce-only from the
moment it is built (`Built`); and, for cancel-all, that an order which stayed in one view
is gone, still to be read, or among what was read of that view (`Followed`).

`MarketStream_proofs` proves, for any sessions, channels, capacities and number
of versions, the safety properties of `market_race`: no channel holds more than
it has room for; the newest state of a channel is on the page, on its way to it,
or was dropped where there was no room; and a log of fills reaches the page
without gaps or repetitions. Both need to know what is where at every moment:
`Way(s)` is what is still to come to a page, the channel of its stream and
behind it the queue of the feed. A step adds one event at its end or takes one
away: the first when the page shows it, another when a full channel drops it.
`Sessional` says that a stream which is not open holds nothing, and what one that
is has read; `StatesCome` that the last event of a state on the way is the last
version sent, and that with none on the way the page has that version or a newer
one; `FillsCome` that what comes of a log is in order, behind what is shown, and
leaves no gap unless something was dropped. A state that no snapshot reads may
still be missing on a page to which none of it was sent: the invariant needs
that case.

`OrderRules_proofs` proves what the roundings of a computed price do, for any
decimals, however long, any market and any slippage: the price is one the
exchange trades at and not zero (`AggressiveTradable`), it is on the right side
of a reference the exchange trades at (`AggressiveCrosses`), and no worse than
with the largest slippage (`AggressiveLimited`). Rounding to a multiple of a
unit passes no other multiple of it; five digits are harder, since the unit
changes with the number of digits: a number of five digits with a smaller unit
lies below a power of ten which is a multiple of the larger one
(`FiveDigitsPass`). `Ten` and `NumDigits` are recursive functions; that they
obey their equations is `Recursion` of `NumberFacts`, and the smallest
counterexample (`Smallest`) takes the place of induction.

`Ingress_proofs` proves every property of `ingress`. No address gets more than
its budget, for any burst, rate and traffic: what was admitted and what is left
in the bucket never exceed the burst and what time has added. For the orders,
`Sent` says that what was posted is what a valid write turns into, and
`WiresGood` that all of it is good: computed prices by the theorems above, given
ones because `PriceFits` lets pass exactly few digits (`FitsTradable`), the size
of a close because the share of the position is rounded down (`CloseShare`).
The arithmetic is exact where the code computes a price in floating point; a
tie may go either way. That covers references of up to about ten digits, of
which the exact result is either a tie or far from one.

Assumed: the named ASSUMEs of the modules; Go's lock as `RWMutex` has it; that
a lost action is never executed and that
the exchange honours reduce-only; that it repeats its states and sends the
history of a log once per subscription; that a mark is at least the smallest
price of its market (`MarkAssumption`).

Only model-checked: liveness, which this prover cannot do, and, of course, the
violated properties. Every other property of the passing runs is a theorem.

## What the violated runs show

- A feed announces "connected" as soon as it has a channel, before there is a
  websocket; the client then reconnects for ever without a word. The
  documentation promises `connection` events for changes of the upstream.
- The snapshot a stream starts with has an account of zeros and empty lists;
  only the HTTP bootstrap fills in the configured one. Whenever the stream's
  first message comes second, which is the usual order, positions, orders and
  margin disappear from the page until an account event brings some back.
- The manager's `connection` events carry `status`, the page reads `online`:
  each of them, "connected" included, shows the page as offline.
- A request to arm trading that arrives while a switch waits for the lock is
  decided after the switch, and arms the network that was switched to. The
  comment in the switch says that arming takes an explicit re-enablement on
  the selected network.
- Trades and candles never come over the stream: the dispatcher hands their raw
  JSON to parsers that only take decoded values, while those of the other
  channels decode it themselves. Decoding it there would not be enough: the
  exchange starts every subscription with recent trades, which the snapshot has
  already.

## What the code leaves open

The properties of passing runs say where they stop; these limits are of the
code, not of the models:

- Nothing keeps the last nonce across a restart (client_trading.go:561-570). A
  clock that is set back across it, or a restart within the milliseconds by
  which the nonces ran ahead of the clock, can sign a nonce again.
  `NonceUsedOnce` excuses exactly that: a clock that is not past a nonce of an
  earlier process (`setBack`).
- Cancel-all reads the same open orders twice, filtered for one type each time
  (client_http.go:242-250). An order whose type changes in between can be in
  neither; `CancelAllIsComplete` is about the others. Whether the exchange ever
  reports such a change is not in the repository.
- A full channel drops events, and the sequence numbers, counted at the socket,
  do not show it. The properties about completeness excuse the stream it
  happened to; `ReadersCatchUp` is about the states it sees later.
- A bootstrap's reply is applied whenever it comes, over newer data of the
  stream that was opened with it; one of an older bootstrap moves the selection
  back to its symbol.
- The websocket of a cancelled feed can outlive its goroutine by up to 45
  seconds, in a read (client_http.go:433-449).

## Not modelled

- Wording of answers, logging, request ids, headers, and the recovery from a
  handler's panic. `cleanupLoop` of the limiter is never started, so the table
  of visitors only grows.
- Which field of a reply becomes which field of a document: the parsers of
  market data and of the account are modelled by whether they find anything.
- Encoding, hashing and signing an action, and the request's HTTP transport.
- Of the prices: the limit price of a close, which is posted as given and which
  no precision rule checks (server.go:975; `PostedIsTradable` exempts it), and
  reference prices below the market's smallest step, which `MarkAssumption`
  excludes because they would be rounded to zero.
- Of the page: the length of the reconnect delay, loading and error texts, the
  fields a partial event leaves alone, symbols the backend does not list.
- Components and theme of the frontend: presentation.
- The launcher: what can go wrong with PID files and ports depends on the
  operating system's reuse of both, of which the script says too little.
