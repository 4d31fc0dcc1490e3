# Verification of the gasless swap demo

TLA+ modules, TLC configurations and TLAPS proofs for the gasless USDC -> native
token swap demo: an ERC-4337 paymaster that is paid from the swap it sponsors,
the demo exchange it prices against, and the off-chain services around them.
Paths below are relative to the repository.

    tlasany M.tla                          parse a module
    tlc -config MCEntryPoint.cfg MCEntryPoint.tla
    tlapm EntryPointProofs.tla             check the proofs of a module

## 1. The system

### Components, their state and their operations

| Component | Source | State | Operations |
|---|---|---|---|
| Demo exchange | `paymaster/src/demo/` | pool reserves, two ERC-20 ledgers | swap through the router or at the pool itself, add liquidity, transfer, mint, wrap, unwrap |
| Paymaster | `paymaster/src/GaslessSwapPaymaster.sol` | policy, `lastPostOpTs`, five counters; oracle price | validate an operation, `_postOp`, `setPolicy`, `setPrice` |
| EntryPoint v0.7, SimpleAccount | `paymaster/lib/account-abstraction/` (vendored, what the demo uses) | deposits, nonces, deployed accounts | `handleOps`, `depositTo`, `withdrawTo`, `executeBatch` |
| Bundler engine (two instances) | `bundler/src/BundlerEngine.ts` | mempool map, in-flight flag, timer, start block | `eth_sendUserOperation`, bundle attempt, start, stop |
| Bundler estimation and read-only RPC | `bundler/src/` (`BundlerEngine.ts`, `simulations.ts`, `packing.ts`, `preVerificationGas.ts`), `web/src/utils/userop.ts` | none of its own | estimate, receipt, look-up by hash |
| Bundle submission | `BundlerEngine.ts`, `packing.ts`, `simulations.ts`, `web/src/utils/userop.ts`, `web/src/ui/App.tsx` | one bundle on its way | beneficiary, transaction type, reason of a failure |
| Monitor: indexer | `paymaster_monitor/server/src/chain/indexer.ts`, `stores/UserOpAnalyticsStore.ts` | last processed block, daily NDJSON files, analytics store | sync a range, restart from state |
| Monitor: reports, soak test | `.../server.ts`, `UserOpAnalyticsStore.ts`, `scripts/soak-analyze.mjs`, `scripts/soak-gasless.sh` | collected reports | summary, per sender, failures, series, list; verdict of a run |
| Monitor: bundler supervision | `.../server.ts`, `stores/BundlerRegistry.ts` | registry, child processes, ports | register, spawn, stop, unregister, health check |
| Monitor: logs | `stores/LogStore.ts`, `stores/NdjsonLogWriter.ts` | ring buffer, files, SSE clients | ingest, stream, reload |
| Monitor: telemetry, users | `stores/TelemetryStore.ts`, both web apps | sessions, owners, senders | heartbeat, list |
| Monitor: wallets | `stores/WalletAnalyticsStore.ts`, `indexer.ts` | bounded map of wallets | look up, update, evict |
| Monitor: paymaster status | `chain/paymasterStatus.ts` | none | read in groups |
| Quote service | `quote_service/src/server.ts` | issued quotes | quote, fetch, config |
| Oracle service | `oracle_service/server/src/` | status, log, the signer's nonces | update loop, manual update |
| Swap client | `web/src/ui/App.tsx` | quote, built operation, submission state | quote, swap with fail-over, poll, resubmit, paid fallback |
| Front ends' views | `web/`, `explorer/`, `paymaster_monitor/web/`, `oracle_service/web/` | what a page shows | fetch, poll, drop late answers |

Interaction: the client asks the quote service for a quote (which reads the
oracle price on chain), builds and signs an operation, estimates and submits it
at one of several bundlers over JSON-RPC, and polls for its event. A bundler
puts the operation into a `handleOps` transaction; the EntryPoint validates it
(calling the paymaster, which calls the router and the oracle) and executes the
three calls of the account's batch: approve, swap, pay the fee to the
paymaster. Bundlers post logs to the monitor, which also polls the chain, keeps
the registry of bundlers the client chooses from, spawns new ones and counts the
pages that are open. The oracle service publishes prices.

### What is hard, and what makes each part correct

* **Two loops in one transaction.** All operations of a bundle are validated
  before any is executed. Every check of the paymaster (quote, price, cooldown,
  deposit floor) may be stale when its operation runs. Correct means: fees still
  cover gas, no operation runs twice or late, the floor holds.
* **Partial failure on chain.** A batch, a postOp, or the whole bundle may
  revert; balances, counters, nonces and deposit have to tell the same story.
* **Rounding.** The pool formula, the fee formula and the quote divide; the
  rounding must go to the pool, to the paymaster, and not make a fresh quote one
  that the paymaster refuses.
* **Awaits in the bundler.** Every `await` lets other calls in; one flag keeps
  bundle attempts apart, a map is overwritten by resubmission, a rejected wait
  does not mean that the transaction failed. A receipt has to be found on every
  path, and with the logs of its own operation.
* **Blame after the fact.** Why a bundle failed is found by replaying it on a
  later chain, and reaches the user through four layers of wrapped errors.
* **Crash and restart** of the monitor between writing its position and
  appending what it has read, and in the middle of an append.
* **Reports taken at different moments** from a store that evicts and reloads,
  or from a chain that moves: they have to add up, or to differ by no more than
  what happened meanwhile.
* **Checks and children.** A port is tested before it is taken, a status is read
  before a request and written after it, a process may end at any time, and a
  shutdown may find a spawn half done.
* **Retries in the client**: a timed-out operation may still be executed after
  the user has paid for the swap otherwise; several bundlers may hold it.
* **One key, several loops** in the oracle service: nonces are read before they
  are used.
* **Late answers** to a page whose filter, token or address has changed since.

`PROJECT.json` lists the hazards line by line.

## 2. Plan

1. *Chain core* (`DemoDex`, `GaslessSwapPaymaster`, `EntryPoint`). **Modelled,
   checked and proved.**
2. `BundlerEngine`, the service it implements, its refinement, liveness; on top of
   it `BundlerRpc` (the same engine with clients that ask); `BundleSubmission`.
   **Modelled, checked and proved.**
3. `Indexer` with crash and restart, and `Reports` on top of it. **Modelled, checked
   and proved.**
4. `BundlerSupervisor`, `SwapClient` (on the abstract service), `LogPipeline`.
   **Modelled, checked and proved.**
5. `QuoteService` (with the oracle service and what the paymaster accepts),
   `Telemetry`, `WalletTraffic`, `PaymasterStatus`. **Modelled, checked and proved.**
   `FrontEnds`. **Modelled and checked**; what it promises is liveness.

Every safety property that a passing run checks is a theorem; liveness is left to
TLC (section 5). Left: to model the filters of a log query, the files written for a
spawned bundler and the EntryPoint's operations without a paymaster.

## 3. Modules

| Module | Models | Uses |
|---|---|---|
| `DemoDex` | pool, router and token ledgers; one action per successful transaction | |
| `GaslessSwapPaymaster` | the paymaster's storage, `_validatePaymasterUserOp`, `_validateCallData`, `_postOp`, policy and price | extends `DemoDex` |
| `EntryPoint` | `handleOps` as two loops with snapshot and rollback, deposit and nonces, the account's batch | extends `GaslessSwapPaymaster` |
| `EntryPointProofs` | theorems on the exchange; the inductive invariant of bundles, its safety theorems, the product across a bundle | extends `EntryPoint` |
| `UserOpService` | what a client may rely on: accepted, executed, answered (abstract) | |
| `BundlerEngine` | one bundler process and the node it sends to | implements `UserOpService` |
| `BundlerRpc` | estimates, receipts and look-ups beside the working engine | extends `BundlerEngine` |
| `BundlerEngineProofs` | inductive invariant of the engine, its safety, its refinement; order of the mempool; answers of the RPC, the logs of a receipt among them | extends `BundlerRpc`, `Induction` |
| `BundleSubmission` | one bundle: beneficiary, transaction type, the reason of its failure | |
| `SwapClient` | the web application of one user, bundlers and chain | instantiates `UserOpService` |
| `SwapClientProofs` | verdicts are true, one swap per click | extends `SwapClient` |
| `Indexer` | the monitor's chain indexer, its files, its checkpoint and its analytics store | |
| `Reports` | the monitor's reports and the soak test's verdict | extends `Indexer` |
| `IndexerProofs` | types, no block skipped, memory agrees with files, the reports agree, the soak verdict | extends `Reports`, `Induction` |
| `BundlerSupervisor` | registry, processes, ports, health checks | |
| `BundlerSupervisorProofs` | no orphans, ports differ | extends `BundlerSupervisor` |
| `LogPipeline` | from a post to memory and disk, and back after a restart | |
| `LogPipelineProofs` | what is answered is on disk, files are in order, the newest is restored | extends `LogPipeline`, `Induction` |
| `QuoteService` | quote service and oracle service around one price feed | |
| `Telemetry` | pages, heartbeats, sessions and the users' tables | |
| `WalletTraffic` | the wallets of every block, looked up by overlapping syncs | |
| `PaymasterStatus` | a status read in groups while the chain moves | |
| `ServiceProofs` | served quotes are sponsored, blame and refusals; wallets are current, sessions are pages, the users' tables agree, a status adds up | extends `QuoteService`, `BundleSubmission`, `WalletTraffic`, `Telemetry`, `PaymasterStatus`, `Induction` |
| `Induction` | lemmas on recursive functions: induction over naturals and intervals, sums over finite sets, sequences joined | |
| `FrontEnds` | any view of the web apps: fetch, poll, show | |
| `MC...` | small instances; `MCEntryPoint` and `MCServices` choose one of several at the beginning of a behaviour | |

Two modules stand in a refinement relation through `UserOpService`: the engine
implements it (proved), and the client is modelled against it, so what the client
relies on is what the engine promises.

### DemoDex

`reserve` is `reserve0`/`reserve1`, `balance` the two ERC-20 ledgers, `clock`
the block timestamp. A reverting transaction changes nothing, so an action is a
transaction that succeeds and its guard is the conjunction of the requires.
`AmountOut` keeps the integer division of `_getAmountOutGivenReserves`.
Widths are not modelled: Solidity 0.8 reverts on overflow of 256 bits, far
beyond supplies of the demo. `Swap` is a swap through `DemoRouter`, which pays the
pool before it calls it. `DemoPool.swapExactIn` is external as well, has no guard
and takes no payment itself: `SwapAtPool` is a direct call of it, which books an
input that nobody has paid and sends the output. `direct` is history, the inputs
booked in that way. The pool then holds less than its reserves say, by at most
`direct` (`PoolCovered`); a swap that it can quote and not pay reverts. Allowances are
folded into "the caller has approved".

### GaslessSwapPaymaster

An operation is a record: one field for every value the code decodes from the
call data and compares, `shape` for "this is a batch of the three calls".
`ValidCallData`, `RequiredFee`, `PriceAccepts`, `CooldownEnd`, `PaymasterAccepts`
follow `_validatePaymasterUserOp` from top to bottom. `ValidUntil` keeps the
truncation to 48 bits and "0 is for ever" (`TsMod` stands for 2^48).
`PostOpStats` and `PostOpTs` are `_postOp`; the gas it reports is what the
EntryPoint passes in, less than what is charged in the end.

### EntryPoint

One `handleOps` is many steps, so that the invariants also speak about the
middle of it: `BeginBundle` takes the snapshot, `ValidateOp` is one iteration of
the first loop (account creation, nonce, prefund, paymaster), `ExecuteOp` one of
the second with its three outcomes (`OpSucceeded`, `OpReverted`,
`PostOpReverted`), `RejectBundle` and `AbortBundle` restore the snapshot. No
other transaction runs meanwhile. Any batch may revert for lack of gas, any
cost up to the prefund may be charged. Between bundles the deposit is topped up
and withdrawn, the owner changes policy and price, and traders use the exchange,
router and pool.
`gas`, `funded`, `served` are history variables: what was charged, what was
paid in, which operations were executed.

### BundlerEngine

Node is single threaded, so an action is the code from one `await` to the next,
and everything else may run in between. A record of `call` is an accepted call
of `eth_sendUserOperation` together with the `MempoolEntry` it creates, `current`
is the `Map` from hashes to the entry stored last, `flight` the array `pending`
that `_attemptBundle` holds on to, also when the map has a newer entry under the
same hash. `step` is where `_attemptBundle` awaits; "idle" is
`bundlingInFlight === false`.

| Action | Code in `BundlerEngine.ts` |
|---|---|
| `SimulationPasses` | 171-222: fee floors and, for a strict bundler, the admission simulation on the chain of that moment |
| `Accept` | 235-243: the entry is stored |
| `Return` | 245-267: log and delay are over; the trigger, and with it the synchronous part of `_attemptBundle` |
| `TimerFires` | 332 and the same part of `_attemptBundle` |
| `Broadcast` | 353-394 up to the node's taking the transaction |
| `SendReturns` | 395-398: the answer; entries are "sent" |
| `WaitReturns`, `RecordNext` | 408-438: one entry "mined" per step, since its log is awaited |
| `FlightFails` | 440-441: any awaited call rejects, before or after the node has the transaction, or it reverted |
| `Release` | 442-468: the last log, `finally` |
| `Stop`, `Restart` | 102-104; a new process, 70-100 |
| `Mine`, `Revert`, `Drop`, `OtherExecutes` | the chain: a bundle executes if every nonce fits and may revert for any other reason; the node may lose it; another bundler may be first |

A call that is refused changes nothing and is not an action. `Date.now()` is
taken not to go back. `block` counts blocks that execute operations: `Restart`
may add one for the empty ones. A mined transaction is final, as on the demo's
local chain. Status "none" and stage "lost" mark records of a process
that is gone; they are history, no code reads them.

`UserOpService` has three sets. The bundler's `accepted` are the keys of the map,
`executed` what the chain has executed, `answered` the operations
`getUserOperationReceipt` has a receipt for, from the entry or from the search.
Executing answers at once and for good until a restart, whoever bundled the
operation, and nothing else does: that is what the entry's status, which can be
"failed" for an executed operation, must not spoil.

### BundlerRpc

The engine goes on (`EngineStep`) while one client asks: `query` is where the
method awaits and what it has read, `answer` its result until the engine's next
step. `AskReceipt` and `AskByHash` answer at once from an entry with a receipt,
else `LogsRead` (the search from the block of the start on) and
`TransactionRead` (receipt, or the decoded `handleOps`); `AskEstimate`,
`Simulated`, `Estimated` are `eth_estimateUserOperationGas`; `QueryFails` is any
request that rejects. What the methods compute is modelled by what it does:
`packUserOpV07` (bundler), `buildPackedUserOpV07` (page) and `unpackUserOpV07` on
operations whose fields may be given, empty or left out; `Filter`
(`_filterLogsForUserOp`) on the logs of a whole bundle, with the accounts it
deploys; `parseValidationData` with "0 is no end"; `calcPreVerificationGasV07`.
Addresses, words and byte strings are sequences of small values; a packed word is
a pair below `Pad` = 2^128, `AggregatorMod` and `TimeMod` stand for 2^160 and
2^48. The JavaScript bit masks of the code are division and remainder.

### BundleSubmission

`attempt.at` is where `_attemptBundle` awaits between the selection of a bundle
and its end: `SelectBeneficiary`, then `SubmitHandleOps`, `SubmitType4` or
`SubmitRefused`, `Execute`, `BlockEnds`, and the report: `FormatGiven` from the
data the error carries, else `FormatRecovered` from a replay of the transaction
on the chain of the end of its block or of now (`_tryRecoverRevertDataViaCall`).
`chain` is what the EntryPoint finds: the accounts' next nonces and last swaps, the
time of the block, the delay of the policy, what the paymaster answers; `ChainMoves`
lets others change it. `Invalid` has the order of the code: the nonce first (AA25,
used or too high, after those that the bundle's earlier operations take), then the
paymaster (AA33), then the two ends of the validity window (AA32, the swap's
deadline and the delay since the sender's last swap). A nonce that is too high and a
delay may be over when the bundle is replayed; a used nonce and a passed deadline
stay so. A simulation looks at the operation alone and stops before the times.
`selected` and `cause` are history: the chain on which the bundle was selected, the
error it has reverted with and the chain on which it did. An error is revert data or
an object with fields, and the paths along which bundler and page look for data
are the code's. `Estimate` is the way of a refusal to the page. The texts of an
EIP-7702 number ("0x", "0x0", "0x00") are told apart since the code compares
them; RLP and signatures are left out.

### SwapClient

A handler of a button runs from one await to the next: `pc` is what it awaits,
`step` what the page shows and which buttons that enables, `local` its variables.
`Connect`/`Connected`, `GetQuote`/`Quoted` and `SelectToken` are the handlers
before a swap; `GaslessSwap`, `Requoted`, `ChainRead`, `Estimated`, `Throws`,
`Signed` build and sign; `Submitted`, `Refused`, `SubmittedInVain` try one bundler
after the other, whose answer may be lost after it has taken the operation;
`Expire`, `Resend`, `Poll`, `Found`, `NotFound` are one turn of the confirmation
loop; `PaidSwap`, `PayRequoted`, `Pay`, `Paid` are the paid fallback. The bundlers
taken together are a `UserOpService`: what one has accepted may be executed, or
never. `Execute` needs the account's next nonce and a deadline that has not
passed; the swap in it may still revert. Time is one clock for client and blocks;
amounts, slippage and gas do not decide anything here but whether the quote is
large enough (`Estimated`).

### Indexer

As in the bundler, an action is the code between two `await`s, or between the
last answer of a group of requests and the next: `_syncRange` keeps nothing but
locals until all its logs, blocks and transactions have been read, so
`SyncRange` is one action whose outcome says which events could be read. The
timer starts a sync whether or not others still run (`Syncs` bounds how many),
and a sync goes on after `stop()`.

| Variable | In the code |
|---|---|
| `sync` | the local variables `from` and `latest` of every `syncOnce` that runs, and the request it awaits |
| `lastProcessedBlock`, `checkpoint` | the field, and what `_readState` would make of `indexer_state.json` |
| `store` | `byHash`; of a record, whether EntryPoint's event and the paymaster's fee are in it |
| `file`, `queue` | the NDJSON lines of each kind of event; the promise chain of `NdjsonDailyWriter` |
| `flushing` | the part of the chain that `flush()` waits for |

| Action | Code |
|---|---|
| `Boot` | `_init`: reload both files, EntryPoint's first, then the position |
| `BootFails` | `server.ts:128`: the start of the indexer rejects; the monitor serves without one until it ends |
| `SyncStarts`, `HeadRead` | `syncOnce` to `getBlockNumber`, and the choice of `from` |
| `SyncRange` | `_syncRange`: events into the store, batches into the queues |
| `Advance`, `AdvanceUnsaved` | the wallet lookups are over; position, checkpoint, next range; or the write throws |
| `SyncFails` | a request for the block number or for logs rejects |
| `Write`, `WriteFails` | an append finishes; or fails, and is logged and forgotten |
| `Stop`, `Exit`, `Crash`, `CrashInCheckpoint` | `stop()`, the end it leads to, a kill at any moment, and one that leaves the checkpoint truncated |

An operation stands for its events and the block that executed it for their
time. The files of a kind are one file; the last 512 kB are its last `TailLines`
lines, the same number for both kinds. The end of the process cuts an append
anywhere: whole lines, and perhaps a torn one that the next append is glued to.
Which of several records of one block is evicted is left open. The chain is
final. `lost` and `scanFrom` are history: events the code has dropped, and the
block from which a scan without checkpoint began. The wallet lookups, which only
take time here, are `WalletTraffic`.

### Reports

The monitor's reports are functions of `Indexer`'s store (`metricsSummary`,
`perSenderMetrics`, `getFailureMetrics`, `timeseries`, `listUserOps`), with a
record that lacks the EntryPoint's event reported as the code does: with the
paymaster's gas and no reason. A list may order operations of one block as it
likes, so `listUserOps` is the set of its possible results. `soak` is the soak
test: `CollectSummary` and `CollectUserOps` are two requests at two moments,
`SoakAborts` is `curl -f` on a monitor that is down, `analyzeSoakRun` the verdict as
far as it depends on what the indexer knows: of the four checks behind `passed` the
one that counts failed operations. The others count what the test's own runner and
the logs say (`runner_failures`, `error_logs`, `successful_attempts`).

### BundlerSupervisor

`status` and `port` are the registry, `spawning` the request that tests a port,
`proc` the child process (listening, dead, and "reaped" when its exit event has
been handled), `check` each run of `_runHealthChecks` with the rest of its list
and the answer it awaits, `phase` the monitor. `Register`, `Spawn`, `Started`,
`TestNext`, `StopBundler`, `Unregister` are the routes; a spawn awaits the test of
a port and is resumed also after `Shutdown`. `HealthTimer` and `Answered` are a
check up to its next request: the timer starts another run beside one that has
not ended. `Listen`, `Die`, `Exit` are the processes. `together` and `late` are
history: spawn requests that overlapped, and those still open at the shutdown.

### LogPipeline

`logs` is the ring buffer, `file` the lines of each day, `open` the days whose
file does not end in a newline, `queue` the promise chain of `NdjsonLogWriter`
with one task per day and batch. `Ingest` answers when its batch has been
written, `IngestLine` is the output of a spawned bundler, of which what it also
posts is skipped. `Write`, `WriteFails` are one `appendFile`; a failed one may
leave some lines and a piece of another. `Stop`, `Close`, `Exit` are `stop()` and
the end it leads to, for which an open `Stream` is waited for; `Crash` may come at
any time; `Start` is `loadRecent`, from the newest file back. Of each file no more
than the last 512 kB are read, without the line they begin in: `FileTail`, its last
`TailLines` lines. When a day's file is longer, older days fill up what it does not
give, and the memory holds the newest of the tails but not of all events. `ingested`,
`damaged`, `owed` are history.

### QuoteService

The oracle service: `Start` (cli.ts and the first run), `RunLoop` by the timer or
by `POST /update`, then per token `NonceRead`, `Send`, `Wait` or
`LoopRequestFails` (`publisher.ts`); `pool` are the signer's transactions, counted
from the account's next nonce, so that two loops and the owner (`SetByHand`) can
want the same one: the node refuses the second transaction or lets it replace the
first. `Mine` takes the next. The quote service: `Quote`, `PriceRead`,
`Quoted` or `QuoteRequestFails` are `POST /quote` between its awaits, `Serves` is
`GET /quote/:quoteId`. What the quote is for, `RouterAccepts` and
`PaymasterAccepts`, is on the other side of the comparison. Division keeps its
direction, also for negative numbers.

### Telemetry, WalletTraffic, PaymasterStatus

`Telemetry`: a page (`page`) opens and closes, connects a wallet, changes its
mode, learns the account of an owner from the factory, possibly of one it has
left, and sends a heartbeat every unit of time and whenever owner or sender
change; `wire` delivers in any order or not at all; `Receive` is
`upsertSession`; `Counted`, `SenderRows`, `OwnerTotal` are the reports.
`WalletTraffic`: `TrafficStarts`, `BlockRead`, `WalletRead`, `WalletAnswered`,
`WalletsDone`, `LookupFails` are `_syncGlobalTraffic` in overlapping syncs;
`Updated` and `Remaining` are the store's update and eviction.
`PaymasterStatus`: `StatusAsked`, `FieldRead`, `GroupRead`, `StatusFails`,
`StatusTaken` are `getPaymasterStatus`, whose groups are read one after the other
and the requests of a group in any order; `OpSponsored` and `PolicySet` change
the contract meanwhile.

### FrontEnds

A behaviour is about one view of the explorer, the admin app, the swap page or
the oracle page. A view is a record: how many requests wait for one another, whether it is polled,
whether it needs the admin token, whether its effect drops answers after its
clean-up, whether its state outlives the page, whether an error clears it. `Visit`,
`Leave`, `KeyChanges`, `Poll`, `Proceed`, `Answer`, `Refuse`, `Fail` are the same
for all of them; the tables say which is which, each mapped to the effects it
describes. Data is a version number, the key is what the effect depends on.

## 4. What TLC checks

| Run | Instance | Shows |
|---|---|---|
| `bundle` | `MCEntryPoint`, five scenarios. *time*: one sender, three nonces, deadlines around `TsMod` = 8, delay 0 or 2. *money*: two senders, policies with two buffers, markups and floors, stale exact quotes, deposits and withdrawals. *market*: batches well formed or with one call altered, beside a trader. *direct*: bundles of up to two operations beside callers of the pool who book 5 or 40 unpaid. *exchange*: all exchange operations, from an empty pool | fees held and covering gas, at most once, no execution after a non-zero deadline, cooldown between bundles, a validated operation goes through unless an earlier one has moved the pool or direct callers have left it short, no transaction shrinks the product of the booked reserves |
| `bundler_live` | strict, batches of two, timer, three calls of two operations, one restart, lossy node; fair | the service is implemented; while a whole batch waits, its operations leave the pool, unless a lost transaction is waited for |
| `bundler_rpc` | three operations of two senders with fields given, empty and left out, batches of two, two calls, lossy node, one restart | no entry in two transactions; a receipt has the logs of its operation; a look-up gives what was signed; what was executed is found; an estimate can be used |
| `type4_bundle` | a bundle with the page's authorization | **violation**: it is not sent as type 4 |
| `indexer_overlap` | two operations (symmetric), three blocks, ranges of one block, two syncs at a time (symmetric), one failure or end of the process (`MaxMishaps`), a store of one operation | no block is passed over; memory and files agree, also after a restart; eviction keeps the newest of what was read or reloaded |
| `reports` | the indexer with one sync, one failure, one end of the process; two operations of two senders, one of which fails on chain; a soak run; fair | every executed operation reaches its file; a partial record means an event lost, evicted or not reloaded; the reports agree; the soak verdict is just |
| `indexer_checkpoint` | one sync, one end of the process, no failure | **violation**: an event is past the checkpoint and not on disk |
| `supervisor` | two instances, two ports of which one belongs to another program, two runs of the health check; fair | no orphan, ports differ, a live bundler is offered and a dead one is not, in the end |
| `swap_client` | two bundlers, quotes valid for 2, time-out 2, clock to 6, two gasless and one paid swap; fair | verdicts are true, one swap per click, every swap ends |
| `swap_expired` | the same | **violation**: an operation given up as expired has been included |
| `log_pipeline` | posts with an invalid element, an event that is also printed, a raw line; two days, one of three lines, a memory of three, tails of two lines, one failing write, two stops; fair | answered is filed, in order; the newest of the files' tails are restored; a stop ends |
| `services` | `MCServices`, one part per behaviour: pages and sessions; wallets of a page; wallet traffic with two syncs; a status over two operations and a change of policy; a view; quote and oracle service; one bundle of two operations, of one sender or two, with nonces that fit or are too high, deadlines and delays, and two moves of the chain; fair where stated | sessions counted are pages open; tables of users agree; wallets are current; a status adds up; a quote served is sponsored; blame is fair and refusals are explained; views converge; prices come back |

Bounds of the chain. Two operations per bundle are enough for every pair of
"validated before, executed after"; the properties relate at most two operations
of a bundle, or one and the history. Amounts of 5 in a pool of 20/20 give quotes
3, 2, 2, 1, so an exact quote, a stale one and one below the fee all occur; fees
and prefunds of 1 to 3 wei straddle the rounding of the fee formula. `TsMod` = 8
with a clock that ends before it gives deadlines below, at and past the
truncation. A pool of 20 from which 40 are booked unpaid (`MaxDirect`) has paid out
most of its other side, and 5 a little; either before, between or after bundles. `MaxClock`, `MaxSupply`, `MaxFunded` and `MaxBundle` bound the state
space. No fairness is used there: nothing on chain promises to happen.

Bounds of the bundler. Two or three calls and one restart find the process at every await
with up to two transactions at the node, among them a resubmission of an
operation in flight and of one that is decided. Three operations and batches of
two give a bundle whose second operation depends on the first, and one whose
first deploys an account while the second does not. `MaxBundleOps` is 25 as in
the code; `Pad` = 4, `AggregatorMod` = 2, `TimeMod` = 8 leave each half of a packed
word more than one value. `bundler_live` assumes weak fairness of the calls' logs
(`fetch` and the node client have timeouts, the logger swallows errors), of the
flight (each awaited call settles; a failure is only forced when the transaction
has reverted), of the interval timer and of the chain's including or refusing what
it was sent and has not lost. A lost one is what `EveryOpLeavesPool` excepts:
`tx.wait()` has no timeout, and the flag stays set for ever.

Bounds of the indexer and its reports. Two operations can be of one block or of
two, in one range or in two, with one of them new and the other reloaded; two
syncs can overtake each other, which a third would do in pairs. Three blocks with
a look-back of one or two put the first block read at, above and below block 0 of
the look-back formula. The lines of a file are bounded because overlapping syncs
append the same event again (`MaxLines`), and failures and ends of the process
together (`MaxMishaps`): `reports` has one of each, `indexer_overlap` either; a store of one and a store that is never
full are the two cases of eviction. One end of the process finds a sync and both
queues at any point, and the next run appends to what it left; what a third run
would reload of a line glued to a torn one is not reached. `reports` assumes weak
fairness of the monitor's being started again, of the timer, of the requests of a
sync (the provider times out; a failure ends the sync and the timer starts
another) and of the appends. It claims nothing for a process that is stopping, nor
for an event the code has dropped (`lost`), nor before `scanFrom`. A soak run is
only followed where the process has not ended.

Bounds of the supervisor and the client. Two instances are enough for a pair that
competes for a port, a stopped one and a live one; the foreign port makes every
port test come out both ways. Two health loops are one that is slow and one the
timer starts beside it. Fair are port tests and requests (they settle), exits and
their events, a start, the death of a process that was signalled, and the timer;
no admin need ever call a route. In the client, two gasless swaps and a paid one
are the shortest history in which an operation that was given up competes with
two others; the clock passes every deadline and time-out. Fair are the handler
(requests are answered or fail, the user answers the wallet), time, and the
inclusion of a transaction the user pays for; no bundler need ever execute
anything.

Bounds of the logs and services. Two stops and one failing write are a torn line,
a restart that reads it and another that reads what was glued to it; with a memory
of three and tails of two (`TailLines`) a restart always joins two files, and skips a
line of the newer one when that has three. Fair are the disk, `Close` and `Exit`.
In `services`, a session window of 3 over 5 units of time lets heartbeats be late
and sessions run out; three wallets in a store of two are evicted and come back;
two sponsored operations and a new policy fall between any two groups of reads;
two flights, three keys (one of them a bad token) and two visits let every kind of late
answer arrive; two loops, one price by hand and one fault make two transactions
want the same nonce; a view that has failed once is not both opened again and given
another key, a quote is asked for before or after the second loop and not during it,
users are listed within two changes, sessions counted over one restart, which only
keeps the parts small; prices of 33 and 7, an amount of 39 and a slippage of 4.7%
make every division leave a remainder and land next to the paymaster's 95%. In the
bundle, two moves of the chain are one before the failure and one before the replay,
or two that together make a cause go away. The views checked are one
of each kind: `overview`, `latestBlocks`, `address`, `oracle`, `paymaster`, `logs`
and `users`. Fair there are the timers and the answers of requests (`ViewFairness`)
and, for the prices, the timer's loop, its steps and the mining of the signer's
transactions (`QuoteFairness`).

All these systems may stop (tokens, nonces, time or calls run out in the
instance, a user closes the page), so deadlock is not checked; what must go on is
stated as a liveness property.

## 5. What is proved

For all users, operations, policies, prices, amounts and bounds:

* `EntryPointProofs`, the exchange: types, and a pool that is short of its reserves by
  no more than its direct callers have booked, so that it is solvent as long as there
  are none (`DexSafe`); the product of the booked reserves never shrinks
  (`ProductSafe`), reserves stay positive (`ReservesSafe`). The arithmetic: with
  x' = x + a and y' = y - floor(a'y / (10000x + a')), a' = a(10000 - fee),
  x'y' >= xy because the floor is at most the real quotient.
* `EntryPointProofs`, the bundles: `IInv` is inductive (`BundleInvariant`), gives
  `ProductKept` (`ProductHeld`: within a bundle the product is at least the
  snapshot's, a rollback restores it, a batch that goes through is one swap) and
  implies `TypeOK`, `FeesHeld`, `SponsorshipSolvent`, `CountersAgree` with
  `ReportedGasIsPaid`, `DepositFloor`, `AtMostOnce`, `DeadlineWindow`,
  `CooldownAcrossBundles` and `ValidatedOpRuns`.

Why the strengthening: `BooksOK` must hold of the current chain *and* of the
snapshot, since a rollback puts the snapshot back; `PendingOK` keeps, for every
validated and not yet executed operation, what its validation established and
the operations before it cannot undo (its fee covers its prefund, its nonce is
consumed and unserved, its deadline is ahead, and the pool's quote when the bundle
began was enough). `ValidatedOpRuns` follows for an operation that finds the reserves
as they were then: the quote is the one it was validated with, and the pool can pay
it, because what it holds and what is booked unpaid add up to the reserve. Direct
callers may have taken so much that it cannot, which the property excepts. Assumptions are the named ASSUMEs
of the modules: fee at most 10%, the clock below 2^48, markups and amounts
natural numbers.

* `BundlerEngineProofs`: `IInv` is inductive (`Invariance`) and implies
  `OneTxPerEntry` (`NeverSentTwice`), `MinedIsExecuted` (`MinedIsTrue`),
  `SentIsInFlight` (`NothingStaysSent`); with it `Decided` (`DecidedForGood`) and
  `ImplementsService` (`Refinement`), for any operations, batch size, cap,
  number of calls and restarts. `FlightOK` says what each await leaves true of
  the entries in flight and of their transaction, `WaitingIsFresh` that an entry
  not yet broadcast is in no transaction, `MinedFlightExecuted` carries the
  execution from the block to the moment `tx.wait()` returns, `ChainOK` that
  nonces are past all that was executed, so that nothing is executed twice.
  For a bundle, that needs the number of its operations of one sender: an
  operation's nonce is the chain's plus the earlier ones of its sender, which
  are fewer than all of them (`NoncesAdvance`). The refinement rests on
  `AnswersAreOnChain`: what the mempool answers, a search of the chain would too.
* `BundlerEngineProofs`, the RPC: asking only reads (`QuestionsOnlyRead`: `RpcSpec`
  implies `Spec`, so all of the above holds meanwhile), and `RpcInv` (`RpcInvariance`)
  gives `ExecutedIsFound`, `EstimateIsUsable` and `ByHashIsTheOp`. That an operation
  which is found in a mined transaction is the one that was asked for needs
  `OrderInv`: every key of the mempool's map has a place of its own (`SlotsOK`), so
  that a bundle is sorted in one way, and a mined bundle has no two operations of one
  sender and nonce (`BundlesOK`), which is what identifies a hash on chain. `QueryOK`
  keeps what a query has read across its awaits. The words of an operation come back
  as packed for any widths, since a quotient and remainder by the width determine
  them. `ReceiptHasItsLogs` (`ReceiptIsItsOwn`) is about `_filterLogsForUserOp`, which
  walks over the logs of a transaction: the deployments of the first loop, the mark of
  its end, then one part per operation with its event last (`LogsInParts`). By
  induction over the logs passed (`FilterWalks`), the slice starts behind the mark and
  ends before the operation's own event, whatever the others emit. `BundlesOK` again:
  a second event of the same hash would move the end.

* `IndexerProofs`: `IInv` is inductive (`IndexerInvariant`) and implies `TypeOK`
  and `NoBlockSkipped` (`NothingSkipped`), for any number of syncs, ranges,
  retention, faults and crashes. A block number is *covered* if everything up to
  it is accounted for; a position alone is not inductive, so `SyncsOK` says of a
  sync that awaits a range that all before the range is covered, and of one that
  awaits the wallets that the range is. What is covered stays so (`CoveredStays`):
  an append moves lines from the queue to the file or the lost ones, a crash too,
  and nothing is executed in an old block. It needs that a torn line is no
  operation, which is assumed of `Ops`.
* `IndexerProofs`, memory: `MemoryInv` is inductive relative to `IInv`
  (`MemoryInvariant`) and implies `StoreMatchesFiles` and `PartialMeansLost`.
  `RecordsOK` says that whatever is filed, queued or known has been executed, and that
  a paymaster event which is filed or queued has its EntryPoint event accounted for,
  because both kinds are read in one range; `RestOK` that nothing is under way without
  an indexer, so that a restart starts from the files alone. Eviction is the
  hard case: what a full store drops is not newer than anything it keeps.
* `IndexerProofs`, the soak test: it only reads (`ReportsOnlyRead`), and `SoakIsJust`
  follows (`SoaksAreJust`) from `SoakOK`: the failures that a summary counts are of
  records in the store, and where all operations fit into the list and the store
  (`Roomy`) and no process ends, those records are still there when the list is read
  (`RoomForAll`).
* `IndexerProofs`, the reports: `ReportsAgree` (`ReportsAlwaysAgree`) holds of any store
  whose records are of executed operations, which `MemoryInv` says. A summary is a sum
  over the records, the rows of senders, the reasons and the buckets of a series are
  sums over their classes (`SumOfClasses`); that each record is in exactly one bucket is
  the division by the bucket's length (`BucketOf`). Fees and gas are compared term by
  term with the chain's (`NoMoreThanChain`), for which `ReportsAssumption` has the gas
  that `postOp` is told of no larger than what the EntryPoint reports in the end. A
  series reaches back at most `MaxWindow` blocks and adds up to the summary when the
  chain is no longer than that.
* `BundlerSupervisorProofs`: `IInv` is inductive (`SupervisorInvariant`) and
  implies `NoOrphan` (`NobodyOrphaned`) and `PortsDiffer` (`PortsAreTheirOwn`), for
  any instances and ports. `Stopped` and `LateOnes` are what a shutdown and a late
  spawn need of the processes; `TestsMeet` and `TestsMissed` say that requests
  which test a port at one time, or one and the bundler that has got its port,
  have overlapped.

* `SwapClientProofs`: `IInv` is inductive (`ClientInvariant`) and implies
  `VerdictIsTrue` (`VerdictsHold`) and `OneSwapPerClick` (`SwapsAreAskedFor`), for any
  bundlers, time-outs and numbers of swaps. `HandlerOK` relates the place at which the
  one handler awaits to the verdict shown, `OfferedOK` says that no bundler holds an
  operation which none has answered for or lost, and `CountsOK` counts a click that is
  still to be signed or paid as the operation or transaction it may become.
* `LogPipelineProofs`: `LogInv` is inductive (`LogInvariance`) and implies
  `AnsweredIsFiled` (`AnsweredOnDisk`) and `FiledInOrder` (`FilesInOrder`), for any
  posts, days, sizes, faults and restarts. `QueueOK` says that each queued write
  follows, in the order in which events were recorded, the lines of its file and the
  batches before it, so that the chain of writes and not the moment of an append
  decides the order; `AwaitedOK` that a request waits for exactly one batch, which
  holds those of its events that are neither on disk nor damaged. `RestoreIsNewest`
  (`RestoredNewest`) is an induction over the files from the newest back
  (`LoadWalks`): what has been collected is the newest of the tails passed, since the
  newest n of two sequences joined are the newest n of the second and, in front, the
  newest of the first that n leaves room for (`NewestJoins`).
* `ServiceProofs`, wallets: `WalletInv` (`WalletInvariant`) implies
  `WalletsAreCurrent` (`WalletsCurrent`). `BalancesOK` says that a stored balance is
  not older than the block at which the wallet was last seen, `NonePassedOver` that
  as long as no lookup has failed, a wallet of a block left behind has been seen since
  or evicted, and one of the block at hand is still to be looked up; `PlacesOK` that
  one which was reported is stored unless as many wallets seen no earlier take the
  places an eviction leaves.
* `ServiceProofs`, telemetry: `TelemetryInv` (`TelemetryInvariant`) implies
  `CountsArePages` (`SessionsArePages`) for `Window` >= 3, which is the code's window
  of 30 s in units of its 10 s heartbeats. `Received` is the heart: of the
  heartbeats since the last one that arrived, each is on the wire but for the one that
  may be lost. `UsersAgree` (`UsersAlwaysAgree`) is the join of owners and senders,
  which the invariant keeps, and the totals: sums of naturals over finite sets, so that
  an owner's is no less than one sender's, and senders without operations add nothing.
* `ServiceProofs`, status: `StatusInv` (`StatusInvariant`) implies `StatusAddsUp`
  (`StatusIsRecent`). Every number but the deposit only grows (`Grown`), and what has
  been read lies between the number held when the query began and the one held now,
  and the groups before the current one have been read whole.
* `ServiceProofs`, quotes: `QuoteInv` (`QuoteInvariant`) says that a stored quote is
  what its request makes of the price it carries; `ServedIsSponsored`
  (`QuotesAreSponsored`) is then arithmetic: three floors of the quote against the
  router's and the paymaster's, with a slippage of at most 470 basis points.
* `ServiceProofs`, submission: `SubmissionInv` (`SubmissionInvariant`) implies
  `BlameIsFair` (`BlameStaysFair`) and `RefusalIsExplained` (`RefusalsAreExplained`).
  `CauseOK` says that the bundle has failed on a chain since its selection and is
  replayed on the same or a later one; what an error says of an operation is true of
  the chain it comes from. `LaterIs` carries that to another chain: a used nonce and a
  passed deadline stay so, and a nonce that is too high has always been. So an
  operation that is blamed for its nonce has lost it by now or was selected too early,
  one that is blamed for its time is past its deadline or was within a delay that the
  policy may have asked for, and the replay cannot get past a cause that lasts. It can
  get past one that does not, a nonce too high, a delay or the paymaster's mind, and
  then blames a later operation: `Lasting` leaves those out.

`Induction` is what the data of any length need. The library's induction theorems take
an operator as parameter, which the provers cannot instantiate; the lemmas here take
the set of numbers for which a claim holds, and find a least one outside of it
(`WFMin`). A recursive function is a CHOOSE of one that satisfies its equation, so
that such a function exists has to be proved first, by the same induction
(`IterExists`, `FlattenSteps`). On this rest `SumFunction` over finite sets, whatever
the order in which it takes the elements (`SumWithout`, `SumWith`, `SumsCompare`,
`SumOfClasses`), and `FlattenSeq` (`FlattenParts`, `FlattenAround`).

The assumptions are those that the modules name (`LogAssumption`, `WalletAssumption`,
`TelemetryAssumption` and so on): finite sets, positive sizes, a marker that is none
of the values it stands beside. TLC evaluates them in every run.

What is proved for every instance without being repeated in a run: the types,
`PoolCovered`, `ProductNeverShrinks`, `ReservesStayPositive`, `CountersAgree`,
`DepositFloor`, `MinedIsExecuted`, `SentIsInFlight`, `Decided` and the inductive
invariants. Each of these was first checked with TLC on the instances of section 4.

Only model-checked:

* Liveness (`EveryOpLeavesPool`, `EveryOpIsFiled`, `LiveIsOffered`, `DeadNotOffered`,
  `SwapEnds`, `StopEnds`, `ViewsConverge`, `PricesComeBack`): fairness and ENABLED are
  out of the proof system's reach.
* The three claims that do not hold.

No module declares a RECURSIVE operator.

## 6. Disagreements between code and documentation

With a run:

* `paymaster_monitor/server/PLAN.md:145,156`: raw events "are persisted" and
  reloaded; the position is saved before they are, so the end of the process in
  between loses them for good (`indexer_checkpoint`).
* `web/src/ui/App.tsx:999`: "If quote deadline passed, the paymaster validation
  window is closed and the op cannot be included"; it may have been included since
  the last look at the chain, and the user is offered the paid fallback
  (`swap_expired`).
* `README.md:33`: "Bundles with EIP-7702 authorizations are submitted as Type 4
  transactions"; the page's nonce "0x" is refused by `BigNumber.from`, and the
  provider's parser knows the types 0 to 2 only. The attempt throws, and every
  operation of the bundle becomes failed (`type4_bundle`).

Seen while reading the code, without a run of their own:

* `GaslessSwapPaymaster.sol:60` calls `minDelayBetweenOpsSec` an "Anti-spam delay
  between ops from same sender"; two operations of one sender in one bundle run
  without it, since line 183 reads what line 211 writes only at execution.
  `CooldownAcrossBundles` is what does hold.
* `bundler/README.md:40`: with `autoBundleMempoolSize > 1` "the engine will wait
  for a batch of that size"; the trigger (`BundlerEngine.ts:262`) counts every
  operation ever accepted, mined and failed ones included, and then takes what
  there is. A size above 25 never triggers the timer.
* `bundler/README.md:38`: with `autoBundleMempoolSize: 1` "a single accepted
  UserOp triggers an immediate bundle"; not while the engine still posts the logs
  of the one before, and without a timer nothing else will until the next call.
* `BundlerEngine.ts:531`: the provider of ethers 5 returns the data of a reverted
  call; only what is thrown is looked at, and the reason of a failure is lost.
* `paymaster/PLAN.md:87` says the paymaster "validates quote TTL via `deadline`";
  deadline 0 (or any multiple of 2^48) is no limit for the EntryPoint. The router
  then refuses the swap, so the gas is sponsored without a fee; `DeadlineWindow`
  therefore speaks of deadlines other than 0.
* `UserOpAnalyticsStore.ts:50` keeps a partial record "so the UI can show 'indexed
  but missing entrypoint event'"; line 17 then takes the event for a duplicate
  when a later sync brings it, so the record says "missing" of an event that is
  on disk. Nor does it say so only of lost events: a full store may evict a record
  between its two events, and a restart may read a file in part. `PartialMeansLost`
  states what does hold.
* `paymaster_monitor/server/PLAN.md:164` gives the retention as the "disk
  rehydrate tail"; at most 512 kB of a file are reloaded.
* The soak test asks for 10000 operations and gets 2000 at most
  (`UserOpAnalyticsStore.ts:80`), so that failures beyond them are not counted.
* `scripts/swap-bot.ts:140` counts a JSON-RPC error, which comes with status 200,
  as a success.
* `quote_service/src/server.ts:218` reverses the shared list of logs in place at
  every request.
* `paymaster_monitor/server/src/server.ts:128`: an indexer that cannot start is
  never tried again (`BootFails`).

Hazards without a property, beside those of this list: a validated operation whose
quote an earlier one of its bundle has spoilt reverts, and its gas is sponsored
without a fee (`GaslessSwapPaymaster.sol:159`); an operation given up after 60 s may
be executed beside the paid fallback (`web/src/ui/App.tsx:1072`), which are two clicks
and two swaps; the node loses a
transaction and `tx.wait()` of the publisher waits for ever; a checkpoint is taken over by a local chain that was
started anew (`indexer.ts:290`); one operation that fails validation makes its
whole bundle fail (`BundlerEngine.ts:441`), which is what the code means to do; a
view that is fetched once shows whichever answer comes last (monitor's
`App.tsx:197`); the log page loses or repeats lines between query and stream
(239); a line of a child's output that is cut by a chunk is recorded in pieces
(`server.ts:597`).

## 7. Not modelled

* Deployment and operations tooling: one-shot scripts and a load generator;
  `Deploy.s.sol` only gives the initial state of the chain.
* A crash of the monitor in `BundlerSupervisor`: it leaves the spawned bundlers
  running, and a new monitor does not know of them. `NoOrphan` is about an orderly end.
* Reorganisations of the chain; a mined block is final.
* Of the EntryPoint: operations without a paymaster, stakes, aggregators,
  `incrementNonce`, and its own re-entrancy guard; of the vendored libraries, what the demo
  does not use.
* The filters of a log query, the files written for a spawned bundler, layout and
  formatting of the pages, the admin's actions as far as they call a route that is
  modelled with the monitor.
* RLP, ABI and signature encodings; the EntryPoint's simulation itself, whose
  result is an input of the engine and of the estimates.
* `scripts/soak-report-latest.mjs`, which formats a verdict.

`PROJECT.json` gives the reason for each component.
