# A verification of multichain-sync-btc

This directory holds TLA+ models of the repository's core, the TLC
configurations that check them on small instances, and TLAPS proofs of the
properties that matter most, for every value of the constants.

Paths below are relative to the repository (`worker/deposit.go` is
`src/worker/deposit.go`). `PROJECT.json` maps every definition that models code
to its lines.

## 1. The system

The program is a wallet middleware for Bitcoin. One binary runs one of four
commands, which share a PostgreSQL database (`cmd/multichain-sync/cli.go`):

| command | what it does | code |
|---|---|---|
| `sync` | scans the chain through a wallet node, classifies transactions per business, writes them; broadcasts withdrawals and internal transfers | `multichainsync.go`, `worker/` |
| `rpc` | registers businesses, exports addresses, builds and signs withdrawals | `services/` |
| `notify` | pass | 410 888 | both processes on the same rows, which others change at any time, with a failure, stop or crash: nothing is posted more often than it was made ready, or after `Stop`, what waits is posted or broadcast unless a task ended, `Stop` returns unless a business never answers |
| `migrate` | executes the SQL files of `migrations/` and ends | `database/db.go` |

### Inventory

| component | state | operations | talks to | what is hard | what makes it correct |
|---|---|---|---|---|---|
| header traversal, `rpcclient/syncclient/batch_block.go` | `lastTraversedHeader`, confirmation depth | `NextHeaders` | wallet node (1 + n RPCs) | the chain moves between the RPCs; any of them fails; a node lags | consecutive batches of final headers, none skipped or repeated |
| synchronizer, `worker/synchronizer.go` | `headers` (the batch to retry) | `tick`, `processBatch`, `Close` | traversal, address tables, channel, `blocks` | early returns, three error conventions, send before store, restart | no height is skipped; a resend has a reason; types as documented |
| batch handler, `worker/deposit.go` | the received batch, `resourceCtx` | `handleBatch`, `Close` | channel, tables of each business | business list read twice, retried transactions, a consumer that ends | what was received is written, and not twice |
| loop, tasks, retry, `common/` | contexts, wait group | `LoopFn.Close`, `Group.Go`, `Do` | the two above | shutdown order, panics, blocked calls | no send on a closed channel, no write after `Close`, shutdown ends |
| lifecycle, `common/cliapp`, `multichainsync.go`, `cmd/`, `config/` | application context, settings, exit code | set-up, signals, `Start`, `Stop` | everything | a signal or a failure in the middle of anything; errors that are dropped | a cancelled process exits, a successful exit has left nothing behind, a panic in the set-up has a cause |
| services, `services/handle.go`, `services/service.go` | none of its own | `BusinessRegister`, `ExportAddressesByPublicKeys`, `BuildUnSignTransaction`, `BuildSignedTransaction`, `SubmitWithdraw` | tables, wallet node, callers | several statements without a transaction; a node that fails, refuses or hangs; nil dereferences | a SUCCESS is stored, every call comes back |
| address tables, `database/addresses.go` | rows with a type | look-ups by output, input, wallet | scanner | different look-ups normalise differently | the same address is found by each |
| withdraw and internal workers, `worker/withdraw.go`, `worker/internal.go` | the list of unsent rows | broadcast, status update | wallet node, `withdraws_*`, `internals_*` | broadcast and status update are two steps, from a list read earlier | what waits is broadcast; marks of others are not undone |
| tables of a batch, `database/deposits.go`, `balances.go`, `transactions.go`, `child_txs.go`, `vins.go` | rows; balances without a key | the statements of one retried transaction | batch handler | a retry after a lost answer, older batches after newer ones, statuses that are strings here and numbers there | written together, credited as often as recorded, final when deep |
| notifier, `notifier/` | the businesses at start | mark, post, mark again | businesses, tables of the workers | mark and post are two steps, on rows that others change; a business that does not answer | each row is posted, and no more often than it was made ready |
| clocks, `common/clock/` | locks, pending items | `AdvanceTime`, `Stop`, `Reset`, `SleepCtx` | their users, the system's clock | two kinds of locks, two looks at each item | nothing is lost or fires twice, no drift, calls return |

The component list of `PROJECT.json` says for each part what is modelled, or why
it is not; its hazards say, line by line, what can go wrong that a test would
hardly reach, and which property watches it.

### The state of this commit

Some parts of the repository cannot run as they are, and the models say so
instead of repairing them silently:

- `GetBlockHeader(nil)` (the question for the newest block) dereferences the nil
  height (`client.go:40`); the first tick ends the process.
- `GetTransactionByHash` returns `nil, nil` (`client.go:71`), which
  `handleBatch` dereferences; `SendTx` returns an empty hash and no error.
- `GetBlockHeader` sets no timestamp (`client.go:48`), and the table of blocks
  asks for one above 0: the insert of the headers is refused, and the batch is
  sent again for ever.
- Deposits are stored with the status `"unsafe"` and looked for with the numbers
  0 and 1 (`deposits.go:56`, `:69`): none is ever made final or notified.
- The migration lacks a `;` after `child_txs`, has integer status columns for
  string statuses, and constraints that the inserts do not meet.
- The notifier uses statuses that `database/constant.go` does not define and
  does not compile; neither does, therefore, the binary that links it.
  `NewNotifier` writes to a nil map, too.
- `withdraws_*` asks for a block number above 0 and for a fee, which
  `BuildUnSignTransaction` does not have; nothing calls `StoreInternal` or
  `UpdateInternalTx`; `processBatch` never fills `VinList`, so no spent inputs
  are recorded.

`SyncPipeline` and `Lifecycle` have a constant `Builds` for this: a set of
builds, each a set of gaps (`"latest"`, `"tx"`, `"insert"`, `"time"`). The build
of this commit has all four, a finished one none. `WithdrawFlow`, `RpcServer` and
`Ledger` are about tables that take the records, `Notifier` about a notifier that
compiles. The safety theorems hold for every build; the run `scan` checks
builds without gaps, without `GetTransactionByHash`, with tables that refuse
the records, and with all gaps, and the run `lifecycle` builds without gaps, with
`"latest"` only, with the other three, and with all. The run `scan_live` is about a build without gaps: with
`"latest"` nothing is ever scanned.

## 2. The modules

| module | models | extends |
|---|---|---|
| `HeaderStream` | abstract: what the traversal promises (batches of consecutive confirmed heights) | |
| `BatchBlock` | `batch_block.go`, `bigint.Clamp`, the chain and the node | instantiates `HeaderStream` |
| `TxClassify` | the transaction loop of `processBatch` and the address queries, as operators | |
| `AddressScan` | one business's address table growing against every small transaction | `TxClassify` |
| `SyncPipeline` | the `sync` process's scanner: producer, consumer, shutdown, restart; registration in the `rpc` process | `BatchBlock`, `TxClassify` |
| `WithdrawFlow` | the requests of a withdrawal in the `rpc` process, the table, and the withdraw worker of the `sync` process | |
| `BatchWrites` | abstract: what `handleBatch` promises a business (a batch is written in one step, at most once) | |
| `Ledger` | the records `handleBatch` makes of a batch, its retried transaction and the tables of one business | instantiates `BatchWrites` |
| `InternalFlow` | the internal worker of the `sync` process and the rows it shares with the notifier | |
| `Notifier` | the `notify` process beside the internal worker | `InternalFlow` |
| `RpcServer` | the `rpc` process's calls and handlers, step by step, and the messages they exchange with callers and the node | |
| `Lifecycle` | a process from `main` to its exit: settings, set-up, signals, tasks, `Stop`, migrations, exit code | `RpcServer` |
| `DeterministicClock` | `common/clock/deterministic.go` with its locks | |
| `AdvancingClock` | `common/clock/advancing.go`: the system's ticks, the owner's `Start` and `Stop`, users | `DeterministicClock` |
| `MC...` | the instances TLC checks | |
| `BatchBlockProofs`, `AddressScanProofs`, `SyncPipelineProofs`, `WithdrawFlowProofs`, `LedgerProofs`, `NotifierProofs`, `LifecycleProofs`, `ClockProofs` | theorems and proofs | each its component |

### BatchBlock

`call` is where `NextHeaders` is: not running, waiting for the newest header, or
reading the headers of its range one by one. Between any two of its RPCs the
chain may grow (`Mine`) or replace its newest blocks (`Reorg`); a header is a
height with the number of the competing block at that height, so that two
headers of one height can be told apart. A node may answer from `MaxLag` below
the tip. `CallFails` is an error of any of the RPCs. `headers` is
`BaseSynchronizer.headers`, which the caller clears.

### TxClassify and AddressScan

A transaction is its input and output addresses, an address book the type of
each address. `Verdict` is what the loop of `processBatch` makes of a
transaction: one of six types, `"drop"` where it returns early with a nil error,
`"panic"` where it dereferences a nil wallet. Amounts, hashes and indexes are
left out. `Lower` is `strings.ToLower`, which `AddressExist` applies to an output before
it looks it up among rows stored as the node returned them: an address with
capital letters, such as every Base58 one, is never found as an output.
Two abstractions: the wallet rows a transaction is compared with are any rows of
their type, but the same for all its outputs; and an address query that the
database itself fails is `"drop"` for the inputs and the wallet (the action
`ScanDrops`), while the same failure for an output, which the code takes for "no
such address", is not modelled.

### SyncPipeline

- *Producer* (`prod`): `TickNext`/`TickRetry`, the steps of `NextHeaders`, one
  step per block (`ScanBlock`, or one of `ScanFails`, `ScanDrops`, `ScanPanics`,
  `ScanNothing`), `SendBatch`, `StoreBlocks`/`StoreBlocksFails`, `LoopExit`.
  The queries of one block are one step.
- *Channel*: unbuffered, so a send and its receive are one step.
- *Consumer* (`cons`): `ListBusiness`, then for each row `Prepare` (which stands
  for the calls of `GetTransactionByHash` and the `Handle...` functions that build the records),
  `RetryAttempt`, `Commit` or `AttemptFails`; `HandleFails` and `PreparePanics`
  end the task.
- *Main goroutine* (`main`): `Interrupt`, then `Deposit.Close` in its four steps.
- *The process*: `Crash` at any point, `Start` from the tables.
- *The `rpc` process*: `StoreBusiness`, `CreateTableFromTemplate`,
  `StoreAddresses`, at any point in between.

What the consumer writes is counted: `recorded[b][h]` is how often block `h` is
in the tables of business `b`. A transaction of the database is atomic and may be
committed although its answer is lost. It is refused when the tables of the
business are not there, when the keys, which are made before the first attempt,
are there already, and when it holds an internal transfer, whose balance
arithmetic (`balances.go:128`, `:152`, `:176`) yields a negative number that the
column's domain excludes. `origin`, `delivered`, `sent`, `dropped`, `bodies`, `storeErrs`
and `starts` are history variables.

A start whose first query or RPC fails leaves everything as it was (the
constructor's error is ignored and the nil worker ends the process) and is not an action.

### WithdrawFlow

- *The table* `withdraws_<business>`: `status[b][g]` and `hex[b][g]` (`TxSignHex`)
  of each row.
- *The services*: `BuildUnSignTransaction` stores a row and returns its key,
  which the client then knows (`known`) unless the answer is lost;
  `SubmitWithdraw` stores one and returns nothing; `BuildSignedTransaction` saves
  the signed transaction and makes the row unsent, whatever it was before, so
  it may be asked again at any time.
- *The worker* (`wk`): `Tick`, then for each business `ListUnSend` or
  `SkipBusiness`, for each listed row `SendTx` or `SendTxFails`, and then the
  retried status update (`SendsDone`, `RetryAttempt`, `Attempt`, `AttemptFails`).
  `list` keeps what was read; the rows may be signed anew meanwhile.
- *The process*: `Withdraw.Close` (`CloseCancel`, `CloseWait`), `Crash`, `Start`.

`broadcast` is what the node was given and `saved` every signature stored, both
history variables. What is left out, and why it makes no difference: the calls
of `UpdateWithdrawStatus` by the scanner and the notifier change no row; the
child transactions carry an id of their own under which the worker does not
look, so its list of balances is always empty; a business with two rows is
visited once per tick. The table is one that accepts the services' records and
`SendTx` one that asks the node, unlike at this commit.

### Ledger

`handleBatch` for one business. A batch is a set of transactions; from it the
definitions with the names of the code's variables (`DepositList`,
`InternalsChildTxFlowList`, `VinList`, `BalanceList`, ...) are what the
`Handle...` functions build. `work` is what the open transaction sees and `db`
what is committed. An attempt is `BeginAttempt` (the deposits and
`UpdateDepositsComfirms`), one `UpdateOrCreate` per balance record,
`StoreRows`, `Commit`; `AttemptFails` at any of them rolls back, or commits and
loses the answer. The key of a record is its batch's number with its
transaction, since the code makes keys once per batch. A batch may come again,
also an older one after a newer one (`Receive`), which is what `SyncPipeline`
shows to happen after a failed `StoreBlockss` or a restart. `BatchWrites` is the
same seen from outside: the number of batches received, the transactions
written.

`Confirmed` is one round of `UpdateDepositsComfirms`. It is applied to every
deposit and changes none, because it asks for the status 0 and a deposit is
stored `"unsafe"`; what it would do to one it finds is there all the same, with
the configured confirmations in eight bits. The run `ledger_final` shows the
consequence.

Left out because they have no effect at this commit: outputs that are spent
(`VinList` of a transaction is never filled), updates of `withdraws_` and
`internals_` rows (by keys made a moment before), locked balances (0
throughout). An internal transfer of a positive amount is refused by the
balance column's domain, as in `SyncPipeline`; one of amount 0 is not.

### InternalFlow and Notifier

The rows of internal transfers and withdrawals are in `status`. The internal
worker lists the unsent rows of a business, broadcasts them and then updates the
list, by a statement that changes rows in status `done_success` only, to that
status: it changes nothing, and must not, since the notifier of the other process
may have marked them meanwhile. The notifier lists what waits, marks it
(`BeforeAfterNotify`), posts it and marks it again; the code passes `isBefore`
both times.

`Outside` is what everybody else does to a row, at any time: `StoreInternal` and
`UpdateInternalTx` (a row found by its id, whatever its status, with a new status
and a signature or without; nothing calls them at this commit),
`StoreWithdraws`, `UpdateWithdrawByGuuid` (`BuildSignedTransaction` makes a row
unsent again, also one that was notified), the withdraw worker's late
status update (`WithdrawSent`), and `Withdrawed`, which is external: nobody gives
a withdrawal that status at this commit. `ready[r]` counts how often row `r` was
given the status that the notifier asks for. Deposits are left out: the notifier asks for
status 0 or 1 and never has any.

### RpcServer

`req[c]`, `step[c]`, `at[c]`, `got[c]`, `reply[c]`, `stored[c]`: the request of
call `c`, how far it is, which step of its handler is next, what the node has
answered last, what the caller gets, and which of its writes are committed. The
steps of each handler are a sequence with the handler's name
(`BuildUnSignTransaction == <<"GetFee", "wallet", "vins", ...>>`), and there is
one action for each way a step can go: the node answers, with code SUCCESS or
ERROR, which no handler tells apart (`NodeAnswers`), fails or hangs
(`NodeFails`); a query finds its rows or fails; a write is accepted or not
(`WriteRow`, `WriteFails`); a nil is dereferenced (`HandlerPanics`).
`SubmitWithdraw` returns `nil, nil`, which the caller decodes as code ERROR.
The `ConvertAddress` calls for the keys of one export request are one step: the
handler keeps nothing between them but its own list, and the first that fails
ends it. One that is answered with ERROR yields an empty address, whose rows are
stored all the same.

### Lifecycle

`main` is where the main goroutine is. The set-up of each command may fail,
panic, or drop an error (`Build`, `BuildFails`). `NewDeposit` asks the node where
to begin when the table of blocks is empty (`AsksNode`): a build that cannot ask
for the latest header panics there unless a starting height is given
(`LatestPanics`), without any call having failed, and a node that does not answer
holds up the process for good, since the call has no deadline (`BuildHangs`).
The goroutine that waits for a signal is armed some time after the command has
begun (`Arm`), and a signal before that is lost, because `main.go` has
registered for signals with a channel nobody reads.

A task ends in one of five ways, of which a panic is the only one that stops the
process; the consumer fails or panics without a fault in builds whose records are
refused or that cannot handle a transaction, and the loop panics in its first
tick in one that cannot ask for the latest header. A task is stuck when the node
or a business does not answer it, or when the loop sends to a consumer that has
ended (`TaskSticks`). `Stop` closes the workers in the code's order and stops at
the first error. The tasks' own behaviour is in `SyncPipeline`, `WithdrawFlow`
and `Notifier`; here a task is one value, and the table of blocks is empty or
not. For the `rpc` process the calls of `RpcServer` go on at the same time.

### DeterministicClock and AdvancingClock

An item is a task, a timer, a timer with a function, or a ticker. `AdvanceTime`
holds the clock's lock (`adv`) and looks at each pending item twice, `IsDue` and
`Fire`, so `Stop`, `Reset` and receives happen in between. `Reset` of a ticker
holds the ticker's lock while it waits for the clock's (`resetting`), which
`AdvanceTime` takes in the other order: they can deadlock (`Deadlocked`), and
the liveness properties say that nothing else keeps anybody waiting.
`AdvancingClock` adds the goroutine that follows the system's ticker, which
drops ticks nobody has received, and its owner, who calls `Start` and `Stop` in turn.

## 3. What TLC checks

| run | result | states | what it shows |
|---|---|---|---|
| `traversal_reorg` | pass | 21 552 | RPC by RPC against reorganisations as deep as the confirmation depth, lag and a failure: batches are consecutive, bounded and final, the traversal implements `HeaderStream`, and every confirmed height is reached |
| `scan` | pass | 1 897 508 | a failure of any call, a crash, an interrupt and a restart, a reorganisation, registrations and a second row of a business between any two steps, foreign payments, four builds: nothing is skipped, resent or written without a reason, handled is written, blocks are final, the shutdown order is safe |
| `scan_live` | pass | 15 971 | every accepted confirmed block is written unless the scanner is stopped; a stop completes |
| `withdraw_live` | pass | 50 874 | two withdrawals signed once or more often, three failures, stops or crashes: only stored signatures are broadcast, none after `Close`, each unsent one in the end although others fail, and `Close` returns |
| `ledger` | pass | 54 606 | five transactions of every type, batches again and out of order, failing statements, lost answers, restarts: `handleBatch` implements `BatchWrites`, a batch is written whole or not at all, no output is credited more often than it is recorded |
| `notify` | pass | 410 888 | both processes on the same rows, which others change at any time, with a failure, stop or crash: nothing is posted more often than it was made ready, or after `Stop`, what waits is posted or broadcast unless a task ended, `Stop` returns unless a business never answers |
| `lifecycle` | pass | 745 493 | all commands, settings left out, 0 or negative, four builds, an empty table of blocks or not, signals at any time, two faults of any kind, two starts, two calls: a successful exit is clean, a panic in the set-up has a cause, a SUCCESS is stored, a cancelled process exits unless a call never returns, every call ends |
| `clock` | pass | 118 658 | an item of every kind, users and the goroutine of the advancing clock: nothing due is lost or fires twice, a `Stop` that returned true prevents, ticks keep their distance, no drift, sleepers wake and calls return |
| `classify_deposit` | violation | | `synchronizer.go:105` promises deposits; an input without a row drops the batch, so there are none |
| `classify_withdraw` | violation | | `synchronizer.go:106` calls a payment from the hot wallet to the outside a withdrawal; with its change, which `handle.go:149` makes the normal case, it is booked as a collection, a type that is assigned later |
| `withdraw_unsent` | violation | | without any failure, a withdrawal that was broadcast stays unsent and is broadcast again at every tick: the status update matches rows in status `withdrawed` only |
| `ledger_final` | violation | | `deposits.go:66` promises that a deposit counts as credited once it is deep enough; the query asks for status 0, the deposits are `"unsafe"`, and none is found |

The findings of `PROJECT.json` quote what the repository says and what the code
does instead. Five more things the models show that no property claims:

- An interrupt loses the batch in the consumer's hands: `Deposit.Close` cancels
  `resourceCtx` before it waits (`deposit.go:86`), `retry.Do` returns before its
  first attempt, and the headers are stored already.
- After the consumer's task has ended with an error an interrupt never
  completes: the producer is blocked in a send that no context ends
  (`synchronizer.go:244`), and `Close` waits for it.
- A node that never answers holds up the set-up or the loop, and with it every
  shutdown: its calls have no deadline and no context (`client.go:42`, `:59`).
- A row that is made ready again between the notifier's request and its second
  marking is marked and never posted (`notifier.go:107`); one that is signed anew
  between the listing and the marking is posted all the same.
- A withdrawal whose signed transaction the node refused to build is stored and
  answered with SUCCESS, with nothing in it (`handle.go:280`).

### Bounds

- *Heights*: five to seven blocks, batches of two to four. Every case of the
  traversal (nothing, partial, full batch, several batches, retry) happens below
  that, and the theorems cover the rest.
- *Failures and restarts*: a failure and a restart in `scan`, beside what happens
  without a failure: a refused transaction, a build with gaps, a crash, an
  interrupt. With `MaxForks` 1 the newest block is replaced once, at any step.
  The chain does not grow there; it does in `scan_live` and `traversal_reorg`.
  The theorems cover every number. `MaxAttempts` 2 or 3 for the 10 of
  the code: with 2, first, last and exhausted attempts all happen.
- *`MaxStoreErrs`* bounds the endless resend of a batch whose insert was
  committed without an answer.
- *Businesses*: two, one of them registered while blocks are scanned, with up to
  two rows each (nothing makes `business_uid` unique).
- *Transactions*: one withdrawal per block, an internal transfer, a foreign payment; the
  classification itself has two runs and a theorem of its own.
- *Withdrawals*: two rows, so that one broadcast can fail beside another; two
  signatures, so that a row can be signed anew while the worker holds the old
  one; three failures, enough to exhaust the two attempts and stop or crash. One
  business: the worker keeps nothing from one to the next, and the theorem
  covers any number.

- *Ledger*: five transactions on four blocks, two deposits, one with two outputs;
  three batches and two failures, so that a batch whose answer was lost meets its
  retry and comes again after another one.
- *Notifier*: an internal transfer and a withdrawal of one business (neither task keeps anything
  from one business to the next); one fault, since the rows change underneath
  without any; the withdrawal is made ready up to twice (`MaxReady`), so that it
  is signed again and notified again; one registration before or after the start.
  The theorems cover every number of each.
- *Lifecycle*: two calls, so that one can meet a business that another is
  registering; two faults and two starts; no gap, `"latest"`, the
  other three, all four; two signals, of which one may come too
  early; two migration files; `MaxAttempts` 2 for the 10 of `NewDB`. The values
  of the flags keep their size: intervals count in units of 500 ns, which tells
  apart the defaults of the flags (5 s) and of `LoadConfig`.
- *Clock*: one item, which may be of each kind; items share only the clock's
  lock. Durations below 0, 0 and above, two units of either time, so that a tick can
  be dropped or come after a `Stop`.

The mutant of `SignedIsBroadcast` drops the status filter of
`UpdateWithdrawStatus`: marking the whole list sent would lose every withdrawal
whose broadcast failed, since the worker puts those in the same list.

Deadlock is not checked in the runs of `SyncPipeline`, whose process may stop
for good (`MaxStarts`), nor in `AddressScan`, whose table may be full, nor in
those of `WithdrawFlow`, whose worker may end on an error, nor in the others,
where processes end, batches run out or an item stays stopped.

### Fairness

Every goroutine that can take a step takes one (`WF` of the producer, the
consumer, the main goroutine and the withdraw worker: the Go scheduler). `select` between a tick and
a cancelled context is a random choice, so `LoopExit` and `WorkerExit` are strongly fair. A node
that is asked again and again answers from the tip in the end (`SF` of
`LatestRange(tip)`); without it nothing could be expected of any scanner.
The handlers of calls, the main goroutine's set-up and the listener
are weakly fair in `Lifecycle`. In the clocks a mutex that is free again and
again is obtained in the end (`SF` of `OnTick` and `ResetNow`: Go's mutexes do
not starve a waiter), and `select` does not pass over `quit` for ever.
Failures are bounded, so they stop. The chain, the services, crashes,
interrupts and starts have no fairness.

## 4. What is proved

TLAPS checks every proof; there is no assumption beyond those on the constants
(`BatchBlockAssumption`, `PipelineAssumption`, `ClassifyAssumption`,
`WithdrawAssumption`, `InternalAssumption`,
`LedgerAssumption`, `RpcAssumption`, `LifecycleAssumption`, `ClockAssumption`,
`AdvancingAssumption`). They say that the numbers are natural numbers (durations
may be any integers), that the chain starts within its bounds, that books,
blocks, rows, requests and settings have their shape, that a chain has finitely
many transactions and a transaction finitely many outputs, and that a null value
is none of the values it stands beside; TLC evaluates them.

| theorem | statement |
|---|---|
| `TraversalInvariant` | the invariant of the traversal |
| `HeadersAreFinal` | a header read by `NextHeaders` is never replaced by a reorganisation of at most `ConfDepth` blocks |
| `TraversalImplementsStream` | `BBSpec` implements `HeaderStream` |
| `ScannerInvariant`, `ScannerTypes` | the invariant of the scanner, its types |
| `NothingSkipped` | `NoSilentSkip` and `StoredAfterSent`, over failures, crashes, restarts |
| `ResendsHaveAReason` | `delivered[h] <= storeErrs + starts` |
| `ChannelClosedSafely`, `NoWritesAfterClose` | the shutdown order |
| `RetriesWriteOnce`, `HandledBatchesAreRecorded` | `NeverOverRecorded`, `HandledIsRecorded`: what the consumer writes, for any number of businesses and attempts |
| `ScansFinalBlocks` | stored headers and read transactions are of the same, final block |
| `PlainTransfersTyped` | `PlainTransfersAsDocumented`: transfers of one kind have the type that `synchronizer.go:104-109` documents, for every address book and any number of inputs and outputs |
| `WithdrawInvariant` | the invariant of the withdrawals, with their types |
| `BroadcastsAreSaved` | `OnlySavedIsBroadcast`, for any number of businesses and rows |
| `NothingAfterClose` | `NoBroadcastAfterClose` |
| `BatchIsWrittenTogether` | `WrittenTogether`, for every chain, any number of batches, attempts and failures |
| `LedgerTypes` | the types (no negative balance) |
| `BalancesAreBacked` | `BalanceIsBacked`: no output is credited more often than it is recorded |
| `CommittedStays` | `RowsStay`: no step takes a committed row away |
| `LedgerImplementsBatchWrites` | `Ledger` implements `BatchWrites` |
| `PostedAtMostOnce`, `NothingPostedAfterStop`, `NotifierTyped` | `AtMostOnce`, `NoPostAfterStop` and the types, for any number of businesses and rows |
| `LifecycleTypes` | the types of `Lifecycle` and `RpcServer`: a call is answered with its own message |
| `ExitsAreClean`, `SetupPanicsHaveACause` | `ExitIsClean`, `SetupPanicHasCause`, for all commands, settings, builds, signals, faults and restarts |
| `SuccessesAreStored` | `SuccessIsStored`, for any number of calls at once |
| `NothingLost`, `StopHolds` | `NoneLost`, `StopPrevents`, for any number of items and any durations |
| `TicksKeepApart`, `ClockKeepsTime`, `ClockIsTyped` | `TicksApart`, `NoDrift` and the types |

*The traversal.* `BBInv` adds to the types that what `NextHeaders` has read
continues `lastTraversed` without a gap and stays below the confirmed end
(`FetchInProgress`), and that the batch handed out ends at `lastTraversed`
(`BatchEndsTraversal`). Finality follows since the confirmed end was computed
from a height the chain had reached and the chain does not shrink: a header at or below
`tip - ConfDepth` is out of a reorganisation's reach now and later.

*The scanner.* `NoSilentSkip` alone is not inductive. A restart forgets
`lastTraversed` and continues above the highest stored row, so the invariant has
to say of the tables what it says of the memory: every height between `origin`
and the highest stored row was sent or given up (`SettledBelowStored`), which a
store preserves because the stored batch was just sent (`HeldIsDelivered`) and
everything below it was traversed. `ResentOnlyAfterFailure` needs that a height
above the last traversed one, or in a batch not sent yet, has an attempt to
spare (`SpareAttempt`). The shutdown properties follow from the program counters
of the three goroutines (`Phases`, `Closing`). `ScansFinalBlocks` reuses the
traversal's invariant, and that whatever was read is at or below
`tip - ConfDepth` (`ReadIsConfirmed`).

*The consumer.* Neither `NeverOverRecorded` nor `HandledIsRecorded` speaks of the
batch in hand, and both need it. `Handed` counts the rows of a business the
handler may still write its batch for (`Pending`; a row whose commit was answered
with an error is not one of them, because its keys are there). What is written
together with what may still be written never exceeds what was sent times
`MaxRows` (`WrittenWasSent`); and in the first run, what was sent and is not yet
written is in the batch of a row still to be handled (`SentIsWritten`), since
every failure of the handler leaves it at a place other than `"recv"` for good.

*The classification.* `Verdict` takes the last of six types that a loop assigns.
A transaction's types are a set of places in that order (`TypePlaces`); a plain
transfer has one (`PlainTypes`). No run of its own checks it; `WithdrawalMayHaveChange`
shows what becomes of a transfer of two kinds.

*Withdrawals.* That only stored signatures are broadcast needs the same of the
table (`UnsentIsSaved`) and of the worker's list (`ListIsSaved`), which may be
older than the table: it stays a list of stored signatures because `saved` only
grows and the business it belongs to does not change while it is held. The
status update makes no row unsent (`StatusUpdate`). `NothingAfterClose` rests on
`ClosedIsOver`: `Close` returns only after the task, and an ended task sends
nothing.

*The ledger.* `LedgerInv` says that the committed tables are whole (`Whole`: each
row of `transactions_` has exactly its deposit, its vins and its child
transactions), and of the open transaction how far it has come: nothing but
deposits and their child transactions before `StoreRows` (`HalfWritten`), whole
again before `Commit`. The work is in `BatchChilds` and `BatchVins`: the lists
that five functions build from one batch are the rows of its transactions,
none missing and none too many. Updating confirmations changes no key
(`ConfirmedKeepsKeys`).

`BalanceIsBacked` needs to know which outputs the open transaction has credited
already (`Credited`): the balances it sees are backed by the committed rows and
by the rows it is going to insert for those (`BackedInv`). This holds as long as
the batch's keys are not in the tables yet; when they are, after a commit whose
answer was lost, the balances may be credited again inside the transaction, but
`StoreRows` is refused and the transaction with it. A sum over a set is a
recursive function (`MapThenSumSet`). The induction that the library's theorems
cannot be used for is done with a least counterexample: a set of natural numbers
has a least element (`Least`), so the sums over the subsets of a finite set exist
(`SumsExist`), do not depend on the set they are subsets of (`TotalWithin`), and
one element more adds its amount, whichever the fold takes first (`TotalAdd`).
A batch that is received again has new keys: it is recorded again and credited
again, which the theorem allows and `ResendsHaveAReason` bounds.

For `BatchWrites`, `Numbered` says that of the batch in hand all rows are there
or none, and none of a batch to come: keys are made once per batch, so a second
write of it is refused. The abstract step is the commit, with its answer or
without; every other step changes nothing that `BatchWrites` sees.

*The notifier.* Rows are given any status by others at any time, so what is
posted is compared with how often a row was made ready. The invariant `Counted`
keeps a post in reserve for a row that waits to be listed (`Open`) and for one
that is in the list in hand and still to be posted (`Due`). A listed row that still waits will be marked before
the request (`MarkingMarks`), so that the two are one; a row taken back and made
ready again behind the list has been counted again. The internal worker changes
no row (`UpdateKeepsRows`), which is where the status filter of
`UpdateInternalStatus` is needed. `NothingPostedAfterStop` rests on
`StoppedIsOver`.

*The rpc server and the lifecycle.* `Calls` describes one call at every step
(`CallFine`): the writes before the step it is at are stored, but perhaps the
tables; what the node answered is an answer to the last node call it has passed;
an answer with SUCCESS has all its rows. A step of one call leaves the others
as they are (`OneCall`), and the end of the process cuts off those under way
(`CallsCut`). `SuccessIsStored` follows. Of the process, `Where` says what holds
at each place of the main goroutine: no task runs before `start`, a process
serves only in the `rpc` command, intervals are not 0 once the settings are
loaded, and the migration files
before the one it is at are executed. `Awaited` says that `Stop` has passed only
tasks that have ended. `ExitIsClean` and `SetupPanicHasCause` are inductive with
these; a process that has ended can only be started again (`Ended`).

*The clocks.* An item is described by `ItemOK` (pending and not fired, or fired or
stopped; what its `Stop` saw; when a ticker is due while no `Reset` is halfway),
`AdvanceTime` by `AdvanceOK`: what it has passed is not due, and the item it has
found due is still pending and due when it takes the lock again. The latter is
what `TicksKeepApart` and `NothingLost` need, and holds because a `Reset` moves a
tick only with the clock's lock. `NoDrift` needs to know where the time is while
the goroutine is between two of its steps, and that there is one goroutine
(`LoopOK`).

*Only model-checked*: every liveness property (`TraversalCatchesUp`,
`ConfirmedIsRecorded`, `ShutdownCompletes`, `SignedIsBroadcast`, `CloseCompletes`,
`TickFollowed`, `CallsReturn`, `ReadyIsPosted`, `StopReturns`,
`UnsentIsBroadcast`, `ShutdownExits`, `CallEnds`), since fairness and `ENABLED`
are out of the prover's reach. Every safety property of the passing runs is
proved.

## 5. The plan

Done: traversal, classification, scanner, withdrawals, internal transfers,
ledger, notifier, rpc server, lifecycle and clocks, with theorems about all of
them. Next, in this order:

1. An abstract "each block at least once, in order" specification that
   `SyncPipeline` implements, and one of a queue that hands out each row at most
   once for `Notifier`, with their refinement theorems.
2. The liveness arguments' safety halves as theorems: which steps are enabled in
   which states is what TLC checks now.
3. The strategies of `common/retry` at their limits, once something depends on
   their delays.

## 6. What is not modelled

- *Generated code* beyond the messages and stubs of the five calls and of the
  node's answers that the handlers read; the signing client, which nobody uses.
- *Serializers, logging, JSON and string utilities*: conversions of values no
  property is about.
- *The fallback worker and the reorganisation table*: an empty loop and a table
  nobody writes at this commit.
- *The migrations' DDL*, apart from the constraints that decide whether an insert
  is accepted; executing the files is in `Lifecycle`.
- *`SimpleClock` and `MinCheckedTimestamp`*: an atomic and a comparison.
- *The delays of `retry.Do`*: attempts are counted, their distance in time decides
  nothing.
- *Vouts, spent inputs and locked balances*: never written with anything at this
  commit. The fee and the choice of inputs in `BuildUnSignTransaction`: every
  request offers all rows of the hot wallet, so two requests offer the same.
- *Fields of records* that no decision reads; the truncation of output indexes to
  eight bits; the uniqueness of previous hashes in `blocks` (heights stand for
  it).

Two things the scanner cannot tell, so no property claims otherwise: an error
code in the answer to `GetBlockByNumber` is only logged and the block is taken for
empty (`ScanNothing`), delivered and never recorded; and a crash after the
headers are stored and before the consumer has committed loses the batch, so
`HandledIsRecorded` is stated for the first life of the process.
