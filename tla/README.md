# bitcore-wallet-service in TLA+

bitcore-wallet-service (BWS) keeps multisignature wallets for clients that hold
the keys. It stores wallets, addresses and spending proposals in MongoDB, serves
signed HTTP requests of the copayers of a wallet, asks blockchain explorers
about the chain and notifies copayers. Several `bws` processes run at once on
one database; beside them run a lock server, a message broker, one blockchain
monitor per coin, an email and a push service and a rate fetcher (`start.sh`).

This directory models the part of it in which the order of things, a fault or a
number decides what is correct: the wallet lock; the life of a spending proposal
under concurrent requests, crashes, lagging explorers and the blockchain
monitor; the choice of its inputs and its fee; who belongs to a wallet and can
authenticate; the addresses of a wallet; the monitors of the chains and what
they tell; the way of a notification to mailboxes, devices and clients; and the
caches of the history and the balance.

| module | what it is |
| --- | --- |
| `LocalLock` | `lib/locallock.js` under `runLocked` of `lib/lock.js`, handler by handler |
| `LocalLockProofs` | proofs about `LocalLock`, and that it refines `WalletLock`, for any number of tasks and tokens |
| `WalletLock` | what the lock promises about one token; `LocalLock` refines it |
| `TxProposal` | `lib/model/txproposal.js`: the record and its operations (operators only) |
| `Proposals` | the handlers of `lib/server.js` on that record, over `WalletLock` |
| `ProposalsProofs` | proofs about both, and that they refine `Agreement` in order, for any wallet and any number of requests in flight |
| `Agreement` | what a wallet promises its copayers about spending; `Proposals` refines it when votes do not overlap |
| `CopayerRegistry` | `createWallet`, `joinWallet`, `addAccess` on the wallet record and `copayers_lookup` |
| `CopayerRegistryProofs` | no wallet record is ever malformed, nothing is undone, and the lookup rows agree, for any number of wallets, copayers and requests |
| `Addresses` | `createAddress`, the change address of `createTx`, `scan` and `addAccess` on the address rows and the index, over `WalletLock` |
| `AddressesProofs` | no address is ever skipped; under the lock none is stored twice and a scan finds all; for any gaps and any number of requests |
| `CoinSelection` | what `createTx` makes of the options of a client: fee, inputs, change (`_selectTxInputs`, `getSendMaxInfo`) |
| `BtcBlockScan` | `lib/blockchainmonitorBtc.js`: the scan of a bitcoin network, block by block |
| `BtcBlockScanProofs` | blocks are stored in order, outputs and history are right, for any chain and any faults |
| `PaymentNotices` | the handlers of payments and confirmations that all monitors start (a part of the next two) |
| `ExplorerMonitor` | `lib/blockchainmonitor.js`: the events of an explorer's socket, over `PaymentNotices` |
| `HeightMonitor` | `lib/blockchainmonitorEth.js`, `lib/blockchainmonitorTry.js`: the loop over heights, over `PaymentNotices` |
| `MonitorsProofs` | every block once, rows and balances as new as the blocks, everybody told, for any chain, any transactions and any faults |
| `NotificationDelivery` | `_notify`, the broker, `lib/emailservice.js`, `lib/pushnotificationsservice.js`, `getNotifications` |
| `NotificationDeliveryProofs` | nobody is mailed twice; mailboxes, devices and clients are reached; for any number of services, copayers and faults |
| `TxHistoryCache` | the cached rows of `getTxHistory` and their status |
| `TxHistoryCacheProofs` | rows are in their places and answers are pages; balances were true; a proposal pays and the maximum is the most; for any wallet, any coins and any number of requests |
| `HistoryItems` | what `getTxHistory` tells of one transaction: action, amount, confirmations |
| `WalletBalance` | `getBalance` with its three caches, and the monitor that adds to one of them |
| `MC...` | the instances that TLC checks; `MCLockAndBtcScan`, `MCNoticesAndBalance` and `MCHistoryAndSelection` put independent parts into one |

`PROJECT.json` maps every definition to the lines it models, and lists the runs,
the mutants that show each property can fail, the findings, the hazards and the
theorems.

## The system

### Components, their state and their operations

**Token lock** (`lib/lock.js`, `lib/locallock.js`, or the npm `locker` server
through `locker/locker.js`). State: a list of tasks per token; per task whether
it runs, and two timers. Operations: `locked` (push, arm the wait timer, start
the first task), `_release`, the wait timeout (an error for a task still in
line), the holding timeout (a forced release after five minutes). Correct: one
holder per token, first come first served, one callback per call, no lost
wakeup, everybody is answered. *Modelled in full.*

**Proposal record** (`lib/model/txproposal.js`). State: status, the votes
(`actions`), inputs, txid. Operations: `create`, `addAction` with
`_updateStatus`, `sign`, `reject`, `setBroadcasted`. Correct: the status is what
the votes say; one vote per copayer. *Modelled in full; amounts, fees and
scripts abstracted.*

**Proposal handlers** (`lib/server.js` 2335-2990, `lib/storage.js`). State: the
`txs` collection. Operations: `createTx`, `publishTx`, `removePendingTx` under
the wallet lock; `signTx`, `rejectTx`, `broadcastTx`, `getPendingTxs` without
it. All read a record, change the copy and `storeTx` the whole of it. Correct:
M signatures before anything reaches the chain, exclusive inputs, a status that
only goes forward, no vote lost. *Modelled (`Proposals`), but for what is named
under "Abstractions".*

**Third-party broadcasts** (`_handleThirdPartyBroadcasts` of the four monitors).
Reads a proposal by txid, waits, reads it again, stores it as broadcasted.
*Modelled in `Proposals`.*

**Wallets and copayers** (`createWallet`, `joinWallet`, `addAccess`; collections
`wallets`, `copayers_lookup`). `joinWallet` runs under the lock of the wallet;
`createWallet` and `addAccess` take none. `storeWalletAndUpdateCopayersLookup`
is three writes: it removes the rows of the wallet, inserts them again and
stores the record. Correct: never a copayer twice or more than n of them, who
joined stays, keys once given stay and are bounded, the lookup rows are what
the wallet says. *Modelled (`CopayerRegistry`); `removeWallet` is left out.*

**Addresses** (`createAddress`, `_canCreateAddress`, `scan`, `createTx`;
collections `addresses`, `cache`, the index in the wallet). Rows are inserted
first, then the wallet with its new index is stored. Correct: no address twice,
none skipped, the gap limit, a scan finds what is used. *Modelled (`Addresses`);
the branches of single copayers and the derivation of keys are left out.*

**UTXO selection and fees** (`_selectTxInputs`, `getSendMaxInfo`, `_checkTx`, fee
levels): a sequential algorithm without state. Correct: inputs cover amount and
fee, the change is none or can be sent, "insufficient" is said only when it is
so, sending the maximum sends the maximum. *Modelled (`CoinSelection`); a choice
of any available inputs in `Proposals`.*

**BTC block scan** (`lib/blockchainmonitorBtc.js`). State: the last block and
its processing state, unspent outputs, history. Correct: blocks in order, each
applied whole through restarts and errors. *Modelled (`BtcBlockScan`).*

**ETH and TRY monitors** (`_checkBlockHeight`). State: the last height, the rows
of the history, the cached balances. Correct: every block is handled, and its
rows and balances are right. *Modelled (`HeightMonitor`).*

**Explorer monitor** (`lib/blockchainmonitor.js`). State: notifications,
subscriptions to confirmations, the lists of addresses with a balance. Correct:
wallets hear of their payments, subscribers of their confirmations. *Modelled
(`PaymentNotices`, `ExplorerMonitor`).*

**Notifications and the message broker** (`_notify`, `getNotifications`): ids
made of time and ticker, a broker between processes, clients that poll with the
last id. Correct: a client misses nothing. **Email service**: one mail per
notification and recipient although several services hear of it; a lock by
notification, then look, store, send. **Push service**: recipients, their
devices, requests. Correct: everybody is told, and nobody is mailed twice.
*Modelled (`NotificationDelivery`).*

**History and balance caches** (`getTxHistory`, `getBalance`, collections
`cache`). Correct: an answer is a page of the history and true; a balance was
true a moment ago and the right one is learned in the end. *Modelled
(`TxHistoryCache`, `HistoryItems`, `WalletBalance`).*

**Sessions and preferences**: `savePreferences` where it meets the email service
is in `NotificationDelivery`; the rest is not modelled, nor are **fiat rates,
transaction notes, REST interface, explorer clients, statistics, legacy
proposals**; see "Not modelled".

### How they interact

A handler runs alone until its next asynchronous call; two handlers interleave
at every database or explorer call, in one process or in several. The lock is
the only synchronisation, per wallet and cooperative: it is lost after five
minutes without the handler learning of it, and half of the handlers do not take
it. Records are replaced whole, so a late write undoes what happened since its
read. The monitors write the same records from another process. A crash loses
every request in progress, between any two calls.

## Modules and code

### LocalLock

One action per entry point: `Locked`, `WaitTimeout`, `MaxTimeout`, `Release`
(the user's function calls `release`) and `LoseRelease` (it never does, or `cb`
throws before `release()` in `runLocked`). Node runs each to its end; nested
calls are in tail position. `RunOne` is `_runOne` in the state the caller has
prepared, `ReleaseTask` is `_release`. A limit is kept as "is it greater than
zero"; time itself is not modelled: an armed timer may fire in any later state,
which includes every ratio of the limits. Timers are never cancelled, as in the
code.

### WalletLock

`holder`, `waiting` and `overdue` for one token. It promises less than
`LocalLock` (any waiter may be next), so that it also describes the lock server.

### TxProposal and Proposals

`TxProposal` translates the record's methods to operators. `UpdateStatus` looks
at rejections before acceptances and leaves all but pending records alone, as
`_updateStatus` does; `RequiredRejections` is `min(m, n - m + 1)`.

In `Proposals` a *task* is a request being served; `job[t]` says which and what
is in its local variables (`txp`, `utxos`, `list`), `job[t].at` at which
asynchronous call it waits. One step is one answer of the database or the
explorer with everything the callback does with it.

| points (`at`) | code |
| --- | --- |
| `start` | the first read of the proposal, after `runLocked` where the handler takes the lock |
| `utxos`, `pending`, `check` | `_getUtxosForCurrentWallet` and `getPendingTxs`: the explorer's outputs; the pending proposals; the lookups of accepted ones in the chain, in any order, and their `_processBroadcast` |
| `send`, `confirm` | `_broadcastRawTx`; `_checkTxInBlockchain` after an error |
| `store` | `storeTx` is on its way with the copy in memory |
| `delete` | `removeTx` is on its way |

`docs[id]` is a sequence, because a monitor, which has no `walletId`, does not
update a record but inserts a second one (`StoreBroadcast`); `findOne` and
`update` see the first.

Faults are switched on per run (`Faults`): `expiry` (the lock's five minutes
pass), `crash`, `explorer` (errors, answers that are behind the chain, a relay
that reports an error), `monitor` and `outsider` (a client broadcasts by
itself).

Abstractions, all of which add behaviour rather than remove it unless said
otherwise:

- A transaction is its proposal's id and inputs and the signers it carries. The
  network checks that inputs are unspent, not that signatures suffice, so that
  `QuorumBehindChain` is about the service and not about the network.
- `_selectTxInputs` may take any nonempty set of available inputs.
- The 24 hours and 100 records of the broadcasted proposals that are looked at
  are more than an instance has. This removes behaviour: an explorer that is
  behind for more than a day.
- `remove` and `removeOld` stand for a removal before and after the ten minutes
  of `DELETE_LOCKTIME`.
- A copayer's signature is a fact (`signed`) about proposal and inputs. A txid
  names a transaction; signatures that do not fit are answered with an error and
  not enumerated.
- Not modelled: tx notes, change addresses, the backoff after many rejected
  proposals, notifications.

### CopayerRegistry

`wallets[w]` is a record of the `wallets` collection, `lookup` the rows of
`copayers_lookup`, `job[t]` the request a task serves with its local variables.
A key that a copayer may sign requests with is a model value; the order of
`keys` is that of the code, newest first.

| points (`at`) | code |
| --- | --- |
| `start` | the first read: the wallet (`createWallet`; `joinWallet` under its lock) or the row of the copayer (`addAccess`) |
| `lookup` | `_addCopayerToWallet`: `fetchCopayerLookup` |
| `fetch` | `addAccess` reads the wallet after the row |
| `remove`, `insert`, `store` | the three writes of `storeWalletAndUpdateCopayersLookup`; `createWallet` has the last only |

What requests may do to each other depends on faults, switched on per run:
`expiry` (of the lock), `crash`, `early` (`addAccess` before the wallet is
complete), `overlap` (two `addAccess` in flight), `twice` (two `createWallet`
with one id in flight). Two history variables, which no action reads, say what
happened: `mishaps` holds the faults, `torn` the wallets whose last rewrite began
while another was at work on the same wallet, or ended with its process. A rewrite
that begins (`RemoveRows`) with nobody else at work takes its wallet out of `torn`
again.

Abstractions: the lock has no line here (whoever is there when it is free takes
it, or is told WALLET_BUSY), since `LocalLock` and `WalletLock` are about the
line. Names, custom data, signatures, coin and network checks are refusals
without effect. An exception in a callback (a key for an incomplete wallet) ends
the process, which ends any set of the other requests: which of them share the
process is not fixed.

### Addresses

One complete wallet. An address is its path, a branch and an index; `rows` is
the collection in order of creation, `known` what is stored as active, `cache`
the index cache of scans, `active` what the chain has activity for. `job[t].doc`
is the copy of the wallet in memory, `new` the addresses derived and not stored
yet, `turn` the branch of a scan.

| points (`at`) | code |
| --- | --- |
| `gap`, `activity`, `note` | `_canCreateAddress`: the stored addresses, the explorer for each of the latest, `storeAddress` |
| `locked` | in line for the wallet lock; then the wallet is read |
| `first` | `getFirstAddress` of a single-address wallet |
| `insert`, `storeWallet` | the two writes of `storeAddressAndWallet` |
| `fetch` | `addAccess` has read the wallet; its `storeWallet` writes it back |
| `markRunning` | `scan` stores the status `running` |
| `branch`, `probe`, `cacheIndex` | the index cache, one explorer answer, `storeAddressIndexCache` |
| `finish`, `unmark` | the wallet is read again and stored with `success` |

`createTx` with a given change address (`changeTo`) inserts that address again,
as the code does. `MaxRows` bounds the instance: an insert beyond it fails, so
the bound is at the same time the failing database.

### Agreement

Proposals with phases, two sets of voters and inputs, and six operations. It is
what one would tell a copayer: votes count once, approval takes M, the inputs of
an open proposal are nobody else's. `AgreementSafe` says what the promise comes to
(`ClaimedApart`, `ApprovedByQuorum`, `OneVoice`); no run checks it, it is proved.

### CoinSelection

A behaviour is one `createTx`, step by step: `Validate`, `SendMax`
(`getSendMaxInfo`), `ValidateOutputs`, `CanCreateTx`, `GetFeePerKb` with the
cache of the fee levels, then the coins (`TakeInputs`, `TakeAddress`,
`CheckFunds`), `SelectGroup` (the loop of `_selectTxInputs` over the groups of
confirmations, each a `Select`) and `CheckTx`. The loop over the small coins,
the largest first, is the first number of coins at which one of its conditions
holds. Amounts are satoshis and fees thousandths of a satoshi, which the code has
as floating point numbers; what a float loses is not modelled, nor are the bytes
of scripts: sizes are those of the code's formulas.

### BtcBlockScan

`scan` is the turn of `scanBlock` (`sleep`, `load`, `latest`, `block`, `store`),
`proc` that of `processBlock` (`load`, `addresses`, `remove`, `insert`,
`history`), `pending` the database operations of the present step, all of which
are sent off at once and answered in any order. `cache` is the stored block with
its state. The blocks are a constant chain that becomes visible as `tip` moves.
The history variables `cut`, `failed` and `unmarked` are the blocks whose
processing a crash ended, of which a step failed, and whose update to PROCESSED
failed: the properties say what holds of the others. Reorganisations are not
handled by the code and not modelled.

### PaymentNotices, ExplorerMonitor, HeightMonitor

A *job* is a handler at its next database call: `check` (was the payment told
before), `list` and `activate` (the list of addresses with a balance), `store`
(the notification); `txids`, `subs`, `inactive`, `store` for confirmations.
`ExplorerMonitor` starts jobs as events come, any number of times;
`HeightMonitor` starts them block by block, and with them the operations (`ops`)
for rows and balances. `lost` holds the events of which an operation failed or a
crash ended a job. In `HeightMonitor` the reads of a turn are one step, since
nobody else writes the height and a block does not change; a balance is the
height as of which it is right.

### NotificationDelivery

`stage` is what `_notify` has to do next (`store`, `send`), `inbox` what the
broker has on its way to a process. `mailing` holds the runs of `sendEmail`
(`check`, `recipients`, `lock`, `fetch`, `store`, `send`; `landing` are stores
on their way when one has failed), `pushing` those of the push service, `poll`
the two reads of `getNotifications`, which come in any order. An id is the time
followed by the ticker. `overrun` holds the notifications of which a run lost
its lock (five minutes), `late` those stored with an id the client had read
past.

### TxHistoryCache, HistoryItems, WalletBalance

In `TxHistoryCache` a row is at a position counted from the oldest transaction,
as in the collection; `status` is the total that positions are counted with. A
request reads the status, then the rows or the explorer's page, and stores row
by row (`left`). A scan clears the rows, resets the status, and finds
transactions of other addresses (`Hidden`) among the old ones. `mixed` says that
a request from before a scan stored after it.

`HistoryItems` is one answer: `Decorate` makes action, amount and address of a
transaction from what its inputs and outputs hold (`Sum`, over the places that are
the wallet's, its change, or `External`); one without inputs and outputs is
`Invalid`. The height comes from a cache that new blocks clear. A transaction with
inputs pays a fee of zero or more; one without is a coinbase.

In `WalletBalance` a balance is the set of addresses that have coins. `listed`
is the list of addresses with a balance, `twoStep` the document with the count
and the hour, `balances` the cache by addresses with the age in units of ten
seconds. A request goes through `twoStep`, `count`, `list`, `addresses`, `lock`,
`cache`, `utxos`, `store`, `listing`, `answer`, `compare`, where
`getUtxosForCurrentWallet` and the lock of the wallet are.

## Runs

Runs use the symmetry of the model values, except those with fairness, where it
is not sound.

| run | instance | question |
| --- | --- | --- |
| `lock_and_scan` | *lock*: 3 calls, 2 tokens, wait timer set or not, fair timers; *scan*: 4 blocks, 2 addresses, 2 faults of six kinds, fairness | do functions overlap only after a timeout, is every call called back once and every one answered, is it `WalletLock`; are outputs and history those of the chain, are blocks in order, does the scan catch up |
| `races` | 2 of 2, 1 proposal, 2 requests in flight, all requests, all faults | what survives every race |
| `decisions` | 2 proposals, 1 input, failing and lagging explorer, clients that broadcast; votes one at a time, removals on their own | publishing reserves inputs, refinement of `Agreement` |
| `inputs_race` | votes overlap | violated: the first finding below |
| `removal_race` | a vote while a removal is under way | violated: the second finding below |
| `registry` | 1 wallet, 2 of 2, all requests, expired locks, crashes, `addAccess` too early, an id created twice | is a stored wallet ever malformed, do two rewrites undo each other, which rewrites leave rows that are not what the wallet says, and what they leave |
| `addresses` | 2 requests in flight, all requests, all faults | is an address ever skipped |
| `addresses_locked` | `createAddress`, `createTx`, `scan`; failing explorer and inserts; fairness | rows and index agree, completeness of a scan, answers |
| `monitor` | eth, 2 blocks, a payment to and one from a wallet, 2 faults, fairness | rows, balances, no block twice, does the loop reach the tip |
| `notices` | *notices*: 2 events of 2 transactions, 2 wallets, 2 subscribers, 2 faults; *balance*: 3 addresses, 1 change, 1 upset, fairness | are payments and confirmations told; was a balance true, and is it learned |
| `delivery` | 5 notifications in 4 scenes: two email services, two wallets, the push service, a client; 2 faults of seven kinds | nobody mailed twice, everybody told, nothing missed |
| `history` | *history*: 3 transactions, 2 requests, pages of 2, a scan, a fault; *items*: up to 2 inputs and outputs; *selection*: up to 4 coins of 10 kinds, 18 questions | are answers pages and true; are proposals paid for, funds found, the maximum sent |

`lock_and_scan`, `notices` and `history` check independent modules together. The
parts have no variable in common; a behaviour picks one part and the others stay in
an initial state, so that each property is checked on every behaviour of its own
part and holds of the other parts as it does of initial states. Fairness is assumed
of a part while it is the one that runs, and in `notices` of the balance part only.

Bounds. Two requests in flight are enough for each hazard listed: each is a pair
of a read and a write with another request's write between them; requests follow
each other without limit, so stale copies meet any history. One input makes two
proposals conflict always. 2-of-2 is the smallest wallet where one vote does not
decide; in `MCProposalsAccount.cfg` 2-of-3 is the smallest where votes go on
after the decision and where rejections (2) and approvals (2) can compete. In the
lock, three calls of one token are a holder, a waiter and the one behind it; two
tokens show that they do not mix. In the registry, three copayers compete for the
two places of a wallet. In `addresses_locked`, gaps of 2 are the smallest with an
unused address in the middle of a series, four rows let both branches be rewound,
and the payable addresses (`Scattered`) leave a hole and lie on both branches;
`addresses` has two rows and one payable address, enough for a stale index of
each kind, since all faults make it large.

The chain of the scan makes outputs, spends them in the same block and in later
ones and pays an address twice, and its last block is empty, so that everything
before it is confirmed; two faults are a crash in the processing and a failure in what follows
it. In `monitor`, two blocks of one address are what two overlapping handlings
need. In `notices`, two events are the same transaction twice, two that pay one
wallet, or a payment and its block. `delivery` has a scene for each kind of
service with the notifications that tell its rules apart: a proposal (nobody but
others), a confirmation (its subscriber), a block (everybody who polls), a
payment; two mailers and two recipients, so that one mail is sent when another
fails. In `history`, three transactions make two pages, and one of them is found
by the scan; a wallet has up to four coins of ten kinds (one not worth its fee, some
that pay together, big ones, with many confirmations or few), or five small ones and
up to two others; MIN_OUTPUT_AMOUNT, the dust amount and two factors are the code's,
while `MaxTxSize` is lowered to the size of five inputs, so that the search for small
coins meets it with enough coins and without, and the other two factors and the
backoff so that both sides of each are met. In the
balance part, `Many` stands for the threshold from which balances are cached and
asked for in two steps, the longer of the two lives of a cached balance is two
units of ten seconds instead of six, and an hour ends whenever it likes.

Constants marked "bound" in a module (faults, events, changes, requests at a
time, the clock) bound what may happen; nothing else is capped, but for `MaxRows`
of `Addresses`, which is an insert that fails, and the keys of a copayer in
`CopayerRegistry`, which TOO_MANY_KEYS bounds. `CoinSelectionSizes` says that twice
as many inputs as the greater of `ShareDivisor` and `SingleFactor` (10 and 5 in
`lib/common/defaults.js`, so 20 inputs, at most 34 kB with 15 copayers) fit in a
transaction (100 kB there).

Fairness. In `LocalLock` armed timers fire (the event loop does that); nothing
is assumed about the user's functions. In `Addresses` (and in
`MCProposalsLive.cfg`) every call to the database or an explorer returns in the
end (drivers and `request` have timeouts) and an armed wait timer fires. Nothing
is assumed of clients, of the monitor or the network. A scan then ends because
the payable addresses of an instance are finite; no payment arrives while it is
checked. In `BtcBlockScan` and `HeightMonitor` timers fire, the explorer and the
database answer in the end (each error counts as a fault), and a process that
died is started again; faults are finitely many. In `WalletBalance` requests and
the monitor go on and clients keep asking; strong fairness of `Proceed` stands
for the line of the lock, and that of `TenSeconds` for a clock that goes on
although somebody is, again and again but never for ten seconds, between an
explorer's answer and storing it.

What the runs show. Through every race and fault the proposal records stay
consistent, nobody votes twice and M copayers signed all that reaches the chain:
a record is only ever replaced by a consistent one. What does not survive
overlapping votes is everything that relates two moments or two records: votes
get lost, a decided proposal is reopened, and with it exclusivity of inputs. The
same holds of the wallet record: it is well formed and no address is skipped
whatever happens, since rows are inserted before the index moves; that nothing
is undone and no address comes twice needs the lock, which `addAccess` does not
take. The block scan is careful: the stored state lets a restart take up what was
interrupted, and what is lost is what the code gives up by itself, the rest of a
block of which one step failed. The eth loop stores its height first and so loses
a block when it dies at once, and never repeats one. Nobody is mailed twice,
because a run looks and stores under a lock and whatever was sent is in the
collection; for the same reason a mail that failed is never tried again. Caches
are mostly harmless: a row is counted from the oldest transaction, so that a
stale total moves a page and not a row; the list of active addresses loses
entries, and only the query of all addresses once an hour finds their coins.

### Findings

`inputs_race`. The comment of `publishTx` (`lib/server.js:2460`) says publishing
locks the inputs. `signTx` and `rejectTx` write back the record they read without
the lock, so a vote in flight reopens a rejected proposal whose inputs were given
to another one.

`removal_race`. A test (`test/integration/server.js:6815`) says "should not allow
creator copayer to remove a TX signed by other copayer, in less than 24hrs".
`removePendingTx` makes this check on the proposal it has read and removes it by id
afterwards (`lib/server.js:2686`). The lock it holds does not keep `signTx` out,
which takes none: an approval stored in between, and answered with success, is
removed with the proposal (`ApprovedNotRemovedEarly`).

Further configurations, which are not among the runs, each end in a
counterexample of a few steps under `tlc -config`:

- `MCAddressesAccessRace.cfg` (`NoAddressTwice`): the test of simultaneous
  `createAddress` requests (`test/integration/server.js:1231`) expects no two
  identical addresses. `addAccess` writes back the wallet it read without the
  lock, the index goes back with it, and the next address is the same again.
- `MCBtcBlockScanRestored.cfg` (`UtxoRight`): an address that was paid before
  its wallet was known here has no output in the collection.
- `MCExplorerMonitorSubscribers.cfg` (`EverySubscriberTold`): of two copayers who
  wait for a transaction one is told, since `keyBy` keeps one subscription
  (`lib/blockchainmonitor.js:309`).
- `MCTxHistoryCacheScan.cfg` (`AnswerIsAlwaysPage`): a request from before a scan
  stores its rows after the scan has cleared them, and pages are mixed from then
  on.
- `MCNotificationDeliveryClients.cfg` (`ClientSeesAll`): a notification with a
  smaller id is stored after the client read a greater one, and is never seen by
  it.
- `MCCoinSelectionChange.cfg` (`ChangeAboveMinimum`): the change of a selection
  with one big coin may lie below MIN_OUTPUT_AMOUNT.

Three more show what holds: `MCProposalsAccount.cfg` (the paths of account coins
and a third voter), `MCProposalsExclusive.cfg` (the refinement of `Agreement`
with a monitor) and `MCProposalsLive.cfg` (every request on proposals is
answered).

The modules state further properties that TLC refutes on their instances, each
with a comment that says what is missing: `OneWalletPerCopayer` (two joins to two
wallets both pass the check of `lib/server.js:695`, against the test at
`test/integration/server.js:753`); `UtxoUnspent` (an output that its own block
spends stays); `HistoryOfEveryBlock` (a block that is processed twice stops at
the output that is there already); `RowOfEveryTransfer` (the transfers of one try
transaction replace each other's row); `PaymentNamed` (NewIncomingTx of eth and
try is without the txid); `BalancesAlwaysRight` (the older of two answers may be
stored last); `NotifiedOnce` (checked before, stored after); `AddressStaysListed`
and `HourIsEmpty` (the list is read, extended and written while others do the
same); `StatusCurrent`; `EveryAddressReached` and `MailReachesAll` (a shared
address, a shared id); `MaxIsSent` (`getSendMaxInfo` is not given the fee level
of the client); `BigCoinTaken` (small coins with confirmations that are enough but
too many make `createTx` say TX_MAX_SIZE_EXCEEDED although a big coin with fewer
confirmations would pay, against the title of the test at
`test/integration/server.js:4556`, where both have as many).

Seen while modelling and left as they are: a process that dies between removing
and inserting lookup rows leaves copayers who cannot authenticate, and nothing
but a request of theirs would insert the rows again (that this is the only thing a
crash does to them is `CrashLeavesAllOrNone`); `addAccess` on an
incomplete wallet throws in a callback and ends the process; two `createWallet`
with one id both succeed, and the second resets the wallet; `createTx` with a
given change address inserts that row a second time; the gap of addresses is
checked (`lib/server.js:1063`) before the lock is taken, and several calls exceed
it together (`GapBounded` says by how much); the line that would store the status `error` of a failed scan is commented out
(`lib/server.js:3620`), and `success` is stored.

## Proofs

Every safety property of a passing run is proved for all values of the
constants, from the assumptions the modules name. Theorems that need an order
the code does not enforce say so as a hypothesis, which the configuration of
their run satisfies; what happens without it is a counterexample of the
configurations under "Findings".

### The lock

`LocalLockProofs` proves, for every finite or infinite set of tasks and tokens,
from `LocalLockAssumption` alone, type correctness (`TypeCorrect`), mutual
exclusion without lost wakeups (`MutualExclusion`), that no call is dropped
(`NothingDropped`), that functions overlap only after a timeout
(`OverlapNeedsTimeout`), that every call is called back once (`CallbackOnce`) and
that the lock of each token is a `WalletLock` (`TokensAreLocks`).

The argument: `HeadRuns` is not inductive. It needs that a task is in one list
only and once (`ListsDisjoint`), else a release might leave a copy behind; that
a running task is in the list of its token (`RunningListed`), else `_release`
would start a second one; and that a task in line has not been called
(`WaitersIdle`). `OverlapOnlyAfterTimeout` needs `OverdueTimedOut`: who works
without running had the holding timer fire. Together they are `Inv`, which every
action keeps. The two lemmas that carry it are `RunOneKeeps` (if the prepared
state satisfies `Ready`, `_runOne` establishes `Inv`) and `WithoutIsRest` (what
taking a task out does to a list); the lemmas about each action show that they
prepare such a state. In the refinement the holder is the running task of the
token and the waiting are those in its list behind it; a call with two tokens
never touches the other's lists, so each step is one of one `WalletLock` and
nothing of the others.

### Proposals, through every race

`ProposalsProofs` begins with what the operations of the record do: each keeps
`Sound` (the status is what the votes call for, nobody voted twice, and the txid
of an accepted proposal is that of the transaction its votes sign), and the
approvers of an accepted record are at least M.

It then proves, for every wallet, every number of proposals and of requests in
flight, with or without faults, from `TxProposalAssumption`,
`ProposalsAssumption` and `WalletLockAssumption`: type correctness, and the four
safety properties that survive every race (`StatusFollowsVotes`,
`VotesCountOnce`, `NothingSpentWithoutQuorum`, `BroadcastedWasRelayed`).

The argument: since any handler may write back an old copy of a whole record, no
invariant about the database alone is inductive. `Inv` says of each record that
it is `Backed`: `Sound`, its approvers have made their signatures, and if it is
broadcasted its txid is in the chain. And it says so of every stored record and
of every copy in somebody's memory: of a handler about to store, of one that
broadcasts (`send`, `confirm`: accepted), of a publish that verifies its inputs
(a draft), of the lookups of `getPendingTxs` and of the monitor. Signatures and
the chain only grow, so a copy stays `Backed` however long it waits
(`BackedGrows`), and writing one over another keeps the database `Backed`
(`StoreChanges`). There is one lemma per action; `ChainBacked` carries the quorum
behind each transaction from the record it was sent from. The lock is not needed
for any of this, which is why these properties survive its expiry.

### Proposals, in order

`PublishedApart` (`InputsExclusive`) and `PromiseKept`, the refinement of
`Agreement`, hold under `Orderly`: a UTXO wallet; votes that come one at a time, a removal
that meets no other request, no lock that expires, and no monitor where there
are removals. Nothing in the code enforces this. When votes overlap, inputs
get shared (`inputs_race`); a removal that looked before a vote was stored takes
an approved proposal away (`removal_race`), which is no step of `Agreement`; and a monitor that has read an accepted proposal
inserts it again, as broadcasted, after its removal. Everything else stays free: the number of
copayers, proposals and requests, processes that die at any point, explorers that
fail or lag, clients that broadcast by themselves.

The argument: between its read and its write a handler relies on what it read. A
draft, a publish, a vote and a broadcast each need the first record of their id to
be at one status, and only a handler that relies on the same status can take it
away: the lock keeps the publishes apart, `Orderly` the votes, and broadcasts all
write the same. `OrderInv` says so for each handler by where it is
(`JobInOrder`), and says of a publish under way that what
`_getUtxosForCurrentWallet` has not left out yet it still will: the inputs of each
published proposal are gone from its list, or go with a lookup that is under way
(`Reserved`). `StatusMatchesVotes` alone does not say that a pending proposal
which gets its last vote has gone forward; `SignDecides` and `RejectDecides` do.
`WriteInOrderKeeps` shows that each kind of write leaves all others what they
rely on. For the refinement, `View` maps the records of an id to its phase and its
voters; every write is then one of the six operations or invisible
(`SeesDraft` to `SeesWithdraw`, `SeesNothing`), a late second broadcast for
instance.

`PromiseSafe` is about `Agreement` alone: with `AgreementTypeOK`,
`AgreementSafe` is inductive. Approval exactly at the quorum is an equivalence,
which is what lets a declined proposal never have had M approvals, and a draft no
votes that count. `VerdictSafe` treats a step as giving one proposal a phase, its
voters and its inputs; each of the six operations is a case of it. The proof is
done for the instance `Promise` without looking into what `Proposals` maps, so
`CopayersSeeSafe` follows with `PromiseKept`.

### Wallets and addresses

`CopayerRegistryProofs` proves, from `CopayerRegistryAssumption`, type
correctness and `WalletsStaySound`: for any number of wallets, copayers and
requests, with every fault, a stored wallet has no copayer twice, at most n, and
is complete exactly with n and their key ring. Since wallets are written back
whole and not under one lock, the invariant is again about each record alone,
the stored ones and the copy in each request's memory (`Ready`); the step that
matters is that a join extends the very copy on which it checked that a place is
free and the copayer not in it (`AddCopayerSound`).

`NothingUndone` (`RewritesKept`) relates a record to the one before it.
`KnownInv` says of each copy in memory how it differs from the stored wallet
(`Fresh`): the copy of a join by the one copayer it adds, that of an `addAccess` by
its key, or by the keys of those it overlaps with. A join can not spoil the copy of
an `addAccess`, although they have no lock in common, because one needs a free
place and the other a complete wallet, and a wallet never goes back; a wallet is
complete in the copy of an `addAccess` before it is written.

`LookupAgrees` (`LookupSettled`) is about the rows, and has three parts. With any
faults, when nobody rewrites a wallet its rows are what its record says, unless its
last rewrite was torn (`UntornSettled`): a lost lock, an overlap or a crash does harm
to the wallet it hits while it is rewritten, and the next rewrite that is left alone
repairs it. Without a fault no rewrite is torn (`TornByMishap`), which is where the
lock of `joinWallet`, the order of creation and completion, and the one copy per
`addAccess` are needed. And where all faults are crashes a torn wallet has no rows,
or rows with every copayer and key of its record (`CrashLeavesAllOrNone`): nobody
can authenticate, or everybody can, and with the keys of the rewrite that died too.
The invariants are `FoundInv`, the rows of an untorn wallet between the three writes
(none before the insert, those of the copy before the store); `RewriteInv`, that
without a fault one request writes a wallet at a time; and `CrashInv`, that the
copy about to be stored extends the record, so that rows inserted for it cover it.

`AddressesProofs` proves, from `AddressesAssumption` and
`WalletLockAssumption`, type correctness and `NoAddressSkipped`: below the index
of each branch every address is stored. A copy of the wallet of any age may be
written back, but rows are only ever added, so what was `Covered` by the rows
stays so (`SaneGrows`). The invariant follows the addresses a request has
derived and not stored: about to be inserted, the copy is covered by the rows
and the new addresses together; while a branch is scanned, the new addresses are
exactly those right below the index (`ChainAbove`), so that the rewind at the
end of the gap gives back as many indexes as it leaves out addresses
(`EndBranchKeeps`), with a cached index or without.

`NoTwins` (`NoAddressTwice`), `RowsSettled` (`SettledRows`) and `ScanComplete`
(`ScanFindsAll`) hold under `UnderLock`: of the requests those that write the
wallet only under its lock and no address again (so neither `addAccess` nor a given
change address), with the lock never lost and no process dying between the two
writes. Each of the four left out alone makes rows and index disagree. Inserts
and explorers may fail. `SettledInv` says that who is past `locked` holds
the lock, and how far its copy is ahead of the stored wallet: by exactly its new
addresses (`Beyond`), until they are inserted, and then as far as the rows
(`Matches`). An insert that fails leaves both as they were. `SearchInv` follows a
scan: nothing used lies within the gap beyond the branches it has finished
(`Unused`), nor among the last `inactive` addresses it has asked about, which the
rewind moves to just beyond the index. `ScanComplete` assumes in addition that
nobody pays meanwhile ("payments"); what is paid behind a scan's back it can not
find.

### The monitors

`BtcBlockScanProofs` proves, from `BtcBlockScanAssumption`, `StoredInOrder`: a
block is stored only after the one before it, and only when that one is
processed. The loop looks at the cache long before it stores, so the invariant
follows what a turn has read (`ScanFollows`): it goes on to `latest`, `block` and
`store` only with a cached block that is PROCESSED, at the height of that block
while it asks for the chain's, at the one after from then on, and the block it is
about to store is SAVED with that height. A restart keeps it: a process that
starts again reads the cache anew, and a block that is SAVED ends the turn.

`UtxoAlwaysRight` and `HistoryComplete` are about the collections. `Shape` says
that one of the two loops works at a time and on the stored block, that the
operations in flight are those of the step the processing is at, and that the
addresses it works with include all that the chain has paid (`BlocksKept`).
`UtxoInv` says of each output where it is by how far the block is: the outputs of
earlier blocks are settled, those the block spends are on their way out or gone
from `remove` on, those it makes on their way in or there from `insert` on; so
that the end of a block, whenever it comes and after however many restarts,
settles it. A block whose processing a crash cut is processed again, and finding
an output there already ends `insert` early; that is why `HistoryRight` says
nothing of such blocks, and `HistoryInv` needs that in a block's first processing
none of its outputs is there (`FirstTime`). That the chain spends an output after
it was made, or in the same block, is `ChainAssumption`. Both
theorems assume that no wallet is restored after it was paid ("restored"), which
`MCBtcBlockScanRestored.cfg` shows to be needed.

`MonitorsProofs` is about the other monitors and the handlers they share. From
`HeightMonitorAssumption` and `PaymentNoticesAssumption`: `BlocksBegunOnce`,
`RowsStored` and `BalancesAsNewAsBlocks`. The loop stores its height before it
hands the block on, so `LoopInv` says of each block up to the stored height that
it was begun, lost by a crash, or is about to begin; `RowsInv` that each of its
transfers has its row or an operation on its way to it; and `BalancesInv` that
each address it touches has a cached balance as new as the block or an operation
on its way to ask for one. The last is where overlap matters: an operation on an
older block may answer after that on a newer one, and `overtaken` names the
addresses for which two were on their way at once.

From `ExplorerMonitorAssumption`: `EveryPaymentTold` (`PaymentsTold`) and
`ConfirmationReachesOne` (`ConfirmationsTold`). Events come any number of times
and their handlers check, list and store in any order, so the invariants name who
will deliver: a payment is told, lost, or some handler is on its way that will
tell it or find that it was told (`PaysInv`); a subscription that is used up
belongs to a copayer who was told or whose notification is about to be stored
(`UsedInv`); and for each transaction of a block that came, somebody who waited is
told, will be, or left (`BlockInv`). A step moves every handler to one of a few
fates: it is where it was, has gone on with the same payment (`Carried`), or has
ended because its work is done (`Settled`), and each of them keeps the promise.

### Notifications

`NotificationDeliveryProofs` proves, from `NotificationDeliveryAssumption`,
`NobodyMailedTwice` (`MailedOnce`). Neither the lock nor the collection of emails
gives it alone: a run that fails gives the lock back while its mails are on their
way, and two runs may look into the collection before either has stored. The
invariant joins them: while a run looks or stores it has the lock, unless it was
overrun (`HoldsLock`, `LockExcludes`); while it stores, nothing with its id was
sent and nobody sends (`StoringFirst`); what is sent or about to be is in the
collection (`SendQueued`, `SentQueued`), so that nobody else gets beyond looking;
and the one run that sends (`OneSends`) has its recipients before it with one
address each (`SendsOnce`). `GentleKeeps` covers every step that neither takes
the lock nor begins to store or send; four lemmas are about those that do. A new
notification may have the id of others (`CreateKeeps`); the conditions are about
ids for that reason.

That everybody is reached are three invariants of one form: what is due is
delivered, or somebody is on the way to deliver it. For a client (`NoneMissed`)
it is `PollRead`: what an unfinished poll has read so far lacks nothing of that
collection but what came `late`; the ids only grow with the clock (`IdsBound`),
which makes the last of a page its greatest. For a device (`DevicesHear`) it is
the broker's message, a run that has yet to come to the copayer or has his
message ready, or the request that was made. For a mailbox (`MailArrives`) it
takes the first proof: a run that finds the collection filled leaves the mail to
others, and it is right to do so only because whoever filled it is still at work
or has sent it (`OnItsWay`), which is what `Inv` says of runs of one id.

### Caches

`TxHistoryCacheProofs` proves, from `TxHistoryCacheAssumption`,
`RowsStayInPlace` and `AnswersArePages`: however requests, new transactions,
resets, scans and failures interleave, a cached row holds the transaction of its
position and every answer is a page of the history as it was at some time, until
a request from before a scan stores after it. The argument: a total a request
holds is the number of the transactions there once were (`Honest`), and positions
count from the oldest, so that the page of an older total is still made of the
same transactions at the same places (`SamePage`); what a request is about to
store it has from its own page.

In its second part it proves, from `WalletBalanceAssumption`, `BalancesWereTrue`
(`BalanceWasTrue`): the balance of an answer, of a cached entry and of what is
compared is that of its addresses at one moment. `BalanceInv` says so with the
moment: an entry is no older than its time (`EntryTrue`), what a request holds is
no older than the time it came, less what the cache allows (`AskTrue`). Times
are marks in the list of past balances, and only the clock's step moves them.

### CoinSelection

The third part of `TxHistoryCacheProofs` proves, from
`CoinSelectionAssumption`, `ProposalsPay` (`ProposalPays`), `MaxSent`
(`MaxIsMost`) and, with `CoinSelectionSizes`, `FundsAreFound` (`FundsFound`), for
any coins, options, fee levels, samples of the explorer and limits. They are about sums over sets of coins, of which the library has no
facts. The module first makes some: `Value` is a fold, that is, what a function
chosen by its equation says of a set; an induction over the size of the set (the
induction theorems of the library take an operator, so `Induction` and
`SetInduction` are stated for sets, and follow from the well-foundedness of `<`)
shows that one function adds up every subset, that nothing else solves the
equation, and from that what a sum does when a coin is left out (`ValueLaws`,
`SumGrows`).

`SelectionInv` says where `createTx` stands: until inputs are looked for they are
those of the client; between the groups of confirmations there are none, or coins
that were selected (`Chosen`: they pay for the amount and their fee, and what is
left is nothing or more than the threshold, unless there was a big coin). Of
`select` it needs only what its answer is (`Selects`), not why the search for
small coins stopped where it did.

`MaxInv` adds that what `getSendMaxInfo` found at a given fee is the most, and
stays so (`AllSent`). `MostOf` is the argument. The *n* greatest coins of a set
have the greatest value minus fees of all its subsets of up to *n* coins
(`GreatestIsMost`, by induction on *n*, a coin of the other choice against the
next greatest). A coin that costs more than it brings only lowers a sum, so
leaving out those that `getSendMaxInfo` leaves out loses nothing (`Weighs`). What
is left between the two amounts is that sizes are estimated with a margin of 2 %
and rounded, and so are fees: a fiftieth of the fees of the inputs, and a satoshi
(`FeesOfInputs`). The proof showed that the margin has to be that of the larger of
the two choices; the property once named that of the other one, and the instance
has no coins that tell them apart.

`FundsAreFound` holds for wallets of any size. The proof changed the property: it
once said that "too large" is never answered when some choice of coins would do.
TLC agreed as long as no instance had more coins than fit, but the proof stopped at
the groups of confirmations: small confirmed coins that are enough and too many end
the search, although a big unconfirmed coin would pay (`BigCoinTaken`, below the
findings). What holds is said of the group looked at last.

`Looked` says what `createTx` knows where: a fee per kB that is not negative once
it is found; between the groups, that the last one had the remembered number of
coins and that no choice of them that fits would do, or that what was chosen pays,
and if it does not fit, that no choice would do (`Searching`, `ChosenPays`). The
arguments are:

- More of the coins that are worth their fee leave more (`NetGrows`), so when all of
  a group do not pay, no choice does (`NoWayOfAll`).
- No other choice of up to *k* coins leaves more than the *k* greatest
  (`GreatestPay`). Without a big coin the search takes the greatest one by one. If it
  stops without enough, or with enough that do not fit, then choices that fit have
  fewer coins, and so many of the greatest were not enough (`TakenAreLast`).
- Beside a big coin small ones are taken only while each adds a share of the amount
  and the fee is not high. Then they are fewer than twice `ShareDivisor`, or twice
  `SingleFactor`, before they are enough (`FewAreTaken`: if the fee of an empty
  transaction is below the amount, each coin adds its share of twice the amount; if
  not, the fee of one coin is already high, and so must be that of the big one). By
  `CoinSelectionSizes` they fit (`TakenAreFew`), and a big one alone pays (`BigPays`).
- A group that has as many coins as the last, which it contains, is the same group
  (`SameGroup`), so skipping it skips nothing; the last group has all the eligible
  coins (`AllInLastGroup`).

### HistoryItems

The fourth part of `TxHistoryCacheProofs` proves, from `HistoryItemsAssumption` (the
fee of a transaction with inputs is not negative), `ItemsAreTrue` (`ItemsTrue`), for
any transactions, any number of parts in each, and any number of requests. The sums
over the places of a sequence are again those of one function (`SumLaws`), which adds
two sets that have nothing in common (`SumOfBoth`). Every output is external, change
or another address of the wallet (`WhereItGoes`), so what the outputs hold is the sum
of three; with that, `decorate`'s comparison with the fee says what it should for a
transaction that only the wallet pays for (`PaidByWallet`: it is called moved exactly
if others got nothing, and otherwise sent) and for one it does not pay for
(`PaidByOthers`). `ItemsInv` is about the height: a request knows the height the chain
had when its period began, and a height that is kept as new was asked for in this
period (`KeptOK`); the time of the question, and not that of the answer, makes it so.
The proof asked for two changes of the module: the first output outside is looked for
among all, and a transaction without inputs and outputs has no action to be true.

### What is only model-checked

Liveness (`Answered`, `EveryRequestAnswered`, `CatchesUp`, `ClientLearns`), which
the proof system does not reach; every other property of a passing run is a
theorem. The modules define further properties that the runs do not check, since stronger
ones took their place (`MembersKept`, `KeysKept`, `KeysBounded`,
`AnnouncedRight`, `FirstComeFirstServed`, `StatusForward`, `VotesKept`).

## Not modelled

- `lib/expressapp.js`: routing, parameters, request signatures, wording. It keeps
  no state; the requests it passes on are the operations of the modules.
- `lib/blockchainexplorers/*`: HTTP clients without state. Their answers, errors
  and delays are choices of the modules that ask them.
- Fiat rates: a loop appends to a collection, a query takes the last rate before
  a time; nothing else depends on it.
- Sessions: one record per copayer with an expiry, replaced whole.
- Transaction notes: one record by key, under the wallet lock.
- `removeWallet`, the support staff, custom data, the branches of single
  copayers, the derivation of keys and scripts, templates of mails and pushes.
- Statistics and legacy proposals: reports, and reading records that no longer
  arise.
- A time at which locks, caches and subscriptions grow old is a step that may
  come whenever it could, not a clock, except where ids are made of it.

## What is left

1. `removeWallet` in `CopayerRegistry`, with the rows of addresses, proposals and
   notifications it removes one collection after another.
2. A run of `HeightMonitor` for try, which has several transfers per transaction.
