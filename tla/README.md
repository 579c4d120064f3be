# A TLA+ development for the Omnilink-based DPKI prototype

The repository is a decentralised public key infrastructure built on the
Omnilink blockchain. Certificates are managed by a platform that keeps a
repository in memory and anchors its Merkle root in a contract; the chain below
is a proof-of-work node with forks and reorganisations. This directory holds
TLA+ modules of the parts that carry the protocol, TLC configurations for small
instances, and TLAPS proofs for every instance.

## 1. Inventory

| Part | State | Operations | Interaction | What is hard |
| --- | --- | --- | --- | --- |
| Block processing (`omnilink-base/blockchain`: `process.go`, `blockindex.go`, `chainview.go`, `blockstore.go`, `chain.go`) | block index, chain view, database with total difficulty and height-to-hash entries, fault peers | `ProcessBlock`, `connectBestChain`, `reorganizeChain`, `Close`, boot | one goroutine per `EventAddBlock`; `chainLock`; executor over the queue | unlocked checks, crash between batches, failed execution in a reorganisation |
| Orphan pool (`orphanpool.go`) | map by hash, lists by parent, `oldestOrphan` | add, remove, `ProcessOrphans` | called by block processing with and without `chainLock` | double insertion, list shrinking under a loop, stale pointer |
| Proposed DPKI platform (`blockchain/dpki-experiment`) | repository, tree and root caches, promise chain, in-flight counter; contract certificates and roots | management request, Merkle authentication | HTTP calls to the proof responder, transactions and receipts | awaits between reading and using, timeouts, lost receipts, one retry |
| Three-chain deployment (`blockchain/sidechain-three-chain`) | CA records and checkpoints on the main chain; certificates, roots and results on the sidechains | register, checkpoint, issue, revoke, record | a relay script reads two chains and writes a third | check on one chain, record on another |
| Baselines (`multi-ca-dpki`, `full-contract-dpki`, `centralized-pki`) | benchmark contract | approvals, staged checks | transactions | threshold count |
| Miner and consensus client (`system/consensus/pow`, `system/consensus/base.go`) | `currentBlock`, the round of `CreateBlock` | request transactions, mine, write block; added and deleted blocks | mempool and blockchain over the queue | stale `currentBlock`, a write that races a peer's block |
| Synchronisation (`blocksyn.go`, `download.go`) | peer lists, tasks, fault peers | sync, fork detection, download | p2p | timeouts, faulty peers |
| Sequence log and push (`sequences.go`, `push.go`) | sequence numbers; position and status of a subscription; tasks, their channels and goroutines | save sequence, notify, subscribe, resume, post, give up, close | block processing tells tasks under `push.mu`; goroutines post over HTTP | a mutex held while a channel is full, two goroutines for one task, lost answers, restart |
| Queue, mempool (`queue`, `system/mempool`) | a high and a low channel per topic; transaction cache, header | send, wait, reply; submit, add block, delete block, list, remove | all modules | announcements overtake one another, full cache |
| Difficulty, rollback, executor, store | - | pure functions; start-up; execution | block processing | rounding; - |

Every part, with the reason for those left out, is in `PROJECT.json`
("components"); what is hard to test is listed there line by line ("hazards").

## 2. Modules

| Module | Content |
| --- | --- |
| `BestChain` | what block processing promises: a chain that moves to preferred chains (abstract) |
| `BlockChain` | block processing of one node; implements `BestChain` |
| `OrphanSet` | what the orphan pool promises: a set of blocks (abstract) |
| `OrphanPool` | the orphan pool in detail; implements `OrphanSet` |
| `DpkiPlatform` | management and authentication of the proposed platform, with the contract |
| `CrossDomainAuth` | what a cross-domain authentication promises (abstract) |
| `ThreeChain` | the contracts of three chains, the script that relays between them, other callers; implements `CrossDomainAuth` |
| `TxFlow` | block processing, queue, mempool, consensus client and miner composed, seen from a transaction |
| `Push` | the sequence log and the push service for one subscriber |
| `MCBlockChain`, `MCOrphanPool`, `MCDpkiPlatform`, `MCThreeChain`, `MCTxFlow`, `MCPush` | instances for TLC |
| `BlockChainProofs`, `BestChainProofs`, `OrphanPoolProofs`, `DpkiPlatformProofs`, `ThreeChainProofs`, `TxFlowProofs`, `PushProofs` | theorems |
| `LeastNumber` | the lemma behind the inductions over lists |

Definitions named "mutant" in the comments are faulty variants of the definition
that follows them. No specification uses them; each shows that a property
notices a plausible mistake.

### BestChain and BlockChain

A block is its hash; the header fields are constants over the set of blocks, so
an instance is a block tree. `pc`, `blk` and `pid` are the goroutines.
The checks of `ProcessBlock` are one step each, because each
takes and gives back its own lock: `CheckExists`, `CheckOrphan`,
`CheckOrphanParent`, `RemoveOrphanBlockByHash`, `CheckParent`, `AddOrphanBlock`.
From `maybeAddBestChain` on, the goroutine holds `chainLock` (`holder`), and a
step is one database batch with the memory updates after it: `maybeAcceptBlock`
(store, `AddNode`, choice of branch), `disconnectBlock`, `connectBlock` and their
failing variants, then `StartOrphans`, `ProcessOrphan`, `NextHash` for
`ProcessOrphans`. `Return` is what the deferred unlocks do, after an error and
after a panic, which `processMsg` recovers.

Parent pointers (`par`) are apart from parent hashes, because `DelNode` breaks
pointers only. `pregen` remembers whether the view still has the pre-genesis
node of a boot on an empty database, which decides how a missing fork point
ends. `failed` is history: some block failed to load, connect or disconnect
since the boot. `Restart` is a crash or a clean stop followed by a boot, in any
state.

`BestChain` is what the rest of the node may rely on: the chain changes in single
steps, each to an extension, to a chain of more work, or to one the consensus
module prefers in a tie. The exceptions are named: from the failure of a block
until the next boot the chain is only some branch, or gone (`nilfork`), and a
restart comes back with some branch (`RestartKeepsChain` says which). The
refinement maps its chain to `Target`: the view or, during a reorganisation, what
the view will be when the stale blocks are off and the others attached. So the
decision of `connectBestChain` is the step, and the batches of `reorganizeChain`
are none. `Weight` adds up the work block by block and knows nothing of the
total difficulties in the database by which the code compares.

Simplifications: the limits of index and view and the number of blocks loaded
at boot (10240 and more) are not reached; the pool is a set whose limit and
expiry drop any orphans (`OrphanPool` says which, and is shown to implement the
set); execution is external: a
block in `Bad` fails for good, any other may fail transiently; a batch write
does not fail (the code panics); `neverRollback` is off, as in
`omnilink.pow.toml`; fault peers are never forgiven, and nothing here reads them.

### OrphanSet and OrphanPool

`OrphanSet` is the pool as `BlockChain` uses it: a set from which an insertion may
drop others, and a queue of hashes whose children are handed over one by one,
where a hash is done only when no child of it is left. `OrphanPool` implements
it (`ImplementsSet`) with `queue` read off `hash` and `todo`.

`orphans` and `kids` are the two maps, `oldest` and `oldExp` the
`oldestOrphan` pointer, which keeps what it pointed to even if the entry has
left. `AddOrphanBlock` holds `orphanLock` for its whole body and is one step;
`OldestOf` allows for any order of the map. `ProcessOrphans` is taken step by
step with its index `i` and the `count` read once: `AcceptChild` removes the
entry and leaves the index where it was (`i--` and `i++`), `SkipNil` is the nil
entry beyond a list that closed up, `RefuseChild` the early return. `Rest` is the
loop of `removeOrphanBlock` over a list of children, as a recursive function.

The comment at `orphanpool.go:145-147` gives the pool a maximum. Evicting an
`oldestOrphan` that has already left removes nothing, so the pool may hold one
block more than that; `BoundInv` is the bound the code keeps.

### DpkiPlatform

A Merkle root is the repository contents it stands for, a function from subjects
to certificates; hashing is collision free by assumption. A step is what
JavaScript runs between two awaits. A management request goes through `queued`
(on the promise chain), `posted` (HTTP call under way), `sent` (certificate
issued, tree built, transaction submitted) to `done` or `error`. `chain` holds
the calls that are not settled; `Timeout` settles one while the responder works
on, exactly as `requestJson` does after 15 seconds. `TxDropped` and
`ReceiptLost` are the two meanings of "receipt not found"; `IssueFails` is an
OpenSSL failure. An authentication reads certificate and proof
(`AuthExecute`), then the root (`ReadRoot`), from the contract or from the cache
(`mode`, the option `--dpki-root-read-mode`). On a mismatch it waits
(`waitForPlatformStable`: in-flight updates or five seconds, then the promise
chain) and tries once more (`Retry`). `Post` waits for continuations of a settled
promise: they run before the next HTTP call reaches the responder.

Simplifications: certificate path, assertion and signature checks succeed;
proofs come through the responder; one domain is modelled, the one management
writes to; a dropped transaction does not hold up the ones behind it (on the
chain its nonce is missing, and they would end like `ReceiptLost` or
`TxDropped`); a mined transaction takes effect. The script never looks at
`receipt.status` (`run-real-dpki-experiment.js:1079-1188`, `2565-2572`), so a
transaction that is mined and fails would be taken for a success; the function
it calls, `putCertificateAndDomainRoot`, has no `require`, which leaves running
out of gas, and that is not modelled.

### CrossDomainAuth and ThreeChain

`run-sidechain-smoke.js` registers two CAs on the main chain, issues a
certificate on each sidechain, updates the roots, relays both as checkpoints,
then reads certificate, validity, checkpoint and CA status from two chains and
records the result on a third. `pc` numbers these steps of `main()`; `st`, `pool`
and `receipt` are the transaction it waits for. `Timeout` is web3 giving up on a
receipt: the script ends and the transaction may still be mined (`Mined`).
`Read` answers the four reads of `Promise.all` one at a time in any order,
`Verify` takes the conjunction, `ConfirmStored` reads the stored result back.
Every public function of `MainChainCARegistry.sol` and `SidechainDPKI.sol` is an
operator with its `require` clauses as guards; `Others` lets any account call any
of them between any two steps, and lets the clock pass a validity bound.

`CrossDomainAuth` says what can be promised when conditions on several chains
change at any time: an authentication accepts only if each condition held at
some moment of its check (not all at one moment), and an accepted result is
recorded only after that. `Authenticates` is the refinement: decision and record
are read off the script's state, `facts` off the chains, `seen` is history.

Simplifications: subject, key and metadata hashes, heights and times that are
stored and never read are left out; hashing is collision free; the contracts are
deployed before the first step; calls of others are bounded by `MaxCalls`.

### TxFlow

Four loops share the state: the holder of `chainLock` (`job`), the mempool, the
consensus client's event loop, and the miner (`pc`, `base`, `mtxs`). A block is the
branch it ends, so parent and height need no tables. `high` and `low` are the
channels of the queue. `SendAddBlockEvent` uses the high one and
`SendDelBlockEvent` the low one, and `Sub` may take either head, so a
reorganisation's announcements reach mempool and consensus out of order.
`ConnectBlock` waits until earlier additions are taken in (`AddsTaken`), because
it asks the mempool about a peer's transactions (`EventCheckTxsExist`) and
consensus about every block (`EventCheckBlock`) over the same channel.
`CheckTxRemote` and `PushTx` are the two halves of a submission, with the chain
asked in the first only. The miner takes `RequestTx`, `EventTxList`,
`CheckTxDup`, `PreExecBlock`, `SendBlock`; its block goes through `SelfCheck`
(without lock), then `OwnConnects` or `OwnOffTip`; `DelMempoolTx` and
`SetCurrentBlock` end `WriteBlock`.

What reading the code this way brought out: a block of the miner that is
shortened when it is connected gets another hash and passes `CheckBlock` only by
chance; a transaction `preExecBlock` drops stays in the mempool;
`WriteBlock` sets `currentBlock` last (`base.go:470`), whatever was announced in
between, so the miner may stay on a block of its own that has been detached
until the next block comes. `BuildsOnTip` and `Mined` name this last one as an
exception, so they do not speak about it. The other exception is `stopped`: a
reorganisation that had detached blocks met one that fails and left the chain
short (see `badbranch`). A block that fails directly on the tip does not count:
`job.off` tells the two apart.

Simplifications: calls over the queue do not fail (the node is not closing);
transaction groups, expiry, delayed transactions, the limit per account and fees
are left out; all blocks have the same difficulty; blocks of the node that were
never connected are not sent to peers; a block of the node that a
reorganisation would shorten is refused; the checks without lock and the orphan
pool belong to `BlockChain`.

### Push

A `pushNotify` is named after the goroutine it was made for; `go` holds the
goroutines, `notify` what they share, `tasks` the one in `push.tasks`. The content
of `seqUpdateChan` is never used, so the channel is a count. `SaveBlockSequence`
and `UpdateSeq` are what block processing does for a block; a subscription goes
through `AddSubscriber`, then `StoreStart`, `AddTask`, `Persist`, or
`Check2ResumePush` and `SetActive`. The start a subscriber gives (`start`) is a
sequence number and a hash, of which the model keeps whether it is the hash the
log has at that number (`known`). `StoreStart` refuses a number the log does not
have (`push.go:413-417`); it stores the number if the hash fits (`push.go:420`)
and nothing otherwise, and then the task begins at the end of the log as it does
without a start (`push.go:623-625`). `Anchor` is the position the node took over,
0 if none; the promises of completeness are about subscribers with an anchor,
and `CatchesUp` says of the others that they get everything from the end they
began at. A subscription holds `push.mu` while it writes to a full
channel (`blocked`). A goroutine goes from `Start` and `Running` to its `select`
(`Tick`, `SeqUpdate`, `CloseTask`), `PostData` or `PostFails`, `SetLastPushSeq`,
`More`, and gives up by `DeleteTask` and `SetNotActive`. A failed post includes one
whose answer was lost.

What the model shows about the code: a failed post is repeated only at the next
notice, and a notice that arrives during the waiting time is used up as a tick;
`running` is set by the goroutine (`push.go:583`), so a subscription before that
starts a second goroutine on the same `pushNotify`; a task that is replaced in
`push.tasks` is not told to close, and `Close` waits for its goroutine
(`CloseEnds` is about the task in `push.tasks` only); a task that gives up may
delete the entry of its successor (`push.go:659`), and then nothing serves the
name until the next subscription (`Served` and `CatchesUp` leave `tasks = 0`
out); a start with a hash of another block is dropped without a word, and like a
subscriber that gave none this one misses what was added before its task ran or
is added while the node is down. `runTask` writes to the
channel under `push.mu` (`push.go:542`) although the goroutine may be waiting for
`push.mu` to give up (`push.go:658`): then block processing, which needs `push.mu`
in `UpdateSeq`, waits too. `Jammed` names that state, and `CatchesUp` excuses it.

Simplifications: one subscriber name, and repeated requests give the same
`LastSequence` and hash; the filters by receipt and EVM event, the number of subscribers,
grpc, and read errors of the log are left out.

## 3. Runs

| Run | Configuration | Checks | Distinct states |
| --- | --- | --- | --- |
| `core` | `BlockChain_core.cfg` | view, index and database agree; heaviest tip; ties settled; restart keeps the chain; `ImplementsBestChain` (refinement) | 507,167 |
| `faults` | `BlockChain_faults.cfg` | inductive invariant, `ReorgFits`, with bad blocks, transient failures and a restart | 2,206,765 |
| `live` | `BlockChain_live.cfg` | `Converges`, with a fork and a refused orphan | 546,254 |
| `orphans` | `OrphanPool_core.cfg` | indexes agree, bound, `ImplementsSet` (refinement), eviction, loop ends | 279,502 |
| `platform` | `DpkiPlatform_core.cfg` | coherent caches, stable root, agreement on chain, one retry, current certificate, termination | 329,398 |
| `threechain` | `ThreeChain.cfg` | effects on the chains are those of the steps taken, `Authenticates` (refinement), the script ends | 179,292 |
| `txflow` | `TxFlow_core.cfg` | no transaction twice, none lost without a detached block, miner and mempool follow the chain, transactions get mined | 1,159,086 |
| `push` | `Push.cfg` | no gap, every task is served, the subscriber catches up, the goroutines of the task in `push.tasks` end at close | 803,119 |
| `badbranch`, `nilfork`, `platform_onchain`, `txflow_lost` | see below | statements of the repository that the code does not keep | - |

Bounds. `core`: two goroutines, five blocks in two branches that tie at height
one and where the switch to the heavier branch detaches two blocks, one restart;
two goroutines are enough for a check to be overtaken by a whole
reorganisation, and one restart for any point of it. `faults`: one goroutine,
six blocks (among them one that never executes and one whose height does not
fit) whose branches overtake one another twice, one transient failure and one
restart, all three sources of blocks. `live`: two goroutines, a fork with an
orphan chain and a second orphan of the same parent whose height does not fit,
so that `ProcessOrphans` ends early and leaves the good one behind; one restart. `orphans`: limit 2 with four blocks, two of
them siblings and one a grandchild, a clock of three values with life time 1,
each block at most twice in the pool. `platform`: two subjects, three requests
(two on one subject), one authentication, and one of each failure.
`threechain`: two calls of others, with the script's account and another, the
script's certificate hash and another, the expected root and another; two
calls are enough to take a condition away and give it back during the check.
`txflow`: two good transactions and one that fails, a cache of two, two blocks
from peers and one submission, so that a peer's branch overtakes the miner's and
the cache is full when transactions come back; `txflow_lost` has three blocks
from peers and a cache for all transactions, so nothing is lost for want of room.
`push`: two subscriptions at once, subscribers without a start, with one inside
and one beyond the log, each with the right hash and a wrong one, a log
of two numbers that grows to four, a channel and a batch of one, two failed
posts in a row to give up, two goroutines, one restart. Deadlock checking is off
in `threechain`, where the script ends, and in `push`, where the node stops.
Symmetry is used for goroutines in `core` and `faults`, where no liveness is
checked.

The runs that end in a violation:

* `badbranch`: `process.go:230` prefers "the block of greater total
  difficulty". When a heavier branch turns out not to execute,
  `reorganizeChain` has already disconnected the old one and does not connect
  it again. The node is left below the fork until a new block arrives.
* `nilfork`: `chainview.go:17-18` describes the view "from its tip back to the
  genesis block". After a restart all nodes of the view have pid "self". If one
  of them is detached, attached again and then meets a transient failure,
  `DelNode` forgets it and cuts its children off. Once it is back, a child that
  wins has no fork point; `getReorganizeNodes` detaches everything.
* `platform_onchain`: `README.md:72` of the repository says management stores
  the repository state on chain. After one HTTP timeout the next request
  builds its tree without the record of the first, whose transaction is still
  under way; the last root on chain then lacks that record.
* `txflow_lost`: `eventprocess.go:96` and `base.go:451` of the mempool say that the
  transactions of a rolled-back block are put into the mempool again.
  `eventDelBlock` ignores a block that is not at the height of the mempool's
  header (`eventprocess.go:271`). An added block that overtakes the deletion moves
  the header, and the first of several deletions sets it to the chain's last
  one of that moment; the transactions of an ignored block are nowhere.

### Fairness

`BlockChain`: goroutines are scheduled and Go mutexes are starvation free, hence
strong fairness of the steps that may wait for a lock and weak fairness under
`chainLock`; `SynBlocksFromPeers` and `forkChainDetection` ask for the blocks of
the peers again as long as the node is behind, hence strong fairness of their
delivery. `OrphanPool`: weak fairness of the loop of the goroutine that holds the
lock. `DpkiPlatform`: blocks are produced, the event loop runs what is ready and
HTTP calls are answered. `ThreeChain`: the event loop runs what is ready and web3
gives up on a receipt in the end; that a transaction is mined is not assumed.
`TxFlow`: each loop goes on while it has something to do (the chain, the mempool,
the consensus client, the miner); the low channels have a fairness condition of
their own, since `Sub` takes a waiting low message whenever the high channel is
empty. `Push`: handlers and goroutines go on while they can. Failures,
restarts, submissions and peers' blocks are never fair.

## 4. Proofs

All theorems hold for every value of the constants that satisfies the named
assumptions (`BlockAssumption`, `RankAssumption`, `EnvAssumption`, `PoolAssumption`,
`PlatformAssumption`, `ChainsAssumption`, `FlowAssumption`, `PushAssumption`).

`BlockChainProofs`: `Invariance` shows that `IInv` is inductive; type
correctness, `ViewMatchesDB`, `BestIsChain`, `TdConsistent`, `ReorgFits`,
`TipHeaviest` and the action property `RestartKeepsChain` follow. The properties
are not inductive alone. `SessionInv` says what a reorganisation still has to do:
the blocks to attach are a linked branch on the block the view will be cut
back to. Without it nothing forces `SetTip` to succeed. `IndexInv` ties pointers
to hashes, `LockInv` gives the session to one goroutine, and `WeightInv` says that
the branch under way outweighs the index, so `TipHeaviest` holds again when it
arrives. The proof has a lemma per action. `TiesAreSettled` needs `TieInv` besides:
while no block failed, the index is closed under parents, and the block the view
is on or heading for (`Aim`) has no child and no better sibling in it. Without
the first two a block that is taken on late could find its children in the index
already, and the next block on the tip could be one that is there with a better
sibling. `CmpBestBlock` is a strict order because block hashes are
(`RankAssumption`).

`BestChainProofs`: `Refinement`, from the same `IInv`. `TargetFacts` shows that the
chain a reorganisation is heading for is a branch of stored blocks that ends in
`Aim`; with `TdConsistent`, `WeightIsTd` makes its work the total difficulty of
that block, for chains of any length. Then the comparison of `PreferToTip` is the
abstract one, an accepted block is a `Switch` or nothing, and a connected or
disconnected block leaves `Target` as it is.

`OrphanPoolProofs`: `PoolInvariance` of `PoolInv`, from which `TypeCorrect`,
`IndexesAlwaysAgree` and `Refinement` follow, then `EvictsOnlyWhenFull` and
`BoundedPool`. `RestFacts` says what the loop over a list takes out and leaves, for
lists of any length. `LoopInv` says why the loop of `ProcessOrphans` misses no
child: its index does not move while the list has an entry. The bound alone is
not inductive; `BoundInv` adds that the insertion that goes over the limit has
just cleared `oldestOrphan`, so the next eviction finds an entry of the pool.

`WeightIsTd` and `RestFacts` are about recursive functions. Their inductions are by
the least counterexample: `Least` of `LeastNumber`, from the library's theorem that
the natural numbers are well founded, says that a set of natural numbers has a
least element.

`DpkiPlatformProofs`: `Invariance`, then `CacheCoherent`, `StableRoot`,
`OnChainAgrees`, `RetrySuffices` and the action property `AuthCurrent`.
`SerialInv` says that, while no call and no receipt was given up, the head of
the promise chain is the only request at work and the contract is either at the
repository's root or at the one this request sent; `RetryInv` says that a
second attempt starts when no request is at work.

`ThreeChainProofs`: `Invariance`, then `TypeCorrect`, `PrefixHolds` and
`Refinement`: `Spec` implements `CrossDomainAuth`, for any number of calls of
others. `ScriptInv` says that the transaction under way is the one of the
current step and that every answer that counts towards acceptance was a fact at
some moment of the check; `PrefixApplied` says which steps have taken effect. Every
step maps to a step of `CrossDomainAuth` or to a stutter.

`TxFlowProofs`: `Invariance` of `FlowInv`, then `TypeCorrect`, `OnceHolds` and
`KeptHolds`. `Kept` is not inductive: the mempool drops transactions on the word of
a message. `LeavingInv` says that what a message or the miner makes it drop is on
the chain or was detached since; `QueueInv` says whose request is in the queue.
`HeaderHolds` and `BuildsOnTipHolds` are about the order of the announcements.
`HeaderInv` says that no message names a block above the tip or, once a block was
detached, above the branch that is worked at, and that the last block connected
is in the header or announced; so a late
deletion, which asks for the chain's height of the moment, does no harm.
`TipInv` says the same of the consensus client: after the additions that wait, it
is on the tip or on a block of the miner's own.

`PushProofs`: `Invariance` of `PushInv`, then `TypeCorrect`, `NoGapHolds` and
`ServedHolds`. `PositionInv` says that a subscriber with an `Anchor` has everything
from there up to the
position in the database and up to the position of every goroutine, which is why
two goroutines on one task and lost answers repeat numbers but leave none out;
`ServedInv` adds to `Served` that nobody is told to close before the node closes.

Every safety property of the passing runs is proved. Only model-checked are the
liveness properties `Converges`, `LoopEnds`, `AuthEnds`, `ScriptEnds`, `Mined`,
`CatchesUp` and `CloseEnds`: fairness and `ENABLED` are out of the prover's reach.
The runs that end in a violation have no theorem. No module uses a recursive
operator; recursion is by recursive functions.

## 5. Not modelled, and the plan

In order:

1. Synchronisation and fast download (`blocksyn.go`, `download.go`): tasks, time
   limits and fault peers. `BlockChain` has their effect only: blocks of peers
   arrive from three sources and are asked for again.
2. The limit of 1000 message handlers (`proc.go:20`) with the executor's own
   queries into the chain.
3. On-chain authentication of the platform, and the missing nonce behind a
   dropped transaction.
4. The baselines: their scripts are sequential drivers, and the contract of the
   multi-CA baseline counts approvals in one function; there is little that
   interleaves.
5. Difficulty arithmetic: 256-bit integers are beyond TLC; `BlockChain` takes the
   work of a block as a constant.

The share of the repository's lines that the modules stand for is small: most of
it is vendored plugins, generated contract bindings and protocol buffers that the
proof-of-work deployment does not run.

Left out for good: other consensus plugins, dapps, wallet, p2p and rpc (not part
of the proof-of-work deployment, or pure I/O), cryptography, and the experiment,
figure and launch scripts.
