------------------------------ MODULE BlockChain ------------------------------
(***************************************************************************)
(* Block processing of one Omnilink node (omnilink-base/blockchain): how a *)
(* block that arrives from the miner ("self"), from a peer or from the     *)
(* fast downloader ("download") is filed as an orphan, as a side chain     *)
(* block or on the best chain, how the best chain is reorganised, and how  *)
(* the in-memory block index and chain view follow the database through    *)
(* failed executions, shutdowns and crashes.                               *)
(*                                                                         *)
(* Every delivered block is handled by a goroutine of its own.  The checks *)
(* of ProcessBlock run without chainLock, so each of them is a step; from  *)
(* maybeAddBestChain on the goroutine holds chainLock, and there a step is *)
(* one database batch together with the in-memory updates that follow it.  *)
(*                                                                         *)
(* Abstractions.  A block is its hash; Parent, Height, Work, Time and Rank *)
(* are the header fields the code reads (Work is CalcWork(Difficulty),     *)
(* Rank orders block hashes).  Parent pointers of index nodes are kept     *)
(* apart from parent hashes because DelNode breaks the pointer only.  The  *)
(* limits of the index (102400), of the view (10240) and of the blocks     *)
(* loaded at boot (InitBlockNum) are not reached.                          *)
(* The orphan pool is a set here; its limit and expiry are an arbitrary    *)
(* choice of dropped orphans, made precise in module OrphanPool.           *)
(***************************************************************************)
EXTENDS Integers, Sequences, Functions

CONSTANTS
    Blocks,          \* every block that may be delivered, the genesis included
    Genesis,         \* the block of height 0
    Parent,          \* parent hash of a block
    Height,          \* height field of a block; need not fit the parent's
    Work,            \* CalcWork of the block's difficulty field
    Time,            \* block time field
    Rank,            \* order of the block hashes, a lower hash is better
    Bad,             \* blocks whose execution fails for good
    Pids,            \* sources of blocks: "self", "download" and peers
    Handlers,        \* goroutines that handle EventAddBlock
    EnBestBlockCmp,  \* configuration Consensus.EnableBestBlockCmp
    PeerChain,       \* best chain of the peers, without the genesis block
    MaxBoots,        \* bound on the number of restarts
    MaxTransient,    \* bound on the number of transient failures
    NoBlock,         \* the nil block, hash and node
    NoHandler        \* chainLock is free

ASSUME BlockAssumption ==
    /\ Genesis \in Blocks
    /\ NoBlock \notin Blocks
    /\ Parent \in [Blocks -> Blocks \cup {NoBlock}]
    /\ Height \in [Blocks -> Nat]
    /\ Work \in [Blocks -> Nat]
    /\ Parent[Genesis] = NoBlock
    /\ Height[Genesis] = 0
    /\ \A b \in Blocks \ {Genesis} : Parent[b] \in Blocks /\ Height[b] # 0

\* Block hashes are totally ordered.
ASSUME RankAssumption == \A b \in Blocks : Rank[b] \in Int

ASSUME EnvAssumption ==
    /\ Bad \subseteq Blocks \ {Genesis}
    /\ PeerChain \subseteq Blocks \ ({Genesis} \cup Bad)
    /\ "self" \in Pids
    /\ NoHandler \notin Handlers
    /\ EnBestBlockCmp \in BOOLEAN
    /\ MaxBoots \in Nat
    /\ MaxTransient \in Nat

VARIABLES
    \* the goroutines: where each one is, its block and the block's source
    pc, blk, pid,
    \* chainLock: its holder, and how far the holder is
    holder,    \* the goroutine inside maybeAddBestChain
    stage,     \* "free", "reorg", "accepted" or "orphans"
    cur,       \* the block maybeAcceptBlock works on
    detach,    \* number of detachNodes not yet disconnected
    attach,    \* attachNodes not yet connected
    looping,   \* inside ProcessOrphans, which holds orphanLock
    queue,     \* processHashes of ProcessOrphans
    \* memory, lost by a crash
    index,     \* hashes of the block index
    par,       \* parent pointer of each index node, NoBlock for nil
    npid,      \* pid of each index node
    errLog,    \* index nodes whose errLog is set
    best,      \* the chain view, genesis first
    pregen,    \* the view still has the pre-genesis node below genesis
    orphans,   \* hashes of the orphan pool
    opid,      \* pid of each orphan
    faultPeers,\* sources recorded by RecordFaultPeer
    closed,    \* BlockChain.isclosed
    \* database
    stored,    \* blocks saved with their total difficulty
    td,        \* total difficulty by hash, 0 where none is stored
    hashAt,    \* height to hash of the main chain
    lastHeight,\* blockLastHeight
    \* environment and history
    boots,     \* restarts so far
    transients,\* transient failures so far
    failed     \* a block failed to load, connect or disconnect since the boot

handlerVars == <<pc, blk, pid>>
lockVars    == <<holder, stage, cur, detach, attach, looping, queue>>
indexVars   == <<index, par, npid, errLog>>
poolVars    == <<orphans, opid>>
storeVars   == <<stored, td>>
chainVars   == <<best, hashAt, lastHeight>>
envVars     == <<pregen, closed, boots>>
vars == <<handlerVars, lockVars, indexVars, poolVars, storeVars, chainVars,
          envVars, faultPeers, transients, failed>>

Heights == {Height[b] : b \in Blocks}
Peers   == Pids \ {"self", "download"}
Steps   == {"idle", "exists", "orphan", "orphanParent", "remove", "parent",
            "addOrphan", "lock", "locked"}
Stages  == {"free", "reorg", "accepted", "orphans"}

\* chainView.Tip
Tip == best[Len(best)]

-------------------------------------------------------------------------------
(* Initial state: a node booted on an empty database has connected the     *)
(* genesis block of its consensus module above the pre-genesis node.       *)

Init ==
    /\ pc = [h \in Handlers |-> "idle"]
    /\ blk = [h \in Handlers |-> NoBlock]
    /\ pid = [h \in Handlers |-> "self"]
    /\ holder = NoHandler /\ stage = "free" /\ cur = NoBlock
    /\ detach = 0 /\ attach = <<>> /\ looping = FALSE /\ queue = <<>>
    /\ index = {Genesis}
    /\ par = [b \in Blocks |-> NoBlock]
    /\ npid = [b \in Blocks |-> "self"]
    /\ errLog = {}
    /\ best = <<Genesis>>
    /\ pregen = TRUE
    /\ orphans = {}
    /\ opid = [b \in Blocks |-> "self"]
    /\ faultPeers = {}
    /\ closed = FALSE
    /\ stored = {Genesis}
    /\ td = [b \in Blocks |-> IF b = Genesis THEN Work[Genesis] ELSE 0]
    /\ hashAt = [k \in Heights |-> IF k = 0 THEN Genesis ELSE NoBlock]
    /\ lastHeight = 0
    /\ boots = 0 /\ transients = 0 /\ failed = FALSE

-------------------------------------------------------------------------------
(* ProcessBlock: the checks made before chainLock is taken.                *)

\* blockExists: in the index, or stored and on the main chain.
blockExists(b) == b \in index \/ (b \in stored /\ hashAt[Height[b]] = b)

\* RecordFaultPeer ignores a pid that is not a connected peer.
RecordFaultPeer(p) == faultPeers' = faultPeers \cup ({p} \cap Peers)

\* The goroutine goes on to a step of its own, or ends.
Goto(h, step) ==
    /\ pc' = [pc EXCEPT ![h] = step]
    /\ UNCHANGED <<blk, pid>>
Finish(h) ==
    /\ pc' = [pc EXCEPT ![h] = "idle"]
    /\ blk' = [blk EXCEPT ![h] = NoBlock]
    /\ pid' = [pid EXCEPT ![h] = "self"]

\* A block is handed to a goroutine.  A block of the own miner executes (it
\* was pre-executed) and goes on only if it extends the tip read here.
Deliver(h, b, p) ==
    /\ pc[h] = "idle"
    /\ ~closed
    /\ p = "self" => b \notin Bad /\ best # <<>> /\ Parent[b] = Tip
    /\ pc' = [pc EXCEPT ![h] = "exists"]
    /\ blk' = [blk EXCEPT ![h] = b]
    /\ pid' = [pid EXCEPT ![h] = p]
    /\ UNCHANGED <<lockVars, indexVars, poolVars, storeVars, chainVars,
                   envVars, faultPeers, transients, failed>>

\* A known block is refused; its source is at fault if it failed before.
CheckExists(h) ==
    /\ pc[h] = "exists"
    /\ \/ /\ blockExists(blk[h])
          /\ IF blk[h] \in errLog THEN RecordFaultPeer(pid[h])
                                  ELSE UNCHANGED faultPeers
          /\ Finish(h)
       \/ /\ ~blockExists(blk[h])
          /\ Goto(h, "orphan")
          /\ UNCHANGED faultPeers
    /\ UNCHANGED <<lockVars, indexVars, poolVars, storeVars,
                   chainVars, envVars, transients, failed>>

\* IsKnownOrphan; orphanLock must be free, as for every use of the pool.
CheckOrphan(h) ==
    /\ pc[h] = "orphan"
    /\ ~looping
    /\ Goto(h, IF blk[h] \in orphans THEN "orphanParent" ELSE "parent")
    /\ UNCHANGED <<lockVars, indexVars, poolVars, storeVars,
                   chainVars, envVars, faultPeers, transients, failed>>

\* A known orphan goes on only if its parent has arrived meanwhile.
CheckOrphanParent(h) ==
    /\ pc[h] = "orphanParent"
    /\ IF blockExists(Parent[blk[h]]) THEN Goto(h, "remove") ELSE Finish(h)
    /\ UNCHANGED <<lockVars, indexVars, poolVars, storeVars,
                   chainVars, envVars, faultPeers, transients, failed>>

\* RemoveOrphanBlockByHash
RemoveOrphanBlockByHash(h) ==
    /\ pc[h] = "remove"
    /\ ~looping
    /\ orphans' = orphans \ {blk[h]}
    /\ Goto(h, "parent")
    /\ UNCHANGED <<opid, lockVars, indexVars, storeVars, chainVars,
                   envVars, faultPeers, transients, failed>>

CheckParent(h) ==
    /\ pc[h] = "parent"
    /\ Goto(h, IF blockExists(Parent[blk[h]]) THEN "lock" ELSE "addOrphan")
    /\ UNCHANGED <<lockVars, indexVars, poolVars, storeVars,
                   chainVars, envVars, faultPeers, transients, failed>>

\* AddOrphanBlock drops expired orphans and, at the limit, one more.  A block
\* that is in the pool twice is found by its older entry.
AddOrphanBlock(h) ==
    /\ pc[h] = "addOrphan"
    /\ ~looping
    /\ \E dropped \in SUBSET orphans :
          /\ orphans' = (orphans \ dropped) \cup {blk[h]}
          /\ opid' = IF blk[h] \in orphans \ dropped
                       THEN opid
                       ELSE [opid EXCEPT ![blk[h]] = pid[h]]
    /\ Finish(h)
    /\ UNCHANGED <<lockVars, indexVars, storeVars, chainVars,
                   envVars, faultPeers, transients, failed>>

-------------------------------------------------------------------------------
(* maybeAcceptBlock and connectBestChain, under chainLock.                 *)

\* Every return, error and recovered panic runs the deferred unlocks.
Return(h) ==
    /\ holder' = NoHandler /\ stage' = "free" /\ cur' = NoBlock
    /\ detach' = 0 /\ attach' = <<>> /\ looping' = FALSE /\ queue' = <<>>
    /\ Finish(h)

\* maybeAcceptBlock of b succeeded: ProcessOrphans is next, or goes on.
Accepted(h, b) ==
    /\ holder' = h /\ cur' = NoBlock /\ detach' = 0 /\ attach' = <<>>
    /\ looping' = looping
    /\ stage' = IF looping THEN "orphans" ELSE "accepted"
    /\ queue' = IF looping THEN Append(queue, b) ELSE queue
    /\ Goto(h, "locked")

\* Mutant: one stale block is left on the view.
ReorganizeShort(h, b, n, s) ==
    /\ holder' = h /\ stage' = "reorg" /\ cur' = b
    /\ detach' = IF n > 1 THEN n - 1 ELSE n
    /\ attach' = s
    /\ UNCHANGED <<looping, queue>>
    /\ Goto(h, "locked")

\* connectBestChain of b hands n blocks to disconnect and s to connect.
Reorganize(h, b, n, s) ==
    /\ holder' = h /\ stage' = "reorg" /\ cur' = b
    /\ detach' = n /\ attach' = s
    /\ UNCHANGED <<looping, queue>>
    /\ Goto(h, "locked")

\* The branch from the fork point to b, fork point excluded: what
\* getReorganizeNodes collects along the parent pointers p.  It is unique;
\* there is none when a pointer on the way was cut (FindFork returns nil).
Branches(b, p) ==
    UNION {{s \in [1..k -> Blocks] :
              /\ s[k] = b
              /\ \A i \in 1..k : s[i] \notin Range(best)
              /\ \A i \in 2..k : p[s[i]] = s[i-1]
              /\ p[s[1]] \in Range(best)} : k \in 1..Height[b]}

\* CmpBestBlock of the consensus module: the blocks must agree in height,
\* time and parent; proof of work prefers the lower hash.
CmpBestBlock(b, c) ==
    /\ Height[b] = Height[c]
    /\ Time[b] = Time[c]
    /\ Parent[b] = Parent[c]
    /\ Rank[b] < Rank[c]

\* Mutants: the longer branch is preferred; a tie is never settled; the last
\* block to arrive wins it.
PreferLonger(b) == Height[b] > Height[Tip]
PreferHeavierOnly(b) == Work[b] + td[Parent[b]] > td[Tip]
PreferLast(b) == Work[b] + td[Parent[b]] >= td[Tip]

\* Whether b takes over from the tip: more total difficulty, or a tie that
\* the consensus module decides.
PreferToTip(b) ==
    LET blocktd == Work[b] + td[Parent[b]] IN
    \/ blocktd > td[Tip]
    \/ EnBestBlockCmp /\ blocktd = td[Tip] /\ CmpBestBlock(b, Tip)

\* A fresh node for b; nodes of b's children that point to an earlier node of
\* b are not relinked.
LinkNode(b) ==
    [d \in Blocks |-> IF d = b THEN Parent[b]
                      ELSE IF par[d] = b THEN NoBlock ELSE par[d]]

\* Mutant: the node is linked but not entered.
AddNodeUnlisted(b, p) ==
    /\ par' = LinkNode(b)
    /\ npid' = [npid EXCEPT ![b] = p]
    /\ UNCHANGED <<index, errLog>>

\* AddNode
AddNode(b, p) ==
    /\ index' = index \cup {b}
    /\ par' = LinkNode(b)
    /\ npid' = [npid EXCEPT ![b] = p]
    /\ errLog' = errLog \ {b}

\* Mutant: the work is added to the tip's total difficulty.
dbMaybeStoreBlockOnTip(b) ==
    /\ stored' = stored \cup {b}
    /\ td' = IF b \in stored \/ best = <<>>
              THEN td ELSE [td EXCEPT ![b] = Work[b] + td[Tip]]

\* dbMaybeStoreBlock: a block that is not stored yet is saved with its total
\* difficulty.
dbMaybeStoreBlock(b) ==
    /\ stored' = stored \cup {b}
    /\ td' = IF b \in stored THEN td
                             ELSE [td EXCEPT ![b] = Work[b] + td[Parent[b]]]

\* connectBestChain: extend the tip, stay a side chain, or reorganise.
connectBestChain(h, b) ==
    LET p == LinkNode(b) IN
    \/ /\ best = <<>>                      \* nil tip
       /\ Return(h) /\ UNCHANGED failed
    \/ /\ best # <<>> /\ Parent[b] = Tip
       /\ Reorganize(h, b, 0, <<b>>) /\ UNCHANGED failed
    \/ /\ best # <<>> /\ Parent[b] # Tip /\ ~PreferToTip(b)
       /\ IF Branches(b, p) = {} THEN Return(h)  \* nil fork is dereferenced
                                 ELSE Accepted(h, b)
       /\ UNCHANGED failed
    \/ /\ best # <<>> /\ Parent[b] # Tip /\ PreferToTip(b)
       /\ \/ \E s \in Branches(b, p) : \E f \in 1..Len(best) :
                /\ best[f] = p[s[1]]
                /\ Reorganize(h, b, Len(best) - f, s)
                /\ UNCHANGED failed
          \/ /\ Branches(b, p) = {}        \* nil fork: detach everything
             /\ failed' = TRUE
             /\ IF pregen THEN Return(h)   \* pre-genesis cannot be loaded
                          ELSE Reorganize(h, b, Len(best), <<>>)

\* Mutant: the height is not checked.
AcceptableAnyHeight(b) == Parent[b] \in index

\* maybeAcceptBlock's checks
Acceptable(b) ==
    /\ Parent[b] \in index
    /\ Height[b] = Height[Parent[b]] + 1

\* maybeAcceptBlock: dbMaybeStoreBlock, AddNode, connectBestChain.
maybeAcceptBlock(h, b, p) ==
    /\ dbMaybeStoreBlock(b)
    /\ AddNode(b, p)
    /\ connectBestChain(h, b)

\* maybeAddBestChain takes chainLock and looks again before it accepts.
maybeAddBestChain(h) ==
    /\ pc[h] = "lock"
    /\ holder = NoHandler
    /\ \/ /\ ~blockExists(blk[h]) /\ Acceptable(blk[h])
          /\ maybeAcceptBlock(h, blk[h], pid[h])
       \/ /\ blockExists(blk[h]) \/ ~Acceptable(blk[h])
          /\ Finish(h)
          /\ UNCHANGED <<lockVars, indexVars, storeVars, failed>>
    /\ UNCHANGED <<poolVars, chainVars, envVars, faultPeers,
                   transients>>

-------------------------------------------------------------------------------
(* reorganizeChain: disconnectBlock and connectBlock, one batch each.      *)

\* Mutant: the height-to-hash entry stays.
DelBlockKeepsHash(b) ==
    /\ lastHeight' = Height[b] - 1
    /\ UNCHANGED hashAt

\* DelBlock: the database batch of disconnectBlock.
DelBlock(b) ==
    /\ hashAt' = [hashAt EXCEPT ![Height[b]] = NoBlock]
    /\ lastHeight' = Height[b] - 1

\* SaveBlock and SaveTdByBlockHash: the database batch of connectBlock.
SaveBlock(b) ==
    /\ hashAt' = [hashAt EXCEPT ![Height[b]] = b]
    /\ lastHeight' = Height[b]
    /\ td' = [td EXCEPT ![b] = Work[b] + td[Parent[b]]]

\* chainView.SetTip insists on the parent pointer.
SetTip(b) == best' = IF par[b] = Tip THEN Append(best, b) ELSE best

\* disconnectBlock takes the tip off the main chain; below the genesis block
\* there is no parent node to go back to.
disconnectBlock(h) ==
    /\ holder = h /\ stage = "reorg" /\ detach > 0
    /\ best' = SubSeq(best, 1, Len(best) - 1)
    /\ DelBlock(Tip)
    /\ IF Len(best) = 1 THEN Return(h)
                        ELSE /\ detach' = detach - 1
                             /\ UNCHANGED <<handlerVars, holder, stage, cur,
                                            attach, looping, queue>>
    /\ UNCHANGED <<indexVars, poolVars, storeVars, envVars,
                   faultPeers, transients, failed>>

\* DelTxs asks the executor and may fail; the blocks already detached stay so.
disconnectBlockFails(h) ==
    /\ holder = h /\ stage = "reorg" /\ detach > 0
    /\ transients < MaxTransient
    /\ transients' = transients + 1
    /\ failed' = TRUE
    /\ Return(h)
    /\ UNCHANGED <<indexVars, poolVars, storeVars, chainVars,
                   envVars, faultPeers>>

\* connectBlock goes past its checks and the block executes.
ConnectOK(b) == ~closed /\ Parent[b] = Tip /\ b \notin Bad

\* connectBlock: the batch, then SetTip.
connectBlock(h) ==
    /\ holder = h /\ stage = "reorg" /\ detach = 0 /\ attach # <<>>
    /\ LET b == Head(attach) IN
       /\ ConnectOK(b)
       /\ SaveBlock(b)
       /\ SetTip(b)
    /\ IF Len(attach) = 1 THEN Accepted(h, cur)
                          ELSE /\ attach' = Tail(attach)
                               /\ UNCHANGED <<handlerVars, holder, stage, cur,
                                              detach, looping, queue>>
    /\ UNCHANGED <<indexVars, poolVars, stored, envVars,
                   faultPeers, transients, failed>>

\* handleErrBlk: the node is forgotten or marked.  Transient errors of own
\* blocks and all errors of downloaded blocks forget it.
handleErrBlk(b, transient) ==
    IF npid[b] = "download" \/ (transient /\ npid[b] = "self")
      THEN /\ index' = index \ {b}
           /\ par' = [d \in Blocks |-> IF d = b \/ par[d] = b
                                         THEN NoBlock ELSE par[d]]
           /\ errLog' = errLog \ {b}
           /\ UNCHANGED <<npid, faultPeers>>
      ELSE /\ errLog' = errLog \cup {b}
           /\ RecordFaultPeer(npid[b])
           /\ UNCHANGED <<index, par, npid>>

\* connectBlock fails: the node is closing, the block is bad, or executing
\* it met a queue or rpc error.  The blocks detached before stay detached.
connectBlockFails(h) ==
    /\ holder = h /\ stage = "reorg" /\ detach = 0 /\ attach # <<>>
    /\ \/ /\ closed
          /\ UNCHANGED <<indexVars, faultPeers, transients>>
       \/ /\ ~closed
          /\ Head(attach) \in Bad
          /\ handleErrBlk(Head(attach), FALSE)
          /\ UNCHANGED transients
       \/ /\ ~closed
          /\ transients < MaxTransient
          /\ transients' = transients + 1
          /\ handleErrBlk(Head(attach), TRUE)
    /\ failed' = TRUE
    /\ Return(h)
    /\ UNCHANGED <<poolVars, storeVars, chainVars, envVars>>

-------------------------------------------------------------------------------
(* ProcessOrphans, under chainLock and orphanLock.                         *)

StartOrphans(h) ==
    /\ holder = h /\ stage = "accepted"
    /\ stage' = "orphans" /\ looping' = TRUE /\ queue' = <<blk[h]>>
    /\ UNCHANGED <<handlerVars, holder, cur, detach, attach, indexVars,
                   poolVars, storeVars, chainVars, envVars, faultPeers,
                   transients, failed>>

\* Mutant: orphanLock stays taken when an orphan is refused.
ProcessOrphanKeepsLock(h, c) ==
    /\ holder = h /\ stage = "orphans" /\ queue # <<>>
    /\ c \in orphans /\ Parent[c] = Head(queue)
    /\ orphans' = orphans \ {c}
    /\ \/ /\ Acceptable(c)
          /\ maybeAcceptBlock(h, c, opid[c])
       \/ /\ ~Acceptable(c)
          /\ holder' = NoHandler /\ stage' = "free" /\ cur' = NoBlock
          /\ detach' = 0 /\ attach' = <<>> /\ queue' = <<>>
          /\ Finish(h)
          /\ UNCHANGED <<looping, indexVars, storeVars, failed>>
    /\ UNCHANGED <<opid, chainVars, envVars, faultPeers,
                   transients>>

\* A child of the hash in turn leaves the pool and is accepted like any
\* block; if it is refused, the whole loop ends.
ProcessOrphan(h, c) ==
    /\ holder = h /\ stage = "orphans" /\ queue # <<>>
    /\ c \in orphans /\ Parent[c] = Head(queue)
    /\ orphans' = orphans \ {c}
    /\ \/ /\ Acceptable(c)
          /\ maybeAcceptBlock(h, c, opid[c])
       \/ /\ ~Acceptable(c)
          /\ Return(h)
          /\ UNCHANGED <<indexVars, storeVars, failed>>
    /\ UNCHANGED <<opid, chainVars, envVars, faultPeers,
                   transients>>

\* No child is left: the next hash, or the end of ProcessBlock.
NextHash(h) ==
    /\ holder = h /\ stage = "orphans" /\ queue # <<>>
    /\ \A c \in orphans : Parent[c] # Head(queue)
    /\ IF Len(queue) = 1 THEN Return(h)
                         ELSE /\ queue' = Tail(queue)
                              /\ UNCHANGED <<handlerVars, holder, stage, cur,
                                             detach, attach, looping>>
    /\ UNCHANGED <<indexVars, poolVars, storeVars, chainVars,
                   envVars, faultPeers, transients, failed>>

-------------------------------------------------------------------------------
(* Shutdown and restart.                                                   *)

\* Close: no block is taken on any more and connectBlock gives up.
Close ==
    /\ ~closed /\ boots < MaxBoots
    /\ closed' = TRUE
    /\ UNCHANGED <<handlerVars, lockVars, indexVars, poolVars, storeVars,
                   chainVars, pregen, boots, faultPeers, transients, failed>>

\* Mutants: one height too many, one too few.
LoadedViewLong == [i \in 1..(lastHeight + 2) |-> hashAt[i - 1]]
LoadedViewShort == [i \in 1..lastHeight |-> hashAt[i - 1]]

\* InitIndexAndBestView: the view of the main chain in the database.
LoadedView == [i \in 1..(lastHeight + 1) |-> hashAt[i - 1]]

\* The process ends, cleanly or not, and starts again: index and view are
\* built from the main chain of the database with pid "self"; an empty
\* database gets its genesis block again.
Restart ==
    /\ boots < MaxBoots
    /\ boots' = boots + 1
    /\ closed' = FALSE /\ failed' = FALSE
    /\ pc' = [h \in Handlers |-> "idle"]
    /\ blk' = [h \in Handlers |-> NoBlock]
    /\ pid' = [h \in Handlers |-> "self"]
    /\ holder' = NoHandler /\ stage' = "free" /\ cur' = NoBlock
    /\ detach' = 0 /\ attach' = <<>> /\ looping' = FALSE /\ queue' = <<>>
    /\ best' = IF lastHeight = -1 THEN <<Genesis>> ELSE LoadedView
    /\ pregen' = (lastHeight = -1)
    /\ hashAt' = [hashAt EXCEPT ![0] = IF lastHeight = -1 THEN Genesis ELSE @]
    /\ lastHeight' = IF lastHeight = -1 THEN 0 ELSE lastHeight
    /\ index' = Range(best')
    /\ par' = [b \in Blocks |-> IF b \in Range(best') THEN Parent[b]
                                                      ELSE NoBlock]
    /\ npid' = [b \in Blocks |-> "self"]
    /\ errLog' = {} /\ orphans' = {} /\ faultPeers' = {}
    /\ opid' = [b \in Blocks |-> "self"]
    /\ UNCHANGED <<storeVars, transients>>

-------------------------------------------------------------------------------

Check(h) ==
    \/ CheckExists(h) \/ CheckOrphan(h) \/ CheckOrphanParent(h)
    \/ RemoveOrphanBlockByHash(h) \/ CheckParent(h) \/ AddOrphanBlock(h)
    \/ maybeAddBestChain(h)

Locked(h) ==
    \/ disconnectBlock(h) \/ disconnectBlockFails(h)
    \/ connectBlock(h) \/ connectBlockFails(h)
    \/ StartOrphans(h) \/ NextHash(h)
    \/ \E c \in orphans : ProcessOrphan(h, c)

Next ==
    \/ \E h \in Handlers :
          \/ \E b \in Blocks \ {Genesis}, p \in Pids : Deliver(h, b, p)
          \/ Check(h)
          \/ Locked(h)
    \/ Close
    \/ Restart

Spec == Init /\ [][Next]_vars
-------------------------------------------------------------------------------
(* What the specification promises.                                        *)

Sources == Pids \cup {"self"}

\* Type invariant.  The blocks of goroutine h are defined once it has one.
TypeOK ==
    /\ pc \in [Handlers -> Steps]
    /\ blk \in [Handlers -> Blocks \cup {NoBlock}]
    /\ pid \in [Handlers -> Sources]
    /\ \A h \in Handlers : pc[h] # "idle" => blk[h] \in Blocks \ {Genesis}
    /\ holder \in Handlers \cup {NoHandler}
    /\ stage \in Stages
    /\ cur \in Blocks \cup {NoBlock}
    /\ detach \in Nat
    /\ attach \in Seq(Blocks)
    /\ looping \in BOOLEAN
    /\ queue \in Seq(Blocks)
    /\ index \subseteq Blocks
    /\ par \in [Blocks -> Blocks \cup {NoBlock}]
    /\ npid \in [Blocks -> Sources]
    /\ errLog \subseteq Blocks
    /\ best \in Seq(Blocks)
    /\ pregen \in BOOLEAN
    /\ orphans \subseteq Blocks \ {Genesis}
    /\ opid \in [Blocks -> Sources]
    /\ faultPeers \subseteq Peers
    /\ closed \in BOOLEAN
    /\ stored \subseteq Blocks
    /\ td \in [Blocks -> Nat]
    /\ hashAt \in [Heights -> Blocks \cup {NoBlock}]
    /\ lastHeight \in Nat \cup {-1}
    /\ boots \in 0..MaxBoots
    /\ transients \in 0..MaxTransient
    /\ failed \in BOOLEAN

\* The chain view and the main chain of the database never drift apart, not
\* even between the batches of a reorganisation or after one was given up:
\* height-to-hash entries are exactly the view and blockLastHeight is its tip.
ViewMatchesDB ==
    /\ lastHeight = Len(best) - 1
    /\ \A k \in Heights :
          hashAt[k] = IF k < Len(best) THEN best[k + 1] ELSE NoBlock

\* The view is one branch of the block tree from genesis up, gap-free in
\* height, and all of it is indexed and stored, whatever the deliveries raced.
BestIsChain ==
    /\ best # <<>> => best[1] = Genesis
    /\ \A i \in 1..Len(best) : Height[best[i]] = i - 1
    /\ \A i \in 2..Len(best) : Parent[best[i]] = best[i - 1]
    /\ Range(best) \subseteq index
    /\ index \subseteq stored

\* The total difficulty saved with a block is the work of its whole branch,
\* whether the block was stored on arrival or again when it was connected.
TdConsistent ==
    /\ Genesis \in stored /\ td[Genesis] = Work[Genesis]
    /\ \A b \in stored \ {Genesis} :
          Parent[b] \in stored /\ td[b] = Work[b] + td[Parent[b]]

\* reorganizeChain always finds itself where getReorganizeNodes left off: with
\* the stale branch off, the next block fits the tip by hash and by pointer
\* (else connectBlock and SetTip would disagree about having extended it).
ReorgFits ==
    stage = "reorg" /\ detach = 0 =>
        /\ attach # <<>> /\ best # <<>>
        /\ Parent[Head(attach)] = Tip
        /\ par[Head(attach)] = Tip

\* Outside a reorganisation, and unless a block failed since the boot, no
\* indexed block carries more total difficulty than the tip of the view.
TipHeaviest ==
    stage # "reorg" /\ ~failed =>
        /\ best # <<>>
        /\ \A b \in index : td[b] <= td[Tip]

\* With EnableBestBlockCmp, a tie between siblings is settled the same way in
\* whatever order they arrived: no indexed sibling of the tip is better.
TieSettled ==
    EnBestBlockCmp /\ stage # "reorg" /\ ~failed =>
        \A b \in index : td[b] = td[Tip] => ~CmpBestBlock(b, Tip)

(* The inductive invariant behind the properties.                          *)

\* chainLock: exactly the goroutine that holds it is past "lock".
LockInv ==
    /\ holder = NoHandler <=> stage = "free"
    /\ \A h \in Handlers : pc[h] = "locked" <=> holder = h
    /\ stage = "orphans" => looping

\* A node pointer, where there is one, agrees with the parent hash and
\* belongs to an indexed block; heights fit along the index.
IndexInv ==
    /\ \A b \in Blocks : par[b] # NoBlock => par[b] = Parent[b] /\ b \in index
    /\ \A b \in index \ {Genesis} :
          Parent[b] \in Blocks /\ Height[b] = Height[Parent[b]] + 1

\* During a reorganisation attach is a linked branch of indexed blocks that
\* starts on the block the view will be cut back to and ends in cur; it is
\* empty only if no fork point was found.
SessionInv ==
    stage = "reorg" =>
        /\ cur \in Blocks
        /\ detach <= Len(best)
        /\ attach = <<>> => detach = Len(best) /\ best # <<>> /\ failed
        /\ attach # <<>> =>
              /\ detach < Len(best)
              /\ par[attach[1]] = best[Len(best) - detach]
              /\ \A i \in 2..Len(attach) : par[attach[i]] = attach[i - 1]
              /\ attach[Len(attach)] = cur

\* Total difficulty grows along the view, and the branch a reorganisation is
\* heading for outweighs the whole index.
WeightInv ==
    /\ \A i, j \in 1..Len(best) : i <= j => td[best[i]] <= td[best[j]]
    /\ stage = "reorg" /\ ~failed => \A b \in index : td[b] <= td[cur]

\* All parts together are preserved by every step.
IInv ==
    /\ TypeOK /\ LockInv /\ IndexInv /\ SessionInv
    /\ ViewMatchesDB /\ BestIsChain /\ TdConsistent
    /\ WeightInv /\ TipHeaviest

\* What settles a tie needs more: until a block fails, the index is closed under
\* parents, and the block the view is or will be on has no child and no better
\* sibling in it.
Aim == IF stage = "reorg" THEN cur ELSE Tip

TieInv ==
    ~failed =>
        /\ \A b \in index \ {Genesis} : Parent[b] \in index
        /\ \A b \in index : Parent[b] # Aim
        /\ EnBestBlockCmp =>
              \A b \in index : td[b] = td[Aim] => ~CmpBestBlock(b, Aim)

\* A crash at any point, also in the middle of a reorganisation, comes back
\* with the view the node had.
RestartKeepsChain ==
    [][boots' # boots /\ best # <<>> => best' = best]_vars

\* The chain the view is on or, in a reorganisation, is heading for: what is
\* left when the stale branch is off, and the branch to attach.
Target ==
    IF stage = "reorg" THEN SubSeq(best, 1, Len(best) - detach) \o attach ELSE best

\* To the rest of the node a reorganisation is one step to a preferred chain:
\* while no block fails, no sequence of deliveries, orphans and batches takes
\* the view to a lighter chain or back to one it has left.
Best == INSTANCE BestChain WITH
    chain <- Target,
    Wins <- {w \in Blocks \X Blocks : EnBestBlockCmp /\ CmpBestBlock(w[1], w[2])}

ImplementsBestChain == Best!Spec

-------------------------------------------------------------------------------
(* Liveness.  Goroutines are scheduled, and chainLock and orphanLock are   *)
(* handed to every waiter (a Go mutex is starvation free).  The blocks of  *)
(* the peers' best chain come again and again: SynBlocksFromPeers and the  *)
(* fork detection ask for them as long as the node does not follow.        *)

Fairness ==
    /\ \A h \in Handlers : SF_vars(Check(h)) /\ WF_vars(Locked(h))
    /\ \A b \in PeerChain :
          SF_vars(\E h \in Handlers, p \in Peers : Deliver(h, b, p))

FairSpec == Spec /\ Fairness

\* However deliveries, orphan handling and restarts interleave, a node that
\* is not shut down ends up, for good, with the peers' chain stored and on a
\* tip of at least its total difficulty: no lost orphan blocks the way.
Converges ==
    <>[](closed \/ \A b \in PeerChain : b \in stored /\ td[b] <= td[Tip])

-------------------------------------------------------------------------------
(* Statements of the repository's comments, checked against the code.      *)

ValidBranch(b) ==
    \E s \in UNION {[1..k -> Blocks \ Bad] : k \in 1..(Height[b] + 1)} :
        /\ s[1] = Genesis /\ s[Len(s)] = b
        /\ \A i \in 2..Len(s) : Parent[s[i]] = s[i - 1]

\* process.go:230, "the block of greater total difficulty is preferred": among
\* the branches that execute, the view is on one of the heaviest.
HeaviestValidPreferred ==
    stage = "free" => \A b \in index : ValidBranch(b) => td[b] <= td[Tip]

\* chainview.go:17-18, the view reaches "from its tip back to the genesis
\* block".
ViewReachesGenesis == best # <<>> /\ best[1] = Genesis

===============================================================================
