-------------------------------- MODULE TxFlow --------------------------------
(***************************************************************************)
(* The life of a transaction in one node: the mempool accepts it, the      *)
(* proof-of-work miner puts it into a block, block processing connects or  *)
(* detaches the block and tells mempool and consensus over the message     *)
(* queue.  Four loops run concurrently: the mempool's, the consensus       *)
(* client's, the miner's and the holder of chainLock.                      *)
(*                                                                         *)
(* A topic of the queue has a high and a low channel.  Added blocks and    *)
(* requests go by the high one and detached blocks by the low one, so they *)
(* overtake one another; the subscriber prefers the high channel but may   *)
(* have looked at it before the message came, so either head may be next.  *)
(*                                                                         *)
(* A block is the branch it ends: the sequence of the blocks from the      *)
(* first after genesis up to itself, of which only the transactions and    *)
(* the maker matter.  The genesis block is <<>>, the parent is the front   *)
(* and the height the length.  Every block has the same difficulty         *)
(* (difficultyBits), so the longer branch is the heavier.                  *)
(***************************************************************************)
EXTENDS Integers, Sequences, SequencesExt, FiniteSets

CONSTANTS
    Txs,            \* transactions
    Bad,            \* those whose execution in a block fails
    PeerTxs,        \* contents of the blocks peers send
    PoolCacheSize,  \* capacity of the mempool
    MaxPeerBlocks,  \* bound on blocks from peers
    MaxSubmits      \* bound on submissions

ASSUME FlowAssumption ==
    /\ IsFiniteSet(Txs)
    /\ Bad \subseteq Txs /\ PeerTxs \subseteq SUBSET Txs
    /\ PoolCacheSize \in Nat /\ MaxPeerBlocks \in Nat /\ MaxSubmits \in Nat

VARIABLES
    \* block processing
    main,     \* tip of the best chain
    index,    \* the other known blocks a peer may build on
    job,      \* the branch the holder of chainLock works at, off when it has
              \* detached a block for it
    \* message queue
    high, low,
    \* mempool
    pool,     \* transactions in the cache
    mheight,  \* height of mem.header
    checked,  \* submissions between the duplicate check and PushTx
    \* consensus client and miner
    current,  \* currentBlock
    pc,       \* where CreateBlock is
    base,     \* lastBlock of this round; after the write, the block written
    mtxs,     \* transactions of this round; after the write, those to delete
    \* history
    accepted, \* transactions the mempool took
    undone,   \* transactions of detached blocks
    stopped,  \* a reorganisation that detached blocks ended at one that failed
    peers, submits

chainVars   == <<main, index, job, undone, stopped>>
queueVars   == <<high, low>>
mempoolVars == <<pool, mheight, checked, accepted>>
minerVars   == <<pc, base, mtxs>>
vars == <<chainVars, queueVars, mempoolVars, current, minerVars, peers, submits>>

Topics == {"mempool", "consensus"}
Job(k, b) == [kind |-> k, to |-> b, off |-> FALSE]
Idle == Job("none", <<>>)

\* A block's place in a branch; own numbers the blocks of this node, 0 is a
\* peer's.
Entries == [own : Nat, txs : SUBSET Txs]
TxsOf(b) == Last(b).txs
OnChain(b) == UNION {b[i].txs : i \in DOMAIN b}

Message(type, b) == [type |-> type, block |-> b]

\* A call to the topic that is answered after this returns only when the added
\* blocks announced before have been taken in.
AddsTaken(topic) == \A i \in DOMAIN high[topic] : high[topic][i].type # "add"

Init ==
    /\ main = <<>> /\ index = {} /\ job = Idle
    /\ high = [t \in Topics |-> <<>>] /\ low = [t \in Topics |-> <<>>]
    /\ pool = {} /\ mheight = 0 /\ checked = {}
    /\ current = <<>> /\ pc = "idle" /\ base = <<>> /\ mtxs = {}
    /\ accepted = {} /\ undone = {} /\ stopped = FALSE
    /\ peers = 0 /\ submits = 0

-------------------------------------------------------------------------------
(* Block processing.  Its own order is the subject of BlockChain.          *)

\* connectBestChain: a block on the tip, or one whose branch is heavier or
\* wins a tie, is worked at; any other is a side block.
Better(b) == Front(b) = main \/ Len(b) > Len(main)
MayTie(b) == Front(b) # main /\ Len(b) = Len(main)

\* A peer's block whose parent is known arrives.
PeerBlock(parent, txs) ==
    LET b == Append(parent, [own |-> 0, txs |-> txs]) IN
    /\ peers < MaxPeerBlocks
    /\ job = Idle
    /\ b \notin index
    /\ peers' = peers + 1
    /\ index' = index \cup {b}
    /\ \/ (Better(b) \/ MayTie(b)) /\ job' = Job("peer", b)
       \/ ~Better(b) /\ UNCHANGED job
    /\ UNCHANGED <<main, undone, stopped, queueVars, mempoolVars, current,
                   minerVars, submits>>

\* disconnectBlock with SendDelBlockEvent: low priority.
DisconnectBlock ==
    /\ job # Idle /\ ~IsPrefix(main, job.to)
    /\ job' = [job EXCEPT !.off = TRUE]
    /\ main' = Front(main)
    /\ undone' = undone \cup TxsOf(main)
    /\ low' = [t \in Topics |-> Append(low[t], Message("del", main))]
    /\ UNCHANGED <<index, stopped, high, mempoolVars, current, minerVars,
                   peers, submits>>

\* The block of the job that comes after the tip.
NextBlock == SubSeq(job.to, 1, Len(main) + 1)

\* The miner starts over.
EndRound == pc' = "idle" /\ base' = <<>> /\ mtxs' = {}

\* Mutant: a block that was not connected directly is not answered.
JobDoneNoReply == job' = Idle /\ UNCHANGED minerVars

\* chainLock is given back.  A block of the miner that did not extend the tip
\* directly is answered with an error, whatever became of it.
JobDone ==
    /\ job' = Idle
    /\ IF job.kind = "own" THEN EndRound ELSE UNCHANGED minerVars

Ready == job # Idle /\ IsPrefix(main, job.to) /\ main # job.to

\* Mutant: a duplicate is looked for in the block only.
ExecutesNoDup(b) == TxsOf(b) # {} /\ TxsOf(b) \cap Bad = {}

\* execBlock and CheckBlock of a block taken as it is: no duplicate of a
\* transaction on the chain, no failed one, not empty.  (A block of this node
\* that a reorganisation would shorten gets another hash and is refused.)
Executes(b) == TxsOf(b) # {} /\ TxsOf(b) \cap (OnChain(main) \cup Bad) = {}

\* SetTip and SendAddBlockEvent: high priority.
SetTip(b) ==
    /\ main' = b
    /\ index' = index \cup {b}
    /\ high' = [t \in Topics |-> Append(high[t], Message("add", b))]

\* Mutant: a block is connected without asking consensus.
ConnectBlockUnchecked ==
    /\ Ready
    /\ Last(NextBlock).own > 0 \/ AddsTaken("mempool")
    /\ Executes(NextBlock)
    /\ SetTip(NextBlock)
    /\ IF NextBlock = job.to THEN JobDone ELSE UNCHANGED <<job, minerVars>>
    /\ UNCHANGED <<undone, stopped, low, mempoolVars, current, peers, submits>>

\* connectBlock.  The mempool is asked about a peer's transactions and
\* consensus about every block.
ConnectBlock ==
    /\ Ready
    /\ Last(NextBlock).own > 0 \/ AddsTaken("mempool")
    /\ AddsTaken("consensus")
    /\ Executes(NextBlock)
    /\ SetTip(NextBlock)
    /\ IF NextBlock = job.to THEN JobDone ELSE UNCHANGED <<job, minerVars>>
    /\ UNCHANGED <<undone, stopped, low, mempoolVars, current, peers, submits>>

ConnectFails ==
    /\ Ready
    /\ ~Executes(NextBlock)
    /\ JobDone
    /\ stopped' = (stopped \/ job.off)
    /\ UNCHANGED <<main, index, undone, queueVars, mempoolVars, current,
                   peers, submits>>

-------------------------------------------------------------------------------
(* The miner's block at block processing.                                  *)

\* Two blocks of this node differ even if they have the same transactions.
Made == {c \in index : Front(c) = base /\ Last(c).own > 0}
OwnBlock(S) == Append(base, [own |-> Cardinality(Made) + 1, txs |-> S])

\* The comparison with the tip at the head of ProcessBlock, without a lock.
SelfCheck ==
    /\ pc = "sent"
    /\ IF base = main THEN pc' = "checked" /\ UNCHANGED <<base, mtxs>> ELSE EndRound
    /\ UNCHANGED <<chainVars, queueVars, mempoolVars, current, peers, submits>>

\* The block extends the tip: duplicates and failed transactions are taken out
\* of a block of this node, and CheckBlock sees what is left.  A changed block
\* has another hash, which meets the target only by chance.
OwnConnects ==
    LET left == mtxs \ (OnChain(main) \cup Bad)
        b    == OwnBlock(left)
    IN
    /\ pc = "checked" /\ job = Idle
    /\ base = main
    /\ AddsTaken("consensus")
    /\ \/ /\ left # {}
          /\ SetTip(b)
          /\ base' = b
          /\ mtxs' = mtxs \ left
          /\ pc' = "written"
       \/ /\ left # mtxs \/ left = {}
          /\ EndRound
          /\ UNCHANGED <<main, index, high>>
    /\ UNCHANGED <<job, undone, stopped, low, mempoolVars, current, peers, submits>>

\* The tip moved between the comparison and the lock.
OwnOffTip ==
    /\ pc = "checked" /\ job = Idle
    /\ base # main
    /\ \/ /\ Better(OwnBlock(mtxs)) \/ MayTie(OwnBlock(mtxs))
          /\ job' = Job("own", OwnBlock(mtxs))
          /\ pc' = "waiting"
          /\ UNCHANGED <<base, mtxs>>
       \/ /\ ~Better(OwnBlock(mtxs))
          /\ EndRound
          /\ UNCHANGED job
    /\ UNCHANGED <<main, index, undone, stopped, queueVars, mempoolVars, current,
                   peers, submits>>

-------------------------------------------------------------------------------
(* The mempool.                                                            *)

\* checkTxRemote up to the duplicate check: the chain is asked.
CheckTxRemote(t) ==
    /\ submits < MaxSubmits
    /\ t \notin checked
    /\ submits' = submits + 1
    /\ checked' = IF t \in OnChain(main) THEN checked ELSE checked \cup {t}
    /\ UNCHANGED <<chainVars, queueVars, pool, mheight, accepted, current,
                   minerVars, peers>>

\* cache.Push of the transactions S one after another: those in the cache are
\* refused, and those that come when it is full.
Pushed(S) ==
    IF Cardinality(pool \cup S) <= PoolCacheSize THEN {pool \cup S}
    ELSE {pool \cup T : T \in {U \in SUBSET (S \ pool) :
             Cardinality(pool) + Cardinality(U) = PoolCacheSize}}

\* PushTx at the end of checkTxRemote; the chain is not asked again.
PushTx(t) ==
    /\ t \in checked
    /\ checked' = checked \ {t}
    /\ pool' \in Pushed({t})
    /\ accepted' = accepted \cup (pool' \ pool)
    /\ UNCHANGED <<chainVars, queueVars, mheight, current, minerVars, peers, submits>>

TakeHigh(topic, type) ==
    /\ high[topic] # <<>> /\ Head(high[topic]).type = type
    /\ high' = [high EXCEPT ![topic] = Tail(@)]

TakeLow(topic) ==
    /\ low[topic] # <<>>
    /\ low' = [low EXCEPT ![topic] = Tail(@)]

\* eventAddBlock.
MempoolAddBlock ==
    LET b == Head(high["mempool"]).block IN
    /\ TakeHigh("mempool", "add")
    /\ mheight' = IF Len(b) > mheight THEN Len(b) ELSE mheight
    /\ pool' = pool \ TxsOf(b)
    /\ UNCHANGED <<chainVars, low, checked, accepted, current, minerVars, peers, submits>>

\* Mutant: the header goes one block back.
MempoolDelBlockStep ==
    LET b == Head(low["mempool"]).block IN
    /\ TakeLow("mempool")
    /\ \/ Len(b) # mheight /\ UNCHANGED <<mheight, pool>>
       \/ Len(b) = mheight /\ mheight' = Len(b) - 1 /\ pool' \in Pushed(TxsOf(b))
    /\ UNCHANGED <<chainVars, high, checked, accepted, current, minerVars, peers, submits>>

\* eventDelBlock: a block that is not at the height of the header is ignored;
\* the new header is the chain's last one of this moment.
MempoolDelBlock ==
    LET b == Head(low["mempool"]).block IN
    /\ TakeLow("mempool")
    /\ \/ Len(b) # mheight /\ UNCHANGED <<mheight, pool>>
       \/ Len(b) = mheight /\ mheight' = Len(main) /\ pool' \in Pushed(TxsOf(b))
    /\ UNCHANGED <<chainVars, high, checked, accepted, current, minerVars, peers, submits>>

\* Mutant: the transactions handed to the miner leave the cache.
EventTxListTakes ==
    /\ TakeHigh("mempool", "list")
    /\ mtxs' = pool /\ pool' = {}
    /\ pc' = "listed"
    /\ UNCHANGED <<chainVars, low, mheight, checked, accepted, current, base, peers, submits>>

\* eventTxList: the answer to the miner, who starts over if it is empty (the
\* node does not mine empty blocks, mineEmpty).
EventTxList ==
    /\ TakeHigh("mempool", "list")
    /\ IF pool = {} THEN EndRound
       ELSE mtxs' = pool /\ pc' = "listed" /\ UNCHANGED base
    /\ UNCHANGED <<chainVars, low, mempoolVars, current, peers, submits>>

\* eventDelTxList.
EventDelTxList ==
    /\ TakeHigh("mempool", "remove")
    /\ pool' = pool \ mtxs
    /\ pc' = "set"
    /\ UNCHANGED <<chainVars, low, mheight, checked, accepted, current, base, mtxs, peers, submits>>

-------------------------------------------------------------------------------
(* The consensus client and the miner.                                     *)

\* SetCurrentBlock in EventLoop.
ConsensusAddBlock ==
    /\ TakeHigh("consensus", "add")
    /\ current' = Head(high["consensus"]).block
    /\ UNCHANGED <<chainVars, low, mempoolVars, minerVars, peers, submits>>

\* Mutant: the parent of the detached block is taken.
ConsensusDelBlockParent ==
    /\ TakeLow("consensus")
    /\ current' = Front(Head(low["consensus"]).block)
    /\ UNCHANGED <<chainVars, high, mempoolVars, minerVars, peers, submits>>

\* UpdateCurrentBlock reads the chain's last block of this moment.
ConsensusDelBlock ==
    /\ TakeLow("consensus")
    /\ current' = main
    /\ UNCHANGED <<chainVars, high, mempoolVars, minerVars, peers, submits>>

\* GetCurrentBlock and RequestTx.
RequestTx ==
    /\ pc = "idle"
    /\ base' = current
    /\ high' = [high EXCEPT !["mempool"] = Append(@, Message("list", <<>>))]
    /\ pc' = "asked"
    /\ UNCHANGED <<chainVars, low, mempoolVars, current, mtxs, peers, submits>>

\* Transactions that are on the chain are left out.
CheckTxDup ==
    /\ pc = "listed"
    /\ IF mtxs \subseteq OnChain(main) THEN EndRound
       ELSE /\ mtxs' = mtxs \ OnChain(main)
            /\ pc' = "nodup"
            /\ UNCHANGED base
    /\ UNCHANGED <<chainVars, queueVars, mempoolVars, current, peers, submits>>

\* preExecBlock drops what fails from the block, not from the mempool; the
\* block may come out empty.  Then mineBlock.
PreExecBlock ==
    /\ pc = "nodup"
    /\ mtxs' = mtxs \ (OnChain(main) \cup Bad)
    /\ pc' = "mined"
    /\ UNCHANGED <<chainVars, queueVars, mempoolVars, current, base, peers, submits>>

\* The last look at currentBlock before WriteBlock sends the block.
SendBlock ==
    /\ pc = "mined"
    /\ IF current = base THEN pc' = "sent" /\ UNCHANGED <<base, mtxs>> ELSE EndRound
    /\ UNCHANGED <<chainVars, queueVars, mempoolVars, current, peers, submits>>

\* WriteBlock has the answer: transactions taken out of the block are deleted
\* from the mempool.
DelMempoolTx ==
    /\ pc = "written"
    /\ IF mtxs = {} THEN pc' = "set" /\ UNCHANGED high
       ELSE /\ high' = [high EXCEPT !["mempool"] = Append(@, Message("remove", <<>>))]
            /\ pc' = "removing"
    /\ UNCHANGED <<chainVars, low, mempoolVars, current, base, mtxs, peers, submits>>

\* The end of WriteBlock: currentBlock is set whatever came since.
SetCurrentBlock ==
    /\ pc = "set"
    /\ current' = base
    /\ EndRound
    /\ UNCHANGED <<chainVars, queueVars, mempoolVars, peers, submits>>

-------------------------------------------------------------------------------

Chain == DisconnectBlock \/ ConnectBlock \/ ConnectFails
OwnWrite == SelfCheck \/ OwnConnects \/ OwnOffTip
Mempool == MempoolAddBlock \/ EventTxList \/ EventDelTxList
Consensus == ConsensusAddBlock
Miner == RequestTx \/ CheckTxDup \/ PreExecBlock \/ SendBlock \/ DelMempoolTx \/ SetCurrentBlock

Next ==
    \/ \E p \in index \cup {<<>>}, S \in PeerTxs : PeerBlock(p, S)
    \/ \E t \in Txs : CheckTxRemote(t)
    \/ \E t \in Txs : PushTx(t)
    \/ Chain \/ OwnWrite
    \/ Mempool \/ MempoolDelBlock
    \/ Consensus \/ ConsensusDelBlock
    \/ Miner

Spec == Init /\ [][Next]_vars

\* Every loop goes on while it has something to do.
FairSpec ==
    /\ Spec
    /\ WF_vars(Chain) /\ WF_vars(OwnWrite)
    /\ WF_vars(Mempool) /\ WF_vars(MempoolDelBlock)
    /\ WF_vars(Consensus) /\ WF_vars(ConsensusDelBlock)
    /\ WF_vars(Miner)

-------------------------------------------------------------------------------
(* What the specification promises.                                        *)

Blocks == Seq(Entries)
Messages == [type : {"add", "del", "list", "remove"}, block : Blocks]

\* Type invariant, with the capacity of the cache.
TypeOK ==
    /\ main \in Blocks /\ current \in Blocks
    /\ index \subseteq Blocks /\ IsFiniteSet(index)
    /\ job \in [kind : {"none", "own", "peer"}, to : Blocks, off : BOOLEAN]
    /\ high \in [Topics -> Seq(Messages)] /\ low \in [Topics -> Seq(Messages)]
    /\ Len(high["consensus"]) <= 1
    /\ pool \subseteq Txs /\ Cardinality(pool) <= PoolCacheSize
    /\ mheight \in Nat
    /\ checked \subseteq Txs
    /\ pc \in {"idle", "asked", "listed", "nodup", "mined", "sent", "checked",
               "waiting", "written", "removing", "set"}
    /\ base \in Blocks
    /\ mtxs \subseteq Txs /\ accepted \subseteq Txs /\ undone \subseteq Txs
    /\ stopped \in BOOLEAN
    /\ peers \in 0..MaxPeerBlocks /\ submits \in 0..MaxSubmits

\* No transaction is twice on a chain that was ever the best one.
TxOnce ==
    \A i, j \in DOMAIN main : i # j => main[i].txs \cap main[j].txs = {}

\* A transaction the mempool took is on the chain or still in the cache, unless
\* a block that held it was detached.
Kept == accepted \ Bad \subseteq pool \cup OnChain(main) \cup undone

\* Why: an added block the mempool has not heard of is on the chain or was
\* detached since, and so is what WriteBlock has the mempool delete; a request
\* of the miner is alone in the queue and belongs to the step he is at.
QueueInv ==
    /\ \A t \in Topics :
          /\ \A i \in DOMAIN high[t] :
                high[t][i].type = "add" => high[t][i].block # <<>>
          /\ \A i \in DOMAIN low[t] : low[t][i].block # <<>>
    /\ \A i \in DOMAIN high["consensus"] : high["consensus"][i].type = "add"
    /\ \A i \in DOMAIN high["mempool"] :
          /\ high["mempool"][i].type = "list" => pc = "asked"
          /\ high["mempool"][i].type = "remove" => pc = "removing"
          /\ high["mempool"][i].type # "del"
    /\ \A i, j \in DOMAIN high["mempool"] :
          high["mempool"][i].type # "add" /\ high["mempool"][j].type # "add" => i = j
    /\ job # Idle => job.to # <<>>
    /\ job.kind = "own" => pc = "waiting"

Gone == OnChain(main) \cup undone

LeavingInv ==
    /\ \A i \in DOMAIN high["mempool"] :
          high["mempool"][i].type = "add" => TxsOf(high["mempool"][i].block) \subseteq Gone
    /\ pc \in {"written", "removing"} => mtxs \subseteq Bad \cup Gone

FlowInv == TypeOK /\ QueueInv /\ LeavingInv /\ TxOnce /\ Kept

\* Nothing is under way between the loops.
Quiet ==
    /\ job = Idle
    /\ \A t \in Topics : low[t] = <<>> /\ AddsTaken(t)

\* A block of this node.
Own(b) == b # <<>> /\ Last(b).own > 0

\* When the announcements are taken in, the miner builds on the tip, or on a
\* block of its own that WriteBlock set too late, or a reorganisation stopped.
BuildsOnTip ==
    Quiet => \/ current = main
             \/ stopped
             \/ Own(current)

\* And the header the mempool checks against has the height of the chain.
HeaderSettles == Quiet => mheight = Len(main) \/ stopped

\* Why: no message names a block above the branch that is worked at, and the
\* last block connected was announced; whatever waits, taking it in leaves the
\* header at the tip.
Adds(q) == {q[i].block : i \in {j \in DOMAIN q : q[j].type = "add"}}

Goal == IF job.off THEN Len(job.to) ELSE Len(main)

HeaderInv ==
    /\ job # Idle => Len(main) <= Len(job.to)
    /\ \/ stopped
       \/ /\ mheight <= Goal
          /\ \A b \in Adds(high["mempool"]) : Len(b) <= Goal
          /\ ~job.off => \/ mheight = Len(main)
                         \/ \E b \in Adds(high["mempool"]) : Len(b) = Len(main)

\* Why: what WriteBlock is about to set as currentBlock is the miner's, and
\* consensus is at the tip or has a message that will take it there.
WrittenOwn == pc \in {"written", "removing", "set"} => Own(base)

Told ==
    ~job.off /\ ~stopped =>
        /\ Adds(high["consensus"]) \subseteq {main}
        /\ Adds(high["consensus"]) = {} /\ low["consensus"] = <<>> =>
              current = main \/ Own(current)

TipInv == WrittenOwn /\ Told

\* A detached block's transactions are back in the mempool, or in another block.
DetachedKept == Quiet => undone \subseteq pool \cup OnChain(main)

\* Again and again every transaction in the mempool that can be executed is in
\* a block, unless the miner is left with a block that is not the tip.
Mined ==
    []<>(\/ pool \ Bad \subseteq OnChain(main)
         \/ Quiet /\ current # main)
===============================================================================
