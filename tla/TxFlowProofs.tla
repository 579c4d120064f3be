----------------------------- MODULE TxFlowProofs -----------------------------
(***************************************************************************)
(* For any transactions, capacity and blocks of peers: no transaction is   *)
(* twice on the chain, none the mempool took disappears unless a block     *)
(* with it was detached, and when the announcements are taken in, the      *)
(* mempool's header is at the chain's height and the miner at its tip.     *)
(***************************************************************************)
EXTENDS TxFlow, FiniteSetTheorems, SequenceTheorems, TLAPS

-------------------------------------------------------------------------------
(* Blocks as sequences.                                                    *)

\* A block on top of another.
LEMMA AppendBlock ==
  ASSUME NEW b \in Blocks, NEW e \in Entries
  PROVE  /\ Append(b, e) \in Blocks /\ Append(b, e) # <<>>
         /\ Last(Append(b, e)) = e
         /\ Len(Append(b, e)) = Len(b) + 1
         /\ TxsOf(Append(b, e)) = e.txs
         /\ OnChain(Append(b, e)) = OnChain(b) \cup e.txs
  <1> DEFINE c == Append(b, e)
  <1>1. /\ c \in Blocks /\ Len(c) = Len(b) + 1 /\ Len(b) \in Nat
        /\ c[Len(b) + 1] = e
        /\ \A i \in 1..Len(b) : c[i] = b[i]
    BY DEF Blocks
  <1>2. DOMAIN b = 1..Len(b) /\ DOMAIN c = 1..(Len(b) + 1)
    BY <1>1 DEF Blocks
  <1> HIDE DEF c
  <1>3. OnChain(c) = OnChain(b) \cup e.txs
    <2>1. ASSUME NEW x \in OnChain(c) PROVE x \in OnChain(b) \cup e.txs
      BY <2>1, <1>1, <1>2 DEF OnChain
    <2>2. ASSUME NEW x \in OnChain(b) PROVE x \in OnChain(c)
      BY <2>2, <1>1, <1>2 DEF OnChain
    <2>3. ASSUME NEW x \in e.txs PROVE x \in OnChain(c)
      BY <2>3, <1>1, <1>2 DEF OnChain
    <2>. QED BY <2>1, <2>2, <2>3
  <1>4. c # <<>>
    BY <1>1
  <1>5. Last(c) = e
    BY <1>1 DEF Last
  <1>. QED BY <1>1, <1>3, <1>4, <1>5 DEF c, TxsOf

\* A block is its last entry on top of its parent.
LEMMA FrontBlock ==
  ASSUME NEW b \in Blocks, b # <<>>
  PROVE  /\ Front(b) \in Blocks /\ Last(b) \in Entries
         /\ b = Append(Front(b), Last(b))
         /\ Len(Front(b)) = Len(b) - 1
         /\ \A i \in 1..(Len(b) - 1) : Front(b)[i] = b[i]
         /\ OnChain(b) = OnChain(Front(b)) \cup TxsOf(b)
         /\ TxsOf(b) \subseteq Txs
  <1>1. /\ Front(b) \in Blocks /\ Last(b) \in Entries
        /\ Len(Front(b)) = Len(b) - 1
        /\ \A i \in 1..(Len(b) - 1) : Front(b)[i] = b[i]
    <2>1. Len(b) \in Nat \ {0} /\ \A i \in 1..Len(b) : b[i] \in Entries
      BY DEF Blocks
    <2>2. Last(b) \in Entries
      BY <2>1 DEF Last
    <2>3. Len(b) - 1 \in Nat /\ \A i \in 1..(Len(b) - 1) : i \in 1..Len(b)
      BY <2>1
    <2>4. b \in Seq(Entries)
      BY DEF Blocks
    <2>5. /\ SubSeq(b, 1, Len(b) - 1) \in Seq(Entries)
          /\ Len(SubSeq(b, 1, Len(b) - 1)) = Len(b) - 1
          /\ \A i \in 1..(Len(b) - 1) : SubSeq(b, 1, Len(b) - 1)[i] = b[i]
      <3> DEFINE n == Len(b) - 1
      <3>1. n \in Int /\ 1 \in Int /\ \A i \in 1..n : b[i] \in Entries
        BY <2>1, <2>3
      <3> HIDE DEF n
      <3>2. /\ SubSeq(b, 1, n) \in Seq(Entries)
            /\ Len(SubSeq(b, 1, n)) = IF 1 <= n THEN n - 1 + 1 ELSE 0
            /\ \A i \in 1..(n - 1 + 1) : SubSeq(b, 1, n)[i] = b[1 + i - 1]
        BY <3>1, SubSeqProperties
      <3>3. n \in Nat
        BY <2>3 DEF n
      <3>4. /\ Len(SubSeq(b, 1, n)) = n
            /\ \A i \in 1..n : SubSeq(b, 1, n)[i] = b[i]
        BY <3>2, <3>3
      <3>. QED BY <3>2, <3>4 DEF n
    <2>. QED BY <2>2, <2>5 DEF Front, Blocks
  <1>2. b = Append(Front(b), Last(b))
    <2>1. Append(Front(b), Last(b)) \in Blocks /\ Len(b) \in Nat \ {0}
      BY <1>1, AppendBlock DEF Blocks
    <2>2. /\ Len(Append(Front(b), Last(b))) = Len(b)
          /\ \A i \in 1..Len(b) :
                Append(Front(b), Last(b))[i] = IF i = Len(b) THEN Last(b) ELSE Front(b)[i]
      BY <1>1, <2>1 DEF Blocks
    <2>3. \A i \in 1..Len(b) : Append(Front(b), Last(b))[i] = b[i]
      BY <2>2, <1>1, <2>1 DEF Last
    <2>4. \A s, t \in Blocks : Len(s) = Len(t) /\ (\A i \in 1..Len(s) : s[i] = t[i]) => s = t
      BY DEF Blocks
    <2>. QED BY <2>1, <2>2, <2>3, <2>4
  <1>3. OnChain(Append(Front(b), Last(b))) = OnChain(Front(b)) \cup Last(b).txs
    BY <1>1, AppendBlock
  <1>4. TxsOf(b) = Last(b).txs /\ TxsOf(b) \subseteq Txs
    BY <1>1 DEF TxsOf, Entries
  <1>. QED BY <1>1, <1>2, <1>3, <1>4

\* What the holder of chainLock connects is an entry on top of the tip.
LEMMA NextIsAppend ==
  ASSUME main \in Blocks, job.to \in Blocks, Ready
  PROVE  /\ Len(main) < Len(job.to)
         /\ job.to[Len(main) + 1] \in Entries
         /\ NextBlock = Append(main, job.to[Len(main) + 1])
  <1> DEFINE to == job.to
             n == Len(main)
  <1>1. /\ n \in Nat /\ Len(to) \in Nat /\ n <= Len(to)
        /\ SubSeq(main, 1, n) = SubSeq(to, 1, n) /\ main # to
    BY DEF Ready, IsPrefix, Blocks
  <1>2. \A i \in 1..n : main[i] = to[i]
    <2>1. \A i \in 1..n : SubSeq(main, 1, n)[i] = main[i] /\ SubSeq(to, 1, n)[i] = to[i]
      BY <1>1 DEF Blocks
    <2>. QED BY <2>1, <1>1
  <1>3. n < Len(to)
    <2>1. SUFFICES ASSUME n = Len(to) PROVE FALSE
      BY <1>1
    <2>2. main = to
      BY <1>2, <2>1 DEF Blocks
    <2>. QED BY <2>2, <1>1
  <1>4. to[n + 1] \in Entries
    BY <1>3, <1>1 DEF Blocks
  <1>5. SubSeq(to, 1, n + 1) = Append(main, to[n + 1])
    <2>1. /\ SubSeq(to, 1, n + 1) \in Blocks /\ Len(SubSeq(to, 1, n + 1)) = n + 1
          /\ \A i \in 1..(n + 1) : SubSeq(to, 1, n + 1)[i] = to[i]
      BY <1>1, <1>3 DEF Blocks
    <2>2. /\ Append(main, to[n + 1]) \in Blocks /\ Len(Append(main, to[n + 1])) = n + 1
          /\ \A i \in 1..(n + 1) :
                Append(main, to[n + 1])[i] = IF i = n + 1 THEN to[n + 1] ELSE main[i]
      BY <1>1, <1>4 DEF Blocks
    <2>3. \A i \in 1..(n + 1) : SubSeq(to, 1, n + 1)[i] = Append(main, to[n + 1])[i]
      BY <2>1, <2>2, <1>2, <1>1
    <2>4. \A s, t \in Blocks : Len(s) = Len(t) /\ (\A i \in 1..Len(s) : s[i] = t[i]) => s = t
      BY DEF Blocks
    <2>. QED BY <2>1, <2>2, <2>3, <2>4
  <1>. QED BY <1>3, <1>4, <1>5 DEF NextBlock

\* A tip that is detached has something to detach.
LEMMA NotPrefix ==
  ASSUME main \in Blocks, job.to \in Blocks, ~IsPrefix(main, job.to)
  PROVE  main # <<>>
  BY DEF IsPrefix, Blocks

-------------------------------------------------------------------------------
(* Queues.                                                                 *)

\* A message at the end of a queue.
LEMMA AppendQueue ==
  ASSUME NEW q \in Seq(Messages), NEW m \in Messages
  PROVE  /\ Append(q, m) \in Seq(Messages)
         /\ Len(Append(q, m)) = Len(q) + 1
         /\ DOMAIN Append(q, m) = 1..(Len(q) + 1)
         /\ DOMAIN q = 1..Len(q) /\ Len(q) \in Nat
         /\ Append(q, m)[Len(q) + 1] = m
         /\ \A i \in DOMAIN q : Append(q, m)[i] = q[i]
  OBVIOUS

\* The first message is taken.
LEMMA TailQueue ==
  ASSUME NEW q \in Seq(Messages), q # <<>>
  PROVE  /\ Head(q) \in Messages /\ Head(q) = q[1] /\ 1 \in DOMAIN q
         /\ Tail(q) \in Seq(Messages)
         /\ Len(Tail(q)) = Len(q) - 1
         /\ \A i \in DOMAIN Tail(q) : i + 1 \in DOMAIN q /\ Tail(q)[i] = q[i + 1] /\ i \in Nat \ {0}
  OBVIOUS

\* The cache takes what fits.
LEMMA PushedFits ==
  ASSUME pool \subseteq Txs, Cardinality(pool) <= PoolCacheSize,
         NEW S \in SUBSET Txs, NEW p \in Pushed(S)
  PROVE  /\ p \subseteq Txs /\ pool \subseteq p
         /\ Cardinality(p) <= PoolCacheSize
  <1>1. CASE Cardinality(pool \cup S) <= PoolCacheSize
    BY <1>1 DEF Pushed
  <1>2. CASE ~(Cardinality(pool \cup S) <= PoolCacheSize)
    <2>1. PICK U \in SUBSET (S \ pool) :
             /\ Cardinality(pool) + Cardinality(U) = PoolCacheSize
             /\ p = pool \cup U
      BY <1>2 DEF Pushed
    <2>2. IsFiniteSet(pool) /\ IsFiniteSet(U)
      BY FlowAssumption, FS_Subset, <2>1
    <2>3. /\ Cardinality(pool \cup U)
                = Cardinality(pool) + Cardinality(U) - Cardinality(pool \cap U)
          /\ IsFiniteSet(pool \cap U)
      BY <2>2, FS_Union, FS_Intersection
    <2>4. pool \cap U = {}
      BY <2>1
    <2>5. Cardinality(pool \cap U) = 0
      BY <2>4, FS_EmptySet
    <2>6. Cardinality(pool) \in Nat /\ Cardinality(U) \in Nat
      BY <2>2, FS_CardinalityType
    <2>. QED BY <2>1, <2>3, <2>5, <2>6, FlowAssumption
  <1>. QED BY <1>1, <1>2

\* Taking transactions out keeps the bound.
LEMMA PoolShrinks ==
  ASSUME pool \subseteq Txs, Cardinality(pool) <= PoolCacheSize, NEW S
  PROVE  pool \ S \subseteq Txs /\ Cardinality(pool \ S) <= PoolCacheSize
  <1>1. IsFiniteSet(pool)
    BY FlowAssumption, FS_Subset
  <1>2. /\ IsFiniteSet(pool \ S) /\ Cardinality(pool \ S) <= Cardinality(pool)
    BY <1>1, FS_Subset
  <1>3. Cardinality(pool) \in Nat /\ Cardinality(pool \ S) \in Nat
    BY <1>1, <1>2, FS_CardinalityType
  <1>. QED BY <1>2, <1>3, FlowAssumption

-------------------------------------------------------------------------------
(* The invariant and the steps.                                            *)

PCs == {"idle", "asked", "listed", "nodup", "mined", "sent", "checked",
        "waiting", "written", "removing", "set"}
Jobs == [kind : {"none", "own", "peer"}, to : Blocks, off : BOOLEAN]

\* Steps of the miner that send nothing, and his error returns.
LEMMA MinerStep ==
  ASSUME FlowInv,
         UNCHANGED <<chainVars, queueVars, mempoolVars, peers, submits>>,
         pc \notin {"asked", "removing", "waiting"},
         pc' \in PCs \ {"written", "removing"},
         base' \in Blocks, mtxs' \subseteq Txs, current' \in Blocks
  PROVE  FlowInv'
  <1> USE DEF FlowInv, chainVars, queueVars, mempoolVars
  <1>1. TypeOK'
    BY DEF TypeOK, PCs, Blocks, Entries, Messages, Topics
  <1>2. QueueInv'
    BY DEF QueueInv, Topics
  <1>3. LeavingInv' /\ TxOnce' /\ Kept'
    BY DEF LeavingInv, TxOnce, Kept, Gone, OnChain, TxsOf, Last
  <1>. QED BY <1>1, <1>2, <1>3

\* A queue without messages.
LEMMA EmptyQueue ==
  ASSUME NEW q \in Seq(Messages), DOMAIN q = {}
  PROVE  Len(q) = 0
  <1>1. DOMAIN q = 1..Len(q) /\ Len(q) \in Nat
    OBVIOUS
  <1>2. 1 \notin 1..Len(q)
    BY <1>1
  <1>. QED BY <1>1, <1>2

\* A block becomes the tip and is announced.
LEMMA TipStep ==
  ASSUME FlowInv, NEW e \in Entries, SetTip(Append(main, e)),
         e.txs \cap OnChain(main) = {},
         AddsTaken("consensus"),
         UNCHANGED <<undone, stopped, low, mempoolVars, current, peers, submits>>,
         job' \in Jobs, job' # Idle => job'.to # <<>>,
         job'.kind = "own" => pc' = "waiting",
         pc' \in PCs, pc' = pc \/ pc \notin {"asked", "removing"},
         base' \in Blocks, mtxs' \subseteq Txs,
         pc' \in {"written", "removing"} => mtxs' \subseteq Bad \cup Gone \cup e.txs
  PROVE  FlowInv'
  <1> DEFINE b == Append(main, e)
             m == Message("add", b)
  <1>0. main \in Blocks /\ TypeOK /\ QueueInv /\ LeavingInv /\ TxOnce /\ Kept
    BY DEF FlowInv, TypeOK
  <1>1. /\ b \in Blocks /\ b # <<>> /\ Len(b) = Len(main) + 1
        /\ TxsOf(b) = e.txs
        /\ OnChain(b) = OnChain(main) \cup e.txs
    BY <1>0, AppendBlock
  <1>2. main' = b /\ index' = index \cup {b}
        /\ high' = [t \in Topics |-> Append(high[t], m)]
    BY DEF SetTip
  <1>3. m \in Messages /\ m.type = "add" /\ m.block = b
    BY <1>1 DEF Message, Messages
  <1>4. \A i \in 1..Len(main) : b[i] = main[i]
    BY <1>0 DEF Blocks
  <1>5. b[Len(main) + 1] = e /\ DOMAIN b = 1..(Len(main) + 1)
        /\ DOMAIN main = 1..Len(main) /\ Len(main) \in Nat
    BY <1>0, <1>1 DEF Blocks
  <1> HIDE DEF b, m
  <1>6. \A t \in Topics : high[t] \in Seq(Messages) /\ high'[t] = Append(high[t], m)
    BY <1>0, <1>2 DEF TypeOK
  <1>7. \A t \in Topics :
           /\ Append(high[t], m) \in Seq(Messages)
           /\ Len(Append(high[t], m)) = Len(high[t]) + 1
           /\ DOMAIN Append(high[t], m) = 1..(Len(high[t]) + 1)
           /\ DOMAIN high[t] = 1..Len(high[t]) /\ Len(high[t]) \in Nat
           /\ Append(high[t], m)[Len(high[t]) + 1] = m
           /\ \A i \in DOMAIN high[t] : Append(high[t], m)[i] = high[t][i]
    BY <1>6, <1>3, AppendQueue
  <1>8. \A t \in Topics :
           /\ DOMAIN high'[t] = 1..(Len(high[t]) + 1)
           /\ \A i \in DOMAIN high'[t] :
                 \/ i \in DOMAIN high[t] /\ high'[t][i] = high[t][i]
                 \/ i = Len(high[t]) + 1 /\ high'[t][i] = m
    BY <1>6, <1>7
  <1>9. TypeOK'
    <2>1. Len(high["consensus"]) = 0
      <3>1. high["consensus"] \in Seq(Messages)
        BY <1>6 DEF Topics
      <3>2. \A i \in DOMAIN high["consensus"] : high["consensus"][i].type = "add"
        BY <1>0 DEF QueueInv
      <3>3. \A i \in DOMAIN high["consensus"] : high["consensus"][i].type # "add"
        BY DEF AddsTaken
      <3>4. DOMAIN high["consensus"] = {}
        BY <3>2, <3>3
      <3>. QED BY ONLY <3>1, <3>4, EmptyQueue
    <2>2. high' \in [Topics -> Seq(Messages)] /\ Len(high'["consensus"]) <= 1
      BY <2>1, <1>2, <1>6, <1>7 DEF Topics
    <2>3. index' \subseteq Blocks /\ IsFiniteSet(index')
      BY <1>0, <1>1, <1>2, FS_AddElement DEF TypeOK
    <2>. QED BY <2>2, <2>3, <1>0, <1>1, <1>2 DEF TypeOK, mempoolVars, PCs, Jobs
  <1>10. QueueInv'
    <2>1. \A t \in Topics :
             /\ \A i \in DOMAIN high'[t] :
                   high'[t][i].type = "add" => high'[t][i].block # <<>>
             /\ \A i \in DOMAIN low'[t] : low'[t][i].block # <<>>
      BY <1>8, <1>3, <1>1, <1>0 DEF QueueInv
    <2>2. \A i \in DOMAIN high'["consensus"] : high'["consensus"][i].type = "add"
      BY <1>8, <1>3, <1>0 DEF QueueInv, Topics
    <2>3. \A i \in DOMAIN high'["mempool"] :
             /\ high'["mempool"][i].type = "list" => pc' = "asked"
             /\ high'["mempool"][i].type = "remove" => pc' = "removing"
             /\ high'["mempool"][i].type # "del"
      BY <1>8, <1>3, <1>0 DEF QueueInv, Topics
    <2>4. \A i, j \in DOMAIN high'["mempool"] :
             high'["mempool"][i].type # "add" /\ high'["mempool"][j].type # "add" => i = j
      BY <1>8, <1>3, <1>0 DEF QueueInv, Topics
    <2>. QED BY <2>1, <2>2, <2>3, <2>4 DEF QueueInv
  <1>11. Gone' = Gone \cup e.txs
    BY <1>1, <1>2 DEF Gone
  <1>12. LeavingInv'
    <2>1. \A i \in DOMAIN high'["mempool"] :
             high'["mempool"][i].type = "add" =>
                TxsOf(high'["mempool"][i].block) \subseteq Gone'
      BY <1>8, <1>3, <1>1, <1>11, <1>0 DEF LeavingInv, Topics
    <2>. QED BY <2>1, <1>11 DEF LeavingInv
  <1>13. TxOnce'
    <2>1. \A i \in 1..Len(main) : main[i].txs \subseteq OnChain(main)
      BY <1>5 DEF OnChain
    <2>2. ASSUME NEW i \in DOMAIN b, NEW j \in DOMAIN b, i # j
          PROVE  b[i].txs \cap b[j].txs = {}
      <3>1. CASE i \in DOMAIN main /\ j \in DOMAIN main
        BY <3>1, <2>2, <1>4, <1>5, <1>0 DEF TxOnce
      <3>2. CASE i = Len(main) + 1 \/ j = Len(main) + 1
        BY <2>1, <2>2, <3>2, <1>4, <1>5
      <3>. QED BY <3>1, <3>2, <1>5
    <2>. QED BY <2>2, <1>2 DEF TxOnce
  <1>14. Kept'
    BY <1>0, <1>1, <1>2 DEF Kept, mempoolVars
  <1>. QED BY <1>9, <1>10, <1>12, <1>13, <1>14 DEF FlowInv

\* Detaching the tip.
LEMMA DisconnectStep ==
  ASSUME FlowInv, DisconnectBlock
  PROVE  FlowInv'
  <1> DEFINE m == Message("del", main)
  <1>0. main \in Blocks /\ job.to \in Blocks /\ TypeOK /\ QueueInv /\ LeavingInv /\ TxOnce /\ Kept
    BY DEF FlowInv, TypeOK
  <1>1. main # <<>>
    BY <1>0, NotPrefix DEF DisconnectBlock
  <1>2. /\ Front(main) \in Blocks /\ Len(Front(main)) = Len(main) - 1
        /\ \A i \in 1..(Len(main) - 1) : Front(main)[i] = main[i]
        /\ OnChain(main) = OnChain(Front(main)) \cup TxsOf(main)
        /\ TxsOf(main) \subseteq Txs
    BY <1>0, <1>1, FrontBlock
  <1>3. /\ main' = Front(main) /\ undone' = undone \cup TxsOf(main)
        /\ low' = [t \in Topics |-> Append(low[t], m)]
        /\ UNCHANGED <<index, stopped, high, mempoolVars, current, minerVars,
                       peers, submits>>
    BY DEF DisconnectBlock
  <1>a. /\ job' \in Jobs /\ job'.kind = job.kind /\ job'.to = job.to /\ job # Idle
    BY <1>0 DEF DisconnectBlock, TypeOK, Jobs
  <1>4. m \in Messages /\ m.block = main
    BY <1>0 DEF Message, Messages
  <1> HIDE DEF m
  <1>5. \A t \in Topics : low[t] \in Seq(Messages) /\ low'[t] = Append(low[t], m)
    BY <1>0, <1>3 DEF TypeOK
  <1>6. \A t \in Topics :
           /\ low'[t] \in Seq(Messages)
           /\ \A i \in DOMAIN low'[t] :
                 \/ i \in DOMAIN low[t] /\ low'[t][i] = low[t][i]
                 \/ i = Len(low[t]) + 1 /\ low'[t][i] = m
    <2>1. \A t \in Topics :
           /\ Append(low[t], m) \in Seq(Messages)
           /\ DOMAIN Append(low[t], m) = 1..(Len(low[t]) + 1)
           /\ DOMAIN low[t] = 1..Len(low[t]) /\ Len(low[t]) \in Nat
           /\ Append(low[t], m)[Len(low[t]) + 1] = m
           /\ \A i \in DOMAIN low[t] : Append(low[t], m)[i] = low[t][i]
      BY <1>5, <1>4, AppendQueue
    <2>2. \A t \in Topics : \A i \in DOMAIN low'[t] :
                 \/ i \in DOMAIN low[t] /\ low'[t][i] = low[t][i]
                 \/ i = Len(low[t]) + 1 /\ low'[t][i] = m
      BY <2>1, <1>5
    <2>3. \A t \in Topics : low'[t] \in Seq(Messages)
      BY <2>1, <1>5
    <2>. QED BY <2>2, <2>3
  <1>7. TypeOK'
    <2>1. low' \in [Topics -> Seq(Messages)]
      BY <1>3, <1>5, <1>6
    <2>. QED BY <2>1, <1>0, <1>2, <1>3, <1>a DEF TypeOK, Jobs, mempoolVars, minerVars
  <1>8. QueueInv'
    <2>1. \A t \in Topics : \A i \in DOMAIN low'[t] : low'[t][i].block # <<>>
      BY <1>0, <1>1, <1>4, <1>6 DEF QueueInv
    <2>. QED BY <2>1, <1>0, <1>3, <1>a DEF QueueInv, minerVars
  <1>9. Gone' = Gone
    BY <1>2, <1>3 DEF Gone
  <1>10. LeavingInv'
    BY <1>0, <1>3, <1>9 DEF LeavingInv, minerVars
  <1>11. TxOnce'
    <2>1. DOMAIN Front(main) = 1..(Len(main) - 1) /\ DOMAIN main = 1..Len(main) /\ Len(main) \in Nat
      BY <1>0, <1>2 DEF Blocks
    <2>. QED BY <2>1, <1>0, <1>2, <1>3 DEF TxOnce
  <1>12. Kept'
    BY <1>0, <1>2, <1>3 DEF Kept, mempoolVars
  <1>. QED BY <1>7, <1>8, <1>10, <1>11, <1>12 DEF FlowInv

\* A job is taken up or given back and nothing else of the chain changes.
LEMMA JobStep ==
  ASSUME FlowInv,
         UNCHANGED <<main, undone, queueVars, mempoolVars, current, submits>>,
         index' \subseteq Blocks, IsFiniteSet(index'),
         stopped' \in BOOLEAN, peers' \in 0..MaxPeerBlocks,
         job' \in Jobs, job' # Idle => job'.to # <<>>,
         job'.kind = "own" => pc' = "waiting",
         \/ UNCHANGED minerVars
         \/ /\ pc \notin {"asked", "removing"}
            /\ pc' \in PCs \ {"written", "removing"}
            /\ base' \in Blocks /\ mtxs' \subseteq Txs
  PROVE  FlowInv'
  <1> USE DEF FlowInv, queueVars, mempoolVars, minerVars
  <1>1. TypeOK'
    BY DEF TypeOK, PCs, Jobs
  <1>2. QueueInv'
    BY DEF QueueInv, Topics
  <1>3. LeavingInv' /\ TxOnce' /\ Kept'
    BY DEF LeavingInv, TxOnce, Kept, Gone
  <1>. QED BY <1>1, <1>2, <1>3

\* The parts of a job are of their types, and giving it back ends the round of
\* a miner who waits.
LEMMA JobGivenBack ==
  ASSUME FlowInv, JobDone
  PROVE  /\ job' = Idle /\ job' \in Jobs /\ job'.kind # "own"
         /\ \/ UNCHANGED minerVars
            \/ /\ pc \notin {"asked", "removing"}
               /\ pc' \in PCs \ {"written", "removing"}
               /\ base' \in Blocks /\ mtxs' \subseteq Txs
  <1>1. <<>> \in Blocks
    BY DEF Blocks
  <1>2. job' = Idle /\ job' \in Jobs /\ job'.kind # "own"
    BY <1>1 DEF JobDone, Idle, Job, Jobs
  <1>3. CASE job.kind = "own"
    BY <1>1, <1>2, <1>3 DEF JobDone, EndRound, FlowInv, QueueInv, PCs
  <1>4. CASE job.kind # "own"
    BY <1>2, <1>4 DEF JobDone
  <1>. QED BY <1>2, <1>3, <1>4

\* A block from a peer.
LEMMA PeerStep ==
  ASSUME FlowInv, NEW p \in index \cup {<<>>}, NEW S \in PeerTxs, PeerBlock(p, S)
  PROVE  FlowInv'
  <1> DEFINE e == [own |-> 0, txs |-> S]
             b == Append(p, e)
  <1>0. TypeOK /\ <<>> \in Blocks
    BY DEF FlowInv, Blocks
  <1>1. TypeOK /\ p \in Blocks /\ e \in Entries
    <2>1. p \in Blocks
      BY <1>0 DEF TypeOK
    <2>2. e \in Entries
      BY FlowAssumption DEF Entries
    <2>. QED BY <1>0, <2>1, <2>2
  <1>2. b \in Blocks /\ b # <<>>
    BY <1>1, AppendBlock
  <1>3. /\ peers < MaxPeerBlocks /\ peers' = peers + 1 /\ index' = index \cup {b}
        /\ job' = Job("peer", b) \/ job' = Idle
        /\ UNCHANGED <<main, undone, stopped, queueVars, mempoolVars, current,
                       minerVars, submits>>
    BY DEF PeerBlock
  <1> HIDE DEF b, e
  <1>4. index' \subseteq Blocks /\ IsFiniteSet(index')
    BY <1>1, <1>2, <1>3, FS_AddElement DEF TypeOK
  <1>5. job' \in Jobs /\ job'.kind # "own" /\ (job' # Idle => job'.to # <<>>)
    <2>1. CASE job' = Job("peer", b)
      BY <2>1, <1>2 DEF Jobs, Job
    <2>2. CASE job' = Idle
      BY <2>2, <1>0 DEF Jobs, Idle, Job
    <2>. QED BY <2>1, <2>2, <1>3
  <1>6. stopped' \in BOOLEAN /\ peers' \in 0..MaxPeerBlocks
    BY <1>1, <1>3, FlowAssumption DEF TypeOK
  <1>. QED BY <1>3, <1>4, <1>5, <1>6, JobStep

\* A block of the job that fails.
LEMMA FailStep ==
  ASSUME FlowInv, ConnectFails
  PROVE  FlowInv'
  <1>1. TypeOK
    BY DEF FlowInv
  <1>2. /\ JobDone /\ stopped' = (stopped \/ job.off)
        /\ UNCHANGED <<main, index, undone, queueVars, mempoolVars, current, peers, submits>>
    BY DEF ConnectFails
  <1>3. index' \subseteq Blocks /\ IsFiniteSet(index') /\ stopped' \in BOOLEAN
        /\ peers' \in 0..MaxPeerBlocks
    <2>1. stopped' \in BOOLEAN
      BY <1>2, Zenon
    <2>. QED BY <1>1, <1>2, <2>1 DEF TypeOK
  <1>. QED BY <1>2, <1>3, JobGivenBack, JobStep

\* A block of the job is connected.
LEMMA ConnectStep ==
  ASSUME FlowInv, ConnectBlock
  PROVE  FlowInv'
  <1> DEFINE e == job.to[Len(main) + 1]
  <1>1. TypeOK /\ QueueInv /\ LeavingInv /\ main \in Blocks /\ job.to \in Blocks /\ job \in Jobs
    BY DEF FlowInv, TypeOK, Jobs
  <1>2. Ready
    BY DEF ConnectBlock
  <1>3. e \in Entries /\ NextBlock = Append(main, e)
    BY <1>1, <1>2, NextIsAppend
  <1>4. /\ SetTip(Append(main, e)) /\ AddsTaken("consensus") /\ Executes(Append(main, e))
        /\ IF NextBlock = job.to THEN JobDone ELSE UNCHANGED <<job, minerVars>>
        /\ UNCHANGED <<undone, stopped, low, mempoolVars, current, peers, submits>>
    BY <1>3 DEF ConnectBlock
  <1>5. e.txs \cap OnChain(main) = {}
    BY <1>1, <1>3, <1>4, AppendBlock DEF Executes
  <1>6. CASE NextBlock = job.to
    <2>1. /\ job' = Idle /\ job' \in Jobs /\ job'.kind # "own"
          /\ \/ UNCHANGED minerVars
             \/ /\ pc \notin {"asked", "removing"}
                /\ pc' \in PCs \ {"written", "removing"}
                /\ base' \in Blocks /\ mtxs' \subseteq Txs
      BY <1>4, <1>6, JobGivenBack
    <2>2. /\ pc' \in PCs /\ (pc' = pc \/ pc \notin {"asked", "removing"})
          /\ base' \in Blocks /\ mtxs' \subseteq Txs
          /\ pc' \in {"written", "removing"} => mtxs' \subseteq Bad \cup Gone \cup e.txs
      BY <2>1, <1>1 DEF TypeOK, PCs, LeavingInv, minerVars
    <2> HIDE DEF e
    <2>. QED BY <1>3, <1>4, <1>5, <2>1, <2>2, TipStep
  <1>7. CASE NextBlock # job.to
    <2>1. UNCHANGED <<job, minerVars>>
      BY <1>4, <1>7
    <2>2. /\ pc' \in PCs /\ pc' = pc
          /\ base' \in Blocks /\ mtxs' \subseteq Txs
          /\ pc' \in {"written", "removing"} => mtxs' \subseteq Bad \cup Gone \cup e.txs
          /\ job' \in Jobs /\ (job' # Idle => job'.to # <<>>)
          /\ job'.kind = "own" => pc' = "waiting"
      BY <2>1, <1>1 DEF TypeOK, PCs, LeavingInv, QueueInv, minerVars
    <2> HIDE DEF e
    <2>. QED BY <1>3, <1>4, <1>5, <2>2, TipStep
  <1>. QED BY <1>6, <1>7

\* A block of the miner is a block.
LEMMA OwnIsBlock ==
  ASSUME FlowInv, NEW S \in SUBSET Txs
  PROVE  /\ [own |-> Cardinality(Made) + 1, txs |-> S] \in Entries
         /\ OwnBlock(S) \in Blocks /\ OwnBlock(S) # <<>>
  <1>1. IsFiniteSet(Made)
    BY FS_Subset DEF FlowInv, TypeOK, Made
  <1>2. Cardinality(Made) \in Nat
    BY <1>1, FS_CardinalityType
  <1>3. [own |-> Cardinality(Made) + 1, txs |-> S] \in Entries
    BY <1>2 DEF Entries
  <1>4. base \in Blocks
    BY DEF FlowInv, TypeOK
  <1>. QED BY <1>3, <1>4, AppendBlock DEF OwnBlock

\* The miner's block at the tip.
LEMMA OwnConnectsStep ==
  ASSUME FlowInv, OwnConnects
  PROVE  FlowInv'
  <1> DEFINE left == mtxs \ (OnChain(main) \cup Bad)
             e == [own |-> Cardinality(Made) + 1, txs |-> left]
  <1>1. TypeOK /\ QueueInv /\ mtxs \subseteq Txs /\ left \in SUBSET Txs /\ pc = "checked"
    BY DEF FlowInv, TypeOK, OwnConnects
  <1>2. e \in Entries /\ OwnBlock(left) = Append(main, e) /\ OwnBlock(left) \in Blocks
    BY <1>1, OwnIsBlock DEF OwnBlock, OwnConnects
  <1>3. e.txs = left
    OBVIOUS
  <1>4. /\ job = Idle /\ AddsTaken("consensus")
        /\ UNCHANGED <<job, undone, stopped, low, mempoolVars, current, peers, submits>>
    BY DEF OwnConnects
  <1>5. job' \in Jobs /\ job'.kind # "own" /\ job' = Idle
    BY <1>4 DEF Jobs, Idle, Job, Blocks
  <1>6. CASE SetTip(OwnBlock(left)) /\ base' = OwnBlock(left) /\ mtxs' = mtxs \ left /\ pc' = "written"
    <2>1. /\ e.txs \cap OnChain(main) = {}
          /\ mtxs' \subseteq Bad \cup Gone \cup e.txs /\ mtxs' \subseteq Txs
      BY <1>6, <1>1, <1>3 DEF Gone
    <2>2. SetTip(Append(main, e)) /\ base' \in Blocks
      BY <1>6, <1>2
    <2>3. pc' \in PCs /\ pc \notin {"asked", "removing"}
      BY <1>6, <1>1 DEF PCs
    <2> HIDE DEF e, left
    <2>. QED BY <1>2, <1>4, <1>5, <2>1, <2>2, <2>3, TipStep
  <1>7. CASE EndRound /\ UNCHANGED <<main, index, high>>
    <2>1. /\ pc \notin {"asked", "removing", "waiting"}
          /\ pc' \in PCs \ {"written", "removing"}
          /\ base' \in Blocks /\ mtxs' \subseteq Txs
      BY <1>7, <1>1 DEF EndRound, PCs, Blocks
    <2>2. current' \in Blocks
      BY <1>1, <1>4 DEF TypeOK
    <2>3. UNCHANGED <<chainVars, queueVars, mempoolVars, peers, submits>>
      BY <1>4, <1>7 DEF chainVars, queueVars
    <2>. QED BY <2>1, <2>2, <2>3, MinerStep
  <1>8. \/ SetTip(OwnBlock(left)) /\ base' = OwnBlock(left) /\ mtxs' = mtxs \ left /\ pc' = "written"
        \/ EndRound /\ UNCHANGED <<main, index, high>>
    BY DEF OwnConnects
  <1>. QED BY <1>6, <1>7, <1>8

\* The miner's block off the tip.
LEMMA OwnOffTipStep ==
  ASSUME FlowInv, OwnOffTip
  PROVE  FlowInv'
  <1> DEFINE b == OwnBlock(mtxs)
  <1>1. TypeOK /\ pc = "checked" /\ job = Idle /\ mtxs \in SUBSET Txs
    BY DEF FlowInv, TypeOK, OwnOffTip
  <1>2. b \in Blocks /\ b # <<>>
    BY <1>1, OwnIsBlock
  <1>3. /\ \/ job' = Job("own", b) /\ pc' = "waiting" /\ UNCHANGED <<base, mtxs>>
           \/ EndRound /\ UNCHANGED job
        /\ UNCHANGED <<main, index, undone, stopped, queueVars, mempoolVars, current,
                       peers, submits>>
    BY DEF OwnOffTip
  <1> HIDE DEF b
  <1>4. /\ index' \subseteq Blocks /\ IsFiniteSet(index') /\ stopped' \in BOOLEAN
        /\ peers' \in 0..MaxPeerBlocks
    BY <1>1, <1>3 DEF TypeOK
  <1>5. /\ job' \in Jobs /\ (job' # Idle => job'.to # <<>>)
        /\ job'.kind = "own" => pc' = "waiting"
        /\ pc \notin {"asked", "removing"} /\ pc' \in PCs \ {"written", "removing"}
        /\ base' \in Blocks /\ mtxs' \subseteq Txs
    <2>1. CASE job' = Job("own", b) /\ pc' = "waiting" /\ UNCHANGED <<base, mtxs>>
      BY <2>1, <1>1, <1>2 DEF Jobs, Job, PCs, TypeOK
    <2>2. CASE EndRound /\ UNCHANGED job
      BY <2>2, <1>1 DEF Jobs, PCs, EndRound, Idle, Job, Blocks
    <2>. QED BY <2>1, <2>2, <1>3
  <1>. QED BY <1>3, <1>4, <1>5, JobStep

-------------------------------------------------------------------------------
(* The subscribers.                                                        *)

\* What a message taken from a high channel leaves.
LEMMA TakenHigh ==
  ASSUME FlowInv, NEW t \in Topics, NEW ty, TakeHigh(t, ty),
         UNCHANGED <<low, job, main, undone>>,
         \/ pc' = pc /\ mtxs' = mtxs
         \/ /\ t = "mempool" /\ ty \in {"list", "remove"}
            /\ pc' \notin {"written", "removing", "asked"}
  PROVE  /\ high' \in [Topics -> Seq(Messages)] /\ Len(high'["consensus"]) <= 1
         /\ Head(high[t]) \in Messages /\ Head(high[t]) = high[t][1] /\ 1 \in DOMAIN high[t]
         /\ QueueInv' /\ LeavingInv'
  <1>0. TypeOK /\ QueueInv /\ LeavingInv
    BY DEF FlowInv
  <1>1. /\ high[t] \in Seq(Messages) /\ high[t] # <<>> /\ Head(high[t]).type = ty
        /\ high' = [high EXCEPT ![t] = Tail(high[t])]
        /\ high \in [Topics -> Seq(Messages)]
    BY <1>0 DEF TakeHigh, TypeOK
  <1>2. /\ Head(high[t]) \in Messages /\ Head(high[t]) = high[t][1] /\ 1 \in DOMAIN high[t]
        /\ Tail(high[t]) \in Seq(Messages)
        /\ Len(Tail(high[t])) = Len(high[t]) - 1
        /\ \A i \in DOMAIN Tail(high[t]) :
              i + 1 \in DOMAIN high[t] /\ Tail(high[t])[i] = high[t][i + 1] /\ i \in Nat \ {0}
    BY <1>1, TailQueue
  <1>3. /\ high'[t] = Tail(high[t])
        /\ \A u \in Topics \ {t} : high'[u] = high[u]
    BY <1>1
  <1>4. /\ high' \in [Topics -> Seq(Messages)]
        /\ Len(high'["consensus"]) <= 1
    <2>1. high' \in [Topics -> Seq(Messages)]
      BY <1>1, <1>2
    <2>2. CASE t = "consensus"
      <3>1. Len(high["consensus"]) \in Nat /\ Len(high["consensus"]) <= 1
        BY <1>0, <1>1, <2>2 DEF TypeOK
      <3>. QED BY <3>1, <2>1, <2>2, <1>2, <1>3
    <2>3. CASE t # "consensus"
      BY <2>1, <2>3, <1>0, <1>3 DEF TypeOK, Topics
    <2>. QED BY <2>1, <2>2, <2>3
  <1>5. \A u \in Topics : \A i \in DOMAIN high'[u] :
           \E j \in DOMAIN high[u] : high'[u][i] = high[u][j]
    <2>1. \A i \in DOMAIN high'[t] : \E j \in DOMAIN high[t] : high'[t][i] = high[t][j]
      <3> TAKE i \in DOMAIN high'[t]
      <3>1. i + 1 \in DOMAIN high[t] /\ high'[t][i] = high[t][i + 1]
        BY <1>2, <1>3
      <3>. QED BY <3>1
    <2>2. \A u \in Topics \ {t} : \A i \in DOMAIN high'[u] :
             \E j \in DOMAIN high[u] : high'[u][i] = high[u][j]
      BY <1>3
    <2>. QED BY <2>1, <2>2
  <1>6. t = "mempool" =>
           \A i \in DOMAIN high'["mempool"] :
              i + 1 \in DOMAIN high["mempool"] /\ high'["mempool"][i] = high["mempool"][i + 1]
              /\ i \in Nat \ {0}
    BY <1>2, <1>3
  <1>7. t = "mempool" /\ ty # "add" =>
           \A i \in DOMAIN high'["mempool"] : high'["mempool"][i].type = "add"
    <2>1. SUFFICES ASSUME t = "mempool", ty # "add", NEW i \in DOMAIN high'["mempool"],
                          high'["mempool"][i].type # "add"
                   PROVE  FALSE
      OBVIOUS
    <2>2. i + 1 \in DOMAIN high["mempool"] /\ high["mempool"][i + 1].type # "add" /\ i \in Nat \ {0}
      BY <1>6, <2>1
    <2>3. 1 \in DOMAIN high["mempool"] /\ high["mempool"][1].type # "add"
      BY <1>1, <1>2, <2>1
    <2>4. i + 1 = 1
      BY <2>2, <2>3, <1>0 DEF QueueInv
    <2>. QED BY <2>2, <2>4
  <1>8. QueueInv'
    <2>1. \A u \in Topics :
             /\ \A i \in DOMAIN high'[u] :
                   high'[u][i].type = "add" => high'[u][i].block # <<>>
             /\ \A i \in DOMAIN low'[u] : low'[u][i].block # <<>>
      BY <1>0, <1>5 DEF QueueInv
    <2>2. \A i \in DOMAIN high'["consensus"] : high'["consensus"][i].type = "add"
      BY <1>0, <1>5 DEF QueueInv, Topics
    <2>3. \A i \in DOMAIN high'["mempool"] :
             /\ high'["mempool"][i].type = "list" => pc' = "asked"
             /\ high'["mempool"][i].type = "remove" => pc' = "removing"
             /\ high'["mempool"][i].type # "del"
      <3>1. CASE pc' = pc /\ mtxs' = mtxs
        BY <3>1, <1>0, <1>5 DEF QueueInv, Topics
      <3>2. CASE t = "mempool" /\ ty \in {"list", "remove"}
        BY <3>2, <1>7
      <3>. QED BY <3>1, <3>2
    <2>4. \A i, j \in DOMAIN high'["mempool"] :
             high'["mempool"][i].type # "add" /\ high'["mempool"][j].type # "add" => i = j
      <3>1. CASE t = "mempool"
        <4>1. SUFFICES ASSUME NEW i \in DOMAIN high'["mempool"], NEW j \in DOMAIN high'["mempool"],
                              high'["mempool"][i].type # "add", high'["mempool"][j].type # "add"
                       PROVE  i = j
          OBVIOUS
        <4>2. i + 1 = j + 1
          BY <4>1, <3>1, <1>6, <1>0 DEF QueueInv
        <4>. QED BY <4>1, <4>2, <3>1, <1>6
      <3>2. CASE t # "mempool"
        BY <3>2, <1>0, <1>3 DEF QueueInv, Topics
      <3>. QED BY <3>1, <3>2
    <2>5. /\ job' # Idle => job'.to # <<>>
          /\ job'.kind = "own" => pc' = "waiting"
      <3>1. CASE pc' = pc
        BY <3>1, <1>0 DEF QueueInv
      <3>2. CASE t = "mempool" /\ ty \in {"list", "remove"}
        <4>1. pc \in {"asked", "removing"}
          BY <3>2, <1>0, <1>1, <1>2 DEF QueueInv
        <4>. QED BY <4>1, <1>0 DEF QueueInv
      <3>. QED BY <3>1, <3>2
    <2>. QED BY <2>1, <2>2, <2>3, <2>4, <2>5 DEF QueueInv
  <1>9. LeavingInv'
    <2>1. Gone' = Gone
      BY DEF Gone
    <2>2. \A i \in DOMAIN high'["mempool"] :
             high'["mempool"][i].type = "add" =>
                TxsOf(high'["mempool"][i].block) \subseteq Gone'
      BY <2>1, <1>0, <1>5 DEF LeavingInv, Topics
    <2>. QED BY <2>1, <2>2, <1>0 DEF LeavingInv
  <1>. QED BY <1>2, <1>4, <1>8, <1>9

\* What a message taken from a low channel leaves.
LEMMA TakenLow ==
  ASSUME FlowInv, NEW t \in Topics, TakeLow(t),
         UNCHANGED <<high, job, main, undone, pc, mtxs>>
  PROVE  /\ low' \in [Topics -> Seq(Messages)]
         /\ Head(low[t]) \in Messages /\ Head(low[t]).block # <<>>
         /\ QueueInv' /\ LeavingInv'
  <1>0. TypeOK /\ QueueInv /\ LeavingInv
    BY DEF FlowInv
  <1>1. /\ low[t] \in Seq(Messages) /\ low[t] # <<>>
        /\ low' = [low EXCEPT ![t] = Tail(low[t])]
        /\ low \in [Topics -> Seq(Messages)]
    BY <1>0 DEF TakeLow, TypeOK
  <1>2. /\ Head(low[t]) \in Messages /\ Head(low[t]) = low[t][1] /\ 1 \in DOMAIN low[t]
        /\ Tail(low[t]) \in Seq(Messages)
        /\ \A i \in DOMAIN Tail(low[t]) :
              i + 1 \in DOMAIN low[t] /\ Tail(low[t])[i] = low[t][i + 1]
    BY <1>1, TailQueue
  <1>3. /\ low'[t] = Tail(low[t])
        /\ \A u \in Topics \ {t} : low'[u] = low[u]
    BY <1>1
  <1>4. low' \in [Topics -> Seq(Messages)]
    BY <1>1, <1>2
  <1>5. \A u \in Topics : \A i \in DOMAIN low'[u] :
           \E j \in DOMAIN low[u] : low'[u][i] = low[u][j]
    <2>1. \A i \in DOMAIN low'[t] : \E j \in DOMAIN low[t] : low'[t][i] = low[t][j]
      <3> TAKE i \in DOMAIN low'[t]
      <3>1. i + 1 \in DOMAIN low[t] /\ low'[t][i] = low[t][i + 1]
        BY <1>2, <1>3
      <3>. QED BY <3>1
    <2>2. \A u \in Topics \ {t} : \A i \in DOMAIN low'[u] :
             \E j \in DOMAIN low[u] : low'[u][i] = low[u][j]
      BY <1>3
    <2>. QED BY <2>1, <2>2
  <1>6. \A u \in Topics : \A i \in DOMAIN low'[u] : low'[u][i].block # <<>>
    BY <1>0, <1>5 DEF QueueInv
  <1>7. Head(low[t]).block # <<>>
    BY <1>0, <1>2 DEF QueueInv
  <1>8. QueueInv'
    BY <1>0, <1>6 DEF QueueInv
  <1>9. LeavingInv'
    BY <1>0 DEF LeavingInv, Gone
  <1>. QED BY <1>2, <1>4, <1>7, <1>8, <1>9

\* eventAddBlock.
LEMMA MempoolAddStep ==
  ASSUME FlowInv, MempoolAddBlock
  PROVE  FlowInv'
  <1> DEFINE b == Head(high["mempool"]).block
  <1>0. TypeOK /\ LeavingInv /\ TxOnce /\ Kept /\ "mempool" \in Topics
    BY DEF FlowInv, Topics
  <1>1. /\ TakeHigh("mempool", "add")
        /\ mheight' = IF Len(b) > mheight THEN Len(b) ELSE mheight
        /\ pool' = pool \ TxsOf(b)
        /\ UNCHANGED <<chainVars, low, checked, accepted, current, minerVars, peers, submits>>
    BY DEF MempoolAddBlock
  <1>2. UNCHANGED <<low, job, main, undone, pc, mtxs>>
    BY <1>1 DEF chainVars, minerVars
  <1>3. /\ high' \in [Topics -> Seq(Messages)] /\ Len(high'["consensus"]) <= 1
        /\ Head(high["mempool"]) \in Messages
        /\ Head(high["mempool"]) = high["mempool"][1] /\ 1 \in DOMAIN high["mempool"]
        /\ QueueInv' /\ LeavingInv'
    BY <1>0, <1>1, <1>2, TakenHigh
  <1>4. TxsOf(b) \subseteq Gone
    BY <1>0, <1>1, <1>3 DEF LeavingInv, TakeHigh
  <1>5. b \in Blocks
    BY <1>3 DEF Messages
  <1> HIDE DEF b
  <1>6. mheight' \in Nat
    BY <1>0, <1>1, <1>5 DEF TypeOK, Blocks
  <1>7. pool' \subseteq Txs /\ Cardinality(pool') <= PoolCacheSize
    BY <1>0, <1>1, PoolShrinks DEF TypeOK
  <1>8. TypeOK'
    BY <1>0, <1>1, <1>3, <1>6, <1>7 DEF TypeOK, chainVars, minerVars
  <1>9. TxOnce'
    BY <1>0, <1>2 DEF TxOnce
  <1>10. Kept'
    BY <1>0, <1>1, <1>2, <1>4 DEF Kept, Gone
  <1>. QED BY <1>3, <1>8, <1>9, <1>10 DEF FlowInv

\* eventDelBlock.
LEMMA MempoolDelStep ==
  ASSUME FlowInv, MempoolDelBlock
  PROVE  FlowInv'
  <1> DEFINE b == Head(low["mempool"]).block
  <1>0. TypeOK /\ LeavingInv /\ TxOnce /\ Kept /\ "mempool" \in Topics
    BY DEF FlowInv, Topics
  <1>1. /\ TakeLow("mempool")
        /\ \/ UNCHANGED <<mheight, pool>>
           \/ mheight' = Len(main) /\ pool' \in Pushed(TxsOf(b))
        /\ UNCHANGED <<chainVars, high, checked, accepted, current, minerVars, peers, submits>>
    BY DEF MempoolDelBlock
  <1>2. UNCHANGED <<high, job, main, undone, pc, mtxs>>
    BY <1>1 DEF chainVars, minerVars
  <1>3. /\ low' \in [Topics -> Seq(Messages)]
        /\ Head(low["mempool"]) \in Messages /\ b # <<>>
        /\ QueueInv' /\ LeavingInv'
    BY <1>0, <1>1, <1>2, TakenLow
  <1>4. b \in Blocks
    BY <1>3 DEF Messages
  <1> HIDE DEF b
  <1>5. TxsOf(b) \in SUBSET Txs
    BY <1>3, <1>4, FrontBlock
  <1>6. /\ mheight' \in Nat
        /\ pool' \subseteq Txs /\ pool \subseteq pool' /\ Cardinality(pool') <= PoolCacheSize
    <2>1. CASE UNCHANGED <<mheight, pool>>
      BY <2>1, <1>0 DEF TypeOK
    <2>2. CASE mheight' = Len(main) /\ pool' \in Pushed(TxsOf(b))
      <3>1. mheight' \in Nat
        BY <2>2, <1>0 DEF TypeOK, Blocks
      <3>2. pool \subseteq Txs /\ Cardinality(pool) <= PoolCacheSize
        BY <1>0 DEF TypeOK
      <3>. QED BY <3>1, <3>2, <2>2, <1>5, PushedFits
    <2>. QED BY <2>1, <2>2, <1>1
  <1>7. TypeOK'
    BY <1>0, <1>1, <1>3, <1>6 DEF TypeOK, chainVars, minerVars
  <1>8. TxOnce'
    BY <1>0, <1>2 DEF TxOnce
  <1>9. Kept'
    BY <1>0, <1>1, <1>2, <1>6 DEF Kept
  <1>. QED BY <1>3, <1>7, <1>8, <1>9 DEF FlowInv

\* eventTxList.
LEMMA TxListStep ==
  ASSUME FlowInv, EventTxList
  PROVE  FlowInv'
  <1>0. TypeOK /\ TxOnce /\ Kept /\ "mempool" \in Topics /\ <<>> \in Blocks
    BY DEF FlowInv, Topics, Blocks
  <1>1. /\ TakeHigh("mempool", "list")
        /\ IF pool = {} THEN EndRound
           ELSE mtxs' = pool /\ pc' = "listed" /\ UNCHANGED base
        /\ UNCHANGED <<chainVars, low, mempoolVars, current, peers, submits>>
    BY DEF EventTxList
  <1>2. /\ pc' \in {"idle", "listed"} /\ base' \in Blocks /\ mtxs' \subseteq Txs
        /\ UNCHANGED <<low, job, main, undone>>
    BY <1>0, <1>1 DEF chainVars, EndRound, TypeOK
  <1>3. /\ high' \in [Topics -> Seq(Messages)] /\ Len(high'["consensus"]) <= 1
        /\ QueueInv' /\ LeavingInv'
    BY <1>0, <1>1, <1>2, TakenHigh
  <1>4. TypeOK'
    BY <1>0, <1>1, <1>2, <1>3 DEF TypeOK, chainVars, mempoolVars
  <1>5. TxOnce' /\ Kept'
    BY <1>0, <1>1 DEF TxOnce, Kept, chainVars, mempoolVars
  <1>. QED BY <1>3, <1>4, <1>5 DEF FlowInv

\* eventDelTxList.
LEMMA DelTxListStep ==
  ASSUME FlowInv, EventDelTxList
  PROVE  FlowInv'
  <1>0. TypeOK /\ QueueInv /\ LeavingInv /\ TxOnce /\ Kept /\ "mempool" \in Topics
    BY DEF FlowInv, Topics
  <1>1. /\ TakeHigh("mempool", "remove")
        /\ pool' = pool \ mtxs /\ pc' = "set"
        /\ UNCHANGED <<chainVars, low, mheight, checked, accepted, current, base, mtxs, peers, submits>>
    BY DEF EventDelTxList
  <1>2. UNCHANGED <<low, job, main, undone>>
    BY <1>1 DEF chainVars
  <1>3. /\ high' \in [Topics -> Seq(Messages)] /\ Len(high'["consensus"]) <= 1
        /\ Head(high["mempool"]) = high["mempool"][1] /\ 1 \in DOMAIN high["mempool"]
        /\ QueueInv' /\ LeavingInv'
    BY <1>0, <1>1, <1>2, TakenHigh
  <1>4. pc = "removing"
    BY <1>0, <1>1, <1>3 DEF QueueInv, TakeHigh
  <1>5. mtxs \subseteq Bad \cup Gone
    BY <1>0, <1>4 DEF LeavingInv
  <1>6. pool' \subseteq Txs /\ Cardinality(pool') <= PoolCacheSize
    BY <1>0, <1>1, PoolShrinks DEF TypeOK
  <1>7. TypeOK'
    BY <1>0, <1>1, <1>3, <1>6 DEF TypeOK, chainVars
  <1>8. TxOnce'
    BY <1>0, <1>2 DEF TxOnce
  <1>9. Kept'
    BY <1>0, <1>1, <1>2, <1>5 DEF Kept, Gone
  <1>. QED BY <1>3, <1>7, <1>8, <1>9 DEF FlowInv

\* A message at consensus.
LEMMA ConsensusStep ==
  ASSUME FlowInv, ConsensusAddBlock \/ ConsensusDelBlock
  PROVE  FlowInv'
  <1>0. TypeOK /\ TxOnce /\ Kept /\ "consensus" \in Topics
    BY DEF FlowInv, Topics
  <1>1. UNCHANGED <<chainVars, mempoolVars, minerVars, peers, submits>>
    BY DEF ConsensusAddBlock, ConsensusDelBlock
  <1>2. UNCHANGED <<job, main, undone, pc, mtxs>>
    BY <1>1 DEF chainVars, minerVars
  <1>3. TxOnce' /\ Kept'
    BY <1>0, <1>1 DEF TxOnce, Kept, chainVars, mempoolVars
  <1>4. CASE ConsensusAddBlock
    <2>1. /\ TakeHigh("consensus", "add") /\ UNCHANGED low
          /\ current' = Head(high["consensus"]).block
      BY <1>4 DEF ConsensusAddBlock
    <2>2. /\ high' \in [Topics -> Seq(Messages)] /\ Len(high'["consensus"]) <= 1
          /\ Head(high["consensus"]) \in Messages /\ QueueInv' /\ LeavingInv'
      BY <2>1, <1>0, <1>2, TakenHigh
    <2>3. current' \in Blocks
      BY <2>1, <2>2 DEF Messages
    <2>4. TypeOK'
      BY <2>1, <2>2, <2>3, <1>0, <1>1 DEF TypeOK, chainVars, mempoolVars, minerVars
    <2>. QED BY <2>2, <2>4, <1>3 DEF FlowInv
  <1>5. CASE ConsensusDelBlock
    <2>1. TakeLow("consensus") /\ UNCHANGED high /\ current' = main
      BY <1>5 DEF ConsensusDelBlock
    <2>2. low' \in [Topics -> Seq(Messages)] /\ QueueInv' /\ LeavingInv'
      BY <2>1, <1>0, <1>2, TakenLow
    <2>3. TypeOK'
      BY <2>1, <2>2, <1>0, <1>1 DEF TypeOK, chainVars, mempoolVars, minerVars
    <2>. QED BY <2>2, <2>3, <1>3 DEF FlowInv
  <1>. QED BY <1>4, <1>5

\* A submission.
LEMMA SubmitStep ==
  ASSUME FlowInv, NEW t \in Txs, CheckTxRemote(t) \/ PushTx(t)
  PROVE  FlowInv'
  <1>0. TypeOK /\ QueueInv /\ LeavingInv /\ TxOnce /\ Kept
    BY DEF FlowInv
  <1>1. UNCHANGED <<chainVars, queueVars, mheight, current, minerVars, peers>>
    BY DEF CheckTxRemote, PushTx
  <1>2. QueueInv' /\ LeavingInv' /\ TxOnce'
    BY <1>0, <1>1 DEF QueueInv, LeavingInv, TxOnce, Gone, chainVars, queueVars, minerVars
  <1>3. CASE CheckTxRemote(t)
    <2>1. /\ submits < MaxSubmits /\ submits' = submits + 1
          /\ checked' \in {checked, checked \cup {t}} /\ UNCHANGED <<pool, accepted>>
      BY <1>3 DEF CheckTxRemote
    <2>2. submits' \in 0..MaxSubmits
      BY <2>1, <1>0, FlowAssumption DEF TypeOK
    <2>3. TypeOK'
      BY <2>1, <2>2, <1>0, <1>1 DEF TypeOK, chainVars, queueVars, minerVars
    <2>4. Kept'
      BY <2>1, <1>0, <1>1 DEF Kept, chainVars
    <2>. QED BY <2>3, <2>4, <1>2 DEF FlowInv
  <1>4. CASE PushTx(t)
    <2>1. /\ checked' = checked \ {t} /\ pool' \in Pushed({t})
          /\ accepted' = accepted \cup (pool' \ pool) /\ UNCHANGED submits
      BY <1>4 DEF PushTx
    <2>2. pool \subseteq Txs /\ Cardinality(pool) <= PoolCacheSize /\ {t} \in SUBSET Txs
      BY <1>0 DEF TypeOK
    <2>3. pool' \subseteq Txs /\ pool \subseteq pool' /\ Cardinality(pool') <= PoolCacheSize
      BY <2>1, <2>2, PushedFits
    <2>4. TypeOK'
      BY <2>1, <2>3, <1>0, <1>1 DEF TypeOK, chainVars, queueVars, minerVars
    <2>5. Kept'
      BY <2>1, <2>3, <1>0, <1>1 DEF Kept, chainVars
    <2>. QED BY <2>4, <2>5, <1>2 DEF FlowInv
  <1>. QED BY <1>3, <1>4

\* The miner asks the mempool something.
LEMMA AskStep ==
  ASSUME FlowInv, NEW ty \in {"list", "remove"},
         high' = [high EXCEPT !["mempool"] = Append(@, Message(ty, <<>>))],
         UNCHANGED <<chainVars, low, mempoolVars, current, mtxs, peers, submits>>,
         \/ ty = "list" /\ pc = "idle" /\ pc' = "asked"
         \/ ty = "remove" /\ pc = "written" /\ pc' = "removing",
         base' \in Blocks
  PROVE  FlowInv'
  <1> DEFINE m == Message(ty, <<>>)
             q == high["mempool"]
  <1>0. TypeOK /\ QueueInv /\ LeavingInv /\ TxOnce /\ Kept
    BY DEF FlowInv
  <1>1. m \in Messages /\ m.type = ty /\ ty # "add"
    BY DEF Message, Messages, Blocks
  <1>2. q \in Seq(Messages) /\ high \in [Topics -> Seq(Messages)]
    BY <1>0 DEF TypeOK, Topics
  <1> HIDE DEF m
  <1>3. /\ high'["mempool"] = Append(q, m) /\ high'["consensus"] = high["consensus"]
        /\ high' = [high EXCEPT !["mempool"] = Append(q, m)]
    BY <1>2 DEF Topics, m
  <1>4. /\ Append(q, m) \in Seq(Messages)
        /\ DOMAIN Append(q, m) = 1..(Len(q) + 1)
        /\ DOMAIN q = 1..Len(q) /\ Len(q) \in Nat
        /\ Append(q, m)[Len(q) + 1] = m
        /\ \A i \in DOMAIN q : Append(q, m)[i] = q[i]
    BY <1>1, <1>2, AppendQueue
  <1>5. high' \in [Topics -> Seq(Messages)]
    BY <1>2, <1>3, <1>4
  <1>6. \A i \in DOMAIN high'["mempool"] :
           \/ i \in DOMAIN q /\ high'["mempool"][i] = q[i]
           \/ i = Len(q) + 1 /\ high'["mempool"][i] = m
    BY <1>3, <1>4
  <1>7. \A i \in DOMAIN q : q[i].type = "add"
    <2>1. \A i \in DOMAIN q : q[i] \in Messages
      BY <1>2
    <2>. QED BY <2>1, <1>0 DEF QueueInv, Messages
  <1> HIDE DEF q
  <1>8. TypeOK'
    BY <1>0, <1>3, <1>5 DEF TypeOK, chainVars, mempoolVars
  <1>9. QueueInv'
    <2>1. \A i \in DOMAIN high'["mempool"] :
             high'["mempool"][i].type = "add" => high'["mempool"][i].block # <<>>
      BY <1>0, <1>1, <1>6 DEF QueueInv, Topics, q
    <2>2. \A t \in Topics :
             /\ \A i \in DOMAIN high'[t] :
                   high'[t][i].type = "add" => high'[t][i].block # <<>>
             /\ \A i \in DOMAIN low'[t] : low'[t][i].block # <<>>
      BY <2>1, <1>0, <1>3 DEF QueueInv, Topics
    <2>3. \A i \in DOMAIN high'["consensus"] : high'["consensus"][i].type = "add"
      BY <1>0, <1>3 DEF QueueInv
    <2>4. \A i \in DOMAIN high'["mempool"] :
             /\ high'["mempool"][i].type = "list" => pc' = "asked"
             /\ high'["mempool"][i].type = "remove" => pc' = "removing"
             /\ high'["mempool"][i].type # "del"
      BY <1>1, <1>6, <1>7
    <2>5. \A i, j \in DOMAIN high'["mempool"] :
             high'["mempool"][i].type # "add" /\ high'["mempool"][j].type # "add" => i = j
      BY <1>1, <1>6, <1>7
    <2>6. /\ job' # Idle => job'.to # <<>>
          /\ job'.kind = "own" => pc' = "waiting"
      BY <1>0 DEF QueueInv, chainVars
    <2>. QED BY <2>2, <2>3, <2>4, <2>5, <2>6 DEF QueueInv
  <1>10. LeavingInv'
    <2>1. Gone' = Gone
      BY DEF Gone, chainVars
    <2>2. \A i \in DOMAIN high'["mempool"] :
             high'["mempool"][i].type = "add" =>
                TxsOf(high'["mempool"][i].block) \subseteq Gone'
      BY <2>1, <1>0, <1>1, <1>6 DEF LeavingInv, q
    <2>3. pc' \in {"written", "removing"} => mtxs' \subseteq Bad \cup Gone'
      BY <2>1, <1>0 DEF LeavingInv
    <2>. QED BY <2>2, <2>3 DEF LeavingInv
  <1>11. TxOnce' /\ Kept'
    BY <1>0 DEF TxOnce, Kept, chainVars, mempoolVars
  <1>. QED BY <1>8, <1>9, <1>10, <1>11 DEF FlowInv

\* The miner's steps and the comparison at the head of ProcessBlock.
LEMMA MinerSteps ==
  ASSUME FlowInv, Miner \/ SelfCheck
  PROVE  FlowInv'
  <1>0. TypeOK /\ <<>> \in Blocks
    BY DEF FlowInv, Blocks
  <1>1. CASE RequestTx
    <2>1. base' \in Blocks
      BY <1>0, <1>1 DEF RequestTx, TypeOK
    <2>. QED BY <2>1, <1>1, AskStep DEF RequestTx
  <1>2. CASE DelMempoolTx /\ mtxs # {}
    <2>1. base' \in Blocks
      BY <1>0, <1>2 DEF DelMempoolTx, TypeOK
    <2>. QED BY <2>1, <1>2, AskStep DEF DelMempoolTx
  <1>3. CASE \/ DelMempoolTx /\ mtxs = {}
             \/ CheckTxDup \/ PreExecBlock \/ SendBlock \/ SetCurrentBlock \/ SelfCheck
    <2>1. UNCHANGED <<chainVars, queueVars, mempoolVars, peers, submits>>
      BY <1>3 DEF DelMempoolTx, CheckTxDup, PreExecBlock, SendBlock, SetCurrentBlock, SelfCheck,
                  queueVars
    <2>2. pc \notin {"asked", "removing", "waiting"} /\ pc' \in PCs \ {"written", "removing"}
      BY <1>3 DEF DelMempoolTx, CheckTxDup, PreExecBlock, SendBlock, SetCurrentBlock, SelfCheck,
                  EndRound, PCs
    <2>3. base' \in Blocks /\ current' \in Blocks
      BY <1>3, <1>0 DEF DelMempoolTx, CheckTxDup, PreExecBlock, SendBlock, SetCurrentBlock,
                        SelfCheck, EndRound, TypeOK
    <2>4. mtxs' \subseteq Txs
      BY <1>3, <1>0 DEF DelMempoolTx, CheckTxDup, PreExecBlock, SendBlock, SetCurrentBlock,
                        SelfCheck, EndRound, TypeOK
    <2>. QED BY <2>1, <2>2, <2>3, <2>4, MinerStep
  <1>. QED BY <1>1, <1>2, <1>3 DEF Miner

-------------------------------------------------------------------------------
(* The header and the miner's block.                                       *)

\* The added blocks a queue announces.
LEMMA AddsAppend ==
  ASSUME NEW q \in Seq(Messages), NEW m \in Messages
  PROVE  /\ Adds(q) \subseteq Blocks
         /\ m.type = "add" => Adds(Append(q, m)) = Adds(q) \cup {m.block}
         /\ m.type # "add" => Adds(Append(q, m)) = Adds(q)
  <1> DEFINE r == Append(q, m)
  <1>1. /\ DOMAIN r = 1..(Len(q) + 1) /\ DOMAIN q = 1..Len(q) /\ Len(q) \in Nat
        /\ r[Len(q) + 1] = m /\ \A i \in DOMAIN q : r[i] = q[i]
    BY AppendQueue
  <1>2. \A i \in DOMAIN q : q[i] \in Messages
    OBVIOUS
  <1> HIDE DEF r
  <1>3. DOMAIN r = DOMAIN q \cup {Len(q) + 1}
    BY <1>1
  <1>4. Adds(q) \subseteq Blocks
    BY <1>2 DEF Adds, Messages
  <1>5. ASSUME m.type = "add" PROVE Adds(r) = Adds(q) \cup {m.block}
    BY <1>1, <1>3, <1>5 DEF Adds
  <1>6. ASSUME m.type # "add" PROVE Adds(r) = Adds(q)
    BY <1>1, <1>3, <1>6 DEF Adds
  <1>. QED BY <1>4, <1>5, <1>6 DEF r

\* The same when the first message is taken.
LEMMA AddsTail ==
  ASSUME NEW q \in Seq(Messages), q # <<>>
  PROVE  /\ Adds(q) \subseteq Blocks
         /\ Head(q).type = "add" => Adds(q) = Adds(Tail(q)) \cup {Head(q).block}
         /\ Head(q).type # "add" => Adds(Tail(q)) = Adds(q)
  <1> DEFINE r == Tail(q)
             h == Head(q)
  <1>1. /\ h = q[1] /\ 1 \in DOMAIN q /\ r \in Seq(Messages)
        /\ \A i \in DOMAIN r : i + 1 \in DOMAIN q /\ r[i] = q[i + 1] /\ i \in Nat \ {0}
    BY TailQueue
  <1>2. \A i \in DOMAIN q : q[i] \in Messages
    OBVIOUS
  <1>3. \A i \in DOMAIN q : i = 1 \/ (i - 1 \in DOMAIN r /\ q[i] = r[i - 1])
    OBVIOUS
  <1> HIDE DEF r, h
  <1>4. Adds(q) \subseteq Blocks
    BY <1>2 DEF Adds, Messages
  <1>5. Adds(r) \subseteq Adds(q)
    BY <1>1 DEF Adds
  <1>6. ASSUME NEW x \in Adds(q) PROVE x \in Adds(r) \/ (h.type = "add" /\ x = h.block)
    <2>1. PICK i \in DOMAIN q : q[i].type = "add" /\ x = q[i].block
      BY <1>6 DEF Adds
    <2>2. CASE i = 1
      BY <1>1, <2>1, <2>2
    <2>3. CASE i # 1
      <3> DEFINE j == i - 1
      <3>1. j \in DOMAIN r /\ q[i] = r[j]
        BY <1>3, <2>3
      <3> HIDE DEF j
      <3>. QED BY <2>1, <3>1 DEF Adds
    <2>. QED BY <2>2, <2>3
  <1>7. h.type = "add" => h.block \in Adds(q)
    BY <1>1 DEF Adds
  <1>. QED BY <1>4, <1>5, <1>6, <1>7 DEF r, h

\* Once the added blocks are taken in, none is announced.
LEMMA AddsGone ==
  ASSUME NEW t \in Topics, AddsTaken(t)
  PROVE  Adds(high[t]) = {}
  BY DEF AddsTaken, Adds

\* What SetTip announces.
LEMMA TipAnnounced ==
  ASSUME FlowInv, NEW b \in Blocks, SetTip(b), NEW t \in Topics
  PROVE  /\ Adds(high[t]) \subseteq Blocks
         /\ Adds(high'[t]) = Adds(high[t]) \cup {b}
  <1>1. high[t] \in Seq(Messages)
    BY DEF FlowInv, TypeOK
  <1>2. /\ Message("add", b) \in Messages
        /\ Message("add", b).type = "add" /\ Message("add", b).block = b
    BY DEF Message, Messages
  <1>3. high'[t] = Append(high[t], Message("add", b))
    BY DEF SetTip
  <1>. QED BY <1>1, <1>2, <1>3, AddsAppend

\* What a message taken from a high channel leaves announced.
LEMMA TakenAnnounced ==
  ASSUME FlowInv, NEW t \in Topics, NEW ty, TakeHigh(t, ty)
  PROVE  /\ Adds(high[t]) \subseteq Blocks
         /\ ty = "add" => Adds(high[t]) = Adds(high'[t]) \cup {Head(high[t]).block}
         /\ ty # "add" => Adds(high'[t]) = Adds(high[t])
         /\ \A u \in Topics \ {t} : high'[u] = high[u]
  <1>1. high \in [Topics -> Seq(Messages)]
    BY DEF FlowInv, TypeOK
  <1>2. /\ high[t] \in Seq(Messages) /\ high[t] # <<>> /\ Head(high[t]).type = ty
        /\ high'[t] = Tail(high[t])
        /\ \A u \in Topics \ {t} : high'[u] = high[u]
    BY <1>1 DEF TakeHigh
  <1>. QED BY <1>2, AddsTail

\* A request of the miner announces nothing.
LEMMA AskAnnounced ==
  ASSUME FlowInv, NEW ty \in {"list", "remove"},
         high' = [high EXCEPT !["mempool"] = Append(@, Message(ty, <<>>))]
  PROVE  /\ Adds(high'["mempool"]) = Adds(high["mempool"])
         /\ high'["consensus"] = high["consensus"]
  <1>1. high \in [Topics -> Seq(Messages)] /\ high["mempool"] \in Seq(Messages)
    BY DEF FlowInv, TypeOK, Topics
  <1>2. Message(ty, <<>>) \in Messages /\ Message(ty, <<>>).type # "add"
    BY DEF Message, Messages, Blocks
  <1>3. /\ high'["mempool"] = Append(high["mempool"], Message(ty, <<>>))
        /\ high'["consensus"] = high["consensus"]
    BY <1>1 DEF Topics
  <1>. QED BY <1>1, <1>2, <1>3, AddsAppend

\* What the steps of mempool, consensus and miner that move neither the chain
\* nor the header leave announced to the mempool.
LEMMA SameAnnounced ==
  ASSUME FlowInv, Consensus \/ ConsensusDelBlock \/ Miner \/ EventTxList \/ EventDelTxList
  PROVE  /\ Adds(high'["mempool"]) = Adds(high["mempool"])
         /\ UNCHANGED <<chainVars, mheight>>
  <1>0. "mempool" \in Topics /\ "consensus" \in Topics /\ "mempool" # "consensus"
    BY DEF Topics
  <1>1. CASE Consensus \/ ConsensusDelBlock
    BY <1>0, <1>1, TakenAnnounced
       DEF Consensus, ConsensusAddBlock, ConsensusDelBlock, mempoolVars
  <1>2. CASE EventTxList \/ EventDelTxList
    BY <1>0, <1>2, TakenAnnounced DEF EventTxList, EventDelTxList, mempoolVars
  <1>3. CASE RequestTx
    BY <1>3, AskAnnounced DEF RequestTx, mempoolVars
  <1>4. CASE DelMempoolTx
    BY <1>4, AskAnnounced DEF DelMempoolTx, mempoolVars
  <1>5. CASE CheckTxDup \/ PreExecBlock \/ SendBlock \/ SetCurrentBlock
    BY <1>5 DEF CheckTxDup, PreExecBlock, SendBlock, SetCurrentBlock, mempoolVars, queueVars
  <1>. QED BY <1>1, <1>2, <1>3, <1>4, <1>5 DEF Miner

\* The numbers HeaderInv compares.
LEMMA GoalType ==
  ASSUME FlowInv
  PROVE  /\ Len(main) \in Nat /\ mheight \in Nat /\ Len(job.to) \in Nat /\ Goal \in Nat
         /\ \A b \in Blocks : Len(b) \in Nat
         /\ Adds(high["mempool"]) \subseteq Blocks
  <1>1. /\ main \in Blocks /\ job.to \in Blocks /\ mheight \in Nat
        /\ high["mempool"] \in Seq(Messages)
    BY DEF FlowInv, TypeOK, Topics
  <1>2. \A b \in Blocks : Len(b) \in Nat
    BY DEF Blocks
  <1>3. Adds(high["mempool"]) \subseteq Blocks
    <2>1. \A i \in DOMAIN high["mempool"] : high["mempool"][i] \in Messages
      BY <1>1
    <2>. QED BY <2>1 DEF Adds, Messages
  <1>. QED BY <1>1, <1>2, <1>3 DEF Goal

\* A branch that is worked at is at least as long as the best chain.
LEMMA JobLength ==
  ASSUME FlowInv, NEW b \in Blocks, b # <<>>, Better(b) \/ MayTie(b)
  PROVE  Len(main) <= Len(b)
  <1>1. Len(b) \in Nat /\ Len(main) \in Nat /\ Len(Front(b)) = Len(b) - 1
    BY GoalType, FrontBlock
  <1>. QED BY <1>1 DEF Better, MayTie

\* HeaderInv through a step that leaves chain, header and announcements alone.
LEMMA HeaderSame ==
  ASSUME FlowInv, HeaderInv, UNCHANGED <<main, job, stopped, mheight>>,
         Adds(high'["mempool"]) = Adds(high["mempool"])
  PROVE  HeaderInv'
  BY DEF HeaderInv, Goal

\* A branch is taken up.
LEMMA HeaderJob ==
  ASSUME FlowInv, HeaderInv, job = Idle, NEW b \in Blocks, b # <<>>,
         Better(b) \/ MayTie(b), job'.to = b, ~job'.off,
         UNCHANGED <<main, stopped, mheight, high>>
  PROVE  HeaderInv'
  <1>1. Len(main') <= Len(job'.to)
    BY JobLength
  <1>2. ~job.off
    BY DEF Idle, Job
  <1>3. Goal' = Goal
    BY <1>2 DEF Goal
  <1>. QED BY <1>1, <1>2, <1>3 DEF HeaderInv

\* A block becomes the tip: the only one of its job, the last or one before.
LEMMA HeaderTip ==
  ASSUME FlowInv, HeaderInv, NEW e \in Entries, SetTip(Append(main, e)),
         UNCHANGED <<stopped, mheight>>,
         \/ job = Idle /\ job' = Idle
         \/ job # Idle /\ job.to = Append(main, e) /\ job' = Idle
         \/ job # Idle /\ Len(main) < Len(job.to) /\ UNCHANGED job
  PROVE  HeaderInv'
  <1> DEFINE b == Append(main, e)
             A == Adds(high["mempool"])
  <1>1. main \in Blocks /\ "mempool" \in Topics
    BY DEF FlowInv, TypeOK, Topics
  <1>2. b \in Blocks /\ Len(b) = Len(main) + 1
    BY <1>1, AppendBlock
  <1>3. /\ Len(main) \in Nat /\ mheight \in Nat /\ Len(job.to) \in Nat
        /\ A \subseteq Blocks /\ \A c \in Blocks : Len(c) \in Nat
    BY GoalType
  <1>4. Adds(high'["mempool"]) = A \cup {b} /\ main' = b
    BY <1>1, <1>2, TipAnnounced DEF SetTip
  <1>5. ~Idle.off
    BY DEF Idle, Job
  <1>6. job' # Idle => Len(main') <= Len(job'.to)
    BY <1>2, <1>3, <1>4
  <1>7. CASE stopped
    BY <1>6, <1>7 DEF HeaderInv
  <1>8. CASE ~stopped
    <2>5. mheight <= Goal /\ \A c \in A : Len(c) <= Goal
      BY <1>8 DEF HeaderInv
    <2>6. Goal <= Goal' /\ Len(b) <= Goal' /\ Goal \in Nat /\ Goal' \in Nat
      <3>1. CASE job' = Idle
        BY <1>2, <1>3, <1>4, <1>5, <3>1 DEF Goal
      <3>2. CASE job' # Idle
        BY <1>2, <1>3, <1>4, <3>2 DEF Goal
      <3>. QED BY <3>1, <3>2
    <2> HIDE DEF b, A
    <2>7. mheight' <= Goal'
      BY <1>3, <2>5, <2>6
    <2>8. \A c \in A \cup {b} : Len(c) <= Goal'
      BY <1>2, <1>3, <2>5, <2>6
    <2>9. \E c \in A \cup {b} : Len(c) = Len(main')
      BY <1>4
    <2>. QED BY <1>4, <1>6, <2>7, <2>8, <2>9 DEF HeaderInv
  <1>. QED BY <1>7, <1>8

\* The tip is detached, or the mempool takes a message.
LEMMA HeaderMessage ==
  ASSUME FlowInv, HeaderInv, DisconnectBlock \/ MempoolAddBlock \/ MempoolDelBlock
  PROVE  HeaderInv'
  <1> DEFINE A == Adds(high["mempool"])
  <1>0. /\ Len(main) \in Nat /\ mheight \in Nat /\ Len(job.to) \in Nat /\ Goal \in Nat
        /\ A \subseteq Blocks /\ \A c \in Blocks : Len(c) \in Nat
    BY GoalType
  <1>1. UNCHANGED stopped
    BY DEF DisconnectBlock, MempoolAddBlock, MempoolDelBlock, chainVars
  <1>a. job' # Idle => Len(main') <= Len(job'.to)
    <2>1. CASE DisconnectBlock
      <3>1. job # Idle /\ job'.to = job.to /\ main' = Front(main) /\ main # <<>> /\ main \in Blocks
        BY <2>1, NotPrefix DEF DisconnectBlock, FlowInv, TypeOK
      <3>2. Len(main') = Len(main) - 1
        BY <3>1, FrontBlock
      <3>. QED BY <1>0, <3>1, <3>2 DEF HeaderInv
    <2>2. CASE UNCHANGED <<main, job>>
      BY <2>2 DEF HeaderInv
    <2>. QED BY <2>1, <2>2 DEF MempoolAddBlock, MempoolDelBlock, chainVars
  <1>2. CASE stopped
    BY <1>1, <1>2, <1>a DEF HeaderInv
  <1>3. CASE ~stopped
    <2>1. /\ mheight <= Goal /\ \A c \in A : Len(c) <= Goal
          /\ ~job.off => mheight = Len(main) \/ \E c \in A : Len(c) = Len(main)
      BY <1>3 DEF HeaderInv
    <2>2. CASE DisconnectBlock
      <3>1. job # Idle /\ job'.to = job.to /\ job'.off /\ UNCHANGED <<high, mheight>>
        BY <2>2 DEF DisconnectBlock, mempoolVars, FlowInv, TypeOK
      <3>2. Goal <= Len(job.to) /\ Goal' = Len(job.to)
        BY <1>0, <3>1 DEF Goal, HeaderInv
      <3> HIDE DEF A
      <3>3. mheight' <= Goal' /\ \A c \in A : Len(c) <= Goal'
        BY <1>0, <2>1, <3>1, <3>2
      <3>. QED BY <1>a, <3>1, <3>3 DEF HeaderInv, A
    <2>3. CASE MempoolAddBlock
      <3> DEFINE b == Head(high["mempool"]).block
                 B == Adds(high'["mempool"])
      <3>1. /\ UNCHANGED <<main, job>> /\ A = B \cup {b}
            /\ mheight' = IF Len(b) > mheight THEN Len(b) ELSE mheight
        BY <2>3, TakenAnnounced DEF MempoolAddBlock, chainVars, Topics
      <3>2. Goal' = Goal
        BY <3>1 DEF Goal
      <3> HIDE DEF b, A, B
      <3>3. Len(b) \in Nat /\ Len(b) <= Goal /\ \A c \in B : Len(c) <= Goal
        BY <1>0, <2>1, <3>1
      <3>4. mheight' <= Goal
        BY <1>0, <2>1, <3>1, <3>3
      <3>5. ASSUME ~job.off
            PROVE  mheight' = Len(main) \/ \E c \in B : Len(c) = Len(main)
        <4>1. Goal = Len(main)
          BY <3>5 DEF Goal
        <4>2. CASE mheight = Len(main) \/ Len(b) = Len(main)
          BY <1>0, <2>1, <3>1, <3>3, <4>1, <4>2
        <4>3. CASE \E c \in B : Len(c) = Len(main)
          BY <4>3
        <4>. QED BY <2>1, <3>1, <3>5, <4>2, <4>3
      <3>. QED BY <1>a, <3>1, <3>2, <3>3, <3>4, <3>5 DEF HeaderInv, B
    <2>4. CASE MempoolDelBlock
      <3>1. /\ UNCHANGED <<main, job, high>>
            /\ mheight' = mheight \/ mheight' = Len(main)
        BY <2>4 DEF MempoolDelBlock, chainVars
      <3>2. Goal' = Goal
        BY <3>1 DEF Goal
      <3>3. mheight' <= Goal
        <4>1. Len(main) <= Goal
          BY <1>0 DEF Goal, HeaderInv, Idle, Job
        <4>. QED BY <2>1, <3>1, <4>1
      <3>. QED BY <1>a, <2>1, <3>1, <3>2, <3>3 DEF HeaderInv
    <2>. QED BY <2>2, <2>3, <2>4
  <1>. QED BY <1>2, <1>3

\* Every step.
LEMMA HeaderNext ==
  ASSUME FlowInv, HeaderInv, [Next]_vars
  PROVE  HeaderInv'
  <1>0. TypeOK /\ "mempool" \in Topics /\ <<>> \in Blocks
    BY DEF FlowInv, Topics, Blocks
  <1>1. ASSUME NEW p \in index \cup {<<>>}, NEW S \in PeerTxs, PeerBlock(p, S)
        PROVE  HeaderInv'
    <2> DEFINE b == Append(p, [own |-> 0, txs |-> S])
    <2>1. p \in Blocks /\ [own |-> 0, txs |-> S] \in Entries
      BY <1>0, FlowAssumption DEF TypeOK, Entries
    <2>2. b \in Blocks /\ b # <<>>
      BY <2>1, AppendBlock
    <2>3. /\ job = Idle /\ UNCHANGED <<main, stopped, mheight, high>>
          /\ \/ (Better(b) \/ MayTie(b)) /\ job' = Job("peer", b)
             \/ UNCHANGED job
      BY <1>1 DEF PeerBlock, queueVars, mempoolVars
    <2> HIDE DEF b
    <2>4. CASE UNCHANGED job
      BY <2>3, <2>4, HeaderSame
    <2>5. CASE (Better(b) \/ MayTie(b)) /\ job' = Job("peer", b)
      <3>1. job'.to = b /\ ~job'.off
        BY <2>5 DEF Job
      <3>. QED BY <2>2, <2>3, <2>5, <3>1, HeaderJob
    <2>. QED BY <2>3, <2>4, <2>5
  <1>2. CASE \E t \in Txs : CheckTxRemote(t) \/ PushTx(t)
    BY <1>2, HeaderSame DEF CheckTxRemote, PushTx, chainVars, queueVars
  <1>3. CASE ConnectBlock
    <2> DEFINE e == job.to[Len(main) + 1]
    <2>1. main \in Blocks /\ job.to \in Blocks /\ Ready
      BY <1>0, <1>3 DEF TypeOK, ConnectBlock
    <2>2. e \in Entries /\ NextBlock = Append(main, e) /\ Len(main) < Len(job.to)
      BY <2>1, NextIsAppend
    <2>3. /\ SetTip(Append(main, e)) /\ UNCHANGED <<stopped, mheight>> /\ job # Idle
          /\ \/ Append(main, e) = job.to /\ job' = Idle
             \/ UNCHANGED job
      BY <1>3, <2>2 DEF ConnectBlock, mempoolVars, JobDone, Ready
    <2> HIDE DEF e
    <2>. QED BY <2>2, <2>3, HeaderTip
  <1>4. CASE ConnectFails
    BY <1>4 DEF ConnectFails, JobDone, Idle, Job, Goal, HeaderInv, queueVars, mempoolVars
  <1>5. CASE OwnConnects
    <2> DEFINE left == mtxs \ (OnChain(main) \cup Bad)
               e == [own |-> Cardinality(Made) + 1, txs |-> left]
    <2>1. left \in SUBSET Txs
      BY <1>0 DEF TypeOK
    <2>2. e \in Entries /\ OwnBlock(left) = Append(main, e)
      BY <1>5, <2>1, OwnIsBlock DEF OwnBlock, OwnConnects
    <2>3. /\ job = Idle /\ UNCHANGED <<job, stopped, mheight>>
          /\ SetTip(OwnBlock(left)) \/ UNCHANGED <<main, high>>
      BY <1>5 DEF OwnConnects, mempoolVars
    <2> HIDE DEF e, left
    <2>4. CASE SetTip(OwnBlock(left))
      BY <2>2, <2>3, <2>4, HeaderTip
    <2>5. CASE UNCHANGED <<main, high>>
      BY <2>3, <2>5, HeaderSame
    <2>. QED BY <2>3, <2>4, <2>5
  <1>6. CASE OwnOffTip
    <2> DEFINE b == OwnBlock(mtxs)
    <2>1. b \in Blocks /\ b # <<>>
      BY <1>0, OwnIsBlock DEF TypeOK
    <2>2. /\ job = Idle /\ UNCHANGED <<main, stopped, mheight, high>>
          /\ \/ (Better(b) \/ MayTie(b)) /\ job' = Job("own", b)
             \/ UNCHANGED job
      BY <1>6 DEF OwnOffTip, queueVars, mempoolVars
    <2> HIDE DEF b
    <2>3. CASE UNCHANGED job
      BY <2>2, <2>3, HeaderSame
    <2>4. CASE (Better(b) \/ MayTie(b)) /\ job' = Job("own", b)
      <3>1. job'.to = b /\ ~job'.off
        BY <2>4 DEF Job
      <3>. QED BY <2>1, <2>2, <2>4, <3>1, HeaderJob
    <2>. QED BY <2>2, <2>3, <2>4
  <1>7. CASE DisconnectBlock \/ MempoolAddBlock \/ MempoolDelBlock
    BY <1>7, HeaderMessage
  <1>8. CASE Consensus \/ ConsensusDelBlock \/ Miner \/ EventTxList \/ EventDelTxList
    BY <1>8, SameAnnounced, HeaderSame DEF chainVars
  <1>9. CASE SelfCheck \/ UNCHANGED vars
    BY <1>9, HeaderSame DEF SelfCheck, vars, chainVars, queueVars, mempoolVars
  <1>. QED BY <1>1, <1>2, <1>3, <1>4, <1>5, <1>6, <1>7, <1>8, <1>9
           DEF Next, Chain, OwnWrite, Mempool

\* A block the miner made counts as one of this node.
LEMMA OwnIsOwn ==
  ASSUME FlowInv, NEW S \in SUBSET Txs
  PROVE  Own(OwnBlock(S))
  <1> DEFINE e == [own |-> Cardinality(Made) + 1, txs |-> S]
  <1>1. IsFiniteSet(Made)
    BY FS_Subset DEF FlowInv, TypeOK, Made
  <1>2. Cardinality(Made) \in Nat
    BY <1>1, FS_CardinalityType
  <1>3. e \in Entries /\ e.own > 0
    BY <1>2 DEF Entries
  <1>4. base \in Blocks
    BY DEF FlowInv, TypeOK
  <1> HIDE DEF e
  <1>5. Append(base, e) # <<>> /\ Last(Append(base, e)) = e
    BY <1>3, <1>4, AppendBlock
  <1>. QED BY <1>3, <1>5 DEF Own, OwnBlock, e

\* WrittenOwn through every step.
LEMMA WrittenStep ==
  ASSUME FlowInv, WrittenOwn, [Next]_vars
  PROVE  WrittenOwn'
  <1>0. TypeOK /\ QueueInv
    BY DEF FlowInv
  <1>1. CASE UNCHANGED <<pc, base>>
    BY <1>1 DEF WrittenOwn
  <1>2. CASE pc' \notin {"written", "removing", "set"}
    BY <1>2 DEF WrittenOwn
  <1>3. CASE OwnConnects
    <2>1. mtxs \ (OnChain(main) \cup Bad) \in SUBSET Txs
      BY <1>0 DEF TypeOK
    <2>2. \/ pc' = "written" /\ base' = OwnBlock(mtxs \ (OnChain(main) \cup Bad))
          \/ pc' = "idle"
      BY <1>3 DEF OwnConnects, EndRound
    <2>. QED BY <1>2, <2>1, <2>2, OwnIsOwn DEF WrittenOwn
  <1>4. CASE EventDelTxList
    <2>1. "mempool" \in Topics /\ TakeHigh("mempool", "remove") /\ UNCHANGED base
      BY <1>4 DEF EventDelTxList, Topics
    <2>2. high["mempool"] \in Seq(Messages) /\ high["mempool"] # <<>>
      BY <1>0, <2>1 DEF TakeHigh, TypeOK
    <2>3. Head(high["mempool"]) = high["mempool"][1] /\ 1 \in DOMAIN high["mempool"]
      BY <2>2, TailQueue
    <2>4. pc = "removing"
      BY <1>0, <2>1, <2>3 DEF QueueInv, TakeHigh
    <2>. QED BY <2>1, <2>4 DEF WrittenOwn
  <1>5. CASE DelMempoolTx
    BY <1>5 DEF DelMempoolTx, WrittenOwn
  <1>6. CASE (\E p \in index \cup {<<>>}, S \in PeerTxs : PeerBlock(p, S)) \/ UNCHANGED vars
    BY <1>1, <1>6 DEF PeerBlock, minerVars, vars
  <1>7. CASE (\E t \in Txs : CheckTxRemote(t) \/ PushTx(t)) \/ DisconnectBlock
    BY <1>1, <1>7 DEF CheckTxRemote, PushTx, DisconnectBlock, minerVars
  <1>8. CASE ConnectBlock \/ ConnectFails
    BY <1>1, <1>2, <1>8 DEF ConnectBlock, ConnectFails, JobDone, EndRound, minerVars
  <1>9. CASE SelfCheck \/ OwnOffTip \/ EventTxList
    BY <1>2, <1>9 DEF SelfCheck, OwnOffTip, EventTxList, EndRound
  <1>10. CASE MempoolAddBlock \/ MempoolDelBlock \/ Consensus \/ ConsensusDelBlock
    BY <1>1, <1>10 DEF MempoolAddBlock, MempoolDelBlock, Consensus, ConsensusAddBlock,
                       ConsensusDelBlock, minerVars
  <1>11. CASE RequestTx \/ CheckTxDup \/ PreExecBlock \/ SendBlock \/ SetCurrentBlock
    BY <1>2, <1>11 DEF RequestTx, CheckTxDup, PreExecBlock, SendBlock, SetCurrentBlock, EndRound
  <1>. QED BY <1>3, <1>4, <1>5, <1>6, <1>7, <1>8, <1>9, <1>10, <1>11
           DEF Next, Chain, OwnWrite, Mempool, Miner

\* A step that leaves alone what Told is about.
LEMMA ToldSame ==
  ASSUME Told, ~job'.off => ~job.off, UNCHANGED <<main, stopped, current>>,
         Adds(high'["consensus"]) = Adds(high["consensus"]),
         low'["consensus"] = low["consensus"]
  PROVE  Told'
  BY DEF Told

\* A block becomes the tip: consensus had taken in everything announced.
LEMMA ToldTip ==
  ASSUME FlowInv, NEW b \in Blocks, SetTip(b), AddsTaken("consensus")
  PROVE  Told'
  <1>1. "consensus" \in Topics
    BY DEF Topics
  <1>2. Adds(high'["consensus"]) = {b} /\ main' = b
    BY <1>1, AddsGone, TipAnnounced DEF SetTip
  <1>. QED BY <1>2 DEF Told

\* Told through every step.
LEMMA ToldStep ==
  ASSUME FlowInv, WrittenOwn, Told, [Next]_vars
  PROVE  Told'
  <1>0. TypeOK /\ "mempool" \in Topics /\ "consensus" \in Topics /\ "mempool" # "consensus"
    BY DEF FlowInv, Topics
  <1>1. CASE (\E p \in index \cup {<<>>}, S \in PeerTxs : PeerBlock(p, S)) \/ OwnOffTip
    <2>0. job = Idle
      BY <1>1 DEF PeerBlock, OwnOffTip
    <2>1. ~job.off
      BY <2>0 DEF Idle, Job
    <2>2. UNCHANGED <<main, stopped, current, high, low>>
      BY <1>1 DEF PeerBlock, OwnOffTip, queueVars
    <2>. QED BY <2>1, <2>2, ToldSame
  <1>2. CASE (\E t \in Txs : CheckTxRemote(t) \/ PushTx(t)) \/ SelfCheck \/ UNCHANGED vars
    BY <1>2, ToldSame DEF CheckTxRemote, PushTx, SelfCheck, vars, chainVars, queueVars
  <1>3. CASE DisconnectBlock
    <2>1. job'.off
      BY <1>0, <1>3 DEF DisconnectBlock, TypeOK
    <2>. QED BY <2>1 DEF Told
  <1>4. CASE ConnectBlock
    <2>1. main \in Blocks /\ job.to \in Blocks /\ Ready
      BY <1>0, <1>4 DEF TypeOK, ConnectBlock
    <2>2. NextBlock \in Blocks
      BY <2>1, NextIsAppend, AppendBlock
    <2>. QED BY <1>4, <2>2, ToldTip DEF ConnectBlock
  <1>5. CASE ConnectFails
    BY <1>5 DEF ConnectFails, Told, queueVars
  <1>6. CASE OwnConnects
    <2> DEFINE left == mtxs \ (OnChain(main) \cup Bad)
    <2>1. left \in SUBSET Txs
      BY <1>0 DEF TypeOK
    <2>2. OwnBlock(left) \in Blocks
      BY <2>1, OwnIsBlock
    <2>3. /\ AddsTaken("consensus") /\ UNCHANGED <<job, stopped, low, current>>
          /\ SetTip(OwnBlock(left)) \/ UNCHANGED <<main, high>>
      BY <1>6 DEF OwnConnects
    <2> HIDE DEF left
    <2>4. CASE SetTip(OwnBlock(left))
      BY <2>2, <2>3, <2>4, ToldTip
    <2>5. CASE UNCHANGED <<main, high>>
      BY <2>3, <2>5, ToldSame
    <2>. QED BY <2>3, <2>4, <2>5
  <1>7. CASE MempoolAddBlock \/ EventTxList \/ EventDelTxList
    <2>1. UNCHANGED <<main, job, stopped, current, low>>
      BY <1>7 DEF MempoolAddBlock, EventTxList, EventDelTxList, chainVars
    <2>2. high'["consensus"] = high["consensus"]
      BY <1>0, <1>7, TakenAnnounced DEF MempoolAddBlock, EventTxList, EventDelTxList
    <2>. QED BY <2>1, <2>2, ToldSame
  <1>8. CASE MempoolDelBlock
    <2>1. UNCHANGED <<main, job, stopped, current, high>> /\ TakeLow("mempool")
      BY <1>8 DEF MempoolDelBlock, chainVars
    <2>2. low'["consensus"] = low["consensus"]
      BY <1>0, <2>1 DEF TakeLow, TypeOK
    <2>. QED BY <2>1, <2>2, ToldSame
  <1>9. CASE Consensus
    <2> DEFINE b == Head(high["consensus"]).block
    <2>1. UNCHANGED <<main, job, stopped, low>> /\ current' = b
          /\ Adds(high["consensus"]) = Adds(high'["consensus"]) \cup {b}
      BY <1>0, <1>9, TakenAnnounced DEF Consensus, ConsensusAddBlock, chainVars
    <2> HIDE DEF b
    <2>. QED BY <2>1 DEF Told
  <1>10. CASE ConsensusDelBlock
    BY <1>10 DEF ConsensusDelBlock, chainVars, Told
  <1>11. CASE SetCurrentBlock
    BY <1>11 DEF SetCurrentBlock, chainVars, queueVars, WrittenOwn, Told
  <1>12. CASE RequestTx \/ DelMempoolTx
    <2>1. UNCHANGED <<main, job, stopped, current, low>>
      BY <1>12 DEF RequestTx, DelMempoolTx, chainVars
    <2>2. high'["consensus"] = high["consensus"]
      <3>1. CASE UNCHANGED high
        BY <3>1
      <3>2. CASE ~UNCHANGED high
        BY <1>12, <3>2, AskAnnounced DEF RequestTx, DelMempoolTx
      <3>. QED BY <3>1, <3>2
    <2>. QED BY <2>1, <2>2, ToldSame
  <1>13. CASE CheckTxDup \/ PreExecBlock \/ SendBlock
    BY <1>13, ToldSame DEF CheckTxDup, PreExecBlock, SendBlock, chainVars, queueVars
  <1>. QED BY <1>1, <1>2, <1>3, <1>4, <1>5, <1>6, <1>7, <1>8, <1>9, <1>10, <1>11, <1>12, <1>13
           DEF Next, Chain, OwnWrite, Mempool, Miner

-------------------------------------------------------------------------------
(* The theorems.                                                           *)

\* Whatever the loops of the node do, FlowInv holds.
THEOREM Invariance == Spec => []FlowInv
  <1>1. Init => FlowInv
    <2>1. ASSUME Init PROVE TypeOK
      <3>1. /\ <<>> \in Blocks /\ Idle \in [kind : {"none", "own", "peer"}, to : Blocks, off : BOOLEAN]
            /\ [t \in Topics |-> <<>>] \in [Topics -> Seq(Messages)]
        BY DEF Blocks, Idle, Job
      <3>2. Cardinality({}) = 0 /\ IsFiniteSet({})
        BY FS_EmptySet
      <3>3. Len(high["consensus"]) <= 1
        BY <2>1 DEF Init, Topics
      <3>4. /\ main \in Blocks /\ current \in Blocks /\ base \in Blocks
            /\ job \in [kind : {"none", "own", "peer"}, to : Blocks, off : BOOLEAN]
            /\ high \in [Topics -> Seq(Messages)] /\ low \in [Topics -> Seq(Messages)]
        BY <2>1, <3>1 DEF Init
      <3>5. /\ index \subseteq Blocks /\ IsFiniteSet(index)
            /\ pool \subseteq Txs /\ Cardinality(pool) <= PoolCacheSize
        BY <2>1, <3>2, FlowAssumption DEF Init
      <3>6. /\ mheight \in Nat /\ checked \subseteq Txs /\ mtxs \subseteq Txs
            /\ accepted \subseteq Txs /\ undone \subseteq Txs
            /\ peers \in 0..MaxPeerBlocks /\ submits \in 0..MaxSubmits
        BY <2>1, FlowAssumption DEF Init
      <3>7. pc \in {"idle", "asked", "listed", "nodup", "mined", "sent", "checked",
                    "waiting", "written", "removing", "set"}
        BY <2>1 DEF Init
      <3>8. stopped \in BOOLEAN
        BY <2>1, Zenon DEF Init
      <3>. QED BY <3>3, <3>4, <3>5, <3>6, <3>7, <3>8 DEF TypeOK
    <2>2. ASSUME Init PROVE QueueInv /\ LeavingInv
      <3>1. \A t \in Topics : DOMAIN high[t] = {} /\ DOMAIN low[t] = {}
        BY <2>2 DEF Init
      <3>2. DOMAIN high["mempool"] = {} /\ DOMAIN high["consensus"] = {}
        BY <3>1 DEF Topics
      <3>. QED BY <2>2, <3>1, <3>2 DEF Init, QueueInv, LeavingInv, Idle, Job
    <2>3. ASSUME Init PROVE TxOnce /\ Kept
      BY <2>3 DEF Init, TxOnce, Kept
    <2>. QED BY <2>1, <2>2, <2>3 DEF FlowInv
  <1>2. FlowInv /\ [Next]_vars => FlowInv'
    <2> SUFFICES ASSUME FlowInv, [Next]_vars PROVE FlowInv'
      OBVIOUS
    <2>1. CASE \E p \in index \cup {<<>>}, S \in PeerTxs : PeerBlock(p, S)
      BY <2>1, PeerStep
    <2>2. CASE \E t \in Txs : CheckTxRemote(t) \/ PushTx(t)
      BY <2>2, SubmitStep
    <2>3. CASE Chain
      BY <2>3, DisconnectStep, ConnectStep, FailStep DEF Chain
    <2>4. CASE OwnWrite
      BY <2>4, MinerSteps, OwnConnectsStep, OwnOffTipStep DEF OwnWrite
    <2>5. CASE Mempool \/ MempoolDelBlock
      BY <2>5, MempoolAddStep, MempoolDelStep, TxListStep, DelTxListStep DEF Mempool
    <2>6. CASE Consensus \/ ConsensusDelBlock
      BY <2>6, ConsensusStep DEF Consensus
    <2>7. CASE Miner
      BY <2>7, MinerSteps
    <2>8. CASE UNCHANGED vars
      BY <2>8 DEF vars, chainVars, queueVars, mempoolVars, minerVars, FlowInv, TypeOK,
                  QueueInv, LeavingInv, TxOnce, Kept, Gone
    <2>. QED BY <2>1, <2>2, <2>3, <2>4, <2>5, <2>6, <2>7, <2>8 DEF Next
  <1>. QED BY <1>1, <1>2, PTL DEF Spec

\* TypeOK, with the capacity of the mempool's cache (simplequeue.go) and at
\* most one added block waiting at consensus.
THEOREM TypeCorrect == Spec => []TypeOK
  <1>1. FlowInv => TypeOK
    BY DEF FlowInv
  <1>. QED BY <1>1, Invariance, PTL

\* No transaction is twice on the chain, although the duplicate check of the
\* mempool and the miner's are stale when the block is connected.
THEOREM OnceHolds == Spec => []TxOnce
  <1>1. FlowInv => TxOnce
    BY DEF FlowInv
  <1>. QED BY <1>1, Invariance, PTL

\* A transaction the mempool took is in it or on the chain as long as no block
\* with it was detached.
THEOREM KeptHolds == Spec => []Kept
  <1>1. FlowInv => Kept
    BY DEF FlowInv
  <1>. QED BY <1>1, Invariance, PTL

\* When nothing is under way, the height the mempool checks expiry against is
\* the chain's, although added blocks overtake detached ones.
THEOREM HeaderHolds == Spec => []HeaderSettles
  <1>1. Init => HeaderInv
    <2> SUFFICES ASSUME Init PROVE HeaderInv
      OBVIOUS
    <2>1. Adds(high["mempool"]) = {} /\ Len(main) = 0 /\ mheight = 0 /\ job = Idle
      BY DEF Init, Adds, Topics
    <2>2. Goal = 0
      BY <2>1 DEF Goal, Idle, Job
    <2>. QED BY <2>1, <2>2 DEF HeaderInv
  <1>2. FlowInv /\ HeaderInv /\ [Next]_vars => HeaderInv'
    BY HeaderNext
  <1>3. HeaderInv => HeaderSettles
    <2> SUFFICES ASSUME HeaderInv, Quiet, ~stopped PROVE mheight = Len(main)
      BY DEF HeaderSettles
    <2>1. job = Idle /\ Adds(high["mempool"]) = {}
      BY AddsGone DEF Quiet, Topics
    <2>. QED BY <2>1 DEF HeaderInv, Idle, Job
  <1>. QED BY <1>1, <1>2, <1>3, Invariance, PTL DEF Spec

\* When nothing is under way, the miner builds on the tip or on a block of its
\* own that WriteBlock set after a later announcement was taken in.
THEOREM BuildsOnTipHolds == Spec => []BuildsOnTip
  <1>1. Init => TipInv
    BY DEF Init, TipInv, WrittenOwn, Told, Adds, Topics
  <1>2. FlowInv /\ TipInv /\ [Next]_vars => TipInv'
    BY WrittenStep, ToldStep DEF TipInv
  <1>3. TipInv => BuildsOnTip
    <2> SUFFICES ASSUME TipInv, Quiet, ~stopped PROVE current = main \/ Own(current)
      BY DEF BuildsOnTip
    <2>1. job = Idle /\ Adds(high["consensus"]) = {} /\ low["consensus"] = <<>>
      BY AddsGone DEF Quiet, Topics
    <2>. QED BY <2>1 DEF TipInv, Told, Idle, Job
  <1>. QED BY <1>1, <1>2, <1>3, Invariance, PTL DEF Spec
===============================================================================
