--------------------------- MODULE BlockChainProofs ---------------------------
(***************************************************************************)
(* Proofs that every behaviour of BlockChain, for every block tree, every  *)
(* number of goroutines, restarts and failures, keeps the inductive        *)
(* invariant IInv, and what follows from it.                               *)
(***************************************************************************)
EXTENDS BlockChain, TLAPS

-------------------------------------------------------------------------------
(* Facts about sequences.                                                  *)

\* A function on 1..k is a sequence of length k (attachNodes is built so).
LEMMA FunSeq ==
  ASSUME NEW S, NEW k \in Nat, NEW s \in [1..k -> S]
  PROVE  s \in Seq(S) /\ Len(s) = k
  OBVIOUS
\* The view without its tip (delTip).
LEMMA FrontFacts ==
  ASSUME NEW S, NEW s \in Seq(S), Len(s) >= 1
  PROVE  /\ SubSeq(s, 1, Len(s) - 1) \in Seq(S)
         /\ Len(SubSeq(s, 1, Len(s) - 1)) = Len(s) - 1
         /\ \A i \in 1..(Len(s) - 1) : SubSeq(s, 1, Len(s) - 1)[i] = s[i]
  <1> DEFINE f == [i \in 1..(Len(s) - 1) |-> s[i]]
  <1>1. SubSeq(s, 1, Len(s) - 1) = f
    OBVIOUS
  <1>2. f \in [1..(Len(s) - 1) -> S] /\ \A i \in 1..(Len(s) - 1) : f[i] = s[i]
    OBVIOUS
  <1>3. Len(s) - 1 \in Nat
    OBVIOUS
  <1> HIDE DEF f
  <1>4. f \in Seq(S) /\ Len(f) = Len(s) - 1
    BY <1>2, <1>3, FunSeq, Zenon
  <1>. QED BY <1>1, <1>2, <1>4, Zenon

\* The view with a new tip (setTip).
LEMMA AppendFacts ==
  ASSUME NEW S, NEW s \in Seq(S), NEW e \in S
  PROVE  /\ Append(s, e) \in Seq(S)
         /\ Len(Append(s, e)) = Len(s) + 1
         /\ \A i \in 1..Len(s) : Append(s, e)[i] = s[i]
         /\ Append(s, e)[Len(s) + 1] = e
  OBVIOUS

\* What is left of a list after its first element was handled.
LEMMA TailFacts ==
  ASSUME NEW S, NEW s \in Seq(S), s # <<>>
  PROVE  /\ Tail(s) \in Seq(S)
         /\ Len(Tail(s)) = Len(s) - 1
         /\ \A i \in 1..(Len(s) - 1) : Tail(s)[i] = s[i + 1]
         /\ Head(s) = s[1] /\ Head(s) \in S /\ Len(s) >= 1
  OBVIOUS

\* A list of one element.
LEMMA OneSeq ==
  ASSUME NEW S, NEW e \in S
  PROVE  <<e>> \in Seq(S) /\ Len(<<e>>) = 1 /\ <<e>>[1] = e /\ <<e>> # <<>>
  OBVIOUS

\* Emptiness and length.
LEMMA EmptySeq ==
  ASSUME NEW S, NEW s \in Seq(S)
  PROVE  (s = <<>>) <=> (Len(s) = 0)
  OBVIOUS

\* The set of blocks of a list.
LEMMA RangeFacts ==
  ASSUME NEW S, NEW s \in Seq(S)
  PROVE  /\ Range(s) \subseteq S
         /\ \A i \in 1..Len(s) : s[i] \in Range(s)
         /\ \A e \in Range(s) : \E i \in 1..Len(s) : s[i] = e
  BY DEF Range

\* blockLastHeight after the tip of a view of length n is taken off.
LEMMA HeightBelow ==
  ASSUME NEW n \in Nat, n >= 1
  PROVE  n - 2 \in Nat \cup {-1}
  <1>1. CASE n = 1
    <2>1. n - 2 = -1
      BY <1>1
    <2>. QED BY <2>1, Zenon
  <1>2. CASE n # 1
    <2>1. n - 2 \in Nat
      BY <1>2
    <2>. QED BY <2>1, Zenon
  <1>. QED BY <1>1, <1>2

-------------------------------------------------------------------------------
(* The part of IInv that speaks about blocks, not about goroutines.        *)

Core == IndexInv /\ SessionInv /\ ViewMatchesDB /\ BestIsChain
          /\ TdConsistent /\ WeightInv /\ TipHeaviest

\* IInv is the conjunction of the three groups proved separately.
LEMMA IInvSplit == IInv <=> TypeOK /\ LockInv /\ Core
  BY DEF IInv, Core

\* A step that leaves lock, index, database and view alone keeps Core.
LEMMA CoreFrame ==
  Core /\ UNCHANGED <<lockVars, indexVars, storeVars, chainVars, failed>>
    => Core'
  BY DEF Core, IndexInv, SessionInv, ViewMatchesDB, BestIsChain, TdConsistent,
         WeightInv, TipHeaviest, Tip, lockVars, indexVars, storeVars, chainVars

\* The initial state satisfies the invariant.
LEMMA InitIInv == Init => IInv
  <1> SUFFICES ASSUME Init PROVE IInv
    OBVIOUS
  <1> USE BlockAssumption, EnvAssumption DEF Init
  <1>1. Len(best) = 1 /\ best[1] = Genesis /\ best \in Seq(Blocks) /\ best # <<>>
    OBVIOUS
  <1>2. Range(best) = {Genesis}
    BY <1>1 DEF Range
  <1>3. TypeOK
    <2>1. /\ pregen \in BOOLEAN /\ closed \in BOOLEAN
          /\ looping \in BOOLEAN /\ failed \in BOOLEAN
      BY Zenon
    <2>2. hashAt \in [Heights -> Blocks \cup {NoBlock}]
      BY DEF Heights
    <2>3. td \in [Blocks -> Nat]
      OBVIOUS
    <2>4. /\ pc \in [Handlers -> Steps] /\ stage \in Stages
          /\ \A h \in Handlers : pc[h] = "idle"
      BY DEF Steps, Stages
    <2>5. /\ pid \in [Handlers -> Sources] /\ npid \in [Blocks -> Sources]
          /\ opid \in [Blocks -> Sources]
      BY DEF Sources
    <2>6. /\ blk \in [Handlers -> Blocks \cup {NoBlock}]
          /\ par \in [Blocks -> Blocks \cup {NoBlock}]
      OBVIOUS
    <2>7. attach \in Seq(Blocks) /\ queue \in Seq(Blocks)
      OBVIOUS
    <2>. QED BY <1>1, <2>1, <2>2, <2>3, <2>4, <2>5, <2>6, <2>7 DEF TypeOK
  <1>4. LockInv
    BY DEF LockInv
  <1>5. IndexInv /\ SessionInv
    BY DEF IndexInv, SessionInv
  <1>6. ViewMatchesDB
    BY <1>1 DEF ViewMatchesDB, Heights
  <1>7. BestIsChain
    <2>1. \A i \in 1..Len(best) : i = 1
      BY <1>1
    <2>2. \A i \in 2..Len(best) : FALSE
      BY <1>1
    <2>3. \A i \in 1..Len(best) : Height[best[i]] = i - 1
      BY <1>1, <2>1
    <2>. QED BY <1>1, <1>2, <2>2, <2>3 DEF BestIsChain
  <1>8. TdConsistent
    BY DEF TdConsistent
  <1>9. WeightInv /\ TipHeaviest
    BY <1>1 DEF WeightInv, TipHeaviest, Tip
  <1>. QED BY <1>3, <1>4, <1>5, <1>6, <1>7, <1>8, <1>9 DEF IInv

-------------------------------------------------------------------------------
(* The checks of ProcessBlock, which only move a goroutine or the pool.    *)

\* Where a goroutine goes when it does not take or hold chainLock.
LEMMA GotoFacts ==
  ASSUME TypeOK, LockInv, NEW h \in Handlers, pc[h] # "idle", pc[h] # "locked",
         NEW step \in Steps \ {"idle", "locked"}, Goto(h, step),
         UNCHANGED <<holder, stage, looping>>
  PROVE  /\ pc' \in [Handlers -> Steps]
         /\ blk' \in [Handlers -> Blocks \cup {NoBlock}]
         /\ pid' \in [Handlers -> Sources]
         /\ \A k \in Handlers : pc'[k] # "idle" => blk'[k] \in Blocks \ {Genesis}
         /\ LockInv'
  BY DEF TypeOK, LockInv, Goto

\* A goroutine that ends without chainLock.
LEMMA FinishFacts ==
  ASSUME TypeOK, LockInv, NEW h \in Handlers, pc[h] # "locked", Finish(h),
         UNCHANGED <<holder, stage, looping>>
  PROVE  /\ pc' \in [Handlers -> Steps]
         /\ blk' \in [Handlers -> Blocks \cup {NoBlock}]
         /\ pid' \in [Handlers -> Sources]
         /\ \A k \in Handlers : pc'[k] # "idle" => blk'[k] \in Blocks \ {Genesis}
         /\ LockInv'
  BY DEF TypeOK, LockInv, Finish, Steps, Sources

\* The rest of the type invariant, for a step of the pool or a goroutine.
TypeRest ==
    /\ holder \in Handlers \cup {NoHandler} /\ stage \in Stages
    /\ cur \in Blocks \cup {NoBlock} /\ detach \in Nat
    /\ attach \in Seq(Blocks) /\ looping \in BOOLEAN /\ queue \in Seq(Blocks)
    /\ index \subseteq Blocks /\ par \in [Blocks -> Blocks \cup {NoBlock}]
    /\ npid \in [Blocks -> Sources] /\ errLog \subseteq Blocks
    /\ best \in Seq(Blocks) /\ pregen \in BOOLEAN /\ closed \in BOOLEAN
    /\ stored \subseteq Blocks /\ td \in [Blocks -> Nat]
    /\ hashAt \in [Heights -> Blocks \cup {NoBlock}]
    /\ lastHeight \in Nat \cup {-1} /\ boots \in 0..MaxBoots
    /\ transients \in 0..MaxTransient /\ failed \in BOOLEAN

\* The type invariant falls into goroutines, pool, fault list and the rest.
LEMMA TypeSplit ==
  TypeOK <=> /\ pc \in [Handlers -> Steps]
             /\ blk \in [Handlers -> Blocks \cup {NoBlock}]
             /\ pid \in [Handlers -> Sources]
             /\ \A h \in Handlers : pc[h] # "idle" => blk[h] \in Blocks \ {Genesis}
             /\ orphans \subseteq Blocks \ {Genesis}
             /\ opid \in [Blocks -> Sources]
             /\ faultPeers \subseteq Peers
             /\ TypeRest
  BY Zenon DEF TypeOK, TypeRest

\* The rest of the types is kept by a step that leaves it alone.
LEMMA TypeRestFrame ==
  TypeRest /\ UNCHANGED <<lockVars, indexVars, storeVars, chainVars, envVars,
                          transients, failed>>
    => TypeRest'
  BY Zenon DEF TypeRest, lockVars, indexVars, storeVars, chainVars, envVars

\* Deliver keeps the invariant.
LEMMA DeliverStep ==
  ASSUME IInv, NEW h \in Handlers, NEW b \in Blocks \ {Genesis}, NEW p \in Pids,
         Deliver(h, b, p)
  PROVE  IInv'
  <1>0. TypeOK /\ LockInv /\ Core
    BY IInvSplit
  <1>1. Core'
    BY <1>0, CoreFrame DEF Deliver
  <1>2. TypeRest'
    BY <1>0, TypeSplit, TypeRestFrame DEF Deliver
  <1>3. /\ pc' \in [Handlers -> Steps]
        /\ blk' \in [Handlers -> Blocks \cup {NoBlock}]
        /\ pid' \in [Handlers -> Sources]
        /\ \A k \in Handlers : pc'[k] # "idle" => blk'[k] \in Blocks \ {Genesis}
    BY <1>0 DEF TypeOK, Deliver, Steps, Sources
  <1>4. LockInv'
    BY <1>0 DEF TypeOK, LockInv, Deliver, lockVars
  <1>5. /\ orphans' \subseteq Blocks \ {Genesis}
        /\ opid' \in [Blocks -> Sources]
        /\ faultPeers' \subseteq Peers
    BY <1>0 DEF TypeOK, Deliver, poolVars
  <1>. QED BY <1>1, <1>2, <1>3, <1>4, <1>5, Zenon
           DEF IInv, Core, TypeOK, TypeRest

\* The checks made before chainLock is taken.
Precheck(h) ==
    \/ CheckExists(h) \/ CheckOrphan(h) \/ CheckOrphanParent(h)
    \/ RemoveOrphanBlockByHash(h) \/ CheckParent(h) \/ AddOrphanBlock(h)

\* The unlocked checks keep the invariant.
LEMMA PrecheckStep ==
  ASSUME IInv, NEW h \in Handlers, Precheck(h)
  PROVE  IInv'
  <1>0. TypeOK /\ LockInv /\ Core
    BY IInvSplit
  <1>1. UNCHANGED <<lockVars, indexVars, storeVars, chainVars, envVars,
                    transients, failed>>
    BY DEF Precheck, CheckExists, CheckOrphan, CheckOrphanParent,
           RemoveOrphanBlockByHash, CheckParent, AddOrphanBlock
  <1>2. Core' /\ TypeRest'
    BY <1>0, <1>1, CoreFrame, TypeRestFrame, TypeSplit
  <1>3. UNCHANGED <<holder, stage, looping>>
    BY <1>1 DEF lockVars
  <1>4. pc[h] # "idle" /\ pc[h] # "locked"
    BY DEF Precheck, CheckExists, CheckOrphan, CheckOrphanParent,
           RemoveOrphanBlockByHash, CheckParent, AddOrphanBlock
  <1>5. \/ Finish(h)
        \/ \E step \in Steps \ {"idle", "locked"} : Goto(h, step)
    BY DEF Precheck, CheckExists, CheckOrphan, CheckOrphanParent,
           RemoveOrphanBlockByHash, CheckParent, AddOrphanBlock, Steps
  <1>6. /\ pc' \in [Handlers -> Steps]
        /\ blk' \in [Handlers -> Blocks \cup {NoBlock}]
        /\ pid' \in [Handlers -> Sources]
        /\ \A k \in Handlers : pc'[k] # "idle" => blk'[k] \in Blocks \ {Genesis}
        /\ LockInv'
    BY <1>0, <1>3, <1>4, <1>5, GotoFacts, FinishFacts
  <1>7. blk[h] \in Blocks \ {Genesis} /\ pid[h] \in Sources
    BY <1>0, <1>4 DEF TypeOK
  <1>8. faultPeers' \subseteq Peers
    BY <1>0 DEF Precheck, CheckExists, CheckOrphan, CheckOrphanParent,
           RemoveOrphanBlockByHash, CheckParent, AddOrphanBlock, TypeOK,
           RecordFaultPeer
  <1>9. orphans' \subseteq Blocks \ {Genesis} /\ opid' \in [Blocks -> Sources]
    BY <1>0, <1>7 DEF Precheck, CheckExists, CheckOrphan, CheckOrphanParent,
           RemoveOrphanBlockByHash, CheckParent, AddOrphanBlock, TypeOK,
           poolVars
  <1>. QED BY <1>2, <1>6, <1>8, <1>9, Zenon
           DEF IInv, Core, TypeOK, TypeRest

-------------------------------------------------------------------------------
(* Under chainLock: what the three ways to leave connectBestChain do to    *)
(* the goroutines and to the lock.                                         *)

HandlerTypes ==
    /\ pc \in [Handlers -> Steps]
    /\ blk \in [Handlers -> Blocks \cup {NoBlock}]
    /\ pid \in [Handlers -> Sources]
    /\ \A h \in Handlers : pc[h] # "idle" => blk[h] \in Blocks \ {Genesis}

LockTypes ==
    /\ holder \in Handlers \cup {NoHandler} /\ stage \in Stages
    /\ cur \in Blocks \cup {NoBlock} /\ detach \in Nat
    /\ attach \in Seq(Blocks) /\ looping \in BOOLEAN /\ queue \in Seq(Blocks)

\* A return releases the lock.
LEMMA ReturnFacts ==
  ASSUME TypeOK, LockInv, NEW h \in Handlers, holder \in {NoHandler, h}, Return(h)
  PROVE  HandlerTypes' /\ LockTypes' /\ LockInv' /\ stage' = "free"
  <1>1. stage' = "free" /\ holder' = NoHandler /\ cur' = NoBlock /\ detach' = 0
        /\ attach' = <<>> /\ queue' = <<>>
    BY DEF Return
  <1>2. looping' \in BOOLEAN
    BY Zenon DEF Return
  <1>3. LockTypes'
    BY <1>1, <1>2 DEF LockTypes, Stages
  <1>4. HandlerTypes'
    BY DEF Return, Finish, HandlerTypes, TypeOK, Steps, Sources
  <1>5. LockInv'
    BY <1>1, EnvAssumption DEF Return, Finish, LockInv, TypeOK
  <1>. QED BY <1>1, <1>3, <1>4, <1>5

\* An accepted block keeps the lock for ProcessOrphans.
LEMMA AcceptedFacts ==
  ASSUME TypeOK, LockInv, NEW h \in Handlers, holder \in {NoHandler, h},
         NEW b \in Blocks, blk[h] \in Blocks \ {Genesis}, Accepted(h, b)
  PROVE  HandlerTypes' /\ LockTypes' /\ LockInv' /\ stage' \in {"accepted", "orphans"}
  <1>1. holder' = h /\ cur' = NoBlock /\ detach' = 0 /\ attach' = <<>>
    BY DEF Accepted
  <1>2. looping' \in BOOLEAN
    BY Zenon DEF Accepted, TypeOK
  <1>3. queue' \in Seq(Blocks)
    BY AppendFacts DEF Accepted, TypeOK
  <1>4. stage' \in {"accepted", "orphans"} /\ (stage' = "orphans" => looping')
    BY DEF Accepted
  <1>5. LockTypes'
    BY <1>1, <1>2, <1>3, <1>4 DEF LockTypes, Stages
  <1>6. HandlerTypes'
    BY DEF Accepted, Goto, HandlerTypes, TypeOK, Steps
  <1>7. LockInv'
    BY <1>1, <1>4, EnvAssumption DEF Accepted, Goto, LockInv, TypeOK
  <1>. QED BY <1>4, <1>5, <1>6, <1>7

\* A reorganisation keeps the lock.
LEMMA ReorganizeFacts ==
  ASSUME TypeOK, LockInv, NEW h \in Handlers, holder \in {NoHandler, h},
         NEW b \in Blocks, NEW n \in Nat, NEW s \in Seq(Blocks),
         blk[h] \in Blocks \ {Genesis}, Reorganize(h, b, n, s)
  PROVE  HandlerTypes' /\ LockTypes' /\ LockInv' /\ stage' = "reorg"
  <1>1. holder' = h /\ cur' = b /\ detach' = n /\ attach' = s /\ stage' = "reorg"
    BY DEF Reorganize
  <1>2. looping' \in BOOLEAN
    BY Zenon DEF Reorganize, TypeOK
  <1>3. LockTypes'
    BY <1>1, <1>2 DEF LockTypes, Stages, Reorganize, TypeOK
  <1>4. HandlerTypes'
    BY DEF Reorganize, Goto, HandlerTypes, TypeOK, Steps
  <1>5. LockInv'
    BY <1>1, EnvAssumption DEF Reorganize, Goto, LockInv, TypeOK
  <1>. QED BY <1>1, <1>3, <1>4, <1>5

\* A branch found by getReorganizeNodes: linked, indexed, on the view's fork.
LEMMA BranchFacts ==
  ASSUME TypeOK, NEW b \in Blocks, NEW p, NEW s \in Branches(b, p)
  PROVE  /\ s \in Seq(Blocks) /\ s # <<>> /\ Len(s) \in Nat /\ Len(s) >= 1
         /\ s[Len(s)] = b
         /\ \A i \in 2..Len(s) : p[s[i]] = s[i - 1]
         /\ p[s[1]] \in Range(best)
  <1>1. PICK k \in 1..Height[b] :
            /\ s \in [1..k -> Blocks]
            /\ s[k] = b
            /\ \A i \in 2..k : p[s[i]] = s[i-1]
            /\ p[s[1]] \in Range(best)
    BY DEF Branches
  <1>2. k \in Nat /\ k >= 1
    BY <1>1, BlockAssumption
  <1>3. s \in Seq(Blocks) /\ Len(s) = k
    BY <1>1, <1>2, FunSeq
  <1>. QED BY <1>1, <1>2, <1>3, EmptySeq

-------------------------------------------------------------------------------
(* maybeAcceptBlock keeps Core, whichever way connectBestChain takes.      *)

\* Storing, indexing and linking b, with any outcome of connectBestChain.
LEMMA AcceptStep ==
  ASSUME IInv, NEW h \in Handlers, holder \in {NoHandler, h},
         NEW b \in Blocks \ {Genesis}, NEW p \in Sources,
         blk[h] \in Blocks \ {Genesis},
         stage # "reorg", Acceptable(b), maybeAcceptBlock(h, b, p),
         UNCHANGED <<chainVars, envVars, transients>>
  PROVE  HandlerTypes' /\ LockInv' /\ TypeRest' /\ Core'
  <1> USE BlockAssumption
  <1>0. /\ TypeOK /\ LockInv /\ IndexInv /\ ViewMatchesDB /\ BestIsChain
        /\ TdConsistent /\ WeightInv /\ TipHeaviest
    BY DEF IInv
  <1>1. /\ best \in Seq(Blocks) /\ best' = best /\ hashAt' = hashAt
        /\ lastHeight' = lastHeight
    BY <1>0 DEF TypeOK, chainVars
  <1>2. Parent[b] \in index /\ Parent[b] \in Blocks /\ Parent[b] \in stored
    BY <1>0 DEF Acceptable, BestIsChain, TypeOK
  \* The total difficulty of b is that of its branch; no other one changes.
  <1>3. /\ td' \in [Blocks -> Nat]
        /\ td'[b] = Work[b] + td[Parent[b]]
        /\ \A c \in stored : td'[c] = td[c]
    <2>1. td \in [Blocks -> Nat] /\ stored \subseteq Blocks /\ Work[b] \in Nat
          /\ td[Parent[b]] \in Nat
      BY <1>0, <1>2 DEF TypeOK
    <2>2. CASE b \in stored
      <3>1. td' = td
        BY <2>2 DEF maybeAcceptBlock, dbMaybeStoreBlock
      <3>. QED BY <1>0, <2>1, <2>2, <3>1 DEF TdConsistent
    <2>3. CASE b \notin stored
      <3>1. td' = [td EXCEPT ![b] = Work[b] + td[Parent[b]]]
        BY <2>3 DEF maybeAcceptBlock, dbMaybeStoreBlock
      <3>. QED BY <2>1, <2>3, <3>1
    <2>. QED BY <2>2, <2>3
  <1>4. stored' = stored \cup {b} /\ index' = index \cup {b}
    BY DEF maybeAcceptBlock, dbMaybeStoreBlock, AddNode
  <1>5. TdConsistent'
    BY <1>0, <1>2, <1>3, <1>4 DEF TdConsistent, TypeOK
  <1>6. ViewMatchesDB'
    BY <1>0, <1>1 DEF ViewMatchesDB
  <1>7. BestIsChain'
    BY <1>0, <1>1, <1>4 DEF BestIsChain
  <1>8. par' = LinkNode(b) /\ par' \in [Blocks -> Blocks \cup {NoBlock}]
    BY <1>0 DEF maybeAcceptBlock, AddNode, LinkNode, TypeOK
  <1>9. IndexInv'
    BY <1>0, <1>2, <1>4, <1>8 DEF IndexInv, LinkNode, Acceptable
  <1>10. \A i \in 1..Len(best) : best[i] \in stored /\ td'[best[i]] = td[best[i]]
    BY <1>0, <1>1, <1>3, RangeFacts DEF BestIsChain
  <1>11. \A i, j \in 1..Len(best) : i <= j => td'[best[i]] <= td'[best[j]]
    BY <1>0, <1>10 DEF WeightInv
  <1>12. \A c \in index : c \in stored /\ td'[c] = td[c]
    BY <1>0, <1>3 DEF BestIsChain
  <1>13. best # <<>> => /\ Len(best) \in 1..Len(best) /\ Tip \in Blocks
                        /\ Tip' = Tip /\ td'[Tip] = td[Tip] /\ td[Tip] \in Nat
    <2>1. Tip' = Tip
      BY <1>1, Zenon DEF Tip
    <2>2. best # <<>> => Len(best) \in 1..Len(best) /\ Tip \in Blocks
      BY <1>1, EmptySeq DEF Tip
    <2>3. td \in [Blocks -> Nat]
      BY <1>0 DEF TypeOK
    <2>. QED BY <2>1, <2>2, <2>3, <1>10 DEF Tip
  <1>14. npid' \in [Blocks -> Sources] /\ errLog' \subseteq Blocks
    BY <1>0 DEF maybeAcceptBlock, AddNode, TypeOK
  <1>15. pregen' \in BOOLEAN /\ closed' \in BOOLEAN /\ boots' \in 0..MaxBoots
         /\ transients' \in 0..MaxTransient
    BY <1>0, Zenon DEF TypeOK, envVars
  <1>16. failed' \in BOOLEAN
    BY <1>0, Zenon DEF maybeAcceptBlock, connectBestChain, TypeOK
  <1>17. LockTypes' => TypeRest'
    <2>1. index' \subseteq Blocks /\ stored' \subseteq Blocks
      <3>1. index \subseteq Blocks /\ stored \subseteq Blocks
        BY <1>0, Zenon DEF TypeOK
      <3>. QED BY <1>4, <3>1
    <2>2. /\ best' \in Seq(Blocks) /\ lastHeight' \in Nat \cup {-1}
          /\ hashAt' \in [Heights -> Blocks \cup {NoBlock}]
      BY <1>0, <1>1 DEF TypeOK
    <2>. QED BY <1>3, <1>8, <1>14, <1>15, <1>16, <2>1, <2>2, Zenon
             DEF LockTypes, TypeRest
  <1>18. connectBestChain(h, b)
    BY DEF maybeAcceptBlock
  <1>19. td[Parent[b]] \in Nat /\ Work[b] \in Nat
    BY <1>0, <1>2 DEF TypeOK
  \* Without a failure the old tip outweighs the old index.
  <1>20. ~failed => best # <<>> /\ \A c \in index : td'[c] <= td[Tip]
    BY <1>0, <1>12 DEF TipHeaviest
  <1>21. \A c \in index : td'[c] \in Nat
    BY <1>0, <1>3 DEF TypeOK
  \* If b does not take over from the tip, the tip stays the heaviest.
  <1>22. ASSUME ~failed => ~PreferToTip(b)
         PROVE  ~failed => best' # <<>> /\ \A c \in index' : td'[c] <= td'[Tip']
    <2>1. SUFFICES ASSUME ~failed PROVE best' # <<>> /\ \A c \in index' : td'[c] <= td'[Tip']
      OBVIOUS
    <2>2. best # <<>> /\ \A c \in index : td'[c] <= td[Tip]
      BY <2>1, <1>20
    <2>3. Work[b] + td[Parent[b]] <= td[Tip]
      BY <2>1, <2>2, <1>22, <1>13, <1>19 DEF PreferToTip
    <2>4. td'[Tip'] = td[Tip] /\ best' # <<>>
      BY <2>2, <1>13, <1>1
    <2>. QED BY <2>2, <2>3, <2>4, <1>3, <1>4
  \* If b takes over, it outweighs the index.
  <1>23. ASSUME best # <<>>, PreferToTip(b) \/ Parent[b] = Tip
         PROVE  ~failed => \A c \in index' : td'[c] <= td'[b]
    <2>1. SUFFICES ASSUME ~failed PROVE \A c \in index' : td'[c] <= td'[b]
      OBVIOUS
    <2>2. \A c \in index : td'[c] <= td[Tip]
      BY <2>1, <1>20
    <2>3. td[Tip] <= Work[b] + td[Parent[b]]
      BY <1>23, <1>13, <1>19 DEF PreferToTip
    <2>4. td[Tip] \in Nat
      BY <1>23, <1>13
    <2>. QED BY <2>2, <2>3, <2>4, <1>3, <1>4, <1>19, <1>21
  <1>A. CASE Return(h) /\ (failed' \/ (failed' = failed /\ (~failed => ~PreferToTip(b))))
    <2>1. HandlerTypes' /\ LockTypes' /\ LockInv' /\ stage' = "free"
      BY <1>0, <1>A, ReturnFacts
    <2>2. SessionInv' /\ WeightInv'
      BY <2>1, <1>11, <1>1 DEF SessionInv, WeightInv
    <2>3. CASE failed'
      <3>1. TipHeaviest'
        BY <2>3 DEF TipHeaviest
      <3>. QED BY <2>1, <2>2, <3>1, <1>5, <1>6, <1>7, <1>9, <1>17 DEF Core
    <2>4. CASE failed' = failed /\ (~failed => ~PreferToTip(b))
      <3>1. TipHeaviest'
        BY <2>4, <1>22, Zenon DEF TipHeaviest
      <3>. QED BY <2>1, <2>2, <3>1, <1>5, <1>6, <1>7, <1>9, <1>17 DEF Core
    <2>. QED BY <1>A, <2>3, <2>4
  <1>B. CASE Accepted(h, b) /\ failed' = failed /\ ~PreferToTip(b)
    <2>1. HandlerTypes' /\ LockTypes' /\ LockInv' /\ stage' \in {"accepted", "orphans"}
      BY <1>0, <1>B, AcceptedFacts
    <2>2. SessionInv' /\ WeightInv'
      BY <2>1, <1>11, <1>1 DEF SessionInv, WeightInv
    <2>3. TipHeaviest'
      BY <1>B, <1>22, Zenon DEF TipHeaviest
    <2>. QED BY <2>1, <2>2, <2>3, <1>5, <1>6, <1>7, <1>9, <1>17 DEF Core
  \* A reorganisation onto the branch s that forks off at best[f].
  <1>C. ASSUME NEW f \in 1..Len(best), NEW s \in Seq(Blocks), s # <<>>,
               Reorganize(h, b, Len(best) - f, s), failed' = failed, best # <<>>,
               PreferToTip(b) \/ Parent[b] = Tip,
               s[Len(s)] = b, par'[s[1]] = best[f],
               \A i \in 2..Len(s) : par'[s[i]] = s[i - 1]
        PROVE  HandlerTypes' /\ LockInv' /\ TypeRest' /\ Core'
    <2>0. Len(best) \in Nat /\ Len(best) - f \in Nat
      BY <1>1
    <2>1. HandlerTypes' /\ LockTypes' /\ LockInv' /\ stage' = "reorg"
      BY <1>0, <1>C, <2>0, ReorganizeFacts
    <2>2. cur' = b /\ detach' = Len(best) - f /\ attach' = s
      BY <1>C DEF Reorganize
    <2>3. SessionInv'
      <3>1. Len(best) - (Len(best) - f) = f /\ Len(best) - f < Len(best)
        BY <2>0
      <3>. QED BY <1>C, <1>1, <2>0, <2>1, <2>2, <3>1 DEF SessionInv
    <2>4. WeightInv'
      BY <1>1, <1>11, <1>23, <1>C, <2>1, <2>2 DEF WeightInv
    <2>5. TipHeaviest'
      BY <2>1 DEF TipHeaviest
    <2>. QED BY <2>1, <2>3, <2>4, <2>5, <1>5, <1>6, <1>7, <1>9, <1>17 DEF Core
  \* No fork point: the whole view is to be detached.
  <1>D. CASE Reorganize(h, b, Len(best), <<>>) /\ failed' /\ best # <<>>
    <2>0. Len(best) \in Nat /\ Len(best) > 0 /\ <<>> \in Seq(Blocks)
      BY <1>1, <1>D, EmptySeq
    <2>1. HandlerTypes' /\ LockTypes' /\ LockInv' /\ stage' = "reorg"
      BY <1>0, <1>D, <2>0, ReorganizeFacts
    <2>2. cur' = b /\ detach' = Len(best) /\ attach' = <<>>
      BY <1>D DEF Reorganize
    <2>3. SessionInv'
      <3>1. b \in Blocks /\ Len(best) <= Len(best) /\ best' # <<>>
        BY <1>D, <1>1, <2>0
      <3>. QED BY <1>D, <1>1, <2>0, <2>2, <3>1 DEF SessionInv
    <2>4. WeightInv' /\ TipHeaviest'
      BY <1>D, <1>1, <1>11, <2>1 DEF WeightInv, TipHeaviest
    <2>. QED BY <2>1, <2>3, <2>4, <1>5, <1>6, <1>7, <1>9, <1>17 DEF Core
  <1>E. CASE best = <<>>
    <2>1. Return(h) /\ failed' = failed /\ failed
      BY <1>E, <1>18, <1>20 DEF connectBestChain
    <2>. QED BY <2>1, <1>A
  <1>F. CASE best # <<>> /\ Parent[b] = Tip
    <2>1. Reorganize(h, b, 0, <<b>>) /\ failed' = failed
      BY <1>F, <1>18 DEF connectBestChain
    <2>2. Len(best) \in 1..Len(best) /\ Len(best) - Len(best) = 0
      BY <1>F, <1>13, <1>1
    <2>3. /\ <<b>> \in Seq(Blocks) /\ <<b>> # <<>> /\ Len(<<b>>) = 1 /\ <<b>>[1] = b
          /\ \A i \in 2..Len(<<b>>) : par'[<<b>>[i]] = <<b>>[i - 1]
      BY OneSeq
    <2>4. par'[b] = best[Len(best)]
      BY <1>8, <1>F DEF LinkNode, Tip
    <2>. QED BY <2>1, <2>2, <2>3, <2>4, <1>C, <1>F
  <1>G. CASE best # <<>> /\ Parent[b] # Tip /\ ~PreferToTip(b)
    <2>1. (Return(h) \/ Accepted(h, b)) /\ failed' = failed
      BY <1>G, <1>18 DEF connectBestChain
    <2>. QED BY <2>1, <1>A, <1>B, <1>G
  <1>H. CASE best # <<>> /\ Parent[b] # Tip /\ PreferToTip(b)
    <2>1. CASE \E s \in Branches(b, par') : \E f \in 1..Len(best) :
                  /\ best[f] = par'[s[1]]
                  /\ Reorganize(h, b, Len(best) - f, s)
                  /\ failed' = failed
      <3>1. PICK s \in Branches(b, par'), f \in 1..Len(best) :
                  /\ best[f] = par'[s[1]]
                  /\ Reorganize(h, b, Len(best) - f, s)
                  /\ failed' = failed
        BY <2>1
      <3>2. /\ s \in Seq(Blocks) /\ s # <<>> /\ s[Len(s)] = b
            /\ \A i \in 2..Len(s) : par'[s[i]] = s[i - 1]
        BY <1>0, BranchFacts
      <3>. QED BY <3>1, <3>2, <1>C, <1>H
    <2>2. CASE failed' /\ (Return(h) \/ Reorganize(h, b, Len(best), <<>>))
      BY <2>2, <1>A, <1>D, <1>H
    <2>. QED BY <2>1, <2>2, <1>H, <1>8, <1>18, Zenon DEF connectBestChain
  <1>. QED BY <1>E, <1>F, <1>G, <1>H

-------------------------------------------------------------------------------
(* The steps under chainLock.                                              *)

\* What a step has to keep besides Core, LockInv and the goroutines.
LEMMA IInvJoin ==
  HandlerTypes' /\ LockInv' /\ TypeRest' /\ Core'
    /\ orphans' \subseteq Blocks \ {Genesis} /\ opid' \in [Blocks -> Sources]
    /\ faultPeers' \subseteq Peers
    => IInv'
  BY Zenon DEF IInv, Core, TypeOK, TypeRest, HandlerTypes

\* The goroutine that holds chainLock has a block.
LEMMA HolderFacts ==
  ASSUME IInv, NEW h \in Handlers, holder = h
  PROVE  blk[h] \in Blocks \ {Genesis} /\ pc[h] = "locked"
  <1>1. TypeOK /\ LockInv
    BY DEF IInv
  <1>. QED BY <1>1 DEF TypeOK, LockInv

\* A step outside a reorganisation that moves the lock only keeps Core.
LEMMA SameChain ==
  ASSUME Core, stage # "reorg", stage' # "reorg",
         UNCHANGED <<indexVars, storeVars, chainVars, failed>>
  PROVE  Core'
  <1>1. /\ index' = index /\ par' = par /\ stored' = stored /\ td' = td
        /\ best' = best /\ hashAt' = hashAt /\ lastHeight' = lastHeight
        /\ failed' = failed
    BY DEF indexVars, storeVars, chainVars
  <1>2. IndexInv' /\ BestIsChain' /\ TdConsistent' /\ ViewMatchesDB'
    BY <1>1 DEF Core, IndexInv, BestIsChain, TdConsistent, ViewMatchesDB
  <1>3. SessionInv'
    BY DEF SessionInv
  <1>4. WeightInv' /\ TipHeaviest'
    BY <1>1 DEF Core, WeightInv, TipHeaviest, Tip
  <1>. QED BY <1>2, <1>3, <1>4 DEF Core

\* The types of everything but the lock, for a step that moves the lock.
LEMMA LockOnly ==
  ASSUME TypeOK, LockTypes',
         UNCHANGED <<indexVars, storeVars, chainVars, envVars, transients, failed>>
  PROVE  TypeRest'
  BY Zenon DEF TypeOK, LockTypes, TypeRest, indexVars, storeVars, chainVars, envVars

\* maybeAddBestChain keeps the invariant.
LEMMA MaybeAddBestChainStep ==
  ASSUME IInv, NEW h \in Handlers, maybeAddBestChain(h)
  PROVE  IInv'
  <1>0. TypeOK /\ LockInv /\ Core
    BY IInvSplit
  <1>1. blk[h] \in Blocks \ {Genesis} /\ pid[h] \in Sources /\ pc[h] = "lock"
        /\ holder = NoHandler /\ stage = "free"
    BY <1>0 DEF TypeOK, LockInv, maybeAddBestChain
  <1>2. /\ orphans' \subseteq Blocks \ {Genesis}
        /\ opid' \in [Blocks -> Sources]
        /\ faultPeers' \subseteq Peers
    BY <1>0 DEF TypeOK, maybeAddBestChain, poolVars
  <1>3. UNCHANGED <<chainVars, envVars, transients>>
    BY DEF maybeAddBestChain
  <1>4. CASE Acceptable(blk[h]) /\ maybeAcceptBlock(h, blk[h], pid[h])
    <2>1. HandlerTypes' /\ LockInv' /\ TypeRest' /\ Core'
      BY <1>1, <1>3, <1>4, AcceptStep
    <2>. QED BY <2>1, <1>2, IInvJoin
  <1>5. CASE Finish(h) /\ UNCHANGED <<lockVars, indexVars, storeVars, failed>>
    <2>1. Core' /\ TypeRest'
      BY <1>0, <1>3, <1>5, CoreFrame, TypeRestFrame, TypeSplit
    <2>2. HandlerTypes' /\ LockInv'
      BY <1>0, <1>1, <1>5, FinishFacts DEF HandlerTypes, lockVars
    <2>. QED BY <2>1, <2>2, <1>2, IInvJoin
  <1>. QED BY <1>4, <1>5 DEF maybeAddBestChain

\* ProcessOrphan keeps the invariant.
LEMMA ProcessOrphanStep ==
  ASSUME IInv, NEW h \in Handlers, NEW c \in orphans, ProcessOrphan(h, c)
  PROVE  IInv'
  <1>0. TypeOK /\ LockInv /\ Core
    BY IInvSplit
  <1>1. holder = h /\ stage = "orphans"
    BY DEF ProcessOrphan
  <1>2. blk[h] \in Blocks \ {Genesis} /\ c \in Blocks \ {Genesis}
        /\ opid[c] \in Sources
    BY <1>0, <1>1, HolderFacts DEF TypeOK
  <1>3. /\ orphans' \subseteq Blocks \ {Genesis}
        /\ opid' \in [Blocks -> Sources]
        /\ faultPeers' \subseteq Peers
    BY <1>0 DEF TypeOK, ProcessOrphan
  <1>4. UNCHANGED <<chainVars, envVars, transients>>
    BY DEF ProcessOrphan
  <1>5. CASE Acceptable(c) /\ maybeAcceptBlock(h, c, opid[c])
    <2>1. HandlerTypes' /\ LockInv' /\ TypeRest' /\ Core'
      BY <1>1, <1>2, <1>4, <1>5, AcceptStep
    <2>. QED BY <2>1, <1>3, IInvJoin
  <1>6. CASE Return(h) /\ UNCHANGED <<indexVars, storeVars, failed>>
    <2>1. HandlerTypes' /\ LockTypes' /\ LockInv' /\ stage' = "free"
      BY <1>0, <1>1, <1>6, ReturnFacts
    <2>2. Core'
      BY <1>0, <1>1, <1>4, <1>6, <2>1, SameChain
    <2>3. TypeRest'
      BY <1>0, <1>4, <1>6, <2>1, LockOnly
    <2>. QED BY <2>1, <2>2, <2>3, <1>3, IInvJoin
  <1>. QED BY <1>5, <1>6 DEF ProcessOrphan

\* Where the view and the next block are while a reorganisation is running.
LEMMA TipFacts ==
  ASSUME IInv, best # <<>>
  PROVE  /\ best \in Seq(Blocks) /\ Len(best) \in Nat /\ Len(best) >= 1
         /\ Tip \in Blocks /\ Height[Tip] = Len(best) - 1
         /\ lastHeight = Len(best) - 1 /\ Tip \in index
  <1>1. best \in Seq(Blocks)
    BY DEF IInv, TypeOK
  <1>2. Len(best) \in Nat /\ Len(best) >= 1
    BY <1>1, EmptySeq
  <1>3. Len(best) \in 1..Len(best) /\ Tip = best[Len(best)]
    BY <1>2 DEF Tip
  <1>4. Tip \in Blocks /\ Tip \in Range(best)
    BY <1>1, <1>3, RangeFacts
  <1>5. Height[Tip] = Len(best) - 1 /\ Tip \in index
    BY <1>3, <1>4 DEF IInv, BestIsChain
  <1>6. lastHeight = Len(best) - 1
    BY DEF IInv, ViewMatchesDB
  <1>. QED BY <1>1, <1>2, <1>4, <1>5, <1>6

\* disconnectBlock keeps the invariant.
LEMMA DisconnectStep ==
  ASSUME IInv, NEW h \in Handlers, disconnectBlock(h)
  PROVE  IInv'
  <1> USE BlockAssumption
  <1>0. TypeOK /\ LockInv /\ IndexInv /\ SessionInv /\ ViewMatchesDB
        /\ BestIsChain /\ TdConsistent /\ WeightInv
    BY DEF IInv
  <1>1. holder = h /\ stage = "reorg" /\ detach > 0 /\ detach \in Nat
    BY <1>0 DEF disconnectBlock, TypeOK
  <1>2. detach <= Len(best) /\ best \in Seq(Blocks) /\ Len(best) \in Nat
    BY <1>0, <1>1 DEF SessionInv, TypeOK
  <1>3. best # <<>> /\ Len(best) >= 1
    BY <1>1, <1>2, EmptySeq
  <1>4. Tip \in Blocks /\ Height[Tip] = Len(best) - 1
    BY <1>3, TipFacts
  <1>5. /\ best' \in Seq(Blocks) /\ Len(best') = Len(best) - 1
        /\ \A i \in 1..(Len(best) - 1) : best'[i] = best[i]
    BY <1>2, <1>3, FrontFacts DEF disconnectBlock
  <1>6. UNCHANGED <<index, par, npid, errLog, orphans, opid, stored, td, pregen,
                    closed, boots, faultPeers, transients, failed>>
    BY DEF disconnectBlock, indexVars, poolVars, storeVars, envVars
  <1>7. /\ hashAt' = [hashAt EXCEPT ![Len(best) - 1] = NoBlock]
        /\ lastHeight' = Len(best) - 2 /\ Len(best) - 1 \in Heights
        /\ hashAt \in [Heights -> Blocks \cup {NoBlock}]
        /\ \A k \in Heights : k \in Nat
    <2>1. Len(best) - 1 \in Heights /\ \A k \in Heights : k \in Nat
      BY <1>4 DEF Heights
    <2>2. lastHeight' = Len(best) - 2
      BY <1>2, <1>4 DEF disconnectBlock, DelBlock
    <2>. QED BY <1>0, <1>4, <2>1, <2>2 DEF disconnectBlock, DelBlock, TypeOK
  <1>8. ViewMatchesDB'
    <2>1. ASSUME NEW k \in Heights
          PROVE  hashAt'[k] = IF k < Len(best') THEN best'[k + 1] ELSE NoBlock
      <3>1. k \in Nat /\ hashAt[k] = IF k < Len(best) THEN best[k + 1] ELSE NoBlock
        BY <1>0, <1>7, <2>1 DEF ViewMatchesDB
      <3>2. CASE k < Len(best) - 1
        <4>1. k + 1 \in 1..(Len(best) - 1) /\ k < Len(best) /\ k # Len(best) - 1
          BY <1>2, <3>1, <3>2
        <4>. QED BY <1>2, <1>5, <1>7, <2>1, <3>1, <3>2, <4>1
      <3>3. CASE k = Len(best) - 1
        BY <1>2, <1>5, <1>7, <2>1, <3>3
      <3>4. CASE k > Len(best) - 1
        BY <1>2, <1>5, <1>7, <2>1, <3>1, <3>4
      <3>. QED BY <1>2, <3>1, <3>2, <3>3, <3>4
    <2>2. lastHeight' = Len(best') - 1
      BY <1>2, <1>5, <1>7
    <2>. QED BY <2>1, <2>2 DEF ViewMatchesDB
  <1>14. \A i \in 1..Len(best') : best'[i] = best[i] /\ i \in 1..Len(best)
    <2>1. ASSUME NEW i \in 1..Len(best')
          PROVE  i \in 1..(Len(best) - 1) /\ i \in 1..Len(best)
      BY <1>2, <1>5
    <2>. QED BY <1>5, <2>1, Zenon
  <1>9. BestIsChain'
    <2>1. Range(best') \subseteq Range(best)
      <3>1. ASSUME NEW e \in Range(best') PROVE e \in Range(best)
        <4>1. PICK i \in 1..Len(best') : best'[i] = e
          BY <1>5, <3>1, RangeFacts
        <4>. QED BY <1>2, <1>14, <4>1, RangeFacts
      <3>. QED BY <3>1
    <2>2. Range(best') \subseteq index' /\ index' \subseteq stored'
      BY <1>0, <1>6, <2>1 DEF BestIsChain
    <2>3. best' # <<>> => best'[1] = Genesis
      <3>1. best' # <<>> => 1 \in 1..(Len(best) - 1)
        BY <1>2, <1>5, EmptySeq
      <3>. QED BY <1>0, <1>3, <1>5, <3>1 DEF BestIsChain
    <2>4. \A i \in 1..Len(best') : Height[best'[i]] = i - 1
      BY <1>0, <1>14, Zenon DEF BestIsChain
    <2>5. ASSUME NEW i \in 2..Len(best')
          PROVE  Parent[best'[i]] = best'[i - 1]
      <3>1. i \in 1..Len(best') /\ i - 1 \in 1..Len(best') /\ i \in 2..Len(best)
        <4>1. Len(best') = Len(best) - 1 /\ Len(best) \in Nat
          BY <1>2, <1>5, Zenon
        <4>. QED BY <4>1
      <3>2. Parent[best[i]] = best[i - 1]
        BY <1>0, <3>1 DEF BestIsChain
      <3>. QED BY <1>14, <3>1, <3>2
    <2>. QED BY <2>2, <2>3, <2>4, <2>5 DEF BestIsChain
  <1>10. IndexInv' /\ TdConsistent'
    BY <1>0, <1>6 DEF IndexInv, TdConsistent
  <1>11. \A i, j \in 1..Len(best') : i <= j => td'[best'[i]] <= td'[best'[j]]
    BY <1>0, <1>6, <1>14 DEF WeightInv
  <1>12. /\ orphans' \subseteq Blocks \ {Genesis} /\ opid' \in [Blocks -> Sources]
         /\ faultPeers' \subseteq Peers
    BY <1>0, <1>6 DEF TypeOK
  <1>13. LockTypes' => TypeRest'
    <2>1. /\ index' \subseteq Blocks /\ par' \in [Blocks -> Blocks \cup {NoBlock}]
          /\ npid' \in [Blocks -> Sources] /\ errLog' \subseteq Blocks
          /\ stored' \subseteq Blocks /\ td' \in [Blocks -> Nat]
          /\ pregen' \in BOOLEAN /\ closed' \in BOOLEAN /\ failed' \in BOOLEAN
          /\ boots' \in 0..MaxBoots /\ transients' \in 0..MaxTransient
      BY <1>0, <1>6, Zenon DEF TypeOK
    <2>2. /\ hashAt' \in [Heights -> Blocks \cup {NoBlock}]
          /\ lastHeight' \in Nat \cup {-1}
      <3>1. lastHeight' \in Nat \cup {-1}
        <4>1. lastHeight' = Len(best) - 2 /\ Len(best) \in Nat /\ Len(best) >= 1
          BY <1>2, <1>3, <1>7, Zenon
        <4>. QED BY <4>1, HeightBelow
      <3>2. NoBlock \in Blocks \cup {NoBlock}
        OBVIOUS
      <3>. QED BY <1>7, <3>1, <3>2
    <2>. QED BY <1>5, <2>1, <2>2, Zenon DEF LockTypes, TypeRest
  <1>A. CASE Len(best) = 1
    <2>1. attach = <<>> /\ failed /\ failed'
      BY <1>0, <1>1, <1>2, <1>6, <1>A DEF SessionInv
    <2>2. HandlerTypes' /\ LockTypes' /\ LockInv' /\ stage' = "free"
      BY <1>0, <1>1, <1>A, ReturnFacts DEF disconnectBlock
    <2>3. SessionInv' /\ TipHeaviest' /\ WeightInv'
      BY <1>11, <2>1, <2>2 DEF SessionInv, TipHeaviest, WeightInv
    <2>. QED BY <1>8, <1>9, <1>10, <1>12, <1>13, <2>2, <2>3, IInvJoin DEF Core
  <1>B. CASE Len(best) # 1
    <2>1. /\ detach' = detach - 1
          /\ UNCHANGED <<pc, blk, pid, holder, stage, cur, attach, looping, queue>>
      BY <1>B DEF disconnectBlock, handlerVars
    <2>2. HandlerTypes' /\ LockTypes' /\ LockInv'
      <3>1. HandlerTypes' /\ LockInv'
        BY <1>0, <2>1 DEF HandlerTypes, TypeOK, LockInv
      <3>2. detach' \in Nat
        BY <1>1, <2>1
      <3>. QED BY <1>0, <2>1, <3>1, <3>2, Zenon DEF LockTypes, TypeOK
    <2>3. SessionInv'
      <3>1. cur' \in Blocks /\ detach' <= Len(best')
        BY <1>0, <1>1, <1>2, <1>5, <2>1 DEF SessionInv
      <3>2. attach' = <<>> => detach' = Len(best') /\ best' # <<>> /\ failed'
        <4>1. attach = <<>> => detach = Len(best) /\ failed
          BY <1>0, <1>1 DEF SessionInv
        <4>2. Len(best') # 0
          BY <1>2, <1>5, <1>B
        <4>. QED BY <1>2, <1>5, <1>6, <2>1, <4>1, <4>2, EmptySeq
      <3>3. attach' # <<>> =>
              /\ detach' < Len(best')
              /\ par'[attach'[1]] = best'[Len(best') - detach']
              /\ \A i \in 2..Len(attach') : par'[attach'[i]] = attach'[i - 1]
              /\ attach'[Len(attach')] = cur'
        <4>1. SUFFICES ASSUME attach # <<>>
                       PROVE  /\ detach' < Len(best')
                              /\ par'[attach'[1]] = best'[Len(best') - detach']
                              /\ \A i \in 2..Len(attach') : par'[attach'[i]] = attach'[i - 1]
                              /\ attach'[Len(attach')] = cur'
          BY <2>1
        <4>2. /\ detach < Len(best)
              /\ par[attach[1]] = best[Len(best) - detach]
              /\ \A i \in 2..Len(attach) : par[attach[i]] = attach[i - 1]
              /\ attach[Len(attach)] = cur
          BY <1>0, <1>1, <4>1 DEF SessionInv
        <4>3. /\ Len(best') - detach' = Len(best) - detach
              /\ Len(best) - detach \in 1..(Len(best) - 1)
              /\ detach' < Len(best')
          <5>1. Len(best') = Len(best) - 1 /\ detach' = detach - 1 /\ detach < Len(best)
                /\ detach \in Nat /\ Len(best) \in Nat /\ detach > 0
            BY <1>1, <1>2, <1>5, <2>1, <4>2, Zenon
          <5>. QED BY <5>1
        <4>. QED BY <1>5, <1>6, <2>1, <4>2, <4>3
      <3>. QED BY <3>1, <3>2, <3>3 DEF SessionInv
    <2>4. WeightInv'
      <3>1. stage' = "reorg" /\ ~failed' => \A b \in index' : td'[b] <= td'[cur']
        BY <1>0, <1>1, <1>6, <2>1 DEF WeightInv
      <3>. QED BY <1>11, <3>1 DEF WeightInv
    <2>5. TipHeaviest'
      BY <1>1, <2>1 DEF TipHeaviest
    <2>. QED BY <1>8, <1>9, <1>10, <1>12, <1>13, <2>2, <2>3, <2>4, <2>5, IInvJoin
             DEF Core
  <1>. QED BY <1>A, <1>B

\* disconnectBlockFails keeps the invariant.
LEMMA DisconnectFailsStep ==
  ASSUME IInv, NEW h \in Handlers, disconnectBlockFails(h)
  PROVE  IInv'
  <1>0. TypeOK /\ LockInv /\ IndexInv /\ SessionInv /\ ViewMatchesDB
        /\ BestIsChain /\ TdConsistent /\ WeightInv
    BY DEF IInv
  <1>1. holder = h /\ Return(h) /\ failed'
    BY DEF disconnectBlockFails
  <1>2. HandlerTypes' /\ LockTypes' /\ LockInv' /\ stage' = "free"
    BY <1>0, <1>1, ReturnFacts
  <1>3. UNCHANGED <<index, par, npid, errLog, orphans, opid, stored, td, best, hashAt,
                    lastHeight, pregen, closed, boots, faultPeers>>
    BY DEF disconnectBlockFails, indexVars, poolVars, storeVars, chainVars, envVars
  <1>4. Core'
    <2>1. IndexInv' /\ ViewMatchesDB' /\ BestIsChain' /\ TdConsistent'
      BY <1>0, <1>3 DEF IndexInv, ViewMatchesDB, BestIsChain, TdConsistent
    <2>2. SessionInv' /\ WeightInv' /\ TipHeaviest'
      BY <1>0, <1>1, <1>2, <1>3 DEF SessionInv, WeightInv, TipHeaviest
    <2>. QED BY <2>1, <2>2 DEF Core
  <1>5. transients' \in 0..MaxTransient
    BY <1>0, EnvAssumption DEF TypeOK, disconnectBlockFails
  <1>6. failed' \in BOOLEAN
    BY Zenon DEF disconnectBlockFails
  <1>7. TypeRest'
    BY <1>0, <1>2, <1>3, <1>5, <1>6, Zenon DEF TypeOK, LockTypes, TypeRest
  <1>8. /\ orphans' \subseteq Blocks \ {Genesis} /\ opid' \in [Blocks -> Sources]
        /\ faultPeers' \subseteq Peers
    BY <1>0, <1>3 DEF TypeOK
  <1>. QED BY <1>2, <1>4, <1>7, <1>8, IInvJoin

\* The next block of a reorganisation is indexed, is above the view and fits
\* its tip by hash and by pointer.
LEMMA AttachFacts ==
  ASSUME IInv, stage = "reorg", detach = 0, attach # <<>>
  PROVE  /\ best # <<>> /\ attach \in Seq(Blocks) /\ Len(attach) \in Nat
         /\ Len(attach) >= 1 /\ Head(attach) = attach[1]
         /\ attach[1] \in Blocks /\ attach[1] \in index /\ attach[1] # Genesis
         /\ Parent[attach[1]] = Tip /\ par[attach[1]] = Tip
         /\ Height[attach[1]] = Len(best) /\ attach[1] \notin Range(best)
  <1> USE BlockAssumption
  <1>0. TypeOK /\ IndexInv /\ SessionInv /\ BestIsChain
    BY DEF IInv
  <1>1. /\ attach \in Seq(Blocks) /\ Head(attach) = attach[1] /\ attach[1] \in Blocks
        /\ Len(attach) \in Nat /\ Len(attach) >= 1
    BY <1>0, TailFacts DEF TypeOK
  <1>2. best \in Seq(Blocks) /\ Len(best) \in Nat
    BY <1>0 DEF TypeOK
  <1>3. 0 < Len(best) /\ par[attach[1]] = best[Len(best) - 0]
    BY <1>0 DEF SessionInv
  <1>4. best # <<>> /\ par[attach[1]] = Tip
    BY <1>2, <1>3, EmptySeq DEF Tip
  <1>5. Tip \in Blocks /\ Height[Tip] = Len(best) - 1
    BY <1>4, TipFacts
  <1>6. par[attach[1]] # NoBlock
    BY <1>4, <1>5
  <1>7. Parent[attach[1]] = Tip /\ attach[1] \in index /\ attach[1] # Genesis
    BY <1>0, <1>1, <1>4, <1>5, <1>6 DEF IndexInv
  <1>8. Height[attach[1]] = Len(best)
    BY <1>0, <1>2, <1>5, <1>7 DEF IndexInv
  <1>9. attach[1] \notin Range(best)
    <2>1. SUFFICES ASSUME attach[1] \in Range(best) PROVE FALSE
      OBVIOUS
    <2>2. PICK i \in 1..Len(best) : best[i] = attach[1]
      BY <1>2, <2>1, RangeFacts
    <2>3. Height[best[i]] = i - 1
      BY <1>0, <2>2 DEF BestIsChain
    <2>. QED BY <1>2, <1>8, <2>2, <2>3
  <1>. QED BY <1>1, <1>4, <1>7, <1>8, <1>9

\* connectBlockFails keeps the invariant.
LEMMA ConnectFailsStep ==
  ASSUME IInv, NEW h \in Handlers, connectBlockFails(h)
  PROVE  IInv'
  <1> USE BlockAssumption
  <1>0. TypeOK /\ LockInv /\ IndexInv /\ SessionInv /\ ViewMatchesDB
        /\ BestIsChain /\ TdConsistent /\ WeightInv
    BY DEF IInv
  <1> DEFINE b == Head(attach)
  <1>1. /\ holder = h /\ stage = "reorg" /\ detach = 0 /\ attach # <<>>
        /\ Return(h) /\ failed' /\ transients' \in {transients, transients + 1}
        /\ (transients' # transients => transients < MaxTransient)
    BY DEF connectBlockFails
  <1>2. b \in Blocks /\ b \notin Range(best) /\ b \in index
    BY <1>1, AttachFacts
  <1>3. UNCHANGED <<orphans, opid, stored, td, best, hashAt, lastHeight, pregen,
                    closed, boots>>
    BY DEF connectBlockFails, poolVars, storeVars, chainVars, envVars
  <1>4. \/ UNCHANGED <<index, par, npid, errLog, faultPeers>>
        \/ handleErrBlk(b, FALSE)
        \/ handleErrBlk(b, TRUE)
    BY DEF connectBlockFails, indexVars
  <1> HIDE DEF b
  <1>5. /\ npid' = npid /\ errLog' \subseteq errLog \cup {b}
        /\ faultPeers' \subseteq faultPeers \cup Peers
        /\ \/ index' = index /\ par' = par
           \/ /\ index' = index \ {b}
              /\ par' = [d \in Blocks |-> IF d = b \/ par[d] = b
                                            THEN NoBlock ELSE par[d]]
    BY <1>4 DEF handleErrBlk, RecordFaultPeer
  <1>6. IndexInv'
    BY <1>0, <1>5 DEF IndexInv
  <1>7. BestIsChain'
    BY <1>0, <1>2, <1>3, <1>5 DEF BestIsChain
  <1>8. TdConsistent' /\ ViewMatchesDB'
    BY <1>0, <1>3 DEF TdConsistent, ViewMatchesDB
  <1>9. HandlerTypes' /\ LockTypes' /\ LockInv' /\ stage' = "free"
    BY <1>0, <1>1, ReturnFacts
  <1>10. SessionInv' /\ WeightInv' /\ TipHeaviest'
    BY <1>0, <1>1, <1>3, <1>9 DEF SessionInv, WeightInv, TipHeaviest
  <1>11. TypeRest'
    <2>1. par' \in [Blocks -> Blocks \cup {NoBlock}] /\ index' \subseteq Blocks
          /\ errLog' \subseteq Blocks
      BY <1>0, <1>2, <1>5 DEF TypeOK
    <2>2. transients' \in 0..MaxTransient
      BY <1>0, <1>1, EnvAssumption DEF TypeOK
    <2>3. failed' \in BOOLEAN
      BY Zenon DEF connectBlockFails
    <2>. QED BY <1>0, <1>3, <1>5, <1>9, <2>1, <2>2, <2>3, Zenon
             DEF TypeOK, LockTypes, TypeRest
  <1>12. /\ orphans' \subseteq Blocks \ {Genesis} /\ opid' \in [Blocks -> Sources]
         /\ faultPeers' \subseteq Peers
    BY <1>0, <1>3, <1>5 DEF TypeOK
  <1>. QED BY <1>6, <1>7, <1>8, <1>9, <1>10, <1>11, <1>12, IInvJoin DEF Core

\* connectBlock keeps the invariant.
LEMMA ConnectStep ==
  ASSUME IInv, NEW h \in Handlers, connectBlock(h)
  PROVE  IInv'
  <1> USE BlockAssumption
  <1>0. TypeOK /\ LockInv /\ IndexInv /\ SessionInv /\ ViewMatchesDB
        /\ BestIsChain /\ TdConsistent /\ WeightInv
    BY DEF IInv
  <1> DEFINE b == attach[1]
  <1>1. holder = h /\ stage = "reorg" /\ detach = 0 /\ attach # <<>>
    BY DEF connectBlock
  <1>2. /\ best # <<>> /\ attach \in Seq(Blocks) /\ Len(attach) \in Nat
        /\ Len(attach) >= 1 /\ Head(attach) = b
        /\ b \in Blocks /\ b \in index /\ b # Genesis
        /\ Parent[b] = Tip /\ par[b] = Tip /\ Height[b] = Len(best)
    BY <1>1, AttachFacts
  <1>3. /\ best \in Seq(Blocks) /\ Len(best) \in Nat /\ Len(best) >= 1
        /\ Tip \in Blocks /\ Tip \in index
    BY <1>2, TipFacts
  <1>4. /\ hashAt' = [hashAt EXCEPT ![Height[b]] = b]
        /\ lastHeight' = Height[b]
        /\ td' = [td EXCEPT ![b] = Work[b] + td[Parent[b]]]
        /\ best' = Append(best, b)
    BY <1>2 DEF connectBlock, SaveBlock, SetTip
  <1> HIDE DEF b
  <1>5. UNCHANGED <<index, par, npid, errLog, orphans, opid, stored, pregen,
                    closed, boots, faultPeers, transients, failed>>
    BY DEF connectBlock, indexVars, poolVars, envVars
  \* Connecting a block stores the total difficulty it already has.
  <1>6. td' = td
    <2>1. b \in stored \ {Genesis} /\ td \in [Blocks -> Nat]
      BY <1>0, <1>2 DEF BestIsChain, TypeOK
    <2>2. td[b] = Work[b] + td[Parent[b]]
      BY <1>0, <2>1 DEF TdConsistent
    <2>. QED BY <1>4, <2>1, <2>2
  <1>7. /\ best' \in Seq(Blocks) /\ Len(best') = Len(best) + 1
        /\ \A i \in 1..Len(best) : best'[i] = best[i]
        /\ best'[Len(best) + 1] = b
    BY <1>2, <1>3, <1>4, AppendFacts
  <1>8. \A i \in 1..Len(best') : i \in 1..Len(best) \/ i = Len(best) + 1
    <2>1. Len(best') = Len(best) + 1 /\ Len(best) \in Nat
      BY <1>3, <1>7, Zenon
    <2>. QED BY <2>1
  <1>9. Tip' = b /\ best' # <<>>
    <2>1. Len(best') = Len(best) + 1 /\ Len(best) \in Nat
      BY <1>3, <1>7, Zenon
    <2>2. best' # <<>>
      BY <1>7, <2>1, EmptySeq
    <2>. QED BY <1>7, <2>2, Zenon DEF Tip
  <1>10. ViewMatchesDB'
    <2>1. lastHeight' = Len(best') - 1
      BY <1>2, <1>3, <1>4, <1>7
    <2>2. hashAt \in [Heights -> Blocks \cup {NoBlock}] /\ Height[b] \in Heights
          /\ \A k \in Heights : k \in Nat
      <3>1. hashAt \in [Heights -> Blocks \cup {NoBlock}]
        BY <1>0, Zenon DEF TypeOK
      <3>2. Height[b] \in Heights /\ \A k \in Heights : k \in Nat
        BY <1>2 DEF Heights
      <3>. QED BY <3>1, <3>2
    <2>3. ASSUME NEW k \in Heights
          PROVE  hashAt'[k] = IF k < Len(best') THEN best'[k + 1] ELSE NoBlock
      <3>1. k \in Nat /\ hashAt[k] = IF k < Len(best) THEN best[k + 1] ELSE NoBlock
        BY <1>0, <2>2, <2>3 DEF ViewMatchesDB
      <3>2. CASE k < Len(best)
        <4>1. k + 1 \in 1..Len(best) /\ k # Len(best) /\ k < Len(best) + 1
          BY <1>3, <3>1, <3>2
        <4>. QED BY <1>2, <1>4, <1>7, <2>2, <2>3, <3>1, <3>2, <4>1
      <3>3. CASE k = Len(best)
        BY <1>2, <1>3, <1>4, <1>7, <2>2, <3>3
      <3>4. CASE k > Len(best)
        <4>1. k # Len(best) /\ ~(k < Len(best) + 1) /\ ~(k < Len(best))
          BY <1>3, <3>1, <3>4
        <4>. QED BY <1>2, <1>4, <1>7, <2>2, <2>3, <3>1, <4>1
      <3>. QED BY <1>3, <3>1, <3>2, <3>3, <3>4
    <2>. QED BY <2>1, <2>3 DEF ViewMatchesDB
  <1>11. BestIsChain'
    <2>1. ASSUME NEW e \in Range(best') PROVE e \in index'
      <3>1. PICK i \in 1..Len(best') : best'[i] = e
        BY <1>7, <2>1, RangeFacts
      <3>2. CASE i \in 1..Len(best)
        <4>1. best[i] = e /\ best[i] \in Range(best)
          BY <1>3, <1>7, <3>1, <3>2, RangeFacts
        <4>2. Range(best) \subseteq index
          BY <1>0 DEF BestIsChain
        <4>. QED BY <1>5, <4>1, <4>2
      <3>3. CASE i = Len(best) + 1
        BY <1>2, <1>5, <1>7, <3>1, <3>3
      <3>. QED BY <1>8, <3>1, <3>2, <3>3
    <2>2. best'[1] = Genesis
      <3>1. 1 \in 1..Len(best)
        BY <1>3
      <3>. QED BY <1>0, <1>2, <1>7, <3>1 DEF BestIsChain
    <2>3. ASSUME NEW i \in 1..Len(best') PROVE Height[best'[i]] = i - 1
      <3>1. CASE i \in 1..Len(best)
        BY <1>0, <1>7, <3>1 DEF BestIsChain
      <3>2. CASE i = Len(best) + 1
        BY <1>2, <1>3, <1>7, <3>2
      <3>. QED BY <1>8, <2>3, <3>1, <3>2
    <2>4. ASSUME NEW i \in 2..Len(best') PROVE Parent[best'[i]] = best'[i - 1]
      <3>0. i \in 1..Len(best')
        BY <1>7
      <3>1. CASE i \in 1..Len(best)
        <4>1. i \in 2..Len(best) /\ i - 1 \in 1..Len(best)
          BY <1>3, <2>4, <3>1
        <4>. QED BY <1>0, <1>7, <3>1, <4>1 DEF BestIsChain
      <3>2. CASE i = Len(best) + 1
        <4>1. i - 1 = Len(best) /\ Len(best) \in 1..Len(best)
          BY <1>3, <3>2
        <4>. QED BY <1>2, <1>7, <3>2, <4>1 DEF Tip
      <3>. QED BY <1>8, <3>0, <3>1, <3>2
    <2>5. index' \subseteq stored'
      BY <1>0, <1>5 DEF BestIsChain
    <2>. QED BY <2>1, <2>2, <2>3, <2>4, <2>5 DEF BestIsChain
  <1>12. IndexInv' /\ TdConsistent'
    BY <1>0, <1>5, <1>6 DEF IndexInv, TdConsistent
  <1>13. \A i, j \in 1..Len(best') : i <= j => td'[best'[i]] <= td'[best'[j]]
    <2>1. td \in [Blocks -> Nat] /\ Work[b] \in Nat
      BY <1>0, <1>2 DEF TypeOK
    <2>2. td[Tip] <= td[b] /\ td[Tip] \in Nat /\ td[b] \in Nat
      <3>1. td[b] = Work[b] + td[Tip]
        BY <1>0, <1>2 DEF TdConsistent, BestIsChain
      <3>. QED BY <1>2, <1>3, <2>1, <3>1
    <2>3. ASSUME NEW i \in 1..Len(best) PROVE td[best[i]] <= td[b]
      <3>1. Len(best) \in 1..Len(best) /\ i <= Len(best) /\ best[i] \in Blocks
        BY <1>3
      <3>2. td[best[i]] <= td[Tip]
        BY <1>0, <3>1 DEF WeightInv, Tip
      <3>. QED BY <2>1, <2>2, <3>1, <3>2
    <2>4. SUFFICES ASSUME NEW i \in 1..Len(best'), NEW j \in 1..Len(best'), i <= j
                   PROVE  td[best'[i]] <= td[best'[j]]
      BY <1>6
    <2>5. CASE j \in 1..Len(best)
      <3>1. i \in 1..Len(best)
        BY <1>3, <2>4, <2>5
      <3>. QED BY <1>0, <1>7, <2>4, <2>5, <3>1 DEF WeightInv
    <2>6. CASE j = Len(best) + 1 /\ i \in 1..Len(best)
      BY <1>7, <2>3, <2>6
    <2>7. CASE j = Len(best) + 1 /\ i = Len(best) + 1
      BY <1>7, <2>2, <2>7
    <2>. QED BY <1>8, <2>4, <2>5, <2>6, <2>7
  <1>14. /\ orphans' \subseteq Blocks \ {Genesis} /\ opid' \in [Blocks -> Sources]
         /\ faultPeers' \subseteq Peers
    BY <1>0, <1>5 DEF TypeOK
  <1>15. LockTypes' => TypeRest'
    <2>1. /\ index' \subseteq Blocks /\ par' \in [Blocks -> Blocks \cup {NoBlock}]
          /\ npid' \in [Blocks -> Sources] /\ errLog' \subseteq Blocks
          /\ stored' \subseteq Blocks /\ td' \in [Blocks -> Nat]
          /\ pregen' \in BOOLEAN /\ closed' \in BOOLEAN /\ failed' \in BOOLEAN
          /\ boots' \in 0..MaxBoots /\ transients' \in 0..MaxTransient
      BY <1>0, <1>5, <1>6, Zenon DEF TypeOK
    <2>2. hashAt' \in [Heights -> Blocks \cup {NoBlock}] /\ lastHeight' \in Nat
      BY <1>0, <1>2, <1>4 DEF TypeOK, Heights
    <2>. QED BY <1>7, <2>1, <2>2, Zenon DEF LockTypes, TypeRest
  <1>A. CASE Len(attach) = 1
    <2>1. b = cur /\ cur \in Blocks
      BY <1>0, <1>1, <1>A DEF SessionInv, b
    <2>2. Accepted(h, cur)
      BY <1>A DEF connectBlock
    <2>3. HandlerTypes' /\ LockTypes' /\ LockInv' /\ stage' \in {"accepted", "orphans"}
      BY <1>0, <1>1, <2>1, <2>2, AcceptedFacts, HolderFacts
    <2>4. SessionInv' /\ WeightInv'
      BY <1>13, <2>3 DEF SessionInv, WeightInv
    <2>5. ~failed => \A c \in index : td[c] <= td[cur]
      BY <1>0, <1>1 DEF WeightInv
    <2>6. TipHeaviest'
      BY <1>5, <1>6, <1>9, <2>1, <2>5 DEF TipHeaviest
    <2>. QED BY <1>10, <1>11, <1>12, <1>14, <1>15, <2>3, <2>4, <2>6, IInvJoin DEF Core
  <1>B. CASE Len(attach) # 1
    <2>1. /\ attach' = Tail(attach)
          /\ UNCHANGED <<pc, blk, pid, holder, stage, cur, detach, looping, queue>>
      BY <1>B DEF connectBlock, handlerVars
    <2>2. /\ attach' \in Seq(Blocks) /\ Len(attach') = Len(attach) - 1
          /\ \A i \in 1..(Len(attach) - 1) : attach'[i] = attach[i + 1]
      BY <1>1, <1>2, <2>1, TailFacts
    <2>3. HandlerTypes' /\ LockTypes' /\ LockInv'
      <3>1. HandlerTypes' /\ LockInv'
        BY <1>0, <2>1 DEF HandlerTypes, TypeOK, LockInv
      <3>. QED BY <1>0, <2>1, <2>2, <3>1, Zenon DEF LockTypes, TypeOK
    <2>4. Len(attach) \in Nat /\ Len(attach) >= 2 /\ Len(attach') = Len(attach) - 1
      BY <1>2, <1>B, <2>2
    <2>5. /\ \A i \in 2..Len(attach) : par[attach[i]] = attach[i - 1]
          /\ attach[Len(attach)] = cur /\ cur \in Blocks
      BY <1>0, <1>1 DEF SessionInv
    <2>6. SessionInv'
      <3>1. cur' \in Blocks /\ attach' # <<>>
        <4>1. Len(attach') # 0
          BY <2>4
        <4>2. (attach' = <<>>) <=> (Len(attach') = 0)
          BY <2>2, EmptySeq
        <4>. QED BY <2>1, <2>5, <4>1, <4>2
      <3>2. detach' = 0 /\ Len(best') \in Nat /\ 0 < Len(best') /\ 0 <= Len(best')
        <4>1. Len(best') = Len(best) + 1 /\ Len(best) \in Nat /\ detach' = 0
          BY <1>1, <1>3, <1>7, <2>1, Zenon
        <4>. QED BY <4>1
      <3>3. par'[attach'[1]] = best'[Len(best') - detach']
        <4>1. attach'[1] = attach[2] /\ par[attach[2]] = attach[1]
          <5>1. 1 \in 1..(Len(attach) - 1) /\ 2 \in 2..Len(attach)
            BY <2>4
          <5>. QED BY <2>2, <2>5, <5>1
        <4>2. Len(best') - detach' = Len(best')
          BY <3>2
        <4>. QED BY <1>5, <1>9, <4>1, <4>2, Zenon DEF Tip, b
      <3>4. ASSUME NEW i \in 2..Len(attach')
            PROVE  par'[attach'[i]] = attach'[i - 1]
        <4>1. /\ i \in 1..(Len(attach) - 1) /\ i - 1 \in 1..(Len(attach) - 1)
              /\ i + 1 \in 2..Len(attach) /\ (i + 1) - 1 = i /\ (i - 1) + 1 = i
          BY <2>4
        <4>2. attach'[i] = attach[i + 1] /\ attach'[i - 1] = attach[i]
          BY <2>2, <4>1
        <4>3. par[attach[i + 1]] = attach[i]
          BY <2>5, <4>1
        <4>. QED BY <1>5, <4>2, <4>3
      <3>5. attach'[Len(attach')] = cur'
        <4>1. Len(attach') \in 1..(Len(attach) - 1) /\ Len(attach') + 1 = Len(attach)
          BY <2>4
        <4>. QED BY <2>1, <2>2, <2>5, <4>1
      <3>. QED BY <3>1, <3>2, <3>3, <3>4, <3>5 DEF SessionInv
    <2>7. WeightInv'
      <3>1. stage' = "reorg" /\ ~failed' => \A c \in index' : td'[c] <= td'[cur']
        BY <1>0, <1>5, <1>6, <2>1 DEF WeightInv
      <3>. QED BY <1>13, <3>1 DEF WeightInv
    <2>8. TipHeaviest'
      BY <1>1, <2>1 DEF TipHeaviest
    <2>. QED BY <1>10, <1>11, <1>12, <1>14, <1>15, <2>3, <2>6, <2>7, <2>8, IInvJoin
             DEF Core
  <1>. QED BY <1>A, <1>B

\* The steps of ProcessOrphans that only move the lock, and Close.
LEMMA LockMoveStep ==
  ASSUME IInv, NEW h \in Handlers, StartOrphans(h) \/ NextHash(h)
  PROVE  IInv'
  <1>0. TypeOK /\ LockInv /\ Core
    BY IInvSplit
  <1>1. /\ holder = h /\ stage \in {"accepted", "orphans"}
        /\ UNCHANGED <<indexVars, poolVars, storeVars, chainVars, envVars,
                       faultPeers, transients, failed>>
    BY DEF StartOrphans, NextHash
  <1>2. blk[h] \in Blocks \ {Genesis}
    BY <1>1, HolderFacts
  <1>3. HandlerTypes' /\ LockTypes' /\ LockInv' /\ stage' # "reorg"
    <2>1. CASE Return(h)
      BY <1>0, <1>1, <2>1, ReturnFacts
    <2>2. CASE /\ queue' \in Seq(Blocks) /\ stage' = "orphans" /\ looping' = TRUE
               /\ UNCHANGED <<pc, blk, pid, holder, cur, detach, attach>>
      <3>1. HandlerTypes' /\ LockInv'
        BY <1>0, <1>1, <2>2, EnvAssumption DEF TypeOK, HandlerTypes, LockInv
      <3>2. looping' \in BOOLEAN
        BY <2>2, Zenon
      <3>3. stage' \in Stages
        BY <2>2 DEF Stages
      <3>4. LockTypes'
        BY <1>0, <2>2, <3>2, <3>3, Zenon DEF LockTypes, TypeOK
      <3>. QED BY <2>2, <3>1, <3>4
    <2>3. CASE StartOrphans(h)
      <3>1. queue' \in Seq(Blocks)
        BY <1>2, <2>3, OneSeq DEF StartOrphans
      <3>. QED BY <2>2, <2>3, <3>1 DEF StartOrphans, handlerVars
    <2>4. CASE NextHash(h) /\ ~Return(h)
      <3>1. /\ queue' = Tail(queue) /\ stage = "orphans" /\ queue # <<>>
            /\ UNCHANGED <<pc, blk, pid, holder, stage, cur, detach, attach, looping>>
        BY <2>4 DEF NextHash, handlerVars
      <3>2. queue' \in Seq(Blocks)
        BY <1>0, <3>1, TailFacts DEF TypeOK
      <3>3. looping
        BY <1>0, <3>1 DEF LockInv
      <3>4. looping' = TRUE
        BY <1>0, <3>1, <3>3, Zenon DEF TypeOK
      <3>. QED BY <2>2, <3>1, <3>2, <3>4
    <2>. QED BY <2>1, <2>3, <2>4
  <1>4. Core'
    BY <1>0, <1>1, <1>3, SameChain
  <1>5. TypeRest'
    BY <1>0, <1>1, <1>3, LockOnly
  <1>6. /\ orphans' \subseteq Blocks \ {Genesis} /\ opid' \in [Blocks -> Sources]
        /\ faultPeers' \subseteq Peers
    BY <1>0, <1>1 DEF TypeOK, poolVars
  <1>. QED BY <1>3, <1>4, <1>5, <1>6, IInvJoin

\* Close keeps the invariant.
LEMMA CloseStep ==
  ASSUME IInv, Close
  PROVE  IInv'
  <1>0. TypeOK /\ LockInv /\ Core
    BY IInvSplit
  <1>1. Core'
    BY <1>0, CoreFrame DEF Close
  <1>2. HandlerTypes' /\ LockInv'
    BY <1>0 DEF HandlerTypes, TypeOK, LockInv, Close, handlerVars, lockVars
  <1>3. TypeRest'
    <2>1. closed' \in BOOLEAN
      BY Zenon DEF Close
    <2>. QED BY <1>0, <2>1, Zenon DEF TypeOK, TypeRest, Close, lockVars, indexVars,
             storeVars, chainVars
  <1>4. /\ orphans' \subseteq Blocks \ {Genesis} /\ opid' \in [Blocks -> Sources]
        /\ faultPeers' \subseteq Peers
    BY <1>0 DEF TypeOK, Close, poolVars
  <1>. QED BY <1>1, <1>2, <1>3, <1>4, IInvJoin

\* What Restart reads back from the database is the view the node had.
LEMMA LoadedViewFacts ==
  ASSUME IInv, best # <<>>
  PROVE  LoadedView = best /\ lastHeight # -1 /\ lastHeight \in Nat
  <1> USE BlockAssumption
  <1>1. best \in Seq(Blocks) /\ Len(best) \in Nat /\ Len(best) >= 1
        /\ lastHeight = Len(best) - 1
    BY TipFacts
  <1>2. lastHeight + 1 = Len(best) /\ lastHeight # -1 /\ lastHeight \in Nat
    BY <1>1
  <1>3. ASSUME NEW i \in 1..Len(best) PROVE hashAt[i - 1] = best[i]
    <2>1. best[i] \in Blocks /\ Height[best[i]] = i - 1
      BY <1>1, <1>3 DEF IInv, BestIsChain
    <2>2. i - 1 \in Heights
      BY <2>1 DEF Heights
    <2>3. i - 1 < Len(best) /\ (i - 1) + 1 = i
      BY <1>1, <1>3
    <2>. QED BY <2>2, <2>3 DEF IInv, ViewMatchesDB
  <1>4. LoadedView = [i \in 1..Len(best) |-> best[i]]
    BY <1>2, <1>3 DEF LoadedView
  <1>5. best = [i \in 1..Len(best) |-> best[i]]
    BY <1>1
  <1>. QED BY <1>2, <1>4, <1>5

\* Restart keeps the invariant.
LEMMA RestartStep ==
  ASSUME IInv, Restart
  PROVE  IInv'
  <1> USE BlockAssumption
  <1>0. TypeOK /\ LockInv /\ IndexInv /\ SessionInv /\ ViewMatchesDB
        /\ BestIsChain /\ TdConsistent /\ WeightInv
    BY DEF IInv
  <1>1. /\ stage' = "free" /\ failed' = FALSE /\ UNCHANGED <<stored, td, transients>>
        /\ index' = Range(best')
        /\ par' = [c \in Blocks |-> IF c \in Range(best') THEN Parent[c] ELSE NoBlock]
        /\ orphans' = {} /\ faultPeers' = {} /\ opid' = [c \in Blocks |-> "self"]
    BY DEF Restart, storeVars
  <1>2. best \in Seq(Blocks) /\ Len(best) \in Nat
        /\ hashAt \in [Heights -> Blocks \cup {NoBlock}] /\ 0 \in Heights
        /\ td \in [Blocks -> Nat]
    <2>1. 0 \in Heights
      BY DEF Heights
    <2>. QED BY <1>0, <2>1 DEF TypeOK
  \* The view afterwards: as before, or the genesis block again.
  <1>3. /\ best' \in Seq(Blocks) /\ Len(best') \in Nat /\ Len(best') >= 1
        /\ hashAt' \in [Heights -> Blocks \cup {NoBlock}] /\ lastHeight' \in Nat
        /\ ViewMatchesDB'
        /\ best'[1] = Genesis /\ best' # <<>>
        /\ \A i \in 1..Len(best') : Height[best'[i]] = i - 1
        /\ \A i \in 2..Len(best') : Parent[best'[i]] = best'[i - 1]
        /\ Range(best') \subseteq stored
        /\ \A i, j \in 1..Len(best') : i <= j => td[best'[i]] <= td[best'[j]]
        /\ \A c \in Range(best') \ {Genesis} : Height[c] = Height[Parent[c]] + 1
    <2>1. CASE best # <<>>
      <3>1. best' = best /\ lastHeight' = lastHeight /\ lastHeight \in Nat
        BY <2>1, LoadedViewFacts DEF Restart
      <3>2. hashAt' = hashAt
        <4>1. hashAt' = [hashAt EXCEPT ![0] = hashAt[0]]
          BY <2>1, LoadedViewFacts DEF Restart
        <4>. QED BY <1>2, <4>1
      <3>3. ViewMatchesDB'
        BY <1>0, <3>1, <3>2 DEF ViewMatchesDB
      <3>4. Len(best) >= 1
        BY <2>1, TipFacts
      <3>5. /\ best[1] = Genesis
            /\ \A i \in 1..Len(best) : Height[best[i]] = i - 1
            /\ \A i \in 2..Len(best) : Parent[best[i]] = best[i - 1]
            /\ Range(best) \subseteq index /\ index \subseteq stored
        BY <1>0, <2>1 DEF BestIsChain
      <3>6. \A i, j \in 1..Len(best) : i <= j => td[best[i]] <= td[best[j]]
        BY <1>0 DEF WeightInv
      <3>7. \A c \in Range(best) \ {Genesis} : Height[c] = Height[Parent[c]] + 1
        BY <1>0, <3>5 DEF IndexInv
      <3>8. Range(best) \subseteq stored
        BY <3>5
      <3>. QED BY <1>2, <2>1, <3>1, <3>2, <3>3, <3>4, <3>5, <3>6, <3>7, <3>8
    <2>2. CASE best = <<>>
      <3>1. Len(best) = 0
        BY <2>2
      <3>2. lastHeight = -1
        BY <1>0, <3>1 DEF ViewMatchesDB
      <3>3. /\ best' = <<Genesis>> /\ lastHeight' = 0
            /\ hashAt' = [hashAt EXCEPT ![0] = Genesis]
        BY <3>2 DEF Restart
      <3>4. /\ best' \in Seq(Blocks) /\ Len(best') = 1 /\ best'[1] = Genesis
            /\ best' # <<>>
        BY <3>3, OneSeq
      <3>5. \A i \in 1..Len(best') : i = 1
        BY <3>4
      <3>6. Range(best') = {Genesis}
        <4>1. \A e \in Range(best') : \E i \in 1..Len(best') : best'[i] = e
          BY <3>4, RangeFacts
        <4>2. 1 \in 1..Len(best')
          BY <3>4
        <4>3. best'[1] \in Range(best')
          BY <3>4, <4>2, RangeFacts
        <4>. QED BY <3>4, <3>5, <4>1, <4>3
      <3>7. ViewMatchesDB'
        <4>1. \A k \in Heights : k \in Nat
          BY DEF Heights
        <4>2. \A k \in Heights : hashAt[k] = NoBlock
          BY <1>0, <3>1, <4>1 DEF ViewMatchesDB
        <4>3. \A k \in Heights :
                hashAt'[k] = IF k < Len(best') THEN best'[k + 1] ELSE NoBlock
          BY <1>2, <3>3, <3>4, <4>1, <4>2
        <4>4. lastHeight' = Len(best') - 1
          BY <3>3, <3>4
        <4>. QED BY <4>3, <4>4 DEF ViewMatchesDB
      <3>8. Genesis \in stored
        BY <1>0 DEF TdConsistent
      <3>9. \A i \in 1..Len(best') : Height[best'[i]] = i - 1
        BY <3>4, <3>5
      <3>10. \A i \in 2..Len(best') : FALSE
        BY <3>4
      <3>11. \A i, j \in 1..Len(best') : td[best'[i]] <= td[best'[j]]
        BY <1>2, <3>4, <3>5
      <3>12. hashAt' \in [Heights -> Blocks \cup {NoBlock}] /\ lastHeight' \in Nat
        BY <1>2, <3>3
      <3>13. Range(best') \subseteq stored /\ Range(best') \ {Genesis} = {}
        BY <3>6, <3>8
      <3>. QED BY <3>4, <3>7, <3>9, <3>10, <3>11, <3>12, <3>13
    <2>. QED BY <2>1, <2>2
  <1>4. Range(best') \subseteq Blocks
    BY <1>3, RangeFacts
  <1>5. IndexInv'
    BY <1>1, <1>3, <1>4 DEF IndexInv
  <1>6. BestIsChain' /\ TdConsistent'
    <2>1. TdConsistent'
      BY <1>0, <1>1 DEF TdConsistent
    <2>. QED BY <1>1, <1>3, <2>1 DEF BestIsChain
  <1>7. SessionInv' /\ WeightInv'
    BY <1>1, <1>3 DEF SessionInv, WeightInv
  \* Total difficulty grows along the view, so its tip is the heaviest of it.
  <1>8. TipHeaviest'
    <2>1. ASSUME NEW c \in index' PROVE td'[c] <= td'[Tip']
      <3>1. PICK i \in 1..Len(best') : best'[i] = c
        BY <1>1, <1>3, <2>1, RangeFacts
      <3>2. Len(best') \in 1..Len(best') /\ i <= Len(best')
        BY <1>3
      <3>3. Tip' = best'[Len(best')]
        BY Zenon DEF Tip
      <3>. QED BY <1>1, <1>3, <3>1, <3>2, <3>3
    <2>. QED BY <1>3, <2>1 DEF TipHeaviest
  <1>9. HandlerTypes' /\ LockInv'
    <2>1. /\ pc' = [k \in Handlers |-> "idle"] /\ blk' = [k \in Handlers |-> NoBlock]
          /\ pid' = [k \in Handlers |-> "self"] /\ holder' = NoHandler
      BY DEF Restart
    <2>2. HandlerTypes'
      BY <2>1 DEF HandlerTypes, Steps, Sources
    <2>3. LockInv'
      BY <1>1, <2>1, EnvAssumption DEF LockInv
    <2>. QED BY <2>2, <2>3
  <1>10. TypeRest'
    <2>1. LockTypes'
      <3>1. looping' \in BOOLEAN
        BY Zenon DEF Restart
      <3>2. /\ holder' = NoHandler /\ stage' = "free" /\ cur' = NoBlock
            /\ detach' = 0 /\ attach' = <<>> /\ queue' = <<>>
        BY DEF Restart
      <3>. QED BY <3>1, <3>2 DEF LockTypes, Stages
    <2>2. /\ index' \subseteq Blocks /\ par' \in [Blocks -> Blocks \cup {NoBlock}]
          /\ stored' \subseteq Blocks /\ td' \in [Blocks -> Nat]
          /\ transients' \in 0..MaxTransient
      <3>1. stored \subseteq Blocks /\ transients \in 0..MaxTransient
        BY <1>0, Zenon DEF TypeOK
      <3>2. par' \in [Blocks -> Blocks \cup {NoBlock}]
        BY <1>1
      <3>. QED BY <1>1, <1>2, <1>4, <3>1, <3>2
    <2>3. npid' \in [Blocks -> Sources] /\ errLog' \subseteq Blocks
      BY DEF Restart, Sources
    <2>4. boots' \in 0..MaxBoots
      BY <1>0, EnvAssumption DEF Restart, TypeOK
    <2>5. pregen' \in BOOLEAN /\ closed' \in BOOLEAN /\ failed' \in BOOLEAN
      BY Zenon DEF Restart
    <2>. QED BY <1>3, <2>1, <2>2, <2>3, <2>4, <2>5, Zenon DEF LockTypes, TypeRest
  <1>11. opid' \in [Blocks -> Sources]
    BY <1>1 DEF Sources
  <1>. QED BY <1>1, <1>3, <1>5, <1>6, <1>7, <1>8, <1>9, <1>10, <1>11, IInvJoin DEF Core

-------------------------------------------------------------------------------
(* Ties.                                                                   *)

\* A step that leaves the index, the difficulties and the aim of the view.
LEMMA TieSame ==
  ASSUME TieInv, UNCHANGED <<index, td, failed>>, Aim' = Aim
  PROVE  TieInv'
  BY DEF TieInv

\* CmpBestBlock is a strict order.
LEMMA CmpOrder ==
  /\ \A b \in Blocks : ~CmpBestBlock(b, b)
  /\ \A b, c, d \in Blocks : CmpBestBlock(b, c) /\ CmpBestBlock(c, d) => CmpBestBlock(b, d)
  BY RankAssumption DEF CmpBestBlock

\* A block that is accepted.  If the view is to go to it, it is new to the
\* index, and so it has no child there.
LEMMA TieAccept ==
  ASSUME IInv, TieInv, NEW h \in Handlers, NEW b \in Blocks \ {Genesis}, NEW p,
         stage # "reorg", Acceptable(b), maybeAcceptBlock(h, b, p),
         UNCHANGED chainVars
  PROVE  TieInv'
  <1> USE BlockAssumption
  <1>0. TypeOK /\ IndexInv /\ BestIsChain /\ TdConsistent /\ TipHeaviest
    BY DEF IInv
  <1>1. CASE failed'
    BY <1>1 DEF TieInv
  <1>2. CASE ~failed'
    <2>1. ~failed
      BY <1>2 DEF maybeAcceptBlock, connectBestChain
    <2>2. /\ best # <<>> /\ \A c \in index : td[c] <= td[Tip]
          /\ Aim = Tip /\ Tip' = Tip
      BY <1>0, <2>1 DEF TipHeaviest, Aim, Tip, chainVars
    <2>3. /\ \A c \in index \ {Genesis} : Parent[c] \in index
          /\ \A c \in index : Parent[c] # Tip
          /\ EnBestBlockCmp => \A c \in index : td[c] = td[Tip] => ~CmpBestBlock(c, Tip)
      BY <2>1, <2>2 DEF TieInv
    <2>4. Tip \in Blocks /\ Tip \in index
      BY <2>2, TipFacts
    <2>5. /\ index \subseteq Blocks /\ index \subseteq stored
          /\ Parent[b] \in index /\ Parent[b] \in Blocks /\ Parent[b] # b
          /\ td \in [Blocks -> Nat] /\ Work[b] \in Nat
      <3>1. Parent[b] \in index /\ Height[b] = Height[Parent[b]] + 1
        BY DEF Acceptable
      <3>2. Parent[b] \in Blocks /\ Height[b] \in Nat
        BY <1>0, <3>1 DEF TypeOK
      <3>3. Parent[b] # b
        BY <3>1, <3>2
      <3>. QED BY <1>0, <3>1, <3>2, <3>3 DEF TypeOK, BestIsChain
    <2> DEFINE w == Work[b] + td[Parent[b]]
    <2>6. /\ index' = index \cup {b}
          /\ td'[b] = w /\ w \in Nat
          /\ \A c \in index : td'[c] = td[c] /\ td[c] \in Nat
          /\ b \in index => td[b] = w
      <3>1. index' = index \cup {b}
        BY DEF maybeAcceptBlock, AddNode
      <3>2. b \in stored => td[b] = w
        BY <1>0 DEF TdConsistent
      <3>3. td' = IF b \in stored THEN td ELSE [td EXCEPT ![b] = w]
        BY DEF maybeAcceptBlock, dbMaybeStoreBlock
      <3>. QED BY <2>5, <3>1, <3>2, <3>3
    <2>7. \/ stage' = "reorg" /\ cur' = b /\ (Parent[b] = Tip \/ PreferToTip(b))
          \/ stage' # "reorg" /\ Parent[b] # Tip /\ ~PreferToTip(b)
      BY <1>2, <2>2 DEF maybeAcceptBlock, connectBestChain, Reorganize, Return, Accepted
    <2>8. PreferToTip(b) <=> w > td[Tip] \/ (EnBestBlockCmp /\ w = td[Tip] /\ CmpBestBlock(b, Tip))
      BY DEF PreferToTip
    <2> HIDE DEF w
    <2>9. \A c \in index' \ {Genesis} : Parent[c] \in index'
      BY <2>3, <2>5, <2>6
    <2>10. CASE stage' = "reorg" /\ cur' = b /\ (Parent[b] = Tip \/ PreferToTip(b))
      <3>1. Aim' = b
        BY <2>10 DEF Aim
      <3>2. b \notin index
        <4>1. CASE Parent[b] = Tip
          BY <2>3, <4>1
        <4>2. CASE PreferToTip(b)
          <5>1. SUFFICES ASSUME b \in index PROVE FALSE
            OBVIOUS
          <5>2. td[b] = w /\ td[b] <= td[Tip] /\ td[Tip] \in Nat
            BY <2>2, <2>4, <2>6, <5>1
          <5>3. EnBestBlockCmp /\ w = td[Tip] /\ CmpBestBlock(b, Tip)
            BY <2>6, <2>8, <4>2, <5>2
          <5>. QED BY <2>3, <5>1, <5>2, <5>3
        <4>. QED BY <2>10, <4>1, <4>2
      <3>3. \A c \in index' : Parent[c] # b
        BY <2>3, <2>5, <2>6, <3>2
      <3>4. ASSUME EnBestBlockCmp, NEW c \in index', td'[c] = td'[b], CmpBestBlock(c, b)
            PROVE  FALSE
        <4>1. c # b /\ c \in index /\ c \in Blocks /\ td[c] = w
          BY <2>5, <2>6, <3>4, CmpOrder
        <4>2. CASE Parent[b] = Tip
          <5>1. Parent[c] = Tip
            BY <3>4, <4>2 DEF CmpBestBlock
          <5>. QED BY <2>3, <4>1, <5>1
        <4>3. CASE PreferToTip(b)
          <5>1. td[c] <= td[Tip] /\ td[Tip] \in Nat
            BY <2>2, <2>4, <2>6, <4>1
          <5>2. w = td[Tip] /\ CmpBestBlock(b, Tip)
            BY <2>6, <2>8, <4>1, <4>3, <5>1
          <5>3. CmpBestBlock(c, Tip)
            BY <2>4, <3>4, <4>1, <5>2, CmpOrder
          <5>. QED BY <2>3, <3>4, <4>1, <5>2, <5>3
        <4>. QED BY <2>10, <4>2, <4>3
      <3>. QED BY <2>9, <3>1, <3>3, <3>4 DEF TieInv, CmpBestBlock
    <2>11. CASE stage' # "reorg" /\ Parent[b] # Tip /\ ~PreferToTip(b)
      <3>1. Aim' = Tip
        BY <2>2, <2>11 DEF Aim
      <3>2. \A c \in index' : Parent[c] # Tip
        BY <2>3, <2>6, <2>11
      <3>3. td'[Tip] = td[Tip]
        BY <2>4, <2>6
      <3>4. ASSUME EnBestBlockCmp, NEW c \in index', td'[c] = td'[Tip]
            PROVE  ~CmpBestBlock(c, Tip)
        <4>1. CASE c \in index
          BY <2>3, <2>6, <3>3, <3>4, <4>1
        <4>2. CASE c = b
          BY <2>6, <2>8, <2>11, <3>3, <3>4, <4>2
        <4>. QED BY <2>6, <4>1, <4>2
      <3>. QED BY <2>9, <3>1, <3>2, <3>4 DEF TieInv, CmpBestBlock
    <2>. QED BY <2>7, <2>10, <2>11
  <1>. QED BY <1>1, <1>2

\* A block of a reorganisation is detached or connected.
LEMMA TieReorg ==
  ASSUME IInv, TieInv, NEW h \in Handlers, disconnectBlock(h) \/ connectBlock(h)
  PROVE  TieInv'
  <1> USE BlockAssumption
  <1>0. TypeOK /\ SessionInv /\ BestIsChain /\ TdConsistent /\ stage = "reorg"
    BY DEF IInv, disconnectBlock, connectBlock
  <1>1. UNCHANGED <<index, failed>> /\ Aim = cur
    BY <1>0 DEF disconnectBlock, connectBlock, indexVars, Aim
  <1>2. CASE failed
    BY <1>1, <1>2 DEF TieInv
  <1>3. CASE ~failed /\ disconnectBlock(h)
    <2>1. detach > 0 /\ detach \in Nat /\ UNCHANGED td
      BY <1>0, <1>3 DEF TypeOK, disconnectBlock, storeVars
    <2>2. Len(best) \in Nat /\ detach < Len(best)
      BY <1>0, <1>3 DEF SessionInv, TypeOK
    <2>3. Len(best) # 1
      <3>1. \A n \in Nat : detach < n => n # 1
        BY ONLY <2>1
      <3>. QED BY ONLY <2>2, <3>1
    <2>4. stage' = stage /\ cur' = cur
      BY <1>3, <2>3 DEF disconnectBlock
    <2>5. Aim' = Aim
      BY <1>0, <1>1, <2>4 DEF Aim
    <2>. QED BY <1>1, <2>1, <2>5, TieSame
  <1>4. CASE connectBlock(h)
    <2> DEFINE b == attach[1]
    <2>1. detach = 0 /\ attach # <<>>
      BY <1>4 DEF connectBlock
    <2>2. /\ best # <<>> /\ Len(attach) \in Nat /\ Head(attach) = b
          /\ b \in Blocks /\ b \in index /\ b # Genesis /\ par[b] = Tip
      BY <1>0, <2>1, AttachFacts
    <2>3. td' = [td EXCEPT ![b] = Work[b] + td[Parent[b]]] /\ best' = Append(best, b)
      BY <1>4, <2>2 DEF connectBlock, SaveBlock, SetTip
    <2>4. td' = td
      <3>1. b \in stored \ {Genesis} /\ td \in [Blocks -> Nat]
        BY <1>0, <2>2 DEF BestIsChain, TypeOK
      <3>2. td[b] = Work[b] + td[Parent[b]]
        BY <1>0, <3>1 DEF TdConsistent
      <3>. QED BY <2>3, <3>1, <3>2
    <2>5. CASE Len(attach) = 1
      <3>1. b = cur
        BY <1>0, <2>1, <2>5 DEF SessionInv
      <3>2. stage' # "reorg"
        BY <1>4, <2>5 DEF connectBlock, Accepted
      <3>3. best \in Seq(Blocks)
        BY <1>0 DEF TypeOK
      <3> HIDE DEF b
      <3>4. best'[Len(best')] = b
        <4>1. /\ Len(best') = Len(best) + 1 /\ best'[Len(best) + 1] = b
          BY <2>2, <2>3, <3>3, AppendFacts
        <4>. QED BY <4>1
      <3>5. Aim' = b
        BY <3>2, <3>4 DEF Aim, Tip
      <3>. QED BY <1>1, <2>4, <3>1, <3>5, TieSame
    <2>6. CASE Len(attach) # 1
      <3>1. stage' = stage /\ cur' = cur
        BY <1>4, <2>6 DEF connectBlock
      <3>2. Aim' = Aim
        BY <1>0, <1>1, <3>1 DEF Aim
      <3>. QED BY <1>1, <2>4, <3>2, TieSame
    <2>. QED BY <2>5, <2>6
  <1>. QED BY <1>2, <1>3, <1>4

\* After a restart the index is the view, whose heights differ.
LEMMA TieRestart ==
  ASSUME IInv', Restart
  PROVE  TieInv'
  <1> USE BlockAssumption
  <1>1. stage' = "free" /\ failed' = FALSE /\ index' = Range(best')
    BY DEF Restart
  <1>2. /\ best' # <<>> /\ best' \in Seq(Blocks) /\ Len(best') \in Nat
        /\ \A i \in 1..Len(best') : best'[i] \in Blocks /\ Height[best'[i]] = i - 1
        /\ \A i \in 2..Len(best') : Parent[best'[i]] = best'[i - 1]
        /\ best'[1] = Genesis
    <2>1. best' # <<>>
      BY <1>1 DEF IInv, TipHeaviest
    <2>2. best' \in Seq(Blocks) /\ BestIsChain'
      BY DEF IInv, TypeOK
    <2>. QED BY <2>1, <2>2 DEF BestIsChain
  <1> DEFINE n == Len(best')
  <1>3. n >= 1 /\ Aim' = best'[n]
    <2>1. n >= 1
      BY <1>2, EmptySeq
    <2>. QED BY <1>1, <2>1 DEF Aim, Tip
  <1>4. ASSUME NEW c \in index'
        PROVE  /\ c # Genesis => Parent[c] \in index'
               /\ Parent[c] # Aim'
               /\ ~CmpBestBlock(c, Aim')
    <2>1. PICK i \in 1..n : best'[i] = c
      BY <1>1, <1>2, RangeFacts
    <2>2. best'[n] \in Blocks /\ Height[best'[n]] = n - 1 /\ c \in Blocks /\ Height[c] = i - 1
      <3>1. n \in 1..n
        BY ONLY <1>2, <1>3
      <3>. QED BY ONLY <1>2, <2>1, <3>1
    <2>3. ~CmpBestBlock(c, best'[n])
      <3>1. CASE i = n
        BY <2>1, <2>2, <3>1, CmpOrder
      <3>2. CASE i # n
        BY <1>2, <2>1, <2>2, <3>2 DEF CmpBestBlock
      <3>. QED BY <3>1, <3>2
    <2>4. CASE i = 1
      <3>1. c = Genesis
        BY <1>2, <2>1, <2>4
      <3>. QED BY <1>3, <2>2, <2>3, <3>1
    <2>5. CASE i # 1
      <3>1. i \in 2..n /\ i - 1 \in 1..n
        BY <1>2, <2>1, <2>5
      <3>2. Parent[c] = best'[i - 1] /\ Height[best'[i - 1]] = i - 2
        BY <1>2, <2>1, <3>1
      <3>3. Parent[c] \in index'
        BY <1>1, <1>2, <3>1, <3>2, RangeFacts
      <3>4. Parent[c] # best'[n]
        <4>1. i - 2 # n - 1
          BY ONLY <1>2, <2>1
        <4>. QED BY ONLY <2>2, <3>2, <4>1
      <3>. QED BY <1>3, <2>3, <3>3, <3>4
    <2>. QED BY <2>4, <2>5
  <1>. QED BY <1>4 DEF TieInv, CmpBestBlock

\* Every step.
LEMMA TieNext ==
  ASSUME IInv, IInv', TieInv, [Next]_vars
  PROVE  TieInv'
  <1>0. TypeOK /\ LockInv
    BY DEF IInv
  <1>1. CASE UNCHANGED <<lockVars, indexVars, storeVars, chainVars, failed>>
    <2>1. UNCHANGED <<index, td, failed, stage, cur, best>>
      BY <1>1 DEF lockVars, indexVars, storeVars, chainVars
    <2>2. Aim' = Aim
      BY <2>1 DEF Aim, Tip
    <2>. QED BY <2>1, <2>2, TieSame
  <1>2. CASE stage # "reorg" /\ stage' # "reorg"
             /\ UNCHANGED <<indexVars, storeVars, chainVars, failed>>
    <2>1. UNCHANGED <<index, td, failed, best>>
      BY <1>2 DEF indexVars, storeVars, chainVars
    <2>2. Aim' = Aim
      BY <1>2, <2>1 DEF Aim, Tip
    <2>. QED BY <2>1, <2>2, TieSame
  <1>3. ASSUME NEW h \in Handlers, NEW b \in Blocks \ {Genesis}, NEW p \in Pids,
               Deliver(h, b, p)
        PROVE  TieInv'
    BY <1>1, <1>3 DEF Deliver
  <1>4. ASSUME NEW h \in Handlers, Check(h), ~maybeAddBestChain(h)
        PROVE  TieInv'
    BY <1>1, <1>4 DEF Check, CheckExists, CheckOrphan, CheckOrphanParent,
                      RemoveOrphanBlockByHash, CheckParent, AddOrphanBlock
  <1>5. ASSUME NEW h \in Handlers, maybeAddBestChain(h)
        PROVE  TieInv'
    <2>1. /\ stage = "free" /\ blk[h] \in Blocks \ {Genesis} /\ UNCHANGED chainVars
      BY <1>0, <1>5 DEF maybeAddBestChain, LockInv, TypeOK
    <2>2. CASE Acceptable(blk[h]) /\ maybeAcceptBlock(h, blk[h], pid[h])
      BY <2>1, <2>2, TieAccept
    <2>3. CASE UNCHANGED <<lockVars, indexVars, storeVars, failed>>
      BY <1>1, <2>1, <2>3
    <2>. QED BY <1>5, <2>2, <2>3 DEF maybeAddBestChain
  <1>6. ASSUME NEW h \in Handlers, NEW c \in orphans, ProcessOrphan(h, c)
        PROVE  TieInv'
    <2>1. /\ stage = "orphans" /\ c \in Blocks \ {Genesis} /\ UNCHANGED chainVars
      BY <1>0, <1>6 DEF ProcessOrphan, TypeOK
    <2>2. CASE Acceptable(c) /\ maybeAcceptBlock(h, c, opid[c])
      BY <2>1, <2>2, TieAccept
    <2>3. CASE Return(h) /\ UNCHANGED <<indexVars, storeVars, failed>>
      BY <1>2, <2>1, <2>3 DEF Return
    <2>. QED BY <1>6, <2>2, <2>3 DEF ProcessOrphan
  <1>7. ASSUME NEW h \in Handlers, disconnectBlock(h) \/ connectBlock(h)
        PROVE  TieInv'
    BY <1>7, TieReorg
  <1>8. ASSUME NEW h \in Handlers, disconnectBlockFails(h) \/ connectBlockFails(h)
        PROVE  TieInv'
    BY <1>8 DEF disconnectBlockFails, connectBlockFails, TieInv
  <1>9. ASSUME NEW h \in Handlers, StartOrphans(h) \/ NextHash(h)
        PROVE  TieInv'
    BY <1>2, <1>9 DEF StartOrphans, NextHash, Return
  <1>10. CASE Close \/ UNCHANGED vars
    BY <1>1, <1>10 DEF Close, vars
  <1>11. CASE Restart
    BY <1>11, TieRestart
  <1>. QED BY <1>3, <1>4, <1>5, <1>6, <1>7, <1>8, <1>9, <1>10, <1>11 DEF Next, Locked

-------------------------------------------------------------------------------
(* The theorems.                                                           *)

\* Every step, and every stuttering step, keeps the invariant.
LEMMA NextIInv == IInv /\ [Next]_vars => IInv'
  <1> SUFFICES ASSUME IInv, [Next]_vars PROVE IInv'
    OBVIOUS
  <1>1. ASSUME NEW h \in Handlers, NEW b \in Blocks \ {Genesis}, NEW p \in Pids,
               Deliver(h, b, p)
        PROVE  IInv'
    BY <1>1, DeliverStep
  <1>2. ASSUME NEW h \in Handlers, Check(h) PROVE IInv'
    BY <1>2, PrecheckStep, MaybeAddBestChainStep DEF Check, Precheck
  <1>3. ASSUME NEW h \in Handlers, Locked(h) PROVE IInv'
    BY <1>3, DisconnectStep, DisconnectFailsStep, ConnectStep, ConnectFailsStep,
       LockMoveStep, ProcessOrphanStep DEF Locked
  <1>4. CASE Close
    BY <1>4, CloseStep
  <1>5. CASE Restart
    BY <1>5, RestartStep
  <1>6. CASE UNCHANGED vars
    BY <1>6, Zenon DEF vars, handlerVars, lockVars, indexVars, poolVars, storeVars,
       chainVars, envVars, IInv, TypeOK, LockInv, IndexInv, SessionInv, ViewMatchesDB,
       BestIsChain, TdConsistent, WeightInv, TipHeaviest, Tip
  <1>. QED BY <1>1, <1>2, <1>3, <1>4, <1>5, <1>6 DEF Next

\* The inductive invariant holds throughout every behaviour.
THEOREM Invariance == Spec => []IInv
  BY InitIInv, NextIInv, PTL DEF Spec

\* Type correctness.
THEOREM TypeCorrect == Spec => []TypeOK
  <1>1. IInv => TypeOK
    BY DEF IInv
  <1>. QED BY <1>1, Invariance, PTL

\* The chain view and the main chain of the database never drift apart.
THEOREM ViewAgreesWithDatabase == Spec => []ViewMatchesDB
  <1>1. IInv => ViewMatchesDB
    BY DEF IInv
  <1>. QED BY <1>1, Invariance, PTL

\* The view is always one stored branch that starts at the genesis block.
THEOREM ViewIsBranch == Spec => []BestIsChain
  <1>1. IInv => BestIsChain
    BY DEF IInv
  <1>. QED BY <1>1, Invariance, PTL

\* The stored total difficulties are the work of the branches.
THEOREM DifficultyIsWork == Spec => []TdConsistent
  <1>1. IInv => TdConsistent
    BY DEF IInv
  <1>. QED BY <1>1, Invariance, PTL

\* connectBlock always finds the tip its block fits, by hash and by pointer.
THEOREM ReorganizationFits == Spec => []ReorgFits
  <1>1. IInv => ReorgFits
    <2>1. SUFFICES ASSUME IInv, stage = "reorg", detach = 0
                   PROVE  /\ attach # <<>> /\ best # <<>>
                          /\ Parent[Head(attach)] = Tip /\ par[Head(attach)] = Tip
      BY DEF ReorgFits
    <2>2. attach # <<>>
      <3>1. best \in Seq(Blocks) /\ (attach = <<>> => 0 = Len(best) /\ best # <<>>)
        BY <2>1 DEF IInv, SessionInv, TypeOK
      <3>. QED BY <3>1, EmptySeq
    <2>. QED BY <2>1, <2>2, AttachFacts
  <1>. QED BY <1>1, Invariance, PTL

\* Without failures since the boot, no indexed block outweighs the tip.
THEOREM HeaviestTip == Spec => []TipHeaviest
  <1>1. IInv => TipHeaviest
    BY DEF IInv
  <1>. QED BY <1>1, Invariance, PTL

\* A restart at any point comes back with the view the node had.
THEOREM RestartIsSafe == Spec => RestartKeepsChain
  <1>1. IInv /\ [Next]_vars => [boots' # boots /\ best # <<>> => best' = best]_vars
    <2> SUFFICES ASSUME IInv, Next, boots' # boots, best # <<>> PROVE best' = best
      OBVIOUS
    <2>1. Restart
      BY DEF Next, Deliver, Check, Locked, Close, CheckExists, CheckOrphan,
         CheckOrphanParent, RemoveOrphanBlockByHash, CheckParent, AddOrphanBlock,
         maybeAddBestChain, disconnectBlock, disconnectBlockFails, connectBlock,
         connectBlockFails, StartOrphans, NextHash, ProcessOrphan, envVars
    <2>. QED BY <2>1, LoadedViewFacts DEF Restart
  <1>. QED BY <1>1, Invariance, PTL DEF Spec, RestartKeepsChain

\* With EnableBestBlockCmp no indexed sibling of the tip is better, in whatever
\* order siblings, orphans and restarts came, until a block fails.
THEOREM TiesAreSettled == Spec => []TieSettled
  <1>1. Init => TieInv
    <2> SUFFICES ASSUME Init PROVE TieInv
      OBVIOUS
    <2>1. index = {Genesis} /\ Aim = Genesis
      BY DEF Init, Aim, Tip
    <2>2. ~CmpBestBlock(Genesis, Genesis) /\ Parent[Genesis] # Genesis
      BY BlockAssumption, CmpOrder
    <2>. QED BY <2>1, <2>2 DEF TieInv
  <1>2. IInv /\ IInv' /\ TieInv /\ [Next]_vars => TieInv'
    BY TieNext
  <1>3. TieInv => TieSettled
    BY DEF TieInv, TieSettled, Aim
  <1>. QED BY <1>1, <1>2, <1>3, Invariance, PTL DEF Spec
===============================================================================
