--------------------------- MODULE BestChainProofs ----------------------------
(***************************************************************************)
(* Block processing implements BestChain: to the rest of the node, a       *)
(* reorganisation of any length is one step to a preferred chain.          *)
(***************************************************************************)
EXTENDS BlockChainProofs, LeastNumber

-------------------------------------------------------------------------------
(* The weight of a chain.                                                  *)

\* The function g is what the sum of Weight computes along c.
Sums(c, g) ==
    g = [n \in 0..Len(c) |-> IF n = 0 THEN 0 ELSE g[n - 1] + Work[c[n]]]

\* Two solutions of the sum agree.
LEMMA SumsUnique ==
  ASSUME NEW c, Len(c) \in Nat, NEW f, NEW g, Sums(c, f), Sums(c, g)
  PROVE  f[Len(c)] = g[Len(c)]
  <1> DEFINE T == {n \in Nat : n <= Len(c) /\ f[n] # g[n]}
  <1>1. SUFFICES ASSUME T # {} PROVE FALSE
    OBVIOUS
  <1>2. T \subseteq Nat
    OBVIOUS
  <1>3. PICK k \in T : \A n \in T : k <= n
    BY <1>1, <1>2, Least
  <1>4. f[0] = 0 /\ g[0] = 0
    BY DEF Sums
  <1>5. k \in Nat /\ k <= Len(c) /\ f[k] # g[k] /\ k # 0
    BY <1>3, <1>4
  <1>6. k - 1 \in Nat /\ k - 1 \in 0..Len(c) /\ k \in 0..Len(c) /\ k - 1 \notin T
    BY <1>3, <1>5
  <1>7. f[k - 1] = g[k - 1]
    BY <1>5, <1>6
  <1>8. \A n \in 0..Len(c) : n # 0 => f[n] = f[n - 1] + Work[c[n]]
    BY DEF Sums
  <1>9. \A n \in 0..Len(c) : n # 0 => g[n] = g[n - 1] + Work[c[n]]
    BY DEF Sums
  <1>. QED BY <1>5, <1>6, <1>7, <1>8, <1>9

\* A total difficulty that follows the blocks of a chain is its weight.
LEMMA WeightIsTd ==
  ASSUME NEW c \in Seq(Blocks), Best!IsChain(c), NEW t \in [Blocks -> Nat],
         t[Genesis] = Work[Genesis],
         \A i \in 2..Len(c) : t[c[i]] = Work[c[i]] + t[Parent[c[i]]]
  PROVE  Best!Weight(c) = t[c[Len(c)]]
  <1>1. /\ Len(c) \in Nat /\ Len(c) >= 1 /\ c[1] = Genesis
        /\ \A i \in 2..Len(c) : Parent[c[i]] = c[i - 1]
        /\ \A i \in 1..Len(c) : c[i] \in Blocks
    BY EmptySeq DEF Best!IsChain
  <1>2. \A b \in Blocks : t[b] \in Nat /\ Work[b] \in Nat
    BY BlockAssumption
  <1> DEFINE u == [n \in 0..Len(c) |-> IF n = 0 THEN 0 ELSE t[c[n]]]
             v == [n \in 0..Len(c) |-> IF n = 0 THEN 0 ELSE u[n - 1] + Work[c[n]]]
  <1>3. u[0] = 0 /\ \A n \in 1..Len(c) : u[n] = t[c[n]]
    BY <1>1
  <1>4. u = [n \in 0..Len(c) |-> u[n]]
    OBVIOUS
  <1> HIDE DEF u
  <1>5. ASSUME NEW n \in 0..Len(c) PROVE u[n] = v[n]
    <2>1. CASE n = 0
      BY <1>1, <1>3, <2>1
    <2>2. CASE n = 1
      <3>1. v[1] = u[0] + Work[Genesis] /\ u[1] = t[Genesis]
        BY <1>1, <1>3
      <3>2. Work[Genesis] \in Nat
        BY BlockAssumption
      <3>. QED BY <1>3, <2>2, <3>1, <3>2
    <2>3. CASE n # 0 /\ n # 1
      <3>1. n \in 2..Len(c) /\ n - 1 \in 1..Len(c) /\ n \in 1..Len(c)
        BY <1>1, <2>3
      <3>2. t[c[n]] = Work[c[n]] + t[c[n - 1]]
        BY <1>1, <3>1
      <3>3. u[n] = t[c[n]] /\ u[n - 1] = t[c[n - 1]]
        BY <1>3, <3>1
      <3>4. v[n] = u[n - 1] + Work[c[n]]
        BY <2>3
      <3>5. t[c[n - 1]] \in Nat /\ Work[c[n]] \in Nat
        BY <1>1, <1>2, <3>1
      <3>. QED BY ONLY <3>2, <3>3, <3>4, <3>5
    <2>. QED BY <2>1, <2>2, <2>3
  <1>6. v = [n \in 0..Len(c) |-> v[n]]
    OBVIOUS
  <1> HIDE DEF v
  <1>7. u = v
    BY <1>4, <1>5, <1>6
  <1>8. Sums(c, u)
    BY <1>7 DEF Sums, v
  <1> DEFINE f == CHOOSE g : Sums(c, g)
  <1>9. Sums(c, f)
    BY <1>8
  <1>10. Best!Weight(c) = f[Len(c)]
    BY Zenon DEF Best!Weight, Sums
  <1> HIDE DEF f
  <1>11. f[Len(c)] = u[Len(c)]
    BY <1>1, <1>8, <1>9, SumsUnique
  <1>12. u[Len(c)] = t[c[Len(c)]]
    BY <1>1, <1>3
  <1>. QED BY <1>10, <1>11, <1>12

-------------------------------------------------------------------------------
(* The chain a reorganisation is heading for.                              *)

\* The first n elements of a list and then those of another.
LEMMA SpliceFacts ==
  ASSUME NEW S, NEW a \in Seq(S), NEW d \in Seq(S), NEW n \in 0..Len(a)
  PROVE  /\ SubSeq(a, 1, n) \o d \in Seq(S)
         /\ Len(SubSeq(a, 1, n) \o d) = n + Len(d)
         /\ \A i \in 1..n : (SubSeq(a, 1, n) \o d)[i] = a[i]
         /\ \A i \in 1..Len(d) : (SubSeq(a, 1, n) \o d)[n + i] = d[i]
  <1> DEFINE f == [i \in 1..n |-> a[i]]
  <1>0. n \in Nat /\ Len(a) \in Nat
    OBVIOUS
  <1>1. SubSeq(a, 1, n) = f
    OBVIOUS
  <1>2. f \in [1..n -> S] /\ \A i \in 1..n : f[i] = a[i]
    OBVIOUS
  <1> HIDE DEF f
  <1>3. f \in Seq(S) /\ Len(f) = n
    BY <1>0, <1>2, FunSeq, Zenon
  <1>4. /\ f \o d \in Seq(S) /\ Len(f \o d) = n + Len(d)
        /\ \A i \in 1..n : (f \o d)[i] = f[i]
        /\ \A i \in 1..Len(d) : (f \o d)[n + i] = d[i]
    BY <1>3
  <1>. QED BY <1>1, <1>2, <1>4

\* Lists are equal that agree in length and entries.
LEMMA SameSeq ==
  ASSUME NEW S, NEW a \in Seq(S), NEW d \in Seq(S), Len(a) = Len(d),
         \A i \in 1..Len(a) : a[i] = d[i]
  PROVE  a = d
  OBVIOUS

\* Entry by entry: the view up to the fork point, then the branch to attach.
LEMMA TargetEntries ==
  ASSUME IInv, stage = "reorg"
  PROVE  /\ Len(best) \in Nat /\ Len(attach) \in Nat /\ detach \in 0..Len(best)
         /\ Target \in Seq(Blocks)
         /\ Len(Target) = Len(best) - detach + Len(attach)
         /\ \A i \in 1..(Len(best) - detach) : Target[i] = best[i]
         /\ \A i \in 1..Len(attach) : Target[Len(best) - detach + i] = attach[i]
  <1>1. best \in Seq(Blocks) /\ attach \in Seq(Blocks) /\ detach \in Nat
    BY DEF IInv, TypeOK
  <1>2. detach <= Len(best)
    BY DEF IInv, SessionInv
  <1> DEFINE n == Len(best) - detach
  <1>3. n \in 0..Len(best) /\ Len(best) \in Nat /\ Len(attach) \in Nat
        /\ detach \in 0..Len(best)
    BY <1>1, <1>2
  <1>4. Target = SubSeq(best, 1, n) \o attach
    BY DEF Target
  <1> HIDE DEF n
  <1>5. /\ Target \in Seq(Blocks) /\ Len(Target) = n + Len(attach)
        /\ \A i \in 1..n : Target[i] = best[i]
        /\ \A i \in 1..Len(attach) : Target[n + i] = attach[i]
    BY <1>1, <1>3, <1>4, SpliceFacts
  <1>. QED BY <1>3, <1>5 DEF n

\* Every block of the branch to attach is indexed and follows the one before.
LEMMA AttachLinked ==
  ASSUME IInv, stage = "reorg", attach # <<>>
  PROVE  /\ detach < Len(best) /\ Len(attach) >= 1
         /\ attach[Len(attach)] = cur
         /\ Parent[attach[1]] = best[Len(best) - detach]
         /\ \A i \in 2..Len(attach) : Parent[attach[i]] = attach[i - 1]
         /\ \A i \in 1..Len(attach) : attach[i] \in stored \ {Genesis}
  <1>0. TypeOK /\ IndexInv /\ SessionInv /\ BestIsChain
    BY DEF IInv
  <1>1. /\ best \in Seq(Blocks) /\ attach \in Seq(Blocks) /\ detach \in Nat
        /\ Len(best) \in Nat /\ Len(attach) \in Nat /\ Len(attach) >= 1
    BY <1>0, EmptySeq DEF TypeOK
  <1>2. /\ detach < Len(best)
        /\ par[attach[1]] = best[Len(best) - detach]
        /\ \A i \in 2..Len(attach) : par[attach[i]] = attach[i - 1]
        /\ attach[Len(attach)] = cur
    BY <1>0 DEF SessionInv
  <1>3. /\ best[Len(best) - detach] \in Blocks
        /\ \A i \in 1..Len(attach) : attach[i] \in Blocks
    <2>1. Len(best) - detach \in 1..Len(best)
      BY <1>1, <1>2
    <2>. QED BY <1>1, <2>1
  <1>4. \A i \in 1..Len(attach) : par[attach[i]] \in Blocks
    <2>1. ASSUME NEW i \in 1..Len(attach), i # 1 PROVE par[attach[i]] \in Blocks
      <3>1. i \in 2..Len(attach) /\ i - 1 \in 1..Len(attach)
        BY <1>1, <2>1
      <3>. QED BY <1>2, <1>3, <3>1
    <2>. QED BY <1>2, <1>3, <2>1
  <1>5. \A i \in 1..Len(attach) : /\ Parent[attach[i]] = par[attach[i]]
                                  /\ attach[i] \in stored \ {Genesis}
    <2> TAKE i \in 1..Len(attach)
    <2>1. par[attach[i]] # NoBlock /\ attach[i] \in Blocks
      BY <1>3, <1>4, BlockAssumption
    <2>2. Parent[attach[i]] = par[attach[i]] /\ attach[i] \in index
      BY <1>0, <2>1 DEF IndexInv
    <2>3. attach[i] # Genesis
      BY <2>1, <2>2, BlockAssumption
    <2>. QED BY <1>0, <2>2, <2>3 DEF BestIsChain
  <1>6. 1 \in 1..Len(attach) /\ \A i \in 2..Len(attach) : i \in 1..Len(attach)
    BY <1>1
  <1>. QED BY <1>1, <1>2, <1>5, <1>6

\* The chain the view is on or heading for is a stored branch and ends in Aim;
\* it is gone only if a block failed.
LEMMA TargetFacts ==
  ASSUME IInv
  PROVE  /\ Target \in Seq(Blocks)
         /\ Target = <<>> => failed
         /\ Target # <<>> => /\ Best!IsChain(Target)
                             /\ Target[Len(Target)] = Aim
                             /\ \A i \in 1..Len(Target) : Target[i] \in stored
  <1>0. TypeOK /\ SessionInv /\ BestIsChain /\ TipHeaviest
    BY DEF IInv
  <1>1. best \in Seq(Blocks) /\ Len(best) \in Nat
    BY <1>0 DEF TypeOK
  <1>2. /\ best # <<>> => best[1] = Genesis
        /\ \A i \in 2..Len(best) : Parent[best[i]] = best[i - 1]
        /\ \A i \in 1..Len(best) : best[i] \in stored
    BY <1>0, <1>1, RangeFacts DEF BestIsChain
  <1>3. CASE stage # "reorg"
    <2>1. Target = best /\ Aim = best[Len(best)]
      BY <1>3 DEF Target, Aim, Tip
    <2>2. best = <<>> => failed
      BY <1>0, <1>3 DEF TipHeaviest
    <2>. QED BY <1>1, <1>2, <2>1, <2>2 DEF Best!IsChain
  <1>4. CASE stage = "reorg" /\ attach = <<>>
    <2>1. detach = Len(best) /\ failed
      BY <1>0, <1>4 DEF SessionInv
    <2>2. Target \in Seq(Blocks) /\ Len(Target) = Len(best) - detach + Len(attach)
      BY <1>4, TargetEntries
    <2>3. Len(Target) = 0
      BY <1>1, <1>4, <2>1, <2>2
    <2>. QED BY <2>1, <2>2, <2>3, EmptySeq
  <1>5. CASE stage = "reorg" /\ attach # <<>>
    <2> DEFINE n == Len(best) - detach
               m == Len(attach)
    <2>1. /\ detach < Len(best) /\ m >= 1 /\ attach[m] = cur
          /\ Parent[attach[1]] = best[n]
          /\ \A i \in 2..m : Parent[attach[i]] = attach[i - 1]
          /\ \A i \in 1..m : attach[i] \in stored \ {Genesis}
      BY <1>5, AttachLinked
    <2>2. /\ m \in Nat /\ detach \in 0..Len(best)
          /\ Target \in Seq(Blocks) /\ Len(Target) = n + m
          /\ \A i \in 1..n : Target[i] = best[i]
          /\ \A i \in 1..m : Target[n + i] = attach[i]
      BY <1>5, TargetEntries
    <2>3. n \in 1..Len(best)
      BY <1>1, <2>1, <2>2
    <2> HIDE DEF n, m
    <2>4. best # <<>> /\ Target # <<>>
      BY <1>1, <2>1, <2>2, <2>3, EmptySeq
    <2>5. ASSUME NEW i \in (n + 1)..(n + m)
          PROVE  i - n \in 1..m /\ Target[i] = attach[i - n]
      <3>1. i - n \in 1..m /\ n + (i - n) = i
        BY ONLY <2>2, <2>3, <2>5, <1>1
      <3>. QED BY <2>2, <3>1
    <2>6. Target[1] = Genesis
      <3>1. 1 \in 1..n
        BY ONLY <1>1, <2>3
      <3>. QED BY <1>2, <2>2, <2>4, <3>1
    <2>7. ASSUME NEW i \in 2..(n + m) PROVE Parent[Target[i]] = Target[i - 1]
      <3>1. CASE i <= n
        <4>1. i \in 1..n /\ i - 1 \in 1..n /\ i \in 2..Len(best)
          BY ONLY <1>1, <2>2, <2>3, <2>7, <3>1
        <4>. QED BY <1>2, <2>2, <4>1
      <3>2. CASE i = n + 1
        <4>1. i - n = 1 /\ i - 1 = n /\ i \in (n + 1)..(n + m) /\ n \in 1..n
          BY ONLY <1>1, <2>1, <2>2, <2>3, <2>7, <3>2
        <4>2. Target[i] = attach[1] /\ Target[i - 1] = best[n]
          BY <2>2, <2>5, <4>1
        <4>. QED BY <2>1, <4>2
      <3>3. CASE i > n + 1
        <4>1. /\ i \in (n + 1)..(n + m) /\ i - 1 \in (n + 1)..(n + m)
              /\ i - n \in 2..m /\ (i - 1) - n = (i - n) - 1
          BY ONLY <1>1, <2>1, <2>2, <2>3, <2>7, <3>3
        <4>2. Target[i] = attach[i - n] /\ Target[i - 1] = attach[(i - n) - 1]
          BY <2>5, <4>1
        <4>. QED BY <2>1, <4>1, <4>2
      <3>4. i <= n \/ i = n + 1 \/ i > n + 1
        BY ONLY <1>1, <2>2, <2>3, <2>7
      <3>. QED BY <3>1, <3>2, <3>3, <3>4
    <2>8. Best!IsChain(Target)
      BY <2>2, <2>4, <2>6, <2>7 DEF Best!IsChain
    <2>9. Target[Len(Target)] = Aim
      <3>1. m \in 1..m
        BY ONLY <2>1, <2>2
      <3>. QED BY <1>5, <2>1, <2>2, <3>1 DEF Aim
    <2>10. ASSUME NEW i \in 1..(n + m) PROVE Target[i] \in stored
      <3>1. i \in 1..n \/ i \in (n + 1)..(n + m)
        BY ONLY <1>1, <2>2, <2>3, <2>10
      <3>2. CASE i \in 1..n
        <4>1. i \in 1..Len(best)
          BY ONLY <1>1, <2>3, <3>2
        <4>. QED BY <1>2, <2>2, <3>2, <4>1
      <3>3. CASE i \in (n + 1)..(n + m)
        BY <2>1, <2>5, <3>3
      <3>. QED BY <3>1, <3>2, <3>3
    <2>. QED BY <2>2, <2>4, <2>8, <2>9, <2>10
  <1>. QED BY <1>3, <1>4, <1>5

\* So the work of a chain is the total difficulty of its last block.
LEMMA TargetWeight ==
  ASSUME IInv, Target # <<>>
  PROVE  Best!Weight(Target) = td[Aim]
  <1>0. TypeOK /\ TdConsistent
    BY DEF IInv
  <1>1. /\ Target \in Seq(Blocks) /\ Best!IsChain(Target)
        /\ Target[Len(Target)] = Aim
        /\ \A i \in 1..Len(Target) : Target[i] \in stored
    BY TargetFacts
  <1>2. Len(Target) \in Nat
    BY <1>1
  <1>3. ASSUME NEW i \in 2..Len(Target)
        PROVE  td[Target[i]] = Work[Target[i]] + td[Parent[Target[i]]]
    <2>1. i \in 1..Len(Target) /\ i - 1 \in 1..Len(Target)
      BY <1>2
    <2>2. Target[i - 1] \in Blocks /\ Parent[Target[i]] = Target[i - 1]
      BY <1>1, <2>1 DEF Best!IsChain
    <2>3. Target[i] \in stored \ {Genesis}
      BY <1>1, <2>1, <2>2, BlockAssumption
    <2>. QED BY <1>0, <2>3 DEF TdConsistent
  <1>4. td \in [Blocks -> Nat] /\ td[Genesis] = Work[Genesis]
    BY <1>0 DEF TypeOK, TdConsistent
  <1>5. Best!Weight(Target) = td[Target[Len(Target)]]
    BY <1>1, <1>3, <1>4, WeightIsTd
  <1>. QED BY <1>1, <1>5

\* Together, before and after a step.
TargetOK ==
    /\ Target \in Seq(Blocks)
    /\ Target = <<>> => failed
    /\ Target # <<>> => /\ Best!IsChain(Target)
                        /\ Target[Len(Target)] = Aim
                        /\ Best!Weight(Target) = td[Aim]

LEMMA TargetHolds == IInv => TargetOK
  BY TargetFacts, TargetWeight DEF TargetOK

LEMMA TargetHoldsNext == IInv' => TargetOK'
  BY TargetHolds, PTL

LEMMA TargetNext ==
  ASSUME IInv'
  PROVE  /\ Target' \in Seq(Blocks)
         /\ Target' = <<>> => failed'
         /\ Target' # <<>> => /\ Best!IsChain(Target')
                              /\ Target'[Len(Target')] = Aim'
                              /\ Best!Weight(Target') = td'[Aim']
  <1>1. TargetOK'
    BY TargetHoldsNext
  <1>. QED BY <1>1 DEF TargetOK, Best!IsChain, Best!Weight

-------------------------------------------------------------------------------
(* Every step of block processing is a step of BestChain or none.          *)

\* The chain stays, or moves to one that is preferred.
Moves == Target' = Target \/ Best!Switch

\* A block is accepted: it extends the tip, stays aside or is preferred.
LEMMA AcceptMoves ==
  ASSUME IInv, IInv', NEW h \in Handlers, NEW b \in Blocks \ {Genesis}, NEW p,
         stage # "reorg", Acceptable(b), maybeAcceptBlock(h, b, p),
         UNCHANGED <<chainVars, boots>>, ~failed, ~failed'
  PROVE  Moves
  <1>0. TypeOK /\ BestIsChain /\ TdConsistent /\ TipHeaviest
    BY DEF IInv
  <1>1. best # <<>> /\ best' = best /\ best \in Seq(Blocks) /\ Target = best /\ Aim = Tip
    BY <1>0 DEF TipHeaviest, chainVars, Target, Aim, TypeOK
  <1>2. /\ Target' \in Seq(Blocks) /\ Target' # <<>> /\ Best!IsChain(Target')
        /\ Target'[Len(Target')] = Aim' /\ Best!Weight(Target') = td'[Aim']
    BY TargetNext
  <1>3. Target[Len(Target)] = Tip /\ Best!Weight(Target) = td[Tip] /\ Tip \in Blocks
    BY <1>1, TargetHolds, TipFacts DEF TargetOK
  <1>4. SUFFICES ASSUME Target' # Target PROVE Best!Preferred(Target', Target)
    <2>1. failed' = failed
      BY Zenon DEF IInv, TypeOK
    <2>. QED BY <1>2, <2>1, Zenon DEF Moves, Best!Switch
  <1>5. CASE stage' # "reorg"
    BY <1>1, <1>4, <1>5 DEF Target
  <1>6. CASE stage' = "reorg" /\ Parent[b] = Tip
    <2>1. detach' = 0 /\ attach' = <<b>>
      BY <1>1, <1>6 DEF maybeAcceptBlock, connectBestChain, Reorganize, Return, Accepted
    <2> DEFINE n == Len(best)
    <2>2. n \in 0..Len(best) /\ Len(best) - 0 = n /\ n \in Nat
      BY <1>1
    <2>3. Target' = SubSeq(best, 1, Len(best) - 0) \o <<b>>
      BY <1>1, <1>6, <2>1 DEF Target
    <2>4. <<b>> \in Seq(Blocks) /\ Len(<<b>>) = 1 /\ <<b>>[1] = b
      BY OneSeq
    <2> HIDE DEF n
    <2>5. /\ Len(Target') = n + 1
          /\ \A i \in 1..n : Target'[i] = best[i]
          /\ Target'[n + 1] = b
      <3>1. Target' = SubSeq(best, 1, n) \o <<b>>
        BY <2>2, <2>3
      <3>2. /\ Len(Target') = n + Len(<<b>>)
            /\ \A i \in 1..n : Target'[i] = best[i]
            /\ \A i \in 1..Len(<<b>>) : Target'[n + i] = <<b>>[i]
        BY <1>1, <2>2, <2>4, <3>1, SpliceFacts
      <3>3. 1 \in 1..Len(<<b>>)
        BY <2>4
      <3>. QED BY <2>4, <3>2, <3>3
    <2>6. /\ Append(best, b) \in Seq(Blocks)
          /\ Len(Append(best, b)) = n + 1
          /\ \A i \in 1..n : Append(best, b)[i] = best[i]
          /\ Append(best, b)[n + 1] = b
      BY <1>1, AppendFacts DEF n
    <2>7. \A i \in 1..Len(Target') : Target'[i] = Append(best, b)[i]
      <3>1. 1..(n + 1) = 1..n \cup {n + 1}
        BY <2>2
      <3>. QED BY <2>5, <2>6, <3>1
    <2>8. Target' = Append(best, b)
      BY <1>2, <2>5, <2>6, <2>7, SameSeq
    <2>. QED BY <1>1, <2>8 DEF Best!Preferred
  <1>7. CASE stage' = "reorg" /\ Parent[b] # Tip
    <2>1. PreferToTip(b) /\ cur' = b
      BY <1>1, <1>7 DEF maybeAcceptBlock, connectBestChain, Reorganize, Return, Accepted
    <2> DEFINE w == Work[b] + td[Parent[b]]
    <2>2. w > td[Tip] \/ (EnBestBlockCmp /\ w = td[Tip] /\ CmpBestBlock(b, Tip))
      BY <2>1 DEF PreferToTip
    <2>3. td'[b] = w
      <3>1. b \in stored => td[b] = w
        BY <1>0 DEF TdConsistent
      <3>2. td' = IF b \in stored THEN td ELSE [td EXCEPT ![b] = w]
        BY DEF maybeAcceptBlock, dbMaybeStoreBlock
      <3>3. td \in [Blocks -> Nat]
        BY <1>0 DEF TypeOK
      <3> HIDE DEF w
      <3>. QED BY <3>1, <3>2, <3>3
    <2>4. Aim' = b
      BY <1>7, <2>1 DEF Aim
    <2> HIDE DEF w
    <2>5. /\ Best!Weight(Target') = w /\ Target'[Len(Target')] = b
          /\ Best!Weight(Target) = td[Tip] /\ Target[Len(Target)] = Tip
      BY <1>2, <1>3, <2>3, <2>4
    <2>6. CASE w > td[Tip]
      BY <2>5, <2>6 DEF Best!Preferred
    <2>7. CASE EnBestBlockCmp /\ w = td[Tip] /\ CmpBestBlock(b, Tip)
      <3>1. <<b, Tip>> \in {d \in Blocks \X Blocks : EnBestBlockCmp /\ CmpBestBlock(d[1], d[2])}
        BY <1>3, <2>7
      <3>. QED BY <2>5, <2>7, <3>1 DEF Best!Preferred
    <2>. QED BY <2>2, <2>6, <2>7
  <1>. QED BY <1>5, <1>6, <1>7

\* A batch of a reorganisation does not change where it is heading.
LEMMA DisconnectKeeps ==
  ASSUME IInv, NEW h \in Handlers, disconnectBlock(h), ~failed
  PROVE  Target' = Target
  <1>0. TypeOK /\ SessionInv /\ stage = "reorg"
    BY DEF IInv, disconnectBlock
  <1>1. /\ best \in Seq(Blocks) /\ Len(best) \in Nat /\ detach \in Nat /\ detach > 0
        /\ attach \in Seq(Blocks)
    BY <1>0 DEF TypeOK, disconnectBlock
  <1>2. detach < Len(best)
    BY <1>0 DEF SessionInv
  <1>3. Len(best) # 1 /\ Len(best) >= 1
    <2>1. \A k \in Nat : detach < k => k # 1 /\ k >= 1
      BY ONLY <1>1
    <2>. QED BY ONLY <1>1, <1>2, <2>1
  <1>4. stage' = "reorg" /\ detach' = detach - 1 /\ attach' = attach
        /\ best' = SubSeq(best, 1, Len(best) - 1)
    BY <1>0, <1>3 DEF disconnectBlock
  <1>5. /\ best' \in Seq(Blocks) /\ Len(best') = Len(best) - 1
        /\ \A i \in 1..(Len(best) - 1) : best'[i] = best[i]
    BY <1>1, <1>3, <1>4, FrontFacts
  <1> DEFINE n == Len(best) - detach
  <1>6. /\ n \in 0..Len(best) /\ n \in 0..Len(best') /\ Len(best') - detach' = n
        /\ \A i \in 1..n : i \in 1..(Len(best) - 1)
    <2>1. /\ n \in 0..Len(best) /\ n \in 0..(Len(best) - 1)
          /\ (Len(best) - 1) - (detach - 1) = n
          /\ \A i \in 1..n : i \in 1..(Len(best) - 1)
      BY ONLY <1>1, <1>2
    <2>. QED BY <1>4, <1>5, <2>1
  <1>7. Target = SubSeq(best, 1, n) \o attach /\ Target' = SubSeq(best', 1, n) \o attach
    BY <1>0, <1>4, <1>6 DEF Target
  <1> HIDE DEF n
  <1>8. SubSeq(best', 1, n) = SubSeq(best, 1, n)
    <2>1. SubSeq(best, 1, n) = [i \in 1..n |-> best[i]]
      BY ONLY <1>1, <1>6
    <2>2. SubSeq(best', 1, n) = [i \in 1..n |-> best'[i]]
      BY ONLY <1>5, <1>6
    <2>3. \A i \in 1..n : best'[i] = best[i]
      BY <1>5, <1>6
    <2>. QED BY ONLY <2>1, <2>2, <2>3
  <1>. QED BY <1>7, <1>8

LEMMA ConnectKeeps ==
  ASSUME IInv, NEW h \in Handlers, connectBlock(h)
  PROVE  Target' = Target
  <1>0. TypeOK /\ stage = "reorg" /\ detach = 0 /\ attach # <<>>
    BY DEF IInv, connectBlock
  <1> DEFINE b == attach[1]
             n == Len(best)
             m == Len(attach)
  <1>1. /\ best \in Seq(Blocks) /\ n \in Nat /\ attach \in Seq(Blocks)
        /\ m \in Nat /\ m >= 1 /\ Head(attach) = b /\ b \in Blocks /\ par[b] = Tip
    BY <1>0, AttachFacts DEF TypeOK
  <1>2. best' = Append(best, b)
    BY <1>0, <1>1 DEF connectBlock, SetTip
  <1>3. /\ Target \in Seq(Blocks) /\ Len(Target) = n + m
        /\ \A i \in 1..n : Target[i] = best[i]
        /\ \A i \in 1..m : Target[n + i] = attach[i]
    <2>1. Target = SubSeq(best, 1, n - 0) \o attach /\ n - 0 = n /\ n \in 0..Len(best)
      BY <1>0, <1>1 DEF Target
    <2> HIDE DEF n, m
    <2>2. Target = SubSeq(best, 1, n) \o attach
      BY <2>1
    <2>. QED BY <1>1, <2>1, <2>2, SpliceFacts DEF m
  <1>4. /\ best' \in Seq(Blocks) /\ Len(best') = n + 1
        /\ \A i \in 1..n : best'[i] = best[i]
        /\ best'[n + 1] = b
    BY <1>1, <1>2, AppendFacts
  <1>5. /\ 1..(n + 1) = 1..n \cup {n + 1} /\ 1 \in 1..m
        /\ n + 1 \in 0..Len(best') /\ n + 1 - 0 = n + 1
    BY <1>1, <1>4
  <1>6. \A i \in 1..(n + 1) : Target[i] = best'[i]
    <2> HIDE DEF n, m
    <2>. QED BY <1>3, <1>4, <1>5
  <1>7. CASE m = 1
    <2>1. stage' # "reorg"
      BY <1>0, <1>7 DEF connectBlock, Accepted
    <2>2. Target' = best'
      BY <2>1 DEF Target
    <2> HIDE DEF n, m
    <2>. QED BY <1>3, <1>4, <1>6, <1>7, <2>2, SameSeq
  <1>8. CASE m # 1
    <2>1. stage' = "reorg" /\ detach' = 0 /\ attach' = Tail(attach)
      BY <1>0, <1>8 DEF connectBlock
    <2>2. /\ attach' \in Seq(Blocks) /\ Len(attach') = m - 1
          /\ \A i \in 1..(m - 1) : attach'[i] = attach[i + 1]
      BY <1>0, <1>1, <2>1, TailFacts
    <2>3. Target' = SubSeq(best', 1, Len(best') - 0) \o attach'
      BY <2>1 DEF Target
    <2> HIDE DEF n, m
    <2>4. Target' = SubSeq(best', 1, n + 1) \o attach'
      BY <1>4, <1>5, <2>3
    <2>5. /\ Target' \in Seq(Blocks) /\ Len(Target') = (n + 1) + (m - 1)
          /\ \A i \in 1..(n + 1) : Target'[i] = best'[i]
          /\ \A i \in 1..(m - 1) : Target'[(n + 1) + i] = attach'[i]
      <3>1. /\ Target' \in Seq(Blocks) /\ Len(Target') = (n + 1) + Len(attach')
            /\ \A i \in 1..(n + 1) : Target'[i] = best'[i]
            /\ \A i \in 1..Len(attach') : Target'[(n + 1) + i] = attach'[i]
        <4> DEFINE N == n + 1
        <4>1. N \in 0..Len(best') /\ Target' = SubSeq(best', 1, N) \o attach'
          BY <1>5, <2>4
        <4> HIDE DEF N
        <4>2. /\ Target' \in Seq(Blocks) /\ Len(Target') = N + Len(attach')
              /\ \A i \in 1..N : Target'[i] = best'[i]
              /\ \A i \in 1..Len(attach') : Target'[N + i] = attach'[i]
          <5>1. best' \in Seq(Blocks) /\ attach' \in Seq(Blocks)
            BY <1>4, <2>2
          <5>2. N \in 0..Len(best')
            BY <4>1
          <5> DEFINE Z == SubSeq(best', 1, N) \o attach'
          <5>3. /\ Z \in Seq(Blocks) /\ Len(Z) = N + Len(attach')
                /\ \A i \in 1..N : Z[i] = best'[i]
                /\ \A i \in 1..Len(attach') : Z[N + i] = attach'[i]
            BY ONLY <5>1, <5>2, SpliceFacts
          <5>. QED BY <4>1, <5>3, Zenon
        <4>. QED BY <4>2, Zenon DEF N
      <3>2. Len(attach') = m - 1
        BY <2>2
      <3>. QED BY <3>1, <3>2, Zenon
    <2>6. ASSUME NEW i \in 1..(n + m) PROVE Target'[i] = Target[i]
      <3>1. CASE i \in 1..(n + 1)
        BY <1>6, <2>5, <3>1
      <3>2. CASE i \notin 1..(n + 1)
        <4> DEFINE k == i - (n + 1)
        <4>1. k \in 1..(m - 1) /\ (n + 1) + k = i /\ k + 1 \in 1..m /\ n + (k + 1) = i
          BY ONLY <1>1, <2>6, <3>2
        <4> HIDE DEF k
        <4>2. Target'[i] = attach'[k] /\ Target[i] = attach[k + 1]
          <5>1. Target'[(n + 1) + k] = attach'[k] /\ Target[n + (k + 1)] = attach[k + 1]
            BY <1>3, <2>5, <4>1
          <5>. QED BY <4>1, <5>1
        <4>. QED BY <2>2, <4>1, <4>2
      <3>. QED BY <3>1, <3>2
    <2>7. Len(Target') = Len(Target) /\ Len(Target') = n + m
      <3>1. (n + 1) + (m - 1) = n + m
        BY ONLY <1>1
      <3>. QED BY <1>3, <2>5, <3>1
    <2>. QED BY <1>3, <2>5, <2>6, <2>7, SameSeq
  <1>. QED BY <1>7, <1>8

\* Outside a reorganisation the chain is the view.
LEMMA ViewKeeps ==
  ASSUME \/ UNCHANGED <<lockVars, chainVars>>
         \/ stage # "reorg" /\ stage' # "reorg" /\ UNCHANGED chainVars
  PROVE  Target' = Target
  BY DEF Target, lockVars, chainVars

\* Every step that is no restart, while no block fails.
LEMMA StepMoves ==
  ASSUME IInv, IInv', Next, UNCHANGED boots, ~failed, ~failed'
  PROVE  Moves
  <1>0. TypeOK /\ LockInv
    BY DEF IInv
  <1>1. ASSUME NEW h \in Handlers, NEW b \in Blocks \ {Genesis}, NEW p \in Pids,
               Deliver(h, b, p)
        PROVE  Moves
    BY <1>1, ViewKeeps DEF Deliver, Moves
  <1>2. ASSUME NEW h \in Handlers, Check(h), ~maybeAddBestChain(h)
        PROVE  Moves
    <2>1. UNCHANGED <<lockVars, chainVars>>
      BY <1>2 DEF Check, CheckExists, CheckOrphan, CheckOrphanParent,
                  RemoveOrphanBlockByHash, CheckParent, AddOrphanBlock
    <2>. QED BY <2>1, ViewKeeps DEF Moves
  <1>3. ASSUME NEW h \in Handlers, maybeAddBestChain(h)
        PROVE  Moves
    <2>1. stage = "free" /\ blk[h] \in Blocks \ {Genesis} /\ UNCHANGED chainVars
      BY <1>0, <1>3 DEF maybeAddBestChain, LockInv, TypeOK
    <2>2. CASE Acceptable(blk[h]) /\ maybeAcceptBlock(h, blk[h], pid[h])
      BY <2>1, <2>2, AcceptMoves
    <2>3. CASE UNCHANGED <<lockVars, indexVars, storeVars, failed>>
      BY <2>1, <2>3, ViewKeeps DEF Moves
    <2>. QED BY <1>3, <2>2, <2>3 DEF maybeAddBestChain
  <1>4. ASSUME NEW h \in Handlers, NEW c \in orphans, ProcessOrphan(h, c)
        PROVE  Moves
    <2>1. stage = "orphans" /\ c \in Blocks \ {Genesis} /\ UNCHANGED chainVars
      BY <1>0, <1>4 DEF ProcessOrphan, TypeOK
    <2>2. CASE Acceptable(c) /\ maybeAcceptBlock(h, c, opid[c])
      BY <2>1, <2>2, AcceptMoves
    <2>3. CASE Return(h)
      BY <2>1, <2>3, ViewKeeps DEF Return, Moves
    <2>. QED BY <1>4, <2>2, <2>3 DEF ProcessOrphan
  <1>5. ASSUME NEW h \in Handlers, disconnectBlock(h) \/ connectBlock(h)
        PROVE  Moves
    BY <1>5, DisconnectKeeps, ConnectKeeps DEF Moves
  <1>6. ASSUME NEW h \in Handlers, disconnectBlockFails(h) \/ connectBlockFails(h)
        PROVE  Moves
    BY <1>6 DEF disconnectBlockFails, connectBlockFails
  <1>7. ASSUME NEW h \in Handlers, StartOrphans(h) \/ NextHash(h)
        PROVE  Moves
    <2>1. stage # "reorg" /\ stage' # "reorg" /\ UNCHANGED chainVars
      BY <1>7 DEF StartOrphans, NextHash, Return
    <2>. QED BY <2>1, ViewKeeps DEF Moves
  <1>8. CASE Close
    BY <1>8, ViewKeeps DEF Close, Moves
  <1>9. CASE Restart
    <2>1. boots' = boots + 1 /\ boots \in Int
      BY <1>0, <1>9, EnvAssumption DEF Restart, TypeOK
    <2>. QED BY <2>1
  <1>. QED BY <1>1, <1>2, <1>3, <1>4, <1>5, <1>6, <1>7, <1>8, <1>9 DEF Next, Locked

\* Only a restart forgets that a block failed.
LEMMA FailedStays ==
  ASSUME Next, ~Restart
  PROVE  UNCHANGED boots /\ (failed' = failed \/ failed' = TRUE)
  <1>1. ASSUME NEW h \in Handlers, NEW b, NEW p, maybeAcceptBlock(h, b, p)
        PROVE  failed' = failed \/ failed' = TRUE
    BY <1>1 DEF maybeAcceptBlock, connectBestChain
  <1>2. ASSUME NEW h \in Handlers, maybeAddBestChain(h)
        PROVE  UNCHANGED boots /\ (failed' = failed \/ failed' = TRUE)
    BY <1>1, <1>2 DEF maybeAddBestChain, envVars
  <1>3. ASSUME NEW h \in Handlers, NEW c, ProcessOrphan(h, c)
        PROVE  UNCHANGED boots /\ (failed' = failed \/ failed' = TRUE)
    BY <1>1, <1>3 DEF ProcessOrphan, envVars
  <1>4. ASSUME NEW h \in Handlers, Check(h), ~maybeAddBestChain(h)
        PROVE  UNCHANGED <<boots, failed>>
    BY <1>4 DEF Check, CheckExists, CheckOrphan, CheckOrphanParent,
                RemoveOrphanBlockByHash, CheckParent, AddOrphanBlock, envVars
  <1>5. ASSUME NEW h \in Handlers, Locked(h), \A c \in orphans : ~ProcessOrphan(h, c)
        PROVE  UNCHANGED boots /\ (failed' = failed \/ failed' = TRUE)
    BY <1>5 DEF Locked, disconnectBlock, disconnectBlockFails, connectBlock,
                connectBlockFails, StartOrphans, NextHash, envVars
  <1>6. ASSUME NEW h \in Handlers, NEW b, NEW p, Deliver(h, b, p)
        PROVE  UNCHANGED <<boots, failed>>
    BY <1>6 DEF Deliver, envVars
  <1>7. CASE Close
    BY <1>7 DEF Close
  <1>. QED BY <1>2, <1>3, <1>4, <1>5, <1>6, <1>7 DEF Next

\* Every step maps to a step of BestChain or to none.
LEMMA StepRefines ==
  ASSUME IInv, IInv', [Next]_vars
  PROVE  [Best!Next]_(Best!vars)
  <1>1. /\ Target' = <<>> => failed'
        /\ Target' # <<>> => Best!IsChain(Target')
    BY TargetNext
  <1>2. failed \in BOOLEAN /\ failed' \in BOOLEAN
    BY Zenon DEF IInv, TypeOK
  <1>3. CASE UNCHANGED vars
    <2>1. UNCHANGED <<lockVars, chainVars, failed, boots>>
      BY <1>3 DEF vars, envVars
    <2>. QED BY <2>1, ViewKeeps DEF Best!vars
  <1>4. CASE Restart
    <2>1. boots' = boots + 1 /\ failed' = FALSE
      BY <1>4 DEF Restart
    <2>. QED BY <1>1, <2>1 DEF Best!Next, Best!Reboot
  <1>5. CASE Next /\ ~Restart /\ failed'
    <2>1. UNCHANGED boots
      BY <1>5, FailedStays
    <2>2. failed' = TRUE
      BY <1>2, <1>5, Zenon
    <2>. QED BY <1>1, <2>1, <2>2 DEF Best!Next, Best!Fail
  <1>6. CASE Next /\ ~Restart /\ ~failed'
    <2>1. UNCHANGED boots /\ failed' = failed
      BY <1>6, FailedStays, Zenon
    <2>2. Moves
      BY <1>6, <2>1, StepMoves, Zenon
    <2>. QED BY <2>1, <2>2 DEF Moves, Best!Next, Best!vars
  <1>. QED BY <1>3, <1>4, <1>5, <1>6

\* maybeAcceptBlock, connectBestChain, reorganizeChain and the orphan loop,
\* batch by batch and under every interleaving, failure and restart, implement
\* a chain that moves in single steps to a preferred chain.
THEOREM Refinement == Spec => ImplementsBestChain
  <1>1. Init => Best!Init
    BY DEF Init, Best!Init, Target
  <1>2. IInv /\ IInv' /\ [Next]_vars => [Best!Next]_(Best!vars)
    BY StepRefines
  <1>. QED BY <1>1, <1>2, Invariance, PTL DEF Spec, ImplementsBestChain, Best!Spec
===============================================================================
