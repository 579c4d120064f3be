--------------------------- MODULE OrphanPoolProofs ---------------------------
(***************************************************************************)
(* The orphan pool, for every limit, lifetime and block tree: its bound,   *)
(* its indexes, and that it implements the set of orphans block processing *)
(* relies on.                                                              *)
(***************************************************************************)
EXTENDS OrphanPool, LeastNumber, FiniteSetTheorems, TLAPS

-------------------------------------------------------------------------------
(* Numbers and lists.  Induction is by the least counterexample.           *)

\* Among finitely many entries, or any others, one expires first.
LEMMA Earliest ==
  ASSUME NEW S, S # {}, NEW f, \A s \in S : f[s] \in Nat
  PROVE  \E b \in S : \A c \in S : f[b] <= f[c]
  <1> DEFINE T == {f[s] : s \in S}
  <1>1. T \subseteq Nat /\ T # {}
    OBVIOUS
  <1> HIDE DEF T
  <1>2. PICK m \in T : \A n \in T : m <= n
    BY <1>1, Least
  <1>. QED BY <1>2 DEF T

\* The function g is what the loop of Rest computes in k rounds.
Loops(s, D, g, k) ==
    g = [n \in 0..k |-> IF n = 0 THEN <<>>
            ELSE IF s[n] \in D THEN g[n - 1] ELSE Append(g[n - 1], s[n])]

\* The recursive definition of Rest has a solution, for any number of rounds.
LEMMA LoopExists ==
  ASSUME NEW s, NEW D, NEW K \in Nat
  PROVE  \E g : Loops(s, D, g, K)
  <1> DEFINE T == {k \in Nat : ~\E g : Loops(s, D, g, k)}
  <1>1. SUFFICES ASSUME T # {} PROVE FALSE
    BY DEF T
  <1>2. PICK k \in T : \A n \in T : k <= n
    BY <1>1, Least
  <1>3. k # 0
    <2> DEFINE g == [n \in 0..0 |-> <<>>]
    <2>1. Loops(s, D, g, 0)
      BY DEF Loops
    <2>. QED BY <2>1
  <1>4. k - 1 \in Nat /\ k - 1 \notin T
    BY <1>2, <1>3
  <1>5. PICK g : Loops(s, D, g, k - 1)
    BY <1>4
  <1> DEFINE V(x, n) == IF s[n] \in D THEN x ELSE Append(x, s[n])
             h == [n \in 0..k |-> IF n < k THEN g[n] ELSE V(g[k - 1], k)]
  <1>6. g = [n \in 0..(k - 1) |-> IF n = 0 THEN <<>> ELSE V(g[n - 1], n)]
    BY <1>5 DEF Loops
  <1> HIDE DEF V
  <1>7. k \in Nat /\ k >= 1
    BY <1>2, <1>3 DEF T
  <1>8. \A n \in 0..(k - 1) : h[n] = g[n]
    BY <1>7
  <1>9. h[0] = <<>>
    <2>1. g[0] = <<>>
      BY <1>6, <1>7
    <2>. QED BY <2>1, <1>7, <1>8
  <1>10. ASSUME NEW n \in 1..k PROVE h[n] = V(h[n - 1], n)
    <2>1. n - 1 \in 0..(k - 1) /\ h[n - 1] = g[n - 1]
      BY <1>7, <1>8
    <2>2. CASE n = k
      <3>1. h[n] = V(g[k - 1], k)
        BY <2>2, <1>7
      <3>. QED BY <2>1, <2>2, <3>1
    <2>3. CASE n # k
      <3>1. n \in 0..(k - 1) /\ n # 0
        BY <1>7, <2>3
      <3>2. g[n] = V(g[n - 1], n)
        BY <1>6, <3>1
      <3>. QED BY <2>1, <3>1, <3>2, <1>8
    <2>. QED BY <2>2, <2>3
  <1>11. h = [n \in 0..k |-> IF n = 0 THEN <<>> ELSE V(h[n - 1], n)]
    <2> DEFINE H == [n \in 0..k |-> IF n = 0 THEN <<>> ELSE V(h[n - 1], n)]
    <2>1. \A n \in 0..k : h[n] = H[n]
      <3> TAKE n \in 0..k
      <3>1. CASE n = 0
        BY <3>1, <1>9
      <3>2. CASE n # 0
        <4>1. n \in 1..k
          BY <3>2, <1>7
        <4>. QED BY <4>1, <3>2, <1>10
      <3>. QED BY <3>1, <3>2
    <2>2. H = [n \in 0..k |-> H[n]] /\ h = [n \in 0..k |-> h[n]]
      OBVIOUS
    <2> HIDE DEF H, h
    <2>3. h = H
      BY <2>1, <2>2
    <2>. QED BY <2>3 DEF H
  <1>12. Loops(s, D, h, k)
    BY <1>11, Zenon DEF Loops, V
  <1>. QED BY <1>12, <1>2 DEF T

\* So Rest is its result.
LEMMA RestLoop ==
  ASSUME NEW s, NEW D, Len(s) \in Nat
  PROVE  \E g : Loops(s, D, g, Len(s)) /\ Rest(s, D) = g[Len(s)]
  <1> DEFINE f == CHOOSE g : Loops(s, D, g, Len(s))
  <1>1. Loops(s, D, f, Len(s))
    BY LoopExists
  <1>2. Rest(s, D) = f[Len(s)]
    BY Zenon DEF Rest, Loops
  <1>. QED BY <1>1, <1>2

\* removeOrphanBlock takes the entries of D out of a list, and no others.
LEMMA RestFacts ==
  ASSUME NEW S, NEW s \in Seq(S), NEW D
  PROVE  /\ Rest(s, D) \in Seq(S)
         /\ \A e : (\E n \in DOMAIN Rest(s, D) : Rest(s, D)[n] = e)
                 <=> e \notin D /\ \E n \in DOMAIN s : s[n] = e
  <1>1. Len(s) \in Nat /\ DOMAIN s = 1..Len(s)
    OBVIOUS
  <1>2. PICK g : Loops(s, D, g, Len(s)) /\ Rest(s, D) = g[Len(s)]
    BY <1>1, RestLoop
  <1> DEFINE V(x, n) == IF s[n] \in D THEN x ELSE Append(x, s[n])
  <1>3. g[0] = <<>> /\ \A n \in 1..Len(s) : g[n] = V(g[n - 1], n)
    <2>1. g = [n \in 0..Len(s) |-> IF n = 0 THEN <<>> ELSE V(g[n - 1], n)]
      BY <1>2 DEF Loops
    <2> HIDE DEF V
    <2>. QED BY <1>1, <2>1
  <1> DEFINE In(q, e) == \E n \in DOMAIN q : q[n] = e
             Good(k) == /\ g[k] \in Seq(S)
                        /\ \A e : In(g[k], e) <=> e \notin D /\ \E n \in 1..k : s[n] = e
             T == {k \in Nat : k <= Len(s) /\ ~Good(k)}
  <1>4. T = {}
    <2>1. SUFFICES ASSUME T # {} PROVE FALSE
      OBVIOUS
    <2>3. Good(0)
      BY <1>3
    <2> HIDE DEF Good, V
    <2>2. PICK k \in Nat : /\ k <= Len(s) /\ ~Good(k)
                           /\ \A n \in Nat : n <= Len(s) /\ ~Good(n) => k <= n
      BY <2>1, Least
    <2> HIDE DEF T
    <2>4. k \in 1..Len(s) /\ k - 1 \in Nat
      BY <1>1, <2>2, <2>3
    <2>5. Good(k - 1)
      BY <2>2, <2>4
    <2>6. \A e : (\E n \in 1..k : s[n] = e) <=> (\E n \in 1..(k - 1) : s[n] = e) \/ e = s[k]
      <3>1. 1..k = 1..(k - 1) \cup {k}
        BY <2>4
      <3>. QED BY <3>1
    <2>7. CASE s[k] \in D
      <3>1. g[k] = g[k - 1]
        BY <1>3, <2>4, <2>7 DEF V
      <3>2. Good(k)
        BY <2>5, <2>6, <2>7, <3>1 DEF Good
      <3>. QED BY <3>2, <2>2
    <2>8. CASE s[k] \notin D
      <3>0. s[k] \in S
        BY <2>4
      <3>1. g[k] = Append(g[k - 1], s[k])
        BY <1>3, <2>4, <2>8 DEF V
      <3>2. g[k] \in Seq(S) /\ \A e : In(g[k], e) <=> In(g[k - 1], e) \/ e = s[k]
        <4> DEFINE q == g[k - 1]
        <4>1. q \in Seq(S)
          BY <2>5 DEF Good
        <4> HIDE DEF q
        <4>2. /\ Append(q, s[k]) \in Seq(S)
              /\ DOMAIN Append(q, s[k]) = 1..(Len(q) + 1) /\ DOMAIN q = 1..Len(q)
              /\ Len(q) \in Nat
              /\ Append(q, s[k])[Len(q) + 1] = s[k]
              /\ \A n \in 1..Len(q) : Append(q, s[k])[n] = q[n]
          BY <4>1, <3>0
        <4>3. 1..(Len(q) + 1) = 1..Len(q) \cup {Len(q) + 1}
          BY <4>2
        <4>4. \A e : In(Append(q, s[k]), e) <=> In(q, e) \/ e = s[k]
          BY <4>2, <4>3
        <4>. QED BY <3>1, <4>2, <4>4 DEF q
      <3>3. Good(k)
        BY <2>5, <2>6, <2>8, <3>2 DEF Good
      <3>. QED BY <3>3, <2>2
    <2>. QED BY <2>7, <2>8
  <1>5. Good(Len(s))
    BY <1>1, <1>4
  <1>. QED BY <1>1, <1>2, <1>5

-------------------------------------------------------------------------------
(* The bound.                                                              *)

\* A part of the pool is finite and no larger.
LEMMA Smaller ==
  ASSUME BoundInv, NEW D, D \subseteq orphans
  PROVE  /\ IsFiniteSet(D) /\ IsFiniteSet(orphans)
         /\ Cardinality(D) \in Nat /\ Cardinality(orphans) \in Nat
         /\ Cardinality(D) <= Cardinality(orphans)
  <1>1. IsFiniteSet(orphans)
    BY PoolAssumption, FS_Subset DEF BoundInv
  <1>2. IsFiniteSet(D) /\ Cardinality(D) <= Cardinality(orphans)
    BY <1>1, FS_Subset
  <1>. QED BY <1>1, <1>2, FS_CardinalityType

\* Removing entries, and every step that leaves the pool alone, keeps the bound.
LEMMA ShrinkStep ==
  ASSUME BoundInv, now' \in Nat, orphans' \subseteq orphans, exp' = exp,
         oldest' = oldest
  PROVE  BoundInv'
  <1>1. /\ Cardinality(orphans') \in Nat /\ Cardinality(orphans) \in Nat
        /\ Cardinality(orphans') <= Cardinality(orphans)
    BY Smaller
  <1>2. Cardinality(orphans') <= MaxOrphans + 1
    BY <1>1, PoolAssumption DEF BoundInv, PoolBound
  <1>3. Cardinality(orphans') > MaxOrphans => oldest' = None
    BY <1>1, PoolAssumption DEF BoundInv
  <1>. QED BY <1>2, <1>3 DEF BoundInv, PoolBound

\* AddOrphanBlock keeps the bound: at the limit the entry it evicts is in the
\* pool whenever the pool is over the limit already.
LEMMA AddStep ==
  ASSUME BoundInv, NEW b \in Blocks, AddOrphanBlock(b)
  PROVE  BoundInv'
  <1> DEFINE S == orphans \ Expired
  <1> DEFINE N == Cardinality(orphans)
  <1> USE PoolAssumption
  <1>1. /\ IsFiniteSet(S) /\ Cardinality(S) \in Nat /\ N \in Nat
        /\ Cardinality(S) <= N
    BY Smaller
  <1>2. N <= MaxOrphans + 1 /\ (N > MaxOrphans => oldest = None)
    BY DEF BoundInv, PoolBound
  <1>3. PICK o \in OldestOf(S) :
          /\ orphans' = (S \ (IF Full(S) THEN {o[1]} ELSE {})) \cup {b}
          /\ oldest' = IF Full(S) THEN None ELSE o[1]
    BY DEF AddOrphanBlock
  <1>4. now' = now /\ exp' = [exp EXCEPT ![b] = now + TTL]
    BY DEF AddOrphanBlock
  <1>5. exp' \in [Blocks -> Nat] /\ now' \in Nat /\ now + TTL \in Nat
    BY <1>4 DEF BoundInv
  <1>6. orphans' \subseteq Blocks
    BY <1>3 DEF BoundInv
  <1>7. S \subseteq Blocks /\ \A c \in S : exp[c] \in Nat
    BY DEF BoundInv
  <1>8. S # {} /\ oldest = None => o[1] \in S
    <2>1. SUFFICES ASSUME S # {}, oldest = None PROVE o[1] \in S
      OBVIOUS
    <2>2. \E c \in S : \A d \in S : exp[c] <= exp[d]
      <3> HIDE DEF S
      <3>. QED BY <1>7, <2>1, Earliest
    <2>3. PICK c \in S : \A d \in S : exp[c] <= exp[d]
      BY <2>2
    <2>4. o \in {<<d, exp[d]>> : d \in S}
      BY <2>1, <2>3 DEF OldestOf
    <2>. QED BY <2>4
  <1> HIDE DEF S, N
  <1>9. CASE ~Full(S)
    <2>1. orphans' = S \cup {b}
      BY <1>3, <1>9
    <2>2. Cardinality(orphans') <= Cardinality(S) + 1 /\ Cardinality(orphans') \in Nat
      <3>1. Cardinality(S \cup {b}) = IF b \in S THEN Cardinality(S) ELSE Cardinality(S) + 1
        BY <1>1, FS_AddElement
      <3>. QED BY <1>1, <2>1, <3>1
    <2>3. Cardinality(S) + 1 <= MaxOrphans
      BY <1>1, <1>9 DEF Full
    <2>4. Cardinality(orphans') <= MaxOrphans
      BY <1>1, <2>2, <2>3
    <2>5. PoolBound' /\ ~(Cardinality(orphans') > MaxOrphans)
      <3>1. \A n \in Nat : n <= MaxOrphans => n <= MaxOrphans + 1 /\ ~(n > MaxOrphans)
        OBVIOUS
      <3>. QED BY <2>2, <2>4, <3>1, Zenon DEF PoolBound
    <2>. QED BY <1>5, <1>6, <2>5 DEF BoundInv
  <1>10. CASE Full(S)
    <2>1. orphans' = (S \ {o[1]}) \cup {b} /\ oldest' = None
      BY <1>3, <1>10
    <2>2. /\ IsFiniteSet(S \ {o[1]})
          /\ Cardinality(S \ {o[1]}) = IF o[1] \in S THEN Cardinality(S) - 1
                                                     ELSE Cardinality(S)
      BY <1>1, FS_RemoveElement
    <2>3. Cardinality(S \ {o[1]}) \in Nat
      BY <2>2, FS_CardinalityType
    <2>4. Cardinality(orphans') <= Cardinality(S \ {o[1]}) + 1
      <3> DEFINE D == S \ {o[1]}
      <3> HIDE DEF D
      <3>1. IsFiniteSet(D) /\ Cardinality(D) \in Nat
        BY <2>2, <2>3 DEF D
      <3>2. Cardinality(D \cup {b}) = IF b \in D THEN Cardinality(D) ELSE Cardinality(D) + 1
        BY <3>1, FS_AddElement
      <3>3. orphans' = D \cup {b}
        BY <2>1 DEF D
      <3>4. Cardinality(orphans') <= Cardinality(D) + 1
        BY <3>1, <3>2, <3>3
      <3>. QED BY <3>4 DEF D
    <2>5. Cardinality(orphans') \in Nat
      BY <2>1, <2>2, FS_AddElement, FS_CardinalityType
    <2>6. Cardinality(S \ {o[1]}) <= MaxOrphans
      <3>1. CASE oldest # None
        BY <1>1, <1>2, <2>2, <3>1
      <3>2. CASE oldest = None
        <4>1. Cardinality(S) >= 1
          BY <1>1, <1>10 DEF Full
        <4>2. S # {}
          BY <1>1, <4>1, FS_EmptySet
        <4>3. o[1] \in S
          BY <1>8, <3>2, <4>2
        <4>. QED BY <1>1, <1>2, <2>2, <4>3
      <3>. QED BY <3>1, <3>2
    <2>7. PoolBound'
      <3>1. \A m, n \in Nat : m <= n + 1 /\ n <= MaxOrphans => m <= MaxOrphans + 1
        OBVIOUS
      <3>. QED BY <2>3, <2>4, <2>5, <2>6, <3>1, Zenon DEF PoolBound
    <2>. QED BY <1>5, <1>6, <2>1, <2>7 DEF BoundInv
  <1>. QED BY <1>9, <1>10

\* Every step keeps the bound.
LEMMA NextBound == BoundInv /\ [Next]_vars => BoundInv'
  <1> SUFFICES ASSUME BoundInv, [Next]_vars PROVE BoundInv'
    OBVIOUS
  <1>1. ASSUME NEW b \in Blocks, AddOrphanBlock(b) PROVE BoundInv'
    BY <1>1, AddStep
  <1>2. CASE ~(\E b \in Blocks : AddOrphanBlock(b))
    <2>1. orphans' \subseteq orphans /\ exp' = exp /\ oldest' = oldest
      BY <1>2 DEF Next, Tick, RemoveOrphanBlockByHash, ProcessOrphans, Loop,
         AcceptChild, RefuseChild, SkipNil, NextHash, vars, poolVars, oldVars
    <2>2. now' \in Nat
      <3>1. now' = now \/ now' = now + 1
        BY <1>2 DEF Next, Tick, RemoveOrphanBlockByHash, ProcessOrphans,
           Loop, AcceptChild, RefuseChild, SkipNil, NextHash, vars
      <3>2. now \in Nat
        BY DEF BoundInv
      <3>. QED BY <3>1, <3>2
    <2>. QED BY <2>1, <2>2, ShrinkStep
  <1>. QED BY <1>1, <1>2

\* The pool exceeds its limit by at most one block, although oldestOrphan may
\* point to a block that has left the pool.
THEOREM BoundedPool == Spec => []BoundInv
  <1>1. Init => BoundInv
    BY PoolAssumption, FS_EmptySet DEF Init, BoundInv, PoolBound
  <1>. QED BY <1>1, NextBound, PTL DEF Spec

-------------------------------------------------------------------------------
(* The two indexes and the loop.                                           *)

\* The entries of a list.
Entries(q) == {q[n] : n \in 1..Len(q)}

\* removeOrphanBlock of the blocks D, in all lists.
LEMMA WithoutFacts ==
  ASSUME PoolInv, NEW D
  PROVE  /\ Without(kids, D) \in [Hashes -> Seq(Blocks)]
         /\ \A p \in Hashes :
               /\ Entries(Without(kids, D)[p]) = {b \in orphans \ D : Parent[b] = p}
               /\ Without(kids, D)[p] # <<>> => kids[p] # <<>>
  <1>1. kids \in [Hashes -> Seq(Blocks)]
    BY DEF PoolInv, TypeOK
  <1>2. ASSUME NEW p \in Hashes
        PROVE  /\ Without(kids, D)[p] \in Seq(Blocks)
               /\ Entries(Without(kids, D)[p]) = {b \in orphans \ D : Parent[b] = p}
               /\ Without(kids, D)[p] # <<>> => kids[p] # <<>>
    <2> DEFINE k == kids[p]
               r == Rest(kids[p], D)
    <2>1. Without(kids, D)[p] = r /\ k \in Seq(Blocks)
      BY <1>1, <1>2 DEF Without
    <2>2. Entries(k) = {b \in orphans : Parent[b] = p}
      BY <1>2 DEF PoolInv, IndexesAgree, Entries
    <2>3. /\ r \in Seq(Blocks)
          /\ \A e : (\E n \in DOMAIN r : r[n] = e)
                  <=> e \notin D /\ \E n \in DOMAIN k : k[n] = e
      BY <2>1, RestFacts
    <2> HIDE DEF k, r
    <2>4. /\ DOMAIN r = 1..Len(r) /\ DOMAIN k = 1..Len(k)
          /\ Len(r) \in Nat /\ Len(k) \in Nat
      BY <2>1, <2>3
    <2>5. Entries(r) = Entries(k) \ D
      BY <2>3, <2>4 DEF Entries
    <2>6. r # <<>> => k # <<>>
      <3>1. SUFFICES ASSUME r # <<>>, k = <<>> PROVE FALSE
        OBVIOUS
      <3>2. 1 \in DOMAIN r
        BY <2>3, <2>4, <3>1
      <3>3. DOMAIN k = {}
        BY <3>1
      <3>. QED BY <2>3, <3>2, <3>3
    <2>. QED BY <2>1, <2>2, <2>3, <2>5, <2>6 DEF k
  <1>3. Without(kids, D) = [p \in Hashes |-> Without(kids, D)[p]]
    BY DEF Without
  <1>. QED BY <1>2, <1>3

\* An entry of a list is in the pool, under its parent.
LEMMA EntryFacts ==
  ASSUME PoolInv, NEW p \in Hashes, NEW n \in Nat, n < Len(kids[p])
  PROVE  kids[p][n + 1] \in orphans /\ Parent[kids[p][n + 1]] = p
  <1>1. kids[p] \in Seq(Blocks) /\ Len(kids[p]) \in Nat
    BY DEF PoolInv, TypeOK
  <1>2. n + 1 \in 1..Len(kids[p])
    BY <1>1
  <1>3. kids[p][n + 1] \in {kids[p][m] : m \in 1..Len(kids[p])}
    BY <1>2
  <1>. QED BY <1>3 DEF PoolInv, IndexesAgree

\* Types of the removal steps.
LEMMA RemoveFacts ==
  ASSUME PoolInv, NEW D, orphans' = orphans \ D, kids' = Without(kids, D)
  PROVE  /\ orphans' \subseteq Blocks /\ kids' \in [Hashes -> Seq(Blocks)]
         /\ IndexesAgree'
         /\ \A p \in Hashes : kids'[p] # <<>> => kids[p] # <<>>
  <1>1. orphans' \subseteq Blocks
    BY DEF PoolInv, TypeOK
  <1>2. IndexesAgree'
    BY WithoutFacts DEF IndexesAgree, Entries
  <1>. QED BY <1>1, <1>2, WithoutFacts

\* The initial pool.
LEMMA InitPool == Init => PoolInv
  <1> SUFFICES ASSUME Init PROVE PoolInv
    OBVIOUS
  <1> USE PoolAssumption DEF Init
  <1>1. TypeOK
    BY DEF TypeOK
  <1>2. IndexesAgree
    BY DEF IndexesAgree
  <1>3. LoopInv
    BY DEF LoopInv
  <1>. QED BY <1>1, <1>2, <1>3 DEF PoolInv

\* AddOrphanBlock: expired and evicted entries leave both indexes, the new one
\* enters both, also when it was there before.
LEMMA AddPool ==
  ASSUME PoolInv, NEW b \in Blocks, AddOrphanBlock(b)
  PROVE  PoolInv'
  <1> USE PoolAssumption
  <1> DEFINE S == orphans \ Expired
  <1>0. TypeOK /\ IndexesAgree
    BY DEF PoolInv
  <1>1. PICK o \in OldestOf(S) :
          LET evicted == IF Full(S) THEN {o[1]} ELSE {} IN
          /\ orphans' = (S \ evicted) \cup {b}
          /\ kids' = LET k == Without(kids, Expired \cup evicted)
                     IN  [k EXCEPT ![Parent[b]] = Append(@, b)]
          /\ oldest' = IF Full(S) THEN None ELSE o[1]
          /\ oldExp' = IF Full(S) THEN 0 ELSE o[2]
    BY DEF AddOrphanBlock
  <1>2. /\ exp' = [exp EXCEPT ![b] = now + TTL] /\ now' = now
        /\ hash = None /\ UNCHANGED loopVars
    BY DEF AddOrphanBlock, Unlocked
  <1>3. o[1] \in Blocks \cup {None} /\ o[2] \in Nat
    BY <1>0 DEF OldestOf, TypeOK
  <1> DEFINE D == Expired \cup (IF Full(S) THEN {o[1]} ELSE {})
             k == Without(kids, D)
             q == Parent[b]
  <1>4. orphans' = (orphans \ D) \cup {b} /\ kids' = [k EXCEPT ![q] = Append(@, b)]
    BY <1>1
  <1>5. /\ k \in [Hashes -> Seq(Blocks)]
        /\ \A p \in Hashes : Entries(k[p]) = {c \in orphans \ D : Parent[c] = p}
    BY WithoutFacts
  <1>6. q \in Hashes /\ Parent[b] = q
    OBVIOUS
  <1>7. oldest' \in Blocks \cup {None} /\ oldExp' \in Nat
    BY <1>1, <1>3
  <1> HIDE DEF D, k, q
  <1>8. k[q] \in Seq(Blocks) /\ Append(k[q], b) \in Seq(Blocks)
        /\ Entries(Append(k[q], b)) = Entries(k[q]) \cup {b}
    <2>1. k[q] \in Seq(Blocks)
      BY <1>5, <1>6
    <2> DEFINE t == k[q]
    <2> HIDE DEF t
    <2>2. t \in Seq(Blocks)
      BY <2>1 DEF t
    <2>3. /\ Append(t, b) \in Seq(Blocks) /\ Len(t) \in Nat
          /\ Len(Append(t, b)) = Len(t) + 1
          /\ Append(t, b)[Len(t) + 1] = b
          /\ \A n \in 1..Len(t) : Append(t, b)[n] = t[n]
      BY <2>2
    <2>4. 1..(Len(t) + 1) = 1..Len(t) \cup {Len(t) + 1}
      BY <2>3
    <2>5. Entries(Append(t, b)) = Entries(t) \cup {b}
      BY <2>3, <2>4 DEF Entries
    <2>. QED BY <2>1, <2>3, <2>5 DEF t
  <1>9. kids' \in [Hashes -> Seq(Blocks)]
        /\ \A p \in Hashes : kids'[p] = IF p = q THEN Append(k[q], b) ELSE k[p]
    BY <1>4, <1>5, <1>6, <1>8
  <1>10. IndexesAgree'
    <2>1. ASSUME NEW p \in Hashes
          PROVE  Entries(kids'[p]) = {c \in orphans' : Parent[c] = p}
      <3>1. CASE p = q
        <4>1. Entries(kids'[p]) = {c \in orphans \ D : Parent[c] = q} \cup {b}
          BY <1>5, <1>6, <1>8, <1>9, <3>1
        <4>. QED BY <4>1, <1>4, <1>6, <3>1
      <3>2. CASE p # q
        <4>1. Entries(kids'[p]) = {c \in orphans \ D : Parent[c] = p}
          BY <1>5, <1>9, <3>2
        <4>. QED BY <4>1, <1>4, <1>6, <3>2
      <3>. QED BY <3>1, <3>2
    <2>. QED BY <2>1 DEF IndexesAgree, Entries
  <1>11. TypeOK'
    <2>1. orphans' \subseteq Blocks
      BY <1>0, <1>4 DEF TypeOK
    <2>2. exp' \in [Blocks -> Nat]
      BY <1>0, <1>2 DEF TypeOK
    <2>. QED BY <1>0, <1>2, <1>7, <1>9, <2>1, <2>2 DEF TypeOK, loopVars
  <1>12. LoopInv'
    BY <1>2 DEF LoopInv, loopVars
  <1>. QED BY <1>10, <1>11, <1>12 DEF PoolInv

\* RemoveOrphanBlockByHash.
LEMMA RemovePool ==
  ASSUME PoolInv, NEW b \in Blocks, RemoveOrphanBlockByHash(b)
  PROVE  PoolInv'
  <1>1. /\ orphans' \subseteq Blocks /\ kids' \in [Hashes -> Seq(Blocks)]
        /\ IndexesAgree'
    BY RemoveFacts DEF RemoveOrphanBlockByHash
  <1>2. TypeOK'
    BY <1>1 DEF PoolInv, TypeOK, RemoveOrphanBlockByHash, oldVars, loopVars
  <1>3. LoopInv'
    BY DEF RemoveOrphanBlockByHash, Unlocked, LoopInv, loopVars
  <1>. QED BY <1>1, <1>2, <1>3 DEF PoolInv

\* ProcessOrphans and the steps of its loop.
LEMMA LoopPool ==
  ASSUME PoolInv, (\E p \in Hashes : ProcessOrphans(p)) \/ Loop
  PROVE  PoolInv'
  <1> USE PoolAssumption
  <1>0. TypeOK /\ IndexesAgree /\ LoopInv
    BY DEF PoolInv
  <1>1. ASSUME NEW p \in Hashes, ProcessOrphans(p) PROVE PoolInv'
    <2>1. /\ kids[p] \in Seq(Blocks) /\ Len(kids[p]) \in Nat
          /\ kids[p] # <<>> => Len(kids[p]) > 0
      BY <1>0, <1>1 DEF TypeOK
    <2>2. TypeOK'
      BY <1>0, <1>1, <2>1 DEF ProcessOrphans, TypeOK, poolVars, oldVars
    <2>3. LoopInv'
      BY <1>1, <2>1 DEF ProcessOrphans, LoopInv, poolVars
    <2>4. IndexesAgree'
      BY <1>0, <1>1 DEF ProcessOrphans, IndexesAgree, poolVars
    <2>. QED BY <2>2, <2>3, <2>4 DEF PoolInv
  <1>2. ASSUME AcceptChild \/ RefuseChild PROVE PoolInv'
    <2> DEFINE c == kids[hash][i + 1]
    <2>1. /\ hash \in Hashes /\ i \in Nat /\ i < Len(kids[hash])
          /\ orphans' = orphans \ {c} /\ kids' = Without(kids, {c})
          /\ UNCHANGED <<now, exp, oldVars>>
      BY <1>0, <1>2 DEF AcceptChild, RefuseChild, TypeOK
    <2>2. c \in Blocks
      BY <1>0, <2>1, EntryFacts DEF TypeOK
    <2>3. /\ orphans' \subseteq Blocks /\ kids' \in [Hashes -> Seq(Blocks)]
          /\ IndexesAgree'
          /\ \A p \in Hashes : kids'[p] # <<>> => kids[p] # <<>>
      BY <2>1, RemoveFacts
    <2> HIDE DEF c
    <2>4. /\ hash' \in Hashes \cup {None} /\ count' \in Nat /\ i' \in Nat
          /\ todo' \in Seq(Blocks)
      <3>0. /\ hash \in Hashes \cup {None} /\ count \in Nat /\ i \in Nat
            /\ todo \in Seq(Blocks)
        BY <1>0 DEF TypeOK
      <3>1. CASE AcceptChild
        <4>1. UNCHANGED <<hash, count, i>> /\ todo' = Append(todo, c)
          BY <3>1 DEF AcceptChild, c
        <4>2. Append(todo, c) \in Seq(Blocks)
          BY ONLY <2>2, <3>0
        <4>. QED BY ONLY <3>0, <4>1, <4>2
      <3>2. CASE RefuseChild
        BY <3>0, <3>2 DEF RefuseChild
      <3>. QED BY <1>2, <3>1, <3>2
    <2>5. TypeOK'
      BY <1>0, <2>1, <2>3, <2>4 DEF TypeOK, oldVars
    <2>6. LoopInv'
      BY <1>0, <1>2, <2>1, <2>3 DEF AcceptChild, RefuseChild, LoopInv
    <2>. QED BY <2>3, <2>5, <2>6 DEF PoolInv
  <1>3. ASSUME SkipNil PROVE PoolInv'
    <2>1. kids[hash] = <<>>
      <3>1. hash \in Hashes /\ kids[hash] \in Seq(Blocks) /\ i \in Nat
        BY <1>0, <1>3 DEF SkipNil, TypeOK
      <3>2. ASSUME kids[hash] # <<>> PROVE FALSE
        <4>1. i = 0 /\ i >= Len(kids[hash])
          BY <1>0, <1>3, <3>2 DEF LoopInv, SkipNil
        <4>. QED BY <3>1, <3>2, <4>1
      <3>. QED BY <3>2
    <2>2. TypeOK'
      BY <1>0, <1>3 DEF SkipNil, TypeOK, poolVars, oldVars
    <2>3. IndexesAgree' /\ LoopInv'
      BY <1>0, <1>3, <2>1 DEF SkipNil, IndexesAgree, LoopInv, poolVars
    <2>. QED BY <2>2, <2>3 DEF PoolInv
  <1>4. ASSUME NextHash PROVE PoolInv'
    <2>1. CASE todo # <<>>
      <3>1. Head(todo) \in Hashes /\ Tail(todo) \in Seq(Blocks)
        BY <1>0, <2>1 DEF TypeOK
      <3>2. /\ kids[Head(todo)] \in Seq(Blocks)
            /\ Len(kids[Head(todo)]) \in Nat
            /\ kids[Head(todo)] # <<>> => Len(kids[Head(todo)]) > 0
        BY <1>0, <3>1 DEF TypeOK
      <3>3. TypeOK'
        BY <1>0, <1>4, <2>1, <3>1, <3>2 DEF NextHash, TypeOK, poolVars, oldVars
      <3>4. LoopInv'
        BY <1>4, <2>1, <3>2 DEF NextHash, LoopInv, poolVars
      <3>5. IndexesAgree'
        BY <1>0, <1>4 DEF NextHash, IndexesAgree, poolVars
      <3>. QED BY <3>3, <3>4, <3>5 DEF PoolInv
    <2>2. CASE todo = <<>>
      <3>1. TypeOK'
        BY <1>0, <1>4, <2>2 DEF NextHash, TypeOK, poolVars, oldVars
      <3>2. LoopInv' /\ IndexesAgree'
        BY <1>0, <1>4, <2>2 DEF NextHash, LoopInv, IndexesAgree, poolVars
      <3>. QED BY <3>1, <3>2 DEF PoolInv
    <2>. QED BY <2>1, <2>2
  <1>. QED BY <1>1, <1>2, <1>3, <1>4 DEF Loop

\* Every step keeps the indexes in agreement.
LEMMA NextPool == PoolInv /\ [Next]_vars => PoolInv'
  <1> SUFFICES ASSUME PoolInv, [Next]_vars PROVE PoolInv'
    OBVIOUS
  <1>1. ASSUME NEW b \in Blocks, AddOrphanBlock(b) PROVE PoolInv'
    BY <1>1, AddPool
  <1>2. ASSUME NEW b \in Blocks, RemoveOrphanBlockByHash(b) PROVE PoolInv'
    BY <1>2, RemovePool
  <1>3. ASSUME (\E p \in Hashes : ProcessOrphans(p)) \/ Loop PROVE PoolInv'
    BY <1>3, LoopPool
  <1>4. CASE Tick
    <2>1. now' \in 0..MaxTime
      BY <1>4, PoolAssumption DEF Tick, PoolInv, TypeOK
    <2>. QED BY <1>4, <2>1 DEF Tick, PoolInv, TypeOK, IndexesAgree, LoopInv,
                poolVars, oldVars, loopVars
  <1>5. CASE UNCHANGED vars
    BY <1>5 DEF vars, PoolInv, TypeOK, IndexesAgree, LoopInv, poolVars, oldVars, loopVars
  <1>. QED BY <1>1, <1>2, <1>3, <1>4, <1>5 DEF Next

\* The invariant of the pool's indexes and of the loop of ProcessOrphans.
THEOREM PoolInvariance == Spec => []PoolInv
  BY InitPool, NextPool, PTL DEF Spec

\* Type correctness of the pool.
THEOREM TypeCorrect == Spec => []TypeOK
  <1>1. PoolInv => TypeOK
    BY DEF PoolInv
  <1>. QED BY <1>1, PoolInvariance, PTL

\* A block is found by its hash exactly when it is found by its parent's.
THEOREM IndexesAlwaysAgree == Spec => []IndexesAgree
  <1>1. PoolInv => IndexesAgree
    BY DEF PoolInv
  <1>. QED BY <1>1, PoolInvariance, PTL

-------------------------------------------------------------------------------
(* What the indexes are for.                                               *)

\* ProcessOrphans is through with a hash only when it has no child left.
LEMMA DrainedFacts == PoolInv => Drained
  <1> SUFFICES ASSUME PoolInv, hash # None, i >= count, NEW b \in orphans,
                      Parent[b] = hash
               PROVE  FALSE
    BY DEF Drained
  <1>1. hash \in Hashes /\ kids[hash] \in Seq(Blocks) /\ i \in Nat /\ count \in Nat
    BY DEF PoolInv, TypeOK
  <1>2. b \in {kids[hash][n] : n \in 1..Len(kids[hash])}
    BY <1>1 DEF PoolInv, IndexesAgree
  <1>3. kids[hash] # <<>>
    BY <1>1, <1>2
  <1>. QED BY <1>1, <1>3 DEF PoolInv, LoopInv

\* What an insertion takes from the pool.
LEMMA EvictStep ==
  ASSUME PoolInv, NEW b \in Blocks, AddOrphanBlock(b)
  PROVE  LET lost == (orphans \ Expired) \ orphans' IN
         /\ Cardinality(lost) <= 1
         /\ lost # {} => Cardinality(orphans \ Expired) >= MaxOrphans
  <1> DEFINE S == orphans \ Expired
             lost == S \ orphans'
  <1>1. PICK o \in OldestOf(S) :
           orphans' = (S \ (IF Full(S) THEN {o[1]} ELSE {})) \cup {b}
    BY DEF AddOrphanBlock
  <1>2. IsFiniteSet(S) /\ Cardinality(S) \in Nat
    BY PoolAssumption, FS_Subset, FS_CardinalityType DEF PoolInv, TypeOK
  <1>3. lost \subseteq {o[1]} /\ (lost # {} => Full(S))
    BY <1>1
  <1> HIDE DEF lost, S
  <1>4. Cardinality({o[1]}) = 1 /\ IsFiniteSet({o[1]})
    BY FS_Singleton
  <1>5. Cardinality(lost) <= 1
    BY <1>3, <1>4, FS_Subset
  <1>6. Full(S) => Cardinality(S) >= MaxOrphans
    BY <1>2, PoolAssumption DEF Full
  <1>. QED BY <1>3, <1>5, <1>6 DEF lost, S

\* Only an insertion into a full pool takes an orphan that has not expired,
\* and then one at most.
THEOREM EvictsOnlyWhenFull == Spec => EvictsWhenFull
  <1>1. PoolInv /\ [Next]_vars =>
          [(\E b \in Blocks : AddOrphanBlock(b)) =>
             LET lost == (orphans \ Expired) \ orphans' IN
             /\ Cardinality(lost) <= 1
             /\ lost # {} => Cardinality(orphans \ Expired) >= MaxOrphans]_vars
    BY EvictStep
  <1>. QED BY <1>1, PoolInvariance, PTL DEF Spec, EvictsWhenFull

-------------------------------------------------------------------------------
(* The pool implements OrphanSet.                                          *)

\* The queue of the abstract pool.
Queue == IF hash = None THEN <<>> ELSE <<hash>> \o todo

\* The queue is a sequence that starts with the hash in turn.
LEMMA QueueFacts ==
  ASSUME PoolInv
  PROVE  /\ hash = None => Queue = <<>>
         /\ hash # None => /\ Queue # <<>> /\ Head(Queue) = hash
                           /\ Tail(Queue) = todo
                           /\ \A c \in Blocks : Append(Queue, c) = <<hash>> \o Append(todo, c)
  <1>1. hash \in Hashes \cup {None} /\ todo \in Seq(Hashes)
    BY PoolAssumption DEF PoolInv, TypeOK
  <1>2. ASSUME hash # None
        PROVE  /\ <<hash>> \o todo # <<>> /\ Head(<<hash>> \o todo) = hash
               /\ Tail(<<hash>> \o todo) = todo
    BY <1>1, <1>2
  <1>3. ASSUME hash # None, NEW c \in Blocks
        PROVE  Append(<<hash>> \o todo, c) = <<hash>> \o Append(todo, c)
    <2>1. c \in Hashes
      BY PoolAssumption
    <2>. QED BY <1>1, <1>3, <2>1
  <1>. QED BY <1>2, <1>3 DEF Queue

\* Every step of the pool is a step of the set, or none.
LEMMA SetStep ==
  ASSUME PoolInv, PoolInv', [Next]_vars
  PROVE  [Set!Next]_(Set!vars)
  <1> USE PoolAssumption
  <1>0. TypeOK /\ hash \in Hashes \cup {None}
    BY DEF PoolInv, TypeOK
  <1>1. ASSUME NEW b \in Blocks, AddOrphanBlock(b) PROVE Set!Next
    <2> DEFINE S == orphans \ Expired
    <2>1. PICK o \in OldestOf(S) :
             orphans' = (S \ (IF Full(S) THEN {o[1]} ELSE {})) \cup {b}
      BY <1>1 DEF AddOrphanBlock
    <2> DEFINE dropped == orphans \cap (Expired \cup (IF Full(S) THEN {o[1]} ELSE {}))
    <2>2. orphans' = (orphans \ dropped) \cup {b} /\ dropped \in SUBSET orphans
      BY <2>1
    <2> HIDE DEF dropped
    <2>3. hash = None /\ hash' = hash
      BY <1>1 DEF AddOrphanBlock, Unlocked, loopVars
    <2>4. Set!Add(b)
      BY <2>2, <2>3 DEF Set!Add
    <2>. QED BY <2>4 DEF Set!Next
  <1>2. ASSUME NEW b \in Blocks, RemoveOrphanBlockByHash(b) PROVE Set!Next
    <2>1. Set!Remove(b)
      BY <1>2 DEF RemoveOrphanBlockByHash, Unlocked, loopVars, Set!Remove
    <2>. QED BY <2>1 DEF Set!Next
  <1>3. ASSUME NEW p \in Hashes, ProcessOrphans(p) PROVE Set!Next
    <2>1. <<p>> \o <<>> = <<p>>
      OBVIOUS
    <2>2. Set!Start(p)
      BY <1>3, <2>1 DEF ProcessOrphans, Unlocked, poolVars, Set!Start
    <2>. QED BY <2>2 DEF Set!Next
  <1>4. ASSUME AcceptChild \/ RefuseChild PROVE Set!Next
    <2> DEFINE c == kids[hash][i + 1]
    <2>1. /\ hash # None /\ hash \in Hashes /\ i \in Nat /\ i < Len(kids[hash])
          /\ orphans' = orphans \ {c}
      BY <1>0, <1>4 DEF AcceptChild, RefuseChild, TypeOK
    <2>2. c \in orphans /\ Parent[c] = hash /\ c \in Blocks
      BY <1>0, <2>1, EntryFacts DEF TypeOK
    <2>3. Queue' \in {Append(Queue, c), <<>>}
      <3>1. CASE AcceptChild
        <4>1. hash' = hash /\ todo' = Append(todo, c)
          BY <3>1 DEF AcceptChild
        <4>. QED BY <2>1, <2>2, <4>1, QueueFacts DEF Queue
      <3>2. CASE RefuseChild
        BY <3>2 DEF RefuseChild, Queue
      <3>. QED BY <1>4, <3>1, <3>2
    <2> HIDE DEF c
    <2>4. Set!HandOver(c)
      BY <2>1, <2>2, <2>3, QueueFacts DEF Set!HandOver, Queue
    <2>. QED BY <2>2, <2>4 DEF Set!Next
  <1>5. ASSUME NextHash PROVE Set!Next
    <2>1. hash # None /\ orphans' = orphans /\ \A c \in orphans : Parent[c] # hash
      BY <1>5, DrainedFacts DEF NextHash, Drained, poolVars
    <2>2. Queue' = todo
      <3>1. CASE todo # <<>>
        <4>1. hash' = Head(todo) /\ todo' = Tail(todo) /\ todo \in Seq(Hashes)
          BY <1>0, <1>5, <3>1 DEF NextHash, TypeOK
        <4>2. hash' # None
          BY <3>1, <4>1
        <4>3. <<Head(todo)>> \o Tail(todo) = todo
          BY <3>1, <4>1
        <4>. QED BY <4>1, <4>2, <4>3 DEF Queue
      <3>2. CASE todo = <<>>
        BY <1>5, <3>2 DEF NextHash, Queue
      <3>. QED BY <3>1, <3>2
    <2>3. Set!NextHash
      BY <2>1, <2>2, QueueFacts DEF Set!NextHash, Queue
    <2>. QED BY <2>3 DEF Set!Next
  <1>6. ASSUME Tick \/ SkipNil \/ UNCHANGED vars PROVE UNCHANGED Set!vars
    BY <1>6 DEF Tick, SkipNil, vars, poolVars, loopVars, Set!vars
  <1>. QED BY <1>1, <1>2, <1>3, <1>4, <1>5, <1>6 DEF Next, Loop

\* The pool implements the set of orphans that block processing relies on.
THEOREM Refinement == Spec => ImplementsSet
  <1>1. Init => Set!Init
    BY DEF Init, Set!Init
  <1>2. PoolInv /\ PoolInv' /\ [Next]_vars => [Set!Next]_(Set!vars)
    BY SetStep
  <1>. QED BY <1>1, <1>2, PoolInvariance, PTL DEF Spec, ImplementsSet, Set!Spec

===============================================================================
