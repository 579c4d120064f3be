------------------------------ MODULE OrphanPool ------------------------------
(***************************************************************************)
(* The orphan pool of a node (omnilink-base/blockchain/orphanpool.go):     *)
(* blocks whose parent is unknown, found by hash and by parent hash,       *)
(* limited in number and in age, and drained by ProcessOrphans when a      *)
(* parent is accepted.                                                     *)
(*                                                                         *)
(* AddOrphanBlock and RemoveOrphanBlockByHash hold orphanLock for their    *)
(* whole body, so each is one step; ProcessOrphans holds it over many      *)
(* calls of maybeAcceptBlock, so it is taken step by step to show its      *)
(* loop.  A pool entry is its hash and expiration; a stale oldestOrphan    *)
(* pointer keeps both.  Adding a block that is in the pool already is      *)
(* possible, because ProcessBlock checks and adds without holding the lock *)
(* in between.                                                             *)
(***************************************************************************)
EXTENDS Integers, Sequences, FiniteSets

CONSTANTS
    Blocks,     \* blocks that may become orphans
    Hashes,     \* their hashes and those of their parents
    Parent,     \* parent hash of a block
    MaxOrphans, \* maxOrphanBlocks
    TTL,        \* orphanExpirationTime
    MaxTime,    \* bound on the clock
    MaxCopies,  \* bound on goroutines that add the same block at once
    None        \* the nil entry or hash

ASSUME PoolAssumption ==
    /\ Blocks \subseteq Hashes
    /\ IsFiniteSet(Blocks)
    /\ None \notin Hashes
    /\ Parent \in [Blocks -> Hashes]
    /\ MaxOrphans \in Nat \ {0}
    /\ TTL \in Nat
    /\ MaxTime \in Nat
    /\ MaxCopies \in Nat

VARIABLES
    now,     \* the clock
    orphans, \* keys of the map orphans
    exp,     \* expiration of each entry; the last one of a former entry
    kids,    \* prevOrphans: parent hash to its entries, empty for no key
    oldest,  \* block of oldestOrphan, None for nil
    oldExp,  \* expiration of oldestOrphan
    hash,    \* processHash of ProcessOrphans, None when it does not run
    count,   \* children to look at
    i,       \* index of the loop over them
    todo     \* processHashes

poolVars == <<orphans, exp, kids>>
oldVars  == <<oldest, oldExp>>
loopVars == <<hash, count, i, todo>>
vars     == <<now, poolVars, oldVars, loopVars>>

Init ==
    /\ now = 0
    /\ orphans = {}
    /\ exp = [b \in Blocks |-> 0]
    /\ kids = [p \in Hashes |-> <<>>]
    /\ oldest = None /\ oldExp = 0
    /\ hash = None /\ count = 0 /\ i = 0 /\ todo = <<>>

Tick ==
    /\ now < MaxTime
    /\ now' = now + 1
    /\ UNCHANGED <<poolVars, oldVars, loopVars>>

\* orphanLock is free
Unlocked == hash = None

-------------------------------------------------------------------------------

\* The loop of removeOrphanBlock over a list, for the blocks D: all the entries
\* of a hash go, also those added twice.
Rest(s, D) ==
    LET f[n \in 0..Len(s)] ==
            IF n = 0 THEN <<>>
            ELSE IF s[n] \in D THEN f[n - 1] ELSE Append(f[n - 1], s[n])
    IN  f[Len(s)]

\* Mutant: only the map entry goes.
WithoutKeepsKids(k, D) == k

\* prevOrphans after removeOrphanBlock of the blocks D.
Without(k, D) == [p \in Hashes |-> Rest(k[p], D)]

\* Entries that AddOrphanBlock finds expired.
Expired == {b \in orphans : now > exp[b]}

\* Mutant: the parent hash is taken for the block's.
OldestOfParent(S) ==
    IF S = {} THEN {<<oldest, oldExp>>} ELSE {<<Parent[b], exp[b]>> : b \in S}

\* What oldestOrphan may be after the loop over the entries S: an earliest
\* one (the first met, in map order) unless the present one is no later.  The
\* present one is not checked to be in the pool.
OldestOf(S) ==
    LET first == {b \in S : \A c \in S : exp[b] <= exp[c]}
        later == {b \in first : oldest = None \/ exp[b] < oldExp}
    IN  IF later = {} THEN {<<oldest, oldExp>>}
                      ELSE {<<b, exp[b]>> : b \in later}

\* Mutants: an orphan is dropped one block early, or one late.
FullEarly(S) == Cardinality(S) + 1 >= MaxOrphans
FullLate(S) == Cardinality(S) > MaxOrphans

\* The pool is at its limit.
Full(S) == Cardinality(S) + 1 > MaxOrphans

Copies(b) == Len(SelectSeq(kids[Parent[b]], LAMBDA c : c = b))

AddOrphanBlock(b) ==
    LET S == orphans \ Expired IN
    /\ Unlocked
    /\ Copies(b) < MaxCopies
    /\ \E o \in OldestOf(S) :
          LET evicted == IF Full(S) THEN {o[1]} ELSE {} IN
          /\ orphans' = (S \ evicted) \cup {b}
          /\ kids' = LET k == Without(kids, Expired \cup evicted)
                     IN  [k EXCEPT ![Parent[b]] = Append(@, b)]
          /\ oldest' = IF Full(S) THEN None ELSE o[1]
          /\ oldExp' = IF Full(S) THEN 0 ELSE o[2]
    /\ exp' = [exp EXCEPT ![b] = now + TTL]
    /\ UNCHANGED <<now, loopVars>>

\* removeOrphanBlock leaves oldestOrphan alone.
RemoveOrphanBlockByHash(b) ==
    /\ Unlocked
    /\ b \in orphans
    /\ orphans' = orphans \ {b}
    /\ kids' = Without(kids, {b})
    /\ UNCHANGED <<now, exp, oldVars, loopVars>>

-------------------------------------------------------------------------------
(* ProcessOrphans(p): p was accepted, its children may be connected.       *)

ProcessOrphans(p) ==
    /\ Unlocked
    /\ hash' = p /\ count' = Len(kids[p]) /\ i' = 0
    /\ todo' = <<>>
    /\ UNCHANGED <<now, poolVars, oldVars>>

\* Mutant: the index moves on although the list closed up.
AcceptChildSkips ==
    /\ hash # None /\ i < count /\ i < Len(kids[hash])
    /\ LET c == kids[hash][i + 1] IN
       /\ orphans' = orphans \ {c}
       /\ kids' = Without(kids, {c})
       /\ todo' = Append(todo, c)
    /\ i' = i + 1
    /\ UNCHANGED <<now, exp, oldVars, hash, count>>

\* The child at the index leaves the pool and maybeAcceptBlock takes it.
AcceptChild ==
    /\ hash # None /\ i < count /\ i < Len(kids[hash])
    /\ LET c == kids[hash][i + 1] IN
       /\ orphans' = orphans \ {c}
       /\ kids' = Without(kids, {c})
       /\ todo' = Append(todo, c)
    /\ UNCHANGED <<now, exp, oldVars, hash, count, i>>

\* maybeAcceptBlock refuses the child: it is gone and the loop ends.
RefuseChild ==
    /\ hash # None /\ i < count /\ i < Len(kids[hash])
    /\ LET c == kids[hash][i + 1] IN
       /\ orphans' = orphans \ {c}
       /\ kids' = Without(kids, {c})
    /\ hash' = None /\ count' = 0 /\ i' = 0 /\ todo' = <<>>
    /\ UNCHANGED <<now, exp, oldVars>>

\* Mutant: the index stays on the nil entry.
SkipNilStays ==
    /\ hash # None /\ i < count /\ i >= Len(kids[hash])
    /\ UNCHANGED vars

\* getChildOrphan returns nil beyond the end of the list.
SkipNil ==
    /\ hash # None /\ i < count /\ i >= Len(kids[hash])
    /\ i' = i + 1
    /\ UNCHANGED <<now, poolVars, oldVars, hash, count, todo>>

\* The next hash of processHashes, or the end.
NextHash ==
    /\ hash # None /\ i >= count
    /\ i' = 0
    /\ \/ /\ todo # <<>>
          /\ hash' = Head(todo)
          /\ count' = Len(kids[Head(todo)])
          /\ todo' = Tail(todo)
       \/ /\ todo = <<>>
          /\ hash' = None /\ count' = 0
          /\ UNCHANGED todo
    /\ UNCHANGED <<now, poolVars, oldVars>>

Loop == AcceptChild \/ RefuseChild \/ SkipNil \/ NextHash

Next ==
    \/ Tick
    \/ \E b \in Blocks : AddOrphanBlock(b) \/ RemoveOrphanBlockByHash(b)
    \/ \E p \in Hashes : ProcessOrphans(p)
    \/ Loop

Spec == Init /\ [][Next]_vars

-------------------------------------------------------------------------------
(* What the specification promises.                                        *)

\* Type invariant.
TypeOK ==
    /\ now \in 0..MaxTime
    /\ orphans \subseteq Blocks
    /\ exp \in [Blocks -> Nat]
    /\ kids \in [Hashes -> Seq(Blocks)]
    /\ oldest \in Blocks \cup {None}
    /\ oldExp \in Nat
    /\ hash \in Hashes \cup {None}
    /\ count \in Nat
    /\ i \in Nat
    /\ todo \in Seq(Blocks)

\* The two indexes of the pool agree through every mix of expiry, eviction,
\* double insertion and draining: an orphan is listed under its parent exactly
\* while it is in the map, so none is unreachable and none leaks.
IndexesAgree ==
    \A p \in Hashes :
        {kids[p][n] : n \in 1..Len(kids[p])} = {b \in orphans : Parent[b] = p}

\* However stale oldestOrphan gets, the pool exceeds its limit by at most one.
PoolBound == Cardinality(orphans) <= MaxOrphans + 1

\* Why one: oldestOrphan was reset by the insertion that went over the limit,
\* so the next eviction finds an entry of the pool.
BoundInv ==
    /\ now \in Nat /\ orphans \subseteq Blocks /\ exp \in [Blocks -> Nat]
    /\ PoolBound
    /\ Cardinality(orphans) > MaxOrphans => oldest = None

\* ProcessOrphans leaves no child of a hash it is through with, although the
\* list shrinks under its index and may hold a block twice.
Drained == hash # None /\ i >= count => \A b \in orphans : Parent[b] # hash

\* Why: the index does not move while the list has an entry.
LoopInv == hash # None /\ kids[hash] # <<>> => i = 0 /\ count > 0

PoolInv == TypeOK /\ IndexesAgree /\ LoopInv

\* Two indexes, copies, expiry, a stale oldestOrphan and a loop whose list
\* shrinks implement the set that block processing relies on.
Set == INSTANCE OrphanSet WITH
           queue <- IF hash = None THEN <<>> ELSE <<hash>> \o todo
ImplementsSet == Set!Spec

\* Only an insertion into a full pool takes an orphan that has not expired,
\* and then one at most.
EvictsWhenFull ==
    [][(\E b \in Blocks : AddOrphanBlock(b)) =>
          LET lost == (orphans \ Expired) \ orphans' IN
          /\ Cardinality(lost) <= 1
          /\ lost # {} => Cardinality(orphans \ Expired) >= MaxOrphans]_vars

\* ProcessOrphans returns, so orphanLock is given back.
LoopEnds == (hash # None) ~> (hash = None)

FairSpec == Spec /\ WF_vars(Loop)

===============================================================================
