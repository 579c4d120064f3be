----------------------------- MODULE MCBlockChain -----------------------------
(***************************************************************************)
(* Small block trees for model checking BlockChain.                        *)
(***************************************************************************)
EXTENDS BlockChain, TLC

CONSTANTS g, a1, a2, a3, b1, b2, x

\* Two branches whose first blocks tie; switching to b2 detaches two blocks.
ForkBlocks == {g, a1, a2, b1, b2}
ForkParent == g :> NoBlock @@ a1 :> g @@ a2 :> a1 @@ b1 :> g @@ b2 :> b1
ForkHeight == g :> 0 @@ a1 :> 1 @@ a2 :> 2 @@ b1 :> 1 @@ b2 :> 2
ForkWork   == g :> 1 @@ a1 :> 1 @@ a2 :> 1 @@ b1 :> 1 @@ b2 :> 2
ForkTime   == g :> 0 @@ a1 :> 1 @@ a2 :> 2 @@ b1 :> 1 @@ b2 :> 2
ForkRank   == g :> 0 @@ a1 :> 2 @@ a2 :> 3 @@ b1 :> 1 @@ b2 :> 5

\* Branches that overtake one another: b1 outweighs a1, a2 outweighs b1; the
\* height of x does not fit its parent.
RaceBlocks == {g, a1, a2, a3, b1, x}
RaceParent == g :> NoBlock @@ a1 :> g @@ a2 :> a1 @@ a3 :> a2 @@ b1 :> g
                @@ x :> b1
RaceHeight == g :> 0 @@ a1 :> 1 @@ a2 :> 2 @@ a3 :> 3 @@ b1 :> 1 @@ x :> 3
RaceWork   == g :> 1 @@ a1 :> 1 @@ a2 :> 2 @@ a3 :> 1 @@ b1 :> 2 @@ x :> 9
RaceZero   == [b \in RaceBlocks |-> 0]

\* The smallest fork with an orphan chain, where an orphan whose height does not
\* fit waits for the same parent.
LineBlocks == {g, a1, a2, b1, x}
LineParent == g :> NoBlock @@ a1 :> g @@ a2 :> a1 @@ b1 :> g @@ x :> a1
LineHeight == g :> 0 @@ a1 :> 1 @@ a2 :> 2 @@ b1 :> 1 @@ x :> 3
LineWork   == g :> 1 @@ a1 :> 1 @@ a2 :> 1 @@ b1 :> 1 @@ x :> 1
LineTime   == [b \in LineBlocks |-> 0]
LineRank   == [b \in LineBlocks |-> 0]

Symmetry == Permutations(Handlers)
===============================================================================
