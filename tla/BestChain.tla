------------------------------ MODULE BestChain ------------------------------
(***************************************************************************)
(* What block processing promises to the rest of the node: a chain that    *)
(* starts with the genesis block and changes in single steps, each to a    *)
(* chain that is preferred to the one before.  Only a block that fails and *)
(* a restart make exceptions; then too the chain is a branch or gone.      *)
(***************************************************************************)
EXTENDS Integers, Sequences

CONSTANTS
    Blocks, Genesis, Parent, Work,
    Wins     \* pairs of blocks of which the first is preferred in a tie

VARIABLES
    chain,
    failed,  \* a block failed since the boot
    boots    \* restarts so far

vars == <<chain, failed, boots>>

IsChain(c) ==
    /\ c # <<>> /\ c[1] = Genesis
    /\ \A i \in 2..Len(c) : Parent[c[i]] = c[i - 1]

\* The work of a whole chain.
Weight(c) ==
    LET w[n \in 0..Len(c)] == IF n = 0 THEN 0 ELSE w[n - 1] + Work[c[n]]
    IN  w[Len(c)]

Preferred(c, d) ==
    \/ \E b \in Blocks : c = Append(d, b)
    \/ Weight(c) > Weight(d)
    \/ Weight(c) = Weight(d) /\ <<c[Len(c)], d[Len(d)]>> \in Wins

Init == chain = <<Genesis>> /\ failed = FALSE /\ boots = 0

Switch ==
    /\ IsChain(chain') /\ Preferred(chain', chain)
    /\ UNCHANGED <<failed, boots>>

\* From the failure of a block on, until the next boot.
Fail ==
    /\ failed' = TRUE
    /\ chain' = <<>> \/ IsChain(chain')
    /\ UNCHANGED boots

Reboot ==
    /\ boots' = boots + 1 /\ failed' = FALSE
    /\ IsChain(chain')

Next == Switch \/ Fail \/ Reboot

Spec == Init /\ [][Next]_vars
==============================================================================
