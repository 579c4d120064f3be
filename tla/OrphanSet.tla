------------------------------- MODULE OrphanSet -------------------------------
(***************************************************************************)
(* What the orphan pool promises to block processing: a set of blocks.     *)
(* An insertion may drop any others, and only insertions do; a block is    *)
(* handed over once, and only as a child of the hash in turn, and          *)
(* ProcessOrphans is through with a hash only when no child of it is left. *)
(* BlockChain uses the pool in this form.                                  *)
(***************************************************************************)
EXTENDS Sequences

CONSTANTS Blocks, Hashes, Parent

VARIABLES
    orphans, \* the blocks in the pool
    queue    \* hashes ProcessOrphans has in hand, the one in turn first

vars == <<orphans, queue>>

Init == orphans = {} /\ queue = <<>>

Add(b) ==
    /\ queue = <<>>
    /\ \E dropped \in SUBSET orphans : orphans' = (orphans \ dropped) \cup {b}
    /\ UNCHANGED queue

Remove(b) ==
    /\ queue = <<>>
    /\ orphans' = orphans \ {b}
    /\ UNCHANGED queue

Start(p) ==
    /\ queue = <<>> /\ queue' = <<p>>
    /\ UNCHANGED orphans

\* A child of the hash in turn leaves the pool.  Accepted, it is a parent to
\* look for later; refused, it ends the whole loop.
HandOver(c) ==
    /\ queue # <<>>
    /\ c \in orphans /\ Parent[c] = Head(queue)
    /\ orphans' = orphans \ {c}
    /\ queue' \in {Append(queue, c), <<>>}

NextHash ==
    /\ queue # <<>>
    /\ \A c \in orphans : Parent[c] # Head(queue)
    /\ queue' = Tail(queue)
    /\ UNCHANGED orphans

Next ==
    \/ \E b \in Blocks : Add(b) \/ Remove(b) \/ HandOver(b)
    \/ \E p \in Hashes : Start(p)
    \/ NextHash

Spec == Init /\ [][Next]_vars
================================================================================
