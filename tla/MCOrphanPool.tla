----------------------------- MODULE MCOrphanPool -----------------------------
(***************************************************************************)
(* Instances of OrphanPool: c1 and c2 are children of p, d is a child of   *)
(* c1, and e waits for another block q.                                    *)
(***************************************************************************)
EXTENDS OrphanPool, TLC

CONSTANTS p, q, c1, c2, d, e

MCBlocks == {c1, c2, d, e}
MCHashes == MCBlocks \cup {p, q}
MCParent == c1 :> p @@ c2 :> p @@ d :> c1 @@ e :> q
===============================================================================
