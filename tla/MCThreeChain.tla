----------------------------- MODULE MCThreeChain -----------------------------
(***************************************************************************)
(* An instance of ThreeChain: the script's account and another one, the    *)
(* script's certificate and another one.                                   *)
(***************************************************************************)
EXTENDS ThreeChain

CONSTANTS other, h2

MCAccounts == {Me, other}
MCHashes == {Own, h2}
===============================================================================
