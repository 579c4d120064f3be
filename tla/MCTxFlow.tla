------------------------------- MODULE MCTxFlow -------------------------------
(***************************************************************************)
(* Instances of TxFlow.                                                    *)
(***************************************************************************)
EXTENDS TxFlow

CONSTANTS t1, t2, tbad

MCTxs == {t1, t2, tbad}
MCBad == {tbad}
MCPeerTxs == {{t1}, {t1, t2}}
===============================================================================
