-------------------------------- MODULE MCPush --------------------------------
(* The push service with overlapping subscriptions.                        *)
EXTENDS Push

CONSTANTS r1, r2

MCRequests == {r1, r2}
MCStartSeqs == {0, 1, 3}
===============================================================================
