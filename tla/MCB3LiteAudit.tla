--------------------------- MODULE MCB3LiteAudit ---------------------------
(***************************************************************************)
(* A small instance of B3LiteAudit: two receipts of a miner that is also   *)
(* on the trusted list, and a second trusted wallet.                       *)
(***************************************************************************)
EXTENDS B3LiteAudit

CONSTANTS r1, r2, w1, w2

TwoReceipts  == {r1, r2}
TwoWallets   == {w1, w2}
OneMiner     == [r \in Receipts |-> w1]
TrustedList  == <<w1, w2>>
=============================================================================
