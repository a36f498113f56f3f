---------------------------- MODULE MCLifecycle ----------------------------
(***************************************************************************)
(* Small instances of Lifecycle for TLC.                                   *)
(***************************************************************************)
EXTENDS Lifecycle

CONSTANTS s1, s2, q1, w1, a1, a2

OneRow      == {s1}
TwoRows     == {s1, s2}
OneRequest  == {q1}
OneWallet   == {w1}
OneAddr     == {a1}
TwoAddrs    == {a1, a2}

SameRequest == [s \in Rows |-> q1]
SameWallet  == [s \in Rows |-> w1]
=============================================================================
