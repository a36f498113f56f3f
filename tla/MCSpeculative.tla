--------------------------- MODULE MCSpeculative ---------------------------
(***************************************************************************)
(* Small instances of Speculative for TLC.                                 *)
(***************************************************************************)
EXTENDS Speculative

CONSTANTS w1, w2

OneWallet  == {w1}
TwoWallets == {w1, w2}

\* A path on which a token repeats.
Path == <<0, 1, 1, 0, 1, 0, 0>>
=============================================================================
