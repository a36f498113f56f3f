----------------------------- MODULE MCDispatch -----------------------------
(***************************************************************************)
(* Small instances of Dispatch for TLC.                                    *)
(***************************************************************************)
EXTENDS Dispatch

CONSTANTS r1, r2, w1, w2, c1, c2

OneRequest  == {r1}
TwoRequests == {r1, r2}
OneWallet   == {w1}
TwoWallets  == {w1, w2}
OneConn     == {c1}
TwoConns    == {c1, c2}

Second      == {r2}     \* the second request only
FirstWallet == {w1}
Nothing     == {}

\* Connections and wallets are interchangeable where no constant names one.
Symmetry == Permutations(Wallets) \cup Permutations(Conns)
=============================================================================
