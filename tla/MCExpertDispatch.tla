-------------------------- MODULE MCExpertDispatch --------------------------
(***************************************************************************)
(* Small instances of ExpertDispatch for TLC.                              *)
(***************************************************************************)
EXTENDS ExpertDispatch

OneExpert    == {1}
TwoExperts   == {1, 2}
One          == {<<1>>}
OneOrTwo     == {<<1>>, <<1, 2>>}
ThreeWallets == 1 .. 3
FourWallets  == 1 .. 4

\* The second wallet is too small for a planned expert, and only good for
\* retries; the third one's outputs have a shape of their own.
Vram  == [w \in Wallets |-> IF w = 2 THEN 8 ELSE 16]
Forms == [w \in Wallets |-> IF w = 3 THEN "odd" ELSE "std"]
Alike == [w \in Wallets |-> "std"]

All         == Wallets
Nobody      == {}
First       == {1}
Second      == {2}
Fourth      == {4}
OneAndThree == {1, 3}
=============================================================================
