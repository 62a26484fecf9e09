------------------------ MODULE MCRelationController ------------------------
(***************************************************************************)
(* RelationController for TLC: two Wallets and two accounts, each bound to *)
(* one of the other, so that every Wallet has a matching and a foreign     *)
(* account.                                                                *)
(***************************************************************************)
EXTENDS RelationController

CONSTANTS w1, w2, a1, a2

MCBound == {<<w1, a1>>, <<w2, a2>>}
=============================================================================
