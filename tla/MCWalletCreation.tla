-------------------------- MODULE MCWalletCreation --------------------------
(***************************************************************************)
(* WalletCreation for TLC: pages and passkeys are interchangeable.         *)
(***************************************************************************)
EXTENDS WalletCreation, TLC

PagesAndPasskeys == Permutations(Pages) \cup Permutations(Passkeys)
=============================================================================
