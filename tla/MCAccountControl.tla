-------------------------- MODULE MCAccountControl ---------------------------
(***************************************************************************)
(* AccountControl for TLC: one Wallet whose address changes, and another.  *)
(***************************************************************************)
EXTENDS AccountControl, TLC

CONSTANTS a1, a2, b1, wa, wb

MCWalletOf == a1 :> wa @@ a2 :> wa @@ b1 :> wb
MCFits == a1 :> {a1} @@ a2 :> {a2} @@ b1 :> {b1}

PasskeySymmetry == Permutations(Passkeys)

(* No step reads the last outcome, or the visit of an action that is over. *)
StateView ==
  <<ceremonyInProgress, ceremony, made, apiVars, excluded, portfolioVars, signedIn, connectionVars,
    unfinished, open, createOpen, credentialNeedsSignIn, pending, samePanel /\ pending # None>>
=============================================================================
