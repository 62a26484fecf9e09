------------------------- MODULE ConnectionContract --------------------------
(***************************************************************************)
(* connectionContract.ts: what the control component offers and what the   *)
(* page may show, as functions of the relation that is shown and of the    *)
(* integration's intent.  shown has the fields of the relation snapshot    *)
(* that are read: relation, phase, walletPresent, privateAccountAccess.    *)
(***************************************************************************)
Intents == {"identity", "wallet", "agent"}

Provisionally == {"hydrating", "checking"}

Usable(intent, shown) ==
  \/ shown.relation = "bound"
  \/ shown.relation = "wallet_only" /\ intent = "wallet"

(* Slip: an expired session or proof is not told from a ready one.         *)
Stage_ExpiredIsReady(intent, shown) ==
  IF shown.phase \in Provisionally THEN "checking"
  ELSE IF shown.phase \in {"offline", "error"} THEN shown.phase
  ELSE IF shown.relation = "none" THEN "connect"
  ELSE IF Usable(intent, shown) THEN "ready"
  ELSE "repair"

(* stageFor(): the first that applies.                                     *)
Stage(intent, shown) ==
  IF shown.phase \in Provisionally THEN "checking"
  ELSE IF shown.phase \in {"offline", "error"} THEN shown.phase
  ELSE IF shown.phase = "expired" \/ shown.relation = "conflict" THEN "repair"
  ELSE IF shown.relation = "none" THEN "connect"
  ELSE IF Usable(intent, shown) THEN "ready"
  ELSE "repair"

Bound(shown) ==
  shown.phase = "ready" /\ shown.relation = "bound" /\ shown.privateAccountAccess

(* Slip: the relation alone decides, in whatever phase.                    *)
OwnerWalletReady_AnyPhase(intent, shown) ==
  /\ intent = "wallet"
  /\ shown.walletPresent
  /\ shown.relation = "wallet_only" \/ Bound(shown)

OwnerWalletReady(intent, shown) ==
  /\ intent = "wallet"
  /\ shown.phase = "ready"
  /\ shown.walletPresent
  /\ shown.relation = "wallet_only" \/ Bound(shown)

Permissions(intent, shown) ==
  [walletIdentityVisible |->
     shown.phase = "ready" /\ shown.walletPresent /\ shown.relation # "conflict",
   walletDataVisible |->
     OwnerWalletReady(intent, shown) \/ (Bound(shown) /\ intent = "agent"),
   ownerWalletUseEnabled |-> OwnerWalletReady(intent, shown),
   accountContentVisible |-> Bound(shown),
   agentAuthorityVisible |-> Bound(shown) /\ intent = "agent"]
=============================================================================
