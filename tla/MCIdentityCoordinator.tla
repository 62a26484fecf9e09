----------------------- MODULE MCIdentityCoordinator ------------------------
(***************************************************************************)
(* IdentityCoordinator for TLC: two Wallets of two account subjects.       *)
(***************************************************************************)
EXTENDS IdentityCoordinator, TLC

CONSTANTS w1, w2, s1, s2, k1, k2

MCOwnerOf == w1 :> s1 @@ w2 :> s2
MCSubjectOf == [k \in Tokens |-> IF k = k1 THEN s1 ELSE s2]

(* The Wallets whose proofs do not change have a live one.                 *)
MCInit == Init /\ \A h \in Handles \ ProofsChange : proof[h] = "live"
MCSpec == MCInit /\ [][Next]_vars

(* What later steps and the invariants depend on.  Not the notice and the  *)
(* outcome of the last step, nor what the store remembers for its own      *)
(* properties or for the tab that never subscribes.  Not the number of a   *)
(* revision either: an aborted check is gone at once, so the only check    *)
(* there can be is the one of the current revision.  A coordinator that is *)
(* disposed of hears, asks and shows nothing any more.                     *)
StateView ==
  IF disposed THEN <<"disposed">> ELSE
  <<wallet, account, activeCheck # 0, {<<c.wallet, c.account>> : c \in checks},
    snapshot.relation, snapshot.runtime, snapshot.privateAccountAccess,
    activeHandle, roster, subscribed, observed[here], here \in news, here \in raced,
    proofVars, started, accountLoading, invalidatedAccountSubject,
    allowedAccountAccessToken, initialized, ahead, retried>>
=============================================================================
