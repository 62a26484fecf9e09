--------------------------- MODULE MCConnectFlow ----------------------------
(***************************************************************************)
(* ConnectFlow for TLC: two Wallets of two account subjects, one token of  *)
(* each.                                                                   *)
(***************************************************************************)
EXTENDS ConnectFlow, TLC

CONSTANTS w1, w2, s1, s2, k1, k2

MCOwnerOf == w1 :> s1 @@ w2 :> s2
MCSubjectOf == k1 :> s1 @@ k2 :> s2

(* Whether a promise waits for the current check, or for one that is gone. *)
AwaitsView(rev) == rev # 0 /\ ~Resolved(rev)

(* What later steps and the invariants depend on: see                      *)
(* MCIdentityCoordinator.                                                  *)
PageView ==
  <<wallet, account, activeCheck # 0, {<<c.wallet, c.account, c.reason>> : c \in checks},
    snapshot.relation, snapshot.runtime, snapshot.privateAccountAccess,
    activeHandle, roster, proof, started, accountLoading, invalidatedAccountSubject,
    allowedAccountAccessToken, initialized,
    decided, session, effectDue, settled, AwaitsView(markerAwaits),
    controlVars, [op \in Operations |-> [flow[op] EXCEPT !.awaits = 0]],
    [op \in Operations |-> AwaitsView(flow[op].awaits)], moveVars, stale,
    retried>>
=============================================================================
