---------------------------- MODULE ConnectFlow -----------------------------
(***************************************************************************)
(* One page that uses useDexterConnection (useDexterConnection.ts): the    *)
(* user connects, disconnects, removes the Wallet from the device and      *)
(* retries; the hook runs the transitions of identityTransition.ts over    *)
(* the identity coordinator; the host keeps the account session and hands  *)
(* it to useDexterIdentity (useDexterIdentity.ts) as a prop.               *)
(*                                                                         *)
(* A transition is an async function.  It is cut at its awaits; between    *)
(* two of its steps React may commit and run effects, the host may change  *)
(* its session and the user may change the Wallet.  There are no other     *)
(* tabs here, storage writes succeed, and the page is not unmounted.       *)
(***************************************************************************)
EXTENDS IdentityCoordinator

CONSTANTS
  Loading,          (* The host's session while the host restores it.      *)
  MaxMoves          (* Bound on the operations the user begins and the     *)
                    (* changes of session and Wallet that host and user    *)
                    (* make outside them, taken together.                  *)

ASSUME LoadingIsNoToken == Loading \notin Tokens \cup {None}
ASSUME MaxMovesIsNat == MaxMoves \in Nat

VARIABLES
  decided,     (* The session the host has decided on.                     *)
  session,     (* The accountSession prop of the last commit.              *)
  effectDue,   (* The effect of that commit has not run yet.               *)
  settled,     (* settledMarker is the marker of the prop.                 *)
  markerAwaits,(* The check the marker waits for; 0 if none.               *)
  action,      (* action.current; operation is "idle" while retrying.      *)
  target,      (* targetHandle and targetAccessToken, or None.             *)
  error,       (* A ConnectError is shown.                                 *)
  flow,        (* The async functions that have not returned.              *)
  moves,       (* Operations and other changes so far.                     *)
  meddled,     (* History: something else changed session or Wallet while  *)
               (* the operation ran, or it began while another ran or      *)
               (* before the page had settled on the host's session.       *)
  stale        (* History: reconcile() gave the coordinator a session that *)
               (* was not the host's, and no effect has corrected it.      *)

hostVars == <<decided, session, effectDue, settled, markerAwaits>>
controlVars == <<action, target, error>>
moveVars == <<moves, meddled>>
pageVars == <<vars, hostVars, controlVars, flow, moveVars, stale>>

Sessions == TokensOrNone \cup {Loading}
Targets == [handle : Handles \cup {None}, token : TokensOrNone]
Operations == {"connecting", "disconnecting", "removing", "retrying"}

(* Where an operation may wait: for the passkey ceremony, the binding      *)
(* answer, the host's installer (twice: before and after the host decided  *)
(* on the session), a verification, the host's sign-out after a failed     *)
(* one, the host's sign-out of a leaving user; or be about to undo, or to  *)
(* reconcile, or wait for the verification after that.                     *)
Places == {"idle", "passkey", "binding", "installing", "published", "settling",
           "clearing", "signingOut", "undo", "failed", "reconciling", "retrying"}

Flows == [at : Places, previous : Handles \cup {None}, handle : Handles \cup {None},
          token : TokensOrNone, captured : Sessions, awaits : Nat]

ASSUME NoneIsNoTarget == None \notin Targets

NoFlow == [at |-> "idle", previous |-> None, handle |-> None, token |-> None,
           captured |-> None, awaits |-> 0]

Running(op) == flow[op].at # "idle"

CoordinatorRests == NoStoreTurn /\ UNCHANGED <<controllerVars, proofVars, sessionVars>>

(* The promise of a check is resolved when the check was answered, or      *)
(* aborted by the next one.                                                *)
Resolved(rev) == \A c \in checks : c.revision # rev

(* The promise setAccountSession(token) returns: of the check it starts;   *)
(* for the current token, of that token's pending settlement if there is   *)
(* one.                                                                    *)
Settlement(token) ==
  IF AlreadySettled(token)
    THEN IF \E c \in checks : c.reason = "account_change" THEN activeCheck ELSE 0
    ELSE activeCheck'

(***************************************************************************)
(* The host, and useDexterIdentity.                                        *)
(***************************************************************************)

Meddles ==
  /\ moves < MaxMoves
  /\ moves' = moves + 1
  /\ meddled' = (meddled \/ \E op \in Operations : Running(op) \/ action = op)

(* The host changes its mind on its own: sign-in elsewhere, refresh, reload*)
HostDecides(s) ==
  /\ s # decided
  /\ decided' = s
  /\ Meddles
  /\ CoordinatorRests
  /\ UNCHANGED <<session, effectDue, settled, markerAwaits, controlVars, flow, stale>>

(* React commits the host's state: a new marker, an effect to run.         *)
Commit ==
  /\ session # decided
  /\ session' = decided
  /\ effectDue' = TRUE
  /\ settled' = FALSE
  /\ markerAwaits' = 0
  /\ CoordinatorRests
  /\ UNCHANGED <<decided, controlVars, flow, moveVars, stale>>

(* The effect hands the session to the coordinator, the first known one by *)
(* restore().                                                              *)
EffectRuns ==
  /\ effectDue
  /\ effectDue' = FALSE
  /\ stale' = FALSE
  /\ \/ session = Loading /\ SetAccountLoading /\ settled' = TRUE /\ markerAwaits' = 0
     \/ /\ session # Loading
        /\ IF initialized
             THEN SetAccountSession(session) /\ markerAwaits' = Settlement(session)
             ELSE RestoreSession(session) /\ markerAwaits' = activeCheck'
        /\ UNCHANGED settled
  /\ UNCHANGED <<decided, session, controlVars, flow, moveVars>>

MarkerSettles ==
  /\ ~settled /\ ~effectDue
  /\ Resolved(markerAwaits)
  /\ settled' = TRUE
  /\ CoordinatorRests
  /\ UNCHANGED <<decided, session, effectDue, markerAwaits, controlVars, flow, moveVars, stale>>

(* transitionSnapshot(): what can be told from the prop and the roster.    *)
TransitionSnapshot ==
  LET w == activeHandle # None
      a == session \in Tokens
  IN  [relation |-> IF w THEN "wallet_only" ELSE IF a THEN "account_only" ELSE "none",
       phase |-> IF ~initialized \/ session = Loading THEN "hydrating"
                 ELSE IF w /\ a THEN "checking" ELSE "ready",
       walletPresent |-> w,
       privateAccountAccess |-> FALSE]

CoordinatorSnapshot ==
  [relation |-> snapshot.relation, phase |-> snapshot.runtime.phase,
   walletPresent |-> snapshot.walletPresent,
   privateAccountAccess |-> snapshot.privateAccountAccess]

(* Slip: the coordinator's word is shown before the marker settles.        *)
Visible_Unsettled == CoordinatorSnapshot

(* visibleRelation: until the marker settles a provisional one is shown.   *)
Visible == IF settled THEN CoordinatorSnapshot ELSE TransitionSnapshot

UserChangesWallet ==
  /\ WalletChangesHere
  /\ Meddles
  /\ UNCHANGED <<hostVars, controlVars, flow, stale>>

(***************************************************************************)
(* Beginning and finishing an operation.                                   *)
(***************************************************************************)

(* beginAction() and what follows it before the first await.  An action    *)
(* whose earlier call has not returned is not begun again: a bound.        *)
Begin(op, started_) ==
  /\ action = "idle"
  /\ ~Running(op)
  /\ moves < MaxMoves
  /\ moves' = moves + 1
  /\ action' = op
  /\ error' = FALSE
  /\ flow' = [flow EXCEPT ![op] = started_]
  /\ meddled' = \/ \E other \in Operations : Running(other)
                \/ ~initialized \/ ~settled \/ session # decided

Moves(op, place) == flow' = [flow EXCEPT ![op].at = place]

Ends(op) == flow' = [flow EXCEPT ![op] = NoFlow]

(* Slip: the operation is not finished.                                    *)
Finished_Never(op) == UNCHANGED action

(* finishAction().                                                         *)
Finished(op) == action' = IF action = op THEN "idle" ELSE action

Steady == UNCHANGED <<session, effectDue, settled, markerAwaits, moveVars>>

(***************************************************************************)
(* connect(): connectDexterIdentity() with the hook's installer.           *)
(***************************************************************************)
BeginConnect ==
  /\ Begin("connecting",
           [NoFlow EXCEPT !.at = "passkey", !.previous = activeHandle, !.captured = session])
  /\ target' = None
  /\ CoordinatorRests
  /\ UNCHANGED <<hostVars, stale>>

(* The ceremony answers with a Wallet and a session of its account.        *)
PasskeyAnswers(h, token) ==
  /\ flow["connecting"].at = "passkey"
  /\ flow' = [flow EXCEPT !["connecting"] =
                [@ EXCEPT !.at = "binding", !.handle = h, !.token = token]]
  /\ CoordinatorRests
  /\ UNCHANGED <<hostVars, controlVars, moveVars, stale>>

(* The ceremony or the binding check fails, before anything changed.       *)
ConnectGivesUp ==
  /\ flow["connecting"].at \in {"passkey", "binding"}
  /\ Moves("connecting", "failed")
  /\ CoordinatorRests
  /\ UNCHANGED <<hostVars, controlVars, moveVars, stale>>

(* The API binds the pair: the Wallet is activated, its account token is   *)
(* allowed, and the host is asked to install the session.                  *)
PairVerified ==
  /\ flow["connecting"].at = "binding"
  /\ SubjectOf[flow["connecting"].token] = OwnerOf[flow["connecting"].handle]
  /\ \E facts \in Facts : ActivateVault(flow["connecting"].handle, facts)
  /\ allowedAccountAccessToken' = flow["connecting"].token
  /\ Moves("connecting", "installing")
  /\ Steady
  /\ UNCHANGED <<decided, action, target, error, stale>>

(* The host rejects without publishing a replacement session, or decides   *)
(* on the new session; its promise resolves later.                         *)
InstallRejected ==
  /\ flow["connecting"].at = "installing"
  /\ Moves("connecting", "undo")
  /\ CoordinatorRests
  /\ UNCHANGED <<hostVars, controlVars, moveVars, stale>>

InstallPublished ==
  /\ flow["connecting"].at = "installing"
  /\ decided' = flow["connecting"].token
  /\ Moves("connecting", "published")
  /\ CoordinatorRests
  /\ UNCHANGED <<session, effectDue, settled, markerAwaits, controlVars, moveVars, stale>>

(* settleAccountSession(), whether or not the effect ran before it.        *)
InstallResolved ==
  LET token == flow["connecting"].token
  IN  /\ flow["connecting"].at = "published"
      /\ SetAccountSession(token)
      /\ flow' = [flow EXCEPT !["connecting"] =
                    [@ EXCEPT !.at = "settling", !.awaits = Settlement(token)]]
      /\ Steady
      /\ UNCHANGED <<decided, action, target, error, stale>>

(* The verification's snapshot is read when the flow goes on, not when the *)
(* promise resolves.  connect() returns; the operation goes on until the   *)
(* completion effect.                                                      *)
SettledBound ==
  /\ flow["connecting"].at = "settling"
  /\ Resolved(flow["connecting"].awaits)
  /\ snapshot.privateAccountAccess
  /\ target' = [handle |-> flow["connecting"].handle, token |-> flow["connecting"].token]
  /\ Ends("connecting")
  /\ CoordinatorRests
  /\ UNCHANGED <<hostVars, action, error, moveVars, stale>>

(* unsettledBindingError: the host is asked to sign out again.             *)
SettledUnbound ==
  /\ flow["connecting"].at = "settling"
  /\ Resolved(flow["connecting"].awaits)
  /\ ~snapshot.privateAccountAccess
  /\ Moves("connecting", "clearing")
  /\ CoordinatorRests
  /\ UNCHANGED <<hostVars, controlVars, moveVars, stale>>

(* Either answer of the host leads to the rollback.                        *)
ClearAnswered(cleared) ==
  /\ flow["connecting"].at = "clearing"
  /\ decided' = IF cleared THEN None ELSE decided
  /\ Moves("connecting", "undo")
  /\ CoordinatorRests
  /\ UNCHANGED <<session, effectDue, settled, markerAwaits, controlVars, moveVars, stale>>

(***************************************************************************)
(* disconnectDexter() and removeFromThisDevice().                          *)
(***************************************************************************)

(* The Wallet goes before the first await.                                 *)
BeginDisconnect ==
  /\ Begin("disconnecting",
           [NoFlow EXCEPT !.at = "signingOut", !.previous = activeHandle, !.captured = session])
  /\ IF activeHandle # None
       THEN /\ Store!Disconnect(here) /\ OnWalletNotice(proof)
            /\ UNCHANGED proofNews /\ Unheard
       ELSE CoordinatorRests
  /\ UNCHANGED <<hostVars, target, stale>>

(* The row goes, then its proof; the passkey is pruned while it waits.     *)
BeginRemove ==
  /\ activeHandle # None
  /\ Begin("removing", [NoFlow EXCEPT !.at = "signingOut", !.captured = session])
  /\ Store!Remove(here, activeHandle)
  /\ OnWalletNotice([proof EXCEPT ![activeHandle] = "none"])
  /\ UNCHANGED proofNews /\ Unheard
  /\ UNCHANGED <<hostVars, target, stale>>

SignOutResolves(op) ==
  /\ flow[op].at = "signingOut"
  /\ decided' = None
  /\ Ends(op)
  /\ CoordinatorRests
  /\ UNCHANGED <<session, effectDue, settled, markerAwaits, controlVars, moveVars, stale>>

(* Only disconnectDexterIdentity() restores the Wallet.                    *)
SignOutRejects(op) ==
  /\ flow[op].at = "signingOut"
  /\ Moves(op, IF op = "disconnecting" THEN "undo" ELSE "failed")
  /\ CoordinatorRests
  /\ UNCHANGED <<hostVars, controlVars, moveVars, stale>>

(***************************************************************************)
(* Rollback, reconciliation, retry.                                        *)
(***************************************************************************)

(* Slip: without a previous Wallet nothing is restored.                    *)
RestoreWallet_OnlyIfAny(previous) ==
  IF previous # None
    THEN /\ \E facts \in Facts : Store!Activate(here, previous, facts)
         /\ OnWalletNotice(proof) /\ UNCHANGED proofNews /\ Unheard
    ELSE CoordinatorRests

(* restoreWallet().  The facts of the previous Wallet are not remembered:  *)
(* any will do.                                                            *)
RestoreWallet(previous) ==
  IF previous # None
    THEN /\ \E facts \in Facts : Store!Activate(here, previous, facts)
         /\ OnWalletNotice(proof) /\ UNCHANGED proofNews /\ Unheard
    ELSE IF activeHandle # None
    THEN /\ Store!Disconnect(here)
         /\ OnWalletNotice(proof) /\ UNCHANGED proofNews /\ Unheard
    ELSE CoordinatorRests

Undo(op) ==
  /\ flow[op].at = "undo"
  /\ RestoreWallet(flow[op].previous)
  /\ Moves(op, "failed")
  /\ UNCHANGED <<hostVars, controlVars, moveVars, stale>>

(* setError(), finishAction() at the end of a catch block.                 *)
FailureShown(op) ==
  /\ error' = TRUE
  /\ target' = IF op = "connecting" THEN None ELSE target
  /\ Finished(op)
  /\ Ends(op)

(* reconcile(), with the session of the render in which the operation      *)
(* began.                                                                  *)
Reconcile(op) ==
  LET captured == flow[op].captured
  IN  /\ flow[op].at = "failed"
      /\ \/ captured = Loading /\ SetAccountLoading /\ FailureShown(op)
         \/ /\ captured # Loading
            /\ RestoreCall(captured)
            /\ UNCHANGED initialized
            /\ flow' = [flow EXCEPT ![op] = [@ EXCEPT !.at = "reconciling", !.awaits = activeCheck']]
            /\ UNCHANGED <<action, target, error>>
      /\ stale' = (captured # session /\ ~effectDue)
      /\ Steady
      /\ UNCHANGED decided

Reconciled(op) ==
  /\ flow[op].at = "reconciling"
  /\ Resolved(flow[op].awaits)
  /\ FailureShown(op)
  /\ CoordinatorRests
  /\ UNCHANGED <<hostVars, moveVars, stale>>

BeginRetry ==
  /\ Begin("retrying", [NoFlow EXCEPT !.at = "retrying", !.awaits = revision + 1])
  /\ RetryRelation
  /\ UNCHANGED <<hostVars, target, stale>>

Retried ==
  /\ flow["retrying"].at = "retrying"
  /\ Resolved(flow["retrying"].awaits)
  /\ Finished("retrying")
  /\ Ends("retrying")
  /\ CoordinatorRests
  /\ UNCHANGED <<hostVars, target, error, moveVars, stale>>

(***************************************************************************)
(* The completion effect.                                                  *)
(***************************************************************************)
ConnectCompletes ==
  /\ action = "connecting"
  /\ target # None
  /\ activeHandle = target.handle
  /\ session = target.token
  /\ Visible.relation = "bound" /\ Visible.privateAccountAccess
  /\ action' = "idle"
  /\ target' = None
  /\ CoordinatorRests
  /\ UNCHANGED <<hostVars, error, flow, moveVars, stale>>

(* The operation is over when the page shows no identity, whether or not   *)
(* the host has signed out.                                                *)
LeaveCompletes ==
  /\ action \in {"disconnecting", "removing"}
  /\ Visible.relation = "none"
  /\ action' = "idle"
  /\ CoordinatorRests
  /\ UNCHANGED <<hostVars, target, error, flow, moveVars, stale>>

(***************************************************************************)
(* What the page shows: the hook's model (useDexterConnection.ts).         *)
(***************************************************************************)
Contract == INSTANCE ConnectionContract

(* checkingSnapshot() and errorSnapshot(): nothing is shown of an identity *)
(* during an operation, and nothing private after one that failed.         *)
Shown ==
  IF action \in Operations \ {"retrying"}
    THEN [relation |-> "none", phase |-> "checking", walletPresent |-> FALSE,
          privateAccountAccess |-> FALSE]
    ELSE IF error
    THEN [Visible EXCEPT !.phase = "error", !.privateAccountAccess = FALSE]
    ELSE Visible

Permitted(intent) == Contract!Permissions(intent, Shown)

CheckIsAnswered(c, response) ==
  /\ CheckAnswered(c, response)
  /\ UNCHANGED <<hostVars, controlVars, flow, moveVars, stale>>

-----------------------------------------------------------------------------
PageInit ==
  /\ Init
  /\ \A h \in Handles : roster[h] # NoRow /\ proof[h] = "live"
  /\ decided \in Sessions
  /\ session = decided
  /\ effectDue = TRUE /\ settled = FALSE /\ markerAwaits = 0
  /\ action = "idle" /\ target = None /\ error = FALSE
  /\ flow = [op \in Operations |-> NoFlow]
  /\ moves = 0 /\ meddled = FALSE /\ stale = FALSE

ConnectSteps ==
  \/ \E h \in Handles, token \in Tokens : PasskeyAnswers(h, token)
  \/ ConnectGivesUp
  \/ PairVerified
  \/ InstallRejected \/ InstallPublished \/ InstallResolved
  \/ SettledBound \/ SettledUnbound
  \/ \E cleared \in BOOLEAN : ClearAnswered(cleared)

LeaveSteps(op) == SignOutResolves(op) \/ SignOutRejects(op)

FailureSteps(op) == Undo(op) \/ Reconcile(op) \/ Reconciled(op)

CheckSteps ==
  \E c \in checks, response \in Resolver!Responses : CheckIsAnswered(c, response)

PageNext ==
  \/ BeginConnect \/ BeginDisconnect \/ BeginRemove \/ BeginRetry
  \/ ConnectSteps
  \/ \E op \in {"disconnecting", "removing"} : LeaveSteps(op)
  \/ \E op \in {"connecting", "disconnecting", "removing"} : FailureSteps(op)
  \/ Retried
  \/ ConnectCompletes \/ LeaveCompletes
  \/ \E s \in Sessions : HostDecides(s)
  \/ Commit \/ EffectRuns \/ MarkerSettles
  \/ UserChangesWallet
  \/ CheckSteps

PageSpec == PageInit /\ [][PageNext]_pageVars

(* React commits and runs effects, promises of the browser, of the API and *)
(* of the host's installer settle; the user owes nothing.                  *)
PageFairness ==
  /\ WF_pageVars(Commit) /\ WF_pageVars(EffectRuns) /\ WF_pageVars(MarkerSettles)
  /\ WF_pageVars(ConnectSteps)
  /\ \A op \in {"disconnecting", "removing"} : WF_pageVars(LeaveSteps(op))
  /\ \A op \in {"connecting", "disconnecting", "removing"} : WF_pageVars(FailureSteps(op))
  /\ WF_pageVars(Retried)
  /\ WF_pageVars(ConnectCompletes) /\ WF_pageVars(LeaveCompletes)
  /\ WF_pageVars(CheckSteps)

FairPageSpec == PageSpec /\ PageFairness

(***************************************************************************)
(* Properties.                                                             *)
(***************************************************************************)

AccessMatches ==
  /\ session \in Tokens /\ account = session
  /\ activeHandle # None /\ OwnerOf[activeHandle] = SubjectOf[session]

(* What the coordinator answers for is an earlier session than the host's: *)
(* reconcile() brought one back, or retry() asked about the one that was   *)
(* locked while the host loads.                                            *)
EarlierSessionReopened == stale \/ retried

(* Account data is shown only if the session the host holds is the one     *)
(* that was verified, with the active Wallet, unless reconcile() or        *)
(* retry() reopened an earlier session.                                    *)
AccessMatchesUnlessReopened ==
  Permitted("identity").accountContentVisible /\ ~EarlierSessionReopened => AccessMatches

(* A Wallet alone may be used, but not one that a session is present with  *)
(* and has not been found to belong to: wallet_only is also what is shown  *)
(* while that is being checked (relationController.ts:88).                 *)
WalletUseAwaitsVerdict ==
  Permitted("wallet").ownerWalletUseEnabled =>
    /\ activeHandle # None
    /\ session \in Tokens /\ account = session =>
         OwnerOf[activeHandle] = SubjectOf[session]

(* The control is ready exactly when the page is permitted what its intent *)
(* asks for: no stage promises what is withheld, and none asks for a       *)
(* repair of what works.                                                   *)
ControlKeepsItsWord ==
  \A intent \in Contract!Intents :
    Contract!Stage(intent, Shown) = "ready" <=>
      \/ intent = "wallet" /\ Permitted(intent).ownerWalletUseEnabled
      \/ intent # "wallet" /\ Permitted(intent).accountContentVisible

(* A transition that fails after it changed the Wallet, with nobody else   *)
(* changing anything, leaves the Wallet active that was active before.     *)
FailureRestoresWallet ==
  \A op \in {"connecting", "disconnecting"} :
    flow[op].at \in {"failed", "reconciling"} /\ ~meddled =>
      activeHandle = flow[op].previous

(* Every operation ends, unless something else changed session or Wallet   *)
(* while it ran, reconcile() left a session that is not the host's, or the *)
(* bound on revisions stops the model.                                     *)
OperationsEnd ==
  (action # "idle") ~> (action = "idle" \/ meddled \/ stale \/ revision + 2 > MaxRevision)
=============================================================================
