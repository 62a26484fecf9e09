---------------------------- MODULE AccountControl ---------------------------
(***************************************************************************)
(* DexterAccountControl (DexterAccountControl.tsx) with the creation panel *)
(* (CreateWalletPanel.tsx), in a host that gives it credentialAccess: the  *)
(* ceremonies of AccountIdentity over the control's own state, and the     *)
(* summary of AccountPortfolio, which is on the screen while a Wallet is   *)
(* ready.                                                                  *)
(*                                                                         *)
(* What useDexterConnection holds is seen here as a stage and a Wallet,    *)
(* which its own operations, other tabs and answers change; ConnectFlow    *)
(* models it.  The continuation of a ceremony runs in the turn in which    *)
(* the ceremony ends.                                                      *)
(***************************************************************************)
EXTENDS AccountIdentity, AccountPortfolio, FiniteSets

CONSTANT MaxMoves (* Bound: the changes of the connection, made by its own *)
                  (* operations or otherwise.                              *)

ASSUME MaxMovesIsNatural == MaxMoves \in Nat

VARIABLES
  open,                 (* The panel is shown.                             *)
  createOpen,
  credentialNeedsSignIn,
  pending,              (* The action that run() waits for, or None.       *)
  samePanel,            (* The panel has been open since that began.       *)
  signedIn,             (* The host: it holds a credential session.        *)
  stage,                (* The connection's stage.                         *)
  activeWallet,         (* Its Wallet, as a view, or NoView.               *)
  moves,
  unfinished            (* History: passkeys submitted in this life of the *)
                        (* page that may be enrolled, since the host last  *)
                        (* accepted an identity.                           *)

panelVars == <<open, createOpen, credentialNeedsSignIn, pending, samePanel>>
connectionVars == <<stage, activeWallet, moves>>
controlVars == <<panelVars, signedIn, connectionVars, unfinished>>
accountVars == <<identityVars, portfolioVars, controlVars>>

HasWallet == activeWallet # NoView

(* The host's entry is offered to a page without a Wallet.                 *)
CredentialEntry == stage = "connect" /\ ~HasWallet

Busy == stage = "checking" \/ pending # None

(* Slip: an account may be created whatever became of the last one.        *)
CanCreate_Always == CredentialEntry /\ ~signedIn

CanCreate == CredentialEntry /\ ~signedIn /\ ~credentialNeedsSignIn

Creating == open /\ CanCreate /\ createOpen

(* The summary is mounted with the panel, for a Wallet that is ready.      *)
SummaryFor(view) == IF open' /\ stage' = "ready" THEN view ELSE NoView

Shows == Rendered(SummaryFor(activeWallet'))

(***************************************************************************)
(* The panel.                                                              *)
(***************************************************************************)

(* Closing ends the visit, and the effect resets what was opened in it.    *)
Closed == open' = FALSE /\ createOpen' = FALSE /\ samePanel' = FALSE

(* A press outside, Escape, the trigger or a link.                         *)
ClosePanel ==
  /\ open /\ Closed
  /\ NoCeremonyStep
  /\ UNCHANGED <<credentialNeedsSignIn, pending, signedIn, connectionVars, unfinished>>
  /\ Shows

OpenPanel ==
  /\ ~open /\ open' = TRUE
  /\ NoCeremonyStep
  /\ UNCHANGED <<createOpen, credentialNeedsSignIn, pending, samePanel, signedIn,
                 connectionVars, unfinished>>
  /\ Shows

(* "Create an account", and "Sign in instead".                             *)
OpenCreation ==
  /\ open /\ CanCreate /\ ~createOpen /\ ~Busy
  /\ createOpen' = TRUE
  /\ NoCeremonyStep
  /\ UNCHANGED <<portfolioVars, open, credentialNeedsSignIn, pending, samePanel, signedIn,
                 connectionVars, unfinished>>

CloseCreation ==
  /\ Creating /\ createOpen' = FALSE
  /\ NoCeremonyStep
  /\ UNCHANGED <<portfolioVars, open, credentialNeedsSignIn, pending, samePanel, signedIn,
                 connectionVars, unfinished>>

(* handleCreate() of the creation panel.                                   *)
Create(hosted) ==
  /\ Creating
  /\ BeginCeremony("enroll", hosted)
  /\ UNCHANGED <<portfolioVars, controlVars>>

(* run('credential').                                                      *)
SignIn(hosted) ==
  /\ open /\ CredentialEntry /\ ~signedIn /\ ~Creating /\ ~Busy
  /\ BeginCeremony("signin", hosted)
  /\ pending' = "credential" /\ samePanel' = TRUE
  /\ UNCHANGED <<portfolioVars, open, createOpen, credentialNeedsSignIn, signedIn,
                 connectionVars, unfinished>>

(* The host takes an identity, and the panel is dismissed.                 *)
Accepted ==
  /\ signedIn' = TRUE
  /\ unfinished' = {}
  /\ Closed

(* Slip: a result is taken by any panel that happens to be open.           *)
SignInFinished_AnyPanel ==
  IF outcome'.code = "ok" /\ open
    THEN Accepted /\ credentialNeedsSignIn' = FALSE
    ELSE UNCHANGED <<open, createOpen, samePanel, signedIn, credentialNeedsSignIn, unfinished>>

(* The result of a sign-in counts only in the visit in which it began.     *)
SignInFinished ==
  IF outcome'.code = "ok" /\ open /\ samePanel
    THEN Accepted /\ credentialNeedsSignIn' = FALSE
    ELSE UNCHANGED <<open, createOpen, samePanel, signedIn, credentialNeedsSignIn, unfinished>>

PointsToSignIn == {"uncertain", "exists"}

(* onCredentialCreated and onError of the creation panel, which outlive    *)
(* the panel.                                                              *)
EnrollmentFinished ==
  CASE outcome'.code = "ok" ->
         Accepted /\ UNCHANGED credentialNeedsSignIn
    [] outcome'.code \in PointsToSignIn ->
         /\ credentialNeedsSignIn' = TRUE
         /\ createOpen' = FALSE
         /\ UNCHANGED <<open, samePanel, signedIn, unfinished>>
    [] OTHER ->
         /\ unfinished' = unfinished \ {outcome'.passkey}
         /\ UNCHANGED <<open, createOpen, samePanel, signedIn, credentialNeedsSignIn>>

(* A step of the ceremony, and what the control does if it ends there.     *)
CeremonyStep ==
  /\ CeremonyMoves
  /\ UNCHANGED connectionVars
  /\ IF outcome' = None
       THEN /\ unfinished' = unfinished \cup (enrolling' \ enrolling)
            /\ UNCHANGED <<portfolioVars, panelVars, signedIn>>
       ELSE /\ IF outcome'.verb = "signin"
                 THEN SignInFinished /\ pending' = None
                 ELSE EnrollmentFinished /\ UNCHANGED pending
            /\ Shows

SubmissionArrives ==
  /\ \E p \in Passkeys : EnrollmentArrives(p)
  /\ UNCHANGED <<portfolioVars, controlVars>>

(***************************************************************************)
(* The connection and the host.                                            *)
(***************************************************************************)

(* run('connect'), run('disconnect').                                      *)
RunConnection(action) ==
  /\ open /\ ~Busy /\ ~Creating
  /\ action = "connect" => stage = "connect"
  /\ action = "disconnect" => HasWallet
  /\ pending' = action /\ samePanel' = TRUE
  /\ NoCeremonyStep
  /\ UNCHANGED <<portfolioVars, open, createOpen, credentialNeedsSignIn, signedIn,
                 connectionVars, unfinished>>

(* The connection may have changed meanwhile: its operations do that in    *)
(* steps of their own.                                                     *)
ConnectSettles ==
  /\ pending = "connect" /\ pending' = None
  /\ \/ open /\ samePanel /\ Closed
     \/ UNCHANGED <<open, createOpen, samePanel>>
  /\ NoCeremonyStep
  /\ UNCHANGED <<credentialNeedsSignIn, signedIn, connectionVars, unfinished>>
  /\ Shows

DisconnectSettles ==
  /\ pending = "disconnect" /\ pending' = None
  /\ \/ signedIn' = FALSE /\ Closed
     \/ UNCHANGED <<open, createOpen, samePanel, signedIn>>
  /\ NoCeremonyStep
  /\ UNCHANGED <<credentialNeedsSignIn, connectionVars, unfinished>>
  /\ Shows

(* The connection's stage and Wallet change under the control.             *)
ConnectionChanges ==
  /\ moves < MaxMoves /\ moves' = moves + 1
  /\ \/ stage' = "connect" /\ activeWallet' = NoView
     \/ stage' \in {"checking", "ready"} /\ activeWallet' \in Views
  /\ <<stage', activeWallet'>> # <<stage, activeWallet>>
  /\ NoCeremonyStep
  /\ UNCHANGED <<panelVars, signedIn, unfinished>>
  /\ Shows

(* "Sign out", or the end of the host's session.                           *)
SignOut ==
  /\ signedIn /\ signedIn' = FALSE
  /\ \/ open /\ CredentialEntry /\ ~Busy /\ Closed
     \/ UNCHANGED <<open, createOpen, samePanel>>
  /\ NoCeremonyStep
  /\ UNCHANGED <<credentialNeedsSignIn, pending, connectionVars, unfinished>>
  /\ Shows

(* The page is loaded again: the control forgets, and what it was told     *)
(* about an unfinished enrollment with it.                                 *)
Reload ==
  /\ open' = FALSE /\ createOpen' = FALSE /\ credentialNeedsSignIn' = FALSE
  /\ pending' = None /\ samePanel' = FALSE
  /\ unfinished' = {}
  /\ ceremonyInProgress' = FALSE /\ ceremony' = None /\ outcome' = None
  /\ summary' = NoView /\ requests' = {}
  /\ UNCHANGED <<made, apiVars, excluded, signedIn, connectionVars>>

SummarySteps ==
  /\ \/ EffectRuns
     \/ RefreshPressed
     \/ \E r \in requests, answer \in Portfolios \cup {NoView} : ReadSettles(r, answer)
  /\ NoCeremonyStep
  /\ UNCHANGED controlVars

-----------------------------------------------------------------------------
ControlInit ==
  /\ IdentityInit /\ PortfolioInit
  /\ open = FALSE /\ createOpen = FALSE /\ credentialNeedsSignIn = FALSE
  /\ pending = None /\ samePanel = FALSE
  /\ signedIn = FALSE
  /\ stage = "connect" /\ activeWallet = NoView
  /\ moves = 0
  /\ unfinished = {}

ControlNext ==
  \/ ClosePanel \/ OpenPanel \/ OpenCreation \/ CloseCreation
  \/ \E hosted \in BOOLEAN : Create(hosted) \/ SignIn(hosted)
  \/ CeremonyStep \/ SubmissionArrives
  \/ \E action \in {"connect", "disconnect"} : RunConnection(action)
  \/ ConnectSettles \/ DisconnectSettles \/ ConnectionChanges \/ SignOut
  \/ Reload
  \/ SummarySteps

ControlSpec == ControlInit /\ [][ControlNext]_accountVars

(***************************************************************************)
(* Properties.                                                             *)
(***************************************************************************)
TypeOK ==
  /\ IdentityTypeOK /\ PortfolioTypeOK
  /\ open \in BOOLEAN /\ createOpen \in BOOLEAN /\ credentialNeedsSignIn \in BOOLEAN
  /\ pending \in {None, "credential", "connect", "disconnect"} /\ samePanel \in BOOLEAN
  /\ signedIn \in BOOLEAN
  /\ stage \in {"connect", "checking", "ready"} /\ activeWallet \in Views \cup {NoView}
  /\ moves \in 0 .. MaxMoves
  /\ unfinished \subseteq made

(* The control does not let a person enroll a second identity while an     *)
(* earlier one may exist unfinished: until the host accepts an identity    *)
(* there is at most one, whichever panels were opened and closed, whatever *)
(* was lost, and wherever the ceremony ran.  A reload forgets it.          *)
OneUnfinishedEnrollment == Cardinality(unfinished) <= 1

(* Someone who dismisses the panel while a sign-in runs stays signed out,  *)
(* also if the panel has been opened again when the answer comes.          *)
DismissedSignInStaysOut ==
  [][ceremony # None /\ ceremony.verb = "signin" /\ ~samePanel /\ signedIn' => signedIn]_accountVars
=============================================================================
