-------------------------- MODULE SignInCeremonies --------------------------
(***************************************************************************)
(* The ceremonies of an existing Wallet on the pages of the Dexter origin, *)
(* beside the creations of WalletCreation: passkeyLogin() and              *)
(* continueWithDexter() (relay.ts), and recoverWallet() (recover.ts), with *)
(* the immediate mode of immediate.ts.  They share the passkeys, the API's *)
(* rows, the active Wallets and the checkpoint with createWallet(), which  *)
(* continueWithDexter() also calls, and nothing keeps them from running    *)
(* while one of the page's creations does.                                 *)
(*                                                                         *)
(* runHostedCeremony() (hosted.ts) calls them in the popup on Dexter's     *)
(* origin; the popup itself is PopupChannel.  The account session that a   *)
(* login returns beside the Wallet is the caller's.                        *)
(***************************************************************************)
EXTENDS WalletCreation

CONSTANT
  Synced       (* Passkeys of Wallets made on another device.              *)

ASSUME SyncedArePasskeys == Synced \subseteq Passkeys

VARIABLES
  immediateGet,  (* Whether the browser has the immediate mode.            *)
  signIn         (* Each page's running ceremony of an existing Wallet.    *)

allVars == <<vars, immediateGet, signIn>>

(* What continueWithDexter() was told about a creation.                    *)
Choices == {[policy |-> policy, deferred |-> FALSE, explicit |-> TRUE] : policy \in Policies}
  \cup {[policy |-> None, deferred |-> TRUE, explicit |-> TRUE],
        [policy |-> None, deferred |-> FALSE, explicit |-> FALSE]}

NoChoice == [policy |-> None, deferred |-> FALSE, explicit |-> FALSE]

(* Where a ceremony waits: for the challenge; for the user; for the API to *)
(* verify the passkey; for the vault's status; for its initialization.     *)
SignIns == [verb : {"none", "login", "continue", "recover"},
            at : {"idle", "challenge", "asking", "verifying", "status", "initializing"},
            passkey : Passkeys \cup {None},
            target : Passkeys \cup {None},
            choice : Choices,
            commit : BOOLEAN]

NoSignIn == [verb |-> "none", at |-> "idle", passkey |-> None, target |-> None,
             choice |-> NoChoice, commit |-> FALSE]

SignInEnds(p) == signIn' = [signIn EXCEPT ![p] = NoSignIn]

SignInProceeds(p, place) == signIn' = [signIn EXCEPT ![p].at = place]

(***************************************************************************)
(* The verbs.                                                              *)
(***************************************************************************)
SignInBegins(p, verb, target, choice, commit) ==
  /\ signIn[p].at = "idle"
  /\ signIn' = [signIn EXCEPT ![p] =
       [NoSignIn EXCEPT !.verb = verb, !.at = "challenge", !.target = target,
                        !.choice = choice, !.commit = commit]]
  /\ UNCHANGED <<vars, immediateGet>>

Login(p, target, commit) == SignInBegins(p, "login", target, NoChoice, commit)

RecoverWallet(p, commit) == SignInBegins(p, "recover", None, NoChoice, commit)

(* continueWithDexter() probes the keychain if it can, logs in if a Wallet *)
(* is remembered, and otherwise asks its caller (needs_choice).            *)
Continue(p, choice, commit) ==
  IF immediateGet
    THEN SignInBegins(p, "continue", None, choice, commit)
    ELSE active # {} /\ Login(p, None, commit)

ChallengeIssued(p) ==
  /\ signIn[p].at = "challenge"
  /\ SignInProceeds(p, "asking")
  /\ UNCHANGED <<vars, immediateGet>>

(* The user approves with a passkey of this device.  A login with a target *)
(* that the roster knows offers no other.                                  *)
PasskeyChosen(p, k) ==
  LET target == signIn[p].target
  IN  /\ signIn[p].at = "asking"
      /\ k \in keychain
      /\ target \in active => k = target
      /\ signIn' = [signIn EXCEPT ![p] = [@ EXCEPT !.at = "verifying", !.passkey = k]]
      /\ UNCHANGED <<vars, immediateGet>>

(* hasExplicitCreationChoice; without it, needs_create.                    *)
MayCreate(choice) == choice.explicit

(* The browser rejects: no passkey, or the user dismissed the sheet.  To   *)
(* continueWithDexter() both are no_credential, and it goes on to create.  *)
NoCredential(p) ==
  LET ceremony == signIn[p]
      choice == ceremony.choice
  IN  /\ ceremony.at = "asking"
      /\ IF ceremony.verb = "continue" /\ MayCreate(choice) /\ call[p].at = "idle"
           THEN Begin(p, choice.policy, choice.deferred, ceremony.commit)
           ELSE UNCHANGED vars
      /\ SignInEnds(p)
      /\ UNCHANGED immediateGet

(* Any other failure of a leg ends the ceremony.                           *)
SignInFails(p) ==
  /\ signIn[p].at # "idle"
  /\ SignInEnds(p)
  /\ UNCHANGED <<vars, immediateGet>>

(* activateConnectVault() or activateRecoveredVault(), of which nobody     *)
(* asks whether it succeeded.                                              *)
Activates(p, k) ==
  active' \in {IF signIn[p].commit THEN active \cup {k} ELSE active}
                \cup {s \in {active} : WritesMayFail}

(* Slip: the checkpoint goes, whichever Wallet was signed in.              *)
SignedIn_ClearsAny(p, k) ==
  /\ Activates(p, k)
  /\ pending' = None
  /\ retained' = [retained EXCEPT ![p] = None]
  /\ finished' = finished \cup {k}
  /\ SignInEnds(p)
  /\ UNCHANGED <<call, keychain, challenge, enrolled, late, vaults, authored, absent, lost,
                 immediateGet>>

(* The Wallet is there: a login or a recovery also ends its creation,      *)
(* should it be the interrupted one; an immediate sign-in does not.        *)
SignedIn(p, k) ==
  /\ Activates(p, k)
  /\ IF signIn[p].verb = "continue"
       THEN UNCHANGED checkpointVars
       ELSE ClearPending(p, k)
  /\ finished' = finished \cup {k}
  /\ SignInEnds(p)
  /\ UNCHANGED <<call, keychain, challenge, enrolled, late, vaults, authored, absent, lost,
                 immediateGet>>

(* passkey-login answers with the Wallet; a login for a target accepts no  *)
(* other.                                                                  *)
LoginVerified(p) ==
  LET k == signIn[p].passkey
  IN  /\ signIn[p].at = "verifying" /\ signIn[p].verb \in {"login", "continue"}
      /\ k \in enrolled /\ vaults[k] # NoVault
      /\ IF signIn[p].target \in {None, k}
           THEN SignedIn(p, k)
           ELSE SignInEnds(p) /\ UNCHANGED <<vars, immediateGet>>

(* Slip: the Wallet is activated once its passkey is verified.             *)
RecoverVerified_Activates(p) ==
  /\ signIn[p].at = "verifying" /\ signIn[p].verb = "recover"
  /\ signIn[p].passkey \in enrolled
  /\ Activates(p, signIn[p].passkey)
  /\ SignInProceeds(p, "status")
  /\ UNCHANGED <<checkpointVars, call, keychain, apiVars, historyVars, immediateGet>>

RecoverVerified(p) ==
  /\ signIn[p].at = "verifying" /\ signIn[p].verb = "recover"
  /\ signIn[p].passkey \in enrolled
  /\ SignInProceeds(p, "status")
  /\ UNCHANGED <<vars, immediateGet>>

(* The status has no vault: the interrupted creation is taken up.          *)
VaultMissing(p) ==
  /\ signIn[p].at = "status"
  /\ vaults[signIn[p].passkey] = NoVault
  /\ SignInProceeds(p, "initializing")
  /\ UNCHANGED <<vars, immediateGet>>

(* It is taken up without any allowance, whatever its checkpoint holds.    *)
RecoveryInitializes(p) ==
  LET k == signIn[p].passkey
  IN  /\ signIn[p].at = "initializing"
      /\ vaults[k] = NoVault
      /\ vaults' = [vaults EXCEPT ![k] = None]
      /\ UNCHANGED <<checkpointVars, call, keychain, challenge, enrolled, late, active,
                     historyVars, immediateGet, signIn>>

VaultConfirmed(p) ==
  /\ signIn[p].at \in {"status", "initializing"}
  /\ vaults[signIn[p].passkey] # NoVault
  /\ SignedIn(p, signIn[p].passkey)

(* A reload ends whatever the page was doing.                              *)
ReloadPage(p) ==
  /\ \/ Reload(p)
     \/ signIn[p].at # "idle" /\ call[p].at = "idle" /\ retained[p] = None /\ UNCHANGED vars
  /\ SignInEnds(p)
  /\ UNCHANGED immediateGet

-----------------------------------------------------------------------------
SignInInit ==
  /\ pending = None
  /\ retained = [p \in Pages |-> None]
  /\ call = [p \in Pages |-> NoCall]
  /\ keychain = Synced /\ enrolled = Synced
  /\ challenge = {} /\ late = {}
  /\ vaults = [k \in Passkeys |-> IF k \in Synced THEN None ELSE NoVault]
  /\ active = {}
  /\ authored = [k \in Passkeys |-> None]
  /\ finished = Synced /\ absent = {} /\ lost = {}
  /\ immediateGet \in BOOLEAN
  /\ signIn = [p \in Pages |-> NoSignIn]

Signing(p) ==
  \/ \E commit \in BOOLEAN :
       \/ \E target \in Passkeys \cup {None} : Login(p, target, commit)
       \/ \E choice \in Choices : Continue(p, choice, commit)
       \/ RecoverWallet(p, commit)
  \/ ChallengeIssued(p)
  \/ \E k \in Passkeys : PasskeyChosen(p, k)
  \/ NoCredential(p) \/ SignInFails(p)
  \/ LoginVerified(p)
  \/ RecoverVerified(p) \/ VaultMissing(p) \/ RecoveryInitializes(p) \/ VaultConfirmed(p)
  \/ ReloadPage(p)

Beside ==
  \/ \E p \in Pages : Creating(p) \/ Running(p) \/ VaultInitialized(p)
  \/ \E k \in Passkeys : ChallengeExpires(k) \/ LateEnrollment(k)

SignInNext ==
  \/ \E p \in Pages : Signing(p)
  \/ Beside /\ UNCHANGED <<immediateGet, signIn>>

(* An owner who creates keeps trying, whatever else the pages do.          *)
SignInSpec == SignInInit /\ [][SignInNext]_allVars /\ Persistence

(***************************************************************************)
(* Properties.                                                             *)
(***************************************************************************)

(* recover.ts:9: a Wallet is remembered only once its vault is confirmed,  *)
(* by whichever ceremony and beside whichever other.                       *)
ActiveWalletsHaveVaults == \A k \in active : vaults[k] # NoVault
=============================================================================
