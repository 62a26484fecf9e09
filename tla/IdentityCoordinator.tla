------------------------ MODULE IdentityCoordinator -------------------------
(***************************************************************************)
(* createDexterIdentityCoordinator (identityCoordinator.ts) in one tab of  *)
(* a browser: it feeds the relation controller with the active Wallet of   *)
(* the shared store (and the retained proof of that Wallet) and with the   *)
(* account session of the host page, and asks the binding resolver about   *)
(* the pair.                                                               *)
(*                                                                         *)
(* It runs in the tab "here".  The host calls it as useDexterIdentity does:*)
(* restore() when the host's session is first known, and again to          *)
(* reconcile; setAccountSession() or setAccountLoading() whenever it       *)
(* changes; retry() and allowAccountSession() at any time.  Wallet and     *)
(* proof notices are synchronous, so what a notice makes the coordinator   *)
(* do is part of the action that causes it.                                *)
(*                                                                         *)
(* currentAccount, its token and its subject are the controller's account  *)
(* candidate after every turn, and are not repeated here.  A proof that is *)
(* found expired while a turn reads it sends a nested notice, whose effect *)
(* the turn then overwrites; its revisions are not counted.                *)
(***************************************************************************)
EXTENDS Naturals

CONSTANTS
  here,           (* This tab.                                             *)
  Elsewhere,      (* The other tabs.                                       *)
  Handles, Facts, NoFacts, NoRow, None,
  Tokens,         (* Account access tokens.                                *)
  AccountSubjects,(* Account subjects.                                     *)
  SubjectOf,      (* The subject of each token; None if not canonical.     *)
  OwnerOf,        (* The account subject each Wallet is bound to.          *)
  MaxRevision,    (* Bound on the number of identity changes.              *)
  ProofsChange,   (* Bound: the Wallets whose proofs change.               *)
  ProofsChangeElsewhere
                  (* TRUE if other tabs save and clear proofs.             *)

ASSUME SubjectOfIsFunction == SubjectOf \in [Tokens -> AccountSubjects \cup {None}]
ASSUME OwnerOfIsFunction == OwnerOf \in [Handles -> AccountSubjects]
ASSUME ProofsChangeOfWallets == ProofsChange \subseteq Handles
ASSUME HereIsOneTab == here \notin Elsewhere
ASSUME FactsAreDistinct == {NoFacts, NoRow, None} \cap (Handles \cup Facts) = {} /\ NoFacts # NoRow
ASSUME MaxRevisionIsNat == MaxRevision \in Nat

(* A Wallet candidate: the handle, and whether it carries a proof.         *)
Wallets == [handle : Handles, proof : BOOLEAN]
Accounts == Tokens
Tabs == Elsewhere \cup {here}

(* What the Dexter API knows: a Wallet belongs to one account.             *)
Bound == {p \in Wallets \X Accounts : OwnerOf[p[1].handle] = SubjectOf[p[2]]}

VARIABLES
  wallet, account, revision, activeCheck, checks, snapshot, disposed,
  activeHandle, roster, subscribed, observed, news, event, done, believed, raced,
  proof,            (* localStorage: the proof of each handle.             *)
  proofNews,        (* Handles whose proof storage event is on its way.    *)
  timer,            (* The session the expiry timer watches, or None.      *)
  started,          (* start() ran.                                        *)
  accountLoading,
  invalidatedAccountSubject,
  allowedAccountAccessToken,
  initialized,      (* useDexterIdentity has made its restore() call.      *)
  ahead,            (* History: it asked storage for the active Wallet     *)
                    (* while a storage event was on its way, and has not   *)
                    (* been told of a change, nor asked again, since.      *)
  retried,          (* History: retry() asked about the locked account     *)
                    (* while the host loaded, and nothing has locked it    *)
                    (* again, nor ended the loading, since.                *)
  ended             (* History: tokens found bound, whose binding a Wallet *)
                    (* identity change ended, and that no fresh sign-in    *)
                    (* allowed since.                                      *)

controllerVars == <<wallet, account, revision, activeCheck, checks, snapshot, disposed>>
storeVars == <<activeHandle, roster, subscribed, observed, news, event, done, believed, raced>>
proofVars == <<proof, proofNews, timer>>
sessionVars == <<started, accountLoading, invalidatedAccountSubject,
                 allowedAccountAccessToken, initialized, ahead, retried, ended>>
vars == <<controllerVars, storeVars, proofVars, sessionVars>>

Controller == INSTANCE RelationController WITH VerifierObeysAbort <- TRUE
Store == INSTANCE WalletStore WITH WritesMayFail <- FALSE, RollbackMayFail <- FALSE
Resolver == INSTANCE BindingResolver

-----------------------------------------------------------------------------
(***************************************************************************)
(* The retained proofs (walletProofSession.ts).  Reading a proof that has  *)
(* expired removes it.                                                     *)
(***************************************************************************)
ProofStates == {"none", "live", "expired"}

AfterLoad(proofs, h) ==
  [k \in Handles |-> IF k = h /\ proofs[k] = "expired" THEN "none" ELSE proofs[k]]

(* walletCandidate(getActiveWallet()): a row without a vault carries no    *)
(* proof.                                                                  *)
CurrentWallet ==
  IF activeHandle = None THEN None
  ELSE [handle |-> activeHandle,
        proof  |-> proof[activeHandle] = "live" /\ roster[activeHandle] \in Facts]

(* scheduleProofExpiry(), after the active proof was read: watch the       *)
(* session of the active Wallet if there is one.                           *)
Scheduled == IF activeHandle # None /\ proof[activeHandle] = "live"
               THEN [handle |-> activeHandle, due |-> FALSE] ELSE None

Timers == [handle : Handles, due : BOOLEAN]

ASSUME NoneIsNoValue ==
  None \notin Tokens \cup Wallets \cup Timers \cup Store!StoredWallets \cup Store!Events

ReadActiveProof(written) == proof' = AfterLoad(written, activeHandle')

(* A turn that neither mutates the store nor hears from it.                *)
NoStoreTurn ==
  /\ Store!Silent
  /\ done' = TRUE
  /\ UNCHANGED <<activeHandle, roster, subscribed, news>>

Listening == started /\ ~disposed

(***************************************************************************)
(* Notices.                                                                *)
(***************************************************************************)

(* Slip: the new Wallet is checked with the account at once.               *)
KeepAccountLoadingLocked_Asks == Controller!SetWallet(CurrentWallet')

(* keepAccountLoadingLocked: the account is dropped and nothing is asked.  *)
KeepAccountLoadingLocked == Controller!Lock(CurrentWallet', None, 2)

SubjectOfAccount == IF account = None THEN None ELSE SubjectOf[account]

(* Slip: the account candidate stays and is checked with the new Wallet.   *)
EndAccountBinding_KeepsAccount ==
  /\ Controller!SetWallet(CurrentWallet')
  /\ invalidatedAccountSubject' =
       IF SubjectOfAccount # None THEN SubjectOfAccount ELSE invalidatedAccountSubject

(* A Wallet identity change ends the account binding, and remembers whose  *)
(* it was.                                                                 *)
EndAccountBinding ==
  /\ Controller!Restore(CurrentWallet', None)
  /\ invalidatedAccountSubject' =
       IF SubjectOfAccount # None THEN SubjectOfAccount ELSE invalidatedAccountSubject

(* The token whose binding to the former Wallet such a change ends.        *)
BindingEnded == IF snapshot.relation = "bound" THEN {account} ELSE {}

(* Slip: the expiry timer goes on watching the proof of the Wallet that    *)
(* was active.                                                             *)
OnWalletNotice_NoSchedule(written) ==
  IF Listening /\ event' # None /\ event'.tab = here /\ event'.invalidates
    THEN /\ ReadActiveProof(written)
         /\ UNCHANGED timer
         /\ IF accountLoading
              THEN KeepAccountLoadingLocked /\ UNCHANGED invalidatedAccountSubject
              ELSE EndAccountBinding
         /\ ahead' = FALSE
         /\ retried' = FALSE
         /\ ended' = ended \cup BindingEnded
    ELSE /\ proof' = written
         /\ UNCHANGED <<controllerVars, timer, invalidatedAccountSubject, ahead, retried, ended>>

(* The coordinator's Wallet subscriber, in the turn of the mutation or of  *)
(* the storage event that event' tells of; the proofs are as in written.   *)
OnWalletNotice(written) ==
  IF Listening /\ event' # None /\ event'.tab = here /\ event'.invalidates
    THEN /\ ReadActiveProof(written)
         /\ timer' = Scheduled'
         /\ IF accountLoading
              THEN KeepAccountLoadingLocked /\ UNCHANGED invalidatedAccountSubject
              ELSE EndAccountBinding
         /\ ahead' = FALSE
         /\ retried' = FALSE
         /\ ended' = ended \cup BindingEnded
    ELSE /\ proof' = written
         /\ UNCHANGED <<controllerVars, timer, invalidatedAccountSubject, ahead, retried, ended>>

(* Slip: the proof subscriber reschedules, but keeps the old candidate.    *)
OnProofNotice_KeepsCandidate(h, written) ==
  IF Listening /\ activeHandle = h
    THEN /\ ReadActiveProof(written)
         /\ timer' = Scheduled'
         /\ ahead' = (here \in news)
         /\ retried' = FALSE
         /\ IF accountLoading THEN KeepAccountLoadingLocked ELSE Controller!SetWallet(wallet)
    ELSE /\ proof' = written
         /\ ahead' = (ahead \/ (Listening /\ here \in news))
         /\ UNCHANGED <<controllerVars, timer, retried>>

(* The coordinator's proof subscriber, told about the proof of h when the  *)
(* proofs are as in written.                                               *)
OnProofNotice(h, written) ==
  IF Listening /\ activeHandle = h
    THEN /\ ReadActiveProof(written)
         /\ timer' = Scheduled'
         /\ ahead' = (here \in news)
         /\ retried' = FALSE
         /\ IF accountLoading THEN KeepAccountLoadingLocked
                              ELSE Controller!SetWallet(CurrentWallet')
    ELSE /\ proof' = written
         /\ ahead' = (ahead \/ (Listening /\ here \in news))
         /\ UNCHANGED <<controllerVars, timer, retried>>

(***************************************************************************)
(* The host's calls.                                                       *)
(***************************************************************************)

(* start(), which every call but allowAccountSession() makes first:        *)
(* subscribe and, the first time, schedule.  A page calls nothing after    *)
(* dispose().                                                              *)
Start ==
  /\ ~disposed
  /\ started' = TRUE
  /\ IF started THEN NoStoreTurn ELSE Store!Subscribe(here)

(* restore(): the host's word is taken, whatever was invalidated.          *)
RestoreCall(token) ==
  /\ Start
  /\ accountLoading' = FALSE
  /\ retried' = FALSE
  /\ invalidatedAccountSubject' = None
  /\ allowedAccountAccessToken' = None
  /\ ReadActiveProof(proof)
  /\ timer' = IF started THEN timer ELSE Scheduled'
  /\ Controller!Restore(CurrentWallet', token)
  /\ ahead' = (ahead \/ here \in news)
  /\ ended' = ended \ {token}
  /\ UNCHANGED proofNews

(* The call with which useDexterIdentity begins.                           *)
RestoreSession(token) == RestoreCall(token) /\ initialized' = TRUE

Refused(token) ==
  \/ SubjectOf[token] = None
  \/ /\ token # allowedAccountAccessToken
     /\ invalidatedAccountSubject # None
     /\ SubjectOf[token] = invalidatedAccountSubject

(* Slip: a token that is already the current one is never settled again.   *)
AlreadySettled_Always(token) == token # None /\ token = account

(* The current token need not be verified again, unless the host was       *)
(* loading: then nothing has been asked since.                             *)
AlreadySettled(token) == token # None /\ token = account /\ ~accountLoading

(* setAccountSession().  A refused token leaves the page without an        *)
(* account; an accepted one uses up the allowance and the invalidation.    *)
SetAccountSession(token) ==
  /\ Start
  /\ accountLoading' = FALSE
  /\ retried' = FALSE
  /\ CASE AlreadySettled(token) ->
            UNCHANGED <<controllerVars, invalidatedAccountSubject,
                        allowedAccountAccessToken, ended>>
       [] token = None ->
            /\ allowedAccountAccessToken' = None
            /\ Controller!SetAccount(None)
            /\ UNCHANGED <<invalidatedAccountSubject, ended>>
       [] token # None /\ ~AlreadySettled(token) /\ Refused(token) ->
            /\ Controller!SetAccount(None)
            /\ UNCHANGED <<invalidatedAccountSubject, allowedAccountAccessToken, ended>>
       [] OTHER ->
            /\ allowedAccountAccessToken' = None
            /\ invalidatedAccountSubject' = None
            /\ Controller!SetAccount(token)
            /\ ended' = IF token = allowedAccountAccessToken THEN ended \ {token} ELSE ended
  /\ IF started THEN UNCHANGED <<proof, timer>>
                ELSE ReadActiveProof(proof) /\ timer' = Scheduled'
  /\ UNCHANGED <<proofNews, initialized, ahead>>

SetAccountLoading ==
  /\ Start
  /\ accountLoading' = TRUE
  /\ retried' = FALSE
  /\ Controller!BeginRestore
  /\ IF started THEN UNCHANGED <<proof, timer>>
                ELSE ReadActiveProof(proof) /\ timer' = Scheduled'
  /\ UNCHANGED <<proofNews, invalidatedAccountSubject, allowedAccountAccessToken,
                 initialized, ahead, ended>>

(* The token comes from a passkey ceremony whose pair was verified.        *)
AllowAccountSession(token) ==
  /\ ~disposed
  /\ SubjectOf[token] # None
  /\ allowedAccountAccessToken' = token
  /\ NoStoreTurn
  /\ UNCHANGED <<controllerVars, proofVars, started, accountLoading,
                 invalidatedAccountSubject, initialized, ahead, retried, ended>>

(* retry() does not look at accountLoading: it asks about the account that *)
(* was locked while the host loads.                                        *)
RetryRelation ==
  /\ started
  /\ Start
  /\ Controller!Retry
  /\ retried' = accountLoading
  /\ UNCHANGED <<proofVars, accountLoading, invalidatedAccountSubject,
                 allowedAccountAccessToken, initialized, ahead, ended>>

DisposeCoordinator ==
  /\ ~disposed
  /\ Controller!Dispose
  /\ timer' = None
  /\ subscribed' = subscribed \ {here}
  /\ Store!Silent /\ done' = TRUE
  /\ UNCHANGED <<activeHandle, roster, news, proof, proofNews, sessionVars>>

(***************************************************************************)
(* The Wallet and its proofs, changed here and elsewhere.                  *)
(***************************************************************************)
Unheard == UNCHANGED <<started, accountLoading, allowedAccountAccessToken, initialized>>

WalletChangesHere ==
  /\ \/ \E h \in Handles, f \in Facts : Store!Activate(here, h, f)
     \/ \E h \in Handles : Store!Switch(here, h)
     \/ \E h \in Handles : Store!Remove(here, h)
     \/ Store!Disconnect(here)
  /\ OnWalletNotice(proof)
  /\ UNCHANGED proofNews
  /\ Unheard

WalletChangesElsewhere ==
  /\ \E t \in Elsewhere :
       \/ \E h \in Handles, f \in Facts : Store!Activate(t, h, f)
       \/ \E h \in Handles : Store!Switch(t, h)
       \/ \E h \in Handles : Store!Remove(t, h)
       \/ Store!Disconnect(t)
  /\ UNCHANGED <<controllerVars, proofVars, sessionVars>>

WalletEventArrives ==
  /\ Store!StorageEvent(here)
  /\ OnWalletNotice(proof)
  /\ UNCHANGED proofNews
  /\ Unheard

(* activateConnectVault, activateRecoveredVault: the proof is saved first, *)
(* and the turn then tells of both.  If both matter to the coordinator the *)
(* second notice overwrites what the first did.                            *)
ActivateVault(h, facts) ==
  LET written == [proof EXCEPT ![h] = "live"]
  IN  /\ Store!Activate(here, h, facts)
      /\ IF event'.invalidates
           THEN OnWalletNotice(written)
           ELSE /\ OnProofNotice(h, written)
                /\ UNCHANGED <<invalidatedAccountSubject, ended>>
      /\ UNCHANGED <<proofNews, started, accountLoading, initialized>>

(* save(), clear() of the proof store: a local notice, and a storage event *)
(* for the other tabs, of which none is followed here.                     *)
ProofChangesHere(h, state) ==
  /\ state = "none" => proof[h] # "none"
  /\ NoStoreTurn
  /\ OnProofNotice(h, [proof EXCEPT ![h] = state])
  /\ UNCHANGED <<proofNews, invalidatedAccountSubject, ended>>
  /\ Unheard

ProofChangedElsewhere(h, state) ==
  /\ ProofsChangeElsewhere
  /\ state = "none" => proof[h] # "none"
  /\ proof' = [proof EXCEPT ![h] = state]
  /\ proofNews' = proofNews \cup {h}
  /\ NoStoreTurn
  /\ UNCHANGED <<controllerVars, timer, sessionVars>>

(* onStorage: the coordinator reads the proof itself.                      *)
ProofEventArrives(h) ==
  /\ h \in proofNews
  /\ proofNews' = proofNews \ {h}
  /\ NoStoreTurn
  /\ OnProofNotice(h, proof)
  /\ UNCHANGED <<invalidatedAccountSubject, ended>>
  /\ Unheard

(* Time passes the expiry of the stored proof of h: the timer, if it       *)
(* watches that session or an earlier one of h, is due.                    *)
ProofExpires(h) ==
  /\ proof[h] = "live"
  /\ proof' = [proof EXCEPT ![h] = "expired"]
  /\ timer' = IF timer # None /\ timer.handle = h THEN [timer EXCEPT !.due = TRUE] ELSE timer
  /\ NoStoreTurn
  /\ UNCHANGED <<controllerVars, proofNews, sessionVars>>

(* The session the timer watches is no longer the stored one, and expires  *)
(* on its own.                                                             *)
WatchedSessionExpires ==
  /\ timer # None /\ ~timer.due
  /\ timer.handle \in proofNews \/ proof[timer.handle] # "live"
  /\ timer' = [timer EXCEPT !.due = TRUE]
  /\ NoStoreTurn
  /\ UNCHANGED <<controllerVars, proof, proofNews, sessionVars>>

(* The timer's callback.  If the active proof is found expired while the   *)
(* host loads, the nested notice drops the account first; if it is live    *)
(* and was not watched, as when it was saved for a Wallet that another tab *)
(* had deselected and has selected again, the pair is asked about although *)
(* the host loads.                                                         *)
TimerFires ==
  /\ Listening
  /\ timer # None /\ timer.due
  /\ NoStoreTurn
  /\ ReadActiveProof(proof)
  /\ timer' = Scheduled'
  /\ IF accountLoading /\ proof' # proof
       THEN Controller!Replace(CurrentWallet', None, "wallet_change")
       ELSE Controller!SetWallet(CurrentWallet')
  /\ ahead' = (here \in news \/ (ahead /\ accountLoading))
  /\ retried' = (retried /\ proof' = proof)
  /\ Unheard
  /\ UNCHANGED <<proofNews, invalidatedAccountSubject, ended>>

(***************************************************************************)
(* The verifier.                                                           *)
(***************************************************************************)

(* The API judges the pair it was sent truthfully; anything else about an  *)
(* exchange may fail.                                                      *)
Truthful(c, response) ==
  response.kind = "relation" /\ response.is \in {"bound", "conflict"} =>
    (response.is = "bound") = (<<c.wallet, c.account>> \in Bound)

(* Without a proof nothing is sent.                                        *)
Verified(c, response) ==
  IF ~c.wallet.proof THEN Resolver!Expired("wallet") ELSE Resolver!Verify(response)

CheckAnswered(c, response) ==
  /\ c \in checks
  /\ Truthful(c, response)
  /\ Controller!Deliver(c, Verified(c, response))
  /\ NoStoreTurn
  /\ UNCHANGED <<proofVars, sessionVars>>

-----------------------------------------------------------------------------
Init ==
  /\ Store!Init
  /\ roster \in [Handles -> Facts \cup {NoRow}]
  /\ activeHandle # None => roster[activeHandle] # NoRow
  /\ Controller!Init
  /\ proof \in [Handles -> {"none", "live"}]
  /\ proofNews = {}
  /\ timer = None
  /\ started = FALSE /\ initialized = FALSE /\ accountLoading = FALSE
  /\ invalidatedAccountSubject = None
  /\ allowedAccountAccessToken = None
  /\ ahead = FALSE
  /\ retried = FALSE
  /\ ended = {}

TokensOrNone == Tokens \cup {None}

Next ==
  \/ \E token \in TokensOrNone : initialized /\ SetAccountSession(token)
  \/ \E token \in TokensOrNone : RestoreSession(token)
  \/ SetAccountLoading
  \/ \E token \in Tokens : AllowAccountSession(token)
  \/ RetryRelation
  \/ DisposeCoordinator
  \/ WalletChangesHere
  \/ /\ \E h \in ProofsChange, f \in Facts : ActivateVault(h, f)
     /\ UNCHANGED allowedAccountAccessToken
  \/ WalletChangesElsewhere
  \/ WalletEventArrives
  \/ \E h \in ProofsChange, state \in {"none", "live"} : ProofChangesHere(h, state)
  \/ \E h \in ProofsChange, state \in {"none", "live"} : ProofChangedElsewhere(h, state)
  \/ \E h \in ProofsChange : ProofEventArrives(h)
  \/ \E h \in ProofsChange : ProofExpires(h)
  \/ WatchedSessionExpires
  \/ TimerFires
  \/ \E c \in checks, response \in Resolver!Responses : CheckAnswered(c, response)

Spec == Init /\ [][Next]_vars

(***************************************************************************)
(* Properties.                                                             *)
(***************************************************************************)
TypeOK ==
  /\ Controller!TypeOK
  /\ Store!TypeOK
  /\ proof \in [Handles -> ProofStates]
  /\ proofNews \subseteq Handles
  /\ timer \in Timers \cup {None}
  /\ started \in BOOLEAN /\ accountLoading \in BOOLEAN /\ initialized \in BOOLEAN
  /\ invalidatedAccountSubject \in AccountSubjects \cup {None}
  /\ allowedAccountAccessToken \in TokensOrNone
  /\ ahead \in BOOLEAN /\ retried \in BOOLEAN
  /\ ended \subseteq Tokens

(* Nothing is on its way to this tab.                                      *)
Quiet == here \notin news /\ proofNews = {}

(* Moreover this tab neither overwrote another tab's change nor read it    *)
(* before it was told of it.                                               *)
Settled == initialized /\ ~disposed /\ Quiet /\ here \notin raced /\ ~ahead

(* Whatever tabs, notices, host calls and answers did in whatever order:   *)
(* once the tab is quiet, account data is open only for the Wallet that    *)
(* storage says is active, and only to the account that Wallet is bound to.*)
AccessIsForActiveWallet ==
  Settled /\ snapshot.privateAccountAccess =>
    /\ activeHandle # None
    /\ account # None
    /\ OwnerOf[activeHandle] = SubjectOf[account]

(* The coordinator never loses track of its two sources: once the tab is   *)
(* quiet, the Wallet candidate is the stored active Wallet with the stored *)
(* proof.  Only a proof that expired without anyone reading it is kept.    *)
CandidateIsCurrent ==
  Settled =>
    \/ wallet = CurrentWallet
    \/ /\ activeHandle # None
       /\ proof[activeHandle] = "expired"
       /\ wallet # None /\ wallet.handle = activeHandle

(* "Lock account-owned data while the host restores its account session"   *)
(* (identityCoordinator.ts:55): no account data is open then, whatever     *)
(* happens to the Wallet and its proofs meanwhile.  The code keeps this    *)
(* except for retry() (line 316): a call of it asks about the locked       *)
(* account, and a bound answer opens its data until something locks it     *)
(* again.                                                                  *)
LoadingKeepsLocked ==
  Settled /\ accountLoading /\ ~retried => ~snapshot.privateAccountAccess

(* The page is in its "hydrating" phase only while the host loads: every   *)
(* way out of loading asks or settles again.                               *)
HydratingOnlyWhileLoading ==
  initialized /\ ~disposed /\ ~accountLoading => snapshot.runtime.phase # "hydrating"

(* After a Wallet change ended a binding, no account of that subject is    *)
(* even asked about until the host restores, or a passkey ceremony or      *)
(* another subject's session lifts it.                                     *)
InvalidatedAccountStaysOut ==
  invalidatedAccountSubject # None =>
    /\ SubjectOfAccount # invalidatedAccountSubject
    /\ \A c \in checks :
         Controller!IsCurrentCheck(c) => SubjectOf[c.account] # invalidatedAccountSubject

(* A proof that has expired does not stay part of the candidate unseen:    *)
(* once the tab is quiet the timer watches it and is due, and a due timer  *)
(* drops it.                                                               *)
ExpiredProofIsWatched ==
  Settled /\ wallet # None /\ wallet.proof /\ proof[wallet.handle] = "expired" =>
    timer # None /\ timer.due

(* The comment at identityCoordinator.ts:215: a token that was found bound *)
(* and whose binding a Wallet change ended opens account data again only   *)
(* after a fresh full passkey sign-in allowed it, or the host restored it  *)
(* outright.                                                               *)
EndedAccountNeedsSignIn ==
  snapshot.privateAccountAccess => account \notin ended
=============================================================================
