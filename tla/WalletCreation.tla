--------------------------- MODULE WalletCreation ---------------------------
(***************************************************************************)
(* createWallet() (enroll.ts) on the pages of the Dexter origin, with its  *)
(* checkpoint (pendingCreation.ts) in their common localStorage.           *)
(*                                                                         *)
(* A creation makes a passkey in the operating system, enrolls it at the   *)
(* API and initializes a vault for it.  Any leg may fail or lose its       *)
(* answer, the page may be reloaded between two of them, and another page  *)
(* may create too.  The checkpoint is what lets a later call go on with    *)
(* the same passkey.                                                       *)
(*                                                                         *)
(* A passkey stands for its credential id, its registration, its user      *)
(* handle and its proof.  The name given to the Wallet travels with the    *)
(* authored allowance and is not repeated.  The popup transport runs this  *)
(* code in the hosted page and is not modelled here.                       *)
(***************************************************************************)
CONSTANTS
  Pages,         (* Pages of the origin that may call createWallet().      *)
  Passkeys,      (* Bound: the passkeys that may be created.               *)
  Allowances,    (* Spend policies a caller may author.                    *)
  NoVault,       (* The vault of a passkey that has none.                  *)
  None,
  WritesMayFail  (* TRUE if writing to localStorage may throw.             *)

ASSUME NoneIsNothing == None \notin Passkeys \cup Allowances
ASSUME NoVaultIsNoPolicy == NoVault \notin Allowances \cup {None}
ASSUME WritesMayFailIsBoolean == WritesMayFail \in BOOLEAN

VARIABLES
  pending,     (* localStorage: the checkpoint, or None.                   *)
  retained,    (* Each page's own copy of the checkpoint, or None.         *)
  call,        (* Each page's running createWallet().                      *)
  keychain,    (* The operating system: the passkeys that exist.           *)
  challenge,   (* API: passkeys whose registration it can still accept.    *)
  enrolled,    (* API: passkeys with a saved credential.                   *)
  late,        (* Enrollments no page waits for that may still arrive.     *)
  vaults,      (* API: the policy of each initialized vault.               *)
  active,      (* Passkeys whose Wallets were made active in this browser. *)
  authored,    (* History: what the call that made a passkey asked for.    *)
  finished,    (* History: passkeys whose creation succeeded.              *)
  absent,      (* History: passkeys reported as enrollment_not_saved.      *)
  lost         (* History: passkeys whose checkpoint another page's save   *)
               (* replaced, or could not be written, or whose page went    *)
               (* away before it saved one.                                *)

checkpointVars == <<pending, retained>>
apiVars == <<challenge, enrolled, late, vaults>>
historyVars == <<authored, finished, absent, lost>>
vars == <<checkpointVars, call, keychain, apiVars, active, historyVars>>

Policies == Allowances \cup {None}

Checkpoints == [passkey : Passkeys, policy : Policies, enrolled : BOOLEAN]

ASSUME NoneIsNoCheckpoint == None \notin Checkpoints

(* Where a call waits: for the registration options; for the user to make  *)
(* the passkey; for the browser to hand it over; for the enrollment; for   *)
(* the user to confirm the saved passkey; for the API to verify it; for    *)
(* the vault.                                                              *)
Places == {"idle", "challenge", "registering", "created", "completing",
           "confirming", "verifying", "finalizing"}

(* work: the checkpoint of the call, or what it will be made of.           *)
Work == [passkey : Passkeys \cup {None}, policy : Policies, enrolled : BOOLEAN]
Calls == [at : Places, work : Work, commit : BOOLEAN, deferred : BOOLEAN, resumes : BOOLEAN]

NoCall == [at |-> "idle", work |-> [passkey |-> None, policy |-> None, enrolled |-> FALSE],
           commit |-> FALSE, deferred |-> FALSE, resumes |-> FALSE]

PendingPasskey == IF pending = None THEN None ELSE pending.passkey

(***************************************************************************)
(* The checkpoint.                                                         *)
(***************************************************************************)

(* readPendingCreation(): storage can be read, and what it holds replaces  *)
(* the page's copy, even if it holds nothing.                              *)
ReadPending(p) == retained' = [retained EXCEPT ![p] = pending]

(* savePendingCreation(): the page's copy, and storage if it can be        *)
(* written, whatever other checkpoint it holds.                            *)
SavePending(p, checkpoint) ==
  /\ retained' = [retained EXCEPT ![p] = checkpoint]
  /\ \/ /\ pending' = checkpoint
        /\ lost' = lost \cup ({PendingPasskey} \ {None, checkpoint.passkey})
     \/ /\ WritesMayFail
        /\ lost' = lost \cup ({checkpoint.passkey} \ {PendingPasskey})
        /\ UNCHANGED pending

(* clearPendingCreation(): only the checkpoint of this passkey.            *)
ClearPending(p, passkey) ==
  IF PendingPasskey = passkey
    THEN /\ retained' = [retained EXCEPT ![p] = None]
         /\ \/ pending' = None
            \/ WritesMayFail /\ UNCHANGED pending
    ELSE /\ ReadPending(p)
         /\ UNCHANGED pending

(***************************************************************************)
(* createWallet().                                                         *)
(***************************************************************************)
CallEnds(p) == call' = [call EXCEPT ![p] = NoCall]

Proceeds(p, place) == call' = [call EXCEPT ![p].at = place]

(* The call's own settings; a call that defers authors no allowance.       *)
Settings(policy, deferred, commit) ==
  [NoCall EXCEPT !.at = "challenge", !.work.policy = policy,
                 !.deferred = deferred, !.commit = commit]

(* Slip: a call that resumes goes on with its own policy.                  *)
Resumed_OwnPolicy(settings) ==
  [settings EXCEPT !.at = IF pending.enrolled THEN "confirming" ELSE "completing",
                   !.work = [pending EXCEPT !.policy = settings.work.policy],
                   !.resumes = TRUE]

(* resumeCreation() goes on with the checkpoint, whatever its own policy:  *)
(* at once to the saved passkey if the enrollment is known to be saved.    *)
Resumed(settings) ==
  [settings EXCEPT !.at = IF pending.enrolled THEN "confirming" ELSE "completing",
                   !.work = pending,
                   !.resumes = TRUE]

(* Slip: an owner-only call resumes whatever is pending.                   *)
RefusesPending_Never(deferred) == FALSE

(* pending_creation_has_spend_policy.                                      *)
RefusesPending(deferred) == deferred /\ pending # None /\ pending.policy # None

(* One call at a time in a page.                                           *)
Begin(p, policy, deferred, commit) ==
  LET settings == Settings(policy, deferred, commit)
  IN  /\ call[p].at = "idle"
      /\ deferred => policy = None
      /\ ReadPending(p)
      /\ call' = [call EXCEPT ![p] =
                    IF RefusesPending(deferred) THEN NoCall
                    ELSE IF pending # None THEN Resumed(settings) ELSE settings]
      /\ UNCHANGED <<pending, keychain, apiVars, active, historyVars>>

ChallengeArrives(p) ==
  /\ call[p].at = "challenge"
  /\ Proceeds(p, "registering")
  /\ UNCHANGED <<checkpointVars, keychain, apiVars, active, historyVars>>

(* The user approves, and the operating system makes the passkey.          *)
PasskeyIsMade(p, k) ==
  /\ call[p].at = "registering"
  /\ k \notin keychain
  /\ keychain' = keychain \cup {k}
  /\ challenge' = challenge \cup {k}
  /\ authored' = [authored EXCEPT ![k] = call[p].work.policy]
  /\ call' = [call EXCEPT ![p] = [@ EXCEPT !.at = "created", !.work.passkey = k]]
  /\ UNCHANGED <<checkpointVars, enrolled, late, vaults, active, finished, absent, lost>>

(* Slip: the checkpoint is saved only once the enrollment is answered.     *)
RegistrationReturns_Unsaved(p) ==
  /\ call[p].at = "created"
  /\ Proceeds(p, "completing")
  /\ UNCHANGED <<checkpointVars, keychain, apiVars, active, historyVars>>

(* startRegistration() resolves: save, then submit.                        *)
RegistrationReturns(p) ==
  /\ call[p].at = "created"
  /\ SavePending(p, call[p].work)
  /\ Proceeds(p, "completing")
  /\ UNCHANGED <<keychain, apiVars, active, authored, finished, absent>>

(* The enrollment is accepted while its challenge is open.                 *)
EnrollmentAccepted(p) ==
  LET k == call[p].work.passkey
  IN  /\ call[p].at = "completing"
      /\ k \in challenge
      /\ challenge' = challenge \ {k}
      /\ enrolled' = enrolled \cup {k}
      /\ SavePending(p, [call[p].work EXCEPT !.enrolled = TRUE])
      /\ call' = [call EXCEPT ![p] = [@ EXCEPT !.at = "finalizing", !.work.enrolled = TRUE]]
      /\ UNCHANGED <<keychain, late, vaults, active, authored, finished, absent>>

(* challenge_replayed or verification_failed: a call that resumes asks for *)
(* the saved passkey instead.                                              *)
EnrollmentRefused(p) ==
  /\ call[p].at = "completing"
  /\ call[p].work.passkey \notin challenge
  /\ IF call[p].resumes THEN Proceeds(p, "confirming") ELSE CallEnds(p)
  /\ UNCHANGED <<checkpointVars, keychain, apiVars, active, historyVars>>

(* Slip: any error of the enrollment leads a call that resumes on to the   *)
(* saved passkey.                                                          *)
EnrollmentUnanswered_FallsThrough(p) ==
  /\ call[p].at = "completing"
  /\ late' \in {late, late \cup {call[p].work.passkey}}
  /\ IF call[p].resumes THEN Proceeds(p, "confirming") ELSE CallEnds(p)
  /\ UNCHANGED <<checkpointVars, keychain, challenge, enrolled, vaults, active, historyVars>>

(* Any other error ends the call; if it was the answer or the connection   *)
(* that was lost, the API may get the enrollment yet.                      *)
EnrollmentUnanswered(p) ==
  /\ call[p].at = "completing"
  /\ late' \in {late, late \cup {call[p].work.passkey}}
  /\ CallEnds(p)
  /\ UNCHANGED <<checkpointVars, keychain, challenge, enrolled, vaults, active, historyVars>>

PasskeyConfirmed(p) ==
  /\ call[p].at = "confirming"
  /\ Proceeds(p, "verifying")
  /\ UNCHANGED <<checkpointVars, keychain, apiVars, active, historyVars>>

PasskeyVerified(p) ==
  /\ call[p].at = "verifying"
  /\ call[p].work.passkey \in enrolled
  /\ SavePending(p, [call[p].work EXCEPT !.enrolled = TRUE])
  /\ call' = [call EXCEPT ![p] = [@ EXCEPT !.at = "finalizing", !.work.enrolled = TRUE]]
  /\ UNCHANGED <<keychain, apiVars, active, authored, finished, absent>>

(* Slip: the checkpoint stays.                                             *)
PasskeyUnknown_Kept(p) ==
  /\ call[p].at = "verifying"
  /\ call[p].work.passkey \notin enrolled
  /\ absent' = absent \cup {call[p].work.passkey}
  /\ CallEnds(p)
  /\ UNCHANGED <<checkpointVars, keychain, apiVars, active, authored, finished, lost>>

(* 404 credential_not_found: enrollment_not_saved.                         *)
PasskeyUnknown(p) ==
  /\ call[p].at = "verifying"
  /\ call[p].work.passkey \notin enrolled
  /\ ClearPending(p, call[p].work.passkey)
  /\ absent' = absent \cup {call[p].work.passkey}
  /\ CallEnds(p)
  /\ UNCHANGED <<keychain, apiVars, active, authored, finished, lost>>

(* finishCreation(): whether the Wallet could be made active is not asked. *)
VaultAnswered(p) ==
  LET k == call[p].work.passkey
  IN  /\ call[p].at = "finalizing"
      /\ vaults[k] # NoVault
      /\ active' \in {IF call[p].commit THEN active \cup {k} ELSE active}
                       \cup {s \in {active} : WritesMayFail}
      /\ ClearPending(p, k)
      /\ finished' = finished \cup {k}
      /\ CallEnds(p)
      /\ UNCHANGED <<keychain, apiVars, authored, absent, lost>>

(* Any other leg fails: nothing is kept but the checkpoint.                *)
LegFails(p) ==
  /\ call[p].at \in {"challenge", "registering", "confirming", "verifying", "finalizing"}
  /\ CallEnds(p)
  /\ UNCHANGED <<checkpointVars, keychain, apiVars, active, historyVars>>

(* The page is reloaded.  A request it waited for may still arrive; a      *)
(* passkey that no checkpoint was made for yet is lost.                    *)
Reload(p) ==
  LET k == call[p].work.passkey
  IN  /\ call[p].at # "idle" \/ retained[p] # None
      /\ retained' = [retained EXCEPT ![p] = None]
      /\ CallEnds(p)
      /\ late' \in {late, late \cup (IF call[p].at = "completing" THEN {k} ELSE {})}
      /\ lost' = lost \cup (IF call[p].at = "created" THEN {k} ELSE {})
      /\ UNCHANGED <<pending, keychain, challenge, enrolled, vaults, active,
                     authored, finished, absent>>

(***************************************************************************)
(* The API.                                                                *)
(***************************************************************************)
ChallengeExpires(k) ==
  /\ k \in challenge
  /\ challenge' = challenge \ {k}
  /\ UNCHANGED <<checkpointVars, call, keychain, enrolled, late, vaults, active, historyVars>>

LateEnrollment(k) ==
  /\ k \in late
  /\ late' = late \ {k}
  /\ challenge' = challenge \ {k}
  /\ enrolled' = enrolled \cup ({k} \cap challenge)
  /\ UNCHANGED <<checkpointVars, call, keychain, vaults, active, historyVars>>

(* The first initialization decides on the policy; later ones are answered *)
(* like it.                                                                *)
VaultInitialized(p) ==
  LET k == call[p].work.passkey
  IN  /\ call[p].at = "finalizing"
      /\ vaults[k] = NoVault
      /\ vaults' = [vaults EXCEPT ![k] = call[p].work.policy]
      /\ UNCHANGED <<checkpointVars, call, keychain, challenge, enrolled, late, active, historyVars>>

-----------------------------------------------------------------------------
Init ==
  /\ pending = None
  /\ retained = [p \in Pages |-> None]
  /\ call = [p \in Pages |-> NoCall]
  /\ keychain = {} /\ challenge = {} /\ enrolled = {} /\ late = {}
  /\ vaults = [k \in Passkeys |-> NoVault]
  /\ active = {}
  /\ authored = [k \in Passkeys |-> None]
  /\ finished = {} /\ absent = {} /\ lost = {}

Creating(p) ==
  \E policy \in Policies, deferred \in BOOLEAN, commit \in BOOLEAN :
    Begin(p, policy, deferred, commit)

Running(p) ==
  \/ ChallengeArrives(p)
  \/ \E k \in Passkeys : PasskeyIsMade(p, k)
  \/ RegistrationReturns(p)
  \/ EnrollmentAccepted(p) \/ EnrollmentRefused(p) \/ EnrollmentUnanswered(p)
  \/ PasskeyConfirmed(p) \/ PasskeyVerified(p) \/ PasskeyUnknown(p)
  \/ VaultAnswered(p)
  \/ LegFails(p)

Next ==
  \/ \E p \in Pages : Creating(p) \/ Running(p) \/ Reload(p)
  \/ \E k \in Passkeys : ChallengeExpires(k) \/ LateEnrollment(k)
  \/ \E p \in Pages : VaultInitialized(p)

Spec == Init /\ [][Next]_vars

(* The owner tries again, from some page and with no demand on agents, and *)
(* approves in the end; the API answers in the end.  Each may fail any     *)
(* number of times before.                                                 *)
Persistence ==
  \A p \in Pages :
    /\ WF_vars(Begin(p, None, FALSE, TRUE))
    /\ WF_vars(RegistrationReturns(p))
    /\ SF_vars(EnrollmentAccepted(p) \/ EnrollmentRefused(p))
    /\ SF_vars(PasskeyConfirmed(p))
    /\ SF_vars(PasskeyVerified(p) \/ PasskeyUnknown(p))
    /\ SF_vars(VaultInitialized(p))
    /\ SF_vars(VaultAnswered(p))

(***************************************************************************)
(* Properties.                                                             *)
(***************************************************************************)
TypeOK ==
  /\ pending \in Checkpoints \cup {None}
  /\ retained \in [Pages -> Checkpoints \cup {None}]
  /\ call \in [Pages -> Calls]
  /\ keychain \subseteq Passkeys
  /\ challenge \subseteq keychain /\ enrolled \subseteq keychain /\ late \subseteq keychain
  /\ vaults \in [Passkeys -> Policies \cup {NoVault}]
  /\ active \subseteq keychain
  /\ authored \in [Passkeys -> Policies]
  /\ finished \subseteq keychain /\ absent \subseteq keychain /\ lost \subseteq keychain

(* The passkeys whose creation is neither over nor excused.                *)
Unfinished == keychain \ (finished \cup absent \cup lost)

InWork(k) == \E p \in Pages : call[p].work.passkey = k

(* The owner never ends up with a passkey nobody remembers: whatever fails *)
(* and whoever reloads, the checkpoint leads a later call back to it.      *)
PasskeysAreKept == \A k \in Unfinished : PendingPasskey = k \/ InWork(k)

(* "Not saved" is final: no enrollment of a passkey that was reported      *)
(* absent, and forgotten, reaches the API afterwards.                      *)
AbsentStaysAbsent == absent \cap enrolled = {}

(* Whichever call, page and retry initializes the vault, it gets what the  *)
(* call that made the passkey was asked for.                               *)
TermsAreKept == \A k \in Passkeys : vaults[k] \in {NoVault, authored[k]}

(* A call that explicitly defers agent authority never works with an       *)
(* allowance, not even one that an earlier call was given.                 *)
DeferredMeansOwnerOnly ==
  \A p \in Pages : call[p].deferred => call[p].work.policy = None

(* An interrupted creation does not stay interrupted: it is completed, or  *)
(* found absent.                                                           *)
InterruptionEnds == (pending # None) ~> (pending = None)
=============================================================================
