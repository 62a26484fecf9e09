----------------------------- MODULE AgentSpend ------------------------------
(***************************************************************************)
(* The switch of a vault's automatic agent spending (agentSpend.ts), and   *)
(* the signers its consent may come from (signer.ts, anon-policy.ts).      *)
(*                                                                         *)
(* An attempt is one call of revokeAgentSpend() or enableAgentSpend(): it  *)
(* asks the API for a one-time intent, has the owner's passkey sign the    *)
(* intent's operation inside an authorization challenge, and submits the   *)
(* assertion.  The caller names a vault and a user handle, which another   *)
(* render may have made those of two Wallets, and on Dexter's own origin   *)
(* may leave the signer out.  Elsewhere a signer answers from a hosted     *)
(* window; it was built for a vault of its own.                            *)
(*                                                                         *)
(* The API is external.  What it answers to the two challenge requests is  *)
(* not trusted: it may be about another intent it has minted.  It redeems  *)
(* an intent once, for an assertion of its own vault's passkey over its    *)
(* own operation, as agentSpend.ts:34 says; an intent may also expire.  A  *)
(* submission may arrive late, more than once, or never.                   *)
(*                                                                         *)
(* A vault stands for its address, its user handle and its passkey, which  *)
(* the API keeps together.                                                 *)
(***************************************************************************)
EXTENDS Naturals, FiniteSets

CONSTANTS
  Attempts,   (* Calls of the two verbs.                                   *)
  Vaults,
  MaxIntents, (* Bound on the intents the API mints.                       *)
  None

ASSUME NoneIsNoVault == None \notin Vaults
ASSUME NoneIsNoIntent == None \notin [kind : {"revoke", "enable"}, vault : Vaults, spent : BOOLEAN]
ASSUME MaxIntentsIsNatural == MaxIntents \in Nat

VARIABLES
  onDexter,    (* The page is https://dexter.cash.                         *)
  attempt,
  intents,     (* The API: what each nonce it has minted stands for.       *)
  switch,      (* The API: whether agents may spend from each vault.       *)
  submissions, (* The requests that are on their way, or may come again.   *)
  consents,    (* The assertions that passkeys have made.                  *)
  flips        (* History: the intents redeemed, and with which consent.   *)

vars == <<onDexter, attempt, intents, switch, submissions, consents, flips>>

Kinds == {"revoke", "enable"}
Nonces == 1 .. MaxIntents

(* Slip: the first version of the revocation, which carries no nonce.      *)
Operation_V1(kind, vault, nonce) ==
  [kind |-> kind, vault |-> vault, nonce |-> IF kind = "revoke" THEN 0 ELSE nonce]

(* revokeAgentSpendV2Message, enableAgentSpendMessage.                     *)
Operation(kind, vault, nonce) == [kind |-> kind, vault |-> vault, nonce |-> nonce]

IntentOperation(nonce) == Operation(intents[nonce].kind, intents[nonce].vault, nonce)

Minted == {n \in Nonces : intents[n] # None}

NoAttempt == [at |-> "idle", kind |-> "revoke", vault |-> None, handle |-> None,
              signer |-> None, nonce |-> 0, credential |-> None, assertion |-> None]

OwnOperation(a) == Operation(attempt[a].kind, attempt[a].vault, attempt[a].nonce)

Moves(a, place) == attempt' = [attempt EXCEPT ![a].at = place]

(* Nothing changes but the attempt.                                        *)
OnlyAttempt == UNCHANGED <<onDexter, intents, switch, submissions, consents, flips>>

(***************************************************************************)
(* The intent.                                                             *)
(***************************************************************************)

(* Without a signer the consent is asked in the page, which must then be   *)
(* Dexter's; only revokeAgentSpend() looks at the handle before it asks.   *)
Begin(a, kind, vault, handle, signer) ==
  /\ attempt[a].at = "idle"
  /\ signer = None => onDexter
  /\ kind = "revoke" => handle # None
  /\ attempt' = [attempt EXCEPT ![a] =
       [NoAttempt EXCEPT !.at = "asking", !.kind = kind, !.vault = vault,
                         !.handle = handle, !.signer = signer]]
  /\ OnlyAttempt

(* The API mints an intent for the handle it is asked about.               *)
IntentMinted(a, nonce) ==
  /\ attempt[a].at = "asking"
  /\ attempt[a].handle # None
  /\ nonce \notin Minted /\ \A m \in Nonces : m < nonce => m \in Minted
  /\ intents' = [intents EXCEPT ![nonce] =
       [kind |-> attempt[a].kind, vault |-> attempt[a].handle, spent |-> FALSE]]
  /\ Moves(a, "minted")
  /\ UNCHANGED <<onDexter, switch, submissions, consents, flips>>

(* Slip: the operation in the answer is signed unread.                     *)
ExactIntent_Unread(a, nonce) == attempt[a].handle # None

(* The operation in the answer is, byte by byte, the one the caller named. *)
ExactIntent(a, nonce) ==
  /\ attempt[a].handle # None
  /\ IntentOperation(nonce) = Operation(attempt[a].kind, attempt[a].vault, nonce)

(* The answer is about some intent.  An enabling call without a handle     *)
(* gets this far, and no further.                                          *)
IntentAnswered(a, nonce) ==
  /\ attempt[a].at \in {"asking", "minted"}
  /\ nonce \in Minted
  /\ attempt' = [attempt EXCEPT
       ![a].at = IF ExactIntent(a, nonce) THEN "named" ELSE "failed",
       ![a].nonce = IF ExactIntent(a, nonce) THEN nonce ELSE 0]
  /\ OnlyAttempt

(***************************************************************************)
(* The consent: assertCanonicalOperationInline(), or signOperation() of a  *)
(* signer, in the page or in the hosted window, over the anon policy.      *)
(***************************************************************************)

(* Whose passkey is asked, and which vault the challenge must name.        *)
ExpectedVault(a) == IF attempt[a].signer = None THEN attempt[a].vault ELSE attempt[a].signer
SigningHandle(a) == IF attempt[a].signer = None THEN attempt[a].handle ELSE attempt[a].signer

(* What is signed is the operation in the answer, which equals the         *)
(* caller's if the answer was read.                                        *)
SignedOperation(a) == IntentOperation(attempt[a].nonce)

(* A challenge is about some intent's operation, and some vault.           *)
Challenges == [operation : {IntentOperation(n) : n \in Minted}, vault : Vaults]

(* validatePasskeyAuthorizationChallenge().                                *)
Authorizes(challenge, operation, vault) ==
  challenge.operation = operation /\ challenge.vault = vault

(* The challenge for the operation names a credential and a vault, which   *)
(* are checked before the passkey is asked.  The caller of a verb that     *)
(* signs itself may have named the credential.                             *)
ConsentAsked(a, challenge, credential, pinned) ==
  /\ attempt[a].at = "named"
  /\ pinned => attempt[a].signer = None
  /\ attempt' = [attempt EXCEPT
       ![a].at = IF /\ Authorizes(challenge, SignedOperation(a), ExpectedVault(a))
                    /\ pinned => credential = attempt[a].vault
                   THEN "prompt" ELSE "failed",
       ![a].credential = credential]
  /\ OnlyAttempt

(* The owner of the credential touches the passkey, and the API verifies   *)
(* the assertion for the signing handle.                                   *)
OwnerConsents(a) ==
  LET assertion == [passkey   |-> attempt[a].credential,
                    operation |-> SignedOperation(a),
                    vault     |-> ExpectedVault(a)]
  IN  /\ attempt[a].at = "prompt"
      /\ consents' = consents \cup {assertion}
      /\ attempt' = [attempt EXCEPT
           ![a].at = IF attempt[a].credential # SigningHandle(a) THEN "failed"
                     ELSE IF onDexter THEN "signed" ELSE "hosted",
           ![a].assertion = IF onDexter THEN assertion ELSE None]
      /\ UNCHANGED <<onDexter, intents, switch, submissions, flips>>

(* Slip: the hosted window's answer is taken for the one it was asked for. *)
HostedResult_Unread(a, assertion) == TRUE

(* validateHostedSignResult(): the caller reads in the assertion what was  *)
(* signed, and for which vault; not by whose passkey.                      *)
HostedResult(a, assertion) == Authorizes(assertion, SignedOperation(a), ExpectedVault(a))

(* The hosted window answers with an assertion that was made in it.        *)
HostedAnswers(a, assertion) ==
  /\ attempt[a].at \in {"prompt", "hosted"} /\ ~onDexter
  /\ assertion \in consents
  /\ attempt' = [attempt EXCEPT
       ![a].at = IF HostedResult(a, assertion) THEN "signed" ELSE "failed",
       ![a].assertion = assertion]
  /\ OnlyAttempt

(***************************************************************************)
(* The submission.                                                         *)
(***************************************************************************)
Submit(a) ==
  /\ attempt[a].at = "signed"
  /\ submissions' = submissions \cup
       {[by |-> a, kind |-> attempt[a].kind, handle |-> attempt[a].handle,
         nonce |-> attempt[a].nonce, assertion |-> attempt[a].assertion]}
  /\ Moves(a, "submitted")
  /\ UNCHANGED <<onDexter, intents, switch, consents, flips>>

Redeemable(s) ==
  /\ ~intents[s.nonce].spent
  /\ intents[s.nonce].kind = s.kind
  /\ intents[s.nonce].vault = s.handle
  /\ s.assertion = [passkey |-> s.handle, operation |-> IntentOperation(s.nonce),
                    vault |-> s.handle]

(* The API redeems the intent atomically with the flip, or refuses it.     *)
SubmissionArrives(s) ==
  /\ s \in submissions
  /\ Redeemable(s)
  /\ intents' = [intents EXCEPT ![s.nonce].spent = TRUE]
  /\ switch' = [switch EXCEPT ![s.handle] = (s.kind = "enable")]
  /\ flips' = flips \cup {[by |-> s.by, nonce |-> s.nonce, vault |-> s.handle,
                           kind |-> s.kind, assertion |-> s.assertion]}
  /\ UNCHANGED <<onDexter, attempt, submissions, consents>>

(* The caller is told that its intent was redeemed.                        *)
SubmissionAnswered(a) ==
  /\ attempt[a].at = "submitted"
  /\ \E f \in flips : f.by = a
  /\ Moves(a, "done")
  /\ OnlyAttempt

(* Any exchange, the passkey or the window may fail; a failed call may     *)
(* have submitted.                                                         *)
AttemptFails(a) ==
  /\ attempt[a].at \notin {"idle", "done", "failed"}
  /\ Moves(a, "failed")
  /\ OnlyAttempt

-----------------------------------------------------------------------------
Init ==
  /\ onDexter \in BOOLEAN
  /\ attempt = [a \in Attempts |-> NoAttempt]
  /\ intents = [n \in Nonces |-> None]
  /\ switch \in [Vaults -> BOOLEAN]
  /\ submissions = {} /\ consents = {} /\ flips = {}

Next ==
  \/ \E a \in Attempts, kind \in Kinds, vault \in Vaults,
        handle \in Vaults \cup {None}, signer \in Vaults \cup {None} :
       Begin(a, kind, vault, handle, signer)
  \/ \E a \in Attempts, nonce \in Nonces : IntentMinted(a, nonce) \/ IntentAnswered(a, nonce)
  \/ \E a \in Attempts, challenge \in Challenges, credential \in Vaults, pinned \in BOOLEAN :
       ConsentAsked(a, challenge, credential, pinned)
  \/ \E a \in Attempts : OwnerConsents(a)
  \/ \E a \in Attempts, assertion \in consents : HostedAnswers(a, assertion)
  \/ \E a \in Attempts : Submit(a) \/ SubmissionAnswered(a) \/ AttemptFails(a)
  \/ \E s \in submissions : SubmissionArrives(s)

Spec == Init /\ [][Next]_vars

(***************************************************************************)
(* Properties.                                                             *)
(***************************************************************************)

(* Whatever the API answered, whoever signed and however late or often a   *)
(* submission came: a vault's switch is moved only for a call that named   *)
(* this vault and this direction.                                          *)
FlipsAsNamed ==
  \A f \in flips : attempt[f.by].vault = f.vault /\ attempt[f.by].kind = f.kind

(* What leaves the page is consent to the operation the caller named,      *)
(* under the intent it is submitted for: neither a hosted window that      *)
(* answers with an earlier assertion nor a challenge about another intent  *)
(* puts a foreign signature into the caller's request.                     *)
SubmitsOwnConsent ==
  \A s \in submissions :
    s.assertion.operation = Operation(attempt[s.by].kind, attempt[s.by].vault, s.nonce)

(* A touch of the passkey moves a switch once: no consent is good for a    *)
(* second intent, which a later call of the same kind would be granted     *)
(* (agentSpend.ts:473).                                                    *)
OneFlipPerConsent ==
  \A f, g \in flips : f # g => f.assertion # g.assertion
=============================================================================
