--------------------------- MODULE AccountIdentity ---------------------------
(***************************************************************************)
(* signInAccountIdentity() and enrollAccountIdentity() (accountIdentity.ts)*)
(* in one page: a passkey signs in to an account without a Wallet, or a    *)
(* new passkey is enrolled as one.                                         *)
(*                                                                         *)
(* A ceremony runs in the page, or, off Dexter's origin, in a hosted       *)
(* window that runs the same code and reports its result or error code to  *)
(* the page, unless it is closed first.  A module that extends this one    *)
(* says what the page does with an outcome, in the turn that brings it.    *)
(*                                                                         *)
(* The API is external.  It enrolls a passkey when the submission arrives, *)
(* which may be after the page stopped waiting, and may fail to answer, or *)
(* answer with any error, after it did.  Only the four answers that        *)
(* accountIdentity.ts:155 lists promise that it did not.  The network      *)
(* delivers a submission at most once.                                     *)
(***************************************************************************)
CONSTANTS
  Passkeys, (* The passkeys a device may make.                             *)
  None

ASSUME NoneIsNoPasskey == None \notin Passkeys

VARIABLES
  ceremonyInProgress,
  ceremony,   (* The running ceremony, or None.                            *)
  outcome,    (* How the step ended a ceremony, or None.                   *)
  made,       (* The device: the passkeys it has made.                     *)
  enrolling,  (* Submissions that are on their way to the API.             *)
  identities, (* The API: the passkeys it has enrolled.                    *)
  excluded    (* History: passkeys whose enrollment the caller was told    *)
              (* has failed for good.                                      *)

apiVars == <<enrolling, identities>>
identityVars == <<ceremonyInProgress, ceremony, outcome, made, apiVars, excluded>>

(* What a caller is told: "listed" is any code that accountIdentity.ts:313 *)
(* lists but credential_exists, "unlisted" any other.                      *)
Codes == {"ok", "uncertain", "exists", "listed", "unlisted"}

Verbs == {"signin", "enroll"}

(* What the API answers a submission: it is enrolled; one of the answers   *)
(* that promise that it is not; it existed before; any other.              *)
Replies == {"accepted", "refused", "exists", "error"}

Ceremonies == [verb : Verbs, hosted : BOOLEAN, at : {"challenge", "passkey", "answer"},
               passkey : Passkeys \cup {None}, reply : Replies \cup {None}]

Outcomes == [verb : Verbs, code : Codes, passkey : Passkeys \cup {None}]

ASSUME NoneIsNoReply == None \notin Replies
ASSUME NoneIsNoRecord == None \notin Ceremonies \cup Outcomes

(* An enrollment in the hosted window fails for sure only with a code of   *)
(* the list; a closed window, a timeout and whatever else say nothing.     *)
Relayed(code) ==
  IF ceremony.hosted /\ ceremony.verb = "enroll" /\ code = "unlisted" THEN "uncertain" ELSE code

(* serializeCeremony() ends, whatever the ceremony came to.                *)
Ends(code) ==
  /\ ceremony' = None
  /\ ceremonyInProgress' = FALSE
  /\ outcome' = [verb |-> ceremony.verb, code |-> Relayed(code), passkey |-> ceremony.passkey]
  /\ excluded' = IF ceremony.verb = "enroll" /\ Relayed(code) \in {"listed", "unlisted"}
                   THEN excluded \cup ({ceremony.passkey} \ {None}) ELSE excluded

GoesOn(next) ==
  /\ ceremony' = next
  /\ outcome' = None
  /\ UNCHANGED <<ceremonyInProgress, excluded>>

NoCeremonyStep == outcome' = None /\ UNCHANGED <<ceremonyInProgress, ceremony, made, apiVars, excluded>>

(* A second ceremony is refused while one runs.                            *)
BeginCeremony(verb, hosted) ==
  /\ ~ceremonyInProgress
  /\ ceremonyInProgress' = TRUE
  /\ ceremony' = [verb |-> verb, hosted |-> hosted, at |-> "challenge",
                  passkey |-> None, reply |-> None]
  /\ outcome' = None
  /\ UNCHANGED <<made, apiVars, excluded>>

(* The challenge, and the checks of its form.                              *)
ChallengeAnswered ==
  /\ ceremony # None /\ ceremony.at = "challenge"
  /\ \/ GoesOn([ceremony EXCEPT !.at = "passkey"])
     \/ \E code \in {"listed", "unlisted"} : Ends(code)
  /\ UNCHANGED <<made, apiVars>>

(* startRegistration() made a passkey, and it is submitted.                *)
PasskeyMade(p) ==
  /\ ceremony # None /\ ceremony.at = "passkey" /\ ceremony.verb = "enroll"
  /\ p \notin made
  /\ made' = made \cup {p}
  /\ enrolling' = enrolling \cup {p}
  /\ GoesOn([ceremony EXCEPT !.at = "answer", !.passkey = p])
  /\ UNCHANGED identities

(* startAuthentication(): a passkey of the device is asserted.             *)
PasskeyChosen(p) ==
  /\ ceremony # None /\ ceremony.at = "passkey" /\ ceremony.verb = "signin"
  /\ p \in made
  /\ GoesOn([ceremony EXCEPT !.at = "answer", !.passkey = p])
  /\ UNCHANGED <<made, apiVars>>

(* The prompt is dismissed, or fails.                                      *)
PasskeyRefused ==
  /\ ceremony # None /\ ceremony.at = "passkey"
  /\ Ends("listed")
  /\ UNCHANGED <<made, apiVars>>

(* Whether or not anyone waits for it, a submission is processed.          *)
EnrollmentArrives(p) ==
  /\ p \in enrolling
  /\ enrolling' = enrolling \ {p}
  /\ \E reply \in Replies :
       /\ \/ reply \in {"accepted", "error"} /\ identities' = identities \cup {p}
          \/ reply # "accepted" /\ UNCHANGED identities
       /\ ceremony' = IF ceremony # None /\ ceremony.passkey = p /\ ceremony.verb = "enroll"
                        THEN [ceremony EXCEPT !.reply = reply] ELSE ceremony
  /\ outcome' = None
  /\ UNCHANGED <<ceremonyInProgress, made, excluded>>

(* Slip: an error status is thrown with the code it came with.             *)
EnrollCode_AsAnswered(reply) ==
  CASE reply = "accepted" -> "ok"
    [] reply = "refused" -> "listed"
    [] reply = "exists" -> "exists"
    [] reply = "error" -> "unlisted"

(* post(): the answers that establish that nothing was enrolled keep their *)
(* code.                                                                   *)
EnrollCode(reply) ==
  CASE reply = "accepted" -> "ok"
    [] reply = "refused" -> "listed"
    [] reply = "exists" -> "exists"
    [] reply = "error" -> "uncertain"

(* The answer may also be unreadable, or about another credential.         *)
EnrollmentAnswered ==
  /\ ceremony # None /\ ceremony.reply # None
  /\ Ends(EnrollCode(ceremony.reply)) \/ (ceremony.reply = "accepted" /\ Ends("uncertain"))
  /\ UNCHANGED <<made, apiVars>>

(* fetch() rejects; the submission may still arrive.                       *)
EnrollmentUnanswered ==
  /\ ceremony # None /\ ceremony.at = "answer" /\ ceremony.verb = "enroll"
  /\ Ends("uncertain")
  /\ UNCHANGED <<made, apiVars>>

(* The login is answered for the passkey asserted if the API knows it, and *)
(* an answer about another identity is refused as a mismatch.              *)
LoginAnswered ==
  /\ ceremony # None /\ ceremony.at = "answer" /\ ceremony.verb = "signin"
  /\ \/ ceremony.passkey \in identities /\ Ends("ok")
     \/ \E code \in {"uncertain", "unlisted"} : Ends(code)
  /\ UNCHANGED <<made, apiVars>>

(* The hosted window cannot be opened, is closed, or takes too long.       *)
WindowGone ==
  /\ ceremony # None /\ ceremony.hosted
  /\ \/ ceremony.at = "challenge" /\ Ends("listed")
     \/ Ends("unlisted")
  /\ UNCHANGED <<made, apiVars>>

(* What the passkey, the API's answer or the window does to end a wait.    *)
CeremonyMoves ==
  \/ ChallengeAnswered \/ PasskeyRefused
  \/ \E p \in Passkeys : PasskeyMade(p) \/ PasskeyChosen(p)
  \/ EnrollmentAnswered \/ EnrollmentUnanswered \/ LoginAnswered
  \/ WindowGone

IdentityInit ==
  /\ ceremonyInProgress = FALSE
  /\ ceremony = None /\ outcome = None
  /\ made = {} /\ enrolling = {} /\ identities = {} /\ excluded = {}

(***************************************************************************)
(* Properties.                                                             *)
(***************************************************************************)
IdentityTypeOK ==
  /\ ceremonyInProgress \in BOOLEAN
  /\ ceremony \in Ceremonies \cup {None}
  /\ outcome \in Outcomes \cup {None}
  /\ made \subseteq Passkeys
  /\ enrolling \subseteq made /\ identities \subseteq made /\ excluded \subseteq made

(* A caller that is told an enrollment failed, other than by "uncertain"   *)
(* or because the credential exists, may safely begin another: the API     *)
(* neither holds nor will ever hold the passkey, wherever the ceremony ran *)
(* and whatever was lost (accountIdentity.ts:148, 180, 318).               *)
DefiniteFailureEnrolledNothing ==
  excluded \cap (identities \cup enrolling) = {}
=============================================================================
