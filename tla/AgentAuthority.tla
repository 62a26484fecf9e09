--------------------------- MODULE AgentAuthority ----------------------------
(***************************************************************************)
(* An owner grants an agent authority (agentAuthority.ts): the page builds *)
(* a request, beginAgentAuthority() has the API open a selection for it,   *)
(* the owner's passkey signs the selection's challenge,                    *)
(* stageAgentAuthority() completes it, and the approval that follows is    *)
(* accepted by exactAgentAuthorityApprovalRedirect().                      *)
(*                                                                         *)
(* An attempt is one such chain of calls.  Attempts share the API: another *)
(* tab, or the same one after a lost answer, may use an operation id       *)
(* again, with the same request or with another.                           *)
(*                                                                         *)
(* The API is external.  It keeps one selection, and one grant, for an     *)
(* operation id.  Asked again it answers with the selection it has, or,    *)
(* before the owner authorized it, revises it.  It completes only the      *)
(* current revision, and answers whoever completes one that is authorized  *)
(* with what was authorized.  It activates the grant authorized last for a *)
(* target.  Ids, digests and times of a selection stand or fall with its   *)
(* operation id and revision; the agent's label, the vault and the expiry  *)
(* with the target.                                                        *)
(***************************************************************************)
EXTENDS Naturals

CONSTANTS
  Attempts,     (* Chains of calls that pages make.                        *)
  OperationIds, (* Idempotency keys.                                       *)
  Targets,      (* OAuth requests and device codes.                        *)
  MaxAmount,    (* U64_MAX_ATOMIC.                                         *)
  None

ASSUME MaxAmountIsPositive == MaxAmount \in Nat \ {0}
ASSUME NoneIsNoId == None \notin OperationIds \cup Targets

VARIABLES
  attempt,      (* Where each attempt is, and what it holds.               *)
  selection,    (* The API: the selection of each operation id.            *)
  offers,       (* History: the challenges the API has issued.             *)
  authorized    (* The API: the operation authorized last, by target.      *)

apiVars == <<selection, offers, authorized>>
vars == <<attempt, apiVars>>

(* What a caller may ask for: nothing, or too much, included.              *)
Amounts == 0 .. MaxAmount + 1

AnyLimits == [perPayment : Amounts, daily : Amounts, aggregate : Amounts]

ValidAtomic(amount) == amount \in 1 .. MaxAmount

(* validRule(), of the three limits every rule has.                        *)
ValidRule(limits) ==
  /\ \A amount \in {limits.perPayment, limits.daily, limits.aggregate} : ValidAtomic(amount)
  /\ limits.perPayment <= limits.daily
  /\ limits.daily <= limits.aggregate

Requests == [target : Targets, limits : AnyLimits]

(* What the API may hold: ordered limits that fit in 64 bits.              *)
Limits == {l \in AnyLimits : /\ 1 <= l.perPayment
                             /\ l.perPayment <= l.daily
                             /\ l.daily <= l.aggregate
                             /\ l.aggregate <= MaxAmount}

Revisions == Nat

Selections == [request : [target : Targets, limits : Limits],
               revision : Revisions,
               status : {"required", "authorized"}]

ASSUME NoneIsNoSelection == None \notin Selections

(* A challenge: which selection and revision the owner's passkey signs.    *)
Offers == [operation : OperationIds, revision : Revisions, request : Requests]

NoRequest == [target |-> None, limits |-> [perPayment |-> 0, daily |-> 0, aggregate |-> 0]]

NoAttempt == [at |-> "idle", operation |-> None, request |-> NoRequest, revision |-> 0]

Moves(a, place) == attempt' = [attempt EXCEPT ![a].at = place]

(***************************************************************************)
(* beginAgentAuthority().                                                  *)
(***************************************************************************)

(* buildAgentAuthorityRequest() throws on a rule that is not valid, so no  *)
(* such request is sent, wherever its limits come from.                    *)
Begin(a, operation, request) ==
  /\ attempt[a].at = "idle"
  /\ ValidRule(request.limits)
  /\ attempt' = [attempt EXCEPT ![a] =
       [NoAttempt EXCEPT !.at = "beginning", !.operation = operation, !.request = request]]
  /\ UNCHANGED apiVars

(* What the API may answer with: a new selection, the one it has, or, as   *)
(* long as the owner has not authorized that, its next revision.           *)
SelectionsFor(operation, request) ==
  LET held == selection[operation]
      New(revision) == [request |-> request, revision |-> revision, status |-> "required"]
  IN  IF held = None
        THEN {New(1)}
        ELSE {held} \cup {s \in {New(held.revision + 1)} : held.status = "required"}

BeginProcessed(operation, s) ==
  /\ selection' = [selection EXCEPT ![operation] = s]
  /\ offers' = offers \cup
       {[operation |-> operation, revision |-> s.revision, request |-> s.request]}
  /\ UNCHANGED authorized

(* Slip: the answer is compared by its ids, not by its rules.              *)
ExactChallenge_IdsOnly(a, s) == s.status = "required"

(* The test of beginAgentAuthority()'s answer.                             *)
ExactChallenge(a, s) == s.status = "required" /\ s.request = attempt[a].request

BeginAnswered(a) ==
  /\ attempt[a].at = "beginning"
  /\ \E s \in SelectionsFor(attempt[a].operation, attempt[a].request) :
       /\ BeginProcessed(attempt[a].operation, s)
       /\ attempt' = [attempt EXCEPT
            ![a].at = IF ExactChallenge(a, s) THEN "challenged" ELSE "failed",
            ![a].revision = IF ExactChallenge(a, s) THEN s.revision ELSE 0]

(* The API processed the request and its answer is lost, or malformed.     *)
BeginUnanswered(a) ==
  /\ attempt[a].at = "beginning"
  /\ \E s \in SelectionsFor(attempt[a].operation, attempt[a].request) :
       BeginProcessed(attempt[a].operation, s)
  /\ Moves(a, "failed")

(***************************************************************************)
(* The owner, and stageAgentAuthority().                                   *)
(***************************************************************************)

(* The owner's passkey signs the challenge of the authorization.           *)
OwnerApproves(a) ==
  /\ attempt[a].at = "challenged"
  /\ Moves(a, "approved")
  /\ UNCHANGED apiVars

(* A refusal, a lost request, an owner who declines.                       *)
GivesUp(a) ==
  /\ attempt[a].at \in {"beginning", "challenged", "approved", "staged"}
  /\ Moves(a, "failed")
  /\ UNCHANGED apiVars

(* The API completes the revision that is current, and answers with what   *)
(* was authorized once that has happened.                                  *)
Completable(a) ==
  LET s == selection[attempt[a].operation]
  IN  /\ attempt[a].at = "approved"
      /\ s.status = "authorized" \/ s.revision = attempt[a].revision

CompleteProcessed(operation) ==
  LET s == selection[operation]
  IN  /\ selection' = [selection EXCEPT ![operation].status = "authorized"]
      /\ authorized' = IF s.status = "required"
                         THEN [authorized EXCEPT ![s.request.target] = operation]
                         ELSE authorized
      /\ UNCHANGED offers

(* Slip: the receipt is recognised by its selection and grant.             *)
ExactReceipt_ByGrant(a, s) == TRUE

(* The test of stageAgentAuthority()'s answer.                             *)
ExactReceipt(a, s) == s.revision = attempt[a].revision /\ s.request = attempt[a].request

StageAnswered(a) ==
  /\ Completable(a)
  /\ CompleteProcessed(attempt[a].operation)
  /\ Moves(a, IF ExactReceipt(a, selection[attempt[a].operation]) THEN "staged" ELSE "failed")

StageUnanswered(a) ==
  /\ Completable(a)
  /\ CompleteProcessed(attempt[a].operation)
  /\ Moves(a, "failed")

(***************************************************************************)
(* The approval of the target, and its redirect.                           *)
(***************************************************************************)

(* Slip: any active grant will do.                                         *)
ExactApproval_AnyGrant(a, operation) == TRUE

(* exactAgentAuthorityApprovalRedirect().                                  *)
ExactApproval(a, operation) == operation = attempt[a].operation

ApprovalAnswered(a) ==
  /\ attempt[a].at = "staged"
  /\ Moves(a, IF ExactApproval(a, authorized[attempt[a].request.target])
                THEN "redirected" ELSE "failed")
  /\ UNCHANGED apiVars

-----------------------------------------------------------------------------
Init ==
  /\ attempt = [a \in Attempts |-> NoAttempt]
  /\ selection = [operation \in OperationIds |-> None]
  /\ offers = {}
  /\ authorized = [t \in Targets |-> None]

Next ==
  \E a \in Attempts :
    \/ \E operation \in OperationIds, request \in Requests : Begin(a, operation, request)
    \/ BeginAnswered(a) \/ BeginUnanswered(a)
    \/ OwnerApproves(a)
    \/ StageAnswered(a) \/ StageUnanswered(a)
    \/ ApprovalAnswered(a)
    \/ GivesUp(a)

Spec == Init /\ [][Next]_vars

-----------------------------------------------------------------------------
(* The variables hold what they should; the API is asked for ordered,      *)
(* bounded limits only (validRule() guards every request).                 *)
TypeOK ==
  /\ attempt \in [Attempts ->
       [at : {"idle", "beginning", "challenged", "approved", "staged", "redirected", "failed"},
        operation : OperationIds \cup {None},
        request : Requests \cup {NoRequest},
        revision : Revisions]]
  /\ selection \in [OperationIds -> {None} \cup Selections]
  /\ offers \subseteq Offers
  /\ authorized \in [Targets -> OperationIds \cup {None}]

(* The owner's passkey is only ever put to a challenge that stands for the *)
(* request of the same attempt, whatever other attempts asked for under    *)
(* the same operation id (beginAgentAuthority()'s test of its answer).     *)
OwnerSeesOwnRequest ==
  \A a \in Attempts :
    attempt[a].at \in {"challenged", "approved"} =>
      [operation |-> attempt[a].operation,
       revision |-> attempt[a].revision,
       request |-> attempt[a].request] \in offers

(* The API authorizes a selection only when the owner's passkey approved,  *)
(* in some attempt, exactly the revision, target and limits the selection  *)
(* holds at that moment, whichever attempts share the operation id, revise *)
(* it or lose their answers (beginAgentAuthority()'s test of its answer).  *)
AuthorizesWhatOwnerApproved ==
  [][\A operation \in OperationIds :
       /\ selection'[operation] # None /\ selection'[operation].status = "authorized"
       /\ selection[operation] # selection'[operation]
       => \E a \in Attempts :
            /\ attempt[a].at = "approved"
            /\ attempt[a].operation = operation
            /\ attempt[a].revision = selection'[operation].revision
            /\ attempt[a].request = selection'[operation].request]_vars

(* An attempt that accepted a receipt is one whose own challenge the API   *)
(* authorized, and stays so: no later attempt revises it                   *)
(* (stageAgentAuthority()'s test of its answer).                           *)
ReceiptIsWhatOwnerApproved ==
  \A a \in Attempts :
    attempt[a].at \in {"staged", "redirected"} =>
      selection[attempt[a].operation] =
        [request |-> attempt[a].request,
         revision |-> attempt[a].revision,
         status |-> "authorized"]

(* Whenever a page follows the redirect of an approval, the grant that is  *)
(* active for its target has the limits that the owner approved in that    *)
(* attempt (exactAgentAuthorityApprovalRedirect()).                        *)
RedirectGrantsWhatOwnerApproved ==
  [][\A a \in Attempts :
       attempt[a].at # "redirected" /\ attempt'[a].at = "redirected" =>
         selection[authorized[attempt[a].request.target]].request = attempt[a].request]_vars
=============================================================================
