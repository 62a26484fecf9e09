-------------------------- MODULE BindingResolver ---------------------------
(***************************************************************************)
(* createWalletAccountBindingClient (bindingResolver.ts): how an HTTP      *)
(* exchange with /binding/resolve becomes a relation or a failure.  The    *)
(* client keeps no state between calls; codes that the rest of the SDK     *)
(* treats alike are one value "error".                                     *)
(***************************************************************************)

(* fetch() rejects, or a response arrives.  A response with an error       *)
(* status carries one of the API's codes with the status it belongs to, or *)
(* something else ("unrecognized"); a success carries a relation, or       *)
(* something else.                                                         *)
ErrorCodes == {"identity_required", "invalid_active_wallet", "active_wallet_required",
               "wallet_proof_required", "invalid_wallet_proof", "invalid_account_session",
               "wallet_not_initialized", "temporarily_unavailable", "unrecognized"}

ResolvedRelations == {"wallet_only", "account_only", "bound", "conflict"}

Responses ==
  [kind : {"unreachable", "aborted"}, is : {"-"}]
    \cup [kind : {"refused"}, is : ErrorCodes]
    \cup [kind : {"relation"}, is : ResolvedRelations \cup {"unrecognized"}]

Offline == [kind |-> "offline", is |-> "-"]
Error   == [kind |-> "error", is |-> "-"]
Expired(subject) == [kind |-> "expired", is |-> subject]

RelationMatchesSuppliedProofs(relation, walletPresent, accountPresent) ==
  \/ walletPresent /\ accountPresent /\ relation \in {"bound", "conflict"}
  \/ walletPresent /\ ~accountPresent /\ relation \in {"wallet_only", "conflict"}
  \/ ~walletPresent /\ accountPresent /\ relation = "account_only"

(* resolve(): a request without a proof is not sent; a refused proof is    *)
(* expired only if it was supplied; a relation counts only if it can       *)
(* describe the supplied proofs.                                           *)
Resolve(walletPresent, accountPresent, response) ==
  CASE ~walletPresent /\ ~accountPresent -> Error
    [] response.kind = "unreachable" -> Offline
    [] response.kind = "aborted" -> Error
    [] response.kind = "refused" ->
         IF response.is = "invalid_wallet_proof" /\ walletPresent THEN Expired("wallet")
         ELSE IF response.is = "invalid_account_session" /\ accountPresent THEN Expired("account")
         ELSE Error
    [] OTHER ->
         IF RelationMatchesSuppliedProofs(response.is, walletPresent, accountPresent)
           THEN [kind |-> "relation", is |-> response.is]
           ELSE Error

(* verify(): the verifier injected into the relation controller.  Both     *)
(* candidates are present, and only the two relations of a complete pair   *)
(* are verdicts.                                                           *)
Verify(response) ==
  LET result == Resolve(TRUE, TRUE, response)
  IN  IF result.kind # "relation" THEN result
      ELSE IF result.is \in {"bound", "conflict"} THEN [kind |-> "verdict", is |-> result.is]
      ELSE Error
=============================================================================
