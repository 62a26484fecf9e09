-------------------------- MODULE RelationPromise ---------------------------
(***************************************************************************)
(* What relationController.ts promises, without revisions, abort signals   *)
(* or snapshots (its header comment and the comments of its methods): a    *)
(* pair of candidates, at most one open question about exactly that pair,  *)
(* and a verdict that only the answer to the open question can set and     *)
(* every change of identity takes back.                                    *)
(***************************************************************************)
CONSTANTS Wallets, Accounts, None, Bound

VARIABLES
  wallet, account,
  open,     (* A question about the current pair is open.                  *)
  shown     (* "provisional", "bound" or "conflict".                       *)

promise == <<wallet, account, open, shown>>

TypeOK ==
  /\ wallet \in Wallets \cup {None} /\ account \in Accounts \cup {None}
  /\ open \in BOOLEAN
  /\ shown \in {"provisional", "bound", "conflict"}

Init ==
  /\ wallet = None /\ account = None
  /\ open = FALSE
  /\ shown = "provisional"

(* Any candidate may change, or be set again to what it was.  A question   *)
(* opens only about a complete pair, and need not (a host that is          *)
(* restoring its session asks none).                                       *)
Change ==
  /\ wallet' \in Wallets \cup {None} /\ account' \in Accounts \cup {None}
  /\ open' \in BOOLEAN
  /\ open' => wallet' # None /\ account' # None
  /\ shown' = "provisional"

(* The open question is answered, truthfully or not at all.                *)
Verdict ==
  /\ open
  /\ shown' = IF <<wallet, account>> \in Bound THEN "bound" ELSE "conflict"
  /\ open' = FALSE
  /\ UNCHANGED <<wallet, account>>

NoVerdict ==
  /\ open
  /\ open' = FALSE
  /\ UNCHANGED <<wallet, account, shown>>

Next == Change \/ Verdict \/ NoVerdict

Spec == Init /\ [][Next]_promise
=============================================================================
