------------------------- MODULE RelationController -------------------------
(***************************************************************************)
(* WalletAccountRelationController (relationController.ts): the object     *)
(* that decides whether this page may use account data with this Wallet.   *)
(*                                                                         *)
(* It is fed a Wallet candidate and an account candidate, and asks an      *)
(* injected verifier about the pair.  A question is asynchronous: it is    *)
(* asked in one turn of the event loop and answered in a later one, when   *)
(* the candidates may have been replaced, so answers of several questions  *)
(* may arrive in any order.                                                *)
(*                                                                         *)
(* Every public method is one synchronous turn and so one action.  A turn  *)
(* ends with the snapshot its last publish left; the intermediate          *)
(* publishes of a turn are seen only by listeners, which are outside the   *)
(* model.                                                                  *)
(***************************************************************************)
EXTENDS Naturals

CONSTANTS
  Wallets,      (* Wallet candidates.                                      *)
  Accounts,     (* Account candidates.                                     *)
  None,         (* The null candidate.                                     *)
  Bound,        (* The pairs the Dexter API knows to belong together.      *)
  VerifierObeysAbort,
                (* TRUE if an aborted verifier call ends at once (a fetch  *)
                (* with the signal does); FALSE if it may still answer.    *)
  MaxRevision   (* Bound on the number of identity changes.                *)

ASSUME NoneIsNoCandidate == None \notin Wallets \cup Accounts
ASSUME BoundIsARelation == Bound \subseteq Wallets \X Accounts
ASSUME VerifierObeysAbortIsBoolean == VerifierObeysAbort \in BOOLEAN
ASSUME MaxRevisionIsNat == MaxRevision \in Nat

VARIABLES
  wallet,       (* Current Wallet candidate, or None.                      *)
  account,      (* Current account candidate, or None.                     *)
  revision,     (* Incremented by every identity change.                   *)
  activeCheck,  (* Revision whose check may still publish; 0 if none.      *)
  checks,       (* Verifier calls that have not been answered yet.         *)
  snapshot,     (* What subscribers and getSnapshot() see.                 *)
  disposed      (* History: dispose() was called.                          *)

vars == <<wallet, account, revision, activeCheck, checks, snapshot, disposed>>

(***************************************************************************)
(* Data.                                                                   *)
(***************************************************************************)
Relations == {"none", "wallet_only", "account_only", "bound", "conflict"}
Reasons   == {"restore", "wallet_change", "account_change", "retry"}
Subjects  == {"wallet", "account", "both"}

(* A runtime phase with what qualifies it: the reason of a check, the      *)
(* subject that expired.  Error codes are one value.                       *)
Runtimes ==
  [phase : {"hydrating", "ready", "offline", "error"}, why : {"-"}]
    \cup [phase : {"checking"}, why : Reasons]
    \cup [phase : {"expired"}, why : Subjects]

(* The verifier's answers: its two verdicts, its failures, a value of the  *)
(* wrong shape, a rejected promise.                                        *)
Verdicts == [kind : {"verdict"}, is : {"bound", "conflict"}]
Failures == [kind : {"offline", "error", "malformed", "throws"}, is : {"-"}]
              \cup [kind : {"expired"}, is : Subjects]
Answers  == Verdicts \cup Failures

Checks == [wallet : Wallets, account : Accounts, reason : Reasons,
           revision : Nat, aborted : BOOLEAN]

Snapshots == [relation : Relations, runtime : Runtimes,
              walletPresent : BOOLEAN, accountPresent : BOOLEAN,
              privateAccountAccess : BOOLEAN, quarantined : BOOLEAN,
              stamped : BOOLEAN, revision : Nat]

Plain(phase) == [phase |-> phase, why |-> "-"]
Checking(reason) == [phase |-> "checking", why |-> reason]

Both(w, a) == w # None /\ a # None

(* Presence alone never says more than this.                               *)
ProvisionalRelation(w, a) ==
  IF w # None THEN "wallet_only" ELSE IF a # None THEN "account_only" ELSE "none"

(* frozenSnapshot: access, quarantine and the verification time are        *)
(* derived from relation and phase.  stamped: a verification time is shown.*)
FrozenSnapshot(relation, runtime, w, a, timed, rev) ==
  LET readyAndBound == relation = "bound" /\ runtime.phase = "ready"
  IN  [relation |-> relation, runtime |-> runtime,
       walletPresent |-> w # None, accountPresent |-> a # None,
       privateAccountAccess |-> readyAndBound,
       quarantined |-> relation = "conflict",
       stamped |-> timed /\ (readyAndBound \/ relation = "conflict"),
       revision |-> rev]

RuntimeAfterChange(reason, w, a) ==
  IF Both(w, a) THEN Checking(reason) ELSE Plain("ready")

Provisional(runtime, w, a, rev) ==
  FrozenSnapshot(ProvisionalRelation(w, a), runtime, w, a, FALSE, rev)

(***************************************************************************)
(* Methods.                                                                *)
(***************************************************************************)
Init ==
  /\ wallet = None /\ account = None
  /\ revision = 0
  /\ activeCheck = 0
  /\ checks = {}
  /\ snapshot = Provisional(Plain("hydrating"), None, None, 0)
  /\ disposed = FALSE

(* invalidate() and dispose() abort the active check; earlier ones were    *)
(* aborted when it started.                                                *)
Aborted(cs) ==
  {c \in {[d EXCEPT !.aborted = @ \/ d.revision = activeCheck] : d \in cs} :
     VerifierObeysAbort => ~c.aborted}

(* replaceCandidates(), invalidate() and settle(): the new pair is only    *)
(* provisional, and if both candidates are present a check of exactly this *)
(* pair starts.  A check is named by its revision: each revision starts at *)
(* most one.                                                               *)
Replace(w, a, reason) ==
  /\ revision < MaxRevision
  /\ wallet' = w /\ account' = a
  /\ revision' = revision + 1
  /\ snapshot' = Provisional(RuntimeAfterChange(reason, w, a), w, a, revision')
  /\ activeCheck' = IF Both(w, a) THEN revision' ELSE 0
  /\ checks' = Aborted(checks) \cup
       {c \in {[wallet |-> w, account |-> a, reason |-> reason,
                revision |-> revision', aborted |-> FALSE]} : Both(w, a)}
  /\ UNCHANGED disposed

Restore(w, a) == Replace(w, a, "restore")
SetWallet(w)  == Replace(w, account, "wallet_change")
SetAccount(a) == Replace(wallet, a, "account_change")
Retry         == Replace(wallet, account, "retry")

(* Slip: invalidate() forgets to publish.                                  *)
Lock_Silent(w, a, steps) ==
  /\ revision + steps <= MaxRevision
  /\ wallet' = w /\ account' = a
  /\ revision' = revision + steps
  /\ activeCheck' = 0
  /\ checks' = Aborted(checks)
  /\ UNCHANGED <<snapshot, disposed>>

(* invalidate() without settle(): the candidates are w and a, nothing is   *)
(* asked about them, and the snapshot says so until the next change.       *)
(* steps: how many times the turn invalidates.                             *)
Lock(w, a, steps) ==
  /\ revision + steps <= MaxRevision
  /\ wallet' = w /\ account' = a
  /\ revision' = revision + steps
  /\ snapshot' = Provisional(Plain("hydrating"), w, a, revision')
  /\ activeCheck' = 0
  /\ checks' = Aborted(checks)
  /\ UNCHANGED disposed

BeginRestore == Lock(wallet, account, 1)

Dispose ==
  /\ disposed' = TRUE
  /\ activeCheck' = 0
  /\ checks' = Aborted(checks)
  /\ UNCHANGED <<wallet, account, revision, snapshot>>

(***************************************************************************)
(* The answer of one verifier call.                                        *)
(***************************************************************************)
(* Slip: every answer is current.                                          *)
IsCurrentCheck_Any(c) == TRUE

(* Slip: the revision is captured before invalidate() increments it.       *)
IsCurrentCheck_EarlyRevision(c) ==
  /\ activeCheck = c.revision
  /\ revision = c.revision - 1
  /\ ~c.aborted

IsCurrentCheck(c) ==
  /\ activeCheck = c.revision
  /\ revision = c.revision
  /\ ~c.aborted

(* A failure leaves the pair provisional.                                  *)
FailureRuntime(answer) ==
  CASE answer.kind = "offline" -> Plain("offline")
    [] answer.kind = "expired" -> [phase |-> "expired", why |-> answer.is]
    [] OTHER -> Plain("error")

Judged(c, answer) ==
  IF answer \in Verdicts
    THEN FrozenSnapshot(answer.is, Plain("ready"), c.wallet, c.account, TRUE, c.revision)
    ELSE FrozenSnapshot("wallet_only", FailureRuntime(answer),
                        c.wallet, c.account, FALSE, c.revision)

(* Slip: the check stays active after its answer was published.            *)
Deliver_KeepsCheck(c, answer) ==
  /\ checks' = checks \ {c}
  /\ IF IsCurrentCheck(c)
       THEN snapshot' = Judged(c, answer)
       ELSE UNCHANGED snapshot
  /\ UNCHANGED <<activeCheck, wallet, account, revision, disposed>>

(* The end of runCheck(): the answer of a check that is no longer current  *)
(* is dropped.                                                             *)
Deliver(c, answer) ==
  /\ checks' = checks \ {c}
  /\ IF IsCurrentCheck(c)
       THEN activeCheck' = 0 /\ snapshot' = Judged(c, answer)
       ELSE UNCHANGED <<activeCheck, snapshot>>
  /\ UNCHANGED <<wallet, account, revision, disposed>>

(* The API is trusted about the pair it was asked about, and about no      *)
(* other; it may fail, and so may the network.                             *)
MayAnswer(c, answer) ==
  answer \in Verdicts => (answer.is = "bound") = (<<c.wallet, c.account>> \in Bound)

Answer(c, answer) == c \in checks /\ MayAnswer(c, answer) /\ Deliver(c, answer)

Next ==
  \/ \E w \in Wallets \cup {None}, a \in Accounts \cup {None} : Restore(w, a)
  \/ \E w \in Wallets \cup {None} : SetWallet(w)
  \/ \E a \in Accounts \cup {None} : SetAccount(a)
  \/ Retry
  \/ BeginRestore
  \/ Dispose
  \/ \E c \in checks, answer \in Answers : Answer(c, answer)

AnswerOf(r) == \E c \in checks, answer \in Answers : c.revision = r /\ Answer(c, answer)

(* A verifier call is a fetch: the browser resolves or rejects each one in *)
(* the end.  Nothing obliges a caller to call.                             *)
Fairness == \A r \in 1 .. MaxRevision : WF_vars(AnswerOf(r))

Spec == Init /\ [][Next]_vars
FairSpec == Spec /\ Fairness

(***************************************************************************)
(* Properties.                                                             *)
(***************************************************************************)
TypeOK ==
  /\ wallet \in Wallets \cup {None}
  /\ account \in Accounts \cup {None}
  /\ revision \in Nat
  /\ activeCheck \in Nat
  /\ checks \subseteq Checks
  /\ snapshot \in Snapshots
  /\ disposed \in BOOLEAN

(* Whatever order candidates were replaced and answers arrived in, account *)
(* data is open only for a pair the API binds, and the pair is quarantined *)
(* only if it does not: an answer about an earlier pair never shows.       *)
AccessOnlyForBoundPair ==
  /\ snapshot.privateAccountAccess => <<wallet, account>> \in Bound
  /\ snapshot.quarantined => Both(wallet, account) /\ <<wallet, account>> \notin Bound

(* The page never waits for an answer that cannot come: the snapshot says  *)
(* "checking" only while a check that may publish is in flight, unless     *)
(* dispose() cut it off.                                                   *)
CheckingHasACheck ==
  snapshot.runtime.phase = "checking" =>
    \/ disposed
    \/ \E c \in checks : IsCurrentCheck(c)

(* A step that opens account data is the answer of a check that was asked  *)
(* about the current pair after the last identity change, and any identity *)
(* change, even to the same candidates, closes it again.                   *)
AccessNeedsFreshCheck ==
  [][/\ (~snapshot.privateAccountAccess /\ snapshot'.privateAccountAccess) =>
          \E c \in checks \ checks' :
            /\ c.revision = revision
            /\ ~c.aborted
            /\ c.wallet = wallet /\ c.account = account
     /\ revision' # revision => ~snapshot'.privateAccountAccess /\ ~snapshot'.quarantined]_vars

(* Once callers stop changing the identity (here: MaxRevision is reached)  *)
(* a page that shows "checking" shows a verdict or a failure in the end;   *)
(* only dispose() may leave it.                                            *)
CheckingEnds ==
  (snapshot.runtime.phase = "checking") ~>
     (snapshot.runtime.phase # "checking" \/ disposed)

(* The refinement: a question is open while a check may publish, and the   *)
(* verdict is the relation the snapshot shows.                             *)
Promise == INSTANCE RelationPromise WITH
  open  <- activeCheck # 0,
  shown <- IF snapshot.relation \in {"bound", "conflict"}
             THEN snapshot.relation ELSE "provisional"

(* The controller does what RelationPromise promises: no verdict without   *)
(* an open question about the current pair, none kept across a change.     *)
KeepsPromise == Promise!Spec
=============================================================================
