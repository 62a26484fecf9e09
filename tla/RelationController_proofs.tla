---------------------- MODULE RelationController_proofs ----------------------
(***************************************************************************)
(* Proofs about the relation controller, for every set of candidates,      *)
(* every binding relation and every number of identity changes.            *)
(***************************************************************************)
EXTENDS RelationController, TLAPS

(***************************************************************************)
(* The inductive invariant.  AccessOnlyForBoundPair is not inductive: it   *)
(* says nothing of the questions in flight, whose answers set the next     *)
(* snapshot.                                                               *)
(***************************************************************************)

(* A revision has at most one check in flight, the check of the current    *)
(* revision is about the current pair, and only the active check may still *)
(* publish.                                                                *)
ChecksInv ==
  /\ \A c, d \in checks : c.revision = d.revision => c = d
  /\ \A c \in checks :
    /\ 0 < c.revision /\ c.revision <= revision
    /\ c.revision = revision => c.wallet = wallet /\ c.account = account
    /\ ~c.aborted => c.revision = activeCheck

(* The active check is the one of the current revision, it is in flight,   *)
(* and the snapshot waits for it.                                          *)
ActiveInv ==
  activeCheck # 0 =>
    /\ activeCheck = revision
    /\ wallet # None /\ account # None
    /\ \E c \in checks : c.revision = revision /\ ~c.aborted
    /\ snapshot.relation = "wallet_only"

(* What the snapshot shows was established for the current pair, and a     *)
(* complete pair is ready only with a verdict.                             *)
SnapshotInv ==
  /\ snapshot.relation = "bound" => <<wallet, account>> \in Bound
  /\ snapshot.relation = "conflict" =>
       /\ wallet # None /\ account # None
       /\ <<wallet, account>> \notin Bound
  /\ snapshot.privateAccountAccess <=> snapshot.relation = "bound"
  /\ snapshot.quarantined => snapshot.relation = "conflict"
  /\ snapshot.walletPresent <=> wallet # None
  /\ snapshot.relation = "wallet_only" => wallet # None
  /\ snapshot.runtime.phase = "ready" /\ Both(wallet, account) =>
       snapshot.relation \in {"bound", "conflict"}
  /\ snapshot.runtime.phase = "checking" => disposed \/ activeCheck # 0

IInv == TypeOK /\ ChecksInv /\ ActiveInv /\ SnapshotInv

-----------------------------------------------------------------------------
(***************************************************************************)
(* Lemmas about the snapshots and the aborted checks.                      *)
(***************************************************************************)

(* A provisional snapshot has the type of a snapshot, and shows no verdict.*)
LEMMA ProvisionalFacts ==
  ASSUME NEW rt \in Runtimes, NEW w, NEW a, NEW rev \in Nat
  PROVE  LET s == Provisional(rt, w, a, rev)
         IN  /\ s \in Snapshots
             /\ s.relation \notin {"bound", "conflict"}
             /\ (w # None <=> s.relation = "wallet_only")
             /\ (s.walletPresent <=> w # None)
             /\ s.runtime = rt
             /\ ~s.privateAccountAccess /\ ~s.quarantined
             /\ s.revision = rev
BY DEF Provisional, ProvisionalRelation, FrozenSnapshot, Snapshots, Relations

(* The published answer of a check: a verdict shows, a failure does not.   *)
LEMMA JudgedFacts ==
  ASSUME NEW c \in Checks, NEW answer \in Answers
  PROVE  LET s == Judged(c, answer)
         IN  /\ s \in Snapshots
             /\ answer \in Verdicts => s.relation = answer.is
             /\ answer \notin Verdicts => s.relation = "wallet_only"
             /\ s.runtime.phase # "checking"
             /\ s.runtime.phase = "ready" => answer \in Verdicts
             /\ s.privateAccountAccess <=> s.relation = "bound"
             /\ s.quarantined => s.relation = "conflict"
             /\ s.walletPresent <=> c.wallet # None
<1>1. /\ FailureRuntime(answer) \in Runtimes
      /\ FailureRuntime(answer).phase \notin {"checking", "ready"}
  BY DEF FailureRuntime, Answers, Failures, Verdicts, Runtimes, Plain, Subjects
<1>2. Plain("ready") \in Runtimes /\ Plain("ready").phase = "ready"
  BY DEF Plain, Runtimes
<1>3. CASE answer \in Verdicts
  <2>1. answer.is \in {"bound", "conflict"}
    BY <1>3 DEF Verdicts
  <2> QED
    BY <1>2, <1>3, <2>1 DEF Judged, FrozenSnapshot, Snapshots, Relations, Checks
<1>4. CASE answer \notin Verdicts
  BY <1>1, <1>4 DEF Judged, FrozenSnapshot, Snapshots, Relations, Checks
<1> QED BY <1>3, <1>4

(* Aborting changes nothing of a check but its signal, and when only the   *)
(* active check was not aborted it leaves none that may publish.           *)
LEMMA AbortedFacts ==
  ASSUME checks \subseteq Checks, ChecksInv
  PROVE  /\ Aborted(checks) \subseteq Checks
         /\ \A c \in Aborted(checks) :
              /\ 0 < c.revision /\ c.revision <= revision
              /\ c.aborted
         /\ \A c, d \in Aborted(checks) : c.revision = d.revision => c = d
         /\ \A c \in Aborted(checks) :
              c.revision = revision => c.wallet = wallet /\ c.account = account
<1> DEFINE Ab(c) == [c EXCEPT !.aborted = @ \/ c.revision = activeCheck]
<1>1. ASSUME NEW c \in checks
      PROVE  /\ Ab(c) \in Checks
             /\ Ab(c).revision = c.revision
             /\ Ab(c).wallet = c.wallet /\ Ab(c).account = c.account
             /\ Ab(c).aborted
  <2>1. c \in Checks /\ (c.aborted \/ c.revision = activeCheck)
    BY DEF ChecksInv, Checks
  <2> QED BY <2>1 DEF Checks
<1>2. \A c \in Aborted(checks) : \E d \in checks : c = Ab(d)
  BY DEF Aborted
<1> HIDE DEF Ab
<1>3. ASSUME NEW c \in Aborted(checks)
      PROVE  /\ c \in Checks
             /\ 0 < c.revision /\ c.revision <= revision /\ c.aborted
             /\ c.revision = revision => c.wallet = wallet /\ c.account = account
  <2>1. PICK d \in checks : c = Ab(d)
    BY <1>2
  <2> QED BY <1>1, <2>1 DEF ChecksInv
<1>4. ASSUME NEW c \in Aborted(checks), NEW d \in Aborted(checks),
             c.revision = d.revision
      PROVE  c = d
  <2>1. PICK c0 \in checks : c = Ab(c0)
    BY <1>2
  <2>2. PICK d0 \in checks : d = Ab(d0)
    BY <1>2
  <2>3. c0.revision = d0.revision
    BY <1>1, <1>4, <2>1, <2>2
  <2>4. c0 = d0
    BY <2>3 DEF ChecksInv
  <2> QED BY <2>1, <2>2, <2>4
<1> QED BY <1>3, <1>4

-----------------------------------------------------------------------------
(***************************************************************************)
(* The invariant.                                                          *)
(***************************************************************************)
LEMMA InitIInv == Init => IInv
<1> SUFFICES ASSUME Init PROVE IInv
  OBVIOUS
<1>1. Plain("hydrating") \in Runtimes /\ Plain("hydrating").phase = "hydrating"
  BY DEF Plain, Runtimes
<1>2. TypeOK
  BY <1>1, ProvisionalFacts DEF Init, TypeOK
<1> QED BY <1>1, <1>2, ProvisionalFacts DEF Init, IInv, ChecksInv, ActiveInv, SnapshotInv

(* A change of candidates that asks a question, or has none to ask.        *)
LEMMA ReplaceIInv ==
  ASSUME IInv, NEW w \in Wallets \cup {None}, NEW a \in Accounts \cup {None},
         NEW reason \in Reasons, Replace(w, a, reason)
  PROVE  IInv'
<1> DEFINE rt  == RuntimeAfterChange(reason, w, a)
           new == [wallet |-> w, account |-> a, reason |-> reason,
                   revision |-> revision', aborted |-> FALSE]
<1>1. /\ wallet' = w /\ account' = a
      /\ revision \in Nat /\ revision' = revision + 1 /\ revision' \in Nat
      /\ disposed' = disposed /\ disposed \in BOOLEAN
  BY DEF Replace, IInv, TypeOK
<1>2. /\ rt \in Runtimes
      /\ rt.phase = "checking" <=> Both(w, a)
      /\ rt.phase = "ready" <=> ~Both(w, a)
  BY DEF RuntimeAfterChange, Runtimes, Checking, Plain
<1>3. snapshot' = Provisional(rt, w, a, revision')
  BY DEF Replace
<1>4. /\ snapshot' \in Snapshots
      /\ snapshot'.relation \notin {"bound", "conflict"}
      /\ (w # None <=> snapshot'.relation = "wallet_only")
      /\ (snapshot'.walletPresent <=> w # None)
      /\ snapshot'.runtime = rt
      /\ ~snapshot'.privateAccountAccess /\ ~snapshot'.quarantined
  BY <1>1, <1>2, <1>3, ProvisionalFacts
<1>5. /\ Aborted(checks) \subseteq Checks
      /\ \A c \in Aborted(checks) :
           0 < c.revision /\ c.revision <= revision /\ c.aborted
      /\ \A c, d \in Aborted(checks) : c.revision = d.revision => c = d
  BY AbortedFacts DEF IInv, TypeOK
<1>6. CASE Both(w, a)
  <2>1. new \in Checks
    BY <1>1, <1>6, NoneIsNoCandidate DEF Both, Checks
  <2>2. checks' = Aborted(checks) \cup {new} /\ activeCheck' = revision'
    BY <1>6 DEF Replace
  <2>3. TypeOK'
    BY <1>1, <1>4, <1>5, <2>1, <2>2 DEF TypeOK
  <2>4. ChecksInv'
    <3>1. \A c \in Checks : c.revision \in Nat
      BY DEF Checks
    <3>2. ASSUME NEW c \in checks', NEW d \in checks', c.revision = d.revision
          PROVE  c = d
      <4>1. new.revision = revision'
        OBVIOUS
      <4>2. ASSUME NEW e \in Aborted(checks) PROVE e.revision # new.revision
        <5>1. e.revision \in Nat /\ e.revision <= revision
          BY <1>5, <3>1
        <5> QED BY <1>1, <4>1, <5>1
      <4> QED BY <1>5, <2>2, <3>2, <4>2
    <3>3. ASSUME NEW c \in checks'
          PROVE  /\ 0 < c.revision /\ c.revision <= revision'
                 /\ c.revision = revision' => c.wallet = wallet' /\ c.account = account'
                 /\ ~c.aborted => c.revision = activeCheck'
      BY <1>1, <1>5, <2>2, <3>1, <3>3
    <3> QED BY <3>2, <3>3 DEF ChecksInv
  <2>5. ActiveInv'
    <3>1. new.revision = revision' /\ ~new.aborted /\ new \in checks'
      BY <2>2
    <3>2. \E c \in checks' : c.revision = revision' /\ ~c.aborted
      BY <3>1
    <3> QED BY <1>1, <1>4, <1>6, <2>2, <3>2 DEF ActiveInv, Both
  <2>6. SnapshotInv'
    BY <1>1, <1>2, <1>4, <1>6, <2>2 DEF SnapshotInv
  <2> QED BY <2>3, <2>4, <2>5, <2>6 DEF IInv
<1>7. CASE ~Both(w, a)
  <2>1. checks' = Aborted(checks) /\ activeCheck' = 0
    BY <1>7 DEF Replace
  <2>2. TypeOK'
    BY <1>1, <1>4, <1>5, <2>1 DEF TypeOK
  <2>3. ChecksInv'
    <3>1. \A c \in Checks : c.revision \in Nat
      BY DEF Checks
    <3> QED BY <1>1, <1>5, <2>1, <3>1 DEF ChecksInv
  <2>4. ActiveInv' /\ SnapshotInv'
    BY <1>1, <1>2, <1>4, <1>7, <2>1 DEF ActiveInv, SnapshotInv
  <2> QED BY <2>2, <2>3, <2>4 DEF IInv
<1> QED BY <1>6, <1>7

(* A change that asks nothing.                                             *)
LEMMA LockIInv ==
  ASSUME IInv, NEW w \in Wallets \cup {None}, NEW a \in Accounts \cup {None},
         NEW steps \in Nat \ {0}, Lock(w, a, steps)
  PROVE  IInv'
<1>1. /\ wallet' = w /\ account' = a
      /\ revision \in Nat /\ revision' = revision + steps /\ revision' \in Nat
      /\ disposed' = disposed /\ disposed \in BOOLEAN
      /\ checks' = Aborted(checks) /\ activeCheck' = 0
  BY DEF Lock, IInv, TypeOK
<1>2. Plain("hydrating") \in Runtimes /\ Plain("hydrating").phase = "hydrating"
  BY DEF Plain, Runtimes
<1>3. /\ snapshot' \in Snapshots
      /\ snapshot'.relation \notin {"bound", "conflict"}
      /\ (w # None <=> snapshot'.relation = "wallet_only")
      /\ (snapshot'.walletPresent <=> w # None)
      /\ snapshot'.runtime.phase = "hydrating"
      /\ ~snapshot'.privateAccountAccess /\ ~snapshot'.quarantined
  BY <1>1, <1>2, ProvisionalFacts DEF Lock
<1>4. /\ Aborted(checks) \subseteq Checks
      /\ \A c \in Aborted(checks) :
           0 < c.revision /\ c.revision <= revision /\ c.aborted
      /\ \A c, d \in Aborted(checks) : c.revision = d.revision => c = d
  BY AbortedFacts DEF IInv, TypeOK
<1>5. TypeOK'
  BY <1>1, <1>3, <1>4 DEF TypeOK
<1>6. ChecksInv'
  <2>1. \A c \in Checks : c.revision \in Nat
    BY DEF Checks
  <2> QED BY <1>1, <1>4, <2>1 DEF ChecksInv
<1>7. ActiveInv' /\ SnapshotInv'
  BY <1>1, <1>3 DEF ActiveInv, SnapshotInv
<1> QED BY <1>5, <1>6, <1>7 DEF IInv

LEMMA DisposeIInv == ASSUME IInv, Dispose PROVE IInv'
<1>1. /\ wallet' = wallet /\ account' = account /\ revision' = revision
      /\ snapshot' = snapshot /\ disposed' = TRUE
      /\ checks' = Aborted(checks) /\ activeCheck' = 0
  BY DEF Dispose
<1>2. /\ Aborted(checks) \subseteq Checks
      /\ \A c \in Aborted(checks) :
           0 < c.revision /\ c.revision <= revision /\ c.aborted
      /\ \A c, d \in Aborted(checks) : c.revision = d.revision => c = d
      /\ \A c \in Aborted(checks) :
           c.revision = revision => c.wallet = wallet /\ c.account = account
  BY AbortedFacts DEF IInv, TypeOK
<1>3. TypeOK'
  BY <1>1, <1>2 DEF IInv, TypeOK
<1>4. ChecksInv'
  BY <1>1, <1>2 DEF ChecksInv
<1>5. ActiveInv' /\ SnapshotInv'
  BY <1>1 DEF IInv, ActiveInv, SnapshotInv
<1> QED BY <1>3, <1>4, <1>5 DEF IInv

(* An answer is published only if its check is the active one; then no     *)
(* other check may publish.                                                *)
LEMMA AnswerIInv ==
  ASSUME IInv, NEW c \in checks, NEW answer \in Answers, Answer(c, answer)
  PROVE  IInv'
<1>1. /\ wallet' = wallet /\ account' = account /\ revision' = revision
      /\ disposed' = disposed /\ checks' = checks \ {c}
      /\ c \in Checks
  BY DEF Answer, Deliver, IInv, TypeOK
<1>2. CASE IsCurrentCheck(c)
  <2>1. /\ activeCheck' = 0 /\ snapshot' = Judged(c, answer)
        /\ c.revision = revision /\ activeCheck = revision
        /\ c.wallet = wallet /\ c.account = account
    BY <1>2 DEF Answer, Deliver, IsCurrentCheck, IInv, ChecksInv
  <2>2. /\ snapshot' \in Snapshots
        /\ answer \in Verdicts => snapshot'.relation = answer.is
        /\ answer \notin Verdicts => snapshot'.relation = "wallet_only"
        /\ snapshot'.runtime.phase # "checking"
        /\ snapshot'.runtime.phase = "ready" => answer \in Verdicts
        /\ snapshot'.walletPresent <=> c.wallet # None
        /\ snapshot'.privateAccountAccess <=> snapshot'.relation = "bound"
        /\ snapshot'.quarantined => snapshot'.relation = "conflict"
    BY <1>1, <2>1, JudgedFacts
  <2>3. TypeOK'
    BY <1>1, <2>1, <2>2 DEF IInv, TypeOK
  <2>4. ChecksInv'
    BY <1>1, <2>1 DEF IInv, ChecksInv
  <2>5. ActiveInv'
    BY <2>1 DEF ActiveInv
  <2>6. SnapshotInv'
    <3>1. c.wallet # None /\ c.account # None
      BY <1>1, NoneIsNoCandidate DEF Checks
    <3>2. answer \in Verdicts =>
            /\ (answer.is = "bound") = (<<wallet, account>> \in Bound)
            /\ answer.is \in {"bound", "conflict"}
      BY <2>1 DEF Answer, Deliver, MayAnswer, Verdicts
    <3> QED BY <1>1, <2>1, <2>2, <3>1, <3>2 DEF SnapshotInv
  <2> QED BY <2>3, <2>4, <2>5, <2>6 DEF IInv
<1>3. CASE ~IsCurrentCheck(c)
  <2>1. activeCheck' = activeCheck /\ snapshot' = snapshot
    BY <1>3 DEF Answer, Deliver
  <2>2. TypeOK'
    BY <1>1, <2>1 DEF IInv, TypeOK
  <2>3. ChecksInv'
    BY <1>1, <2>1 DEF IInv, ChecksInv
  <2>4. ActiveInv'
    BY <1>1, <1>3, <2>1 DEF IInv, ActiveInv, IsCurrentCheck
  <2>5. SnapshotInv'
    BY <1>1, <2>1 DEF IInv, SnapshotInv
  <2> QED BY <2>2, <2>3, <2>4, <2>5 DEF IInv
<1> QED BY <1>2, <1>3

(* What a turn of a caller does to the controller.  The methods are of     *)
(* these forms, and a caller whose turn makes several calls is left with   *)
(* one of them.                                                            *)
Replaces == \E w \in Wallets \cup {None}, a \in Accounts \cup {None}, reason \in Reasons :
              Replace(w, a, reason)
Locks == \E w \in Wallets \cup {None}, a \in Accounts \cup {None}, steps \in Nat \ {0} :
           Lock(w, a, steps)
Answered == \E c \in checks, answer \in Answers : Answer(c, answer)

Turn == Replaces \/ Locks \/ Dispose \/ Answered \/ UNCHANGED vars

LEMMA NextIsTurn == IInv /\ [Next]_vars => Turn
<1> SUFFICES ASSUME IInv, [Next]_vars PROVE Turn
  OBVIOUS
<1>1. wallet \in Wallets \cup {None} /\ account \in Accounts \cup {None}
  BY DEF IInv, TypeOK
<1>2. {"restore", "wallet_change", "account_change", "retry"} = Reasons
  BY DEF Reasons
<1>3. ASSUME NEW w \in Wallets \cup {None}, NEW a \in Accounts \cup {None}, Restore(w, a)
      PROVE  Turn
  BY <1>2, <1>3 DEF Restore, Turn, Replaces
<1>4. ASSUME NEW w \in Wallets \cup {None}, SetWallet(w) PROVE Turn
  BY <1>1, <1>2, <1>4 DEF SetWallet, Turn, Replaces
<1>5. ASSUME NEW a \in Accounts \cup {None}, SetAccount(a) PROVE Turn
  BY <1>1, <1>2, <1>5 DEF SetAccount, Turn, Replaces
<1>6. CASE Retry
  BY <1>1, <1>2, <1>6 DEF Retry, Turn, Replaces
<1>7. CASE BeginRestore
  BY <1>1, <1>7 DEF BeginRestore, Turn, Locks
<1> QED BY <1>3, <1>4, <1>5, <1>6, <1>7 DEF Next, Turn, Answered

LEMMA TurnIInv == IInv /\ Turn => IInv'
<1> SUFFICES ASSUME IInv, Turn PROVE IInv'
  OBVIOUS
<1>1. CASE Replaces
  BY <1>1, ReplaceIInv DEF Replaces
<1>2. CASE Locks
  BY <1>2, LockIInv DEF Locks
<1>3. CASE Dispose
  BY <1>3, DisposeIInv
<1>4. CASE Answered
  BY <1>4, AnswerIInv DEF Answered
<1>5. CASE UNCHANGED vars
  BY <1>5 DEF vars, IInv, TypeOK, ChecksInv, ActiveInv, SnapshotInv
<1> QED BY <1>1, <1>2, <1>3, <1>4, <1>5 DEF Turn

LEMMA IInvHolds == Spec => []IInv
BY InitIInv, NextIsTurn, TurnIInv, PTL DEF Spec

-----------------------------------------------------------------------------
(***************************************************************************)
(* What follows.                                                           *)
(***************************************************************************)

(* Every variable keeps its type.                                          *)
THEOREM TypeCorrect == Spec => []TypeOK
<1>1. IInv => TypeOK
  BY DEF IInv
<1> QED BY <1>1, IInvHolds, PTL

(* Account data is open only for a pair the API binds, and only a pair it  *)
(* does not bind is quarantined, in whatever order candidates change and   *)
(* answers arrive.                                                         *)
THEOREM AccessIsForBoundPair == Spec => []AccessOnlyForBoundPair
<1>1. IInv => AccessOnlyForBoundPair
  BY DEF IInv, SnapshotInv, AccessOnlyForBoundPair, Both
<1> QED BY <1>1, IInvHolds, PTL

(* "checking" is never shown without a check in flight that may end it.    *)
THEOREM CheckingIsAlive == Spec => []CheckingHasACheck
<1>1. IInv => CheckingHasACheck
  BY DEF IInv, TypeOK, ActiveInv, ChecksInv, SnapshotInv, CheckingHasACheck, IsCurrentCheck
<1> QED BY <1>1, IInvHolds, PTL

(* A turn that opens account data is the answer of an unaborted check of   *)
(* the current revision and pair, and one that changes the revision closes *)
(* it.                                                                     *)
Opens == ~snapshot.privateAccountAccess /\ snapshot'.privateAccountAccess
Fresh == \E c \in checks \ checks' :
           /\ c.revision = revision
           /\ ~c.aborted
           /\ c.wallet = wallet /\ c.account = account
Closed == ~snapshot'.privateAccountAccess /\ ~snapshot'.quarantined

FreshTurn == (Opens => Fresh) /\ (revision' # revision => Closed)

LEMMA TurnIsFresh == IInv /\ Turn => FreshTurn
<1> SUFFICES ASSUME IInv, Turn PROVE FreshTurn
  OBVIOUS
<1>1. revision \in Nat
  BY DEF IInv, TypeOK
<1>2. ASSUME NEW w, NEW a, NEW reason \in Reasons, Replace(w, a, reason)
      PROVE  FreshTurn
  <2>1. RuntimeAfterChange(reason, w, a) \in Runtimes
    BY DEF RuntimeAfterChange, Runtimes, Checking, Plain
  <2>2. revision' \in Nat
    BY <1>1, <1>2 DEF Replace
  <2> QED BY <1>2, <2>1, <2>2, ProvisionalFacts DEF Replace, FreshTurn, Opens, Closed
<1>3. ASSUME NEW w, NEW a, NEW steps \in Nat, Lock(w, a, steps)
      PROVE  FreshTurn
  <2>1. Plain("hydrating") \in Runtimes
    BY DEF Runtimes, Plain
  <2>2. revision' \in Nat
    BY <1>1, <1>3 DEF Lock
  <2> QED BY <1>3, <2>1, <2>2, ProvisionalFacts DEF Lock, FreshTurn, Opens, Closed
<1>4. ASSUME NEW c \in checks, NEW answer \in Answers, Answer(c, answer)
      PROVE  FreshTurn
  <2>1. revision' = revision /\ c \in checks \ checks'
    BY <1>4 DEF Answer, Deliver
  <2>2. CASE IsCurrentCheck(c)
    BY <2>1, <2>2 DEF IsCurrentCheck, IInv, ChecksInv, FreshTurn, Fresh
  <2>3. CASE ~IsCurrentCheck(c)
    BY <1>4, <2>1, <2>3 DEF Answer, Deliver, FreshTurn, Opens
  <2> QED BY <2>2, <2>3
<1>5. CASE Dispose \/ UNCHANGED vars
  BY <1>5 DEF Dispose, vars, FreshTurn, Opens
<1> QED BY <1>2, <1>3, <1>4, <1>5 DEF Turn, Replaces, Locks, Answered

(* Every step of the controller is such a turn.                            *)
THEOREM AccessIsFresh == Spec => AccessNeedsFreshCheck
<1>1. IInv /\ [Next]_vars => [FreshTurn]_vars
  BY NextIsTurn, TurnIsFresh
<1> QED
  BY <1>1, IInvHolds, PTL
  DEF Spec, AccessNeedsFreshCheck, FreshTurn, Opens, Fresh, Closed

-----------------------------------------------------------------------------
(***************************************************************************)
(* The controller implements its promise.                                  *)
(***************************************************************************)

(* The verdict under the refinement mapping.                               *)
Shown == IF snapshot.relation \in {"bound", "conflict"}
           THEN snapshot.relation ELSE "provisional"

PromiseStep == [Promise!Next]_<<wallet, account, activeCheck # 0, Shown>>

(* Changes of the pair and locks are changes of the promise; an answer is  *)
(* a verdict, none, or, if its check is not current, nothing.              *)
LEMMA TurnIsPromised == IInv /\ IInv' /\ Turn => PromiseStep
<1> SUFFICES ASSUME IInv, IInv', Turn PROVE PromiseStep
  OBVIOUS
<1>1. /\ wallet' \in Wallets \cup {None} /\ account' \in Accounts \cup {None}
      /\ wallet \in Wallets \cup {None} /\ account \in Accounts \cup {None}
      /\ activeCheck' # 0 => wallet' # None /\ account' # None
  BY DEF IInv, TypeOK, ActiveInv
<1>2. ASSUME NEW w, NEW a, NEW reason \in Reasons, Replace(w, a, reason)
      PROVE  PromiseStep
  <2>1. RuntimeAfterChange(reason, w, a) \in Runtimes
    BY DEF RuntimeAfterChange, Runtimes, Checking, Plain
  <2>2. revision' \in Nat
    BY DEF IInv, TypeOK
  <2>3. Shown' = "provisional"
    BY <1>2, <2>1, <2>2, ProvisionalFacts DEF Replace, Shown
  <2>4. Promise!Change
    BY <1>1, <2>3 DEF Promise!Change, Shown
  <2> QED BY <2>4 DEF Promise!Next, PromiseStep
<1>3. ASSUME NEW w, NEW a, NEW steps \in Nat, Lock(w, a, steps)
      PROVE  PromiseStep
  <2>1. Plain("hydrating") \in Runtimes
    BY DEF Runtimes, Plain
  <2>2. revision' \in Nat
    BY DEF IInv, TypeOK
  <2>3. Shown' = "provisional"
    BY <1>3, <2>1, <2>2, ProvisionalFacts DEF Lock, Shown
  <2>4. Promise!Change
    BY <1>1, <2>3 DEF Promise!Change, Shown
  <2> QED BY <2>4 DEF Promise!Next, PromiseStep
<1>4. CASE Dispose
  <2>1. Shown' = Shown /\ activeCheck' = 0 /\ UNCHANGED <<wallet, account>>
    BY <1>4 DEF Dispose, Shown
  <2>2. CASE activeCheck = 0
    BY <2>1, <2>2 DEF PromiseStep
  <2>3. CASE activeCheck # 0
    BY <2>1, <2>3 DEF Promise!Next, Promise!NoVerdict, PromiseStep, Shown
  <2> QED BY <2>2, <2>3
<1>5. ASSUME NEW c \in checks, NEW answer \in Answers, Answer(c, answer)
      PROVE  PromiseStep
  <2>1. UNCHANGED <<wallet, account>> /\ c \in Checks
    BY <1>5 DEF Answer, Deliver, IInv, TypeOK
  <2>2. CASE IsCurrentCheck(c)
    <3>1. /\ activeCheck' = 0 /\ activeCheck # 0
          /\ snapshot' = Judged(c, answer)
          /\ c.wallet = wallet /\ c.account = account
          /\ Shown = "provisional"
      BY <1>5, <2>2 DEF Answer, Deliver, IsCurrentCheck, IInv, ChecksInv, ActiveInv, TypeOK, Shown
    <3>2. CASE answer \in Verdicts
      <4>1. snapshot'.relation = answer.is /\ answer.is \in {"bound", "conflict"}
        BY <2>1, <3>1, <3>2, JudgedFacts DEF Verdicts
      <4>2. Shown' = IF <<wallet, account>> \in Bound THEN "bound" ELSE "conflict"
        BY <1>5, <3>1, <3>2, <4>1 DEF Answer, Deliver, MayAnswer, Shown
      <4>3. Promise!Verdict
        BY <2>1, <3>1, <4>2 DEF Promise!Verdict, Shown
      <4> QED BY <4>3 DEF Promise!Next, PromiseStep
    <3>3. CASE answer \notin Verdicts
      <4>1. Shown' = "provisional"
        BY <2>1, <3>1, <3>3, JudgedFacts DEF Shown
      <4>2. Promise!NoVerdict
        BY <2>1, <3>1, <4>1 DEF Promise!NoVerdict, Shown
      <4> QED BY <4>2 DEF Promise!Next, PromiseStep
    <3> QED BY <3>2, <3>3
  <2>3. CASE ~IsCurrentCheck(c)
    BY <1>5, <2>1, <2>3 DEF Answer, Deliver, PromiseStep, Shown
  <2> QED BY <2>2, <2>3
<1>6. CASE UNCHANGED vars
  BY <1>6 DEF vars, PromiseStep, Shown
<1> QED BY <1>2, <1>3, <1>4, <1>5, <1>6 DEF Turn, Replaces, Locks, Answered

LEMMA PromiseBegins == Init => Promise!Init
<1>1. Plain("hydrating") \in Runtimes
  BY DEF Plain, Runtimes
<1> QED BY <1>1, ProvisionalFacts DEF Init, Promise!Init

(* Under the refinement mapping the controller behaves as RelationPromise. *)
THEOREM Implements == Spec => KeepsPromise
<1>1. IInv /\ IInv' /\ [Next]_vars => PromiseStep
  BY NextIsTurn, TurnIsPromised
<1> QED
  BY <1>1, PromiseBegins, IInvHolds, PTL
  DEF Spec, KeepsPromise, Promise!Spec, Promise!promise, PromiseStep, Shown
=============================================================================
