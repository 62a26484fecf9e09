--------------------- MODULE IdentityCoordinator_proofs ---------------------
(***************************************************************************)
(* Proofs about the identity coordinator of one tab, for any tabs, Wallets,*)
(* tokens and account subjects, and whatever storage, the host and the API *)
(* do.  What is proved of the relation controller and of the Wallet store  *)
(* on their own is used here, for the instances the coordinator holds.     *)
(*                                                                         *)
(* The second half is about the page that operates it (ConnectFlow.tla):   *)
(* its steps are the coordinator's calls, so that its invariant stands on  *)
(* the coordinator's.                                                      *)
(***************************************************************************)
EXTENDS ConnectFlow, TLAPS

CP == INSTANCE RelationController_proofs WITH VerifierObeysAbort <- TRUE
SP == INSTANCE WalletStore_proofs WITH WritesMayFail <- FALSE, RollbackMayFail <- FALSE

(***************************************************************************)
(* The inductive invariant.                                                *)
(***************************************************************************)

(* The Wallet this tab last observed; storage may have moved on.           *)
Own == observed[here]

(* The coordinator was told, or asked, of all that Own stands for.         *)
Known == started /\ ~disposed /\ here \notin raced /\ ~ahead

OwnProofKnown == Own # None => Own.handle \notin proofNews

OwnLive == proof[Own.handle] = "live"
OwnExpired == proof[Own.handle] = "expired"

Watching(due) == timer = [handle |-> Own.handle, due |-> due]

SessionTypeOK ==
  /\ proof \in [Handles -> ProofStates]
  /\ proofNews \subseteq Handles
  /\ timer \in Timers \cup {None}
  /\ started \in BOOLEAN /\ accountLoading \in BOOLEAN /\ initialized \in BOOLEAN
  /\ invalidatedAccountSubject \in AccountSubjects \cup {None}
  /\ allowedAccountAccessToken \in TokensOrNone
  /\ ahead \in BOOLEAN /\ retried \in BOOLEAN
  /\ ended \subseteq Tokens

StartedInv ==
  /\ initialized => started
  /\ ~started => wallet = None /\ ~accountLoading
  /\ started /\ ~disposed => here \in subscribed

(* A live proof of the observed Wallet is watched.                         *)
TimerInv == Known /\ OwnProofKnown /\ Own # None /\ OwnLive => Watching(FALSE)

(* The candidate, once there is one, is the observed Wallet, whatever      *)
(* storage holds by now, with its proof; one that has expired since is     *)
(* watched and due.                                                        *)
CandidateInv ==
  Known /\ OwnProofKnown =>
    /\ initialized /\ Own # None => wallet # None
    /\ wallet # None =>
         /\ Own # None /\ wallet.handle = Own.handle
         /\ OwnExpired \/ (wallet.proof <=> OwnLive /\ Own.facts \in Facts)
         /\ wallet.proof /\ OwnExpired => Watching(TRUE)

SubjectInv == invalidatedAccountSubject # None => SubjectOfAccount # invalidatedAccountSubject

(* What keeps account data closed while the host loads and retry() did not *)
(* ask: no question is open, or only one that the resolver answers without *)
(* a verdict.                                                              *)
LoadingInv ==
  Known /\ OwnProofKnown /\ accountLoading /\ ~retried =>
    /\ ~snapshot.privateAccountAccess
    /\ activeCheck # 0 => ~wallet.proof

IInv ==
  /\ CP!IInv /\ SP!IInv /\ SessionTypeOK /\ StartedInv
  /\ TimerInv /\ CandidateInv /\ SubjectInv /\ HydratingOnlyWhileLoading /\ LoadingInv

-----------------------------------------------------------------------------
(***************************************************************************)
(* The instances meet the assumptions of their modules.                    *)
(***************************************************************************)
LEMMA ControllerAssumptions ==
  /\ CP!NoneIsNoCandidate /\ CP!BoundIsARelation
  /\ CP!VerifierObeysAbortIsBoolean /\ CP!MaxRevisionIsNat
BY NoneIsNoValue, MaxRevisionIsNat
DEF CP!NoneIsNoCandidate, CP!BoundIsARelation, CP!VerifierObeysAbortIsBoolean,
    CP!MaxRevisionIsNat, Accounts, Bound

LEMMA StoreAssumptions == SP!FactsAreDistinct /\ SP!FaultsAreBoolean
BY FactsAreDistinct DEF SP!FactsAreDistinct, SP!FaultsAreBoolean

(***************************************************************************)
(* The steps of the controller and of the store are those of the modules   *)
(* about which their invariants are proved.                                *)
(***************************************************************************)
LEMMA SameReplace ==
  ASSUME NEW w, NEW a, NEW reason, Controller!Replace(w, a, reason)
  PROVE  CP!Replace(w, a, reason)
BY DEF Controller!Replace, Controller!Provisional, Controller!RuntimeAfterChange,
       Controller!Both, Controller!Aborted, Controller!FrozenSnapshot,
       Controller!ProvisionalRelation, Controller!Checking, Controller!Plain,
       CP!Replace, CP!Provisional, CP!RuntimeAfterChange, CP!Both, CP!Aborted,
       CP!FrozenSnapshot, CP!ProvisionalRelation, CP!Checking, CP!Plain

LEMMA SameLock ==
  ASSUME NEW w, NEW a, NEW steps, Controller!Lock(w, a, steps)
  PROVE  CP!Lock(w, a, steps)
BY DEF Controller!Lock, Controller!Provisional, Controller!Aborted, Controller!FrozenSnapshot,
       Controller!ProvisionalRelation, Controller!Plain,
       CP!Lock, CP!Provisional, CP!Aborted, CP!FrozenSnapshot, CP!ProvisionalRelation, CP!Plain

LEMMA SameDispose == ASSUME Controller!Dispose PROVE CP!Dispose
BY DEF Controller!Dispose, Controller!Aborted, CP!Dispose, CP!Aborted

LEMMA SameCurrent ==
  ASSUME NEW c
  PROVE  Controller!IsCurrentCheck(c) <=> CP!IsCurrentCheck(c)
BY DEF Controller!IsCurrentCheck, CP!IsCurrentCheck

LEMMA SameDeliver ==
  ASSUME NEW c, NEW answer, Controller!Deliver(c, answer)
  PROVE  CP!Deliver(c, answer)
BY DEF Controller!Deliver, Controller!IsCurrentCheck, Controller!Judged,
       Controller!FrozenSnapshot, Controller!FailureRuntime, Controller!Verdicts, Controller!Plain,
       CP!Deliver, CP!IsCurrentCheck, CP!Judged, CP!FrozenSnapshot, CP!FailureRuntime,
       CP!Verdicts, CP!Plain

LEMMA SameControllerTypes == ASSUME CP!TypeOK PROVE Controller!TypeOK
BY DEF CP!TypeOK, CP!Checks, CP!Snapshots, CP!Relations, CP!Runtimes, CP!Subjects, CP!Reasons,
       Controller!TypeOK, Controller!Checks, Controller!Snapshots, Controller!Relations,
       Controller!Runtimes, Controller!Subjects, Controller!Reasons

LEMMA SameStoreTypes == ASSUME SP!TypeOK PROVE Store!TypeOK
BY DEF SP!TypeOK, SP!Rows, SP!StoredWallets, SP!Events,
       Store!TypeOK, Store!Rows, Store!StoredWallets, Store!Events

LEMMA SameActivate ==
  ASSUME NEW t, NEW h, NEW f, Store!Activate(t, h, f)
  PROVE  SP!Activate(t, h, f)
BY DEF Store!Activate, Store!Merged, Store!Emit, Store!ActiveWallet, Store!WalletForHandle,
       Store!InvalidatesAccountBinding, Store!OthersWillHear, Store!NothingWritten,
       Store!RolledBack, Store!Silent, Store!storage,
       SP!Activate, SP!Merged, SP!Emit, SP!ActiveWallet, SP!WalletForHandle,
       SP!InvalidatesAccountBinding, SP!OthersWillHear, SP!NothingWritten,
       SP!RolledBack, SP!Silent, SP!storage

LEMMA SameRemove ==
  ASSUME NEW t, NEW h, Store!Remove(t, h)
  PROVE  SP!Remove(t, h)
BY DEF Store!Remove, Store!Emit, Store!ActiveWallet, Store!WalletForHandle,
       Store!InvalidatesAccountBinding, Store!OthersWillHear, Store!NothingWritten,
       Store!RolledBack, Store!Silent, Store!storage,
       SP!Remove, SP!Emit, SP!ActiveWallet, SP!WalletForHandle,
       SP!InvalidatesAccountBinding, SP!OthersWillHear, SP!NothingWritten,
       SP!RolledBack, SP!Silent, SP!storage

LEMMA SameDisconnect ==
  ASSUME NEW t, Store!Disconnect(t)
  PROVE  SP!Disconnect(t)
BY DEF Store!Disconnect, Store!Emit, Store!ActiveWallet, Store!WalletForHandle,
       Store!InvalidatesAccountBinding, Store!OthersWillHear, Store!NothingWritten,
       Store!Silent, Store!storage,
       SP!Disconnect, SP!Emit, SP!ActiveWallet, SP!WalletForHandle,
       SP!InvalidatesAccountBinding, SP!OthersWillHear, SP!NothingWritten,
       SP!Silent, SP!storage

LEMMA SameSubscribe ==
  ASSUME NEW t, Store!Subscribe(t)
  PROVE  SP!Subscribe(t)
BY DEF Store!Subscribe, Store!ActiveWallet, Store!WalletForHandle, Store!storage,
       SP!Subscribe, SP!ActiveWallet, SP!WalletForHandle, SP!storage

LEMMA SameStorageEvent ==
  ASSUME NEW t, Store!StorageEvent(t)
  PROVE  SP!StorageEvent(t)
BY DEF Store!StorageEvent, Store!Emit, Store!ActiveWallet, Store!WalletForHandle,
       Store!InvalidatesAccountBinding, Store!Silent, Store!storage,
       SP!StorageEvent, SP!Emit, SP!ActiveWallet, SP!WalletForHandle,
       SP!InvalidatesAccountBinding, SP!Silent, SP!storage

-----------------------------------------------------------------------------
(***************************************************************************)
(* What the steps of the store do.                                         *)
(***************************************************************************)
WalletChange(t) ==
  \/ \E h \in Handles, f \in Facts : Store!Activate(t, h, f)
  \/ \E h \in Handles : Store!Switch(t, h)
  \/ \E h \in Handles : Store!Remove(t, h)
  \/ Store!Disconnect(t)

LEMMA WalletChangeIsMutation ==
  ASSUME SP!TypeOK, NEW t, WalletChange(t)
  PROVE  SP!Mutation(t)
<1>1. ASSUME NEW h \in Handles, NEW f \in Facts, Store!Activate(t, h, f) PROVE SP!Mutation(t)
  BY <1>1, SameActivate DEF SP!Mutation
<1>2. ASSUME NEW h \in Handles, Store!Switch(t, h) PROVE SP!Mutation(t)
  BY <1>2, SameActivate DEF Store!Switch, SP!Switch, SP!Mutation
<1>3. ASSUME NEW h \in Handles, Store!Remove(t, h) PROVE SP!Mutation(t)
  BY <1>3, SameRemove DEF SP!Mutation
<1>4. CASE Store!Disconnect(t)
  BY <1>4, SameDisconnect DEF SP!Mutation
<1> QED BY <1>1, <1>2, <1>3, <1>4 DEF WalletChange

(* The active Wallet, in the terms of this module.                         *)
Active == SP!ActiveWallet

(* A mutation tells the tab's subscribers what is active now.  If it does  *)
(* not invalidate, the tab had observed that, or counts as raced.          *)
Tells(t) ==
  /\ event' # None /\ event'.tab = t
  /\ event'.invalidates <=> Active' # Active
  /\ observed'[t] = Active'
  /\ Active' # Active => raced' = raced \ {t}
  /\ Active' = Active => IF t \in news THEN t \in raced' ELSE raced' = raced
  /\ \A u \in Tabs \ {t} : observed'[u] = observed[u] /\ (u \in raced' <=> u \in raced)
  /\ subscribed' = subscribed
  /\ t \notin news => t \notin news'

LEMMA MutationTells ==
  ASSUME SP!TypeOK, NEW t \in Tabs, SP!Mutation(t)
  PROVE  Tells(t)
<1>1. PICK rows \in [Handles -> SP!Rows], active \in Handles \cup {None} :
        SP!Written(t, rows, active)
  <2>1. ~SP!NothingWritten /\ \A rows : ~SP!RolledBack(t, rows)
    BY DEF SP!NothingWritten, SP!RolledBack
  <2> QED BY <2>1, SP!MutationForm, StoreAssumptions
<1> DEFINE now == SP!WalletForHandle(active, rows)
<1>2. Active' = now
  BY <1>1 DEF SP!Written, SP!ActiveWallet, Active
<1>3. now \in SP!StoredWallets \cup {None}
  BY SP!WalletForHandleType, StoreAssumptions
<1> HIDE DEF now
<1>4. /\ SP!Emit(t, Active, now, t \in news) /\ subscribed' = subscribed
      /\ news' = news \cup (Tabs \ {t})
  BY <1>1 DEF SP!Written, SP!OthersWillHear, Active, now
<1>5. observed' = [observed EXCEPT ![t] = now]
  BY <1>4 DEF SP!Emit
<1>6. event' = [tab |-> t, active |-> now, invalidates |-> Active # now]
  BY <1>4 DEF SP!Emit, SP!InvalidatesAccountBinding
<1>7. event' \in Store!Events
  BY <1>3, <1>6 DEF Store!Events, Store!StoredWallets, SP!StoredWallets
<1>8. event' # None /\ event'.tab = t /\ (event'.invalidates <=> Active' # Active)
  BY <1>2, <1>6, <1>7, NoneIsNoValue
<1>9. /\ Active' # Active => raced' = raced \ {t}
      /\ Active' = Active => raced' = IF t \in news THEN raced \cup {t} ELSE raced
  BY <1>2, <1>4 DEF SP!Emit, SP!InvalidatesAccountBinding
<1> QED BY <1>2, <1>4, <1>5, <1>8, <1>9 DEF Tells, SP!TypeOK

LEMMA StoreSteps ==
  ASSUME SP!IInv,
         \/ \E t \in Tabs : SP!Mutation(t) \/ SP!Subscribe(t) \/ SP!StorageEvent(t)
  PROVE  SP!IInv'
<1>1. SP!Next
  BY DEF SP!Next
<1> QED BY <1>1, SP!NextIInv, StoreAssumptions

(* A turn in which the store neither changes nor hears; and disposal.      *)
LEMMA SilentSteps ==
  ASSUME SP!IInv, Store!Silent, done' = TRUE,
         UNCHANGED <<activeHandle, roster, news>>, subscribed' \subseteq subscribed
  PROVE  SP!IInv' /\ Active' = Active
<1>1. SP!TypeOK'
  BY DEF SP!IInv, SP!TypeOK, Store!Silent
<1>2. Active' = Active
  BY DEF Active, SP!ActiveWallet
<1>3. SP!ObservedIsStored'
  BY <1>2 DEF SP!IInv, SP!ObservedIsStored, SP!Quiet, Store!Silent, Active
<1>4. SP!BelievedInv'
  BY DEF SP!IInv, SP!BelievedInv, Store!Silent
<1> QED BY <1>1, <1>2, <1>3, <1>4 DEF SP!IInv

-----------------------------------------------------------------------------
(***************************************************************************)
(* What the steps of the controller do.                                    *)
(***************************************************************************)
Candidates == Wallets \cup {None}

LEMMA ControllerSteps ==
  ASSUME CP!IInv,
         CP!Replaces \/ CP!Locks \/ CP!Dispose \/ CP!Answered \/ UNCHANGED controllerVars
  PROVE  CP!IInv' /\ CP!Turn
<1>1. CP!Turn
  BY DEF CP!Turn, CP!vars, controllerVars
<1> QED BY <1>1, CP!TurnIInv, ControllerAssumptions

LEMMA ReasonsAre ==
  {"restore", "wallet_change", "account_change", "retry"} = CP!Reasons
BY DEF CP!Reasons

(* A change that asks leaves the "hydrating" phase.                        *)
LEMMA ReplaceShows ==
  ASSUME CP!IInv, NEW w, NEW a, NEW reason \in CP!Reasons, CP!Replace(w, a, reason)
  PROVE  /\ wallet' = w /\ account' = a /\ disposed' = disposed
         /\ snapshot'.runtime.phase # "hydrating"
         /\ ~snapshot'.privateAccountAccess
         /\ activeCheck' # 0 => w # None /\ a # None
<1>1. /\ CP!RuntimeAfterChange(reason, w, a) \in CP!Runtimes
      /\ CP!RuntimeAfterChange(reason, w, a).phase # "hydrating"
  BY DEF CP!RuntimeAfterChange, CP!Runtimes, CP!Checking, CP!Plain
<1>2. revision' \in Nat
  BY DEF CP!Replace, CP!IInv, CP!TypeOK
<1>3. snapshot' = CP!Provisional(CP!RuntimeAfterChange(reason, w, a), w, a, revision')
  BY DEF CP!Replace
<1>4. snapshot'.runtime.phase # "hydrating" /\ ~snapshot'.privateAccountAccess
  BY <1>1, <1>2, <1>3, CP!ProvisionalFacts, ControllerAssumptions
<1> QED BY <1>4 DEF CP!Replace, CP!Both

LEMMA LockShows ==
  ASSUME CP!IInv, NEW w, NEW a, NEW steps \in Nat, CP!Lock(w, a, steps)
  PROVE  /\ wallet' = w /\ account' = a /\ disposed' = disposed
         /\ ~snapshot'.privateAccountAccess
         /\ activeCheck' = 0
<1>1. CP!Plain("hydrating") \in CP!Runtimes
  BY DEF CP!Runtimes, CP!Plain
<1>2. revision' \in Nat
  BY DEF CP!Lock, CP!IInv, CP!TypeOK
<1>3. ~snapshot'.privateAccountAccess
  BY <1>1, <1>2, CP!ProvisionalFacts, ControllerAssumptions DEF CP!Lock
<1> QED BY <1>3 DEF CP!Lock

-----------------------------------------------------------------------------
(***************************************************************************)
(* What a turn leaves of the candidate and the timer.                      *)
(***************************************************************************)
ProofMaps == [Handles -> ProofStates]

LEMMA AfterLoadType ==
  ASSUME NEW proofs \in ProofMaps, NEW h
  PROVE  /\ AfterLoad(proofs, h) \in ProofMaps
         /\ h \in Handles => AfterLoad(proofs, h)[h] # "expired"
         /\ \A k \in Handles : AfterLoad(proofs, h)[k] # proofs[k] =>
              k = h /\ proofs[k] = "expired" /\ AfterLoad(proofs, h)[k] = "none"
         /\ AfterLoad(proofs, h) # proofs => h \in Handles /\ proofs[h] = "expired"
BY DEF AfterLoad, ProofMaps, ProofStates

LEMMA CurrentTypes ==
  ASSUME activeHandle' \in Handles \cup {None}
  PROVE  CurrentWallet' \in Candidates /\ Scheduled' \in Timers \cup {None}
<1>1. CASE activeHandle' = None
  BY <1>1 DEF CurrentWallet, Scheduled, Candidates
<1>2. CASE activeHandle' \in Handles
  <2>1. CurrentWallet' \in Candidates
    BY <1>2 DEF CurrentWallet, Candidates, Wallets
  <2>2. Scheduled' \in Timers \cup {None}
    BY <1>2 DEF Scheduled, Timers
  <2> QED BY <2>1, <2>2
<1> QED BY <1>1, <1>2

(* A notice that concerns the active Wallet makes the coordinator read it  *)
(* and its proof again, and either lock or ask.                            *)
Reread(written) ==
  /\ proof' = AfterLoad(written, activeHandle') /\ timer' = Scheduled'
  /\ wallet' = CurrentWallet' /\ account' \in {account, None} /\ disposed' = disposed
  /\ IF accountLoading THEN ~snapshot'.privateAccountAccess /\ activeCheck' = 0
                       ELSE snapshot'.runtime.phase # "hydrating"

(* A turn that leaves alone whatever the invariants speak of.              *)
Left ==
  Known' /\ OwnProofKnown' =>
    /\ Known /\ OwnProofKnown
    /\ Own' = Own /\ wallet' = wallet /\ timer' = timer /\ initialized' = initialized
    /\ Own # None => proof'[Own.handle] = proof[Own.handle]

LEMMA LeftKeeps ==
  ASSUME TimerInv, CandidateInv, Left
  PROVE  TimerInv' /\ CandidateInv'
<1>1. TimerInv'
  BY DEF TimerInv, Left, OwnLive, Watching
<1>2. CandidateInv'
  BY DEF CandidateInv, Left, OwnLive, OwnExpired, Watching
<1> QED BY <1>1, <1>2

(* The active Wallet and the candidate it gives, taken apart.              *)
ActiveParts ==
  /\ Active = None <=> activeHandle = None
  /\ activeHandle # None =>
       /\ Active.handle = activeHandle /\ activeHandle \in Handles
       /\ Active.facts \in Facts <=> roster[activeHandle] \in Facts

CurrentParts ==
  /\ CurrentWallet = None <=> activeHandle = None
  /\ activeHandle # None =>
       /\ CurrentWallet.handle = activeHandle
       /\ CurrentWallet.proof
            <=> proof[activeHandle] = "live" /\ roster[activeHandle] \in Facts

LEMMA ActiveHasParts == SP!TypeOK => ActiveParts
<1> SUFFICES ASSUME SP!TypeOK PROVE ActiveParts
  OBVIOUS
<1>1. CASE activeHandle = None
  BY <1>1 DEF ActiveParts, Active, SP!ActiveWallet, SP!WalletForHandle
<1>2. CASE activeHandle \in Handles /\ activeHandle # None
  <2> DEFINE f == IF roster[activeHandle] = NoRow THEN NoFacts ELSE roster[activeHandle]
  <2>1. Active = [handle |-> activeHandle, facts |-> f]
    BY <1>2 DEF Active, SP!ActiveWallet, SP!WalletForHandle
  <2>2. f \in Facts \cup {NoFacts} /\ (f \in Facts <=> roster[activeHandle] \in Facts)
    BY <1>2, FactsAreDistinct DEF SP!TypeOK, SP!Rows
  <2> HIDE DEF f
  <2>3. Active \in Store!StoredWallets
    BY <1>2, <2>1, <2>2 DEF Store!StoredWallets
  <2> QED BY <1>2, <2>1, <2>2, <2>3, NoneIsNoValue DEF ActiveParts
<1> QED BY <1>1, <1>2 DEF SP!TypeOK

LEMMA CurrentHasParts == SP!TypeOK => CurrentParts
<1> SUFFICES ASSUME SP!TypeOK PROVE CurrentParts
  OBVIOUS
<1>1. CASE activeHandle = None
  BY <1>1 DEF CurrentParts, CurrentWallet
<1>2. CASE activeHandle \in Handles /\ activeHandle # None
  <2> DEFINE b == proof[activeHandle] = "live" /\ roster[activeHandle] \in Facts
  <2>1. CurrentWallet = [handle |-> activeHandle, proof |-> b]
    BY <1>2 DEF CurrentWallet
  <2>2. b \in BOOLEAN
    OBVIOUS
  <2> HIDE DEF b
  <2>3. CurrentWallet \in Wallets
    BY <1>2, <2>1, <2>2 DEF Wallets
  <2>4. CurrentWallet # None /\ CurrentWallet.handle = activeHandle /\ CurrentWallet.proof = b
    BY <2>1, <2>3, NoneIsNoValue
  <2> QED BY <1>2, <2>4 DEF b, CurrentParts
<1> QED BY <1>1, <1>2 DEF SP!TypeOK

LEMMA PartsNext == SP!TypeOK' => ActiveParts' /\ CurrentParts'
BY ActiveHasParts, CurrentHasParts, PTL

(* Having read the active Wallet and its proof, the candidate and the      *)
(* timer are up to date, if the tab has observed that Wallet.              *)
LEMMA ReadingKeepsCandidate ==
  ASSUME SP!TypeOK', NEW written \in ProofMaps,
         Known' => /\ Own' = Active' /\ wallet' = CurrentWallet'
                   /\ proof' = AfterLoad(written, activeHandle')
  PROVE  CandidateInv'
<1> SUFFICES ASSUME Known' PROVE CandidateInv'
  BY DEF CandidateInv
<1>1. ActiveParts' /\ CurrentParts'
  BY PartsNext
<1>2. CASE activeHandle' = None
  BY <1>1, <1>2 DEF ActiveParts, CurrentParts, CandidateInv
<1>3. CASE activeHandle' # None
  <2>1. /\ Own' # None /\ Own'.handle = activeHandle' /\ activeHandle' \in Handles
        /\ wallet' # None /\ wallet'.handle = activeHandle'
        /\ wallet'.proof <=> proof'[activeHandle'] = "live" /\ roster'[activeHandle'] \in Facts
        /\ Own'.facts \in Facts <=> roster'[activeHandle'] \in Facts
    BY <1>1, <1>3 DEF ActiveParts, CurrentParts
  <2>2. proof'[activeHandle'] # "expired"
    BY <2>1, AfterLoadType
  <2> QED BY <2>1, <2>2 DEF CandidateInv, OwnLive, OwnExpired
<1> QED BY <1>2, <1>3

LEMMA ReadingKeepsTimer ==
  ASSUME SP!TypeOK', Known' => Own' = Active' /\ timer' = Scheduled'
  PROVE  TimerInv'
<1> SUFFICES ASSUME Known', Own' # None, OwnLive' PROVE Watching(FALSE)'
  BY DEF TimerInv
<1>1. ActiveParts' /\ CurrentParts'
  BY PartsNext
<1>2. activeHandle' # None /\ Own'.handle = activeHandle'
  BY <1>1 DEF ActiveParts
<1> QED BY <1>2 DEF Scheduled, OwnLive, Watching

-----------------------------------------------------------------------------
(***************************************************************************)
(* The notices.                                                            *)
(***************************************************************************)

(* What every step is shown to keep, and to do to the controller.          *)
Keeps == IInv' /\ CP!Turn

Told == Listening /\ event' # None /\ event'.tab = here /\ event'.invalidates

LEMMA IInvTypes ==
  ASSUME IInv
  PROVE  /\ SP!TypeOK /\ CP!TypeOK
         /\ wallet \in Candidates /\ account \in TokensOrNone /\ disposed \in BOOLEAN
         /\ activeHandle \in Handles \cup {None} /\ proof \in ProofMaps
         /\ SubjectOfAccount \in AccountSubjects \cup {None}
BY SubjectOfIsFunction
DEF IInv, SP!IInv, CP!IInv, CP!TypeOK, SP!TypeOK, SessionTypeOK, Candidates, TokensOrNone,
    Accounts, ProofMaps, SubjectOfAccount

LEMMA LoadingLeft ==
  ASSUME LoadingInv, Left, UNCHANGED <<controllerVars, accountLoading, retried>>
  PROVE  LoadingInv'
BY DEF LoadingInv, Left, controllerVars

(* keepAccountLoadingLocked: no account, and nothing asked.                *)
LEMMA LockedFacts ==
  ASSUME IInv, activeHandle' \in Handles \cup {None}, KeepAccountLoadingLocked
  PROVE  /\ CP!Locks
         /\ wallet' = CurrentWallet' /\ account' = None /\ disposed' = disposed
         /\ ~snapshot'.privateAccountAccess /\ activeCheck' = 0
<1>1. PICK w \in Candidates : w = CurrentWallet'
  BY CurrentTypes
<1>2. CP!Lock(w, None, 2)
  BY <1>1, SameLock DEF KeepAccountLoadingLocked
<1>3. CP!Locks
  BY <1>2 DEF CP!Locks, Candidates, TokensOrNone, Accounts
<1>4. 2 \in Nat /\ CP!IInv
  BY DEF IInv
<1> QED BY <1>1, <1>2, <1>3, <1>4, LockShows

(* A change of candidates asks about the new pair, if there is one.        *)
LEMMA ReplacedFacts ==
  ASSUME IInv, NEW w \in Candidates, NEW a \in TokensOrNone,
         NEW reason \in CP!Reasons, Controller!Replace(w, a, reason)
  PROVE  /\ CP!Replaces
         /\ wallet' = w /\ account' = a /\ disposed' = disposed
         /\ snapshot'.runtime.phase # "hydrating"
         /\ ~snapshot'.privateAccountAccess
         /\ activeCheck' # 0 => w # None /\ a # None
<1>1. CP!Replace(w, a, reason)
  BY SameReplace
<1>2. CP!Replaces
  BY <1>1 DEF CP!Replaces, Candidates, TokensOrNone, Accounts
<1>3. CP!IInv
  BY DEF IInv
<1> QED BY <1>1, <1>2, <1>3, ReplaceShows

(* The coordinator's Wallet subscriber.                                    *)
LEMMA WalletNotice ==
  ASSUME IInv, activeHandle' \in Handles \cup {None}, NEW written \in ProofMaps,
         OnWalletNotice(written)
  PROVE  /\ CP!Replaces \/ CP!Locks \/ UNCHANGED controllerVars
         /\ proof' \in ProofMaps /\ timer' \in Timers \cup {None} /\ ahead' \in BOOLEAN
         /\ retried' \in BOOLEAN
         /\ invalidatedAccountSubject' \in AccountSubjects \cup {None} /\ ended' \subseteq Tokens
         /\ SubjectInv'
         /\ Told => Reread(written)
         /\ ~Told => proof' = written /\ UNCHANGED <<controllerVars, timer, ahead, retried>>
<1>0. SessionTypeOK /\ SubjectInv
  BY DEF IInv
<1>1. CASE Told
  <2>1. /\ proof' = AfterLoad(written, activeHandle') /\ timer' = Scheduled'
        /\ ahead' = FALSE /\ retried' = FALSE /\ ended' = ended \cup BindingEnded
    BY <1>1 DEF OnWalletNotice, Told, ReadActiveProof
  <2>2. proof' \in ProofMaps /\ timer' \in Timers \cup {None} /\ ended' \subseteq Tokens
    <3>1. BindingEnded \subseteq Tokens
      BY DEF BindingEnded, IInv, CP!IInv, CP!SnapshotInv, Bound, Accounts
    <3> QED BY <1>0, <2>1, <3>1, AfterLoadType, CurrentTypes DEF SessionTypeOK
  <2>3. CASE accountLoading
    <3>1. KeepAccountLoadingLocked /\ invalidatedAccountSubject' = invalidatedAccountSubject
      BY <1>1, <2>3 DEF OnWalletNotice, Told
    <3>2. CP!Locks /\ account' = None /\ Reread(written)
      BY <2>1, <2>3, <3>1, LockedFacts DEF Reread
    <3>3. SubjectInv'
      BY <3>2 DEF SubjectInv, SubjectOfAccount
    <3> QED BY <1>0, <1>1, <2>1, <2>2, <3>1, <3>2, <3>3 DEF SessionTypeOK
  <2>4. CASE ~accountLoading
    <3>1. EndAccountBinding
      BY <1>1, <2>4 DEF OnWalletNotice, Told
    <3>2. Controller!Replace(CurrentWallet', None, "restore") /\ None \in TokensOrNone
      BY <3>1 DEF EndAccountBinding, Controller!Restore, TokensOrNone
    <3>3. CP!Replaces /\ account' = None /\ Reread(written)
      BY <2>1, <2>4, <3>2, ReplacedFacts, CurrentTypes, ReasonsAre DEF Reread
    <3>4. SubjectInv'
      BY <3>3 DEF SubjectInv, SubjectOfAccount
    <3>5. invalidatedAccountSubject' \in AccountSubjects \cup {None}
      BY <1>0, <3>1, IInvTypes DEF EndAccountBinding, SessionTypeOK
    <3> QED BY <1>1, <2>1, <2>2, <3>3, <3>4, <3>5
  <2> QED BY <2>3, <2>4
<1>2. CASE ~Told
  <2>1. /\ proof' = written
        /\ UNCHANGED <<controllerVars, timer, invalidatedAccountSubject, ahead, retried, ended>>
    BY <1>2 DEF OnWalletNotice, Told
  <2>2. SubjectInv'
    BY <1>0, <2>1 DEF SubjectInv, SubjectOfAccount, controllerVars
  <2> QED BY <1>0, <1>2, <2>1, <2>2 DEF SessionTypeOK
<1> QED BY <1>1, <1>2

(* What a Wallet notice keeps: it is given for the Wallet that was         *)
(* observed, and a turn without one observed nothing new.                  *)
LEMMA WalletNoticeKeeps ==
  ASSUME IInv, SP!IInv', NEW written \in ProofMaps, OnWalletNotice(written),
         UNCHANGED <<started, initialized, accountLoading, proofNews, subscribed>>,
         allowedAccountAccessToken' \in TokensOrNone,
         Told => Own' = Active',
         ~Told /\ Listening /\ here \notin raced' =>
           here \notin raced /\ Own' = Own /\ written = proof
  PROVE  Keeps
<1>1. SP!TypeOK' /\ activeHandle' \in Handles \cup {None}
  BY DEF SP!IInv, SP!TypeOK
<1>2. /\ CP!Replaces \/ CP!Locks \/ UNCHANGED controllerVars
      /\ proof' \in ProofMaps /\ timer' \in Timers \cup {None} /\ ahead' \in BOOLEAN
      /\ retried' \in BOOLEAN
      /\ invalidatedAccountSubject' \in AccountSubjects \cup {None} /\ ended' \subseteq Tokens
      /\ SubjectInv'
      /\ Told => Reread(written)
      /\ ~Told => proof' = written /\ UNCHANGED <<controllerVars, timer, ahead, retried>>
  BY <1>1, WalletNotice
<1>3. CP!IInv' /\ CP!Turn
  BY <1>2, ControllerSteps DEF IInv
<1>4. SessionTypeOK'
  BY <1>2 DEF IInv, SessionTypeOK, ProofMaps, TokensOrNone
<1>5. disposed' = disposed
  BY <1>2 DEF Reread, controllerVars
<1>6. StartedInv'
  <2>1. ~started => wallet' = wallet
    BY <1>2 DEF Told, Listening, controllerVars
  <2> QED BY <1>5, <2>1 DEF IInv, StartedInv
<1>7. CASE Told
  <2>1. TimerInv' /\ CandidateInv'
    BY <1>1, <1>2, <1>7, ReadingKeepsCandidate, ReadingKeepsTimer DEF Reread
  <2>2. HydratingOnlyWhileLoading'
    BY <1>2, <1>7 DEF HydratingOnlyWhileLoading, Reread
  <2>3. LoadingInv'
    BY <1>2, <1>7 DEF LoadingInv, Reread
  <2> QED BY <1>2, <1>3, <1>4, <1>6, <2>1, <2>2, <2>3 DEF IInv, Keeps
<1>8. CASE ~Told
  <2>1. Left
    BY <1>2, <1>5, <1>8 DEF Left, Known, OwnProofKnown, Listening, controllerVars
  <2>2. TimerInv' /\ CandidateInv'
    BY <2>1, LeftKeeps DEF IInv
  <2>3. HydratingOnlyWhileLoading'
    BY <1>2, <1>8 DEF IInv, HydratingOnlyWhileLoading, controllerVars
  <2>4. LoadingInv => LoadingInv'
    BY <1>2, <1>8, <2>1, LoadingLeft
  <2> QED BY <1>2, <1>3, <1>4, <1>6, <2>2, <2>3, <2>4 DEF IInv, Keeps
<1> QED BY <1>7, <1>8

(* The coordinator's proof subscriber: what it keeps, if the turn observed *)
(* nothing new and changed the proof of h only.                            *)
LEMMA ProofNoticeKeeps ==
  ASSUME IInv, SP!IInv', NEW h \in Handles, NEW written \in ProofMaps, OnProofNotice(h, written),
         UNCHANGED <<started, initialized, accountLoading, invalidatedAccountSubject, ended,
                     subscribed, activeHandle>>,
         allowedAccountAccessToken' \in TokensOrNone,
         proofNews' \subseteq Handles,
         \A k \in Handles \ {h} : written[k] = proof[k] /\ (k \in proofNews' <=> k \in proofNews),
         Listening /\ here \notin raced' /\ here \notin news =>
           here \notin raced /\ Own = Active /\ Own' = Own /\ Active' = Active
  PROVE  Keeps
<1>1. SP!TypeOK' /\ activeHandle' \in Handles \cup {None} /\ ActiveParts
  BY ActiveHasParts DEF IInv, SP!IInv, SP!TypeOK
<1>2. StartedInv /\ SessionTypeOK /\ SubjectInv /\ HydratingOnlyWhileLoading
  BY DEF IInv
<1>3. CASE Listening /\ activeHandle = h
  <2>1. /\ proof' = AfterLoad(written, activeHandle') /\ timer' = Scheduled'
        /\ ahead' = (here \in news) /\ retried' = FALSE
    BY <1>3 DEF OnProofNotice, ReadActiveProof
  <2>2. /\ CP!Replaces \/ CP!Locks
        /\ account' \in {account, None} /\ Reread(written)
    <3>1. CASE accountLoading
      <4>1. KeepAccountLoadingLocked
        BY <1>3, <3>1 DEF OnProofNotice
      <4> QED BY <1>1, <2>1, <3>1, <4>1, LockedFacts DEF Reread
    <3>2. CASE ~accountLoading
      <4>1. Controller!Replace(CurrentWallet', account, "wallet_change")
        BY <1>3, <3>2 DEF OnProofNotice, Controller!SetWallet
      <4> QED BY <1>1, <2>1, <3>2, <4>1, ReplacedFacts, CurrentTypes, ReasonsAre, IInvTypes
         DEF Reread
    <3> QED BY <3>1, <3>2
  <2>3. CP!IInv' /\ CP!Turn
    BY <2>2, ControllerSteps DEF IInv
  <2>4. SessionTypeOK'
    <3>1. proof' \in ProofMaps /\ timer' \in Timers \cup {None} /\ ahead' \in BOOLEAN
      BY <1>1, <2>1, AfterLoadType, CurrentTypes
    <3> QED BY <1>2, <2>1, <3>1 DEF SessionTypeOK, ProofMaps, TokensOrNone
  <2>5. StartedInv'
    BY <1>2, <1>3, <2>2 DEF StartedInv, Listening, Reread
  <2>6. Known' => Own' = Active'
    BY <1>3, <2>1 DEF Known
  <2>7. TimerInv' /\ CandidateInv'
    BY <1>1, <2>2, <2>6, ReadingKeepsCandidate, ReadingKeepsTimer DEF Reread
  <2>8. HydratingOnlyWhileLoading' /\ LoadingInv'
    BY <2>2 DEF HydratingOnlyWhileLoading, LoadingInv, Reread
  <2>9. SubjectInv'
    BY <1>2, <2>2 DEF SubjectInv, SubjectOfAccount, Reread
  <2> QED BY <2>3, <2>4, <2>5, <2>7, <2>8, <2>9 DEF IInv, Keeps
<1>4. CASE ~(Listening /\ activeHandle = h)
  <2>1. /\ proof' = written /\ UNCHANGED <<controllerVars, timer, retried>>
        /\ ahead' = (ahead \/ (Listening /\ here \in news))
    BY <1>4 DEF OnProofNotice
  <2>2. CP!IInv' /\ CP!Turn
    BY <2>1, ControllerSteps DEF IInv
  <2>3. SessionTypeOK'
    BY <1>2, <2>1 DEF SessionTypeOK, ProofMaps, TokensOrNone
  <2>4. StartedInv' /\ SubjectInv' /\ HydratingOnlyWhileLoading'
    BY <1>2, <2>1
    DEF StartedInv, SubjectInv, SubjectOfAccount, HydratingOnlyWhileLoading, controllerVars
  <2>5. ASSUME Known' PROVE /\ Known /\ Own' = Own
                            /\ Own # None => Own.handle \in Handles \ {h}
    <3>1. Listening /\ here \notin raced' /\ ~ahead /\ here \notin news
      BY <2>1, <2>5 DEF Known, Listening, controllerVars
    <3>2. here \notin raced /\ Own = Active /\ Own' = Own
      BY <3>1
    <3> QED BY <1>1, <1>4, <3>1, <3>2 DEF Known, Listening, ActiveParts
  <2>6. Left
    BY <2>1, <2>5 DEF Left, OwnProofKnown, controllerVars
  <2>7. TimerInv' /\ CandidateInv'
    BY <2>6, LeftKeeps DEF IInv
  <2>8. LoadingInv => LoadingInv'
    BY <2>1, <2>6, LoadingLeft
  <2> QED BY <2>2, <2>3, <2>4, <2>7, <2>8 DEF IInv, Keeps
<1> QED BY <1>3, <1>4

-----------------------------------------------------------------------------
(***************************************************************************)
(* The host's calls.                                                       *)
(***************************************************************************)

(* A tab that nothing is on its way to has observed what storage holds.    *)
LEMMA QuietObserves ==
  ASSUME IInv, Listening, here \notin news
  PROVE  Own = Active
BY DEF IInv, SP!IInv, SP!ObservedIsStored, SP!Quiet, StartedInv, Listening, Own, Active, Tabs

LEMMA SilentTurn ==
  ASSUME IInv, NoStoreTurn
  PROVE  /\ SP!IInv' /\ Active' = Active /\ Own' = Own
         /\ UNCHANGED <<activeHandle, roster, subscribed, news, raced>>
<1>1. SP!IInv' /\ Active' = Active
  BY SilentSteps DEF NoStoreTurn, IInv
<1> QED BY <1>1 DEF NoStoreTurn, Store!Silent, Own

LEMMA StartFacts ==
  ASSUME IInv, Start
  PROVE  /\ SP!IInv' /\ ~disposed /\ started' = TRUE /\ here \in subscribed'
         /\ Active' = Active /\ UNCHANGED <<activeHandle, roster, news>>
         /\ started => Own' = Own /\ UNCHANGED <<subscribed, raced>>
         /\ ~started => Own' = Active' /\ here \notin raced'
<1>1. ~disposed /\ started' = TRUE
  BY DEF Start
<1>2. CASE started
  BY <1>1, <1>2, SilentTurn DEF Start, IInv, StartedInv
<1>3. CASE ~started
  <2>1. SP!Subscribe(here)
    BY <1>3, SameSubscribe DEF Start
  <2>2. SP!IInv'
    BY <2>1, StoreSteps DEF IInv, Tabs
  <2>3. Active' = Active /\ UNCHANGED <<activeHandle, roster, news>> /\ here \in subscribed'
    BY <2>1 DEF SP!Subscribe, Active, SP!ActiveWallet, SP!storage
  <2>4. observed' = [observed EXCEPT ![here] = Active] /\ here \in Tabs /\ SP!TypeOK
    BY <2>1 DEF SP!Subscribe, Active, IInv, SP!IInv, Tabs
  <2>5. Own' = Active'
    BY <2>3, <2>4 DEF Own, SP!TypeOK
  <2>6. here \notin raced'
    BY <2>1 DEF SP!Subscribe
  <2> QED BY <1>1, <1>3, <2>2, <2>3, <2>5, <2>6
<1> QED BY <1>2, <1>3

LEMMA RestoreCallKeeps ==
  ASSUME IInv, NEW token \in TokensOrNone, RestoreCall(token), initialized' \in {initialized, TRUE}
  PROVE  Keeps
<1>1. /\ Start /\ accountLoading' = FALSE /\ invalidatedAccountSubject' = None
      /\ allowedAccountAccessToken' = None /\ proof' = AfterLoad(proof, activeHandle')
      /\ timer' = (IF started THEN timer ELSE Scheduled')
      /\ Controller!Replace(CurrentWallet', token, "restore")
      /\ ahead' = (ahead \/ here \in news) /\ ended' = ended \ {token}
      /\ proofNews' = proofNews /\ retried' = FALSE
  BY DEF RestoreCall, ReadActiveProof, Controller!Restore
<1>2. /\ SP!IInv' /\ ~disposed /\ started' = TRUE /\ here \in subscribed'
      /\ Active' = Active /\ UNCHANGED <<activeHandle, roster, news>>
      /\ started => Own' = Own /\ UNCHANGED <<subscribed, raced>>
      /\ ~started => Own' = Active'
  BY <1>1, StartFacts
<1>3. /\ CP!Replaces /\ wallet' = CurrentWallet' /\ disposed' = disposed
      /\ snapshot'.runtime.phase # "hydrating"
  BY <1>1, <1>2, ReplacedFacts, CurrentTypes, IInvTypes, ReasonsAre
<1>4. CP!IInv' /\ CP!Turn
  BY <1>3, ControllerSteps DEF IInv
<1>5. SessionTypeOK'
  <2>1. proof' \in ProofMaps /\ timer' \in Timers \cup {None}
    BY <1>1, <1>2, AfterLoadType, CurrentTypes, IInvTypes DEF IInv, SessionTypeOK
  <2> QED BY <1>1, <1>2, <2>1 DEF IInv, SessionTypeOK, ProofMaps, TokensOrNone
<1>6. StartedInv' /\ SubjectInv' /\ HydratingOnlyWhileLoading' /\ LoadingInv'
  BY <1>1, <1>2, <1>3 DEF StartedInv, SubjectInv, HydratingOnlyWhileLoading, LoadingInv
<1>7. Known' => Own' = Active' /\ (started => Known)
  <2>1. CASE started
    BY <1>1, <1>2, <2>1, QuietObserves DEF Known, Listening
  <2>2. CASE ~started
    BY <1>2, <2>2
  <2> QED BY <2>1, <2>2
<1>8. SP!TypeOK'
  BY <1>2 DEF SP!IInv
<1>9. CandidateInv'
  BY <1>1, <1>3, <1>7, <1>8, ReadingKeepsCandidate, IInvTypes
<1>10. TimerInv'
  <2>1. CASE ~started
    BY <1>1, <1>7, <1>8, <2>1, ReadingKeepsTimer
  <2>2. CASE started
    <3> SUFFICES ASSUME Known', OwnProofKnown', Own' # None, OwnLive' PROVE Watching(FALSE)'
      BY DEF TimerInv
    <3>1. /\ Known /\ Own' = Own /\ OwnProofKnown /\ Own # None
          /\ activeHandle' \in Handles /\ Own.handle = activeHandle'
      BY <1>1, <1>2, <1>7, <1>8, <2>2, PartsNext DEF OwnProofKnown, ActiveParts, SP!TypeOK
    <3>2. proof[Own.handle] = "live"
      BY <1>1, <3>1, AfterLoadType, IInvTypes DEF OwnLive
    <3> QED BY <1>1, <2>2, <3>1, <3>2 DEF IInv, TimerInv, OwnLive, Watching
  <2> QED BY <2>1, <2>2
<1> QED BY <1>2, <1>4, <1>5, <1>6, <1>9, <1>10 DEF IInv, Keeps

LEMMA RestoreKeeps ==
  ASSUME IInv, NEW token \in TokensOrNone, RestoreSession(token)
  PROVE  Keeps
BY RestoreCallKeeps DEF RestoreSession

(* The host's session changes only the account candidate.                  *)
LEMMA SetAccountSessionKeeps ==
  ASSUME IInv, NEW token \in TokensOrNone, SetAccountSession(token)
  PROVE  Keeps
<1>1. /\ Start /\ accountLoading' = FALSE /\ retried' = FALSE
      /\ IF started THEN UNCHANGED <<proof, timer>>
                    ELSE proof' = AfterLoad(proof, activeHandle') /\ timer' = Scheduled'
      /\ UNCHANGED <<proofNews, initialized, ahead>>
  BY DEF SetAccountSession, ReadActiveProof
<1>2. /\ SP!IInv' /\ ~disposed /\ started' = TRUE /\ here \in subscribed'
      /\ Active' = Active /\ UNCHANGED <<activeHandle, roster, news>>
      /\ started => Own' = Own /\ UNCHANGED <<subscribed, raced>>
      /\ ~started => Own' = Active'
  BY <1>1, StartFacts
<1> DEFINE Result ==
      /\ CP!Replaces \/ UNCHANGED controllerVars
      /\ wallet' = wallet /\ disposed' = disposed
      /\ initialized => snapshot'.runtime.phase # "hydrating"
      /\ invalidatedAccountSubject' \in AccountSubjects \cup {None}
      /\ allowedAccountAccessToken' \in TokensOrNone /\ ended' \subseteq Tokens
      /\ SubjectInv'
<1>3. Result
  <2>0. SessionTypeOK /\ SubjectInv
    BY DEF IInv
  <2>1. CASE AlreadySettled(token)
    <3>1. /\ UNCHANGED controllerVars
          /\ UNCHANGED <<invalidatedAccountSubject, allowedAccountAccessToken, ended>>
      BY <2>1 DEF SetAccountSession, AlreadySettled, controllerVars
    <3>2. initialized => snapshot.runtime.phase # "hydrating"
      BY <1>2, <2>1 DEF AlreadySettled, IInv, HydratingOnlyWhileLoading
    <3> QED BY <2>0, <3>1, <3>2
            DEF controllerVars, SessionTypeOK, SubjectInv, SubjectOfAccount
  <2>2. CASE token = None
    <3>1. /\ allowedAccountAccessToken' = None
          /\ Controller!Replace(wallet, None, "account_change")
          /\ UNCHANGED <<invalidatedAccountSubject, ended>>
      BY <2>2 DEF SetAccountSession, AlreadySettled, Controller!SetAccount
    <3>2. /\ CP!Replaces /\ wallet' = wallet /\ account' = None /\ disposed' = disposed
          /\ snapshot'.runtime.phase # "hydrating"
      BY <3>1, ReplacedFacts, ReasonsAre, IInvTypes DEF TokensOrNone
    <3> QED BY <2>0, <3>1, <3>2 DEF SessionTypeOK, SubjectInv, SubjectOfAccount, TokensOrNone
  <2>3. CASE token # None /\ ~AlreadySettled(token) /\ Refused(token)
    <3>1. /\ Controller!Replace(wallet, None, "account_change")
          /\ UNCHANGED <<invalidatedAccountSubject, allowedAccountAccessToken, ended>>
      BY <2>3 DEF SetAccountSession, Controller!SetAccount
    <3>2. /\ CP!Replaces /\ wallet' = wallet /\ account' = None /\ disposed' = disposed
          /\ snapshot'.runtime.phase # "hydrating"
      BY <3>1, ReplacedFacts, ReasonsAre, IInvTypes DEF TokensOrNone
    <3> QED BY <2>0, <3>1, <3>2 DEF SessionTypeOK, SubjectInv, SubjectOfAccount, TokensOrNone
  <2>4. CASE token # None /\ ~AlreadySettled(token) /\ ~Refused(token)
    <3>1. /\ allowedAccountAccessToken' = None /\ invalidatedAccountSubject' = None
          /\ Controller!Replace(wallet, token, "account_change")
          /\ ended' \in {ended, ended \ {token}}
      BY <2>4 DEF SetAccountSession, Controller!SetAccount
    <3>2. /\ CP!Replaces /\ wallet' = wallet /\ disposed' = disposed
          /\ snapshot'.runtime.phase # "hydrating"
      BY <3>1, ReplacedFacts, ReasonsAre, IInvTypes
    <3> QED BY <2>0, <3>1, <3>2 DEF SessionTypeOK, SubjectInv, TokensOrNone
  <2> QED BY <2>1, <2>2, <2>3, <2>4 DEF AlreadySettled
<1> HIDE DEF Result
<1>4. CP!IInv' /\ CP!Turn
  BY <1>3, ControllerSteps DEF Result, IInv
<1>5. SessionTypeOK'
  <2>1. proof' \in ProofMaps /\ timer' \in Timers \cup {None}
    BY <1>1, <1>2, AfterLoadType, CurrentTypes, IInvTypes DEF IInv, SessionTypeOK
  <2> QED BY <1>1, <1>2, <1>3, <2>1 DEF Result, IInv, SessionTypeOK, ProofMaps
<1>6. StartedInv' /\ HydratingOnlyWhileLoading' /\ LoadingInv'
  BY <1>1, <1>2, <1>3 DEF Result, StartedInv, HydratingOnlyWhileLoading, LoadingInv
<1>7. TimerInv' /\ CandidateInv'
  <2>1. CASE started
    <3>1. Left
      BY <1>1, <1>2, <1>3, <2>1 DEF Result, Left, Known, OwnProofKnown
    <3> QED BY <3>1, LeftKeeps DEF IInv
  <2>2. CASE ~started
    <3>1. SP!TypeOK' /\ wallet' = None /\ ~initialized'
      BY <1>1, <1>2, <1>3, <2>2 DEF Result, SP!IInv, IInv, StartedInv
    <3> QED BY <1>1, <1>2, <2>2, <3>1, ReadingKeepsTimer DEF CandidateInv
  <2> QED BY <2>1, <2>2
<1> QED BY <1>2, <1>3, <1>4, <1>5, <1>6, <1>7 DEF Result, IInv, Keeps

LEMMA SetAccountLoadingKeeps == ASSUME IInv, SetAccountLoading PROVE Keeps
<1>1. /\ Start /\ accountLoading' = TRUE /\ retried' = FALSE /\ CP!Lock(wallet, account, 1)
      /\ IF started THEN UNCHANGED <<proof, timer>>
                    ELSE proof' = AfterLoad(proof, activeHandle') /\ timer' = Scheduled'
      /\ UNCHANGED <<proofNews, invalidatedAccountSubject, allowedAccountAccessToken,
                     initialized, ahead, ended>>
  BY SameLock DEF SetAccountLoading, Controller!BeginRestore, ReadActiveProof
<1>2. /\ SP!IInv' /\ ~disposed /\ started' = TRUE /\ here \in subscribed'
      /\ Active' = Active /\ UNCHANGED <<activeHandle, roster, news>>
      /\ started => Own' = Own /\ UNCHANGED <<subscribed, raced>>
      /\ ~started => Own' = Active'
  BY <1>1, StartFacts
<1>3. /\ CP!Locks /\ wallet' = wallet /\ account' = account /\ disposed' = disposed
      /\ ~snapshot'.privateAccountAccess /\ activeCheck' = 0
  BY <1>1, LockShows, IInvTypes DEF CP!Locks, IInv, Candidates, TokensOrNone, Accounts
<1>4. CP!IInv' /\ CP!Turn /\ SP!TypeOK'
  BY <1>2, <1>3, ControllerSteps DEF IInv, SP!IInv
<1>5. SessionTypeOK'
  <2>1. proof' \in ProofMaps /\ timer' \in Timers \cup {None}
    BY <1>1, <1>2, AfterLoadType, CurrentTypes, IInvTypes DEF IInv, SessionTypeOK
  <2> QED BY <1>1, <1>2, <2>1 DEF IInv, SessionTypeOK, ProofMaps
<1>6. StartedInv' /\ SubjectInv' /\ HydratingOnlyWhileLoading' /\ LoadingInv'
  BY <1>1, <1>2, <1>3
  DEF IInv, StartedInv, SubjectInv, SubjectOfAccount, HydratingOnlyWhileLoading, LoadingInv
<1>7. CASE started
  <2>1. Left
    BY <1>1, <1>2, <1>3, <1>7 DEF Left, Known, OwnProofKnown
  <2> QED BY <1>2, <1>4, <1>5, <1>6, <2>1, LeftKeeps DEF IInv, Keeps
<1>8. CASE ~started
  <2>1. TimerInv'
    BY <1>1, <1>2, <1>4, <1>8, ReadingKeepsTimer
  <2>2. CandidateInv'
    BY <1>1, <1>3, <1>8 DEF CandidateInv, IInv, StartedInv
  <2> QED BY <1>2, <1>4, <1>5, <1>6, <2>1, <2>2 DEF IInv, Keeps
<1> QED BY <1>7, <1>8

(* A turn that is no concern of the coordinator's, or only grants the next *)
(* session.                                                                *)
LEMMA IdleTurnKeeps ==
  ASSUME IInv, NoStoreTurn, allowedAccountAccessToken' \in TokensOrNone,
         UNCHANGED <<controllerVars, proofVars, started, accountLoading,
                     invalidatedAccountSubject, initialized, ahead, retried, ended>>
  PROVE  Keeps
<1>1. UNCHANGED controllerVars /\ UNCHANGED <<proof, proofNews, timer>>
  BY DEF proofVars
<1>2. SP!IInv' /\ Own' = Own /\ UNCHANGED <<subscribed, raced>>
  BY SilentTurn
<1>3. CP!IInv' /\ CP!Turn
  BY <1>1, ControllerSteps DEF IInv
<1>4. SessionTypeOK' /\ StartedInv' /\ SubjectInv' /\ HydratingOnlyWhileLoading'
  BY <1>1, <1>2 DEF IInv, SessionTypeOK, StartedInv, SubjectInv, SubjectOfAccount,
                    HydratingOnlyWhileLoading, controllerVars
<1>5. Left
  BY <1>1, <1>2 DEF Left, Known, OwnProofKnown, controllerVars
<1> QED BY <1>1, <1>2, <1>3, <1>4, <1>5, LeftKeeps, LoadingLeft DEF IInv, Keeps

LEMMA AllowKeeps ==
  ASSUME IInv, NEW token \in Tokens, AllowAccountSession(token)
  PROVE  Keeps
BY IdleTurnKeeps DEF AllowAccountSession, TokensOrNone

LEMMA RetryKeeps == ASSUME IInv, RetryRelation PROVE Keeps
<1>1. /\ started /\ Start /\ Controller!Replace(wallet, account, "retry")
      /\ retried' = accountLoading
      /\ UNCHANGED <<proof, proofNews, timer, accountLoading, invalidatedAccountSubject,
                     allowedAccountAccessToken, initialized, ahead, ended>>
  BY DEF RetryRelation, Controller!Retry, proofVars
<1>2. /\ SP!IInv' /\ ~disposed /\ started' = TRUE /\ here \in subscribed'
      /\ Own' = Own /\ UNCHANGED <<subscribed, raced>>
  BY <1>1, StartFacts
<1>3. /\ CP!Replaces /\ wallet' = wallet /\ account' = account /\ disposed' = disposed
      /\ snapshot'.runtime.phase # "hydrating"
  BY <1>1, ReplacedFacts, ReasonsAre, IInvTypes
<1>4. CP!IInv' /\ CP!Turn
  BY <1>3, ControllerSteps DEF IInv
<1>5. SessionTypeOK' /\ StartedInv' /\ SubjectInv' /\ HydratingOnlyWhileLoading'
  BY <1>1, <1>2, <1>3 DEF IInv, SessionTypeOK, StartedInv, SubjectInv, SubjectOfAccount,
                          HydratingOnlyWhileLoading
<1>6. TimerInv' /\ CandidateInv'
  <2>1. Left
    BY <1>1, <1>2, <1>3 DEF Left, Known, OwnProofKnown
  <2> QED BY <2>1, LeftKeeps DEF IInv
<1>7. LoadingInv'
  BY <1>1 DEF LoadingInv
<1> QED BY <1>2, <1>4, <1>5, <1>6, <1>7 DEF IInv, Keeps

LEMMA DisposeKeeps == ASSUME IInv, DisposeCoordinator PROVE Keeps
<1>1. /\ CP!Dispose /\ disposed' = TRUE /\ wallet' = wallet /\ account' = account
      /\ timer' = None /\ subscribed' = subscribed \ {here}
      /\ Store!Silent /\ done' = TRUE
      /\ UNCHANGED <<activeHandle, roster, news, proof, proofNews, started, accountLoading,
                     invalidatedAccountSubject, allowedAccountAccessToken, initialized, ahead,
                     retried, ended>>
  BY SameDispose DEF DisposeCoordinator, sessionVars, Controller!Dispose
<1>2. CP!IInv' /\ CP!Turn /\ SP!IInv'
  BY <1>1, ControllerSteps, SilentSteps DEF IInv
<1>3. SessionTypeOK' /\ SubjectInv'
  BY <1>1 DEF IInv, SessionTypeOK, SubjectInv, SubjectOfAccount
<1>4. StartedInv' /\ TimerInv' /\ CandidateInv' /\ HydratingOnlyWhileLoading' /\ LoadingInv'
  BY <1>1 DEF IInv, StartedInv, TimerInv, CandidateInv, HydratingOnlyWhileLoading, LoadingInv,
              Known
<1> QED BY <1>2, <1>3, <1>4 DEF IInv, Keeps

-----------------------------------------------------------------------------
(***************************************************************************)
(* The Wallet and its proofs change.                                       *)
(***************************************************************************)
LEMMA ChangeTells ==
  ASSUME IInv, NEW t \in Tabs, WalletChange(t)
  PROVE  SP!IInv' /\ Tells(t)
<1>1. SP!Mutation(t) /\ SP!TypeOK
  BY WalletChangeIsMutation, IInvTypes
<1> QED BY <1>1, StoreSteps, MutationTells DEF IInv

(* A turn of this tab that does not invalidate observed nothing new, unless*)
(* the tab counts as raced.                                                *)
LEMMA TellsHere ==
  ASSUME IInv, Tells(here)
  PROVE  /\ Own' = Active' /\ subscribed' = subscribed
         /\ Listening /\ ~event'.invalidates /\ here \notin raced' =>
              /\ here \notin news /\ here \notin raced
              /\ Own = Active /\ Own' = Own /\ Active' = Active
<1>1. Own' = Active' /\ subscribed' = subscribed
  BY DEF Tells, Own
<1> QED BY <1>1, QuietObserves DEF Tells

LEMMA WalletChangesHereKeeps == ASSUME IInv, WalletChangesHere PROVE Keeps
<1>1. /\ WalletChange(here) /\ here \in Tabs /\ OnWalletNotice(proof)
      /\ UNCHANGED <<started, initialized, accountLoading, proofNews, allowedAccountAccessToken>>
  BY DEF WalletChangesHere, WalletChange, Unheard, Tabs
<1>2. SP!IInv' /\ Tells(here)
  BY <1>1, ChangeTells
<1>3. /\ Own' = Active' /\ subscribed' = subscribed
      /\ Listening /\ ~event'.invalidates /\ here \notin raced' =>
           here \notin raced /\ Own' = Own
  BY <1>2, TellsHere
<1>4. Listening /\ ~Told => ~event'.invalidates
  BY <1>2 DEF Told, Tells
<1> QED BY <1>1, <1>2, <1>3, <1>4, WalletNoticeKeeps, IInvTypes DEF IInv, SessionTypeOK

LEMMA WalletChangesElsewhereKeeps == ASSUME IInv, WalletChangesElsewhere PROVE Keeps
<1>1. PICK t \in Elsewhere : WalletChange(t)
  BY DEF WalletChangesElsewhere, WalletChange
<1>2. UNCHANGED controllerVars /\ UNCHANGED proofVars /\ UNCHANGED sessionVars
  BY DEF WalletChangesElsewhere
<1>3. t \in Tabs /\ here \in Tabs \ {t}
  BY HereIsOneTab DEF Tabs
<1>4. /\ SP!IInv' /\ Own' = Own /\ subscribed' = subscribed
      /\ here \in raced' <=> here \in raced
  BY <1>1, <1>3, ChangeTells DEF Tells, Own
<1>5. CP!IInv' /\ CP!Turn
  BY <1>2, ControllerSteps DEF IInv
<1>6. SessionTypeOK' /\ StartedInv' /\ SubjectInv' /\ HydratingOnlyWhileLoading'
  BY <1>2, <1>4 DEF IInv, SessionTypeOK, StartedInv, SubjectInv, SubjectOfAccount,
                    HydratingOnlyWhileLoading, controllerVars, proofVars, sessionVars
<1>7. Left
  BY <1>2, <1>4 DEF Left, Known, OwnProofKnown, controllerVars, proofVars, sessionVars
<1>8. UNCHANGED <<controllerVars, accountLoading, retried>>
  BY <1>2 DEF sessionVars
<1> QED BY <1>4, <1>5, <1>6, <1>7, <1>8, LeftKeeps, LoadingLeft DEF IInv, Keeps

LEMMA WalletEventArrivesKeeps == ASSUME IInv, WalletEventArrives PROVE Keeps
<1>1. /\ SP!StorageEvent(here) /\ here \in Tabs /\ OnWalletNotice(proof) /\ SP!TypeOK
      /\ UNCHANGED <<started, initialized, accountLoading, proofNews, allowedAccountAccessToken>>
  BY SameStorageEvent, IInvTypes DEF WalletEventArrives, Unheard, Tabs
<1>2. SP!IInv'
  BY <1>1, StoreSteps DEF IInv
<1>3. Active' = Active /\ subscribed' = subscribed
  BY <1>1 DEF SP!StorageEvent, SP!storage, Active, SP!ActiveWallet
<1>4. CASE here \in subscribed
  <2>1. SP!Emit(here, Own, Active, FALSE)
    BY <1>1, <1>4 DEF SP!StorageEvent, Own, Active
  <2>2. /\ observed' = [observed EXCEPT ![here] = Active]
        /\ event' = [tab |-> here, active |-> Active, invalidates |-> Own # Active]
        /\ Own = Active => raced' = raced
    BY <2>1 DEF SP!Emit, SP!InvalidatesAccountBinding
  <2>3. Own' = Active'
    BY <1>1, <1>3, <2>2 DEF Own, SP!TypeOK
  <2>4. Active \in SP!StoredWallets \cup {None}
    BY <1>1, SP!WalletForHandleType, StoreAssumptions DEF Active, SP!ActiveWallet, SP!TypeOK
  <2>5. event' \in Store!Events
    BY <1>1, <2>2, <2>4 DEF Store!Events, Store!StoredWallets, SP!StoredWallets
  <2>6. Listening /\ ~Told => Own = Active
    BY <2>2, <2>5, NoneIsNoValue DEF Told
  <2> QED BY <1>1, <1>2, <1>3, <2>2, <2>3, <2>6, WalletNoticeKeeps, IInvTypes
          DEF IInv, SessionTypeOK
<1>5. CASE here \notin subscribed
  <2>1. ~Listening /\ ~Told
    BY <1>5 DEF IInv, StartedInv, Listening, Told
  <2> QED BY <1>1, <1>2, <1>3, <2>1, WalletNoticeKeeps, IInvTypes DEF IInv, SessionTypeOK
<1> QED BY <1>4, <1>5

LEMMA ActivateVaultKeeps ==
  ASSUME IInv, NEW h \in Handles, NEW f \in Facts, ActivateVault(h, f),
         allowedAccountAccessToken' \in TokensOrNone
  PROVE  Keeps
<1> DEFINE written == [proof EXCEPT ![h] = "live"]
<1>1. /\ Store!Activate(here, h, f) /\ here \in Tabs
      /\ IF event'.invalidates
           THEN OnWalletNotice(written)
           ELSE /\ OnProofNotice(h, written)
                /\ UNCHANGED <<invalidatedAccountSubject, ended>>
      /\ UNCHANGED <<started, initialized, accountLoading, proofNews>>
  BY DEF ActivateVault, Tabs
<1>2. SP!IInv' /\ Tells(here)
  BY <1>1, ChangeTells DEF WalletChange
<1>3. /\ Own' = Active' /\ subscribed' = subscribed
      /\ Listening /\ ~event'.invalidates /\ here \notin raced' =>
           here \notin raced /\ Own = Active /\ Own' = Own /\ Active' = Active
  BY <1>2, TellsHere
<1>4. /\ written \in ProofMaps /\ \A k \in Handles \ {h} : written[k] = proof[k]
      /\ proofNews' \subseteq Handles
  BY <1>1, IInvTypes DEF ProofMaps, ProofStates, IInv, SessionTypeOK
<1> HIDE DEF written
<1>5. CASE event'.invalidates
  <2>1. Listening => Told
    BY <1>2, <1>5 DEF Told, Tells
  <2>2. OnWalletNotice(written)
    BY <1>1, <1>5
  <2> QED BY <1>1, <1>2, <1>3, <1>4, <2>1, <2>2, WalletNoticeKeeps
<1>6. CASE ~event'.invalidates
  <2>1. OnProofNotice(h, written) /\ UNCHANGED <<invalidatedAccountSubject, ended>>
    BY <1>1, <1>6
  <2>2. activeHandle' = activeHandle
    <3>1. Active' = Active
      BY <1>2, <1>6 DEF Tells
    <3>2. ActiveParts /\ ActiveParts'
      BY <1>2, ActiveHasParts, PartsNext, IInvTypes DEF SP!IInv
    <3> QED BY <3>1, <3>2 DEF ActiveParts
  <2> QED BY <1>1, <1>2, <1>3, <1>4, <1>6, <2>1, <2>2, ProofNoticeKeeps
<1> QED BY <1>5, <1>6

LEMMA ProofChangesHereKeeps ==
  ASSUME IInv, NEW h \in ProofsChange, NEW state \in {"none", "live"}, ProofChangesHere(h, state)
  PROVE  Keeps
<1> DEFINE written == [proof EXCEPT ![h] = state]
<1>1. /\ NoStoreTurn /\ OnProofNotice(h, written) /\ h \in Handles
      /\ UNCHANGED <<started, initialized, accountLoading, invalidatedAccountSubject, ended,
                     proofNews, allowedAccountAccessToken>>
  BY ProofsChangeOfWallets DEF ProofChangesHere, Unheard
<1>2. /\ SP!IInv' /\ Active' = Active /\ Own' = Own
      /\ UNCHANGED <<activeHandle, subscribed, raced>>
  BY <1>1, SilentTurn
<1>3. /\ written \in ProofMaps /\ \A k \in Handles \ {h} : written[k] = proof[k]
      /\ allowedAccountAccessToken' \in TokensOrNone /\ proofNews' \subseteq Handles
  BY <1>1, IInvTypes DEF ProofMaps, ProofStates, IInv, SessionTypeOK
<1> HIDE DEF written
<1> QED BY <1>1, <1>2, <1>3, ProofNoticeKeeps, QuietObserves

LEMMA ProofChangedElsewhereKeeps ==
  ASSUME IInv, NEW h \in ProofsChange, NEW state \in {"none", "live"},
         ProofChangedElsewhere(h, state)
  PROVE  Keeps
<1>1. /\ NoStoreTurn /\ h \in Handles
      /\ proof' = [proof EXCEPT ![h] = state] /\ proofNews' = proofNews \cup {h}
      /\ UNCHANGED controllerVars /\ UNCHANGED timer /\ UNCHANGED sessionVars
  BY ProofsChangeOfWallets DEF ProofChangedElsewhere, controllerVars, sessionVars
<1>2. SP!IInv' /\ Own' = Own /\ UNCHANGED <<subscribed, raced>>
  BY <1>1, SilentTurn
<1>3. CP!IInv' /\ CP!Turn
  BY <1>1, ControllerSteps DEF IInv
<1>4. SessionTypeOK'
  BY <1>1 DEF IInv, SessionTypeOK, ProofStates, sessionVars
<1>5. StartedInv' /\ SubjectInv' /\ HydratingOnlyWhileLoading'
  BY <1>1, <1>2 DEF IInv, StartedInv, SubjectInv, SubjectOfAccount,
                    HydratingOnlyWhileLoading, controllerVars, sessionVars
<1>6. Left
  BY <1>1, <1>2, IInvTypes
  DEF Left, Known, OwnProofKnown, controllerVars, sessionVars, ProofMaps
<1>7. UNCHANGED <<controllerVars, accountLoading, retried>>
  BY <1>1 DEF sessionVars
<1> QED BY <1>2, <1>3, <1>4, <1>5, <1>6, <1>7, LeftKeeps, LoadingLeft DEF IInv, Keeps

LEMMA ProofEventArrivesKeeps ==
  ASSUME IInv, NEW h \in ProofsChange, ProofEventArrives(h)
  PROVE  Keeps
<1>1. /\ NoStoreTurn /\ OnProofNotice(h, proof) /\ h \in Handles /\ proofNews' = proofNews \ {h}
      /\ UNCHANGED <<started, initialized, accountLoading, invalidatedAccountSubject, ended,
                     allowedAccountAccessToken>>
  BY ProofsChangeOfWallets DEF ProofEventArrives, Unheard
<1>2. /\ SP!IInv' /\ Active' = Active /\ Own' = Own
      /\ UNCHANGED <<activeHandle, subscribed, raced>>
  BY <1>1, SilentTurn
<1>3. /\ proof \in ProofMaps
      /\ allowedAccountAccessToken' \in TokensOrNone /\ proofNews' \subseteq Handles
  BY <1>1, IInvTypes DEF IInv, SessionTypeOK
<1> QED BY <1>1, <1>2, <1>3, ProofNoticeKeeps, QuietObserves

(* A proof expires while the timer watches it: then the timer is due.      *)
LEMMA ProofExpiresKeeps ==
  ASSUME IInv, NEW h \in ProofsChange, ProofExpires(h)
  PROVE  Keeps
<1>1. /\ NoStoreTurn /\ h \in Handles /\ proof[h] = "live"
      /\ proof' = [proof EXCEPT ![h] = "expired"] /\ proofNews' = proofNews
      /\ timer' = IF timer # None /\ timer.handle = h THEN [timer EXCEPT !.due = TRUE] ELSE timer
      /\ UNCHANGED controllerVars /\ UNCHANGED sessionVars
  BY ProofsChangeOfWallets DEF ProofExpires, controllerVars, sessionVars
<1>2. SP!IInv' /\ Own' = Own /\ UNCHANGED <<subscribed, raced>>
  BY <1>1, SilentTurn
<1>3. CP!IInv' /\ CP!Turn
  BY <1>1, ControllerSteps DEF IInv
<1>4. SessionTypeOK'
  <2>1. timer' \in Timers \cup {None}
    BY <1>1 DEF IInv, SessionTypeOK, Timers
  <2> QED BY <1>1, <2>1 DEF IInv, SessionTypeOK, ProofStates, sessionVars
<1>5. StartedInv' /\ SubjectInv' /\ HydratingOnlyWhileLoading'
  BY <1>1, <1>2 DEF IInv, StartedInv, SubjectInv, SubjectOfAccount,
                    HydratingOnlyWhileLoading, controllerVars, sessionVars
<1>6. LoadingInv => LoadingInv'
  BY <1>1, <1>2 DEF LoadingInv, Known, OwnProofKnown, controllerVars, sessionVars
<1>7. ASSUME Known', OwnProofKnown', Own' # None
      PROVE  /\ Known /\ OwnProofKnown /\ Own # None /\ Own' = Own
             /\ wallet' = wallet /\ initialized' = initialized
             /\ Own.handle # h => OwnLive' = OwnLive /\ OwnExpired' = OwnExpired
             /\ Own.handle = h => ~OwnLive' /\ OwnExpired' /\ OwnLive
  BY <1>1, <1>2, <1>7, IInvTypes
  DEF Known, OwnProofKnown, OwnLive, OwnExpired, controllerVars, sessionVars, ProofMaps
<1>8. ASSUME Known', OwnProofKnown', Own' # None, NEW due \in BOOLEAN, Watching(due)
      PROVE  /\ Own.handle = h => timer' = [handle |-> Own.handle, due |-> TRUE]
             /\ Own.handle # h => timer' = timer
  <2>1. timer \in Timers /\ timer # None /\ timer.handle = Own.handle
    <3>1. timer \in Timers \cup {None} /\ Own \in Store!StoredWallets \cup {None} /\ Own # None
      BY <1>2, <1>8, IInvTypes DEF IInv, SessionTypeOK, SP!TypeOK, Own, Tabs,
         SP!StoredWallets, Store!StoredWallets
    <3>2. Own.handle \in Handles
      BY <3>1 DEF Store!StoredWallets
    <3>3. [handle |-> Own.handle, due |-> due] \in Timers
      BY <3>2 DEF Timers
    <3> QED BY <1>8, <3>3, NoneIsNoValue DEF Watching
  <2> QED BY <1>1, <2>1 DEF Timers
<1>9. TimerInv'
  <2> SUFFICES ASSUME Known', OwnProofKnown', Own' # None, OwnLive' PROVE Watching(FALSE)'
    BY DEF TimerInv
  <2>1. Own.handle # h /\ OwnLive /\ Watching(FALSE)
    BY <1>7 DEF IInv, TimerInv
  <2> QED BY <1>2, <1>8, <2>1 DEF Watching
<1>10. CandidateInv'
  <2> SUFFICES ASSUME Known', OwnProofKnown' PROVE CandidateInv'
    BY DEF CandidateInv
  <2>0. /\ Known /\ OwnProofKnown /\ Own' = Own /\ wallet' = wallet /\ initialized' = initialized
    BY <1>1, <1>2 DEF Known, OwnProofKnown, controllerVars, sessionVars
  <2>1. CASE wallet = None
    BY <2>0, <2>1 DEF CandidateInv, IInv
  <2>2. CASE wallet # None
    <3>1. /\ Own # None /\ wallet.handle = Own.handle
          /\ OwnExpired \/ (wallet.proof <=> OwnLive /\ Own.facts \in Facts)
          /\ wallet.proof /\ OwnExpired => Watching(TRUE)
      BY <2>0, <2>2 DEF IInv, CandidateInv
    <3>2. CASE Own.handle = h
      <4>1. OwnExpired' /\ OwnLive /\ Watching(FALSE)
        BY <1>7, <2>0, <3>1, <3>2 DEF IInv, TimerInv
      <4>2. Watching(TRUE)'
        BY <1>2, <1>8, <2>0, <3>1, <3>2, <4>1 DEF Watching
      <4> QED BY <2>0, <2>2, <3>1, <4>1, <4>2 DEF CandidateInv
    <3>3. CASE Own.handle # h
      <4>1. OwnLive' = OwnLive /\ OwnExpired' = OwnExpired
        BY <1>7, <2>0, <3>1, <3>3
      <4>2. Watching(TRUE) => Watching(TRUE)'
        BY <1>2, <1>8, <2>0, <3>1, <3>3 DEF Watching
      <4> QED BY <2>0, <2>2, <3>1, <4>1, <4>2 DEF CandidateInv
    <3> QED BY <3>2, <3>3
  <2> QED BY <2>1, <2>2
<1> QED BY <1>1, <1>2, <1>3, <1>4, <1>5, <1>6, <1>9, <1>10 DEF IInv, Keeps

-----------------------------------------------------------------------------
(***************************************************************************)
(* The timer.                                                              *)
(***************************************************************************)
LEMMA WatchedSessionExpiresKeeps == ASSUME IInv, WatchedSessionExpires PROVE Keeps
<1>1. /\ NoStoreTurn /\ timer # None /\ ~timer.due
      /\ timer.handle \in proofNews \/ proof[timer.handle] # "live"
      /\ timer' = [timer EXCEPT !.due = TRUE]
      /\ UNCHANGED <<proof, proofNews>> /\ UNCHANGED controllerVars /\ UNCHANGED sessionVars
  BY DEF WatchedSessionExpires, controllerVars, sessionVars
<1>2. SP!IInv' /\ Own' = Own /\ UNCHANGED <<subscribed, raced>>
  BY <1>1, SilentTurn
<1>3. CP!IInv' /\ CP!Turn
  BY <1>1, ControllerSteps DEF IInv
<1>4. SessionTypeOK'
  <2>1. timer' \in Timers \cup {None}
    BY <1>1 DEF IInv, SessionTypeOK, Timers
  <2> QED BY <1>1, <2>1 DEF IInv, SessionTypeOK, sessionVars
<1>5. StartedInv' /\ SubjectInv' /\ HydratingOnlyWhileLoading'
  BY <1>1, <1>2 DEF IInv, StartedInv, SubjectInv, SubjectOfAccount,
                    HydratingOnlyWhileLoading, controllerVars, sessionVars
<1>6. LoadingInv => LoadingInv'
  BY <1>1, <1>2 DEF LoadingInv, Known, OwnProofKnown, controllerVars, sessionVars
<1>7. ASSUME Watching(FALSE) PROVE Own.handle \in proofNews \/ ~OwnLive
  BY <1>1, <1>7 DEF Watching, OwnLive
<1>8. ~Watching(TRUE)
  BY <1>1 DEF Watching
<1>9. TimerInv'
  BY <1>1, <1>2, <1>7
  DEF IInv, TimerInv, Known, OwnProofKnown, OwnLive, controllerVars, sessionVars
<1>10. CandidateInv'
  BY <1>1, <1>2, <1>8
  DEF IInv, CandidateInv, Known, OwnProofKnown, OwnLive, OwnExpired, controllerVars, sessionVars
<1> QED BY <1>2, <1>3, <1>4, <1>5, <1>6, <1>9, <1>10 DEF IInv, Keeps

(* While the host loads, the timer fires for a proof that is gone, or that *)
(* its reading removes with the account: a live one is watched until it    *)
(* expires.                                                                *)
LEMMA TimerFiresKeeps == ASSUME IInv, TimerFires PROVE Keeps
<1>1. /\ Listening /\ timer # None /\ timer.due /\ NoStoreTurn
      /\ proof' = AfterLoad(proof, activeHandle') /\ timer' = Scheduled'
      /\ ahead' = (here \in news \/ (ahead /\ accountLoading))
      /\ retried' = (retried /\ proof' = proof)
      /\ UNCHANGED <<started, initialized, accountLoading, allowedAccountAccessToken,
                     proofNews, invalidatedAccountSubject, ended>>
  BY DEF TimerFires, ReadActiveProof, Unheard
<1>2. /\ SP!IInv' /\ Active' = Active /\ Own' = Own
      /\ UNCHANGED <<activeHandle, subscribed, raced>> /\ SP!TypeOK'
  BY <1>1, SilentTurn DEF SP!IInv
<1>3. PICK a \in {account, None} :
        /\ Controller!Replace(CurrentWallet', a, "wallet_change")
        /\ accountLoading /\ proof' # proof => a = None
  BY DEF TimerFires, Controller!SetWallet
<1>4. /\ CP!Replaces /\ wallet' = CurrentWallet' /\ account' = a /\ disposed' = disposed
      /\ snapshot'.runtime.phase # "hydrating" /\ ~snapshot'.privateAccountAccess
      /\ activeCheck' # 0 => wallet' # None /\ a # None
  <2>1. a \in TokensOrNone /\ CurrentWallet' \in Candidates /\ "wallet_change" \in CP!Reasons
    BY <1>2, CurrentTypes, IInvTypes, ReasonsAre DEF TokensOrNone
  <2> QED BY <1>3, <2>1, ReplacedFacts
<1>5. CP!IInv' /\ CP!Turn
  BY <1>4, ControllerSteps DEF IInv
<1>6. SessionTypeOK'
  <2>1. proof' \in ProofMaps /\ timer' \in Timers \cup {None} /\ ahead' \in BOOLEAN
    BY <1>1, <1>2, AfterLoadType, CurrentTypes, IInvTypes DEF IInv, SessionTypeOK
  <2> QED BY <1>1, <2>1 DEF IInv, SessionTypeOK, ProofMaps, TokensOrNone
<1>7. StartedInv' /\ SubjectInv' /\ HydratingOnlyWhileLoading'
  BY <1>1, <1>2, <1>4
  DEF IInv, StartedInv, Listening, SubjectInv, SubjectOfAccount, HydratingOnlyWhileLoading
<1>8. Known' => Own' = Active'
  BY <1>1, <1>2, QuietObserves DEF Known
<1>9. TimerInv' /\ CandidateInv'
  BY <1>1, <1>2, <1>4, <1>8, ReadingKeepsCandidate, ReadingKeepsTimer, IInvTypes
<1>10. LoadingInv'
  <2> SUFFICES ASSUME Known', OwnProofKnown', accountLoading, activeCheck' # 0
               PROVE  ~wallet'.proof
    BY <1>1, <1>4 DEF LoadingInv
  <2>1. Known /\ OwnProofKnown /\ Own = Active
    BY <1>1, <1>2, <1>4, QuietObserves DEF Known, OwnProofKnown
  <2>2. proof' = proof /\ wallet' # None
    BY <1>3, <1>4
  <2>3. /\ ActiveParts /\ CurrentParts'
    BY <1>2, ActiveHasParts, PartsNext, IInvTypes
  <2>4. /\ activeHandle # None /\ Own # None /\ Own.handle = activeHandle
        /\ wallet'.proof => proof[activeHandle] = "live"
    BY <1>2, <1>4, <2>1, <2>2, <2>3 DEF ActiveParts, CurrentParts
  <2>5. ~Watching(FALSE)
    BY <1>1 DEF Watching
  <2> QED BY <2>1, <2>4, <2>5 DEF IInv, TimerInv, OwnLive
<1> QED BY <1>2, <1>5, <1>6, <1>7, <1>9, <1>10 DEF IInv, Keeps

-----------------------------------------------------------------------------
(***************************************************************************)
(* The answers.                                                            *)
(***************************************************************************)

(* The resolver turns a truthful response into a truthful answer, and a    *)
(* pair without a proof never gets a verdict.                              *)
LEMMA VerifiedFacts ==
  ASSUME NEW c, NEW response \in Resolver!Responses, Truthful(c, response)
  PROVE  /\ Verified(c, response) \in CP!Answers
         /\ CP!MayAnswer(c, Verified(c, response))
         /\ ~c.wallet.proof => Verified(c, response) \notin CP!Verdicts
<1>1. CASE ~c.wallet.proof
  <2>1. Verified(c, response) = [kind |-> "expired", is |-> "wallet"]
    BY <1>1 DEF Verified, Resolver!Expired
  <2> QED BY <2>1 DEF CP!Answers, CP!Failures, CP!Verdicts, CP!Subjects, CP!MayAnswer
<1>2. CASE c.wallet.proof
  <2>1. Verified(c, response) = Resolver!Verify(response)
    BY <1>2 DEF Verified
  <2>2. CASE response.kind = "relation" /\ response.is \in {"bound", "conflict"}
    <3>1. Resolver!Verify(response) = [kind |-> "verdict", is |-> response.is]
      BY <2>2 DEF Resolver!Verify, Resolver!Resolve, Resolver!RelationMatchesSuppliedProofs
    <3>2. (response.is = "bound") = (<<c.wallet, c.account>> \in Bound)
      BY <2>2 DEF Truthful
    <3> QED BY <1>2, <2>1, <2>2, <3>1, <3>2 DEF CP!Answers, CP!Verdicts, CP!MayAnswer
  <2>3. CASE ~(response.kind = "relation" /\ response.is \in {"bound", "conflict"})
    <3>1. Resolver!Verify(response) \in
            {[kind |-> "offline", is |-> "-"], [kind |-> "error", is |-> "-"],
             [kind |-> "expired", is |-> "wallet"], [kind |-> "expired", is |-> "account"]}
      BY <2>3 DEF Resolver!Verify, Resolver!Resolve, Resolver!RelationMatchesSuppliedProofs,
                  Resolver!Responses, Resolver!Offline, Resolver!Error, Resolver!Expired
    <3> QED BY <1>2, <2>1, <3>1
            DEF CP!Answers, CP!Failures, CP!Verdicts, CP!Subjects, CP!MayAnswer
  <2> QED BY <2>2, <2>3
<1> QED BY <1>1, <1>2

LEMMA CheckAnsweredKeeps ==
  ASSUME IInv, NEW c \in checks, NEW response \in Resolver!Responses, CheckAnswered(c, response)
  PROVE  Keeps
<1>1. PICK answer \in CP!Answers :
        /\ CP!Deliver(c, answer) /\ CP!MayAnswer(c, answer)
        /\ ~c.wallet.proof => answer \notin CP!Verdicts
  BY VerifiedFacts, SameDeliver DEF CheckAnswered
<1>2. NoStoreTurn /\ UNCHANGED proofVars /\ UNCHANGED sessionVars
  BY DEF CheckAnswered
<1>3. SP!IInv' /\ Own' = Own /\ UNCHANGED <<subscribed, raced>>
  BY <1>2, SilentTurn
<1>4. CP!Answer(c, answer)
  BY <1>1 DEF CP!Answer
<1>5. CP!IInv' /\ CP!Turn
  BY <1>4, ControllerSteps DEF IInv, CP!Answered
<1>6. UNCHANGED <<wallet, account, disposed>>
  BY <1>1 DEF CP!Deliver
<1>7. \/ UNCHANGED <<snapshot, activeCheck>>
      \/ /\ snapshot' = CP!Judged(c, answer) /\ activeCheck' = 0 /\ activeCheck # 0
         /\ c.wallet = wallet
  <2>1. CASE CP!IsCurrentCheck(c)
    BY <1>1, <2>1 DEF CP!Deliver, CP!IsCurrentCheck, IInv, CP!IInv, CP!ChecksInv
  <2>2. CASE ~CP!IsCurrentCheck(c)
    BY <1>1, <2>2 DEF CP!Deliver
  <2> QED BY <2>1, <2>2
<1>8. /\ CP!Judged(c, answer).runtime.phase # "hydrating"
      /\ answer \notin CP!Verdicts => ~CP!Judged(c, answer).privateAccountAccess
  <2>1. CP!FailureRuntime(answer).phase \in {"offline", "expired", "error"}
    BY DEF CP!FailureRuntime, CP!Plain
  <2> QED BY <2>1 DEF CP!Judged, CP!FrozenSnapshot, CP!Plain
<1>9. SessionTypeOK' /\ StartedInv' /\ SubjectInv'
  BY <1>2, <1>3, <1>6 DEF IInv, SessionTypeOK, StartedInv, SubjectInv, SubjectOfAccount,
                          proofVars, sessionVars
<1>10. HydratingOnlyWhileLoading'
  BY <1>2, <1>6, <1>7, <1>8 DEF IInv, HydratingOnlyWhileLoading, sessionVars
<1>11. TimerInv' /\ CandidateInv'
  <2>1. Left
    BY <1>2, <1>3, <1>6 DEF Left, Known, OwnProofKnown, proofVars, sessionVars
  <2> QED BY <2>1, LeftKeeps DEF IInv
<1>12. LoadingInv => LoadingInv'
  BY <1>1, <1>2, <1>3, <1>6, <1>7, <1>8
  DEF LoadingInv, Known, OwnProofKnown, proofVars, sessionVars
<1> QED BY <1>3, <1>5, <1>9, <1>10, <1>11, <1>12 DEF IInv, Keeps

-----------------------------------------------------------------------------
(***************************************************************************)
(* The invariant.                                                          *)
(***************************************************************************)
LEMMA ControllerBegins == Controller!Init => CP!Init
BY DEF Controller!Init, Controller!Provisional, Controller!FrozenSnapshot,
       Controller!ProvisionalRelation, Controller!Plain, CP!Init, CP!Provisional,
       CP!FrozenSnapshot, CP!ProvisionalRelation, CP!Plain

LEMMA InitIInv == Init => IInv
<1> SUFFICES ASSUME Init PROVE IInv
  OBVIOUS
<1>1. Controller!Init /\ Store!Init
  BY DEF Init
<1>2. CP!IInv
  BY <1>1, ControllerBegins, CP!InitIInv, ControllerAssumptions
<1>3. SP!IInv
  BY <1>1 DEF Store!Init, Store!Rows, SP!IInv, SP!TypeOK, SP!Rows, SP!ObservedIsStored,
              SP!BelievedInv, SP!Quiet
<1>4. SessionTypeOK
  BY DEF Init, SessionTypeOK, ProofStates, TokensOrNone
<1>5. wallet = None
  BY <1>1 DEF Controller!Init
<1> QED BY <1>2, <1>3, <1>4, <1>5
        DEF Init, IInv, StartedInv, TimerInv, CandidateInv, SubjectInv,
            HydratingOnlyWhileLoading, LoadingInv, Known

LEMMA StepKeeps == IInv /\ [Next]_vars => Keeps
<1> SUFFICES ASSUME IInv, [Next]_vars PROVE Keeps
  OBVIOUS
<1>1. CASE UNCHANGED vars
  <2>1. /\ UNCHANGED controllerVars /\ UNCHANGED proofVars /\ UNCHANGED sessionVars
        /\ UNCHANGED storeVars
    BY <1>1 DEF vars
  <2>2. CP!IInv' /\ CP!Turn
    BY <2>1, ControllerSteps DEF IInv
  <2>3. SP!IInv'
    BY <2>1 DEF storeVars, IInv, SP!IInv, SP!TypeOK, SP!ObservedIsStored, SP!BelievedInv,
                SP!Quiet, SP!ActiveWallet
  <2>4. SessionTypeOK' /\ StartedInv' /\ SubjectInv' /\ HydratingOnlyWhileLoading'
    BY <2>1 DEF IInv, SessionTypeOK, StartedInv, SubjectInv, SubjectOfAccount,
                HydratingOnlyWhileLoading, controllerVars, storeVars, proofVars, sessionVars
  <2>5. Left /\ UNCHANGED <<controllerVars, accountLoading, retried>>
    BY <2>1 DEF Left, Known, OwnProofKnown, Own, controllerVars, storeVars, proofVars, sessionVars
  <2> QED BY <2>2, <2>3, <2>4, <2>5, LeftKeeps, LoadingLeft DEF IInv, Keeps
<1>2. ASSUME NEW h \in ProofsChange, NEW f \in Facts, ActivateVault(h, f),
             UNCHANGED allowedAccountAccessToken
      PROVE  Keeps
  BY <1>2, ProofsChangeOfWallets, ActivateVaultKeeps DEF IInv, SessionTypeOK
<1>3. CASE Next
  BY <1>2, <1>3, RestoreKeeps, SetAccountSessionKeeps, SetAccountLoadingKeeps, AllowKeeps, RetryKeeps,
     DisposeKeeps, WalletChangesHereKeeps, WalletChangesElsewhereKeeps, WalletEventArrivesKeeps,
     ProofChangesHereKeeps, ProofChangedElsewhereKeeps, ProofEventArrivesKeeps,
     ProofExpiresKeeps, WatchedSessionExpiresKeeps, TimerFiresKeeps, CheckAnsweredKeeps
  DEF Next
<1> QED BY <1>1, <1>3

LEMMA IInvHolds == Spec => []IInv
<1>1. Init => IInv
  BY InitIInv
<1>2. IInv /\ [Next]_vars => IInv'
  BY StepKeeps DEF Keeps
<1> QED BY <1>1, <1>2, PTL DEF Spec

-----------------------------------------------------------------------------
(***************************************************************************)
(* The theorems.                                                           *)
(***************************************************************************)

(* Every variable of the tab keeps its type, those of the controller and   *)
(* of the store included.                                                  *)
THEOREM TypeCorrect == Spec => []TypeOK
<1>1. IInv => TypeOK
  BY SameControllerTypes, SameStoreTypes
  DEF IInv, CP!IInv, SP!IInv, TypeOK, SessionTypeOK
<1> QED BY <1>1, IInvHolds, PTL

(* Once the tab is quiet it knows what storage holds.                      *)
LEMMA SettledKnows ==
  ASSUME IInv, Settled
  PROVE  /\ Known /\ OwnProofKnown /\ initialized /\ Own = Active
         /\ ActiveParts /\ CurrentParts /\ wallet \in Candidates
BY QuietObserves, ActiveHasParts, CurrentHasParts, IInvTypes
DEF Settled, Quiet, Known, OwnProofKnown, Listening, IInv, StartedInv

(* Account data is open only for the active Wallet of a quiet tab, and     *)
(* only to the account that it is bound to (identityCoordinator.ts).       *)
THEOREM AccessFollowsStorage == Spec => []AccessIsForActiveWallet
<1>1. ASSUME IInv, Settled, snapshot.privateAccountAccess
      PROVE  /\ activeHandle # None /\ account # None
             /\ OwnerOf[activeHandle] = SubjectOf[account]
  <2>1. <<wallet, account>> \in Bound
    BY <1>1 DEF IInv, CP!IInv, CP!SnapshotInv
  <2>2. /\ wallet \in Wallets /\ account \in Tokens
        /\ OwnerOf[wallet.handle] = SubjectOf[account]
    BY <2>1 DEF Bound, Accounts
  <2>3. wallet # None /\ account # None
    BY <2>2, NoneIsNoValue
  <2>4. Own # None /\ wallet.handle = Own.handle
    BY <1>1, <2>3, SettledKnows DEF IInv, CandidateInv
  <2>5. activeHandle # None /\ Own.handle = activeHandle
    BY <1>1, <2>4, SettledKnows DEF ActiveParts
  <2> QED BY <2>2, <2>3, <2>4, <2>5
<1>2. IInv => AccessIsForActiveWallet
  BY <1>1 DEF AccessIsForActiveWallet
<1> QED BY <1>2, IInvHolds, PTL

(* The Wallet candidate of a quiet tab is the stored active Wallet with    *)
(* the stored proof, but for a proof that expired unread.                  *)
THEOREM CandidateFollowsStorage == Spec => []CandidateIsCurrent
<1>1. ASSUME IInv, Settled, wallet # CurrentWallet
      PROVE  /\ activeHandle # None /\ proof[activeHandle] = "expired"
             /\ wallet # None /\ wallet.handle = activeHandle
  <2>1. /\ wallet = None <=> Own = None
        /\ Own # None =>
             /\ wallet.handle = Own.handle
             /\ OwnExpired \/ (wallet.proof <=> OwnLive /\ Own.facts \in Facts)
    BY <1>1, SettledKnows DEF IInv, CandidateInv
  <2>2. Own = Active /\ ActiveParts /\ CurrentParts /\ wallet \in Candidates
    BY <1>1, SettledKnows
  <2>3. activeHandle # None /\ wallet # None /\ wallet.handle = activeHandle
    BY <1>1, <2>1, <2>2 DEF ActiveParts, CurrentParts
  <2>4. wallet \in Wallets /\ CurrentWallet \in Wallets
    BY <2>2, <2>3 DEF Candidates, CurrentWallet, Wallets, ActiveParts
  <2>5. wallet.proof # CurrentWallet.proof
    BY <1>1, <2>2, <2>3, <2>4 DEF Wallets, CurrentParts
  <2>6. OwnExpired
    BY <2>1, <2>2, <2>3, <2>4, <2>5 DEF ActiveParts, CurrentParts, OwnLive, Wallets
  <2> QED BY <2>2, <2>3, <2>6 DEF OwnExpired, ActiveParts
<1>2. IInv => CandidateIsCurrent
  BY <1>1 DEF CandidateIsCurrent
<1> QED BY <1>2, IInvHolds, PTL

(* The timer of a quiet tab is due if the candidate's proof has expired    *)
(* (scheduleProofExpiry()).                                                *)
THEOREM ExpiryIsNoticed == Spec => []ExpiredProofIsWatched
<1>1. ASSUME IInv, Settled, wallet # None, wallet.proof, proof[wallet.handle] = "expired"
      PROVE  timer # None /\ timer.due
  <2>1. Own # None /\ wallet.handle = Own.handle /\ Watching(TRUE)
    BY <1>1, SettledKnows DEF IInv, CandidateInv, OwnExpired
  <2>2. timer = [handle |-> wallet.handle, due |-> TRUE] /\ wallet.handle \in Handles
    BY <1>1, <2>1, SettledKnows DEF Watching, Candidates, Wallets
  <2>3. timer \in Timers
    BY <2>2 DEF Timers
  <2> QED BY <2>2, <2>3, NoneIsNoValue
<1>2. IInv => ExpiredProofIsWatched
  BY <1>1 DEF ExpiredProofIsWatched
<1> QED BY <1>2, IInvHolds, PTL

(* The "hydrating" phase ends with the host's loading: every call that     *)
(* ends it asks about the pair or settles it.                              *)
THEOREM HydratingEnds == Spec => []HydratingOnlyWhileLoading
<1>1. IInv => HydratingOnlyWhileLoading
  BY DEF IInv
<1> QED BY <1>1, IInvHolds, PTL

(* No account of the subject that a Wallet change invalidated is a         *)
(* candidate, nor the subject of a check that may publish.                 *)
THEOREM InvalidatedStaysOut == Spec => []InvalidatedAccountStaysOut
<1>1. ASSUME IInv, invalidatedAccountSubject # None, NEW c \in checks,
             Controller!IsCurrentCheck(c)
      PROVE  SubjectOf[c.account] # invalidatedAccountSubject
  <2>1. c.account = account /\ c.account \in Tokens
    BY <1>1, SameCurrent
    DEF CP!IsCurrentCheck, IInv, CP!IInv, CP!TypeOK, CP!ChecksInv, CP!Checks, Accounts
  <2>2. SubjectOfAccount = SubjectOf[c.account]
    BY <2>1, NoneIsNoValue DEF SubjectOfAccount
  <2> QED BY <1>1, <2>2 DEF IInv, SubjectInv
<1>2. IInv => InvalidatedAccountStaysOut
  BY <1>1 DEF InvalidatedAccountStaysOut, IInv, SubjectInv
<1> QED BY <1>2, IInvHolds, PTL

(* While the host loads, a quiet tab keeps account data closed             *)
(* (keepAccountLoadingLocked), whatever happens to the Wallet and to its   *)
(* proofs, unless retry() asked about the locked account                   *)
(* (identityCoordinator.ts:316) and nothing has locked it again since.     *)
THEOREM LoadingStaysLocked == Spec => []LoadingKeepsLocked
<1>1. IInv => LoadingKeepsLocked
  BY SettledKnows DEF LoadingKeepsLocked, LoadingInv, IInv
<1> QED BY <1>1, IInvHolds, PTL

-----------------------------------------------------------------------------
(***************************************************************************)
(* The page (ConnectFlow.tla): the operations of useDexterConnection over  *)
(* the coordinator of its only tab.                                        *)
(***************************************************************************)

(* Nothing is on its way to the tab.                                       *)
Alone == ~disposed /\ here \notin raced /\ here \notin news /\ ~ahead /\ proofNews = {}

(* What is known of the coordinator under the page.                        *)
Core == IInv /\ Alone

PageTypeOK ==
  /\ decided \in Sessions /\ session \in Sessions
  /\ effectDue \in BOOLEAN /\ settled \in BOOLEAN
  /\ action \in Operations \cup {"idle"}
  /\ target \in Targets \cup {None}
  /\ error \in BOOLEAN
  /\ flow \in [Operations -> Flows]
  /\ meddled \in BOOLEAN /\ stale \in BOOLEAN

(* An operation that connects is the action of the page until it failed or *)
(* the pair it installed, its target, is shown.                            *)
ControlInv ==
  /\ Running("connecting") => action = "connecting" /\ target = None
  /\ target # None => action = "connecting"
  /\ settled => ~effectDue

(* The ceremony answered with a Wallet.                                    *)
AnsweredInv == flow["connecting"].at = "binding" => flow["connecting"].handle \in Handles

(* The coordinator has the host's session, or has refused it;              *)
FromHost ==
  IF session = Loading THEN accountLoading ELSE ~accountLoading /\ account \in {session, None}

(* or it has the session that an operation is installing.                  *)
InstallPlaces == {"settling", "clearing", "undo", "failed"}

FromInstall ==
  /\ ~accountLoading
  /\ \/ /\ flow["connecting"].at \in InstallPlaces
        /\ account \in {flow["connecting"].token, None}
     \/ target # None /\ account \in {target.token, None}

SessionInv == effectDue \/ stale \/ FromHost \/ FromInstall

(* Where an undisturbed operation has the Wallet of before active: while   *)
(* it has changed nothing yet, and once it has undone its change.          *)
LeavesWallet(op) ==
  CASE op = "connecting"    -> {"passkey", "binding", "failed", "reconciling"}
    [] op = "disconnecting" -> {"failed", "reconciling"}
    [] OTHER                -> {}

WalletInv ==
  ~meddled =>
    /\ \A op, other \in Operations : Running(op) /\ Running(other) => op = other
    /\ \A op \in Operations : flow[op].at \in LeavesWallet(op) => activeHandle = flow[op].previous

PageInv == PageTypeOK /\ ControlInv /\ AnsweredInv /\ SessionInv /\ WalletInv

PageIInv == Core /\ PageInv

-----------------------------------------------------------------------------
(***************************************************************************)
(* What the page's calls do to the coordinator.                            *)
(***************************************************************************)
LEMMA KeepsCore == ASSUME Core, Keeps, Alone' PROVE Core' /\ CP!Turn
BY DEF Core, Keeps

LEMMA RestsOnPage ==
  ASSUME Core, CoordinatorRests
  PROVE  Core' /\ CP!Turn /\ UNCHANGED <<controllerVars, activeHandle, accountLoading, account>>
<1>1. /\ NoStoreTurn /\ UNCHANGED controllerVars /\ UNCHANGED proofVars
      /\ UNCHANGED <<started, accountLoading, invalidatedAccountSubject,
                     allowedAccountAccessToken, initialized, ahead, retried, ended>>
  BY DEF CoordinatorRests, sessionVars
<1>2. UNCHANGED <<activeHandle, news, raced>>
  BY <1>1, SilentTurn DEF Core
<1>3. Keeps
  BY <1>1, IdleTurnKeeps DEF Core, IInv, SessionTypeOK
<1>4. Alone'
  BY <1>1, <1>2 DEF Core, Alone, controllerVars, proofVars
<1> QED BY <1>1, <1>2, <1>3, <1>4, KeepsCore DEF controllerVars

(* The calls that only start() may have to do with the store.              *)
LEMMA StartOnPage ==
  ASSUME Core, Start, disposed' = disposed, ahead' = ahead, proofNews' = proofNews
  PROVE  Alone' /\ activeHandle' = activeHandle
<1>1. /\ UNCHANGED <<activeHandle, news>>
      /\ started => raced' = raced
      /\ ~started => here \notin raced'
  BY StartFacts DEF Core
<1> QED BY <1>1 DEF Core, Alone

LEMMA RestoreOnPage ==
  ASSUME Core, NEW token \in TokensOrNone, RestoreCall(token), initialized' \in {initialized, TRUE}
  PROVE  Core' /\ CP!Turn /\ account' = token /\ accountLoading' = FALSE /\ activeHandle' = activeHandle
<1>1. /\ Start /\ disposed' = disposed /\ account' = token /\ accountLoading' = FALSE
      /\ ahead' = ahead /\ proofNews' = proofNews
  BY DEF RestoreCall, Controller!Restore, Controller!Replace, Core, Alone, IInv, SessionTypeOK
<1>2. Keeps
  BY RestoreCallKeeps DEF Core
<1> QED BY <1>1, <1>2, StartOnPage, KeepsCore

LEMMA SetSessionOnPage ==
  ASSUME Core, NEW token \in TokensOrNone, SetAccountSession(token)
  PROVE  /\ Core' /\ CP!Turn /\ account' \in {token, None} /\ accountLoading' = FALSE
         /\ activeHandle' = activeHandle
<1>1. /\ Start /\ accountLoading' = FALSE /\ ahead' = ahead /\ proofNews' = proofNews
  BY DEF SetAccountSession
<1>2. disposed' = disposed /\ account' \in {token, None}
  <2>1. CASE AlreadySettled(token)
    BY <2>1 DEF SetAccountSession, AlreadySettled, controllerVars
  <2>2. CASE token = None
    BY <2>2 DEF SetAccountSession, AlreadySettled, Controller!SetAccount, Controller!Replace
  <2>3. CASE token # None /\ ~AlreadySettled(token) /\ Refused(token)
    BY <2>3 DEF SetAccountSession, Controller!SetAccount, Controller!Replace
  <2>4. CASE token # None /\ ~AlreadySettled(token) /\ ~Refused(token)
    BY <2>4 DEF SetAccountSession, Controller!SetAccount, Controller!Replace
  <2> QED BY <2>1, <2>2, <2>3, <2>4
<1>3. Keeps
  BY SetAccountSessionKeeps DEF Core
<1> QED BY <1>1, <1>2, <1>3, StartOnPage, KeepsCore

LEMMA LoadingOnPage ==
  ASSUME Core, SetAccountLoading
  PROVE  Core' /\ CP!Turn /\ accountLoading' = TRUE /\ activeHandle' = activeHandle
<1>1. /\ Start /\ accountLoading' = TRUE /\ ahead' = ahead /\ proofNews' = proofNews
      /\ disposed' = disposed
  BY DEF SetAccountLoading, Controller!BeginRestore, Controller!Lock
<1>2. Keeps
  BY SetAccountLoadingKeeps DEF Core
<1> QED BY <1>1, <1>2, StartOnPage, KeepsCore

LEMMA RetryOnPage ==
  ASSUME Core, RetryRelation
  PROVE  /\ Core' /\ CP!Turn /\ account' = account /\ accountLoading' = accountLoading
         /\ activeHandle' = activeHandle
<1>1. /\ Start /\ UNCHANGED <<proofNews, accountLoading, ahead, disposed, account>>
  BY DEF RetryRelation, Controller!Retry, Controller!Replace, proofVars
<1>2. Keeps
  BY RetryKeeps DEF Core
<1> QED BY <1>1, <1>2, StartOnPage, KeepsCore

LEMMA AnswerOnPage ==
  ASSUME Core, NEW c \in checks, NEW response \in Resolver!Responses, CheckAnswered(c, response)
  PROVE  /\ Core' /\ CP!Turn /\ account' = account /\ accountLoading' = accountLoading
         /\ activeHandle' = activeHandle
<1>1. /\ NoStoreTurn /\ UNCHANGED proofVars /\ UNCHANGED sessionVars
      /\ UNCHANGED <<account, disposed>>
  BY DEF CheckAnswered, Controller!Deliver
<1>2. UNCHANGED <<activeHandle, news, raced>>
  BY <1>1, SilentTurn DEF Core
<1>3. Alone'
  BY <1>1, <1>2 DEF Core, Alone, proofVars, sessionVars
<1>4. Keeps
  BY CheckAnsweredKeeps DEF Core
<1> QED BY <1>1, <1>2, <1>3, <1>4, KeepsCore DEF sessionVars

(* A change of the Wallet in the only tab leaves nothing on its way.       *)
LEMMA TellsAlone ==
  ASSUME Core, Tells(here)
  PROVE  here \notin raced' /\ here \notin news'
BY DEF Tells, Core, Alone

LEMMA ChangeOnPage ==
  ASSUME Core, WalletChange(here), NEW written \in ProofMaps, OnWalletNotice(written),
         Active' = Active => written = proof,
         UNCHANGED proofNews, Unheard
  PROVE  /\ Core' /\ CP!Turn /\ account' \in {account, None} /\ accountLoading' = accountLoading
<1>1. here \in Tabs /\ UNCHANGED <<started, accountLoading, allowedAccountAccessToken, initialized>>
  BY DEF Tabs, Unheard
<1>2. SP!IInv' /\ Tells(here)
  BY <1>1, ChangeTells DEF Core
<1>3. /\ Own' = Active' /\ subscribed' = subscribed
      /\ Listening /\ ~event'.invalidates /\ here \notin raced' =>
           here \notin raced /\ Own' = Own /\ Active' = Active
  BY <1>2, TellsHere DEF Core
<1>4. Listening /\ ~Told => ~event'.invalidates
  BY <1>2 DEF Told, Tells
<1>5. Keeps
  BY <1>1, <1>2, <1>3, <1>4, WalletNoticeKeeps DEF Core, IInv, SessionTypeOK
<1>6. activeHandle' \in Handles \cup {None}
  BY <1>2 DEF SP!IInv, SP!TypeOK
<1>7. /\ Told => Reread(written)
      /\ ~Told => UNCHANGED controllerVars
  BY <1>6, WalletNotice DEF Core
<1>8. account' \in {account, None} /\ disposed' = disposed
  BY <1>7 DEF Reread, controllerVars
<1>9. ahead' = FALSE
  BY DEF OnWalletNotice, Core, Alone, IInv, SessionTypeOK
<1>10. Alone'
  BY <1>2, <1>8, <1>9, TellsAlone DEF Core, Alone
<1> QED BY <1>1, <1>5, <1>8, <1>10, KeepsCore

LEMMA ActivateOnPage ==
  ASSUME Core, NEW h \in Handles, NEW f \in Facts, ActivateVault(h, f),
         allowedAccountAccessToken' \in TokensOrNone
  PROVE  /\ Core' /\ CP!Turn /\ account' \in {account, None} /\ accountLoading' = accountLoading
<1> DEFINE written == [proof EXCEPT ![h] = "live"]
<1>1. /\ Store!Activate(here, h, f) /\ here \in Tabs
      /\ IF event'.invalidates
           THEN OnWalletNotice(written)
           ELSE OnProofNotice(h, written)
      /\ UNCHANGED <<started, initialized, accountLoading, proofNews>>
  BY DEF ActivateVault, Tabs
<1>2. Tells(here) /\ SP!IInv'
  BY <1>1, ChangeTells DEF WalletChange, Core
<1>3. written \in ProofMaps /\ activeHandle' \in Handles \cup {None}
  BY <1>2, IInvTypes DEF ProofMaps, ProofStates, Core, SP!IInv, SP!TypeOK
<1> HIDE DEF written
<1>4. Keeps
  BY ActivateVaultKeeps DEF Core
<1>5. account' \in {account, None} /\ disposed' = disposed /\ ahead' = FALSE
  <2>1. CASE event'.invalidates
    <3>1. OnWalletNotice(written)
      BY <1>1, <2>1
    <3>2. /\ Told => Reread(written)
          /\ ~Told => UNCHANGED controllerVars
      BY <1>3, <3>1, WalletNotice DEF Core
    <3> QED BY <3>1, <3>2
            DEF OnWalletNotice, Reread, controllerVars, Core, Alone, IInv, SessionTypeOK
  <2>2. CASE ~event'.invalidates
    BY <1>1, <2>2 DEF OnProofNotice, KeepAccountLoadingLocked, Controller!Lock,
       Controller!SetWallet, Controller!Replace, controllerVars, Core, Alone, IInv, SessionTypeOK
  <2> QED BY <2>1, <2>2
<1>6. Alone'
  BY <1>1, <1>2, <1>5, TellsAlone DEF Core, Alone
<1> QED BY <1>1, <1>4, <1>5, <1>6, KeepsCore

(* Which Wallet a change leaves active.                                    *)
LEMMA ActivateMakesActive ==
  ASSUME NEW t, NEW h, NEW f, Store!Activate(t, h, f)
  PROVE  activeHandle' = h
BY DEF Store!Activate, Store!NothingWritten, Store!RolledBack

LEMMA DisconnectMakesNone ==
  ASSUME NEW t, Store!Disconnect(t)
  PROVE  activeHandle' = None
BY DEF Store!Disconnect, Store!NothingWritten

LEMMA RestoreWalletOnPage ==
  ASSUME Core, NEW previous \in Handles \cup {None}, RestoreWallet(previous)
  PROVE  /\ Core' /\ CP!Turn /\ account' \in {account, None} /\ accountLoading' = accountLoading
         /\ activeHandle' = previous
<1>0. proof \in ProofMaps
  BY IInvTypes DEF Core
<1>1. CASE previous # None
  <2>1. PICK f \in Facts : Store!Activate(here, previous, f)
    BY <1>1 DEF RestoreWallet
  <2>2. WalletChange(here) /\ activeHandle' = previous
    BY <1>1, <2>1, ActivateMakesActive DEF WalletChange
  <2>3. OnWalletNotice(proof) /\ UNCHANGED proofNews /\ Unheard
    BY <1>1 DEF RestoreWallet
  <2> QED BY <1>0, <2>2, <2>3, ChangeOnPage
<1>2. CASE previous = None /\ activeHandle # None
  <2>1. /\ Store!Disconnect(here) /\ OnWalletNotice(proof)
        /\ UNCHANGED proofNews /\ Unheard
    BY <1>2 DEF RestoreWallet
  <2>2. WalletChange(here) /\ activeHandle' = previous
    BY <1>2, <2>1, DisconnectMakesNone DEF WalletChange
  <2> QED BY <1>0, <2>1, <2>2, ChangeOnPage
<1>3. CASE previous = None /\ activeHandle = None
  BY <1>3, RestsOnPage DEF RestoreWallet
<1> QED BY <1>1, <1>2, <1>3

-----------------------------------------------------------------------------
(***************************************************************************)
(* What the page's steps do to its own state.                              *)
(***************************************************************************)
FlowMaps == [Operations -> Flows]

LEMMA NoFlowType == NoFlow \in Flows /\ NoFlow.at = "idle"
BY DEF NoFlow, Flows, Places, Sessions, TokensOrNone

(* The other operations' functions stand where they stood.                 *)
Others(op) == \A other \in Operations \ {op} : flow'[other] = flow[other]

LEMMA SetsFlow ==
  ASSUME flow \in FlowMaps, NEW op \in Operations, NEW f \in Flows,
         flow' = [flow EXCEPT ![op] = f]
  PROVE  flow' \in FlowMaps /\ flow'[op] = f /\ Others(op)
BY DEF FlowMaps, Others

LEMMA MovesFlow ==
  ASSUME flow \in FlowMaps, NEW op \in Operations, NEW place \in Places, Moves(op, place)
  PROVE  /\ flow' \in FlowMaps /\ Others(op)
         /\ flow'[op].at = place
         /\ flow'[op].previous = flow[op].previous /\ flow'[op].token = flow[op].token
<1> DEFINE f == [flow[op] EXCEPT !.at = place]
<1>1. f \in Flows /\ f.at = place /\ f.previous = flow[op].previous /\ f.token = flow[op].token
  BY DEF FlowMaps, Flows
<1>2. flow' = [flow EXCEPT ![op] = f]
  BY DEF Moves
<1> HIDE DEF f
<1> QED BY <1>1, <1>2, SetsFlow

LEMMA EndsFlow ==
  ASSUME flow \in FlowMaps, NEW op \in Operations, Ends(op)
  PROVE  flow' \in FlowMaps /\ Others(op) /\ flow'[op].at = "idle"
BY NoFlowType, SetsFlow DEF Ends

(* The operation that connects stays where it was, or goes on.             *)
LEMMA ControlStays ==
  ASSUME ControlInv, action' = action, target' = target,
         flow'["connecting"].at # "idle" => flow["connecting"].at # "idle",
         settled' => settled \/ ~effectDue', effectDue' => effectDue \/ ~settled'
  PROVE  ControlInv'
BY DEF ControlInv, Running

LEMMA AnsweredStays ==
  ASSUME AnsweredInv,
         flow'["connecting"] = flow["connecting"] \/ flow'["connecting"].at # "binding"
  PROVE  AnsweredInv'
BY DEF AnsweredInv

LEMMA SessionStays ==
  ASSUME SessionInv, account' \in {account, None}, accountLoading' = accountLoading,
         session' = session, effectDue' = effectDue, stale' = stale,
         flow["connecting"].at \in InstallPlaces =>
           \/ /\ flow'["connecting"].at \in InstallPlaces
              /\ flow'["connecting"].token = flow["connecting"].token
           \/ target' # None /\ target'.token = flow["connecting"].token,
         target # None => target' = target
  PROVE  SessionInv'
BY DEF SessionInv, FromHost, FromInstall

LEMMA WalletStays ==
  ASSUME WalletInv, activeHandle' = activeHandle, meddled' = meddled, NEW op \in Operations,
         Others(op), flow[op].at # "idle",
         \/ flow'[op].at = "idle"
         \/ /\ flow'[op].previous = flow[op].previous
            /\ flow'[op].at \in LeavesWallet(op) => flow[op].at \in LeavesWallet(op)
  PROVE  WalletInv'
<1> SUFFICES ASSUME ~meddled
             PROVE  /\ \A o1, o2 \in Operations :
                         flow'[o1].at # "idle" /\ flow'[o2].at # "idle" => o1 = o2
                    /\ \A o \in Operations :
                         flow'[o].at \in LeavesWallet(o) => activeHandle = flow'[o].previous
  BY DEF WalletInv, Running
<1>1. /\ \A o1, o2 \in Operations :
           flow[o1].at # "idle" /\ flow[o2].at # "idle" => o1 = o2
      /\ \A o \in Operations : flow[o].at \in LeavesWallet(o) => activeHandle = flow[o].previous
  BY DEF WalletInv, Running
<1>2. \A o \in Operations : "idle" \notin LeavesWallet(o)
  BY DEF LeavesWallet
<1> QED BY <1>1, <1>2 DEF Others

LEMMA WalletLeft ==
  ASSUME WalletInv, meddled' = meddled, flow' = flow, activeHandle' = activeHandle
  PROVE  WalletInv'
BY DEF WalletInv, Running

(* A change of the Wallet that an operation makes, or that disturbs it.    *)
LEMMA WalletMoved ==
  ASSUME flow \in FlowMaps, NEW op \in Operations, Others(op),
         ~meddled' => \A other \in Operations \ {op} : flow[other].at = "idle",
         ~meddled' /\ flow'[op].at \in LeavesWallet(op) => activeHandle' = flow'[op].previous
  PROVE  WalletInv'
<1>1. \A o \in Operations : "idle" \notin LeavesWallet(o)
  BY DEF LeavesWallet
<1> QED BY <1>1 DEF WalletInv, Running, Others

-----------------------------------------------------------------------------
(***************************************************************************)
(* Operations begin.                                                       *)
(***************************************************************************)
LEMMA BeginFacts ==
  ASSUME PageInv, NEW op \in Operations, NEW f \in Flows, Begin(op, f)
  PROVE  /\ action = "idle" /\ flow[op].at = "idle" /\ action' = op /\ error' = FALSE
         /\ flow' \in FlowMaps /\ flow'[op] = f /\ Others(op)
         /\ flow["connecting"].at = "idle" /\ target = None
         /\ meddled' \in BOOLEAN
         /\ ~meddled' => \A other \in Operations \ {op} : flow[other].at = "idle"
<1>1. /\ action = "idle" /\ flow[op].at = "idle" /\ action' = op /\ error' = FALSE
      /\ flow' = [flow EXCEPT ![op] = f]
      /\ meddled' = \/ \E other \in Operations : Running(other)
                    \/ ~initialized \/ ~settled \/ session # decided
  BY DEF Begin, Running
<1>2. flow' \in FlowMaps /\ flow'[op] = f /\ Others(op)
  BY <1>1, SetsFlow DEF PageInv, PageTypeOK, FlowMaps
<1>3. flow["connecting"].at = "idle" /\ target = None
  BY <1>1 DEF PageInv, ControlInv, Running, Operations
<1>4. meddled' \in BOOLEAN
  BY <1>1
<1>5. ~meddled' => \A other \in Operations \ {op} : flow[other].at = "idle"
  BY <1>1 DEF Running
<1> QED BY <1>1, <1>2, <1>3, <1>4, <1>5

(* Beginning, whatever it does to the Wallet, keeps the page's invariant.  *)
LEMMA BeginKeeps ==
  ASSUME PageIInv, Core', NEW op \in Operations, NEW f \in Flows, Begin(op, f), f.at \notin {"idle", "binding"},
         op # "connecting" \/ f.at \notin InstallPlaces,
         f.at \in LeavesWallet(op) => activeHandle' = f.previous,
         account' \in {account, None}, accountLoading' = accountLoading,
         UNCHANGED <<hostVars, stale>>, target' \in {target, None}
  PROVE  PageIInv'
<1>1. PageTypeOK /\ ControlInv /\ AnsweredInv /\ SessionInv /\ WalletInv
  BY DEF PageIInv, PageInv
<1>2. /\ action = "idle" /\ action' = op /\ error' = FALSE
      /\ flow' \in FlowMaps /\ flow'[op] = f /\ Others(op)
      /\ flow["connecting"].at = "idle" /\ target = None /\ target' = None
      /\ meddled' \in BOOLEAN
      /\ ~meddled' => \A other \in Operations \ {op} : flow[other].at = "idle"
  BY BeginFacts DEF PageIInv
<1>3. UNCHANGED <<decided, session, effectDue, settled>> /\ stale' = stale
  BY DEF hostVars
<1>4. PageTypeOK'
  BY <1>1, <1>2, <1>3 DEF PageTypeOK, FlowMaps
<1>5. op # "connecting" => flow'["connecting"] = flow["connecting"]
  BY <1>2 DEF Others, Operations
<1>6. ControlInv'
  BY <1>1, <1>2, <1>3, <1>5 DEF ControlInv, Running
<1>7. SessionInv'
  BY <1>1, <1>2, <1>3, SessionStays DEF InstallPlaces
<1>8. WalletInv'
  BY <1>1, <1>2, WalletMoved DEF PageTypeOK, FlowMaps
<1>9. AnsweredInv'
  BY <1>1, <1>2, <1>5, AnsweredStays
<1> QED BY <1>4, <1>6, <1>7, <1>8, <1>9 DEF PageIInv, PageInv

LEMMA PageTypes ==
  ASSUME PageIInv
  PROVE  /\ activeHandle \in Handles \cup {None} /\ session \in Sessions
         /\ flow \in FlowMaps /\ proof \in ProofMaps
         /\ activeCheck \in Nat /\ revision \in Nat
         /\ Core /\ PageTypeOK /\ ControlInv /\ AnsweredInv /\ SessionInv /\ WalletInv
BY IInvTypes DEF PageIInv, Core, PageInv, PageTypeOK, FlowMaps, CP!TypeOK

LEMMA BeginConnectKeeps == ASSUME PageIInv, BeginConnect PROVE PageIInv'
<1> DEFINE f == [NoFlow EXCEPT !.at = "passkey", !.previous = activeHandle, !.captured = session]
<1>1. f \in Flows /\ f.at = "passkey" /\ f.previous = activeHandle
  BY PageTypes, NoFlowType DEF Flows, Places
<1> HIDE DEF f
<1>2. Begin("connecting", f) /\ target' = None /\ CoordinatorRests /\ UNCHANGED <<hostVars, stale>>
  BY DEF BeginConnect, f
<1>3. Core' /\ UNCHANGED <<activeHandle, accountLoading, account>>
  BY <1>2, RestsOnPage, PageTypes
<1>4. target' \in {target, None} /\ "connecting" \in Operations /\ f.at \notin InstallPlaces
  BY <1>1, <1>2 DEF Operations, InstallPlaces
<1> QED BY <1>1, <1>2, <1>3, <1>4, BeginKeeps

LEMMA BeginDisconnectKeeps == ASSUME PageIInv, BeginDisconnect PROVE PageIInv'
<1> DEFINE f == [NoFlow EXCEPT !.at = "signingOut", !.previous = activeHandle, !.captured = session]
<1>1. f \in Flows /\ f.at = "signingOut"
  BY PageTypes, NoFlowType DEF Flows, Places
<1> HIDE DEF f
<1>2. Begin("disconnecting", f) /\ UNCHANGED <<hostVars, stale>> /\ target' = target
  BY DEF BeginDisconnect, f
<1>3. Core' /\ account' \in {account, None} /\ accountLoading' = accountLoading
  <2>1. CASE activeHandle # None
    <3>1. /\ WalletChange(here) /\ OnWalletNotice(proof) /\ UNCHANGED proofNews /\ Unheard
      BY <2>1 DEF BeginDisconnect, WalletChange
    <3> QED BY <3>1, ChangeOnPage, PageTypes
  <2>2. CASE activeHandle = None
    BY <2>2, RestsOnPage, PageTypes DEF BeginDisconnect
  <2> QED BY <2>1, <2>2
<1>4. "disconnecting" \in Operations /\ f.at \notin LeavesWallet("disconnecting")
  BY <1>1 DEF Operations, LeavesWallet
<1> QED BY <1>1, <1>2, <1>3, <1>4, BeginKeeps

(* The Wallet that is removed is the active one, so that the coordinator   *)
(* is told of the Wallet, and reads its proof too.                         *)
LEMMA RemovedWasActive ==
  ASSUME PageIInv, activeHandle # None, Store!Remove(here, activeHandle)
  PROVE  WalletChange(here) /\ activeHandle' = None /\ Active' # Active
<1>1. WalletChange(here) /\ activeHandle' = None
  BY PageTypes DEF WalletChange, Store!Remove, Store!NothingWritten, Store!RolledBack
<1>2. SP!IInv' /\ here \in Tabs
  BY <1>1, ChangeTells, PageTypes DEF Core, Tabs
<1>3. ActiveParts /\ ActiveParts'
  BY <1>2, ActiveHasParts, PartsNext, PageTypes, IInvTypes DEF Core, SP!IInv
<1> QED BY <1>1, <1>3 DEF ActiveParts

LEMMA BeginRemoveKeeps == ASSUME PageIInv, BeginRemove PROVE PageIInv'
<1> DEFINE f == [NoFlow EXCEPT !.at = "signingOut", !.captured = session]
           written == [proof EXCEPT ![activeHandle] = "none"]
<1>1. f \in Flows /\ f.at = "signingOut"
  BY PageTypes, NoFlowType DEF Flows, Places
<1>2. written \in ProofMaps
  BY PageTypes DEF ProofMaps, ProofStates
<1> HIDE DEF f, written
<1>3. /\ Begin("removing", f) /\ UNCHANGED <<hostVars, stale>> /\ target' = target
      /\ activeHandle # None /\ Store!Remove(here, activeHandle)
      /\ OnWalletNotice(written) /\ UNCHANGED proofNews /\ Unheard
  BY DEF BeginRemove, f, written
<1>4. WalletChange(here) /\ activeHandle' = None /\ Active' # Active
  BY <1>3, RemovedWasActive
<1>5. Core' /\ account' \in {account, None} /\ accountLoading' = accountLoading
  BY <1>2, <1>3, <1>4, ChangeOnPage, PageTypes
<1>6. "removing" \in Operations /\ f.at \notin LeavesWallet("removing")
  BY <1>1 DEF Operations, LeavesWallet
<1> QED BY <1>1, <1>3, <1>5, <1>6, BeginKeeps

LEMMA BeginRetryKeeps == ASSUME PageIInv, BeginRetry PROVE PageIInv'
<1> DEFINE f == [NoFlow EXCEPT !.at = "retrying", !.awaits = revision + 1]
<1>1. f \in Flows /\ f.at = "retrying"
  <2>1. revision + 1 \in Nat
    BY PageTypes
  <2> QED BY <2>1, NoFlowType DEF Flows, Places
<1> HIDE DEF f
<1>2. Begin("retrying", f) /\ RetryRelation /\ UNCHANGED <<hostVars, stale>> /\ target' = target
  BY DEF BeginRetry, f
<1>3. Core' /\ account' = account /\ accountLoading' = accountLoading
  BY <1>2, RetryOnPage, PageTypes
<1>4. "retrying" \in Operations /\ f.at \notin LeavesWallet("retrying")
  BY <1>1 DEF Operations, LeavesWallet
<1> QED BY <1>1, <1>2, <1>3, <1>4, BeginKeeps

-----------------------------------------------------------------------------
(***************************************************************************)
(* Operations go on while the coordinator rests.                           *)
(***************************************************************************)

(* A step of one operation that nothing but its function, the host's       *)
(* decision and what the control shows depend on.                          *)
LEMMA FlowMoves ==
  ASSUME PageIInv, CoordinatorRests, NEW op \in Operations, Others(op), flow' \in FlowMaps,
         flow[op].at # "idle",
         flow'[op].at = "binding" => flow'[op].handle \in Handles,
         \/ flow'[op].at = "idle" /\ (op = "connecting" => flow[op].at \notin InstallPlaces)
         \/ /\ flow'[op].at # "idle"
            /\ flow'[op].previous = flow[op].previous
            /\ flow'[op].at \in LeavesWallet(op) => flow[op].at \in LeavesWallet(op)
            /\ op = "connecting" /\ flow[op].at \in InstallPlaces =>
                 flow'[op].at \in InstallPlaces /\ flow'[op].token = flow[op].token,
         decided' \in Sessions,
         UNCHANGED <<session, effectDue, settled, target, moveVars, stale>>, error' \in BOOLEAN,
         action' = action \/ (action = op /\ action' = "idle"),
         op = "connecting" /\ flow'[op].at # "idle" => action' = action,
         op = "connecting" => target = None
  PROVE  PageIInv'
<1>1. Core' /\ UNCHANGED <<activeHandle, accountLoading, account>>
  BY RestsOnPage, PageTypes
<1>2. /\ PageTypeOK /\ ControlInv /\ AnsweredInv /\ SessionInv /\ WalletInv
      /\ meddled' = meddled
  BY PageTypes DEF moveVars
<1>3. action' \in Operations \cup {"idle"} /\ (action' = action \/ (action = op /\ action' = "idle"))
  BY <1>2 DEF PageTypeOK
<1>4. PageTypeOK'
  BY <1>2, <1>3 DEF PageTypeOK, FlowMaps
<1>5. op # "connecting" => flow'["connecting"] = flow["connecting"]
  BY DEF Others, Operations
<1>6. ControlInv'
  BY <1>2, <1>3, <1>5 DEF ControlInv, Running, Operations
<1>7. SessionInv'
  BY <1>1, <1>2, <1>5, SessionStays
<1>8. WalletInv'
  BY <1>1, <1>2, WalletStays
<1>9. AnsweredInv'
  BY <1>2, <1>5 DEF AnsweredInv
<1> QED BY <1>1, <1>4, <1>6, <1>7, <1>8, <1>9 DEF PageIInv, PageInv

LEMMA ConnectTarget ==
  ASSUME PageIInv, flow["connecting"].at # "idle"
  PROVE  target = None /\ action = "connecting"
BY PageTypes DEF ControlInv, Running

LEMMA PasskeyAnswersKeeps ==
  ASSUME PageIInv, NEW h \in Handles, NEW token \in Tokens, PasskeyAnswers(h, token)
  PROVE  PageIInv'
<1> DEFINE op == "connecting"
           f == [flow[op] EXCEPT !.at = "binding", !.handle = h, !.token = token]
<1>1. f \in Flows /\ f.at = "binding" /\ f.previous = flow[op].previous
  BY PageTypes DEF FlowMaps, Flows, Places, Operations, TokensOrNone
<1>0. f.handle = h
  BY PageTypes DEF FlowMaps, Flows, Operations
<1>2. flow' = [flow EXCEPT ![op] = f] /\ flow[op].at = "passkey"
  BY DEF PasskeyAnswers
<1> HIDE DEF f
<1>3. flow' \in FlowMaps /\ flow'[op] = f /\ Others(op)
  BY <1>1, <1>2, SetsFlow, PageTypes DEF Operations
<1>4. target = None
  BY <1>2, ConnectTarget
<1>5. CoordinatorRests /\ UNCHANGED <<hostVars, controlVars, moveVars, stale>>
  BY DEF PasskeyAnswers
<1> QED BY <1>0, <1>1, <1>2, <1>3, <1>4, <1>5, FlowMoves, PageTypes
        DEF Operations, LeavesWallet, InstallPlaces, PageTypeOK, hostVars, controlVars

(* The steps that move an operation on, and may have the host decide.      *)
LEMMA MovesKeep ==
  ASSUME PageIInv, CoordinatorRests, NEW op \in Operations, NEW place \in Places,
         Moves(op, place), place \notin {"idle", "binding"}, flow[op].at # "idle",
         place \in LeavesWallet(op) => flow[op].at \in LeavesWallet(op),
         op = "connecting" /\ flow[op].at \in InstallPlaces => place \in InstallPlaces,
         decided' \in Sessions, UNCHANGED <<session, effectDue, settled, controlVars, moveVars, stale>>
  PROVE  PageIInv'
<1>1. /\ flow' \in FlowMaps /\ Others(op)
      /\ flow'[op].at = place
      /\ flow'[op].previous = flow[op].previous /\ flow'[op].token = flow[op].token
  BY MovesFlow, PageTypes
<1>2. op = "connecting" => target = None
  BY ConnectTarget
<1> QED BY <1>1, <1>2, FlowMoves, PageTypes DEF PageTypeOK, controlVars

LEMMA ConnectMoves ==
  ASSUME PageIInv,
         \/ ConnectGivesUp \/ InstallRejected \/ InstallPublished \/ SettledUnbound
         \/ \E cleared \in BOOLEAN : ClearAnswered(cleared)
  PROVE  PageIInv'
<1>1. /\ "connecting" \in Operations /\ {"failed", "undo", "published", "clearing"} \subseteq Places
      /\ flow["connecting"].token \in Sessions /\ decided \in Sessions /\ None \in Sessions
  BY PageTypes DEF Operations, Places, Sessions, TokensOrNone, FlowMaps, Flows, PageTypeOK
<1>2. CASE ConnectGivesUp
  BY <1>1, <1>2, MovesKeep DEF ConnectGivesUp, hostVars, LeavesWallet, InstallPlaces
<1>3. CASE InstallRejected
  BY <1>1, <1>3, MovesKeep DEF InstallRejected, hostVars, LeavesWallet, InstallPlaces
<1>4. CASE InstallPublished
  BY <1>1, <1>4, MovesKeep DEF InstallPublished, LeavesWallet, InstallPlaces
<1>5. CASE SettledUnbound
  BY <1>1, <1>5, MovesKeep DEF SettledUnbound, hostVars, LeavesWallet, InstallPlaces
<1>6. ASSUME NEW cleared \in BOOLEAN, ClearAnswered(cleared) PROVE PageIInv'
  BY <1>1, <1>6, MovesKeep DEF ClearAnswered, LeavesWallet, InstallPlaces
<1> QED BY <1>2, <1>3, <1>4, <1>5, <1>6

LEMMA LeaveMoves ==
  ASSUME PageIInv, NEW op \in {"disconnecting", "removing"}, LeaveSteps(op)
  PROVE  PageIInv'
<1>1. /\ op \in Operations /\ {"failed", "undo"} \subseteq Places
      /\ decided \in Sessions /\ None \in Sessions
  BY PageTypes DEF Operations, Places, Sessions, TokensOrNone, PageTypeOK
<1>2. CASE SignOutResolves(op)
  <2>1. /\ flow[op].at = "signingOut" /\ decided' = None /\ Ends(op) /\ CoordinatorRests
        /\ UNCHANGED <<session, effectDue, settled, controlVars, moveVars, stale>>
    BY <1>2 DEF SignOutResolves
  <2>2. flow' \in FlowMaps /\ Others(op) /\ flow'[op].at = "idle"
    BY <1>1, <2>1, EndsFlow, PageTypes
  <2> QED BY <1>1, <2>1, <2>2, FlowMoves, PageTypes DEF controlVars, PageTypeOK
<1>3. CASE SignOutRejects(op)
  <2>1. PICK place \in {"undo", "failed"} : Moves(op, place) /\ (place = "failed" => op = "removing")
    BY <1>3 DEF SignOutRejects
  <2> QED BY <1>1, <1>3, <2>1, MovesKeep DEF SignOutRejects, hostVars, LeavesWallet
<1> QED BY <1>2, <1>3 DEF LeaveSteps

(* The end of an operation that failed, or of a retry.                     *)
LEMMA EndKeeps ==
  ASSUME PageIInv, CoordinatorRests, NEW op \in Operations, Ends(op), Finished(op),
         flow[op].at # "idle", op = "connecting" => flow[op].at \notin InstallPlaces,
         error' \in BOOLEAN, target' = IF op = "connecting" THEN None ELSE target,
         UNCHANGED <<hostVars, moveVars, stale>>
  PROVE  PageIInv'
<1>1. flow' \in FlowMaps /\ Others(op) /\ flow'[op].at = "idle"
  BY EndsFlow, PageTypes
<1>2. target' = target /\ (op = "connecting" => target = None)
  BY ConnectTarget
<1>3. action' = action \/ (action = op /\ action' = "idle")
  BY DEF Finished
<1> QED BY <1>1, <1>2, <1>3, FlowMoves, PageTypes DEF hostVars, PageTypeOK

LEMMA ReconciledKeeps ==
  ASSUME PageIInv, NEW op \in {"connecting", "disconnecting", "removing"}, Reconciled(op)
  PROVE  PageIInv'
<1>1. op \in Operations /\ "reconciling" \notin InstallPlaces
  BY DEF Operations, InstallPlaces
<1> QED BY <1>1, EndKeeps DEF Reconciled, FailureShown

LEMMA RetriedKeeps == ASSUME PageIInv, Retried PROVE PageIInv'
<1>1. "retrying" \in Operations
  BY DEF Operations
<1> QED BY <1>1, EndKeeps, PageTypes DEF Retried, PageTypeOK

(* The pair is installed: the operation goes on as its target.             *)
LEMMA SettledBoundKeeps == ASSUME PageIInv, SettledBound PROVE PageIInv'
<1> DEFINE op == "connecting"
           t == [handle |-> flow[op].handle, token |-> flow[op].token]
<1>1. /\ flow[op].at = "settling" /\ target' = t /\ Ends(op) /\ CoordinatorRests
      /\ UNCHANGED <<hostVars, action, error, moveVars, stale>> /\ op \in Operations
  BY DEF SettledBound, Operations
<1>2. t \in Targets /\ t # None /\ t.token = flow[op].token
  BY <1>1, PageTypes, NoneIsNoTarget DEF Targets, FlowMaps, Flows
<1> HIDE DEF t
<1>3. Core' /\ UNCHANGED <<activeHandle, accountLoading, account>>
  BY <1>1, RestsOnPage, PageTypes
<1>4. flow' \in FlowMaps /\ Others(op) /\ flow'[op].at = "idle"
  BY <1>1, EndsFlow, PageTypes
<1>5. target = None /\ action = op
  BY <1>1, ConnectTarget
<1>6. PageTypeOK'
  BY <1>1, <1>2, <1>4, PageTypes DEF PageTypeOK, FlowMaps, hostVars, moveVars
<1>7. ControlInv'
  BY <1>1, <1>4, <1>5, PageTypes DEF ControlInv, Running, hostVars
<1>8. SessionInv'
  BY <1>1, <1>2, <1>3, <1>5, SessionStays, PageTypes DEF hostVars
<1>9. WalletInv'
  BY <1>1, <1>3, <1>4, WalletStays, PageTypes DEF moveVars
<1>10. AnsweredInv'
  BY <1>4, AnsweredStays, PageTypes
<1> QED BY <1>3, <1>6, <1>7, <1>8, <1>9, <1>10 DEF PageIInv, PageInv

-----------------------------------------------------------------------------
(***************************************************************************)
(* Operations change the Wallet or the session.                            *)
(***************************************************************************)

(* A settlement is a check, or nothing to wait for.                        *)
LEMMA SettlementType ==
  ASSUME Core, Core', NEW token
  PROVE  Settlement(token) \in Nat
BY DEF Settlement, Core, IInv, CP!IInv, CP!TypeOK

LEMMA PairVerifiedKeeps == ASSUME PageIInv, PairVerified PROVE PageIInv'
<1> DEFINE op == "connecting"
<1>1. /\ flow[op].at = "binding" /\ op \in Operations /\ "installing" \in Places
      /\ SubjectOf[flow[op].token] = OwnerOf[flow[op].handle]
      /\ allowedAccountAccessToken' = flow[op].token
      /\ Moves(op, "installing") /\ Steady
      /\ UNCHANGED <<decided, action, target, error, stale>>
  BY DEF PairVerified, Operations, Places
<1>2. flow[op].token \in TokensOrNone /\ flow[op].handle \in Handles \cup {None}
  BY <1>1, PageTypes DEF FlowMaps, Flows
<1>3. flow' \in FlowMaps /\ Others(op) /\ flow'[op].at = "installing"
  BY <1>1, MovesFlow, PageTypes
<1>4. flow[op].handle \in Handles
  BY <1>1, PageTypes DEF AnsweredInv
<1>5. PICK f \in Facts : ActivateVault(flow[op].handle, f)
  BY DEF PairVerified
<1>6. Core' /\ account' \in {account, None} /\ accountLoading' = accountLoading
  BY <1>1, <1>2, <1>4, <1>5, ActivateOnPage, PageTypes
<1>7. target = None
  BY <1>1, ConnectTarget
<1>8. PageTypeOK'
  BY <1>1, <1>3, PageTypes DEF PageTypeOK, FlowMaps, Steady, moveVars
<1>9. ControlInv'
  BY <1>1, <1>3, ControlStays, PageTypes DEF Steady
<1>10. SessionInv'
  BY <1>1, <1>6, <1>7, SessionStays, PageTypes DEF Steady, InstallPlaces
<1>11. WalletInv'
  <2>1. ~meddled' => \A other \in Operations \ {op} : flow[other].at = "idle"
    BY <1>1, PageTypes DEF WalletInv, Running, Steady, moveVars
  <2>2. "installing" \notin LeavesWallet(op)
    BY DEF LeavesWallet
  <2> QED BY <1>1, <1>3, <2>1, <2>2, WalletMoved, PageTypes
<1>12. AnsweredInv'
  BY <1>3, AnsweredStays, PageTypes
<1> QED BY <1>6, <1>8, <1>9, <1>10, <1>11, <1>12 DEF PageIInv, PageInv

LEMMA InstallResolvedKeeps == ASSUME PageIInv, InstallResolved PROVE PageIInv'
<1> DEFINE op == "connecting"
           token == flow[op].token
           f == [flow[op] EXCEPT !.at = "settling", !.awaits = Settlement(token)]
<1>1. /\ flow[op].at = "published" /\ op \in Operations /\ SetAccountSession(token)
      /\ flow' = [flow EXCEPT ![op] = f] /\ Steady
      /\ UNCHANGED <<decided, action, target, error, stale>>
  BY DEF InstallResolved, Operations
<1>2. token \in TokensOrNone
  BY <1>1, PageTypes DEF FlowMaps, Flows
<1>3. /\ Core' /\ account' \in {token, None} /\ accountLoading' = FALSE
      /\ activeHandle' = activeHandle
  BY <1>1, <1>2, SetSessionOnPage, PageTypes
<1>4. /\ f \in Flows /\ f.at = "settling" /\ f.token = token
      /\ f.previous = flow[op].previous
  <2>1. Settlement(token) \in Nat
    BY <1>3, SettlementType, PageTypes
  <2> QED BY <1>1, <2>1, PageTypes DEF FlowMaps, Flows, Places
<1> HIDE DEF f
<1>5. flow' \in FlowMaps /\ Others(op) /\ flow'[op] = f
  BY <1>1, <1>4, SetsFlow, PageTypes
<1>6. PageTypeOK'
  BY <1>1, <1>5, PageTypes DEF PageTypeOK, FlowMaps, Steady, moveVars
<1>7. ControlInv'
  BY <1>1, ControlStays, PageTypes DEF Steady
<1>8. SessionInv'
  BY <1>3, <1>4, <1>5 DEF SessionInv, FromInstall, InstallPlaces
<1>9. WalletInv'
  <2>1. "settling" \notin LeavesWallet(op)
    BY DEF LeavesWallet
  <2>2. meddled' = meddled /\ flow[op].at # "idle"
    BY <1>1 DEF Steady, moveVars
  <2> QED BY <1>1, <1>3, <1>4, <1>5, <2>1, <2>2, WalletStays, PageTypes
<1>10. AnsweredInv'
  BY <1>4, <1>5, AnsweredStays, PageTypes
<1> QED BY <1>3, <1>6, <1>7, <1>8, <1>9, <1>10 DEF PageIInv, PageInv

LEMMA UndoKeeps ==
  ASSUME PageIInv, NEW op \in {"connecting", "disconnecting", "removing"}, Undo(op)
  PROVE  PageIInv'
<1>1. /\ flow[op].at = "undo" /\ op \in Operations /\ "failed" \in Places
      /\ RestoreWallet(flow[op].previous) /\ Moves(op, "failed")
      /\ UNCHANGED <<hostVars, controlVars, moveVars, stale>>
  BY DEF Undo, Operations, Places
<1>2. flow[op].previous \in Handles \cup {None}
  BY <1>1, PageTypes DEF FlowMaps, Flows
<1>3. /\ Core' /\ account' \in {account, None} /\ accountLoading' = accountLoading
      /\ activeHandle' = flow[op].previous
  BY <1>1, <1>2, RestoreWalletOnPage, PageTypes
<1>4. /\ flow' \in FlowMaps /\ Others(op) /\ flow'[op].at = "failed"
      /\ flow'[op].previous = flow[op].previous /\ flow'[op].token = flow[op].token
  BY <1>1, MovesFlow, PageTypes
<1>5. op # "connecting" => flow'["connecting"] = flow["connecting"]
  BY <1>4 DEF Others, Operations
<1>6. PageTypeOK'
  BY <1>1, <1>4, PageTypes DEF PageTypeOK, FlowMaps, hostVars, controlVars, moveVars
<1>7. ControlInv'
  BY <1>1, <1>5, ControlStays, PageTypes DEF hostVars, controlVars
<1>8. SessionInv'
  BY <1>1, <1>3, <1>4, <1>5, SessionStays, PageTypes DEF hostVars, controlVars, InstallPlaces
<1>9. WalletInv'
  <2>1. ~meddled' => \A other \in Operations \ {op} : flow[other].at = "idle"
    BY <1>1, PageTypes DEF WalletInv, Running, moveVars
  <2> QED BY <1>1, <1>3, <1>4, <2>1, WalletMoved, PageTypes
<1>10. AnsweredInv'
  BY <1>4, <1>5, AnsweredStays, PageTypes
<1> QED BY <1>3, <1>6, <1>7, <1>8, <1>9, <1>10 DEF PageIInv, PageInv

(* reconcile() gives the coordinator the session of an earlier render; if  *)
(* that is not the one of the last commit, it is stale until an effect.    *)
LEMMA ReconcileKeeps ==
  ASSUME PageIInv, NEW op \in {"connecting", "disconnecting", "removing"}, Reconcile(op)
  PROVE  PageIInv'
<1> DEFINE captured == flow[op].captured
<1>1. /\ flow[op].at = "failed" /\ op \in Operations
      /\ stale' = (captured # session /\ ~effectDue)
      /\ Steady /\ decided' = decided
  BY DEF Reconcile, Operations
<1>2. captured \in Sessions
  BY <1>1, PageTypes DEF FlowMaps, Flows
<1>3. CASE captured = Loading
  <2>1. SetAccountLoading /\ FailureShown(op)
    BY <1>3 DEF Reconcile
  <2>2. Core' /\ accountLoading' = TRUE /\ activeHandle' = activeHandle
    BY <2>1, LoadingOnPage, PageTypes
  <2>3. flow' \in FlowMaps /\ Others(op) /\ flow'[op].at = "idle"
    BY <1>1, <2>1, EndsFlow, PageTypes DEF FailureShown
  <2>4. op # "connecting" => flow'["connecting"] = flow["connecting"]
    BY <2>3 DEF Others, Operations
  <2>5. /\ target' = target /\ (op = "connecting" => target = None)
        /\ (action' = action \/ (action = op /\ action' = "idle")) /\ error' = TRUE
    BY <1>1, <2>1, ConnectTarget DEF FailureShown, Finished
  <2>6. PageTypeOK'
    BY <1>1, <2>3, <2>5, PageTypes DEF PageTypeOK, FlowMaps, Steady, moveVars
  <2>7. ControlInv'
    BY <1>1, <2>3, <2>4, <2>5, PageTypes DEF ControlInv, Running, Steady
  <2>8. SessionInv'
    BY <1>1, <1>3, <2>2, PageTypes DEF SessionInv, FromHost, PageTypeOK, Steady
  <2>9. WalletInv'
    BY <1>1, <2>2, <2>3, WalletStays, PageTypes DEF Steady, moveVars
  <2>10. AnsweredInv'
    BY <2>3, <2>4, AnsweredStays, PageTypes
  <2> QED BY <2>2, <2>6, <2>7, <2>8, <2>9, <2>10 DEF PageIInv, PageInv
<1>4. CASE captured # Loading
  <2> DEFINE f == [flow[op] EXCEPT !.at = "reconciling", !.awaits = activeCheck']
  <2>1. /\ RestoreCall(captured) /\ initialized' = initialized
        /\ flow' = [flow EXCEPT ![op] = f] /\ UNCHANGED <<action, target, error>>
    BY <1>4 DEF Reconcile
  <2>2. captured \in TokensOrNone
    BY <1>2, <1>4 DEF Sessions
  <2>3. Core' /\ account' = captured /\ accountLoading' = FALSE /\ activeHandle' = activeHandle
    BY <2>1, <2>2, RestoreOnPage, PageTypes
  <2>4. f \in Flows /\ f.at = "reconciling" /\ f.previous = flow[op].previous
    <3>1. activeCheck' \in Nat
      BY <2>3 DEF Core, IInv, CP!IInv, CP!TypeOK
    <3> QED BY <1>1, <3>1, PageTypes DEF FlowMaps, Flows, Places
  <2> HIDE DEF f
  <2>5. flow' \in FlowMaps /\ Others(op) /\ flow'[op] = f
    BY <1>1, <2>1, <2>4, SetsFlow, PageTypes
  <2>6. op # "connecting" => flow'["connecting"] = flow["connecting"]
    BY <2>5 DEF Others, Operations
  <2>7. PageTypeOK'
    BY <1>1, <2>1, <2>5, PageTypes DEF PageTypeOK, FlowMaps, Steady, moveVars
  <2>8. ControlInv'
    BY <1>1, <2>1, <2>6, ControlStays, PageTypes DEF Steady
  <2>9. SessionInv'
    BY <1>1, <1>4, <2>3, PageTypes DEF SessionInv, FromHost, PageTypeOK, Steady
  <2>10. WalletInv'
    BY <1>1, <2>3, <2>4, <2>5, WalletStays, PageTypes DEF Steady, moveVars, LeavesWallet
  <2>11. AnsweredInv'
    BY <2>4, <2>5, <2>6, AnsweredStays, PageTypes
  <2> QED BY <2>3, <2>7, <2>8, <2>9, <2>10, <2>11 DEF PageIInv, PageInv
<1> QED BY <1>3, <1>4

-----------------------------------------------------------------------------
(***************************************************************************)
(* The completion effect, the host, the user and the API.                  *)
(***************************************************************************)

(* The operation whose target the page shows is over: the host's session   *)
(* is that of the target.                                                  *)
LEMMA ConnectCompletesKeeps == ASSUME PageIInv, ConnectCompletes PROVE PageIInv'
<1>1. /\ action = "connecting" /\ target # None /\ session = target.token
      /\ action' = "idle" /\ target' = None /\ CoordinatorRests
      /\ UNCHANGED <<hostVars, error, flow, moveVars, stale>>
  BY DEF ConnectCompletes
<1>2. Core' /\ UNCHANGED <<activeHandle, accountLoading, account>>
  BY <1>1, RestsOnPage, PageTypes
<1>3. flow["connecting"].at = "idle"
  BY <1>1, ConnectTarget
<1>4. target \in Targets /\ session # Loading
  BY <1>1, PageTypes, LoadingIsNoToken DEF PageTypeOK, Targets, TokensOrNone
<1>5. PageTypeOK'
  BY <1>1, PageTypes DEF PageTypeOK, hostVars, moveVars
<1>6. ControlInv' /\ AnsweredInv'
  BY <1>1, <1>3, PageTypes DEF ControlInv, Running, AnsweredInv, hostVars
<1>7. FromInstall => FromHost
  BY <1>1, <1>3, <1>4 DEF FromInstall, FromHost, InstallPlaces
<1>8. SessionInv'
  BY <1>1, <1>2, <1>7, PageTypes DEF SessionInv, FromHost, hostVars
<1>9. WalletInv'
  BY <1>1, <1>2, WalletLeft, PageTypes DEF moveVars
<1> QED BY <1>2, <1>5, <1>6, <1>8, <1>9 DEF PageIInv, PageInv

LEMMA LeaveCompletesKeeps == ASSUME PageIInv, LeaveCompletes PROVE PageIInv'
<1>1. /\ action \in {"disconnecting", "removing"} /\ action' = "idle" /\ CoordinatorRests
      /\ UNCHANGED <<hostVars, target, error, flow, moveVars, stale>>
  BY DEF LeaveCompletes
<1>2. Core' /\ UNCHANGED <<activeHandle, accountLoading, account>>
  BY <1>1, RestsOnPage, PageTypes
<1>3. PageTypeOK'
  BY <1>1, PageTypes DEF PageTypeOK, hostVars, moveVars
<1>4. ControlInv' /\ AnsweredInv'
  BY <1>1, PageTypes DEF ControlInv, Running, AnsweredInv, hostVars
<1>5. SessionInv'
  BY <1>1, <1>2, SessionStays, PageTypes DEF hostVars
<1>6. WalletInv'
  BY <1>1, <1>2, WalletLeft, PageTypes DEF moveVars
<1> QED BY <1>2, <1>3, <1>4, <1>5, <1>6 DEF PageIInv, PageInv

(* A change that disturbs what runs: it leaves nothing to say of the       *)
(* Wallet, unless nothing runs.                                            *)
LEMMA MeddlesFacts ==
  ASSUME PageIInv, Meddles, flow' = flow
  PROVE  /\ meddled' \in BOOLEAN
         /\ ~meddled' => ~meddled /\ \A op \in Operations : flow[op].at = "idle"
         /\ WalletInv'
<1>1. /\ meddled' \in BOOLEAN
      /\ ~meddled' => ~meddled /\ \A op \in Operations : flow[op].at = "idle"
  BY PageTypes DEF Meddles, Running, PageTypeOK
<1>2. \A op \in Operations : "idle" \notin LeavesWallet(op)
  BY DEF LeavesWallet
<1> QED BY <1>1, <1>2 DEF WalletInv, Running

LEMMA HostDecidesKeeps ==
  ASSUME PageIInv, NEW s \in Sessions, HostDecides(s)
  PROVE  PageIInv'
<1>1. /\ decided' = s /\ Meddles /\ CoordinatorRests
      /\ UNCHANGED <<session, effectDue, settled, markerAwaits, controlVars, flow, stale>>
  BY DEF HostDecides
<1>2. Core' /\ UNCHANGED <<activeHandle, accountLoading, account>>
  BY <1>1, RestsOnPage, PageTypes
<1>3. meddled' \in BOOLEAN /\ WalletInv'
  BY <1>1, MeddlesFacts
<1>4. PageTypeOK'
  BY <1>1, <1>3, PageTypes DEF PageTypeOK, controlVars
<1>5. ControlInv' /\ AnsweredInv'
  BY <1>1, PageTypes DEF ControlInv, Running, AnsweredInv, controlVars
<1>6. SessionInv'
  BY <1>1, <1>2, SessionStays, PageTypes DEF controlVars
<1> QED BY <1>2, <1>3, <1>4, <1>5, <1>6 DEF PageIInv, PageInv

LEMMA CommitKeeps == ASSUME PageIInv, Commit PROVE PageIInv'
<1>1. /\ session' = decided /\ effectDue' = TRUE /\ settled' = FALSE /\ CoordinatorRests
      /\ UNCHANGED <<decided, controlVars, flow, moveVars, stale>>
  BY DEF Commit
<1>2. Core' /\ UNCHANGED <<activeHandle, accountLoading, account>>
  BY <1>1, RestsOnPage, PageTypes
<1>3. PageTypeOK'
  BY <1>1, PageTypes DEF PageTypeOK, controlVars, moveVars
<1>4. ControlInv' /\ AnsweredInv' /\ SessionInv'
  BY <1>1, PageTypes DEF ControlInv, Running, AnsweredInv, SessionInv, controlVars
<1>5. WalletInv'
  BY <1>1, <1>2, WalletLeft, PageTypes DEF moveVars
<1> QED BY <1>2, <1>3, <1>4, <1>5 DEF PageIInv, PageInv

(* The effect hands the coordinator the session of its commit.             *)
LEMMA EffectRunsKeeps == ASSUME PageIInv, EffectRuns PROVE PageIInv'
<1>1. /\ effectDue' = FALSE /\ stale' = FALSE /\ settled' \in {settled, TRUE}
      /\ UNCHANGED <<decided, session, controlVars, flow, moveVars>>
  BY DEF EffectRuns
<1>2. Core' /\ activeHandle' = activeHandle /\ FromHost'
  <2>1. CASE session = Loading
    <3>1. SetAccountLoading
      BY <2>1 DEF EffectRuns
    <3> QED BY <1>1, <2>1, <3>1, LoadingOnPage, PageTypes DEF FromHost
  <2>2. CASE session # Loading
    <3>1. session \in TokensOrNone
      BY <2>2, PageTypes DEF Sessions
    <3>2. CASE initialized
      <4>1. SetAccountSession(session)
        BY <2>2, <3>2 DEF EffectRuns
      <4> QED BY <1>1, <2>2, <3>1, <4>1, SetSessionOnPage, PageTypes DEF FromHost
    <3>3. CASE ~initialized
      <4>1. RestoreCall(session) /\ initialized' = TRUE
        BY <2>2, <3>3 DEF EffectRuns, RestoreSession
      <4> QED BY <1>1, <2>2, <3>1, <4>1, RestoreOnPage, PageTypes DEF FromHost
    <3> QED BY <3>2, <3>3
  <2> QED BY <2>1, <2>2
<1>3. PageTypeOK'
  BY <1>1, PageTypes DEF PageTypeOK, controlVars, moveVars
<1>4. ControlInv' /\ AnsweredInv'
  BY <1>1, PageTypes DEF ControlInv, Running, AnsweredInv, controlVars
<1>5. SessionInv'
  BY <1>2 DEF SessionInv
<1>6. WalletInv'
  BY <1>1, <1>2, WalletLeft, PageTypes DEF moveVars
<1> QED BY <1>2, <1>3, <1>4, <1>5, <1>6 DEF PageIInv, PageInv

LEMMA MarkerSettlesKeeps == ASSUME PageIInv, MarkerSettles PROVE PageIInv'
<1>1. /\ ~effectDue /\ settled' = TRUE /\ CoordinatorRests
      /\ UNCHANGED <<decided, session, effectDue, controlVars, flow, moveVars, stale>>
  BY DEF MarkerSettles
<1>2. Core' /\ UNCHANGED <<activeHandle, accountLoading, account>>
  BY <1>1, RestsOnPage, PageTypes
<1>3. PageTypeOK'
  BY <1>1, PageTypes DEF PageTypeOK, controlVars, moveVars
<1>4. ControlInv' /\ AnsweredInv'
  BY <1>1, PageTypes DEF ControlInv, Running, AnsweredInv, controlVars
<1>5. SessionInv'
  BY <1>1, <1>2, SessionStays, PageTypes DEF controlVars
<1>6. WalletInv'
  BY <1>1, <1>2, WalletLeft, PageTypes DEF moveVars
<1> QED BY <1>2, <1>3, <1>4, <1>5, <1>6 DEF PageIInv, PageInv

LEMMA UserChangesWalletKeeps == ASSUME PageIInv, UserChangesWallet PROVE PageIInv'
<1>1. /\ WalletChange(here) /\ OnWalletNotice(proof) /\ UNCHANGED proofNews /\ Unheard
      /\ Meddles /\ UNCHANGED <<hostVars, controlVars, flow, stale>>
  BY DEF UserChangesWallet, WalletChangesHere, WalletChange
<1>2. Core' /\ account' \in {account, None} /\ accountLoading' = accountLoading
  BY <1>1, ChangeOnPage, PageTypes
<1>3. meddled' \in BOOLEAN /\ WalletInv'
  BY <1>1, MeddlesFacts
<1>4. PageTypeOK'
  BY <1>1, <1>3, PageTypes DEF PageTypeOK, hostVars, controlVars
<1>5. ControlInv' /\ AnsweredInv'
  BY <1>1, PageTypes DEF ControlInv, Running, AnsweredInv, hostVars, controlVars
<1>6. SessionInv'
  BY <1>1, <1>2, SessionStays, PageTypes DEF hostVars, controlVars
<1> QED BY <1>2, <1>3, <1>4, <1>5, <1>6 DEF PageIInv, PageInv

(* An answer to a check, and a step that changes nothing.                  *)
LEMMA PageLeft ==
  ASSUME PageIInv, Core', UNCHANGED <<activeHandle, accountLoading, account>>,
         UNCHANGED <<hostVars, controlVars, flow, moveVars, stale>>
  PROVE  PageIInv'
<1>1. PageTypeOK'
  BY PageTypes DEF PageTypeOK, hostVars, controlVars, moveVars
<1>2. ControlInv' /\ AnsweredInv'
  BY PageTypes DEF ControlInv, Running, AnsweredInv, hostVars, controlVars
<1>3. SessionInv'
  BY SessionStays, PageTypes DEF hostVars, controlVars
<1>4. WalletInv'
  BY WalletLeft, PageTypes DEF moveVars
<1> QED BY <1>1, <1>2, <1>3, <1>4 DEF PageIInv, PageInv

LEMMA CheckStepsKeep == ASSUME PageIInv, CheckSteps PROVE PageIInv'
<1>1. PICK c \in checks, response \in Resolver!Responses :
        CheckAnswered(c, response) /\ UNCHANGED <<hostVars, controlVars, flow, moveVars, stale>>
  BY DEF CheckSteps, CheckIsAnswered
<1> QED BY <1>1, AnswerOnPage, PageLeft, PageTypes

LEMMA PageStutters == ASSUME PageIInv, UNCHANGED pageVars PROVE PageIInv'
<1>1. /\ UNCHANGED vars /\ UNCHANGED <<hostVars, controlVars, flow, moveVars, stale>>
  BY DEF pageVars
<1>2. Keeps
  BY <1>1, StepKeeps, PageTypes DEF Core
<1>3. UNCHANGED <<activeHandle, accountLoading, account>> /\ Alone'
  BY <1>1, PageTypes
     DEF Core, Alone, vars, controllerVars, storeVars, proofVars, sessionVars
<1> QED BY <1>1, <1>2, <1>3, KeepsCore, PageLeft, PageTypes

-----------------------------------------------------------------------------
(***************************************************************************)
(* The page's invariant.                                                   *)
(***************************************************************************)
LEMMA PageInitIInv == PageInit => PageIInv
<1> SUFFICES ASSUME PageInit PROVE PageIInv
  OBVIOUS
<1>1. IInv
  BY InitIInv DEF PageInit
<1>2. Alone
  BY DEF PageInit, Init, Store!Init, Controller!Init, Alone
<1>3. \A op \in Operations : flow[op] = NoFlow
  BY DEF PageInit
<1>4. PageTypeOK
  BY NoFlowType DEF PageInit, PageTypeOK
<1>5. ControlInv /\ AnsweredInv /\ SessionInv
  BY <1>3, NoFlowType
  DEF PageInit, ControlInv, AnsweredInv, SessionInv, Running, Operations
<1>6. \A op \in Operations : "idle" \notin LeavesWallet(op)
  BY DEF LeavesWallet
<1>7. WalletInv
  BY <1>3, <1>6, NoFlowType DEF WalletInv, Running
<1> QED BY <1>1, <1>2, <1>4, <1>5, <1>7 DEF PageIInv, Core, PageInv

LEMMA PageStep == PageIInv /\ [PageNext]_pageVars => PageIInv'
<1> SUFFICES ASSUME PageIInv, [PageNext]_pageVars PROVE PageIInv'
  OBVIOUS
<1>1. CASE ConnectSteps
  BY <1>1, PasskeyAnswersKeeps, ConnectMoves, PairVerifiedKeeps, InstallResolvedKeeps,
     SettledBoundKeeps
  DEF ConnectSteps
<1>2. ASSUME NEW op \in {"connecting", "disconnecting", "removing"}, FailureSteps(op)
      PROVE  PageIInv'
  BY <1>2, UndoKeeps, ReconcileKeeps, ReconciledKeeps DEF FailureSteps
<1>3. CASE UNCHANGED pageVars
  BY <1>3, PageStutters
<1>4. CASE PageNext
  BY <1>1, <1>2, <1>4, BeginConnectKeeps, BeginDisconnectKeeps, BeginRemoveKeeps,
     BeginRetryKeeps, LeaveMoves, RetriedKeeps, ConnectCompletesKeeps, LeaveCompletesKeeps,
     HostDecidesKeeps, CommitKeeps, EffectRunsKeeps, MarkerSettlesKeeps,
     UserChangesWalletKeeps, CheckStepsKeep
  DEF PageNext
<1> QED BY <1>3, <1>4

LEMMA PageIInvHolds == PageSpec => []PageIInv
BY PageInitIInv, PageStep, PTL DEF PageSpec

-----------------------------------------------------------------------------
(***************************************************************************)
(* What the page shows.                                                    *)
(***************************************************************************)

(* Something ready is shown only by a page that neither connects nor       *)
(* leaves nor shows an error.                                              *)
LEMMA ShownReady ==
  ASSUME PageIInv, Shown.phase = "ready"
  PROVE  /\ Shown = Visible /\ ~error /\ action \notin Operations \ {"retrying"}
         /\ flow["connecting"].at = "idle" /\ target = None
<1>1. Shown = Visible /\ ~error /\ action \notin Operations \ {"retrying"}
  <2>1. action \notin Operations \ {"retrying"}
    BY DEF Shown
  <2>2. ~error
    <3> SUFFICES ASSUME error PROVE FALSE
      OBVIOUS
    <3>1. Shown = [Visible EXCEPT !.phase = "error", !.privateAccountAccess = FALSE]
      BY <2>1 DEF Shown
    <3>2. Shown.phase = "error"
      BY <3>1 DEF Visible, CoordinatorSnapshot, TransitionSnapshot
    <3> QED BY <3>2
  <2> QED BY <2>1, <2>2 DEF Shown
<1>2. action # "connecting"
  BY <1>1 DEF Operations
<1> QED BY <1>1, <1>2, PageTypes DEF ControlInv, Running

(* The candidate of the only tab is the active Wallet.                     *)
LEMMA CandidateIsActive ==
  ASSUME PageIInv, wallet # None
  PROVE  /\ Known /\ OwnProofKnown
         /\ activeHandle # None /\ wallet.handle = activeHandle
<1>1. Core /\ IInv /\ Alone
  BY PageTypes DEF Core
<1>2. started /\ Listening /\ Known /\ OwnProofKnown
  BY <1>1, IInvTypes DEF IInv, StartedInv, Alone, Known, OwnProofKnown, Listening, SessionTypeOK
<1>3. Own = Active /\ ActiveParts
  BY <1>1, <1>2, QuietObserves, ActiveHasParts, IInvTypes DEF Alone
<1>4. Own # None /\ wallet.handle = Own.handle
  BY <1>1, <1>2 DEF IInv, CandidateInv
<1> QED BY <1>2, <1>3, <1>4 DEF ActiveParts

(* What a verdict says of the pair, and what a ready snapshot says at all. *)
LEMMA SnapshotTells ==
  ASSUME PageIInv
  PROVE  /\ snapshot.privateAccountAccess <=> snapshot.relation = "bound"
         /\ snapshot.relation = "bound" =>
              /\ wallet # None /\ account # None
              /\ OwnerOf[wallet.handle] = SubjectOf[account]
         /\ snapshot.walletPresent <=> wallet # None
         /\ snapshot.relation = "wallet_only" => wallet # None
         /\ snapshot.runtime.phase = "ready" /\ wallet # None /\ account # None =>
              snapshot.relation \in {"bound", "conflict"}
<1>1. CP!SnapshotInv
  BY PageTypes DEF Core, IInv, CP!IInv
<1>2. snapshot.relation = "bound" =>
        /\ wallet # None /\ account # None
        /\ OwnerOf[wallet.handle] = SubjectOf[account]
  <2> SUFFICES ASSUME snapshot.relation = "bound"
               PROVE  /\ wallet # None /\ account # None
                      /\ OwnerOf[wallet.handle] = SubjectOf[account]
    OBVIOUS
  <2>1. <<wallet, account>> \in Bound
    BY <1>1 DEF CP!SnapshotInv
  <2>2. /\ wallet \in Wallets /\ account \in Tokens
        /\ OwnerOf[wallet.handle] = SubjectOf[account]
    BY <2>1 DEF Bound, Accounts
  <2> QED BY <2>2, NoneIsNoValue
<1> QED BY <1>1, <1>2 DEF CP!SnapshotInv, CP!Both

(* Account data is shown only of the session the host holds, verified with *)
(* the active Wallet (useDexterConnection.ts), until reconcile() has given *)
(* the coordinator an earlier session, or retry() has asked about the one  *)
(* that is locked while the host loads.                                    *)
THEOREM AccessStaysWithHost == PageSpec => []AccessMatchesUnlessReopened
<1>1. ASSUME PageIInv, Permitted("identity").accountContentVisible, ~EarlierSessionReopened
      PROVE  AccessMatches
  <2>0. ~stale /\ ~retried
    BY <1>1 DEF EarlierSessionReopened
  <2>1. Shown.phase = "ready" /\ Shown.privateAccountAccess
    BY <1>1 DEF Permitted, Contract!Permissions, Contract!Bound
  <2>2. /\ Shown = Visible /\ flow["connecting"].at = "idle" /\ target = None
    BY <1>1, <2>1, ShownReady
  <2>3. settled /\ snapshot.privateAccountAccess
    BY <2>1, <2>2 DEF Visible, TransitionSnapshot, CoordinatorSnapshot
  <2>4. ~effectDue
    BY <1>1, <2>3, PageTypes DEF ControlInv
  <2>5. FromHost
    BY <1>1, <2>0, <2>2, <2>4, PageTypes DEF SessionInv, FromInstall, InstallPlaces
  <2>6. /\ wallet # None /\ account # None
        /\ OwnerOf[wallet.handle] = SubjectOf[account]
    BY <1>1, <2>3, SnapshotTells
  <2>7. /\ Known /\ OwnProofKnown
        /\ activeHandle # None /\ wallet.handle = activeHandle
    BY <1>1, <2>6, CandidateIsActive
  <2>8. ~accountLoading
    BY <1>1, <2>0, <2>3, <2>7, PageTypes DEF Core, IInv, LoadingInv
  <2>9. session # Loading /\ account = session
    BY <2>5, <2>6, <2>8 DEF FromHost
  <2>10. session \in Tokens
    BY <1>1, <2>6, <2>9, PageTypes DEF Sessions, TokensOrNone
  <2> QED BY <2>6, <2>7, <2>9, <2>10 DEF AccessMatches
<1>2. PageIInv => AccessMatchesUnlessReopened
  BY <1>1 DEF AccessMatchesUnlessReopened
<1> QED BY <1>2, PageIInvHolds, PTL

(* A transition that fails leaves active the Wallet that was active before *)
(* it (restoreWallet(), identityTransition.ts), unless it was disturbed.   *)
THEOREM FailureLeavesWallet == PageSpec => []FailureRestoresWallet
<1>1. PageIInv => FailureRestoresWallet
  <2>1. \A op \in {"connecting", "disconnecting"} :
          op \in Operations /\ {"failed", "reconciling"} \subseteq LeavesWallet(op)
    BY DEF Operations, LeavesWallet
  <2> QED BY <2>1, PageTypes DEF WalletInv, FailureRestoresWallet
<1> QED BY <1>1, PageIInvHolds, PTL

(* A Wallet may be used only if there is one, and not with a session that  *)
(* it was not found to belong to (useDexterConnection.ts,                  *)
(* connectionContract.ts).                                                 *)
THEOREM WalletUseIsJudged == PageSpec => []WalletUseAwaitsVerdict
<1>1. ASSUME PageIInv, Permitted("wallet").ownerWalletUseEnabled
      PROVE  /\ activeHandle # None
             /\ session \in Tokens /\ account = session =>
                  OwnerOf[activeHandle] = SubjectOf[session]
  <2>1. /\ Shown.phase = "ready" /\ Shown.walletPresent
        /\ Shown.relation \in {"wallet_only", "bound"}
    BY <1>1 DEF Permitted, Contract!Permissions, Contract!OwnerWalletReady, Contract!Bound
  <2>2. Shown = Visible
    BY <1>1, <2>1, ShownReady
  <2>3. CASE settled
    <3>1. /\ snapshot.runtime.phase = "ready" /\ snapshot.walletPresent
          /\ snapshot.relation \in {"wallet_only", "bound"}
      BY <2>1, <2>2, <2>3 DEF Visible, CoordinatorSnapshot
    <3>2. activeHandle # None /\ wallet.handle = activeHandle /\ wallet # None
      BY <1>1, <3>1, SnapshotTells, CandidateIsActive
    <3>3. ASSUME session \in Tokens, account = session
          PROVE  OwnerOf[activeHandle] = SubjectOf[session]
      <4>1. account # None
        BY <3>3, NoneIsNoValue
      <4> QED BY <1>1, <3>1, <3>2, <3>3, <4>1, SnapshotTells
    <3> QED BY <3>2, <3>3
  <2>4. CASE ~settled
    <3>1. TransitionSnapshot.phase = "ready" /\ TransitionSnapshot.walletPresent
      BY <2>1, <2>2, <2>4 DEF Visible
    <3> QED BY <3>1 DEF TransitionSnapshot
  <2> QED BY <2>3, <2>4
<1>2. PageIInv => WalletUseAwaitsVerdict
  BY <1>1 DEF WalletUseAwaitsVerdict
<1> QED BY <1>2, PageIInvHolds, PTL

(* The stage of the control is "ready" exactly when the page is permitted  *)
(* what the intent asks for (stageFor() and the permissions of             *)
(* connectionContract.ts).                                                 *)
THEOREM ReadyMeansPermitted == PageSpec => []ControlKeepsItsWord
<1>1. ASSUME PageIInv, NEW intent \in Contract!Intents
      PROVE  Contract!Stage(intent, Shown) = "ready" <=>
               \/ intent = "wallet" /\ Permitted(intent).ownerWalletUseEnabled
               \/ intent # "wallet" /\ Permitted(intent).accountContentVisible
  <2>1. ASSUME Shown.phase = "ready"
        PROVE  /\ Shown.relation = "bound" => Shown.walletPresent /\ Shown.privateAccountAccess
               /\ Shown.relation = "wallet_only" => Shown.walletPresent
    <3>1. Shown = Visible
      BY <1>1, <2>1, ShownReady
    <3>2. CASE settled
      BY <1>1, <3>1, <3>2, SnapshotTells DEF Visible, CoordinatorSnapshot
    <3>3. CASE ~settled
      BY <3>1, <3>3 DEF Visible, TransitionSnapshot
    <3> QED BY <3>2, <3>3
  <2>2. Shown.phase # "ready" =>
          Contract!Stage(intent, Shown) # "ready" \/ Shown.phase \notin
            {"hydrating", "checking", "offline", "expired", "error"}
    BY DEF Contract!Stage, Contract!Provisionally
  <2>3. Shown.phase \in {"hydrating", "checking", "ready", "offline", "expired", "error"}
    <3>1. snapshot.runtime.phase
            \in {"hydrating", "checking", "ready", "offline", "expired", "error"}
      BY <1>1, PageTypes, IInvTypes DEF Core, CP!TypeOK, CP!Snapshots, CP!Runtimes
    <3>2. Visible.phase \in {"hydrating", "checking", "ready", "offline", "expired", "error"}
      BY <3>1 DEF Visible, CoordinatorSnapshot, TransitionSnapshot
    <3> QED BY <3>2 DEF Shown, Visible, CoordinatorSnapshot, TransitionSnapshot
  <2>4. CASE Shown.phase = "ready"
    BY <2>1, <2>4
    DEF Contract!Stage, Contract!Provisionally, Contract!Usable, Contract!OwnerWalletReady,
        Contract!Bound, Contract!Permissions, Contract!Intents, Permitted
  <2>5. CASE Shown.phase # "ready"
    BY <2>2, <2>3, <2>5
    DEF Contract!OwnerWalletReady, Contract!Bound, Contract!Permissions, Permitted
  <2> QED BY <2>4, <2>5
<1>2. PageIInv => ControlKeepsItsWord
  BY <1>1 DEF ControlKeepsItsWord
<1> QED BY <1>2, PageIInvHolds, PTL

-----------------------------------------------------------------------------
(***************************************************************************)
(* The controller keeps its promise under the coordinator and under the    *)
(* page, whose turns call several of its methods or write the Wallet and   *)
(* the proof along with it.                                                *)
(***************************************************************************)

(* The relation the coordinator publishes is RelationPromise's: a verdict  *)
(* is shown only of the pair about which a question is open, and the       *)
(* question is answered truthfully or not at all.                          *)
THEOREM CoordinatorKeepsPromise == Spec => CP!KeepsPromise
<1>1. Init => CP!Promise!Init
  BY ControllerBegins, CP!PromiseBegins, ControllerAssumptions DEF Init
<1>2. IInv /\ [Next]_vars => CP!PromiseStep
  <2>1. IInv /\ [Next]_vars => CP!IInv /\ CP!IInv' /\ CP!Turn
    BY StepKeeps DEF Keeps, IInv
  <2> QED BY <2>1, CP!TurnIsPromised, ControllerAssumptions
<1> QED
  BY <1>1, <1>2, IInvHolds, PTL
  DEF Spec, CP!KeepsPromise, CP!Promise!Spec, CP!Promise!promise, CP!PromiseStep, CP!Shown

(* A step of the coordinator that opens account data delivers the answer   *)
(* to an unaborted check of the current revision and pair.                 *)
THEOREM CoordinatorAccessIsFresh == Spec => CP!AccessNeedsFreshCheck
<1>1. IInv /\ [Next]_vars => CP!FreshTurn
  <2>1. IInv /\ [Next]_vars => CP!IInv /\ CP!Turn
    BY StepKeeps DEF Keeps, IInv
  <2> QED BY <2>1, CP!TurnIsFresh, ControllerAssumptions
<1> QED
  BY <1>1, IInvHolds, PTL
  DEF Spec, CP!AccessNeedsFreshCheck, CP!FreshTurn, CP!Opens, CP!Fresh, CP!Closed

(* Every step of the page is a turn of the controller.                     *)
LEMMA WalletTurns ==
  ASSUME PageIInv,
         \/ BeginDisconnect \/ BeginRemove \/ PairVerified \/ UserChangesWallet
         \/ \E op \in {"connecting", "disconnecting", "removing"} : Undo(op)
  PROVE  CP!Turn
<1>1. CASE BeginDisconnect
  <2>1. CASE activeHandle # None
    <3>1. /\ WalletChange(here) /\ OnWalletNotice(proof) /\ UNCHANGED proofNews /\ Unheard
      BY <1>1, <2>1 DEF BeginDisconnect, WalletChange
    <3> QED BY <3>1, ChangeOnPage, PageTypes
  <2>2. CASE activeHandle = None
    BY <1>1, <2>2, RestsOnPage, PageTypes DEF BeginDisconnect
  <2> QED BY <2>1, <2>2
<1>2. CASE BeginRemove
  <2> DEFINE written == [proof EXCEPT ![activeHandle] = "none"]
  <2>1. written \in ProofMaps
    BY PageTypes DEF ProofMaps, ProofStates
  <2>2. /\ activeHandle # None /\ Store!Remove(here, activeHandle)
        /\ OnWalletNotice(written) /\ UNCHANGED proofNews /\ Unheard
    BY <1>2 DEF BeginRemove
  <2>3. WalletChange(here) /\ Active' # Active
    BY <2>2, RemovedWasActive
  <2> HIDE DEF written
  <2> QED BY <2>1, <2>2, <2>3, ChangeOnPage, PageTypes
<1>3. CASE PairVerified
  <2> DEFINE h == flow["connecting"].handle
  <2>1. h \in Handles
    BY <1>3, PageTypes DEF PairVerified, AnsweredInv
  <2>2. PICK f \in Facts : ActivateVault(h, f)
    BY <1>3 DEF PairVerified
  <2>3. allowedAccountAccessToken' \in TokensOrNone
    BY <1>3, PageTypes DEF PairVerified, FlowMaps, Flows, Operations
  <2> QED BY <2>1, <2>2, <2>3, ActivateOnPage, PageTypes
<1>4. CASE UserChangesWallet
  <2>1. /\ WalletChange(here) /\ OnWalletNotice(proof) /\ UNCHANGED proofNews /\ Unheard
    BY <1>4 DEF UserChangesWallet, WalletChangesHere, WalletChange
  <2> QED BY <2>1, ChangeOnPage, PageTypes
<1>5. ASSUME NEW op \in {"connecting", "disconnecting", "removing"}, Undo(op)
      PROVE  CP!Turn
  <2>1. RestoreWallet(flow[op].previous)
    BY <1>5 DEF Undo
  <2>2. flow[op].previous \in Handles \cup {None}
    BY PageTypes DEF FlowMaps, Flows, Operations
  <2> QED BY <2>1, <2>2, RestoreWalletOnPage, PageTypes
<1> QED BY <1>1, <1>2, <1>3, <1>4, <1>5

LEMMA SessionTurns ==
  ASSUME PageIInv,
         \/ BeginRetry \/ InstallResolved \/ EffectRuns
         \/ \E op \in {"connecting", "disconnecting", "removing"} : Reconcile(op)
  PROVE  CP!Turn
<1>1. CASE BeginRetry
  BY <1>1, RetryOnPage, PageTypes DEF BeginRetry
<1>2. CASE InstallResolved
  <2>1. flow["connecting"].token \in TokensOrNone /\ SetAccountSession(flow["connecting"].token)
    BY <1>2, PageTypes DEF InstallResolved, FlowMaps, Flows, Operations
  <2> QED BY <2>1, SetSessionOnPage, PageTypes
<1>3. CASE EffectRuns
  <2>1. session = Loading /\ SetAccountLoading => CP!Turn
    BY LoadingOnPage, PageTypes
  <2>2. ASSUME session # Loading PROVE session \in TokensOrNone
    BY <2>2, PageTypes DEF Sessions
  <2>3. session # Loading /\ SetAccountSession(session) => CP!Turn
    BY <2>2, SetSessionOnPage, PageTypes
  <2>4. session # Loading /\ RestoreSession(session) => CP!Turn
    BY <2>2, RestoreOnPage, PageTypes DEF RestoreSession
  <2> QED BY <1>3, <2>1, <2>3, <2>4 DEF EffectRuns
<1>4. ASSUME NEW op \in {"connecting", "disconnecting", "removing"}, Reconcile(op)
      PROVE  CP!Turn
  <2> DEFINE captured == flow[op].captured
  <2>1. captured \in Sessions
    BY PageTypes DEF FlowMaps, Flows, Operations
  <2>2. CASE captured = Loading
    BY <1>4, <2>2, LoadingOnPage, PageTypes DEF Reconcile
  <2>3. CASE captured # Loading
    <3>1. captured \in TokensOrNone /\ RestoreCall(captured) /\ initialized' = initialized
      BY <1>4, <2>1, <2>3 DEF Reconcile, Sessions
    <3> QED BY <3>1, RestoreOnPage, PageTypes
  <2> QED BY <2>2, <2>3
<1> QED BY <1>1, <1>2, <1>3, <1>4

LEMMA PageTurns == PageIInv /\ [PageNext]_pageVars => CP!Turn
<1> SUFFICES ASSUME PageIInv, [PageNext]_pageVars PROVE CP!Turn
  OBVIOUS
<1>1. CASE CoordinatorRests
  BY <1>1, RestsOnPage, PageTypes
<1>2. CASE CheckSteps
  <2>1. PICK c \in checks, response \in Resolver!Responses : CheckAnswered(c, response)
    BY <1>2 DEF CheckSteps, CheckIsAnswered
  <2> QED BY <2>1, AnswerOnPage, PageTypes
<1>3. CASE UNCHANGED pageVars
  BY <1>3 DEF pageVars, vars, CP!Turn, CP!vars, controllerVars
<1>4. CASE ConnectSteps
  <2>1. PairVerified \/ InstallResolved \/ CoordinatorRests
    BY <1>4 DEF ConnectSteps, PasskeyAnswers, ConnectGivesUp, InstallRejected, InstallPublished,
                SettledBound, SettledUnbound, ClearAnswered
  <2> QED BY <1>1, <2>1, WalletTurns, SessionTurns
<1>5. ASSUME NEW op \in {"connecting", "disconnecting", "removing"},
             FailureSteps(op) \/ LeaveSteps(op)
      PROVE  CP!Turn
  <2>1. Undo(op) \/ Reconcile(op) \/ CoordinatorRests
    BY <1>5 DEF FailureSteps, LeaveSteps, Reconciled, SignOutResolves, SignOutRejects
  <2> QED BY <1>1, <2>1, WalletTurns, SessionTurns
<1>6. CASE BeginConnect \/ Retried \/ ConnectCompletes \/ LeaveCompletes \/ Commit \/ MarkerSettles
  BY <1>1, <1>6 DEF BeginConnect, Retried, ConnectCompletes, LeaveCompletes, Commit, MarkerSettles
<1>7. ASSUME NEW s \in Sessions, HostDecides(s) PROVE CP!Turn
  BY <1>1, <1>7 DEF HostDecides
<1> QED
  BY <1>2, <1>3, <1>4, <1>5, <1>6, <1>7, WalletTurns, SessionTurns DEF PageNext

(* However the operations of the page interleave with its host and with    *)
(* the answers, the relation under it is RelationPromise's.                *)
THEOREM PageKeepsPromise == PageSpec => CP!KeepsPromise
<1>1. PageInit => CP!Promise!Init
  BY ControllerBegins, CP!PromiseBegins, ControllerAssumptions DEF PageInit, Init
<1>2. PageIInv /\ [PageNext]_pageVars => CP!PromiseStep
  <2>1. PageIInv /\ [PageNext]_pageVars => CP!IInv /\ CP!IInv'
    BY PageStep DEF PageIInv, Core, IInv
  <2> QED BY <2>1, PageTurns, CP!TurnIsPromised, ControllerAssumptions
<1> QED
  BY <1>1, <1>2, PageIInvHolds, PTL
  DEF PageSpec, CP!KeepsPromise, CP!Promise!Spec, CP!Promise!promise, CP!PromiseStep, CP!Shown

(* No operation of the page opens account data but by the answer to an     *)
(* unaborted check of the current revision and pair.                       *)
THEOREM PageAccessIsFresh == PageSpec => CP!AccessNeedsFreshCheck
<1>1. PageIInv /\ [PageNext]_pageVars => CP!FreshTurn
  <2>1. PageIInv => CP!IInv
    BY DEF PageIInv, Core, IInv
  <2> QED BY <2>1, PageTurns, CP!TurnIsFresh, ControllerAssumptions
<1> QED
  BY <1>1, PageIInvHolds, PTL
  DEF PageSpec, CP!AccessNeedsFreshCheck, CP!FreshTurn, CP!Opens, CP!Fresh, CP!Closed
=============================================================================
