------------------------- MODULE WalletStore_proofs --------------------------
(***************************************************************************)
(* Proofs about the Wallet store, for any number of tabs, handles and      *)
(* facts.  The theorems about what a tab observed and what a failure       *)
(* writes assume that the write which undoes another one succeeds.         *)
(***************************************************************************)
EXTENDS WalletStore, TLAPS

(***************************************************************************)
(* The inductive invariant.  A notice that does not invalidate leaves a    *)
(* subscriber's knowledge as it was, so that knowledge must be what the    *)
(* notice was compared with: what the tab last observed.                   *)
(***************************************************************************)
BelievedInv == \A t \in subscribed \ raced : believed[t] = observed[t]

IInv == TypeOK /\ ObservedIsStored /\ BelievedInv

-----------------------------------------------------------------------------
(***************************************************************************)
(* Lemmas about the operators.                                             *)
(***************************************************************************)

(* A handle names a Wallet whether or not it has a row.                    *)
LEMMA WalletForHandleType ==
  ASSUME NEW h \in Handles \cup {None}, NEW rows \in [Handles -> Rows]
  PROVE  WalletForHandle(h, rows) \in StoredWallets \cup {None}
BY DEF WalletForHandle, StoredWallets, Rows

(* A merge never removes a row.                                            *)
LEMMA MergedType ==
  ASSUME NEW row \in Rows, NEW facts \in Rows
  PROVE  Merged(row, facts) \in Rows
BY DEF Merged, Rows

-----------------------------------------------------------------------------
(***************************************************************************)
(* Types.                                                                  *)
(***************************************************************************)
LEMMA EmitType ==
  ASSUME TypeOK, NEW t \in Tabs,
         NEW previous \in StoredWallets \cup {None},
         NEW active \in StoredWallets \cup {None},
         Emit(t, previous, active, FALSE) \/ Emit(t, previous, active, TRUE)
  PROVE  /\ observed' \in [Tabs -> StoredWallets \cup {None}]
         /\ believed' \in [Tabs -> StoredWallets \cup {None}]
         /\ event' \in Events \cup {None}
         /\ raced' \subseteq Tabs
<1>1. CASE previous # active
  <2>1. event' = [tab |-> t, active |-> active, invalidates |-> TRUE]
    BY <1>1 DEF Emit, InvalidatesAccountBinding
  <2> QED BY <1>1, <2>1 DEF Emit, TypeOK, Events, InvalidatesAccountBinding
<1>2. CASE previous = active
  <2>1. event' = [tab |-> t, active |-> active, invalidates |-> FALSE]
    BY <1>2 DEF Emit, InvalidatesAccountBinding
  <2> QED BY <1>2, <2>1 DEF Emit, TypeOK, Events, InvalidatesAccountBinding
<1> QED BY <1>1, <1>2

(* What a mutation may do, whichever it is: it writes and tells, it writes *)
(* nothing, or its first write is undone, or stays.                        *)
Written(t, rows, active) ==
  /\ roster' = rows /\ activeHandle' = active
  /\ done' = TRUE
  /\ Emit(t, ActiveWallet, WalletForHandle(active, rows), t \in news)
  /\ OthersWillHear(t)
  /\ UNCHANGED subscribed

LEMMA WrittenTells ==
  ASSUME NEW t, NEW rows, NEW active, Written(t, rows, active)
  PROVE  \/ Emit(t, ActiveWallet, WalletForHandle(active, rows), TRUE)
         \/ /\ t \notin news
            /\ Emit(t, ActiveWallet, WalletForHandle(active, rows), FALSE)
<1>1. CASE t \in news
  BY <1>1 DEF Written, Emit
<1>2. CASE t \notin news
  BY <1>2 DEF Written, Emit
<1> QED BY <1>1, <1>2

LEMMA MutationForm ==
  ASSUME TypeOK, NEW t \in Tabs, Mutation(t)
  PROVE  \/ \E rows \in [Handles -> Rows], active \in Handles \cup {None} :
              Written(t, rows, active)
         \/ NothingWritten
         \/ \E rows \in [Handles -> Rows] : RolledBack(t, rows)
<1> DEFINE Form ==
             \/ \E rows \in [Handles -> Rows], active \in Handles \cup {None} :
                  Written(t, rows, active)
             \/ NothingWritten
             \/ \E rows \in [Handles -> Rows] : RolledBack(t, rows)
<1>1. ASSUME NEW h \in Handles, NEW facts \in Rows, Activate(t, h, facts)
      PROVE  Form
  <2> DEFINE rows == [roster EXCEPT ![h] = Merged(@, facts)]
  <2>1. rows \in [Handles -> Rows]
    BY MergedType DEF TypeOK
  <2> HIDE DEF rows
  <2>2. \/ Written(t, rows, h) \/ NothingWritten \/ RolledBack(t, rows)
    BY <1>1 DEF Activate, Written, rows
  <2> QED BY <2>1, <2>2
<1>2. ASSUME NEW h \in Handles, Remove(t, h)
      PROVE  Form
  <2> DEFINE rows == [roster EXCEPT ![h] = NoRow]
             left == IF activeHandle = h THEN None ELSE activeHandle
  <2>1. rows \in [Handles -> Rows] /\ left \in Handles \cup {None}
    BY DEF TypeOK, Rows
  <2>2. WalletForHandle(left, roster) = WalletForHandle(left, rows)
    BY DEF TypeOK, WalletForHandle
  <2> HIDE DEF rows, left
  <2>3. \/ Written(t, rows, left) \/ NothingWritten \/ RolledBack(t, rows)
    BY <1>2, <2>2 DEF Remove, Written, rows, left
  <2> QED BY <2>1, <2>3
<1>3. ASSUME Disconnect(t) PROVE Form
  <2>1. roster \in [Handles -> Rows] /\ WalletForHandle(None, roster) = None
    BY DEF TypeOK, WalletForHandle
  <2>2. Written(t, roster, None) \/ NothingWritten
    BY <1>3, <2>1 DEF Disconnect, Written
  <2> QED BY <2>1, <2>2
<1>4. ASSUME NEW h \in Handles, Switch(t, h) PROVE Form
  BY <1>1, <1>4 DEF Switch, TypeOK
<1>5. \A facts \in Facts \cup {NoFacts} : facts \in Rows
  BY DEF Rows
<1> HIDE DEF Form
<1>6. Form
  BY <1>1, <1>2, <1>3, <1>4, <1>5 DEF Mutation
<1> QED BY <1>6 DEF Form

LEMMA NextTypeOK == TypeOK /\ [Next]_store => TypeOK'
<1> SUFFICES ASSUME TypeOK, [Next]_store PROVE TypeOK'
  OBVIOUS
<1>0. ActiveWallet \in StoredWallets \cup {None}
  BY WalletForHandleType DEF TypeOK, ActiveWallet
<1>1. ASSUME NEW t \in Tabs, NEW rows \in [Handles -> Rows], NEW active \in Handles \cup {None},
             Written(t, rows, active)
      PROVE  TypeOK'
  <2>1. WalletForHandle(active, rows) \in StoredWallets \cup {None}
    BY WalletForHandleType
  <2>2. /\ observed' \in [Tabs -> StoredWallets \cup {None}]
        /\ believed' \in [Tabs -> StoredWallets \cup {None}]
        /\ event' \in Events \cup {None}
        /\ raced' \subseteq Tabs
    BY <1>0, <1>1, <2>1, WrittenTells, EmitType
  <2> QED BY <1>1, <2>2 DEF Written, TypeOK, OthersWillHear
<1>2. CASE NothingWritten
  BY <1>2 DEF NothingWritten, TypeOK, Silent, storage
<1>3. ASSUME NEW t \in Tabs, NEW rows \in [Handles -> Rows], RolledBack(t, rows)
      PROVE  TypeOK'
  BY <1>3 DEF RolledBack, TypeOK, Silent, OthersWillHear
<1>4. ASSUME NEW t \in Tabs, Mutation(t) PROVE TypeOK'
  BY <1>1, <1>2, <1>3, <1>4, MutationForm
<1>5. ASSUME NEW t \in Tabs, Subscribe(t) PROVE TypeOK'
  BY <1>0, <1>5 DEF Subscribe, TypeOK, storage
<1>6. ASSUME NEW t \in Tabs, Unsubscribe(t) PROVE TypeOK'
  BY <1>6 DEF Unsubscribe, TypeOK, storage, Silent
<1>7. ASSUME NEW t \in Tabs, StorageEvent(t) PROVE TypeOK'
  <2>1. CASE t \in subscribed
    <3>1. Emit(t, observed[t], ActiveWallet, FALSE) /\ observed[t] \in StoredWallets \cup {None}
      BY <1>7, <2>1 DEF StorageEvent, TypeOK
    <3>2. /\ observed' \in [Tabs -> StoredWallets \cup {None}]
          /\ believed' \in [Tabs -> StoredWallets \cup {None}]
          /\ event' \in Events \cup {None}
          /\ raced' \subseteq Tabs
      BY <1>0, <3>1, EmitType
    <3> QED BY <1>7, <3>2 DEF StorageEvent, TypeOK, storage
  <2>2. CASE t \notin subscribed
    BY <1>7, <2>2 DEF StorageEvent, TypeOK, storage, Silent
  <2> QED BY <2>1, <2>2
<1>8. CASE UNCHANGED store
  BY <1>8 DEF store, TypeOK
<1> QED BY <1>4, <1>5, <1>6, <1>7, <1>8 DEF Next

(* Every variable keeps its type, whichever writes fail.                   *)
THEOREM TypeCorrect == Spec => []TypeOK
<1>1. Init => TypeOK
  BY DEF Init, TypeOK
<1> QED BY <1>1, NextTypeOK, PTL DEF Spec

-----------------------------------------------------------------------------
(***************************************************************************)
(* The invariant.                                                          *)
(***************************************************************************)

(* A notice leaves the tab's knowledge equal to what it observed, if it    *)
(* was compared with that, or if the tab counts as raced.                  *)
LEMMA EmitKeepsBelief ==
  ASSUME TypeOK, BelievedInv, NEW t \in Tabs, NEW previous, NEW active,
         UNCHANGED subscribed,
         \/ Emit(t, previous, active, TRUE)
         \/ /\ Emit(t, previous, active, FALSE)
            /\ t \notin subscribed \/ previous = observed[t]
  PROVE  BelievedInv'
<1> SUFFICES ASSUME NEW u \in subscribed \ raced' PROVE believed'[u] = observed'[u]
  BY DEF BelievedInv
<1>1. u \in Tabs
  BY DEF TypeOK
<1>2. CASE u # t
  BY <1>1, <1>2 DEF Emit, TypeOK, BelievedInv
<1>3. CASE u = t
  <2>1. CASE previous # active
    BY <1>3, <2>1 DEF Emit, TypeOK, InvalidatesAccountBinding
  <2>2. CASE previous = active
    BY <1>3, <2>2 DEF Emit, TypeOK, BelievedInv, InvalidatesAccountBinding
  <2> QED BY <2>1, <2>2
<1> QED BY <1>2, <1>3

LEMMA NextIInv ==
  ASSUME RollbackMayFail = FALSE, IInv, [Next]_store
  PROVE  IInv'
<1>0. TypeOK /\ ObservedIsStored /\ BelievedInv
  BY DEF IInv
<1>1. TypeOK'
  BY <1>0, NextTypeOK
<1>2. ASSUME NEW t \in Tabs, NEW rows \in [Handles -> Rows], NEW active \in Handles \cup {None},
             Written(t, rows, active)
      PROVE  ObservedIsStored' /\ BelievedInv'
  <2>1. /\ ActiveWallet' = WalletForHandle(active, rows)
        /\ observed' = [observed EXCEPT ![t] = ActiveWallet']
    BY <1>2 DEF Written, Emit, ActiveWallet
  <2>2. \A u \in Tabs : Quiet(u)' => u = t
    BY <1>2 DEF Written, OthersWillHear, Quiet
  <2>3. ObservedIsStored'
    BY <1>0, <2>1, <2>2 DEF ObservedIsStored, TypeOK
  <2>4. (t \in news) \/ t \notin subscribed \/ ActiveWallet = observed[t]
    BY <1>0 DEF ObservedIsStored, Quiet
  <2>5. /\ UNCHANGED subscribed
        /\ \/ Emit(t, ActiveWallet, WalletForHandle(active, rows), TRUE)
           \/ /\ t \notin news
              /\ Emit(t, ActiveWallet, WalletForHandle(active, rows), FALSE)
    BY <1>2, WrittenTells DEF Written
  <2>6. BelievedInv'
    BY <1>0, <2>4, <2>5, EmitKeepsBelief
  <2> QED BY <2>3, <2>6
<1>3. ASSUME UNCHANGED <<storage, observed, believed, raced>>, news \subseteq news',
             subscribed' \subseteq subscribed
      PROVE  ObservedIsStored' /\ BelievedInv'
  BY <1>0, <1>3 DEF ObservedIsStored, BelievedInv, storage, ActiveWallet, Quiet
<1>4. ASSUME NEW t \in Tabs, Mutation(t) PROVE ObservedIsStored' /\ BelievedInv'
  <2>1. CASE NothingWritten
    BY <1>3, <2>1 DEF NothingWritten, Silent
  <2>2. ASSUME NEW rows, RolledBack(t, rows) PROVE ObservedIsStored' /\ BelievedInv'
    <3>1. roster' = roster
      BY <2>2 DEF RolledBack
    <3> QED BY <1>3, <2>2, <3>1 DEF RolledBack, Silent, OthersWillHear, storage
  <2> QED BY <1>0, <1>2, <1>4, <2>1, <2>2, MutationForm
<1>5. ASSUME NEW t \in Tabs, Subscribe(t) PROVE ObservedIsStored' /\ BelievedInv'
  BY <1>0, <1>5
  DEF Subscribe, TypeOK, storage, ObservedIsStored, BelievedInv, ActiveWallet, Quiet
<1>6. ASSUME NEW t \in Tabs, Unsubscribe(t) PROVE ObservedIsStored' /\ BelievedInv'
  BY <1>3, <1>6 DEF Unsubscribe, Silent
<1>7. ASSUME NEW t \in Tabs, StorageEvent(t) PROVE ObservedIsStored' /\ BelievedInv'
  <2>1. CASE t \in subscribed
    <3>1. /\ Emit(t, observed[t], ActiveWallet, FALSE)
          /\ UNCHANGED <<storage, subscribed>> /\ news' = news \ {t}
          /\ ActiveWallet' = ActiveWallet
      BY <1>7, <2>1 DEF StorageEvent, storage, ActiveWallet
    <3>2. ObservedIsStored'
      BY <1>0, <3>1 DEF ObservedIsStored, Emit, TypeOK, Quiet
    <3> QED BY <1>0, <3>1, <3>2, EmitKeepsBelief
  <2>2. CASE t \notin subscribed
    BY <1>0, <1>7, <2>2
    DEF StorageEvent, Silent, ObservedIsStored, BelievedInv, storage, ActiveWallet, Quiet
  <2> QED BY <2>1, <2>2
<1>8. ASSUME UNCHANGED store PROVE ObservedIsStored' /\ BelievedInv'
  BY <1>3, <1>8 DEF store, storage
<1>9. ObservedIsStored' /\ BelievedInv'
  BY <1>4, <1>5, <1>6, <1>7, <1>8 DEF Next
<1> QED BY <1>1, <1>9 DEF IInv

LEMMA IInvHolds ==
  ASSUME RollbackMayFail = FALSE
  PROVE  Spec => []IInv
<1>1. Init => IInv
  BY DEF Init, IInv, TypeOK, ObservedIsStored, BelievedInv, Quiet
<1>2. IInv /\ [Next]_store => IInv'
  BY NextIInv
<1> QED BY <1>1, <1>2, PTL DEF Spec

-----------------------------------------------------------------------------
(***************************************************************************)
(* What follows.                                                           *)
(***************************************************************************)

(* A tab that no storage event is on its way to has observed what storage  *)
(* holds, however the mutations of all tabs mix (emit(), onStorageEvent()).*)
THEOREM TabsObserveStorage ==
  ASSUME RollbackMayFail = FALSE
  PROVE  Spec => []ObservedIsStored
<1>1. IInv => ObservedIsStored
  BY DEF IInv
<1> QED BY <1>1, IInvHolds, PTL

(* Moreover a subscriber that acts on invalidating notices only knows the  *)
(* active Wallet, unless its tab changed it before it heard of another     *)
(* tab's change.                                                           *)
THEOREM SubscribersAreTold ==
  ASSUME RollbackMayFail = FALSE
  PROVE  Spec => []NoticedUnlessRaced
<1>1. IInv => NoticedUnlessRaced
  BY DEF IInv, TypeOK, ObservedIsStored, BelievedInv, NoticedUnlessRaced, Quiet
<1> QED BY <1>1, IInvHolds, PTL

(* A mutation that reports failure has changed neither key.                *)
THEOREM FailureChangesNothing ==
  ASSUME RollbackMayFail = FALSE
  PROVE  Spec => FailureWritesNothing
<1>1. ASSUME TypeOK, [Next]_store PROVE [~done' => UNCHANGED storage]_store
  <2>1. ASSUME NEW t \in Tabs, Mutation(t) PROVE ~done' => UNCHANGED storage
    <3>1. ASSUME NEW rows, NEW active, Written(t, rows, active) PROVE done' = TRUE
      BY <3>1 DEF Written
    <3>2. ASSUME NothingWritten PROVE UNCHANGED storage
      BY <3>2 DEF NothingWritten
    <3>3. ASSUME NEW rows, RolledBack(t, rows) PROVE UNCHANGED storage
      BY <3>3 DEF RolledBack, storage
    <3> QED BY <1>1, <2>1, <3>1, <3>2, <3>3, MutationForm
  <2>2. ASSUME NEW t \in Tabs, Subscribe(t) \/ Unsubscribe(t) \/ StorageEvent(t)
        PROVE  UNCHANGED storage
    BY <2>2 DEF Subscribe, Unsubscribe, StorageEvent
  <2> QED BY <1>1, <2>1, <2>2 DEF Next
<1>2. Spec => []TypeOK
  BY TypeCorrect
<1> QED BY <1>1, <1>2, PTL DEF Spec, FailureWritesNothing
=============================================================================
