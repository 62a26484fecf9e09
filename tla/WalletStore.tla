---------------------------- MODULE WalletStore -----------------------------
(***************************************************************************)
(* The Wallet roster and the active Wallet of one browser (walletStore.ts):*)
(* two localStorage keys that every tab of the origin reads and writes.    *)
(*                                                                         *)
(* A mutation is one synchronous turn of a tab: it reads both keys, writes *)
(* one or both, each write may throw, and on success tells the tab's own   *)
(* subscribers before it returns.  The other tabs hear of it later, by a   *)
(* storage event, and in the meantime may mutate the same keys themselves. *)
(***************************************************************************)
CONSTANTS
  Tabs,             (* Open tabs of the origin.                            *)
  Handles,          (* Wallet handles.                                     *)
  Facts,            (* Identity facts of a row (vaultPda, credentialId).   *)
  NoFacts,          (* A row whose facts are undefined.                    *)
  NoRow,            (* A handle without a roster row.                      *)
  None,             (* No Wallet, no handle, no event.                     *)
  WritesMayFail,    (* TRUE if a storage write may throw.                  *)
  RollbackMayFail   (* TRUE if the write that undoes one may throw too.    *)

ASSUME FactsAreDistinct == {NoFacts, NoRow, None} \cap (Handles \cup Facts) = {} /\ NoFacts # NoRow
ASSUME FaultsAreBoolean == WritesMayFail \in BOOLEAN /\ RollbackMayFail \in BOOLEAN

VARIABLES
  activeHandle,  (* localStorage: the active handle, or None.              *)
  roster,        (* localStorage: the facts of each handle's row, or NoRow.*)
  subscribed,    (* Tabs with at least one subscriber.                     *)
  observed,      (* lastObservedActiveWallet of each tab.                  *)
  news,          (* Tabs with a storage event on its way.                  *)
  event,         (* The notice this step gave to a tab's subscribers.      *)
  done,          (* FALSE if the step was a mutation that reported failure.*)
  believed,      (* History: the active Wallet as a subscriber of the tab  *)
                 (* knows it that acts on invalidating notices only.       *)
  raced          (* History: tabs that mutated with news on its way and    *)
                 (* have had no invalidating notice since.                 *)

storage == <<activeHandle, roster>>
store == <<activeHandle, roster, subscribed, observed, news, event, done, believed, raced>>

Rows == Facts \cup {NoFacts, NoRow}
StoredWallets == [handle : Handles, facts : Facts \cup {NoFacts}]
Events == [tab : Tabs, active : StoredWallets \cup {None}, invalidates : BOOLEAN]

(* walletForHandle: a handle without a row still names a Wallet.           *)
WalletForHandle(h, rows) ==
  IF h = None THEN None
  ELSE [handle |-> h, facts |-> IF rows[h] = NoRow THEN NoFacts ELSE rows[h]]

ActiveWallet == WalletForHandle(activeHandle, roster)

(* mergeDefinedWallet: undefined facts keep those of the row.              *)
Merged(row, facts) ==
  IF facts # NoFacts THEN facts ELSE IF row = NoRow THEN NoFacts ELSE row

(* Slip: only a change of handle is an identity change.                    *)
InvalidatesAccountBinding_Handle(previous, active) ==
  (IF previous = None THEN None ELSE previous.handle)
    # (IF active = None THEN None ELSE active.handle)

(* mutationEvent: another handle, or other facts of the same handle.       *)
InvalidatesAccountBinding(previous, active) == previous # active

(***************************************************************************)
(* Notices.                                                                *)
(***************************************************************************)

(* emit(): the tab remembers the active Wallet and tells its subscribers.  *)
(* late: the tab has not heard yet of another tab's change.                *)
Emit(t, previous, active, late) ==
  LET invalidates == InvalidatesAccountBinding(previous, active)
  IN  /\ observed' = [observed EXCEPT ![t] = active]
      /\ event' = [tab |-> t, active |-> active, invalidates |-> invalidates]
      /\ believed' = IF invalidates THEN [believed EXCEPT ![t] = active] ELSE believed
      /\ raced' = IF invalidates THEN raced \ {t}
                  ELSE IF late THEN raced \cup {t} ELSE raced

Silent == event' = None /\ UNCHANGED <<observed, believed, raced>>

(* A write reaches the other tabs as a storage event, in its own time.     *)
OthersWillHear(t) == news' = news \cup (Tabs \ {t})

(* A mutation that reports failure, having written nothing.                *)
NothingWritten ==
  /\ WritesMayFail
  /\ done' = FALSE
  /\ Silent
  /\ UNCHANGED <<storage, news, subscribed>>

(* Slip: the roster is left as written.                                    *)
RolledBack_Not(t, written) ==
  /\ WritesMayFail
  /\ done' = FALSE
  /\ roster' = written
  /\ OthersWillHear(t)
  /\ Silent
  /\ UNCHANGED <<activeHandle, subscribed>>

(* The second write failed.  The first one is undone, unless that fails    *)
(* too; either way the other tabs hear of a change and this tab does not.  *)
RolledBack(t, written) ==
  /\ WritesMayFail
  /\ done' = FALSE
  /\ roster' \in {roster} \cup {r \in {written} : RollbackMayFail}
  /\ OthersWillHear(t)
  /\ Silent
  /\ UNCHANGED <<activeHandle, subscribed>>

(***************************************************************************)
(* Mutations.                                                              *)
(***************************************************************************)
Init ==
  /\ activeHandle \in Handles \cup {None}
  /\ roster \in [Handles -> Rows]
  /\ subscribed = {}
  /\ observed = [t \in Tabs |-> None]
  /\ news = {}
  /\ event = None
  /\ done = TRUE
  /\ believed = [t \in Tabs |-> None]
  /\ raced = {}

(* setActiveWallet, setActiveHandle: the row first, then the handle.  What *)
(* was active before is read from storage, not from what the tab observed. *)
Activate(t, h, facts) ==
  LET written == [roster EXCEPT ![h] = Merged(@, facts)]
  IN  \/ /\ roster' = written /\ activeHandle' = h
         /\ done' = TRUE
         /\ Emit(t, ActiveWallet, WalletForHandle(h, written), t \in news)
         /\ OthersWillHear(t)
         /\ UNCHANGED subscribed
      \/ NothingWritten
      \/ RolledBack(t, written)

(* switchWallet: only to a known row, which it activates as it is.         *)
Switch(t, h) == roster[h] # NoRow /\ Activate(t, h, roster[h])

(* forgetWallet, removeWalletFromDeviceRoster: a known row, and the active *)
(* handle with it if it is that Wallet's.                                  *)
Remove(t, h) ==
  LET written == [roster EXCEPT ![h] = NoRow]
      left    == IF activeHandle = h THEN None ELSE activeHandle
  IN  /\ roster[h] # NoRow
      /\ \/ /\ roster' = written /\ activeHandle' = left
            /\ done' = TRUE
            /\ Emit(t, ActiveWallet, WalletForHandle(left, roster), t \in news)
            /\ OthersWillHear(t)
            /\ UNCHANGED subscribed
         \/ NothingWritten
         \/ activeHandle = h /\ RolledBack(t, written)

(* disconnectActiveWallet: the row stays.                                  *)
Disconnect(t) ==
  /\ activeHandle # None
  /\ \/ /\ activeHandle' = None
        /\ done' = TRUE
        /\ Emit(t, ActiveWallet, None, t \in news)
        /\ OthersWillHear(t)
        /\ UNCHANGED <<roster, subscribed>>
     \/ NothingWritten

(***************************************************************************)
(* Subscriptions and storage events.                                       *)
(***************************************************************************)
Subscribe(t) ==
  /\ t \notin subscribed
  /\ subscribed' = subscribed \cup {t}
  /\ observed' = [observed EXCEPT ![t] = ActiveWallet]
  /\ believed' = [believed EXCEPT ![t] = ActiveWallet]
  /\ raced' = raced \ {t}
  /\ event' = None /\ done' = TRUE
  /\ UNCHANGED <<storage, news>>

Unsubscribe(t) ==
  /\ t \in subscribed
  /\ subscribed' = subscribed \ {t}
  /\ Silent /\ done' = TRUE
  /\ UNCHANGED <<storage, news>>

(* Slip: the handler tells the subscribers but does not use emit().        *)
StorageEvent_NotObserved(t) ==
  /\ t \in news
  /\ news' = news \ {t}
  /\ done' = TRUE
  /\ event' = [tab |-> t, active |-> ActiveWallet, invalidates |-> TRUE]
  /\ believed' = [believed EXCEPT ![t] = ActiveWallet]
  /\ UNCHANGED <<storage, subscribed, observed, raced>>

(* Slip: compares with storage, as the mutations do.                       *)
StorageEvent_ComparesStorage(t) ==
  /\ t \in news
  /\ news' = news \ {t}
  /\ done' = TRUE
  /\ IF t \in subscribed THEN Emit(t, ActiveWallet, ActiveWallet, FALSE) ELSE Silent
  /\ UNCHANGED <<storage, subscribed>>

(* onStorageEvent: compares what the tab last observed with what storage   *)
(* holds now, whatever writes lie between.                                 *)
StorageEvent(t) ==
  /\ t \in news
  /\ news' = news \ {t}
  /\ done' = TRUE
  /\ IF t \in subscribed THEN Emit(t, observed[t], ActiveWallet, FALSE) ELSE Silent
  /\ UNCHANGED <<storage, subscribed>>

Mutation(t) ==
  \/ \E h \in Handles, facts \in Facts \cup {NoFacts} : Activate(t, h, facts)
  \/ \E h \in Handles : Switch(t, h)
  \/ \E h \in Handles : Remove(t, h)
  \/ Disconnect(t)

Next ==
  \/ \E t \in Tabs : Mutation(t)
  \/ \E t \in Tabs : Subscribe(t)
  \/ \E t \in Tabs : Unsubscribe(t)
  \/ \E t \in Tabs : StorageEvent(t)

Spec == Init /\ [][Next]_store

(***************************************************************************)
(* Properties.                                                             *)
(***************************************************************************)
TypeOK ==
  /\ activeHandle \in Handles \cup {None}
  /\ roster \in [Handles -> Rows]
  /\ subscribed \subseteq Tabs /\ news \subseteq Tabs /\ raced \subseteq Tabs
  /\ observed \in [Tabs -> StoredWallets \cup {None}]
  /\ believed \in [Tabs -> StoredWallets \cup {None}]
  /\ event \in Events \cup {None}
  /\ done \in BOOLEAN

Quiet(t) == t \in subscribed /\ t \notin news

(* Once no storage event is on its way to a tab, what the tab last         *)
(* observed is what storage holds, however the writes of all tabs mixed:   *)
(* the next notice compares with the right Wallet.                         *)
ObservedIsStored == \A t \in Tabs : Quiet(t) => observed[t] = ActiveWallet

(* A subscriber that acts only on invalidating notices, as the identity    *)
(* coordinator does, knows the active Wallet once its tab is quiet, unless *)
(* its tab itself mutated the store before it heard of another tab's       *)
(* change.                                                                 *)
NoticedUnlessRaced ==
  \A t \in Tabs : Quiet(t) /\ t \notin raced => believed[t] = ActiveWallet

(* A mutation that reports failure leaves both keys as they were, provided *)
(* the write that undoes the first one succeeds.                           *)
FailureWritesNothing == [][~done' => UNCHANGED storage]_store
=============================================================================
