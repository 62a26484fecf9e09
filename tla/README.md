# Verification of dexter-connect

TLA+ models of `@dexterai/connect` (the SDK under `src/` of the repository),
checked with TLC and, for the core, proved with TLAPS. File and line references
are to the repository's `src/` directory.

The SDK puts a Dexter *Wallet* (a passkey with an on-chain vault) and a Dexter
*account session* of the host page side by side, and decides whether the page
may show account data with that Wallet. Nearly everything that is hard in it is
about time: answers that arrive after the question stopped mattering, tabs that
change the same two localStorage keys, effects and promises that interleave,
pages that go away in the middle of a passkey ceremony.

## 1. Inventory

| Component | State it keeps | Operations | Talks to |
|---|---|---|---|
| Relation controller (`relationController.ts`) | Wallet and account candidate, revision, active check, snapshot | restore, beginRestore, setWallet, setAccount, retry, dispose; the verifier's answer | an injected verifier; listeners |
| Identity coordinator (`identityCoordinator.ts`) | current account and token, the subject that was invalidated, the token that is allowed, accountLoading, expiry timer | start, restore, setAccountSession, setAccountLoading, allowAccountSession, retry, dispose; Wallet notice, proof notice, timer | controller, Wallet store, proof store, binding client |
| Wallet store (`walletStore.ts`) | localStorage: active handle and roster; per tab: listeners, last observed Wallet | activate, switch, remove, disconnect, subscribe; storage event | all tabs of the origin |
| Proof sessions (`walletProofSession.ts`) | localStorage: one proof with expiry per handle | load (removes what expired), save, clear, lifecycle; storage event | coordinator, activation |
| Binding client (`bindingResolver.ts`) | none | resolve, verify | Dexter API |
| Identity transitions (`identityTransition.ts`, `walletActivation.ts`) | none beyond the running call | connect, disconnect, with rollback | passkey ceremony, API, Wallet store, host's installer |
| React hooks (`useDexterIdentity.ts`, `useDexterConnection.ts`, `useDexterWallet.ts`) | markers, action ref, operation, target, error | session effect, completion effect, connect, disconnect, remove, retry, reconcile | coordinator, transitions, host page |
| Connection contract (`connectionContract.ts`) | none | snapshot and intent to stage, action, permissions | control component |
| Wallet creation (`enroll.ts`, `pendingCreation.ts`) | localStorage checkpoint and the page's copy of it; one creation in progress | createWallet, resume, finish | OS passkeys, API, Wallet store |
| Ceremony popup (`popup.ts`, `hosted.ts`, `missingVaultRecovery*.ts`) | one promise per popup: settled, handshake, request sent | open, hello, acknowledge, request, result, close, timeout | hosted page |
| Sign-in, continue, recover (`relay.ts`, `immediate.ts`, `recover.ts`) | none beyond the running call | passkeyLogin, continueWithDexter, recoverWallet | API, popup, creation |
| Sign-in hook (`useSignInWithDexter.ts`, `balance.ts`) | status, session, vault, balance, error, recovery outcome | signIn, recover, continueWith, signOutAccount, refreshBalance | the verbs above; public RPC |
| Account identity (`accountIdentity.ts`) | one ceremony in progress | signInAccountIdentity, enrollAccountIdentity, in the page or a hosted window | OS passkeys, API, popup |
| Portfolio (`useAccountPortfolio.ts`, `accountPortfolio.ts`) | request generation, in-flight request, owned amount | refresh, effect and its cleanup | API |
| Account control (`DexterAccountControl.tsx`, `CreateWalletPanel.tsx`, `DexterAccountSummary.tsx`) | open panel and its visit, creation panel, pending action, credentialNeedsSignIn | open, close, create, sign in, sign out, connect, disconnect | connection hook, account identity, portfolio, host |
| Agent authority (`agentAuthority.ts`) | none | begin, stage, approve, read; validation of limits and receipts | API |
| Agent spend and signers (`agentSpend.ts`, `signer.ts`, `anon-policy.ts`) | none beyond the running call | revoke, enable; the consent of a passkey in the page or a hosted window | API, passkey, popup |
| Policies, server, signals, trust, codecs | none (the server keeps a key cache) | stateless requests, pure checks | API, browser |
| Other components and styles (`*.tsx`, `*Styles.ts`) | what the hooks hold | rendering | hooks |

What makes each part correct:

- *Controller*: an answer shows only for the pair it was asked about, at the
  revision it was asked at; no identity change keeps access; "checking" always
  has an answer to come.
- *Wallet store*: what a tab compares with is right whenever nothing is on its
  way; subscribers hear of every change of identity; a failed mutation changes
  nothing.
- *Coordinator*: the candidate follows storage; nothing opens while the host
  loads; an invalidated account stays out; a live proof's expiry is watched by
  a timer for the right session.
- *Connect flow and contract*: account data is shown only for the pair the host
  and the store hold; a Wallet is usable only while no session beside it is
  unverified; the control's stage agrees with what it permits; a failed
  transition restores the Wallet; every operation ends.
- *Creation*: no passkey is forgotten; absence is final; a vault's terms are
  those of the call that made its passkey.
- *Sign-in, continue, recover*: a Wallet is remembered only with a vault; a
  sign-in ends no interrupted creation but its own passkey's.
- *Popup*: a result reaches the ceremony it answers; a sensitive request leaves
  once; no window outlives its ceremony; every promise settles.
- *Portfolio, sign-in hook*: no answer of an earlier Wallet or vault is shown; a
  portfolio that says loading has a read on its way.
- *Account identity*: an enrollment that is reported as failed for good enrolled
  nothing and never will.
- *Account control*: a person is not led into a second enrollment while one may
  exist unfinished; a sign-in whose panel was dismissed signs nobody in.
- *Agent spend*: a switch moves only as a call named it, once for each consent.
- *Agent authority*: the owner signs for the request of his own attempt, and a
  receipt and a redirect are accepted only for what he signed; limits are
  ordered and fit 64 bits.

`PROJECT.json` lists the hazards of the code, each at its line, with the
properties that cover it or the reason why none does.

## 2. Modules

| Module | Models | Lines it follows |
|---|---|---|
| `RelationController` | the controller, one action per public method, one for an answer | `relationController.ts` |
| `RelationPromise` | what the controller promises, without revisions and aborts | its comments and method contracts |
| `RelationController_proofs` | theorems about `RelationController` | - |
| `WalletStore` | roster and active handle of one browser, several tabs | `walletStore.ts` |
| `WalletStore_proofs` | theorems about `WalletStore` | - |
| `BindingResolver` | HTTP outcome to relation or failure | `bindingResolver.ts` |
| `IdentityCoordinator` | the coordinator in one tab; instantiates the three above | `identityCoordinator.ts`, `walletProofSession.ts`, `walletActivation.ts` |
| `IdentityCoordinator_proofs` | theorems about `IdentityCoordinator`, on those about its controller and its store, and about `ConnectFlow` on top | - |
| `ConnectFlow` | the page: hooks, transitions, host; extends `IdentityCoordinator` | `useDexterConnection.ts`, `useDexterIdentity.ts`, `identityTransition.ts` |
| `ConnectionContract` | stage and permissions as functions of a snapshot; instantiated by `ConnectFlow` | `connectionContract.ts` |
| `WalletCreation` | creation, checkpoint, the API's side of enrollment | `enroll.ts`, `pendingCreation.ts` |
| `WalletCreation_proofs` | theorems about `WalletCreation` and about `SignInCeremonies` | - |
| `SignInCeremonies` | login, continue and recovery on the Dexter origin; extends `WalletCreation` | `relay.ts`, `recover.ts`, `immediate.ts`, `hosted.ts` |
| `PopupChannel` | the opener's side of ceremony popups, and the window they share | `popup.ts`, `missingVaultRecovery.ts` |
| `PopupChannel_proofs` | theorems about `PopupChannel` | - |
| `AgentAuthority` | granting an authority, and the API's selections | `agentAuthority.ts` |
| `AgentAuthority_proofs` | theorems about `AgentAuthority` | - |
| `AgentSpend` | the spend switch: intents, consent, submissions, redemption | `agentSpend.ts`, `signer.ts`, `anon-policy.ts` |
| `AgentSpend_proofs` | theorems about `AgentSpend` | - |
| `AccountIdentity` | an identity ceremony, and the API's enrollments | `accountIdentity.ts` |
| `AccountPortfolio` | the portfolio hook and its reads | `useAccountPortfolio.ts`, `accountPortfolio.ts` |
| `AccountControl` | the control, composed of the two above | `DexterAccountControl.tsx`, `CreateWalletPanel.tsx`, `DexterAccountSummary.tsx` |
| `AccountControl_proofs` | theorems about `AccountControl` and the two it composes | - |
| `SignInHook` | the sign-in hook and its balance reads | `useSignInWithDexter.ts`, `balance.ts` |

`MC*` modules give the constants values and, where needed, a view.

How the models correspond to the code:

- **A turn is an action.** JavaScript runs a synchronous stretch without
  interruption, so one method call, one event handler or one stretch of an async
  function between two awaits is one action, with everything it calls: a
  Wallet mutation's action includes the notice, the coordinator's subscriber and
  the controller's `restore`. Only the snapshot at the end of a turn is modelled;
  intermediate publishes are seen by listeners of the same turn only.
- **Awaits are cut.** After an await the model may take any other step first: a
  commit, an effect, a host decision, another tab. Promise reactions are steps of
  their own, because the host's own reactions and React's synchronous commits may
  run between them. A flow that waited for a verification reads the snapshot when
  it goes on, as `controller.getSnapshot()` at the end of `runCheck` does.
- **A verifier call is a record** named by its revision. In the controller's own
  run an aborted call may still answer (`VerifierObeysAbort = FALSE`); the
  coordinator passes the signal to `fetch`, so there an aborted call is gone.
- **The API is trusted about what it was asked** and about nothing else: `bound`
  or `conflict` is answered truthfully for the pair sent (`MayAnswer`,
  `Truthful`), and any exchange may fail in any way `bindingResolver.ts`
  distinguishes. In `WalletCreation` the API accepts an enrollment while its
  challenge is open, once, and the first initialization of a vault decides its
  terms; both are marked external.
- **Storage** is shared by tabs; a turn's accesses are atomic. A storage event is
  a flag per tab: several writes may be heard of as one, at any later time. A
  mutation by a tab with a flag set is remembered in `raced`, and an active
  Wallet read before its notice in `ahead`, because the code is not protected
  against either and the properties must say so.
- **Sign-ins** run beside creations, in the same page and on the same passkeys,
  rows and checkpoint. Some passkeys are synced: they belong to Wallets made on
  another device. Recovery initializes a vault without an allowance by design,
  so `TermsAreKept` is a property of `WalletCreation` alone, and an immediate
  sign-in leaves the checkpoint as it is. `continueWithDexter()` reads any
  rejection of the immediate mode as an empty device and may then create; the
  model does the same. That a dismissal can so lead to a second passkey is
  accepted by the code's comment (`relay.ts:248`) and is not a property.
- **The named window** of `popup.ts` is one for all ceremonies: a later ceremony
  navigates the page of an earlier one away, and the one that ends first closes
  the window. The window is named by the ceremony that created it, so that a
  window opened after a close is another one. Messages keep their order between
  two windows and may be handled arbitrarily late. The hosted page is external.
- **An agent authority's attempt** is one chain of begin, passkey, stage and
  approval in some page. The API keeps one selection and one grant for an
  operation id, may revise a selection until the owner authorized it, and is
  asked under the same id by several attempts; it is external. All formats, and
  the fields that stand or fall with a selection's revision, are one comparison.
- **A call of the spend switch** names a vault and a user handle, and may have a
  signer; nothing makes the three of one Wallet, since a page takes them from
  different renders. The API keeps an intent's kind, vault and nonce together and
  redeems it once, but its answers to the two challenge requests may be about any
  intent. A hosted window answers with any assertion that was made in it. A
  submission stays in the network: it may arrive late, twice, or never.
- **An identity ceremony** ends in one of five outcomes, and the module that
  extends `AccountIdentity` says in the same step what the control does with it,
  as the code does in the turn that settles the promise. An enrollment's
  submission is processed once, after any delay, whether or not anyone waits.
- **The control's summary** is mounted with the panel. A commit renders it and an
  effect follows; React runs pending effects before it renders again, so at most
  one is pending. A generation is named by its read, and names are used again.
- **The connection under the control** changes its stage and Wallet on its own:
  `ConnectFlow` models how. Only the stages that the control tells apart are kept.
- **Data** is what the properties tell apart: a Wallet is its handle and one
  value for its facts, a proof is none, live or expired, a token has a subject or
  none, an error code is one value unless something depends on it.
- **History variables** (`believed`, `raced`, `ahead`, `retried`, `ended`, `meddled`,
  `stale`, `unclosed`, `authored`, `finished`, `absent`, `lost`, `posted`, `offers`,
  `flips`, `excluded`, `unfinished`, `disposed`) are read by
  properties, never by a guard that models code (`disposed` stands for the
  subscriptions that `dispose()` ended).

Definitions whose name ends in `_Something` and whose comment begins with "Slip"
are plausible programming mistakes; no specification uses them. Each property
is known to fail when the definition of the same stem is replaced by its slip.

## 3. What the runs check

| Run | Instance | What it shows |
|---|---|---|
| `relation_controller` | 2 Wallets, 2 accounts, 4 changes of identity, aborted calls may answer | access only for a bound pair; access is the answer of a fresh check; implements `RelationPromise`; checking ends |
| `wallet_store` | 2 tabs, 2 handles, 1 set of facts, writes may fail | observed is stored; subscribers are told unless the tab raced; failure writes nothing |
| `coordinator` | this tab and another, 2 Wallets of 2 subjects, 1 token, proofs of one Wallet change here and elsewhere and expire | access only for the stored Wallet and its account; the candidate follows storage; the timer watches the live proof's session; loading stays locked; hydrating only while loading; an invalidated subject is not even asked about |
| `connect_flow` | 2 Wallets, 2 tokens, 2 user operations or interferences | account content shown is of the host's session and the stored Wallet; the Wallet is usable only when no session awaits a verdict; "ready" means usable, for each intent; failures restore the Wallet; operations end |
| `creation` | 2 pages, 2 passkeys, 1 allowance, checkpoints that may not be written | no passkey forgotten; absent stays absent; terms kept; deferred means owner-only |
| `sign_in` | 1 page, 1 synced and 1 new passkey, with and without the immediate mode | no passkey forgotten by a sign-in; active Wallets have vaults; an interrupted creation is finished or found absent |
| `popup_channel` | 1 plain, 1 signing and 1 recovery ceremony, 1 reload | results are not confused; signing and recovery requests leave once, and recovery's only when page and options are both there; no page outlives its ceremony unless closing it failed; every promise settles |
| `agent_authority` | 3 attempts, 2 operation ids, 1 target, amounts up to 2 | only what an owner's passkey approved is authorized; an accepted receipt, and a redirect that is followed, are of the limits he approved |
| `agent_spend` | 2 calls, 2 vaults, 2 intents | a switch moves as named; what is submitted is consent to what was named; one move for each consent |
| `account_control` | 2 passkeys, 1 Wallet with two addresses and 1 other, 2 reads, 3 changes of the connection | a definite failure enrolled nothing; at most one unfinished enrollment; the portfolio shown is current; loading is under way; a dismissed sign-in signs nobody in |
| `ended_binding_revived` | expected violation of `EndedAccountNeedsSignIn` | a token that was found bound, and whose binding a Wallet change ended, opens account data again without a sign-in |
| `hook_balance` | expected violation of `BalanceIsOfVault` | a late balance of an earlier vault stays in the hook |

The expected violations are disagreements between the code and its own
comments; `PROJECT.json` quotes them under "findings". In
`ended_binding_revived` a switch from `w1` to `w2` ends the binding of `w1` and
`k1`, which had been found bound, and the coordinator remembers the subject of
`k1` as invalidated. Accepting `k2`, of another subject, makes it forget that
(`identityCoordinator.ts:277`), and the switch back to `w1` only adds the subject of
`k2`; the host hands over `k1` once more and its data is open again. `ended`
holds only tokens whose pair was bound when the Wallet changed, and loses them
when `allowAccountSession()` or `restore()` lets them in. The passing runs state
the strongest property the code does keep, with each exception named:

- `retried`: `retry()` (`identityCoordinator.ts:316`, and the hook's
  `retry`, `useDexterConnection.ts:425`) does not look at `accountLoading`. Called
  while the host loads it asks about the locked account, and a bound answer
  reopens its data. The models take this step at any time; `retried` is TRUE from
  it until something locks the account again or ends the loading.
  `LoadingKeepsLocked` and `AccessMatchesUnlessReopened` except it; without the
  exception TLC refutes both.
- `stale`: `reconcile()` (`useDexterIdentity.ts:195`) gives the coordinator the
  session of the render in which the operation began, which the host may have
  replaced since; it is the other exception of `AccessMatchesUnlessReopened`,
  which without it is refuted.
- `unclosed`: `finish()` ignores a `close()` that throws (`popup.ts:256`), and the
  window then goes on showing a page whose ceremony is over. The model takes that
  step too; `NoPageOutlivesItsCeremony` excepts the ceremonies it happened to.
- `InvalidatedAccountStaysOut` is about the subject the code remembers.
- `raced`, `ahead`: a tab that overwrote or read another tab's change before it
  heard of it.
- `meddled`: something else changed session or Wallet during an operation.
- `lost`: a passkey made while the page went away, overwritten by another tab's
  checkpoint, or whose checkpoint could not be written.
- A reload of the page clears `unfinished`: the control stores nothing.

### Bounds and why they are enough

- *Two Wallets and two accounts, each bound to one of the other*: the smallest
  instance with a matching and a foreign partner for each. The code compares
  candidates only for equality.
- *Revisions.* The controller's run has four changes, so up to four unanswered
  calls of different age. In `coordinator` and `connect_flow` the number of a
  revision is hidden by a VIEW: nothing but the current revision's check can be
  pending there, and the code compares revisions only for equality, so a state is
  determined by whether a check is pending. `MaxRevision` is then never reached.
  Two states with the same view have the same successors up to the view, and
  every property reads only what the view shows or what is a function of it;
  fairness conditions are about actions whose enabledness the view determines.
- *One token in `coordinator`*: a Wallet bound to its subject and one that is not.
  Two tokens are in `connect_flow` and `ended_binding_revived`. The proof of the
  first Wallet begins absent or live and changes here and elsewhere; the other
  Wallet's stays live (`MCInit`): one that never has a proof is only ever locked.
- *Symmetry* is used for safety runs only: permuting pages and passkeys.
- *`MaxMoves = 2`* in `connect_flow`: operations the user begins, and changes of session or Wallet
  made outside them, taken together. One operation with one interference, or two
  operations, are what the finding traces and the properties need. An action
  whose earlier call has not returned is not begun a second time.
- *Storage events* are flags, so any number of writes fits.
- *Passkeys*: two, so that "a second passkey is made" can happen; with two pages
  checkpoints can overwrite each other. `sign_in` has one page, whose creation
  and sign-in interleave, and no allowance, since `creation` covers terms.
- *Ceremonies*: one of each kind, the three ways in which `popup.ts` treats a
  request; any two of them share the window. One reload makes a second hello. The
  VIEW leaves out what a ceremony that is over knew, and messages that nobody
  will read.
- *Attempts*: three, so that a selection can be revised and the revision
  completed while an earlier attempt still holds the first; two operation ids,
  so that one target has two grants. The largest amount, 2, leaves limits that
  differ, limits that are equal, zero, and one above the largest.
- *Intents*: two, so that an answer, a challenge or a hosted result can be about
  the other one, and a consent could be spent on a second.
- *`account_control`*: three changes of the connection let an address go and come
  back while reads of both are on their way; two reads are the most the hook has
  any use for, a live and an aborted one. Of two passkeys one is enrolled late
  while the other is made. Its VIEW leaves out the last outcome, and the visit of
  an action that is over, which no later step reads.
- *`hook_balance`*: one ceremony at a time and two reads already show it.
- `ConnectFlow` has no other tab, no storage failure and no unmount; all rows are
  known and all proofs live at the start; `restoreWallet` may restore any facts.

### Fairness

- Verifier calls are fetches: the browser settles each (`WF` per call).
- Storage events and due timers are delivered (`WF`).
- React commits a changed prop and runs its effect; promise reactions run; the
  host's installer and sign-out settle, either way (`PageFairness`).
- The user, the host's decisions and other tabs are never obliged to act.
- A ceremony's timeout fires (`WF`): the opener sets it when it opens the window.
- `sign_in` is conditional on an owner who keeps calling `createWallet()` and an
  API that, asked often enough, answers (`SF` on its answers): the property says
  that nothing in the code prevents completion, whatever sign-ins do meanwhile.

- `agent_spend` and `account_control` state safety only and assume no fairness:
  passkeys, windows and networks may leave a call pending for good.

Deadlock checking is off in every run: an idle page with nothing pending is a
legitimate end.

## 4. What is proved

`RelationController_proofs` proves, for any sets of Wallets and accounts, any
binding relation, any bound and both kinds of verifier:

- `TypeCorrect`: `Spec => []TypeOK`
- `AccessIsForBoundPair`: `Spec => []AccessOnlyForBoundPair`
- `CheckingIsAlive`: `Spec => []CheckingHasACheck`
- `AccessIsFresh`: `Spec => AccessNeedsFreshCheck`
- `Implements`: `Spec => KeepsPromise`, the refinement of `RelationPromise`

The assumptions are the ones `RelationController` states about its constants.
`AccessOnlyForBoundPair` is not inductive: an answer shows what a check was
asked, so the invariant must say that a current check was asked about the
current pair. `IInv` has four parts: the type; `ChecksInv` (at most one unanswered
call per revision, none newer than the current one); `ActiveInv` (an active check
is the current revision's, and there is a call for exactly the current pair that
has not been aborted); `SnapshotInv` (presence, relation and access agree with each
other and with the candidates, a verdict agrees with the binding relation, a
complete pair is ready only with a verdict, and checking means an active check
unless disposed of). What is preserved
is shown of a `Turn`, what one turn of a caller may make of the controller, rather
than of `Next`: the methods are turns, and so is what is left by a caller that
calls several of them. The properties follow from `IInv`, and the two temporal
ones from `IInv` and one turn.

`AgentSpend_proofs` proves, for any number of calls, vaults and intents:

- `TypeCorrect`: `Spec => []TypeOK`
- `SwitchMovesAsNamed`: `Spec => []FlipsAsNamed`
- `SubmissionsAreOwnConsent`: `Spec => []SubmitsOwnConsent`
- `ConsentIsSpentOnce`: `Spec => []OneFlipPerConsent`

The properties speak of what left the page and of what the API did; neither says
what a call may still submit. `AttemptsInv` does: from the moment the answer was
read, a call's intent is one the API minted for exactly what the call named, and
a signed call holds an assertion over that intent's operation. `SubmissionsInv`
carries this to what is on its way, also of a call that has failed since, and
`FlipsInv` to what was redeemed, adding that an intent is redeemed once. Most
steps move one call: `CallMoves` shows once that they preserve the invariant if
the call's own part is preserved. The assumptions are that `None` is neither a
vault nor an intent.

`WalletStore_proofs` proves, for any number of tabs, handles and facts:

- `TypeCorrect`: `Spec => []TypeOK`
- `TabsObserveStorage`: `Spec => []ObservedIsStored`
- `SubscribersAreTold`: `Spec => []NoticedUnlessRaced`
- `FailureChangesNothing`: `Spec => FailureWritesNothing`

The last three assume `RollbackMayFail = FALSE`: if the write that undoes another
one fails (`walletStore.ts:281`), storage has changed and nobody is told, and the
three are false. A notice that does not invalidate leaves its subscriber's
knowledge as it was, so `NoticedUnlessRaced` is not inductive; `BelievedInv` adds
that a subscriber whose tab never raced knows what the tab last observed, also
while an event is on its way. Every mutation is one of four cases (written and
told, nothing written, undone, left), shown once for all seven of them.

`IdentityCoordinator_proofs` proves, for any tabs, Wallets, tokens and subjects,
any store content and any order of host calls, events and answers:

- `TypeCorrect`: `Spec => []TypeOK`
- `AccessFollowsStorage`: `Spec => []AccessIsForActiveWallet`
- `CandidateFollowsStorage`: `Spec => []CandidateIsCurrent`
- `ExpiryIsNoticed`: `Spec => []ExpiredProofIsWatched`
- `HydratingEnds`: `Spec => []HydratingOnlyWhileLoading`
- `InvalidatedStaysOut`: `Spec => []InvalidatedAccountStaysOut`
- `LoadingStaysLocked`: `Spec => []LoadingKeepsLocked`
- `CoordinatorKeepsPromise`: `Spec => CP!KeepsPromise`
- `CoordinatorAccessIsFresh`: `Spec => CP!AccessNeedsFreshCheck`

The coordinator holds instances of the controller and of the store, and its
invariant holds instances of theirs: the lemmas of `RelationController_proofs`
and `WalletStore_proofs` are cited through `INSTANCE ... WITH`, and what is shown
here is that each turn of the coordinator is made of their steps. The properties
speak of storage, but the tab hears of storage late, and none of them survives
another tab's write by itself. The invariant speaks of `Own`, the Wallet that the
tab last *observed*, whose equality with storage in a quiet tab is the store's
theorem. `TimerInv` (a live proof of `Own` is watched) and `CandidateInv` (the
candidate is `Own` with its proof, but for one that expired, which is then
watched and due) hold whenever the coordinator was told of all that `Own` stands
for: it has started, is not disposed of, its tab has neither raced nor read
ahead, and no notice about the proof of `Own` is on its way. `SubjectInv` is about
the subject remembered as invalidated, `StartedInv` about the subscriptions.
`LoadingKeepsLocked` needs `LoadingInv`: while the host loads and `retry()` did
not ask, a check that may still publish was asked without a proof, so that the
resolver answers it without a verdict. No assumption on the host is made: that
`retry()` comes is a step like any other, and the property names what it opens.
The last two are the
controller's theorems under the coordinator: every step of the coordinator is a
`Turn` of its controller, so that what a tab publishes refines `RelationPromise`
although its turns call `beginRestore()` and `setWallet()` together, or write the
Wallet and its proof along with a call.

The same module proves of the page, for any Wallets and tokens, any number of
operations and interferences, and whatever user, host, ceremonies and API do:

- `AccessStaysWithHost`: `PageSpec => []AccessMatchesUnlessReopened`
- `FailureLeavesWallet`: `PageSpec => []FailureRestoresWallet`
- `WalletUseIsJudged`: `PageSpec => []WalletUseAwaitsVerdict`
- `ReadyMeansPermitted`: `PageSpec => []ControlKeepsItsWord`
- `PageKeepsPromise`: `PageSpec => CP!KeepsPromise`
- `PageAccessIsFresh`: `PageSpec => CP!AccessNeedsFreshCheck`

`ConnectFlow`'s steps are calls of the coordinator, so each of them keeps the
coordinator's invariant by the lemmas above; `Core` adds that nothing is on its way
to the only tab, which makes the candidate the active Wallet at every moment and
not only in quiet ones. The page's own invariant says where its state comes from.
`SessionInv`: unless an effect is due or a session is stale, the coordinator holds
the host's session or has refused it, or holds the one an operation is installing.
`ControlInv`: such an operation is the page's action, so that nothing of it is
shown before the host's commit has caught up. `WalletInv`: an undisturbed operation
is alone, and the Wallet of before is active while it has changed nothing yet and
once it has undone its change. `AnsweredInv`: the ceremony answered with a Wallet.
The whole invariant was checked on the instance of `connect_flow` before it was
proved. The two theorems about what may be used read the controller's
`SnapshotInv`, which for them says that a complete pair is ready only with a verdict.
The page's steps are turns of the controller too (`PageTurns`), whence the last two;
no run checks the four theorems that name `CP!`, whose formulas `relation_controller`
checks of the controller alone.

`WalletCreation_proofs` proves, for any number of pages, passkeys and allowances,
and whether or not checkpoints can be written:

- `TypeCorrect`: `Spec => []TypeOK`
- `PasskeysAreRemembered`: `Spec => []PasskeysAreKept`
- `AbsenceIsFinal`: `Spec => []AbsentStaysAbsent`
- `VaultsKeepTheirTerms`: `Spec => []TermsAreKept`
- `DeferringGrantsNothing`: `Spec => []DeferredMeansOwnerOnly`
- `SignInsForgetNoOther`: `SignInSpec => []PasskeysAreKept`
- `OnlyVaultsAreRemembered`: `SignInSpec => []ActiveWalletsHaveVaults`

Two pages share the checkpoint, so what a call knows of its passkey must follow
from what the operating system and the API hold, never from the checkpoint:
`CallsInv` says, for each place a call may wait in, that its passkey exists, that
its policy is the one the passkey was made for, and, once it asks whether a
passkey is enrolled, that no enrollment of it can be accepted any more.
`PendingInv` says the same of the checkpoint, `ApiInv` that an enrolled or absent
passkey has no open challenge and an active Wallet a vault, and `KeptInv` who
remembers which passkey. `TermsAreKept` is shown on top of these, because the
sign-ins keep them and not it: a recovery initializes a vault without an
allowance. For the sign-ins `SignInInv` adds that a ceremony which was given a
passkey holds one that exists.

`PopupChannel_proofs` proves, for any ceremonies of each operation, any messages
on their way and any number of reloads:

- `TypeCorrect`: `Spec => []TypeOK`
- `CeremoniesGetTheirOwnAnswer`: `Spec => []AnswerIsOwn`
- `RequestsLeaveOnce`: `Spec => []SensitiveRequestLeavesOnce`
- `PagesEndWithTheirCeremony`: `Spec => []NoPageOutlivesItsCeremony`

`SensitiveRequestLeavesOnce` counts what left the opener, which says nothing of
what may still leave: `RequestsInv` ties the count to the handshake and to the
state of the recovery options. `WindowInv` ties the window's page to an open
ceremony that holds the window, so that its end closes it, or to one whose closing
failed.

`AgentAuthority_proofs` proves, for any attempts, operation ids, targets and
largest amount:

- `TypeCorrect`: `Spec => []TypeOK`
- `OwnersSeeTheirRequests`: `Spec => []OwnerSeesOwnRequest`
- `OnlyApprovedIsAuthorized`: `Spec => AuthorizesWhatOwnerApproved`
- `ReceiptsAreLasting`: `Spec => []ReceiptIsWhatOwnerApproved`
- `RedirectsAreEarned`: `Spec => RedirectGrantsWhatOwnerApproved`

Attempts under one operation id revise each other's selection, so a challenge may
be of a revision that is gone. `OffersInv` says that a challenge of the
selection's own revision stands for the selection's request; `AttemptsInv` that
an attempt which has a challenge got it for its own request, and that one which
holds a receipt got it for a selection that nothing revises any more.
`OwnerSeesOwnRequest` is the part of it about challenges.

`AccountControl_proofs` proves, for any passkeys, Wallets, portfolios, requests
and changes of the connection:

- `TypeCorrect`: `ControlSpec => []TypeOK`
- `FailuresAreDefinite`: `ControlSpec => []DefiniteFailureEnrolledNothing`
- `EnrollmentsDoNotPileUp`: `ControlSpec => []OneUnfinishedEnrollment`
- `PortfoliosAreCurrent`: `ControlSpec => []ShownPortfolioIsCurrent`
- `LoadingHasAReason`: `ControlSpec => []LoadingIsUnderWay`
- `DismissalHolds`: `ControlSpec => DismissedSignInStaysOut`

`SubmissionsInv` says that a submission on its way is of a passkey neither
enrolled nor given up for good, and that a refusal is final; `UnfinishedInv` that
an unfinished enrollment is the running one's or keeps the control from creating;
`SummaryInv` that what the portfolio hook holds fits the Wallet it names, whatever
is on the screen, which is why what is shown does.

The assumptions on constants say that a value standing for "none" is not one of
the values it stands beside, that functions have their domains, that bounds are
naturals and flags Booleans. Bounds (`MaxRevision`, `MaxMoves`, `MaxReloads`,
`MaxIntents`) are arbitrary naturals in every theorem.

Only model-checked: liveness (`CheckingEnds`, `OperationsEnd`, `InterruptionEnds`,
`CeremoniesSettle`), which is outside what is proved here, since it needs fairness
and `ENABLED`; `SignInHook` and `EndedAccountNeedsSignIn`, whose runs are
refutations. Every safety invariant and action property of a passing run is a
theorem.

## 5. Not modelled, and the plan

Left out for good: rendering and styles, wording and error mapping, JSON and
base64 codecs, WebAuthn's cryptography, token signatures (`server.ts`, whose only
state is the key cache inside a library), best-effort passkey signals, and
stateless single requests.

Modelled in part, and what is missing: in the popup transport, what the opener
does with a result (mirroring it in its own Wallet store, `relay.ts:180-201` and
alike); the completion of a missing vault recovery, one request whose answer
`missingVaultRecoveryContract.ts` validates field by field; the draft form, the
status reader and the trade rules of `agentAuthority.ts`; in `accountIdentity.ts`
the variants bound to a refused request, and renaming; in `agentSpend.ts` the
assembly of the shown status; the manage panel of the account control; the
unmount of `useDexterIdentity`; storage that throws in `walletProofSession.ts`.
Liveness of identity ceremonies is not stated: the control's product with the
portfolio is too large for a fair run.

Order of what is left:

1. An abstract specification for `PopupChannel` (a request with one answer) that
   it refines, and the completion of a missing vault recovery.
2. The opener's mirroring of popup results, composed with `WalletStore`.
