-------------------------- MODULE AgentSpend_proofs --------------------------
(***************************************************************************)
(* Proofs about the switch of agent spending, for any number of calls,     *)
(* vaults and intents.                                                     *)
(***************************************************************************)
EXTENDS AgentSpend, TLAPS

(***************************************************************************)
(* The inductive invariant.  The properties speak of what left the page    *)
(* and of what the API did; neither says what a call may still submit.     *)
(***************************************************************************)
Places == {"idle", "asking", "minted", "named", "prompt", "hosted", "signed", "submitted",
           "done", "failed"}

Operations == [kind : Kinds, vault : Vaults, nonce : Nonces]
Assertions == [passkey : Vaults, operation : Operations, vault : Vaults]
Intents == [kind : Kinds, vault : Vaults, spent : BOOLEAN]

AttemptRecords ==
  [at : Places, kind : Kinds, vault : Vaults \cup {None}, handle : Vaults \cup {None},
   signer : Vaults \cup {None}, nonce : Nonces \cup {0}, credential : Vaults \cup {None},
   assertion : Assertions \cup {None}]

TypeOK ==
  /\ onDexter \in BOOLEAN
  /\ attempt \in [Attempts -> AttemptRecords]
  /\ intents \in [Nonces -> Intents \cup {None}]
  /\ switch \in [Vaults -> BOOLEAN]
  /\ submissions \subseteq [by : Attempts, kind : Kinds, handle : Vaults \cup {None},
                            nonce : Nonces, assertion : Assertions]
  /\ consents \subseteq Assertions
  /\ flips \subseteq [by : Attempts, nonce : Nonces, vault : Vaults, kind : Kinds,
                      assertion : Assertions]

(* A call that has an intent has one the API minted for what it named, and *)
(* holds an assertion only over that intent's operation.                   *)
Holds(r) ==
  /\ r.at # "idle" => r.vault \in Vaults
  /\ r.at \in {"named", "prompt", "hosted", "signed", "submitted"} =>
       r.nonce \in Minted /\ IntentOperation(r.nonce) = Operation(r.kind, r.vault, r.nonce)
  /\ r.at = "prompt" => r.credential \in Vaults
  /\ r.at = "signed" =>
       /\ r.assertion \in Assertions
       /\ r.assertion.operation = Operation(r.kind, r.vault, r.nonce)

AttemptsInv == \A a \in Attempts : Holds(attempt[a])

(* A submission is for a minted intent, and of the call it is by.          *)
SubmissionsInv ==
  \A s \in submissions :
    /\ attempt[s.by].at # "idle"
    /\ s.nonce \in Minted
    /\ s.assertion.operation = Operation(attempt[s.by].kind, attempt[s.by].vault, s.nonce)

(* A flip spent its intent, for consent to that intent's operation.        *)
FlipsInv ==
  /\ \A f \in flips :
       /\ attempt[f.by].at # "idle"
       /\ attempt[f.by].vault = f.vault /\ attempt[f.by].kind = f.kind
       /\ f.nonce \in Minted /\ intents[f.nonce].spent
       /\ f.assertion.operation = Operation(f.kind, f.vault, f.nonce)
  /\ \A f, g \in flips : f.nonce = g.nonce => f = g

IInv == TypeOK /\ AttemptsInv /\ SubmissionsInv /\ FlipsInv

-----------------------------------------------------------------------------
(***************************************************************************)
(* Lemmas about the steps.                                                 *)
(***************************************************************************)

(* An intent that stays minted keeps its operation when others are minted. *)
LEMMA IntentsKept ==
  ASSUME NEW n \in Nonces,
         n \in Minted,
         intents'[n] = intents[n]
  PROVE  n \in Minted' /\ IntentOperation(n)' = IntentOperation(n)
BY DEF Minted, IntentOperation, Operation

(* A step of one call, that leaves alone what the call named and whatever  *)
(* has left the page, preserves the invariant if the call's own part does. *)
LEMMA CallMoves ==
  ASSUME IInv, NEW a \in Attempts, NEW r \in AttemptRecords,
         attempt' = [attempt EXCEPT ![a] = r],
         r.at # "idle",
         attempt[a].at # "idle" => r.kind = attempt[a].kind /\ r.vault = attempt[a].vault,
         Holds(r),
         consents' \subseteq Assertions,
         UNCHANGED <<onDexter, intents, switch, flips>>,
         \A s \in submissions' : s \in submissions \/
           /\ s \in [by : {a}, kind : Kinds, handle : Vaults \cup {None},
                     nonce : Nonces, assertion : Assertions]
           /\ s.nonce \in Minted
           /\ s.assertion.operation = Operation(r.kind, r.vault, s.nonce)
  PROVE  IInv'
<1>1. /\ attempt'[a] = r
      /\ \A b \in Attempts \ {a} : attempt'[b] = attempt[b]
      /\ attempt' \in [Attempts -> AttemptRecords]
  BY DEF IInv, TypeOK
<1>2. TypeOK'
  <2>1. submissions' \subseteq [by : Attempts, kind : Kinds, handle : Vaults \cup {None},
                               nonce : Nonces, assertion : Assertions]
    BY DEF IInv, TypeOK
  <2> QED BY <1>1, <2>1 DEF IInv, TypeOK
<1>3. Minted' = Minted /\ \A n : IntentOperation(n)' = IntentOperation(n)
  BY DEF Minted, IntentOperation
<1>4. AttemptsInv'
  <2> SUFFICES ASSUME NEW b \in Attempts PROVE Holds(attempt[b])'
    BY DEF AttemptsInv
  <2>1. Holds(attempt'[b])
    BY <1>1 DEF IInv, AttemptsInv
  <2> QED BY <1>3, <2>1 DEF Holds
<1>5. \A b \in Attempts : attempt[b].at # "idle" =>
        /\ attempt'[b].at # "idle"
        /\ attempt'[b].kind = attempt[b].kind /\ attempt'[b].vault = attempt[b].vault
  BY <1>1
<1>6. SubmissionsInv'
  <2> SUFFICES ASSUME NEW s \in submissions'
               PROVE  /\ attempt'[s.by].at # "idle"
                      /\ s.nonce \in Minted
                      /\ s.assertion.operation =
                           Operation(attempt'[s.by].kind, attempt'[s.by].vault, s.nonce)
    BY <1>3 DEF SubmissionsInv, Operation
  <2>1. CASE s \in submissions
    BY <1>5, <2>1 DEF IInv, TypeOK, SubmissionsInv
  <2>2. CASE s \notin submissions
    <3>1. s.by = a
      BY <2>2
    <3> QED BY <1>1, <2>2, <3>1
  <2> QED BY <2>1, <2>2
<1>7. FlipsInv'
  BY <1>3, <1>5 DEF IInv, TypeOK, FlipsInv
<1> QED BY <1>2, <1>4, <1>6, <1>7 DEF IInv

(* The same, of a step that submits nothing and asks no passkey.           *)
LEMMA OnlyCallMoves ==
  ASSUME IInv, NEW a \in Attempts, NEW r \in AttemptRecords,
         attempt' = [attempt EXCEPT ![a] = r],
         r.at # "idle",
         attempt[a].at # "idle" => r.kind = attempt[a].kind /\ r.vault = attempt[a].vault,
         Holds(r),
         OnlyAttempt
  PROVE  IInv'
BY CallMoves DEF OnlyAttempt, IInv, TypeOK

-----------------------------------------------------------------------------
(***************************************************************************)
(* The invariant.                                                          *)
(***************************************************************************)
LEMMA InitIInv == Init => IInv
<1> SUFFICES ASSUME Init PROVE IInv
  OBVIOUS
<1>1. NoAttempt \in AttemptRecords /\ NoAttempt.at = "idle"
  BY DEF NoAttempt, AttemptRecords, Places, Kinds
<1> QED BY <1>1 DEF Init, IInv, TypeOK, AttemptsInv, SubmissionsInv, FlipsInv, Holds

LEMMA BeginIInv ==
  ASSUME IInv, NEW a \in Attempts, NEW kind \in Kinds, NEW vault \in Vaults,
         NEW handle \in Vaults \cup {None}, NEW signer \in Vaults \cup {None},
         Begin(a, kind, vault, handle, signer)
  PROVE  IInv'
<1> DEFINE r == [NoAttempt EXCEPT !.at = "asking", !.kind = kind, !.vault = vault,
                                  !.handle = handle, !.signer = signer]
<1>1. r \in AttemptRecords /\ r.at = "asking" /\ r.vault = vault
  BY DEF NoAttempt, AttemptRecords, Places, Kinds
<1>2. Holds(r)
  BY <1>1 DEF Holds
<1>3. attempt[a].at = "idle" /\ attempt' = [attempt EXCEPT ![a] = r] /\ OnlyAttempt
  BY DEF Begin
<1> HIDE DEF r
<1> QED BY <1>1, <1>2, <1>3, OnlyCallMoves

LEMMA IntentMintedIInv ==
  ASSUME IInv, NEW a \in Attempts, NEW nonce \in Nonces, IntentMinted(a, nonce)
  PROVE  IInv'
<1>1. attempt[a] \in AttemptRecords /\ attempt[a].at = "asking" /\ attempt[a].handle \in Vaults
  BY DEF IntentMinted, IInv, TypeOK, AttemptRecords
<1>2. /\ attempt' = [attempt EXCEPT ![a] = [attempt[a] EXCEPT !.at = "minted"]]
      /\ [attempt[a] EXCEPT !.at = "minted"] \in AttemptRecords
  BY <1>1 DEF IntentMinted, Moves, AttemptRecords, Places
<1>3. /\ attempt' \in [Attempts -> AttemptRecords]
      /\ attempt'[a].at = "minted"
      /\ \A b \in Attempts \ {a} : attempt'[b] = attempt[b]
      /\ \A b \in Attempts : /\ attempt'[b].kind = attempt[b].kind
                             /\ attempt'[b].vault = attempt[b].vault
                             /\ attempt'[b].at = "idle" => attempt[b].at = "idle"
  BY <1>1, <1>2 DEF IInv, TypeOK, AttemptRecords
<1>4. TypeOK'
  BY <1>1, <1>3 DEF IntentMinted, IInv, TypeOK, AttemptRecords, Intents
<1>5. \A n \in Minted : intents'[n] = intents[n]
  BY DEF IntentMinted, IInv, TypeOK, Minted
<1>6. \A n \in Minted : n \in Minted' /\ IntentOperation(n)' = IntentOperation(n)
  BY <1>5, IntentsKept DEF Minted
<1>7. AttemptsInv'
  <2> SUFFICES ASSUME NEW b \in Attempts PROVE Holds(attempt[b])'
    BY DEF AttemptsInv
  <2>1. CASE b = a
    <3>1. attempt'[b].vault \in Vaults
      BY <1>1, <1>3, <2>1 DEF IInv, AttemptsInv, Holds
    <3> QED BY <1>3, <2>1, <3>1 DEF Holds
  <2>2. CASE b # a
    BY <1>3, <1>6, <2>2 DEF IInv, AttemptsInv, Holds
  <2> QED BY <2>1, <2>2
<1>8. SubmissionsInv'
  BY <1>3, <1>6 DEF IntentMinted, IInv, TypeOK, SubmissionsInv
<1>9. FlipsInv'
  BY <1>3, <1>5, <1>6 DEF IntentMinted, IInv, TypeOK, FlipsInv
<1> QED BY <1>4, <1>7, <1>8, <1>9 DEF IInv

LEMMA IntentAnsweredIInv ==
  ASSUME IInv, NEW a \in Attempts, NEW nonce \in Nonces, IntentAnswered(a, nonce)
  PROVE  IInv'
<1> DEFINE r == [attempt[a] EXCEPT !.at = IF ExactIntent(a, nonce) THEN "named" ELSE "failed",
                                   !.nonce = IF ExactIntent(a, nonce) THEN nonce ELSE 0]
<1>1. attempt[a] \in AttemptRecords /\ attempt[a].vault \in Vaults
  BY DEF IntentAnswered, IInv, TypeOK, AttemptsInv, Holds
<1>2. /\ r \in AttemptRecords /\ r.at \in {"named", "failed"}
      /\ r.kind = attempt[a].kind /\ r.vault = attempt[a].vault
      /\ r.at = "named" => ExactIntent(a, nonce) /\ r.nonce = nonce
  BY <1>1 DEF AttemptRecords, Places
<1>3. attempt' = [attempt EXCEPT ![a] = r] /\ nonce \in Minted /\ OnlyAttempt
  BY DEF IntentAnswered, IInv, TypeOK
<1> HIDE DEF r
<1>4. Holds(r)
  BY <1>1, <1>2, <1>3 DEF Holds, ExactIntent
<1> QED BY <1>2, <1>3, <1>4, OnlyCallMoves

LEMMA ConsentAskedIInv ==
  ASSUME IInv, NEW a \in Attempts, NEW challenge \in Challenges, NEW credential \in Vaults,
         NEW pinned \in BOOLEAN, ConsentAsked(a, challenge, credential, pinned)
  PROVE  IInv'
<1>1. /\ attempt[a] \in AttemptRecords /\ attempt[a].at = "named" /\ Holds(attempt[a])
      /\ OnlyAttempt
  BY DEF ConsentAsked, IInv, TypeOK, AttemptsInv
<1>2. PICK place \in {"prompt", "failed"} :
        attempt' = [attempt EXCEPT ![a].at = place, ![a].credential = credential]
  BY DEF ConsentAsked
<1> DEFINE r == [attempt[a] EXCEPT !.at = place, !.credential = credential]
<1>3. attempt' = [attempt EXCEPT ![a] = r]
  BY <1>2 DEF IInv, TypeOK
<1>4. /\ r \in AttemptRecords /\ r.at = place /\ r.credential = credential
      /\ r.kind = attempt[a].kind /\ r.vault = attempt[a].vault /\ r.nonce = attempt[a].nonce
  BY <1>1 DEF AttemptRecords, Places
<1> HIDE DEF r
<1>5. Holds(r)
  BY <1>1, <1>4 DEF Holds
<1> QED BY <1>1, <1>3, <1>4, <1>5, OnlyCallMoves

LEMMA OwnerConsentsIInv ==
  ASSUME IInv, NEW a \in Attempts, OwnerConsents(a)
  PROVE  IInv'
<1> DEFINE assertion == [passkey   |-> attempt[a].credential,
                         operation |-> SignedOperation(a),
                         vault     |-> ExpectedVault(a)]
<1>1. attempt[a] \in AttemptRecords /\ attempt[a].at = "prompt" /\ Holds(attempt[a])
  BY DEF OwnerConsents, IInv, TypeOK, AttemptsInv
<1>2. /\ SignedOperation(a) = Operation(attempt[a].kind, attempt[a].vault, attempt[a].nonce)
      /\ SignedOperation(a) \in Operations
  BY <1>1 DEF Holds, SignedOperation, Operation, Operations, AttemptRecords, Minted
<1>3. assertion \in Assertions /\ assertion.operation = SignedOperation(a)
  BY <1>1, <1>2 DEF Assertions, ExpectedVault, Holds, AttemptRecords
<1> HIDE DEF assertion
<1>4. PICK place \in {"failed", "signed", "hosted"} :
        /\ attempt' = [attempt EXCEPT ![a].at = place,
                                      ![a].assertion = IF onDexter THEN assertion ELSE None]
        /\ place = "signed" => onDexter
  BY DEF OwnerConsents, assertion
<1> DEFINE held == IF onDexter THEN assertion ELSE None
           r == [attempt[a] EXCEPT !.at = place, !.assertion = held]
<1>5. held \in Assertions \cup {None} /\ (place = "signed" => held = assertion)
  BY <1>3, <1>4
<1>6. attempt' = [attempt EXCEPT ![a] = r]
  BY <1>4 DEF IInv, TypeOK
<1> HIDE DEF held
<1>7. /\ r \in AttemptRecords /\ r.at = place /\ r.assertion = held
      /\ r.kind = attempt[a].kind /\ r.vault = attempt[a].vault /\ r.nonce = attempt[a].nonce
  BY <1>1, <1>5 DEF AttemptRecords, Places
<1> HIDE DEF r
<1>8. Holds(r)
  BY <1>1, <1>2, <1>3, <1>5, <1>7 DEF Holds
<1>9. /\ consents' \subseteq Assertions
      /\ UNCHANGED <<onDexter, intents, switch, submissions, flips>>
  BY <1>3 DEF OwnerConsents, IInv, TypeOK, assertion
<1> QED BY <1>1, <1>6, <1>7, <1>8, <1>9, CallMoves

LEMMA HostedAnswersIInv ==
  ASSUME IInv, NEW a \in Attempts, NEW assertion \in consents, HostedAnswers(a, assertion)
  PROVE  IInv'
<1> DEFINE r == [attempt[a] EXCEPT !.at = IF HostedResult(a, assertion) THEN "signed" ELSE "failed",
                                   !.assertion = assertion]
<1>1. /\ attempt[a] \in AttemptRecords /\ attempt[a].at \in {"prompt", "hosted"}
      /\ Holds(attempt[a]) /\ assertion \in Assertions /\ OnlyAttempt
  BY DEF HostedAnswers, IInv, TypeOK, AttemptsInv
<1>2. attempt' = [attempt EXCEPT ![a] = r]
  BY DEF HostedAnswers, IInv, TypeOK
<1>3. /\ r \in AttemptRecords /\ r.at \in {"signed", "failed"} /\ r.assertion = assertion
      /\ r.at = "signed" => HostedResult(a, assertion)
      /\ r.kind = attempt[a].kind /\ r.vault = attempt[a].vault /\ r.nonce = attempt[a].nonce
  BY <1>1 DEF AttemptRecords, Places
<1> HIDE DEF r
<1>4. Holds(r)
  BY <1>1, <1>3 DEF Holds, HostedResult, Authorizes, SignedOperation
<1> QED BY <1>1, <1>2, <1>3, <1>4, OnlyCallMoves

LEMMA SubmitIInv ==
  ASSUME IInv, NEW a \in Attempts, Submit(a)
  PROVE  IInv'
<1> DEFINE r == [attempt[a] EXCEPT !.at = "submitted"]
<1>1. attempt[a] \in AttemptRecords /\ attempt[a].at = "signed" /\ Holds(attempt[a])
  BY DEF Submit, IInv, TypeOK, AttemptsInv
<1>2. attempt' = [attempt EXCEPT ![a] = r]
  BY DEF Submit, Moves, IInv, TypeOK
<1>3. /\ r \in AttemptRecords /\ r.at = "submitted"
      /\ r.kind = attempt[a].kind /\ r.vault = attempt[a].vault /\ r.nonce = attempt[a].nonce
  BY <1>1 DEF AttemptRecords, Places
<1> HIDE DEF r
<1>4. Holds(r)
  BY <1>1, <1>3 DEF Holds
<1>5. \A s \in submissions' : s \in submissions \/
        /\ s \in [by : {a}, kind : Kinds, handle : Vaults \cup {None},
                  nonce : Nonces, assertion : Assertions]
        /\ s.nonce \in Minted
        /\ s.assertion.operation = Operation(r.kind, r.vault, s.nonce)
  <2> DEFINE new == [by |-> a, kind |-> attempt[a].kind, handle |-> attempt[a].handle,
                     nonce |-> attempt[a].nonce, assertion |-> attempt[a].assertion]
  <2>1. attempt[a].nonce \in Minted /\ attempt[a].nonce \in Nonces
    BY <1>1 DEF Holds, Minted
  <2>2. /\ new \in [by : {a}, kind : Kinds, handle : Vaults \cup {None},
                    nonce : Nonces, assertion : Assertions]
        /\ new.nonce \in Minted
        /\ new.assertion.operation = Operation(r.kind, r.vault, new.nonce)
    BY <1>1, <1>3, <2>1 DEF AttemptRecords, Holds
  <2>3. submissions' = submissions \cup {new}
    BY DEF Submit
  <2> HIDE DEF new
  <2> QED BY <2>2, <2>3
<1>6. consents' \subseteq Assertions /\ UNCHANGED <<onDexter, intents, switch, flips>>
  BY DEF Submit, IInv, TypeOK
<1> QED BY <1>1, <1>2, <1>3, <1>4, <1>5, <1>6, CallMoves

(* The API redeems an intent: what it is for, is what the call named.      *)
LEMMA SubmissionArrivesIInv ==
  ASSUME IInv, NEW s \in submissions, SubmissionArrives(s)
  PROVE  IInv'
<1> DEFINE f == [by |-> s.by, nonce |-> s.nonce, vault |-> s.handle, kind |-> s.kind,
                 assertion |-> s.assertion]
<1>1. /\ s.by \in Attempts /\ s.kind \in Kinds /\ s.nonce \in Nonces /\ s.assertion \in Assertions
      /\ attempt[s.by].at # "idle" /\ s.nonce \in Minted
      /\ s.assertion.operation = Operation(attempt[s.by].kind, attempt[s.by].vault, s.nonce)
  BY DEF IInv, TypeOK, SubmissionsInv
<1>2. /\ intents[s.nonce] \in Intents /\ ~intents[s.nonce].spent
      /\ intents[s.nonce].kind = s.kind /\ intents[s.nonce].vault = s.handle
      /\ s.handle \in Vaults
      /\ s.assertion.operation = Operation(s.kind, s.handle, s.nonce)
  BY <1>1 DEF SubmissionArrives, Redeemable, IntentOperation, Minted, IInv, TypeOK, Intents
<1>3. attempt[s.by].kind = s.kind /\ attempt[s.by].vault = s.handle
  BY <1>1, <1>2 DEF Operation
<1>4. /\ intents' = [intents EXCEPT ![s.nonce].spent = TRUE]
      /\ switch' = [switch EXCEPT ![s.handle] = (s.kind = "enable")]
      /\ flips' = flips \cup {f}
      /\ UNCHANGED <<onDexter, attempt, submissions, consents>>
  BY DEF SubmissionArrives
<1>5. /\ intents' \in [Nonces -> Intents \cup {None}]
      /\ intents'[s.nonce] \in Intents /\ intents'[s.nonce].spent
      /\ intents'[s.nonce].kind = s.kind /\ intents'[s.nonce].vault = s.handle
      /\ \A n \in Nonces \ {s.nonce} : intents'[n] = intents[n]
  BY <1>1, <1>2, <1>4 DEF IInv, TypeOK, Intents
<1>6. TypeOK'
  BY <1>1, <1>2, <1>4, <1>5 DEF IInv, TypeOK
<1>7. \A n \in Minted : n \in Minted' /\ IntentOperation(n)' = IntentOperation(n)
  <2> SUFFICES ASSUME NEW n \in Minted
               PROVE  n \in Minted' /\ IntentOperation(n)' = IntentOperation(n)
    OBVIOUS
  <2>1. CASE n = s.nonce
    BY <1>1, <1>2, <1>5, <2>1, NoneIsNoIntent DEF Minted, IntentOperation, Operation, Intents, Kinds
  <2>2. CASE n # s.nonce
    BY <1>5, <2>2, IntentsKept DEF Minted
  <2> QED BY <2>1, <2>2
<1>8. AttemptsInv'
  <2> SUFFICES ASSUME NEW b \in Attempts PROVE Holds(attempt[b])'
    BY DEF AttemptsInv
  <2> QED BY <1>4, <1>7 DEF IInv, AttemptsInv, Holds, Operation
<1>9. SubmissionsInv'
  BY <1>4, <1>7 DEF IInv, SubmissionsInv, Operation
<1>10. \A g \in flips : g.nonce # s.nonce
  BY <1>2 DEF IInv, FlipsInv
<1>11. FlipsInv'
  <2>1. /\ f.by = s.by /\ f.nonce = s.nonce /\ f.vault = s.handle /\ f.kind = s.kind
        /\ f.assertion = s.assertion
    OBVIOUS
  <2> HIDE DEF f
  <2>2. ASSUME NEW g \in flips'
        PROVE  /\ attempt'[g.by].at # "idle"
               /\ attempt'[g.by].vault = g.vault /\ attempt'[g.by].kind = g.kind
               /\ g.nonce \in Minted' /\ intents'[g.nonce].spent
               /\ g.assertion.operation = Operation(g.kind, g.vault, g.nonce)
    <3>1. CASE g = f
      BY <1>1, <1>2, <1>3, <1>4, <1>5, <1>7, <2>1, <3>1
    <3>2. CASE g \in flips
      BY <1>4, <1>5, <1>7, <1>10, <3>2 DEF IInv, TypeOK, FlipsInv
    <3> QED BY <1>4, <3>1, <3>2
  <2>3. ASSUME NEW g \in flips', NEW h \in flips', g.nonce = h.nonce
        PROVE  g = h
    BY <1>4, <1>10, <2>1, <2>3 DEF IInv, FlipsInv
  <2> QED BY <2>2, <2>3 DEF FlipsInv, Operation
<1> QED BY <1>6, <1>8, <1>9, <1>11 DEF IInv

(* An answer to, or the failure of, a call that has left the page.         *)
LEMMA CallEndsIInv ==
  ASSUME IInv, NEW a \in Attempts, NEW place \in {"done", "failed"},
         attempt[a].at # "idle", Moves(a, place), OnlyAttempt
  PROVE  IInv'
<1> DEFINE r == [attempt[a] EXCEPT !.at = place]
<1>1. attempt[a] \in AttemptRecords /\ Holds(attempt[a])
  BY DEF IInv, TypeOK, AttemptsInv
<1>2. attempt' = [attempt EXCEPT ![a] = r]
  BY DEF Moves, IInv, TypeOK
<1>3. /\ r \in AttemptRecords /\ r.at = place
      /\ r.kind = attempt[a].kind /\ r.vault = attempt[a].vault
  BY <1>1 DEF AttemptRecords, Places
<1> HIDE DEF r
<1>4. Holds(r)
  BY <1>1, <1>3 DEF Holds
<1> QED BY <1>1, <1>2, <1>3, <1>4, OnlyCallMoves

LEMMA NextIInv ==
  ASSUME IInv, [Next]_vars
  PROVE  IInv'
<1>1. ASSUME NEW a \in Attempts, NEW kind \in Kinds, NEW vault \in Vaults,
             NEW handle \in Vaults \cup {None}, NEW signer \in Vaults \cup {None},
             Begin(a, kind, vault, handle, signer)
      PROVE  IInv'
  BY <1>1, BeginIInv
<1>2. ASSUME NEW a \in Attempts, NEW nonce \in Nonces,
             IntentMinted(a, nonce) \/ IntentAnswered(a, nonce)
      PROVE  IInv'
  BY <1>2, IntentMintedIInv, IntentAnsweredIInv
<1>3. ASSUME NEW a \in Attempts, NEW challenge \in Challenges, NEW credential \in Vaults,
             NEW pinned \in BOOLEAN, ConsentAsked(a, challenge, credential, pinned)
      PROVE  IInv'
  BY <1>3, ConsentAskedIInv
<1>4. ASSUME NEW a \in Attempts, OwnerConsents(a) PROVE IInv'
  BY <1>4, OwnerConsentsIInv
<1>5. ASSUME NEW a \in Attempts, NEW assertion \in consents, HostedAnswers(a, assertion)
      PROVE  IInv'
  BY <1>5, HostedAnswersIInv
<1>6. ASSUME NEW a \in Attempts, Submit(a) PROVE IInv'
  BY <1>6, SubmitIInv
<1>7. ASSUME NEW a \in Attempts, SubmissionAnswered(a) PROVE IInv'
  BY <1>7, CallEndsIInv DEF SubmissionAnswered
<1>8. ASSUME NEW a \in Attempts, AttemptFails(a) PROVE IInv'
  BY <1>8, CallEndsIInv DEF AttemptFails
<1>9. ASSUME NEW s \in submissions, SubmissionArrives(s) PROVE IInv'
  BY <1>9, SubmissionArrivesIInv
<1>10. ASSUME UNCHANGED vars PROVE IInv'
  BY <1>10 DEF vars, IInv, TypeOK, AttemptsInv, SubmissionsInv, FlipsInv, Holds, Minted,
               IntentOperation, Operation
<1> QED BY <1>1, <1>2, <1>3, <1>4, <1>5, <1>6, <1>7, <1>8, <1>9, <1>10 DEF Next

(* Every reachable state satisfies the invariant.                          *)
THEOREM Invariance == Spec => []IInv
<1>1. Init => IInv
  BY InitIInv
<1>2. IInv /\ [Next]_vars => IInv'
  BY NextIInv
<1> QED BY <1>1, <1>2, PTL DEF Spec

-----------------------------------------------------------------------------
(***************************************************************************)
(* The properties.                                                         *)
(***************************************************************************)

(* The variables keep their types, for any calls, vaults and intents.      *)
THEOREM TypeCorrect == Spec => []TypeOK
<1>1. IInv => TypeOK
  BY DEF IInv
<1> QED BY <1>1, Invariance, PTL

(* A vault's switch is moved only for a call that named the vault and the  *)
(* direction, whatever the API answers to the two challenge requests.      *)
THEOREM SwitchMovesAsNamed == Spec => []FlipsAsNamed
<1>1. IInv => FlipsAsNamed
  BY DEF IInv, FlipsInv, FlipsAsNamed
<1> QED BY <1>1, Invariance, PTL

(* What is submitted is consent to the operation the caller named, under   *)
(* the intent it is submitted for, whatever hosted windows answer.         *)
THEOREM SubmissionsAreOwnConsent == Spec => []SubmitsOwnConsent
<1>1. IInv => SubmitsOwnConsent
  BY DEF IInv, SubmissionsInv, SubmitsOwnConsent
<1> QED BY <1>1, Invariance, PTL

(* No consent moves a switch twice: the operation names the intent, and an *)
(* intent is redeemed once.                                                *)
THEOREM ConsentIsSpentOnce == Spec => []OneFlipPerConsent
<1>1. ASSUME IInv, NEW f \in flips, NEW g \in flips, f.assertion = g.assertion
      PROVE  f = g
  <2>1. Operation(f.kind, f.vault, f.nonce) = Operation(g.kind, g.vault, g.nonce)
    BY <1>1 DEF IInv, FlipsInv
  <2>2. f.nonce = g.nonce
    BY <2>1 DEF Operation
  <2> QED BY <1>1, <2>2 DEF IInv, FlipsInv
<1>2. IInv => OneFlipPerConsent
  BY <1>1 DEF OneFlipPerConsent
<1> QED BY <1>2, Invariance, PTL
=============================================================================
