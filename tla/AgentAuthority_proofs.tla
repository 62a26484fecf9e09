------------------------ MODULE AgentAuthority_proofs ------------------------
(***************************************************************************)
(* Proofs about the granting of agent authority, for any number of         *)
(* attempts, operation ids and targets and any largest amount.             *)
(***************************************************************************)
EXTENDS AgentAuthority, TLAPS

(***************************************************************************)
(* The inductive invariant.  The properties relate an attempt to what the  *)
(* API holds; they are kept because a challenge stands for one request     *)
(* only, and because a selection is revised only until it is authorized.   *)
(***************************************************************************)
Places == {"idle", "beginning", "challenged", "approved", "staged", "redirected", "failed"}

AttemptRecords == [at : Places, operation : OperationIds \cup {None},
                   request : Requests \cup {NoRequest}, revision : Revisions]

(* A challenge was issued for the selection's own or an earlier revision,  *)
(* and the one of its own revision stands for its request.                 *)
OffersInv ==
  \A o \in offers :
    /\ selection[o.operation] # None
    /\ o.revision <= selection[o.operation].revision
    /\ o.revision = selection[o.operation].revision =>
         o.request = selection[o.operation].request

(* What a record of an attempt may say, given what the API holds.          *)
Begun(r) ==
  r.at # "idle" =>
    r.operation \in OperationIds /\ r.request \in [target : Targets, limits : Limits]

Owned(r) ==
  r.at \in {"challenged", "approved"} =>
    [operation |-> r.operation, revision |-> r.revision, request |-> r.request] \in offers

Received(r) ==
  r.at \in {"staged", "redirected"} =>
    selection[r.operation] =
      [request |-> r.request, revision |-> r.revision, status |-> "authorized"]

AttemptsInv == \A a \in Attempts : Begun(attempt[a]) /\ Owned(attempt[a]) /\ Received(attempt[a])

IInv == TypeOK /\ AttemptsInv /\ OffersInv

-----------------------------------------------------------------------------
(***************************************************************************)
(* Lemmas about the operators.                                             *)
(***************************************************************************)

(* validRule() lets only limits through that the API may hold.             *)
LEMMA ValidRulesAreLimits ==
  ASSUME NEW limits \in AnyLimits, ValidRule(limits)
  PROVE  limits \in Limits
BY MaxAmountIsPositive DEF ValidRule, ValidAtomic, AnyLimits, Limits, Amounts

LEMMA LimitsAreAny == [target : Targets, limits : Limits] \subseteq Requests
BY DEF Limits, Requests

LEMMA NoAttemptType ==
  /\ NoAttempt \in AttemptRecords
  /\ NoAttempt.at = "idle"
BY NoneIsNoId DEF NoAttempt, AttemptRecords, Places, Revisions

LEMMA AttemptTypes == TypeOK <=>
  /\ attempt \in [Attempts -> AttemptRecords]
  /\ selection \in [OperationIds -> {None} \cup Selections]
  /\ offers \subseteq Offers
  /\ authorized \in [Targets -> OperationIds \cup {None}]
BY DEF TypeOK, AttemptRecords, Places

(* What the API answers with is a selection that keeps what is authorized  *)
(* and otherwise may only move on to a later revision.                     *)
LEMMA SelectionsForFacts ==
  ASSUME TypeOK, NEW operation \in OperationIds,
         NEW request \in [target : Targets, limits : Limits],
         NEW s \in SelectionsFor(operation, request)
  PROVE  /\ s \in Selections
         /\ selection[operation] # None => selection[operation].revision <= s.revision
         /\ selection[operation] # None /\ s.revision = selection[operation].revision =>
              s = selection[operation]
         /\ selection[operation] # None /\ selection[operation].status = "authorized" =>
              s = selection[operation]
<1>1. selection[operation] \in {None} \cup Selections
  BY DEF TypeOK
<1>2. CASE selection[operation] = None
  BY <1>2 DEF SelectionsFor, Selections, Revisions
<1>3. CASE selection[operation] # None
  <2>1. selection[operation] \in Selections /\ selection[operation].revision \in Nat
    BY <1>1, <1>3 DEF Selections, Revisions
  <2>2. CASE s = selection[operation]
    BY <2>1, <2>2
  <2>3. CASE s # selection[operation]
    <3>1. /\ s = [request |-> request, revision |-> selection[operation].revision + 1,
                  status |-> "required"]
          /\ selection[operation].status = "required"
      BY <1>3, <2>3 DEF SelectionsFor
    <3>2. selection[operation].revision + 1 \in Nat
      BY <2>1
    <3> QED BY <2>1, <3>1, <3>2 DEF Selections, Revisions
  <2> QED BY <2>2, <2>3
<1> QED BY <1>2, <1>3

(* From the challenge on, the API holds a selection for the operation.     *)
LEMMA ChallengedIsSelected ==
  ASSUME IInv, NEW a \in Attempts, attempt[a].at \in {"challenged", "approved"}
  PROVE  /\ attempt[a].operation \in OperationIds
         /\ selection[attempt[a].operation] \in Selections
         /\ selection[attempt[a].operation] # None
         /\ attempt[a].revision = selection[attempt[a].operation].revision =>
              attempt[a].request = selection[attempt[a].operation].request
<1> DEFINE o == [operation |-> attempt[a].operation, revision |-> attempt[a].revision,
                 request |-> attempt[a].request]
<1>1. o \in offers /\ attempt[a].operation \in OperationIds
  BY DEF IInv, AttemptsInv, Begun, Owned
<1>2. /\ selection[attempt[a].operation] # None
      /\ attempt[a].revision = selection[attempt[a].operation].revision =>
           attempt[a].request = selection[attempt[a].operation].request
  BY <1>1 DEF IInv, OffersInv
<1> QED BY <1>1, <1>2 DEF IInv, TypeOK

-----------------------------------------------------------------------------
(***************************************************************************)
(* The invariant.                                                          *)
(***************************************************************************)
LEMMA InitIInv == Init => IInv
BY NoAttemptType, AttemptTypes DEF Init, IInv, AttemptsInv, OffersInv, Begun, Owned, Received

(* A step of one attempt, while the API issues and authorizes, preserves   *)
(* the invariant if the API only adds challenges and keeps what is         *)
(* authorized.                                                             *)
LEMMA AttemptMoves ==
  ASSUME IInv, NEW a \in Attempts, NEW r \in AttemptRecords,
         attempt' = [attempt EXCEPT ![a] = r],
         Begun(r), Owned(r)', Received(r)',
         selection' \in [OperationIds -> {None} \cup Selections],
         offers' \subseteq Offers,
         authorized' \in [Targets -> OperationIds \cup {None}],
         OffersInv',
         offers \subseteq offers',
         \A operation \in OperationIds :
           selection[operation] # None /\ selection[operation].status = "authorized" =>
             selection'[operation] = selection[operation]
  PROVE  IInv'
<1>1. /\ attempt' \in [Attempts -> AttemptRecords]
      /\ attempt'[a] = r
      /\ \A b \in Attempts \ {a} : attempt'[b] = attempt[b]
  BY AttemptTypes DEF IInv
<1>2. TypeOK'
  BY <1>1, AttemptTypes DEF TypeOK, AttemptRecords, Places
<1>3. ASSUME NEW b \in Attempts PROVE (Begun(attempt[b]) /\ Owned(attempt[b]) /\ Received(attempt[b]))'
  <2>1. CASE b = a
    BY <1>1, <2>1 DEF Begun, Owned, Received
  <2>2. CASE b # a
    <3>1. /\ attempt'[b] = attempt[b] /\ attempt[b] \in AttemptRecords
          /\ Begun(attempt[b]) /\ Owned(attempt[b]) /\ Received(attempt[b])
      BY <1>1, <2>2, AttemptTypes DEF IInv, AttemptsInv
    <3>2. ASSUME attempt[b].at \in {"staged", "redirected"}
          PROVE  selection'[attempt[b].operation] = selection[attempt[b].operation]
      <4>1. /\ attempt[b].operation \in OperationIds
            /\ selection[attempt[b].operation] =
                 [request |-> attempt[b].request, revision |-> attempt[b].revision,
                  status |-> "authorized"]
        BY <3>1, <3>2 DEF Begun, Received
      <4>2. selection[attempt[b].operation] \in Selections
        BY <3>1, <3>2, <4>1 DEF AttemptRecords, Selections, Begun
      <4> QED BY <4>1, <4>2, NoneIsNoSelection
    <3> QED BY <3>1, <3>2 DEF Received, Begun, Owned
  <2> QED BY <2>1, <2>2
<1>4. AttemptsInv'
  BY <1>3 DEF AttemptsInv
<1> QED BY <1>2, <1>4 DEF IInv

(* The same, of a step that asks the API for nothing.                      *)
LEMMA OnlyAttemptMoves ==
  ASSUME IInv, NEW a \in Attempts, NEW r \in AttemptRecords,
         attempt' = [attempt EXCEPT ![a] = r],
         Begun(r), Owned(r), Received(r),
         UNCHANGED apiVars
  PROVE  IInv'
<1>1. UNCHANGED <<selection, offers, authorized>>
  BY DEF apiVars
<1>2. Owned(r)' /\ Received(r)'
  BY <1>1 DEF Owned, Received
<1>3. /\ selection' \in [OperationIds -> {None} \cup Selections]
      /\ offers' \subseteq Offers
      /\ authorized' \in [Targets -> OperationIds \cup {None}]
      /\ OffersInv'
  BY <1>1 DEF IInv, TypeOK, OffersInv
<1> QED BY <1>1, <1>2, <1>3, AttemptMoves

(* An attempt that moves keeps what it holds.                              *)
LEMMA MovedRecord ==
  ASSUME IInv, NEW a \in Attempts, NEW place \in Places, Moves(a, place)
  PROVE  /\ attempt[a] \in AttemptRecords
         /\ Begun(attempt[a]) /\ Owned(attempt[a]) /\ Received(attempt[a])
         /\ \E r \in AttemptRecords :
              /\ attempt' = [attempt EXCEPT ![a] = r]
              /\ r.at = place /\ r.operation = attempt[a].operation
              /\ r.request = attempt[a].request /\ r.revision = attempt[a].revision
<1> DEFINE moved == [attempt[a] EXCEPT !.at = place]
<1>1. /\ attempt[a] \in AttemptRecords
      /\ Begun(attempt[a]) /\ Owned(attempt[a]) /\ Received(attempt[a])
  BY AttemptTypes DEF IInv, AttemptsInv
<1>2. /\ moved \in AttemptRecords /\ moved.at = place
      /\ moved.operation = attempt[a].operation /\ moved.request = attempt[a].request
      /\ moved.revision = attempt[a].revision
  BY <1>1 DEF AttemptRecords
<1>3. attempt' = [attempt EXCEPT ![a] = moved]
  BY DEF Moves, IInv, TypeOK
<1> HIDE DEF moved
<1> QED BY <1>1, <1>2, <1>3

LEMMA BeginIInv ==
  ASSUME IInv, NEW a \in Attempts, NEW operation \in OperationIds, NEW request \in Requests,
         Begin(a, operation, request)
  PROVE  IInv'
<1> DEFINE r == [NoAttempt EXCEPT !.at = "beginning", !.operation = operation,
                                  !.request = request]
<1>1. request \in [target : Targets, limits : Limits]
  BY ValidRulesAreLimits DEF Begin, Requests
<1>2. r \in AttemptRecords /\ r.at = "beginning" /\ r.operation = operation /\ r.request = request
  BY NoAttemptType DEF AttemptRecords, Places
<1>3. attempt' = [attempt EXCEPT ![a] = r] /\ UNCHANGED apiVars
  BY DEF Begin
<1> HIDE DEF r
<1>4. Begun(r) /\ Owned(r) /\ Received(r)
  BY <1>1, <1>2 DEF Begun, Owned, Received
<1> QED BY <1>2, <1>3, <1>4, OnlyAttemptMoves

(* What the API does with a request of an attempt, answered or not.        *)
LEMMA BeginProcessedFacts ==
  ASSUME IInv, NEW a \in Attempts, attempt[a].at = "beginning",
         NEW s \in SelectionsFor(attempt[a].operation, attempt[a].request),
         BeginProcessed(attempt[a].operation, s)
  PROVE  /\ attempt[a] \in AttemptRecords /\ Begun(attempt[a])
         /\ s \in Selections
         /\ selection' \in [OperationIds -> {None} \cup Selections]
         /\ offers' \subseteq Offers
         /\ authorized' \in [Targets -> OperationIds \cup {None}]
         /\ OffersInv'
         /\ offers \subseteq offers'
         /\ [operation |-> attempt[a].operation, revision |-> s.revision,
             request |-> s.request] \in offers'
         /\ \A operation \in OperationIds :
              selection[operation] # None /\ selection[operation].status = "authorized" =>
                selection'[operation] = selection[operation]
<1> DEFINE op == attempt[a].operation
           offer == [operation |-> op, revision |-> s.revision, request |-> s.request]
<1>1. /\ attempt[a] \in AttemptRecords /\ Begun(attempt[a])
      /\ op \in OperationIds /\ attempt[a].request \in [target : Targets, limits : Limits]
  BY AttemptTypes DEF IInv, AttemptsInv, Begun
<1>2. /\ s \in Selections
      /\ selection[op] # None => selection[op].revision <= s.revision
      /\ selection[op] # None /\ s.revision = selection[op].revision => s = selection[op]
      /\ selection[op] # None /\ selection[op].status = "authorized" => s = selection[op]
  BY <1>1, SelectionsForFacts DEF IInv
<1>3. /\ selection' = [selection EXCEPT ![op] = s] /\ offers' = offers \cup {offer}
      /\ authorized' = authorized
  BY DEF BeginProcessed
<1>4. offer \in Offers /\ s # None /\ s.revision \in Nat
  BY <1>1, <1>2, LimitsAreAny, NoneIsNoSelection DEF Offers, Selections, Revisions
<1>5. /\ selection' \in [OperationIds -> {None} \cup Selections]
      /\ selection'[op] = s
      /\ \A o \in OperationIds \ {op} : selection'[o] = selection[o]
  BY <1>1, <1>2, <1>3 DEF IInv, TypeOK
<1>6. OffersInv'
  <2> SUFFICES ASSUME NEW o \in offers'
               PROVE  /\ selection'[o.operation] # None
                      /\ o.revision <= selection'[o.operation].revision
                      /\ o.revision = selection'[o.operation].revision =>
                           o.request = selection'[o.operation].request
    BY DEF OffersInv
  <2>1. CASE o = offer
    BY <1>4, <1>5, <2>1
  <2>2. CASE o # offer
    <3>1. /\ o \in Offers /\ selection[o.operation] # None
          /\ o.revision <= selection[o.operation].revision
          /\ o.revision = selection[o.operation].revision =>
               o.request = selection[o.operation].request
      BY <1>3, <2>2 DEF IInv, TypeOK, OffersInv
    <3>2. CASE o.operation = op
      <4>1. o.revision \in Nat /\ selection[op].revision \in Nat
        BY <1>1, <3>1, <3>2 DEF Offers, Revisions, IInv, TypeOK, Selections
      <4> QED BY <1>2, <1>4, <1>5, <3>1, <3>2, <4>1
    <3>3. CASE o.operation # op
      BY <1>5, <3>1, <3>3 DEF Offers
    <3> QED BY <3>2, <3>3
  <2> QED BY <2>1, <2>2
<1>7. offers' \subseteq Offers /\ authorized' \in [Targets -> OperationIds \cup {None}]
  BY <1>3, <1>4 DEF IInv, TypeOK
<1> QED BY <1>1, <1>2, <1>3, <1>5, <1>6, <1>7

LEMMA BeginAnsweredIInv ==
  ASSUME IInv, NEW a \in Attempts, BeginAnswered(a)
  PROVE  IInv'
<1>1. PICK s \in SelectionsFor(attempt[a].operation, attempt[a].request) :
        /\ BeginProcessed(attempt[a].operation, s)
        /\ attempt' = [attempt EXCEPT
             ![a].at = IF ExactChallenge(a, s) THEN "challenged" ELSE "failed",
             ![a].revision = IF ExactChallenge(a, s) THEN s.revision ELSE 0]
  BY DEF BeginAnswered
<1>2. attempt[a].at = "beginning"
  BY DEF BeginAnswered
<1>3. attempt[a] \in AttemptRecords /\ Begun(attempt[a]) /\ s \in Selections
  BY <1>1, <1>2, BeginProcessedFacts
<1>4. PICK r \in AttemptRecords :
        /\ attempt' = [attempt EXCEPT ![a] = r]
        /\ r.at \in {"challenged", "failed"}
        /\ r.operation = attempt[a].operation /\ r.request = attempt[a].request
        /\ r.at = "challenged" => ExactChallenge(a, s) /\ r.revision = s.revision
  <2> DEFINE moved(place, revision) == [attempt[a] EXCEPT !.at = place, !.revision = revision]
  <2>1. ASSUME NEW place \in Places, NEW revision \in Revisions
        PROVE  /\ moved(place, revision) \in AttemptRecords
               /\ moved(place, revision).at = place
               /\ moved(place, revision).operation = attempt[a].operation
               /\ moved(place, revision).request = attempt[a].request
               /\ moved(place, revision).revision = revision
    BY <1>3 DEF AttemptRecords
  <2>2. "challenged" \in Places /\ "failed" \in Places /\ s.revision \in Revisions /\ 0 \in Revisions
    BY <1>3 DEF Places, Selections, Revisions
  <2>3. CASE ExactChallenge(a, s)
    <3>1. attempt' = [attempt EXCEPT ![a] = moved("challenged", s.revision)]
      BY <1>1, <2>3 DEF IInv, TypeOK
    <3> HIDE DEF moved
    <3> QED BY <2>1, <2>2, <2>3, <3>1
  <2>4. CASE ~ExactChallenge(a, s)
    <3>1. attempt' = [attempt EXCEPT ![a] = moved("failed", 0)]
      BY <1>1, <2>4 DEF IInv, TypeOK
    <3> HIDE DEF moved
    <3> QED BY <2>1, <2>2, <3>1
  <2> QED BY <2>3, <2>4
<1>6. Begun(r) /\ Received(r)'
  BY <1>2, <1>3, <1>4 DEF Begun, Received
<1>7. Owned(r)'
  <2>1. [operation |-> attempt[a].operation, revision |-> s.revision, request |-> s.request]
          \in offers'
    BY <1>1, <1>2, BeginProcessedFacts
  <2> QED BY <1>4, <2>1 DEF Owned, ExactChallenge
<1> QED BY <1>1, <1>2, <1>4, <1>6, <1>7, BeginProcessedFacts, AttemptMoves

LEMMA BeginUnansweredIInv ==
  ASSUME IInv, NEW a \in Attempts, BeginUnanswered(a)
  PROVE  IInv'
<1>1. PICK s \in SelectionsFor(attempt[a].operation, attempt[a].request) :
        BeginProcessed(attempt[a].operation, s)
  BY DEF BeginUnanswered
<1>2. attempt[a].at = "beginning" /\ Moves(a, "failed") /\ "failed" \in Places
  BY DEF BeginUnanswered, Places
<1>3. PICK r \in AttemptRecords :
        /\ attempt' = [attempt EXCEPT ![a] = r]
        /\ r.at = "failed" /\ r.operation = attempt[a].operation
        /\ r.request = attempt[a].request /\ Begun(attempt[a])
  BY <1>2, MovedRecord
<1>4. Begun(r) /\ Owned(r)' /\ Received(r)'
  BY <1>2, <1>3 DEF Begun, Owned, Received
<1> QED BY <1>1, <1>2, <1>3, <1>4, BeginProcessedFacts, AttemptMoves

(* A step of one attempt that asks the API for nothing, and neither puts a *)
(* challenge to the owner nor accepts a receipt.                           *)
LEMMA QuietMove ==
  ASSUME IInv, NEW a \in Attempts, NEW place \in Places, Moves(a, place), UNCHANGED apiVars,
         attempt[a].at # "idle",
         place = "approved" => attempt[a].at = "challenged",
         place # "challenged",
         place \in {"staged", "redirected"} => attempt[a].at = "staged"
  PROVE  IInv'
<1>1. PICK r \in AttemptRecords :
        /\ attempt' = [attempt EXCEPT ![a] = r]
        /\ r.at = place /\ r.operation = attempt[a].operation
        /\ r.request = attempt[a].request /\ r.revision = attempt[a].revision
  BY MovedRecord
<1>2. Begun(attempt[a]) /\ Owned(attempt[a]) /\ Received(attempt[a])
  BY MovedRecord
<1>3. Begun(r) /\ Owned(r) /\ Received(r)
  BY <1>1, <1>2 DEF Begun, Owned, Received
<1> QED BY <1>1, <1>3, OnlyAttemptMoves

(* What completing a selection does at the API: it authorizes the revision *)
(* the attempt put to its owner, or finds one that was authorized before.  *)
LEMMA CompleteProcessedFacts ==
  ASSUME IInv, NEW a \in Attempts, Completable(a), CompleteProcessed(attempt[a].operation)
  PROVE  LET op == attempt[a].operation
         IN  /\ op \in OperationIds /\ selection[op] \in Selections
             /\ selection' \in [OperationIds -> {None} \cup Selections]
             /\ selection'[op] = [request |-> selection[op].request,
                                  revision |-> selection[op].revision,
                                  status |-> "authorized"]
             /\ \A o \in OperationIds \ {op} : selection'[o] = selection[o]
             /\ selection[op].status = "authorized" => selection'[op] = selection[op]
             /\ offers' = offers
             /\ authorized' \in [Targets -> OperationIds \cup {None}]
             /\ OffersInv'
<1> DEFINE op == attempt[a].operation
<1>1. op \in OperationIds /\ selection[op] \in Selections
  BY ChallengedIsSelected DEF Completable
<1>2. /\ selection' = [selection EXCEPT ![op].status = "authorized"]
      /\ selection \in [OperationIds -> {None} \cup Selections]
      /\ offers' = offers /\ offers \subseteq Offers
  BY DEF CompleteProcessed, IInv, TypeOK
<1>3. [selection[op] EXCEPT !.status = "authorized"] =
        [request |-> selection[op].request, revision |-> selection[op].revision,
         status |-> "authorized"]
  BY <1>1 DEF Selections
<1>4. /\ selection'[op] = [request |-> selection[op].request,
                           revision |-> selection[op].revision, status |-> "authorized"]
      /\ selection'[op] \in Selections
      /\ \A o \in OperationIds \ {op} : selection'[o] = selection[o]
      /\ selection' \in [OperationIds -> {None} \cup Selections]
  BY <1>1, <1>2, <1>3 DEF Selections
<1>5. selection[op].status = "authorized" => selection'[op] = selection[op]
  BY <1>1, <1>4 DEF Selections
<1>6. authorized' \in [Targets -> OperationIds \cup {None}]
  BY <1>1 DEF CompleteProcessed, IInv, TypeOK
<1>7. OffersInv'
  <2> SUFFICES ASSUME NEW o \in offers
               PROVE  /\ selection'[o.operation] # None
                      /\ o.revision <= selection'[o.operation].revision
                      /\ o.revision = selection'[o.operation].revision =>
                           o.request = selection'[o.operation].request
    BY <1>2 DEF OffersInv
  <2>1. o.operation \in OperationIds
    BY <1>2 DEF Offers
  <2> QED BY <1>4, <2>1, NoneIsNoSelection DEF IInv, OffersInv
<1> QED BY <1>1, <1>2, <1>4, <1>5, <1>6, <1>7

LEMMA StageIInv ==
  ASSUME IInv, NEW a \in Attempts, NEW place \in {"staged", "failed"},
         Completable(a), CompleteProcessed(attempt[a].operation), Moves(a, place),
         place = "staged" => ExactReceipt(a, selection[attempt[a].operation])
  PROVE  IInv'
<1>0. place \in Places
  BY DEF Places
<1>1. PICK r \in AttemptRecords :
        /\ attempt' = [attempt EXCEPT ![a] = r]
        /\ r.at = place /\ r.operation = attempt[a].operation
        /\ r.request = attempt[a].request /\ r.revision = attempt[a].revision
  BY <1>0, MovedRecord
<1>2. Begun(attempt[a])
  BY <1>0, MovedRecord
<1>3. Begun(r) /\ Owned(r)'
  BY <1>1, <1>2 DEF Begun, Owned, Completable
<1>4. Received(r)'
  BY <1>1, CompleteProcessedFacts DEF Received, ExactReceipt
<1>5. \A operation \in OperationIds :
        selection[operation] # None /\ selection[operation].status = "authorized" =>
          selection'[operation] = selection[operation]
  BY CompleteProcessedFacts
<1>6. offers' \subseteq Offers /\ offers \subseteq offers'
  BY CompleteProcessedFacts DEF IInv, TypeOK
<1> QED BY <1>1, <1>3, <1>4, <1>5, <1>6, CompleteProcessedFacts, AttemptMoves

LEMMA NextIInv == IInv /\ [Next]_vars => IInv'
<1> SUFFICES ASSUME IInv, [Next]_vars PROVE IInv'
  OBVIOUS
<1>1. ASSUME NEW a \in Attempts, NEW operation \in OperationIds, NEW request \in Requests,
             Begin(a, operation, request)
      PROVE  IInv'
  BY <1>1, BeginIInv
<1>2. ASSUME NEW a \in Attempts, BeginAnswered(a) PROVE IInv'
  BY <1>2, BeginAnsweredIInv
<1>3. ASSUME NEW a \in Attempts, BeginUnanswered(a) PROVE IInv'
  BY <1>3, BeginUnansweredIInv
<1>4. ASSUME NEW a \in Attempts, OwnerApproves(a) PROVE IInv'
  BY <1>4, QuietMove DEF OwnerApproves, Places
<1>5. ASSUME NEW a \in Attempts, GivesUp(a) PROVE IInv'
  BY <1>5, QuietMove DEF GivesUp, Places
<1>6. ASSUME NEW a \in Attempts, StageAnswered(a) PROVE IInv'
  BY <1>6, StageIInv DEF StageAnswered
<1>7. ASSUME NEW a \in Attempts, StageUnanswered(a) PROVE IInv'
  BY <1>7, StageIInv DEF StageUnanswered
<1>8. ASSUME NEW a \in Attempts, ApprovalAnswered(a) PROVE IInv'
  BY <1>8, QuietMove DEF ApprovalAnswered, Places
<1>9. ASSUME UNCHANGED vars PROVE IInv'
  BY <1>9 DEF vars, apiVars, IInv, TypeOK, AttemptsInv, OffersInv, Begun, Owned, Received
<1> QED BY <1>1, <1>2, <1>3, <1>4, <1>5, <1>6, <1>7, <1>8, <1>9 DEF Next

LEMMA IInvHolds == Spec => []IInv
BY InitIInv, NextIInv, PTL DEF Spec

-----------------------------------------------------------------------------
(***************************************************************************)
(* What follows.                                                           *)
(***************************************************************************)

(* Every variable keeps its type; in particular only ordered limits that   *)
(* fit in 64 bits ever reach the API (buildAgentAuthorityRequest()).       *)
THEOREM TypeCorrect == Spec => []TypeOK
<1>1. IInv => TypeOK
  BY DEF IInv
<1> QED BY <1>1, IInvHolds, PTL

(* The owner's passkey is only put to a challenge that stands for the      *)
(* request of the attempt (beginAgentAuthority()).                         *)
THEOREM OwnersSeeTheirRequests == Spec => []OwnerSeesOwnRequest
<1>1. IInv => OwnerSeesOwnRequest
  BY DEF IInv, AttemptsInv, Owned, OwnerSeesOwnRequest
<1> QED BY <1>1, IInvHolds, PTL

(* A receipt that was accepted is, and remains, of what the API authorized *)
(* for the attempt (stageAgentAuthority()).                                *)
THEOREM ReceiptsAreLasting == Spec => []ReceiptIsWhatOwnerApproved
<1>1. IInv => ReceiptIsWhatOwnerApproved
  BY DEF IInv, AttemptsInv, Received, ReceiptIsWhatOwnerApproved
<1> QED BY <1>1, IInvHolds, PTL

(* What the API authorizes is what an owner's passkey approved in some     *)
(* attempt, although attempts that share an operation id revise each       *)
(* other's selection.                                                      *)
THEOREM OnlyApprovedIsAuthorized == Spec => AuthorizesWhatOwnerApproved
<1> DEFINE ApprovedBy(operation, s) ==
             \E a \in Attempts :
               /\ attempt[a].at = "approved"
               /\ attempt[a].operation = operation
               /\ attempt[a].revision = s.revision
               /\ attempt[a].request = s.request
           Goal == \A operation \in OperationIds :
             /\ selection'[operation] # None /\ selection'[operation].status = "authorized"
             /\ selection[operation] # selection'[operation]
             => ApprovedBy(operation, selection'[operation])
<1>1. ASSUME IInv, Next PROVE Goal
  <2>1. ASSUME NEW a \in Attempts,
               attempt[a].at = "beginning",
               NEW s \in SelectionsFor(attempt[a].operation, attempt[a].request),
               BeginProcessed(attempt[a].operation, s)
        PROVE  Goal
    <3>1. s = selection[attempt[a].operation] \/ s.status = "required"
      BY <2>1 DEF SelectionsFor
    <3> QED BY <1>1, <2>1, <3>1 DEF BeginProcessed, IInv, TypeOK
  <2>2. ASSUME NEW a \in Attempts, Completable(a), CompleteProcessed(attempt[a].operation)
        PROVE  Goal
    <3> DEFINE op == attempt[a].operation
    <3>0. /\ \A o \in OperationIds \ {op} : selection'[o] = selection[o]
          /\ selection'[op] = [request |-> selection[op].request,
                               revision |-> selection[op].revision,
                               status |-> "authorized"]
          /\ selection[op].status = "authorized" => selection'[op] = selection[op]
      BY <1>1, <2>2, CompleteProcessedFacts
    <3>1. /\ \A o \in OperationIds \ {op} : selection'[o] = selection[o]
          /\ selection'[op].revision = selection[op].revision
          /\ selection'[op].request = selection[op].request
          /\ selection[op].status = "authorized" => selection'[op] = selection[op]
      BY <3>0
    <3>2. attempt[a].revision = selection[op].revision => attempt[a].request = selection[op].request
      BY <1>1, <2>2, ChallengedIsSelected DEF Completable
    <3>3. selection[op] # selection'[op] => ApprovedBy(op, selection'[op])
      BY <2>2, <3>1, <3>2 DEF Completable
    <3> HIDE DEF ApprovedBy
    <3> QED BY <3>1, <3>3
  <2>3. ASSUME UNCHANGED selection PROVE Goal
    BY <2>3
  <2> HIDE DEF Goal
  <2>4. ASSUME NEW a \in Attempts, BeginAnswered(a) \/ BeginUnanswered(a) PROVE Goal
    BY <2>1, <2>4 DEF BeginAnswered, BeginUnanswered
  <2>5. ASSUME NEW a \in Attempts, StageAnswered(a) \/ StageUnanswered(a) PROVE Goal
    BY <2>2, <2>5 DEF StageAnswered, StageUnanswered
  <2>6. ASSUME NEW a \in Attempts, OwnerApproves(a) \/ GivesUp(a) \/ ApprovalAnswered(a)
        PROVE  Goal
    BY <2>3, <2>6 DEF OwnerApproves, GivesUp, ApprovalAnswered, apiVars
  <2>7. ASSUME NEW a \in Attempts, NEW operation, NEW request, Begin(a, operation, request)
        PROVE  Goal
    BY <2>3, <2>7 DEF Begin, apiVars
  <2> QED BY <1>1, <2>4, <2>5, <2>6, <2>7 DEF Next
<1>2. IInv /\ [Next]_vars => [Goal]_vars
  BY <1>1
<1> QED BY <1>2, IInvHolds, PTL DEF Spec, AuthorizesWhatOwnerApproved

(* A page follows a redirect only when the active grant of its target has  *)
(* the limits its owner approved (exactAgentAuthorityApprovalRedirect()).  *)
THEOREM RedirectsAreEarned == Spec => RedirectGrantsWhatOwnerApproved
<1> DEFINE Goal == \A a \in Attempts :
             attempt[a].at # "redirected" /\ attempt'[a].at = "redirected" =>
               selection[authorized[attempt[a].request.target]].request = attempt[a].request
<1>1. ASSUME IInv, Next PROVE Goal
  <2>2. ASSUME NEW a \in Attempts, ApprovalAnswered(a) PROVE Goal
    <3>1. /\ Received(attempt[a]) /\ attempt[a].at = "staged"
          /\ \A b \in Attempts \ {a} : attempt'[b] = attempt[b]
      BY <1>1, <2>2 DEF ApprovalAnswered, Moves, IInv, TypeOK, AttemptsInv
    <3>2. attempt'[a].at = "redirected" =>
            authorized[attempt[a].request.target] = attempt[a].operation
      BY <1>1, <2>2 DEF ApprovalAnswered, Moves, ExactApproval, IInv, TypeOK
    <3> QED BY <3>1, <3>2 DEF Received
  <2>3. ASSUME NEW a \in Attempts, NEW place \in Places \ {"redirected"}, Moves(a, place)
        PROVE  Goal
    BY <1>1, <2>3 DEF Moves, IInv, TypeOK
  <2>4. ASSUME NEW a \in Attempts, BeginAnswered(a) PROVE Goal
    <3>1. \A b \in Attempts : attempt'[b].at = "redirected" => attempt[b].at = "redirected"
      BY <1>1, <2>4 DEF BeginAnswered, IInv, TypeOK
    <3> QED BY <3>1
  <2>5. ASSUME NEW a \in Attempts, NEW operation \in OperationIds, NEW request \in Requests,
               Begin(a, operation, request)
        PROVE  Goal
    <3>1. \A b \in Attempts : attempt'[b].at = "redirected" => attempt[b].at = "redirected"
      BY <1>1, <2>5 DEF Begin, NoAttempt, IInv, TypeOK
    <3> QED BY <3>1
  <2>6. {"failed", "approved", "staged"} \subseteq Places \ {"redirected"}
    BY DEF Places
  <2> HIDE DEF Goal
  <2>7. ASSUME NEW a \in Attempts,
               OwnerApproves(a) \/ GivesUp(a) \/ BeginUnanswered(a)
                 \/ StageAnswered(a) \/ StageUnanswered(a)
        PROVE  Goal
    <3>1. \E place \in {"failed", "approved", "staged"} : Moves(a, place)
      BY <2>7 DEF OwnerApproves, GivesUp, BeginUnanswered, StageAnswered, StageUnanswered
    <3> QED BY <2>3, <2>6, <3>1
  <2> QED BY <1>1, <2>2, <2>4, <2>5, <2>7 DEF Next
<1>2. IInv /\ [Next]_vars => [Goal]_vars
  BY <1>1
<1> QED BY <1>2, IInvHolds, PTL DEF Spec, RedirectGrantsWhatOwnerApproved
=============================================================================
