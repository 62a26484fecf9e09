------------------------ MODULE AccountControl_proofs ------------------------
(***************************************************************************)
(* Proofs about the account control, the ceremonies it runs and the        *)
(* portfolio it shows, for any passkeys, Wallets, portfolios and requests. *)
(***************************************************************************)
EXTENDS AccountControl, FiniteSetTheorems, TLAPS

(***************************************************************************)
(* The inductive invariant, one part for each of the three.                *)
(***************************************************************************)

(* A submission is of a passkey that is not enrolled, and was not given up *)
(* for good; a refusal says that it never will be.                         *)
SubmissionsInv ==
  /\ enrolling \cap identities = {}
  /\ DefiniteFailureEnrolledNothing
  /\ ceremony # None =>
       /\ ceremony.at \in {"challenge", "passkey"} => ceremony.passkey = None
       /\ ceremony.passkey \in made \cup {None}
       /\ ceremony.reply # None => ceremony.at = "answer" /\ ceremony.verb = "enroll"
       /\ ceremony.reply = "refused" => ceremony.passkey \notin identities \cup enrolling

Enrolls == ceremony # None /\ ceremony.verb = "enroll"

(* While a passkey is enrolled, it alone may be unfinished.  Afterwards    *)
(* something unfinished keeps the control from creating.                   *)
UnfinishedInv ==
  /\ ceremonyInProgress \/ ceremony = None
  /\ Enrolls => unfinished \subseteq {ceremony.passkey} \ {None}
  /\ ~Enrolls => (unfinished # {} => credentialNeedsSignIn)
  /\ \A p, q \in unfinished : p = q

(* What the hook holds is of the Wallet it names; before its first effect  *)
(* it holds nothing and waits.                                             *)
SummaryInv ==
  /\ summary # NoView =>
       /\ summary.state.amount # NoView => summary.state.amount \in Fits[summary.state.key]
       /\ summary.effectOf = NoView =>
            summary.inFlight = 0 /\ summary.generation = 0 /\ summary.state.loading
  /\ LoadingIsUnderWay

IInv == TypeOK /\ SubmissionsInv /\ UnfinishedInv /\ SummaryInv

-----------------------------------------------------------------------------
(***************************************************************************)
(* Lemmas about the summary.                                               *)
(***************************************************************************)
LEMMA ReadIds == 0 \notin RequestIds
BY DEF RequestIds

(* Aborting a read keeps the reads well formed.                            *)
LEMMA AbortedReads == ASSUME PortfolioTypeOK, NEW id PROVE Aborted(id) \subseteq Reads
<1> SUFFICES ASSUME NEW r \in requests
             PROVE  (IF r.id = id THEN [r EXCEPT !.aborted = TRUE] ELSE r) \in Reads
  BY DEF Aborted
<1> QED BY DEF PortfolioTypeOK, Reads

(* The hook of a Wallet that was just mounted, or moved to another key,    *)
(* waits for its effect.                                                   *)
LEMMA RenderedKeeps ==
  ASSUME PortfolioTypeOK, SummaryInv, NEW view \in Views \cup {NoView}, Rendered(view)
  PROVE  PortfolioTypeOK' /\ SummaryInv'
<1>1. CASE view = NoView
  <2>1. summary' = NoView /\ requests' \subseteq Reads
    BY <1>1, AbortedReads DEF Rendered, PortfolioTypeOK
  <2> QED BY <2>1 DEF PortfolioTypeOK, SummaryInv, LoadingIsUnderWay
<1>2. CASE view # NoView /\ summary # NoView /\ WalletOf[summary.key] = WalletOf[view]
  <2>1. /\ summary \in Summaries /\ summary.effectOf = summary.key
        /\ summary.key \in Views /\ summary.key # NoView
    BY <1>2, NoViewIsNoView DEF Rendered, PortfolioTypeOK, Summaries
  <2>2. summary' = [summary EXCEPT !.key = view] /\ requests' = requests
    BY <1>2 DEF Rendered
  <2>3. /\ summary' \in Summaries /\ summary'.key = view
        /\ summary'.effectOf = summary.effectOf /\ summary'.state = summary.state
        /\ summary'.generation = summary.generation /\ summary'.inFlight = summary.inFlight
    BY <1>2, <2>1, <2>2 DEF Summaries
  <2>4. CASE view = summary.key
    <3>1. summary' = summary
      BY <2>1, <2>2, <2>4 DEF Summaries
    <3> QED BY <2>2, <3>1 DEF PortfolioTypeOK, SummaryInv, LoadingIsUnderWay, Visible, IsLatest
  <2>5. CASE view # summary.key
    BY <1>2, <2>1, <2>2, <2>3, <2>5
    DEF PortfolioTypeOK, SummaryInv, LoadingIsUnderWay
  <2> QED BY <2>4, <2>5
<1>3. CASE view # NoView /\ ~(summary # NoView /\ WalletOf[summary.key] = WalletOf[view])
  <2>1. summary' = Mounted(view) /\ requests' \subseteq Reads
    BY <1>3, AbortedReads DEF Rendered, PortfolioTypeOK
  <2>2. /\ summary' \in Summaries /\ summary'.key = view /\ summary'.effectOf = NoView
        /\ summary'.generation = 0 /\ summary'.inFlight = 0
        /\ summary'.state.loading /\ summary'.state.amount = NoView
    BY <1>3, <2>1 DEF Mounted, Unread, Summaries, States
  <2> QED BY <1>3, <2>1, <2>2 DEF PortfolioTypeOK, SummaryInv, LoadingIsUnderWay
<1> QED BY <1>1, <1>2, <1>3

(* refresh() joins a read for the same key or begins one that will be      *)
(* written.                                                                *)
LEMMA RefreshesFacts ==
  ASSUME NEW s \in Summaries, NEW others \in SUBSET Reads, Refreshes(s, others)
  PROVE  \/ summary' = s /\ requests' = others /\ s.inFlight # 0
         \/ /\ summary' \in Summaries /\ requests' \subseteq Reads
            /\ summary'.key = s.key /\ summary'.effectOf = s.effectOf
            /\ summary'.state = Unread(s.key)
            /\ \E r \in requests' : ~r.aborted /\ r.key = s.key /\ r.id = summary'.generation
<1>1. CASE \E r \in others : r.id = s.inFlight /\ r.key = s.key
  BY <1>1, ReadIds DEF Refreshes, Reads
<1>2. CASE ~\E r \in others : r.id = s.inFlight /\ r.key = s.key
  <2>1. PICK id \in RequestIds :
          /\ summary' = [s EXCEPT !.state = Unread(s.key), !.generation = id, !.inFlight = id]
          /\ requests' = {IF r.id = s.inFlight THEN [r EXCEPT !.aborted = TRUE] ELSE r : r \in others}
                            \cup {[id |-> id, key |-> s.key, aborted |-> FALSE]}
    BY <1>2 DEF Refreshes
  <2>2. s.key \in Views /\ Unread(s.key) \in States
    BY DEF Summaries, Unread, States
  <2>3. /\ summary' \in Summaries
        /\ summary'.key = s.key /\ summary'.effectOf = s.effectOf
        /\ summary'.state = Unread(s.key) /\ summary'.generation = id
    BY <2>1, <2>2 DEF Summaries
  <2>4. PICK new \in Reads : /\ new = [id |-> id, key |-> s.key, aborted |-> FALSE]
                             /\ ~new.aborted /\ new.key = s.key /\ new.id = id
    <3>1. [id |-> id, key |-> s.key, aborted |-> FALSE] \in Reads
      BY <2>2 DEF Reads
    <3>2. /\ ~[id |-> id, key |-> s.key, aborted |-> FALSE].aborted
          /\ [id |-> id, key |-> s.key, aborted |-> FALSE].key = s.key
          /\ [id |-> id, key |-> s.key, aborted |-> FALSE].id = id
      OBVIOUS
    <3> QED BY <3>1, <3>2
  <2>5. \A r \in others : (IF r.id = s.inFlight THEN [r EXCEPT !.aborted = TRUE] ELSE r) \in Reads
    BY DEF Reads
  <2>6. requests' \subseteq Reads /\ new \in requests'
    BY <2>1, <2>4, <2>5
  <2> QED BY <2>3, <2>4, <2>6
<1> QED BY <1>1, <1>2

(* A refresh that begins a read leaves a summary that waits for it.        *)
LEMMA NewReadKeeps ==
  ASSUME NEW key \in Views,
         summary' \in Summaries, requests' \subseteq Reads,
         summary'.key = key, summary'.state = Unread(key), summary'.effectOf # NoView,
         \E r \in requests' : ~r.aborted /\ r.key = key /\ r.id = summary'.generation
  PROVE  PortfolioTypeOK' /\ SummaryInv'
<1>1. summary'.state.amount = NoView
  BY DEF Unread
<1>2. LoadingIsUnderWay'
  BY DEF LoadingIsUnderWay, IsLatest
<1> QED BY <1>1, <1>2 DEF PortfolioTypeOK, SummaryInv

LEMMA EffectRunsKeeps ==
  ASSUME PortfolioTypeOK, SummaryInv, EffectRuns
  PROVE  PortfolioTypeOK' /\ SummaryInv'
<1>1. /\ summary # NoView /\ summary \in Summaries /\ summary.key \in Views
      /\ summary.key # NoView /\ requests \in SUBSET Reads
  BY NoViewIsNoView DEF EffectRuns, PortfolioTypeOK, Summaries
<1>2. PICK s \in Summaries, others \in SUBSET Reads :
        /\ Refreshes(s, others)
        /\ s.key = summary.key /\ s.effectOf = summary.key /\ s.inFlight = 0
  <2>1. CASE summary.effectOf = NoView
    <3>1. /\ [summary EXCEPT !.effectOf = summary.key] \in Summaries
          /\ [summary EXCEPT !.effectOf = summary.key].key = summary.key
          /\ [summary EXCEPT !.effectOf = summary.key].effectOf = summary.key
          /\ [summary EXCEPT !.effectOf = summary.key].inFlight = 0
      BY <1>1, <2>1 DEF Summaries, SummaryInv
    <3>2. Refreshes([summary EXCEPT !.effectOf = summary.key], requests)
      BY <2>1 DEF EffectRuns
    <3> QED BY <1>1, <3>1, <3>2
  <2>2. CASE summary.effectOf # NoView
    <3>1. /\ [CleanedUp EXCEPT !.effectOf = summary.key] \in Summaries
          /\ [CleanedUp EXCEPT !.effectOf = summary.key].key = summary.key
          /\ [CleanedUp EXCEPT !.effectOf = summary.key].effectOf = summary.key
          /\ [CleanedUp EXCEPT !.effectOf = summary.key].inFlight = 0
      BY <1>1, <2>2 DEF Summaries, CleanedUp
    <3>2. Refreshes([CleanedUp EXCEPT !.effectOf = summary.key], Aborted(summary.inFlight))
      BY <2>2 DEF EffectRuns
    <3>3. Aborted(summary.inFlight) \in SUBSET Reads
      BY AbortedReads
    <3> QED BY <3>1, <3>2, <3>3
  <2> QED BY <2>1, <2>2
<1>3. /\ summary' \in Summaries /\ requests' \subseteq Reads
      /\ summary'.key = summary.key /\ summary'.effectOf = summary.key
      /\ summary'.state = Unread(summary.key)
      /\ \E r \in requests' : ~r.aborted /\ r.key = summary.key /\ r.id = summary'.generation
  BY <1>2, RefreshesFacts
<1> QED BY <1>1, <1>3, NewReadKeeps

LEMMA RefreshPressedKeeps ==
  ASSUME PortfolioTypeOK, SummaryInv, RefreshPressed
  PROVE  PortfolioTypeOK' /\ SummaryInv'
<1>1. /\ summary # NoView /\ summary \in Summaries /\ summary.key \in Views
      /\ requests \in SUBSET Reads /\ ~Visible.loading /\ Refreshes(summary, requests)
  BY DEF RefreshPressed, PortfolioTypeOK, Summaries
<1>2. summary.effectOf # NoView
  BY <1>1 DEF SummaryInv, Visible, Unread
<1>3. CASE summary' = summary /\ requests' = requests
  BY <1>3 DEF PortfolioTypeOK, SummaryInv, LoadingIsUnderWay, Visible, IsLatest
<1>4. CASE /\ summary' \in Summaries /\ requests' \subseteq Reads
           /\ summary'.key = summary.key /\ summary'.effectOf = summary.effectOf
           /\ summary'.state = Unread(summary.key)
           /\ \E r \in requests' : ~r.aborted /\ r.key = summary.key /\ r.id = summary'.generation
  BY <1>1, <1>2, <1>4, NewReadKeeps
<1> QED BY <1>1, <1>3, <1>4, RefreshesFacts

LEMMA ReadSettlesKeeps ==
  ASSUME PortfolioTypeOK, SummaryInv, NEW r \in requests,
         NEW answer \in Portfolios \cup {NoView}, ReadSettles(r, answer)
  PROVE  PortfolioTypeOK' /\ SummaryInv'
<1>1. requests' = requests \ {r} /\ r \in Reads
  BY DEF ReadSettles, PortfolioTypeOK
<1>2. CASE summary = NoView
  BY <1>1, <1>2 DEF ReadSettles, PortfolioTypeOK, SummaryInv, LoadingIsUnderWay
<1>3. CASE summary # NoView
  <2>1. summary \in Summaries
    BY <1>3 DEF PortfolioTypeOK
  <2>2. Read(r, answer) \in States
    BY <1>1 DEF Read, AmountOf, Reads, States
  <2>3. /\ summary' \in Summaries /\ summary'.key = summary.key
        /\ summary'.effectOf = summary.effectOf /\ summary'.generation = summary.generation
        /\ summary'.state = IF IsLatest(r) THEN Read(r, answer) ELSE summary.state
        /\ summary'.inFlight = IF summary.inFlight = r.id THEN 0 ELSE summary.inFlight
    <3> DEFINE state == IF IsLatest(r) THEN Read(r, answer) ELSE summary.state
               inFlight == IF summary.inFlight = r.id THEN 0 ELSE summary.inFlight
    <3>1. state \in States /\ inFlight \in RequestIds \cup {0}
      BY <2>1, <2>2 DEF Summaries
    <3>2. summary' = [summary EXCEPT !.state = state, !.inFlight = inFlight]
      BY <1>3 DEF ReadSettles
    <3> HIDE DEF state, inFlight
    <3>3. /\ summary' \in Summaries /\ summary'.key = summary.key
          /\ summary'.effectOf = summary.effectOf /\ summary'.generation = summary.generation
          /\ summary'.state = state /\ summary'.inFlight = inFlight
      BY <2>1, <3>1, <3>2 DEF Summaries
    <3> QED BY <3>3 DEF state, inFlight
  <2>4. PortfolioTypeOK'
    BY <1>1, <2>3 DEF PortfolioTypeOK
  <2>5. CASE IsLatest(r)
    <3>1. summary'.state = Read(r, answer) /\ summary.effectOf # NoView
      BY <1>1, <1>3, <2>3, <2>5, ReadIds DEF SummaryInv, IsLatest, Reads
    <3>2. /\ summary'.state.key = r.key /\ summary'.state.key = summary'.key
          /\ ~summary'.state.loading
          /\ summary'.state.amount # NoView => summary'.state.amount \in Fits[r.key]
      BY <2>3, <2>5, <3>1 DEF Read, AmountOf, IsLatest
    <3>3. LoadingIsUnderWay'
      BY <3>2 DEF LoadingIsUnderWay, Visible
    <3> QED BY <2>3, <2>4, <3>1, <3>2, <3>3 DEF SummaryInv
  <2>6. CASE ~IsLatest(r)
    <3>1. summary'.state = summary.state
      BY <2>3, <2>6
    <3>2. LoadingIsUnderWay'
      BY <1>1, <1>3, <2>3, <2>6, <3>1 DEF SummaryInv, LoadingIsUnderWay, Visible, IsLatest
    <3> QED BY <1>3, <2>3, <2>4, <3>1, <3>2 DEF SummaryInv
  <2> QED BY <2>5, <2>6
<1> QED BY <1>2, <1>3

-----------------------------------------------------------------------------
(***************************************************************************)
(* Lemmas about the ceremonies.                                            *)
(***************************************************************************)

(* A ceremony that ends with a code after which another enrollment may     *)
(* begin worked on no passkey the API may have, if it enrolled at all.     *)
LEMMA EndsFacts ==
  ASSUME IdentityTypeOK, SubmissionsInv, ceremony # None, NEW code \in Codes, Ends(code),
         UNCHANGED <<made, apiVars>>,
         ceremony.verb = "enroll" /\ Relayed(code) \in {"listed", "unlisted"} =>
           ceremony.passkey \notin identities \cup enrolling
  PROVE  /\ IdentityTypeOK' /\ SubmissionsInv'
         /\ outcome' # None /\ ceremony' = None /\ enrolling' = enrolling /\ made' = made
         /\ outcome'.verb = ceremony.verb /\ outcome'.passkey = ceremony.passkey
<1>1. ceremony \in Ceremonies /\ ceremony.passkey \in made \cup {None}
  BY DEF IdentityTypeOK, SubmissionsInv
<1>2. UNCHANGED <<made, enrolling, identities>>
  BY DEF apiVars
<1>3. Relayed(code) \in Codes
  BY DEF Relayed, Codes
<1>4. /\ [verb |-> ceremony.verb, code |-> Relayed(code), passkey |-> ceremony.passkey] \in Outcomes
      /\ outcome' = [verb |-> ceremony.verb, code |-> Relayed(code), passkey |-> ceremony.passkey]
  BY <1>1, <1>3 DEF Ends, Outcomes, Ceremonies
<1>5. outcome' \in Outcomes /\ outcome'.verb = ceremony.verb /\ outcome'.passkey = ceremony.passkey
  BY <1>4
<1>6. outcome' # None
  BY <1>5, NoneIsNoRecord
<1>7. ceremony' = None /\ ceremonyInProgress' = FALSE
  BY DEF Ends
<1>8. \/ excluded' = excluded
      \/ /\ ceremony.verb = "enroll" /\ Relayed(code) \in {"listed", "unlisted"}
         /\ excluded' = excluded \cup ({ceremony.passkey} \ {None})
  BY DEF Ends
<1>9. IdentityTypeOK'
  BY <1>1, <1>2, <1>5, <1>7, <1>8 DEF IdentityTypeOK
<1>10. SubmissionsInv'
  BY <1>2, <1>7, <1>8 DEF SubmissionsInv, DefiniteFailureEnrolledNothing
<1> QED BY <1>2, <1>5, <1>6, <1>7, <1>9, <1>10

(* A ceremony that goes on, for the same passkey.                          *)
LEMMA GoesOnFacts ==
  ASSUME IdentityTypeOK, SubmissionsInv, ceremony # None,
         NEW next \in Ceremonies, GoesOn(next), next.verb = ceremony.verb
  PROVE  /\ ceremony' = next /\ ceremony' # None /\ outcome' = None
         /\ UNCHANGED <<ceremonyInProgress, excluded>>
BY NoneIsNoRecord DEF GoesOn

(* The ceremony that submits or asserts a passkey.                         *)
LEMMA PasskeyPlaced ==
  ASSUME ceremony \in Ceremonies, NEW p \in Passkeys,
         GoesOn([ceremony EXCEPT !.at = "answer", !.passkey = p])
  PROVE  \E next \in Ceremonies :
           /\ GoesOn(next)
           /\ next.at = "answer" /\ next.verb = ceremony.verb /\ next.passkey = p
           /\ next.reply = ceremony.reply
<1> DEFINE placed == [ceremony EXCEPT !.at = "answer", !.passkey = p]
<1>1. /\ placed \in Ceremonies /\ placed.at = "answer" /\ placed.verb = ceremony.verb
      /\ placed.passkey = p /\ placed.reply = ceremony.reply
  BY DEF Ceremonies
<1>2. GoesOn(placed)
  OBVIOUS
<1> HIDE DEF placed
<1> QED BY <1>1, <1>2

(* What a step of a ceremony leaves for the control to see: it goes on,    *)
(* submits the passkey just made, or ends.                                 *)
CeremonyGoesOn ==
  /\ outcome' = None /\ ceremony' # None /\ ceremony'.verb = ceremony.verb
  /\ UNCHANGED ceremonyInProgress
  /\ \/ enrolling' = enrolling /\ (ceremony.verb = "enroll" => ceremony'.passkey = ceremony.passkey)
     \/ /\ ceremony.verb = "enroll" /\ ceremony.passkey = None
        /\ ceremony'.passkey # None /\ enrolling' = enrolling \cup {ceremony'.passkey}

CeremonyEnds ==
  /\ outcome' # None /\ ceremony' = None /\ enrolling' = enrolling
  /\ outcome'.verb = ceremony.verb /\ outcome'.passkey = ceremony.passkey

LEMMA CeremonyMovesFacts ==
  ASSUME IdentityTypeOK, SubmissionsInv, CeremonyMoves
  PROVE  /\ IdentityTypeOK' /\ SubmissionsInv'
         /\ ceremony # None /\ made \subseteq made' /\ enrolling' \subseteq made'
         /\ CeremonyGoesOn \/ CeremonyEnds
<1> DEFINE Goal == /\ IdentityTypeOK' /\ SubmissionsInv'
                   /\ ceremony # None /\ made \subseteq made' /\ enrolling' \subseteq made'
                   /\ CeremonyGoesOn \/ CeremonyEnds
<1>1. ceremony # None
  BY DEF CeremonyMoves, ChallengeAnswered, PasskeyRefused, PasskeyMade, PasskeyChosen,
         EnrollmentAnswered, EnrollmentUnanswered, LoginAnswered, WindowGone
<1>2. /\ ceremony \in Ceremonies
      /\ ceremony.at \in {"challenge", "passkey"} => ceremony.passkey = None
      /\ ceremony.reply # None => ceremony.at = "answer" /\ ceremony.verb = "enroll"
      /\ ceremony.reply = "refused" => ceremony.passkey \notin identities \cup enrolling
      /\ ceremony.passkey \in made \cup {None}
  BY <1>1 DEF IdentityTypeOK, SubmissionsInv
<1>3. None \notin identities \cup enrolling
  BY NoneIsNoPasskey DEF IdentityTypeOK
<1>4. ASSUME NEW code \in Codes, Ends(code), UNCHANGED <<made, apiVars>>,
             \/ ceremony.verb = "signin" \/ ceremony.passkey = None
             \/ code \notin {"listed", "unlisted"}
             \/ code = "unlisted" /\ ceremony.hosted
             \/ ceremony.reply = "refused"
      PROVE  Goal
  <2>1. ceremony.verb = "enroll" /\ Relayed(code) \in {"listed", "unlisted"} =>
          ceremony.passkey \notin identities \cup enrolling
    BY <1>2, <1>3, <1>4 DEF Relayed, Codes
  <2>2. CeremonyEnds /\ IdentityTypeOK' /\ SubmissionsInv' /\ made' = made
    BY <1>1, <1>4, <2>1, EndsFacts DEF CeremonyEnds
  <2> QED BY <1>1, <2>2 DEF IdentityTypeOK
<1>5. CASE ChallengeAnswered
  <2>1. ceremony.at = "challenge" /\ UNCHANGED <<made, apiVars>>
    BY <1>5 DEF ChallengeAnswered
  <2>2. CASE GoesOn([ceremony EXCEPT !.at = "passkey"])
    <3>1. PICK next \in Ceremonies :
            /\ next = [ceremony EXCEPT !.at = "passkey"]
            /\ next.at = "passkey" /\ next.verb = ceremony.verb
            /\ next.passkey = ceremony.passkey /\ next.reply = ceremony.reply
      <4>1. /\ [ceremony EXCEPT !.at = "passkey"] \in Ceremonies
            /\ [ceremony EXCEPT !.at = "passkey"].at = "passkey"
            /\ [ceremony EXCEPT !.at = "passkey"].verb = ceremony.verb
            /\ [ceremony EXCEPT !.at = "passkey"].passkey = ceremony.passkey
            /\ [ceremony EXCEPT !.at = "passkey"].reply = ceremony.reply
        BY <1>2 DEF Ceremonies
      <4> QED BY <4>1
    <3>2. /\ ceremony' = next /\ ceremony' # None /\ outcome' = None
          /\ UNCHANGED <<ceremonyInProgress, excluded, made, enrolling, identities>>
      BY <1>1, <2>1, <2>2, <3>1, GoesOnFacts DEF apiVars
    <3> QED BY <1>1, <1>2, <2>1, <3>1, <3>2
            DEF IdentityTypeOK, SubmissionsInv, DefiniteFailureEnrolledNothing, CeremonyGoesOn
  <2>3. CASE \E code \in {"listed", "unlisted"} : Ends(code)
    BY <1>2, <1>4, <2>1, <2>3 DEF Codes
  <2> QED BY <1>5, <2>2, <2>3 DEF ChallengeAnswered
<1>6. ASSUME NEW p \in Passkeys, PasskeyMade(p) PROVE Goal
  <2>1. /\ ceremony.at = "passkey" /\ ceremony.verb = "enroll" /\ p \notin made
        /\ made' = made \cup {p} /\ enrolling' = enrolling \cup {p} /\ identities' = identities
        /\ GoesOn([ceremony EXCEPT !.at = "answer", !.passkey = p])
    BY <1>6 DEF PasskeyMade
  <2>2. PICK next \in Ceremonies :
          /\ GoesOn(next)
          /\ next.at = "answer" /\ next.verb = ceremony.verb /\ next.passkey = p
          /\ next.reply = ceremony.reply
    BY <1>2, <2>1, PasskeyPlaced
  <2>3. /\ ceremony' = next /\ ceremony' # None /\ outcome' = None
        /\ UNCHANGED <<ceremonyInProgress, excluded>>
    BY <1>1, <2>1, <2>2, GoesOnFacts
  <2>4. ceremony.passkey = None /\ ceremony.reply = None /\ p # None
    BY <1>2, <2>1, NoneIsNoPasskey
  <2>5. IdentityTypeOK'
    BY <2>1, <2>2, <2>3 DEF IdentityTypeOK
  <2>6. "refused" # ceremony'.reply
    BY <2>2, <2>3, <2>4, NoneIsNoReply DEF Replies
  <2>7. SubmissionsInv'
    BY <2>1, <2>2, <2>3, <2>4, <2>6
    DEF IdentityTypeOK, SubmissionsInv, DefiniteFailureEnrolledNothing
  <2> QED BY <1>1, <2>1, <2>2, <2>3, <2>4, <2>5, <2>7 DEF IdentityTypeOK, CeremonyGoesOn
<1>7. ASSUME NEW p \in Passkeys, PasskeyChosen(p) PROVE Goal
  <2>1. /\ ceremony.at = "passkey" /\ ceremony.verb = "signin" /\ p \in made
        /\ UNCHANGED <<made, enrolling, identities>>
        /\ GoesOn([ceremony EXCEPT !.at = "answer", !.passkey = p])
    BY <1>7 DEF PasskeyChosen, apiVars
  <2>2. PICK next \in Ceremonies :
          /\ GoesOn(next)
          /\ next.at = "answer" /\ next.verb = ceremony.verb /\ next.passkey = p
          /\ next.reply = ceremony.reply
    BY <1>2, <2>1, PasskeyPlaced
  <2>3. /\ ceremony' = next /\ ceremony' # None /\ outcome' = None
        /\ UNCHANGED <<ceremonyInProgress, excluded>>
    BY <1>1, <2>1, <2>2, GoesOnFacts
  <2>4. ceremony'.reply = None
    BY <1>2, <2>1, <2>2, <2>3
  <2>5. IdentityTypeOK' /\ CeremonyGoesOn
    BY <2>1, <2>2, <2>3 DEF IdentityTypeOK, CeremonyGoesOn
  <2>6. SubmissionsInv'
    <3>1. None # "refused"
      BY NoneIsNoReply DEF Replies
    <3> QED BY <2>1, <2>2, <2>3, <2>4, <3>1
            DEF SubmissionsInv, DefiniteFailureEnrolledNothing
  <2> QED BY <1>1, <2>1, <2>5, <2>6 DEF IdentityTypeOK
<1>8. CASE PasskeyRefused
  BY <1>2, <1>4, <1>8 DEF PasskeyRefused, Codes
<1>9. CASE EnrollmentAnswered
  <2>1. /\ ceremony.reply # None /\ UNCHANGED <<made, apiVars>> /\ ceremony.reply \in Replies
    BY <1>2, <1>9 DEF EnrollmentAnswered, Ceremonies
  <2>2. CASE Ends(EnrollCode(ceremony.reply))
    <3>1. /\ EnrollCode(ceremony.reply) \in Codes
          /\ EnrollCode(ceremony.reply) \in {"listed", "unlisted"} => ceremony.reply = "refused"
      BY <2>1 DEF EnrollCode, Replies, Codes
    <3> QED BY <1>4, <2>1, <2>2, <3>1
  <2>3. CASE Ends("uncertain")
    BY <1>4, <2>1, <2>3 DEF Codes
  <2> QED BY <1>9, <2>2, <2>3 DEF EnrollmentAnswered
<1>10. CASE EnrollmentUnanswered
  BY <1>4, <1>10 DEF EnrollmentUnanswered, Codes
<1>11. CASE LoginAnswered
  BY <1>4, <1>11 DEF LoginAnswered, Codes
<1>12. CASE WindowGone
  BY <1>2, <1>4, <1>12 DEF WindowGone, Codes
<1> QED BY <1>5, <1>6, <1>7, <1>8, <1>9, <1>10, <1>11, <1>12 DEF CeremonyMoves

(* The API processes a submission, for someone or for no one.              *)
LEMMA EnrollmentArrivesFacts ==
  ASSUME IdentityTypeOK, SubmissionsInv, NEW p \in Passkeys, EnrollmentArrives(p)
  PROVE  /\ IdentityTypeOK' /\ SubmissionsInv'
         /\ ceremonyInProgress' = ceremonyInProgress /\ made' = made
         /\ \/ ceremony' = ceremony
            \/ /\ ceremony # None /\ ceremony' # None /\ ceremony'.verb = ceremony.verb
               /\ ceremony'.passkey = ceremony.passkey
<1>1. PICK reply \in Replies :
        /\ \/ reply \in {"accepted", "error"} /\ identities' = identities \cup {p}
           \/ reply # "accepted" /\ identities' = identities
        /\ ceremony' = IF ceremony # None /\ ceremony.passkey = p /\ ceremony.verb = "enroll"
                         THEN [ceremony EXCEPT !.reply = reply] ELSE ceremony
  BY DEF EnrollmentArrives
<1>2. /\ p \in enrolling /\ p \in made /\ p \notin identities
      /\ enrolling' = enrolling \ {p} /\ outcome' = None
      /\ UNCHANGED <<ceremonyInProgress, made, excluded>>
  BY DEF EnrollmentArrives, IdentityTypeOK, SubmissionsInv
<1>3. /\ identities' \subseteq identities \cup {p} /\ identities \subseteq identities'
      /\ reply = "refused" => identities' = identities
  BY <1>1
<1>4. /\ enrolling' \cap identities' = {} /\ DefiniteFailureEnrolledNothing'
  BY <1>2, <1>3 DEF SubmissionsInv, DefiniteFailureEnrolledNothing
<1>5. CASE ceremony # None /\ ceremony.passkey = p /\ ceremony.verb = "enroll"
  <2>1. PICK next \in Ceremonies :
          /\ ceremony' = next
          /\ next.verb = ceremony.verb /\ next.passkey = p /\ next.at = ceremony.at
          /\ next.reply = reply
    <3> DEFINE answered == [ceremony EXCEPT !.reply = reply]
    <3>1. /\ answered \in Ceremonies /\ answered.verb = ceremony.verb /\ answered.passkey = p
          /\ answered.at = ceremony.at /\ answered.reply = reply
      BY <1>5 DEF IdentityTypeOK, Ceremonies
    <3>2. ceremony' = answered
      BY <1>1, <1>5
    <3> HIDE DEF answered
    <3> QED BY <3>1, <3>2
  <2>2. ceremony.at = "answer"
    BY <1>2, <1>5, NoneIsNoPasskey DEF IdentityTypeOK, SubmissionsInv, Ceremonies
  <2>3. ceremony' # None
    BY <2>1, NoneIsNoRecord
  <2>4. IdentityTypeOK'
    BY <1>2, <1>3, <2>1 DEF IdentityTypeOK
  <2>5. SubmissionsInv'
    BY <1>2, <1>3, <1>4, <1>5, <2>1, <2>2 DEF SubmissionsInv
  <2> QED BY <1>2, <1>5, <2>1, <2>3, <2>4, <2>5
<1>6. CASE ~(ceremony # None /\ ceremony.passkey = p /\ ceremony.verb = "enroll")
  <2>1. ceremony' = ceremony
    BY <1>1, <1>6
  <2>2. IdentityTypeOK'
    BY <1>2, <1>3, <2>1 DEF IdentityTypeOK
  <2>3. ceremony # None /\ ceremony.reply = "refused" => ceremony.passkey \notin identities' \cup enrolling'
    <3> SUFFICES ASSUME ceremony # None, ceremony.reply = "refused"
                 PROVE  ceremony.passkey \notin identities' \cup enrolling'
      OBVIOUS
    <3>1. ceremony.verb = "enroll"
      BY NoneIsNoReply DEF SubmissionsInv, Replies
    <3> QED BY <1>2, <1>3, <1>6, <3>1 DEF SubmissionsInv
  <2>4. SubmissionsInv'
    BY <1>2, <1>4, <2>1, <2>3 DEF SubmissionsInv
  <2> QED BY <1>2, <2>1, <2>2, <2>4
<1> QED BY <1>5, <1>6

LEMMA BeginCeremonyFacts ==
  ASSUME IdentityTypeOK, SubmissionsInv, NEW verb \in Verbs, NEW hosted \in BOOLEAN,
         BeginCeremony(verb, hosted)
  PROVE  /\ IdentityTypeOK' /\ SubmissionsInv'
         /\ ceremonyInProgress' = TRUE /\ made' = made
         /\ ceremony' # None /\ ceremony'.verb = verb /\ ceremony'.passkey = None
<1>1. PICK next \in Ceremonies :
        /\ ceremony' = next
        /\ next.verb = verb /\ next.at = "challenge" /\ next.passkey = None /\ next.reply = None
  <2> DEFINE begun == [verb |-> verb, hosted |-> hosted, at |-> "challenge",
                       passkey |-> None, reply |-> None]
  <2>1. /\ begun \in Ceremonies /\ begun.verb = verb /\ begun.at = "challenge"
        /\ begun.passkey = None /\ begun.reply = None
    BY DEF Ceremonies
  <2>2. ceremony' = begun
    BY DEF BeginCeremony
  <2> HIDE DEF begun
  <2> QED BY <2>1, <2>2
<1>2. /\ ceremonyInProgress' = TRUE /\ outcome' = None
      /\ UNCHANGED <<made, enrolling, identities, excluded>>
  BY DEF BeginCeremony, apiVars
<1>3. ceremony' # None /\ "refused" # None
  BY <1>1, NoneIsNoRecord, NoneIsNoReply DEF Replies
<1>4. IdentityTypeOK'
  BY <1>1, <1>2 DEF IdentityTypeOK
<1>5. SubmissionsInv'
  BY <1>1, <1>2, <1>3 DEF SubmissionsInv, DefiniteFailureEnrolledNothing
<1> QED BY <1>1, <1>2, <1>3, <1>4, <1>5

(* The steps of the control that are no step of a ceremony.                *)
LEMMA QuietCeremony ==
  ASSUME IdentityTypeOK, SubmissionsInv,
         outcome' = None, UNCHANGED <<ceremonyInProgress, ceremony, made, apiVars, excluded>>
  PROVE  IdentityTypeOK' /\ SubmissionsInv'
BY DEF apiVars, IdentityTypeOK, SubmissionsInv, DefiniteFailureEnrolledNothing

LEMMA UnfinishedStays ==
  ASSUME UnfinishedInv, UNCHANGED <<ceremonyInProgress, ceremony, unfinished>>,
         credentialNeedsSignIn => credentialNeedsSignIn'
  PROVE  UnfinishedInv'
BY DEF UnfinishedInv, Enrolls

LEMMA SummaryStays ==
  ASSUME PortfolioTypeOK, SummaryInv, UNCHANGED portfolioVars
  PROVE  PortfolioTypeOK' /\ SummaryInv'
BY DEF portfolioVars, PortfolioTypeOK, SummaryInv, LoadingIsUnderWay, Visible, IsLatest

LEMMA ShowsKeeps ==
  ASSUME PortfolioTypeOK, SummaryInv, Shows, activeWallet' \in Views \cup {NoView}
  PROVE  PortfolioTypeOK' /\ SummaryInv'
<1>1. SummaryFor(activeWallet') \in Views \cup {NoView}
  BY DEF SummaryFor
<1> QED BY <1>1, RenderedKeeps DEF Shows

-----------------------------------------------------------------------------
(***************************************************************************)
(* The steps of the control.                                               *)
(***************************************************************************)

(* A step that concerns no ceremony and forgets no unfinished enrollment.  *)
LEMMA PanelStep ==
  ASSUME IInv, NoCeremonyStep, UNCHANGED <<credentialNeedsSignIn, unfinished>>,
         open' \in BOOLEAN, createOpen' \in BOOLEAN, samePanel' \in BOOLEAN,
         signedIn' \in BOOLEAN,
         pending' \in {None, "credential", "connect", "disconnect"},
         stage' \in {"connect", "checking", "ready"}, activeWallet' \in Views \cup {NoView},
         moves' \in 0 .. MaxMoves,
         Shows \/ UNCHANGED portfolioVars
  PROVE  IInv'
<1>1. /\ outcome' = None /\ UNCHANGED <<ceremonyInProgress, ceremony, made, apiVars, excluded>>
  BY DEF NoCeremonyStep
<1>2. IdentityTypeOK' /\ SubmissionsInv'
  BY <1>1, QuietCeremony DEF IInv, TypeOK
<1>3. UnfinishedInv'
  BY <1>1, UnfinishedStays DEF IInv
<1>4. PortfolioTypeOK' /\ SummaryInv'
  BY ShowsKeeps, SummaryStays DEF IInv, TypeOK
<1>5. TypeOK'
  BY <1>1, <1>2, <1>4 DEF IInv, TypeOK
<1> QED BY <1>2, <1>3, <1>4, <1>5 DEF IInv

LEMMA ClosePanelIInv == ASSUME IInv, ClosePanel PROVE IInv'
BY PanelStep DEF ClosePanel, Closed, connectionVars, IInv, TypeOK

LEMMA OpenPanelIInv == ASSUME IInv, OpenPanel PROVE IInv'
BY PanelStep DEF OpenPanel, connectionVars, IInv, TypeOK

LEMMA OpenCreationIInv == ASSUME IInv, OpenCreation PROVE IInv'
BY PanelStep DEF OpenCreation, connectionVars, IInv, TypeOK

LEMMA CloseCreationIInv == ASSUME IInv, CloseCreation PROVE IInv'
BY PanelStep DEF CloseCreation, connectionVars, IInv, TypeOK

LEMMA RunConnectionIInv ==
  ASSUME IInv, NEW action \in {"connect", "disconnect"}, RunConnection(action)
  PROVE  IInv'
BY PanelStep DEF RunConnection, connectionVars, IInv, TypeOK

LEMMA ConnectSettlesIInv == ASSUME IInv, ConnectSettles PROVE IInv'
BY PanelStep DEF ConnectSettles, Closed, connectionVars, IInv, TypeOK

LEMMA DisconnectSettlesIInv == ASSUME IInv, DisconnectSettles PROVE IInv'
BY PanelStep DEF DisconnectSettles, Closed, connectionVars, IInv, TypeOK

LEMMA ConnectionChangesIInv == ASSUME IInv, ConnectionChanges PROVE IInv'
<1>1. moves' \in 0 .. MaxMoves
  BY MaxMovesIsNatural DEF ConnectionChanges, IInv, TypeOK
<1> QED BY <1>1, PanelStep DEF ConnectionChanges, panelVars, IInv, TypeOK

LEMMA SignOutIInv == ASSUME IInv, SignOut PROVE IInv'
BY PanelStep DEF SignOut, Closed, connectionVars, IInv, TypeOK

LEMMA SummaryStepsIInv == ASSUME IInv, SummarySteps PROVE IInv'
<1>1. /\ NoCeremonyStep /\ UNCHANGED controlVars
      /\ outcome' = None /\ UNCHANGED <<ceremonyInProgress, ceremony, made, apiVars, excluded>>
      /\ UNCHANGED <<open, createOpen, credentialNeedsSignIn, pending, samePanel, signedIn,
                     stage, activeWallet, moves, unfinished>>
  BY DEF SummarySteps, NoCeremonyStep, controlVars, panelVars, connectionVars
<1>2. PortfolioTypeOK' /\ SummaryInv'
  BY EffectRunsKeeps, RefreshPressedKeeps, ReadSettlesKeeps DEF SummarySteps, IInv, TypeOK
<1>3. IdentityTypeOK' /\ SubmissionsInv'
  BY <1>1, QuietCeremony DEF IInv, TypeOK
<1>4. UnfinishedInv'
  BY <1>1, UnfinishedStays DEF IInv
<1>5. TypeOK'
  BY <1>1, <1>2, <1>3 DEF IInv, TypeOK
<1> QED BY <1>2, <1>3, <1>4, <1>5 DEF IInv

LEMMA ReloadIInv == ASSUME IInv, Reload PROVE IInv'
<1>1. /\ open' = FALSE /\ createOpen' = FALSE /\ credentialNeedsSignIn' = FALSE
      /\ pending' = None /\ samePanel' = FALSE /\ unfinished' = {}
      /\ ceremonyInProgress' = FALSE /\ ceremony' = None /\ outcome' = None
      /\ summary' = NoView /\ requests' = {}
      /\ UNCHANGED <<made, enrolling, identities, excluded, signedIn, stage, activeWallet, moves>>
  BY DEF Reload, apiVars, connectionVars
<1>2. TypeOK'
  BY <1>1 DEF IInv, TypeOK, IdentityTypeOK, PortfolioTypeOK
<1>3. SubmissionsInv' /\ UnfinishedInv'
  BY <1>1 DEF IInv, SubmissionsInv, DefiniteFailureEnrolledNothing, UnfinishedInv, Enrolls
<1>4. SummaryInv'
  BY <1>1 DEF SummaryInv, LoadingIsUnderWay
<1> QED BY <1>2, <1>3, <1>4 DEF IInv

(* An enrollment may begin only if none is unfinished.                     *)
LEMMA CreateIInv ==
  ASSUME IInv, NEW hosted \in BOOLEAN, Create(hosted)
  PROVE  IInv'
<1>1. /\ ~ceremonyInProgress /\ ~credentialNeedsSignIn /\ BeginCeremony("enroll", hosted)
      /\ UNCHANGED portfolioVars
      /\ UNCHANGED <<open, createOpen, credentialNeedsSignIn, pending, samePanel, signedIn,
                     stage, activeWallet, moves, unfinished>>
  BY DEF Create, Creating, CanCreate, BeginCeremony, controlVars, panelVars, connectionVars
<1>2. unfinished = {}
  BY <1>1 DEF IInv, UnfinishedInv, Enrolls
<1>3. /\ IdentityTypeOK' /\ SubmissionsInv' /\ ceremonyInProgress' = TRUE /\ made' = made
      /\ ceremony' # None /\ ceremony'.verb = "enroll"
  BY <1>1, BeginCeremonyFacts DEF Verbs, IInv, TypeOK
<1>4. UnfinishedInv'
  BY <1>1, <1>2, <1>3 DEF UnfinishedInv, Enrolls
<1>5. PortfolioTypeOK' /\ SummaryInv'
  BY <1>1, SummaryStays DEF IInv, TypeOK
<1>6. TypeOK'
  BY <1>1, <1>3, <1>5 DEF IInv, TypeOK
<1> QED BY <1>3, <1>4, <1>5, <1>6 DEF IInv

LEMMA SignInIInv ==
  ASSUME IInv, NEW hosted \in BOOLEAN, SignIn(hosted)
  PROVE  IInv'
<1>1. /\ ~ceremonyInProgress /\ BeginCeremony("signin", hosted)
      /\ UNCHANGED portfolioVars /\ pending' = "credential" /\ samePanel' = TRUE
      /\ UNCHANGED <<open, createOpen, credentialNeedsSignIn, signedIn,
                     stage, activeWallet, moves, unfinished>>
  BY DEF SignIn, BeginCeremony, connectionVars
<1>2. unfinished # {} => credentialNeedsSignIn
  BY <1>1 DEF IInv, UnfinishedInv, Enrolls
<1>3. /\ IdentityTypeOK' /\ SubmissionsInv' /\ ceremonyInProgress' = TRUE /\ made' = made
      /\ ceremony' # None /\ ceremony'.verb = "signin"
  BY <1>1, BeginCeremonyFacts DEF Verbs, IInv, TypeOK
<1>4. UnfinishedInv'
  BY <1>1, <1>2, <1>3 DEF IInv, UnfinishedInv, Enrolls
<1>5. PortfolioTypeOK' /\ SummaryInv'
  BY <1>1, SummaryStays DEF IInv, TypeOK
<1>6. TypeOK'
  BY <1>1, <1>3, <1>5 DEF IInv, TypeOK
<1> QED BY <1>3, <1>4, <1>5, <1>6 DEF IInv

LEMMA SubmissionArrivesIInv == ASSUME IInv, SubmissionArrives PROVE IInv'
<1>1. PICK p \in Passkeys : EnrollmentArrives(p)
  BY DEF SubmissionArrives
<1>2. /\ UNCHANGED portfolioVars
      /\ UNCHANGED <<open, createOpen, credentialNeedsSignIn, pending, samePanel, signedIn,
                     stage, activeWallet, moves, unfinished>>
  BY DEF SubmissionArrives, controlVars, panelVars, connectionVars
<1>3. /\ IdentityTypeOK' /\ SubmissionsInv'
      /\ ceremonyInProgress' = ceremonyInProgress /\ made' = made
      /\ \/ ceremony' = ceremony
         \/ /\ ceremony # None /\ ceremony' # None /\ ceremony'.verb = ceremony.verb
            /\ ceremony'.passkey = ceremony.passkey
  BY <1>1, EnrollmentArrivesFacts DEF IInv, TypeOK
<1>4. UnfinishedInv'
  BY <1>2, <1>3 DEF IInv, UnfinishedInv, Enrolls
<1>5. PortfolioTypeOK' /\ SummaryInv'
  BY <1>2, SummaryStays DEF IInv, TypeOK
<1>6. TypeOK'
  BY <1>2, <1>3, <1>5 DEF IInv, TypeOK
<1> QED BY <1>3, <1>4, <1>5, <1>6 DEF IInv

(* A step of a ceremony: an enrollment that may have been saved turns the  *)
(* control to sign-in when it ends.                                        *)
LEMMA CeremonyStepIInv == ASSUME IInv, CeremonyStep PROVE IInv'
<1>1. /\ IdentityTypeOK' /\ SubmissionsInv'
      /\ ceremony # None /\ made \subseteq made' /\ enrolling' \subseteq made'
      /\ CeremonyGoesOn \/ CeremonyEnds
  BY CeremonyMovesFacts DEF CeremonyStep, IInv, TypeOK
<1>2. UNCHANGED <<stage, activeWallet, moves>>
  BY DEF CeremonyStep, connectionVars
<1>3. CASE CeremonyGoesOn
  <2>1. /\ unfinished' = unfinished \cup (enrolling' \ enrolling)
        /\ UNCHANGED portfolioVars
        /\ UNCHANGED <<open, createOpen, credentialNeedsSignIn, pending, samePanel, signedIn>>
    BY <1>3 DEF CeremonyStep, CeremonyGoesOn, panelVars
  <2>2. PortfolioTypeOK' /\ SummaryInv'
    BY <2>1, SummaryStays DEF IInv, TypeOK
  <2>3. TypeOK'
    BY <1>1, <1>2, <2>1, <2>2 DEF IInv, TypeOK
  <2>4. UnfinishedInv'
    BY <1>1, <1>3, <2>1 DEF IInv, UnfinishedInv, Enrolls, CeremonyGoesOn
  <2> QED BY <1>1, <2>2, <2>3, <2>4 DEF IInv
<1>4. CASE CeremonyEnds
  <2>1. /\ IF outcome'.verb = "signin" THEN SignInFinished /\ pending' = None
                                       ELSE EnrollmentFinished /\ pending' = pending
        /\ Shows
    BY <1>4 DEF CeremonyStep, CeremonyEnds
  <2>2. PortfolioTypeOK' /\ SummaryInv'
    BY <1>2, <2>1, ShowsKeeps DEF IInv, TypeOK
  <2>3. /\ ceremony' = None /\ outcome'.verb = ceremony.verb /\ outcome'.passkey = ceremony.passkey
    BY <1>4 DEF CeremonyEnds
  <2>4. CASE ceremony.verb = "signin"
    <3>1. SignInFinished /\ pending' = None /\ ~Enrolls
      BY <2>1, <2>3, <2>4 DEF Enrolls
    <3>2. CASE /\ signedIn' = TRUE /\ unfinished' = {} /\ open' = FALSE /\ createOpen' = FALSE
               /\ samePanel' = FALSE /\ credentialNeedsSignIn' = FALSE
      <4>1. TypeOK'
        BY <1>1, <1>2, <2>2, <3>1, <3>2 DEF IInv, TypeOK
      <4>2. UnfinishedInv'
        BY <2>3, <3>2 DEF UnfinishedInv, Enrolls
      <4> QED BY <1>1, <2>2, <4>1, <4>2 DEF IInv
    <3>3. CASE UNCHANGED <<open, createOpen, samePanel, signedIn, credentialNeedsSignIn, unfinished>>
      <4>1. TypeOK'
        BY <1>1, <1>2, <2>2, <3>1, <3>3 DEF IInv, TypeOK
      <4>2. UnfinishedInv'
        BY <2>3, <3>1, <3>3 DEF IInv, UnfinishedInv, Enrolls
      <4> QED BY <1>1, <2>2, <4>1, <4>2 DEF IInv
    <3> QED BY <3>1, <3>2, <3>3 DEF SignInFinished, Accepted, Closed
  <2>5. CASE ceremony.verb # "signin"
    <3>1. EnrollmentFinished /\ pending' = pending /\ ceremony.verb = "enroll"
      BY <1>1, <2>1, <2>3, <2>5 DEF IInv, TypeOK, IdentityTypeOK, Ceremonies, Verbs
    <3>2. unfinished \subseteq {ceremony.passkey}
      BY <1>1, <3>1 DEF IInv, UnfinishedInv, Enrolls
    <3>3. CASE /\ signedIn' = TRUE /\ unfinished' = {} /\ open' = FALSE /\ createOpen' = FALSE
               /\ samePanel' = FALSE /\ credentialNeedsSignIn' = credentialNeedsSignIn
      <4>1. TypeOK'
        BY <1>1, <1>2, <2>2, <3>1, <3>3 DEF IInv, TypeOK
      <4>2. UnfinishedInv'
        BY <2>3, <3>3 DEF UnfinishedInv, Enrolls
      <4> QED BY <1>1, <2>2, <4>1, <4>2 DEF IInv
    <3>4. CASE /\ credentialNeedsSignIn' = TRUE /\ createOpen' = FALSE
               /\ UNCHANGED <<open, samePanel, signedIn, unfinished>>
      <4>1. TypeOK'
        BY <1>1, <1>2, <2>2, <3>1, <3>4 DEF IInv, TypeOK
      <4>2. UnfinishedInv'
        BY <2>3, <3>2, <3>4 DEF UnfinishedInv, Enrolls
      <4> QED BY <1>1, <2>2, <4>1, <4>2 DEF IInv
    <3>5. CASE /\ unfinished' = unfinished \ {outcome'.passkey}
               /\ UNCHANGED <<open, createOpen, samePanel, signedIn, credentialNeedsSignIn>>
      <4>1. unfinished' = {}
        BY <2>3, <3>2, <3>5
      <4>2. TypeOK'
        BY <1>1, <1>2, <2>2, <3>1, <3>5, <4>1 DEF IInv, TypeOK
      <4>3. UnfinishedInv'
        BY <2>3, <4>1 DEF UnfinishedInv, Enrolls
      <4> QED BY <1>1, <2>2, <4>2, <4>3 DEF IInv
    <3> QED BY <3>1, <3>3, <3>4, <3>5 DEF EnrollmentFinished, Accepted, Closed
  <2> QED BY <2>4, <2>5
<1> QED BY <1>1, <1>3, <1>4

-----------------------------------------------------------------------------
LEMMA InitIInv == ControlInit => IInv
<1> SUFFICES ASSUME ControlInit PROVE IInv
  OBVIOUS
<1>1. IdentityTypeOK /\ SubmissionsInv
  BY DEF ControlInit, IdentityInit, IdentityTypeOK, SubmissionsInv, DefiniteFailureEnrolledNothing
<1>2. PortfolioTypeOK /\ SummaryInv
  BY DEF ControlInit, PortfolioInit, PortfolioTypeOK, SummaryInv, LoadingIsUnderWay
<1>3. UnfinishedInv
  BY DEF ControlInit, IdentityInit, UnfinishedInv, Enrolls
<1>4. TypeOK
  <2>1. /\ open \in BOOLEAN /\ createOpen \in BOOLEAN /\ credentialNeedsSignIn \in BOOLEAN
        /\ samePanel \in BOOLEAN /\ signedIn \in BOOLEAN
    BY DEF ControlInit
  <2>2. unfinished \subseteq made
    BY DEF ControlInit
  <2>3. moves \in 0..MaxMoves
    BY MaxMovesIsNatural DEF ControlInit
  <2>4. pending = None /\ stage = "connect" /\ activeWallet = NoView
    BY DEF ControlInit
  <2> QED BY <1>1, <1>2, <2>1, <2>2, <2>3, <2>4 DEF TypeOK
<1> QED BY <1>1, <1>2, <1>3, <1>4 DEF IInv

LEMMA NextIInv == IInv /\ [ControlNext]_accountVars => IInv'
<1> SUFFICES ASSUME IInv, [ControlNext]_accountVars PROVE IInv'
  OBVIOUS
<1>1. CASE UNCHANGED accountVars
  <2>1. /\ UNCHANGED <<ceremonyInProgress, ceremony, outcome, made, enrolling, identities, excluded>>
        /\ UNCHANGED <<summary, requests>> /\ UNCHANGED portfolioVars
        /\ UNCHANGED <<open, createOpen, credentialNeedsSignIn, pending, samePanel, signedIn,
                       stage, activeWallet, moves, unfinished>>
    BY <1>1 DEF accountVars, identityVars, apiVars, portfolioVars, controlVars, panelVars,
                connectionVars
  <2>2. TypeOK'
    BY <2>1 DEF IInv, TypeOK, IdentityTypeOK, PortfolioTypeOK
  <2>3. SubmissionsInv' /\ UnfinishedInv' /\ SummaryInv'
    BY <2>1, SummaryStays, UnfinishedStays
    DEF IInv, TypeOK, SubmissionsInv, DefiniteFailureEnrolledNothing
  <2> QED BY <2>2, <2>3 DEF IInv
<1> QED BY <1>1, ClosePanelIInv, OpenPanelIInv, OpenCreationIInv, CloseCreationIInv, CreateIInv,
           SignInIInv, CeremonyStepIInv, SubmissionArrivesIInv, RunConnectionIInv,
           ConnectSettlesIInv, DisconnectSettlesIInv, ConnectionChangesIInv, SignOutIInv,
           ReloadIInv, SummaryStepsIInv
        DEF ControlNext

LEMMA IInvHolds == ControlSpec => []IInv
BY InitIInv, NextIInv, PTL DEF ControlSpec

-----------------------------------------------------------------------------
(***************************************************************************)
(* The theorems.                                                           *)
(***************************************************************************)

(* Every variable of the control, its ceremonies and its summary keeps its *)
(* type.                                                                   *)
THEOREM TypeCorrect == ControlSpec => []TypeOK
BY IInvHolds, PTL DEF IInv

(* When enrollAccountIdentity() fails with a code other than "uncertain"   *)
(* or "exists", the API does not hold the passkey and never will.          *)
THEOREM FailuresAreDefinite == ControlSpec => []DefiniteFailureEnrolledNothing
<1>1. IInv => DefiniteFailureEnrolledNothing
  BY DEF IInv, SubmissionsInv
<1> QED BY <1>1, IInvHolds, PTL

(* Within a life of the page the control leaves at most one enrollment     *)
(* unfinished, whichever panels are opened and closed.                     *)
THEOREM EnrollmentsDoNotPileUp == ControlSpec => []OneUnfinishedEnrollment
<1>1. IInv => OneUnfinishedEnrollment
  <2> SUFFICES ASSUME IInv PROVE Cardinality(unfinished) <= 1
    BY DEF OneUnfinishedEnrollment
  <2>1. CASE unfinished = {}
    BY <2>1, FS_EmptySet
  <2>2. CASE unfinished # {}
    <3>1. PICK p : unfinished = {p}
      BY <2>2 DEF IInv, UnfinishedInv
    <3> QED BY <3>1, FS_Singleton
  <2> QED BY <2>1, <2>2
<1> QED BY <1>1, IInvHolds, PTL

(* The amount useAccountPortfolio shows is always one that fits the vault  *)
(* and address of the Wallet on the screen.                                *)
THEOREM PortfoliosAreCurrent == ControlSpec => []ShownPortfolioIsCurrent
<1>1. IInv => ShownPortfolioIsCurrent
  BY DEF IInv, SummaryInv, ShownPortfolioIsCurrent, Visible, Unread
<1> QED BY <1>1, IInvHolds, PTL

(* A summary that says loading has an effect to run or a read under way    *)
(* whose answer will be written.                                           *)
THEOREM LoadingHasAReason == ControlSpec => []LoadingIsUnderWay
<1>1. IInv => LoadingIsUnderWay
  BY DEF IInv, SummaryInv
<1> QED BY <1>1, IInvHolds, PTL

(* The answer to a sign-in whose panel was dismissed signs no one in, also *)
(* if the panel is open again.                                             *)
THEOREM DismissalHolds == ControlSpec => DismissedSignInStaysOut
<1> DEFINE StaysOut == ceremony # None /\ ceremony.verb = "signin" /\ ~samePanel /\ signedIn' => signedIn
<1>1. IInv /\ [ControlNext]_accountVars => [StaysOut]_accountVars
  <2> SUFFICES ASSUME IInv, ControlNext, ceremony # None, ceremony.verb = "signin", ~samePanel,
                      signedIn'
               PROVE  signedIn
    OBVIOUS
  <2>1. ASSUME CeremonyStep PROVE signedIn
    <3>1. CeremonyGoesOn \/ CeremonyEnds
      BY <2>1, CeremonyMovesFacts DEF CeremonyStep, IInv, TypeOK
    <3>2. CASE CeremonyGoesOn
      BY <2>1, <3>2 DEF CeremonyStep, CeremonyGoesOn
    <3>3. CASE CeremonyEnds
      <4>1. SignInFinished
        BY <2>1, <3>3 DEF CeremonyStep, CeremonyEnds
      <4> QED BY <4>1 DEF SignInFinished
    <3> QED BY <3>1, <3>2, <3>3
  <2> QED BY <2>1 DEF ControlNext, ClosePanel, OpenPanel, OpenCreation, CloseCreation, Create,
                      SignIn, SubmissionArrives, RunConnection, ConnectSettles, DisconnectSettles,
                      ConnectionChanges, SignOut, Reload, SummarySteps, controlVars
<1> QED BY <1>1, IInvHolds, PTL DEF ControlSpec, DismissedSignInStaysOut
=============================================================================
