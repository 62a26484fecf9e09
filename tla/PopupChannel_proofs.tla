------------------------- MODULE PopupChannel_proofs -------------------------
(***************************************************************************)
(* Proofs about the ceremony popup, for any requests of every operation,   *)
(* any number of messages on their way and any number of reloads.          *)
(***************************************************************************)
EXTENDS PopupChannel, SequenceTheorems, TLAPS

(***************************************************************************)
(* The inductive invariant.                                                *)
(***************************************************************************)

(* What the opener knows of one ceremony.  Its request has left if it was  *)
(* due: bytes to sign as soon as the page had greeted, recovery options    *)
(* when they were posted.  Options wait as "ready" only for the greeting.  *)
RequestOK(r) ==
  /\ promise[r] = "idle" => r \notin handshake /\ recovery[r] = "none"
  /\ IsOpen(r) => popup[r] \in Requests
  /\ r \notin Recover => recovery[r] = "none"
  /\ recovery[r] = "ready" => r \notin handshake
  /\ recovery[r] = "sent" => r \in handshake
  /\ r \in Recover => (IsOpen(r) => recovery[r] # "none")
  /\ r \in Recover => posted[r] = IF recovery[r] = "sent" THEN 1 ELSE 0
  /\ r \in Sign => posted[r] = IF r \in handshake THEN 1 ELSE 0

RequestsInv == \A r \in Requests : RequestOK(r)

(* The window's page is an open ceremony's, or of one that could not close *)
(* it, and that ceremony holds the window, so that its end tries to close  *)
(* it.                                                                     *)
WindowInv ==
  window # None =>
    /\ IsOpen(window.request) \/ window.request \in unclosed
    /\ popup[window.request] = window.creator

IInv == TypeOK /\ RequestsInv /\ WindowInv /\ AnswerIsOwn

-----------------------------------------------------------------------------
(***************************************************************************)
(* Lemmas about the steps.                                                 *)
(***************************************************************************)

(* finish() settles one promise.  It closes the window if its page is of   *)
(* that ceremony, and perhaps if it is not; or it remembers that it could  *)
(* not.                                                                    *)
LEMMA FinishFacts ==
  ASSUME IInv, NEW r \in Requests,
         Finish(r, "resolved", r) \/ Finish(r, "rejected", None),
         UNCHANGED popup
  PROVE  /\ promise' \in [Requests -> {"idle", "open", "resolved", "rejected"}]
         /\ answer' \in [Requests -> Requests \cup {None}]
         /\ window' = window \/ window' = None
         /\ unclosed' \subseteq Requests
         /\ promise'[r] \in {"resolved", "rejected"}
         /\ \A q \in Requests \ {r} : promise'[q] = promise[q]
         /\ WindowInv' /\ AnswerIsOwn'
<1>1. /\ promise' \in [Requests -> {"idle", "open", "resolved", "rejected"}]
      /\ answer' \in [Requests -> Requests \cup {None}]
      /\ promise'[r] \in {"resolved", "rejected"} /\ answer'[r] \in {r, None}
      /\ promise'[r] = "resolved" => answer'[r] = r
      /\ \A q \in Requests \ {r} : promise'[q] = promise[q] /\ answer'[q] = answer[q]
      /\ \/ /\ window' = IF Holds(r) THEN None ELSE window
            /\ unclosed' = unclosed
         \/ /\ window' = window
            /\ unclosed' = unclosed \cup {r}
      /\ unclosed' \subseteq Requests
  <2>1. CASE Finish(r, "resolved", r)
    BY <2>1 DEF Finish, IInv, TypeOK
  <2>2. CASE Finish(r, "rejected", None)
    BY <2>2 DEF Finish, IInv, TypeOK
  <2> QED BY <2>1, <2>2
<1>2. WindowInv'
  <2>1. CASE window' # None
    <3>1. /\ window' = window /\ window.request \in Requests
          /\ IsOpen(window.request) \/ window.request \in unclosed
          /\ popup[window.request] = window.creator
          /\ unclosed \subseteq unclosed'
      BY <1>1, <2>1 DEF IInv, TypeOK, WindowInv
    <3>2. window.request = r => r \in unclosed'
      BY <1>1, <2>1, <3>1 DEF Holds
    <3>3. window.request # r /\ IsOpen(window.request) => IsOpen(window.request)'
      BY <1>1, <3>1 DEF IsOpen
    <3> QED BY <3>1, <3>2, <3>3 DEF WindowInv, IsOpen
  <2> QED BY <2>1 DEF WindowInv
<1>3. AnswerIsOwn'
  BY <1>1 DEF IInv, AnswerIsOwn
<1> QED BY <1>1, <1>2, <1>3

(* What is left of the invariant when a ceremony is settled.               *)
LEMMA SettledKeepsIInv ==
  ASSUME IInv, NEW r \in Requests,
         Finish(r, "resolved", r) \/ Finish(r, "rejected", None),
         IsOpen(r),
         recovery' \in [Requests -> {"none", "loading", "ready", "sent"}],
         \A q \in Requests \ {r} : recovery'[q] = recovery[q],
         recovery'[r] = recovery[r] \/ (recovery[r] = "loading" /\ recovery'[r] = "none"),
         toOpener' \in Seq(Messages({"hello", "ok", "error"})),
         toPage' \in Seq(Messages({"ack", "request"})),
         UNCHANGED <<popup, handshake, posted, reloads>>
  PROVE  IInv'
<1>1. /\ promise' \in [Requests -> {"idle", "open", "resolved", "rejected"}]
      /\ answer' \in [Requests -> Requests \cup {None}]
      /\ window' = window \/ window' = None
      /\ unclosed' \subseteq Requests
      /\ promise'[r] \in {"resolved", "rejected"}
      /\ \A q \in Requests \ {r} : promise'[q] = promise[q]
      /\ WindowInv' /\ AnswerIsOwn'
  BY FinishFacts
<1>2. TypeOK'
  BY <1>1 DEF IInv, TypeOK
<1>3. RequestsInv'
  <2> SUFFICES ASSUME NEW q \in Requests PROVE RequestOK(q)'
    BY DEF RequestsInv
  <2>1. RequestOK(q)
    BY DEF IInv, RequestsInv
  <2>2. CASE q = r
    BY <1>1, <2>1, <2>2 DEF RequestOK, IsOpen
  <2>3. CASE q # r
    BY <1>1, <2>1, <2>3 DEF RequestOK, IsOpen
  <2> QED BY <2>2, <2>3
<1> QED BY <1>1, <1>2, <1>3 DEF IInv

LEMMA RejectedKeepsIInv ==
  ASSUME IInv, NEW r \in Requests, Finish(r, "rejected", None), IsOpen(r),
         toOpener' \in Seq(Messages({"hello", "ok", "error"})),
         toPage' \in Seq(Messages({"ack", "request"})),
         UNCHANGED <<popup, handshake, recovery, posted, reloads>>
  PROVE  IInv'
<1>1. /\ recovery' \in [Requests -> {"none", "loading", "ready", "sent"}]
      /\ \A q \in Requests : recovery'[q] = recovery[q]
  BY DEF IInv, TypeOK
<1> QED BY <1>1, SettledKeepsIInv

(* Steps that change no ceremony.                                          *)
LEMMA CeremoniesRest ==
  ASSUME IInv, UNCHANGED openerVars,
         window' \in {None} \cup [creator : Requests, request : Requests,
                                  at : {"loading", "greeted", "acked", "asked", "answered"}],
         WindowInv',
         toOpener' \in Seq(Messages({"hello", "ok", "error"})),
         toPage' \in Seq(Messages({"ack", "request"})),
         reloads' \in 0 .. MaxReloads
  PROVE  IInv'
<1>1. UNCHANGED <<promise, answer, popup, handshake, recovery, unclosed, posted>>
  BY DEF openerVars
<1>2. TypeOK'
  BY <1>1 DEF IInv, TypeOK
<1>3. RequestsInv' /\ AnswerIsOwn'
  BY <1>1 DEF IInv, RequestsInv, RequestOK, IsOpen, AnswerIsOwn
<1> QED BY <1>2, <1>3 DEF IInv

(* What the opener posts to the page is a sequence of messages.            *)
LEMMA ToPageType ==
  ASSUME IInv, NEW r \in Requests, NEW kinds \in Seq({"ack", "request"}), ToPage(r, kinds),
         kinds # <<>> => popup[r] \in Requests
  PROVE  toPage' \in Seq(Messages({"ack", "request"}))
<1> DEFINE new == [i \in 1 .. Len(kinds) |->
                     [creator |-> popup[r], request |-> r, kind |-> kinds[i]]]
<1>1. /\ Len(kinds) \in Nat
      /\ \A i \in 1 .. Len(kinds) : kinds[i] \in {"ack", "request"}
  BY LenProperties, ElementOfSeq
<1>2. \A i \in 1 .. Len(kinds) :
        [creator |-> popup[r], request |-> r, kind |-> kinds[i]] \in Messages({"ack", "request"})
  BY <1>1, Len(<<>>) = 0 DEF Messages
<1>3. new \in Seq(Messages({"ack", "request"}))
  BY <1>1, <1>2
<1>4. toPage' = toPage \o new
  BY DEF ToPage
<1> HIDE DEF new
<1> QED BY <1>3, <1>4, ConcatProperties DEF IInv, TypeOK

-----------------------------------------------------------------------------
(***************************************************************************)
(* The opener's steps.                                                     *)
(***************************************************************************)
LEMMA OpenIInv ==
  ASSUME IInv, NEW r \in Requests, Open(r)
  PROVE  IInv'
<1>1. /\ promise[r] = "idle" /\ RequestOK(r)
      /\ UNCHANGED <<answer, handshake, unclosed, toOpener, toPage, posted, reloads>>
  BY DEF Open, IInv, RequestsInv
<1>2. CASE /\ promise' = [promise EXCEPT ![r] = "rejected"]
           /\ UNCHANGED <<popup, window, recovery>>
  <2>1. /\ promise' \in [Requests -> {"idle", "open", "resolved", "rejected"}]
        /\ promise'[r] = "rejected"
        /\ \A q \in Requests \ {r} : promise'[q] = promise[q]
    BY <1>2 DEF IInv, TypeOK
  <2>2. TypeOK' /\ AnswerIsOwn'
    BY <1>1, <1>2, <2>1 DEF IInv, TypeOK, AnswerIsOwn
  <2>3. RequestsInv'
    BY <1>1, <1>2, <2>1 DEF IInv, RequestsInv, RequestOK, IsOpen
  <2>4. WindowInv'
    BY <1>1, <1>2, <2>1 DEF IInv, TypeOK, WindowInv, IsOpen
  <2> QED BY <2>2, <2>3, <2>4 DEF IInv
<1>3. ASSUME NEW creator, creator = (IF window = None THEN r ELSE window.creator),
             promise' = [promise EXCEPT ![r] = "open"],
             popup' = [popup EXCEPT ![r] = creator],
             window' = [creator |-> creator, request |-> r, at |-> "loading"],
             recovery' = [recovery EXCEPT ![r] = IF r \in Recover THEN "loading" ELSE @]
      PROVE  IInv'
  <2>1. creator \in Requests
    BY <1>3 DEF IInv, TypeOK
  <2>2. /\ promise' \in [Requests -> {"idle", "open", "resolved", "rejected"}]
        /\ popup' \in [Requests -> Requests \cup {None}]
        /\ recovery' \in [Requests -> {"none", "loading", "ready", "sent"}]
        /\ promise'[r] = "open" /\ popup'[r] = creator
        /\ recovery'[r] = IF r \in Recover THEN "loading" ELSE recovery[r]
        /\ \A q \in Requests \ {r} : /\ promise'[q] = promise[q] /\ popup'[q] = popup[q]
                                     /\ recovery'[q] = recovery[q]
    BY <1>3, <2>1 DEF IInv, TypeOK
  <2>3. TypeOK' /\ AnswerIsOwn'
    BY <1>1, <1>3, <2>1, <2>2 DEF IInv, TypeOK, AnswerIsOwn
  <2>4. RequestsInv'
    <3> SUFFICES ASSUME NEW q \in Requests PROVE RequestOK(q)'
      BY DEF RequestsInv
    <3>1. CASE q = r
      BY <1>1, <2>1, <2>2, <3>1 DEF RequestOK, IsOpen
    <3>2. CASE q # r
      BY <1>1, <2>2, <3>2 DEF IInv, RequestsInv, RequestOK, IsOpen
    <3> QED BY <3>1, <3>2
  <2>5. WindowInv'
    BY <1>3, <2>2 DEF WindowInv, IsOpen
  <2> QED BY <2>3, <2>4, <2>5 DEF IInv
<1> QED BY <1>2, <1>3 DEF Open

LEMMA OptionsArriveIInv ==
  ASSUME IInv, NEW r \in Requests, OptionsArrive(r)
  PROVE  IInv'
<1> DEFINE goes == IsOpen(r) /\ r \in handshake
<1>1. /\ recovery[r] = "loading"
      /\ recovery' = [recovery EXCEPT ![r] = IF ~IsOpen(r) THEN "none"
                                             ELSE IF goes THEN "sent" ELSE "ready"]
      /\ posted' = [posted EXCEPT ![r] = IF goes THEN @ + 1 ELSE @]
      /\ ToPage(r, IF goes THEN <<"request">> ELSE <<>>)
      /\ UNCHANGED <<promise, answer, popup, handshake, window, unclosed, reloads, toOpener>>
  BY DEF OptionsArrive, RecoveryMayGo, hostedVars
<1>2. /\ r \in Recover /\ RequestOK(r) /\ posted[r] = 0
  BY <1>1 DEF IInv, RequestsInv, RequestOK
<1>3. /\ recovery' \in [Requests -> {"none", "loading", "ready", "sent"}]
      /\ posted' \in [Requests -> Nat]
      /\ recovery'[r] = IF ~IsOpen(r) THEN "none" ELSE IF goes THEN "sent" ELSE "ready"
      /\ posted'[r] = IF goes THEN 1 ELSE 0
      /\ \A q \in Requests \ {r} : recovery'[q] = recovery[q] /\ posted'[q] = posted[q]
  BY <1>1, <1>2 DEF IInv, TypeOK
<1>4. toPage' \in Seq(Messages({"ack", "request"}))
  <2>1. CASE goes
    <3>1. popup[r] \in Requests /\ <<"request">> \in Seq({"ack", "request"})
      BY <1>2, <2>1 DEF RequestOK
    <3> QED BY <1>1, <2>1, <3>1, ToPageType
  <2>2. CASE ~goes
    <3>1. <<>> \in Seq({"ack", "request"})
      BY EmptySeq
    <3> QED BY <1>1, <2>2, <3>1, ToPageType
  <2> QED BY <2>1, <2>2
<1>5. TypeOK' /\ AnswerIsOwn' /\ WindowInv'
  BY <1>1, <1>3, <1>4 DEF IInv, TypeOK, AnswerIsOwn, WindowInv, IsOpen
<1>6. RequestsInv'
  <2> SUFFICES ASSUME NEW q \in Requests PROVE RequestOK(q)'
    BY DEF RequestsInv
  <2>1. CASE q = r
    BY <1>1, <1>2, <1>3, <2>1, OneOperationEach DEF RequestOK, IsOpen
  <2>2. CASE q # r
    BY <1>1, <1>3, <2>2 DEF IInv, RequestsInv, RequestOK, IsOpen
  <2> QED BY <2>1, <2>2
<1> QED BY <1>5, <1>6 DEF IInv

LEMMA OptionsFailIInv ==
  ASSUME IInv, NEW r \in Requests, OptionsFail(r)
  PROVE  IInv'
<1>1. /\ recovery[r] = "loading" /\ recovery' = [recovery EXCEPT ![r] = "none"]
      /\ UNCHANGED <<popup, handshake, posted, reloads, toOpener, toPage>>
  BY DEF OptionsFail
<1>2. CASE IsOpen(r)
  <2>1. Finish(r, "rejected", None)
    BY <1>2 DEF OptionsFail
  <2>2. /\ recovery' \in [Requests -> {"none", "loading", "ready", "sent"}]
        /\ recovery'[r] = "none"
        /\ \A q \in Requests \ {r} : recovery'[q] = recovery[q]
    BY <1>1 DEF IInv, TypeOK
  <2>3. /\ toOpener' \in Seq(Messages({"hello", "ok", "error"}))
        /\ toPage' \in Seq(Messages({"ack", "request"}))
    BY <1>1 DEF IInv, TypeOK
  <2> QED BY <1>1, <1>2, <2>1, <2>2, <2>3, SettledKeepsIInv
<1>3. CASE ~IsOpen(r)
  <2>1. UNCHANGED <<promise, answer, window, unclosed>>
    BY <1>3 DEF OptionsFail, Stays
  <2>2. /\ recovery' \in [Requests -> {"none", "loading", "ready", "sent"}]
        /\ recovery'[r] = "none"
        /\ \A q \in Requests \ {r} : recovery'[q] = recovery[q]
    BY <1>1 DEF IInv, TypeOK
  <2>3. TypeOK' /\ AnswerIsOwn' /\ WindowInv'
    BY <1>1, <2>1, <2>2 DEF IInv, TypeOK, AnswerIsOwn, WindowInv, IsOpen
  <2>4. RequestsInv'
    BY <1>1, <1>3, <2>1, <2>2 DEF IInv, RequestsInv, RequestOK, IsOpen
  <2> QED BY <2>3, <2>4 DEF IInv
<1> QED BY <1>2, <1>3

LEMMA ClosedTimerIInv ==
  ASSUME IInv, NEW r \in Requests, ClosedTimer(r)
  PROVE  IInv'
<1>1. /\ IsOpen(r) /\ Finish(r, "rejected", None) /\ recovery' = recovery
      /\ UNCHANGED <<popup, handshake, posted, reloads, toOpener, toPage>>
  BY DEF ClosedTimer
<1>2. /\ toOpener' \in Seq(Messages({"hello", "ok", "error"}))
      /\ toPage' \in Seq(Messages({"ack", "request"}))
  BY <1>1 DEF IInv, TypeOK
<1> QED BY <1>1, <1>2, RejectedKeepsIInv

LEMMA TimeoutIInv ==
  ASSUME IInv, NEW r \in Requests, Timeout(r)
  PROVE  IInv'
<1>1. /\ IsOpen(r) /\ Finish(r, "rejected", None) /\ recovery' = recovery
      /\ UNCHANGED <<popup, handshake, posted, reloads, toOpener, toPage>>
  BY DEF Timeout
<1>2. /\ toOpener' \in Seq(Messages({"hello", "ok", "error"}))
      /\ toPage' \in Seq(Messages({"ack", "request"}))
  BY <1>1 DEF IInv, TypeOK
<1> QED BY <1>1, <1>2, RejectedKeepsIInv

(* The first hello of an open ceremony.                                    *)
LEMMA GreetedIInv ==
  ASSUME IInv, NEW r \in Requests, IsOpen(r), r \notin handshake, Greeted(r),
         toOpener' \in Seq(Messages({"hello", "ok", "error"})),
         UNCHANGED <<popup, reloads>>
  PROVE  IInv'
<1> DEFINE ready == r \in Sign \/ recovery[r] = "ready"
<1>1. /\ handshake' = handshake \cup {r}
      /\ ToPage(r, IF ready THEN <<"ack", "request">> ELSE <<"ack">>)
      /\ posted' = [posted EXCEPT ![r] = IF ready THEN @ + 1 ELSE @]
      /\ recovery' = [recovery EXCEPT ![r] = IF @ = "ready" THEN "sent" ELSE @]
      /\ UNCHANGED <<promise, answer, window, unclosed>>
  BY DEF Greeted, Stays
<1>2. RequestOK(r) /\ popup[r] \in Requests
  BY DEF IInv, RequestsInv, RequestOK
<1>3. /\ recovery' \in [Requests -> {"none", "loading", "ready", "sent"}]
      /\ posted' \in [Requests -> Nat]
      /\ recovery'[r] = IF recovery[r] = "ready" THEN "sent" ELSE recovery[r]
      /\ posted'[r] = IF ready THEN posted[r] + 1 ELSE posted[r]
      /\ \A q \in Requests \ {r} : recovery'[q] = recovery[q] /\ posted'[q] = posted[q]
  BY <1>1 DEF IInv, TypeOK
<1>4. toPage' \in Seq(Messages({"ack", "request"}))
  <2>1. <<"ack", "request">> \in Seq({"ack", "request"}) /\ <<"ack">> \in Seq({"ack", "request"})
    OBVIOUS
  <2>2. CASE ready
    BY <1>1, <1>2, <2>1, <2>2, ToPageType
  <2>3. CASE ~ready
    BY <1>1, <1>2, <2>1, <2>3, ToPageType
  <2> QED BY <2>2, <2>3
<1>5. TypeOK' /\ AnswerIsOwn' /\ WindowInv'
  BY <1>1, <1>3, <1>4 DEF IInv, TypeOK, AnswerIsOwn, WindowInv, IsOpen
<1>6. RequestsInv'
  <2> SUFFICES ASSUME NEW q \in Requests PROVE RequestOK(q)'
    BY DEF RequestsInv
  <2>1. CASE q = r
    <3>1. r \in Sign => r \notin Recover
      BY OneOperationEach
    <3> QED BY <1>1, <1>2, <1>3, <2>1, <3>1 DEF RequestOK, IsOpen
  <2>2. CASE q # r
    BY <1>1, <1>3, <2>2 DEF IInv, RequestsInv, RequestOK, IsOpen
  <2> QED BY <2>1, <2>2
<1> QED BY <1>5, <1>6 DEF IInv

LEMMA OpenerReceivesIInv ==
  ASSUME IInv, OpenerReceives
  PROVE  IInv'
<1>1. PICK m \in Messages({"hello", "ok", "error"}) : m = Head(toOpener)
  BY HeadTailProperties DEF OpenerReceives, IInv, TypeOK
<1>2. toOpener' \in Seq(Messages({"hello", "ok", "error"}))
  BY HeadTailProperties DEF OpenerReceives, IInv, TypeOK
<1>3. UNCHANGED <<popup, reloads>>
  BY DEF OpenerReceives
<1>4. ASSUME Stays, UNCHANGED <<handshake, recovery, posted, toPage>>
      PROVE  IInv'
  <2>1. WindowInv'
    BY <1>3, <1>4 DEF Stays, IInv, WindowInv, IsOpen
  <2> QED BY <1>2, <1>3, <1>4, <2>1, CeremoniesRest DEF Stays, openerVars, IInv, TypeOK
<1>5. ASSUME NEW r \in Requests, Accepts(r, m),
             IF m.kind = "hello" THEN Hello(r) ELSE Result(r, m)
      PROVE  IInv'
  <2>1. IsOpen(r) /\ m.request = r
    BY <1>5 DEF Accepts
  <2>2. CASE GreetingFails(r)
    <3>1. /\ Finish(r, "rejected", None) /\ recovery' = recovery
          /\ UNCHANGED <<popup, handshake, posted, reloads>>
      BY <1>3, <2>2 DEF GreetingFails
    <3>2. PICK sent \in {<<>>, <<"ack">>} : ToPage(r, sent)
      BY <2>2 DEF GreetingFails
    <3>3. sent \in Seq({"ack", "request"})
      <4>1. <<"ack">> \in Seq({"ack", "request"}) /\ <<>> \in Seq({"ack", "request"})
        BY EmptySeq
      <4> QED BY <4>1
    <3>4. popup[r] \in Requests
      BY <2>1 DEF IInv, RequestsInv, RequestOK
    <3>5. toPage' \in Seq(Messages({"ack", "request"}))
      BY <3>2, <3>3, <3>4, ToPageType
    <3> QED BY <1>2, <2>1, <3>1, <3>5, RejectedKeepsIInv
  <2>3. CASE r \notin handshake /\ Greeted(r)
    BY <1>2, <1>3, <2>1, <2>3, GreetedIInv
  <2>4. CASE Result(r, m)
    <3>1. CASE Finish(r, "resolved", r) \/ Finish(r, "rejected", None)
      <4>1. /\ UNCHANGED <<handshake, posted>>
            /\ toPage' \in Seq(Messages({"ack", "request"}))
            /\ recovery' \in [Requests -> {"none", "loading", "ready", "sent"}]
            /\ \A q \in Requests : recovery'[q] = recovery[q]
        BY <2>4 DEF Result, IInv, TypeOK
      <4> QED BY <1>2, <1>3, <2>1, <3>1, <4>1, SettledKeepsIInv
    <3>2. CASE Stays
      BY <1>4, <2>4, <3>2 DEF Result
    <3> QED BY <2>1, <2>4, <3>1, <3>2 DEF Result
  <2> QED BY <1>4, <1>5, <2>2, <2>3, <2>4 DEF Hello
<1>6. CASE \E r \in Requests : Accepts(r, m)
  <2>1. PICK r \in {x \in Requests : Accepts(x, m)} :
          IF m.kind = "hello" THEN Hello(r) ELSE Result(r, m)
    BY <1>1, <1>6 DEF OpenerReceives
  <2> QED BY <1>5, <2>1
<1>7. CASE ~\E r \in Requests : Accepts(r, m)
  BY <1>1, <1>4, <1>7 DEF OpenerReceives
<1> QED BY <1>6, <1>7

-----------------------------------------------------------------------------
(***************************************************************************)
(* The steps of the hosted page and the user.                              *)
(***************************************************************************)

(* The window's page moves on, and may post to the opener.                 *)
LEMMA PageMoves ==
  ASSUME IInv, window # None,
         NEW at \in {"loading", "greeted", "acked", "asked", "answered"},
         window' = [window EXCEPT !.at = at],
         toOpener' \in Seq(Messages({"hello", "ok", "error"})),
         toPage' \in Seq(Messages({"ack", "request"})),
         reloads' \in 0 .. MaxReloads,
         UNCHANGED openerVars
  PROVE  IInv'
<1>1. /\ window' \in [creator : Requests, request : Requests,
                      at : {"loading", "greeted", "acked", "asked", "answered"}]
      /\ window'.creator = window.creator /\ window'.request = window.request
  BY DEF IInv, TypeOK
<1>2. WindowInv'
  BY <1>1 DEF IInv, WindowInv, IsOpen, openerVars
<1> QED BY <1>1, <1>2, CeremoniesRest

LEMMA ToOpenerType ==
  ASSUME IInv, window # None, NEW kind \in {"hello", "ok", "error"}, ToOpener(kind)
  PROVE  toOpener' \in Seq(Messages({"hello", "ok", "error"}))
<1>1. [creator |-> window.creator, request |-> window.request, kind |-> kind]
        \in Messages({"hello", "ok", "error"})
  BY DEF Messages, IInv, TypeOK
<1> QED BY <1>1, AppendProperties DEF ToOpener, IInv, TypeOK

LEMMA PageGreetsIInv ==
  ASSUME IInv, NEW r \in Requests, PageGreets(r)
  PROVE  IInv'
BY PageMoves, ToOpenerType DEF PageGreets, PageIs, IInv, TypeOK

LEMMA PageAnswersIInv ==
  ASSUME IInv, NEW r \in Requests, PageAnswers(r)
  PROVE  IInv'
<1>1. window # None /\ (ToOpener("ok") \/ ToOpener("error"))
  BY DEF PageAnswers, PageIs
<1> QED BY <1>1, PageMoves, ToOpenerType DEF PageAnswers, IInv, TypeOK

LEMMA PageReceivesIInv ==
  ASSUME IInv, PageReceives
  PROVE  IInv'
<1>1. /\ toPage' \in Seq(Messages({"ack", "request"}))
      /\ UNCHANGED <<openerVars, reloads, toOpener>>
  BY HeadTailProperties DEF PageReceives, IInv, TypeOK
<1>2. \/ window' = window
      \/ window # None /\ \E at \in {"acked", "asked"} : window' = [window EXCEPT !.at = at]
  BY DEF PageReceives
<1>3. CASE window' = window
  <2>1. WindowInv'
    BY <1>1, <1>3 DEF IInv, WindowInv, IsOpen, openerVars
  <2> QED BY <1>1, <1>3, <2>1, CeremoniesRest DEF IInv, TypeOK
<1>4. CASE window # None /\ \E at \in {"acked", "asked"} : window' = [window EXCEPT !.at = at]
  BY <1>1, <1>4, PageMoves DEF IInv, TypeOK
<1> QED BY <1>2, <1>3, <1>4

LEMMA UserReloadsIInv ==
  ASSUME IInv, UserReloads
  PROVE  IInv'
<1>1. reloads' \in 0 .. MaxReloads
  BY ReloadsAreBounded DEF UserReloads, IInv, TypeOK
<1> QED BY <1>1, PageMoves DEF UserReloads, IInv, TypeOK

LEMMA UserClosesIInv ==
  ASSUME IInv, UserCloses
  PROVE  IInv'
<1>1. WindowInv'
  BY DEF UserCloses, WindowInv
<1> QED BY <1>1, CeremoniesRest DEF UserCloses, IInv, TypeOK

-----------------------------------------------------------------------------
LEMMA InitIInv == Init => IInv
<1>1. \A S : <<>> \in Seq(S)
  BY EmptySeq
<1> QED BY <1>1, ReloadsAreBounded
        DEF Init, IInv, TypeOK, RequestsInv, RequestOK, IsOpen, WindowInv, AnswerIsOwn

LEMMA NextIInv == IInv /\ [Next]_vars => IInv'
<1> SUFFICES ASSUME IInv, [Next]_vars PROVE IInv'
  OBVIOUS
<1>1. CASE UNCHANGED vars
  <2>1. WindowInv'
    BY <1>1 DEF vars, openerVars, hostedVars, IInv, WindowInv, IsOpen
  <2> QED BY <1>1, <2>1, CeremoniesRest DEF vars, hostedVars, IInv, TypeOK
<1> QED BY <1>1, OpenIInv, OptionsArriveIInv, OptionsFailIInv, ClosedTimerIInv, TimeoutIInv,
           PageGreetsIInv, PageAnswersIInv, OpenerReceivesIInv, PageReceivesIInv,
           UserReloadsIInv, UserClosesIInv
        DEF Next

LEMMA IInvHolds == Spec => []IInv
BY InitIInv, NextIInv, PTL DEF Spec

-----------------------------------------------------------------------------
(***************************************************************************)
(* The theorems.                                                           *)
(***************************************************************************)

(* Every variable keeps its type; in particular, what is on its way        *)
(* between the windows always names a window and a ceremony.               *)
THEOREM TypeCorrect == Spec => []TypeOK
BY IInvHolds, PTL DEF IInv

(* A ceremony of openCeremonyPopup() resolves with the result of its own   *)
(* page only, however many ceremonies share the named window.              *)
THEOREM CeremoniesGetTheirOwnAnswer == Spec => []AnswerIsOwn
BY IInvHolds, PTL DEF IInv

(* The bytes to sign, and the recovery request, leave the opener at most   *)
(* once in the life of a ceremony, in whichever order greeting and options *)
(* come and however often the page greets.                                 *)
THEOREM RequestsLeaveOnce == Spec => []SensitiveRequestLeavesOnce
<1>1. IInv => SensitiveRequestLeavesOnce
  <2> SUFFICES ASSUME IInv, NEW r \in Sign \cup Recover
               PROVE  /\ posted[r] <= 1
                      /\ IsOpen(r) =>
                           (posted[r] = 1 <=> /\ r \in handshake
                                              /\ r \in Recover => recovery[r] \in {"ready", "sent"})
    BY DEF SensitiveRequestLeavesOnce
  <2>1. RequestOK(r)
    BY DEF IInv, RequestsInv, Requests
  <2>2. CASE r \in Sign
    BY <2>1, <2>2, OneOperationEach DEF RequestOK
  <2>3. CASE r \in Recover
    BY <2>1, <2>3, OneOperationEach DEF RequestOK
  <2> QED BY <2>2, <2>3
<1> QED BY <1>1, IInvHolds, PTL

(* Whatever settles a ceremony also closes its page, if the browser lets   *)
(* it: the window shows the page of a ceremony that is over only if that   *)
(* ceremony's close() threw.                                               *)
THEOREM PagesEndWithTheirCeremony == Spec => []NoPageOutlivesItsCeremony
<1>1. IInv => NoPageOutlivesItsCeremony
  BY DEF IInv, WindowInv, NoPageOutlivesItsCeremony
<1> QED BY <1>1, IInvHolds, PTL
=============================================================================
