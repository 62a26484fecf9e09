---------------------------- MODULE PopupChannel ----------------------------
(***************************************************************************)
(* openCeremonyPopup() (popup.ts): ceremonies of one opener page, each     *)
(* with its request id, promise, listener and timers, and the one named    *)
(* window, 'dexter-connect', they all open.  A ceremony that begins while  *)
(* another is open navigates the other's page away; both then hold the     *)
(* same window.                                                            *)
(*                                                                         *)
(* The hosted page is not in this repository: it greets, awaits the ack,   *)
(* awaits the request if its operation has one, and answers.  The user may *)
(* reload or close its window at any time.                                 *)
(*                                                                         *)
(* A request id stands for the ceremony.  Messages between the windows     *)
(* keep their order.  Messages of other origins and windows, which the     *)
(* first two tests of onMessage refuse, are not sent here.                 *)
(***************************************************************************)
EXTENDS Naturals, Sequences

CONSTANTS
  Plain, Sign, Recover,  (* Ceremonies: without a request to the page; with *)
                         (* bytes to sign; with recovery options to fetch.  *)
  None,
  MaxReloads             (* Bound: times the user reloads hosted pages.     *)

Requests == Plain \cup Sign \cup Recover

ASSUME OneOperationEach ==
  /\ Plain \cap Sign = {} /\ Plain \cap Recover = {} /\ Sign \cap Recover = {}
  /\ None \notin Requests
ASSUME ReloadsAreBounded == MaxReloads \in Nat

VARIABLES
  promise,    (* What openCeremonyPopup() returned, of each request.       *)
  answer,     (* The request whose page's result resolved the promise.     *)
  popup,      (* The window a ceremony holds, named by the request that    *)
              (* created it, or None.                                      *)
  handshake,  (* Requests whose handshakeComplete is TRUE.                 *)
  recovery,   (* The recovery request: recoveryRequest and its loader, and *)
              (* recoveryRequestSent.                                      *)
  window,     (* The named window: its creator, the request its page is    *)
              (* for, where that page is; or None if closed.               *)
  toOpener,   (* Messages on their way to the opener.                      *)
  toPage,     (* Messages on their way to the window's page.               *)
  unclosed,   (* History: requests whose ceremony ended while it held the  *)
              (* window, and could not close it.                           *)
  posted,     (* History: times a sensitive request left, of each request. *)
  reloads     (* Counts against MaxReloads.                                *)

openerVars == <<promise, answer, popup, handshake, recovery, unclosed, posted>>
hostedVars == <<window, reloads>>
vars == <<openerVars, hostedVars, toOpener, toPage>>

IsOpen(r) == promise[r] = "open"

Holds(r) == window # None /\ window.creator = popup[r]

PageIs(r, places) == window # None /\ window.request = r /\ window.at \in places

(***************************************************************************)
(* Opener.                                                                 *)
(***************************************************************************)

(* Slip: a rejected ceremony does not close its window.                    *)
Finish_KeepsWindow(r, outcome, from) ==
  /\ promise' = [promise EXCEPT ![r] = outcome]
  /\ answer' = [answer EXCEPT ![r] = from]
  /\ window' = IF Holds(r) /\ outcome = "resolved" THEN None ELSE window
  /\ UNCHANGED unclosed

(* finish(): once.  It closes the window, whoever's page it shows; but     *)
(* close() may throw, which is ignored, and the page stays.                *)
Finish(r, outcome, from) ==
  /\ promise' = [promise EXCEPT ![r] = outcome]
  /\ answer' = [answer EXCEPT ![r] = from]
  /\ \/ /\ window' = IF Holds(r) THEN None ELSE window
        /\ UNCHANGED unclosed
     \/ /\ Holds(r)
        /\ unclosed' = unclosed \cup {r}
        /\ UNCHANGED window

Stays == UNCHANGED <<promise, answer, window, unclosed>>

(* window.open() creates the named window or navigates it; recovery        *)
(* options are fetched only after it.                                      *)
Open(r) ==
  /\ promise[r] = "idle"
  /\ \/ /\ promise' = [promise EXCEPT ![r] = "rejected"]
        /\ UNCHANGED <<popup, window, recovery>>
     \/ LET creator == IF window = None THEN r ELSE window.creator
        IN  /\ promise' = [promise EXCEPT ![r] = "open"]
            /\ popup' = [popup EXCEPT ![r] = creator]
            /\ window' = [creator |-> creator, request |-> r, at |-> "loading"]
            /\ recovery' = [recovery EXCEPT ![r] = IF r \in Recover THEN "loading" ELSE @]
  /\ UNCHANGED <<answer, handshake, unclosed, toOpener, toPage, posted, reloads>>

ToPage(r, kinds) ==
  toPage' = toPage \o [i \in 1 .. Len(kinds) |->
                         [creator |-> popup[r], request |-> r, kind |-> kinds[i]]]

(* The guard of sendRecoveryRequest(), its other three parts being the     *)
(* callers' or told by recovery.                                           *)
RecoveryMayGo(r, greeted) == r \in greeted

(* Slip: the window is enough, request id and operation are not compared.  *)
Accepts_AnyRequest(r, m) ==
  /\ IsOpen(r)
  /\ m.creator = popup[r]

(* onMessage() is registered while the promise is open; source, request id *)
(* and operation match.                                                    *)
Accepts(r, m) ==
  /\ IsOpen(r)
  /\ m.creator = popup[r]
  /\ m.request = r

(* The first hello is acked, and followed by what the page is to sign, or  *)
(* by the recovery request if its options are there.                       *)
Greeted(r) ==
  LET ready == r \in Sign \/ recovery[r] = "ready"
  IN  /\ handshake' = handshake \cup {r}
      /\ ToPage(r, IF ready THEN <<"ack", "request">> ELSE <<"ack">>)
      /\ posted' = [posted EXCEPT ![r] = IF ready THEN @ + 1 ELSE @]
      /\ recovery' = [recovery EXCEPT ![r] = IF @ = "ready" THEN "sent" ELSE @]
      /\ Stays

(* postMessage() throws, for the ack or, the ack being on its way, for the *)
(* request.  Nobody looks at the handshake again.                          *)
GreetingFails(r) ==
  /\ Finish(r, "rejected", None)
  /\ \E sent \in {<<>>, <<"ack">>} : ToPage(r, sent)
  /\ UNCHANGED <<handshake, recovery, posted>>

(* Slip: every hello is greeted.                                           *)
Hello_Again(r) == Greeted(r) \/ GreetingFails(r)

(* A repeated hello is ignored.                                            *)
Hello(r) ==
  IF r \in handshake
    THEN Stays /\ UNCHANGED <<handshake, recovery, posted, toPage>>
    ELSE Greeted(r) \/ GreetingFails(r)

(* A result counts after the handshake and, of a recovery, after its       *)
(* request.                                                                *)
Result(r, m) ==
  /\ IF r \in handshake /\ (r \in Recover => recovery[r] = "sent")
       THEN Finish(r, IF m.kind = "ok" THEN "resolved" ELSE "rejected",
                      IF m.kind = "ok" THEN m.request ELSE None)
       ELSE Stays
  /\ UNCHANGED <<handshake, recovery, posted, toPage>>

OpenerReceives ==
  /\ toOpener # <<>>
  /\ LET m == Head(toOpener)
     IN  IF \E r \in Requests : Accepts(r, m)
           THEN \E r \in {x \in Requests : Accepts(x, m)} :
                  IF m.kind = "hello" THEN Hello(r) ELSE Result(r, m)
           ELSE Stays /\ UNCHANGED <<handshake, recovery, posted, toPage>>
  /\ toOpener' = Tail(toOpener)
  /\ UNCHANGED <<popup, reloads>>

(* The recovery options arrive, before or after the page's hello, or after *)
(* the ceremony is over.                                                   *)
OptionsArrive(r) ==
  LET goes == IsOpen(r) /\ RecoveryMayGo(r, handshake)
  IN  /\ recovery[r] = "loading"
      /\ recovery' = [recovery EXCEPT ![r] = IF ~IsOpen(r) THEN "none"
                                             ELSE IF goes THEN "sent" ELSE "ready"]
      /\ posted' = [posted EXCEPT ![r] = IF goes THEN @ + 1 ELSE @]
      /\ ToPage(r, IF goes THEN <<"request">> ELSE <<>>)
      /\ UNCHANGED <<promise, answer, popup, handshake, unclosed, hostedVars, toOpener>>

(* The loader rejects, its options are malformed, or they cannot be posted.*)
OptionsFail(r) ==
  /\ recovery[r] = "loading"
  /\ recovery' = [recovery EXCEPT ![r] = "none"]
  /\ IF IsOpen(r) THEN Finish(r, "rejected", None) ELSE Stays
  /\ UNCHANGED <<popup, handshake, posted, reloads, toOpener, toPage>>

(* The poll finds the window this ceremony holds closed.                   *)
ClosedTimer(r) ==
  /\ IsOpen(r) /\ ~Holds(r)
  /\ Finish(r, "rejected", None)
  /\ UNCHANGED <<popup, handshake, recovery, posted, reloads, toOpener, toPage>>

(* Slip: a handshake stops the clock.                                      *)
Timeout_BeforeHandshake(r) ==
  /\ IsOpen(r) /\ r \notin handshake
  /\ Finish(r, "rejected", None)
  /\ UNCHANGED <<popup, handshake, recovery, posted, reloads, toOpener, toPage>>

(* POPUP_TIMEOUT_MS, counted from the opening, whatever has happened since.*)
Timeout(r) ==
  /\ IsOpen(r)
  /\ Finish(r, "rejected", None)
  /\ UNCHANGED <<popup, handshake, recovery, posted, reloads, toOpener, toPage>>

(***************************************************************************)
(* The hosted page and the user.                                           *)
(***************************************************************************)
ToOpener(kind) ==
  toOpener' = Append(toOpener, [creator |-> window.creator, request |-> window.request,
                                kind |-> kind])

PageGreets(r) ==
  /\ PageIs(r, {"loading"})
  /\ window' = [window EXCEPT !.at = "greeted"]
  /\ ToOpener("hello")
  /\ UNCHANGED <<openerVars, reloads, toPage>>

(* A message reaches the page only if it is still there and awaits it.     *)
PageReceives ==
  /\ toPage # <<>>
  /\ LET m == Head(toPage)
         awaited == /\ window # None
                    /\ window.creator = m.creator /\ window.request = m.request
                    /\ window.at = IF m.kind = "ack" THEN "greeted" ELSE "acked"
     IN  window' = IF awaited
                     THEN [window EXCEPT !.at = IF m.kind = "ack" THEN "acked" ELSE "asked"]
                     ELSE window
  /\ toPage' = Tail(toPage)
  /\ UNCHANGED <<openerVars, reloads, toOpener>>

(* The ceremony succeeds once the page has all it needs; it may fail       *)
(* before.                                                                 *)
PageAnswers(r) ==
  /\ \/ PageIs(r, IF r \in Plain THEN {"acked"} ELSE {"asked"}) /\ ToOpener("ok")
     \/ PageIs(r, {"acked", "asked"}) /\ ToOpener("error")
  /\ window' = [window EXCEPT !.at = "answered"]
  /\ UNCHANGED <<openerVars, reloads, toPage>>

UserReloads ==
  /\ window # None
  /\ reloads < MaxReloads
  /\ reloads' = reloads + 1
  /\ window' = [window EXCEPT !.at = "loading"]
  /\ UNCHANGED <<openerVars, toOpener, toPage>>

UserCloses ==
  /\ window # None
  /\ window' = None
  /\ UNCHANGED <<openerVars, reloads, toOpener, toPage>>

-----------------------------------------------------------------------------
Init ==
  /\ promise = [r \in Requests |-> "idle"]
  /\ answer = [r \in Requests |-> None]
  /\ popup = [r \in Requests |-> None]
  /\ handshake = {}
  /\ recovery = [r \in Requests |-> "none"]
  /\ window = None /\ unclosed = {}
  /\ toOpener = <<>> /\ toPage = <<>>
  /\ posted = [r \in Requests |-> 0]
  /\ reloads = 0

Next ==
  \/ \E r \in Requests :
       \/ Open(r)
       \/ OptionsArrive(r) \/ OptionsFail(r)
       \/ ClosedTimer(r) \/ Timeout(r)
       \/ PageGreets(r) \/ PageAnswers(r)
  \/ OpenerReceives \/ PageReceives
  \/ UserReloads \/ UserCloses

(* The browser fires the timeout of a ceremony that nothing has settled.   *)
Spec == Init /\ [][Next]_vars /\ \A r \in Requests : WF_vars(Timeout(r))

(***************************************************************************)
(* Properties.                                                             *)
(***************************************************************************)
Messages(kinds) == [creator : Requests, request : Requests, kind : kinds]

TypeOK ==
  /\ promise \in [Requests -> {"idle", "open", "resolved", "rejected"}]
  /\ answer \in [Requests -> Requests \cup {None}]
  /\ popup \in [Requests -> Requests \cup {None}]
  /\ handshake \subseteq Requests
  /\ recovery \in [Requests -> {"none", "loading", "ready", "sent"}]
  /\ window \in {None} \cup [creator : Requests, request : Requests,
                             at : {"loading", "greeted", "acked", "asked", "answered"}]
  /\ toOpener \in Seq(Messages({"hello", "ok", "error"}))
  /\ toPage \in Seq(Messages({"ack", "request"}))
  /\ unclosed \subseteq Requests
  /\ posted \in [Requests -> Nat]
  /\ reloads \in 0 .. MaxReloads

(* A ceremony resolves with the result of its own page, although another   *)
(* ceremony's page may have spoken from the same window (popup.ts:191).    *)
AnswerIsOwn == \A r \in Requests : promise[r] = "resolved" => answer[r] = r

(* What the page is to sign, or its recovery request, leaves the opener    *)
(* once: when the page has greeted and, of a recovery, the options are     *)
(* there, in either order; not before, and not again however often the     *)
(* page is reloaded and greets anew.                                       *)
SensitiveRequestLeavesOnce ==
  \A r \in Sign \cup Recover :
    /\ posted[r] <= 1
    /\ IsOpen(r) =>
         (posted[r] = 1 <=> r \in handshake /\ (r \in Recover => recovery[r] \in {"ready", "sent"}))

(* No window is left behind to show the page of a ceremony that is over,   *)
(* whichever ceremony, timer or message ended it; except one that the      *)
(* ceremony itself tried to close and could not: "cross-origin close can   *)
(* throw after navigation -- ignore" (popup.ts:259).                       *)
NoPageOutlivesItsCeremony ==
  window # None => IsOpen(window.request) \/ window.request \in unclosed

(* Every ceremony settles, whatever the page, the user and the network do, *)
(* another ceremony's navigation included.                                 *)
CeremoniesSettle == \A r \in Requests : IsOpen(r) ~> promise[r] \in {"resolved", "rejected"}
=============================================================================
