-------------------------- MODULE AccountPortfolio ---------------------------
(***************************************************************************)
(* useAccountPortfolio (useAccountPortfolio.ts) in the summary of the      *)
(* account control, and the reads it makes (accountPortfolio.ts).          *)
(*                                                                         *)
(* A view stands for what the hook's key is made of: handle, vault,        *)
(* receive address and network.  The summary is mounted anew for another   *)
(* Wallet, and rendered with another key when the Wallet's address         *)
(* changes.  Effects run some time after a commit.  A generation is the    *)
(* request that may still be written, named by its number; numbers of      *)
(* requests that have settled are used again.                              *)
(***************************************************************************)
EXTENDS Naturals

CONSTANTS
  Views,
  WalletOf,    (* The Wallet of each view.                                 *)
  Portfolios,  (* What the API may answer about.                           *)
  Fits,        (* The portfolios that are of each view's vault and address.*)
  MaxRequests, (* Bound: the requests that have not settled.               *)
  NoView

ASSUME NoViewIsNoView == NoView \notin Views \cup Portfolios
ASSUME FitsIsFunction == Fits \in [Views -> SUBSET Portfolios]

VARIABLES
  summary,  (* The hook's state and refs, or NoView if it is not mounted.  *)
  requests  (* Reads that have not settled.                                *)

portfolioVars == <<summary, requests>>

RequestIds == 1 .. MaxRequests

States == [key : Views, amount : Portfolios \cup {NoView}, loading : BOOLEAN]

Summaries == [key : Views, effectOf : Views \cup {NoView}, state : States,
              generation : RequestIds \cup {0}, inFlight : RequestIds \cup {0}]

Reads == [id : RequestIds, key : Views, aborted : BOOLEAN]

Unread(key) == [key |-> key, amount |-> NoView, loading |-> TRUE]

Mounted(view) ==
  [key |-> view, effectOf |-> NoView, state |-> Unread(view), generation |-> 0, inFlight |-> 0]

Aborted(id) == {IF r.id = id THEN [r EXCEPT !.aborted = TRUE] ELSE r : r \in requests}

(* Slip: the last amount shows until an effect replaces it.                *)
Visible_Unowned == summary.state

(* Render-time ownership.                                                  *)
Visible == IF summary.state.key = summary.key THEN summary.state ELSE Unread(summary.key)

(* The cleanup of the effect, which also aborts what is in flight.         *)
CleanedUp == [summary EXCEPT !.generation = 0, !.inFlight = 0]

(* refresh(), of a hook in state s: it joins a read for the same key.      *)
Refreshes(s, others) ==
  IF \E r \in others : r.id = s.inFlight /\ r.key = s.key
    THEN summary' = s /\ requests' = others
    ELSE \E id \in RequestIds :
           /\ \A r \in others : r.id # id
           /\ summary' = [s EXCEPT !.state = Unread(s.key), !.generation = id, !.inFlight = id]
           /\ requests' = {IF r.id = s.inFlight THEN [r EXCEPT !.aborted = TRUE] ELSE r : r \in others}
                            \cup {[id |-> id, key |-> s.key, aborted |-> FALSE]}

(* The control commits with the Wallet's view, or without the summary.     *)
(* React runs the effects of a commit before it renders again.             *)
Rendered(view) ==
  /\ summary # NoView => summary.effectOf = summary.key
  /\ IF view = NoView
       THEN /\ summary' = NoView
            /\ requests' = IF summary = NoView THEN requests ELSE Aborted(summary.inFlight)
       ELSE IF summary # NoView /\ WalletOf[summary.key] = WalletOf[view]
         THEN summary' = [summary EXCEPT !.key = view] /\ UNCHANGED requests
         ELSE /\ summary' = Mounted(view)
              /\ requests' = IF summary = NoView THEN requests ELSE Aborted(summary.inFlight)

(* The effect of the last commit: the cleanup of the earlier one, and a    *)
(* refresh.                                                                *)
EffectRuns ==
  /\ summary # NoView
  /\ summary.effectOf # summary.key
  /\ IF summary.effectOf = NoView
       THEN Refreshes([summary EXCEPT !.effectOf = summary.key], requests)
       ELSE Refreshes([CleanedUp EXCEPT !.effectOf = summary.key], Aborted(summary.inFlight))

(* The summary's button, which is there unless it says loading.            *)
RefreshPressed ==
  /\ summary # NoView
  /\ ~Visible.loading
  /\ Refreshes(summary, requests)

(* parsePortfolio(): a portfolio of another vault or address is an error,  *)
(* and is shown as unknown.                                                *)
AmountOf(r, answer) == IF answer \in Fits[r.key] THEN answer ELSE NoView

(* Slip: a failure is not written.                                         *)
Read_NotFailed(r, answer) ==
  IF answer \in Fits[r.key] THEN [key |-> r.key, amount |-> answer, loading |-> FALSE]
                            ELSE summary.state

Read(r, answer) == [key |-> r.key, amount |-> AmountOf(r, answer), loading |-> FALSE]

(* Only the latest read of the current key is written.                     *)
IsLatest(r) == ~r.aborted /\ summary.key = r.key /\ summary.generation = r.id

(* A read settles: with an answer, by a failure, by its abort, or because  *)
(* time is up.                                                             *)
ReadSettles(r, answer) ==
  /\ r \in requests
  /\ requests' = requests \ {r}
  /\ summary' =
       IF summary = NoView THEN NoView
       ELSE [summary EXCEPT
              !.state = IF IsLatest(r) THEN Read(r, answer) ELSE summary.state,
              !.inFlight = IF summary.inFlight = r.id THEN 0 ELSE summary.inFlight]

PortfolioInit == summary = NoView /\ requests = {}

(***************************************************************************)
(* Properties.                                                             *)
(***************************************************************************)
PortfolioTypeOK ==
  /\ summary \in Summaries \cup {NoView}
  /\ requests \subseteq Reads

(* The amount on the screen is of the Wallet and address the control holds *)
(* at that moment, whichever reads are on their way and whether or not the *)
(* effect of the last commit has run (useAccountPortfolio.ts:73).          *)
ShownPortfolioIsCurrent ==
  summary # NoView /\ Visible.amount # NoView => Visible.amount \in Fits[summary.key]

(* A summary never waits for nothing: as long as it says loading, its       *)
(* effect has yet to run or a read is on its way that will be written,     *)
(* however the Wallet and its address went back and forth meanwhile        *)
(* (useAccountPortfolio.ts:41, 49, 57).                                    *)
LoadingIsUnderWay ==
  summary # NoView /\ Visible.loading =>
    summary.effectOf # summary.key \/ \E r \in requests : IsLatest(r)
=============================================================================
