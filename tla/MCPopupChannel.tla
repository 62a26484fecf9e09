--------------------------- MODULE MCPopupChannel ---------------------------
(***************************************************************************)
(* PopupChannel for TLC: one ceremony of each kind.                        *)
(***************************************************************************)
EXTENDS PopupChannel

(* What later steps and the properties depend on.  A request is opened     *)
(* once, so what a ceremony that is over knew of its window and page is    *)
(* not read again; the opener ignores its messages, and so does a page     *)
(* that is not its own; and only a page that stayed is asked whether it    *)
(* could be closed.  When every ceremony is over no property can change.   *)
AllOver == \A r \in Requests : promise[r] \in {"resolved", "rejected"}

Known(r) == IF IsOpen(r) THEN <<popup[r], r \in handshake, recovery[r]>> ELSE <<>>

Stayed == window # None /\ window.request \in unclosed

ToOpenerView ==
  [i \in 1 .. Len(toOpener) |-> IF IsOpen(toOpener[i].request) THEN toOpener[i] ELSE None]

ToPageView ==
  [i \in 1 .. Len(toPage) |->
     IF window # None /\ window.request = toPage[i].request THEN toPage[i].kind ELSE "lost"]

PopupView ==
  IF AllOver
    THEN <<promise, answer, [r \in Sign \cup Recover |-> posted[r]], window # None, Stayed>>
    ELSE <<promise, answer, posted, window, Stayed, [r \in Requests |-> Known(r)],
           ToOpenerView, ToPageView, reloads>>
=============================================================================
