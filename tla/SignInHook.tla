----------------------------- MODULE SignInHook ------------------------------
(***************************************************************************)
(* useSignInWithDexter (useSignInWithDexter.ts) in a mounted component: the*)
(* ceremonies a page runs through the hook, of which nothing keeps two from*)
(* overlapping, what it holds of their results, and its reads of the USDC  *)
(* balance (balance.ts).                                                   *)
(*                                                                         *)
(* A session and a balance stand for the Wallet they are of.  The          *)
(* ceremonies themselves are those of SignInCeremonies.                    *)
(***************************************************************************)
CONSTANTS
  Vaults,
  WithAccount, (* Vaults whose USDC account is known.                      *)
  None,
  Calls,       (* Names for the ceremonies that run at a time.             *)
  Reads        (* Names for the balance reads on their way at a time.      *)

VARIABLES
  status, session, vault, usdcBalance, error, recovered,
  effectDue, (* refreshBalance was made anew, and its effect has not run.  *)
  call,      (* The verb of each running ceremony, or None.                *)
  read       (* The vault whose account each read is of, or None.          *)

hookVars == <<status, session, vault, usdcBalance, error, recovered, effectDue, call, read>>

(* The verb's ceremony begins: earlier results stay until it ends.         *)
Begin(c, verb) ==
  /\ call[c] = None
  /\ call' = [call EXCEPT ![c] = verb]
  /\ status' = "pending" /\ error' = FALSE
  /\ UNCHANGED <<session, vault, usdcBalance, recovered, effectDue, read>>

Ends(c, outcome) ==
  /\ call' = [call EXCEPT ![c] = None]
  /\ status' = outcome
  /\ UNCHANGED <<usdcBalance, read>>

Connects(v) == vault' = v /\ effectDue' = TRUE

(* signIn() and continueWith() with a Wallet that is there.                *)
SignedIn(c, v) ==
  /\ call[c] \in {"signIn", "continueWith"}
  /\ session' = v /\ Connects(v)
  /\ Ends(c, "done")
  /\ UNCHANGED <<error, recovered>>

(* continueWith() made a Wallet: the session stays what it was.            *)
Created(c, v) ==
  /\ call[c] = "continueWith"
  /\ Connects(v)
  /\ Ends(c, "done")
  /\ UNCHANGED <<session, error, recovered>>

(* It left the choice to the caller.                                       *)
LeftToCaller(c) ==
  /\ call[c] = "continueWith"
  /\ Ends(c, "idle")
  /\ UNCHANGED <<session, vault, effectDue, error, recovered>>

Failed(c) ==
  /\ call[c] \in {"signIn", "continueWith"}
  /\ error' = TRUE
  /\ Ends(c, "error")
  /\ UNCHANGED <<session, vault, effectDue, recovered>>

(* recover() holds the outcome only; its Wallet goes to the store.         *)
Recovered(c) ==
  /\ call[c] = "recover"
  /\ \/ recovered' = "ok" /\ Ends(c, "done") /\ UNCHANGED error
     \/ recovered' = "error" /\ Ends(c, "error") /\ error' = TRUE
     \/ recovered' = "none" /\ Ends(c, "idle") /\ UNCHANGED error
  /\ UNCHANGED <<session, vault, effectDue>>

(* The hook clears what it holds, and leaves alone what is running.        *)
SignOutAccount ==
  /\ session' = None /\ vault' = None /\ usdcBalance' = None
  /\ error' = FALSE /\ recovered' = None /\ status' = "idle"
  /\ effectDue' = (effectDue \/ vault # None)
  /\ UNCHANGED <<call, read>>

(* refreshBalance(): of a vault whose account is not known, nothing.       *)
RefreshBalance ==
  /\ IF vault \in WithAccount
       THEN \E r \in Reads : read[r] = None /\ read' = [read EXCEPT ![r] = vault]
       ELSE UNCHANGED read
  /\ UNCHANGED <<status, session, vault, usdcBalance, error, recovered, call>>

EffectRuns == effectDue /\ effectDue' = FALSE /\ RefreshBalance

(* The amount, or null for any failure: whichever vault is held now.       *)
BalanceAnswered(r) ==
  /\ read[r] # None
  /\ read' = [read EXCEPT ![r] = None]
  /\ usdcBalance' \in {read[r], None}
  /\ UNCHANGED <<status, session, vault, error, recovered, effectDue, call>>

-----------------------------------------------------------------------------
HookInit ==
  /\ status = "idle" /\ error = FALSE /\ recovered = None
  /\ session = None /\ vault = None /\ usdcBalance = None
  /\ effectDue = TRUE
  /\ call = [c \in Calls |-> None]
  /\ read = [r \in Reads |-> None]

HookNext ==
  \/ \E c \in Calls :
       \/ \E verb \in {"signIn", "recover", "continueWith"} : Begin(c, verb)
       \/ \E v \in Vaults : SignedIn(c, v) \/ Created(c, v)
       \/ LeftToCaller(c) \/ Failed(c) \/ Recovered(c)
  \/ SignOutAccount
  \/ EffectRuns
  \/ RefreshBalance /\ UNCHANGED effectDue
  \/ \E r \in Reads : BalanceAnswered(r)

HookSpec == HookInit /\ [][HookNext]_hookVars

(***************************************************************************)
(* Properties.                                                             *)
(***************************************************************************)

(* useSignInWithDexter.ts:82 and :118: a balance that has not loaded is    *)
(* null, and stays unknown for a vault whose account is not known.  So,    *)
(* once no read is due or on its way, a balance is the held vault's.       *)
BalanceIsOfVault ==
  ~effectDue /\ (\A r \in Reads : read[r] = None) => usdcBalance \in {None, vault}
=============================================================================
