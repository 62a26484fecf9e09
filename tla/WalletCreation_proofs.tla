------------------------ MODULE WalletCreation_proofs ------------------------
(***************************************************************************)
(* Proofs about the creation of Wallets, for any number of pages, passkeys *)
(* and allowances, and whether or not storage can be written; and, in the  *)
(* second half, about the sign-ins that run beside them.                   *)
(***************************************************************************)
EXTENDS SignInCeremonies, TLAPS

(***************************************************************************)
(* The inductive invariant: what a call and the checkpoint may say of      *)
(* their passkey, given what the operating system and the API hold.        *)
(***************************************************************************)

(* A call works on a passkey that exists, or on none yet; its policy is    *)
(* what the passkey was made for; once it no longer enrolls, no enrollment *)
(* of the passkey can be accepted any more.                                *)
CallOK(c) ==
  /\ c.at \in {"idle", "challenge", "registering"} => c.work.passkey = None /\ ~c.work.enrolled
  /\ c.at \in {"created", "completing", "confirming", "verifying", "finalizing"} =>
       c.work.passkey \in keychain /\ c.work.policy = authored[c.work.passkey]
  /\ c.work.enrolled => c.work.passkey \in enrolled
  /\ c.at \in {"confirming", "verifying"} => c.work.passkey \notin challenge
  /\ c.deferred => c.work.policy = None

CallsInv == \A p \in Pages : CallOK(call[p])

(* The checkpoint says of its passkey what a call may.                     *)
PendingInv ==
  pending # None =>
    /\ pending.passkey \in keychain
    /\ pending.policy = authored[pending.passkey]
    /\ pending.enrolled => pending.passkey \in enrolled

(* A passkey that is enrolled, or was reported absent, cannot be enrolled  *)
(* again; only a passkey has a vault, and what is active has one.          *)
ApiInv ==
  /\ enrolled \cap challenge = {} /\ absent \cap challenge = {} /\ absent \cap enrolled = {}
  /\ \A k \in Passkeys \ keychain : vaults[k] = NoVault
  /\ ActiveWalletsHaveVaults

(* A passkey is remembered by the checkpoint from the moment the browser   *)
(* handed it over until its creation is over.                              *)
Kept(k) ==
  \/ k \in finished \cup absent \cup lost
  \/ PendingPasskey = k
  \/ \E p \in Pages : call[p].at = "created" /\ call[p].work.passkey = k

KeptInv == \A k \in keychain : Kept(k)

IInv == TypeOK /\ CallsInv /\ PendingInv /\ ApiInv /\ KeptInv

-----------------------------------------------------------------------------
(***************************************************************************)
(* Lemmas about the steps.                                                 *)
(***************************************************************************)

(* What every step does to the passkeys that exist.                        *)
Grows ==
  /\ keychain \subseteq keychain' /\ enrolled \subseteq enrolled'
  /\ \A k \in keychain : authored'[k] = authored[k]
  /\ challenge' \cap keychain \subseteq challenge

LEMMA PendingStaysOK ==
  ASSUME Grows, PendingInv, pending' = pending
  PROVE  PendingInv'
BY DEF PendingInv, Grows

LEMMA NoCallOK == NoCall \in Calls /\ CallOK(NoCall) /\ NoCall.at = "idle"
BY DEF NoCall, Calls, Places, Work, Policies, CallOK

(* A step of one call: the other calls are as they were.                   *)
LEMMA OneCallMoves ==
  ASSUME IInv, Grows, NEW p \in Pages, NEW c \in Calls,
         call' = [call EXCEPT ![p] = c],
         CallOK(c)'
  PROVE  /\ call' \in [Pages -> Calls]
         /\ call'[p] = c
         /\ \A q \in Pages \ {p} : call'[q] = call[q]
         /\ CallsInv'
<1>1. /\ call' \in [Pages -> Calls] /\ call'[p] = c
      /\ \A q \in Pages \ {p} : call'[q] = call[q]
  BY DEF IInv, TypeOK
<1>2. ASSUME NEW q \in Pages PROVE CallOK(call[q])'
  <2>1. CASE q = p
    BY <1>1, <2>1 DEF CallOK
  <2>2. CASE q # p
    <3>1. CallOK(call[q])
      BY DEF IInv, CallsInv
    <3>2. call'[q] = call[q]
      BY <1>1, <2>2
    <3> QED BY <3>1, <3>2 DEF CallOK, Grows, IInv, TypeOK
  <2> QED BY <2>1, <2>2
<1> QED BY <1>1, <1>2 DEF CallsInv

(* savePendingCreation() of a call's passkey forgets no other one that the *)
(* lost ones do not name.                                                  *)
LEMMA SavePendingFacts ==
  ASSUME IInv, NEW p \in Pages, NEW checkpoint \in Checkpoints, SavePending(p, checkpoint),
         checkpoint.passkey \in keychain
  PROVE  /\ pending' = checkpoint \/ pending' = pending
         /\ retained' \in [Pages -> Checkpoints \cup {None}]
         /\ lost \subseteq lost' /\ lost' \subseteq keychain
         /\ PendingPasskey' = checkpoint.passkey \/ checkpoint.passkey \in lost'
         /\ PendingPasskey # None => PendingPasskey' = PendingPasskey \/ PendingPasskey \in lost'
<1>1. checkpoint # None /\ checkpoint.passkey # None
  BY NoneIsNoCheckpoint, NoneIsNothing DEF Checkpoints
<1>2. PendingPasskey \in keychain \cup {None}
  BY DEF IInv, PendingInv, PendingPasskey
<1>3. retained' \in [Pages -> Checkpoints \cup {None}]
  BY DEF SavePending, IInv, TypeOK
<1>4. CASE pending' = checkpoint /\ lost' = lost \cup ({PendingPasskey} \ {None, checkpoint.passkey})
  <2>1. PendingPasskey' = checkpoint.passkey
    BY <1>1, <1>4 DEF PendingPasskey
  <2> QED BY <1>2, <1>3, <1>4, <2>1 DEF IInv, TypeOK
<1>5. CASE pending' = pending /\ lost' = lost \cup ({checkpoint.passkey} \ {PendingPasskey})
  <2>1. PendingPasskey' = PendingPasskey
    BY <1>5 DEF PendingPasskey
  <2> QED BY <1>2, <1>3, <1>5, <2>1 DEF IInv, TypeOK
<1> QED BY <1>4, <1>5 DEF SavePending

(* clearPendingCreation() forgets its own passkey only.                    *)
LEMMA ClearPendingFacts ==
  ASSUME IInv, NEW p \in Pages, NEW k \in Passkeys, ClearPending(p, k)
  PROVE  /\ pending' = pending \/ pending' = None
         /\ retained' \in [Pages -> Checkpoints \cup {None}]
         /\ PendingPasskey' = PendingPasskey \/ PendingPasskey = k
<1>1. retained' \in [Pages -> Checkpoints \cup {None}]
  BY DEF ClearPending, ReadPending, IInv, TypeOK
<1>2. CASE PendingPasskey = k
  BY <1>1, <1>2 DEF ClearPending
<1>3. CASE PendingPasskey # k
  BY <1>1, <1>3 DEF ClearPending, PendingPasskey
<1> QED BY <1>2, <1>3

(* A step of one call that neither makes a passkey nor changes what the    *)
(* checkpoint, the API's credentials or the outcomes say.                  *)
LEMMA CallAdvances ==
  ASSUME IInv, NEW p \in Pages, NEW c \in Calls,
         call' = [call EXCEPT ![p] = c],
         CallOK(c),
         UNCHANGED <<pending, keychain, challenge, enrolled, vaults, active,
                     authored, finished, absent>>,
         retained' \in [Pages -> Checkpoints \cup {None}],
         late' \subseteq keychain,
         lost \subseteq lost', lost' \subseteq keychain,
         call[p].at = "created" => call[p].work.passkey \in lost'
  PROVE  IInv'
<1>1. Grows
  BY DEF Grows
<1>2. CallOK(c)'
  BY DEF CallOK
<1>3. /\ call' \in [Pages -> Calls] /\ call'[p] = c
      /\ \A q \in Pages \ {p} : call'[q] = call[q]
      /\ CallsInv'
  BY <1>1, <1>2, OneCallMoves
<1>4. TypeOK'
  BY <1>3 DEF IInv, TypeOK
<1>5. PendingInv' /\ ApiInv'
  BY DEF IInv, PendingInv, ApiInv, ActiveWalletsHaveVaults
<1>6. KeptInv'
  <2> SUFFICES ASSUME NEW k \in keychain PROVE Kept(k)'
    BY DEF KeptInv
  <2>1. Kept(k) /\ PendingPasskey' = PendingPasskey
    BY DEF IInv, KeptInv, PendingPasskey
  <2> QED BY <1>3, <2>1 DEF Kept
<1> QED BY <1>3, <1>4, <1>5, <1>6 DEF IInv

(* A call that proceeds keeps what it holds.                               *)
LEMMA ProceedsFacts ==
  ASSUME IInv, NEW p \in Pages, NEW place \in Places, Proceeds(p, place)
  PROVE  /\ call[p] \in Calls /\ CallOK(call[p])
         /\ \E c \in Calls :
              /\ call' = [call EXCEPT ![p] = c]
              /\ c.at = place /\ c.work = call[p].work
              /\ c.commit = call[p].commit /\ c.deferred = call[p].deferred
              /\ c.resumes = call[p].resumes
<1> DEFINE c == [call[p] EXCEPT !.at = place]
<1>1. call[p] \in Calls /\ CallOK(call[p])
  BY DEF IInv, TypeOK, CallsInv
<1>2. /\ c \in Calls /\ c.at = place /\ c.work = call[p].work
      /\ c.commit = call[p].commit /\ c.deferred = call[p].deferred
      /\ c.resumes = call[p].resumes
  BY <1>1 DEF Calls
<1>3. call' = [call EXCEPT ![p] = c]
  BY DEF Proceeds, IInv, TypeOK
<1> HIDE DEF c
<1> QED BY <1>1, <1>2, <1>3

-----------------------------------------------------------------------------
(***************************************************************************)
(* The invariant.                                                          *)
(***************************************************************************)
LEMMA InitIInv == Init => IInv
BY NoCallOK
DEF Init, IInv, TypeOK, CallsInv, PendingInv, ApiInv, ActiveWalletsHaveVaults, KeptInv, Policies, CallOK

LEMMA BeginIInv ==
  ASSUME IInv, NEW p \in Pages, NEW policy \in Policies, NEW deferred \in BOOLEAN,
         NEW commit \in BOOLEAN, Begin(p, policy, deferred, commit)
  PROVE  IInv'
<1> DEFINE settings == Settings(policy, deferred, commit)
<1>1. /\ settings \in Calls /\ settings.at = "challenge" /\ settings.deferred = deferred
      /\ settings.work.passkey = None /\ ~settings.work.enrolled /\ settings.work.policy = policy
  <2>1. /\ NoCall \in Calls /\ NoCall.work.passkey = None /\ ~NoCall.work.enrolled
    BY NoCallOK DEF NoCall
  <2> QED BY <2>1 DEF Settings, Calls, Work, Places
<1>2. CallOK(settings)
  BY <1>1 DEF Begin, CallOK
<1>3. PICK c : /\ call' = [call EXCEPT ![p] = c]
               /\ c = IF RefusesPending(deferred) THEN NoCall
                      ELSE IF pending # None THEN Resumed(settings) ELSE settings
  BY DEF Begin
<1>4. c \in Calls /\ CallOK(c)
  <2>1. ASSUME pending # None, ~RefusesPending(deferred)
        PROVE  Resumed(settings) \in Calls /\ CallOK(Resumed(settings))
    <3>1. /\ pending \in Checkpoints /\ pending.passkey \in keychain
          /\ pending.policy = authored[pending.passkey]
          /\ pending.enrolled => pending.passkey \in enrolled /\ pending.passkey \notin challenge
      BY <2>1 DEF IInv, TypeOK, PendingInv, ApiInv
    <3>2. pending \in Work
      BY <3>1 DEF Checkpoints, Work
    <3>3. deferred => pending.policy = None
      BY <2>1 DEF RefusesPending
    <3>4. /\ Resumed(settings) \in Calls
          /\ Resumed(settings).at = IF pending.enrolled THEN "confirming" ELSE "completing"
          /\ Resumed(settings).work = pending /\ Resumed(settings).deferred = deferred
      BY <1>1, <3>2 DEF Resumed, Calls, Places
    <3> QED BY <3>1, <3>3, <3>4 DEF CallOK
  <2> QED BY <1>1, <1>2, <1>3, <2>1, NoCallOK
<1>5. /\ call[p].at = "idle" /\ retained' = [retained EXCEPT ![p] = pending]
      /\ UNCHANGED <<pending, keychain, challenge, enrolled, late, vaults, active, authored,
                     finished, absent, lost>>
  BY DEF Begin, ReadPending, apiVars, historyVars
<1>6. /\ retained' \in [Pages -> Checkpoints \cup {None}]
      /\ late' \subseteq keychain /\ lost' \subseteq keychain
  BY <1>5 DEF IInv, TypeOK
<1> QED BY <1>3, <1>4, <1>5, <1>6, CallAdvances

LEMMA PasskeyIsMadeIInv ==
  ASSUME IInv, NEW p \in Pages, NEW k \in Passkeys, PasskeyIsMade(p, k)
  PROVE  IInv'
<1>1. /\ call[p] \in Calls /\ CallOK(call[p]) /\ call[p].at = "registering"
      /\ k \notin keychain
  BY DEF PasskeyIsMade, IInv, TypeOK, CallsInv
<1>2. /\ keychain' = keychain \cup {k} /\ challenge' = challenge \cup {k}
      /\ authored' = [authored EXCEPT ![k] = call[p].work.policy]
      /\ UNCHANGED <<pending, retained, enrolled, late, vaults, active, finished, absent, lost>>
  BY DEF PasskeyIsMade, checkpointVars
<1>3. PICK c : /\ call' = [call EXCEPT ![p] = c]
               /\ c = [call[p] EXCEPT !.at = "created", !.work.passkey = k]
  BY DEF PasskeyIsMade
<1>4. /\ c \in Calls /\ c.at = "created" /\ c.work.passkey = k
      /\ c.work.policy = call[p].work.policy /\ c.work.enrolled = call[p].work.enrolled
      /\ c.deferred = call[p].deferred
  BY <1>1, <1>3 DEF Calls, Work, Places
<1>5. /\ authored' \in [Passkeys -> Policies] /\ authored'[k] = call[p].work.policy
      /\ \A j \in Passkeys \ {k} : authored'[j] = authored[j]
  BY <1>1, <1>2 DEF IInv, TypeOK, Calls, Work
<1>6. Grows
  BY <1>1, <1>2, <1>5 DEF Grows, IInv, TypeOK
<1>7. CallOK(c)'
  BY <1>1, <1>2, <1>4, <1>5 DEF CallOK
<1>8. /\ call' \in [Pages -> Calls] /\ call'[p] = c
      /\ \A q \in Pages \ {p} : call'[q] = call[q]
      /\ CallsInv'
  BY <1>3, <1>4, <1>6, <1>7, OneCallMoves
<1>9. TypeOK'
  BY <1>2, <1>5, <1>8 DEF IInv, TypeOK
<1>10. PendingInv'
  BY <1>2, <1>6, PendingStaysOK DEF IInv
<1>11. ApiInv'
  BY <1>1, <1>2, <1>5 DEF IInv, TypeOK, ApiInv, ActiveWalletsHaveVaults
<1>12. KeptInv'
  <2> SUFFICES ASSUME NEW j \in keychain' PROVE Kept(j)'
    BY DEF KeptInv
  <2>1. CASE j = k
    BY <1>4, <1>8, <2>1 DEF Kept
  <2>2. CASE j # k
    <3>1. Kept(j) /\ PendingPasskey' = PendingPasskey
      BY <1>2, <2>2 DEF IInv, KeptInv, PendingPasskey
    <3> QED BY <1>1, <1>2, <1>8, <3>1 DEF Kept
  <2> QED BY <2>1, <2>2
<1> QED BY <1>8, <1>9, <1>10, <1>11, <1>12 DEF IInv

(* A step of one call that saves a checkpoint of its passkey.              *)
LEMMA CallSaves ==
  ASSUME IInv, NEW p \in Pages, NEW checkpoint \in Checkpoints, NEW c \in Calls,
         SavePending(p, checkpoint),
         call' = [call EXCEPT ![p] = c], c.at # "created",
         call[p].work.passkey = checkpoint.passkey,
         checkpoint.passkey \in keychain,
         checkpoint.policy = authored[checkpoint.passkey],
         checkpoint.enrolled => checkpoint.passkey \in enrolled',
         CallOK(c)',
         challenge' \subseteq challenge, enrolled \subseteq enrolled', enrolled' \subseteq keychain,
         enrolled' \cap challenge' = {}, absent \cap enrolled' = {},
         UNCHANGED <<keychain, late, vaults, active, authored, finished, absent>>
  PROVE  IInv'
<1>1. Grows
  BY DEF Grows
<1>2. /\ call' \in [Pages -> Calls] /\ call'[p] = c
      /\ \A q \in Pages \ {p} : call'[q] = call[q]
      /\ CallsInv'
  BY <1>1, OneCallMoves
<1>3. /\ pending' = checkpoint \/ pending' = pending
      /\ retained' \in [Pages -> Checkpoints \cup {None}]
      /\ lost \subseteq lost' /\ lost' \subseteq keychain
      /\ PendingPasskey' = checkpoint.passkey \/ checkpoint.passkey \in lost'
      /\ PendingPasskey # None => PendingPasskey' = PendingPasskey \/ PendingPasskey \in lost'
  BY SavePendingFacts
<1>4. TypeOK'
  BY <1>2, <1>3 DEF IInv, TypeOK
<1>5. PendingInv'
  <2>1. CASE pending' = checkpoint
    BY <2>1 DEF PendingInv
  <2>2. CASE pending' = pending
    BY <1>1, <2>2, PendingStaysOK DEF IInv
  <2> QED BY <1>3, <2>1, <2>2
<1>6. ApiInv'
  BY DEF IInv, ApiInv, ActiveWalletsHaveVaults
<1>7. KeptInv'
  <2> SUFFICES ASSUME NEW k \in keychain PROVE Kept(k)'
    BY DEF KeptInv
  <2>1. Kept(k) /\ k # None
    BY NoneIsNothing DEF IInv, KeptInv, TypeOK
  <2>2. CASE k \in finished \cup absent \cup lost
    BY <1>3, <2>2 DEF Kept
  <2>3. CASE PendingPasskey = k
    BY <1>3, <2>1, <2>3 DEF Kept
  <2>4. CASE \E q \in Pages : call[q].at = "created" /\ call[q].work.passkey = k
    <3>1. PICK q \in Pages : call[q].at = "created" /\ call[q].work.passkey = k
      BY <2>4
    <3>2. CASE q = p
      BY <1>3, <3>1, <3>2 DEF Kept
    <3>3. CASE q # p
      BY <1>2, <3>1, <3>3 DEF Kept
    <3> QED BY <3>2, <3>3
  <2> QED BY <2>1, <2>2, <2>3, <2>4 DEF Kept
<1> QED BY <1>2, <1>4, <1>5, <1>6, <1>7 DEF IInv

LEMMA RegistrationReturnsIInv ==
  ASSUME IInv, NEW p \in Pages, RegistrationReturns(p)
  PROVE  IInv'
<1>1. /\ call[p].at = "created" /\ SavePending(p, call[p].work) /\ Proceeds(p, "completing")
      /\ UNCHANGED <<keychain, challenge, enrolled, late, vaults, active, authored,
                     finished, absent>>
  BY DEF RegistrationReturns, apiVars
<1>2. /\ call[p] \in Calls /\ CallOK(call[p]) /\ "completing" \in Places
  BY DEF IInv, TypeOK, CallsInv, Places
<1>3. PICK c \in Calls :
        /\ call' = [call EXCEPT ![p] = c] /\ c.at = "completing" /\ c.work = call[p].work
        /\ c.deferred = call[p].deferred
  BY <1>1, <1>2, ProceedsFacts
<1>4. /\ call[p].work.passkey \in keychain
      /\ call[p].work.policy = authored[call[p].work.passkey]
      /\ call[p].work.enrolled => call[p].work.passkey \in enrolled
      /\ call[p].work \in Checkpoints
  BY <1>1, <1>2 DEF CallOK, Calls, Work, Checkpoints, IInv, TypeOK
<1>5. CallOK(c)'
  BY <1>1, <1>2, <1>3, <1>4 DEF CallOK
<1> QED BY <1>1, <1>3, <1>4, <1>5, CallSaves DEF IInv, TypeOK, ApiInv

(* Both ways to know that the enrollment is saved.                         *)
LEMMA EnrollmentKnownIInv ==
  ASSUME IInv, NEW p \in Pages,
         call[p].at \in {"completing", "verifying"},
         SavePending(p, [call[p].work EXCEPT !.enrolled = TRUE]),
         call' = [call EXCEPT ![p] = [@ EXCEPT !.at = "finalizing", !.work.enrolled = TRUE]],
         challenge' \subseteq challenge, enrolled \subseteq enrolled', enrolled' \subseteq keychain,
         call[p].work.passkey \in enrolled',
         enrolled' \cap challenge' = {}, absent \cap enrolled' = {},
         UNCHANGED <<keychain, late, vaults, active, authored, finished, absent>>
  PROVE  IInv'
<1>1. call[p] \in Calls /\ CallOK(call[p])
  BY DEF IInv, TypeOK, CallsInv
<1>2. /\ call[p].work.passkey \in keychain
      /\ call[p].work.policy = authored[call[p].work.passkey]
      /\ call[p].work \in Checkpoints
  BY <1>1 DEF CallOK, Calls, Work, Checkpoints, IInv, TypeOK
<1>3. PICK checkpoint \in Checkpoints :
        /\ SavePending(p, checkpoint)
        /\ checkpoint.passkey = call[p].work.passkey
        /\ checkpoint.policy = call[p].work.policy
  <2>1. /\ [call[p].work EXCEPT !.enrolled = TRUE] \in Checkpoints
        /\ [call[p].work EXCEPT !.enrolled = TRUE].passkey = call[p].work.passkey
        /\ [call[p].work EXCEPT !.enrolled = TRUE].policy = call[p].work.policy
    BY <1>2 DEF Checkpoints
  <2> QED BY <2>1
<1>4. PICK c \in Calls :
        /\ call' = [call EXCEPT ![p] = c] /\ c.at = "finalizing"
        /\ c.work.passkey = call[p].work.passkey /\ c.work.policy = call[p].work.policy
        /\ c.deferred = call[p].deferred
  <2> DEFINE moved == [call[p] EXCEPT !.at = "finalizing", !.work.enrolled = TRUE]
  <2>1. /\ moved \in Calls /\ moved.at = "finalizing"
        /\ moved.work.passkey = call[p].work.passkey /\ moved.work.policy = call[p].work.policy
        /\ moved.deferred = call[p].deferred
    BY <1>1 DEF Calls, Work, Places
  <2>2. call' = [call EXCEPT ![p] = moved]
    OBVIOUS
  <2> HIDE DEF moved
  <2> QED BY <2>1, <2>2
<1>5. CallOK(c)'
  BY <1>1, <1>2, <1>4 DEF CallOK
<1> QED BY <1>2, <1>3, <1>4, <1>5, CallSaves

LEMMA EnrollmentAcceptedIInv ==
  ASSUME IInv, NEW p \in Pages, EnrollmentAccepted(p)
  PROVE  IInv'
<1> DEFINE k == call[p].work.passkey
<1>1. /\ call[p].at = "completing" /\ k \in challenge
      /\ challenge' = challenge \ {k} /\ enrolled' = enrolled \cup {k}
      /\ SavePending(p, [call[p].work EXCEPT !.enrolled = TRUE])
      /\ call' = [call EXCEPT ![p] = [@ EXCEPT !.at = "finalizing", !.work.enrolled = TRUE]]
      /\ UNCHANGED <<keychain, late, vaults, active, authored, finished, absent>>
  BY DEF EnrollmentAccepted
<1>2. /\ enrolled' \subseteq keychain
      /\ enrolled' \cap challenge' = {} /\ absent \cap enrolled' = {}
  BY <1>1 DEF IInv, TypeOK, ApiInv
<1> QED BY <1>1, <1>2, EnrollmentKnownIInv

LEMMA PasskeyVerifiedIInv ==
  ASSUME IInv, NEW p \in Pages, PasskeyVerified(p)
  PROVE  IInv'
BY EnrollmentKnownIInv DEF PasskeyVerified, apiVars, IInv, TypeOK, ApiInv

(* The steps of a call that keep what it holds: it goes on to a place      *)
(* where no more is asked of it than before, or than was just found.       *)
LEMMA CallProceeds ==
  ASSUME IInv, NEW p \in Pages, NEW place \in Places, Proceeds(p, place),
         call[p].at # "created",
         \/ call[p].at = "challenge" /\ place = "registering"
         \/ call[p].at \in {"completing", "confirming"} /\ place \in {"confirming", "verifying"}
              /\ call[p].work.passkey \notin challenge,
         UNCHANGED <<checkpointVars, keychain, apiVars, active, historyVars>>
  PROVE  IInv'
<1>1. /\ call[p] \in Calls /\ CallOK(call[p])
  BY ProceedsFacts
<1>2. PICK c \in Calls :
        /\ call' = [call EXCEPT ![p] = c] /\ c.at = place /\ c.work = call[p].work
        /\ c.deferred = call[p].deferred
  BY ProceedsFacts
<1>3. CallOK(c)
  BY <1>1, <1>2 DEF CallOK
<1>4. /\ UNCHANGED <<pending, retained, keychain, challenge, enrolled, late, vaults, active,
                     authored, finished, absent, lost>>
      /\ retained' \in [Pages -> Checkpoints \cup {None}]
      /\ late' \subseteq keychain /\ lost' \subseteq keychain
  BY DEF checkpointVars, apiVars, historyVars, IInv, TypeOK
<1> QED BY <1>2, <1>3, <1>4, CallAdvances

(* The steps that end a call and touch neither checkpoint nor credentials. *)
LEMMA CallStops ==
  ASSUME IInv, NEW p \in Pages, CallEnds(p),
         UNCHANGED <<pending, keychain, challenge, enrolled, vaults, active,
                     authored, finished, absent>>,
         retained' \in [Pages -> Checkpoints \cup {None}],
         late' \subseteq keychain,
         lost \subseteq lost', lost' \subseteq keychain,
         call[p].at = "created" => call[p].work.passkey \in lost'
  PROVE  IInv'
BY NoCallOK, CallAdvances DEF CallEnds

LEMMA ChallengeArrivesIInv ==
  ASSUME IInv, NEW p \in Pages, ChallengeArrives(p)
  PROVE  IInv'
<1>1. "registering" \in Places
  BY DEF Places
<1> QED BY <1>1, CallProceeds DEF ChallengeArrives

LEMMA EnrollmentRefusedIInv ==
  ASSUME IInv, NEW p \in Pages, EnrollmentRefused(p)
  PROVE  IInv'
<1>1. /\ "confirming" \in Places
      /\ call[p].at = "completing" /\ call[p].work.passkey \notin challenge
      /\ UNCHANGED <<checkpointVars, keychain, apiVars, active, historyVars>>
  BY DEF EnrollmentRefused, Places
<1>2. CASE Proceeds(p, "confirming")
  BY <1>1, <1>2, CallProceeds
<1>3. CASE CallEnds(p)
  BY <1>1, <1>3, CallStops DEF IInv, TypeOK, checkpointVars, apiVars, historyVars
<1> QED BY <1>2, <1>3 DEF EnrollmentRefused

LEMMA EnrollmentUnansweredIInv ==
  ASSUME IInv, NEW p \in Pages, EnrollmentUnanswered(p)
  PROVE  IInv'
<1>1. /\ call[p].at = "completing" /\ CallEnds(p)
      /\ late' \in {late, late \cup {call[p].work.passkey}}
      /\ UNCHANGED <<pending, retained, keychain, challenge, enrolled, vaults, active,
                     authored, finished, absent, lost>>
  BY DEF EnrollmentUnanswered, checkpointVars, historyVars
<1>2. call[p].work.passkey \in keychain
  BY <1>1 DEF IInv, CallsInv, CallOK
<1> QED BY <1>1, <1>2, CallStops DEF IInv, TypeOK

LEMMA PasskeyConfirmedIInv ==
  ASSUME IInv, NEW p \in Pages, PasskeyConfirmed(p)
  PROVE  IInv'
<1>1. "verifying" \in Places
  BY DEF Places
<1>2. call[p].at = "confirming" /\ call[p].work.passkey \notin challenge
  BY DEF PasskeyConfirmed, IInv, CallsInv, CallOK
<1> QED BY <1>1, <1>2, CallProceeds DEF PasskeyConfirmed

LEMMA LegFailsIInv ==
  ASSUME IInv, NEW p \in Pages, LegFails(p)
  PROVE  IInv'
BY CallStops DEF LegFails, IInv, TypeOK, checkpointVars, apiVars, historyVars

LEMMA ReloadIInv ==
  ASSUME IInv, NEW p \in Pages, Reload(p)
  PROVE  IInv'
<1> DEFINE k == call[p].work.passkey
<1>1. /\ retained' = [retained EXCEPT ![p] = None] /\ CallEnds(p)
      /\ late' \in {late, late \cup (IF call[p].at = "completing" THEN {k} ELSE {})}
      /\ lost' = lost \cup (IF call[p].at = "created" THEN {k} ELSE {})
      /\ UNCHANGED <<pending, keychain, challenge, enrolled, vaults, active,
                     authored, finished, absent>>
  BY DEF Reload
<1>2. call[p].at \in {"created", "completing"} => k \in keychain
  BY DEF IInv, CallsInv, CallOK
<1>3. /\ retained' \in [Pages -> Checkpoints \cup {None}]
      /\ late' \subseteq keychain /\ lost \subseteq lost' /\ lost' \subseteq keychain
      /\ call[p].at = "created" => k \in lost'
  BY <1>1, <1>2 DEF IInv, TypeOK
<1> QED BY <1>1, <1>3, CallStops

(* A step that ends a call, with the passkey it worked on accounted for,   *)
(* and forgets the checkpoint of that passkey.                             *)
LEMMA CallConcludes ==
  ASSUME IInv, NEW p \in Pages, NEW k \in keychain,
         call[p].work.passkey = k, call[p].at # "created",
         ClearPending(p, k), CallEnds(p),
         finished \subseteq finished', absent \subseteq absent',
         finished' \subseteq keychain, absent' \subseteq keychain,
         k \in finished' \cup absent',
         absent' \cap challenge = {}, absent' \cap enrolled = {},
         active' \subseteq keychain, \A j \in active' : vaults[j] # NoVault,
         UNCHANGED <<keychain, challenge, enrolled, late, vaults, authored, lost>>
  PROVE  IInv'
<1>1. k \in Passkeys
  BY DEF IInv, TypeOK
<1>2. /\ pending' = pending \/ pending' = None
      /\ retained' \in [Pages -> Checkpoints \cup {None}]
      /\ PendingPasskey' = PendingPasskey \/ PendingPasskey = k
  BY <1>1, ClearPendingFacts
<1>3. Grows
  BY DEF Grows
<1>4. CallOK(NoCall)'
  BY NoCallOK DEF CallOK, NoCall
<1>5. /\ call' \in [Pages -> Calls] /\ call'[p] = NoCall
      /\ \A q \in Pages \ {p} : call'[q] = call[q]
      /\ CallsInv'
  BY <1>3, <1>4, NoCallOK, OneCallMoves DEF CallEnds
<1>6. TypeOK'
  BY <1>2, <1>5 DEF IInv, TypeOK
<1>7. PendingInv'
  BY <1>2, <1>3, PendingStaysOK DEF IInv, PendingInv
<1>8. ApiInv'
  BY DEF IInv, ApiInv, ActiveWalletsHaveVaults
<1>9. KeptInv'
  <2> SUFFICES ASSUME NEW j \in keychain PROVE Kept(j)'
    BY DEF KeptInv
  <2>1. Kept(j)
    BY DEF IInv, KeptInv
  <2>2. CASE j = k \/ j \in finished \cup absent \cup lost
    BY <2>2 DEF Kept
  <2>3. CASE j # k /\ PendingPasskey = j
    BY <1>2, <2>3 DEF Kept
  <2>4. CASE \E q \in Pages : call[q].at = "created" /\ call[q].work.passkey = j
    BY <1>5, <2>4 DEF Kept
  <2> QED BY <2>1, <2>2, <2>3, <2>4 DEF Kept
<1> QED BY <1>5, <1>6, <1>7, <1>8, <1>9 DEF IInv

LEMMA PasskeyUnknownIInv ==
  ASSUME IInv, NEW p \in Pages, PasskeyUnknown(p)
  PROVE  IInv'
<1>1. /\ call[p].at = "verifying" /\ call[p].work.passkey \notin enrolled
      /\ ClearPending(p, call[p].work.passkey) /\ CallEnds(p)
      /\ absent' = absent \cup {call[p].work.passkey}
      /\ UNCHANGED <<keychain, challenge, enrolled, late, vaults, active, authored,
                     finished, lost>>
  BY DEF PasskeyUnknown, apiVars
<1>2. call[p].work.passkey \in keychain /\ call[p].work.passkey \notin challenge
  BY <1>1 DEF IInv, CallsInv, CallOK
<1>3. /\ absent' \subseteq keychain /\ finished' \subseteq keychain /\ active' \subseteq keychain
      /\ absent' \cap challenge = {} /\ absent' \cap enrolled = {}
      /\ \A j \in active' : vaults[j] # NoVault
  BY <1>1, <1>2 DEF IInv, TypeOK, ApiInv, ActiveWalletsHaveVaults
<1> QED BY <1>1, <1>2, <1>3, CallConcludes

LEMMA VaultAnsweredIInv ==
  ASSUME IInv, NEW p \in Pages, VaultAnswered(p)
  PROVE  IInv'
<1> DEFINE k == call[p].work.passkey
<1>1. /\ call[p].at = "finalizing" /\ vaults[k] # NoVault /\ ClearPending(p, k) /\ CallEnds(p)
      /\ active' \in {IF call[p].commit THEN active \cup {k} ELSE active}
                        \cup {s \in {active} : WritesMayFail}
      /\ finished' = finished \cup {k}
      /\ UNCHANGED <<keychain, challenge, enrolled, late, vaults, authored, absent, lost>>
  BY DEF VaultAnswered, apiVars
<1>2. k \in keychain
  BY <1>1 DEF IInv, CallsInv, CallOK
<1>3. active' = active \/ active' = active \cup {k}
  BY <1>1
<1>4. /\ absent' \subseteq keychain /\ finished' \subseteq keychain /\ active' \subseteq keychain
      /\ absent' \cap challenge = {} /\ absent' \cap enrolled = {}
      /\ \A j \in active' : vaults[j] # NoVault
  BY <1>1, <1>2, <1>3 DEF IInv, TypeOK, ApiInv, ActiveWalletsHaveVaults
<1> QED BY <1>1, <1>2, <1>4, CallConcludes

(* What the API does of its own changes no call.                           *)
LEMMA ApiMoves ==
  ASSUME IInv, UNCHANGED <<checkpointVars, call, keychain, active, historyVars>>,
         challenge' \subseteq challenge, enrolled \subseteq enrolled', enrolled' \subseteq keychain,
         late' \subseteq keychain, vaults' \in [Passkeys -> Policies \cup {NoVault}],
         ApiInv'
  PROVE  IInv'
<1>1. /\ UNCHANGED <<pending, retained, call, keychain, active, authored, finished, absent, lost>>
  BY DEF checkpointVars, historyVars
<1>2. Grows
  BY <1>1 DEF Grows
<1>3. TypeOK'
  BY <1>1 DEF IInv, TypeOK
<1>4. CallsInv'
  <2> SUFFICES ASSUME NEW p \in Pages PROVE CallOK(call[p])'
    BY DEF CallsInv
  <2>1. CallOK(call[p]) /\ call'[p] = call[p]
    BY <1>1 DEF IInv, CallsInv
  <2> QED BY <1>1, <2>1 DEF CallOK
<1>5. PendingInv'
  BY <1>1, <1>2, PendingStaysOK DEF IInv
<1>6. KeptInv'
  BY <1>1 DEF IInv, KeptInv, Kept, PendingPasskey
<1> QED BY <1>3, <1>4, <1>5, <1>6 DEF IInv

LEMMA ChallengeExpiresIInv ==
  ASSUME IInv, NEW k \in Passkeys, ChallengeExpires(k)
  PROVE  IInv'
<1>1. ApiInv'
  BY DEF ChallengeExpires, IInv, ApiInv, ActiveWalletsHaveVaults, historyVars
<1> QED BY <1>1, ApiMoves DEF ChallengeExpires, IInv, TypeOK

LEMMA LateEnrollmentIInv ==
  ASSUME IInv, NEW k \in Passkeys, LateEnrollment(k)
  PROVE  IInv'
<1>1. ApiInv'
  BY DEF LateEnrollment, IInv, ApiInv, ActiveWalletsHaveVaults, historyVars
<1> QED BY <1>1, ApiMoves DEF LateEnrollment, IInv, TypeOK

LEMMA VaultInitializedIInv ==
  ASSUME IInv, NEW p \in Pages, VaultInitialized(p)
  PROVE  IInv'
<1> DEFINE k == call[p].work.passkey
<1>1. /\ call[p].at = "finalizing" /\ vaults' = [vaults EXCEPT ![k] = call[p].work.policy]
      /\ UNCHANGED <<checkpointVars, call, keychain, challenge, enrolled, late, active,
                     historyVars>>
  BY DEF VaultInitialized
<1>2. /\ k \in keychain /\ k \in Passkeys /\ call[p].work.policy = authored[k]
      /\ authored[k] \in Policies
  BY <1>1 DEF IInv, TypeOK, CallsInv, CallOK
<1>3. /\ vaults' \in [Passkeys -> Policies \cup {NoVault}]
      /\ \A j \in Passkeys : vaults'[j] = IF j = k THEN authored[k] ELSE vaults[j]
  BY <1>1, <1>2 DEF IInv, TypeOK
<1>4. ApiInv'
  BY <1>1, <1>2, <1>3, NoVaultIsNoPolicy
  DEF IInv, TypeOK, ApiInv, ActiveWalletsHaveVaults, historyVars, Policies
<1> QED BY <1>1, <1>3, <1>4, ApiMoves DEF IInv, TypeOK

-----------------------------------------------------------------------------
LEMMA NextIInv == IInv /\ [Next]_vars => IInv'
<1> SUFFICES ASSUME IInv, [Next]_vars PROVE IInv'
  OBVIOUS
<1>1. ASSUME NEW p \in Pages, Creating(p) PROVE IInv'
  BY <1>1, BeginIInv DEF Creating
<1>2. ASSUME NEW p \in Pages, Running(p) PROVE IInv'
  BY <1>2, ChallengeArrivesIInv, PasskeyIsMadeIInv, RegistrationReturnsIInv,
     EnrollmentAcceptedIInv, EnrollmentRefusedIInv, EnrollmentUnansweredIInv,
     PasskeyConfirmedIInv, PasskeyVerifiedIInv, PasskeyUnknownIInv, VaultAnsweredIInv,
     LegFailsIInv
  DEF Running
<1>3. CASE UNCHANGED vars
  <2>1. ApiInv'
    BY <1>3 DEF vars, apiVars, historyVars, IInv, ApiInv, ActiveWalletsHaveVaults
  <2> QED BY <1>3, <2>1, ApiMoves DEF vars, apiVars, IInv, TypeOK
<1> QED BY <1>1, <1>2, <1>3, ReloadIInv, ChallengeExpiresIInv, LateEnrollmentIInv,
           VaultInitializedIInv
        DEF Next

LEMMA IInvHolds == Spec => []IInv
BY InitIInv, NextIInv, PTL DEF Spec

(* The terms of a vault are decided when it is initialized, and those of a *)
(* passkey when it is made, at which time it has no vault.                 *)
LEMMA TermsStay ==
  ASSUME IInv, TermsAreKept, [Next]_vars
  PROVE  TermsAreKept'
<1>1. ASSUME NEW p \in Pages, NEW k \in Passkeys, PasskeyIsMade(p, k)
      PROVE  TermsAreKept'
  <2>1. /\ vaults[k] = NoVault /\ vaults' = vaults
        /\ \A j \in Passkeys \ {k} : authored'[j] = authored[j]
    BY <1>1 DEF PasskeyIsMade, IInv, TypeOK, ApiInv
  <2> QED BY <2>1 DEF TermsAreKept
<1>2. ASSUME NEW p \in Pages, VaultInitialized(p)
      PROVE  TermsAreKept'
  <2>1. /\ call[p].work.policy = authored[call[p].work.passkey]
        /\ vaults' = [vaults EXCEPT ![call[p].work.passkey] = call[p].work.policy]
        /\ authored' = authored
    BY <1>2 DEF VaultInitialized, IInv, CallsInv, CallOK, historyVars
  <2> QED BY <2>1 DEF TermsAreKept, IInv, TypeOK
<1>3. CASE UNCHANGED <<vaults, authored>>
  BY <1>3 DEF TermsAreKept
<1>4. ASSUME NEW p \in Pages, Creating(p) \/ Reload(p)
      PROVE  UNCHANGED <<vaults, authored>>
  BY <1>4 DEF Creating, Begin, Reload, apiVars, historyVars
<1>5. ASSUME NEW p \in Pages, Running(p), \A k \in Passkeys : ~PasskeyIsMade(p, k)
      PROVE  UNCHANGED <<vaults, authored>>
  BY <1>5 DEF Running, ChallengeArrives, RegistrationReturns, EnrollmentAccepted,
     EnrollmentRefused, EnrollmentUnanswered, PasskeyConfirmed, PasskeyVerified,
     PasskeyUnknown, VaultAnswered, LegFails, apiVars, historyVars
<1>6. ASSUME NEW k \in Passkeys, ChallengeExpires(k) \/ LateEnrollment(k)
      PROVE  UNCHANGED <<vaults, authored>>
  BY <1>6 DEF ChallengeExpires, LateEnrollment, historyVars
<1>7. ASSUME UNCHANGED vars PROVE UNCHANGED <<vaults, authored>>
  BY <1>7 DEF vars, apiVars, historyVars
<1> QED BY <1>1, <1>2, <1>3, <1>4, <1>5, <1>6, <1>7 DEF Next

-----------------------------------------------------------------------------
(***************************************************************************)
(* The theorems.                                                           *)
(***************************************************************************)

(* Every variable keeps its type; the checkpoint in storage is well formed *)
(* whatever pages, failed writes and reloads left of it.                   *)
THEOREM TypeCorrect == Spec => []TypeOK
BY IInvHolds, PTL DEF IInv

(* A passkey whose creation is not over is the one the checkpoint in       *)
(* storage names, or one a running createWallet() works on: failures and   *)
(* reloads leave none that nobody remembers, but for those another page's  *)
(* checkpoint replaced.                                                    *)
THEOREM PasskeysAreRemembered == Spec => []PasskeysAreKept
<1>1. IInv => PasskeysAreKept
  BY DEF IInv, KeptInv, Kept, PasskeysAreKept, Unfinished, InWork
<1> QED BY <1>1, IInvHolds, PTL

(* A passkey that createWallet() reported as enrollment_not_saved is never *)
(* enrolled afterwards, not even by a request that arrives late.           *)
THEOREM AbsenceIsFinal == Spec => []AbsentStaysAbsent
<1>1. IInv => AbsentStaysAbsent
  BY DEF IInv, ApiInv, AbsentStaysAbsent
<1> QED BY <1>1, IInvHolds, PTL

(* Whichever call initializes the vault of a passkey, on whichever page,   *)
(* the vault gets the spend policy its first call was asked for.           *)
THEOREM VaultsKeepTheirTerms == Spec => []TermsAreKept
<1>1. Init => TermsAreKept
  BY DEF Init, TermsAreKept
<1>2. IInv /\ TermsAreKept /\ [Next]_vars => TermsAreKept'
  BY TermsStay
<1> QED BY <1>1, <1>2, IInvHolds, PTL DEF Spec

(* A call that defers agent authority never works with an allowance, not   *)
(* even when it resumes what another page began with one.                  *)
THEOREM DeferringGrantsNothing == Spec => []DeferredMeansOwnerOnly
<1>1. IInv => DeferredMeansOwnerOnly
  BY DEF IInv, CallsInv, CallOK, DeferredMeansOwnerOnly
<1> QED BY <1>1, IInvHolds, PTL
-----------------------------------------------------------------------------
(***************************************************************************)
(* Sign-ins beside creations.  They keep the invariant of the creations;   *)
(* a ceremony that was given a passkey holds one that exists.              *)
(***************************************************************************)
SignInOK(s) == s.at \in {"verifying", "status", "initializing"} => s.passkey \in keychain

SignInInv ==
  /\ IInv
  /\ signIn \in [Pages -> SignIns]
  /\ \A p \in Pages : SignInOK(signIn[p])

LEMMA NoSignInOK == NoSignIn \in SignIns /\ NoSignIn.at = "idle"
BY DEF NoSignIn, SignIns, Choices, NoChoice

(* A step of one ceremony.                                                 *)
LEMMA OneSignInMoves ==
  ASSUME SignInInv, IInv', keychain \subseteq keychain', NEW p \in Pages,
         NEW s \in SignIns, signIn' = [signIn EXCEPT ![p] = s], SignInOK(s)
  PROVE  SignInInv'
<1>1. /\ signIn' \in [Pages -> SignIns] /\ signIn'[p] = s
      /\ \A q \in Pages \ {p} : signIn'[q] = signIn[q]
  BY DEF SignInInv
<1>2. ASSUME NEW q \in Pages PROVE SignInOK(signIn[q])'
  <2>1. SignInOK(signIn[q])
    BY DEF SignInInv
  <2> QED BY <1>1, <2>1 DEF SignInOK
<1> QED BY <1>1, <1>2 DEF SignInInv

LEMMA SignInStops ==
  ASSUME SignInInv, IInv', keychain \subseteq keychain', NEW p \in Pages, SignInEnds(p)
  PROVE  SignInInv'
BY NoSignInOK, OneSignInMoves DEF SignInEnds, SignInOK

(* A ceremony that goes on with the passkey it has, or waits for one.      *)
LEMMA SignInGoesOn ==
  ASSUME SignInInv, UNCHANGED vars, NEW p \in Pages,
         NEW place \in {"asking", "status", "initializing"}, SignInProceeds(p, place),
         place = "asking" \/ signIn[p].at \in {"verifying", "status"}
  PROVE  SignInInv'
<1>1. IInv' /\ keychain' = keychain
  BY NextIInv DEF SignInInv, vars
<1> DEFINE s == [signIn[p] EXCEPT !.at = place]
<1>2. s \in SignIns /\ SignInOK(s) /\ signIn' = [signIn EXCEPT ![p] = s]
  BY DEF SignInInv, SignIns, SignInOK, SignInProceeds
<1> HIDE DEF s
<1> QED BY <1>1, <1>2, OneSignInMoves

(* Remembering a Wallet that has a vault forgets no other passkey.         *)
LEMMA SignedInSignInInv ==
  ASSUME SignInInv, NEW p \in Pages, NEW k \in keychain, vaults[k] # NoVault, SignedIn(p, k)
  PROVE  SignInInv'
<1>1. /\ IInv /\ k \in Passkeys
      /\ active' \in {active, active \cup {k}}
      /\ finished' = finished \cup {k}
      /\ SignInEnds(p)
      /\ UNCHANGED <<call, keychain, challenge, enrolled, late, vaults, authored, absent, lost>>
  BY DEF SignInInv, IInv, TypeOK, SignedIn, Activates
<1>2. /\ pending' = pending \/ pending' = None
      /\ retained' \in [Pages -> Checkpoints \cup {None}]
      /\ PendingPasskey' = PendingPasskey \/ PendingPasskey = k
  <2>1. CASE ClearPending(p, k)
    BY <1>1, <2>1, ClearPendingFacts
  <2>2. CASE UNCHANGED checkpointVars
    BY <1>1, <2>2 DEF checkpointVars, PendingPasskey, IInv, TypeOK
  <2> QED BY <2>1, <2>2 DEF SignedIn
<1>3. Grows
  BY <1>1 DEF Grows
<1>4. TypeOK'
  BY <1>1, <1>2 DEF IInv, TypeOK
<1>5. CallsInv'
  <2> SUFFICES ASSUME NEW q \in Pages PROVE CallOK(call[q])'
    BY DEF CallsInv
  <2>1. CallOK(call[q]) /\ call'[q] = call[q]
    BY <1>1 DEF IInv, CallsInv
  <2> QED BY <1>1, <2>1 DEF CallOK
<1>6. PendingInv'
  BY <1>1, <1>2, <1>3, PendingStaysOK DEF IInv, PendingInv
<1>7. ApiInv'
  BY <1>1 DEF IInv, ApiInv, ActiveWalletsHaveVaults
<1>8. KeptInv'
  <2> SUFFICES ASSUME NEW j \in keychain PROVE Kept(j)'
    BY <1>1 DEF KeptInv
  <2>1. Kept(j)
    BY <1>1 DEF IInv, KeptInv
  <2> QED BY <1>1, <1>2, <2>1 DEF Kept
<1>9. IInv'
  BY <1>4, <1>5, <1>6, <1>7, <1>8 DEF IInv
<1> QED BY <1>1, <1>9, SignInStops

LEMMA RecoveryInitializesSignInInv ==
  ASSUME SignInInv, NEW p \in Pages, RecoveryInitializes(p)
  PROVE  SignInInv'
<1> DEFINE k == signIn[p].passkey
<1>1. /\ IInv /\ k \in keychain /\ vaults' = [vaults EXCEPT ![k] = None]
      /\ UNCHANGED <<checkpointVars, call, keychain, challenge, enrolled, late, active,
                     historyVars, signIn>>
  BY DEF RecoveryInitializes, SignInInv, SignInOK
<1>2. /\ vaults' \in [Passkeys -> Policies \cup {NoVault}]
      /\ \A j \in Passkeys : vaults'[j] = IF j = k THEN None ELSE vaults[j]
      /\ k \in Passkeys
  BY <1>1 DEF IInv, TypeOK, Policies
<1>3. ApiInv'
  BY <1>1, <1>2, NoVaultIsNoPolicy
  DEF IInv, TypeOK, ApiInv, ActiveWalletsHaveVaults, historyVars
<1>4. IInv'
  BY <1>1, <1>2, <1>3, ApiMoves DEF IInv, TypeOK
<1> QED BY <1>1, <1>4 DEF SignInInv, SignInOK

LEMMA ChoiceTypes ==
  ASSUME NEW c \in Choices
  PROVE  c.policy \in Policies /\ c.deferred \in BOOLEAN
<1>1. CASE \E policy \in Policies : c = [policy |-> policy, deferred |-> FALSE, explicit |-> TRUE]
  BY <1>1
<1>2. CASE c = [policy |-> None, deferred |-> TRUE, explicit |-> TRUE]
  <2>1. c.policy = None /\ c.deferred = TRUE
    BY <1>2
  <2> QED BY <2>1 DEF Policies
<1>3. CASE c = [policy |-> None, deferred |-> FALSE, explicit |-> FALSE]
  <2>1. c.policy = None /\ c.deferred = FALSE
    BY <1>3
  <2> QED BY <2>1 DEF Policies
<1> QED BY <1>1, <1>2, <1>3 DEF Choices

(* A creation that continueWithDexter() begins is one of createWallet().   *)
LEMMA NoCredentialSignInInv ==
  ASSUME SignInInv, NEW p \in Pages, NoCredential(p)
  PROVE  SignInInv'
<1> DEFINE ceremony == signIn[p]
           choice == ceremony.choice
<1>1. /\ SignInEnds(p)
      /\ Begin(p, choice.policy, choice.deferred, ceremony.commit) \/ UNCHANGED vars
  BY DEF NoCredential
<1>2. choice.policy \in Policies /\ choice.deferred \in BOOLEAN /\ ceremony.commit \in BOOLEAN
  <2>1. ceremony.choice \in Choices /\ ceremony.commit \in BOOLEAN
    BY DEF SignInInv, SignIns
  <2> QED BY <2>1, ChoiceTypes
<1>3. IInv' /\ keychain' = keychain
  <2>1. CASE Begin(p, choice.policy, choice.deferred, ceremony.commit)
    BY <1>2, <2>1, BeginIInv DEF SignInInv, Begin
  <2>2. CASE UNCHANGED vars
    BY <2>2, NextIInv DEF SignInInv, vars
  <2> QED BY <1>1, <2>1, <2>2
<1> QED BY <1>1, <1>3, SignInStops

LEMMA SignInBeginsSignInInv ==
  ASSUME SignInInv, NEW p \in Pages, NEW verb \in {"login", "continue", "recover"},
         NEW target \in Passkeys \cup {None}, NEW choice \in Choices, NEW commit \in BOOLEAN,
         SignInBegins(p, verb, target, choice, commit)
  PROVE  SignInInv'
<1> DEFINE s == [NoSignIn EXCEPT !.verb = verb, !.at = "challenge", !.target = target,
                                 !.choice = choice, !.commit = commit]
<1>1. s \in SignIns /\ SignInOK(s) /\ signIn' = [signIn EXCEPT ![p] = s]
  BY NoSignInOK DEF SignIns, SignInOK, SignInBegins
<1>2. IInv' /\ keychain' = keychain
  BY NextIInv DEF SignInInv, vars, SignInBegins
<1> HIDE DEF s
<1> QED BY <1>1, <1>2, OneSignInMoves

LEMMA PasskeyChosenSignInInv ==
  ASSUME SignInInv, NEW p \in Pages, NEW k \in Passkeys, PasskeyChosen(p, k)
  PROVE  SignInInv'
<1> DEFINE s == [signIn[p] EXCEPT !.at = "verifying", !.passkey = k]
<1>1. s \in SignIns /\ SignInOK(s) /\ signIn' = [signIn EXCEPT ![p] = s]
  BY DEF SignInInv, SignIns, SignInOK, PasskeyChosen
<1>2. IInv' /\ keychain' = keychain
  BY NextIInv DEF SignInInv, vars, PasskeyChosen
<1> HIDE DEF s
<1> QED BY <1>1, <1>2, OneSignInMoves

LEMMA LoginVerifiedSignInInv ==
  ASSUME SignInInv, NEW p \in Pages, LoginVerified(p)
  PROVE  SignInInv'
<1>1. signIn[p].passkey \in keychain /\ vaults[signIn[p].passkey] # NoVault
  BY DEF LoginVerified, SignInInv, SignInOK
<1>2. CASE SignedIn(p, signIn[p].passkey)
  BY <1>1, <1>2, SignedInSignInInv
<1>3. CASE SignInEnds(p) /\ UNCHANGED vars
  BY <1>3, NextIInv, SignInStops DEF SignInInv, vars
<1> QED BY <1>2, <1>3 DEF LoginVerified

LEMMA ReloadPageSignInInv ==
  ASSUME SignInInv, NEW p \in Pages, ReloadPage(p)
  PROVE  SignInInv'
<1>1. SignInEnds(p) /\ (Reload(p) \/ UNCHANGED vars)
  BY DEF ReloadPage
<1>2. IInv' /\ keychain' = keychain
  BY <1>1, ReloadIInv, NextIInv DEF SignInInv, Reload, vars
<1> QED BY <1>1, <1>2, SignInStops

LEMMA SigningSignInInv ==
  ASSUME SignInInv, NEW p \in Pages, Signing(p)
  PROVE  SignInInv'
<1>1. NoChoice \in Choices
  BY DEF NoChoice, Choices
<1>2. ASSUME NEW commit \in BOOLEAN, NEW target \in Passkeys \cup {None},
             Login(p, target, commit)
      PROVE  SignInInv'
  BY <1>1, <1>2, SignInBeginsSignInInv DEF Login
<1>3. ASSUME NEW commit \in BOOLEAN, NEW choice \in Choices, Continue(p, choice, commit)
      PROVE  SignInInv'
  BY <1>1, <1>3, SignInBeginsSignInInv DEF Continue, Login
<1>4. ASSUME NEW commit \in BOOLEAN, RecoverWallet(p, commit) PROVE SignInInv'
  BY <1>1, <1>4, SignInBeginsSignInInv DEF RecoverWallet
<1>5. CASE ChallengeIssued(p) \/ RecoverVerified(p) \/ VaultMissing(p)
  BY <1>5, SignInGoesOn DEF ChallengeIssued, RecoverVerified, VaultMissing
<1>6. CASE SignInFails(p)
  BY <1>6, NextIInv, SignInStops DEF SignInFails, SignInInv, vars
<1>7. CASE VaultConfirmed(p)
  BY <1>7, SignedInSignInInv DEF VaultConfirmed, SignInInv, SignInOK
<1> QED BY <1>2, <1>3, <1>4, <1>5, <1>6, <1>7, PasskeyChosenSignInInv,
           NoCredentialSignInInv, LoginVerifiedSignInInv, RecoveryInitializesSignInInv,
           ReloadPageSignInInv
        DEF Signing

(* No creation and nothing the API does takes a passkey away.              *)
LEMMA KeychainGrows ==
  ASSUME IInv, [Next]_vars
  PROVE  keychain \subseteq keychain'
BY DEF Next, Creating, Begin, Running, ChallengeArrives, PasskeyIsMade, RegistrationReturns,
       EnrollmentAccepted, EnrollmentRefused, EnrollmentUnanswered, PasskeyConfirmed,
       PasskeyVerified, PasskeyUnknown, VaultAnswered, LegFails, Reload, ChallengeExpires,
       LateEnrollment, VaultInitialized, vars

LEMMA SignInInvHolds == SignInSpec => []SignInInv
<1>1. SignInInit => SignInInv
  <2> SUFFICES ASSUME SignInInit PROVE SignInInv
    OBVIOUS
  <2>1. TypeOK /\ CallsInv /\ PendingInv
    BY NoCallOK, SyncedArePasskeys
    DEF SignInInit, TypeOK, CallsInv, PendingInv, Policies, CallOK
  <2>2. ApiInv /\ KeptInv
    BY DEF SignInInit, ApiInv, ActiveWalletsHaveVaults, KeptInv, Kept
  <2>3. signIn \in [Pages -> SignIns] /\ \A p \in Pages : SignInOK(signIn[p])
    BY NoSignInOK DEF SignInInit, SignInOK
  <2> QED BY <2>1, <2>2, <2>3 DEF IInv, SignInInv
<1>2. SignInInv /\ [SignInNext]_allVars => SignInInv'
  <2> SUFFICES ASSUME SignInInv, [SignInNext]_allVars PROVE SignInInv'
    OBVIOUS
  <2>1. CASE \E p \in Pages : Signing(p)
    BY <2>1, SigningSignInInv
  <2>2. CASE [Beside]_vars /\ UNCHANGED signIn
    <3>1. [Next]_vars
      BY <2>2 DEF Beside, Next
    <3>2. IInv' /\ keychain \subseteq keychain'
      BY <3>1, NextIInv, KeychainGrows DEF SignInInv
    <3> QED BY <2>2, <3>2 DEF SignInInv, SignInOK
  <2> QED BY <2>1, <2>2 DEF SignInNext, allVars
<1> QED BY <1>1, <1>2, PTL DEF SignInSpec

(* Sign-ins, too, forget no passkey but the one they signed in with, while *)
(* creations of the same pages run (relay.ts, recover.ts).                 *)
THEOREM SignInsForgetNoOther == SignInSpec => []PasskeysAreKept
<1>1. SignInInv => PasskeysAreKept
  BY DEF SignInInv, IInv, KeptInv, Kept, PasskeysAreKept, Unfinished, InWork
<1> QED BY <1>1, SignInInvHolds, PTL

(* A Wallet is active in this browser only if its vault is initialized,    *)
(* whichever ceremony remembered it (recover.ts:9).                        *)
THEOREM OnlyVaultsAreRemembered == SignInSpec => []ActiveWalletsHaveVaults
<1>1. SignInInv => ActiveWalletsHaveVaults
  BY DEF SignInInv, IInv, ApiInv
<1> QED BY <1>1, SignInInvHolds, PTL
=============================================================================
