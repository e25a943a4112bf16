----------------------------- MODULE PCloudProofs ------------------------------
(***************************************************************************)
(* The pCloud client for any number of callers, slots and attempts: the    *)
(* semaphore counts the requests on their way, logins are serial, and a    *)
(* login is asked for only after a token was dropped.                      *)
(***************************************************************************)
EXTENDS PCloudClient, FiniteSetTheorems, TLAPS

\* The inductive invariant: LoginsAreShared needs ClientInv, and is kept with it.
SharedInv == ClientInv /\ LoginsAreShared

\* A new call state of c changes the place of c only.
LEMMA PlacesAfter ==
  ASSUME TypeOK, NEW c \in Callers, NEW l \in CallState, Becomes(c, l)
  PROVE  /\ caller' \in [Callers -> CallState]
         /\ \A d \in Callers, p \in PCs : At(d, p)' <=> IF d = c THEN l.pc = p ELSE At(d, p)
         /\ AttemptsLeft /\ (l.pc = "backoff" => l.attempt < MaxTries) => AttemptsLeft'
BY DEF TypeOK, Becomes, At, AttemptsLeft

\* The requests on their way are finitely many.
LEMMA FewInFlight ==
  ASSUME TypeOK
  PROVE  IsFiniteSet(InFlight) /\ Cardinality(InFlight) \in Nat
BY ClientAssumption, FS_Subset, FS_CardinalityType DEF InFlight

\* Where no request begins or ends, the semaphore keeps counting them.
LEMMA SlotsUntouched ==
  ASSUME SlotsAreInUse, NEW c \in Callers, UNCHANGED slots, ~At(c, "request"), ~At(c, "request")',
         \A d \in Callers \ {c} : At(d, "request")' <=> At(d, "request")
  PROVE  SlotsAreInUse'
<1>1. InFlight' = InFlight
  BY DEF InFlight
<1> QED BY <1>1 DEF SlotsAreInUse

\* A request that ends gives its slot back.
LEMMA SlotReturned ==
  ASSUME TypeOK, SlotsAreInUse, NEW c \in Callers, At(c, "request"), ~At(c, "request")',
         slots' = slots - 1,
         \A d \in Callers \ {c} : At(d, "request")' <=> At(d, "request")
  PROVE  SlotsAreInUse' /\ slots' \in Nat
<1>1. InFlight' = InFlight \ {c} /\ c \in InFlight
  BY DEF InFlight
<1>2. Cardinality(InFlight \ {c}) = Cardinality(InFlight) - 1
  BY <1>1, FewInFlight, FS_RemoveElement
<1>3. slots \in Nat /\ Cap \in Nat
  BY ClientAssumption DEF TypeOK
<1>4. Cardinality(InFlight \ {c}) \in Nat
  BY FewInFlight, FS_RemoveElement, FS_CardinalityType, FS_Subset
<1> QED BY <1>1, <1>2, <1>3, <1>4 DEF SlotsAreInUse

\* A request that begins takes a free one.
LEMMA SlotTaken ==
  ASSUME TypeOK, SlotsAreInUse, NEW c \in Callers, ~At(c, "request"), At(c, "request")',
         slots < Cap, slots' = slots + 1,
         \A d \in Callers \ {c} : At(d, "request")' <=> At(d, "request")
  PROVE  SlotsAreInUse' /\ slots' \in Nat
<1>1. InFlight' = InFlight \cup {c} /\ c \notin InFlight
  BY DEF InFlight
<1>2. Cardinality(InFlight \cup {c}) = Cardinality(InFlight) + 1
  BY <1>1, FewInFlight, FS_AddElement
<1>3. slots \in Nat /\ Cap \in Nat
  BY ClientAssumption DEF TypeOK
<1> QED BY <1>1, <1>2, <1>3 DEF SlotsAreInUse

-----------------------------------------------------------------------------
\* The facts about places that every step of one caller gives.
LEMMA CallStates ==
  ASSUME TypeOK, NEW c \in Callers
  PROVE  /\ caller[c] \in CallState
         /\ \A r \in {"none", "ok", "failed"} : Idle(r) \in CallState /\ Idle(r).pc = "idle"
         /\ \A p \in PCs : /\ [caller[c] EXCEPT !.pc = p, !.carries = "none"] \in CallState
                           /\ [caller[c] EXCEPT !.pc = p, !.carries = "none"].pc = p
<1>1. 1 \in 1 .. MaxTries
  BY ClientAssumption
<1> QED BY <1>1 DEF TypeOK, CallState, Idle, Tokens, PCs

\* A call begins.
LEMMA CallStep ==
  ASSUME SharedInv, NEW c \in Callers, Call(c)
  PROVE  SharedInv'
<1> DEFINE l == [Idle("none") EXCEPT !.pc = "send"]
<1> USE DEF SharedInv, ClientInv
<1>1. l \in CallState /\ l.pc = "send"
  BY CallStates DEF CallState, Idle, PCs
<1>2. Becomes(c, l) /\ At(c, "idle") /\ UNCHANGED <<config, shared, expiries, faults>>
  BY DEF Call
<1> HIDE DEF l
<1>3. /\ caller' \in [Callers -> CallState]
      /\ \A d \in Callers, p \in PCs : At(d, p)' <=> IF d = c THEN l.pc = p ELSE At(d, p)
      /\ AttemptsLeft'
  BY <1>1, <1>2, PlacesAfter
<1>4. TypeOK'
  BY <1>2, <1>3 DEF TypeOK, config, shared
<1>5. SlotsAreInUse'
  BY <1>1, <1>2, <1>3, SlotsUntouched DEF shared, At, PCs
<1>6. LoginsAreSerial' /\ NoTokenWasRejected' /\ ReloginNeedsUser' /\ LoginsAreShared'
  BY <1>1, <1>2, <1>3 DEF shared, config, At, PCs, LoginsAreSerial, NoTokenWasRejected,
                         ReloginNeedsUser, LoginsAreShared
<1> QED BY <1>3, <1>4, <1>5, <1>6

\* A request begins.
LEMMA SendStep ==
  ASSUME SharedInv, NEW c \in Callers, Send(c)
  PROVE  SharedInv'
<1> DEFINE l == [caller[c] EXCEPT !.pc = "request", !.carries = token]
<1> USE DEF SharedInv, ClientInv
<1>1. l \in CallState /\ l.pc = "request"
  BY DEF TypeOK, CallState, PCs
<1>2. /\ Becomes(c, l) /\ At(c, "send") /\ slots < Cap /\ slots' = slots + 1
      /\ UNCHANGED <<config, token, loginBy, rejected, expiries, faults>>
  BY DEF Send
<1> HIDE DEF l
<1>3. /\ caller' \in [Callers -> CallState]
      /\ \A d \in Callers, p \in PCs : At(d, p)' <=> IF d = c THEN l.pc = p ELSE At(d, p)
      /\ AttemptsLeft'
  BY <1>1, <1>2, PlacesAfter
<1>4. TypeOK'
  BY <1>2, <1>3 DEF TypeOK, config, shared
<1>5. SlotsAreInUse'
  BY <1>1, <1>2, <1>3, SlotTaken DEF At, PCs
<1>6. LoginsAreSerial' /\ NoTokenWasRejected' /\ ReloginNeedsUser' /\ LoginsAreShared'
  BY <1>1, <1>2, <1>3 DEF TypeOK, shared, config, At, PCs, LoginsAreSerial, NoTokenWasRejected,
                         ReloginNeedsUser, LoginsAreShared
<1> QED BY <1>3, <1>4, <1>5, <1>6

\* A request is answered with what it asked for.
LEMMA SucceedStep ==
  ASSUME SharedInv, NEW c \in Callers, Succeed(c)
  PROVE  SharedInv'
<1> DEFINE l == Idle("ok")
<1> USE DEF SharedInv, ClientInv
<1>1. l \in CallState /\ l.pc = "idle"
  BY CallStates
<1>2. /\ Becomes(c, l) /\ At(c, "request") /\ slots' = slots - 1
      /\ UNCHANGED <<config, token, loginBy, rejected, expiries, faults>>
  BY DEF Succeed, Answered
<1> HIDE DEF l
<1>3. /\ caller' \in [Callers -> CallState]
      /\ \A d \in Callers, p \in PCs : At(d, p)' <=> IF d = c THEN l.pc = p ELSE At(d, p)
      /\ AttemptsLeft'
  BY <1>1, <1>2, PlacesAfter
<1>4. TypeOK'
  BY <1>1, <1>2, <1>3, SlotReturned DEF TypeOK, config, At, PCs
<1>5. SlotsAreInUse'
  BY <1>1, <1>2, <1>3, SlotReturned DEF At, PCs
<1>6. LoginsAreSerial' /\ NoTokenWasRejected' /\ ReloginNeedsUser' /\ LoginsAreShared'
  BY <1>1, <1>2, <1>3 DEF TypeOK, shared, config, At, PCs, LoginsAreSerial, NoTokenWasRejected,
                         ReloginNeedsUser, LoginsAreShared
<1> QED BY <1>3, <1>4, <1>5, <1>6

\* A request is answered with a token error.
LEMMA RejectStep ==
  ASSUME SharedInv, NEW c \in Callers, Reject(c)
  PROVE  SharedInv'
<1> DEFINE l == [caller[c] EXCEPT !.pc = "clear", !.carries = "none"]
<1> USE DEF SharedInv, ClientInv
<1>1. l \in CallState /\ l.pc = "clear"
  BY CallStates DEF PCs
<1>2. /\ Becomes(c, l) /\ At(c, "request") /\ slots' = slots - 1
      /\ faults' \in 0 .. MaxFaults
      /\ UNCHANGED <<config, token, loginBy, rejected, expiries>>
  BY ClientAssumption DEF Reject, Answered, Goes, Fault, TypeOK
<1> HIDE DEF l
<1>3. /\ caller' \in [Callers -> CallState]
      /\ \A d \in Callers, p \in PCs : At(d, p)' <=> IF d = c THEN l.pc = p ELSE At(d, p)
      /\ AttemptsLeft'
  BY <1>1, <1>2, PlacesAfter
<1>4. TypeOK'
  BY <1>1, <1>2, <1>3, SlotReturned DEF TypeOK, config, At, PCs
<1>5. SlotsAreInUse'
  BY <1>1, <1>2, <1>3, SlotReturned DEF At, PCs
<1>6. LoginsAreSerial' /\ NoTokenWasRejected' /\ ReloginNeedsUser' /\ LoginsAreShared'
  BY <1>1, <1>2, <1>3 DEF TypeOK, shared, config, At, PCs, LoginsAreSerial, NoTokenWasRejected,
                         ReloginNeedsUser, LoginsAreShared
<1> QED BY <1>3, <1>4, <1>5, <1>6

\* A token error drops the token.
LEMMA ClearStep ==
  ASSUME SharedInv, NEW c \in Callers, Clear(c)
  PROVE  SharedInv'
<1> DEFINE l == IF caller[c].attempt < MaxTries
                 THEN [caller[c] EXCEPT !.pc = "backoff", !.carries = "none"] ELSE Idle("failed")
<1> USE DEF SharedInv, ClientInv
<1>1. /\ l \in CallState /\ l.pc \in {"backoff", "idle"}
      /\ (l.pc = "backoff" => l.attempt < MaxTries)
  BY CallStates DEF PCs, CallState
<1>2. /\ Becomes(c, l) /\ At(c, "clear") /\ token' = "none" /\ rejected' = TRUE
      /\ UNCHANGED <<config, slots, loginBy, expiries, faults>>
  BY DEF Clear, Goes, Cleared
<1> HIDE DEF l
<1>3. /\ caller' \in [Callers -> CallState]
      /\ \A d \in Callers, p \in PCs : At(d, p)' <=> IF d = c THEN l.pc = p ELSE At(d, p)
      /\ AttemptsLeft'
  BY <1>1, <1>2, PlacesAfter
<1>4. TypeOK'
  BY <1>2, <1>3 DEF TypeOK, config, Tokens
<1>5. SlotsAreInUse'
  BY <1>1, <1>2, <1>3, SlotsUntouched DEF shared, At, PCs
<1>6. LoginsAreSerial' /\ NoTokenWasRejected' /\ ReloginNeedsUser' /\ LoginsAreShared'
  BY <1>1, <1>2, <1>3 DEF TypeOK, shared, config, At, PCs, LoginsAreSerial, NoTokenWasRejected,
                         ReloginNeedsUser, LoginsAreShared
<1> QED BY <1>3, <1>4, <1>5, <1>6

\* The backoff ends.
LEMMA BackoffStep ==
  ASSUME SharedInv, NEW c \in Callers, Backoff(c)
  PROVE  SharedInv'
<1> DEFINE l == [caller[c] EXCEPT !.attempt = @ + 1, !.tries = 1,
                                  !.pc = IF user THEN "relogin" ELSE "send"]
<1> USE DEF SharedInv, ClientInv
<1>1. l \in CallState /\ l.pc = IF user THEN "relogin" ELSE "send"
  <2>1. caller[c] \in CallState /\ caller[c].attempt < MaxTries
    BY CallStates DEF Backoff, AttemptsLeft, At
  <2>2. caller[c].attempt + 1 \in 1 .. MaxTries /\ 1 \in 1 .. MaxTries
    BY <2>1, ClientAssumption DEF CallState
  <2> QED BY <2>1, <2>2 DEF CallState, PCs
<1>2. /\ Becomes(c, l) /\ At(c, "backoff") /\ UNCHANGED <<config, shared, expiries, faults>>
  BY DEF Backoff
<1> HIDE DEF l
<1>3. /\ caller' \in [Callers -> CallState]
      /\ \A d \in Callers, p \in PCs : At(d, p)' <=> IF d = c THEN l.pc = p ELSE At(d, p)
      /\ AttemptsLeft'
  BY <1>1, <1>2, PlacesAfter
<1>4. TypeOK'
  BY <1>2, <1>3 DEF TypeOK, config, shared
<1>5. SlotsAreInUse'
  BY <1>1, <1>2, <1>3, SlotsUntouched DEF shared, At, PCs
<1>6. LoginsAreSerial' /\ NoTokenWasRejected' /\ ReloginNeedsUser' /\ LoginsAreShared'
  BY <1>1, <1>2, <1>3 DEF TypeOK, shared, config, At, PCs, LoginsAreSerial, NoTokenWasRejected,
                         ReloginNeedsUser, LoginsAreShared
<1> QED BY <1>3, <1>4, <1>5, <1>6

\* The login is answered.
LEMMA LoggedInStep ==
  ASSUME SharedInv, NEW c \in Callers, LoggedIn(c)
  PROVE  SharedInv'
<1> DEFINE l == [caller[c] EXCEPT !.pc = "send", !.carries = "none"]
<1> USE DEF SharedInv, ClientInv
<1>1. l \in CallState /\ l.pc = "send"
  BY CallStates DEF PCs
<1>2. /\ Becomes(c, l) /\ At(c, "login")
      /\ token' = "good" /\ rejected' = FALSE /\ loginBy' = NoCaller
      /\ UNCHANGED <<config, slots, expiries, faults>>
  BY DEF LoggedIn, Goes
<1> HIDE DEF l
<1>3. /\ caller' \in [Callers -> CallState]
      /\ \A d \in Callers, p \in PCs : At(d, p)' <=> IF d = c THEN l.pc = p ELSE At(d, p)
      /\ AttemptsLeft'
  BY <1>1, <1>2, PlacesAfter
<1>4. TypeOK'
  BY <1>2, <1>3 DEF TypeOK, config, Tokens
<1>5. SlotsAreInUse'
  BY <1>1, <1>2, <1>3, SlotsUntouched DEF shared, At, PCs
<1>6. LoginsAreSerial' /\ NoTokenWasRejected' /\ ReloginNeedsUser' /\ LoginsAreShared'
  BY <1>1, <1>2, <1>3, ClientAssumption DEF TypeOK, config, At, PCs, LoginsAreSerial, NoTokenWasRejected,
                         ReloginNeedsUser, LoginsAreShared
<1> QED BY <1>3, <1>4, <1>5, <1>6

\* The login is tried again.
LEMMA LoginAgainStep ==
  ASSUME SharedInv, NEW c \in Callers, LoginAgain(c)
  PROVE  SharedInv'
<1> DEFINE l == [caller[c] EXCEPT !.tries = @ + 1]
<1> USE DEF SharedInv, ClientInv
<1>1. l \in CallState /\ l.pc = "login"
  <2>1. caller[c] \in CallState /\ caller[c].tries < MaxTries /\ caller[c].pc = "login"
    BY CallStates DEF LoginAgain, At
  <2>2. caller[c].tries + 1 \in 1 .. MaxTries
    BY <2>1, ClientAssumption DEF CallState
  <2> QED BY <2>1, <2>2 DEF CallState
<1>2. /\ Becomes(c, l) /\ At(c, "login") /\ faults' \in 0 .. MaxFaults
      /\ UNCHANGED <<config, shared, expiries>>
  BY ClientAssumption DEF LoginAgain, Fault, TypeOK
<1> HIDE DEF l
<1>3. /\ caller' \in [Callers -> CallState]
      /\ \A d \in Callers, p \in PCs : At(d, p)' <=> IF d = c THEN l.pc = p ELSE At(d, p)
      /\ AttemptsLeft'
  BY <1>1, <1>2, PlacesAfter
<1>4. TypeOK'
  BY <1>2, <1>3 DEF TypeOK, config, shared
<1>5. SlotsAreInUse'
  BY <1>1, <1>2, <1>3, SlotsUntouched DEF shared, At, PCs
<1>6. LoginsAreSerial' /\ NoTokenWasRejected' /\ ReloginNeedsUser' /\ LoginsAreShared'
  BY <1>1, <1>2, <1>3 DEF TypeOK, shared, config, At, PCs, LoginsAreSerial, NoTokenWasRejected,
                         ReloginNeedsUser, LoginsAreShared
<1> QED BY <1>3, <1>4, <1>5, <1>6

\* relogin: refused to OAuth, spared by a token found, or a login.
LEMMA ReloginStep ==
  ASSUME SharedInv, NEW c \in Callers, Relogin(c)
  PROVE  SharedInv'
<1> USE DEF SharedInv, ClientInv
<1>1. PICK l \in CallState :
        /\ Becomes(c, l) /\ l.pc \in {"idle", "send", "login"}
        /\ IF l.pc = "login" THEN ~oauth /\ loginBy = NoCaller /\ loginBy' = c /\ token = "none"
                             ELSE UNCHANGED loginBy
  BY CallStates DEF Relogin, Goes, Renewed, PCs
<1>2. /\ At(c, "relogin") /\ user
      /\ UNCHANGED <<config, token, slots, rejected, expiries, faults>>
  BY DEF Relogin, ReloginNeedsUser
<1>3. /\ caller' \in [Callers -> CallState]
      /\ \A d \in Callers, p \in PCs : At(d, p)' <=> IF d = c THEN l.pc = p ELSE At(d, p)
      /\ AttemptsLeft'
  BY <1>1, <1>2, PlacesAfter
<1>4. TypeOK'
  BY <1>1, <1>2, <1>3 DEF TypeOK, config
<1>5. SlotsAreInUse'
  BY <1>1, <1>2, <1>3, SlotsUntouched DEF At, PCs
<1>6. LoginsAreSerial' /\ NoTokenWasRejected' /\ ReloginNeedsUser'
  BY <1>1, <1>2, <1>3, ClientAssumption DEF TypeOK, config, At, PCs, LoginsAreSerial,
                         NoTokenWasRejected, ReloginNeedsUser
<1>7. LoginsAreShared'
  BY <1>1, <1>2, <1>3 DEF config, At, PCs, NoTokenWasRejected, LoginsAreShared
<1> QED BY <1>3, <1>4, <1>5, <1>6, <1>7

\* A call that gives up returns the slot or the mutex it holds.
LEMMA GiveUpStep ==
  ASSUME SharedInv, NEW c \in Callers, GiveUp(c)
  PROVE  SharedInv'
<1> DEFINE l == Idle("failed")
<1> USE DEF SharedInv, ClientInv
<1>1. l \in CallState /\ l.pc = "idle"
  BY CallStates
<1>2. /\ Becomes(c, l) /\ slots' = SlotsAfter(c) /\ loginBy' = MutexAfter(c)
      /\ faults' \in 0 .. MaxFaults
      /\ UNCHANGED <<config, token, rejected, expiries>>
  BY ClientAssumption DEF GiveUp, Fault, TypeOK
<1> HIDE DEF l
<1>3. /\ caller' \in [Callers -> CallState]
      /\ \A d \in Callers, p \in PCs : At(d, p)' <=> IF d = c THEN l.pc = p ELSE At(d, p)
      /\ AttemptsLeft'
  BY <1>1, <1>2, PlacesAfter
<1>4. SlotsAreInUse' /\ slots' \in Nat
  <2>1. CASE At(c, "request")
    BY <1>1, <1>2, <1>3, <2>1, SlotReturned DEF SlotsAfter, PCs
  <2>2. CASE ~At(c, "request")
    BY <1>1, <1>2, <1>3, <2>2, SlotsUntouched DEF SlotsAfter, PCs, TypeOK
  <2> QED BY <2>1, <2>2
<1>5. TypeOK'
  BY <1>2, <1>3, <1>4 DEF TypeOK, config, MutexAfter
<1>6. LoginsAreSerial' /\ NoTokenWasRejected' /\ ReloginNeedsUser' /\ LoginsAreShared'
  BY <1>1, <1>2, <1>3, ClientAssumption
     DEF TypeOK, config, At, PCs, MutexAfter, LoginsAreSerial, NoTokenWasRejected,
                         ReloginNeedsUser, LoginsAreShared
<1> QED BY <1>3, <1>4, <1>5, <1>6

\* The session ends: no call moves.
LEMMA ExpireStep ==
  ASSUME SharedInv, Expire
  PROVE  SharedInv'
<1> USE DEF SharedInv, ClientInv
<1>1. \A c \in Callers :
        caller'[c] = [caller[c] EXCEPT !.carries = Killed(caller[c].carries)]
  BY DEF Expire
<1>2. /\ caller' \in [Callers -> CallState]
      /\ \A c \in Callers, p \in PCs : At(c, p)' <=> At(c, p)
      /\ \A c \in Callers : caller'[c].attempt = caller[c].attempt
  BY <1>1 DEF Expire, TypeOK, CallState, Killed, Tokens, At
<1>3. /\ expiries' \in 0 .. MaxExpiries /\ token' \in Tokens
      /\ token' = "none" => token = "none"
      /\ UNCHANGED <<config, slots, loginBy, rejected, faults>>
  BY ClientAssumption DEF Expire, Killed, TypeOK, Tokens
<1>4. TypeOK'
  BY <1>2, <1>3 DEF TypeOK, config
<1>5. InFlight' = InFlight
  BY <1>2 DEF InFlight, PCs
<1>6. SlotsAreInUse' /\ NoTokenWasRejected'
  BY <1>3, <1>5 DEF SlotsAreInUse, NoTokenWasRejected
<1>7. LoginsAreSerial' /\ ReloginNeedsUser' /\ LoginsAreShared' /\ AttemptsLeft'
  BY <1>2, <1>3 DEF config, PCs, LoginsAreSerial, ReloginNeedsUser, LoginsAreShared, AttemptsLeft
<1> QED BY <1>4, <1>6, <1>7

-----------------------------------------------------------------------------
\* No call is made at startup.
LEMMA SharedInit == Init => SharedInv
<1> SUFFICES ASSUME Init PROVE SharedInv
  OBVIOUS
<1>1. TypeOK
  <2>1. Idle("none") \in CallState
    BY ClientAssumption DEF Idle, CallState, PCs, Tokens
  <2>2. oauth \in BOOLEAN /\ user \in BOOLEAN /\ rejected \in BOOLEAN
    BY Zenon DEF Init
  <2>3. caller \in [Callers -> CallState]
    BY <2>1 DEF Init
  <2>4. expiries \in 0 .. MaxExpiries /\ faults \in 0 .. MaxFaults /\ slots \in Nat
    BY ClientAssumption DEF Init
  <2> QED BY <2>2, <2>3, <2>4 DEF Init, TypeOK, Tokens
<1>2. \A c \in Callers : caller[c].pc = "idle"
  BY DEF Init, Idle
<1>3. InFlight = {}
  BY <1>2 DEF InFlight, At
<1>4. SlotsAreInUse
  BY <1>3, FS_EmptySet, ClientAssumption DEF SlotsAreInUse, Init
<1> QED BY <1>1, <1>2, <1>4, ClientAssumption
        DEF SharedInv, ClientInv, Init, At, LoginsAreSerial, NoTokenWasRejected,
            ReloginNeedsUser, LoginsAreShared, AttemptsLeft

\* A stutter keeps everything.
LEMMA SharedStutter ==
  ASSUME SharedInv, UNCHANGED vars
  PROVE  SharedInv'
<1>1. InFlight' = InFlight
  BY DEF vars, InFlight, At
<1> QED BY <1>1 DEF vars, config, shared, SharedInv, ClientInv, TypeOK, SlotsAreInUse, At,
                    LoginsAreSerial, NoTokenWasRejected, ReloginNeedsUser, LoginsAreShared,
                    AttemptsLeft

\* One lemma for each step.
LEMMA SharedKept == SharedInv /\ [Next]_vars => SharedInv'
BY CallStep, SendStep, SucceedStep, RejectStep, ClearStep, BackoffStep, LoggedInStep,
   LoginAgainStep, ReloginStep, GiveUpStep, ExpireStep, SharedStutter DEF Next, Local

(***************************************************************************)
(* Whatever the number of callers: no slot of the semaphore is lost or     *)
(* returned twice, pCloud sees at most Cap requests at once, and loginMu   *)
(* is held by the one call that logs in (acquire, release, relogin).       *)
(***************************************************************************)
THEOREM ClientInvariant == Spec => []ClientInv
<1>1. SharedInv => ClientInv
  BY DEF SharedInv
<1> QED BY <1>1, SharedInit, SharedKept, PTL DEF Spec

(***************************************************************************)
(* However token errors, backoffs and logins interleave, userinfo is asked *)
(* only by a client with a password, that is not OAuth, and after a token  *)
(* was dropped since userinfo last answered (relogin).                     *)
(***************************************************************************)
THEOREM SharedLogins == Spec => []LoginsAreShared
<1>1. SharedInv => LoginsAreShared
  BY DEF SharedInv
<1> QED BY <1>1, SharedInit, SharedKept, PTL DEF Spec
================================================================================
