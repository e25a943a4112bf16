----------------------------- MODULE PCloudClient ------------------------------
(***************************************************************************)
(* The pCloud client (internal/repo/webapi/pcloud.go): listings, download  *)
(* links and share links are calls of the sync, of deliveries and of the   *)
(* dashboard, made by goroutines that share one session token, the slots   *)
(* of a semaphore and the mutex that serializes logins.  A call makes up   *)
(* to MaxTries attempts; after a token error it drops the shared token,    *)
(* backs off and logs in again, unless another call has.                   *)
(*                                                                         *)
(* Abstractions: a token is "good" or "dead" to pCloud, or "none", the     *)
(* empty string; a session ends for every token at once.  EOF and the      *)
(* codes isTokenErr lists are one answer.  What a call asks for, and the   *)
(* cache of download links in front of it, are left out.                   *)
(***************************************************************************)
EXTENDS Naturals, FiniteSets

CONSTANTS Callers,      \* goroutines that make calls
          Cap,          \* pcloudMaxConcurrent
          MaxTries,     \* pcloudMaxRetries
          NoCaller,     \* loginMu is free
          MaxExpiries,  \* bound: sessions that end, tokens revoked
          MaxFaults     \* bound: dropped connections, other errors, cancellations

ASSUME ClientAssumption ==
  /\ IsFiniteSet(Callers) /\ NoCaller \notin Callers
  /\ Cap \in Nat \ {0} /\ MaxTries \in Nat \ {0}
  /\ MaxExpiries \in Nat /\ MaxFaults \in Nat

VARIABLES
  oauth,     \* the token is an OAuth access token
  user,      \* username and password are configured
  token,     \* the client's token
  slots,     \* taken slots of sem
  loginBy,   \* who holds loginMu and sends userinfo
  caller,    \* the call each goroutine makes
  rejected,  \* history: a token was dropped since the last login
  expiries, faults

config == <<oauth, user>>
shared == <<token, slots, loginBy, rejected>>
vars   == <<config, shared, caller, expiries, faults>>

Tokens == {"none", "good", "dead"}
PCs    == {"idle", "send", "request", "clear", "backoff", "relogin", "login"}

\* attempt is retryWithRelogin's, tries doLogin's, carries the token in the request on
\* its way, result how the last call of this goroutine ended.
CallState == [pc: PCs, attempt: 1 .. MaxTries, tries: 1 .. MaxTries, carries: Tokens,
              result: {"none", "ok", "failed"}]

Idle(r) == [pc |-> "idle", attempt |-> 1, tries |-> 1, carries |-> "none", result |-> r]

-----------------------------------------------------------------------------
\* NewPCloudClient, and Login at startup, which ends the program if it fails.
Init ==
  /\ oauth \in BOOLEAN /\ user \in BOOLEAN
  /\ token = "good" /\ slots = 0 /\ loginBy = NoCaller
  /\ caller = [c \in Callers |-> Idle("none")]
  /\ rejected = FALSE
  /\ expiries = 0 /\ faults = 0

At(c, pc)     == caller[c].pc = pc
Becomes(c, l) == caller' = [caller EXCEPT ![c] = l]
Goes(c, pc)   == Becomes(c, [caller[c] EXCEPT !.pc = pc, !.carries = "none"])
Fault         == faults < MaxFaults /\ faults' = faults + 1

Call(c) ==
  /\ At(c, "idle")
  /\ Becomes(c, [Idle("none") EXCEPT !.pc = "send"])
  /\ UNCHANGED <<config, shared, expiries, faults>>

\* acquire, then authQuery: the token is read when the request is built.
Send(c) ==
  /\ At(c, "send") /\ slots < Cap
  /\ slots' = slots + 1
  /\ Becomes(c, [caller[c] EXCEPT !.pc = "request", !.carries = token])
  /\ UNCHANGED <<config, token, loginBy, rejected, expiries, faults>>

Answered(c) == At(c, "request") /\ slots' = slots - 1

Succeed(c) ==
  /\ Answered(c) /\ caller[c].carries = "good"
  /\ Becomes(c, Idle("ok"))
  /\ UNCHANGED <<config, token, loginBy, rejected, expiries, faults>>

\* A token error, to a token that is not good; or the connection is dropped, which
\* pCloud also does when too many calls arrive.
Reject(c) ==
  /\ Answered(c)
  /\ IF caller[c].carries = "good" THEN Fault ELSE UNCHANGED faults
  /\ Goes(c, "clear")
  /\ UNCHANGED <<config, token, loginBy, rejected, expiries>>

\* clearToken drops whatever token the client has by now; the faulty variant drops none.
KeepToken == token
Cleared == "none"

Clear(c) ==
  /\ At(c, "clear")
  /\ token' = Cleared /\ rejected' = TRUE
  /\ IF caller[c].attempt < MaxTries THEN Goes(c, "backoff") ELSE Becomes(c, Idle("failed"))
  /\ UNCHANGED <<config, slots, loginBy, expiries, faults>>

Backoff(c) ==
  /\ At(c, "backoff")
  /\ Becomes(c, [caller[c] EXCEPT !.attempt = @ + 1, !.tries = 1,
                                  !.pc = IF user THEN "relogin" ELSE "send"])
  /\ UNCHANGED <<config, shared, expiries, faults>>

\* Whether relogin, once it holds loginMu, may do without a login; the faulty variant
\* does not look again.
NeverRenewed == FALSE
Renewed == token # "none"

\* relogin.
Relogin(c) ==
  /\ At(c, "relogin")
  /\ \/ /\ oauth
        /\ Becomes(c, Idle("failed")) /\ UNCHANGED loginBy
     \/ /\ ~oauth /\ loginBy = NoCaller
        /\ IF Renewed THEN Goes(c, "send") /\ UNCHANGED loginBy
                      ELSE Goes(c, "login") /\ loginBy' = c
  /\ UNCHANGED <<config, token, slots, rejected, expiries, faults>>

\* doLogin, answered.
LoggedIn(c) ==
  /\ At(c, "login")
  /\ token' = "good" /\ rejected' = FALSE /\ loginBy' = NoCaller
  /\ Goes(c, "send")
  /\ UNCHANGED <<config, slots, expiries, faults>>

\* A transport error of the login, with attempts left.
LoginAgain(c) ==
  /\ At(c, "login") /\ caller[c].tries < MaxTries /\ Fault
  /\ Becomes(c, [caller[c] EXCEPT !.tries = @ + 1])
  /\ UNCHANGED <<config, shared, expiries>>

\* What the deferred release and Unlock give back as a call returns; the faulty
\* variants forget them.
SlotKept(c)  == slots
MutexKept(c) == loginBy
SlotsAfter(c) == IF At(c, "request") THEN slots - 1 ELSE slots
MutexAfter(c) == IF At(c, "login") THEN NoCaller ELSE loginBy

\* The call returns another error: an API error, a timeout, a cancelled context, a
\* login that is refused or out of attempts.
GiveUp(c) ==
  /\ caller[c].pc \in {"send", "request", "backoff", "login"} /\ Fault
  /\ slots' = SlotsAfter(c)
  /\ loginBy' = MutexAfter(c)
  /\ Becomes(c, Idle("failed"))
  /\ UNCHANGED <<config, token, rejected, expiries>>

Killed(t) == IF t = "good" THEN "dead" ELSE t

\* The session ends at pCloud, or the app is revoked.
Expire ==
  /\ expiries < MaxExpiries /\ expiries' = expiries + 1
  /\ token' = Killed(token)
  /\ caller' = [c \in Callers |-> [caller[c] EXCEPT !.carries = Killed(@)]]
  /\ UNCHANGED <<config, slots, loginBy, rejected, faults>>

Local(c) == Succeed(c) \/ Reject(c) \/ Clear(c) \/ Backoff(c) \/ LoggedIn(c)

Next ==
  \/ \E c \in Callers : Call(c) \/ Local(c) \/ Send(c) \/ Relogin(c) \/ LoginAgain(c) \/ GiveUp(c)
  \/ Expire

Spec == Init /\ [][Next]_vars

(***************************************************************************)
(* Requests are answered or time out (the http.Client's Timeout), timers   *)
(* fire, and who waits for a slot or for loginMu gets it if it comes free  *)
(* again and again: channels and mutexes queue their waiters.              *)
(***************************************************************************)
Fairness == \A c \in Callers : WF_vars(Local(c)) /\ SF_vars(Send(c)) /\ SF_vars(Relogin(c))

FairSpec == Spec /\ Fairness

-----------------------------------------------------------------------------
(* Properties                                                              *)

\* Every variable has its type.
TypeOK ==
  /\ oauth \in BOOLEAN /\ user \in BOOLEAN /\ rejected \in BOOLEAN
  /\ token \in Tokens /\ slots \in Nat /\ loginBy \in Callers \cup {NoCaller}
  /\ caller \in [Callers -> CallState]
  /\ expiries \in 0 .. MaxExpiries /\ faults \in 0 .. MaxFaults

InFlight == {c \in Callers : At(c, "request")}

\* The semaphore counts the requests on their way: no path loses a slot, none returns
\* it twice, and pCloud never sees more than Cap at once.
SlotsAreInUse == slots = Cardinality(InFlight) /\ slots <= Cap

\* The holder of loginMu is the one that logs in, and there is one at most.
LoginsAreSerial == \A c \in Callers : At(c, "login") <=> loginBy = c

\* A client that has no token had it rejected.
NoTokenWasRejected == token = "none" => rejected

\* Only a client with a password comes to relogin.
ReloginNeedsUser == \A c \in Callers : At(c, "relogin") => user

\* A call backs off with an attempt left.
AttemptsLeft == \A c \in Callers : At(c, "backoff") => caller[c].attempt < MaxTries

ClientInv ==
  /\ TypeOK /\ SlotsAreInUse /\ LoginsAreSerial
  /\ NoTokenWasRejected /\ ReloginNeedsUser /\ AttemptsLeft

(***************************************************************************)
(* Callers whose token fails at the same time share one login: who waited  *)
(* for loginMu uses the token it finds, and userinfo is asked only if a    *)
(* token was dropped since it last answered.  OAuth clients never ask it.  *)
(***************************************************************************)
LoginsAreShared == \A c \in Callers : At(c, "login") => rejected /\ user /\ ~oauth

(***************************************************************************)
(* Every call ends: no one waits for ever for a slot, for loginMu or for   *)
(* the calls that hold them, whatever fails in between.                    *)
(***************************************************************************)
CallsEnd == \A c \in Callers : ~At(c, "idle") ~> At(c, "idle")

(***************************************************************************)
(* A client with a password recovers from an expired session and from      *)
(* dropped connections: once a single caller is left, its calls come to    *)
(* succeed.  (Overlapping calls can keep dropping each other's tokens.)    *)
(***************************************************************************)
LoneCallerRecovers ==
  user /\ ~oauth =>
    \A c \in Callers :
      (<>[](\A d \in Callers \ {c} : At(d, "idle")) /\ []<>At(c, "request")) =>
        <>[](caller[c].result # "failed")

-----------------------------------------------------------------------------
(* What the documentation says, and the code does not do                   *)

\* .env.example: an OAuth access token does not expire until the app is revoked.  So
\* every request of an OAuth client carries its token until then.
OAuthTokenLasts ==
  oauth /\ expiries = 0 => \A c \in InFlight : caller[c].carries = "good"
================================================================================
