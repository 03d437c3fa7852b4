----------------------------- MODULE EsiArchive -----------------------------
(***************************************************************************)
(* src/archive/emd/src/esi.c: threads that call esi_fetch share a backoff,  *)
(* the global esi_timeout, and an SSO access token.  A call acquires its    *)
(* token once, before its loop, and then spends its trails; every trail     *)
(* first waits until no backoff runs.  Instants are kept as the ticks that  *)
(* remain until them, and time passes at every point.  The mutexes of this  *)
(* file guard single reads and writes that a step makes whole, and are not  *)
(* modelled.                                                                *)
(***************************************************************************)
EXTENDS Integers

CONSTANTS
  Client,         \* threads that call esi_fetch
  Authenticated,  \* the ones whose requests carry the token
  Trails,         \* the trails each of them passes
  Advice,         \* what X-Esi-Error-Limit-Reset and a 504's body may hold
  Implicit,       \* the backoff of 500, 503 and 429, and the default (20 s)
  LimitMax,       \* largest X-Esi-Error-Limit-Reset believed (120 s)
  SleepMax,       \* what esi_timeout_clear asserts of a sleep (1 h)
  Life,           \* what the SSO may put in expires_in
  Margin,         \* life a cached token must have left (10 s)
  Cut             \* what is taken off its life for the request's time (7 s)

ASSUME EsiArchiveAssumption ==
  /\ Authenticated \subseteq Client
  /\ Trails \in [Client -> Nat \ {0}]
  /\ Advice \subseteq Int
  /\ {Implicit, LimitMax, SleepMax, Margin, Cut} \subseteq Nat \ {0}
  /\ Implicit < SleepMax /\ LimitMax < SleepMax
  /\ Life \subseteq Nat

VARIABLES
  pc,          \* where the client is in esi_fetch
  trails,      \* trails its loop has left
  wake,        \* ticks its sleep in esi_timeout_clear has left
  outcome,     \* how its latest call ended
  given,       \* the life of the token its login request was answered with
  fresh,       \* ticks until that token ends
  esi_timeout, \* ticks until the shared backoff ends
  sso_access_token_expiry,   \* ticks until the token's recorded end
  live,        \* ticks until the token's real end
  bearer,      \* ticks until the end of the token in the client's handle
  \* History variables, read by properties only.
  sent,        \* requests sent by the client's latest call
  lag,         \* ticks since its look at the token, counted up to Margin + 1
  sound,       \* was the shared token given a long life, and promptly?
  bearerSound, \* was the token in the client's handle?
  renewed,     \* has a backoff been set since it found none running?
  asked        \* ticks until the last of the backoffs set so far ends

callVars == <<pc, trails, outcome, sent>>
loginVars == <<given, fresh>>
tokenVars == <<sso_access_token_expiry, live, sound>>
handleVars == <<bearer, bearerSound>>
backoffVars == <<esi_timeout, asked, renewed>>
vars == <<callVars, wake, lag, loginVars, tokenVars, handleVars, backoffVars>>

Larger(a, b) == IF a > b THEN a ELSE b
Down(n) == IF n > 0 THEN n - 1 ELSE 0

Outcome == {"ok", "esiError", "noTrails", "sso", "local"}

TypeOK ==
  /\ pc \in [Client -> {"idle", "token", "login", "issued", "build", "clear",
                        "sleep", "send", "await"}]
  /\ trails \in [Client -> Nat] /\ sent \in [Client -> Nat]
  /\ wake \in [Client -> Nat] /\ lag \in [Client -> 0..(Margin + 1)]
  /\ outcome \in [Client -> Outcome \cup {"none"}]
  /\ given \in [Client -> Nat] /\ fresh \in [Client -> Nat]
  /\ bearer \in [Client -> Nat] /\ bearerSound \in [Client -> BOOLEAN]
  /\ renewed \in [Client -> BOOLEAN] /\ sound \in BOOLEAN
  /\ {esi_timeout, asked, sso_access_token_expiry, live} \subseteq Nat

Init ==
  /\ pc = [c \in Client |-> "idle"]
  /\ trails = [c \in Client |-> 0] /\ sent = [c \in Client |-> 0]
  /\ wake = [c \in Client |-> 0] /\ lag = [c \in Client |-> 0]
  /\ outcome = [c \in Client |-> "none"]
  /\ given = [c \in Client |-> 0] /\ fresh = [c \in Client |-> 0]
  /\ bearer = [c \in Client |-> 0] /\ bearerSound = [c \in Client |-> FALSE]
  /\ renewed = [c \in Client |-> FALSE]
  /\ esi_timeout = 0 /\ asked = 0
  /\ sso_access_token_expiry = 0 /\ live = 0 /\ sound = FALSE

-----------------------------------------------------------------------------
Goto(c, label) == pc' = [pc EXCEPT ![c] = label]

Return(c, o) ==
  /\ Goto(c, "idle")
  /\ outcome' = [outcome EXCEPT ![c] = o]
  /\ trails' = [trails EXCEPT ![c] = 0]

LoopOnceMore(c, n) ==   \* mutant: while (trails >= 0)
  \/ /\ n >= 0
     /\ trails' = [trails EXCEPT ![c] = n - 1]
     /\ Goto(c, "clear")
     /\ UNCHANGED outcome
  \/ n < 0 /\ Return(c, "noTrails")

\* The head of the loop of esi_perform_request.
Loop(c, n) ==
  \/ /\ n > 0
     /\ trails' = [trails EXCEPT ![c] = n - 1]
     /\ Goto(c, "clear")
     /\ UNCHANGED outcome
  \/ n <= 0 /\ Return(c, "noTrails")

\* A trail that failed.
Retry(c) == Loop(c, trails[c])

SetTimeoutOverwrites(ticks) ==   \* mutant: as esi.go does
  /\ esi_timeout' = ticks
  /\ asked' = Larger(asked, ticks)
  /\ renewed' = [c \in Client |-> TRUE]

\* esi_timeout_set: the shared instant only moves forward.
SetTimeout(ticks) ==
  /\ esi_timeout' = Larger(esi_timeout, ticks)
  /\ asked' = Larger(asked, ticks)
  /\ renewed' = [c \in Client |-> TRUE]

\* The reset of a 420.  A header that is missing or does not decode leads to
\* the default like one out of range.
LimitReset(a) == IF a \in 1..LimitMax THEN a ELSE Implicit

GatewayTimeoutBelieved(a) == IF a > 0 THEN a ELSE Implicit   \* mutant: no range

\* esi_parse_error_timeout asks whether the body as a whole is an integer,
\* having checked that it is an object: no body is ever believed.
GatewayTimeout(a) == Implicit

-----------------------------------------------------------------------------
Call(c) ==
  /\ pc[c] = "idle"
  /\ sent' = [sent EXCEPT ![c] = 0]
  /\ Goto(c, IF c \in Authenticated THEN "token" ELSE "build")
  /\ UNCHANGED <<trails, outcome, wake, lag, loginVars, tokenVars, handleVars, backoffVars>>

UseDyingToken(c) ==   \* mutant: no margin
  /\ pc[c] = "token"
  /\ sso_access_token_expiry > 0
  /\ Goto(c, "build")
  /\ lag' = [lag EXCEPT ![c] = 0]
  /\ UNCHANGED <<trails, outcome, sent, wake, loginVars, tokenVars, handleVars, backoffVars>>

\* sso_access_token_acquire, when the cached token has life left.
UseCachedToken(c) ==
  /\ pc[c] = "token"
  /\ sso_access_token_expiry > Margin
  /\ Goto(c, "build")
  /\ lag' = [lag EXCEPT ![c] = 0]
  /\ UNCHANGED <<trails, outcome, sent, wake, loginVars, tokenVars, handleVars, backoffVars>>

\* Otherwise the login server is asked for another.
AskLogin(c) ==
  /\ pc[c] = "token"
  /\ sso_access_token_expiry <= Margin
  /\ Goto(c, "login")
  /\ UNCHANGED <<trails, outcome, sent, wake, lag, loginVars, tokenVars, handleVars, backoffVars>>

\* The server makes a token, whose life begins ...
Issue(c) ==
  /\ pc[c] = "login"
  /\ \E life \in Life :
       /\ given' = [given EXCEPT ![c] = life]
       /\ fresh' = [fresh EXCEPT ![c] = life]
  /\ Goto(c, "issued")
  /\ UNCHANGED <<trails, outcome, sent, wake, lag, tokenVars, handleVars, backoffVars>>

\* ... and the end of which is computed when the answer is there.
StoreToken(c) ==
  /\ pc[c] = "issued"
  /\ sso_access_token_expiry' = IF given[c] > Cut THEN given[c] - Cut ELSE 0
  /\ live' = fresh[c]
  /\ sound' = (given[c] > Cut + Margin /\ given[c] - Cut <= fresh[c])
  /\ lag' = [lag EXCEPT ![c] = 0]
  /\ given' = [given EXCEPT ![c] = 0] /\ fresh' = [fresh EXCEPT ![c] = 0]
  /\ Goto(c, "build")
  /\ UNCHANGED <<trails, outcome, sent, wake, handleVars, backoffVars>>

\* The request fails, its status is not 200, or its body is not as expected.
TokenError(c) ==
  /\ pc[c] \in {"login", "issued"}
  /\ Return(c, "sso")
  /\ given' = [given EXCEPT ![c] = 0] /\ fresh' = [fresh EXCEPT ![c] = 0]
  /\ UNCHANGED <<sent, wake, lag, tokenVars, handleVars, backoffVars>>

\* The end of esi_build_request copies the shared token into the handle.
Build(c) ==
  /\ pc[c] = "build"
  /\ IF c \in Authenticated
     THEN /\ bearer' = [bearer EXCEPT ![c] = live]
          /\ bearerSound' = [bearerSound EXCEPT ![c] = sound]
     ELSE UNCHANGED handleVars
  /\ Loop(c, Trails[c])
  /\ UNCHANGED <<sent, wake, lag, loginVars, tokenVars, backoffVars>>

CheckForEver(c) ==   \* mutant: the end of the backoff does not end the loop
  /\ pc[c] = "clear"
  /\ Goto(c, "sleep")
  /\ wake' = [wake EXCEPT ![c] = esi_timeout]
  /\ UNCHANGED <<trails, outcome, sent, lag, loginVars, tokenVars, handleVars, backoffVars>>

\* esi_timeout_clear: return if no backoff runs, else sleep until its end...
CheckTimeout(c) ==
  /\ pc[c] = "clear"
  /\ IF esi_timeout = 0
     THEN /\ Goto(c, "send")
          /\ renewed' = [renewed EXCEPT ![c] = FALSE]
          /\ UNCHANGED wake
     ELSE /\ Goto(c, "sleep")
          /\ wake' = [wake EXCEPT ![c] = esi_timeout]
          /\ UNCHANGED renewed
  /\ UNCHANGED <<trails, outcome, sent, lag, loginVars, tokenVars, handleVars,
                 esi_timeout, asked>>

\* ... and look again.
Wake(c) ==
  /\ pc[c] = "sleep" /\ wake[c] = 0
  /\ Goto(c, "clear")
  /\ UNCHANGED <<trails, outcome, sent, wake, lag, loginVars, tokenVars, handleVars, backoffVars>>

Send(c) ==
  /\ pc[c] = "send"
  /\ Goto(c, "await")
  /\ sent' = [sent EXCEPT ![c] = @ + 1]
  /\ UNCHANGED <<trails, outcome, wake, lag, loginVars, tokenVars, handleVars, backoffVars>>

\* What a call that ends, or goes on, leaves as it was.
Untouched == UNCHANGED <<sent, wake, lag, loginVars, tokenVars, handleVars>>

\* A curl_easy_setopt, the length of the URL, open_memstream or fflush fails.
LocalError(c) ==
  /\ pc[c] \in {"build", "send", "await"}
  /\ Return(c, "local")
  /\ Untouched /\ UNCHANGED backoffVars

\* curl_easy_perform fails, its own timeout included.
CurlError(c) ==
  /\ pc[c] = "await"
  /\ Retry(c)
  /\ Untouched /\ UNCHANGED backoffVars

\* 500, 503 and 429; 420; 504.
Backoff(c) ==
  /\ pc[c] = "await"
  /\ \E a \in Advice :
       SetTimeout(Implicit) \/ SetTimeout(LimitReset(a)) \/ SetTimeout(GatewayTimeout(a))
  /\ Retry(c)
  /\ Untouched

\* Another status than 200, the refusal of a token that has ended included.
EsiError(c) ==
  /\ pc[c] = "await"
  /\ Return(c, "esiError")
  /\ Untouched /\ UNCHANGED backoffVars

Ok(c) ==
  /\ pc[c] = "await"
  /\ c \in Authenticated => bearer[c] > 0
  /\ Return(c, "ok")
  /\ Untouched /\ UNCHANGED backoffVars

Tick ==
  /\ wake' = [c \in Client |-> Down(wake[c])]
  /\ lag' = [c \in Client |-> IF lag[c] <= Margin THEN lag[c] + 1 ELSE lag[c]]
  /\ fresh' = [c \in Client |-> Down(fresh[c])]
  /\ bearer' = [c \in Client |-> Down(bearer[c])]
  /\ esi_timeout' = Down(esi_timeout) /\ asked' = Down(asked)
  /\ sso_access_token_expiry' = Down(sso_access_token_expiry)
  /\ live' = Down(live)
  /\ UNCHANGED <<callVars, given, sound, bearerSound, renewed>>

Run(c) ==
  \/ UseCachedToken(c) \/ AskLogin(c) \/ Build(c)
  \/ CheckTimeout(c) \/ Wake(c) \/ Send(c) \/ LocalError(c)
  \/ CurlError(c) \/ Backoff(c) \/ EsiError(c) \/ Ok(c)

\* The login server answers, or does not.
Login(c) == Issue(c) \/ StoreToken(c) \/ TokenError(c)

Next == Tick \/ \E c \in Client : Call(c) \/ Run(c) \/ Login(c)

Spec == Init /\ [][Next]_vars

\* Threads that can run do, and a request to the ESI ends by its timeout
\* (CURLOPT_TIMEOUT, 7 s).  The login request has none: curl_easy_reset takes
\* off that of an earlier request, and nothing makes Login fair.
FairSpec == Spec /\ WF_vars(Tick) /\ \A c \in Client : WF_vars(Run(c))

-----------------------------------------------------------------------------
\* esi_timeout_clear promises its caller silence: a request goes out during a
\* backoff only when that backoff was set by another thread after the caller
\* had found none running.  An earlier, longer backoff is never forgotten.
SilenceKept == \A c \in Client : pc[c] = "send" /\ asked > 0 => renewed[c]

\* "just to be sure": the assertion of esi_timeout_clear, whose failure stops
\* the daemon, cannot fail, whatever the ESI puts in its headers and bodies.
SleepIsShort == esi_timeout < SleepMax

\* The token of a request is alive until more than Margin ticks after the look
\* at it, whatever held the call up since: the margin of ten seconds is what a
\* call may spend on the way, its request of at most seven included.  It is so
\* of a token that the login server gave promptly, within the Cut ticks taken
\* off its life, and for longer than Cut + Margin; of another nothing is said,
\* since its end is computed from the time of the answer (src/esi.c:196) and
\* not looked at again.
LiveForMargin ==
  \A c \in Authenticated :
    pc[c] \in {"send", "await"} /\ bearerSound[c] /\ lag[c] <= Margin => bearer[c] > 0

\* esi_fetch keeps the promise of module RetryBudget to its callers.
Budget == INSTANCE RetryBudget WITH busy <- [c \in Client |-> pc[c] # "idle"]
KeepsBudget == Budget!Spec

\* A call returns if the ESI stops asking for backoffs, since nothing else bounds
\* the wait of esi_timeout_clear, and if it is not left for ever waiting for the
\* login server, since nothing bounds that wait.
CallReturns ==
  \A c \in Client :
    <>[](asked = 0) /\ []<>(pc[c] \notin {"login", "issued"})
      => (pc[c] # "idle" ~> pc[c] = "idle")
=============================================================================
