------------------------------ MODULE EsiFetch ------------------------------
(***************************************************************************)
(* src/esi.go: goroutines that call esiFetch share one backoff, the global  *)
(* esiTimeout.  Instants are kept as the ticks that remain until them, so   *)
(* that the state space is finite; a duration below the clock's resolution  *)
(* is 0 ticks.  The recursion of retry() is the pair (trails, open): the    *)
(* trails of the innermost frame, and the frames that hold a response body  *)
(* which their deferred Close releases when the recursion unwinds.          *)
(***************************************************************************)
EXTENDS Integers

CONSTANTS
  Client,          \* goroutines that call esiFetch
  Authenticated,   \* the ones whose requests carry a token
  Trails,          \* the trails each of them passes
  Advice,          \* what the ESI may put in its advice headers and bodies
  RateMax, RateDefault,     \* 429: largest advice believed (240s), else 20s
  LimitMax, LimitDefault,   \* 420 and 504: largest believed (120s), else 10s
  WaitLimit        \* longest wait for the backoff to clear (15min)

ASSUME EsiAssumption ==
  /\ Authenticated \subseteq Client
  /\ Trails \in [Client -> Nat \ {0}]
  /\ Advice \subseteq Int
  /\ {RateMax, RateDefault, LimitMax, LimitDefault, WaitLimit}
       \subseteq Nat \ {0}
  /\ RateDefault <= RateMax /\ LimitDefault <= LimitMax
  /\ LimitMax <= RateMax /\ RateMax < WaitLimit

VARIABLES
  pc,         \* where the client is in esiFetch
  trails,     \* trails of its innermost frame
  open,       \* frames of its recursion that hold a response body
  wake,       \* ticks its timer in esiClearTimeout has left
  waitLeft,   \* ticks its wait context has left
  cancelled,  \* was the caller's context cancelled?
  outcome,    \* how its latest call ended
  esiTimeout, \* ticks until the shared backoff ends
  \* History variables, read by properties only.
  sent,       \* requests sent by the client's latest call
  advised     \* ticks until the last of the backoffs the ESI asked for ends

clientVars == <<pc, trails, open, wake, waitLeft, cancelled, outcome, sent>>
vars == <<clientVars, esiTimeout, advised>>

Larger(a, b) == IF a > b THEN a ELSE b
Down(n) == IF n > 0 THEN n - 1 ELSE 0

TypeOK ==
  /\ pc \in [Client -> {"idle", "clear", "sleep", "auth", "send", "await"}]
  /\ trails \in [Client -> Nat]
  /\ open \in [Client -> Nat]
  /\ wake \in [Client -> 0..RateMax]
  /\ waitLeft \in [Client -> 0..WaitLimit]
  /\ cancelled \in [Client -> BOOLEAN]
  /\ outcome \in [Client -> {"none", "ok", "esiError", "noTrails", "ctx",
                             "deadline", "sso"}]
  /\ sent \in [Client -> Nat]
  /\ esiTimeout \in 0..RateMax
  /\ advised \in 0..RateMax

Init ==
  /\ pc = [c \in Client |-> "idle"]
  /\ trails = [c \in Client |-> 0]
  /\ open = [c \in Client |-> 0]
  /\ wake = [c \in Client |-> 0]
  /\ waitLeft = [c \in Client |-> 0]
  /\ cancelled = [c \in Client |-> FALSE]
  /\ outcome = [c \in Client |-> "none"]
  /\ sent = [c \in Client |-> 0]
  /\ esiTimeout = 0 /\ advised = 0
-----------------------------------------------------------------------------
Goto(c, label) == pc' = [pc EXCEPT ![c] = label]

\* A frame of esiFetch begins, with its own 15 minute wait context.
EnterFrame(c, n) ==
  /\ trails' = [trails EXCEPT ![c] = n]
  /\ waitLeft' = [waitLeft EXCEPT ![c] = WaitLimit]
  /\ Goto(c, "clear")

ReturnWithoutDefer(c, o) ==   \* mutant: the bodies stay open
  /\ outcome' = [outcome EXCEPT ![c] = o]
  /\ trails' = [trails EXCEPT ![c] = 0]
  /\ waitLeft' = [waitLeft EXCEPT ![c] = 0]
  /\ Goto(c, "idle")
  /\ UNCHANGED open

\* The whole recursion unwinds: every deferred Close runs.
Return(c, o) ==
  /\ outcome' = [outcome EXCEPT ![c] = o]
  /\ open' = [open EXCEPT ![c] = 0]
  /\ trails' = [trails EXCEPT ![c] = 0]
  /\ waitLeft' = [waitLeft EXCEPT ![c] = 0]
  /\ Goto(c, "idle")

RetryOnceMore(c, bodies) ==   \* mutant: a frame may start with no trail
  \/ /\ trails[c] > 0
     /\ EnterFrame(c, trails[c] - 1)
     /\ open' = [open EXCEPT ![c] = @ + bodies]
     /\ UNCHANGED outcome
  \/ trails[c] = 0 /\ Return(c, "noTrails")

RetrySameTrails(c, bodies) ==   \* mutant: the recursion passes trails on
  /\ EnterFrame(c, trails[c])
  /\ open' = [open EXCEPT ![c] = @ + bodies]
  /\ UNCHANGED outcome

\* retry(): one trail less; the frame that would start with none left fails
\* the call.  bodies is 1 when this frame holds a response body.
Retry(c, bodies) ==
  \/ /\ trails[c] > 1
     /\ EnterFrame(c, trails[c] - 1)
     /\ open' = [open EXCEPT ![c] = @ + bodies]
     /\ UNCHANGED outcome
  \/ /\ trails[c] <= 1
     /\ Return(c, "noTrails")

SetTimeoutUnscaled(ticks) == esiTimeout' = 0   \* mutant: seconds taken as ns

\* esiSetTimeout: the new instant replaces the old one.
SetTimeout(ticks) == esiTimeout' = ticks

BelievedWhenLarge(a, max, default) == IF a >= 0 THEN a ELSE default   \* mutant

\* The advice if it is in range.  A header that is missing, or that does not
\* decode, leads to the default like one out of range.
Believed(a, max, default) == IF a \in 0..max THEN a ELSE default
-----------------------------------------------------------------------------
Call(c) ==
  /\ pc[c] = "idle"
  /\ ~cancelled[c]
  /\ EnterFrame(c, Trails[c])
  /\ sent' = [sent EXCEPT ![c] = 0]
  /\ UNCHANGED <<open, wake, cancelled, outcome, esiTimeout, advised>>

\* esiClearTimeout copies the shared instant: it returns if that has passed,
\* which releases the wait context, and otherwise sleeps on its own timer.
CheckTimeout(c) ==
  /\ pc[c] = "clear"
  /\ \/ /\ esiTimeout = 0
        /\ Goto(c, IF c \in Authenticated THEN "auth" ELSE "send")
        /\ waitLeft' = [waitLeft EXCEPT ![c] = 0]
        /\ UNCHANGED wake
     \/ /\ esiTimeout > 0
        /\ wake' = [wake EXCEPT ![c] = esiTimeout]
        /\ Goto(c, "sleep")
        /\ UNCHANGED waitLeft
  /\ UNCHANGED <<trails, open, cancelled, outcome, sent, esiTimeout,
                 advised>>

\* The timer fires, and the loop looks at the shared instant again.
Wake(c) ==
  /\ pc[c] = "sleep"
  /\ wake[c] = 0
  /\ Goto(c, "clear")
  /\ UNCHANGED <<trails, open, wake, waitLeft, cancelled, outcome, sent,
                 esiTimeout, advised>>

GiveUpOnCancelOnly(c) ==   \* mutant: the wait has no context of its own
  /\ pc[c] = "sleep"
  /\ cancelled[c] /\ Return(c, "ctx")
  /\ wake' = [wake EXCEPT ![c] = 0]
  /\ UNCHANGED <<cancelled, sent, esiTimeout, advised>>

\* The other arm of the select: the wait context is over.
GiveUpWaiting(c) ==
  /\ pc[c] = "sleep"
  /\ \/ cancelled[c] /\ Return(c, "ctx")
     \/ waitLeft[c] = 0 /\ Return(c, "deadline")
  /\ wake' = [wake EXCEPT ![c] = 0]
  /\ UNCHANGED <<cancelled, sent, esiTimeout, advised>>

\* acquireSSOToken, whose detail is module SsoToken: a token or an error.
AcquireToken(c) ==
  /\ pc[c] = "auth"
  /\ \/ /\ Goto(c, "send")
        /\ UNCHANGED <<trails, open, waitLeft, outcome>>
     \/ Return(c, "sso")
  /\ UNCHANGED <<wake, cancelled, sent, esiTimeout, advised>>

Send(c) ==
  /\ pc[c] = "send"
  /\ Goto(c, "await")
  /\ sent' = [sent EXCEPT ![c] = @ + 1]
  /\ UNCHANGED <<trails, open, wake, waitLeft, cancelled, outcome, esiTimeout,
                 advised>>

\* client.Do fails: the caller's context ended, or the transport did, its own
\* 7 second timeout included.  No body was opened.
TransportError(c) ==
  /\ pc[c] = "await"
  /\ \/ cancelled[c] /\ Return(c, "ctx")
     \/ Retry(c, 0)
  /\ UNCHANGED <<wake, cancelled, sent, esiTimeout, advised>>

\* 500 and 503.  esiSetTimeout takes a Duration, and the literal 20 is twenty
\* nanoseconds: less than a tick.
ImplicitTimeout(c) ==
  /\ pc[c] = "await"
  /\ SetTimeout(0)
  /\ Retry(c, 1)
  /\ UNCHANGED <<wake, cancelled, sent, advised>>

\* 429 with Retry-After, 420 with X-Esi-Error-Limit-Reset, 504 with a body.
AdvisedTimeout(c) ==
  /\ pc[c] = "await"
  /\ \E a \in Advice :
       \E ticks \in {Believed(a, RateMax, RateDefault),
                     Believed(a, LimitMax, LimitDefault)} :
         /\ SetTimeout(ticks)
         /\ advised' = Larger(advised, ticks)
  /\ Retry(c, 1)
  /\ UNCHANGED <<wake, cancelled, sent>>

\* Another status whose body decodes is the caller's to handle.
EsiError(c) ==
  /\ pc[c] = "await"
  /\ Return(c, "esiError")
  /\ UNCHANGED <<wake, cancelled, sent, esiTimeout, advised>>

\* A body, of a 200 or of another status, that does not decode.
Garbled(c) ==
  /\ pc[c] = "await"
  /\ Retry(c, 1)
  /\ UNCHANGED <<wake, cancelled, sent, esiTimeout, advised>>

Ok(c) ==
  /\ pc[c] = "await"
  /\ Return(c, "ok")
  /\ UNCHANGED <<wake, cancelled, sent, esiTimeout, advised>>

\* The program shuts down: the worker's context is cancelled for good.
Cancel(c) ==
  /\ ~cancelled[c]
  /\ cancelled' = [cancelled EXCEPT ![c] = TRUE]
  /\ UNCHANGED <<pc, trails, open, wake, waitLeft, outcome, sent, esiTimeout,
                 advised>>

Tick ==
  /\ wake' = [c \in Client |-> Down(wake[c])]
  /\ waitLeft' = [c \in Client |-> Down(waitLeft[c])]
  /\ esiTimeout' = Down(esiTimeout)
  /\ advised' = Down(advised)
  /\ UNCHANGED <<pc, trails, open, cancelled, outcome, sent>>

Answer(c) ==
  \/ TransportError(c) \/ ImplicitTimeout(c) \/ AdvisedTimeout(c)
  \/ EsiError(c) \/ Garbled(c) \/ Ok(c)

\* A step the client's own goroutine takes once it is inside a call.
Run(c) ==
  \/ CheckTimeout(c) \/ Wake(c) \/ GiveUpWaiting(c) \/ AcquireToken(c)
  \/ Send(c) \/ Answer(c)

Next == Tick \/ \E c \in Client : Call(c) \/ Cancel(c) \/ Run(c)

Spec == Init /\ [][Next]_vars

\* Time passes and runnable goroutines run.  select picks at random among the
\* arms that are ready, hence strong fairness for the end of the wait.
FairSpec ==
  /\ Spec
  /\ WF_vars(Tick)
  /\ \A c \in Client : WF_vars(Run(c)) /\ SF_vars(GiveUpWaiting(c))
=============================================================================
