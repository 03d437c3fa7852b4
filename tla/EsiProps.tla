------------------------------ MODULE EsiProps ------------------------------
(***************************************************************************)
(* What esiFetch must guarantee, stated over the model of module EsiFetch.  *)
(***************************************************************************)
EXTENDS EsiFetch

\* The trails spent so far account for every request sent: a call with n
\* trails left has sent Trails - n requests, one more while it awaits the
\* answer, so that retry() can neither repeat a trail nor lose one.
RequestsAccountForTrails ==
  \A c \in Client : pc[c] # "idle" =>
    /\ trails[c] >= 1
    /\ sent[c] + trails[c] = Trails[c] + (IF pc[c] = "await" THEN 1 ELSE 0)

\* The recursion keeps the body of every answered request open until it
\* unwinds: never more bodies than requests answered, none between calls.
BodiesAreReleased ==
  \A c \in Client :
    IF pc[c] = "idle" THEN open[c] = 0
    ELSE open[c] <= Trails[c] - trails[c]

\* No other goroutine has called esiFetch so far.
Alone(c) == \A d \in Client \ {c} : pc[d] = "idle" /\ outcome[d] = "none"

\* While a goroutine is alone with the ESI, it sends no request during a backoff
\* that the ESI asked for with a 429, a 420 or a 504: retry() and the next call
\* wait for it.
NoRequestDuringBackoff ==
  [][\A c \in Client : Send(c) /\ Alone(c) => advised = 0]_vars

\* The 15 minutes of the wait context are longer than any backoff believed, so
\* the timer of a goroutine alone with the ESI fires before that context ends.
TimerBeatsDeadline ==
  \A c \in Client :
    Alone(c) /\ pc[c] = "sleep" /\ wake[c] > 0 => wake[c] < waitLeft[c]

\* esiFetch keeps the promise of module RetryBudget to its callers.
Budget == INSTANCE RetryBudget WITH busy <- [c \in Client |-> pc[c] # "idle"]
KeepsBudget == Budget!Spec

\* Every call returns, whatever the ESI answers and however often the other
\* goroutines renew the backoff: the wait context bounds each wait.
CallReturns == \A c \in Client : pc[c] # "idle" ~> pc[c] = "idle"
=============================================================================
