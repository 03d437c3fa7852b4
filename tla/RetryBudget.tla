----------------------------- MODULE RetryBudget -----------------------------
(***************************************************************************)
(* What a caller of esiFetch is promised: a call sends at most as many      *)
(* requests as it was given trails, it may fail for want of trails only     *)
(* when all of them are spent, it succeeds or reports an ESI error only on  *)
(* the strength of a request it did send, and it sends none between calls.  *)
(***************************************************************************)
EXTENDS Naturals

CONSTANTS Client,   \* the goroutines that call esiFetch
          Trails    \* the trails each of them passes

VARIABLES busy,     \* is the client inside a call?
          sent,     \* requests sent by its current or latest call
          outcome   \* how its latest call ended

vars == <<busy, sent, outcome>>

\* How a call may end: a decoded body, an ESI error, no trails left, the
\* context's end, the end of the wait for the backoff, a failed token, or an
\* error of the process itself.
Outcome == {"ok", "esiError", "noTrails", "ctx", "deadline", "sso", "local"}

Init ==
  /\ busy = [c \in Client |-> FALSE]
  /\ sent = [c \in Client |-> 0]
  /\ outcome = [c \in Client |-> "none"]

Begin(c) ==
  /\ ~busy[c]
  /\ busy' = [busy EXCEPT ![c] = TRUE]
  /\ sent' = [sent EXCEPT ![c] = 0]
  /\ UNCHANGED outcome

Request(c) ==
  /\ busy[c]
  /\ sent[c] < Trails[c]
  /\ sent' = [sent EXCEPT ![c] = @ + 1]
  /\ UNCHANGED <<busy, outcome>>

Finish(c) ==
  /\ busy[c]
  /\ \E o \in Outcome :
       /\ o = "noTrails" => sent[c] = Trails[c]
       /\ o \in {"ok", "esiError"} => sent[c] > 0
       /\ outcome' = [outcome EXCEPT ![c] = o]
  /\ busy' = [busy EXCEPT ![c] = FALSE]
  /\ UNCHANGED sent

Next == \E c \in Client : Begin(c) \/ Request(c) \/ Finish(c)

Spec == Init /\ [][Next]_vars
==============================================================================
