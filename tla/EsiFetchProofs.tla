--------------------------- MODULE EsiFetchProofs ---------------------------
(***************************************************************************)
(* Theorems about esiFetch, for every set of goroutines, every number of    *)
(* trails and every length of the backoffs.                                 *)
(***************************************************************************)
EXTENDS EsiProps, TLAPS

\* The part of TypeOK a client's own steps write, and the shared clocks.
ClientType ==
  /\ pc \in [Client -> {"idle", "clear", "sleep", "auth", "send", "await"}]
  /\ trails \in [Client -> Nat]
  /\ open \in [Client -> Nat]
  /\ wake \in [Client -> 0..RateMax]
  /\ waitLeft \in [Client -> 0..WaitLimit]
  /\ cancelled \in [Client -> BOOLEAN]
  /\ outcome \in [Client -> {"none", "ok", "esiError", "noTrails", "ctx",
                             "deadline", "sso"}]
  /\ sent \in [Client -> Nat]

ClockType == esiTimeout \in 0..RateMax /\ advised \in 0..RateMax

\* The inductive invariant.
IInv == ClientType /\ ClockType /\ RequestsAccountForTrails /\ BodiesAreReleased

\* A client's bookkeeping alone, the part that retry() and return change.
Books == ClientType /\ RequestsAccountForTrails /\ BodiesAreReleased

USE EsiAssumption

\* The constants' types, one by one.
LEMMA ConstantTypes ==
  /\ Trails \in [Client -> Nat \ {0}]
  /\ RateMax \in Nat /\ RateDefault \in Nat
  /\ LimitMax \in Nat /\ LimitDefault \in Nat
  /\ WaitLimit \in Nat /\ RateMax < WaitLimit
OBVIOUS

-----------------------------------------------------------------------------
\* A believed advice is no longer than the longest one.
LEMMA BelievedBounds ==
  ASSUME NEW a \in Int, NEW max \in Nat, NEW default \in Nat,
         max <= RateMax, default <= max
  PROVE  Believed(a, max, default) \in 0..RateMax
BY DEF Believed

\* Leaving the call keeps the books.
LEMMA ReturnKeepsBooks ==
  ASSUME NEW c \in Client, Books,
         NEW o \in {"ok", "esiError", "noTrails", "ctx", "deadline", "sso"},
         Return(c, o), UNCHANGED <<cancelled, sent>>,
         wake' \in [Client -> 0..RateMax]
  PROVE  Books'
<1>1. ClientType'
  <2>1. 0 \in 0..WaitLimit
    BY ConstantTypes
  <2>2. pc' \in [Client -> {"idle", "clear", "sleep", "auth", "send", "await"}]
    BY DEF Books, ClientType, Return, Goto
  <2>3. outcome' \in [Client -> {"none", "ok", "esiError", "noTrails", "ctx",
                                "deadline", "sso"}]
    BY DEF Books, ClientType, Return
  <2> QED
    BY <2>1, <2>2, <2>3 DEF Books, ClientType, Return
<1>2. RequestsAccountForTrails'
  BY DEF Books, ClientType, RequestsAccountForTrails, Return, Goto
<1>3. BodiesAreReleased'
  BY DEF Books, ClientType, BodiesAreReleased, Return, Goto
<1> QED
  BY <1>1, <1>2, <1>3 DEF Books

\* Retrying after an answer, or after none, keeps the books.
LEMMA RetryKeepsBooks ==
  ASSUME NEW c \in Client, Books, NEW bodies \in {0, 1},
         pc[c] = "await", Retry(c, bodies), UNCHANGED <<cancelled, sent, wake>>
  PROVE  Books'
<1>1. CASE trails[c] > 1 /\ EnterFrame(c, trails[c] - 1)
           /\ open' = [open EXCEPT ![c] = @ + bodies] /\ UNCHANGED outcome
  <2>1. ClientType'
    BY <1>1 DEF Books, ClientType, EnterFrame, Goto
  <2>2. RequestsAccountForTrails'
    BY <1>1 DEF Books, ClientType, RequestsAccountForTrails, EnterFrame, Goto
  <2>3. BodiesAreReleased'
    BY <1>1 DEF Books, ClientType, BodiesAreReleased, EnterFrame, Goto
  <2> QED
    BY <2>1, <2>2, <2>3 DEF Books
<1>2. CASE trails[c] <= 1 /\ Return(c, "noTrails")
  <2>1. wake' \in [Client -> 0..RateMax]
    BY DEF Books, ClientType
  <2> QED
    BY <1>2, <2>1, ReturnKeepsBooks
<1> QED
  BY <1>1, <1>2 DEF Retry

\* Entering a call keeps the books: all its trails are left.
LEMMA CallKeepsBooks ==
  ASSUME NEW c \in Client, Books, Call(c)
  PROVE  Books'
<1>1. ClientType'
  BY DEF Books, ClientType, Call, EnterFrame, Goto
<1>2. RequestsAccountForTrails'
  BY DEF Books, ClientType, RequestsAccountForTrails, Call, EnterFrame, Goto
<1>3. BodiesAreReleased'
  BY DEF Books, ClientType, BodiesAreReleased, Call, EnterFrame, Goto
<1> QED
  BY <1>1, <1>2, <1>3 DEF Books

\* So does every step inside a call.
LEMMA RunKeepsBooks ==
  ASSUME NEW c \in Client, Books, ClockType, Run(c)
  PROVE  Books'
<1> USE DEF Books
<1>0. wake \in [Client -> 0..RateMax]
  BY DEF ClientType
<1>1. CASE CheckTimeout(c)
  <2>1. ClientType'
    BY <1>1 DEF ClientType, ClockType, CheckTimeout, Goto
  <2>2. RequestsAccountForTrails'
    BY <1>1 DEF ClientType, RequestsAccountForTrails, CheckTimeout, Goto
  <2>3. BodiesAreReleased'
    BY <1>1 DEF ClientType, BodiesAreReleased, CheckTimeout, Goto
  <2> QED
    BY <2>1, <2>2, <2>3
<1>2. CASE Wake(c)
  BY <1>2 DEF ClientType, RequestsAccountForTrails, BodiesAreReleased, Wake, Goto
<1>3. CASE GiveUpWaiting(c)
  <2>1. wake' \in [Client -> 0..RateMax]
    BY <1>3 DEF ClientType, GiveUpWaiting
  <2> QED
    BY <1>3, <2>1, ReturnKeepsBooks DEF GiveUpWaiting
<1>4. CASE AcquireToken(c)
  <2>1. CASE Return(c, "sso")
    BY <1>0, <1>4, <2>1, ReturnKeepsBooks DEF AcquireToken
  <2>2. CASE Goto(c, "send") /\ UNCHANGED <<trails, open, waitLeft, outcome>>
    BY <1>4, <2>2 DEF ClientType, RequestsAccountForTrails, BodiesAreReleased,
                      AcquireToken, Goto
  <2> QED
    BY <1>4, <2>1, <2>2 DEF AcquireToken
<1>5. CASE Send(c)
  <2>1. ClientType'
    BY <1>5 DEF ClientType, Send, Goto
  <2>2. RequestsAccountForTrails'
    BY <1>5 DEF ClientType, RequestsAccountForTrails, Send, Goto
  <2>3. BodiesAreReleased'
    BY <1>5 DEF ClientType, BodiesAreReleased, Send, Goto
  <2> QED
    BY <2>1, <2>2, <2>3
<1>6. CASE TransportError(c)
  BY <1>0, <1>6, ReturnKeepsBooks, RetryKeepsBooks DEF TransportError
<1>7. CASE ImplicitTimeout(c)
  BY <1>7, RetryKeepsBooks DEF ImplicitTimeout
<1>8. CASE AdvisedTimeout(c)
  BY <1>8, RetryKeepsBooks DEF AdvisedTimeout
<1>9. CASE EsiError(c)
  BY <1>0, <1>9, ReturnKeepsBooks DEF EsiError
<1>10. CASE Garbled(c)
  BY <1>10, RetryKeepsBooks DEF Garbled
<1>11. CASE Ok(c)
  BY <1>0, <1>11, ReturnKeepsBooks DEF Ok
<1> QED
  BY <1>1, <1>2, <1>3, <1>4, <1>5, <1>6, <1>7, <1>8, <1>9, <1>10, <1>11
     DEF Run, Answer

\* The shared clocks stay within the backoffs believed.
LEMMA RunKeepsClocks ==
  ASSUME NEW c \in Client, ClockType, Run(c)
  PROVE  ClockType'
<1>1. CASE ImplicitTimeout(c)
  BY <1>1 DEF ClockType, ImplicitTimeout, SetTimeout
<1>2. CASE AdvisedTimeout(c)
  <2>1. PICK a \in Advice :
          \E ticks \in {Believed(a, RateMax, RateDefault),
                        Believed(a, LimitMax, LimitDefault)} :
            SetTimeout(ticks) /\ advised' = Larger(advised, ticks)
    BY <1>2 DEF AdvisedTimeout
  <2>2. /\ Believed(a, RateMax, RateDefault) \in 0..RateMax
        /\ Believed(a, LimitMax, LimitDefault) \in 0..RateMax
    <3>1. a \in Int /\ RateDefault <= RateMax /\ LimitDefault <= LimitMax
          /\ LimitMax <= RateMax /\ RateMax <= RateMax
      BY ConstantTypes
    <3> QED
      BY <3>1, BelievedBounds, ConstantTypes
  <2> QED
    BY <2>1, <2>2 DEF ClockType, SetTimeout, Larger
<1>3. CASE UNCHANGED <<esiTimeout, advised>>
  BY <1>3 DEF ClockType
<1> QED
  BY <1>1, <1>2, <1>3 DEF Run, Answer, CheckTimeout, Wake, GiveUpWaiting,
     AcquireToken, Send, TransportError, EsiError, Garbled, Ok

-----------------------------------------------------------------------------
LEMMA InitIInv == Init => IInv
<1> SUFFICES ASSUME Init PROVE IInv
  OBVIOUS
<1>1. ClientType
  BY ConstantTypes DEF Init, ClientType
<1>2. ClockType
  BY ConstantTypes DEF Init, ClockType
<1>3. RequestsAccountForTrails /\ BodiesAreReleased
  BY DEF Init, RequestsAccountForTrails, BodiesAreReleased
<1> QED
  BY <1>1, <1>2, <1>3 DEF IInv

LEMMA NextIInv == IInv /\ [Next]_vars => IInv'
<1> SUFFICES ASSUME IInv, [Next]_vars PROVE IInv'
  OBVIOUS
<1>0. Books /\ ClockType
  BY DEF IInv, Books
<1>1. CASE Tick
  <2>1. ClientType'
    <3>1. wake' \in [Client -> 0..RateMax]
      BY <1>1 DEF IInv, ClientType, Tick, Down
    <3>2. waitLeft' \in [Client -> 0..WaitLimit]
      BY <1>1 DEF IInv, ClientType, Tick, Down
    <3> QED
      BY <1>1, <3>1, <3>2 DEF IInv, ClientType, Tick
  <2>2. ClockType'
    BY <1>1 DEF IInv, ClockType, Tick, Down
  <2>3. (RequestsAccountForTrails /\ BodiesAreReleased)'
    BY <1>1 DEF IInv, RequestsAccountForTrails, BodiesAreReleased, Tick
  <2> QED
    BY <2>1, <2>2, <2>3 DEF IInv
<1>2. ASSUME NEW c \in Client, Call(c) PROVE IInv'
  <2>1. Books'
    BY <1>0, <1>2, CallKeepsBooks
  <2>2. ClockType'
    BY <1>0, <1>2 DEF Call, ClockType
  <2> QED
    BY <2>1, <2>2 DEF IInv, Books
<1>3. ASSUME NEW c \in Client, Cancel(c) PROVE IInv'
  BY <1>3 DEF IInv, Cancel, ClientType, ClockType, RequestsAccountForTrails,
              BodiesAreReleased
<1>4. ASSUME NEW c \in Client, Run(c) PROVE IInv'
  BY <1>0, <1>4, RunKeepsBooks, RunKeepsClocks DEF IInv, Books
<1>5. CASE UNCHANGED vars
  BY <1>5 DEF IInv, vars, clientVars, ClientType, ClockType,
              RequestsAccountForTrails, BodiesAreReleased
<1> QED
  BY <1>1, <1>2, <1>3, <1>4, <1>5 DEF Next

LEMMA Invariance == Spec => []IInv
BY InitIInv, NextIInv, PTL DEF Spec

\* Type correctness.
THEOREM TypeCorrect == Spec => []TypeOK
<1>1. IInv => TypeOK
  BY DEF IInv, ClientType, ClockType, TypeOK
<1> QED
  BY <1>1, Invariance, PTL

\* retry() neither repeats a trail nor loses one: whatever the ESI answers,
\* the requests sent and the trails left add up to the trails given.
THEOREM TrailsAccounted == Spec => []RequestsAccountForTrails
<1>1. IInv => RequestsAccountForTrails
  BY DEF IInv
<1> QED
  BY <1>1, Invariance, PTL

\* However deep the recursion, response bodies are bounded by the trails spent
\* and all of them are closed when the call returns.
THEOREM BodiesReleased == Spec => []BodiesAreReleased
<1>1. IInv => BodiesAreReleased
  BY DEF IInv
<1> QED
  BY <1>1, Invariance, PTL

-----------------------------------------------------------------------------
\* esiFetch implements RetryBudget.  A client is busy when it is not idle.
busyOf == [c \in Client |-> pc[c] # "idle"]

\* A return maps to Finish: a call fails for want of trails only in its last
\* frame, when by RequestsAccountForTrails it has sent all its requests.
LEMMA ReturnFinishes ==
  ASSUME NEW c \in Client, IInv, pc[c] # "idle",
         NEW o \in {"ok", "esiError", "noTrails", "ctx", "deadline", "sso"},
         Return(c, o), UNCHANGED sent,
         o = "noTrails" => sent[c] = Trails[c],
         o \in {"ok", "esiError"} => sent[c] > 0
  PROVE  Budget!Finish(c)
<1>1. busyOf[c] /\ busyOf' = [busyOf EXCEPT ![c] = FALSE]
  BY DEF IInv, ClientType, busyOf, Return, Goto
<1>2. \E p \in Budget!Outcome :
        /\ p = "noTrails" => sent[c] = Trails[c]
        /\ p \in {"ok", "esiError"} => sent[c] > 0
        /\ outcome' = [outcome EXCEPT ![c] = p]
  BY DEF Budget!Outcome, Return
<1> QED
  BY <1>1, <1>2 DEF Budget!Finish, busyOf

\* A retry within the trails is invisible; one without any ends the call.
LEMMA RetryRefines ==
  ASSUME NEW c \in Client, IInv, NEW bodies \in {0, 1},
         pc[c] = "await", Retry(c, bodies), UNCHANGED sent
  PROVE  Budget!Finish(c) \/ UNCHANGED <<busyOf, sent, outcome>>
<1>1. CASE trails[c] > 1 /\ EnterFrame(c, trails[c] - 1) /\ UNCHANGED outcome
  <2>1. busyOf' = busyOf
    BY <1>1 DEF IInv, ClientType, busyOf, EnterFrame, Goto
  <2> QED
    BY <1>1, <2>1
<1>2. CASE trails[c] <= 1 /\ Return(c, "noTrails")
  <2>1. sent[c] = Trails[c]
    BY <1>2, ConstantTypes DEF IInv, ClientType, RequestsAccountForTrails
  <2> QED
    BY <1>2, <2>1, ReturnFinishes
<1> QED
  BY <1>1, <1>2 DEF Retry

LEMMA RunRefines ==
  ASSUME NEW c \in Client, IInv, Run(c)
  PROVE  \/ Budget!Request(c)
         \/ Budget!Finish(c)
         \/ UNCHANGED <<busyOf, sent, outcome>>
<1>1. CASE CheckTimeout(c)
  BY <1>1 DEF IInv, ClientType, busyOf, CheckTimeout, Goto
<1>2. CASE Wake(c)
  BY <1>2 DEF IInv, ClientType, busyOf, Wake, Goto
<1>3. CASE GiveUpWaiting(c)
  BY <1>3, ReturnFinishes DEF GiveUpWaiting
<1>4. CASE AcquireToken(c)
  <2>1. CASE Return(c, "sso")
    BY <1>4, <2>1, ReturnFinishes DEF AcquireToken
  <2>2. CASE Goto(c, "send") /\ UNCHANGED <<trails, open, waitLeft, outcome>>
    BY <1>4, <2>2 DEF IInv, ClientType, busyOf, AcquireToken, Goto
  <2> QED
    BY <1>4, <2>1, <2>2 DEF AcquireToken
<1>5. CASE Send(c)
  <2>1. busyOf[c] /\ busyOf' = busyOf
    BY <1>5 DEF IInv, ClientType, busyOf, Send, Goto
  <2>2. sent[c] < Trails[c]
    BY <1>5, ConstantTypes DEF IInv, ClientType, RequestsAccountForTrails, Send
  <2> QED
    BY <1>5, <2>1, <2>2 DEF Budget!Request, Send, busyOf
<1>6. ASSUME pc[c] = "await" PROVE sent[c] > 0
  BY <1>6, ConstantTypes DEF IInv, ClientType, RequestsAccountForTrails,
                             BodiesAreReleased
<1>7. CASE TransportError(c)
  BY <1>7, ReturnFinishes, RetryRefines DEF TransportError
<1>8. CASE ImplicitTimeout(c)
  BY <1>8, RetryRefines DEF ImplicitTimeout
<1>9. CASE AdvisedTimeout(c)
  BY <1>9, RetryRefines DEF AdvisedTimeout
<1>10. CASE EsiError(c)
  BY <1>6, <1>10, ReturnFinishes DEF EsiError
<1>11. CASE Garbled(c)
  BY <1>11, RetryRefines DEF Garbled
<1>12. CASE Ok(c)
  BY <1>6, <1>12, ReturnFinishes DEF Ok
<1> QED
  BY <1>1, <1>2, <1>3, <1>4, <1>5, <1>7, <1>8, <1>9, <1>10, <1>11, <1>12
     DEF Run, Answer

\* The detailed retry loop implements the promise made to callers.
THEOREM Refinement == Spec => KeepsBudget
<1>1. Init => Budget!Init
  BY DEF Init, Budget!Init
<1>2. IInv /\ [Next]_vars => [Budget!Next]_(Budget!vars)
  <2> SUFFICES ASSUME IInv, [Next]_vars
               PROVE  Budget!Next \/ UNCHANGED <<busyOf, sent, outcome>>
    BY DEF Budget!vars, busyOf
  <2>1. ASSUME NEW c \in Client, Call(c) PROVE Budget!Begin(c)
    <3>1. ~busyOf[c] /\ busyOf' = [busyOf EXCEPT ![c] = TRUE]
      BY <2>1 DEF IInv, ClientType, busyOf, Call, EnterFrame, Goto
    <3> QED
      BY <2>1, <3>1 DEF Budget!Begin, busyOf, Call
  <2>2. ASSUME NEW c \in Client, Run(c)
        PROVE  Budget!Next \/ UNCHANGED <<busyOf, sent, outcome>>
    BY <2>2, RunRefines DEF Budget!Next
  <2>3. ASSUME NEW c \in Client, Cancel(c)
        PROVE  UNCHANGED <<busyOf, sent, outcome>>
    BY <2>3 DEF Cancel, busyOf
  <2>4. CASE Tick \/ UNCHANGED vars
    BY <2>4 DEF Tick, vars, clientVars, busyOf
  <2> QED
    BY <2>1, <2>2, <2>3, <2>4 DEF Next, Budget!Next
<1> QED
  BY <1>1, <1>2, Invariance, PTL DEF Spec, KeepsBudget, Budget!Spec

-----------------------------------------------------------------------------
\* While a goroutine is alone, the shared instant covers the backoffs the ESI
\* asked for, and no backoff is running once esiClearTimeout has returned.
Covered(c) ==
  /\ advised <= esiTimeout
  /\ pc[c] \in {"auth", "send", "await"} => advised = 0

\* While it is alone, its wait context outlasts the shared backoff, hence also
\* the timer that copied it.
Outlasts(c) ==
  /\ pc[c] \in {"clear", "sleep"} /\ esiTimeout > 0 => esiTimeout < waitLeft[c]
  /\ pc[c] = "sleep" /\ wake[c] > 0 => wake[c] < waitLeft[c]

AloneInv == \A c \in Client : Alone(c) => Covered(c) /\ Outlasts(c)

\* A goroutine that is inside a call, or has returned from one, keeps all the
\* others from being alone, and it does so for good.
LEMMA OthersStayQuiet ==
  ASSUME NEW c \in Client, NEW d \in Client, d # c, ClientType,
         Call(d) \/ Run(d)
  PROVE  ~Alone(c)'
<1>1. pc'[d] # "idle" \/ outcome'[d] # "none"
  <2>1. CASE Call(d)
    BY <2>1 DEF ClientType, Call, EnterFrame, Goto
  <2>2. CASE CheckTimeout(d) \/ Wake(d) \/ Send(d)
    BY <2>2 DEF ClientType, CheckTimeout, Wake, Send, Goto
  <2>3. CASE GiveUpWaiting(d) \/ EsiError(d) \/ Ok(d)
    BY <2>3 DEF ClientType, GiveUpWaiting, EsiError, Ok, Return
  <2>4. CASE AcquireToken(d)
    BY <2>4 DEF ClientType, AcquireToken, Return, Goto
  <2>5. ASSUME NEW bodies \in {0, 1}, Retry(d, bodies)
        PROVE  pc'[d] # "idle" \/ outcome'[d] # "none"
    BY <2>5 DEF ClientType, Retry, EnterFrame, Return, Goto
  <2>6. CASE TransportError(d) /\ cancelled[d] /\ Return(d, "ctx")
    BY <2>6 DEF ClientType, Return
  <2>7. CASE \E bodies \in {0, 1} : Retry(d, bodies)
    BY <2>5, <2>7
  <2> QED
    BY <2>1, <2>2, <2>3, <2>4, <2>6, <2>7
       DEF Run, Answer, TransportError, ImplicitTimeout, AdvisedTimeout, Garbled
<1> QED
  BY <1>1 DEF Alone

\* Nobody becomes alone again: what keeps c from it is not undone.
LEMMA AloneBefore ==
  ASSUME NEW c \in Client, ClientType, [Next]_vars, Alone(c)'
  PROVE  /\ Alone(c)
         /\ \/ Call(c) \/ Run(c) \/ Tick
            \/ UNCHANGED <<pc, wake, waitLeft, esiTimeout, advised>>
<1>1. ASSUME NEW d \in Client, Call(d) \/ Run(d) PROVE d = c
  BY <1>1, OthersStayQuiet
<1>2. CASE Call(c) \/ Run(c)
  <2>1. \A d \in Client \ {c} : pc'[d] = pc[d] /\ outcome'[d] = outcome[d]
    BY <1>2 DEF ClientType, Run, Answer, Call, CheckTimeout, Wake,
       GiveUpWaiting, AcquireToken, Send, TransportError, ImplicitTimeout,
       AdvisedTimeout, EsiError, Garbled, Ok, Retry, EnterFrame, Return, Goto
  <2> QED
    BY <1>2, <2>1 DEF Alone
<1>3. CASE Tick \/ (\E d \in Client : Cancel(d)) \/ UNCHANGED vars
  BY <1>3 DEF Alone, Tick, Cancel, vars, clientVars
<1> QED
  BY <1>1, <1>2, <1>3 DEF Next

\* The steps of a goroutine that stays alone keep what it relies on.
LEMMA RunStaysCovered ==
  ASSUME NEW c \in Client, ClientType, ClockType, Covered(c), Outlasts(c),
         Call(c) \/ Run(c)
  PROVE  Covered(c)' /\ Outlasts(c)'
<1> USE ConstantTypes DEF Covered, Outlasts
<1>1. ASSUME EnterFrame(c, trails'[c]), UNCHANGED wake,
             esiTimeout' \in 0..RateMax, advised' <= esiTimeout'
      PROVE  Covered(c)' /\ Outlasts(c)'
  BY <1>1 DEF ClientType, EnterFrame, Goto
<1>2. ASSUME NEW o, Return(c, o), advised' <= esiTimeout'
      PROVE  Covered(c)' /\ Outlasts(c)'
  BY <1>2 DEF ClientType, Return, Goto
<1>3. ASSUME NEW bodies \in {0, 1}, Retry(c, bodies), UNCHANGED wake,
             esiTimeout' \in 0..RateMax, advised' <= esiTimeout'
      PROVE  Covered(c)' /\ Outlasts(c)'
  <2>1. CASE trails[c] > 1 /\ EnterFrame(c, trails[c] - 1)
    BY <1>3, <2>1 DEF ClientType, EnterFrame, Goto
  <2>2. CASE Return(c, "noTrails")
    BY <1>2, <1>3, <2>2
  <2> QED
    BY <1>3, <2>1, <2>2 DEF Retry
<1>4. CASE Call(c)
  BY <1>4 DEF Call, EnterFrame, Goto, ClientType, ClockType
<1>5. CASE CheckTimeout(c)
  BY <1>5 DEF CheckTimeout, Goto, ClientType, ClockType
<1>6. CASE Wake(c)
  BY <1>6 DEF Wake, Goto, ClientType, ClockType
<1>7. CASE GiveUpWaiting(c)
  BY <1>2, <1>7 DEF GiveUpWaiting
<1>8. CASE AcquireToken(c)
  <2>1. CASE Return(c, "sso")
    BY <1>2, <1>8, <2>1 DEF AcquireToken
  <2>2. CASE Goto(c, "send") /\ UNCHANGED waitLeft
    BY <1>8, <2>2 DEF AcquireToken, Goto, ClientType
  <2> QED
    BY <1>8, <2>1, <2>2 DEF AcquireToken
<1>9. CASE Send(c)
  BY <1>9 DEF Send, Goto, ClientType
<1>10. CASE TransportError(c)
  BY <1>2, <1>3, <1>10 DEF TransportError, ClockType
<1>11. CASE ImplicitTimeout(c)
  <2>1. advised' <= esiTimeout' /\ esiTimeout' \in 0..RateMax
    BY <1>11 DEF ImplicitTimeout, SetTimeout
  <2> QED
    BY <1>3, <1>11, <2>1 DEF ImplicitTimeout
<1>12. CASE AdvisedTimeout(c)
  <2>1. ClockType'
    BY <1>12, RunKeepsClocks DEF Run, Answer
  <2>2. advised' = esiTimeout'
    BY <1>12, <2>1 DEF AdvisedTimeout, SetTimeout, Larger, ClockType
  <2> QED
    BY <1>3, <1>12, <2>1, <2>2 DEF AdvisedTimeout, ClockType
<1>13. CASE EsiError(c) \/ Ok(c)
  BY <1>2, <1>13 DEF EsiError, Ok
<1>14. CASE Garbled(c)
  BY <1>3, <1>14 DEF Garbled, ClockType
<1> QED
  BY <1>4, <1>5, <1>6, <1>7, <1>8, <1>9, <1>10, <1>11, <1>12, <1>13, <1>14
     DEF Run, Answer

LEMMA InitAloneInv == Init => AloneInv
BY DEF Init, AloneInv, Covered, Outlasts

LEMMA NextAloneInv == IInv /\ AloneInv /\ [Next]_vars => AloneInv'
<1> SUFFICES ASSUME IInv, AloneInv, [Next]_vars, NEW c \in Client, Alone(c)'
             PROVE  Covered(c)' /\ Outlasts(c)'
  BY DEF AloneInv, Alone
<1>1. ClientType /\ ClockType
  BY DEF IInv
<1>2. Covered(c) /\ Outlasts(c)
  BY <1>1, AloneBefore DEF AloneInv
<1>3. CASE Call(c) \/ Run(c)
  BY <1>1, <1>2, <1>3, RunStaysCovered
<1>4. CASE Tick
  <2>1. Covered(c)'
    BY <1>1, <1>2, <1>4 DEF Covered, Tick, Down, ClockType
  <2>2. Outlasts(c)'
    BY <1>1, <1>2, <1>4, ConstantTypes
       DEF Outlasts, Tick, Down, ClientType, ClockType
  <2> QED
    BY <2>1, <2>2
<1>5. CASE UNCHANGED <<pc, wake, waitLeft, esiTimeout, advised>>
  BY <1>2, <1>5 DEF Covered, Outlasts
<1> QED
  BY <1>1, <1>3, <1>4, <1>5, AloneBefore

LEMMA AloneInvariance == Spec => [](IInv /\ AloneInv)
<1>1. Init => IInv /\ AloneInv
  BY InitIInv, InitAloneInv
<1>2. IInv /\ AloneInv /\ [Next]_vars => (IInv /\ AloneInv)'
  BY NextIInv, NextAloneInv
<1> QED
  BY <1>1, <1>2, PTL DEF Spec

\* A goroutine alone with the ESI sends no request during a backoff the ESI
\* asked for, across retries and calls, whatever the ranges of the backoffs.
THEOREM AloneWaits == Spec => NoRequestDuringBackoff
<1>1. IInv /\ AloneInv /\ [Next]_vars
        => [\A c \in Client : Send(c) /\ Alone(c) => advised = 0]_vars
  BY DEF AloneInv, Covered, Send
<1> QED
  BY <1>1, AloneInvariance, PTL DEF Spec, NoRequestDuringBackoff

\* Its wait context never cuts a backoff short, as long as the longest backoff
\* believed is shorter than the wait limit.
THEOREM TimerFirst == Spec => []TimerBeatsDeadline
<1>1. AloneInv => TimerBeatsDeadline
  BY DEF AloneInv, Outlasts, TimerBeatsDeadline
<1> QED
  BY <1>1, AloneInvariance, PTL
=============================================================================
