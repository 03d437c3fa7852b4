-------------------------- MODULE EsiArchiveProofs --------------------------
(***************************************************************************)
(* Theorems about the archive's esi_fetch, for any threads, trails, advice  *)
(* and lives of tokens.                                                     *)
(***************************************************************************)
EXTENDS EsiArchive, TLAPS

USE EsiArchiveAssumption

Labels ==
  {"idle", "token", "login", "issued", "build", "clear", "sleep", "send", "await"}

\* The inductive invariant, in four parts, TypeOK the first.  Backoffs: what has been asked is
\* what esi_timeout holds, and it is short.
Backoffs ==
  /\ asked = esi_timeout
  /\ SilenceKept
  /\ SleepIsShort

\* Tokens: of one that was given promptly and for long, the recorded end is never
\* late, and from the look at it on its life and the ticks since add up.
Tokens ==
  /\ sound => sso_access_token_expiry <= live
  /\ \A c \in Authenticated : pc[c] = "build" /\ sound => live + lag[c] > Margin
  /\ \A c \in Authenticated :
       pc[c] \in {"clear", "sleep", "send", "await"} /\ bearerSound[c] =>
         bearer[c] + lag[c] > Margin

\* Trails: the requests sent and the trails left add up.
TrailsAdd ==
  /\ \A c \in Client : pc[c] \in {"token", "login", "issued", "build"} => sent[c] = 0
  /\ \A c \in Client : pc[c] \in {"clear", "sleep", "send"} =>
       sent[c] + trails[c] + 1 = Trails[c]
  /\ \A c \in Client : pc[c] = "await" =>
       sent[c] > 0 /\ sent[c] + trails[c] = Trails[c]

\* The constants' types, one by one.
LEMMA ConstantTypes ==
  /\ Trails \in [Client -> Nat \ {0}]
  /\ Implicit \in Nat \ {0} /\ LimitMax \in Nat \ {0} /\ SleepMax \in Nat \ {0}
  /\ Margin \in Nat \ {0} /\ Cut \in Nat \ {0}
  /\ Implicit < SleepMax /\ LimitMax < SleepMax
  /\ \A l \in Life : l \in Nat
  /\ \A c \in Authenticated : c \in Client
OBVIOUS

\* Every backoff set is positive and short.
LEMMA BackoffBounds ==
  ASSUME NEW a \in Advice
  PROVE  /\ Implicit \in Nat /\ Implicit < SleepMax
         /\ LimitReset(a) \in Nat /\ LimitReset(a) < SleepMax
         /\ GatewayTimeout(a) \in Nat /\ GatewayTimeout(a) < SleepMax
BY ConstantTypes DEF LimitReset, GatewayTimeout

-----------------------------------------------------------------------------
\* Type correctness.

LEMMA InitType == Init => TypeOK
<1> SUFFICES ASSUME Init PROVE TypeOK
  OBVIOUS
<1>1. 0 \in 0..(Margin + 1)
  BY ConstantTypes
<1>2. lag \in [Client -> 0..(Margin + 1)]
  BY <1>1 DEF Init
<1>3. pc \in [Client -> Labels] /\ outcome \in [Client -> Outcome \cup {"none"}]
  BY DEF Init, Labels
<1>4. /\ trails \in [Client -> Nat] /\ sent \in [Client -> Nat] /\ wake \in [Client -> Nat]
      /\ given \in [Client -> Nat] /\ fresh \in [Client -> Nat] /\ bearer \in [Client -> Nat]
  BY DEF Init
<1>5. bearerSound \in [Client -> BOOLEAN] /\ renewed \in [Client -> BOOLEAN]
  BY DEF Init
<1>6. sound \in BOOLEAN
  BY DEF Init
<1>7. {esi_timeout, asked, sso_access_token_expiry, live} \subseteq Nat
  BY DEF Init
<1> QED
  BY <1>2, <1>3, <1>4, <1>5, <1>6, <1>7 DEF TypeOK, Labels

\* The head of the loop and the return keep the types of what they change.
LEMMA LoopType ==
  ASSUME TypeOK, NEW c \in Client, NEW n \in Nat, Loop(c, n)
  PROVE  /\ pc' \in [Client -> Labels]
         /\ trails' \in [Client -> Nat]
         /\ outcome' \in [Client -> Outcome \cup {"none"}]
BY DEF TypeOK, Labels, Loop, Goto, Return, Outcome

LEMMA ReturnType ==
  ASSUME TypeOK, NEW c \in Client, NEW o \in Outcome, Return(c, o)
  PROVE  /\ pc' \in [Client -> Labels]
         /\ trails' \in [Client -> Nat]
         /\ outcome' \in [Client -> Outcome \cup {"none"}]
BY DEF TypeOK, Labels, Goto, Return

LEMMA BackoffType ==
  ASSUME TypeOK, NEW ticks \in Nat, SetTimeout(ticks)
  PROVE  esi_timeout' \in Nat /\ asked' \in Nat /\ renewed' \in [Client -> BOOLEAN]
BY DEF TypeOK, SetTimeout, Larger

LEMMA TickType == TypeOK /\ Tick => TypeOK'
<1> SUFFICES ASSUME TypeOK, Tick PROVE TypeOK'
  OBVIOUS
<1>1. lag' \in [Client -> 0..(Margin + 1)]
  BY ConstantTypes DEF TypeOK, Tick
<1>2. /\ wake' \in [Client -> Nat] /\ bearer' \in [Client -> Nat]
      /\ fresh' \in [Client -> Nat]
  BY DEF TypeOK, Tick, Down
<1>3. {esi_timeout', asked', sso_access_token_expiry', live'} \subseteq Nat
  BY DEF TypeOK, Tick, Down
<1> QED
  BY <1>1, <1>2, <1>3 DEF TypeOK, Tick, callVars

LEMMA StepType ==
  ASSUME TypeOK, NEW c \in Client, Call(c) \/ Run(c) \/ Login(c)
  PROVE  TypeOK'
<1> USE DEF callVars, loginVars, tokenVars, handleVars, backoffVars
<1>1. CASE Call(c)
  BY <1>1 DEF Call, Goto, TypeOK
<1>2. CASE UseCachedToken(c)
  BY <1>2, ConstantTypes DEF UseCachedToken, Goto, TypeOK
<1>3. CASE AskLogin(c)
  BY <1>3 DEF AskLogin, Goto, TypeOK
<1>4. CASE Issue(c)
  BY <1>4, ConstantTypes DEF Issue, Goto, TypeOK
<1>5. CASE StoreToken(c)
  <2>1. given[c] \in Nat /\ fresh[c] \in Nat
    BY DEF TypeOK
  <2>2. sso_access_token_expiry' \in Nat /\ live' \in Nat /\ sound' \in BOOLEAN
    BY <1>5, <2>1, ConstantTypes DEF StoreToken
  <2>3. /\ lag' \in [Client -> 0..(Margin + 1)]
        /\ given' \in [Client -> Nat] /\ fresh' \in [Client -> Nat]
    BY <1>5, ConstantTypes DEF StoreToken, TypeOK
  <2> QED
    BY <1>5, <2>2, <2>3 DEF StoreToken, Goto, TypeOK
<1>6. CASE TokenError(c)
  <2>1. "sso" \in Outcome
    BY DEF Outcome
  <2>2. given' \in [Client -> Nat] /\ fresh' \in [Client -> Nat]
    BY <1>6 DEF TokenError, TypeOK
  <2> QED
    BY <1>6, <2>1, <2>2, ReturnType DEF TokenError, TypeOK, Labels
<1>7. CASE Build(c)
  <2>1. /\ pc' \in [Client -> Labels] /\ trails' \in [Client -> Nat]
        /\ outcome' \in [Client -> Outcome \cup {"none"}]
    BY <1>7, LoopType, ConstantTypes DEF Build
  <2>2. bearer' \in [Client -> Nat] /\ bearerSound' \in [Client -> BOOLEAN]
    BY <1>7 DEF Build, TypeOK
  <2> QED
    BY <1>7, <2>1, <2>2 DEF Build, TypeOK, Labels
<1>8. CASE CheckTimeout(c)
  BY <1>8 DEF CheckTimeout, Goto, TypeOK
<1>9. CASE Wake(c)
  BY <1>9 DEF Wake, Goto, TypeOK
<1>10. CASE Send(c)
  BY <1>10 DEF Send, Goto, TypeOK
<1>11. CASE LocalError(c) \/ EsiError(c) \/ Ok(c)
  <2>1. PICK o \in Outcome : Return(c, o)
    BY <1>11 DEF LocalError, EsiError, Ok, Outcome
  <2>2. Untouched /\ UNCHANGED backoffVars
    BY <1>11 DEF LocalError, EsiError, Ok
  <2> QED
    BY <2>1, <2>2, ReturnType DEF Untouched, TypeOK, Labels
<1>12. CASE CurlError(c)
  <2>1. trails[c] \in Nat
    BY DEF TypeOK
  <2> QED
    BY <1>12, <2>1, LoopType DEF CurlError, Retry, Untouched, TypeOK, Labels
<1>13. CASE Backoff(c)
  <2>1. trails[c] \in Nat
    BY DEF TypeOK
  <2>2. PICK ticks \in Nat : SetTimeout(ticks)
    BY <1>13, BackoffBounds DEF Backoff
  <2>3. esi_timeout' \in Nat /\ asked' \in Nat /\ renewed' \in [Client -> BOOLEAN]
    BY <2>2, BackoffType
  <2>4. /\ pc' \in [Client -> Labels] /\ trails' \in [Client -> Nat]
        /\ outcome' \in [Client -> Outcome \cup {"none"}]
    BY <1>13, <2>1, LoopType DEF Backoff, Retry
  <2> QED
    BY <1>13, <2>3, <2>4 DEF Backoff, Untouched, TypeOK, Labels
<1> QED
  BY <1>1, <1>2, <1>3, <1>4, <1>5, <1>6, <1>7, <1>8, <1>9, <1>10, <1>11, <1>12,
     <1>13 DEF Run, Login

LEMMA NextType == TypeOK /\ [Next]_vars => TypeOK'
<1> SUFFICES ASSUME TypeOK, [Next]_vars PROVE TypeOK'
  OBVIOUS
<1>1. CASE Next
  BY <1>1, TickType, StepType DEF Next
<1>2. CASE UNCHANGED vars
  BY <1>2 DEF vars, callVars, loginVars, tokenVars, handleVars, backoffVars, TypeOK
<1> QED
  BY <1>1, <1>2

-----------------------------------------------------------------------------
\* Backoffs.

LEMMA SetTimeoutKeeps ==
  ASSUME TypeOK, Backoffs, NEW ticks \in Nat, ticks < SleepMax, SetTimeout(ticks)
  PROVE  /\ asked' = esi_timeout' /\ esi_timeout' < SleepMax
         /\ \A c \in Client : renewed'[c]
BY DEF TypeOK, Backoffs, SleepIsShort, SetTimeout, Larger

\* Only CheckTimeout leads to "send".
LEMMA LoopNeverSends ==
  ASSUME TypeOK, NEW c \in Client, NEW n \in Nat, Loop(c, n)
  PROVE  pc'[c] # "send" /\ \A d \in Client \ {c} : pc'[d] = pc[d]
BY DEF TypeOK, Loop, Return, Goto

LEMMA StepBackoffs ==
  ASSUME TypeOK, Backoffs, NEW c \in Client, Call(c) \/ Run(c) \/ Login(c)
  PROVE  Backoffs'
<1> USE DEF Backoffs, SilenceKept, SleepIsShort, TypeOK
<1>1. trails[c] \in Nat /\ Trails[c] \in Nat
  BY ConstantTypes
<1>2. CASE CheckTimeout(c)
  BY <1>2 DEF CheckTimeout, Goto
<1>3. CASE Backoff(c)
  <2>1. PICK ticks \in Nat : ticks < SleepMax /\ SetTimeout(ticks)
    BY <1>3, BackoffBounds DEF Backoff
  <2>2. /\ asked' = esi_timeout' /\ esi_timeout' < SleepMax
        /\ \A d \in Client : renewed'[d]
    BY <2>1, SetTimeoutKeeps
  <2> QED
    BY <2>2
<1>4. CASE Call(c) \/ UseCachedToken(c) \/ AskLogin(c) \/ Wake(c) \/ Send(c)
  BY <1>4 DEF Call, UseCachedToken, AskLogin, Wake, Send, Goto, backoffVars
<1>5. CASE Login(c)
  BY <1>5 DEF Login, Issue, StoreToken, TokenError, Return, Goto, backoffVars
<1>6. CASE Build(c)
  <2>1. pc'[c] # "send" /\ \A d \in Client \ {c} : pc'[d] = pc[d]
    BY <1>1, <1>6, LoopNeverSends DEF Build
  <2> QED
    BY <1>6, <2>1 DEF Build, backoffVars
<1>7. CASE CurlError(c)
  <2>1. pc'[c] # "send" /\ \A d \in Client \ {c} : pc'[d] = pc[d]
    BY <1>1, <1>7, LoopNeverSends DEF CurlError, Retry
  <2> QED
    BY <1>7, <2>1 DEF CurlError, backoffVars
<1>8. CASE LocalError(c) \/ EsiError(c) \/ Ok(c)
  BY <1>8 DEF LocalError, EsiError, Ok, Return, Goto, backoffVars
<1> QED
  BY <1>2, <1>3, <1>4, <1>5, <1>6, <1>7, <1>8 DEF Run

LEMMA TickBackoffs == TypeOK /\ Backoffs /\ Tick => Backoffs'
BY ConstantTypes DEF TypeOK, Backoffs, SilenceKept, SleepIsShort, Tick, Down, callVars

LEMMA NextBackoffs == TypeOK /\ Backoffs /\ [Next]_vars => Backoffs'
<1> SUFFICES ASSUME TypeOK, Backoffs, [Next]_vars PROVE Backoffs'
  OBVIOUS
<1>1. CASE Next
  BY <1>1, TickBackoffs, StepBackoffs DEF Next
<1>2. CASE UNCHANGED vars
  BY <1>2 DEF vars, callVars, backoffVars, Backoffs, SilenceKept, SleepIsShort
<1> QED
  BY <1>1, <1>2

LEMMA InitBackoffs == Init => Backoffs
BY ConstantTypes DEF Init, Backoffs, SilenceKept, SleepIsShort

\* The types of the model's state hold for any clients, trails, advice, lives.
THEOREM TypeCorrect == Spec => []TypeOK
  BY InitType, NextType, PTL DEF Spec

LEMMA BackoffsHold == Spec => []Backoffs
  BY InitType, InitBackoffs, NextType, NextBackoffs, PTL DEF Spec

\* A request leaves during a backoff only if another thread set that backoff
\* after this one had found none running.
THEOREM SilenceIsKept == Spec => []SilenceKept
<1>1. Backoffs => SilenceKept
  BY DEF Backoffs
<1> QED
  BY <1>1, BackoffsHold, PTL

\* The assertion of esi_timeout_clear never fails.
THEOREM SleepsAreShort == Spec => []SleepIsShort
<1>1. Backoffs => SleepIsShort
  BY DEF Backoffs
<1> QED
  BY <1>1, BackoffsHold, PTL

-----------------------------------------------------------------------------
\* Tokens.

\* What the loop's head and the return do to the client's place.
LEMMA LoopPlace ==
  ASSUME TypeOK, NEW c \in Client, NEW n \in Nat, Loop(c, n)
  PROVE  /\ pc' = [pc EXCEPT ![c] = "clear"] \/ pc' = [pc EXCEPT ![c] = "idle"]
         /\ pc' \in [Client -> Labels]
BY DEF TypeOK, Labels, Loop, Return, Goto

LEMMA StepTokens ==
  ASSUME TypeOK, Tokens, NEW c \in Client, Call(c) \/ Run(c) \/ Login(c)
  PROVE  Tokens'
<1> USE DEF TypeOK, Tokens, tokenVars, handleVars
<1>1. trails[c] \in Nat /\ Trails[c] \in Nat
  BY ConstantTypes
<1>2. CASE Call(c)
  BY <1>2, ConstantTypes DEF Call, Goto
<1>3. CASE UseCachedToken(c)
  <2>1. sound => live > Margin
    BY <1>3, ConstantTypes DEF UseCachedToken
  <2> QED
    BY <1>3, <2>1, ConstantTypes DEF UseCachedToken, Goto
<1>4. CASE StoreToken(c)
  <2>1. given[c] \in Nat /\ fresh[c] \in Nat
    OBVIOUS
  <2>2. sound' => sso_access_token_expiry' <= live' /\ live' > Margin
    <3> DEFINE g == given[c]
               f == fresh[c]
    <3>1. /\ sso_access_token_expiry' = IF g > Cut THEN g - Cut ELSE 0
          /\ live' = f /\ sound' = (g > Cut + Margin /\ g - Cut <= f)
          /\ g \in Nat /\ f \in Nat
      BY <1>4, <2>1 DEF StoreToken
    <3> HIDE DEF g, f
    <3>2. ASSUME sound' PROVE g > Cut + Margin /\ g - Cut <= f
      BY <3>1, <3>2
    <3>3. ASSUME g > Cut + Margin, g - Cut <= f
          PROVE  sso_access_token_expiry' <= live' /\ live' > Margin
      <4>1. g > Cut /\ f > Margin
        BY <3>1, <3>3, ConstantTypes
      <4> QED
        BY <3>1, <3>3, <4>1
    <3> QED
      BY <3>2, <3>3
  <2>3. live' \in Nat /\ lag' \in [Client -> 0..(Margin + 1)]
    BY <1>4, <2>1, ConstantTypes DEF StoreToken
  <2>4. \A d \in Authenticated : sound' => live' + lag'[d] > Margin
    BY <2>2, <2>3, ConstantTypes
  <2>5. \A d \in Client :
          /\ bearer'[d] = bearer[d] /\ bearerSound'[d] = bearerSound[d]
          /\ pc'[d] \in {"clear", "sleep", "send", "await"} =>
               pc'[d] = pc[d] /\ lag'[d] = lag[d]
    BY <1>4 DEF StoreToken, Goto
  <2> QED
    BY <2>2, <2>4, <2>5, ConstantTypes
<1>5. CASE \/ AskLogin(c) \/ Issue(c) \/ CheckTimeout(c) \/ Wake(c) \/ Send(c)
  BY <1>5, ConstantTypes DEF AskLogin, Issue, CheckTimeout, Wake, Send, Goto
<1>6. CASE Build(c)
  <2>1. pc' = [pc EXCEPT ![c] = "clear"] \/ pc' = [pc EXCEPT ![c] = "idle"]
    BY <1>1, <1>6, LoopPlace DEF Build
  <2>2. CASE c \in Authenticated
    <3>1. sound => live + lag[c] > Margin
      BY <1>6, <2>2 DEF Build
    <3> QED
      BY <1>6, <2>1, <2>2, <3>1, ConstantTypes DEF Build
  <2>3. CASE c \notin Authenticated
    BY <1>6, <2>1, <2>3, ConstantTypes DEF Build
  <2> QED
    BY <2>2, <2>3
<1>7. CASE CurlError(c) \/ Backoff(c)
  <2>1. pc' = [pc EXCEPT ![c] = "clear"] \/ pc' = [pc EXCEPT ![c] = "idle"]
    BY <1>1, <1>7, LoopPlace DEF CurlError, Backoff, Retry
  <2>2. Untouched /\ pc[c] = "await"
    BY <1>7 DEF CurlError, Backoff
  <2> QED
    BY <2>1, <2>2, ConstantTypes DEF Untouched
<1>8. CASE LocalError(c) \/ EsiError(c) \/ Ok(c) \/ TokenError(c)
  <2>1. pc' = [pc EXCEPT ![c] = "idle"]
    BY <1>8 DEF LocalError, EsiError, Ok, TokenError, Return, Goto
  <2>2. UNCHANGED <<tokenVars, handleVars, lag>>
    BY <1>8 DEF LocalError, EsiError, Ok, TokenError, Untouched
  <2> QED
    BY <2>1, <2>2, ConstantTypes
<1> QED
  BY <1>2, <1>3, <1>4, <1>5, <1>6, <1>7, <1>8 DEF Run, Login

\* What the clock takes off a life, it adds to the ticks since the look.
LEMMA TickTokens == TypeOK /\ Tokens /\ Tick => Tokens'
<1> SUFFICES ASSUME TypeOK, Tokens, Tick PROVE Tokens'
  OBVIOUS
<1> USE DEF TypeOK, Tokens
<1>1. pc' = pc /\ sound' = sound /\ bearerSound' = bearerSound
  BY DEF Tick, callVars
<1>2. sound => sso_access_token_expiry' <= live'
  BY DEF Tick, Down
<1>3. ASSUME NEW c \in Client, NEW n \in Nat, n + lag[c] > Margin
      PROVE  Down(n) + lag'[c] > Margin
  BY <1>3, ConstantTypes DEF Tick, Down
<1>4. live' = Down(live) /\ \A c \in Client : bearer'[c] = Down(bearer[c])
  BY DEF Tick
<1>5. live \in Nat /\ \A c \in Client : bearer[c] \in Nat
  OBVIOUS
<1> QED
  BY <1>1, <1>2, <1>3, <1>4, <1>5, ConstantTypes

LEMMA InitTokens == Init => Tokens
BY ConstantTypes DEF Init, Tokens

LEMMA NextTokens == TypeOK /\ Tokens /\ [Next]_vars => Tokens'
<1> SUFFICES ASSUME TypeOK, Tokens, [Next]_vars PROVE Tokens'
  OBVIOUS
<1>1. CASE Next
  BY <1>1, TickTokens, StepTokens DEF Next
<1>2. CASE UNCHANGED vars
  BY <1>2 DEF vars, callVars, tokenVars, handleVars, Tokens
<1> QED
  BY <1>1, <1>2

\* A token that was given promptly and for long is alive until more than the
\* margin has passed since the look at it, whatever the call waited for.
THEOREM TokensLive == Spec => []LiveForMargin
<1>1. TypeOK /\ Tokens => LiveForMargin
  <2> SUFFICES ASSUME TypeOK, Tokens, NEW c \in Authenticated,
                      pc[c] \in {"send", "await"}, bearerSound[c], lag[c] <= Margin
               PROVE  bearer[c] > 0
    BY DEF LiveForMargin
  <2>1. bearer[c] \in Nat /\ lag[c] \in 0..(Margin + 1)
    BY ConstantTypes DEF TypeOK
  <2>2. bearer[c] + lag[c] > Margin
    BY DEF Tokens
  <2> QED
    BY <2>1, <2>2, ConstantTypes
<1> QED
  BY <1>1, InitType, InitTokens, NextType, NextTokens, PTL DEF Spec

-----------------------------------------------------------------------------
\* Trails.  With any left, the head of the loop starts a trail; with none, the
\* call ends for want of them.
LEMMA LoopSpends ==
  ASSUME TypeOK, NEW c \in Client, NEW n \in Nat, Loop(c, n)
  PROVE  \/ /\ n > 0 /\ pc' = [pc EXCEPT ![c] = "clear"]
            /\ trails' = [trails EXCEPT ![c] = n - 1] /\ outcome' = outcome
         \/ /\ n = 0 /\ Return(c, "noTrails")
BY DEF Loop, Goto

\* A client that returns, or enters a call by its token, owes no account yet.
LEMMA ReturnKeepsTrails ==
  ASSUME TypeOK, TrailsAdd, NEW c \in Client, NEW o, Return(c, o), UNCHANGED sent
  PROVE  TrailsAdd'
BY DEF TypeOK, TrailsAdd, Return, Goto

LEMMA RetryKeepsTrails ==
  ASSUME TypeOK, TrailsAdd, NEW c \in Client, pc[c] = "await", Retry(c), UNCHANGED sent
  PROVE  TrailsAdd'
<1>1. trails[c] \in Nat /\ Trails[c] \in Nat
  BY ConstantTypes DEF TypeOK
<1>2. CASE /\ trails[c] > 0 /\ pc' = [pc EXCEPT ![c] = "clear"]
           /\ trails' = [trails EXCEPT ![c] = trails[c] - 1]
  BY <1>1, <1>2 DEF TypeOK, TrailsAdd
<1>3. CASE Return(c, "noTrails")
  BY <1>3, ReturnKeepsTrails
<1> QED
  BY <1>1, <1>2, <1>3, LoopSpends DEF Retry

LEMMA StepTrails ==
  ASSUME TypeOK, TrailsAdd, NEW c \in Client, Call(c) \/ Run(c) \/ Login(c)
  PROVE  TrailsAdd'
<1>1. Trails[c] \in Nat \ {0}
  BY ConstantTypes
<1>2. CASE Call(c)
  BY <1>2 DEF Call, Goto, TypeOK, TrailsAdd
<1>3. CASE \/ UseCachedToken(c) \/ AskLogin(c) \/ Issue(c) \/ StoreToken(c)
           \/ CheckTimeout(c) \/ Wake(c)
  BY <1>3 DEF UseCachedToken, AskLogin, Issue, StoreToken, CheckTimeout, Wake,
              Goto, TypeOK, TrailsAdd
<1>4. CASE TokenError(c) \/ LocalError(c) \/ EsiError(c) \/ Ok(c)
  BY <1>4, ReturnKeepsTrails DEF TokenError, LocalError, EsiError, Ok, Untouched
<1>5. CASE Build(c)
  <2>1. /\ pc' = [pc EXCEPT ![c] = "clear"]
        /\ trails' = [trails EXCEPT ![c] = Trails[c] - 1] /\ sent' = sent
    BY <1>1, <1>5, LoopSpends DEF Build
  <2> QED
    BY <1>1, <1>5, <2>1 DEF Build, TypeOK, TrailsAdd
<1>6. CASE Send(c)
  BY <1>6 DEF Send, Goto, TypeOK, TrailsAdd
<1>7. CASE CurlError(c) \/ Backoff(c)
  BY <1>7, RetryKeepsTrails DEF CurlError, Backoff, Untouched
<1> QED
  BY <1>2, <1>3, <1>4, <1>5, <1>6, <1>7 DEF Run, Login

LEMMA NextTrails == TypeOK /\ TrailsAdd /\ [Next]_vars => TrailsAdd'
<1> SUFFICES ASSUME TypeOK, TrailsAdd, [Next]_vars PROVE TrailsAdd'
  OBVIOUS
<1>1. CASE Tick
  BY <1>1 DEF Tick, callVars, TrailsAdd
<1>2. CASE UNCHANGED vars
  BY <1>2 DEF vars, callVars, TrailsAdd
<1> QED
  BY <1>1, <1>2, StepTrails DEF Next

LEMMA InitTrails == Init => TrailsAdd
BY DEF Init, TrailsAdd

-----------------------------------------------------------------------------
\* esi_fetch implements RetryBudget.  A client is busy when it is not idle.
busyOf == [c \in Client |-> pc[c] # "idle"]

LEMMA ReturnFinishes ==
  ASSUME TypeOK, NEW c \in Client, pc[c] # "idle", NEW o \in Outcome,
         Return(c, o), UNCHANGED sent,
         o = "noTrails" => sent[c] = Trails[c],
         o \in {"ok", "esiError"} => sent[c] > 0
  PROVE  Budget!Finish(c)
<1>1. busyOf[c] /\ busyOf' = [busyOf EXCEPT ![c] = FALSE]
  BY DEF TypeOK, busyOf, Return, Goto
<1>2. \E p \in Budget!Outcome :
        /\ p = "noTrails" => sent[c] = Trails[c]
        /\ p \in {"ok", "esiError"} => sent[c] > 0
        /\ outcome' = [outcome EXCEPT ![c] = p]
  BY DEF Budget!Outcome, Outcome, Return
<1> QED
  BY <1>1, <1>2 DEF Budget!Finish, busyOf

\* A trail that failed is invisible while others are left.
LEMMA RetryRefines ==
  ASSUME TypeOK, TrailsAdd, NEW c \in Client, pc[c] = "await", Retry(c), UNCHANGED sent
  PROVE  Budget!Finish(c) \/ UNCHANGED <<busyOf, sent, outcome>>
<1>1. trails[c] \in Nat /\ sent[c] \in Nat
  BY DEF TypeOK
<1>2. CASE pc' = [pc EXCEPT ![c] = "clear"] /\ outcome' = outcome
  BY <1>2 DEF TypeOK, busyOf
<1>3. CASE trails[c] = 0 /\ Return(c, "noTrails")
  <2>1. sent[c] = Trails[c]
    BY <1>1, <1>3, ConstantTypes DEF TrailsAdd
  <2> QED
    BY <1>3, <2>1, ReturnFinishes DEF Outcome
<1> QED
  BY <1>1, <1>2, <1>3, LoopSpends DEF Retry

LEMMA CallRefines ==
  ASSUME TypeOK, NEW c \in Client, Call(c)
  PROVE  Budget!Begin(c)
<1>1. ~busyOf[c] /\ busyOf' = [busyOf EXCEPT ![c] = TRUE]
  BY DEF TypeOK, busyOf, Call, Goto
<1> QED
  BY <1>1 DEF Call, Budget!Begin, busyOf

LEMMA RunRefines ==
  ASSUME TypeOK, TrailsAdd, NEW c \in Client, Run(c) \/ Login(c)
  PROVE  \/ Budget!Request(c)
         \/ Budget!Finish(c)
         \/ UNCHANGED <<busyOf, sent, outcome>>
<1> USE DEF Untouched
<1>1. CASE \/ UseCachedToken(c) \/ AskLogin(c) \/ Issue(c) \/ StoreToken(c)
           \/ CheckTimeout(c) \/ Wake(c)
  BY <1>1 DEF TypeOK, busyOf, UseCachedToken, AskLogin, Issue, StoreToken,
              CheckTimeout, Wake, Goto
<1>2. CASE Build(c)
  <2>1. pc' = [pc EXCEPT ![c] = "clear"] /\ outcome' = outcome
    BY <1>2, ConstantTypes, LoopSpends DEF Build
  <2> QED
    BY <1>2, <2>1 DEF Build, TypeOK, busyOf
<1>3. CASE Send(c)
  <2>1. busyOf[c] /\ busyOf' = busyOf
    BY <1>3 DEF TypeOK, busyOf, Send, Goto
  <2>2. sent[c] < Trails[c]
    BY <1>3, ConstantTypes DEF TypeOK, TrailsAdd, Send
  <2> QED
    BY <1>3, <2>1, <2>2 DEF Budget!Request, Send, busyOf
<1>4. CASE TokenError(c)
  BY <1>4, ReturnFinishes DEF TokenError, Outcome
<1>5. CASE LocalError(c)
  BY <1>5, ReturnFinishes DEF LocalError, Outcome
<1>6. CASE CurlError(c)
  BY <1>6, RetryRefines DEF CurlError
<1>7. CASE Backoff(c)
  BY <1>7, RetryRefines DEF Backoff
<1>8. CASE EsiError(c)
  BY <1>8, ReturnFinishes DEF EsiError, Outcome, TrailsAdd
<1>9. CASE Ok(c)
  BY <1>9, ReturnFinishes DEF Ok, Outcome, TrailsAdd
<1> QED
  BY <1>1, <1>2, <1>3, <1>4, <1>5, <1>6, <1>7, <1>8, <1>9 DEF Run, Login

\* The archive's retry loop keeps the promise that its Go counterpart keeps: no
\* request beyond the trails, and want of trails only when all were spent.
THEOREM Refinement == Spec => KeepsBudget
<1>1. Init => Budget!Init
  BY DEF Init, Budget!Init
<1>2. TypeOK /\ TrailsAdd /\ [Next]_vars =>
        [Budget!Next]_<<busyOf, sent, outcome>>
  <2> SUFFICES ASSUME TypeOK, TrailsAdd, [Next]_vars
               PROVE  [Budget!Next]_<<busyOf, sent, outcome>>
    OBVIOUS
  <2>1. CASE Tick
    BY <2>1 DEF Tick, callVars, busyOf
  <2>2. CASE UNCHANGED vars
    BY <2>2 DEF vars, callVars, busyOf
  <2>3. ASSUME NEW c \in Client, Call(c) \/ Run(c) \/ Login(c)
        PROVE  [Budget!Next]_<<busyOf, sent, outcome>>
    BY <2>3, CallRefines, RunRefines DEF Budget!Next
  <2> QED
    BY <2>1, <2>2, <2>3 DEF Next
<1> QED
  BY <1>1, <1>2, InitType, InitTrails, NextType, NextTrails, PTL
     DEF Spec, KeepsBudget, Budget!Spec, Budget!vars, busyOf
=============================================================================
