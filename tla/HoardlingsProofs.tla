-------------------------- MODULE HoardlingsProofs --------------------------
(***************************************************************************)
(* Theorems about the threads of the archive, for any locations, markets    *)
(* and capacity of the channel; and about the dumps its histories hoardling *)
(* makes, for any rows, calendar and length of the run.                     *)
(***************************************************************************)
EXTENDS Hoardlings, HistoryArchive, WellFoundedInduction, TLAPS

USE HoardlingsAssumption

Types ==
  /\ request \in Seq({0, 1}) /\ response \in Seq({0, 1})
  /\ permits \in Nat /\ lent \in {0, 1}
  /\ cycled \in BOOLEAN /\ trouble \in BOOLEAN

\* One vector at most is under way: in the channel of the requests, with or
\* without a permit, in the hands of the orders hoardling, or in the channel of
\* the answers; while histories asks or works, there is none.
OneLent ==
  /\ Len(request) + Len(response) <= 1
  /\ permits <= Len(request)
  /\ pc_orders = "fill" => Len(request) = 1 /\ permits = 0
  /\ pc_histories \in {"request", "work"} =>
       Len(request) = 0 /\ Len(response) = 0

\* Who waits without trouble is answered, or is going to be: its request still
\* has its permit, or has been taken, and no cycle that downloaded has ended.
\* Only a hoardling that has told the process quits.
Awaited ==
  /\ pc_histories = "wait" /\ ~trouble /\ Len(response) = 0 =>
       ~cycled /\ (permits > 0 \/ pc_orders = "fill")
  /\ pc_histories \in {"request", "wait", "work", "quit"}
  /\ pc_histories = "quit" => signalled

IInv == Types /\ OneLent /\ Awaited

\* What an operation on a channel does to its length.
LEMMA AppendLength ==
  ASSUME NEW s \in Seq({0, 1}), NEW x \in {0, 1}
  PROVE  Append(s, x) \in Seq({0, 1}) /\ Len(Append(s, x)) = Len(s) + 1
OBVIOUS

LEMMA TailLength ==
  ASSUME NEW s \in Seq({0, 1}), s # <<>>
  PROVE  /\ Tail(s) \in Seq({0, 1}) /\ Len(Tail(s)) = Len(s) - 1
         /\ Head(s) \in {0, 1} /\ Len(s) > 0
OBVIOUS

LEMMA EmptyLength ==
  ASSUME NEW s \in Seq({0, 1})
  PROVE  Len(s) \in Nat /\ (s = <<>> <=> Len(s) = 0)
OBVIOUS

\* Two lengths and the permits of the first channel.
LEMMA OnePermit ==
  ASSUME NEW a \in Nat, NEW b \in Nat, NEW p \in Nat, a + b <= 1, p <= a, p > 0
  PROVE  a = 1 /\ p = 1 /\ p - 1 = 0
OBVIOUS

LEMMA Initially == Init => IInv
<1> SUFFICES ASSUME Init PROVE IInv
  OBVIOUS
<1>1. <<>> \in Seq({0, 1}) /\ Len(<<>>) = 0
  OBVIOUS
<1>2. Types
  BY <1>1 DEF Init, Types
<1>3. OneLent
  BY <1>1 DEF Init, OneLent
<1>4. Awaited
  BY DEF Init, Awaited
<1> QED
  BY <1>2, <1>3, <1>4 DEF IInv

-----------------------------------------------------------------------------
\* Steps of the orders hoardling that end a cycle.
LEMMA CycleCounts ==
  ASSUME Types, NEW downloaded \in BOOLEAN, CycleEnds(downloaded)
  PROVE  /\ cycled' \in BOOLEAN /\ pc_orders' = "download"
         /\ ~downloaded => cycled' = cycled
BY DEF Types, CycleEnds

LEMMA OrdersKeep ==
  ASSUME IInv, Orders
  PROVE  IInv'
<1> USE DEF IInv, Types, OneLent, Awaited, channels, marketVars, mainVars
<1>1. CASE DownloadOk \/ OrdersDump \/ SendLocations
  BY <1>1 DEF DownloadOk, OrdersDump, SendLocations
<1>2. CASE DownloadFails
  BY <1>2, CycleCounts DEF DownloadFails
<1>3. CASE NoRequest
  <2>1. cycled' \in BOOLEAN /\ pc_orders' = "download" /\ pc_orders = "respond"
    BY <1>3, CycleCounts DEF NoRequest
  <2>2. CASE permits = 0 /\ UNCHANGED <<permits, trouble>>
    BY <1>3, <2>1, <2>2 DEF NoRequest
  <2>3. CASE permits > 0 /\ permits' = permits - 1 /\ trouble' = TRUE
    BY <1>3, <2>1, <2>3 DEF NoRequest
  <2> QED
    BY <1>3, <2>2, <2>3 DEF NoRequest
<1>4. CASE TakeRequest
  <2>1. Len(request) \in Nat /\ Len(response) \in Nat
    BY EmptyLength
  <2>2. Len(request) = 1 /\ permits = 1 /\ permits' = 0
    BY <1>4, <2>1, OnePermit DEF TakeRequest
  <2> QED
    BY <1>4, <2>2 DEF TakeRequest
<1>5. CASE Answer
  <2>1. cycled' \in BOOLEAN /\ pc_orders' = "download"
    BY <1>5, CycleCounts DEF Answer
  <2>2. Len(request) = 1 /\ Len(response) = 0 /\ permits = 0
    <3>1. Len(request) \in Nat /\ Len(response) \in Nat
      BY EmptyLength
    <3> QED
      BY <1>5, <3>1 DEF Answer
  <2>3. request' \in Seq({0, 1}) /\ Len(request') = 0 /\ Head(request) \in {0, 1}
    <3>1. request # <<>>
      BY <2>2, EmptyLength
    <3> QED
      BY <1>5, <2>2, <3>1, TailLength DEF Answer
  <2>4. CASE response' = Append(response, Head(request)) /\ UNCHANGED trouble
    <3>1. response' \in Seq({0, 1}) /\ Len(response') = 1
      BY <2>2, <2>3, <2>4, AppendLength
    <3> QED
      BY <1>5, <2>1, <2>2, <2>3, <2>4, <3>1 DEF Answer
  <2>5. CASE trouble' = TRUE /\ UNCHANGED response
    BY <1>5, <2>1, <2>2, <2>3, <2>5 DEF Answer
  <2> QED
    BY <1>5, <2>4, <2>5 DEF Answer
<1> QED
  BY <1>1, <1>2, <1>3, <1>4, <1>5 DEF Orders

\* The locations hoardling and main have no part in the exchange.
LEMMA OthersKeep ==
  ASSUME IInv, Locations \/ Signal \/ Exit
  PROVE  IInv'
BY DEF IInv, Types, OneLent, Awaited, Locations, PopLocations, LookUp, LocationsDump,
       Signal, Exit, ordersVars, channels, marketVars, mainVars

LEMMA HistoriesKeep ==
  ASSUME IInv, Histories
  PROVE  IInv'
<1> USE DEF IInv, Types, OneLent, Awaited, ordersVars, channels, marketVars
<1>1. CASE LendMarketVec
  <2>1. Len(request) = 0 /\ Len(response) = 0 /\ permits = 0 /\ pc_orders # "fill"
    BY <1>1 DEF LendMarketVec
  <2>2. 1 - lent \in {0, 1}
    OBVIOUS
  <2>3. request' \in Seq({0, 1}) /\ Len(request') = 1
    BY <1>1, <2>1, <2>2, AppendLength DEF LendMarketVec
  <2>4. permits' = 1 /\ response' = response
    BY <1>1, <2>1 DEF LendMarketVec
  <2>5. Types'
    <3>1. lent' \in {0, 1} /\ cycled' = FALSE
      BY <1>1, <2>2 DEF LendMarketVec
    <3>2. trouble' \in BOOLEAN
      BY <1>1 DEF LendMarketVec
    <3>3. permits' \in Nat /\ cycled' \in BOOLEAN /\ response' \in Seq({0, 1})
      BY <2>4, <3>1
    <3> QED
      BY <2>3, <3>1, <3>2, <3>3
  <2>6. OneLent'
    <3>1. pc_histories' = "wait" /\ pc_orders' # "fill" /\ Len(response') = 0
      BY <1>1, <2>1, <2>4 DEF LendMarketVec
    <3> QED
      BY <2>3, <2>4, <3>1
  <2>7. Awaited'
    BY <1>1, <2>4 DEF LendMarketVec
  <2> QED
    BY <2>5, <2>6, <2>7
<1>2. CASE ReceiveMarketVec
  <2>1. response # <<>> /\ response' = Tail(response)
    BY <1>2 DEF ReceiveMarketVec
  <2>2. /\ response' \in Seq({0, 1}) /\ Len(response') = Len(response) - 1
        /\ Len(response) > 0 /\ Len(response) \in Nat /\ Len(request) \in Nat
    BY <2>1, TailLength, EmptyLength
  <2>3. Len(request) = 0 /\ Len(response') = 0
    BY <2>2
  <2> QED
    BY <1>2, <2>2, <2>3 DEF ReceiveMarketVec
<1>3. CASE GiveUp
  BY <1>3 DEF GiveUp
<1>4. CASE HistoriesWork
  BY <1>4 DEF HistoriesWork
<1> QED
  BY <1>1, <1>2, <1>3, <1>4 DEF Histories

LEMMA Inductive == IInv /\ [Next]_vars => IInv'
<1> SUFFICES ASSUME IInv, [Next]_vars PROVE IInv'
  OBVIOUS
<1>1. CASE UNCHANGED vars
  BY <1>1 DEF vars, ordersVars, channels, marketVars, mainVars, IInv, Types,
              OneLent, Awaited
<1> QED
  BY <1>1, OrdersKeep, OthersKeep, HistoriesKeep DEF Next

\* The orders hoardling writes a lent vector only while its owner waits for it
\* or has told the process to end.
THEOREM LentOnlyWhileWaiting == Spec => []LentWhileWaiting
<1>1. IInv => LentWhileWaiting
  <2> SUFFICES ASSUME IInv, pc_orders = "fill" \/ response # <<>>
               PROVE  pc_histories = "wait" \/ (pc_histories = "quit" /\ signalled)
    BY DEF LentWhileWaiting
  <2>1. ~(Len(request) = 0 /\ Len(response) = 0)
    BY EmptyLength DEF IInv, Types, OneLent
  <2> QED
    BY <2>1 DEF IInv, OneLent, Awaited
<1> QED
  BY <1>1, Initially, Inductive, PTL DEF Spec

\* The first cycle since the request that downloads the orders answers it, unless
\* the permit was lost or memory ran out, however many downloads failed before it.
THEOREM FirstCycleAnswers == Spec => []AnsweredByFirstCycle
<1>1. IInv => AnsweredByFirstCycle
  <2> SUFFICES ASSUME IInv, pc_histories = "wait", cycled, ~trouble, response = <<>>
               PROVE  FALSE
    BY DEF AnsweredByFirstCycle
  <2>1. Len(response) = 0
    BY EmptyLength DEF IInv, Types
  <2> QED
    BY <2>1 DEF IInv, Awaited
<1> QED
  BY <1>1, Initially, Inductive, PTL DEF Spec

-----------------------------------------------------------------------------
\* Between two vectors, and within one as long as it told nothing new, the
\* latest dump has what is known, unless it failed.
Dumped ==
  /\ pc_locations \in {"pop", "look"}
  /\ (pc_locations = "pop" \/ ~new_loc_info) /\ ~dumpFailed => loc_dump = loc_vec

LEMMA LocationsDumped ==
  ASSUME Dumped, Locations
  PROVE  Dumped'
<1>1. CASE PopLocations
  BY <1>1 DEF PopLocations, Dumped
<1>2. CASE LookUp
  BY <1>2 DEF LookUp, FetchLocationInfo, Dumped
<1>3. CASE LocationsDump
  BY <1>3 DEF LocationsDump, Dumped
<1> QED
  BY <1>1, <1>2, <1>3 DEF Locations

\* A location once learned is in the dump that follows it, or a dump failed.
THEOREM AllKnownDumped == Spec => []DumpHasAllKnown
<1>1. Init => Dumped
  BY DEF Init, Dumped, loc_vec_load
<1>2. Dumped /\ [Next]_vars => Dumped'
  <2> SUFFICES ASSUME Dumped, [Next]_vars PROVE Dumped'
    OBVIOUS
  <2>1. CASE Orders
    BY <2>1 DEF Orders, DownloadOk, DownloadFails, OrdersDump, SendLocations,
                NoRequest, TakeRequest, Answer, locationVars, Dumped
  <2>2. CASE Histories \/ Signal \/ Exit \/ UNCHANGED vars
    BY <2>2 DEF Histories, LendMarketVec, ReceiveMarketVec, GiveUp, HistoriesWork,
                Signal, Exit, vars, locationVars, Dumped
  <2> QED
    BY <2>1, <2>2, LocationsDumped DEF Next
<1>3. Dumped => DumpHasAllKnown
  BY DEF Dumped, DumpHasAllKnown
<1> QED
  BY <1>1, <1>2, <1>3, PTL DEF Spec

-----------------------------------------------------------------------------
(***************************************************************************)
(* The calendar: years follow each other and every day is in one of them.  *)
(***************************************************************************)

\* Induction, for a set rather than a predicate.
LEMMA NatSets ==
  ASSUME NEW S, 0 \in S, \A n \in Nat : n \in S => n + 1 \in S
  PROVE  Nat \subseteq S
<1> DEFINE T == Nat \ S
<1> SUFFICES ASSUME T # {} PROVE FALSE
  OBVIOUS
<1>1. PICK x \in T : \A y \in T : ~ (<<y, x>> \in OpToRel(<, Nat))
  BY NatLessThanWellFounded, WFMin
<1>2. x \in Nat /\ x # 0 /\ x - 1 \in Nat /\ x - 1 < x
  OBVIOUS
<1>3. <<x - 1, x>> \in OpToRel(<, Nat)
  BY <1>2 DEF OpToRel
<1>4. x - 1 \in S
  BY <1>1, <1>2, <1>3
<1> QED
  BY <1>2, <1>4

\* A set of naturals has a first element.
LEMMA NatLeast ==
  ASSUME NEW S \in SUBSET Nat, S # {}
  PROVE  \E x \in S : \A y \in S : x <= y
<1>1. PICK x \in S : \A y \in S : ~ (<<y, x>> \in OpToRel(<, Nat))
  BY NatLessThanWellFounded, WFMin
<1>2. ASSUME NEW y \in S PROVE x <= y
  <2>1. y < x => <<y, x>> \in OpToRel(<, Nat)
    BY DEF OpToRel
  <2>2. ~(y < x) /\ x \in Nat /\ y \in Nat
    BY <1>1, <2>1
  <2> QED
    BY <2>2
<1> QED
  BY <1>2

\* And one whose elements are bounded has a last one.
LEMMA NatGreatest ==
  ASSUME NEW S \in SUBSET Nat, S # {}, NEW n \in Nat, \A x \in S : x <= n
  PROVE  \E x \in S : \A y \in S : y <= x
<1> DEFINE B == {k \in Nat : \A x \in S : x <= k}
<1>1. PICK k \in B : \A j \in B : k <= j
  <2>1. B \in SUBSET Nat /\ n \in B
    OBVIOUS
  <2> HIDE DEF B
  <2> QED
    BY <2>1, NatLeast
<1>2. k \in S
  <2> SUFFICES ASSUME k \notin S PROVE FALSE
    OBVIOUS
  <2>1. k \in Nat /\ \A x \in S : x \in Nat /\ x < k
    BY <1>1
  <2>2. PICK x \in S : TRUE
    OBVIOUS
  <2>3. k - 1 \in Nat /\ \A y \in S : y <= k - 1
    BY <2>1, <2>2
  <2>4. k - 1 \in B
    BY <2>3
  <2> QED
    BY <1>1, <2>1, <2>4
<1> QED
  BY <1>1, <1>2

\* A year has some days.
LEMMA DaysInIs == \A y \in Nat : DaysIn(y) \in Nat \ {0}
BY ArchiveAssumption DEF DaysIn

\* The recursion of YearStart, as a property of a function.
Starts(f, m) ==
  \A k \in 0..m : f[k] = IF k <= FirstYear THEN 0 ELSE f[k - 1] + DaysIn(k - 1)

\* Two functions that follow the recursion agree where both do.
LEMMA StartsAgree ==
  ASSUME NEW f, NEW g, NEW m \in Nat, NEW n \in Nat, Starts(f, m), Starts(g, n)
  PROVE  \A k \in Nat : k <= m /\ k <= n => f[k] = g[k]
<1> DEFINE S == {k \in Nat : k <= m /\ k <= n => f[k] = g[k]}
<1>1. 0 \in S
  BY ArchiveAssumption DEF Starts
<1>2. \A k \in Nat : k \in S => k + 1 \in S
  <2> SUFFICES ASSUME NEW k \in Nat, k + 1 <= m, k + 1 <= n, f[k] = g[k]
               PROVE  f[k + 1] = g[k + 1]
    OBVIOUS
  <2>1. k + 1 \in 0..m /\ k + 1 \in 0..n /\ k + 1 - 1 = k
    OBVIOUS
  <2> QED
    BY <2>1 DEF Starts
<1> HIDE DEF S
<1>3. Nat \subseteq S
  BY <1>1, <1>2, NatSets
<1> QED
  BY <1>3 DEF S

\* And there is one, as far as one likes.
LEMMA StartsExist ==
  ASSUME NEW n \in Nat
  PROVE  \E f : Starts(f, n)
<1> DEFINE Exists(m) == \E f : f = [k \in 0..m |-> f[k]] /\ Starts(f, m)
           S == {m \in Nat : Exists(m)}
<1>1. 0 \in S
  <2> DEFINE f == [k \in 0..0 |-> 0]
  <2>1. f = [k \in 0..0 |-> f[k]] /\ Starts(f, 0)
    BY ArchiveAssumption DEF Starts
  <2> HIDE DEF f
  <2>2. Exists(0)
    BY <2>1
  <2> QED
    BY <2>2
<1>2. \A m \in Nat : m \in S => m + 1 \in S
  <2> SUFFICES ASSUME NEW m \in Nat, Exists(m) PROVE Exists(m + 1)
    <3> HIDE DEF Exists
    <3> QED
      OBVIOUS
  <2>1. PICK f : f = [k \in 0..m |-> f[k]] /\ Starts(f, m)
    OBVIOUS
  <2> DEFINE x == IF m + 1 <= FirstYear THEN 0 ELSE f[m] + DaysIn(m)
             g == [k \in 0..(m + 1) |-> IF k = m + 1 THEN x ELSE f[k]]
  <2> HIDE DEF x
  <2>2. /\ g = [k \in 0..(m + 1) |-> g[k]] /\ g[m + 1] = x
        /\ \A k \in 0..m : g[k] = f[k]
    OBVIOUS
  <2> HIDE DEF g
  <2>3. Starts(g, m + 1)
    <3> SUFFICES ASSUME NEW k \in 0..(m + 1)
                 PROVE  g[k] = IF k <= FirstYear THEN 0 ELSE g[k - 1] + DaysIn(k - 1)
      BY DEF Starts
    <3>1. CASE k = m + 1
      <4>1. k - 1 = m /\ m \in 0..m
        BY <3>1
      <4> QED
        BY <2>2, <3>1, <4>1 DEF x
    <3>2. CASE k \in 0..m
      <4>1. ~(k <= FirstYear) => k - 1 \in 0..m
        BY <3>2, ArchiveAssumption
      <4> QED
        BY <2>1, <2>2, <3>2, <4>1 DEF Starts
    <3> QED
      BY <3>1, <3>2
  <2> QED
    BY <2>2, <2>3
<1> HIDE DEF S
<1>3. n \in S
  BY <1>1, <1>2, NatSets
<1> QED
  BY <1>3 DEF S

\* YearStart is the function that its recursion says.
LEMMA YearStartIs ==
  \A y \in Nat : YearStart[y] = IF y <= FirstYear THEN 0 ELSE YearStart[y - 1] + DaysIn(y - 1)
<1> DEFINE G(n) == CHOOSE f : Starts(f, n)
           f == [y \in Nat |-> G(y)[y]]
           Loop(h) == h = [y \in Nat |-> IF y <= FirstYear THEN 0
                                         ELSE h[y - 1] + DaysIn(y - 1)]
<1>1. \A n \in Nat : Starts(G(n), n)
  BY StartsExist
<1>2. \A y \in Nat : f[y] = G(y)[y]
  OBVIOUS
<1> HIDE DEF G
<1>3. ASSUME NEW y \in Nat
      PROVE  f[y] = IF y <= FirstYear THEN 0 ELSE f[y - 1] + DaysIn(y - 1)
  <2>1. CASE y <= FirstYear
    BY <1>1, <1>2, <2>1 DEF Starts
  <2>2. CASE ~(y <= FirstYear)
    <3>1. y - 1 \in Nat /\ y \in 0..y
      BY <2>2, ArchiveAssumption
    <3>2. G(y)[y] = G(y)[y - 1] + DaysIn(y - 1)
      BY <1>1, <2>2, <3>1 DEF Starts
    <3>3. G(y)[y - 1] = G(y - 1)[y - 1]
      BY <1>1, <3>1, StartsAgree
    <3> QED
      BY <1>2, <2>2, <3>1, <3>2, <3>3
  <2> QED
    BY <2>1, <2>2
<1>4. f = [y \in Nat |-> f[y]]
  OBVIOUS
<1> HIDE DEF f
<1>5. Loop(f)
  BY <1>3, <1>4
<1>6. YearStart = CHOOSE h : Loop(h)
  BY Zenon DEF YearStart
<1> HIDE DEF Loop
<1>7. Loop(CHOOSE h : Loop(h))
  BY <1>5
<1>8. Loop(YearStart)
  BY <1>6, <1>7
<1> QED
  BY <1>8 DEF Loop

\* Years begin on days, and the next one later.
LEMMA YearsPass ==
  /\ \A y \in Nat : YearStart[y] \in Nat
  /\ \A y \in Nat : y < FirstYear => YearStart[y + 1] = 0
  /\ \A y \in Nat : y >= FirstYear => YearStart[y + 1] = YearStart[y] + DaysIn(y)
<1> DEFINE S == {y \in Nat : YearStart[y] \in Nat}
<1>1. 0 \in S
  BY YearStartIs, ArchiveAssumption
<1>2. \A y \in Nat : y \in S => y + 1 \in S
  <2> SUFFICES ASSUME NEW y \in Nat, YearStart[y] \in Nat PROVE YearStart[y + 1] \in Nat
    OBVIOUS
  <2>1. y + 1 \in Nat /\ y + 1 - 1 = y /\ DaysIn(y) \in Nat
    BY DaysInIs
  <2> QED
    BY <2>1, YearStartIs
<1> HIDE DEF S
<1>3. Nat \subseteq S
  BY <1>1, <1>2, NatSets
<1>4. ASSUME NEW y \in Nat
      PROVE  YearStart[y + 1] = IF y < FirstYear THEN 0 ELSE YearStart[y] + DaysIn(y)
  <2>1. y + 1 \in Nat /\ y + 1 - 1 = y /\ (y + 1 <= FirstYear <=> y < FirstYear)
    BY ArchiveAssumption
  <2> QED
    BY <2>1, YearStartIs
<1>5. \A y \in Nat : YearStart[y] \in Nat
  BY <1>3 DEF S
<1>6. \A y \in Nat : y >= FirstYear => YearStart[y + 1] = YearStart[y] + DaysIn(y)
  BY <1>4, ArchiveAssumption
<1>7. \A y \in Nat : y < FirstYear => YearStart[y + 1] = 0
  BY <1>4
<1> QED
  BY <1>5, <1>6, <1>7

\* Later years begin no earlier.
LEMMA YearStartGrows ==
  ASSUME NEW y \in Nat, NEW z \in Nat, y <= z
  PROVE  YearStart[y] <= YearStart[z]
<1> DEFINE S == {n \in Nat : YearStart[y] <= YearStart[y + n]}
<1>1. 0 \in S
  BY YearsPass
<1>2. \A n \in Nat : n \in S => n + 1 \in S
  <2> SUFFICES ASSUME NEW n \in Nat, YearStart[y] <= YearStart[y + n]
               PROVE  YearStart[y] <= YearStart[y + (n + 1)]
    OBVIOUS
  <2>1. y + n \in Nat /\ y + (n + 1) = (y + n) + 1 /\ DaysIn(y + n) \in Nat
    BY DaysInIs
  <2>2. YearStart[y + n] \in Nat /\ YearStart[y] \in Nat
    BY <2>1, YearsPass
  <2>3. CASE y + n < FirstYear
    <3>1. YearStart[y + n] = 0
      BY <2>1, <2>3, YearStartIs, ArchiveAssumption
    <3> QED
      BY <2>1, <2>2, <2>3, <3>1, YearsPass
  <2>4. CASE y + n >= FirstYear
    BY <2>1, <2>2, <2>4, YearsPass
  <2> QED
    BY <2>1, <2>3, <2>4, ArchiveAssumption
<1> HIDE DEF S
<1>3. Nat \subseteq S
  BY <1>1, <1>2, NatSets
<1>4. z - y \in Nat /\ y + (z - y) = z
  OBVIOUS
<1> QED
  BY <1>3, <1>4 DEF S

\* Every day is in a year.
LEMMA YearOfIs ==
  ASSUME NEW day \in Nat
  PROVE  /\ YearOf(day) \in Nat /\ YearOf(day) >= FirstYear
         /\ YearStart[YearOf(day)] <= day /\ day < YearStart[YearOf(day) + 1]
<1> DEFINE In(y, n) == YearStart[y] <= n /\ n < YearStart[y + 1]
           S == {n \in Nat : \E y \in FirstYear..(FirstYear + n) : In(y, n)}
<1>1. 0 \in S
  <2>1. /\ FirstYear \in FirstYear..(FirstYear + 0) /\ FirstYear \in Nat
        /\ FirstYear >= FirstYear /\ FirstYear <= FirstYear
    BY ArchiveAssumption
  <2>2. YearStart[FirstYear] = 0
    BY <2>1, YearStartIs
  <2>3. YearStart[FirstYear + 1] = YearStart[FirstYear] + DaysIn(FirstYear)
    BY <2>1, YearsPass
  <2>4. In(FirstYear, 0)
    BY <2>1, <2>2, <2>3, DaysInIs
  <2> QED
    BY <2>1, <2>4
<1>2. \A n \in Nat : n \in S => n + 1 \in S
  <2> SUFFICES ASSUME NEW n \in Nat, NEW y \in FirstYear..(FirstYear + n), In(y, n)
               PROVE  \E z \in FirstYear..(FirstYear + (n + 1)) : In(z, n + 1)
    OBVIOUS
  <2>1. /\ y \in Nat /\ y + 1 \in Nat /\ y >= FirstYear /\ y + 1 >= FirstYear
        /\ y \in FirstYear..(FirstYear + (n + 1))
        /\ y + 1 \in FirstYear..(FirstYear + (n + 1))
    BY ArchiveAssumption
  <2>2. /\ YearStart[y] \in Nat /\ YearStart[y + 1] \in Nat /\ YearStart[y + 1 + 1] \in Nat
        /\ YearStart[y + 1 + 1] = YearStart[y + 1] + DaysIn(y + 1)
        /\ DaysIn(y + 1) \in Nat \ {0}
    BY <2>1, YearsPass, DaysInIs
  <2>3. CASE n + 1 < YearStart[y + 1]
    <3>1. In(y, n + 1)
      BY <2>2, <2>3
    <3> QED
      BY <2>1, <3>1
  <2>4. CASE ~(n + 1 < YearStart[y + 1])
    <3>1. In(y + 1, n + 1)
      BY <2>2, <2>4
    <3> QED
      BY <2>1, <3>1
  <2> QED
    BY <2>3, <2>4
<1> HIDE DEF S
<1>3. day \in S
  BY <1>1, <1>2, NatSets
<1>4. \E y \in FirstYear..(FirstYear + day) : In(y, day)
  BY <1>3 DEF S
<1>5. YearOf(day) \in FirstYear..(FirstYear + day) /\ In(YearOf(day), day)
  BY <1>4 DEF YearOf
<1> QED
  BY <1>5, ArchiveAssumption

\* Of two days the later one is in no earlier year.
LEMMA YearOfGrows ==
  ASSUME NEW a \in Nat, NEW b \in Nat, a <= b
  PROVE  YearOf(a) <= YearOf(b)
<1>1. /\ YearOf(a) \in Nat /\ YearStart[YearOf(a)] <= a
      /\ YearOf(b) \in Nat /\ b < YearStart[YearOf(b) + 1]
  BY YearOfIs
<1> SUFFICES ASSUME YearOf(b) < YearOf(a) PROVE FALSE
  BY <1>1
<1>2. YearOf(b) + 1 \in Nat /\ YearOf(b) + 1 <= YearOf(a)
  BY <1>1
<1>3. YearStart[YearOf(b) + 1] <= YearStart[YearOf(a)]
  BY <1>1, <1>2, YearStartGrows
<1>4. YearStart[YearOf(b) + 1] \in Nat /\ YearStart[YearOf(a)] \in Nat
  BY <1>1, <1>2, YearsPass
<1> QED
  BY <1>1, <1>3, <1>4
\* Of two days the later one does not have the earlier date.
LEMMA DatesGrow ==
  ASSUME NEW a \in Nat, NEW b \in Nat, a <= b
  PROVE  date_parse(a) = date_parse(b) \/ date_is_before(date_parse(a), date_parse(b))
<1>1. YearOf(a) <= YearOf(b) /\ YearOf(a) \in Nat /\ YearOf(b) \in Nat
  BY YearOfGrows, YearOfIs
<1>2. YearStart[YearOf(a)] \in Nat /\ YearStart[YearOf(b)] \in Nat
  BY <1>1, YearsPass
<1>3. CASE YearOf(a) < YearOf(b)
  BY <1>3 DEF date_parse, date_is_before
<1>4. CASE YearOf(a) = YearOf(b)
  <2>1. a - YearStart[YearOf(a)] <= b - YearStart[YearOf(b)]
    BY <1>2, <1>4
  <2>2. CASE a - YearStart[YearOf(a)] = b - YearStart[YearOf(b)]
    BY <1>4, <2>2 DEF date_parse
  <2>3. CASE a - YearStart[YearOf(a)] < b - YearStart[YearOf(b)]
    BY <1>4, <2>3 DEF date_parse, date_is_before
  <2> QED
    BY <1>2, <2>1, <2>2, <2>3
<1> QED
  BY <1>1, <1>3, <1>4

\* The days of a year count from 0 and are its days.
LEMMA DateParseIs ==
  ASSUME NEW d \in Nat
  PROVE  /\ date_parse(d) \in [year : Nat, day : Nat]
         /\ date_parse(d).year = YearOf(d)
         /\ date_parse(d).day < DaysIn(date_parse(d).year)
<1>1. /\ YearOf(d) \in Nat /\ YearOf(d) >= FirstYear
      /\ YearStart[YearOf(d)] <= d /\ d < YearStart[YearOf(d) + 1]
  BY YearOfIs
<1>2. /\ YearStart[YearOf(d)] \in Nat /\ DaysIn(YearOf(d)) \in Nat
      /\ YearStart[YearOf(d) + 1] = YearStart[YearOf(d)] + DaysIn(YearOf(d))
  BY <1>1, YearsPass, DaysInIs
<1>3. d - YearStart[YearOf(d)] \in Nat /\ d - YearStart[YearOf(d)] < DaysIn(YearOf(d))
  BY <1>1, <1>2
<1> QED
  BY <1>1, <1>3 DEF date_parse

\* Two days have two names.
LEMMA NamesDiffer ==
  ASSUME NEW s \in Nat, NEW t \in Nat, date_utc(s) = date_utc(t)
  PROVE  s \div 2 = t \div 2
<1> DEFINE a == s \div 2
           b == t \div 2
           Named(r) == [r EXCEPT !.day = @ + 1]
<1>1. a \in Nat /\ b \in Nat
  OBVIOUS
<1>2. date_utc(s) = Named(date_parse(a)) /\ date_utc(t) = Named(date_parse(b))
  BY Zenon DEF date_utc
<1> HIDE DEF a, b
<1>3. ASSUME NEW r \in [year : Nat, day : Nat]
      PROVE  Named(r).year = r.year /\ Named(r).day = r.day + 1
  OBVIOUS
<1> HIDE DEF Named
<1>6. date_parse(a) \in [year : Nat, day : Nat] /\ date_parse(b) \in [year : Nat, day : Nat]
  BY <1>1, DateParseIs
<1>7. /\ date_parse(a).year = date_parse(b).year
      /\ date_parse(a).day + 1 = date_parse(b).day + 1
  BY <1>2, <1>3, <1>6
<1>8. YearOf(a) = YearOf(b) /\ a - YearStart[YearOf(a)] = b - YearStart[YearOf(b)]
  BY <1>6, <1>7 DEF date_parse
<1>4. YearStart[YearOf(a)] \in Nat
  BY <1>1, YearsPass, YearOfIs
<1>5. a = b
  BY <1>1, <1>4, <1>8
<1> QED
  BY <1>5 DEF a, b

\* What a dump, made or failed, does to the names there are.
Covered(name) == name \in DOMAIN disk \cup undumped

LEMMA DumpCovers ==
  ASSUME NEW name, NEW rows, Dump(name, rows)
  PROVE  /\ DOMAIN disk \subseteq DOMAIN disk' /\ undumped \subseteq undumped'
         /\ name \in DOMAIN disk' \cup undumped'
         /\ \A x \in DOMAIN disk : disk'[x] = disk[x]
         /\ name \in undumped' \/ (name \in DOMAIN disk' /\ disk'[name] = rows)
<1> DEFINE put(some) == [x \in DOMAIN disk \cup {name} |->
                           IF x = name THEN some ELSE disk[x]]
<1>1. ASSUME NEW some, name \notin DOMAIN disk, disk' = put(some)
      PROVE  /\ DOMAIN disk' = DOMAIN disk \cup {name} /\ disk'[name] = some
             /\ \A x \in DOMAIN disk : disk'[x] = disk[x]
  BY <1>1
<1>2. CASE name \notin DOMAIN disk /\ disk' = put(rows) /\ UNCHANGED <<undumped, failures>>
  BY <1>1, <1>2
<1>3. CASE /\ name \notin DOMAIN disk
           /\ disk' \in {disk, put({})}
           /\ undumped' = undumped \cup {name}
  BY <1>1, <1>3
<1>4. CASE UNCHANGED disk /\ undumped' = undumped \cup {name}
  BY <1>4
<1> HIDE DEF put
<1>5. \/ name \notin DOMAIN disk /\ disk' = put(rows) /\ UNCHANGED <<undumped, failures>>
      \/ /\ name \notin DOMAIN disk
         /\ disk' \in {disk, put({})}
         /\ undumped' = undumped \cup {name}
      \/ UNCHANGED disk /\ undumped' = undumped \cup {name}
  BY DEF Dump, dump_does_exist, put
<1> QED
  BY <1>2, <1>3, <1>4, <1>5

-----------------------------------------------------------------------------
(***************************************************************************)
(* The daily rounds.  While the process runs its expiration is the 11:15   *)
(* that ends the days it has covered; and a round asks for the day before   *)
(* the one it began on.                                                     *)
(***************************************************************************)

Clock ==
  /\ now \in Nat /\ now >= 4
  /\ late \in BOOLEAN
  /\ pc # "off" =>
       /\ expiration \in Nat /\ eleven_fifteen_today \in Nat /\ started \in Nat
       /\ started >= 4 /\ started < expiration
       /\ expiration % 2 = 1 /\ eleven_fifteen_today <= expiration

Caught ==
  pc # "off" /\ ~late =>
    \A t \in (started + 1)..(expiration - 1) : t % 2 = 1 => Covered(date_utc(t - 2))

Asked ==
  pc = "daily" =>
    /\ began \in Nat /\ began >= expiration /\ began <= now
    /\ date = date_utc(began - 2)
    /\ ~late => began \div 2 = expiration \div 2

ArchiveClock == Clock /\ Caught /\ Asked

\* The clock of the rounds starts right ...
LEMMA ArchiveClockInit == ArchiveInit => ArchiveClock
BY ArchiveAssumption DEF ArchiveInit, ArchiveClock, Clock, Caught, Asked

\* ... every step keeps it right ...
LEMMA ArchiveClockStep == ArchiveClock /\ [ArchiveNext]_archiveVars => ArchiveClock'
<1> SUFFICES ASSUME Clock, Caught, Asked, [ArchiveNext]_archiveVars PROVE ArchiveClock'
  BY DEF ArchiveClock
<1>1. CASE Start
  <2>1. CASE now % 2 = 0
    <3>1. now < time_eleven_fifteen_today(now) /\ time_eleven_fifteen_today(now) = now + 1
      BY <2>1 DEF time_eleven_fifteen_today, Clock
    <3>2. expiration' = now + 1 /\ eleven_fifteen_today' = now + 1 /\ started' = now
      BY <1>1, <3>1 DEF Start
    <3>3. Clock'
      BY <1>1, <2>1, <3>2 DEF Clock, Start
    <3>4. Caught'
      BY <3>2 DEF Caught, Clock
    <3>5. Asked'
      BY <1>1 DEF Asked, Start
    <3> QED
      BY <3>3, <3>4, <3>5 DEF ArchiveClock
  <2>2. CASE now % 2 = 1
    <3>1. /\ ~(now < time_eleven_fifteen_today(now)) /\ time_eleven_fifteen_today(now) = now
          /\ time_eleven_fifteen_tomorrow(now) = now + 2
      BY <2>2 DEF time_eleven_fifteen_today, time_eleven_fifteen_tomorrow, Clock
    <3>2. expiration' = now + 2 /\ eleven_fifteen_today' = now /\ started' = now
      BY <1>1, <3>1 DEF Start
    <3>3. Clock'
      BY <1>1, <2>2, <3>2 DEF Clock, Start
    <3>4. ASSUME NEW t \in (started' + 1)..(expiration' - 1)
          PROVE  t % 2 # 1
      <4>1. now \in Nat /\ t \in (now + 1)..(now + 2 - 1)
        BY <3>2 DEF Clock
      <4>2. t = now + 1
        BY <4>1
      <4> QED
        BY <2>2, <4>1, <4>2
    <3>5. Caught'
      BY <3>4 DEF Caught
    <3>6. Asked'
      BY <1>1 DEF Asked, Start
    <3> QED
      BY <3>3, <3>5, <3>6 DEF ArchiveClock
  <2> QED
    BY <2>1, <2>2 DEF Clock
<1>2. CASE InitialDone \/ EmitDone \/ \E m \in ActiveMarket : Download(m)
  BY <1>2 DEF InitialDone, EmitDone, EndRound, Download, clockVars, roundVars,
    ArchiveClock, Clock, Caught, Asked, Covered
<1>3. CASE Emit
  <2>1. DOMAIN disk \subseteq DOMAIN disk' /\ undumped \subseteq undumped'
    BY <1>3, DumpCovers DEF Emit
  <2>2. UNCHANGED <<pc, now, clockVars, late>> /\ pc # "daily"
    BY <1>3 DEF Emit
  <2> QED
    BY <2>1, <2>2 DEF clockVars, ArchiveClock, Clock, Caught, Asked, Covered
<1>4. CASE DailyBegin
  <2>1. ~(now < eleven_fifteen_today) /\ now \in Nat /\ expiration \in Nat
    BY <1>4 DEF DailyBegin, Clock
  <2>2. /\ date' = date_utc(now - 2) /\ began' = now /\ pc' = "daily"
        /\ late' = (late \/ now \div 2 > expiration \div 2)
        /\ UNCHANGED <<now, disk, clockVars, undumped>> /\ pc = "sleep"
        /\ now >= expiration
    BY <1>4, <2>1 DEF DailyBegin
  <2>3. Clock'
    BY <2>1, <2>2 DEF clockVars, Clock
  <2>6. Caught'
    <3>1. ~late' => ~late
      BY <2>2
    <3> QED
      BY <2>2, <3>1 DEF clockVars, Caught, Covered
  <2>4. ~late' => now \div 2 = expiration \div 2
    <3>1. ~late' => ~(now \div 2 > expiration \div 2)
      BY <2>2
    <3>2. /\ now \div 2 \in Nat /\ expiration \div 2 \in Nat
          /\ now \div 2 >= expiration \div 2
      BY <2>1, <2>2
    <3> QED
      BY <3>1, <3>2
  <2>5. Asked'
    BY <2>1, <2>2, <2>4 DEF clockVars, Asked
  <2> QED
    BY <2>3, <2>5, <2>6 DEF ArchiveClock
<1>5. CASE DailyDump
  <2>1. /\ DOMAIN disk \subseteq DOMAIN disk' /\ undumped \subseteq undumped'
        /\ date \in DOMAIN disk' \cup undumped'
    BY <1>5, DumpCovers DEF DailyDump
  <2>2. /\ expiration' = expiration + 2 /\ UNCHANGED <<now, eleven_fifteen_today, started, late>>
        /\ pc = "daily" /\ pc' = "sleep"
    BY <1>5 DEF DailyDump, EndRound
  <2>3. Clock' /\ Asked'
    BY <2>2 DEF Clock, Asked
  <2>4. ASSUME ~late', NEW t \in (started' + 1)..(expiration' - 1), t % 2 = 1
        PROVE  Covered(date_utc(t - 2))'
    <3>1. /\ expiration \in Nat /\ started \in Nat /\ expiration % 2 = 1 /\ started >= 4
          /\ t \in (started + 1)..(expiration + 1) /\ t \in Nat
      BY <2>2 DEF Clock
    <3>2. CASE t <= expiration - 1
      <4>1. t \in (started + 1)..(expiration - 1)
        BY <2>2, <3>1, <3>2
      <4>2. Covered(date_utc(t - 2))
        BY <2>2, <2>4, <4>1 DEF Caught
      <4> QED
        BY <2>1, <4>2 DEF Covered
    <3>3. CASE t > expiration - 1
      <4>1. t = expiration
        BY <2>4, <3>1, <3>3
      <4>2. began \in Nat /\ began >= expiration /\ began \div 2 = expiration \div 2
        BY <2>2, <2>4 DEF Asked
      <4>3. (began - 2) \div 2 = (t - 2) \div 2
        BY <3>1, <4>1, <4>2
      <4>4. date = date_utc(t - 2)
        BY <2>2, <4>3 DEF Asked, date_utc
      <4> QED
        BY <2>1, <4>4 DEF Covered
    <3> QED
      BY <3>1, <3>2, <3>3
  <2>5. Caught'
    BY <2>4 DEF Caught
  <2> QED
    BY <2>3, <2>5 DEF ArchiveClock
<1>6. CASE Stop
  BY <1>6 DEF Stop, ArchiveClock, Clock, Caught, Asked
<1>7. CASE Tick
  <2>1. now' = now + 1 /\ UNCHANGED <<pc, disk, clockVars, date, began, late, undumped>>
    BY <1>7 DEF Tick
  <2> QED
    BY <2>1 DEF clockVars, ArchiveClock, Clock, Caught, Asked, Covered
<1>8. CASE UNCHANGED archiveVars
  BY <1>8 DEF archiveVars, clockVars, ArchiveClock, Clock, Caught, Asked, Covered
<1> QED
  BY <1>1, <1>2, <1>3, <1>4, <1>5, <1>6, <1>7, <1>8 DEF ArchiveNext

\* ... and so it always is.
LEMMA ArchiveClocks == ArchiveSpec => []ArchiveClock
BY ArchiveClockInit, ArchiveClockStep, PTL DEF ArchiveSpec

\* While its rounds begin on the day they are due, a process dumps every day
\* published since it was started, or logs the dump that failed (hoardling.c, the
\* daily loop).
THEOREM NoDumpMissed == ArchiveSpec => []NoDayMissed
<1>1. ArchiveClock => NoDayMissed
  BY DEF ArchiveClock, Clock, Caught, Covered, NoDayMissed, dump_does_exist
<1> QED
  BY <1>1, ArchiveClocks, PTL

-----------------------------------------------------------------------------
(***************************************************************************)
(* What the rounds download.                                               *)
(***************************************************************************)

\* Of a market that is done and was found the daily round has every row that was
\* published when the round began.
Complete ==
  pc = "daily" =>
    \A m \in ActiveMarket \ (undone \cup skipped) : \A d \in Traded[m] :
      2 * d + 3 <= began => <<m, d>> \in bit_vec

\* The days published are those whose next 11:15 has come.
LEMMA PublishedIs ==
  ASSUME NEW m \in ActiveMarket
  PROVE  /\ Published(m) = {d \in Traded[m] : 2 * d + 3 <= now}
         /\ Traded[m] \subseteq Nat
<1>1. Traded[m] \subseteq Nat
  BY ArchiveAssumption
<1>2. \A d \in Nat : time_eleven_fifteen_tomorrow(2 * d) = 2 * d + 3
  BY DEF time_eleven_fifteen_tomorrow, time_eleven_fifteen_today
<1> QED
  BY <1>1, <1>2 DEF Published

\* No round has begun.
LEMMA CompleteInit == ArchiveInit => Complete
BY DEF ArchiveInit, Complete

\* A market that is done has given its rows or is skipped.
LEMMA CompleteStep == ArchiveClock /\ Complete /\ [ArchiveNext]_archiveVars => Complete'
<1> SUFFICES ASSUME Clock, Asked, Complete, [ArchiveNext]_archiveVars PROVE Complete'
  BY DEF ArchiveClock
<1>1. CASE \E m \in ActiveMarket : Download(m)
  <2> SUFFICES ASSUME pc = "daily" PROVE Complete'
    BY <1>1 DEF Complete, Download
  <2>1. PICK m \in ActiveMarket : Download(m)
    BY <1>1
  <2>2. /\ undone' = undone \ {m} /\ history_download(m) /\ began' = began
        /\ bit_vec \subseteq bit_vec' /\ skipped \subseteq skipped'
    BY <2>1 DEF Download, history_download
  <2>3. ASSUME NEW n \in ActiveMarket \ (undone' \cup skipped'), NEW d \in Traded[n],
               2 * d + 3 <= began
        PROVE  <<n, d>> \in bit_vec'
    <3>1. CASE n \notin undone
      BY <2>2, <2>3, <3>1 DEF Complete
    <3>2. CASE n \in undone
      <4>1. n = m /\ m \notin skipped'
        BY <2>2, <3>2
      <4>2. bit_vec' = bit_vec \cup {<<m, e>> : e \in Published(m)}
        BY <2>2, <4>1 DEF history_download, history_parse
      <4>3. d \in Nat
        BY PublishedIs
      <4>4. 2 * d + 3 <= now
        BY <2>3, <4>3 DEF Asked, Clock
      <4>5. d \in Published(m)
        BY <4>1, <4>4, PublishedIs
      <4> QED
        BY <4>1, <4>2, <4>5
    <3> QED
      BY <3>1, <3>2
  <2> QED
    BY <2>2, <2>3 DEF Complete
<1>2. CASE DailyBegin
  BY <1>2 DEF DailyBegin, BeginRound, Complete
<1>3. CASE Start \/ InitialDone \/ EmitDone \/ DailyDump \/ Stop
  BY <1>3 DEF Start, InitialDone, EmitDone, DailyDump, EndRound, Stop, Complete
<1>4. CASE Emit \/ Tick \/ UNCHANGED archiveVars
  <2>1. UNCHANGED <<pc, roundVars, began>>
    BY <1>4 DEF Emit, Tick, archiveVars
  <2> QED
    BY <2>1 DEF roundVars, Complete
<1> QED
  BY <1>1, <1>2, <1>3, <1>4 DEF ArchiveNext

\* The daily rounds are complete.
LEMMA CompleteRounds == ArchiveSpec => []Complete
<1>1. ArchiveClock /\ Complete /\ [ArchiveNext]_archiveVars => Complete'
  BY CompleteStep
<1> QED
  BY <1>1, CompleteInit, ArchiveClocks, PTL DEF ArchiveSpec

\* The dump a daily round makes has the row of every market found that traded on
\* the day before the one the round began on (hoardling_histories_dump).
THEOREM DayIsDumped == ArchiveSpec => DailyHasItsDay
<1> DEFINE A == DailyDump /\ began % 2 = 1 /\ date \notin undumped' =>
                  \A m \in ActiveMarket \ skipped : \A d \in Traded[m] :
                    date = date_utc(2 * d) => <<m, d>> \in disk'[date]
<1>1. ArchiveClock /\ Complete /\ [ArchiveNext]_archiveVars => A
  <2> SUFFICES ASSUME Clock, Asked, Complete, DailyDump, began % 2 = 1, date \notin undumped',
                      NEW m \in ActiveMarket \ skipped, NEW d \in Traded[m],
                      date = date_utc(2 * d)
               PROVE  <<m, d>> \in disk'[date]
    BY DEF ArchiveClock
  <2>1. pc = "daily" /\ undone = {} /\ Dump(date, bit_vec)
    BY DEF DailyDump
  <2>2. disk'[date] = bit_vec
    BY <2>1, DumpCovers
  <2>3. began \in Nat /\ began >= 5 /\ d \in Nat
    BY <2>1, PublishedIs DEF Asked, Clock
  <2>4. (began - 2) \div 2 = (2 * d) \div 2
    BY <2>1, <2>3, NamesDiffer DEF Asked
  <2>5. 2 * d + 3 <= began
    BY <2>3, <2>4
  <2> QED
    BY <2>1, <2>2, <2>5 DEF Complete
<1>2. ArchiveClock /\ Complete /\ [ArchiveNext]_archiveVars => [A]_archiveVars
  BY <1>1
<1> QED
  BY <1>2, ArchiveClocks, CompleteRounds, PTL DEF ArchiveSpec, DailyHasItsDay

-----------------------------------------------------------------------------
(***************************************************************************)
(* The loop over the days of the initial download.  The rows dated before   *)
(* the next dump have been dealt with.                                      *)
(***************************************************************************)

\* The rows of a round are rows of its markets, of days the clock has passed.
RowsAre ==
  /\ bit_vec \subseteq ActiveMarket \X Nat
  /\ \A b \in bit_vec : b[2] <= now

Handled(b) ==
  LET d == date_parse(b[2]) IN
    \/ d \in DOMAIN disk /\ b \in disk[d]
    \/ d \in undumped
    \/ d.day = 0 /\ \E c \in bit_vec : YearOf(c[2]) < d.year

Passed ==
  pc = "emit" =>
    /\ date \in [year : Nat, day : Nat] /\ last_day \in [year : Nat, day : Nat]
    /\ date.day <= DaysIn(date.year)
    /\ \E c \in bit_vec : YearOf(c[2]) <= date.year
    /\ \A b \in bit_vec : \/ date_parse(b[2]) = last_day
                          \/ date_is_before(date_parse(b[2]), last_day)
    /\ \A b \in bit_vec : date_is_before(date_parse(b[2]), date) => Handled(b)

EmitLoop == RowsAre /\ Passed

\* Nothing has been downloaded.
LEMMA EmitLoopInit == ArchiveInit => EmitLoop
BY DEF ArchiveInit, EmitLoop, RowsAre, Passed

\* Only published rows are downloaded.
LEMMA RowsAreStep == ArchiveClock /\ RowsAre /\ [ArchiveNext]_archiveVars => RowsAre'
<1> SUFFICES ASSUME Clock, RowsAre, [ArchiveNext]_archiveVars PROVE RowsAre'
  BY DEF ArchiveClock
<1>1. CASE \E m \in ActiveMarket : Download(m)
  <2>1. PICK m \in ActiveMarket : Download(m)
    BY <1>1
  <2>2. now' = now /\ bit_vec' \subseteq bit_vec \cup {<<m, d>> : d \in Published(m)}
    BY <2>1 DEF Download, history_download, history_parse
  <2>3. \A d \in Published(m) : d \in Nat /\ d <= now
    BY PublishedIs DEF Clock
  <2>4. \A b \in {<<m, d>> : d \in Published(m)} : b \in ActiveMarket \X Nat /\ b[2] <= now
    BY <2>3
  <2> QED
    BY <2>2, <2>4 DEF RowsAre
<1>2. CASE \/ Start \/ EmitDone \/ DailyBegin \/ DailyDump \/ Stop
           \/ InitialDone \/ Emit \/ UNCHANGED archiveVars
  <2>1. now' = now /\ bit_vec' \in {{}, bit_vec}
    BY <1>2 DEF Start, EmitDone, DailyBegin, DailyDump, Stop, InitialDone, Emit,
      BeginRound, EndRound, roundVars, archiveVars
  <2> QED
    BY <2>1 DEF RowsAre
<1>3. CASE Tick
  <2>1. now' = now + 1 /\ bit_vec' = bit_vec
    BY <1>3 DEF Tick, roundVars
  <2> QED
    BY <2>1 DEF RowsAre, Clock
<1> QED
  BY <1>1, <1>2, <1>3 DEF ArchiveNext

\* The loop leaves no row behind but those of a day 0.
LEMMA PassedStep ==
  ArchiveClock /\ EmitLoop /\ [ArchiveNext]_archiveVars => Passed'
<1> SUFFICES ASSUME Clock, RowsAre, Passed, [ArchiveNext]_archiveVars PROVE Passed'
  BY DEF ArchiveClock, EmitLoop
<1>1. CASE InitialDone
  <2> DEFINE first == CHOOSE d \in Days : \A e \in Days : d <= e
             last == CHOOSE d \in Days : \A e \in Days : d >= e
  <2>1. /\ Days # {} /\ date' = date_parse(first) /\ last_day' = date_parse(last)
        /\ UNCHANGED <<bit_vec, disk, undumped>>
    BY <1>1 DEF InitialDone, roundVars
  <2>2. Days \in SUBSET Nat /\ \A d \in Days : d <= now
    BY DEF RowsAre, Days
  <2>3. \E d \in Days : \A e \in Days : d <= e
    BY <2>1, <2>2, NatLeast
  <2>4. \E d \in Days : \A e \in Days : e <= d
    <3>1. now \in Nat
      BY DEF Clock
    <3> QED
      BY <2>1, <2>2, <3>1, NatGreatest
  <2>5. first \in Days /\ \A e \in Days : first <= e
    BY <2>3
  <2>6. last \in Days /\ \A e \in Days : e <= last
    <3>1. \E d \in Days : \A e \in Days : d >= e
      BY <2>2, <2>4
    <3>2. last \in Days /\ \A e \in Days : last >= e
      BY <3>1
    <3> QED
      BY <2>2, <3>2
  <2> HIDE DEF first, last
  <2>7. \A b \in bit_vec : b[2] \in Days /\ b[2] \in Nat
    BY <2>2 DEF Days
  <2>8. first \in Nat /\ last \in Nat
    BY <2>2, <2>5, <2>6
  <2>9. PICK c \in bit_vec : c[2] = first
    BY <2>5 DEF Days
  <2>10. /\ date' \in [year : Nat, day : Nat] /\ last_day' \in [year : Nat, day : Nat]
         /\ date'.day <= DaysIn(date'.year) /\ YearOf(c[2]) <= date'.year
    <3>1. /\ date_parse(first) \in [year : Nat, day : Nat]
          /\ date_parse(last) \in [year : Nat, day : Nat]
          /\ date_parse(first).year = YearOf(first)
          /\ date_parse(first).day < DaysIn(date_parse(first).year)
      BY <2>8, DateParseIs
    <3>2. DaysIn(date_parse(first).year) \in Nat
      BY <3>1, DaysInIs
    <3> QED
      BY <2>1, <2>9, <3>1, <3>2
  <2>11. ASSUME NEW b \in bit_vec
         PROVE  date_parse(b[2]) = last_day' \/ date_is_before(date_parse(b[2]), last_day')
    BY <2>1, <2>6, <2>7, <2>8, DatesGrow
  <2>12. ASSUME NEW b \in bit_vec
         PROVE  ~date_is_before(date_parse(b[2]), date')
    <3>1. \/ date_parse(first) = date_parse(b[2])
          \/ date_is_before(date_parse(first), date_parse(b[2]))
      BY <2>5, <2>7, <2>8, DatesGrow
    <3>2. /\ date_parse(first) \in [year : Nat, day : Nat]
          /\ date_parse(b[2]) \in [year : Nat, day : Nat]
      BY <2>7, <2>8, DateParseIs
    <3> QED
      BY <2>1, <3>1, <3>2 DEF date_is_before
  <2> QED
    BY <2>1, <2>9, <2>10, <2>11, <2>12 DEF Passed
<1>2. CASE Emit
  <2>1. /\ pc = "emit" /\ Dump(date, RowsOf(date)) /\ date' = date_incr(date)
        /\ UNCHANGED <<bit_vec, last_day>>
    BY <1>2 DEF Emit, roundVars
  <2>2. /\ DOMAIN disk \subseteq DOMAIN disk' /\ undumped \subseteq undumped'
        /\ \A x \in DOMAIN disk : disk'[x] = disk[x]
        /\ date \in undumped' \/ (date \in DOMAIN disk' /\ disk'[date] = RowsOf(date))
    BY <2>1, DumpCovers
  <2>3. PICK c \in bit_vec : YearOf(c[2]) <= date.year
    BY <2>1 DEF Passed
  <2>4. /\ date.year \in Nat /\ date.day \in Nat /\ date.day <= DaysIn(date.year)
        /\ date = [year |-> date.year, day |-> date.day]
        /\ DaysIn(date.year) \in Nat \ {0} /\ DaysIn(date.year + 1) \in Nat \ {0}
    BY <2>1, DaysInIs DEF Passed
  <2>5. /\ date.day = DaysIn(date.year) => date' = [year |-> date.year + 1, day |-> 1]
        /\ date.day < DaysIn(date.year) => date' = [year |-> date.year, day |-> date.day + 1]
    BY <2>1, <2>4 DEF date_incr
  <2>6. /\ date' \in [year : Nat, day : Nat] /\ date'.day <= DaysIn(date'.year)
        /\ date.year <= date'.year
    <3>1. CASE date.day = DaysIn(date.year)
      BY <2>4, <2>5, <3>1
    <3>2. CASE date.day < DaysIn(date.year)
      BY <2>4, <2>5, <3>2
    <3> QED
      BY <2>4, <3>1, <3>2
  <2>7. YearOf(c[2]) <= date'.year
    <3>1. YearOf(c[2]) \in Nat /\ date'.year \in Nat
      BY <2>6, YearOfIs DEF RowsAre
    <3> QED
      BY <2>3, <2>4, <2>6, <3>1
  <2>8. ASSUME NEW b \in bit_vec, date_is_before(date_parse(b[2]), date')
        PROVE  Handled(b)'
    <3> DEFINE d == date_parse(b[2])
    <3>1. /\ d \in [year : Nat, day : Nat] /\ d.day < DaysIn(d.year) /\ b[2] \in Nat
          /\ d.year \in Nat /\ d.day \in Nat
      BY DateParseIs DEF RowsAre
    <3>2. d.year < date'.year \/ (d.year = date'.year /\ d.day < date'.day)
      BY <2>8 DEF date_is_before
    <3>3. CASE date_is_before(d, date)
      <4>1. Handled(b)
        BY <2>1, <3>3 DEF Passed
      <4> QED
        BY <2>1, <2>2, <4>1 DEF Handled
    <3>4. CASE d = date
      <4>1. b \in RowsOf(date)
        BY <3>4 DEF RowsOf
      <4> QED
        BY <2>2, <3>4, <4>1 DEF Handled
    <3>5. CASE d.year = date.year + 1 /\ d.day = 0
      <4>1. YearOf(c[2]) < d.year
        <5>1. YearOf(c[2]) \in Nat
          BY YearOfIs DEF RowsAre
        <5> QED
          BY <2>3, <2>4, <3>5, <5>1
      <4>2. d.day = 0 /\ \E x \in bit_vec' : YearOf(x[2]) < d.year
        BY <2>1, <3>5, <4>1
      <4> QED
        BY <4>2 DEF Handled
    <3>6. d = [year |-> d.year, day |-> d.day]
      BY <3>1
    <3> HIDE DEF d
    <3>7. date_is_before(d, date) \/ d = date \/ (d.year = date.year + 1 /\ d.day = 0)
      <4>1. CASE date.day = DaysIn(date.year)
        <5>1. date'.year = date.year + 1 /\ date'.day = 1
          BY <2>5, <4>1
        <5>2. CASE d.year = date.year
          <6>1. d.day < date.day
            BY <3>1, <4>1, <5>2
          <6> QED
            BY <5>2, <6>1 DEF date_is_before
        <5>3. CASE d.year < date.year
          BY <5>3 DEF date_is_before
        <5>4. CASE d.year > date.year
          BY <2>4, <3>1, <3>2, <5>1, <5>4
        <5> QED
          BY <2>4, <3>1, <5>2, <5>3, <5>4
      <4>2. CASE date.day < DaysIn(date.year)
        <5>1. date'.year = date.year /\ date'.day = date.day + 1
          BY <2>5, <4>2
        <5>2. d.year < date.year \/ (d.year = date.year /\ d.day <= date.day)
          BY <2>4, <3>1, <3>2, <5>1
        <5>3. CASE d.year = date.year /\ d.day = date.day
          BY <2>4, <3>6, <5>3
        <5> QED
          BY <2>4, <3>1, <5>2, <5>3 DEF date_is_before
      <4> QED
        BY <2>4, <4>1, <4>2
    <3> QED
      BY <3>3, <3>4, <3>5, <3>7 DEF d
  <2>9. last_day' \in [year : Nat, day : Nat]
        /\ \A b \in bit_vec' : \/ date_parse(b[2]) = last_day'
                               \/ date_is_before(date_parse(b[2]), last_day')
    BY <2>1 DEF Passed
  <2> QED
    BY <2>1, <2>3, <2>6, <2>7, <2>8, <2>9 DEF Passed
<1>3. CASE Tick \/ UNCHANGED archiveVars
  <2>1. UNCHANGED <<pc, disk, bit_vec, date, last_day, undumped>>
    BY <1>3 DEF Tick, roundVars, archiveVars
  <2> QED
    BY <2>1 DEF Passed, Handled
<1>4. CASE \E m \in ActiveMarket : Download(m)
  BY <1>4 DEF Download, Passed
<1>5. CASE Start \/ EmitDone \/ DailyBegin \/ DailyDump \/ Stop
  BY <1>5 DEF Start, EmitDone, EndRound, DailyBegin, DailyDump, Stop, Passed
<1> QED
  BY <1>1, <1>2, <1>3, <1>4, <1>5 DEF ArchiveNext

\* Both together.
LEMMA EmitLoopStep == ArchiveClock /\ EmitLoop /\ [ArchiveNext]_archiveVars => EmitLoop'
BY RowsAreStep, PassedStep DEF EmitLoop

\* The loop over the days does so in every behaviour.
LEMMA EmitLoops == ArchiveSpec => []EmitLoop
BY EmitLoopInit, EmitLoopStep, ArchiveClocks, PTL DEF ArchiveSpec

\* When the loop over the days ends every row has been dumped under its date,
\* or its dump was refused or failed, or it is of the first day of a year later
\* than the first one (the initial download of hoardling_histories).
THEOREM OnlyNewYearLost == ArchiveSpec => InitialLosesOnlyNewYear
<1> DEFINE A == EmitDone => \A b \in bit_vec :
                  LET d == date_parse(b[2]) IN
                    \/ d \in DOMAIN disk /\ b \in disk[d]
                    \/ d \in undumped
                    \/ d.day = 0 /\ \E c \in bit_vec : YearOf(c[2]) < d.year
<1>1. EmitLoop => A
  <2> SUFFICES ASSUME EmitLoop, EmitDone, NEW b \in bit_vec PROVE Handled(b)
    BY DEF Handled
  <2>1. pc = "emit" /\ ~date_is_before(date, last_day) /\ date # last_day
    BY DEF EmitDone
  <2>2. /\ date \in [year : Nat, day : Nat] /\ last_day \in [year : Nat, day : Nat]
        /\ date_parse(b[2]) = last_day \/ date_is_before(date_parse(b[2]), last_day)
        /\ date_is_before(date_parse(b[2]), date) => Handled(b)
    BY <2>1 DEF EmitLoop, Passed
  <2>3. date_parse(b[2]) \in [year : Nat, day : Nat]
    BY DateParseIs DEF EmitLoop, RowsAre
  <2>4. date_is_before(last_day, date)
    <3>1. /\ date = [year |-> date.year, day |-> date.day]
          /\ last_day = [year |-> last_day.year, day |-> last_day.day]
          /\ date.year \in Nat /\ date.day \in Nat
          /\ last_day.year \in Nat /\ last_day.day \in Nat
      BY <2>2
    <3>2. date.year # last_day.year \/ date.day # last_day.day
      BY <2>1, <3>1
    <3> QED
      BY <2>1, <3>1, <3>2 DEF date_is_before
  <2>5. date_is_before(date_parse(b[2]), date)
    BY <2>2, <2>3, <2>4 DEF date_is_before
  <2> QED
    BY <2>2, <2>5
<1>2. EmitLoop /\ [ArchiveNext]_archiveVars => [A]_archiveVars
  BY <1>1
<1> QED
  BY <1>2, EmitLoops, PTL DEF ArchiveSpec, InitialLosesOnlyNewYear
=============================================================================
