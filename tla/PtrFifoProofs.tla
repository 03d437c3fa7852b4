--------------------------- MODULE PtrFifoProofs ----------------------------
(***************************************************************************)
(* For any number of threads, any capacity and any timeouts: the semaphores *)
(* of ptr_fifo account for every place of the ring, its panics are dead, no *)
(* pointer is lost or has two owners, and the whole is a bounded queue.     *)
(***************************************************************************)
EXTENDS PtrFifo, FiniteSetTheorems, SequenceTheorems, TLAPS

USE PtrFifoAssumption

\* What a call of the ring does to an index.
LEMMA IndexTurns ==
  ASSUME NEW i \in Place
  PROVE  (i + 1) % Cap \in Place
<1>1. Cap \in Nat \ {0} /\ i + 1 \in Nat
  BY DEF Place
<1> QED
  BY <1>1 DEF Place

-----------------------------------------------------------------------------
\* Type correctness, by action.

LEMMA InitType == Init => TypeOK
<1>1. 0 \in Place
  BY DEF Place
<1> QED
  BY <1>1 DEF Init, TypeOK

\* A call that begins, waits, is refused or ends.
LEMMA WaitType ==
  ASSUME TypeOK, NEW t \in Thread,
         \/ CallPush(t) \/ CallPop(t) \/ CallTryPop(t) \/ OtherCalls(t)
         \/ WaitPush(t) \/ WaitPop(t) \/ WaitExpires(t)
         \/ TryFails(t) \/ TryMisread(t) \/ TrySucceeds(t)
  PROVE  TypeOK'
<1> USE DEF TypeOK, ring, Goto, Return, Call
<1>1. CASE CallPush(t)
  BY <1>1 DEF CallPush
<1>2. CASE CallPop(t)
  BY <1>2 DEF CallPop
<1>3. CASE CallTryPop(t)
  BY <1>3 DEF CallTryPop
<1>4. CASE OtherCalls(t)
  BY <1>4 DEF OtherCalls
<1>5. CASE WaitPush(t)
  BY <1>5 DEF WaitPush
<1>6. CASE WaitPop(t)
  BY <1>6 DEF WaitPop
<1>7. CASE WaitExpires(t)
  BY <1>7 DEF WaitExpires
<1>8. CASE TryFails(t)
  BY <1>8 DEF TryFails
<1>9. CASE TryMisread(t)
  BY <1>9 DEF TryMisread
<1>10. CASE TrySucceeds(t)
  BY <1>10 DEF TrySucceeds
<1> QED
  BY <1>1, <1>2, <1>3, <1>4, <1>5, <1>6, <1>7, <1>8, <1>9, <1>10

\* The critical section and the post that ends a call.
LEMMA RingType ==
  ASSUME TypeOK, NEW t \in Thread,
         \/ Lock(t) \/ LockExpires(t)
         \/ RingStore(t) \/ RingStored(t) \/ RingAdvance(t) \/ RingRead(t)
         \/ Unlock(t) \/ PostPush(t) \/ PostPop(t)
  PROVE  TypeOK'
<1> USE DEF TypeOK, ring, Goto, Return
<1>1. CASE Lock(t)
  BY <1>1 DEF Lock
<1>2. CASE LockExpires(t)
  BY <1>2 DEF LockExpires
<1>3. CASE RingStore(t)
  BY <1>3 DEF RingStore
<1>4. CASE RingStored(t)
  BY <1>4, IndexTurns DEF RingStored
<1>5. CASE RingAdvance(t)
  BY <1>5, IndexTurns DEF RingAdvance
<1>6. CASE RingRead(t)
  <2>1. 0 \in Place
    BY DEF Place
  <2> QED
    BY <1>6, <2>1 DEF RingRead
<1>7. CASE Unlock(t)
  BY <1>7 DEF Unlock
<1>8. CASE PostPush(t)
  BY <1>8 DEF PostPush
<1>9. CASE PostPop(t)
  BY <1>9 DEF PostPop
<1> QED
  BY <1>1, <1>2, <1>3, <1>4, <1>5, <1>6, <1>7, <1>8, <1>9

LEMMA NextType == TypeOK /\ [Next]_vars => TypeOK'
<1> SUFFICES ASSUME TypeOK, [Next]_vars PROVE TypeOK'
  OBVIOUS
<1>1. CASE Next
  <2>1. PICK t \in Thread : Step(t)
    BY <1>1 DEF Next
  <2> QED
    BY <2>1, WaitType, RingType DEF Step
<1>2. CASE UNCHANGED vars
  BY <1>2 DEF vars, ring, TypeOK
<1> QED
  BY <1>1, <1>2

\* Type correctness: indices stay in the ring, no semaphore is ever negative.
THEOREM TypeCorrect == Spec => []TypeOK
  BY InitType, NextType, PTL DEF Spec

-----------------------------------------------------------------------------
\* The places: how each step moves its thread between the four groups.

Takers == Entering({"pop", "try"})
Posters == Leaving({"push"})

\* The groups are sets of threads, finitely many.
LEMMA GroupsFinite ==
  /\ IsFiniteSet(Fillers) /\ IsFiniteSet(Emptiers)
  /\ IsFiniteSet(Takers) /\ IsFiniteSet(Posters)
<1>1. /\ Fillers \in SUBSET Thread /\ Emptiers \in SUBSET Thread
      /\ Takers \in SUBSET Thread /\ Posters \in SUBSET Thread
  BY DEF Fillers, Emptiers, Takers, Posters, Entering, Leaving, Storing, Reading
<1> QED
  BY <1>1, FS_Subset

\* The groups do not move.
Still ==
  /\ Fillers' = Fillers /\ Emptiers' = Emptiers
  /\ Takers' = Takers /\ Posters' = Posters

LEMMA StillSteps ==
  ASSUME TypeOK, NEW t \in Thread,
         \/ CallPush(t) \/ CallPop(t) \/ CallTryPop(t) \/ OtherCalls(t)
         \/ WaitExpires(t) \/ TryFails(t) \/ TryMisread(t)
         \/ Lock(t) \/ LockExpires(t) \/ RingStore(t) \/ RingRead(t) \/ Unlock(t)
  PROVE  Still
<1> USE DEF TypeOK, Still, Fillers, Emptiers, Takers, Posters, Entering, Leaving,
            Storing, Reading, Goto
<1>1. CASE CallPush(t) \/ CallPop(t) \/ CallTryPop(t)
  BY <1>1 DEF CallPush, CallPop, CallTryPop, Call
<1>2. CASE OtherCalls(t)
  BY <1>2 DEF OtherCalls
<1>3. CASE WaitExpires(t)
  BY <1>3 DEF WaitExpires, Return
<1>4. CASE TryFails(t)
  BY <1>4 DEF TryFails, Return
<1>5. CASE TryMisread(t)
  BY <1>5 DEF TryMisread, Return
<1>6. CASE Lock(t)
  BY <1>6 DEF Lock
<1>7. CASE LockExpires(t)
  BY <1>7 DEF LockExpires
<1>8. CASE RingStore(t)
  BY <1>8 DEF RingStore
<1>9. CASE RingRead(t)
  BY <1>9 DEF RingRead
<1>10. CASE Unlock(t)
  BY <1>10 DEF Unlock
<1> QED
  BY <1>1, <1>2, <1>3, <1>4, <1>5, <1>6, <1>7, <1>8, <1>9, <1>10

\* One thread more, or one thread less, in a group.
LEMMA OneMore ==
  ASSUME NEW S, IsFiniteSet(S), NEW t, t \notin S
  PROVE  Cardinality(S \cup {t}) = Cardinality(S) + 1
BY FS_AddElement

LEMMA OneLess ==
  ASSUME NEW S, IsFiniteSet(S), NEW t, t \in S
  PROVE  Cardinality(S \ {t}) = Cardinality(S) - 1
BY FS_RemoveElement

\* The sizes of the groups are natural numbers.
LEMMA GroupSizes ==
  /\ Cardinality(Fillers) \in Nat /\ Cardinality(Emptiers) \in Nat
  /\ Cardinality(Takers) \in Nat /\ Cardinality(Posters) \in Nat
BY GroupsFinite, FS_CardinalityType

-----------------------------------------------------------------------------
\* A permit of `push` is taken: a free place now belongs to the thread.
LEMMA WaitPushMoves ==
  ASSUME TypeOK, NEW t \in Thread, WaitPush(t)
  PROVE  /\ t \notin Fillers /\ Fillers' = Fillers \cup {t}
         /\ Emptiers' = Emptiers /\ Takers' = Takers /\ Posters' = Posters
BY DEF TypeOK, WaitPush, Goto, Fillers, Emptiers, Takers, Posters, Entering, Leaving,
       Storing, Reading

\* A permit of `pop` is taken: a filled place belongs to the thread.
LEMMA WaitPopMoves ==
  ASSUME TypeOK, NEW t \in Thread, WaitPop(t) \/ TrySucceeds(t)
  PROVE  /\ t \notin Takers /\ Takers' = Takers \cup {t}
         /\ Fillers' = Fillers /\ Emptiers' = Emptiers /\ Posters' = Posters
BY DEF TypeOK, WaitPop, TrySucceeds, Goto, Fillers, Emptiers, Takers, Posters,
       Entering, Leaving, Storing, Reading

\* The pointer is in the ring, its place not yet posted.
LEMMA RingStoredMoves ==
  ASSUME TypeOK, NEW t \in Thread, RingStored(t)
  PROVE  /\ t \in Fillers /\ Fillers' = Fillers \ {t}
         /\ t \notin Posters /\ Posters' = Posters \cup {t}
         /\ Emptiers' = Emptiers /\ Takers' = Takers
BY DEF TypeOK, RingStored, Goto, Fillers, Emptiers, Takers, Posters, Entering,
       Leaving, Storing, Reading

\* The place has left the ring, and is not yet posted.
LEMMA RingAdvanceMoves ==
  ASSUME TypeOK, NEW t \in Thread, RingAdvance(t)
  PROVE  /\ t \in Takers /\ Takers' = Takers \ {t}
         /\ t \notin Emptiers /\ Emptiers' = Emptiers \cup {t}
         /\ Fillers' = Fillers /\ Posters' = Posters
BY DEF TypeOK, RingAdvance, Goto, Fillers, Emptiers, Takers, Posters, Entering,
       Leaving, Storing, Reading

\* The posts.
LEMMA PostPushMoves ==
  ASSUME TypeOK, NEW t \in Thread, PostPush(t)
  PROVE  /\ t \in Posters /\ Posters' = Posters \ {t}
         /\ Fillers' = Fillers /\ Emptiers' = Emptiers /\ Takers' = Takers
BY DEF TypeOK, PostPush, Return, Goto, Fillers, Emptiers, Takers, Posters, Entering,
       Leaving, Storing, Reading

LEMMA PostPopMoves ==
  ASSUME TypeOK, NEW t \in Thread, PostPop(t)
  PROVE  /\ t \in Emptiers /\ Emptiers' = Emptiers \ {t}
         /\ Fillers' = Fillers /\ Takers' = Takers /\ Posters' = Posters
BY DEF TypeOK, PostPop, Return, Goto, Fillers, Emptiers, Takers, Posters, Entering,
       Leaving, Storing, Reading

-----------------------------------------------------------------------------
\* The account with its groups named.
LEMMA AccountByGroups ==
  PermitsAccount <=>
    /\ push + len + Cardinality(Fillers) + Cardinality(Emptiers) = Cap
    /\ pop + lost + Cardinality(Takers) + Cardinality(Posters) = len
BY DEF PermitsAccount, Takers, Posters

LEMMA InitAccount == Init => PermitsAccount
<1> SUFFICES ASSUME Init PROVE PermitsAccount
  OBVIOUS
<1>1. Fillers = {} /\ Emptiers = {} /\ Takers = {} /\ Posters = {}
  BY DEF Init, Fillers, Emptiers, Takers, Posters, Entering, Leaving, Storing, Reading
<1> QED
  BY <1>1, FS_EmptySet, AccountByGroups DEF Init

\* Steps that move no thread change no count, but for the permit a try_pop
\* drops, which is counted as lost.
LEMMA StillAccount ==
  ASSUME TypeOK, PermitsAccount, Still, TypeOK',
         UNCHANGED <<push, len>>,
         UNCHANGED <<pop, lost>> \/ (pop' = pop - 1 /\ lost' = lost + 1)
  PROVE  PermitsAccount'
<1>1. /\ push' + len' + Cardinality(Fillers') + Cardinality(Emptiers') = Cap
      /\ pop' + lost' + Cardinality(Takers') + Cardinality(Posters') = len'
  BY AccountByGroups, GroupSizes DEF Still, TypeOK
<1> QED
  BY <1>1 DEF PermitsAccount, Takers, Posters

LEMMA StepAccount ==
  ASSUME TypeOK, PermitsAccount, TypeOK', NEW t \in Thread, Step(t)
  PROVE  PermitsAccount'
<1> DEFINE F == Cardinality(Fillers)  E == Cardinality(Emptiers)
           T == Cardinality(Takers)   P == Cardinality(Posters)
<1>1. /\ push + len + F + E = Cap /\ pop + lost + T + P = len
      /\ F \in Nat /\ E \in Nat /\ T \in Nat /\ P \in Nat
      /\ push \in Nat /\ pop \in Nat /\ len \in Nat /\ lost \in Nat /\ Cap \in Nat
  BY AccountByGroups, GroupSizes DEF TypeOK
<1>2. SUFFICES
        /\ push' + len' + Cardinality(Fillers') + Cardinality(Emptiers') = Cap
        /\ pop' + lost' + Cardinality(Takers') + Cardinality(Posters') = len'
  BY DEF PermitsAccount, Takers, Posters
<1>3. CASE \/ CallPush(t) \/ CallPop(t) \/ CallTryPop(t) \/ OtherCalls(t)
           \/ WaitExpires(t) \/ TryFails(t) \/ TryMisread(t)
           \/ Lock(t) \/ LockExpires(t) \/ RingStore(t) \/ RingRead(t) \/ Unlock(t)
  <2>1. Still
    BY <1>3, StillSteps
  <2>2. /\ UNCHANGED <<push, len>>
        /\ UNCHANGED <<pop, lost>> \/ (pop' = pop - 1 /\ lost' = lost + 1)
    BY <1>3 DEF CallPush, CallPop, CallTryPop, Call, OtherCalls, WaitExpires,
                TryFails, TryMisread, Lock, LockExpires, RingStore, RingRead,
                Unlock, ring
  <2> QED
    BY <1>1, <2>1, <2>2 DEF Still
<1>4. CASE WaitPush(t)
  <2>1. Cardinality(Fillers') = F + 1
    BY <1>4, WaitPushMoves, GroupsFinite, OneMore
  <2>2. push' = push - 1 /\ UNCHANGED <<len, pop, lost>>
    BY <1>4 DEF WaitPush, ring
  <2> QED
    BY <1>1, <1>4, <2>1, <2>2, WaitPushMoves
<1>5. CASE WaitPop(t) \/ TrySucceeds(t)
  <2>1. Cardinality(Takers') = T + 1
    BY <1>5, WaitPopMoves, GroupsFinite, OneMore
  <2>2. pop' = pop - 1 /\ UNCHANGED <<len, push, lost>>
    BY <1>5 DEF WaitPop, TrySucceeds, ring
  <2> QED
    BY <1>1, <1>5, <2>1, <2>2, WaitPopMoves
<1>6. CASE RingStored(t)
  <2>1. Cardinality(Fillers') = F - 1 /\ Cardinality(Posters') = P + 1
    BY <1>6, RingStoredMoves, GroupsFinite, OneMore, OneLess
  <2>2. len' = len + 1 /\ UNCHANGED <<push, pop, lost>>
    BY <1>6 DEF RingStored
  <2>3. Cardinality(Emptiers') = E /\ Cardinality(Takers') = T
    BY <1>6, RingStoredMoves
  <2> QED
    BY <1>1, <2>1, <2>2, <2>3
<1>7. CASE RingAdvance(t)
  <2>1. Cardinality(Takers') = T - 1 /\ Cardinality(Emptiers') = E + 1
    BY <1>7, RingAdvanceMoves, GroupsFinite, OneMore, OneLess
  <2>2. len' = len - 1 /\ UNCHANGED <<push, pop, lost>>
    BY <1>7 DEF RingAdvance
  <2> QED
    BY <1>1, <1>7, <2>1, <2>2, RingAdvanceMoves
<1>8. CASE PostPush(t)
  <2>1. Cardinality(Posters') = P - 1
    BY <1>8, PostPushMoves, GroupsFinite, OneLess
  <2>2. pop' = pop + 1 /\ UNCHANGED <<push, len, lost>>
    BY <1>8 DEF PostPush, ring
  <2> QED
    BY <1>1, <1>8, <2>1, <2>2, PostPushMoves
<1>9. CASE PostPop(t)
  <2>1. Cardinality(Emptiers') = E - 1
    BY <1>9, PostPopMoves, GroupsFinite, OneLess
  <2>2. push' = push + 1 /\ UNCHANGED <<pop, len, lost>>
    BY <1>9 DEF PostPop, ring
  <2> QED
    BY <1>1, <1>9, <2>1, <2>2, PostPopMoves
<1> QED
  BY <1>3, <1>4, <1>5, <1>6, <1>7, <1>8, <1>9 DEF Step

LEMMA NextAccount ==
  TypeOK /\ PermitsAccount /\ [Next]_vars => PermitsAccount'
<1> SUFFICES ASSUME TypeOK, PermitsAccount, [Next]_vars PROVE PermitsAccount'
  OBVIOUS
<1>1. TypeOK'
  BY NextType
<1>2. CASE Next
  BY <1>1, <1>2, StepAccount DEF Next
<1>3. CASE UNCHANGED vars
  BY <1>3 DEF vars, ring, PermitsAccount, Fillers, Emptiers, Entering, Leaving,
              Storing, Reading
<1> QED
  BY <1>2, <1>3

\* The semaphores never drift from the ring, whatever the threads are at.
THEOREM PlacesAccounted == Spec => []PermitsAccount
  BY InitType, InitAccount, NextType, NextAccount, PTL DEF Spec

\* A thread at the ring is one of those that the account counts.
LEMMA AccountGivesRoom == TypeOK /\ PermitsAccount => RingHasRoom
<1> SUFFICES ASSUME TypeOK, PermitsAccount, NEW t \in Thread, pc[t] = "ring"
             PROVE  IF op[t] = "push" THEN len < Cap ELSE len > 0
  BY DEF RingHasRoom
<1>1. CASE op[t] = "push"
  <2>1. t \in Fillers
    BY <1>1 DEF Fillers, Entering
  <2>2. Cardinality(Fillers) > 0
    BY <2>1, GroupsFinite, GroupSizes, FS_EmptySet
  <2> QED
    BY <1>1, <2>2, AccountByGroups, GroupSizes DEF TypeOK
<1>2. CASE op[t] # "push"
  <2>1. t \in Takers
    BY <1>2 DEF TypeOK, Takers, Entering
  <2>2. Cardinality(Takers) > 0
    BY <2>1, GroupsFinite, GroupSizes, FS_EmptySet
  <2> QED
    BY <1>2, <2>2, AccountByGroups, GroupSizes DEF TypeOK
<1> QED
  BY <1>1, <1>2

\* The panics of unsafe_ptr_fifo_push and unsafe_ptr_fifo_pop are dead code.
THEOREM NoRingPanics == Spec => []RingHasRoom
  BY TypeCorrect, PlacesAccounted, AccountGivesRoom, PTL

-----------------------------------------------------------------------------
\* The slots of the ring: the k-th pointer that waits is at Slot(k), and the
\* next one will be at the slot that follows the last.
Slot(k) == (read_idx + k - 1) % Cap

LEMMA Wrap ==
  ASSUME NEW a \in 0..(2 * Cap - 1)
  PROVE  a % Cap = IF a < Cap THEN a ELSE a - Cap
OBVIOUS

LEMMA SlotsDiffer ==
  ASSUME read_idx \in Place, NEW j \in 1..Cap, NEW k \in 1..Cap
  PROVE  Slot(j) \in Place /\ (Slot(j) = Slot(k) => j = k)
<1> DEFINE a == read_idx + j - 1
           b == read_idx + k - 1
<1>1. a \in 0..(2 * Cap - 1) /\ b \in 0..(2 * Cap - 1) /\ (a - b = j - k)
  BY DEF Place
<1>2. Slot(j) = a % Cap /\ Slot(k) = b % Cap
  BY DEF Slot
<1> HIDE DEF a, b
<1>3. /\ Slot(j) = IF a < Cap THEN a ELSE a - Cap
      /\ Slot(k) = IF b < Cap THEN b ELSE b - Cap
  BY <1>1, <1>2, Wrap
<1> QED
  BY <1>1, <1>3 DEF Place

\* Both indices of the ring turn together.
LEMMA Turn ==
  ASSUME NEW i \in Place, NEW l \in 0..Cap
  PROVE  (((i + 1) % Cap) + l) % Cap = (i + l + 1) % Cap
<1>1. CASE i + 1 < Cap
  <2>1. (i + 1) % Cap = i + 1
    BY <1>1, Wrap DEF Place
  <2> QED
    BY <2>1 DEF Place
<1>2. CASE i + 1 = Cap
  <2>1. (i + 1) % Cap = 0
    BY <1>2, Wrap DEF Place
  <2>2. CASE l < Cap
    <3>1. l % Cap = l /\ (Cap + l) % Cap = l
      BY <2>2, Wrap
    <3> QED
      BY <1>2, <2>1, <3>1 DEF Place
  <2>3. CASE l = Cap
    <3>1. (2 * Cap) % Cap = 0 /\ Cap % Cap = 0
      OBVIOUS
    <3> QED
      BY <1>2, <2>1, <2>3, <3>1 DEF Place
  <2> QED
    BY <2>2, <2>3
<1> QED
  BY <1>1, <1>2 DEF Place

-----------------------------------------------------------------------------
\* Who has the mutex is at the ring, and what each thread has in hand follows
\* from where it is in its call.
MutexHeld == \A t \in Thread : pc[t] \in {"ring", "index", "unlock"} <=> mu = t

HasPointer(t) ==
  IF op[t] = "push" THEN pc[t] \in {"wait", "lock", "ring", "index", "panic"}
  ELSE pc[t] \in {"unlock", "post"}
HandsFull == \A t \in Thread : hand[t] \in Item <=> HasPointer(t)

\* Every place between the two indices has a pointer, the one stored last too,
\* though len does not count it yet, and so has the place being read.
RingFilled ==
  /\ write_idx = (read_idx + len) % Cap
  /\ \A k \in 1..len : ptrs[Slot(k)] \in Item
  /\ \A t \in Storing : ptrs[write_idx] = hand[t]
  /\ \A t \in Reading : ptrs[old_idx[t]] \in Item

RingInv == MutexHeld /\ HandsFull /\ RingFilled

\* No place is used that is not counted.
LEMMA LenBounds ==
  ASSUME TypeOK, PermitsAccount
  PROVE  /\ len \in 0..Cap
         /\ \A t \in Thread : op[t] = "push" /\ pc[t] \in {"ring", "index"} => len < Cap
<1>1. /\ push + len + Cardinality(Fillers) + Cardinality(Emptiers) = Cap
      /\ push \in Nat /\ len \in Nat
      /\ Cardinality(Fillers) \in Nat /\ Cardinality(Emptiers) \in Nat
  BY AccountByGroups, GroupSizes DEF TypeOK
<1>2. ASSUME NEW t \in Thread, op[t] = "push", pc[t] \in {"ring", "index"}
      PROVE  Cardinality(Fillers) # 0
  <2>1. t \in Fillers
    BY <1>2 DEF Fillers, Entering, Storing
  <2> QED
    BY <2>1, GroupsFinite, FS_EmptySet
<1> QED
  BY <1>1, <1>2

LEMMA InitRing == Init => RingInv
<1> SUFFICES ASSUME Init PROVE RingInv
  OBVIOUS
<1>1. 0 % Cap = 0
  BY Wrap
<1>2. MutexHeld /\ HandsFull
  BY DEF Init, MutexHeld, HandsFull, HasPointer
<1>3. RingFilled
  BY <1>1 DEF Init, RingFilled, Storing, Reading
<1> QED
  BY <1>2, <1>3 DEF RingInv

LEMMA MutexKept ==
  ASSUME TypeOK, MutexHeld, NEW t \in Thread, Step(t)
  PROVE  MutexHeld'
<1> USE DEF TypeOK, MutexHeld, Goto, Return, Call
<1>1. CASE CallPush(t) \/ CallPop(t) \/ CallTryPop(t) \/ OtherCalls(t)
  BY <1>1 DEF CallPush, CallPop, CallTryPop, OtherCalls
<1>2. CASE WaitPush(t) \/ WaitPop(t) \/ WaitExpires(t)
  BY <1>2 DEF WaitPush, WaitPop, WaitExpires
<1>3. CASE TryFails(t) \/ TryMisread(t) \/ TrySucceeds(t)
  BY <1>3 DEF TryFails, TryMisread, TrySucceeds
<1>4. CASE Lock(t)
  BY <1>4 DEF Lock
<1>5. CASE LockExpires(t)
  BY <1>5 DEF LockExpires
<1>6. CASE RingStore(t) \/ RingStored(t) \/ RingAdvance(t) \/ RingRead(t)
  BY <1>6 DEF RingStore, RingStored, RingAdvance, RingRead
<1>7. CASE Unlock(t)
  BY <1>7 DEF Unlock
<1>8. CASE PostPush(t) \/ PostPop(t)
  BY <1>8 DEF PostPush, PostPop
<1> QED
  BY <1>1, <1>2, <1>3, <1>4, <1>5, <1>6, <1>7, <1>8 DEF Step

LEMMA HandsKept ==
  ASSUME TypeOK, HandsFull, RingFilled, NEW t \in Thread, Step(t)
  PROVE  HandsFull'
<1> USE DEF TypeOK, HandsFull, HasPointer, Goto, Return, Call
<1>1. CASE CallPush(t) \/ CallPop(t) \/ CallTryPop(t) \/ OtherCalls(t)
  BY <1>1 DEF CallPush, CallPop, CallTryPop, OtherCalls
<1>2. CASE WaitPush(t) \/ WaitPop(t) \/ WaitExpires(t)
  BY <1>2 DEF WaitPush, WaitPop, WaitExpires
<1>3. CASE TryFails(t) \/ TryMisread(t) \/ TrySucceeds(t)
  BY <1>3 DEF TryFails, TryMisread, TrySucceeds
<1>4. CASE Lock(t)
  BY <1>4 DEF Lock
<1>5. CASE LockExpires(t)
  BY <1>5 DEF LockExpires
<1>6. CASE RingStore(t) \/ RingStored(t) \/ RingAdvance(t)
  BY <1>6 DEF RingStore, RingStored, RingAdvance
<1>7. CASE RingRead(t)
  <2>1. ptrs[old_idx[t]] \in Item
    BY <1>7 DEF RingFilled, Reading, RingRead
  <2> QED
    BY <1>7, <2>1 DEF RingRead
<1>8. CASE Unlock(t)
  BY <1>8 DEF Unlock
<1>9. CASE PostPush(t) \/ PostPop(t)
  BY <1>9 DEF PostPush, PostPop
<1> QED
  BY <1>1, <1>2, <1>3, <1>4, <1>5, <1>6, <1>7, <1>8, <1>9 DEF Step

\* The pointer that waits at the k-th place, and the one a thread is reading.
At(k) == ptrs[Slot(k)]
Read(t) == ptrs[old_idx[t]]

\* Steps that leave the ring alone.
LEMMA SameRing ==
  ASSUME TypeOK, RingFilled, UNCHANGED ring, NEW t \in Thread,
         \A u \in Thread \ {t} : pc'[u] = pc[u] /\ op'[u] = op[u]
                                /\ hand'[u] = hand[u] /\ old_idx'[u] = old_idx[u],
         pc'[t] # "index"
  PROVE  RingFilled' /\ \A k \in 1..len : At(k)' = At(k)
<1>1. UNCHANGED <<ptrs, len, read_idx, write_idx>> /\ \A k \in 1..len : Slot(k)' = Slot(k)
  BY DEF ring, Slot
<1>2. Storing' \subseteq Storing \ {t} /\ Reading' \subseteq Reading \ {t}
  BY DEF Storing, Reading
<1>3. \A u \in Storing' : ptrs[write_idx] = hand'[u]
  BY <1>2 DEF RingFilled, Storing
<1>4. \A u \in Reading' : ptrs[old_idx'[u]] \in Item
  BY <1>2 DEF RingFilled, Reading
<1> QED
  BY <1>1, <1>3, <1>4 DEF RingFilled, At

\* Who is at the ring is there alone.
LEMMA Alone ==
  ASSUME MutexHeld, NEW t \in Thread, pc[t] \in {"ring", "index"}
  PROVE  Storing \cup Reading \subseteq {t}
BY DEF MutexHeld, Storing, Reading

\* A pointer is stored where none waits.
LEMMA StoreFills ==
  ASSUME TypeOK, PermitsAccount, RingInv, NEW t \in Thread, RingStore(t)
  PROVE  RingFilled' /\ \A k \in 1..len : At(k)' = At(k)
<1>1. len \in 0..Cap /\ len < Cap /\ UNCHANGED <<hand, len, read_idx, write_idx, old_idx, op>>
  BY LenBounds DEF RingStore
<1>2. write_idx = Slot(len + 1) /\ read_idx \in Place
  BY DEF RingInv, RingFilled, Slot, TypeOK
<1>3. \A k \in 1..len : Slot(k) \in Place /\ Slot(k) # write_idx
  <2> TAKE k \in 1..len
  <2> QED
    BY <1>1, <1>2, SlotsDiffer
<1>4. \A k \in 1..len : Slot(k)' = Slot(k) /\ ptrs'[Slot(k)] = ptrs[Slot(k)]
  BY <1>1, <1>3 DEF Slot, RingStore, TypeOK
<1>5. ptrs'[write_idx] = hand[t]
  BY DEF RingStore, TypeOK
<1>6. Storing' \subseteq {t} /\ Reading' = {}
  <2>1. Storing \cup Reading \subseteq {t} /\ pc[t] = "ring" /\ op[t] = "push"
    BY Alone DEF RingInv, RingStore
  <2> QED
    BY <2>1 DEF RingStore, Goto, TypeOK, Storing, Reading
<1> QED
  BY <1>1, <1>4, <1>5, <1>6 DEF RingFilled, RingInv, At

LEMMA TurnOnce ==
  ASSUME NEW i \in Place, NEW l \in 0..Cap
  PROVE  (((i + l) % Cap) + 1) % Cap = (i + l + 1) % Cap
<1> DEFINE a == i + l
<1>1. a \in 0..(2 * Cap - 1)
  BY DEF Place
<1> HIDE DEF a
<1>2. ((a % Cap) + 1) % Cap = (a + 1) % Cap
  <2>1. CASE a < Cap
    BY <1>1, <2>1, Wrap
  <2>2. CASE a >= Cap /\ a + 1 < 2 * Cap
    <3>1. a % Cap = a - Cap /\ a + 1 \in 0..(2 * Cap - 1) /\ a - Cap + 1 \in 0..(Cap - 1)
      BY <1>1, <2>2, Wrap
    <3> DEFINE b == a + 1
    <3>2. b \in 0..(2 * Cap - 1) /\ b >= Cap /\ b - Cap \in 0..(Cap - 1) /\ (a % Cap) + 1 = b - Cap
      BY <1>1, <2>2, <3>1
    <3> HIDE DEF b
    <3>3. b % Cap = b - Cap /\ (b - Cap) % Cap = b - Cap
      BY <3>2, Wrap
    <3> QED
      BY <3>2, <3>3 DEF b
  <2>3. CASE a + 1 = 2 * Cap
    <3>1. a % Cap = Cap - 1 /\ Cap % Cap = 0 /\ (2 * Cap) % Cap = 0
      BY <1>1, <2>3, Wrap
    <3> QED
      BY <2>3, <3>1
  <2> QED
    BY <1>1, <2>1, <2>2, <2>3
<1> QED
  BY <1>2 DEF a

\* The pointer that was stored now waits, behind the others.
LEMMA StoredFills ==
  ASSUME TypeOK, PermitsAccount, RingInv, NEW t \in Thread, RingStored(t)
  PROVE  /\ RingFilled' /\ len' = len + 1 /\ Reading' = Reading /\ Reading = {}
         /\ \A k \in 1..len : At(k)' = At(k)
         /\ \A k \in {len + 1} : At(k)' = hand[t]
         /\ hand[t] \in Item
<1>1. len \in 0..Cap /\ len < Cap /\ len' = len + 1 /\ UNCHANGED <<ptrs, read_idx, old_idx, op>>
  BY LenBounds DEF RingStored
<1>2. /\ write_idx = (read_idx + len) % Cap /\ write_idx' = (write_idx + 1) % Cap
      /\ read_idx \in Place
  BY DEF RingInv, RingFilled, RingStored, TypeOK
<1>3. write_idx' = (read_idx' + len') % Cap
  <2>1. read_idx + len + 1 = read_idx + (len + 1)
    BY <1>1, <1>2 DEF Place
  <2> QED
    BY <1>1, <1>2, <2>1, TurnOnce
<1>4. t \in Storing /\ hand[t] \in Item
  BY DEF RingInv, HandsFull, HasPointer, RingStored, Storing
<1>5. \A k \in 1..(len + 1) : At(k)' = At(k)
  BY <1>1 DEF At, Slot
<1>6. At(len + 1) = hand[t]
  BY <1>1, <1>2, <1>4 DEF At, Slot, RingInv, RingFilled, TypeOK
<1>7. Storing' = {} /\ Reading' = {} /\ Reading = {}
  <2>1. Storing \cup Reading \subseteq {t} /\ op[t] = "push"
    BY Alone DEF RingInv, RingStored
  <2> QED
    BY <2>1 DEF RingStored, Goto, TypeOK, Storing, Reading
<1>8. \A k \in 1..len' : At(k)' \in Item
  BY <1>1, <1>4, <1>5, <1>6 DEF RingInv, RingFilled, At
<1> QED
  BY <1>1, <1>3, <1>4, <1>5, <1>6, <1>7, <1>8 DEF RingFilled, At

\* The first of those that wait leaves, and is still to be read.
LEMMA AdvanceFills ==
  ASSUME TypeOK, PermitsAccount, RingInv, NEW t \in Thread, RingAdvance(t), len > 0
  PROVE  /\ RingFilled' /\ len' = len - 1 /\ Reading = {} /\ Reading' = {t}
         /\ \A k \in 1..(len - 1) : At(k)' = At(k + 1)
         /\ Read(t)' = At(1)
<1>1. /\ len \in 1..Cap /\ len' = len - 1 /\ read_idx \in Place
      /\ read_idx' = (read_idx + 1) % Cap
      /\ UNCHANGED <<ptrs, write_idx, hand, op>> /\ old_idx'[t] = read_idx
  BY LenBounds DEF RingAdvance, TypeOK
<1>2. write_idx' = (read_idx' + len') % Cap
  <2>1. (((read_idx + 1) % Cap) + (len - 1)) % Cap = (read_idx + (len - 1) + 1) % Cap
    BY <1>1, Turn
  <2>2. read_idx + (len - 1) + 1 = read_idx + len
    BY <1>1 DEF Place
  <2> QED
    BY <1>1, <2>1, <2>2 DEF RingInv, RingFilled
<1>3. \A k \in 1..(len - 1) : Slot(k)' = Slot(k + 1)
  <2> TAKE k \in 1..(len - 1)
  <2>1. (((read_idx + 1) % Cap) + (k - 1)) % Cap = (read_idx + (k - 1) + 1) % Cap
    BY <1>1, Turn
  <2>2. /\ read_idx + (k - 1) + 1 = read_idx + (k + 1) - 1
        /\ ((read_idx + 1) % Cap) + (k - 1) = ((read_idx + 1) % Cap) + k - 1
    BY <1>1, IndexTurns DEF Place
  <2> QED
    BY <1>1, <2>1, <2>2 DEF Slot
<1>4. Slot(1) = read_idx
  BY <1>1, Wrap DEF Slot, Place
<1>5. Storing' = {} /\ Reading' = {t} /\ Reading = {}
  <2>1. Storing \cup Reading \subseteq {t} /\ op[t] # "push" /\ pc[t] = "ring"
    BY Alone DEF RingInv, RingAdvance
  <2> QED
    BY <2>1 DEF RingAdvance, Goto, TypeOK, Storing, Reading
<1>6. \A k \in 1..(len - 1) : At(k)' = At(k + 1)
  BY <1>1, <1>3 DEF At
<1>7. Read(t)' = At(1) /\ At(1) \in Item
  BY <1>1, <1>4 DEF Read, At, RingInv, RingFilled
<1>8. \A k \in 1..len' : At(k)' \in Item
  BY <1>1, <1>6 DEF RingInv, RingFilled, At
<1> QED
  BY <1>1, <1>2, <1>5, <1>6, <1>7, <1>8 DEF RingFilled, At, Read

\* The steps that do not touch the ring.
Away(t) ==
  \/ CallPush(t) \/ CallPop(t) \/ CallTryPop(t) \/ OtherCalls(t)
  \/ WaitPush(t) \/ WaitPop(t) \/ WaitExpires(t)
  \/ TryFails(t) \/ TryMisread(t) \/ TrySucceeds(t)
  \/ Lock(t) \/ LockExpires(t) \/ RingRead(t)
  \/ Unlock(t) \/ PostPush(t) \/ PostPop(t)

LEMMA AwayFrame ==
  ASSUME TypeOK, NEW t \in Thread, Away(t)
  PROVE  /\ UNCHANGED ring /\ pc'[t] # "index"
         /\ \A u \in Thread \ {t} : pc'[u] = pc[u] /\ op'[u] = op[u]
                                 /\ hand'[u] = hand[u] /\ old_idx'[u] = old_idx[u]
<1> USE DEF TypeOK, Goto, Return, Call
<1>1. CASE CallPush(t) \/ CallPop(t) \/ CallTryPop(t) \/ OtherCalls(t)
  BY <1>1 DEF CallPush, CallPop, CallTryPop, OtherCalls
<1>2. CASE WaitPush(t) \/ WaitPop(t) \/ WaitExpires(t)
  BY <1>2 DEF WaitPush, WaitPop, WaitExpires
<1>3. CASE TryFails(t) \/ TryMisread(t) \/ TrySucceeds(t)
  BY <1>3 DEF TryFails, TryMisread, TrySucceeds
<1>4. CASE Lock(t) \/ LockExpires(t) \/ RingRead(t) \/ Unlock(t)
  BY <1>4 DEF Lock, LockExpires, RingRead, Unlock
<1>5. CASE PostPush(t) \/ PostPop(t)
  BY <1>5 DEF PostPush, PostPop
<1> QED
  BY <1>1, <1>2, <1>3, <1>4, <1>5 DEF Away

LEMMA NextRing ==
  TypeOK /\ PermitsAccount /\ RingInv /\ [Next]_vars => RingInv'
<1> SUFFICES ASSUME TypeOK, PermitsAccount, RingInv, [Next]_vars PROVE RingInv'
  OBVIOUS
<1>1. ASSUME NEW t \in Thread, Step(t) PROVE RingInv'
  <2>1. MutexHeld' /\ HandsFull'
    BY <1>1, MutexKept, HandsKept DEF RingInv
  <2>2. CASE Away(t)
    BY <2>1, <2>2, AwayFrame, SameRing DEF RingInv
  <2>3. CASE RingStore(t)
    BY <2>1, <2>3, StoreFills DEF RingInv
  <2>4. CASE RingStored(t)
    BY <2>1, <2>4, StoredFills DEF RingInv
  <2>5. CASE RingAdvance(t)
    <3>1. len > 0
      BY <2>5 DEF RingAdvance
    <3> QED
      BY <2>1, <2>5, <3>1, AdvanceFills DEF RingInv
  <2> QED
    BY <1>1, <2>2, <2>3, <2>4, <2>5 DEF Step, Away
<1>2. CASE UNCHANGED vars
  BY <1>2 DEF vars, ring, RingInv, MutexHeld, HandsFull, HasPointer, RingFilled, Slot,
              Storing, Reading
<1> QED
  BY <1>1, <1>2 DEF Next

-----------------------------------------------------------------------------
\* Ownership: a pointer is never in two places, and is always in one.
Disjoint ==
  /\ \A j, k \in 1..len : At(j) = At(k) => j = k
  /\ \A t, u \in Thread : hand[t] \in Item /\ hand[t] = hand[u] => t = u
  /\ \A k \in 1..len, t \in Thread : At(k) # hand[t]
  /\ \A t \in Thread : hand[t] \notin owned
  /\ \A k \in 1..len : At(k) \notin owned
  /\ \A t \in Reading :
       /\ Read(t) \notin owned
       /\ \A k \in 1..len : At(k) # Read(t)
       /\ \A u \in Thread : hand[u] # Read(t)

Somewhere(x) ==
  \/ x \in owned
  \/ \E k \in 1..len : At(k) = x
  \/ \E t \in Thread : hand[t] = x
  \/ \E t \in Reading : Read(t) = x

Owned == Disjoint /\ \A x \in Item : Somewhere(x)

\* The ring and its reader stay as they are.
SameContents ==
  /\ len' = len /\ Reading' = Reading
  /\ \A k \in 1..len : At(k)' = At(k)
  /\ \A t \in Reading : Read(t)' = Read(t)

LEMMA SameOwned ==
  ASSUME Owned, SameContents, hand' = hand, owned' = owned
  PROVE  Owned'
<1> USE DEF SameContents
<1>1. Disjoint'
  BY DEF Owned, Disjoint
<1>2. \A x \in Item : Somewhere(x)'
  BY DEF Owned, Somewhere
<1> QED
  BY <1>1, <1>2 DEF Owned

\* A pointer goes from its owner into a call,
LEMMA CallOwned ==
  ASSUME TypeOK, RingFilled, Owned, SameContents, NEW t \in Thread, NEW x \in owned,
         hand[t] = NoItem, hand' = [hand EXCEPT ![t] = x], owned' = owned \ {x}
  PROVE  Owned'
<1> USE DEF SameContents
<1>1. x \in Item /\ hand'[t] = x /\ \A u \in Thread \ {t} : hand'[u] = hand[u]
  BY DEF TypeOK
<1>2. Disjoint'
  BY <1>1 DEF Owned, Disjoint
<1>3. \A y \in Item : Somewhere(y)'
  BY <1>1 DEF Owned, Somewhere
<1> QED
  BY <1>2, <1>3 DEF Owned

\* and from the call that hands it back to the thread.
LEMMA ReturnOwned ==
  ASSUME TypeOK, RingFilled, Owned, SameContents, NEW t \in Thread,
         hand' = [hand EXCEPT ![t] = NoItem],
         owned' = owned \cup ({hand[t]} \ {NoItem})
  PROVE  Owned'
<1> USE DEF SameContents
<1>1. /\ hand'[t] = NoItem /\ \A u \in Thread \ {t} : hand'[u] = hand[u]
      /\ hand[t] \in Item \cup {NoItem} /\ NoItem \notin owned
  BY DEF TypeOK
<1>2. \A k \in 1..len : At(k) # NoItem
  BY DEF RingFilled, At
<1>3. \A u \in Reading : Read(u) # NoItem
  BY DEF RingFilled, Read
<1>4. Disjoint'
  <2> USE DEF Owned, Disjoint
  <2>1. \A k \in 1..len, u \in Thread : At(k)' # hand'[u]
    BY <1>1, <1>2
  <2>2. \A u, v \in Thread : hand'[u] \in Item /\ hand'[u] = hand'[v] => u = v
    BY <1>1
  <2>3. \A u \in Thread : hand'[u] \notin owned'
    BY <1>1
  <2>4. \A k \in 1..len : At(k)' \notin owned'
    BY <1>1
  <2>5. \A u \in Reading :
          /\ Read(u)' \notin owned'
          /\ \A k \in 1..len : At(k)' # Read(u)'
          /\ \A v \in Thread : hand'[v] # Read(u)'
    BY <1>1, <1>3
  <2>6. \A j, k \in 1..len : At(j)' = At(k)' => j = k
    OBVIOUS
  <2> QED
    BY <2>1, <2>2, <2>3, <2>4, <2>5, <2>6
<1>5. \A y \in Item : Somewhere(y)'
  BY <1>1 DEF Owned, Somewhere
<1> QED
  BY <1>4, <1>5 DEF Owned

\* It goes from the call that stores it behind those that wait,
LEMMA StoredOwned ==
  ASSUME TypeOK, PermitsAccount, RingInv, Owned, NEW t \in Thread, RingStored(t)
  PROVE  Owned'
<1>1. /\ len \in Nat /\ len' = len + 1 /\ Reading' = {} /\ Reading = {}
      /\ \A k \in 1..len : At(k)' = At(k)
      /\ \A k \in {len + 1} : At(k)' = hand[t]
      /\ hand[t] \in Item
  BY StoredFills DEF TypeOK
<1>2. /\ hand'[t] = NoItem /\ \A u \in Thread \ {t} : hand'[u] = hand[u]
      /\ owned' = owned /\ owned \subseteq Item
  BY DEF RingStored, TypeOK
<1>3. \A k \in 1..len' : At(k)' \in Item
  BY <1>1 DEF RingInv, RingFilled, At
<1>4. Disjoint'
  <2> USE DEF Owned, Disjoint
  <2>1. \A j, k \in 1..len' : At(j)' = At(k)' => j = k
    BY <1>1
  <2>2. \A k \in 1..len', u \in Thread : At(k)' # hand'[u]
    BY <1>1, <1>2, <1>3
  <2>3. \A u, v \in Thread : hand'[u] \in Item /\ hand'[u] = hand'[v] => u = v
    BY <1>2
  <2>4. \A u \in Thread : hand'[u] \notin owned'
    BY <1>2
  <2>5. \A k \in 1..len' : At(k)' \notin owned'
    BY <1>1, <1>2
  <2> QED
    BY <1>1, <2>1, <2>2, <2>3, <2>4, <2>5
<1>5. \A x \in Item : Somewhere(x)'
  <2> SUFFICES ASSUME NEW x \in Item PROVE Somewhere(x)'
    OBVIOUS
  <2>1. Somewhere(x) /\ 1..len' = 1..len \cup {len + 1}
    BY <1>1 DEF Owned
  <2>2. CASE hand[t] = x
    BY <1>1, <2>1, <2>2 DEF Somewhere
  <2>3. CASE hand[t] # x
    BY <1>1, <1>2, <2>1, <2>3 DEF Somewhere
  <2> QED
    BY <2>2, <2>3
<1> QED
  BY <1>4, <1>5 DEF Owned

\* from the first place of the ring to the thread that reads it,
LEMMA AdvanceOwned ==
  ASSUME TypeOK, PermitsAccount, RingInv, Owned, NEW t \in Thread, RingAdvance(t)
  PROVE  Owned'
<1>1. /\ len \in Nat /\ len > 0 /\ len' = len - 1 /\ Reading = {} /\ Reading' = {t}
      /\ \A k \in 1..(len - 1) : At(k)' = At(k + 1)
      /\ Read(t)' = At(1) /\ hand' = hand /\ owned' = owned
  <2>1. len > 0
    BY DEF RingAdvance
  <2> QED
    BY <2>1, AdvanceFills DEF TypeOK, RingAdvance
<1>2. Disjoint'
  <2> USE DEF Owned, Disjoint
  <2>1. \A j, k \in 1..len' : At(j)' = At(k)' => j = k
    BY <1>1
  <2>2. /\ \A k \in 1..len', u \in Thread : At(k)' # hand'[u]
        /\ \A k \in 1..len' : At(k)' \notin owned' /\ At(k)' # Read(t)'
    BY <1>1
  <2>3. Read(t)' \notin owned' /\ \A u \in Thread : hand'[u] # Read(t)'
    BY <1>1
  <2> QED
    BY <1>1, <2>1, <2>2, <2>3
<1>3. \A x \in Item : Somewhere(x)'
  <2> SUFFICES ASSUME NEW x \in Item PROVE Somewhere(x)'
    OBVIOUS
  <2>1. Somewhere(x)
    BY DEF Owned
  <2>2. ASSUME NEW k \in 1..len, At(k) = x PROVE Somewhere(x)'
    <3>1. CASE k = 1
      BY <1>1, <2>2, <3>1 DEF Somewhere
    <3>2. CASE k # 1
      <4>1. k - 1 \in 1..len' /\ At(k - 1)' = x
        <5>1. k - 1 \in 1..(len - 1) /\ (k - 1) + 1 = k
          BY <1>1, <3>2
        <5> QED
          BY <1>1, <2>2, <5>1
      <4> QED
        BY <4>1 DEF Somewhere
    <3> QED
      BY <3>1, <3>2
  <2> QED
    BY <1>1, <2>1, <2>2 DEF Somewhere
<1> QED
  BY <1>2, <1>3 DEF Owned

\* and from there into that thread's hand.
LEMMA ReadOwned ==
  ASSUME TypeOK, RingInv, Owned, NEW t \in Thread, RingRead(t)
  PROVE  Owned'
<1>1. /\ UNCHANGED ring /\ len' = len /\ owned' = owned
      /\ \A u \in Thread \ {t} : hand'[u] = hand[u]
      /\ hand'[t] = Read(t)
  BY AwayFrame DEF Away, RingRead, TypeOK, ring, Read
<1>2. \A k \in 1..len : At(k)' = At(k)
  BY <1>1, SameRing, AwayFrame DEF Away, RingInv
<1>3. Reading = {t} /\ Reading' = {} /\ hand[t] \notin Item
  BY Alone DEF RingInv, RingRead, HandsFull, HasPointer, Reading, Goto, TypeOK
<1>4. Disjoint'
  <2> USE DEF Owned, Disjoint
  <2>1. \A k \in 1..len', u \in Thread : At(k)' # hand'[u]
    BY <1>1, <1>2, <1>3
  <2>2. \A u, v \in Thread : hand'[u] \in Item /\ hand'[u] = hand'[v] => u = v
    BY <1>1, <1>3
  <2>3. \A u \in Thread : hand'[u] \notin owned'
    BY <1>1, <1>3
  <2> QED
    BY <1>1, <1>2, <1>3, <2>1, <2>2, <2>3
<1>5. \A x \in Item : Somewhere(x)'
  BY <1>1, <1>2, <1>3 DEF Owned, Somewhere
<1> QED
  BY <1>4, <1>5 DEF Owned

LEMMA InitOwned == Init => Owned
BY DEF Init, Owned, Disjoint, Somewhere, Reading

\* What the other steps do with the pointers: nothing, or the two moves between
\* an owner and a call.
LEMMA AwayOwned ==
  ASSUME TypeOK, RingInv, Owned, NEW t \in Thread, Away(t), ~RingRead(t)
  PROVE  Owned'
<1>1. SameContents
  <2>1. /\ UNCHANGED ring /\ pc'[t] # "index"
        /\ \A u \in Thread \ {t} : pc'[u] = pc[u] /\ op'[u] = op[u] /\ old_idx'[u] = old_idx[u]
    BY AwayFrame
  <2>2. \A k \in 1..len : At(k)' = At(k)
    BY <2>1, SameRing, AwayFrame DEF RingInv
  <2>3. pc[t] # "index"
    BY DEF Away, CallPush, CallPop, CallTryPop, Call, OtherCalls, WaitPush, WaitPop,
           WaitExpires, TryFails, TryMisread, TrySucceeds, Lock, LockExpires, Unlock,
           PostPush, PostPop
  <2>4. Reading' = Reading /\ \A u \in Reading : u # t
    BY <2>1, <2>3 DEF Reading
  <2>5. \A u \in Reading : Read(u)' = Read(u)
    BY <2>1, <2>4 DEF Read, ring, Reading
  <2> QED
    BY <2>1, <2>2, <2>4, <2>5 DEF SameContents, ring
<1>2. hand[t] \in Item <=> HasPointer(t)
  BY DEF RingInv, HandsFull
<1>3. RingFilled /\ hand \in [Thread -> Item \cup {NoItem}] /\ owned \subseteq Item
  BY DEF RingInv, TypeOK
<1>4. CASE CallPush(t)
  <2>1. PICK x \in owned : Call(t, "push", x)
    BY <1>4 DEF CallPush
  <2>2. hand[t] = NoItem
    BY <1>2, <1>3, <2>1 DEF HasPointer, Call
  <2> QED
    BY <1>1, <1>3, <2>1, <2>2, CallOwned DEF Call
<1>5. CASE CallPop(t) \/ CallTryPop(t)
  <2>1. hand[t] = NoItem
    BY <1>2, <1>3, <1>5 DEF HasPointer, CallPop, CallTryPop, Call
  <2>2. hand' = hand /\ owned' = owned
    BY <1>3, <1>5, <2>1 DEF CallPop, CallTryPop, Call
  <2> QED
    BY <1>1, <2>2, SameOwned
<1>6. CASE WaitExpires(t) \/ PostPop(t)
  BY <1>1, <1>3, <1>6, ReturnOwned DEF WaitExpires, PostPop, Return
<1>7. CASE TryFails(t) \/ TryMisread(t) \/ PostPush(t)
  <2>1. hand[t] = NoItem
    BY <1>2, <1>3, <1>7 DEF HasPointer, TryFails, TryMisread, PostPush
  <2>2. hand' = hand /\ owned' = owned
    BY <1>3, <1>7, <2>1 DEF TryFails, TryMisread, PostPush, Return
  <2> QED
    BY <1>1, <2>2, SameOwned
<1>8. CASE \/ OtherCalls(t) \/ WaitPush(t) \/ WaitPop(t) \/ TrySucceeds(t)
           \/ Lock(t) \/ LockExpires(t) \/ Unlock(t)
  <2>1. hand' = hand /\ owned' = owned
    BY <1>8 DEF OtherCalls, WaitPush, WaitPop, TrySucceeds, Lock, LockExpires, Unlock
  <2> QED
    BY <1>1, <2>1, SameOwned
<1> QED
  BY <1>4, <1>5, <1>6, <1>7, <1>8 DEF Away

LEMMA NextOwned ==
  TypeOK /\ PermitsAccount /\ RingInv /\ Owned /\ [Next]_vars => Owned'
<1> SUFFICES ASSUME TypeOK, PermitsAccount, RingInv, Owned, [Next]_vars PROVE Owned'
  OBVIOUS
<1>1. ASSUME NEW t \in Thread, Step(t) PROVE Owned'
  <2>1. CASE Away(t) /\ ~RingRead(t)
    BY <2>1, AwayOwned
  <2>2. CASE RingStore(t)
    <3>1. Reading = {} /\ Reading' = {}
      BY <2>2, Alone DEF RingInv, RingStore, Goto, TypeOK, Reading
    <3>2. SameContents /\ hand' = hand /\ owned' = owned
      BY <2>2, <3>1, StoreFills DEF SameContents, RingStore
    <3> QED
      BY <3>2, SameOwned
  <2> QED
    BY <1>1, <2>1, <2>2, StoredOwned, AdvanceOwned, ReadOwned DEF Step, Away
<1>2. CASE UNCHANGED vars
  <2>1. SameContents
    BY <1>2 DEF vars, ring, SameContents, Reading, At, Slot, Read
  <2> QED
    BY <1>2, <2>1, SameOwned DEF vars
<1> QED
  BY <1>1, <1>2 DEF Next

\* Of the four places, each in its own set, one has the pointer.
LEMMA OwnedOnce ==
  ASSUME TypeOK, MutexHeld, Owned
  PROVE  OneOwner
<1> SUFFICES ASSUME NEW x \in Item
             PROVE  Cardinality({k \in 1..len : Waiting[k] = x})
                      + Cardinality({t \in Thread : hand[t] = x})
                      + Cardinality({t \in Reading : ptrs[old_idx[t]] = x})
                      + (IF x \in owned THEN 1 ELSE 0) = 1
  BY DEF OneOwner
<1> DEFINE W == {k \in 1..len : Waiting[k] = x}
           H == {t \in Thread : hand[t] = x}
           R == {t \in Reading : ptrs[old_idx[t]] = x}
<1>1. W = {k \in 1..len : At(k) = x} /\ R = {t \in Reading : Read(t) = x}
  BY DEF Waiting, At, Slot, Read
<1>2. Somewhere(x) /\ Disjoint
  BY DEF Owned
<1>3. \A t, u \in Reading : t = u
  BY DEF MutexHeld, Reading
<1>4. \A k \in W : W = {k} /\ H = {} /\ R = {} /\ x \notin owned
  BY <1>1, <1>2 DEF Disjoint
<1>5. \A t \in H : W = {} /\ H = {t} /\ R = {} /\ x \notin owned
  BY <1>1, <1>2 DEF Disjoint
<1>6. \A t \in R : W = {} /\ H = {} /\ R = {t} /\ x \notin owned
  BY <1>1, <1>2, <1>3 DEF Disjoint
<1>7. W # {} \/ H # {} \/ R # {} \/ x \in owned
  BY <1>1, <1>2 DEF Somewhere
<1> HIDE DEF W, H, R
<1>8. Cardinality({}) = 0 /\ \A y : Cardinality({y}) = 1
  BY FS_EmptySet, FS_Singleton
<1>9. Cardinality(W) + Cardinality(H) + Cardinality(R) + (IF x \in owned THEN 1 ELSE 0) = 1
  <2>1. CASE W # {}
    <3>1. PICK k \in W : TRUE
      BY <2>1
    <3>2. Cardinality(W) = 1 /\ H = {} /\ R = {} /\ x \notin owned
      BY <1>4, <1>8, <3>1
    <3> QED
      BY <1>8, <3>2
  <2>2. CASE H # {}
    <3>1. PICK t \in H : TRUE
      BY <2>2
    <3>2. Cardinality(H) = 1 /\ W = {} /\ R = {} /\ x \notin owned
      BY <1>5, <1>8, <3>1
    <3> QED
      BY <1>8, <3>2
  <2>3. CASE R # {}
    <3>1. PICK t \in R : TRUE
      BY <2>3
    <3>2. Cardinality(R) = 1 /\ W = {} /\ H = {} /\ x \notin owned
      BY <1>6, <1>8, <3>1
    <3> QED
      BY <1>8, <3>2
  <2>4. CASE W = {} /\ H = {} /\ R = {}
    BY <1>7, <1>8, <2>4
  <2> QED
    BY <2>1, <2>2, <2>3, <2>4
<1> QED
  BY <1>9 DEF W, H, R

RingAlways == TypeOK /\ PermitsAccount /\ RingInv /\ Owned

LEMMA RingInvariant == Spec => []RingAlways
<1>1. Init => RingAlways
  BY InitType, InitAccount, InitRing, InitOwned DEF RingAlways
<1>2. RingAlways /\ [Next]_vars => RingAlways'
  BY NextType, NextAccount, NextRing, NextOwned DEF RingAlways
<1> QED
  BY <1>1, <1>2, PTL DEF Spec

\* OneOwner, for any threads, capacity and timeouts: "ownership of buf is passed
\* to fifo" by a push, "taken from fifo" by a pop, and kept by the caller of a
\* push that times out.  No pointer is lost, none has two owners.
THEOREM NoPointerLost == Spec => []OneOwner
<1>1. RingAlways => OneOwner
  BY OwnedOnce DEF RingAlways, RingInv
<1> QED
  BY <1>1, RingInvariant, PTL

-----------------------------------------------------------------------------
\* The refinement: a store appends, a read takes the first, and no other step
\* of any thread is seen by the queue.

LEMMA WaitingIs ==
  ASSUME TypeOK, RingFilled
  PROVE  /\ Waiting = [k \in 1..len |-> At(k)]
         /\ Waiting \in Seq(Item) /\ Len(Waiting) = len
         /\ \A k \in 1..len : Waiting[k] = At(k)
<1>1. Waiting = [k \in 1..len |-> At(k)]
  BY DEF Waiting, At, Slot
<1>2. len \in Nat /\ \A k \in 1..len : At(k) \in Item
  BY DEF TypeOK, RingFilled, At
<1> QED
  BY <1>1, <1>2

LEMMA WaitingStays ==
  ASSUME TypeOK, len' = len, \A k \in 1..len : At(k)' = At(k)
  PROVE  Waiting' = Waiting
BY DEF Waiting, At, Slot

LEMMA StoredPuts ==
  ASSUME RingAlways, RingAlways', NEW t \in Thread, RingStored(t)
  PROVE  Queue!Next
<1>1. /\ len \in Nat /\ len' = len + 1 /\ hand[t] \in Item
      /\ \A k \in 1..len : At(k)' = At(k)
      /\ \A k \in {len + 1} : At(k)' = hand[t]
  BY StoredFills DEF RingAlways, TypeOK
<1>2. len < Cap
  BY LenBounds DEF RingAlways, RingStored
<1>3. /\ Waiting \in Seq(Item) /\ Len(Waiting) = len
      /\ \A k \in 1..len : Waiting[k] = At(k)
  BY WaitingIs DEF RingAlways, RingInv
<1>4. Waiting' = [k \in 1..(len + 1) |-> IF k = len + 1 THEN hand[t] ELSE Waiting[k]]
  <2>1. Waiting' = [k \in 1..len' |-> At(k)']
    BY DEF Waiting, At, Slot
  <2>2. \A k \in 1..len' : At(k)' = IF k = len + 1 THEN hand[t] ELSE Waiting[k]
    BY <1>1, <1>3
  <2> QED
    BY <1>1, <2>1, <2>2
<1>5. Waiting' = Append(Waiting, hand[t])
  BY <1>1, <1>3, <1>4
<1>6. \A k \in 1..Len(Waiting) : Waiting[k] # hand[t]
  BY <1>3 DEF RingAlways, Owned, Disjoint
<1> QED
  BY <1>1, <1>2, <1>3, <1>5, <1>6 DEF Queue!Next, Queue!Put

LEMMA AdvanceTakes ==
  ASSUME RingAlways, RingAlways', NEW t \in Thread, RingAdvance(t)
  PROVE  Queue!Next
<1>1. /\ len \in Nat /\ len > 0 /\ len' = len - 1
      /\ \A k \in 1..(len - 1) : At(k)' = At(k + 1)
  <2>1. len > 0
    BY DEF RingAdvance
  <2> QED
    BY <2>1, AdvanceFills DEF RingAlways, TypeOK
<1>2. /\ Waiting \in Seq(Item) /\ Len(Waiting) = len
      /\ \A k \in 1..len : Waiting[k] = At(k)
  BY WaitingIs DEF RingAlways, RingInv
<1>3. Waiting' = [k \in 1..(len - 1) |-> Waiting[k + 1]]
  <2>1. Waiting' = [k \in 1..len' |-> At(k)']
    BY DEF Waiting, At, Slot
  <2>2. \A k \in 1..len' : At(k)' = Waiting[k + 1]
    BY <1>1, <1>2
  <2> QED
    BY <1>1, <2>1, <2>2
<1>4. Waiting # <<>>
  BY <1>1, <1>2
<1>5. Waiting' = Tail(Waiting)
  <2> DEFINE left == [k \in 1..(len - 1) |-> Waiting[k + 1]]
  <2>1. \A k \in 1..(len - 1) : Waiting[k + 1] \in Item
    BY <1>1, <1>2
  <2>2. /\ left \in Seq(Item) /\ Len(left) = len - 1
        /\ \A k \in 1..(len - 1) : left[k] = Waiting[k + 1]
    BY <1>1, <2>1
  <2>3. /\ Tail(Waiting) \in Seq(Item) /\ Len(Tail(Waiting)) = len - 1
        /\ \A k \in 1..(len - 1) : Tail(Waiting)[k] = Waiting[k + 1]
    BY <1>2, <1>4, HeadTailProperties
  <2> HIDE DEF left
  <2>4. left = Tail(Waiting)
    BY <2>2, <2>3, SeqEqual
  <2> QED
    BY <1>3, <2>4 DEF left
<1> QED
  BY <1>4, <1>5 DEF Queue!Next, Queue!Take

\* IsAQueue: the ring, its mutex and its semaphores implement a bounded queue
\* that never holds a pointer twice, for any threads, capacity and timeouts.
THEOREM FifoIsAQueue == Spec => IsAQueue
<1>1. Init => Queue!Init
  BY DEF Init, Queue!Init, Waiting
<1>2. RingAlways /\ RingAlways' /\ [Next]_vars => [Queue!Next]_Waiting
  <2> SUFFICES ASSUME RingAlways, RingAlways', [Next]_vars PROVE [Queue!Next]_Waiting
    OBVIOUS
  <2>1. ASSUME NEW t \in Thread, Away(t) PROVE Waiting' = Waiting
    BY <2>1, AwayFrame, SameRing, WaitingStays DEF RingAlways, RingInv, ring
  <2>2. ASSUME NEW t \in Thread, RingStore(t) PROVE Waiting' = Waiting
    BY <2>2, StoreFills, WaitingStays DEF RingAlways, RingStore
  <2>3. CASE UNCHANGED vars
    BY <2>3 DEF vars, ring, Waiting
  <2> QED
    BY <2>1, <2>2, <2>3, StoredPuts, AdvanceTakes DEF Next, Step, Away
<1> QED
  BY <1>1, <1>2, RingInvariant, PTL DEF Spec, IsAQueue, Queue!Spec
=============================================================================
