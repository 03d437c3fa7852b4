------------------------------ MODULE PtrFifo -------------------------------
(***************************************************************************)
(* src/archive/emd/src/base.c, struct ptr_fifo: the bounded channel of the  *)
(* archive's threads.  Two semaphores count the free and the filled places, *)
(* a mutex with a deadline guards the ring.  Every step below is what one   *)
(* thread does between two points at which another may run; the operations  *)
(* of the ring take two steps, so that only the mutex makes them whole.     *)
(***************************************************************************)
EXTENDS Integers, FiniteSets

CONSTANTS
  Pusher,    \* threads that call ptr_fifo_push
  Popper,    \* threads that call ptr_fifo_pop
  TryPopper, \* threads that call ptr_fifo_try_pop
  Patience,  \* the timeout_sec each thread passes; 0 waits for ever
  Item,      \* pointers
  Cap,       \* capacity of the ring
  NoThread, NoItem

Thread == Pusher \cup Popper \cup TryPopper

ASSUME PtrFifoAssumption ==
  /\ Cap \in Nat \ {0}
  /\ IsFiniteSet(Thread)
  /\ Patience \in [Thread -> Nat]
  /\ NoThread \notin Thread /\ NoItem \notin Item

VARIABLES
  pc,      \* where the thread is in its call
  op,      \* the function it is in: "push", "pop" or "try"
  hand,    \* the pointer it pushes or has popped
  old_idx, \* its local of unsafe_ptr_fifo_pop, 0 outside
  errno,   \* the errno of the threads that ask it: EAGAIN or another value
  push,    \* semaphore of the free places
  pop,     \* semaphore of the filled places
  mu,      \* holder of the mutex
  ptrs, len, read_idx, write_idx,   \* the ring
  \* History variables.
  owned,   \* pointers that threads own outside their calls
  lost     \* permits of `pop` that a try_pop took and dropped

ring == <<ptrs, len, read_idx, write_idx>>
vars == <<pc, op, hand, old_idx, errno, push, pop, mu, ring, owned, lost>>

Place == 0..(Cap - 1)

TypeOK ==
  /\ pc \in [Thread -> {"idle", "wait", "lock", "ring", "index", "unlock",
                        "post", "panic"}]
  /\ op \in [Thread -> {"push", "pop", "try"}]
  /\ hand \in [Thread -> Item \cup {NoItem}]
  /\ old_idx \in [Thread -> Place]
  /\ errno \in [TryPopper -> {"EAGAIN", "other"}]
  /\ push \in Nat /\ pop \in Nat /\ len \in Nat /\ lost \in Nat
  /\ mu \in Thread \cup {NoThread}
  /\ ptrs \in [Place -> Item \cup {NoItem}]
  /\ read_idx \in Place /\ write_idx \in Place
  /\ owned \subseteq Item

InitOneTooMany ==   \* mutant: one permit too many
  /\ pc = [t \in Thread |-> "idle"] /\ op = [t \in Thread |-> "push"]
  /\ hand = [t \in Thread |-> NoItem] /\ old_idx = [t \in Thread |-> 0]
  /\ errno = [t \in TryPopper |-> "other"]
  /\ push = Cap + 1 /\ pop = 0 /\ mu = NoThread
  /\ ptrs = [i \in Place |-> NoItem]
  /\ len = 0 /\ read_idx = 0 /\ write_idx = 0 /\ owned = Item /\ lost = 0

\* ptr_fifo_init: every place is free, none is filled.
Init ==
  /\ pc = [t \in Thread |-> "idle"]
  /\ op = [t \in Thread |-> "push"]
  /\ hand = [t \in Thread |-> NoItem]
  /\ old_idx = [t \in Thread |-> 0]
  /\ errno = [t \in TryPopper |-> "other"]
  /\ push = Cap /\ pop = 0
  /\ mu = NoThread
  /\ ptrs = [i \in Place |-> NoItem]
  /\ len = 0 /\ read_idx = 0 /\ write_idx = 0
  /\ owned = Item
  /\ lost = 0

-----------------------------------------------------------------------------
Goto(t, place) == pc' = [pc EXCEPT ![t] = place]

\* The call ends; a pointer left in the thread's hand is its own (a push that
\* failed, a pop that succeeded).
Return(t, kept) ==
  /\ Goto(t, "idle")
  /\ hand' = [hand EXCEPT ![t] = NoItem]
  /\ owned' = owned \cup kept

Call(t, f, x) ==
  /\ pc[t] = "idle"
  /\ Goto(t, "wait")
  /\ op' = [op EXCEPT ![t] = f]
  /\ hand' = [hand EXCEPT ![t] = x]
  /\ owned' = owned \ {x}
  /\ UNCHANGED <<old_idx, errno, push, pop, mu, ring, lost>>

CallPush(t) == \E x \in owned : t \in Pusher /\ Call(t, "push", x)
CallPop(t) == t \in Popper /\ Call(t, "pop", NoItem)
CallTryPop(t) == t \in TryPopper /\ Call(t, "try", NoItem)

\* The calls a thread makes elsewhere leave any errno behind, and a call that
\* succeeds resets none.
OtherCalls(t) ==
  /\ t \in TryPopper /\ pc[t] = "idle"
  /\ \E e \in {"EAGAIN", "other"} : errno' = [errno EXCEPT ![t] = e]
  /\ UNCHANGED <<pc, op, hand, old_idx, push, pop, mu, ring, owned, lost>>

\* sem_wait or sem_timedwait of ptr_fifo_push takes a permit.
WaitPush(t) ==
  /\ pc[t] = "wait" /\ op[t] = "push" /\ push > 0
  /\ push' = push - 1
  /\ Goto(t, "lock")
  /\ UNCHANGED <<op, hand, old_idx, errno, pop, mu, ring, owned, lost>>

WaitPop(t) ==
  /\ pc[t] = "wait" /\ op[t] = "pop" /\ pop > 0
  /\ pop' = pop - 1
  /\ Goto(t, "lock")
  /\ UNCHANGED <<op, hand, old_idx, errno, push, mu, ring, owned, lost>>

WaitExpiresLeaks(t) ==   \* mutant: the pointer is neither pushed nor handed back
  /\ pc[t] = "wait" /\ Patience[t] > 0
  /\ (op[t] = "push" /\ push = 0) \/ (op[t] = "pop" /\ pop = 0)
  /\ Return(t, {})
  /\ UNCHANGED <<op, old_idx, errno, push, pop, mu, ring, lost>>

\* sem_timedwait gives up: without a permit by its deadline, never before.
WaitExpires(t) ==
  /\ pc[t] = "wait" /\ Patience[t] > 0
  /\ \/ op[t] = "push" /\ push = 0
     \/ op[t] = "pop" /\ pop = 0
  /\ Return(t, {hand[t]} \ {NoItem})
  /\ UNCHANGED <<op, old_idx, errno, push, pop, mu, ring, lost>>

\* sem_trywait sets errno only when it fails, and the code asks errno alone.
TryFails(t) ==
  /\ pc[t] = "wait" /\ op[t] = "try" /\ pop = 0
  /\ errno' = [errno EXCEPT ![t] = "EAGAIN"]
  /\ Return(t, {})
  /\ UNCHANGED <<op, old_idx, push, pop, mu, ring, lost>>

TryMisread(t) ==
  /\ pc[t] = "wait" /\ op[t] = "try" /\ pop > 0 /\ errno[t] = "EAGAIN"
  /\ pop' = pop - 1
  /\ lost' = lost + 1
  /\ Return(t, {})
  /\ UNCHANGED <<op, old_idx, errno, push, mu, ring>>

TrySucceeds(t) ==
  /\ pc[t] = "wait" /\ op[t] = "try" /\ pop > 0 /\ errno[t] # "EAGAIN"
  /\ pop' = pop - 1
  /\ Goto(t, "lock")
  /\ UNCHANGED <<op, hand, old_idx, errno, push, mu, ring, owned, lost>>

LockAnyway(t) ==   \* mutant: the mutex is not waited for
  /\ pc[t] = "lock"
  /\ mu' = t
  /\ Goto(t, "ring")
  /\ UNCHANGED <<op, hand, old_idx, errno, push, pop, ring, owned, lost>>

Lock(t) ==
  /\ pc[t] = "lock" /\ mu = NoThread
  /\ mu' = t
  /\ Goto(t, "ring")
  /\ UNCHANGED <<op, hand, old_idx, errno, push, pop, ring, owned, lost>>

\* A deadline of 0 seconds has passed when pthread_mutex_timedlock looks at
\* it: a held mutex is a panic.  (The critical section never blocks, so that a
\* deadline of seconds is not taken to pass; try_pop passes 3.)  A panic sends
\* SIGTERM, which every thread has blocked, and returns: until main exits the
\* thread would go on in the ring without the mutex.  It is stopped here, so that
\* what the module shows holds up to the first panic.
LockExpires(t) ==
  /\ pc[t] = "lock" /\ mu # NoThread
  /\ op[t] # "try" /\ Patience[t] = 0
  /\ Goto(t, "panic")
  /\ UNCHANGED <<op, hand, old_idx, errno, push, pop, mu, ring, owned, lost>>

\* unsafe_ptr_fifo_push, up to the store of the pointer.
RingStore(t) ==
  /\ pc[t] = "ring" /\ op[t] = "push" /\ len < Cap
  /\ ptrs' = [ptrs EXCEPT ![write_idx] = hand[t]]
  /\ Goto(t, "index")
  /\ UNCHANGED <<op, hand, old_idx, errno, push, pop, mu, len, read_idx,
                 write_idx, owned, lost>>

\* The rest of it: the pointer is in the channel now.
RingStored(t) ==
  /\ pc[t] = "index" /\ op[t] = "push"
  /\ write_idx' = (write_idx + 1) % Cap
  /\ len' = len + 1
  /\ hand' = [hand EXCEPT ![t] = NoItem]
  /\ Goto(t, "unlock")
  /\ UNCHANGED <<op, old_idx, errno, push, pop, mu, ptrs, read_idx, owned, lost>>

\* unsafe_ptr_fifo_pop, up to the read of the pointer.
RingAdvance(t) ==
  /\ pc[t] = "ring" /\ op[t] # "push" /\ len > 0
  /\ old_idx' = [old_idx EXCEPT ![t] = read_idx]
  /\ read_idx' = (read_idx + 1) % Cap
  /\ len' = len - 1
  /\ Goto(t, "index")
  /\ UNCHANGED <<op, hand, errno, push, pop, mu, ptrs, write_idx, owned, lost>>

RingRead(t) ==
  /\ pc[t] = "index" /\ op[t] # "push"
  /\ hand' = [hand EXCEPT ![t] = ptrs[old_idx[t]]]
  /\ old_idx' = [old_idx EXCEPT ![t] = 0]
  /\ Goto(t, "unlock")
  /\ UNCHANGED <<op, errno, push, pop, mu, ring, owned, lost>>

Unlock(t) ==
  /\ pc[t] = "unlock"
  /\ mu' = NoThread
  /\ Goto(t, "post")
  /\ UNCHANGED <<op, hand, old_idx, errno, push, pop, ring, owned, lost>>

PostPush(t) ==
  /\ pc[t] = "post" /\ op[t] = "push"
  /\ pop' = pop + 1
  /\ Return(t, {})
  /\ UNCHANGED <<op, old_idx, errno, push, mu, ring, lost>>

PostPopToPop(t) ==   \* mutant: the wrong semaphore is posted
  /\ pc[t] = "post" /\ op[t] # "push"
  /\ pop' = pop + 1
  /\ Return(t, {hand[t]} \ {NoItem})
  /\ UNCHANGED <<op, old_idx, errno, push, mu, ring, lost>>

PostPop(t) ==
  /\ pc[t] = "post" /\ op[t] # "push"
  /\ push' = push + 1
  /\ Return(t, {hand[t]} \ {NoItem})
  /\ UNCHANGED <<op, old_idx, errno, pop, mu, ring, lost>>

Step(t) ==
  \/ CallPush(t) \/ CallPop(t) \/ CallTryPop(t) \/ OtherCalls(t)
  \/ WaitPush(t) \/ WaitPop(t) \/ WaitExpires(t)
  \/ TryFails(t) \/ TryMisread(t) \/ TrySucceeds(t)
  \/ Lock(t) \/ LockExpires(t)
  \/ RingStore(t) \/ RingStored(t) \/ RingAdvance(t) \/ RingRead(t)
  \/ Unlock(t) \/ PostPush(t) \/ PostPop(t)

Next == \E t \in Thread : Step(t)

Spec == Init /\ [][Next]_vars

-----------------------------------------------------------------------------
\* Threads that hold a permit of `push` (or of `pop`) whose place is still
\* free (filled), and threads that have filled (freed) a place and have not
\* posted it yet.
Entering(f) == {t \in Thread : op[t] \in f /\ pc[t] \in {"lock", "ring", "panic"}}
Storing == {t \in Thread : op[t] = "push" /\ pc[t] = "index"}
Leaving(f) == {t \in Thread : op[t] \in f /\ pc[t] \in {"unlock", "post"}}
Reading == {t \in Thread : op[t] # "push" /\ pc[t] = "index"}

Fillers == Entering({"push"}) \cup Storing
Emptiers == Leaving({"pop", "try"}) \cup Reading

\* Every place of the ring is accounted for at every step, by a permit, by a
\* thread in the middle of its call or by a permit that try_pop lost: the
\* semaphores of ptr_fifo_push and ptr_fifo_pop never drift from the ring.
PermitsAccount ==
  /\ push + len + Cardinality(Fillers) + Cardinality(Emptiers) = Cap
  /\ pop + lost + Cardinality(Entering({"pop", "try"}))
       + Cardinality(Leaving({"push"})) = len

\* A thread that has its permit and the mutex finds the ring neither full nor
\* empty: the panics of unsafe_ptr_fifo_push and unsafe_ptr_fifo_pop are dead.
RingHasRoom ==
  \A t \in Thread : pc[t] = "ring" =>
    IF op[t] = "push" THEN len < Cap ELSE len > 0

Waiting == [k \in 1..len |-> ptrs[(read_idx + k - 1) % Cap]]

\* "ownership of buf is passed to fifo", "taken from fifo": at every step each
\* pointer is in exactly one place: with an owner, in a call, or in the ring.
OneOwner ==
  \A x \in Item :
    Cardinality({k \in 1..len : Waiting[k] = x})
      + Cardinality({t \in Thread : hand[t] = x})
      + Cardinality({t \in Reading : ptrs[old_idx[t]] = x})
      + (IF x \in owned THEN 1 ELSE 0) = 1

\* The ring, the mutex and the semaphores together are a bounded queue: first
\* in, first out, never above its capacity, whoever else is in the middle of
\* a call.
Queue == INSTANCE BoundedQueue WITH queue <- Waiting
IsAQueue == Queue!Spec

\* "returns E_EMPTY if the fifo is empty": base.c:809 of ptr_fifo_try_pop.
EmptyMeansEmpty ==
  [][\A t \in Thread :
       op[t] = "try" /\ pc[t] = "wait" /\ pc'[t] = "idle" => pop = 0]_vars
=============================================================================
