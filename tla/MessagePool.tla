----------------------------- MODULE MessagePool -----------------------------
(***************************************************************************)
(* connection/server/message_pool.c: the buffers datagrams are copied to.  *)
(*                                                                         *)
(* A fixed set of slots is handed out from a stack under pool->lock.  When *)
(* the stack is empty a buffer is allocated from the heap, and an atomic   *)
(* counter taken outside the lock limits how many of those are            *)
(* outstanding, so an acquire that finds the stack empty takes several     *)
(* steps between which other threads run.                                  *)
(***************************************************************************)
EXTENDS Naturals, Sequences, FiniteSets

CONSTANTS Slots,        \* the buffers of pool->storage (1024)
          Heap,         \* addresses malloc may return
          MaxFallback,  \* KRS_MESSAGE_POOL_MAX_FALLBACK (1024)
          IoThreads     \* the threads that acquire buffers

ASSUME PoolAssumption ==
    /\ IsFiniteSet(Slots) /\ IsFiniteSet(Heap) /\ IsFiniteSet(IoThreads)
    /\ Slots \cap Heap = {}
    /\ MaxFallback \in Nat

VARIABLES free_stack,   \* the free slots, top of the stack last
          live,         \* heap buffers allocated and not yet freed
          outstanding,  \* outstanding_fallback_count
          acq           \* how far a thread is inside krs_message_pool_acquire

pvars == <<free_stack, live, outstanding, acq>>

\* krs_message_pool_create fills the stack in storage order; any order is as good.
PInit ==
    /\ free_stack \in [1 .. Cardinality(Slots) -> Slots]
    /\ \A i, j \in 1 .. Cardinality(Slots) : free_stack[i] = free_stack[j] => i = j
    /\ live = {}
    /\ outstanding = 0
    /\ acq = [t \in IoThreads |-> "none"]
-----------------------------------------------------------------------------
(* krs_message_pool_acquire.                                               *)

\* The stack has a slot: pop it.
AcquireSlot(t, b) ==
    /\ acq[t] = "none"
    /\ free_stack # <<>>
    /\ b = free_stack[Len(free_stack)]
    /\ free_stack' = SubSeq(free_stack, 1, Len(free_stack) - 1)
    /\ UNCHANGED <<live, outstanding, acq>>

\* The stack is empty: leave the lock and try the heap.
AcquireEmpty(t) ==
    /\ acq[t] = "none"
    /\ free_stack = <<>>
    /\ acq' = [acq EXCEPT ![t] = "count"]
    /\ UNCHANGED <<free_stack, live, outstanding>>

\* Mutant of OverLimit: the value before the increment is compared.
OverLimitOffByOne == outstanding > MaxFallback

\* The incremented counter is above the limit.
OverLimit == outstanding + 1 > MaxFallback

\* InterlockedIncrement64 and the test of the value it returns.
AcquireCount(t) ==
    /\ acq[t] = "count"
    /\ outstanding' = outstanding + 1
    /\ acq' = [acq EXCEPT ![t] = IF OverLimit THEN "undo" ELSE "malloc"]
    /\ UNCHANGED <<free_stack, live>>

AcquireMalloc(t, b) ==
    /\ acq[t] = "malloc"
    /\ b \in Heap \ live
    /\ live' = live \cup {b}
    /\ acq' = [acq EXCEPT ![t] = "none"]
    /\ UNCHANGED <<free_stack, outstanding>>

\* malloc returns NULL.
AcquireNoMemory(t) ==
    /\ acq[t] = "malloc"
    /\ acq' = [acq EXCEPT ![t] = "undo"]
    /\ UNCHANGED <<free_stack, live, outstanding>>

\* Mutant of AcquireUndo: the counter keeps the refused attempt.
AcquireUndoForgets(t) ==
    /\ acq[t] = "undo"
    /\ acq' = [acq EXCEPT ![t] = "none"]
    /\ UNCHANGED <<free_stack, live, outstanding>>

\* InterlockedDecrement64, then NULL is returned.
AcquireUndo(t) ==
    /\ acq[t] = "undo"
    /\ outstanding' = outstanding - 1
    /\ acq' = [acq EXCEPT ![t] = "none"]
    /\ UNCHANGED <<free_stack, live>>
-----------------------------------------------------------------------------
\* The slots among the first i of the buffers bs, in the order of bs: what
\* releasing these i buffers one after the other pushes on the free stack.
Pushed(bs) ==
    LET pushed[i \in 0 .. Len(bs)] ==
            IF i = 0 THEN <<>>
            ELSE IF bs[i] \in Slots THEN Append(pushed[i - 1], bs[i])
            ELSE pushed[i - 1]
    IN  pushed

\* krs_message_pool_release of the buffers in sequence bs, in that order.
\* Freeing a heap buffer and the decrement that follows are one step: no
\* other thread can tell a free before its decrement from one at it.
ReleaseAll(bs) ==
    LET slots == Pushed(bs)[Len(bs)]
        freed == {bs[i] : i \in 1 .. Len(bs)} \ Slots
    IN  /\ free_stack' = free_stack \o slots
        /\ live' = live \ freed
        /\ outstanding' = outstanding - (Len(bs) - Len(slots))
        /\ UNCHANGED acq

\* Mutant of Release: a path that releases a buffer another one released.
ReleaseTwice(b) == ReleaseAll(<<b, b>>)

Release(b) == ReleaseAll(<<b>>)
-----------------------------------------------------------------------------
\* The limit on heap buffers is kept however acquires and releases of
\* different threads interleave around the unlocked counter.
FallbackBounded == Cardinality(live) <= MaxFallback

\* The counter is exact: it is the number of live heap buffers plus the
\* acquires that have counted themselves and not yet allocated or undone.
FallbackExact ==
    outstanding = Cardinality(live) + Cardinality({t \in IoThreads : acq[t] \in {"malloc", "undo"}})
=============================================================================
