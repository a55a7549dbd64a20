---------------------------- MODULE EbpfWorkQueue ----------------------------
(***************************************************************************)
(* The timed work queue of libs/runtime/ebpf_work_queue.c: a list under a  *)
(* lock that is drained by a DPC, which an insert queues at once or leaves *)
(* to a timer, or by a caller of ebpf_timed_work_queued_flush.  Each       *)
(* critical section of the lock is one action; the callback runs outside.  *)
(***************************************************************************)
EXTENDS Naturals, Sequences

CONSTANTS
    Items,      \* work items; an item is inserted again once it has run
    Callers,    \* threads that call ebpf_timed_work_queued_flush
    Dpc,        \* the work queue's DPC
    None        \* no work item

Flushers == Callers \cup {Dpc}

ASSUME WorkQueueAssumption == Dpc \notin Callers /\ None \notin Items

VARIABLES
    work_items,     \* sequence of items
    timer_armed,
    timer,          \* external: the KTIMER is set
    dpc,            \* external: the KDPC is queued
    pc,             \* of each flusher
    work_item,      \* local variable of each flusher's call
    life            \* "open", "canceled" (in destroy) or "freed"

queue == <<work_items, timer_armed, timer, dpc>>
vars == <<queue, pc, work_item, life>>

TypeOK ==
    /\ work_items \in Seq(Items)
    /\ timer_armed \in BOOLEAN /\ timer \in BOOLEAN /\ dpc \in BOOLEAN
    /\ pc \in [Flushers -> {"idle", "flush", "callback", "loop"}]
    /\ work_item \in [Flushers -> Items \cup {None}]
    /\ \A f \in Flushers : pc[f] = "callback" <=> work_item[f] # None
    /\ life \in {"open", "canceled", "freed"}

Queued == {work_items[k] : k \in DOMAIN work_items}
Held == {work_item[f] : f \in Flushers} \ {None}

\* ebpf_timed_work_queue_create.
Init ==
    /\ work_items = <<>>
    /\ timer_armed = FALSE /\ timer = FALSE /\ dpc = FALSE
    /\ pc = [f \in Flushers |-> "idle"]
    /\ work_item = [f \in Flushers |-> None]
    /\ life = "open"

-----------------------------------------------------------------------------
\* Mutant of InsertOnWakeup: the DPC is not queued when the timer was running.
InsertOnWakeup_NoDpc ==
    /\ timer' = FALSE /\ timer_armed' = FALSE
    /\ dpc' = (dpc \/ ~timer_armed)

\* The rest of an insert with EBPF_WORK_QUEUE_WAKEUP_ON_INSERT.
InsertOnWakeup ==
    /\ timer' = FALSE /\ timer_armed' = FALSE
    /\ dpc' = TRUE

\* The rest of an insert with EBPF_WORK_QUEUE_WAKEUP_ON_TIMER.
InsertOnTimer ==
    /\ timer' = (timer \/ ~timer_armed)
    /\ timer_armed' = TRUE
    /\ UNCHANGED dpc

\* Mutant of InsertAt: the item goes to the head of the list.
InsertAt_Head(i) == work_items' = <<i>> \o work_items

InsertAt(i) == work_items' = Append(work_items, i)

\* ebpf_timed_work_queue_insert of an item that is not in use.
Insert(i) ==
    /\ life = "open"
    /\ i \notin Queued \cup Held
    /\ InsertAt(i)
    /\ InsertOnWakeup \/ InsertOnTimer
    /\ UNCHANGED <<pc, work_item, life>>

\* External: the timer expires and queues its DPC.
TimerExpires ==
    /\ timer
    /\ timer' = FALSE /\ dpc' = TRUE
    /\ UNCHANGED <<work_items, timer_armed, pc, work_item, life>>

\* _ebpf_timed_work_queue_timer_callback.  A DPC is dequeued before it runs and
\* does not run on its processor beside itself.
TimerCallback ==
    /\ dpc /\ pc[Dpc] = "idle"
    /\ dpc' = FALSE
    /\ pc' = [pc EXCEPT ![Dpc] = "flush"]
    /\ UNCHANGED <<work_items, timer_armed, timer, work_item, life>>

\* A caller finds ebpf_timed_work_queue_is_empty false and flushes.
Poll(f) ==
    /\ life = "open"
    /\ pc[f] = "idle"
    /\ work_items # <<>>
    /\ pc' = [pc EXCEPT ![f] = "flush"]
    /\ UNCHANGED <<queue, work_item, life>>

\* The loop of ebpf_timed_work_queued_flush up to the next callback.
TakeFirst(f) ==
    IF work_items = <<>>
    THEN /\ pc' = [pc EXCEPT ![f] = "idle"]
         /\ UNCHANGED <<work_items, work_item>>
    ELSE /\ pc' = [pc EXCEPT ![f] = "callback"]
         /\ work_item' = [work_item EXCEPT ![f] = Head(work_items)]
         /\ work_items' = Tail(work_items)

\* Mutant of Flush: the timer is cancelled, timer_armed stays set.
Flush_StaysArmed(f) ==
    /\ pc[f] = "flush"
    /\ timer' = (timer /\ ~timer_armed)
    /\ TakeFirst(f)
    /\ UNCHANGED <<timer_armed, dpc, life>>

\* ebpf_timed_work_queued_flush up to the first callback.
Flush(f) ==
    /\ pc[f] = "flush"
    /\ timer' = (timer /\ ~timer_armed)
    /\ timer_armed' = FALSE
    /\ TakeFirst(f)
    /\ UNCHANGED <<dpc, life>>

\* work_queue->callback, outside of the lock.
Callback(f) ==
    /\ pc[f] = "callback"
    /\ pc' = [pc EXCEPT ![f] = "loop"]
    /\ work_item' = [work_item EXCEPT ![f] = None]
    /\ UNCHANGED <<queue, life>>

\* ebpf_timed_work_queued_flush takes the lock again after a callback.
FlushLoop(f) ==
    /\ pc[f] = "loop"
    /\ TakeFirst(f)
    /\ UNCHANGED <<timer_armed, timer, dpc, life>>

\* Mutant of DestroyCancel: the timer is left running.
DestroyCancel_Keep ==
    /\ life = "open"
    /\ \A f \in Callers : pc[f] = "idle"
    /\ life' = "canceled"
    /\ UNCHANGED <<queue, pc, work_item>>

\* ebpf_timed_work_queue_destroy up to KeCancelTimer.  Its caller no longer
\* inserts and has no flush running.
DestroyCancel ==
    /\ life = "open"
    /\ \A f \in Callers : pc[f] = "idle"
    /\ timer' = FALSE
    /\ life' = "canceled"
    /\ UNCHANGED <<work_items, timer_armed, dpc, pc, work_item>>

\* KeFlushQueuedDpcs has returned and the work queue is freed.
DestroyFree ==
    /\ life = "canceled"
    /\ ~dpc /\ pc[Dpc] = "idle"
    /\ life' = "freed"
    /\ UNCHANGED <<queue, pc, work_item>>

Next ==
    \/ \E i \in Items : Insert(i)
    \/ TimerExpires
    \/ TimerCallback
    \/ \E f \in Callers : Poll(f)
    \/ \E f \in Flushers : Flush(f) \/ Callback(f) \/ FlushLoop(f)
    \/ DestroyCancel
    \/ DestroyFree

\* Timers expire, queued DPCs run, and a started flush, which runs at
\* DISPATCH_LEVEL, is not preempted for ever.  Nobody has to insert, poll or
\* destroy; a destroy that was begun goes on.
Fairness ==
    /\ WF_vars(TimerExpires)
    /\ WF_vars(TimerCallback)
    /\ \A f \in Flushers :
           WF_vars(Flush(f) \/ Callback(f) \/ FlushLoop(f))
    /\ WF_vars(DestroyFree)

Spec == Init /\ [][Next]_vars

FairSpec == Spec /\ Fairness

-----------------------------------------------------------------------------
(* Properties.                                                             *)

\* The DPC has been queued or started and has yet to take the lock.
DpcComing == dpc \/ pc[Dpc] = "flush"

\* A set timer_armed flag is the truth about the future: whatever inserts,
\* flushes and expiries raced, the timer is still set or its DPC is on the way.
\* An insert that finds the flag set relies on it and arms nothing
\* (ebpf_timed_work_queue_insert).
ArmedIsLive ==
    timer_armed /\ life = "open" => timer \/ DpcComing

\* No wakeup is lost: while an item is in the list, the timer is set, the DPC is
\* on its way, or a flush is in its loop and will look at the list again.
WakeupPending ==
    work_items # <<>> /\ life = "open" =>
        \/ timer \/ DpcComing
        \/ \E f \in Flushers : pc[f] # "idle"

\* A work item is in one place: in the list once or with one callback, so
\* that two flushes that drain the list together never run it twice.
ItemInOnePlace ==
    /\ \A j, k \in DOMAIN work_items : work_items[j] = work_items[k] => j = k
    /\ Queued \cap Held = {}
    /\ \A f, g \in Flushers :
           work_item[f] = work_item[g] /\ work_item[f] # None => f = g

\* The inductive invariant: types, a truthful timer_armed flag, no lost wakeup
\* and every item in one place.
WorkQueueInv == TypeOK /\ ArmedIsLive /\ WakeupPending /\ ItemInOnePlace

\* When ebpf_timed_work_queue_destroy frees the work queue, no timer, queued
\* DPC or running flush can still reach it: the timer has been cancelled, the
\* DPCs have been flushed, and nobody polls a queue that is being destroyed.
DestroyQuiet ==
    /\ life # "open" => ~timer /\ \A f \in Callers : pc[f] = "idle"
    /\ life = "freed" => ~dpc /\ pc[Dpc] = "idle"

\* No wakeup is lost, no item runs twice, and a freed work queue is out of reach.
WorkQueueSafe == WorkQueueInv /\ DestroyQuiet

Abstract == INSTANCE WorkQueueSpec
    WITH pending <- work_items, running <- Held, open <- (life = "open")

\* The work queue implements WorkQueueSpec: items run in insertion order, once
\* each, and none waits for ever.
Implements == Abstract!Spec
==============================================================================
