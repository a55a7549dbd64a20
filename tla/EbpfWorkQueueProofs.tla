------------------------- MODULE EbpfWorkQueueProofs -------------------------
(***************************************************************************)
(* Proofs about EbpfWorkQueue, for any set of work items and of callers.   *)
(* The inductive invariant is WorkQueueInv: that no wakeup is lost rests   *)
(* on the timer_armed flag being the truth, and that the queue refines     *)
(* WorkQueueSpec on an item being in one place.                            *)
(***************************************************************************)
EXTENDS EbpfWorkQueue, TLAPS

\* What one pass of the loop of ebpf_timed_work_queued_flush does to the list,
\* the flusher and its item.
LEMMA TakeFirstEffect ==
    ASSUME NEW f \in Flushers, TypeOK, ItemInOnePlace, pc[f] \in {"flush", "loop"},
           TakeFirst(f)
    PROVE  \/ /\ work_items = <<>> /\ work_items' = <<>>
              /\ work_item' = work_item
              /\ pc' = [pc EXCEPT ![f] = "idle"]
           \/ /\ work_items # <<>>
              /\ Head(work_items) \in Items
              /\ Head(work_items) \notin Held
              /\ work_items' = Tail(work_items)
              /\ work_items' \in Seq(Items)
              /\ work_item[f] = None
              /\ work_item' = [work_item EXCEPT ![f] = Head(work_items)]
              /\ pc' = [pc EXCEPT ![f] = "callback"]
<1>1. work_items \in Seq(Items) /\ work_item[f] = None
  BY DEF TypeOK
<1>2. CASE work_items = <<>>
  BY <1>1, <1>2 DEF TakeFirst
<1>3. CASE work_items # <<>>
  <2>1. /\ Head(work_items) \in Items
        /\ Head(work_items) = work_items[1]
        /\ 1 \in DOMAIN work_items
        /\ Tail(work_items) \in Seq(Items)
    BY <1>1, <1>3
  <2>2. Head(work_items) \in Queued
    BY <2>1 DEF Queued
  <2>3. Head(work_items) \notin Held
    BY <2>2 DEF ItemInOnePlace
  <2> QED
    BY <1>1, <1>3, <2>1, <2>3 DEF TakeFirst
<1> QED
  BY <1>2, <1>3

\* A pass of the loop preserves the types and keeps every item in one place.
LEMMA TakeFirstPreserves ==
    ASSUME NEW f \in Flushers, TypeOK, ItemInOnePlace, pc[f] \in {"flush", "loop"},
           TakeFirst(f)
    PROVE  /\ work_items' \in Seq(Items)
           /\ pc' \in [Flushers -> {"idle", "flush", "callback", "loop"}]
           /\ work_item' \in [Flushers -> Items \cup {None}]
           /\ \A g \in Flushers : pc'[g] = "callback" <=> work_item'[g] # None
           /\ ItemInOnePlace'
<1> USE WorkQueueAssumption
<1>1. CASE work_items = <<>> /\ work_items' = <<>> /\ work_item' = work_item
           /\ pc' = [pc EXCEPT ![f] = "idle"]
  <2>1. Queued' = {} /\ Held' = Held
    BY <1>1 DEF Queued, Held
  <2>2. ItemInOnePlace'
    BY <1>1, <2>1 DEF ItemInOnePlace
  <2> QED
    BY <1>1, <2>2 DEF TypeOK
<1>2. CASE /\ work_items # <<>>
           /\ Head(work_items) \in Items
           /\ Head(work_items) \notin Held
           /\ work_items' = Tail(work_items)
           /\ work_items' \in Seq(Items)
           /\ work_item[f] = None
           /\ work_item' = [work_item EXCEPT ![f] = Head(work_items)]
           /\ pc' = [pc EXCEPT ![f] = "callback"]
  <2>1. work_items \in Seq(Items) /\ work_item \in [Flushers -> Items \cup {None}]
    BY DEF TypeOK
  <2>2. /\ DOMAIN work_items = 1 .. Len(work_items)
        /\ DOMAIN work_items' = 1 .. (Len(work_items) - 1)
        /\ \A k \in DOMAIN work_items' :
              k + 1 \in DOMAIN work_items /\ work_items'[k] = work_items[k + 1]
        /\ Len(work_items) \in Nat
        /\ Head(work_items) = work_items[1]
        /\ 1 \in DOMAIN work_items
    BY <1>2, <2>1
  <2>3. \A j, k \in DOMAIN work_items' :
           work_items'[j] = work_items'[k] => j = k
    <3> SUFFICES ASSUME NEW j \in DOMAIN work_items', NEW k \in DOMAIN work_items',
                        work_items'[j] = work_items'[k]
                 PROVE  j = k
      OBVIOUS
    <3>1. work_items[j + 1] = work_items[k + 1]
      BY <2>2
    <3>2. j + 1 = k + 1
      BY <2>2, <3>1 DEF ItemInOnePlace
    <3> QED
      BY <2>2, <3>2
  <2>4. Head(work_items) \notin Queued'
    <3> SUFFICES ASSUME NEW k \in DOMAIN work_items', work_items'[k] = Head(work_items)
                 PROVE  FALSE
      BY DEF Queued
    <3>1. work_items[k + 1] = work_items[1]
      BY <2>2
    <3>2. k + 1 = 1
      BY <2>2, <3>1 DEF ItemInOnePlace
    <3> QED
      BY <2>2, <3>2
  <2>5. Queued' \subseteq Queued
    BY <2>2 DEF Queued
  <2>6. \A g \in Flushers : work_item'[g] = IF g = f THEN Head(work_items) ELSE work_item[g]
    BY <1>2, <2>1
  <2>7. Held' \subseteq Held \cup {Head(work_items)}
    BY <2>6 DEF Held
  <2>8. Queued' \cap Held' = {}
    BY <2>4, <2>5, <2>7 DEF ItemInOnePlace
  <2>9. \A g \in Flushers : g # f => work_item[g] # Head(work_items)
    BY <1>2, WorkQueueAssumption DEF Held
  <2>10. \A g, h \in Flushers :
            work_item'[g] = work_item'[h] /\ work_item'[g] # None => g = h
    BY <2>6, <2>9 DEF ItemInOnePlace
  <2>11. ItemInOnePlace'
    BY <2>3, <2>8, <2>10 DEF ItemInOnePlace
  <2>12. \A g \in Flushers : pc'[g] = IF g = f THEN "callback" ELSE pc[g]
    BY <1>2 DEF TypeOK
  <2>13. \A g \in Flushers : pc'[g] = "callback" <=> work_item'[g] # None
    BY <1>2, <2>6, <2>12 DEF TypeOK
  <2> QED
    BY <1>2, <2>11, <2>13 DEF TypeOK
<1> QED
  BY <1>1, <1>2, TakeFirstEffect

\* An insert appends an item that is nowhere, so that it is in one place.
LEMMA InsertPreserves ==
    ASSUME NEW i \in Items, TypeOK, ItemInOnePlace, Insert(i)
    PROVE  work_items' \in Seq(Items) /\ ItemInOnePlace'
<1>1. work_items \in Seq(Items) /\ work_items' = Append(work_items, i)
      /\ work_item' = work_item /\ i \notin Queued /\ i \notin Held
  BY DEF TypeOK, Insert, InsertAt
<1>2. /\ work_items' \in Seq(Items)
      /\ DOMAIN work_items = 1 .. Len(work_items)
      /\ DOMAIN work_items' = 1 .. (Len(work_items) + 1)
      /\ Len(work_items) \in Nat
      /\ work_items'[Len(work_items) + 1] = i
      /\ \A k \in DOMAIN work_items : work_items'[k] = work_items[k]
  BY <1>1
<1>3. \A k \in DOMAIN work_items : work_items[k] # i
  BY <1>1 DEF Queued
<1>4. \A k \in DOMAIN work_items' : k \in DOMAIN work_items \/ k = Len(work_items) + 1
  BY <1>2
<1>5. \A j, k \in DOMAIN work_items' : work_items'[j] = work_items'[k] => j = k
  BY <1>2, <1>3, <1>4 DEF ItemInOnePlace
<1>6. Queued' \subseteq Queued \cup {i}
  BY <1>2, <1>4 DEF Queued
<1>7. Held' = Held
  BY <1>1 DEF Held
<1>8. Queued' \cap Held' = {}
  BY <1>1, <1>6, <1>7 DEF ItemInOnePlace
<1> QED
  BY <1>1, <1>2, <1>5, <1>8 DEF ItemInOnePlace

\* Init establishes the invariant (ebpf_timed_work_queue_create).
LEMMA InitEstablishes == Init => WorkQueueInv
<1> SUFFICES ASSUME Init PROVE WorkQueueInv
  OBVIOUS
<1>1. TypeOK
  <2>1. work_items \in Seq(Items)
    BY DEF Init
  <2>2. timer_armed \in BOOLEAN /\ timer \in BOOLEAN /\ dpc \in BOOLEAN
    BY DEF Init
  <2>3. /\ pc \in [Flushers -> {"idle", "flush", "callback", "loop"}]
        /\ work_item \in [Flushers -> Items \cup {None}]
        /\ \A f \in Flushers : pc[f] = "callback" <=> work_item[f] # None
    BY DEF Init
  <2> QED
    BY <2>1, <2>2, <2>3 DEF Init, TypeOK
<1>2. Queued = {}
  BY DEF Init, Queued
<1>3. \A f \in Flushers : work_item[f] = None
  BY DEF Init
<1>4. work_items = <<>> /\ DOMAIN work_items = {}
  BY DEF Init
<1>5. ItemInOnePlace
  BY <1>2, <1>3, <1>4 DEF ItemInOnePlace
<1> QED
  BY <1>1, <1>5 DEF Init, WorkQueueInv, ArmedIsLive, WakeupPending

\* Every step of the queue, its timer, its DPC and its callers preserves it.
LEMMA StepPreserves == WorkQueueInv /\ [Next]_vars => WorkQueueInv'
<1> SUFFICES ASSUME WorkQueueInv, [Next]_vars PROVE WorkQueueInv'
  OBVIOUS
<1> USE WorkQueueAssumption
<1>1. TypeOK /\ ArmedIsLive /\ WakeupPending /\ ItemInOnePlace
  BY DEF WorkQueueInv
<1>2. Dpc \in Flushers /\ Callers \subseteq Flushers
  BY DEF Flushers
<1>3. ASSUME NEW i \in Items, Insert(i) PROVE WorkQueueInv'
  <2>1. work_items' \in Seq(Items) /\ ItemInOnePlace'
    BY <1>1, <1>3, InsertPreserves
  <2>2. TypeOK'
    BY <1>1, <1>3, <2>1 DEF TypeOK, Insert, InsertOnWakeup, InsertOnTimer
  <2>3. CASE InsertOnWakeup
    BY <1>3, <2>1, <2>2, <2>3
    DEF WorkQueueInv, Insert, InsertOnWakeup, ArmedIsLive, WakeupPending, DpcComing
  <2>4. CASE InsertOnTimer
    BY <1>1, <1>3, <2>1, <2>2, <2>4
    DEF WorkQueueInv, Insert, InsertOnTimer, ArmedIsLive, WakeupPending, DpcComing, TypeOK
  <2> QED
    BY <1>3, <2>3, <2>4 DEF Insert
<1>4. ASSUME UNCHANGED <<work_items, work_item>>
      PROVE  Queued' = Queued /\ Held' = Held /\ ItemInOnePlace'
  BY <1>1, <1>4 DEF Queued, Held, ItemInOnePlace
<1>5. CASE TimerExpires
  BY <1>1, <1>4, <1>5
  DEF WorkQueueInv, TimerExpires, TypeOK, ArmedIsLive, WakeupPending, DpcComing
<1>6. CASE TimerCallback
  <2>1. /\ pc'[Dpc] = "flush" /\ pc'[Dpc] # "idle"
        /\ \A f \in Flushers : pc'[f] = "callback" <=> pc[f] = "callback"
    BY <1>1, <1>2, <1>6 DEF TimerCallback, TypeOK
  <2>2. TypeOK'
    BY <1>1, <1>6, <2>1 DEF TimerCallback, TypeOK
  <2> QED
    BY <1>2, <1>4, <1>6, <2>1, <2>2
    DEF WorkQueueInv, TimerCallback, ArmedIsLive, WakeupPending, DpcComing
<1>7. ASSUME NEW f \in Callers, Poll(f) PROVE WorkQueueInv'
  <2>1. /\ pc'[f] = "flush" /\ pc'[f] # "idle" /\ pc'[Dpc] = pc[Dpc]
        /\ \A g \in Flushers : pc'[g] = "callback" <=> pc[g] = "callback"
    BY <1>1, <1>2, <1>7 DEF Poll, TypeOK
  <2>2. TypeOK'
    BY <1>1, <1>7, <2>1 DEF Poll, queue, TypeOK
  <2> QED
    BY <1>1, <1>2, <1>4, <1>7, <2>1, <2>2
    DEF WorkQueueInv, Poll, queue, ArmedIsLive, WakeupPending, DpcComing
<1>8. ASSUME NEW f \in Flushers, Flush(f) PROVE WorkQueueInv'
  <2>1. pc[f] \in {"flush", "loop"} /\ TakeFirst(f)
    BY <1>8 DEF Flush
  <2>2. TypeOK' /\ ItemInOnePlace'
    BY <1>1, <1>8, <2>1, TakeFirstPreserves DEF Flush, TypeOK
  <2>3. work_items' # <<>> => pc'[f] # "idle"
    BY <1>1, <2>1, TakeFirstEffect DEF TypeOK
  <2>4. ArmedIsLive'
    BY <1>8 DEF Flush, ArmedIsLive
  <2>5. WakeupPending'
    BY <2>3 DEF WakeupPending
  <2> QED
    BY <2>2, <2>4, <2>5 DEF WorkQueueInv
<1>9. ASSUME NEW f \in Flushers, FlushLoop(f) PROVE WorkQueueInv'
  <2>1. pc[f] \in {"flush", "loop"} /\ TakeFirst(f)
    BY <1>9 DEF FlushLoop
  <2>2. TypeOK' /\ ItemInOnePlace'
    BY <1>1, <1>9, <2>1, TakeFirstPreserves DEF FlushLoop, TypeOK
  <2>3. work_items' # <<>> => pc'[f] # "idle"
    BY <1>1, <2>1, TakeFirstEffect DEF TypeOK
  <2>4. pc[Dpc] = "flush" => pc'[Dpc] = "flush"
    BY <1>1, <1>2, <1>9, <2>1, TakeFirstEffect DEF FlushLoop, TypeOK
  <2>5. ArmedIsLive'
    BY <1>1, <1>9, <2>4 DEF FlushLoop, ArmedIsLive, DpcComing
  <2>6. WakeupPending'
    BY <2>3 DEF WakeupPending
  <2> QED
    BY <2>2, <2>5, <2>6 DEF WorkQueueInv
<1>10. ASSUME NEW f \in Flushers, Callback(f) PROVE WorkQueueInv'
  <2>1. \A g \in Flushers : /\ pc'[g] = IF g = f THEN "loop" ELSE pc[g]
                            /\ work_item'[g] = IF g = f THEN None ELSE work_item[g]
    BY <1>1, <1>10 DEF Callback, TypeOK
  <2>2. TypeOK'
    BY <1>1, <1>10, <2>1 DEF Callback, queue, TypeOK
  <2>3. Queued' = Queued /\ Held' \subseteq Held
    BY <1>10, <2>1 DEF Callback, queue, Queued, Held
  <2>4. ItemInOnePlace'
    BY <1>1, <1>10, <2>1, <2>3 DEF Callback, queue, ItemInOnePlace
  <2>5. ArmedIsLive'
    BY <1>1, <1>2, <1>10, <2>1 DEF Callback, queue, ArmedIsLive, DpcComing
  <2>6. WakeupPending'
    BY <2>1 DEF WakeupPending
  <2> QED
    BY <2>2, <2>4, <2>5, <2>6 DEF WorkQueueInv
<1>11. CASE DestroyCancel
  BY <1>1, <1>4, <1>11
  DEF WorkQueueInv, DestroyCancel, TypeOK, ArmedIsLive, WakeupPending
<1>12. CASE DestroyFree
  BY <1>1, <1>4, <1>12
  DEF WorkQueueInv, DestroyFree, queue, TypeOK, ArmedIsLive, WakeupPending
<1>13. CASE UNCHANGED vars
  BY <1>1, <1>4, <1>13
  DEF WorkQueueInv, vars, queue, TypeOK, ArmedIsLive, WakeupPending, DpcComing
<1> QED
  BY <1>3, <1>5, <1>6, <1>7, <1>8, <1>9, <1>10, <1>11, <1>12, <1>13 DEF Next

\* The invariant holds in every behaviour of the work queue.
THEOREM WorkQueueInvariant == Spec => []WorkQueueInv
<1> QED
  BY InitEstablishes, StepPreserves, PTL DEF Spec

\* From the cancellation in ebpf_timed_work_queue_destroy on, no timer, and from
\* the free on, no DPC and no flush can reach the work queue.
LEMMA DestroyPreserves == TypeOK /\ DestroyQuiet /\ [Next]_vars => DestroyQuiet'
<1> SUFFICES ASSUME TypeOK, DestroyQuiet, [Next]_vars PROVE DestroyQuiet'
  OBVIOUS
<1>1. CASE \E i \in Items : Insert(i)
  BY <1>1 DEF Insert, DestroyQuiet
<1>2. CASE TimerExpires
  BY <1>2 DEF TimerExpires, DestroyQuiet
<1>7. CASE TimerCallback
  <2>1. \A f \in Callers : pc'[f] = pc[f]
    BY <1>7, WorkQueueAssumption DEF TimerCallback, TypeOK, Flushers
  <2> QED
    BY <1>7, <2>1 DEF TimerCallback, DestroyQuiet
<1>3. CASE \E f \in Callers : Poll(f)
  BY <1>3 DEF Poll, DestroyQuiet
<1>4. ASSUME NEW f \in Flushers, Flush(f) \/ Callback(f) \/ FlushLoop(f) PROVE DestroyQuiet'
  <2>1. /\ pc[f] # "idle" /\ life' = life /\ dpc' = dpc
        /\ ~timer => ~timer'
        /\ \A g \in Flushers \ {f} : pc'[g] = pc[g]
    BY <1>4 DEF Flush, Callback, FlushLoop, TakeFirst, queue, TypeOK
  <2>2. life # "open" => f = Dpc /\ life # "freed"
    BY <1>4, <2>1 DEF DestroyQuiet, Flushers
  <2> QED
    BY <2>1, <2>2, WorkQueueAssumption DEF DestroyQuiet, Flushers
<1>5. CASE DestroyCancel \/ DestroyFree
  BY <1>5 DEF DestroyCancel, DestroyFree, queue, DestroyQuiet
<1>6. CASE UNCHANGED vars
  BY <1>6 DEF vars, queue, DestroyQuiet
<1> QED
  BY <1>1, <1>2, <1>3, <1>4, <1>5, <1>6, <1>7 DEF Next

\* The work queue is safe for every set of items and callers: the invariant holds
\* and a destroyed work queue is out of reach.
THEOREM WorkQueueIsSafe == Spec => []WorkQueueSafe
<1>1. Init => DestroyQuiet
  BY DEF Init, DestroyQuiet
<1>2. WorkQueueInv /\ DestroyQuiet /\ [Next]_vars => DestroyQuiet'
  BY DestroyPreserves DEF WorkQueueInv
<1>3. WorkQueueInv /\ DestroyQuiet => WorkQueueSafe
  BY DEF WorkQueueSafe
<1> QED
  BY <1>1, <1>2, <1>3, WorkQueueInvariant, PTL DEF Spec

\* No wakeup is lost: while an item is in the list of an open work queue, the
\* timer is set, the DPC is on its way, or a flush will look at the list again
\* (ebpf_timed_work_queue_insert, ebpf_timed_work_queued_flush).
THEOREM NoLostWakeup == Spec => []WakeupPending
<1>1. WorkQueueInv => WakeupPending
  BY DEF WorkQueueInv
<1> QED
  BY <1>1, WorkQueueInvariant, PTL

\* Two flushes that drain the list together never run an item twice.
THEOREM ItemsRunOnce == Spec => []ItemInOnePlace
<1>1. WorkQueueInv => ItemInOnePlace
  BY DEF WorkQueueInv
<1> QED
  BY <1>1, WorkQueueInvariant, PTL

-----------------------------------------------------------------------------
(* Refinement.                                                             *)

\* The safety part of Implements.
ImplementsSafely == Abstract!Init /\ [][Abstract!Next]_(Abstract!vars)

\* A pass of the loop takes the oldest item or changes nothing abstractly.
LEMMA TakeFirstRefines ==
    ASSUME NEW f \in Flushers, TypeOK, ItemInOnePlace, pc[f] \in {"flush", "loop"},
           TakeFirst(f), life' = life
    PROVE  Abstract!Take \/ UNCHANGED Abstract!vars
<1> USE WorkQueueAssumption
<1>1. CASE work_items = <<>> /\ work_items' = <<>> /\ work_item' = work_item
  BY <1>1 DEF Abstract!vars, Held
<1>2. CASE /\ work_items # <<>>
           /\ Head(work_items) \in Items
           /\ work_items' = Tail(work_items)
           /\ work_item[f] = None
           /\ work_item' = [work_item EXCEPT ![f] = Head(work_items)]
  <2>1. \A g \in Flushers : work_item'[g] = IF g = f THEN Head(work_items) ELSE work_item[g]
    BY <1>2 DEF TypeOK
  <2>2. Held' = Held \cup {Head(work_items)}
    BY <1>2, <2>1 DEF Held
  <2> QED
    BY <1>2, <2>2 DEF Abstract!Take
<1> QED
  BY <1>1, <1>2, TakeFirstEffect

\* Every step of the work queue is a step of WorkQueueSpec or a stutter.
LEMMA StepRefines ==
    WorkQueueInv /\ [Next]_vars => [Abstract!Next]_(Abstract!vars)
<1> SUFFICES ASSUME WorkQueueInv, [Next]_vars
             PROVE  Abstract!Next \/ UNCHANGED Abstract!vars
  OBVIOUS
<1>1. TypeOK /\ ItemInOnePlace
  BY DEF WorkQueueInv
<1>2. ASSUME NEW i \in Items, Insert(i) PROVE Abstract!Put(i)
  BY <1>2 DEF Insert, InsertAt, Abstract!Put, Queued, Held
<1>3. ASSUME NEW f \in Flushers, Callback(f) PROVE \E i \in Items : Abstract!Done(i)
  <2>1. work_item[f] \in Items /\ work_item[f] \in Held
    BY <1>1, <1>3 DEF Callback, TypeOK, Held
  <2>2. \A g \in Flushers : work_item'[g] = IF g = f THEN None ELSE work_item[g]
    BY <1>1, <1>3 DEF Callback, TypeOK
  <2>3. \A g \in Flushers : work_item[g] = work_item[f] => g = f
    BY <1>1, <2>1 DEF ItemInOnePlace, Held
  <2>4. Held' = Held \ {work_item[f]}
    BY <2>2, <2>3 DEF Held
  <2> QED
    BY <1>3, <2>1, <2>4 DEF Callback, queue, Abstract!Done
<1>4. ASSUME NEW f \in Flushers, Flush(f) \/ FlushLoop(f)
      PROVE  Abstract!Take \/ UNCHANGED Abstract!vars
  <2>1. pc[f] \in {"flush", "loop"} /\ TakeFirst(f) /\ life' = life
    BY <1>4 DEF Flush, FlushLoop
  <2> QED
    BY <1>1, <2>1, TakeFirstRefines
<1>5. CASE DestroyCancel
  BY <1>5 DEF DestroyCancel, Abstract!Next, Abstract!Close, Held
<1>6. ASSUME UNCHANGED <<work_items, work_item>>, (life' = "open") = (life = "open")
      PROVE  UNCHANGED Abstract!vars
  BY <1>6 DEF Abstract!vars, Held
<1>7. CASE TimerExpires \/ TimerCallback \/ \E f \in Callers : Poll(f)
  BY <1>6, <1>7 DEF TimerExpires, TimerCallback, Poll, queue
<1>8. CASE DestroyFree
  BY <1>6, <1>8 DEF DestroyFree, queue
<1>9. CASE UNCHANGED vars
  BY <1>6, <1>9 DEF vars, queue
<1> QED
  BY <1>2, <1>3, <1>4, <1>5, <1>7, <1>8, <1>9 DEF Next, Abstract!Next

\* The work queue implements the safety part of WorkQueueSpec: items are handed
\* out once each and in the order of insertion, whoever drains the list.
THEOREM WorkQueueRefines == Spec => ImplementsSafely
<1>1. Init => Abstract!Init
  BY DEF Init, Abstract!Init, Held
<1> QED
  BY <1>1, StepRefines, WorkQueueInvariant, PTL DEF Spec, ImplementsSafely
==============================================================================
