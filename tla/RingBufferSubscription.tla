------------------------ MODULE RingBufferSubscription ------------------------
(* Subscriptions of a process to one ring buffer map: ebpf_api.cpp and the     *)
(* wait for asynchronous requests of device_helper.cpp.  A completed request   *)
(* sets an event, which makes the thread pool run the completion callback; the *)
(* callback hands the records to the user and posts the next request.          *)
EXTENDS EbpfRingBufferMap

VARIABLES
  subscription,   \* "none", "opening", "open" (the user has it) or "freed"
  armed,          \* the thread pool waits for the event
  pc,             \* of the thread in subscribe or in the completion callback
  lock,           \* subscription->lock is held by the completion callback
  consumer, producer,   \* the callback's offsets
  unsubscribed, async_ioctl_failed,
  given_up,       \* the callback returned without a new request or a mark
  exited          \* the process has ended

user == <<subscription, armed, pc, lock, consumer, producer, unsubscribed,
          async_ioctl_failed, given_up, exited>>
vars == <<kernel, user>>

Unset == [s \in Subscribers |-> FALSE]

TypeOK ==
  /\ MapTypeOK
  /\ subscription \in [Subscribers -> {"none", "opening", "open", "freed"}]
  /\ armed \in [Subscribers -> BOOLEAN]
  /\ pc \in [Subscribers -> {"idle", "post", "posting", "read", "failed",
                             "lock", "asserted"}]
  /\ lock \in [Subscribers -> BOOLEAN]
  /\ consumer \in [Subscribers -> Nat] /\ producer \in [Subscribers -> Nat]
  /\ unsubscribed \in [Subscribers -> BOOLEAN]
  /\ async_ioctl_failed \in [Subscribers -> BOOLEAN]
  /\ given_up \in [Subscribers -> BOOLEAN]
  /\ exited \in BOOLEAN

Init ==
  /\ MapInit
  /\ subscription = [s \in Subscribers |-> "none"]
  /\ armed = Unset
  /\ pc = [s \in Subscribers |-> "idle"]
  /\ lock = Unset
  /\ consumer = [s \in Subscribers |-> 0]
  /\ producer = [s \in Subscribers |-> 0]
  /\ unsubscribed = Unset
  /\ async_ioctl_failed = Unset
  /\ given_up = Unset
  /\ exited = FALSE

-----------------------------------------------------------------------------
(* ebpf_ring_buffer_map_subscribe.                                          *)

\* register_wait_async_ioctl_operation: the event is reset and waited for.
RegisterWait(s) == armed' = Set(armed, s, TRUE)

\* The handle is duplicated, the consumer offset queried (ebpf_core.c,
\* ebpf_ring_buffer_map_query_buffer) and the wait registered.
Subscribe(s) ==
  /\ ~exited /\ subscription[s] = "none"
  /\ subscription' = Set(subscription, s, "opening")
  /\ consumer' = Set(consumer, s, consumer_offset)
  /\ RegisterWait(s)
  /\ pc' = Set(pc, s, "post")
  /\ UNCHANGED <<kernel, lock, producer, unsubscribed, async_ioctl_failed,
                 given_up, exited>>

\* invoke_ioctl, here and in the completion callback.
Post(s) ==
  /\ ~exited /\ pc[s] = "post"
  /\ pc' = Set(pc, s, "posting")
  /\ HandlerBegin(s)
  /\ UNCHANGED <<subscription, armed, lock, consumer, producer, unsubscribed,
                 async_ioctl_failed, given_up, exited>>

\* The handler's steps run in the posting thread.
HandlerStep(s) ==
  /\ HandlerReturn(s, consumer[s]) \/ HandlerQuery(s)
  /\ UNCHANGED user

\* The request is pending or has completed: subscribe hands out the
\* subscription, the completion callback returns.
Posted(s) ==
  /\ ~exited /\ pc[s] = "posting" /\ handler[s] = "none"
  /\ pc' = Set(pc, s, "idle")
  /\ lock' = Set(lock, s, FALSE)
  /\ subscription' = Set(subscription, s, "open")
  /\ UNCHANGED <<kernel, armed, consumer, producer, unsubscribed,
                 async_ioctl_failed, given_up, exited>>

\* The failure is reported by the call itself and no event follows: subscribe
\* destroys the subscription, the callback marks it.
PostFailed(s) ==
  /\ ~exited /\ pc[s] = "posting" /\ request[s] = "FAILED"
  /\ request' = Set(request, s, "none")
  /\ pc' = Set(pc, s, "idle")
  /\ lock' = Set(lock, s, FALSE)
  /\ async_ioctl_failed' = Set(async_ioctl_failed, s, TRUE)
  /\ subscription' = Set(subscription, s,
       IF subscription[s] = "opening" THEN "freed" ELSE "open")
  /\ UNCHANGED <<ring, producer_pc, query, reply, handler, old_offset,
                 cancel, misfired, life, armed, consumer, producer,
                 unsubscribed, given_up, exited>>

-----------------------------------------------------------------------------
(* _ebpf_ring_buffer_map_async_query_completion.                            *)

\* The event is set: the thread pool runs the callback once, which looks at the
\* result.  A cancelled request calls the user with no record; for a successful
\* one the size of the buffer is queried, which may fail.
Completion(s) ==
  /\ ~exited /\ armed[s] /\ pc[s] = "idle"
  /\ request[s] \in Results
  /\ armed' = Set(armed, s, FALSE)
  /\ request' = Set(request, s, "none")
  /\ reply' = Set(reply, s, NoReply)
  /\ \/ /\ request[s] = "FAILED"
        /\ pc' = Set(pc, s, "failed")
        /\ UNCHANGED <<consumer, producer, given_up>>
     \/ /\ request[s] = "CANCELED"
        /\ pc' = Set(pc, s, "lock")
        /\ consumer' = Set(consumer, s, 0)
        /\ UNCHANGED <<producer, given_up>>
     \/ /\ request[s] = "SUCCESS"
        /\ pc' = Set(pc, s, "read")
        /\ consumer' = Set(consumer, s, reply[s].consumer)
        /\ producer' = Set(producer, s, reply[s].producer)
        /\ UNCHANGED given_up
     \/ /\ request[s] = "SUCCESS"
        /\ given_up' = Set(given_up, s, TRUE)
        /\ UNCHANGED <<pc, consumer, producer>>
  /\ UNCHANGED <<ring, producer_pc, query, handler, old_offset, cancel,
                 misfired, life, subscription, lock, unsubscribed,
                 async_ioctl_failed, exited>>

\* What the reader takes for a record's length; data that a producer has written
\* over the header may say anything.
LengthAt(offset) ==
  IF At(offset).length # 0 THEN {At(offset).length} ELSE 1..Length

Reading(s) == ~exited /\ pc[s] = "read"

\* Mutant: the step to the next record leaves out the header.
TakeRecord_DataOnly(s) ==
  /\ Reading(s) /\ consumer[s] < producer[s]
  /\ \E length \in LengthAt(consumer[s]) :
       consumer' = Set(consumer, s, consumer[s] + length - HeaderSize)
  /\ UNCHANGED <<kernel, subscription, armed, pc, lock, producer, unsubscribed,
                 async_ioctl_failed, given_up, exited>>

\* The user takes the record at the consumer offset.
TakeRecord(s) ==
  /\ Reading(s) /\ consumer[s] < producer[s]
  /\ \E length \in LengthAt(consumer[s]) :
       consumer' = Set(consumer, s, consumer[s] + length)
  /\ UNCHANGED <<kernel, subscription, armed, pc, lock, producer, unsubscribed,
                 async_ioctl_failed, given_up, exited>>

\* There is no record left, or the user's callback asks to stop.
ReadDone(s) ==
  /\ Reading(s) /\ consumer[s] <= producer[s]
  /\ pc' = Set(pc, s, "lock")
  /\ UNCHANGED <<kernel, subscription, armed, lock, consumer, producer,
                 unsubscribed, async_ioctl_failed, given_up, exited>>

\* ebpf_ring_buffer_next_record asserts that the offsets are ordered.
ReadAsserts(s) ==
  /\ Reading(s) /\ consumer[s] > producer[s]
  /\ pc' = Set(pc, s, "asserted")
  /\ UNCHANGED <<kernel, subscription, armed, lock, consumer, producer,
                 unsubscribed, async_ioctl_failed, given_up, exited>>

\* The failed request is noted for unsubscribe.
MarkFailed(s) ==
  /\ ~exited /\ pc[s] = "failed"
  /\ async_ioctl_failed' = Set(async_ioctl_failed, s, TRUE)
  /\ pc' = Set(pc, s, "idle")
  /\ UNCHANGED <<kernel, subscription, armed, lock, consumer, producer,
                 unsubscribed, given_up, exited>>

\* Mutant: the next request is posted without a wait for it.
Repost_NoWait(s) ==
  /\ ~exited /\ pc[s] = "lock"
  /\ IF unsubscribed[s]
     THEN /\ subscription' = Set(subscription, s, "freed")
          /\ pc' = Set(pc, s, "idle")
          /\ UNCHANGED lock
     ELSE /\ lock' = Set(lock, s, TRUE)
          /\ pc' = Set(pc, s, "post")
          /\ UNCHANGED subscription
  /\ UNCHANGED <<kernel, armed, given_up, consumer, producer, unsubscribed,
                 async_ioctl_failed, exited>>

\* Under the lock: the last callback frees the subscription, any other one
\* registers the wait, which may fail, and posts the next request.
Repost(s) ==
  /\ ~exited /\ pc[s] = "lock"
  /\ \/ /\ unsubscribed[s]
        /\ subscription' = Set(subscription, s, "freed")
        /\ pc' = Set(pc, s, "idle")
        /\ UNCHANGED <<armed, lock, given_up>>
     \/ /\ ~unsubscribed[s]
        /\ RegisterWait(s)
        /\ lock' = Set(lock, s, TRUE)
        /\ pc' = Set(pc, s, "post")
        /\ UNCHANGED <<subscription, given_up>>
     \/ /\ ~unsubscribed[s]
        /\ given_up' = Set(given_up, s, TRUE)
        /\ pc' = Set(pc, s, "idle")
        /\ UNCHANGED <<subscription, armed, lock>>
  /\ UNCHANGED <<kernel, consumer, producer, unsubscribed, async_ioctl_failed,
                 exited>>

-----------------------------------------------------------------------------
\* Mutant: the pending request is left to the next record.
Unsubscribe_NoCancel(s) ==
  /\ ~exited /\ subscription[s] = "open" /\ ~unsubscribed[s] /\ ~lock[s]
  /\ unsubscribed' = Set(unsubscribed, s, TRUE)
  /\ subscription' = Set(subscription, s,
       IF async_ioctl_failed[s] THEN "freed" ELSE "open")
  /\ UNCHANGED <<kernel, armed, pc, lock, consumer, producer,
                 async_ioctl_failed, given_up, exited>>

\* ebpf_ring_buffer_map_unsubscribe.
Unsubscribe(s) ==
  /\ ~exited /\ subscription[s] = "open" /\ ~unsubscribed[s] /\ ~lock[s]
  /\ unsubscribed' = Set(unsubscribed, s, TRUE)
  /\ IF async_ioctl_failed[s]
     THEN /\ subscription' = Set(subscription, s, "freed")
          /\ UNCHANGED cancel
     ELSE /\ CancelCalls({s})
          /\ UNCHANGED subscription
  /\ UNCHANGED <<ring, producer_pc, query, irp, misfired, life, armed, pc, lock,
                 consumer, producer, async_ioctl_failed, given_up, exited>>

\* The process ends: no thread is inside a request, pending requests are
\* cancelled and all handles closed, which releases the map if nothing else
\* refers to it.
ProcessExit ==
  /\ ~exited /\ \A s \in Subscribers : handler[s] = "none"
  /\ exited' = TRUE
  /\ CancelCalls(Subscribers)
  /\ MapRelease \/ UNCHANGED life
  /\ subscription' = [s \in Subscribers |-> "freed"]
  /\ pc' = [s \in Subscribers |-> "idle"]
  /\ consumer' = [s \in Subscribers |-> 0]
  /\ producer' = [s \in Subscribers |-> 0]
  /\ armed' = Unset /\ lock' = Unset
  /\ unsubscribed' = Unset /\ async_ioctl_failed' = Unset /\ given_up' = Unset
  /\ UNCHANGED <<ring, producer_pc, query, irp, misfired>>

CancelStep(s) == CancelFind(s) \/ CancelRemove(s) \/ CancelComplete(s)

ApiStep(s) ==
  \/ Post(s) \/ HandlerStep(s) \/ Posted(s) \/ PostFailed(s)
  \/ Completion(s) \/ ReadDone(s) \/ ReadAsserts(s) \/ MarkFailed(s) \/ Repost(s)

Next ==
  \/ \E p \in Producers, n \in DataLengths : MapOutput(p, n) /\ UNCHANGED user
  \/ \E p \in Producers : Signal(p) /\ UNCHANGED user
  \/ \E s \in Subscribers :
       \/ Subscribe(s) \/ TakeRecord(s) \/ Unsubscribe(s) \/ ApiStep(s)
       \/ CancelStep(s) /\ UNCHANGED user
  \/ ProcessExit
  \/ MapDelete /\ UNCHANGED user

Spec == Init /\ [][Next]_vars

\* Threads run and every kernel routine ends; the user's callback takes a record
\* that is offered again and again.
Fairness ==
  /\ \A p \in Producers : WF_vars(Signal(p) /\ UNCHANGED user)
  /\ \A s \in Subscribers :
       /\ WF_vars(ApiStep(s)) /\ SF_vars(TakeRecord(s))
       /\ WF_vars(CancelStep(s) /\ UNCHANGED user)

FairSpec == Spec /\ Fairness

-----------------------------------------------------------------------------
\* The ring is a bounded FIFO of whole records (RingConsistent), and nobody uses
\* a subscription after unsubscribe or the last callback has freed it.
RingInv ==
  /\ TypeOK
  /\ RingConsistent
  /\ \A s \in Subscribers :
       subscription[s] = "freed" => pc[s] = "idle" /\ ~lock[s] /\ handler[s] = "none"

\* No wakeup is lost between the program that writes a record and the subscriber
\* that queues a query: if both a record and a query wait, a program is on its
\* way to complete the query (ebpf_ring_buffer_map_output against
\* ebpf_ring_buffer_map_async_query).
NoLostWakeup ==
  async_contexts # {} /\ UsedCapacity # 0 =>
    \E p \in Producers : producer_pc[p] = "signal"

\* A pending request can be completed: its context is queued, or the cancel
\* routine has taken it and is about to complete it; and only pending requests
\* have a context in the queue.  This holds as long as no cancel routine has met
\* a query that was completed meanwhile (see CompletedOnce).
PendingIsHeld ==
  \/ misfired
  \/ \A s \in Subscribers :
       /\ request[s] = "pending" =>
            /\ tracker[s] = "cancel" /\ context[s] = "live"
            /\ s \in async_contexts \/ cancel[s] = "removed"
       /\ s \in async_contexts => request[s] = "pending"

Alone(s) == \A q \in Subscribers \ {s} : subscription[q] = "none"

\* What the only subscriber of a map reads is a whole record as a program wrote
\* it: producers do not overwrite a record before its consumer offset was
\* returned with the next query.  (Two subscribers return each other's records.)
ReadsIntact ==
  \A s \in Subscribers :
    Alone(s) /\ Reading(s) =>
      /\ consumer_offset <= consumer[s] /\ consumer[s] <= producer[s]
      /\ consumer[s] < producer[s] =>
           \E k \in StartsAt(consumer[s]) : Intact(k)

Excused(s) == \/ async_ioctl_failed[s] \/ given_up[s] \/ exited \/ misfired \/ pc[s] = "asserted"

\* Somebody has unsubscribed, and the subscription is still there.
Unfreed == \E s \in Subscribers : unsubscribed[s] /\ subscription[s] # "freed" /\ ~Excused(s)

\* Unsubscribe and the completion callback agree on who frees the subscription:
\* it is freed, unless the callback sees a request fail only after the user has
\* unsubscribed, or has returned early because a call of its own failed.
SubscriptionFreed == Unfreed ~> ~Unfreed

Passed(s, k) ==
  k <= Len(output) /\
    (consumer[s] > output[k].offset \/ consumer_offset > output[k].offset)

\* A record waits for a subscriber that stays subscribed.
Undelivered ==
  \E s \in Subscribers, k \in DOMAIN output :
    subscription[s] = "open" /\ ~Passed(s, k) /\ ~unsubscribed[s] /\ ~Excused(s)

\* A record that a program has written reaches a subscriber that stays
\* subscribed, unless one of its requests fails: output and the repeated
\* queries of the completion callback never wait for each other.
RecordsDelivered == Undelivered ~> ~Undelivered

\* ebpf_async_complete asserts that no request is completed twice: when the
\* cancel routine comes to complete a request, its tracker is there.
CompletedOnce ==
  \A s \in Subscribers : cancel[s] = "removed" => tracker[s] # "none"
=============================================================================
