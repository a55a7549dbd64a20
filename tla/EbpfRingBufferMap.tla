-------------------------- MODULE EbpfRingBufferMap --------------------------
(* A ring buffer map in the kernel: programs that output records, the pending *)
(* query of a subscriber (ebpf_maps.c), its tracker (ebpf_async.c), and the   *)
(* request of the driver that carries it (ebpf_core.c, ebpf_drv.c).  Each     *)
(* subscriber has at most one request.  A critical section of the map's lock  *)
(* is one action; that of the ring's lock nests in it.                        *)
EXTENDS EbpfRingBuffer, FiniteSets

CONSTANTS Subscribers, Producers

VARIABLES
  producer_pc,     \* "idle", or "signal" between output and notification
  async_contexts, async_contexts_trip_wire,
  context,         \* memory of the query's context: "none", "live", "freed"
  tracker,         \* "none", "completion" (no cancel callback yet), "cancel"
  request,         \* "none", "handling", "pending" or its result
  reply,           \* consumer and producer offset
  handler,         \* step of the request's handler
  old_offset,      \* old_consumer_offset read by the handler
  cancel,          \* step of the request's cancel routine
  misfired,        \* a cancel routine acted on a context that was completed
  map_state,       \* "live", "released" (last handle closed) or "deleted"
  epoch_waiters    \* cancel routines the deletion waits for

query == <<async_contexts, async_contexts_trip_wire, context, tracker>>
irp == <<request, reply, handler, old_offset>>
life == <<map_state, epoch_waiters>>
kernel == <<ring, producer_pc, query, irp, cancel, misfired, life>>

Results == {"SUCCESS", "CANCELED", "FAILED"}
NoReply == [consumer |-> 0, producer |-> 0]
Set(f, x, v) == [f EXCEPT ![x] = v]

MapTypeOK ==
  /\ RingTypeOK
  /\ producer_pc \in [Producers -> {"idle", "signal"}]
  /\ async_contexts \subseteq Subscribers
  /\ async_contexts_trip_wire \in BOOLEAN
  /\ context \in [Subscribers -> {"none", "live", "freed"}]
  /\ tracker \in [Subscribers -> {"none", "completion", "cancel"}]
  /\ request \in [Subscribers -> {"none", "handling", "pending"} \cup Results]
  /\ reply \in [Subscribers -> [consumer : Nat, producer : Nat]]
  /\ handler \in [Subscribers -> {"none", "return", "query"}]
  /\ old_offset \in [Subscribers -> Nat]
  /\ cancel \in [Subscribers -> {"none", "called", "found", "removed"}]
  /\ misfired \in BOOLEAN
  /\ map_state \in {"live", "released", "deleted"}
  /\ epoch_waiters \subseteq Subscribers

MapInit ==
  /\ RingInit
  /\ producer_pc = [p \in Producers |-> "idle"]
  /\ async_contexts = {} /\ async_contexts_trip_wire = FALSE
  /\ context = [s \in Subscribers |-> "none"]
  /\ tracker = [s \in Subscribers |-> "none"]
  /\ request = [s \in Subscribers |-> "none"]
  /\ reply = [s \in Subscribers |-> NoReply]
  /\ handler = [s \in Subscribers |-> "none"]
  /\ old_offset = [s \in Subscribers |-> 0]
  /\ cancel = [s \in Subscribers |-> "none"]
  /\ misfired = FALSE
  /\ map_state = "live" /\ epoch_waiters = {}

-----------------------------------------------------------------------------
(* The tracker of an asynchronous request (ebpf_async.c), and completion.   *)

SetCompletionCallback(s) == tracker' = Set(tracker, s, "completion")

\* The tracker now leads to the context of the query.
SetCancelCallback(s) ==
  /\ tracker' = Set(tracker, s, "cancel")
  /\ context' = Set(context, s, "live")

RemoveTracker(s) == tracker' = Set(tracker, s, "none")

\* _ebpf_ring_buffer_map_signal_async_query_complete: every queued query of S
\* gets the offsets, its tracker goes, the driver completes the request
\* (_ebpf_driver_io_device_control_complete) and the context is freed.
SignalQueries(S) ==
  /\ reply' = [s \in Subscribers |->
       IF s \in S
       THEN [consumer |-> consumer_offset, producer |-> producer_offset]
       ELSE reply[s]]
  /\ tracker' = [s \in Subscribers |-> IF s \in S THEN "none" ELSE tracker[s]]
  /\ request' = [s \in Subscribers |-> IF s \in S THEN "SUCCESS" ELSE request[s]]
  /\ context' = [s \in Subscribers |-> IF s \in S THEN "freed" ELSE context[s]]

-----------------------------------------------------------------------------
(* Programs: ebpf_ring_buffer_map_output.                                   *)

MapOutput(p, n) ==
  /\ map_state = "live" /\ producer_pc[p] = "idle"
  /\ Len(output) < MaxRecords
  /\ \/ /\ Output(n)
        /\ producer_pc' = Set(producer_pc, p, "signal")
     \/ /\ OutOfSpace(n)
        /\ UNCHANGED producer_pc
  /\ UNCHANGED <<query, irp, cancel, misfired, life>>

Signal(p) ==
  /\ producer_pc[p] = "signal"
  /\ producer_pc' = Set(producer_pc, p, "idle")
  /\ LET S == IF async_contexts_trip_wire THEN async_contexts ELSE {} IN
     /\ SignalQueries(S)
     /\ async_contexts' = async_contexts \ S
  /\ UNCHANGED <<ring, async_contexts_trip_wire, handler, old_offset,
                 cancel, misfired, life>>

-----------------------------------------------------------------------------
(* The asynchronous query request.                                          *)

\* The driver marks the request cancelable, the tracker is set up, and
\* ebpf_ring_buffer_map_return_buffer reads the consumer offset.
HandlerBegin(s) ==
  /\ request[s] = "none"
  /\ request' = Set(request, s, "handling")
  /\ SetCompletionCallback(s)
  /\ context' = Set(context, s, "none")
  /\ handler' = Set(handler, s, "return")
  /\ old_offset' = Set(old_offset, s, consumer_offset)
  /\ UNCHANGED <<ring, producer_pc, async_contexts, async_contexts_trip_wire,
                 reply, cancel, misfired, life>>

\* The request fails: the tracker is reset and the request completed.
HandlerFails(s) ==
  /\ RemoveTracker(s)
  /\ request' = Set(request, s, "FAILED")
  /\ handler' = Set(handler, s, "none")
  /\ UNCHANGED <<ring, async_contexts, async_contexts_trip_wire, context, reply>>

\* The rest of return_buffer for the consumer offset of the request: the
\* difference to the offset read before is returned to the ring.  The request
\* fails if that is not possible, or if there was no memory for the tracker.
HandlerReturn(s, offset) ==
  LET length == offset - old_offset[s] IN
  /\ handler[s] = "return"
  /\ \/ /\ offset >= old_offset[s] /\ MayReturn(length)
        /\ Return(length)
        /\ handler' = Set(handler, s, "query")
        /\ UNCHANGED <<query, request, reply>>
     \/ HandlerFails(s)
  /\ old_offset' = Set(old_offset, s, 0)
  /\ UNCHANGED <<producer_pc, cancel, misfired, life>>

\* Mutant: the query is queued without a look at the ring.
QueueQuery_NoLook(s) ==
  /\ async_contexts = {}
  /\ async_contexts_trip_wire' = TRUE
  /\ handler' = Set(handler, s, "none")
  /\ async_contexts' = {s}
  /\ SetCancelCallback(s)
  /\ request' = Set(request, s, "pending")
  /\ UNCHANGED <<ring, reply>>

\* ebpf_ring_buffer_map_async_query: one query at a time is queued, and it is
\* completed at once if there is data.
QueueQuery(s) ==
  /\ async_contexts = {}
  /\ async_contexts_trip_wire' = TRUE
  /\ handler' = Set(handler, s, "none")
  /\ IF UsedCapacity # 0
     THEN /\ SignalQueries({s})
          /\ UNCHANGED async_contexts
     ELSE /\ async_contexts' = {s}
          /\ SetCancelCallback(s)
          /\ request' = Set(request, s, "pending")
          /\ UNCHANGED reply
  /\ UNCHANGED ring

\* A query is queued already, or there is no memory for the context.
HandlerQuery(s) ==
  /\ handler[s] = "query"
  /\ QueueQuery(s) \/ HandlerFails(s)
  /\ UNCHANGED <<producer_pc, old_offset, cancel, misfired, life>>

-----------------------------------------------------------------------------
(* Cancellation: _ebpf_driver_io_device_control_cancel, in an epoch.        *)

\* The framework calls the cancel routine of a pending request.
CancelCalls(S) ==
  cancel' = [s \in Subscribers |->
    IF s \in S /\ request[s] = "pending" /\ cancel[s] = "none"
    THEN "called" ELSE cancel[s]]

\* ebpf_async_cancel: the tracker leads to the context.
CancelFind(s) ==
  /\ cancel[s] = "called"
  /\ cancel' = Set(cancel, s, IF tracker[s] = "none" THEN "none" ELSE "found")
  /\ UNCHANGED <<ring, producer_pc, query, irp, misfired, life>>

\* _ebpf_ring_buffer_map_cancel_async_query takes the context off the list.  If
\* the query was completed meanwhile the context is gone: its stale list entry
\* may empty the list.
CancelRemove(s) ==
  /\ cancel[s] = "found"
  /\ cancel' = Set(cancel, s, "removed")
  /\ IF s \in async_contexts
     THEN /\ async_contexts' = async_contexts \ {s}
          /\ UNCHANGED misfired
     ELSE /\ async_contexts' \in {async_contexts, {}}
          /\ misfired' = TRUE
  /\ UNCHANGED <<ring, producer_pc, async_contexts_trip_wire, context, tracker,
                 irp, life>>

\* ebpf_async_complete, which asserts that there is a tracker, and the free.
CancelComplete(s) ==
  /\ cancel[s] = "removed"
  /\ cancel' = Set(cancel, s, "none")
  /\ epoch_waiters' = epoch_waiters \ {s}
  /\ context' = Set(context, s, "freed")
  /\ IF tracker[s] = "none"
     THEN UNCHANGED <<tracker, request>>
     ELSE /\ RemoveTracker(s)
          /\ request' = Set(request, s, "CANCELED")
  /\ UNCHANGED <<ring, producer_pc, async_contexts, async_contexts_trip_wire,
                 reply, handler, old_offset, misfired, map_state>>

-----------------------------------------------------------------------------
(* Deletion of the map, at the end of the epoch in which it was released.   *)

MapRelease ==
  /\ map_state = "live"
  /\ \A p \in Producers : producer_pc[p] = "idle"
  /\ map_state' = "released"
  /\ epoch_waiters' = {s \in Subscribers : cancel[s] \in {"found", "removed"}}

\* Mutant: the queries are taken off the list but not cancelled.
MapDelete_NoCancel ==
  /\ map_state = "released" /\ epoch_waiters = {}
  /\ map_state' = "deleted"
  /\ async_contexts' = {}
  /\ UNCHANGED <<ring, producer_pc, async_contexts_trip_wire, context, tracker,
                 irp, cancel, misfired, epoch_waiters>>

\* _delete_ring_buffer_map cancels what is queued and leaves the contexts.
MapDelete ==
  /\ map_state = "released" /\ epoch_waiters = {}
  /\ map_state' = "deleted"
  /\ async_contexts' = {}
  /\ tracker' = [s \in Subscribers |->
       IF s \in async_contexts THEN "none" ELSE tracker[s]]
  /\ request' = [s \in Subscribers |->
       IF s \in async_contexts THEN "CANCELED" ELSE request[s]]
  /\ UNCHANGED <<ring, producer_pc, async_contexts_trip_wire, context, reply,
                 handler, old_offset, cancel, misfired, epoch_waiters>>
=============================================================================
