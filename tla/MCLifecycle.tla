----------------------------- MODULE MCLifecycle -----------------------------
(***************************************************************************)
(* One run for the components whose question is that what was begun ends:  *)
(* objects, the subscriptions to a ring buffer, and the start and stop of  *)
(* the execution context.  Each behaviour is one of one component, which   *)
(* `component` names; the variables of the others keep their initial       *)
(* values.  No action that is assumed to be fair is enabled in these, so   *)
(* the fairness of a component does not restrict the behaviours of another *)
(* one.                                                                    *)
(***************************************************************************)
EXTENDS EbpfObject, Sequences

CONSTANTS
  \* RingBufferSubscription
  Length, DataLengths, MaxRecords, Subscribers, Producers,
  \* EbpfCoreLoad
  Programs

VARIABLES
  component,   \* the component this behaviour is one of
  \* RingBufferSubscription
  consumer_offset, producer_offset, buffer, output, producer_pc, async_contexts,
  async_contexts_trip_wire, context, tracker, request, reply, handler, old_offset, cancel,
  misfired, map_state, epoch_waiters, subscription, armed, ring_pc, lock, consumer,
  producer, unsubscribed, async_ioctl_failed, given_up, exited,
  \* EbpfCoreLoad
  mode, core_pc, core_todo, parts, core_phase, handle, core_pinned, attached, calls,
  native

ring_vars == <<consumer_offset, producer_offset, buffer, output, producer_pc,
  async_contexts, async_contexts_trip_wire, context, tracker, request, reply, handler,
  old_offset, cancel, misfired, map_state, epoch_waiters, subscription, armed, ring_pc,
  lock, consumer, producer, unsubscribed, async_ioctl_failed, given_up, exited>>
core_vars == <<mode, core_pc, core_todo, parts, core_phase, handle, core_pinned, attached,
  calls, native>>

Ring == INSTANCE RingBufferSubscription WITH
  pc <- ring_pc
Core == INSTANCE EbpfCoreLoad WITH
  pc <- core_pc, todo <- core_todo, phase <- core_phase, pinned <- core_pinned

ASSUME ConstantsFit == ObjectConstants /\ Ring!RingConstants

MCInit ==
  /\ component \in {"object", "ring", "core"}
  /\ Init /\ Ring!Init /\ Core!Init
  /\ component # "core" => mode = "kernel"

MCNext ==
  /\ UNCHANGED component
  /\ IF component = "object" THEN Next ELSE UNCHANGED vars
  /\ IF component = "ring" THEN Ring!Next ELSE UNCHANGED ring_vars
  /\ IF component = "core" THEN Core!Next ELSE UNCHANGED core_vars

MCSpec ==
  /\ MCInit /\ [][MCNext]_<<component, vars, ring_vars, core_vars>>
  /\ Fairness /\ Ring!Fairness /\ Core!Fairness

-----------------------------------------------------------------------------
\* A part of the execution context is terminated after all that uses it
\* (ebpf_core_initiate, ebpf_core_terminate).
PartsOutliveUsers == Core!PartsOutliveUsers

\* The ring is a FIFO of whole records, no wakeup of a waiting query is lost,
\* pending requests can be completed, and the only subscriber of a ring reads what
\* programs wrote (ebpf_ring_buffer.c, ebpf_maps.c).
RingInv ==
  component = "ring" => Ring!RingInv /\ Ring!NoLostWakeup /\ Ring!PendingIsHeld /\ Ring!ReadsIntact

Ongoing ==
  Unfinished \/ Ring!Unfreed \/ Ring!Undelivered \/ Core!Terminating

\* What was begun ends: an object without references is freed, a record
\* reaches a subscriber that stays and the subscription of one that leaves is
\* freed, and ebpf_core_terminate returns.  The components' UnreferencedIsFreed,
\* RecordsDelivered, SubscriptionFreed and TerminateReturns say it of each.
BegunEnds == Ongoing ~> ~Ongoing
=============================================================================
