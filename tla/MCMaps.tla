------------------------------- MODULE MCMaps -------------------------------
(***************************************************************************)
(* One run for maps: the hash table with its LRU lists, the other map      *)
(* types, and the ring buffer with its subscribers.  Each behaviour is one *)
(* of one component, which `component` names; the variables of the others  *)
(* keep their initial values.                                              *)
(***************************************************************************)
EXTENDS EbpfLruMap

CONSTANTS
  \* EbpfMaps
  Types, MapMaxEntries, MapKeys, Values, KeyBits, BITS_IN_BLOCK, Byte, Objects,
  ObjectOf(_), BatchSize, MapBudget(_),
  \* RingBufferSubscription
  Length, DataLengths, MaxRecords, Subscribers, Producers

VARIABLES
  component,   \* the component this behaviour is one of
  \* EbpfMaps
  map, data, begin, end, bitmap, setting, live, id_references, unreleased, map_reply,
  map_walk, requests,
  \* RingBufferSubscription
  consumer_offset, producer_offset, buffer, output, producer_pc, async_contexts,
  async_contexts_trip_wire, context, tracker, request, ring_reply, handler, old_offset,
  cancel, misfired, map_state, epoch_waiters, subscription, armed, ring_pc, ring_lock,
  consumer, producer, unsubscribed, async_ioctl_failed, given_up, exited

map_vars == <<map, data, begin, end, bitmap, setting, live, id_references, unreleased,
  map_reply, map_walk, requests>>
ring_vars == <<consumer_offset, producer_offset, buffer, output, producer_pc,
  async_contexts, async_contexts_trip_wire, context, tracker, request, ring_reply,
  handler, old_offset, cancel, misfired, map_state, epoch_waiters, subscription, armed,
  ring_pc, ring_lock, consumer, producer, unsubscribed, async_ioctl_failed, given_up,
  exited>>

Maps == INSTANCE EbpfMaps WITH
  MaxEntries <- MapMaxEntries, Keys <- MapKeys, Budget <- MapBudget, reply <- map_reply,
  walk <- map_walk
Ring == INSTANCE RingBufferSubscription WITH
  reply <- ring_reply, pc <- ring_pc, lock <- ring_lock

ASSUME ConstantsFit == Ring!RingConstants

\* Keys 1 and 2 share a bucket.
BucketOfKey(k) == k \div 3
CpuOfThread(t) == t
FailsIfPlain(lru) == ~lru

\* Tables without key history are tried with every kind of task, LRU maps with
\* enough updates to fill the map and reap.
BudgetOfTable(lru) ==
  IF lru THEN [kinds |-> {"find", "update"}, options |-> {"INSERT_OR_UPDATE"},
               tasks |-> 4, serial |-> 2]
  ELSE [kinds |-> Kinds, options |-> Operations \ {"DELETE"}, tasks |-> 2, serial |-> 0]

\* Two programs of different types, and two maps with different definitions, one
\* of which holds programs.
MCObject(o) ==
  CASE o = 11 -> [kind |-> "program", program_type |-> "xdp", definition |-> None]
    [] o = 12 -> [kind |-> "program", program_type |-> "bind", definition |-> None]
    [] o = 13 -> [kind |-> "map", program_type |-> None, definition |-> "d1"]
    [] o = 14 -> [kind |-> "map", program_type |-> "xdp", definition |-> "d2"]

BudgetOfMap(type) ==
  CASE type = "LPM_TRIE" -> [requests |-> 5, values |-> Values, options |-> {"ANY"}]
    [] type \in Maps!Circular -> [requests |-> 6, values |-> Values, options |-> {}]
    [] type \in {"ARRAY", "HASH"} -> [requests |-> 5, values |-> {1}, options |-> Maps!Options]
    [] OTHER -> [requests |-> 3, values |-> {}, options |-> Maps!Options]

MCInit ==
  /\ component \in {"table", "map", "ring"}
  /\ Init /\ Maps!Init /\ Ring!Init
  /\ component # "table" => notification_callback = FALSE

MCNext ==
  \/ /\ component = "table"
     /\ UNCHANGED <<component, map_vars, ring_vars>>
     /\ Next
  \/ /\ component = "map"
     /\ UNCHANGED <<component, vars, ring_vars>>
     /\ Maps!Next
  \/ /\ component = "ring"
     /\ UNCHANGED <<component, vars, map_vars>>
     /\ Ring!Next

MCSpec == MCInit /\ [][MCNext]_<<component, vars, map_vars, ring_vars>>

-----------------------------------------------------------------------------
\* Maps of objects hold references for exactly the ids they store, and for those
\* that a lookup with the delete flag took out of a map of maps, of programs and
\* maps that fit (_update_array_map_entry_with_handle and its kind).
ObjectMapInv == component = "map" => Maps!ObjectMapInv

\* A lookup in an LPM trie answers with the longest prefix that matches, of those
\* whose update has returned (_find_lpm_map_entry, _update_lpm_map_entry).
LongestPrefix == component = "map" => Maps!LongestPrefix

\* A walk over the keys of a map that does not change visits each of them once
\* (ebpf_map_next_key, ebpf_map_get_next_key_and_value_batch).
WalkComplete == component = "map" => Maps!WalkComplete

\* Queues and stacks implement CircularMapSpec: a sequence with push and pop at
\* its ends (the circular maps of ebpf_maps.c).
CircularIsSequence == Maps!CircularIsSequence

\* With two subscribers on a ring it stays a FIFO of whole records, no wakeup of a
\* waiting query is lost, every pending request can be completed, and what the
\* only subscriber reads is what programs wrote (ebpf_ring_buffer.c, ebpf_maps.c).
RingShared ==
  component = "ring" => Ring!RingInv /\ Ring!NoLostWakeup /\ Ring!PendingIsHeld /\ Ring!ReadsIntact
=============================================================================
