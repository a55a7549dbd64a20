------------------------------ MODULE EbpfLruMap ------------------------------
(* Maps kept in a hash table (ebpf_maps.c): BPF_MAP_TYPE_HASH and its per-CPU *)
(* and LRU kinds.  An LRU map has the table tell it of every allocation, use  *)
(* and free, and keeps per partition a hot and a cold list of blocks; when    *)
(* the table is full an update reaps the oldest block of the cold lists and   *)
(* tries again.  A critical section of a partition's lock is one action.      *)
EXTENDS EbpfHashTable

CONSTANTS
  PartitionCount,
  CpuOf(_),        \* the CPU a thread runs on; it does not move in an epoch
  Ticks,           \* how far the clock may move between two readings
  Budget(_)        \* bounds, for maps with and without key history: the kinds of
                   \* task, the options of an update, the number of tasks, and
                   \* how many updates come first, one after the other

VARIABLES
  hot_list, cold_list, current_generation, hot_list_size,
  generation, last_used_time,          \* of each block, per partition
  tasks,
  task, phase,     \* what each thread does with the map, and how far it is
  partition,       \* where it is in a walk of the partitions
  non_empty_partition_found, oldest_entry, oldest_timestamp

lists == <<hot_list, cold_list, current_generation, hot_list_size>>
history == <<generation, last_used_time>>
walk == <<partition, non_empty_partition_found, oldest_entry, oldest_timestamp>>
vars == <<table, locals, pc, lists, history, tasks, task, phase, walk>>

Partitions == 0 .. PartitionCount - 1
EBPF_LRU_GENERATION_COUNT == 10
\* 2^64 - 1 in the code; here a number that no generation and no clock reaches.
MAXUINT64 == 1000
INVALID == MAXUINT64      \* EBPF_LRU_INVALID_GENERATION

hot_list_limit ==
  LET share == (MaxEntries \div PartitionCount) \div EBPF_LRU_GENERATION_COUNT
  IN  IF share > 1 THEN share ELSE 1

Bounds == Budget(notification_callback)
Kinds == {"find", "find_and_delete", "update", "update_per_cpu", "delete", "next_key"}
NoTask == [kind |-> None, key |-> None, option |-> None]
-----------------------------------------------------------------------------
(* Key history.                                                               *)

KeyState(d, p) ==
  CASE generation[d][p] = 0 -> "UNINITIALIZED"
    [] generation[d][p] = INVALID -> "DELETED"
    [] generation[d][p] = current_generation[p] -> "HOT"
    [] OTHER -> "COLD"

\* ebpf_query_time_since_boot: not before any time that is stored.
Clock == Max(UNION {Range(last_used_time[d]) : d \in Data})

PartitionOf(t) == CpuOf(t) % PartitionCount

\* The size is compared before the new block is counted.
HotListFull_Late(p) == hot_list_size[p] > hot_list_limit
HotListFull(p) == hot_list_size[p] + 1 > hot_list_limit

\* The block goes to the end of the hot list p, and the hot list is merged into
\* the cold one when it has grown beyond its limit.
MakeHot(d, p, time) ==
  LET hot == Append(hot_list[p], d)
      cold == Remove(cold_list[p], d)
      merge == HotListFull(p)
  IN  /\ generation' = [generation EXCEPT ![d][p] = current_generation[p]]
      /\ last_used_time' = [last_used_time EXCEPT ![d][p] = time]
      /\ hot_list' = [hot_list EXCEPT ![p] = IF merge THEN <<>> ELSE hot]
      /\ cold_list' = [cold_list EXCEPT ![p] = IF merge THEN cold \o hot ELSE cold]
      /\ hot_list_size' = [hot_list_size EXCEPT ![p] = IF merge THEN 0 ELSE @ + 1]
      /\ current_generation' = [current_generation EXCEPT ![p] = IF merge THEN @ + 1 ELSE @]

\* _initialize_lru_entry, under the lock of the bucket.
InitializeEntry(t) ==
  /\ pc[t] = "allocate"
  /\ \E k \in Ticks : MakeHot(new_data[t], PartitionOf(t), Clock + k)
  /\ pc' = [pc EXCEPT ![t] = "replace"]
  /\ UNCHANGED <<table, locals, tasks, task, phase, walk>>

\* _insert_into_hot_list: the state is read, the lock taken, the state read again.
UseEntry(t) ==
  /\ pc[t] = "use"
  /\ pc' = [pc EXCEPT ![t] =
       IF KeyState(found[t], PartitionOf(t)) \in {"UNINITIALIZED", "COLD"}
       THEN "use_locked" ELSE "return"]
  /\ UNCHANGED <<table, locals, lists, history, tasks, task, phase, walk>>

\* The second look is dropped.
StillUsable_Assumed(d, p) == TRUE
StillUsable(d, p) == KeyState(d, p) \in {"UNINITIALIZED", "COLD"}

UseEntryLocked(t) ==
  /\ pc[t] = "use_locked"
  /\ \/ /\ StillUsable(found[t], PartitionOf(t))
        /\ \E k \in Ticks : MakeHot(found[t], PartitionOf(t), Clock + k)
     \/ /\ ~StillUsable(found[t], PartitionOf(t))
        /\ UNCHANGED <<lists, history>>
  /\ pc' = [pc EXCEPT ![t] = "return"]
  /\ UNCHANGED <<table, locals, tasks, task, phase, walk>>

\* _uninitialize_lru_entry: partition after partition, then the block is freed.
UninitializeEntry(t) ==
  /\ pc[t] = "free" /\ notification_callback /\ Dead(t) # None
  /\ LET d == Dead(t)
         p == partition[t]
     IN  \/ /\ p < PartitionCount
            /\ hot_list_size' = [hot_list_size EXCEPT ![p] =
                 IF KeyState(d, p) = "HOT" THEN @ - 1 ELSE @]
            /\ hot_list' = [hot_list EXCEPT ![p] = Remove(@, d)]
            /\ cold_list' = [cold_list EXCEPT ![p] = Remove(@, d)]
            /\ generation' = [generation EXCEPT ![d][p] = INVALID]
            /\ partition' = [partition EXCEPT ![t] = p + 1]
            /\ UNCHANGED <<table, locals, pc, current_generation>>
         \/ /\ p = PartitionCount
            /\ partition' = [partition EXCEPT ![t] = 0]
            /\ FreeBlocks(t)
            /\ UNCHANGED <<header, lock, entry_count, notification_callback>>
            /\ UNCHANGED <<call, result, found, cursor, lists, generation>>
  /\ UNCHANGED <<last_used_time, tasks, task, phase>>
  /\ UNCHANGED <<non_empty_partition_found, oldest_entry, oldest_timestamp>>
-----------------------------------------------------------------------------
(* _reap_lru_cold_lists.                                                      *)

HighestTimestamp(d) ==
  CHOOSE m \in {last_used_time[d][p] : p \in Partitions} :
    \A p \in Partitions : last_used_time[d][p] <= m

\* A block that is listed twice is dropped where it was used last.
Redundant_Newest(d, p) ==
  \E q \in Partitions : last_used_time[d][q] # last_used_time[d][p]
Redundant(d, p) == last_used_time[d][p] # HighestTimestamp(d)

StartReap(t) ==
  /\ pc' = [pc EXCEPT ![t] = "reap"]
  /\ partition' = [partition EXCEPT ![t] = 0]
  /\ non_empty_partition_found' = [non_empty_partition_found EXCEPT ![t] = FALSE]
  /\ oldest_entry' = [oldest_entry EXCEPT ![t] = None]
  /\ oldest_timestamp' = [oldest_timestamp EXCEPT ![t] = MAXUINT64]

\* A look at the next cold list without its lock.
ReapScan(t) ==
  /\ pc[t] = "reap" /\ partition[t] < PartitionCount
  /\ IF cold_list[partition[t]] = <<>>
     THEN /\ partition' = [partition EXCEPT ![t] = @ + 1]
          /\ UNCHANGED <<pc, non_empty_partition_found>>
     ELSE /\ non_empty_partition_found' = [non_empty_partition_found EXCEPT ![t] = TRUE]
          /\ pc' = [pc EXCEPT ![t] = "reap_locked"]
          /\ UNCHANGED partition
  /\ UNCHANGED <<table, locals, lists, history, tasks, task, phase>>
  /\ UNCHANGED <<oldest_entry, oldest_timestamp>>

\* Under the lock: the head of the cold list is dropped from it when the block
\* was used later in another partition, else it may be the oldest.
ReapLocked(t) ==
  LET p == partition[t]
      d == Head(cold_list[p])
  IN  /\ pc[t] = "reap_locked"
      /\ \/ /\ cold_list[p] = <<>>
            /\ UNCHANGED <<cold_list, generation, oldest_entry, oldest_timestamp>>
         \/ /\ cold_list[p] # <<>> /\ Redundant(d, p)
            /\ cold_list' = [cold_list EXCEPT ![p] = Tail(@)]
            /\ generation' = [generation EXCEPT ![d][p] = 0]
            /\ UNCHANGED <<oldest_entry, oldest_timestamp>>
         \/ /\ cold_list[p] # <<>> /\ ~Redundant(d, p)
            /\ IF HighestTimestamp(d) < oldest_timestamp[t]
               THEN /\ oldest_entry' = [oldest_entry EXCEPT ![t] = d]
                    /\ oldest_timestamp' = [oldest_timestamp EXCEPT ![t] = HighestTimestamp(d)]
               ELSE UNCHANGED <<oldest_entry, oldest_timestamp>>
            /\ UNCHANGED <<cold_list, generation>>
      /\ pc' = [pc EXCEPT ![t] = "reap"]
      /\ partition' = [partition EXCEPT ![t] = p + 1]
      /\ UNCHANGED <<table, locals, tasks, task, phase, last_used_time>>
      /\ UNCHANGED <<hot_list, hot_list_size, current_generation, non_empty_partition_found>>

\* All partitions seen: again, or _reap_oldest_map_entry deletes what was found
\* and the update is tried again.
Retry(t) == StartCall(t, "lock", task[t].option, task[t].key)

ReapDone(t) ==
  /\ pc[t] = "reap" /\ partition[t] = PartitionCount
  /\ IF oldest_entry[t] = None /\ non_empty_partition_found[t]
     THEN StartReap(t) /\ UNCHANGED <<call, phase>>
     ELSE /\ partition' = [partition EXCEPT ![t] = 0]
          /\ non_empty_partition_found' = [non_empty_partition_found EXCEPT ![t] = FALSE]
          /\ oldest_timestamp' = [oldest_timestamp EXCEPT ![t] = 0]
          /\ IF oldest_entry[t] = None
             THEN Retry(t) /\ UNCHANGED <<phase, oldest_entry>>
             ELSE /\ StartCall(t, "lock", "DELETE", block[oldest_entry[t]].key)
                  /\ phase' = [phase EXCEPT ![t] = "reaping"]
                  /\ oldest_entry' = [oldest_entry EXCEPT ![t] = None]
  /\ UNCHANGED <<table, result, new_data, old_data, found, cursor>>
  /\ UNCHANGED <<lists, history, tasks, task>>
-----------------------------------------------------------------------------
(* Requests and helper calls.                                                 *)

Begin(t, kind, key, option) ==
  /\ pc[t] = "idle" /\ tasks < Bounds.tasks /\ kind \in Bounds.kinds
  /\ tasks <= Bounds.serial => \A u \in Threads : pc[u] = "idle"
  /\ tasks < Bounds.serial => kind = "update"
  /\ tasks' = tasks + 1
  /\ task' = [task EXCEPT ![t] = [kind |-> kind, key |-> key, option |-> option]]
  /\ phase' = [phase EXCEPT ![t] = "first"]
  /\ UNCHANGED <<table, result, new_data, old_data, found>>
  /\ UNCHANGED <<lists, history, walk>>

\* _find_hash_map_entry, _update_entry_per_cpu
BeginFind(t, key) ==
  \E kind \in {"find", "find_and_delete", "update_per_cpu"} :
    /\ Begin(t, kind, key, "INSERT_OR_UPDATE")
    /\ StartCall(t, "find", None, key) /\ UNCHANGED cursor

\* _update_hash_map_entry, _delete_hash_map_entry
BeginUpdate(t, key) ==
  \E option \in Bounds.options :
    Begin(t, "update", key, option) /\ StartCall(t, "lock", option, key) /\ UNCHANGED cursor
BeginDelete(t, key) ==
  Begin(t, "delete", key, None) /\ StartCall(t, "lock", "DELETE", key) /\ UNCHANGED cursor

\* _next_hash_map_key_and_value
BeginNext(t, previous) == Begin(t, "next_key", previous, None) /\ StartNext(t, previous)

End(t) ==
  /\ pc' = [pc EXCEPT ![t] = "idle"]
  /\ call' = [call EXCEPT ![t] = NoCall]
  /\ result' = [result EXCEPT ![t] = None]
  /\ found' = [found EXCEPT ![t] = None]
  /\ task' = [task EXCEPT ![t] = NoTask]
  /\ phase' = [phase EXCEPT ![t] = None]
  /\ block' = LeaveEpoch(t, block)
  /\ generation' = [d \in Data |->
       IF block'[d] = Unused THEN [p \in Partitions |-> 0] ELSE generation[d]]
  /\ last_used_time' = [d \in Data |->
       IF block'[d] = Unused THEN [p \in Partitions |-> 0] ELSE last_used_time[d]]
  /\ UNCHANGED <<cursor, walk>>

\* What is done with the outcome of a call of the table.
GoOn(t, to) ==
  /\ phase' = [phase EXCEPT ![t] = to]
  /\ UNCHANGED <<block, generation, last_used_time, result, found, task, walk>>

Full(t) == result[t] = "OUT_OF_SPACE" /\ notification_callback

Return(t) ==
  /\ pc[t] = "return"
  /\ LET kind == task[t].kind
         at(k, p) == kind = k /\ phase[t] = p
         ok == result[t] = "SUCCESS"
     IN  \* The loop of _update_hash_map_entry.
         \/ /\ kind \in {"update", "update_per_cpu"} /\ phase[t] # "reaping" /\ Full(t)
            /\ StartReap(t)
            /\ UNCHANGED <<block, generation, last_used_time, call, result, found, cursor, task, phase>>
         \/ /\ phase[t] = "reaping"
            /\ Retry(t) /\ GoOn(t, IF kind = "update" THEN "first" ELSE "second")
            /\ UNCHANGED cursor
         \* delete_on_success: the entry that is there now is deleted.
         \/ /\ at("find_and_delete", "first")
            /\ StartCall(t, "lock", "DELETE", task[t].key) /\ GoOn(t, "second")
            /\ UNCHANGED cursor
         \* _update_entry_per_cpu: insert a zeroed value, look it up again.
         \/ /\ at("update_per_cpu", "first") /\ ~ok
            /\ Retry(t) /\ GoOn(t, "second") /\ UNCHANGED cursor
         \/ /\ at("update_per_cpu", "second") /\ ok
            /\ StartCall(t, "find", None, task[t].key) /\ GoOn(t, "third")
            /\ UNCHANGED cursor
         \* The previous key has gone: the first key is returned instead.
         \/ /\ at("next_key", "first") /\ result[t] = "KEY_NOT_FOUND"
            /\ StartNext(t, None) /\ GoOn(t, "second")
         \/ /\ \/ kind = "find" \/ kind = "delete"
               \/ kind = "update" /\ phase[t] = "first" /\ ~Full(t)
               \/ at("find_and_delete", "second")
               \/ at("update_per_cpu", "first") /\ ok
               \/ at("update_per_cpu", "second") /\ ~ok /\ ~Full(t)
               \/ at("update_per_cpu", "third")
               \/ at("next_key", "first") /\ result[t] # "KEY_NOT_FOUND"
               \/ at("next_key", "second")
            /\ End(t)
  /\ UNCHANGED <<header, lock, entry_count, notification_callback, new_data, old_data>>
  /\ UNCHANGED <<lists, tasks>>
\* _delete_hash_map, _delete_lru_hash_map: the table, then the map with its
\* lists.  The tasks end with the map.
DeleteMap ==
  /\ tasks < Bounds.tasks /\ tasks' = Bounds.tasks
  /\ Destroy
  /\ hot_list' = [p \in Partitions |-> <<>>]
  /\ cold_list' = [p \in Partitions |-> <<>>]
  /\ hot_list_size' = [p \in Partitions |-> 0]
  /\ current_generation' = [p \in Partitions |-> 1]
  /\ generation' = [d \in Data |-> [p \in Partitions |-> 0]]
  /\ last_used_time' = [d \in Data |-> [p \in Partitions |-> 0]]
  /\ UNCHANGED <<locals, pc, task, phase, walk>>
-----------------------------------------------------------------------------
\* A map with key history, or one without.
Init ==
  /\ TableInit
  /\ notification_callback \in BOOLEAN
  /\ hot_list = [p \in Partitions |-> <<>>]
  /\ cold_list = [p \in Partitions |-> <<>>]
  /\ current_generation = [p \in Partitions |-> 1]
  /\ hot_list_size = [p \in Partitions |-> 0]
  /\ generation = [d \in Data |-> [p \in Partitions |-> 0]]
  /\ last_used_time = [d \in Data |-> [p \in Partitions |-> 0]]
  /\ tasks = 0
  /\ task = [t \in Threads |-> NoTask]
  /\ phase = [t \in Threads |-> None]
  /\ partition = [t \in Threads |-> 0]
  /\ non_empty_partition_found = [t \in Threads |-> FALSE]
  /\ oldest_entry = [t \in Threads |-> None]
  /\ oldest_timestamp = [t \in Threads |-> 0]

Step(t) ==
  \/ TableStep(t) /\ UNCHANGED <<lists, history, tasks, task, phase, walk>>
  \/ InitializeEntry(t) \/ UseEntry(t) \/ UseEntryLocked(t) \/ UninitializeEntry(t)
  \/ ReapScan(t) \/ ReapLocked(t) \/ ReapDone(t) \/ Return(t)

Next ==
  \/ DeleteMap
  \/ \E t \in Threads :
       \/ \E key \in Keys : BeginFind(t, key) \/ BeginUpdate(t, key) \/ BeginDelete(t, key)
       \/ \E previous \in Keys \cup {None} : BeginNext(t, previous)
       \/ Step(t)

Spec == Init /\ [][Next]_vars

-----------------------------------------------------------------------------
(* Properties.                                                                *)

\* Threads between the change of entry_count and the publication.
InFlight(S) == {t \in Threads : pc[t] = "unlock" /\ call[t].operation \in S
                               /\ Position(t) = 0 /\ result[t] \in {"SUCCESS", "OUT_OF_SPACE", "NO_MEMORY"}}
Leaving == {t \in Threads : pc[t] = "unlock" /\ call[t].operation = "DELETE" /\ result[t] = "SUCCESS"}
Rejected == {t \in Threads : pc[t] = "unlock" /\ result[t] \in {"OUT_OF_SPACE", "NO_MEMORY"} /\ Position(t) = 0}

\* entry_count is the number of published entries, give or take the calls that
\* are between the count and the publication, and without the rejected ones it
\* never exceeds max_entries (ebpf_hash_table.c 277-281, 397); the backup bucket
\* of an entry has exactly the size a delete will need (ebpf_assert, 353-391);
\* a key is in its bucket once; and a block that is neither published nor in the
\* hands of a writer is not allocated: replacing a bucket leaks nothing.
TableInv ==
  /\ TableTypeOK
  /\ entry_count + Cardinality(Leaving)
       = Cardinality(Published) + Cardinality(InFlight({"INSERT", "INSERT_OR_UPDATE"}))
  /\ entry_count - Cardinality(Rejected) <= max_entry_count
  /\ \A b \in Indexes : \A i \in DOMAIN header[b] :
       /\ header[b][i].backup = i - 1
       /\ BucketOf(header[b][i].key) = b
       /\ IndexOf(header[b], header[b][i].key) = i
       /\ block[header[b][i].data].key = header[b][i].key
  /\ {d \in Data : block[d].state = "live"}
       = Published \cup (UNION {{new_data[t], old_data[t]} : t \in Threads} \ {None})

\* What a thread has in its hands, and what a list links, is memory that has not
\* been released: a block is unlinked from every partition before it is freed,
\* and a late use does not link it again (_insert_into_hot_list reads the state
\* again under the lock).
HeldIsAllocated ==
  /\ \A t \in Threads : \A d \in {found[t], oldest_entry[t], new_data[t], old_data[t]} \ {None} :
       block[d].state # "unused"
  /\ \A p \in Partitions : \A d \in Range(hot_list[p]) \cup Range(cold_list[p]) :
       block[d].state = "live"

\* The lists of a partition are what the generations say: hot_list_size counts
\* the hot list, a block is listed at most once, hot or cold as its generation
\* is, and a block whose generation is reset or invalid is not listed.
ListsMatchGenerations ==
  \A p \in Partitions :
    /\ hot_list_size[p] = Len(hot_list[p])
    /\ Cardinality(Range(hot_list[p] \o cold_list[p])) = Len(hot_list[p]) + Len(cold_list[p])
    /\ \A d \in Data :
         /\ d \in Range(hot_list[p]) <=> KeyState(d, p) = "HOT"
         /\ d \in Range(cold_list[p]) <=> KeyState(d, p) = "COLD"

\* Every entry of an LRU map can be found by a reap: it is on a list of some
\* partition, where it was used last, so that dropping the other places in
\* _reap_lru_cold_lists never loses it.
EntriesReapable ==
  notification_callback =>
    \A d \in Published : \E p \in Partitions :
      /\ KeyState(d, p) \in {"HOT", "COLD"}
      /\ last_used_time[d][p] = HighestTimestamp(d)

\* A reap of a full map that nobody else is working on finds something to delete,
\* so that the loop of _update_hash_map_entry (1551-1568) makes room: the block
\* just allocated has pushed the hot list of its partition over the limit, or
\* one of the others has been merged before.  That takes a map with at least as
\* many entries as there are partitions.  In a smaller one every entry can be the
\* only block of a hot list, and the loop never ends; nothing in the code keeps
\* max_entries above the number of processors.
ReapFindsRoom ==
  MaxEntries >= PartitionCount => \A t \in Threads :
    (pc[t] = "reap" /\ partition[t] = 0 /\ \A u \in Threads \ {t} : pc[u] = "idle")
      => entry_count < MaxEntries \/ \E p \in Partitions : cold_list[p] # <<>>

\* The table, the memory and the lists of a hash map agree in every state.
HashMapInv == TableInv /\ HeldIsAllocated /\ ListsMatchGenerations

\* Every entry of an LRU map can be reaped, and a reap of a full map that nobody
\* else is working on makes room, if the map has no fewer entries than partitions
\* (_reap_lru_cold_lists, _update_hash_map_entry).
ReapMakesRoom == EntriesReapable /\ ReapFindsRoom
=============================================================================
