---------------------------- MODULE EbpfHashTable ----------------------------
(* The hash table of the runtime (ebpf_hash_table.c).  A bucket is immutable  *)
(* once published: a writer builds its successor under the bucket's lock and  *)
(* swaps the pointer, a reader takes the pointer without the lock.  What an   *)
(* entry points to is a block of memory in Data; a call returns the block, so *)
(* which block a key has is all that is kept of its value.  Freed memory is   *)
(* released when every thread that was in the epoch has left it.              *)
(*                                                                            *)
(* Each thread runs one call of the table at a time: call[t] says which, pc   *)
(* where it is.  A call ends in pc = "return" with its outcome in result, for *)
(* the owner of the table to go on from.  With a notification callback the    *)
(* steps "allocate", "use" and "free" are the owner's.                        *)
EXTENDS Naturals, Sequences, FiniteSets, SequencesExt

CONSTANTS
  Keys, BucketCount,
  BucketOf(_),     \* _ebpf_hash_table_compute_bucket_index, any hash and seed
  MaxEntries,      \* of a map with a fixed size
  Data,            \* blocks of memory for values, a set of naturals
  Threads,
  AllocationFails(_), \* whether an allocation of a table with callbacks may fail
  None

VARIABLES
  header,          \* buckets[b].header: the entries of the bucket
  lock,            \* buckets[b].lock
  entry_count,
  block,           \* memory of the values
  notification_callback,
  pc, call, result,
  new_data, old_data, found,
  cursor           \* where ebpf_hash_table_next_key is

table == <<header, lock, entry_count, block, notification_callback>>
locals == <<call, result, new_data, old_data, found, cursor>>

Indexes == 0 .. BucketCount - 1
Operations == {"INSERT_OR_UPDATE", "INSERT", "UPDATE", "DELETE"}
NoCall == [operation |-> None, key |-> None]
NoCursor == [bucket |-> 0, found |-> FALSE]

\* Only the maps with key history are of fixed size; a plain hash map is not
\* held to its max_entries.  NO_LIMIT is more than the blocks there are.
NO_LIMIT == Cardinality(Data) + Cardinality(Threads)
max_entry_count == IF notification_callback THEN MaxEntries ELSE NO_LIMIT

\* An entry of a bucket.  The backup bucket is memory kept for a delete; only
\* its count is read before it is overwritten.
Entry(key, data, backup) == [key |-> key, data |-> data, backup |-> backup]

Unused == [state |-> "unused", key |-> None, watchers |-> {}]
Live(key) == [state |-> "live", key |-> key, watchers |-> {}]
-----------------------------------------------------------------------------
(* Buckets.                                                                   *)

\* The position of key in a bucket, 0 if it has none.
IndexOf(bucket, key) ==
  IF \E i \in DOMAIN bucket : bucket[i].key = key
  THEN CHOOSE i \in DOMAIN bucket : bucket[i].key = key ELSE 0

BucketInsert(bucket, key, data) ==
  Append(bucket, Entry(key, data, Len(bucket)))

BucketUpdate(bucket, index, data) == [bucket EXCEPT ![index].data = data]

\* The backup buckets move up with the entries.
BucketDelete_MovesBackups(bucket, index) == RemoveAt(bucket, index)

\* Keys and values move up, the backup buckets stay where they are: the one of
\* the last entry has become the bucket.
BucketDelete(bucket, index) ==
  LET rest == RemoveAt(bucket, index)
  IN  [i \in DOMAIN rest |-> [rest[i] EXCEPT !.backup = bucket[i].backup]]

Entries(b) == Range(header[b])
Published == UNION {{e.data : e \in Entries(b)} : b \in Indexes}
DataOf(key) ==
  LET b == header[BucketOf(key)]
  IN  IF IndexOf(b, key) = 0 THEN None ELSE b[IndexOf(b, key)].data
-----------------------------------------------------------------------------
(* Memory.  Every thread in a call is in the epoch.                           *)

InEpoch == {t \in Threads : pc[t] # "idle"}

Allocated(d, key) == [block EXCEPT ![d] = Live(key)]

\* The lowest unused block: which one memory comes from does not matter.
Fresh == {d \in Data : /\ block[d].state = "unused"
                       /\ \A e \in Data : block[e].state = "unused" => d <= e}

\* hash_table->free: ebpf_epoch_free of a block, nothing for a null pointer.
Retire(d) ==
  IF d = None THEN block
  ELSE [block EXCEPT ![d].state = "retired", ![d].watchers = InEpoch]

\* Leaving the epoch; a retired block that nobody watches any more is released.
LeaveEpoch(t, memory) ==
  [d \in Data |->
     LET w == memory[d].watchers \ {t}
     IN  IF memory[d].state = "retired" /\ w = {} THEN Unused
         ELSE [memory[d] EXCEPT !.watchers = w]]
-----------------------------------------------------------------------------
(* ebpf_hash_table_find.                                                      *)

StartCall(t, first, operation, key) ==
  /\ pc' = [pc EXCEPT ![t] = first]
  /\ call' = [call EXCEPT ![t] = [operation |-> operation, key |-> key]]

Find(t) ==
  /\ pc[t] = "find"
  /\ LET d == DataOf(call[t].key)
     IN  /\ found' = [found EXCEPT ![t] = d]
         /\ result' = [result EXCEPT ![t] =
              IF d = None THEN "KEY_NOT_FOUND" ELSE "SUCCESS"]
         /\ pc' = [pc EXCEPT ![t] =
              IF d # None /\ notification_callback THEN "use" ELSE "return"]
  /\ UNCHANGED <<table, call, new_data, old_data, cursor>>
-----------------------------------------------------------------------------
(* _ebpf_hash_table_replace_bucket.                                           *)

Bucket(t) == BucketOf(call[t].key)
Position(t) == IndexOf(header[Bucket(t)], call[t].key)

\* The lock, and the copy of the value.
LockBucket(t) ==
  /\ pc[t] = "lock" /\ lock[Bucket(t)] = None
  /\ \/ /\ call[t].operation = "DELETE"
        /\ lock' = [lock EXCEPT ![Bucket(t)] = t]
        /\ pc' = [pc EXCEPT ![t] = "replace"]
        /\ UNCHANGED <<block, new_data, result>>
     \/ /\ call[t].operation # "DELETE"
        /\ \E d \in Fresh :
             /\ block' = Allocated(d, call[t].key)
             /\ new_data' = [new_data EXCEPT ![t] = d]
        /\ lock' = [lock EXCEPT ![Bucket(t)] = t]
        /\ pc' = [pc EXCEPT ![t] =
             IF notification_callback THEN "allocate" ELSE "replace"]
        /\ UNCHANGED result
     \/ /\ call[t].operation # "DELETE"
        /\ AllocationFails(notification_callback) \/ Fresh = {}
        /\ result' = [result EXCEPT ![t] = "NO_MEMORY"]
        /\ pc' = [pc EXCEPT ![t] = "return"]
        /\ UNCHANGED <<lock, block, new_data>>
  /\ UNCHANGED <<header, entry_count, notification_callback, call, old_data, found, cursor>>

\* The entry is looked for; entry_count moves before the bucket does.
CountAfter(t) ==
  LET present == Position(t) # 0
  IN  CASE call[t].operation = "DELETE" /\ present -> entry_count - 1
        [] call[t].operation \in {"INSERT", "INSERT_OR_UPDATE"} /\ ~present -> entry_count + 1
        [] OTHER -> entry_count

\* The limit is compared before the increment instead of after it.
Outcome_Stale(t, count) ==
  LET present == Position(t) # 0
  IN  CASE call[t].operation = "INSERT" /\ present -> "OBJECT_ALREADY_EXISTS"
        [] call[t].operation \in {"UPDATE", "DELETE"} /\ ~present -> "KEY_NOT_FOUND"
        [] ~present /\ entry_count > max_entry_count -> "OUT_OF_SPACE"
        [] OTHER -> "SUCCESS"

Outcome(t, count) ==
  LET present == Position(t) # 0
  IN  CASE call[t].operation = "INSERT" /\ present -> "OBJECT_ALREADY_EXISTS"
        [] call[t].operation \in {"UPDATE", "DELETE"} /\ ~present -> "KEY_NOT_FOUND"
        [] ~present /\ count > max_entry_count -> "OUT_OF_SPACE"
        [] OTHER -> "SUCCESS"

Replace(t) ==
  /\ pc[t] = "replace"
  /\ entry_count' = CountAfter(t)
  /\ \/ result' = [result EXCEPT ![t] = Outcome(t, CountAfter(t))]
     \/ /\ AllocationFails(notification_callback) /\ call[t].operation # "DELETE"
        /\ Outcome(t, CountAfter(t)) = "SUCCESS"
        /\ result' = [result EXCEPT ![t] = "NO_MEMORY"]
  /\ pc' = [pc EXCEPT ![t] = "unlock"]
  /\ UNCHANGED <<header, lock, block, notification_callback>>
  /\ UNCHANGED <<call, new_data, old_data, found, cursor>>

\* An insert that failed gives its count back.
GivesBack(t) ==
  /\ result[t] \in {"OUT_OF_SPACE", "NO_MEMORY"}
  /\ Position(t) = 0

NewBucket(t) ==
  LET b == header[Bucket(t)]
      i == Position(t)
  IN  CASE call[t].operation = "DELETE" -> BucketDelete(b, i)
        [] i = 0 -> BucketInsert(b, call[t].key, new_data[t])
        [] OTHER -> BucketUpdate(b, i, new_data[t])

\* The new bucket is published, if there is one, and the lock released.
Unlock(t) ==
  /\ pc[t] = "unlock"
  /\ lock' = [lock EXCEPT ![Bucket(t)] = None]
  /\ IF result[t] = "SUCCESS"
     THEN /\ old_data' = [old_data EXCEPT ![t] = DataOf(call[t].key)]
          /\ header' = [header EXCEPT ![Bucket(t)] = NewBucket(t)]
          /\ new_data' = [new_data EXCEPT ![t] = None]
          /\ UNCHANGED entry_count
     ELSE /\ entry_count' = IF GivesBack(t) THEN entry_count - 1 ELSE entry_count
          /\ UNCHANGED <<header, old_data, new_data>>
  /\ pc' = [pc EXCEPT ![t] = "free"]
  /\ UNCHANGED <<block, notification_callback, call, result, found, cursor>>

\* The block that is to be freed: the new one after a failure, the old one after
\* an update or a delete; never both.
Dead(t) == IF new_data[t] # None THEN new_data[t] ELSE old_data[t]

\* Free, with the owner told before if it wants to be.
FreeBlocks(t) ==
  /\ pc' = [pc EXCEPT ![t] = "return"]
  /\ block' = Retire(Dead(t))
  /\ new_data' = [new_data EXCEPT ![t] = None]
  /\ old_data' = [old_data EXCEPT ![t] = None]

Free(t) ==
  /\ pc[t] = "free" /\ (~notification_callback \/ Dead(t) = None)
  /\ FreeBlocks(t)
  /\ UNCHANGED <<header, lock, entry_count, notification_callback>>
  /\ UNCHANGED <<call, result, found, cursor>>
-----------------------------------------------------------------------------
(* ebpf_hash_table_next_key_pointer_and_value, one bucket at a time.          *)

NextInBucket(bucket, previous, seen) ==
  CASE previous = None \/ seen -> 1
    [] OTHER -> IndexOf(bucket, previous) + 1

StartNext(t, previous) ==
  /\ StartCall(t, "next", None, previous)
  /\ cursor' = [cursor EXCEPT ![t] =
       [bucket |-> IF previous = None THEN 0 ELSE BucketOf(previous), found |-> FALSE]]

NextKey(t) ==
  /\ pc[t] = "next"
  /\ LET c == cursor[t]
         previous == call[t].key
         bucket == IF c.bucket < BucketCount THEN header[c.bucket] ELSE <<>>
         seen == c.found \/ (previous # None /\ IndexOf(bucket, previous) # 0)
         next == NextInBucket(bucket, previous, c.found)
         ready == (previous = None \/ seen) /\ next \in DOMAIN bucket
     IN  \/ /\ ready
            /\ found' = [found EXCEPT ![t] = bucket[next].data]
            /\ result' = [result EXCEPT ![t] = "SUCCESS"]
            /\ pc' = [pc EXCEPT ![t] = "return"]
            /\ cursor' = [cursor EXCEPT ![t] = NoCursor]
         \/ /\ ~ready /\ c.bucket < BucketCount
            /\ cursor' = [cursor EXCEPT ![t] = [bucket |-> c.bucket + 1, found |-> seen]]
            /\ UNCHANGED <<found, result, pc>>
         \/ /\ ~ready /\ c.bucket >= BucketCount
            /\ found' = [found EXCEPT ![t] = None]
            /\ result' = [result EXCEPT ![t] =
                 IF previous # None /\ ~seen THEN "KEY_NOT_FOUND" ELSE "NO_MORE_KEYS"]
            /\ pc' = [pc EXCEPT ![t] = "return"]
            /\ cursor' = [cursor EXCEPT ![t] = NoCursor]
  /\ UNCHANGED <<table, call, new_data, old_data>>
-----------------------------------------------------------------------------
\* ebpf_hash_table_destroy: every block and every bucket is freed, and nobody is
\* told.  It is called when nobody else can reach the table.
Destroy ==
  /\ \A t \in Threads : pc[t] = "idle"
  /\ header' = [b \in Indexes |-> <<>>]
  /\ entry_count' = 0
  /\ block' = [d \in Data |-> IF d \in Published THEN Unused ELSE block[d]]
  /\ UNCHANGED <<lock, notification_callback>>
-----------------------------------------------------------------------------
TableTypeOK ==
  /\ header \in [Indexes -> Seq([key : Keys, data : Data, backup : Nat])]
  /\ lock \in [Indexes -> Threads \cup {None}]
  /\ entry_count \in Nat
  /\ \A d \in Data : /\ block[d].state \in {"unused", "live", "retired"}
                     /\ block[d].key \in Keys \cup {None}
                     /\ block[d].watchers \subseteq Threads
  /\ notification_callback \in BOOLEAN
  /\ \A t \in Threads : /\ call[t].operation \in Operations \cup {None}
                        /\ call[t].key \in Keys \cup {None}
  /\ new_data \in [Threads -> Data \cup {None}]
  /\ old_data \in [Threads -> Data \cup {None}]
  /\ found \in [Threads -> Data \cup {None}]

TableInit ==
  /\ header = [b \in Indexes |-> <<>>]
  /\ lock = [b \in Indexes |-> None]
  /\ entry_count = 0
  /\ block = [d \in Data |-> Unused]
  /\ pc = [t \in Threads |-> "idle"]
  /\ call = [t \in Threads |-> NoCall]
  /\ result = [t \in Threads |-> None]
  /\ new_data = [t \in Threads |-> None]
  /\ old_data = [t \in Threads |-> None]
  /\ found = [t \in Threads |-> None]
  /\ cursor = [t \in Threads |-> NoCursor]

TableStep(t) ==
  Find(t) \/ LockBucket(t) \/ Replace(t) \/ Unlock(t) \/ Free(t) \/ NextKey(t)
=============================================================================
