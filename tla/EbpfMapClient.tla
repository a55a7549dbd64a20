---------------------------- MODULE EbpfMapClient ----------------------------
(***************************************************************************)
(* The element calls of the user library on a map (ebpf_api.cpp) and the   *)
(* loops of the requests they send (ebpf_core.c, ebpf_maps.c).  A batch    *)
(* call cuts its array into requests that fit a 64 KB message; the kernel  *)
(* handles a request entry by entry, and other clients change the map      *)
(* between any two entries.  One client makes batch calls; what the others *)
(* do, in batches or not, are changes of single elements.  The map is one  *)
(* bucket of a hash table: keys in the order they were inserted, a         *)
(* deletion keeps the order of the rest.  Values are left out.             *)
(***************************************************************************)
EXTENDS Integers, Sequences, FiniteSets, SequencesExt

CONSTANTS
  Keys,
  MaxEntriesPerBatch,  \* entries that fit a request
  MaxCount,            \* bound on *count of a batch call
  MaxCalls,            \* bound on the number of batch calls
  MaxElements,         \* bound on the number of element calls
  NoKey

VARIABLES
  bucket,   \* the keys of the map
  call,     \* the batch call in progress, or the last one
  calls, elements

vars == <<bucket, call, calls, elements>>

\* count is input_count, index the entries of the requests that succeeded
\* (count_returned or key_index), size those of the request under way, filled
\* the ones of it the kernel has handled.  applied and present are for the
\* properties: the keys this call has changed, and the keys that have been in
\* the map since it began, behind the key it began at; none are noted any more
\* once the key the walk stands at has been deleted.
Idle == [pc |-> "idle", op |-> "none", input |-> <<>>, count |-> 0, option |-> "ANY", index |-> 0,
         size |-> 0, filled |-> 0, previous |-> NoKey, reply |-> <<>>, keys |-> <<>>,
         result |-> "none", partial |-> FALSE, applied |-> <<>>, present |-> {}]

Lookups == {"lookup", "take"}
Changes == {"update", "delete", "with_handle"}

TypeOK ==
  /\ Range(bucket) \subseteq Keys /\ IsInjective(bucket)
  /\ calls \in 0..MaxCalls /\ elements \in 0..MaxElements
  /\ LET k == call IN
       /\ k.pc \in {"idle", "send", "kernel", "remove", "done"}
       /\ k.index + k.filled <= k.count /\ k.filled <= k.size /\ k.size <= MaxEntriesPerBatch
       /\ k.op \in Changes => Len(k.input) = k.count

Init == bucket = <<>> /\ call = Idle /\ calls = 0 /\ elements = 0

-----------------------------------------------------------------------------
(* The map. *)

Position(key) == CHOOSE i \in DOMAIN bucket : bucket[i] = key
Has(key) == key \in Range(bucket)

\* ebpf_hash_table_next_key_and_value
NextOf(previous) ==
  CASE previous = NoKey -> IF bucket = <<>> THEN "NO_MORE_KEYS" ELSE "SUCCESS"
    [] previous # NoKey /\ ~Has(previous) -> "KEY_NOT_FOUND"
    [] OTHER -> IF Position(previous) = Len(bucket) THEN "NO_MORE_KEYS" ELSE "SUCCESS"

NextKey(previous) == IF previous = NoKey THEN bucket[1] ELSE bucket[Position(previous) + 1]

\* The results ebpf_map_update_entry may have.
UpdateResults(key, option) ==
  IF option = "NOEXIST" /\ Has(key) THEN {"KEY_ALREADY_EXISTS"}
  ELSE IF option = "EXIST" /\ ~Has(key) THEN {"KEY_NOT_FOUND"} ELSE {"SUCCESS", "NO_MEMORY"}

\* One entry is changed in the map, and the call goes on as k.
InsertKey(key, k) ==
  /\ bucket' = IF Has(key) THEN bucket ELSE Append(bucket, key)
  /\ call' = k

RemoveKey(key, k) ==
  /\ bucket' = Remove(bucket, key)
  /\ call' = [k EXCEPT !.present = IF key = call.previous THEN {} ELSE @ \ {key}]

Set(k) == call' = k /\ UNCHANGED <<bucket, calls, elements>>
Finish(k, result) == [k EXCEPT !.pc = "done", !.result = result]

-----------------------------------------------------------------------------
(* Calls. *)

Begin(k) == /\ call.pc \in {"idle", "done"} /\ calls < MaxCalls /\ calls' = calls + 1
            /\ call' = k /\ UNCHANGED <<bucket, elements>>

After(previous) ==
  IF previous = NoKey THEN Range(bucket)
  ELSE IF Has(previous) THEN Range(SubSeq(bucket, Position(previous) + 1, Len(bucket))) ELSE {}

\* _ebpf_map_lookup_element_batch_helper; in_batch is where an earlier call ended.
BeginLookup(op, count, in_batch) ==
  Begin([Idle EXCEPT !.op = op, !.count = count, !.previous = in_batch,
              !.pc = IF count = 0 THEN "done" ELSE "send",
              !.result = IF count = 0 THEN "INVALID_ARGUMENT" ELSE "none",
              !.present = After(in_batch)])

BeginChange(op, input, option) ==
  Begin([Idle EXCEPT !.op = op, !.input = input, !.count = Len(input), !.option = option,
              !.pc = IF input = <<>> THEN "done" ELSE "send",
              !.result = IF input = <<>> THEN "INVALID_ARGUMENT" ELSE "none"])

\* ebpf_map_update_element_batch: the values of a map of objects are fds, which
\* a loop of element updates turns into handles.
BeginUpdate(op, input, option) == op \in {"update", "with_handle"} /\ BeginChange(op, input, option)

\* ebpf_map_delete_element_batch
BeginDelete(input) == BeginChange("delete", input, "ANY")

\* The calls on one element, of any client: ebpf_map_update_element,
\* ebpf_map_delete_element, ebpf_map_lookup_and_delete_element.
Element(op, key) ==
  /\ elements < MaxElements /\ elements' = elements + 1 /\ UNCHANGED calls
  /\ \/ op = "update" /\ InsertKey(key, call)
     \/ op \in {"delete", "take"} /\ Has(key) /\ RemoveKey(key, call)

\* min(input_count - key_index, max_entries_per_batch)
EntriesToSend(k) == LET rest == k.count - k.index
                    IN  IF rest < MaxEntriesPerBatch THEN rest ELSE MaxEntriesPerBatch

\* The next request; a map of objects takes one entry at a time, and an fd that
\* is not valid ends the call.
Send ==
  LET k == call IN
  /\ k.pc = "send"
  /\ \/ Set([k EXCEPT !.pc = "kernel", !.filled = 0, !.reply = <<>>,
                         !.size = IF k.op = "with_handle" THEN 1 ELSE EntriesToSend(k)])
     \/ k.op = "with_handle" /\ Set(Finish(k, "INVALID_FD"))

-----------------------------------------------------------------------------
(* Requests. *)

\* _ebpf_core_protocol_map_update_element_batch, one entry
KernelUpdate ==
  LET k == call
      key == k.input[k.index + k.filled + 1]
  IN  /\ k.pc = "kernel" /\ k.op \in {"update", "with_handle"} /\ k.filled < k.size
      /\ \E r \in UpdateResults(key, k.option) :
           \/ /\ r = "SUCCESS" /\ UNCHANGED <<calls, elements>>
              /\ InsertKey(key, [k EXCEPT !.filled = @ + 1, !.applied = Append(@, key)])
           \/ r # "SUCCESS" /\ Set(Finish(k, r))

\* _ebpf_core_protocol_map_delete_element_batch, one entry
KernelDelete ==
  LET k == call
      key == k.input[k.index + k.filled + 1]
  IN  /\ k.pc = "kernel" /\ k.op = "delete" /\ k.filled < k.size
      /\ \/ /\ Has(key) /\ UNCHANGED <<calls, elements>>
            /\ RemoveKey(key, [k EXCEPT !.filled = @ + 1, !.applied = Append(@, key)])
         \/ ~Has(key) /\ Set(Finish(k, "KEY_NOT_FOUND"))

\* ebpf_map_get_next_key_and_value_batch, the next entry.  Without a previous
\* key there is nothing to delete, and the delete fails.
KernelNext ==
  LET k == call
      key == NextKey(k.previous)
      got == [k EXCEPT !.filled = @ + 1, !.reply = Append(@, key), !.previous = key]
  IN  /\ k.pc = "kernel" /\ k.op \in Lookups /\ k.filled < k.size
      /\ NextOf(k.previous) = "SUCCESS"
      /\ \/ k.op = "lookup" /\ Set(got)
         \/ k.op = "take" /\ k.previous = NoKey /\ Set(Finish(k, "INVALID_ARGUMENT"))
         \/ /\ k.op = "take" /\ k.previous # NoKey
            /\ Set([k EXCEPT !.pc = "remove", !.reply = Append(@, key)])

\* Its deletion of the previous entry
KernelRemove ==
  LET k == call
  IN  /\ k.pc = "remove"
      /\ \/ /\ Has(k.previous) /\ UNCHANGED <<calls, elements>>
            /\ RemoveKey(k.previous, [k EXCEPT !.pc = "kernel", !.filled = @ + 1,
                          !.previous = Last(k.reply), !.applied = Append(@, k.previous)])
         \/ ~Has(k.previous) /\ Set(Finish(k, "KEY_NOT_FOUND"))

\* No further key: what was found is returned, and the call is over.
KernelEnd ==
  LET k == call
      r == NextOf(k.previous)
  IN  /\ k.pc = "kernel" /\ k.op \in Lookups /\ k.filled < k.size /\ r # "SUCCESS"
      /\ Set(IF r = "NO_MORE_KEYS" /\ k.filled # 0
                  THEN Finish([k EXCEPT !.keys = @ \o k.reply, !.index = @ + k.filled,
                                        !.filled = 0, !.partial = TRUE], "SUCCESS")
                  ELSE Finish(k, r))

Receive_OneRequest ==
  LET k == call
      next == [k EXCEPT !.keys = @ \o k.reply, !.index = @ + k.size, !.filled = 0]
  IN  k.pc = "kernel" /\ k.filled = k.size /\ Set(Finish(next, "SUCCESS"))

\* The reply is complete; the call ends or sends the next request.
Receive ==
  LET k == call
      next == [k EXCEPT !.keys = @ \o k.reply, !.index = @ + k.size, !.filled = 0]
  IN  /\ k.pc = "kernel" /\ k.filled = k.size
      /\ Set(IF next.index < k.count THEN [next EXCEPT !.pc = "send"] ELSE Finish(next, "SUCCESS"))

Next ==
  \/ \E op \in Lookups, count \in 0..MaxCount, in_batch \in Keys \cup {NoKey} :
       BeginLookup(op, count, in_batch)
  \/ \E n \in 0..MaxCount : \E input \in [1..n -> Keys] :
       \/ BeginDelete(input)
       \/ \E op \in {"update", "with_handle"}, option \in {"ANY", "EXIST", "NOEXIST"} :
            BeginUpdate(op, input, option)
  \/ \E op \in {"update", "delete", "take"}, key \in Keys : Element(op, key)
  \/ Send \/ KernelUpdate \/ KernelDelete \/ KernelNext \/ KernelRemove \/ KernelEnd \/ Receive

Spec == Init /\ [][Next]_vars

-----------------------------------------------------------------------------
\* A batch call changes the entries of its array once each and in order, across
\* the boundaries of its requests: what it has applied is always the part of the
\* array it has come to, the whole of it when it reports success, and a failure
\* leaves exactly the entries before the one that failed.  A batch lookup that
\* succeeds has returned every key that was in the map all the time, up to the
\* key it stopped at, or to the end of the map if it returned fewer than asked
\* for, however much other clients inserted and deleted meanwhile (unless they
\* deleted the very key the walk stood at and put it back).
BatchExact ==
  /\ TypeOK
  /\ LET k == call IN
       /\ k.op \in Changes =>
            /\ k.applied = SubSeq(k.input, 1, k.index + k.filled)
            /\ k.result = "SUCCESS" => k.applied = k.input
       /\ k.op \in Lookups /\ k.result = "SUCCESS" =>
            /\ Len(k.keys) = k.index /\ (k.index < k.count => k.partial)
            /\ \A key \in k.present \ Range(k.keys) :
                 k.op = "lookup" => ~k.partial /\ (Has(Last(k.keys)) => Position(key) > Position(Last(k.keys)))
=============================================================================
