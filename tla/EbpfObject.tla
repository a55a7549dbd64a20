----------------------------- MODULE EbpfObject -----------------------------
(***************************************************************************)
(* Lifetime of core objects: reference counts and the id table of          *)
(* libs/runtime/ebpf_object.c, handles, the pinning table of               *)
(* libs/runtime/ebpf_pinning_table.c, and the maps of objects of           *)
(* libs/execution_context/ebpf_maps.c, whose slots hold a reference on the *)
(* id of an object and none on the object.                                 *)
(*                                                                         *)
(* A thread that is not idle is inside an epoch.  From EbpfEpoch this      *)
(* module takes that a work item scheduled now runs only after every       *)
(* thread that is inside an epoch now has left it.  The memory of an       *)
(* object and of its id table entry is reused only after that, so an       *)
(* object is created once and owns its entry.                              *)
(***************************************************************************)
EXTENDS Integers, FiniteSets

CONSTANTS
    Objects,
    Maps,       \* the objects that are maps of objects, with one slot each
    Paths,      \* pinning paths
    Threads,
    IdMax,      \* EBPF_ID_NONE, the largest value of an ebpf_id_t
    MaxHandles, \* bound: open handles per object
    None        \* null pointer

Ids == 0 .. IdMax
NoId == 0

ObjectConstants ==
    /\ Maps \subseteq Objects
    /\ IdMax \in Nat \ {0, 1}
    /\ MaxHandles \in Nat \ {0}
    /\ None \notin Objects \cup Threads
    /\ IsFiniteSet(Paths) /\ IsFiniteSet(Threads) /\ IsFiniteSet(Maps)

VARIABLES
    phase,              \* "none", "live", "zero", "scheduled" or "freed"
    reference_count,
    handles,            \* external: open handles of each object
    next_id,            \* _ebpf_next_id
    id,                 \* of each object
    entry_references,   \* reference_count of the object's ebpf_id_entry_t
    entry_object,       \* the entry's object pointer is set
    in_table,           \* the entry is in _ebpf_id_table
    pinned,             \* the pinning table: path to object
    pinned_path_count,
    slot,               \* of each map: the id stored
    stored,             \* history: the object whose id the slot holds
    locked,             \* object_map->lock of each map
    pc, obj, map,       \* control state and local pointers of each thread
    waiters             \* the threads an object's free work item waits for

counts == <<reference_count, handles>>
entries == <<id, next_id, entry_references, entry_object, in_table>>
pins == <<pinned, pinned_path_count>>
slots == <<slot, stored, locked>>
threads == <<pc, obj, map>>
vars == <<phase, counts, entries, pins, slots, threads, waiters>>

PCs == {"idle", "found", "read", "opened", "referenced", "pinning", "unpinned",
        "store", "acquire", "erase", "clear", "release", "remove", "remove_id", "zero",
        "peek", "using"}

TypeOK ==
    /\ phase \in [Objects -> {"none", "live", "zero", "scheduled", "freed"}]
    /\ reference_count \in [Objects -> Nat]
    /\ handles \in [Objects -> 0 .. MaxHandles]
    /\ next_id \in Ids
    /\ id \in [Objects -> Ids]
    /\ entry_references \in [Objects -> Nat]
    /\ entry_object \in [Objects -> BOOLEAN]
    /\ in_table \in [Objects -> BOOLEAN]
    /\ pinned \in [Paths -> Objects \cup {None}]
    /\ pinned_path_count \in [Objects -> Nat]
    /\ slot \in [Maps -> Ids]
    /\ stored \in [Maps -> Objects \cup {None}]
    /\ locked \in [Maps -> Threads \cup {None}]
    /\ pc \in [Threads -> PCs]
    /\ obj \in [Threads -> Objects \cup {None}]
    /\ map \in [Threads -> Maps \cup {None}]
    /\ waiters \in [Objects -> SUBSET Threads]

\* ebpf_object_tracking_initiate.
Init ==
    /\ phase = [o \in Objects |-> "none"]
    /\ reference_count = [o \in Objects |-> 0]
    /\ handles = [o \in Objects |-> 0]
    /\ next_id = 1
    /\ id = [o \in Objects |-> NoId]
    /\ entry_references = [o \in Objects |-> 0]
    /\ entry_object = [o \in Objects |-> FALSE]
    /\ in_table = [o \in Objects |-> FALSE]
    /\ pinned = [p \in Paths |-> None]
    /\ pinned_path_count = [o \in Objects |-> 0]
    /\ slot = [m \in Maps |-> NoId]
    /\ stored = [m \in Maps |-> None]
    /\ locked = [m \in Maps |-> None]
    /\ pc = [t \in Threads |-> "idle"]
    /\ obj = [t \in Threads |-> None]
    /\ map = [t \in Threads |-> None]
    /\ waiters = [o \in Objects |-> {}]

-----------------------------------------------------------------------------
(* Helpers.                                                                *)

Goto(t, p) == pc' = [pc EXCEPT ![t] = p]

\* Mutant of Leave: the epoch is never exited.
Leave_NoExit(t) ==
    /\ Goto(t, "idle")
    /\ obj' = [obj EXCEPT ![t] = None]
    /\ map' = [map EXCEPT ![t] = None]
    /\ UNCHANGED waiters

\* The thread leaves its epoch.
Leave(t) ==
    /\ Goto(t, "idle")
    /\ obj' = [obj EXCEPT ![t] = None]
    /\ map' = [map EXCEPT ![t] = None]
    /\ waiters' = [o \in Objects |-> waiters[o] \ {t}]

\* The thread has dropped its reference on obj[t]: it unlocks the map it has
\* updated, if any, and drops the reference on that one.
Dropped(t) ==
    IF map[t] = None
    THEN Leave(t) /\ UNCHANGED locked
    ELSE /\ locked' = [locked EXCEPT ![map[t]] = None]
         /\ obj' = [obj EXCEPT ![t] = map[t]]
         /\ map' = [map EXCEPT ![t] = None]
         /\ Goto(t, "release")
         /\ UNCHANGED waiters

\* ebpf_object_acquire_reference.
Acquire(o) == reference_count' = [reference_count EXCEPT ![o] = @ + 1]

\* The object an id denotes: the owner of the entry that is in the table.
Owner(i) == {o \in Objects : in_table[o] /\ id[o] = i}

\* ebpf_object_release_id_reference.  Nobody acquires an entry whose object is
\* gone, so the deletion is not separated from the decrement to zero.
ReleaseId(o) ==
    /\ entry_references' = [entry_references EXCEPT ![o] = @ - 1]
    /\ in_table' = [in_table EXCEPT ![o] = @ /\ entry_references[o] # 1]

\* The next id: the 32-bit increment wraps, 0 and EBPF_ID_NONE are skipped.
NextId ==
    LET Skip(i) == IF i = IdMax \/ i = NoId THEN 1 ELSE i
    IN  Skip((next_id + 1) % (IdMax + 1))

\* ebpf_object_get_next_id: the least id in the table that is above start, by
\* _ebpf_object_id_sort, whether or not the entry still has an object.
GetNextId(start) ==
    LET later == {id[o] : o \in {x \in Objects : in_table[x] /\ id[x] > start}}
    IN  IF later = {} THEN NoId
        ELSE CHOOSE i \in later : \A j \in later : i =< j

-----------------------------------------------------------------------------
(* References by handle, by id and by path.                                *)

\* ebpf_object_initialize, when the id is not in the table yet.
Create(t, o) ==
    /\ pc[t] = "idle" /\ phase[o] = "none"
    /\ Owner(NextId) = {}
    /\ next_id' = NextId
    /\ phase' = [phase EXCEPT ![o] = "live"]
    /\ id' = [id EXCEPT ![o] = NextId]
    /\ entry_references' = [entry_references EXCEPT ![o] = 1]
    /\ entry_object' = [entry_object EXCEPT ![o] = TRUE]
    /\ in_table' = [in_table EXCEPT ![o] = TRUE]
    /\ Acquire(o)
    /\ Goto(t, "opened")
    /\ obj' = [obj EXCEPT ![t] = o]
    /\ UNCHANGED <<handles, pins, slots, map, waiters>>

\* ebpf_object_initialize without memory, or when the id is in the table and
\* EBPF_HASH_TABLE_OPERATION_INSERT fails.
CreateFails(t, o) ==
    /\ pc[t] = "idle" /\ phase[o] = "none"
    /\ next_id' = NextId
    /\ UNCHANGED <<phase, counts, id, entry_references, entry_object, in_table,
                   pins, slots, threads, waiters>>

\* ebpf_object_reference_by_handle.
ReferenceByHandle(t, o) ==
    /\ pc[t] = "idle" /\ handles[o] > 0
    /\ Acquire(o)
    /\ Goto(t, "referenced")
    /\ obj' = [obj EXCEPT ![t] = o]
    /\ UNCHANGED <<phase, handles, entries, pins, slots, map, waiters>>

\* ebpf_object_reference_by_id and ebpf_object_reference_next_object up to the
\* search in the id table.
ReferenceById(t, o) ==
    /\ pc[t] = "idle" /\ in_table[o]
    /\ Goto(t, "found")
    /\ obj' = [obj EXCEPT ![t] = o]
    /\ UNCHANGED <<phase, counts, entries, pins, slots, map, waiters>>

\* found_object = entry->object, and the test for NULL.
ReferenceByIdRead(t) ==
    /\ pc[t] = "found"
    /\ IF entry_object[obj[t]]
       THEN Goto(t, "read") /\ UNCHANGED <<obj, map, waiters>>
       ELSE Leave(t)
    /\ UNCHANGED <<phase, counts, entries, pins, slots>>

\* Mutant of TryAcquire: a count of zero is incremented like any other.
TryAcquire_Zero(t) ==
    /\ pc[t] = "read"
    /\ Acquire(obj[t]) /\ Goto(t, "opened") /\ UNCHANGED <<obj, map, waiters>>
    /\ UNCHANGED <<phase, handles, entries, pins, slots>>

\* _ebpf_object_try_acquire_reference.
TryAcquire(t) ==
    /\ pc[t] = "read"
    /\ IF reference_count[obj[t]] = 0
       THEN Leave(t) /\ UNCHANGED reference_count
       ELSE Acquire(obj[t]) /\ Goto(t, "opened")
            /\ UNCHANGED <<obj, map, waiters>>
    /\ UNCHANGED <<phase, handles, entries, pins, slots>>

\* ebpf_pinning_table_find.
PinningTableFind(t, p) ==
    /\ pc[t] = "idle" /\ pinned[p] # None
    /\ Acquire(pinned[p])
    /\ Goto(t, "opened")
    /\ obj' = [obj EXCEPT ![t] = pinned[p]]
    /\ UNCHANGED <<phase, handles, entries, pins, slots, map, waiters>>

-----------------------------------------------------------------------------
(* What a thread that holds a reference does with it.                      *)

\* ebpf_handle_create; the thread then drops its own reference.
HandleCreate(t) ==
    /\ pc[t] = "opened" /\ handles[obj[t]] < MaxHandles
    /\ Acquire(obj[t])
    /\ handles' = [handles EXCEPT ![obj[t]] = @ + 1]
    /\ Goto(t, "release")
    /\ UNCHANGED <<phase, entries, pins, slots, obj, map, waiters>>

\* The operation is over or has failed.
Abandon(t) ==
    /\ pc[t] \in {"opened", "referenced"}
    /\ Goto(t, "release")
    /\ UNCHANGED <<phase, counts, entries, pins, slots, obj, map, waiters>>

\* External: the last use of a handle goes away and its reference with it.
HandleClose(t, o) ==
    /\ pc[t] = "idle" /\ handles[o] > 0
    /\ handles' = [handles EXCEPT ![o] = @ - 1]
    /\ Goto(t, "release")
    /\ obj' = [obj EXCEPT ![t] = o]
    /\ UNCHANGED <<phase, reference_count, entries, pins, slots, map, waiters>>

\* ebpf_pinning_table_insert up to the lock.
PinningTableInsert(t) ==
    /\ pc[t] = "referenced"
    /\ Acquire(obj[t])
    /\ Goto(t, "pinning")
    /\ UNCHANGED <<phase, handles, entries, pins, slots, obj, map, waiters>>

\* Mutant of PinningTableInserted: a failed insert keeps its reference.
PinningTableInserted_Leak(t, p) ==
    /\ pc[t] = "pinning"
    /\ IF pinned[p] = None
       THEN /\ pinned' = [pinned EXCEPT ![p] = obj[t]]
            /\ pinned_path_count' = [pinned_path_count EXCEPT ![obj[t]] = @ + 1]
       ELSE UNCHANGED pins
    /\ Goto(t, "release")
    /\ UNCHANGED <<phase, counts, entries, slots, obj, map, waiters>>

\* The rest of ebpf_pinning_table_insert.  When the path is taken the reference
\* of the new entry is released, which is not the last one.
PinningTableInserted(t, p) ==
    /\ pc[t] = "pinning"
    /\ IF pinned[p] = None
       THEN /\ pinned' = [pinned EXCEPT ![p] = obj[t]]
            /\ pinned_path_count' = [pinned_path_count EXCEPT ![obj[t]] = @ + 1]
            /\ UNCHANGED reference_count
       ELSE /\ reference_count' = [reference_count EXCEPT ![obj[t]] = @ - 1]
            /\ UNCHANGED pins
    /\ Goto(t, "release")
    /\ UNCHANGED <<phase, handles, entries, slots, obj, map, waiters>>

\* ebpf_pinning_table_delete up to the unlock.
PinningTableDelete(t, p) ==
    /\ pc[t] = "idle" /\ pinned[p] # None
    /\ pinned' = [pinned EXCEPT ![p] = None]
    /\ Goto(t, "unpinned")
    /\ obj' = [obj EXCEPT ![t] = pinned[p]]
    /\ UNCHANGED <<phase, counts, entries, pinned_path_count, slots, map, waiters>>

\* The decrement of pinned_path_count, outside of the lock.
PinningTableDeleted(t) ==
    /\ pc[t] = "unpinned"
    /\ pinned_path_count' = [pinned_path_count EXCEPT ![obj[t]] = @ - 1]
    /\ Goto(t, "release")
    /\ UNCHANGED <<phase, counts, entries, pinned, slots, obj, map, waiters>>

-----------------------------------------------------------------------------
(* Maps of objects.                                                        *)

\* _update_array_map_entry_with_handle of map m, which the caller references by
\* handle, up to the lock.  An object that is no map is stored.
UpdateWithHandle(t, m) ==
    /\ pc[t] = "referenced" /\ obj[t] \notin Maps
    /\ handles[m] > 0
    /\ Acquire(m)
    /\ map' = [map EXCEPT ![t] = m]
    /\ Goto(t, "store")
    /\ UNCHANGED <<phase, handles, entries, pins, slots, obj, waiters>>

\* _delete_array_map_entry_with_reference up to the lock.
DeleteEntry(t, m) ==
    /\ pc[t] = "idle" /\ handles[m] > 0
    /\ Acquire(m)
    /\ map' = [map EXCEPT ![t] = m]
    /\ Goto(t, "erase")
    /\ UNCHANGED <<phase, handles, entries, pins, slots, obj, waiters>>

\* With the lock taken, the id the slot holds is released.
ReleaseOldId(t, m) ==
    /\ locked[m] = None
    /\ locked' = [locked EXCEPT ![m] = t]
    /\ IF slot[m] = NoId
       THEN UNCHANGED <<entry_references, in_table>>
       ELSE \E o \in Owner(slot[m]) : ReleaseId(o)
    /\ UNCHANGED <<id, next_id, entry_object>>

\* With the lock taken, _validate_map_value_object rejects the object.
StoreRejected(t) ==
    /\ pc[t] = "store" /\ locked[map[t]] = None
    /\ locked' = [locked EXCEPT ![map[t]] = t]
    /\ Goto(t, "release")
    /\ UNCHANGED <<phase, counts, entries, pins, slot, stored, obj, map, waiters>>

StoreReleaseOld(t) ==
    /\ pc[t] = "store"
    /\ ReleaseOldId(t, map[t])
    /\ Goto(t, "acquire")
    /\ UNCHANGED <<phase, counts, pins, slot, stored, obj, map, waiters>>

\* ebpf_object_acquire_id_reference and the store.  The reference on the value
\* object is then dropped, and the lock after it.
StoreNew(t) ==
    /\ pc[t] = "acquire"
    /\ entry_references' = [entry_references EXCEPT ![obj[t]] = @ + 1]
    /\ slot' = [slot EXCEPT ![map[t]] = id[obj[t]]]
    /\ stored' = [stored EXCEPT ![map[t]] = obj[t]]
    /\ Goto(t, "release")
    /\ UNCHANGED <<phase, counts, id, next_id, entry_object, in_table, pins,
                   locked, obj, map, waiters>>

DeleteReleaseOld(t) ==
    /\ pc[t] = "erase"
    /\ ReleaseOldId(t, map[t])
    /\ Goto(t, "clear")
    /\ UNCHANGED <<phase, counts, pins, slot, stored, obj, map, waiters>>

\* The slot is cleared, the map unlocked, the reference on the map dropped.
DeleteClear(t) ==
    /\ pc[t] = "clear"
    /\ slot' = [slot EXCEPT ![map[t]] = NoId]
    /\ stored' = [stored EXCEPT ![map[t]] = None]
    /\ Dropped(t)
    /\ UNCHANGED <<phase, counts, entries, pins>>

\* _get_object_from_array_map_entry, called by a program that uses map m: the
\* slot is read and its id looked up, without a lock or a reference.
GetObject(t, m) ==
    /\ pc[t] = "idle" /\ phase[m] = "live" /\ slot[m] # NoId
    /\ map' = [map EXCEPT ![t] = m]
    /\ \E o \in Owner(slot[m]) : obj' = [obj EXCEPT ![t] = o]
    /\ Goto(t, "peek")
    /\ UNCHANGED <<phase, counts, entries, pins, slots, waiters>>

\* ebpf_object_pointer_by_id reads entry->object; the program then uses the
\* object until it leaves its epoch.
PointerById(t) ==
    /\ pc[t] = "peek"
    /\ IF entry_object[obj[t]]
       THEN Goto(t, "using") /\ UNCHANGED <<obj, map, waiters>>
       ELSE Leave(t)
    /\ UNCHANGED <<phase, counts, entries, pins, slots>>

ProgramEnds(t) ==
    /\ pc[t] = "using"
    /\ Leave(t)
    /\ UNCHANGED <<phase, counts, entries, pins, slots>>

-----------------------------------------------------------------------------
(* ebpf_object_release_reference.                                          *)

ReleaseReference(t) ==
    /\ pc[t] = "release"
    /\ reference_count' = [reference_count EXCEPT ![obj[t]] = @ - 1]
    /\ IF reference_count[obj[t]] = 1
       THEN /\ phase' = [phase EXCEPT ![obj[t]] = "zero"]
            /\ Goto(t, "remove")
            /\ UNCHANGED <<locked, obj, map, waiters>>
       ELSE Dropped(t) /\ UNCHANGED phase
    /\ UNCHANGED <<handles, entries, pins, slot, stored>>

\* _ebpf_object_tracking_list_remove: the entry's object pointer is cleared,
ListRemove(t) ==
    /\ pc[t] = "remove"
    /\ entry_object' = [entry_object EXCEPT ![obj[t]] = FALSE]
    /\ Goto(t, "remove_id")
    /\ UNCHANGED <<phase, counts, id, next_id, entry_references, in_table, pins,
                   slots, obj, map, waiters>>

\* then the object's own reference on its id is released.
ListRemoveId(t) ==
    /\ pc[t] = "remove_id"
    /\ ReleaseId(obj[t])
    /\ Goto(t, "zero")
    /\ UNCHANGED <<phase, counts, id, next_id, entry_object, pins, slots, obj,
                   map, waiters>>

\* Mutant of Schedule: the object does not wait for the threads in an epoch.
Schedule_NoEpoch(t) ==
    /\ pc[t] = "zero"
    /\ phase' = [phase EXCEPT ![obj[t]] = "scheduled"]
    /\ Dropped(t)
    /\ UNCHANGED <<counts, entries, pins, slot, stored>>

\* ebpf_epoch_schedule_work_item; the calling thread leaves its epoch later.
Schedule(t) ==
    /\ pc[t] = "zero"
    /\ phase' = [phase EXCEPT ![obj[t]] = "scheduled"]
    /\ LET others == {s \in Threads : pc[s] # "idle"} IN
       IF map[t] = None
       THEN /\ Goto(t, "idle")
            /\ obj' = [obj EXCEPT ![t] = None]
            /\ waiters' = [o \in Objects |->
                   (IF o = obj[t] THEN others ELSE waiters[o]) \ {t}]
            /\ UNCHANGED <<map, locked>>
       ELSE /\ locked' = [locked EXCEPT ![map[t]] = None]
            /\ obj' = [obj EXCEPT ![t] = map[t]]
            /\ map' = [map EXCEPT ![t] = None]
            /\ Goto(t, "release")
            /\ waiters' = [waiters EXCEPT ![obj[t]] = others]
    /\ UNCHANGED <<counts, entries, pins, slot, stored>>

\* _ebpf_object_epoch_free.  The free function of a map of objects
\* (_delete_object_array_map) releases the id its slot holds.
Free(o) ==
    /\ phase[o] = "scheduled" /\ waiters[o] = {}
    /\ phase' = [phase EXCEPT ![o] = "freed"]
    /\ IF o \in Maps /\ slot[o] # NoId
       THEN /\ \E v \in Owner(slot[o]) : ReleaseId(v)
            /\ slot' = [slot EXCEPT ![o] = NoId]
            /\ stored' = [stored EXCEPT ![o] = None]
       ELSE UNCHANGED <<entry_references, in_table, slot, stored>>
    /\ UNCHANGED <<counts, id, next_id, entry_object, pins, locked, threads, waiters>>

\* ebpf_object_tracking_terminate: the rundown protection of all objects has
\* been released.
TrackingTerminate ==
    /\ \A o \in Objects : phase[o] \in {"none", "freed"}
    /\ \A t \in Threads : pc[t] = "idle"
    /\ UNCHANGED vars

ThreadStep(t) ==
    \/ ReferenceByIdRead(t) \/ TryAcquire(t)
    \/ PinningTableDeleted(t) \/ \E p \in Paths : PinningTableInserted(t, p)
    \/ StoreNew(t) \/ DeleteClear(t)
    \/ PointerById(t) \/ ProgramEnds(t)
    \/ ReleaseReference(t) \/ ListRemove(t) \/ ListRemoveId(t) \/ Schedule(t)

Next ==
    \/ \E t \in Threads :
        \/ \E o \in Objects :
               \/ Create(t, o) \/ CreateFails(t, o) \/ ReferenceByHandle(t, o)
               \/ ReferenceById(t, o) \/ HandleClose(t, o)
        \/ \E p \in Paths : PinningTableFind(t, p) \/ PinningTableDelete(t, p)
        \/ \E m \in Maps :
               UpdateWithHandle(t, m) \/ DeleteEntry(t, m) \/ GetObject(t, m)
        \/ HandleCreate(t) \/ PinningTableInsert(t) \/ Abandon(t)
        \/ StoreReleaseOld(t) \/ StoreRejected(t) \/ DeleteReleaseOld(t)
        \/ ThreadStep(t)
    \/ \E o \in Objects : Free(o)
    \/ TrackingTerminate

Spec == Init /\ [][Next]_vars

\* A thread in one of these functions is not stopped for ever, a thread with a
\* reference finishes its operation, the spin lock of a map is granted to a
\* thread that keeps asking, and the epoch engine runs the free work item
\* (FreedIsReleased of EbpfEpoch).
Fairness ==
    /\ \A t \in Threads :
        /\ WF_vars(ThreadStep(t)) /\ WF_vars(Abandon(t))
        /\ SF_vars(StoreReleaseOld(t)) /\ SF_vars(DeleteReleaseOld(t))
    /\ \A o \in Objects : WF_vars(Free(o))

FairSpec == Spec /\ Fairness

-----------------------------------------------------------------------------
(* Properties.                                                             *)

\* The references threads hold on o beside handles and pinning entries: on their
\* object, on the one for the pinning table's new entry, and on the map they
\* update.
Holders(o) ==
    {t \in Threads : obj[t] = o /\ pc[t] \in
        {"opened", "referenced", "pinning", "unpinned", "store", "acquire", "release"}}
Pinners(o) == {t \in Threads : obj[t] = o /\ pc[t] = "pinning"}
Updaters(o) == {t \in Threads : map[t] = o /\ pc[t] \notin {"peek", "using"}}

ThreadReferences(o) ==
    Cardinality(Holders(o)) + Cardinality(Pinners(o)) + Cardinality(Updaters(o))

\* The paths o is pinned under.
PinsOf(o) == {p \in Paths : pinned[p] = o}

\* The reference count of an object is exactly the number of handles, pinning
\* entries and threads that refer to it, whatever succeeded, failed or raced:
\* no reference leaks and none is dropped twice.
ReferencesCounted ==
    \A o \in Objects :
        reference_count[o] =
            handles[o] + ThreadReferences(o) + Cardinality(PinsOf(o))

\* No thread holds a pointer to an object that has been freed: not one that
\* found it by id without a reference, nor the program that looked it up in a
\* map (ebpf_object_pointer_by_id takes no reference).
NoPointerToFreed ==
    \A t \in Threads :
        /\ obj[t] # None /\ pc[t] \notin {"found", "peek"} => phase[obj[t]] # "freed"
        /\ map[t] # None => phase[map[t]] # "freed"

\* An update of the map is between releasing the old id and writing the slot.
InTransition(m) == \E t \in Threads : map[t] = m /\ pc[t] \in {"acquire", "clear"}

\* A map's slot keeps the id it holds alive: the id denotes the object that was
\* stored, dead or alive, and is not given to another object even when the
\* 32-bit counter has wrapped (ebpf_object_acquire_id_reference).
SlotIdReserved ==
    \A m \in Maps :
        slot[m] # NoId /\ ~InTransition(m) => Owner(slot[m]) = {stored[m]}

\* The users of the id of o: the object until it has removed itself from the
\* table, and the slots of maps.
HoldsOwnId(o) ==
    \/ phase[o] = "live"
    \/ \E t \in Threads : obj[t] = o /\ pc[t] \in {"remove", "remove_id"}
Keepers(o) ==
    {m \in Maps : stored[m] = o /\ phase[m] # "freed" /\ ~InTransition(m)}

\* The reference count of an id table entry is exactly the number of its users:
\* the object until it has removed itself, and each slot that holds the id.  The
\* entry is in the table while there is one, so that no id leaks and the table is
\* empty once all objects are gone (ebpf_object_release_id_reference).
IdReferencesCounted ==
    \A o \in Objects :
        /\ entry_references[o] =
              Cardinality(Keepers(o)) + (IF HoldsOwnId(o) THEN 1 ELSE 0)
        /\ in_table[o] <=> entry_references[o] > 0

\* pinned_path_count is updated outside of the pinning table's lock on delete;
\* it counts the paths of the object and the deletes that are not over.
Unpinners(o) == {t \in Threads : pc[t] = "unpinned" /\ obj[t] = o}

PinnedPathsCounted ==
    \A o \in Objects : pinned_path_count[o] =
        Cardinality(PinsOf(o)) + Cardinality(Unpinners(o))

\* Valid ids are handed out, and no two entries of the table share one.
IdsValid ==
    \A o \in Objects : in_table[o] =>
        /\ id[o] \notin {NoId, IdMax}
        /\ Owner(id[o]) = {o}

\* The bookkeeping of references, ids, slots and pinned paths is exact, and no
\* thread holds a pointer to a freed object.
ObjectInv ==
    /\ TypeOK
    /\ ReferencesCounted
    /\ IdReferencesCounted /\ SlotIdReserved /\ IdsValid
    /\ PinnedPathsCounted
    /\ NoPointerToFreed

\* Facts behind ObjectInv, for its proof.  Where the local pointers of a thread
\* point to, and which lock it holds.
PlacedAt(t) ==
    /\ obj[t] = None <=> pc[t] \in {"idle", "erase", "clear"}
    /\ map[t] = None => pc[t] \notin
          {"store", "acquire", "erase", "clear", "peek", "using"}
    /\ map[t] # None => pc[t] \notin
          {"idle", "found", "read", "opened", "referenced", "pinning", "unpinned"}
    /\ \A m \in Maps : locked[m] = t <=>
          map[t] = m /\ pc[t] \notin {"store", "erase", "peek", "using"}

PointersPlaced == \A t \in Threads : PlacedAt(t)

\* The threads that hold the last reference on o, just dropped, take o apart.
TornDownBy(o) ==
    {t \in Threads : obj[t] = o /\ pc[t] \in {"remove", "remove_id", "zero"}}

\* The phase of an object follows its reference count; one thread takes it apart.
PhasesFit ==
    \A o \in Objects :
        /\ phase[o] = "live" <=> reference_count[o] > 0
        /\ phase[o] = "zero" <=> TornDownBy(o) # {}
        /\ \A s, t \in TornDownBy(o) : s = t
        /\ entry_object[o] => \/ phase[o] = "live"
                              \/ \E t \in TornDownBy(o) : pc[t] = "remove"
        /\ phase[o] = "none" => \A m \in Maps : stored[m] # o

\* A slot holds the id of the object stored last; a freed map holds none.
SlotsFit ==
    \A m \in Maps :
        /\ slot[m] = NoId <=> stored[m] = None
        /\ stored[m] # None => slot[m] = id[stored[m]]
        /\ phase[m] = "freed" => stored[m] = None

\* An object that thread t can reach without a reference has not been scheduled,
\* or waits for t.
Reachable(t, o) ==
    \/ phase[o] \in {"live", "zero"}
    \/ phase[o] = "scheduled" /\ t \in waiters[o]

BorrowedAt(t) ==
    /\ pc[t] \in {"read", "using"} => Reachable(t, obj[t])
    /\ pc[t] \in {"peek", "using"} => Reachable(t, map[t])

BorrowedReachable == \A t \in Threads : BorrowedAt(t)

\* The inductive invariant behind ObjectInv and NoResurrection.
ObjectIInv ==
    /\ TypeOK
    /\ ReferencesCounted /\ PinnedPathsCounted
    /\ IdReferencesCounted /\ IdsValid /\ next_id \notin {NoId, IdMax}
    /\ PointersPlaced /\ PhasesFit /\ SlotsFit /\ BorrowedReachable

\* A reference count that has reached zero stays there: no lookup by id revives
\* an object that is being torn down (_ebpf_object_try_acquire_reference).
NoResurrection ==
    [][\A o \in Objects :
          phase[o] \notin {"none", "live"} => reference_count'[o] = 0]_vars

\* The count of some object has reached zero, and it is not yet freed.
Unfinished == \E o \in Objects : phase[o] \in {"zero", "scheduled"}

\* Objects whose count has reached zero are freed, however many threads still
\* look at them.
UnreferencedIsFreed == Unfinished ~> ~Unfinished
==============================================================================
