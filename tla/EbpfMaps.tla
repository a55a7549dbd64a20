------------------------------ MODULE EbpfMaps ------------------------------
(* The types of map (ebpf_maps.c) and the requests for them (ebpf_core.c).    *)
(* One map is created, used and deleted; a request or a helper call is one    *)
(* action, since what a circular or an object map does it does under a lock,  *)
(* and the races within a hash table are the subject of EbpfLruMap.  A hash   *)
(* table is here a function with the order of its keys for that of its        *)
(* buckets.                                                                   *)
EXTENDS Integers, Sequences, FiniteSets, SequencesExt

CONSTANTS
  Types,           \* the types of map that are created
  MaxEntries,
  Keys,            \* of a hash map, naturals
  Values,          \* naturals above 0, which is the value of zeroed memory
  KeyBits,         \* bits of the key of an LPM map after the prefix length
  BITS_IN_BLOCK,   \* of a bitmap
  Byte,            \* number of values of a byte
  Objects,         \* what a map of objects may hold: naturals, the ids
  ObjectOf(_),     \* kind, program type (None: no such callback), definition
  BatchSize,
  Budget(_),       \* bounds for a type: requests, values and options of updates
  None

VARIABLES
  map,             \* type, program_type and template of the map
  data,            \* entries of an array or a hash table, slots of a queue
  begin, end,
  bitmap,          \* the bits that are set: prefix lengths in use
  setting,         \* bits that updates which entered their key have yet to set
  live,            \* objects that have not been destroyed
  id_references,   \* references of the map on entries of the id table
  unreleased,      \* how many of them stand for ids that are no longer stored
  reply, walk, requests

vars == <<map, data, begin, end, bitmap, setting, live, id_references, unreleased, reply, walk,
          requests>>

NoMap == [type |-> "none", program_type |-> None, template |-> None]
Indexes == 0 .. MaxEntries - 1
\* The keys of an LPM map, and the part of one that a table compares.
LpmKeys == [length : 0 .. KeyBits, bits : [1 .. KeyBits -> {0, 1}]]
Prefix(key, length) == [length |-> length, bits |-> SubSeq(key.bits, 1, length)]

\* ebpf_map_metadata_tables
Arrays == {"ARRAY", "PROG_ARRAY", "ARRAY_OF_MAPS"}
Tables == {"HASH", "HASH_OF_MAPS", "LPM_TRIE"}
Circular == {"QUEUE", "STACK"}
ObjectMaps == {"PROG_ARRAY", "ARRAY_OF_MAPS", "HASH_OF_MAPS"}
MapsOfMaps == {"ARRAY_OF_MAPS", "HASH_OF_MAPS"}
Updatable == {"ARRAY", "HASH", "LPM_TRIE"} \cup Circular
Iterable == Arrays \cup Tables

KeysOf(type) ==
  CASE type \in Arrays -> 0 .. MaxEntries
    [] type = "LPM_TRIE" -> LpmKeys
    [] OTHER -> Keys
\* A key as the table sees it.
Stored(key) == IF map.type = "LPM_TRIE" THEN Prefix(key, key.length) ELSE key
-----------------------------------------------------------------------------
(* Replies, and the walk of a client that reads the map in batches.           *)

NoWalk == [keys |-> <<>>, expected |-> {}, stable |-> FALSE, done |-> FALSE]

\* The key is kept of a lookup that was answered.
Reply(operation, key, result, value) ==
  reply' = [operation |-> operation, key |-> key, result |-> result, value |-> value]

MayRequest == map.type # "none" /\ requests < Budget(map.type).requests

Request == MayRequest /\ requests' = requests + 1

Disturbed == walk' = [walk EXCEPT !.stable = FALSE]
-----------------------------------------------------------------------------
(* ebpf_map_create and _ebpf_map_delete.                                      *)

\* The handle of a template is given for a map of maps, and for no other map.
InnerMapFits(type, inner) ==
  type = "PROG_ARRAY" \/ (inner # None <=> type \in MapsOfMaps)

CreateErrors(type, inner) ==
  CASE inner = None /\ type \in MapsOfMaps -> {"INVALID_FD"}
    [] inner # None /\ type \notin ObjectMaps -> {"INVALID_ARGUMENT"}
    [] OTHER -> {"INVALID_ARGUMENT", "NO_MEMORY", "OPERATION_NOT_SUPPORTED"}

EmptyData(type) == IF type \in Tables THEN <<>> ELSE [i \in Indexes |-> 0]

Create(type) ==
  /\ map.type = "none" /\ requests < Budget(type).requests /\ requests' = requests + 1
  /\ \E inner \in {o \in live : ObjectOf(o).kind = "map"} \cup {None} :
       \/ /\ InnerMapFits(type, inner)
          /\ map' = [type |-> type, program_type |-> None,
                     template |-> IF type \in MapsOfMaps THEN ObjectOf(inner).definition ELSE None]
          /\ data' = EmptyData(type)
          /\ begin' = 0 /\ end' = 0 /\ bitmap' = {} /\ UNCHANGED setting
          /\ Reply("create", None, "SUCCESS", None)
       \* Nothing is kept of a map that could not be created.
       \/ /\ \E r \in CreateErrors(type, inner) : Reply("create", None, r, None)
          /\ UNCHANGED <<map, data, begin, end, bitmap, setting>>
  /\ walk' = NoWalk
  /\ UNCHANGED <<live, id_references, unreleased>>

\* How often an object is an entry of the map.
Held(o) == IF map.type \in ObjectMaps THEN Cardinality({k \in DOMAIN data : data[k] = o}) ELSE 0

Delete ==
  /\ Request /\ setting = {}
  /\ id_references' = [o \in Objects |-> id_references[o] - Held(o)]
  /\ map' = NoMap /\ data' = <<>> /\ begin' = 0 /\ end' = 0 /\ bitmap' = {}
  /\ walk' = NoWalk
  /\ Reply("delete_map", None, "SUCCESS", None)
  /\ UNCHANGED <<live, setting, unreleased>>
-----------------------------------------------------------------------------
(* Bitmaps.                                                                   *)

BIT_TO_BLOCK(x) == x \div BITS_IN_BLOCK
START_OF_BLOCK(x) == x - (x % BITS_IN_BLOCK)
Block(b) == {x % BITS_IN_BLOCK : x \in {y \in bitmap : BIT_TO_BLOCK(y) = b}}
bit_count == KeyBits + 1

Cursor(offset) == [next_bit_offset |-> offset, current_block_copy |-> Block(BIT_TO_BLOCK(offset))]

\* The search starts at the bit before the last one.
StartReverseSearch_Short == Cursor(bit_count - 2)
StartReverseSearch == Cursor(bit_count - 1)

\* The bit found, None for MAXSIZE_T, and where the cursor is then.
RECURSIVE ReverseSearchNextBit(_)
ReverseSearchNextBit(cursor) ==
  LET start == START_OF_BLOCK(cursor.next_bit_offset)
      bit == Max(cursor.current_block_copy)
  IN  CASE cursor.current_block_copy # {} ->
             [bit |-> bit + start,
              cursor |-> [next_bit_offset |-> bit + start,
                          current_block_copy |-> cursor.current_block_copy \ {bit}]]
        [] cursor.current_block_copy = {} /\ start = 0 -> [bit |-> None, cursor |-> cursor]
        [] OTHER -> ReverseSearchNextBit(Cursor(start - 1))
-----------------------------------------------------------------------------
(* find_entry of each type: the result, and the value or 0.                   *)

Found(result, value) == [result |-> result, value |-> value]

FindArray(key, delete) ==
  IF delete \/ key >= MaxEntries THEN Found("INVALID_ARGUMENT", 0) ELSE Found("SUCCESS", data[key])

FindHash(key) ==
  IF key \in DOMAIN data THEN Found("SUCCESS", data[key]) ELSE Found("OBJECT_NOT_FOUND", 0)

RECURSIVE FindPrefix(_, _)
FindPrefix(cursor, key) ==
  LET next == ReverseSearchNextBit(cursor)
  IN  CASE next.bit = None -> Found("KEY_NOT_FOUND", 0)
        [] next.bit # None /\ Prefix(key, next.bit) \in DOMAIN data ->
             Found("SUCCESS", data[Prefix(key, next.bit)])
        [] OTHER -> FindPrefix(next.cursor, key)

\* With a delete of what was found, where the type can do that.  The reference on
\* the id that a map of maps stored is not released with it.
Find(helper) ==
  /\ Request /\ map.type \in Iterable
  /\ \E key \in KeysOf(map.type), delete \in BOOLEAN :
       LET object == helper /\ map.type \in ObjectMaps
           f == CASE map.type = "LPM_TRIE" /\ delete -> Found("INVALID_ARGUMENT", 0)
                  [] map.type = "LPM_TRIE" /\ ~delete -> FindPrefix(StartReverseSearch, key)
                  [] map.type \in Arrays -> FindArray(key, delete /\ ~object)
                  [] OTHER -> FindHash(key)
       IN  \/ \* A helper gets the object, and never deletes it.
              /\ object
              /\ IF map.type = "PROG_ARRAY" THEN Reply("find", None, "INVALID_ARGUMENT", 0)
                 ELSE IF f.value \in live THEN Reply("find", key, "SUCCESS", f.value)
                 ELSE Reply("find", key, "OBJECT_NOT_FOUND", 0)
              /\ UNCHANGED <<data, walk, unreleased>>
           \/ /\ ~object
              /\ IF delete /\ f.result = "SUCCESS"
                 THEN /\ data' = [k \in DOMAIN data \ {key} |-> data[k]] /\ Disturbed
                      /\ unreleased' = [o \in Objects |->
                           unreleased[o] + IF map.type \in ObjectMaps /\ o = f.value THEN 1 ELSE 0]
                 ELSE UNCHANGED <<data, walk, unreleased>>
              /\ Reply("find", IF f.result = "INVALID_ARGUMENT" THEN None ELSE key, f.result, f.value)
  /\ UNCHANGED <<map, begin, end, bitmap, setting, live, id_references>>
-----------------------------------------------------------------------------
(* Queues and stacks.                                                         *)

Add(value, delta) == (MaxEntries + value + delta) % MaxEntries

PeekOrPop(pop) ==
  /\ Request /\ map.type \in Circular
  /\ LET at == IF map.type = "QUEUE" THEN begin ELSE Add(end, -1)
     IN  /\ IF data[at] = 0 THEN Reply("pop", None, "OBJECT_NOT_FOUND", None)
            ELSE Reply("pop", None, "SUCCESS", data[at])
         /\ IF pop /\ data[at] # 0
            THEN /\ data' = [data EXCEPT ![at] = 0]
                 /\ begin' = IF map.type = "QUEUE" THEN Add(begin, 1) ELSE begin
                 /\ end' = IF map.type = "STACK" THEN at ELSE end
            ELSE UNCHANGED <<data, begin, end>>
  /\ UNCHANGED <<map, bitmap, setting, live, id_references, unreleased, walk>>

\* The oldest value is overwritten, and begin stays where it was.
BeginAfter_Kept(full) == begin
BeginAfter(full) == IF full THEN Add(begin, 1) ELSE begin

Push(replace) ==
  /\ Request /\ map.type \in Circular
  /\ LET full == data[end] # 0
     IN  \/ /\ ~full \/ replace
            /\ \E v \in Budget(map.type).values : data' = [data EXCEPT ![end] = v]
            /\ begin' = BeginAfter(full)
            /\ end' = Add(end, 1)
            /\ Reply("push", None, "SUCCESS", None)
         \/ /\ full /\ ~replace
            /\ Reply("push", None, "OUT_OF_SPACE", None) /\ UNCHANGED <<data, begin, end>>
         \/ Reply("push", None, "NO_MEMORY", None) /\ UNCHANGED <<data, begin, end>>
  /\ UNCHANGED <<map, bitmap, setting, live, id_references, unreleased, walk>>

\* Push, pop and peek of a map that is no queue: the key is a null pointer.
NotCircular ==
  /\ Request /\ map.type \notin Circular
  /\ \E push \in BOOLEAN :
       Reply("pop", None, IF push /\ map.type \in ObjectMaps THEN "OPERATION_NOT_SUPPORTED"
                          ELSE "INVALID_ARGUMENT", None)
  /\ UNCHANGED <<map, data, begin, end, bitmap, setting, live, id_references, unreleased, walk>>
-----------------------------------------------------------------------------
(* update_entry of arrays and hash tables.                                    *)

Options == {"ANY", "NOEXIST", "EXIST"}

\* ebpf_hash_table_update: the outcomes it may have.
TableOutcomes(key, option) ==
  CASE option = "NOEXIST" /\ key \in DOMAIN data -> {"OBJECT_ALREADY_EXISTS"}
    [] option = "EXIST" /\ key \notin DOMAIN data -> {"KEY_NOT_FOUND"}
    [] OTHER -> {"SUCCESS", "NO_MEMORY"}

Assign(key, value) ==
  [k \in DOMAIN data \cup {key} |-> IF k = key THEN value ELSE data[k]]

Update(key, value, option) ==
  /\ Request /\ map.type \in Updatable \ Circular
  /\ \/ /\ map.type = "ARRAY"
        /\ IF option = "NOEXIST" \/ key >= MaxEntries
           THEN Reply("update", None, "INVALID_ARGUMENT", None) /\ UNCHANGED data
           ELSE Reply("update", None, "SUCCESS", None) /\ data' = Assign(key, value)
        /\ UNCHANGED setting
     \/ /\ map.type \in Tables
        /\ \E r \in TableOutcomes(Stored(key), option) :
             /\ data' = IF r = "SUCCESS" THEN Assign(Stored(key), value) ELSE data
             /\ IF r = "SUCCESS" /\ map.type = "LPM_TRIE"
                THEN setting' = setting \cup {key.length} /\ Reply("updating", None, None, None)
                ELSE UNCHANGED setting /\ Reply("update", None, r, None)
  /\ Disturbed
  /\ UNCHANGED <<map, begin, end, bitmap, live, id_references, unreleased>>

\* _update_lpm_map_entry has entered the key, and sets the bit of its length.
SetBit(length) ==
  /\ length \in setting /\ setting' = setting \ {length}
  /\ bitmap' = bitmap \cup {length}
  /\ Reply("update", None, "SUCCESS", None)
  /\ UNCHANGED <<map, data, begin, end, live, id_references, unreleased, walk, requests>>

\* _ebpf_core_protocol_map_update_element_batch: up to the first that fails.
UpdateBatch(first, second, value) ==
  /\ Request /\ map.type = "HASH"
  /\ \E r1 \in TableOutcomes(first, "ANY"), r2 \in TableOutcomes(second, "ANY") :
       LET one == IF r1 = "SUCCESS" THEN Assign(first, value) ELSE data
       IN  /\ data' = IF r1 = "SUCCESS" /\ r2 = "SUCCESS"
                      THEN [k \in DOMAIN one \cup {second} |-> IF k = second THEN value ELSE one[k]]
                      ELSE one
           /\ Reply("update", None, IF r1 = "SUCCESS" THEN r2 ELSE r1, None)
  /\ Disturbed
  /\ UNCHANGED <<map, begin, end, bitmap, setting, live, id_references, unreleased>>
-----------------------------------------------------------------------------
(* Maps of objects.                                                           *)

\* _associate_program_with_prog_array_map
AssociateProgram(type) ==
  /\ Request /\ map.type = "PROG_ARRAY"
  /\ map' = [map EXCEPT !.program_type = IF @ = None THEN type ELSE @]
  /\ Reply("associate", None, IF map.program_type \in {None, type} THEN "SUCCESS" ELSE "INVALID_FD", None)
  /\ UNCHANGED <<data, begin, end, bitmap, setting, live, id_references, unreleased, walk>>

\* _validate_map_value_object: what it says, and the program type it leaves.
WrongValue(o) == map.type \in MapsOfMaps /\ ObjectOf(o).definition # map.template
WrongProgramType(o) ==
  ObjectOf(o).program_type # None /\ map.program_type \notin {None, ObjectOf(o).program_type}
ProgramTypeAfter(o) ==
  IF WrongValue(o) \/ map.program_type # None THEN map.program_type ELSE ObjectOf(o).program_type
Validate(o) ==
  CASE WrongValue(o) -> "INVALID_OBJECT"
    [] ~WrongValue(o) /\ WrongProgramType(o) -> "INVALID_FD"
    [] OTHER -> "SUCCESS"

\* No reference is taken on the new id.
References_NotAcquired(old, new) == [o \in Objects |-> id_references[o] - (IF o = old THEN 1 ELSE 0)]
\* The reference on the id that was stored goes, that on the new one comes.
References(old, new) ==
  [o \in Objects |-> id_references[o] + (IF o = new THEN 1 ELSE 0) - (IF o = old THEN 1 ELSE 0)]

ValueKind == IF map.type = "PROG_ARRAY" THEN "program" ELSE "map"
Refused(result) ==
  Reply("update_handle", None, result, None) /\ UNCHANGED <<map, data, id_references>>

\* _update_array_map_entry_with_handle.  An invalid handle erases the entry; the
\* entry is found with the first byte of the key.
UpdateArrayWithHandle(key, o, option) ==
  LET at == key % Byte
      old == data[at]
  IN  \/ (option = "NOEXIST" \/ key >= MaxEntries) /\ Refused("INVALID_ARGUMENT")
      \/ /\ option # "NOEXIST" /\ key < MaxEntries
         /\ \/ /\ o # None
               /\ ObjectOf(o).kind # ValueKind /\ Refused("INVALID_OBJECT")
            \/ /\ o # None
               /\ ObjectOf(o).kind = ValueKind
               /\ map' = [map EXCEPT !.program_type = ProgramTypeAfter(o)]
               /\ Reply("update_handle", None, Validate(o), None)
               /\ IF Validate(o) = "SUCCESS"
                  THEN data' = [data EXCEPT ![at] = o] /\ id_references' = References(old, o)
                  ELSE UNCHANGED <<data, id_references>>
            \/ /\ o = None
               /\ data' = [data EXCEPT ![at] = 0] /\ id_references' = References(old, 0)
               /\ Reply("update_handle", None, "SUCCESS", None) /\ UNCHANGED map

\* _update_hash_map_entry_with_handle.  The value is checked, and may set the
\* program type, before the table has taken it.
UpdateHashWithHandle(key, o, option) ==
  LET old == FindHash(key).value
  IN  \/ o = None /\ Refused("INVALID_OBJECT")
      \/ o # None /\ ObjectOf(o).kind # "map" /\ Refused("INVALID_OBJECT")
      \/ /\ o # None
         /\ ObjectOf(o).kind = "map"
         /\ map' = [map EXCEPT !.program_type = ProgramTypeAfter(o)]
         /\ \E r \in (IF Validate(o) = "SUCCESS" THEN TableOutcomes(key, option) ELSE {Validate(o)}) :
              /\ Reply("update_handle", None, r, None)
              /\ IF r = "SUCCESS"
                 THEN data' = Assign(key, o) /\ id_references' = References(old, o)
                 ELSE UNCHANGED <<data, id_references>>

UpdateWithHandle(key, o, option) ==
  /\ Request /\ map.type \in ObjectMaps
  /\ IF map.type \in Arrays THEN UpdateArrayWithHandle(key, o, option)
     ELSE UpdateHashWithHandle(key, o, option)
  /\ Disturbed
  /\ UNCHANGED <<begin, end, bitmap, setting, live, unreleased>>

\* ebpf_map_get_program_from_entry, for a tail call.
GetProgram(key) ==
  /\ Request /\ map.type = "PROG_ARRAY"
  /\ LET id == FindArray(key, FALSE).value
     IN  Reply("get_program", None, "SUCCESS", IF id \in live THEN id ELSE 0)
  /\ UNCHANGED <<map, data, begin, end, bitmap, setting, live, id_references, unreleased, walk>>

\* The last reference on an object goes; the maps that hold its id keep it.
Destroy(o) ==
  /\ map.type \in ObjectMaps /\ o \in live /\ live' = live \ {o}
  /\ UNCHANGED <<map, data, begin, end, bitmap, setting, id_references, unreleased, reply, walk, requests>>
-----------------------------------------------------------------------------
(* delete_entry.                                                              *)

DeleteOutcome(key) ==
  CASE map.type \in Arrays /\ key >= MaxEntries -> "INVALID_ARGUMENT"
    [] map.type \in Tables /\ Stored(key) \notin DOMAIN data ->
         IF map.type = "HASH_OF_MAPS" THEN "OBJECT_NOT_FOUND" ELSE "KEY_NOT_FOUND"
    [] OTHER -> "SUCCESS"

Without(key) ==
  IF map.type \in Arrays THEN [data EXCEPT ![key] = 0]
  ELSE [k \in DOMAIN data \ {Stored(key)} |-> data[k]]

ReferencesWithout_Kept(key) == id_references
\* What is deleted with the entry: the reference on the object it holds.
ReferencesWithout(key) == IF map.type \in ObjectMaps THEN References(data[key], 0) ELSE id_references

DeleteEntry(key) ==
  /\ Request /\ map.type \in Iterable
  /\ Reply("delete", None, DeleteOutcome(key), None)
  /\ IF DeleteOutcome(key) = "SUCCESS"
     THEN data' = Without(key) /\ id_references' = ReferencesWithout(key)
     ELSE UNCHANGED <<data, id_references>>
  /\ Disturbed
  /\ UNCHANGED <<map, begin, end, bitmap, setting, live, unreleased>>
-----------------------------------------------------------------------------
(* next_key_and_value, and reading in batches.                                *)

Least(S) == CHOOSE k \in S : \A j \in S : k <= j

NextKey(table, previous) ==
  LET after == {k \in DOMAIN table : previous = None \/ k > previous}
  IN  CASE map.type \in Tables /\ previous # None /\ previous \notin DOMAIN table ->
             Found("KEY_NOT_FOUND", None)
        [] OTHER -> IF after = {} THEN Found("NO_MORE_KEYS", None) ELSE Found("SUCCESS", Least(after))

\* _ebpf_core_protocol_map_get_next_key: the first key if the previous has gone.
GetNextKey(previous) ==
  /\ Request /\ map.type \in Iterable \ {"LPM_TRIE"}
  /\ LET first == NextKey(data, previous)
         f == IF first.result = "KEY_NOT_FOUND" THEN NextKey(data, None) ELSE first
     IN  Reply("next", None, f.result, f.value)
  /\ UNCHANGED <<map, data, begin, end, bitmap, setting, live, id_references, unreleased, walk>>

Zeroed(table, key) ==
  IF map.type \in Arrays THEN [table EXCEPT ![key] = 0] ELSE [k \in DOMAIN table \ {key} |-> table[k]]

\* The entry is deleted before the next one is looked for.
RECURSIVE Batch_DeletesFirst(_, _, _, _)
Batch_DeletesFirst(table, previous, room, delete) ==
  LET gone == IF delete /\ previous # None THEN Zeroed(table, previous) ELSE table
      next == NextKey(gone, previous)
      rest == Batch_DeletesFirst(gone, next.value, room - 1, delete)
  IN  CASE room = 0 -> [table |-> table, keys |-> <<>>, result |-> "SUCCESS"]
        [] room > 0 /\ next.result # "SUCCESS" ->
             [table |-> gone, keys |-> <<>>, result |-> next.result]
        [] OTHER -> [rest EXCEPT !.keys = <<next.value>> \o @]

\* The loop of ebpf_map_get_next_key_and_value_batch, with room for so many
\* entries.  What it deletes on the way is the previous key, and the delete of
\* a null key fails.
RECURSIVE Batch(_, _, _, _)
Batch(table, previous, room, delete) ==
  LET next == NextKey(table, previous)
      gone == IF delete THEN Zeroed(table, previous) ELSE table
      rest == Batch(gone, next.value, room - 1, delete)
  IN  CASE room = 0 -> [table |-> table, keys |-> <<>>, result |-> "SUCCESS"]
        [] room > 0 /\ next.result # "SUCCESS" ->
             [table |-> table, keys |-> <<>>, result |-> next.result]
        [] room > 0 /\ next.result = "SUCCESS" /\ delete /\ previous = None ->
             [table |-> table, keys |-> <<>>, result |-> "INVALID_ARGUMENT"]
        [] OTHER -> [rest EXCEPT !.keys = <<next.value>> \o @]

\* A client that goes through the map, from the start or from the last key it
\* has got.
GetBatch(start, delete) ==
  /\ Request /\ map.type \in {"ARRAY", "HASH"}
  /\ start \/ walk.keys # <<>>
  /\ LET w == IF start THEN [NoWalk EXCEPT !.expected = DOMAIN data, !.stable = TRUE] ELSE walk
         b == Batch(data, IF start THEN None ELSE Last(walk.keys), BatchSize, delete)
         result == IF b.result = "NO_MORE_KEYS" /\ b.keys # <<>> THEN "SUCCESS" ELSE b.result
     IN  /\ data' = b.table
         /\ Reply("batch", None, result, b.keys)
         /\ walk' = [w EXCEPT !.keys = @ \o b.keys, !.done = result \in {"NO_MORE_KEYS", "KEY_NOT_FOUND"}]
  /\ UNCHANGED <<map, begin, end, bitmap, setting, live, id_references, unreleased>>
-----------------------------------------------------------------------------
\* A request with a handle that is no map's, or with sizes that do not fit, and
\* one for an operation that the type has not got.
BadRequest ==
  /\ Request
  /\ \E r \in {"INVALID_ARGUMENT", "OPERATION_NOT_SUPPORTED"} : Reply("bad", None, r, None)
  /\ UNCHANGED <<map, data, begin, end, bitmap, setting, live, id_references, unreleased, walk>>

Init ==
  /\ map = NoMap /\ data = <<>> /\ begin = 0 /\ end = 0 /\ bitmap = {} /\ setting = {}
  /\ live = Objects
  /\ id_references = [o \in Objects |-> 0] /\ unreleased = [o \in Objects |-> 0]
  /\ reply = [operation |-> None, key |-> None, result |-> None, value |-> None]
  /\ walk = NoWalk /\ requests = 0

ProgramTypes == {ObjectOf(o).program_type : o \in Objects} \ {None}

MapFindElement == Find(FALSE) \/ (\E pop \in BOOLEAN : PeekOrPop(pop)) \/ BadRequest
MapUpdateElement ==
  \/ \E key \in KeysOf(map.type), value \in Budget(map.type).values, option \in Budget(map.type).options :
       Update(key, value, option)
  \/ \E replace \in BOOLEAN : Push(replace)
  \/ BadRequest
MapUpdateElementBatch ==
  /\ map.type = "HASH"
  /\ \E first, second \in Keys, value \in Budget(map.type).values : UpdateBatch(first, second, value)
MapUpdateElementWithHandle ==
  /\ map.type \in ObjectMaps
  /\ \E key \in KeysOf(map.type), o \in live \cup {None}, option \in Budget(map.type).options :
       UpdateWithHandle(key, o, option)
MapDeleteElement == \E key \in KeysOf(map.type) : DeleteEntry(key)
MapGetNextKey == \E previous \in KeysOf(map.type) \cup {None} : GetNextKey(previous)
MapGetNextKeyValueBatch == \E start, delete \in BOOLEAN : GetBatch(start, delete)

\* Calls of programs: lookups without a copy, which differ from those of requests
\* where a map holds objects; push, pop and peek; tail calls.
Helper ==
  \/ map.type \in ObjectMaps /\ Find(TRUE)
  \/ NotCircular
  \/ \E key \in KeysOf(map.type) : GetProgram(key)

Next ==
  \/ \E type \in Types : Create(type)
  \/ /\ MayRequest
     /\ \/ Delete
        \/ MapFindElement \/ MapUpdateElement \/ MapUpdateElementBatch \/ MapUpdateElementWithHandle
        \/ MapDeleteElement \/ MapGetNextKey \/ MapGetNextKeyValueBatch \/ Helper
        \/ \E type \in ProgramTypes : AssociateProgram(type)
  \/ \E length \in setting : SetBit(length)
  \/ \E o \in Objects : Destroy(o)

Spec == Init /\ [][Next]_vars
-----------------------------------------------------------------------------
(* Properties.                                                                *)

TypeOK ==
  /\ map.type \in Types \cup {"none"}
  /\ begin \in Indexes /\ end \in Indexes
  /\ bitmap \subseteq 0 .. KeyBits /\ setting \subseteq 0 .. KeyBits
  /\ live \subseteq Objects
  /\ id_references \in [Objects -> Int]
  /\ requests \in Nat

\* An id that is stored in a map is protected by a reference for each place it
\* is stored in, so it is not given to another object (ebpf_object.c), and the map
\* has no other references but those of ids that a lookup took out of a map of
\* maps with its delete flag: _find_hash_map_entry deletes the entry of any hash
\* map in the same way, and these are never released; every
\* program of a program array has the type of the array, so that a tail call
\* stays within the type its caller was verified for; every map in a map of
\* maps is like the template (_validate_map_value_object).
ObjectMapInv ==
  /\ TypeOK
  /\ \A o \in Objects : id_references[o] = Held(o) + unreleased[o]
  /\ map.type \in ObjectMaps =>
       \A k \in DOMAIN data : data[k] # 0 =>
         /\ ObjectOf(data[k]).kind = ValueKind
         /\ map.type = "PROG_ARRAY" => ObjectOf(data[k]).program_type = map.program_type
         /\ map.type \in MapsOfMaps => ObjectOf(data[k]).definition = map.template

\* A lookup in an LPM map returns the value of the longest prefix in the map
\* that the key starts with (_find_lpm_map_entry), however the lengths are
\* spread over the blocks of the bitmap and whatever was deleted before.  Only a
\* prefix whose update has not returned yet may be missed, and only when it is
\* the first of its length (_update_lpm_map_entry).
LongestPrefix ==
  (map.type = "LPM_TRIE" /\ reply.operation = "find" /\ reply.result # "INVALID_ARGUMENT") =>
    LET entered == {p \in DOMAIN data : p.length \notin setting \ bitmap}
        matching == {p \in entered : p = Prefix(reply.key, p.length)}
    IN  reply.value = IF matching = {} THEN 0
                      ELSE data[CHOOSE p \in matching : \A q \in matching : q.length <= p.length]

\* A client that reads a map in batches while nobody else changes it gets every
\* key exactly once, also when it has the entries deleted that it has passed
\* (ebpf_map_get_next_key_and_value_batch).
WalkComplete ==
  /\ \A i, j \in DOMAIN walk.keys : walk.stable /\ walk.keys[i] = walk.keys[j] => i = j
  /\ walk.done /\ walk.stable => Range(walk.keys) = walk.expected

\* A queue or a stack is a bounded sequence of values: the slots from begin on
\* (_ebpf_core_circular_map_push, _peek_or_pop).
Contents ==
  IF map.type \notin Circular THEN <<>>
  ELSE [i \in 1 .. Cardinality({s \in Indexes : data[s] # 0}) |-> data[Add(begin, i - 1)]]

Sequence == INSTANCE CircularMapSpec WITH
  Capacity <- MaxEntries,
  kind <- IF map.type \in Circular THEN map.type ELSE "none",
  contents <- Contents,
  answer <- IF reply.operation \in {"push", "pop", "bad"} /\ map.type \in Circular
            THEN [result |-> reply.result, value |-> reply.value]
            ELSE [result |-> None, value |-> None]

CircularIsSequence == Sequence!Spec
=============================================================================
