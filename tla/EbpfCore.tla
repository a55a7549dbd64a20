------------------------------ MODULE EbpfCore ------------------------------
(***************************************************************************)
(* The requests of the execution context (ebpf_core.c) that create, find,  *)
(* pin, link and close objects.  Every request is one handler of           *)
(* _ebpf_protocol_handlers: it takes references on the objects its handles *)
(* name, does its work, and releases the references on every path out.     *)
(* The model keeps each of those reference count changes, in the order of  *)
(* the code, and lets every step that allocates fail.                      *)
(*                                                                         *)
(* A handler is an action with its arguments; the last argument is the     *)
(* reply: a handle (None if the request failed) or a result in Results.    *)
(* Loading code leaves nothing behind when it fails, and only its success  *)
(* is an action.                                                           *)
(***************************************************************************)
EXTENDS Integers, Sequences, Bags, FiniteSets, FiniteSetsExt, Functions

CONSTANTS
    Clients,      \* processes that open handles
    Paths,        \* pin paths
    Hooks,        \* attach parameters (an interface index, a compartment)
    Defs,         \* map definitions the requests ask for
    MaxObjects,   \* bound on the objects ever created
    MaxHandles    \* bound on the handles one process has open

VARIABLES
    object,       \* id -> the tracked object
    handle,       \* process -> handle value -> id, None when the value is free
    pin           \* _ebpf_core_map_pinning_table: path -> id, None

coreVars == <<object, handle, pin>>

None == 0
Ids == 1 .. MaxObjects
Handles == 1 .. MaxHandles
Results == {"success", "failure"}

CoreConstants ==
    /\ MaxObjects \in Nat \ {0}
    /\ MaxHandles \in Nat \ {0}
    /\ IsFiniteSet(Clients) /\ IsFiniteSet(Paths)

(* An object: its type, its reference count, a map's definition and the id *)
(* of its inner map, the maps a program is associated with (a bag, since a *)
(* map can be bound twice), whether a program has code, the                *)
(* program a link is attached to and the link's attach parameter.  lost    *)
(* is not in the code: it counts the references of which the code forgets  *)
(* the holder, in the two handlers where it does (ResolveMaps and          *)
(* UnlinkByData).                                                          *)
NoObject ==
    [type |-> "none", ref |-> 0, lost |-> 0, def |-> None, inner |-> None,
     maps |-> EmptyBag, code |-> FALSE, program |-> None, hook |-> None]

Live(o, i) == i # None /\ o[i].ref > 0

CoreTypeOK ==
    /\ \A i \in Ids :
        /\ object[i].type \in {"none", "map", "program", "link", "module"}
        /\ object[i].ref \in Nat
        /\ object[i].program \in Ids \cup {None}
    /\ handle \in [Clients -> [Handles -> Ids \cup {None}]]
    /\ pin \in [Paths -> Ids \cup {None}]

CoreInit ==
    /\ object = [i \in Ids |-> NoObject]
    /\ handle = [c \in Clients |-> [h \in Handles |-> None]]
    /\ pin = [p \in Paths |-> None]

-----------------------------------------------------------------------------
(* References.  An id is used for one object only. *)

Fresh == {i \in Ids : object[i].type = "none" /\ \A j \in Ids : j < i => object[j].type # "none"}

Acquire(o, i) == [o EXCEPT ![i].ref = @ + 1]

Drop(o, i) == [o EXCEPT ![i].ref = @ - 1]

Attached(o, p) == {l \in Ids : o[l].type = "link" /\ o[l].program = p}

(* ebpf_link_detach_program takes a reference for its own time, and does   *)
(* nothing to a link that is not attached; else the program's "attach"     *)
(* reference on the link goes.                                             *)
DetachProgram(o, l) ==
    IF o[l].program = None
    THEN o
    ELSE [o EXCEPT ![l].program = None, ![l].hook = None, ![l].ref = @ - 1]

DetachAll(o, S) ==
    [i \in Ids |-> IF i \in S THEN DetachProgram(o, i)[i] ELSE o[i]]

(* ebpf_object_release_reference: a program whose count falls to zero      *)
(* detaches its links and releases its maps.  Mutant: the maps are kept.   *)
Release_MapsKept(o, i) ==
    IF i = None THEN o
    ELSE IF o[i].type # "program" \/ o[i].ref > 1 THEN Drop(o, i)
    ELSE [DetachAll(o, Attached(o, i)) EXCEPT ![i].ref = 0, ![i].maps = EmptyBag]

Release(o, i) ==
    IF i = None THEN o
    ELSE IF o[i].type # "program" \/ o[i].ref > 1 THEN Drop(o, i)
    ELSE LET d == DetachAll(o, Attached(o, i))
         IN [j \in Ids |->
                IF j = i THEN [d[i] EXCEPT !.ref = 0, !.maps = EmptyBag]
                ELSE [d[j] EXCEPT !.ref = @ - CopiesIn(j, d[i].maps)]]

(* ebpf_object_reference_by_handle *)
ByHandle(c, h, type) ==
    IF h = None THEN None
    ELSE LET i == handle[c][h]
         IN IF i # None /\ (type = "any" \/ object[i].type = type) THEN i ELSE None

(* ebpf_handle_create: the process gets the lowest free value, unless it   *)
(* has none; the handle holds a reference.  Windows hands a value out      *)
(* again as soon as it was closed.                                         *)
Free(c) == {h \in Handles : handle[c][h] = None}
LowestFree(c) == {h \in Free(c) : \A g \in Free(c) : h <= g}

HandleCreate(c, o, i, h) ==
    \/ /\ h \in LowestFree(c)
       /\ handle' = [handle EXCEPT ![c][h] = i]
       /\ object' = Release(Acquire(o, i), i)
    \/ /\ h = None
       /\ handle' = handle
       /\ object' = Release(o, i)

-----------------------------------------------------------------------------
(* The handlers. *)

New(i, r) == [object EXCEPT ![i] = [r EXCEPT !.ref = 1]]

(* ebpf_core_create_map: a map of maps needs a handle on its inner map,    *)
(* which ebpf_map_create reads and releases.                               *)
CreateMap(c, def, inner, h) ==
    /\ \/ /\ h = None
          /\ UNCHANGED <<object, handle>>
       \/ \E i \in Fresh :
            /\ inner # None => ByHandle(c, inner, "map") # None
            /\ HandleCreate(c,
                 New(i, [NoObject EXCEPT !.type = "map", !.def = def,
                                         !.inner = ByHandle(c, inner, "map")]),
                 i, h)
    /\ UNCHANGED pin

(* ebpf_program_create_and_initialize *)
CreateProgram(c, h) ==
    /\ \/ /\ h = None
          /\ UNCHANGED <<object, handle>>
       \/ \E i \in Fresh : HandleCreate(c, New(i, [NoObject EXCEPT !.type = "program"]), i, h)
    /\ UNCHANGED pin

(* _ebpf_core_protocol_load_native_module, and then                        *)
(* _ebpf_core_protocol_load_native_programs: a handle for each of the maps *)
(* the definitions defs ask for and each of n programs, or none at all.    *)
LoadNativeModule(c, h) ==
    /\ \/ /\ h = None
          /\ UNCHANGED <<object, handle>>
       \/ \E i \in Fresh : HandleCreate(c, New(i, [NoObject EXCEPT !.type = "module"]), i, h)
    /\ UNCHANGED pin

Nth(S, k) == CHOOSE x \in S : Cardinality({y \in S : y <= x}) = k

LoadNativePrograms(c, defs, n, mh, ph) ==
    LET m == Len(defs)
        unused == {i \in Ids : object[i].type = "none"}
        id(k) == Nth(unused, k)
        maps == {id(k) : k \in 1 .. m}
        programs == {id(m + k) : k \in 1 .. n}
        slot(k) == Nth(Free(c), k)
    IN /\ Cardinality(unused) >= m + n /\ Cardinality(Free(c)) >= m + n
       /\ mh = [k \in 1 .. m |-> slot(k)]
       /\ ph = [k \in 1 .. n |-> slot(m + k)]
       /\ handle' = [handle EXCEPT ![c] =
            [h \in Handles |->
                IF \E k \in 1 .. m + n : h = slot(k)
                THEN id(CHOOSE k \in 1 .. m + n : h = slot(k)) ELSE @[h]]]
       /\ object' = [i \in Ids |->
            IF i \in maps
            THEN [NoObject EXCEPT !.type = "map", !.ref = 1 + n,
                                  !.def = defs[CHOOSE k \in 1 .. m : id(k) = i]]
            ELSE IF i \in programs
            THEN [NoObject EXCEPT !.type = "program", !.ref = 1, !.code = TRUE,
                                  !.maps = SetToBag(maps)]
            ELSE object[i]]
       /\ UNCHANGED pin

(* ebpf_core_resolve_maps and ebpf_program_associate_maps: a reference on  *)
(* the program, and one on the map of each handle of the sequence hs until *)
(* one is not a map's; then the program takes one of its own for every     *)
(* handle, a map named twice included.  The way out, on success and on     *)
(* failure, releases what the request took.  Maps bound to the program     *)
(* before are forgotten without being released.                            *)
AcquireAll(o, ids) == FoldFunction(LAMBDA i, x : Acquire(x, i), o, ids)

ReleaseAll(o, ids) == FoldFunction(LAMBDA i, x : Release(x, i), o, ids)

AssociateMaps(o, p, ids) ==
    LET used == [i \in Range(ids) |-> Cardinality({k \in DOMAIN ids : ids[k] = i})]
    IN [i \in Ids |->
            IF i = p THEN [o[i] EXCEPT !.maps = used]
            ELSE [o[i] EXCEPT !.ref = @ + CopiesIn(i, used), !.lost = @ + CopiesIn(i, o[p].maps)]]

ResolveMaps(c, hp, hs, result) ==
    LET p == ByHandle(c, hp, "program")
        ids == [k \in DOMAIN hs |-> ByHandle(c, hs[k], "map")]
        wrong == {k \in DOMAIN ids : ids[k] = None}
        found == IF wrong = {} THEN ids ELSE SubSeq(ids, 1, Min(wrong) - 1)
        taken == AcquireAll(Acquire(object, p), found)
        done == IF result = "success" THEN AssociateMaps(taken, p, ids) ELSE taken
    IN /\ result = "success" => p # None /\ wrong = {}
       /\ object' = IF p = None THEN object ELSE Release(ReleaseAll(done, found), p)
       /\ UNCHANGED <<handle, pin>>

(* _ebpf_core_protocol_bind_map *)
BindMap(c, hp, hm, result) ==
    LET p == ByHandle(c, hp, "program")
        m == ByHandle(c, hm, "map")
        taken == Acquire(Acquire(object, p), m)
    IN /\ p # None /\ m # None
       /\ object' =
            IF result = "success"
            THEN Release(Release([Acquire(taken, m) EXCEPT ![p].maps = @ (+) SetToBag({m})], p), m)
            ELSE Release(Release(taken, p), m)
       /\ UNCHANGED <<handle, pin>>

(* ebpf_core_load_code *)
LoadCode(c, hp) ==
    LET p == ByHandle(c, hp, "program")
    IN /\ p # None
       /\ object' = Release([Acquire(object, p) EXCEPT ![p].code = TRUE], p)
       /\ UNCHANGED <<handle, pin>>

(* ebpf_core_update_pinning and ebpf_pinning_table_insert: the entry holds *)
(* a reference; an insertion that fails frees the entry and with it that   *)
(* reference.  Mutant: the entry of a path already in use is forgotten.    *)
Pin_EntryKept(c, h, p, result) ==
    LET i == ByHandle(c, h, "any")
    IN /\ result = "success" => i # None /\ pin[p] = None
       /\ object' = IF i = None THEN object ELSE Release(Acquire(Acquire(object, i), i), i)
       /\ pin' = IF result = "success" THEN [pin EXCEPT ![p] = i] ELSE pin
       /\ UNCHANGED handle

Pin(c, h, p, result) ==
    LET i == ByHandle(c, h, "any")
        taken == Acquire(Acquire(object, i), i)
    IN /\ result = "success" => i # None /\ pin[p] = None
       /\ object' =
            IF i = None THEN object
            ELSE IF result = "success" THEN Release(taken, i)
            ELSE Release(Release(taken, i), i)
       /\ pin' = IF result = "success" THEN [pin EXCEPT ![p] = i] ELSE pin
       /\ UNCHANGED handle

(* ebpf_pinning_table_delete *)
Unpin(p, result) ==
    /\ result = "success" <=> pin[p] # None
    /\ object' = Release(object, pin[p])
    /\ pin' = [pin EXCEPT ![p] = None]
    /\ UNCHANGED handle

(* ebpf_core_get_pinned_object *)
GetPinned(c, p, h) ==
    /\ \/ /\ pin[p] = None
          /\ h = None
          /\ UNCHANGED <<object, handle>>
       \/ /\ pin[p] # None
          /\ HandleCreate(c, Acquire(object, pin[p]), pin[p], h)
    /\ UNCHANGED pin

(* ebpf_core_get_handle_by_id: an object whose count is zero is not found. *)
HandleById(c, i, type, h) ==
    /\ \/ /\ ~Live(object, i) \/ object[i].type # type
          /\ h = None
          /\ UNCHANGED <<object, handle>>
       \/ /\ Live(object, i) /\ object[i].type = type
          /\ HandleCreate(c, Acquire(object, i), i, h)
    /\ UNCHANGED pin

(* ebpf_object_get_next_id: the lowest live id above start, None if none. *)
NextObjectId(start, type) ==
    LET later == {i \in Ids : i > start /\ Live(object, i) /\ object[i].type = type}
    IN IF later = {} THEN None ELSE Min(later)

(* _ebpf_core_protocol_link_program: the link is created, attached to the  *)
(* program (which may fail when no provider takes it), and given a handle; *)
(* a failure on the way detaches it.                                       *)
LinkProgram(c, hp, hook, h) ==
    LET p == ByHandle(c, hp, "program")
    IN /\ \/ /\ h = None
             /\ UNCHANGED <<object, handle>>
          \/ /\ p # None /\ object[p].code
             /\ \E l \in Fresh :
                  LET link == [NoObject EXCEPT !.type = "link", !.program = p, !.hook = hook]
                      attached == Acquire(Acquire(New(l, link), l), p)
                  IN IF h = None
                     THEN /\ object' = Release(Release(DetachProgram(attached, l), p), l)
                          /\ UNCHANGED handle
                     ELSE HandleCreate(c, Release(attached, p), l, h)
       /\ UNCHANGED pin

(* _ebpf_core_protocol_unlink_program with a link handle; a request that   *)
(* fails does so before it has detached anything.                          *)
UnlinkByHandle(c, h, result) ==
    LET l == ByHandle(c, h, "link")
    IN /\ result = "success" => l # None
       /\ object' = IF result = "failure" THEN object
                    ELSE Release(DetachProgram(Acquire(object, l), l), l)
       /\ UNCHANGED <<handle, pin>>

(* The same with attach data, which is how bpf_prog_detach2 calls it:      *)
(* every link that matches is detached, each while the walk of             *)
(* _ebpf_core_find_matching_link holds it.  A detached link has no attach  *)
(* data left to match.  hp is None for any program.                        *)
Matching(p, hook) ==
    {l \in Ids : /\ object[l].type = "link" /\ Live(object, l)
                 /\ object[l].hook = hook
                 /\ p = None \/ object[l].program = p}

(* A handle that is not a program's ends the walk at the first link with   *)
(* the right attach data, and the walk's reference on that link stays.     *)
UnlinkByData(c, hp, hook, result) ==
    LET p == ByHandle(c, hp, "program")
        found == Matching(p, hook)
    IN /\ IF hp # None /\ p = None /\ found # {}
          THEN /\ result = "failure"
               /\ object' = [Acquire(object, Min(found)) EXCEPT ![Min(found)].lost = @ + 1]
          ELSE /\ result = "success"
               /\ object' = DetachAll(object, found)
       /\ UNCHANGED <<handle, pin>>

(* CloseHandle, and ebpf_core_close_context in the driver *)
Close(c, h) ==
    /\ handle' = [handle EXCEPT ![c][h] = None]
    /\ object' = Release(object, handle[c][h])
    /\ UNCHANGED pin

(* Closing a set of handles one after the other *)
CloseAll(c, S) ==
    /\ handle' = [handle EXCEPT ![c] = [h \in Handles |-> IF h \in S THEN None ELSE @[h]]]
    /\ object' = FoldSet(LAMBDA h, o : Release(o, handle[c][h]), object, S)
    /\ UNCHANGED pin

-----------------------------------------------------------------------------
OfType(type) == {i \in Ids : object[i].type = type}

References(i) ==
    Cardinality({<<c, h>> \in Clients \X Handles : handle[c][h] = i})
    + Cardinality({p \in Paths : pin[p] = i})
    + Cardinality(UNION {{p} \X (1 .. CopiesIn(i, object[p].maps)) : p \in OfType("program")})
    + (IF object[i].program # None THEN 1 ELSE 0)
    + object[i].lost

(* No request leaks a reference or releases one too many, on any of its    *)
(* paths: between requests the count of an object is the number of         *)
(* handles, pin paths, programs and attachments that hold it (and the      *)
(* references the two handlers named above lose), so it is freed exactly   *)
(* when the last of them goes.  In particular a handle, a pin path, a      *)
(* program's map and a link's program never name an object that was freed. *)
ReferencesExact ==
    \A i \in Ids \ OfType("none") :
        /\ object[i].ref = References(i)
        /\ object[i].program # None => Live(object, object[i].program)
=============================================================================
