------------------------------- MODULE EbpfApi -------------------------------
(***************************************************************************)
(* The user library (ebpf_api.cpp, libbpf_*.cpp, and the service that      *)
(* verifies and loads byte code): bpf_object open, load, unload and close, *)
(* maps and programs with their handles, pinning, links, and the handles   *)
(* given to the caller.  A call is a sequence of requests to EbpfCore, and *)
(* any other process may send its own requests between two of them; every  *)
(* request may fail, and a process may exit between any two of them.       *)
(*                                                                         *)
(* The object file is given by constants: the maps' definitions, which map *)
(* is the inner map of which, which are pinned by name, and the number of  *)
(* programs.  A file descriptor is modelled by the handle it wraps.        *)
(***************************************************************************)
EXTENDS EbpfCore

CONSTANTS
    MapDefs,      \* sequence: the definition of each map of the file
    Inner,        \* sequence: index of a map's inner map, 0 if it has none
    PinPath,      \* sequence: the path of a map that is LIBBPF_PIN_BY_NAME, else NoPath
    Programs,     \* number of programs of the file
    ProgramPath,  \* sequence: where bpf_object__pin_programs pins each program
    Directory,    \* the path argument of that call
    NoPath,
    MaxLost,      \* bound on the refused descriptors a process outlives
    MaxCalls,     \* bound on the calls of all processes
    MaxExits      \* bound on the processes that exit

VARIABLES
    api,          \* process -> the library's state
    calls,        \* calls made so far
    exits

vars == <<coreVars, api, calls, exits>>

M == 1 .. Len(MapDefs)
P == 1 .. Programs

ApiConstants ==
    /\ Programs \in Nat
    /\ Len(Inner) = Len(MapDefs) /\ Len(PinPath) = Len(MapDefs)
    /\ \A m \in M : Inner[m] \in 0 .. Len(MapDefs)

(* bpf_map: its handle and whether a file descriptor wraps it, and the     *)
(* pinning fields; bpf_program: its handle, descriptor and autoload flag.  *)
NewMap(m) == [h |-> None, fd |-> FALSE, pinned |-> FALSE, reused |-> FALSE, path |-> PinPath[m]]
NewProgram == [h |-> None, fd |-> FALSE, autoload |-> TRUE]

NoLink == [h |-> None, fd |-> FALSE, disconnected |-> FALSE, path |-> NoPath]

(* pc is where a call stands, k the index it has reached, h a handle in a  *)
(* local variable; mh and ph are the handles of a native load that have    *)
(* not been moved to the object.  cache is _ebpf_maps: the definition the  *)
(* library believes a handle to have.  fds are the descriptors the caller  *)
(* owns, link is the caller's bpf_link.  lost is not in the code: the      *)
(* handles that no part of the library will close any more, which each     *)
(* action below that loses one adds to it.                                 *)
NoObjectOpen ==
    [pc |-> "idle", k |-> 0, h |-> None, mh |-> <<>>, ph |-> <<>>,
     open |-> FALSE, native |-> FALSE, loaded |-> FALSE, module |-> None,
     maps |-> <<>>, programs |-> <<>>, link |-> NoLink, fds |-> {}, lost |-> {},
     cache |-> [x \in Handles |-> None]]

Init ==
    /\ CoreInit
    /\ api = [c \in Clients |-> NoObjectOpen]
    /\ calls = 0
    /\ exits = 0

TypeOK ==
    /\ CoreTypeOK
    /\ \A c \in Clients :
        /\ api[c].pc \in {"idle", "maps", "reuse", "validate", "mismatch", "create", "pin", "undo",
                          "programs", "resolve", "code", "failed", "module", "load", "take programs", "take maps",
                          "pin programs", "unpin programs", "link detach", "link close",
                          "replace", "replace check", "replace close"}
        /\ api[c].fds \subseteq Handles /\ api[c].lost \subseteq Handles
    /\ calls \in 0 .. MaxCalls /\ exits \in 0 .. MaxExits

Stay == UNCHANGED <<calls, exits>>
Set(c, r) == api' = [api EXCEPT ![c] = r]
A(c) == api[c]

(* A call begins when the process has no other one in progress. *)
MayCall(c) == calls < MaxCalls /\ api[c].pc = "idle"

Call(c) ==
    /\ MayCall(c)
    /\ calls' = calls + 1
    /\ UNCHANGED exits

HandlesOf(s) == {s[k].h : k \in {j \in DOMAIN s : s[j].fd}}
HandlesIn(s) == {s[k] : k \in DOMAIN s} \ {None}

Uncached(r, S) == [r EXCEPT !.cache = [x \in Handles |-> IF x \in S THEN None ELSE @[x]]]

-----------------------------------------------------------------------------
(* ebpf_object_open: the maps and programs of the file, nothing created. *)
ObjectOpen(c, native) ==
    /\ Call(c)
    /\ ~A(c).open
    /\ Set(c, [A(c) EXCEPT !.open = TRUE, !.native = native, !.loaded = FALSE,
                           !.maps = [m \in M |-> NewMap(m)],
                           !.programs = [p \in P |-> NewProgram]])
    /\ UNCHANGED coreVars

(* bpf_program__set_autoload *)
SetAutoload(c, p) ==
    /\ Call(c)
    /\ A(c).open /\ ~A(c).loaded /\ p \in DOMAIN A(c).programs
    /\ Set(c, [A(c) EXCEPT !.programs[p].autoload = ~@])
    /\ UNCHANGED coreVars

(* ebpf_object_load.  A load that failed may be tried again, also when it  *)
(* left the object without maps and programs.                              *)
ObjectLoad(c) ==
    /\ Call(c)
    /\ A(c).open /\ ~A(c).loaded
    /\ Set(c, [A(c) EXCEPT !.pc = IF A(c).native THEN "module" ELSE "maps", !.k = 1])
    /\ UNCHANGED coreVars

(* ebpf_object_unload: closes and forgets every handle of the object; the  *)
(* object stays "loaded" and its pins stay.  Mutant: the cache entries of  *)
(* the closed handles stay.                                                *)
Unloaded_StaysCached(r) ==
    [r EXCEPT !.maps = [m \in DOMAIN @ |-> [@[m] EXCEPT !.h = None, !.fd = FALSE]],
              !.programs = [p \in DOMAIN @ |-> [@[p] EXCEPT !.h = None, !.fd = FALSE]]]

Unloaded(r) ==
    [Uncached(r, {r.maps[m].h : m \in DOMAIN r.maps}) EXCEPT
        !.maps = [m \in DOMAIN @ |-> [@[m] EXCEPT !.h = None, !.fd = FALSE]],
        !.programs = [p \in DOMAIN @ |-> [@[p] EXCEPT !.h = None, !.fd = FALSE]]]

UnloadNow(c, r) ==
    /\ CloseAll(c, HandlesOf(r.maps) \cup HandlesOf(r.programs))
    /\ Set(c, [Unloaded(r) EXCEPT !.pc = "idle", !.k = 0])

ObjectUnload(c) ==
    /\ Call(c)
    /\ A(c).open
    /\ UnloadNow(c, A(c))

(* ebpf_object_close and _delete_ebpf_object *)
ObjectClose(c) ==
    /\ Call(c)
    /\ A(c).open
    /\ CloseAll(c, HandlesOf(A(c).maps) \cup HandlesOf(A(c).programs) \cup ({A(c).module} \ {None}))
    /\ Set(c, [Unloaded(A(c)) EXCEPT !.open = FALSE, !.native = FALSE, !.loaded = FALSE,
                 !.module = None, !.maps = <<>>, !.programs = <<>>])

-----------------------------------------------------------------------------
(* _ebpf_object_create_maps.  _get_next_map_to_create: the first map that  *)
(* has no handle and whose inner map, if it needs one, has one.            *)
Missing(r) == {m \in DOMAIN r.maps : r.maps[m].h = None}

Current(r) == Min({m \in Missing(r) : Inner[m] = 0 \/ r.maps[Inner[m]].h # None})

Undo(r) == [r EXCEPT !.pc = "undo", !.k = 1, !.h = None]

(* When every map has a handle, _ebpf_maps learns the new handles; an      *)
(* entry already there for a handle is not replaced (std::map::insert).    *)
Cached(r) ==
    [r EXCEPT !.pc = "programs", !.k = 1,
              !.cache = [x \in Handles |->
                LET own == {m \in DOMAIN r.maps : r.maps[m].h = x}
                IN IF @[x] = None /\ own # {} THEN MapDefs[Min(own)] ELSE @[x]]]

CreateMaps(c) ==
    /\ A(c).pc = "maps"
    /\ \/ /\ Missing(A(c)) = {}
          /\ Set(c, Cached(A(c))) \/ Set(c, Undo(Cached(A(c))))
       \/ /\ Missing(A(c)) # {}
          /\ Set(c, [A(c) EXCEPT !.pc = IF PinPath[Current(A(c))] # NoPath THEN "reuse" ELSE "create"])
    /\ UNCHANGED coreVars /\ Stay

(* _create_file_descriptor_for_handle may refuse a descriptor.  Where the  *)
(* library does not close the handle then, the handle is lost.             *)
Fd(c) == IF Cardinality(A(c).lost) < MaxLost THEN BOOLEAN ELSE {TRUE}

Losing(r, h, fd) == [r EXCEPT !.lost = IF h = None \/ fd THEN @ ELSE @ \cup {h}]

(* The process ends, and the system closes its handles. *)
ProcessEnds(c) ==
    /\ CloseAll(c, {h \in Handles : handle[c][h] # None})
    /\ Set(c, NoObjectOpen)

(* _ebpf_object_reuse_map: no object at the path (or no descriptor for it) *)
(* means that the map is to be created.  A map whose path was set to NULL  *)
(* although it is pinned by name ends the process: strlen(NULL).           *)
ReuseMap(c) ==
    /\ A(c).pc = "reuse"
    /\ IF A(c).maps[Current(A(c))].path = NoPath THEN ProcessEnds(c) ELSE \E h \in LowestFree(c) \cup {None} :
        /\ GetPinned(c, A(c).maps[Current(A(c))].path, h)
        /\ Set(c, [A(c) EXCEPT !.pc = IF h = None THEN "create" ELSE "validate", !.h = h])
    /\ Stay

(* _ebpf_validate_map: same definition, and the same for the inner map,    *)
(* which is opened by its id.  Mutant: any map will do.                    *)
ValidateMap_Any(i, m) == object[i].type = "map"

ValidateMap(i, m) ==
    /\ object[i].type = "map" /\ object[i].def = MapDefs[m]
    /\ Inner[m] # 0 =>
        LET j == object[i].inner
        IN Live(object, j) /\ object[j].def = MapDefs[Inner[m]]

(* A request for the inner map may fail; one that succeeds but gets no     *)
(* descriptor loses the handle of the inner map.                           *)
Validate(c) ==
    LET r == A(c)
        m == Current(r)
    IN /\ r.pc = "validate"
       /\ \/ /\ ValidateMap(handle[c][r.h], m)
             /\ Set(c, [r EXCEPT !.maps[m] = [@ EXCEPT !.h = r.h, !.fd = TRUE,
                                                       !.reused = TRUE, !.pinned = TRUE],
                                 !.h = None, !.pc = "maps"])
             /\ UNCHANGED coreVars
          \/ /\ ~ValidateMap(handle[c][r.h], m) \/ Inner[m] # 0
             /\ Set(c, [r EXCEPT !.pc = "mismatch"])
             /\ UNCHANGED coreVars
          \/ /\ object[handle[c][r.h]].def = MapDefs[m] /\ Inner[m] # 0
             /\ object[handle[c][r.h]].inner # None /\ FALSE \in Fd(c)
             /\ \E h \in Handles :
                 /\ HandleById(c, object[handle[c][r.h]].inner, "map", h)
                 /\ Set(c, Losing([r EXCEPT !.pc = "mismatch"], h, FALSE))
       /\ Stay

Mismatch(c) ==
    /\ A(c).pc = "mismatch"
    /\ Close(c, A(c).h)
    /\ Set(c, Undo(A(c)))
    /\ Stay

(* _create_map.  A refused descriptor is not noticed: the map keeps a      *)
(* handle that nothing will close.                                         *)
CreateOneMap(c) ==
    LET r == A(c)
        m == Current(r)
        inner == IF Inner[m] = 0 THEN None ELSE r.maps[Inner[m]].h
    IN /\ r.pc = "create"
       /\ \E h \in LowestFree(c) \cup {None}, fd \in Fd(c) :
            /\ CreateMap(c, MapDefs[m], inner, h)
            /\ Set(c, IF h = None THEN Undo(r)
                      ELSE [Losing(r, h, fd) EXCEPT !.maps[m].h = h, !.maps[m].fd = fd, !.k = m,
                                     !.pc = IF r.maps[m].path # NoPath /\ ~r.maps[m].pinned
                                            THEN "pin" ELSE "maps"])
       /\ Stay

(* ebpf_map_pin at the end of the loop's body *)
AutoPin(c) ==
    LET r == A(c)
        m == r.k
    IN /\ r.pc = "pin"
       /\ \E result \in Results :
            /\ r.maps[m].fd \/ result = "failure"
            /\ Pin(c, r.maps[m].h, r.maps[m].path, result)
            /\ Set(c, IF result = "success" THEN [r EXCEPT !.maps[m].pinned = TRUE, !.pc = "maps"]
                      ELSE Undo(r))
       /\ Stay

(* A failure unpins the maps that this load pinned, closes every map and   *)
(* empties the object's vector of maps.                                    *)
UnpinnedOnFailure(map) == map.path # NoPath /\ map.pinned /\ ~map.reused

UndoMaps(c) ==
    LET r == A(c)
        rest == {m \in DOMAIN r.maps : m >= r.k /\ UnpinnedOnFailure(r.maps[m])}
    IN /\ r.pc = "undo"
       /\ \/ /\ rest = {}
             /\ CloseAll(c, HandlesOf(r.maps))
             /\ Set(c, [Unloaded(r) EXCEPT !.pc = "idle", !.k = 0, !.maps = <<>>])
          \/ /\ rest # {}
             /\ \E result \in Results : Unpin(r.maps[Min(rest)].path, result)
             /\ Set(c, [r EXCEPT !.k = Min(rest) + 1])
       /\ Stay

-----------------------------------------------------------------------------
(* _ebpf_object_load_programs: the program object, then the service        *)
(* (ebpf_verify_and_load_program), which resolves the maps and loads the   *)
(* code.  Whatever the result, the object counts as loaded.  Index 0       *)
(* stands for the program of ebpf_program_load_bytes, which is in h.       *)
LoadPrograms(c) ==
    LET r == A(c)
        rest == {p \in DOMAIN r.programs : p >= r.k /\ r.programs[p].autoload}
        p == Min(rest)
    IN /\ r.pc = "programs"
       /\ \/ /\ rest = {}
             /\ Set(c, [r EXCEPT !.pc = "idle", !.k = 0, !.loaded = TRUE])
             /\ UNCHANGED coreVars
          \/ /\ rest # {}
             /\ \E h \in Handles, fd \in Fd(c) :
                 /\ CreateProgram(c, h)
                 /\ Set(c, [Losing(r, h, fd) EXCEPT !.programs[p].h = h, !.programs[p].fd = fd, !.k = p, !.pc = "resolve"])
          \/ /\ rest # {}
             /\ UnloadNow(c, [r EXCEPT !.loaded = TRUE])
       /\ Stay

LoadBytes(c) ==
    /\ Call(c)
    /\ \E h \in Handles :
        /\ CreateProgram(c, h)
        /\ Set(c, [A(c) EXCEPT !.h = h, !.k = 0, !.pc = "resolve"])

LoadedProgram(r) == IF r.k = 0 THEN r.h ELSE r.programs[r.k].h

(* The handles of the maps the instructions refer to, in their order: the  *)
(* program of a file uses each of its maps, and the one given as bytes     *)
(* refers up to MapUses times to the maps the caller has descriptors for.  *)
(* Without its maps the program of a file does not pass the verifier.      *)
MapUses == 2

LoadedMaps(c, r) ==
    IF r.k # 0 THEN {[m \in DOMAIN r.maps |-> r.maps[m].h]}
    ELSE UNION {[1 .. n -> {h \in r.fds : ByHandle(c, h, "map") # None}] : n \in 0 .. MapUses}

ServiceResolves(c) ==
    LET r == A(c)
    IN /\ r.pc = "resolve"
       /\ r.k # 0 => DOMAIN r.maps = M
       /\ \E hs \in LoadedMaps(c, r), result \in Results :
            /\ IF hs = <<>> THEN result = "success" /\ UNCHANGED coreVars
               ELSE ResolveMaps(c, LoadedProgram(r), hs, result)
            /\ Set(c, [r EXCEPT !.pc = IF result = "success" THEN "code" ELSE "failed"])
       /\ Stay

ServiceLoads(c) ==
    LET r == A(c)
    IN /\ r.pc = "code"
       /\ LoadCode(c, LoadedProgram(r))
       /\ Set(c, IF r.k = 0 THEN [r EXCEPT !.pc = "idle", !.h = None, !.fds = @ \cup {r.h}]
                 ELSE [r EXCEPT !.pc = "programs", !.k = @ + 1])
       /\ Stay

(* The verifier, a request or the descriptor fails. *)
ServiceFails(c) ==
    LET r == A(c)
    IN /\ r.pc \in {"resolve", "code", "failed"}
       /\ IF r.k = 0
          THEN Close(c, r.h) /\ Set(c, [r EXCEPT !.pc = "idle", !.h = None])
          ELSE UnloadNow(c, [r EXCEPT !.loaded = TRUE])
       /\ Stay

-----------------------------------------------------------------------------
(* _ebpf_program_load_native: a service for the module, the module, then   *)
(* its maps and programs; each handle moves from the local array to the    *)
(* object once it has a descriptor.  A program that is not to be loaded is *)
(* closed.                                                                 *)
(*                                                                         *)
(* A load that failed in the last phase has emptied the object's vectors,  *)
(* and the next one indexes them all the same: undefined behaviour.  The   *)
(* process ends there, or it reads a structure that was freed, which may   *)
(* ask for the program to be loaded or not, and the handle it moves to     *)
(* that structure is lost.                                                 *)
NativeModule(c) ==
    /\ A(c).pc = "module"
    /\ \E h \in LowestFree(c) \cup {None} :
        /\ LoadNativeModule(c, h)
        /\ Set(c, [A(c) EXCEPT !.h = h, !.pc = IF h = None THEN "idle" ELSE "load", !.k = 0])
    /\ Stay

NativePrograms(c) ==
    /\ A(c).pc = "load"
    /\ \E mh \in [M -> Handles], ph \in [P -> Handles] :
        /\ LoadNativePrograms(c, MapDefs, Programs, mh, ph)
        /\ Set(c, [A(c) EXCEPT !.mh = mh, !.ph = ph, !.k = 1, !.pc = "take programs"])
    /\ Stay

TakeProgram(c) ==
    LET r == A(c)
        k == r.k
    IN /\ r.pc = "take programs"
       /\ \/ /\ k > Programs
             /\ Set(c, [r EXCEPT !.pc = "take maps", !.k = 1])
             /\ UNCHANGED coreVars
          \/ /\ k <= Programs /\ (k \in DOMAIN r.programs => ~r.programs[k].autoload)
             /\ Close(c, r.ph[k])
             /\ Set(c, [r EXCEPT !.ph[k] = None, !.k = k + 1])
          \/ /\ k \in DOMAIN r.programs /\ r.programs[k].autoload
             /\ Set(c, [r EXCEPT !.programs[k].h = r.ph[k], !.programs[k].fd = TRUE,
                                 !.ph[k] = None, !.k = k + 1])
             /\ UNCHANGED coreVars
          \/ /\ k <= Programs /\ k \notin DOMAIN r.programs
             /\ \/ ProcessEnds(c)
                \/ /\ Set(c, Losing([r EXCEPT !.ph[k] = None, !.k = k + 1], r.ph[k], FALSE))
                   /\ UNCHANGED coreVars
       /\ Stay

TakeMap(c) ==
    LET r == A(c)
        k == r.k
    IN /\ r.pc = "take maps"
       /\ \/ /\ Set(c, IF k > Len(MapDefs)
                       THEN [r EXCEPT !.pc = "idle", !.k = 0, !.loaded = TRUE, !.module = r.h,
                                      !.h = None, !.mh = <<>>, !.ph = <<>>]
                       ELSE IF k \in DOMAIN r.maps
                       THEN [r EXCEPT !.maps[k].h = r.mh[k], !.maps[k].fd = TRUE,
                                      !.mh[k] = None, !.k = k + 1]
                       ELSE Losing([r EXCEPT !.mh[k] = None, !.k = k + 1], r.mh[k], FALSE))
             /\ UNCHANGED coreVars
          \/ /\ k \in M \ DOMAIN r.maps
             /\ ProcessEnds(c)
       /\ Stay

(* A failure after the module was loaded closes what is in the local       *)
(* arrays; one in the last phase empties the object first.  Mutant: the    *)
(* module's handle is forgotten.                                           *)
LocalHandles_NoModule(r) == HandlesIn(r.mh) \cup HandlesIn(r.ph)

LocalHandles(r) == HandlesIn(r.mh) \cup HandlesIn(r.ph) \cup {r.h}

NativeFails(c) ==
    LET r == A(c)
        u == Unloaded(r)
        done == [u EXCEPT !.pc = "idle", !.k = 0, !.h = None, !.mh = <<>>, !.ph = <<>>]
    IN /\ \/ r.pc = "load"
          \/ r.pc = "take programs" /\ r.k <= Programs
          \/ r.pc = "take maps" /\ r.k <= Len(MapDefs)
       /\ CloseAll(c, HandlesOf(r.maps) \cup HandlesOf(r.programs) \cup LocalHandles(r))
       /\ Set(c, IF r.pc = "load" THEN done ELSE [done EXCEPT !.maps = <<>>, !.programs = <<>>])
       /\ Stay

-----------------------------------------------------------------------------
(* Pinning.  ebpf_map_pin, ebpf_map_unpin and ebpf_map_set_pin_path; the   *)
(* path given to the first two must be the map's own if it has one.        *)
PinMap(c, m, p) ==
    LET r == A(c)
    IN /\ Call(c)
       /\ m \in DOMAIN r.maps /\ r.maps[m].fd /\ ~r.maps[m].pinned
       /\ r.maps[m].path \in {NoPath, p}
       /\ \E result \in Results :
            /\ Pin(c, r.maps[m].h, p, result)
            /\ Set(c, [r EXCEPT !.maps[m].path = p, !.maps[m].pinned = result = "success"])

UnpinMap(c, m, p) ==
    LET r == A(c)
    IN /\ Call(c)
       /\ m \in DOMAIN r.maps /\ r.maps[m].fd
       /\ r.maps[m].path \in {NoPath, p}
       /\ \E result \in Results :
            /\ Unpin(p, result)
            /\ Set(c, [r EXCEPT !.maps[m].pinned = @ /\ result = "failure"])

SetPinPath(c, m, p) ==
    /\ Call(c)
    /\ m \in DOMAIN A(c).maps
    /\ Set(c, [A(c) EXCEPT !.maps[m].path = p])
    /\ UNCHANGED coreVars

(* bpf_object__pin_programs, whose way back after an error unpins the path *)
(* it was called with and not the one it pinned.                           *)
PinPrograms(c) ==
    /\ Call(c)
    /\ A(c).programs # <<>>
    /\ Set(c, [A(c) EXCEPT !.pc = "pin programs", !.k = 1])
    /\ UNCHANGED coreVars

PinProgram(c) ==
    LET r == A(c)
    IN /\ r.pc = "pin programs"
       /\ \E result \in Results :
            /\ r.programs[r.k].fd \/ result = "failure"
            /\ Pin(c, r.programs[r.k].h, ProgramPath[r.k], result)
            /\ Set(c, IF result = "failure" THEN [r EXCEPT !.pc = "unpin programs", !.k = @ - 1]
                      ELSE IF r.k = Programs THEN [r EXCEPT !.pc = "idle", !.k = 0]
                      ELSE [r EXCEPT !.k = @ + 1])
       /\ Stay

UnpinProgram(c) ==
    LET r == A(c)
    IN /\ r.pc = "unpin programs"
       /\ \/ /\ r.k = 0
             /\ Set(c, [r EXCEPT !.pc = "idle"])
             /\ UNCHANGED coreVars
          \/ /\ r.k > 0
             /\ \E result \in Results : Unpin(Directory, result)
             /\ Set(c, [r EXCEPT !.k = @ - 1])
       /\ Stay

(* bpf_obj_pin and ebpf_object_unpin *)
PinFd(c, h, p) ==
    /\ Call(c)
    /\ h \in A(c).fds
    /\ \E result \in Results : Pin(c, h, p, result)
    /\ UNCHANGED api

UnpinPath(c, p) ==
    /\ Call(c)
    /\ \E result \in Results : Unpin(p, result)
    /\ UNCHANGED api

-----------------------------------------------------------------------------
(* Links.  _link_ebpf_program, for ebpf_program_attach and for             *)
(* bpf_prog_attach, which disconnects and destroys the bpf_link at once; a *)
(* refused descriptor detaches the link and frees the bpf_link, but its    *)
(* handle is lost.                                                         *)
ProgramHandles(c) ==
    HandlesOf(A(c).programs) \cup {h \in A(c).fds : ByHandle(c, h, "program") # None}

LinkEbpfProgram(c, hp, hook, keep) ==
    LET r == A(c)
    IN /\ r.link.h = None
       /\ \E h \in LowestFree(c) \cup {None}, fd \in Fd(c) :
            /\ LinkProgram(c, hp, hook, h)
            /\ api' = [api EXCEPT ![c] =
                 IF h = None THEN [r EXCEPT !.pc = "idle", !.k = 0]
                 ELSE [Losing(r, h, fd) EXCEPT !.link = [NoLink EXCEPT !.h = h, !.fd = fd],
                                !.k = 0,
                                !.pc = IF ~fd THEN "link detach"
                                       ELSE IF keep THEN "idle" ELSE "link close"]]

Attach(c, hp, hook, keep) ==
    /\ Call(c)
    /\ hp \in ProgramHandles(c)
    /\ LinkEbpfProgram(c, hp, hook, keep)

(* bpf_link__disconnect, bpf_link__destroy, ebpf_link_close *)
LinkDisconnect(c) ==
    /\ Call(c)
    /\ A(c).link.h # None
    /\ Set(c, [A(c) EXCEPT !.link.disconnected = TRUE])
    /\ UNCHANGED coreVars

LinkDestroy(c) ==
    /\ Call(c)
    /\ A(c).link.h # None
    /\ Set(c, [A(c) EXCEPT !.pc = IF A(c).link.disconnected THEN "link close" ELSE "link detach"])
    /\ UNCHANGED coreVars

LinkDetach(c) ==
    /\ A(c).pc = "link detach"
    /\ \E result \in Results : UnlinkByHandle(c, A(c).link.h, result)
    /\ Set(c, [A(c) EXCEPT !.pc = "link close"])
    /\ Stay

LinkClose(c) ==
    /\ A(c).pc = "link close"
    /\ IF A(c).link.fd THEN Close(c, A(c).link.h) ELSE UNCHANGED coreVars
    /\ Set(c, [A(c) EXCEPT !.link = NoLink, !.pc = "idle"])
    /\ Stay

(* bpf_link__pin and bpf_link__unpin *)
LinkPin(c, p) ==
    /\ Call(c)
    /\ A(c).link.h # None /\ A(c).link.path = NoPath
    /\ \E result \in Results :
        /\ Pin(c, A(c).link.h, p, result)
        /\ Set(c, [A(c) EXCEPT !.link.path = IF result = "success" THEN p ELSE NoPath])

LinkUnpin(c) ==
    /\ Call(c)
    /\ A(c).link.path # NoPath
    /\ \E result \in Results :
        /\ Unpin(A(c).link.path, result)
        /\ Set(c, [A(c) EXCEPT !.link.path = IF result = "success" THEN NoPath ELSE @])

(* bpf_prog_detach2 with a descriptor, bpf_prog_detach with none *)
DetachByData(c, hp, hook) ==
    /\ Call(c)
    /\ hp \in ProgramHandles(c) \cup A(c).fds \cup {None}
    /\ \E result \in Results : UnlinkByData(c, hp, hook, result)
    /\ UNCHANGED api

(* __bpf_set_link_xdp_fd_replace with the old program's descriptor: every  *)
(* link of that program on the interface is opened by its id, detached and *)
(* closed, then the new program is attached.  A link that gets no          *)
(* descriptor is passed over, and a request to detach that fails ends the  *)
(* call before the close: the handle is lost both times.  k is the last id *)
(* seen, and the program in fds with the lowest handle is the old one.     *)
XdpReplace(c) ==
    /\ Call(c)
    /\ A(c).link.h = None
    /\ \E h \in A(c).fds : ByHandle(c, h, "program") # None
    /\ Set(c, [A(c) EXCEPT !.pc = "replace", !.k = 0])
    /\ UNCHANGED coreVars

OldProgram(c) == handle[c][Min({h \in A(c).fds : ByHandle(c, h, "program") # None})]

ReplaceNext(c, hook) ==
    LET r == A(c)
        next == NextObjectId(r.k, "link")
    IN /\ r.pc = "replace"
       /\ \/ /\ next # None
             /\ \E h \in LowestFree(c) \cup {None}, fd \in Fd(c) :
                 /\ HandleById(c, next, "link", h)
                 /\ Set(c, IF h = None \/ ~fd THEN [Losing(r, h, fd) EXCEPT !.k = next]
                           ELSE [r EXCEPT !.k = next, !.h = h, !.pc = "replace check"])
          \/ /\ next = None
             /\ \E hp \in ProgramHandles(c) : LinkEbpfProgram(c, hp, hook, FALSE)
       /\ Stay

ReplaceCheck(c, hook) ==
    LET r == A(c)
        l == handle[c][r.h]
    IN /\ r.pc = "replace check"
       /\ \/ /\ object[l].program = OldProgram(c) /\ object[l].hook = hook
             /\ \E result \in Results :
                 /\ UnlinkByHandle(c, r.h, result)
                 /\ Set(c, IF result = "success" THEN [r EXCEPT !.pc = "replace close"]
                           ELSE Losing([r EXCEPT !.pc = "idle", !.k = 0, !.h = None], r.h, FALSE))
          \/ /\ Set(c, [r EXCEPT !.pc = "replace close"])
             /\ UNCHANGED coreVars
       /\ Stay

ReplaceClose(c) ==
    /\ A(c).pc = "replace close"
    /\ Close(c, A(c).h)
    /\ Set(c, [A(c) EXCEPT !.h = None, !.pc = "replace"])
    /\ Stay

-----------------------------------------------------------------------------
(* Descriptors for the caller: ebpf_map_create, ebpf_object_get and        *)
(* ebpf_get_*_fd_by_id.  The first two close a handle that gets no         *)
(* descriptor, which is the same as no handle; the third loses it.         *)
Given(c, h, fd) ==
    [Losing(A(c), h, fd) EXCEPT !.fds = IF h = None \/ ~fd THEN @ ELSE @ \cup {h}]

MapCreate(c, def, inner) ==
    /\ Call(c)
    /\ inner \in A(c).fds \cup {None}
    /\ \E h \in LowestFree(c) \cup {None} :
        /\ CreateMap(c, def, inner, h)
        /\ Set(c, Given(c, h, TRUE))

ObjectGet(c, p) ==
    /\ Call(c)
    /\ \E h \in LowestFree(c) \cup {None} :
        /\ GetPinned(c, p, h)
        /\ Set(c, Given(c, h, TRUE))

FdById(c, i, type) ==
    /\ Call(c)
    /\ \E h \in LowestFree(c) \cup {None}, fd \in Fd(c) :
        /\ HandleById(c, i, type, h)
        /\ Set(c, Given(c, h, fd))

CloseFd(c, h) ==
    /\ Call(c)
    /\ h \in A(c).fds
    /\ Close(c, h)
    /\ Set(c, [A(c) EXCEPT !.fds = @ \ {h}])

(* ebpf_program_bind_map *)
ProgramBindMap(c, hp, hm) ==
    /\ Call(c)
    /\ hp \in ProgramHandles(c)
    /\ hm \in HandlesOf(A(c).maps) \cup {h \in A(c).fds : ByHandle(c, h, "map") # None}
    /\ \E result \in Results : BindMap(c, hp, hm, result)
    /\ UNCHANGED api

(* A process exits or is killed, between any two requests. *)
Exit(c) ==
    /\ exits < MaxExits
    /\ exits' = exits + 1
    /\ ProcessEnds(c)
    /\ UNCHANGED calls

-----------------------------------------------------------------------------
LoadSteps(c) ==
    \/ ObjectLoad(c) \/ CreateMaps(c) \/ ReuseMap(c) \/ Validate(c) \/ Mismatch(c) \/ CreateOneMap(c)
    \/ AutoPin(c) \/ UndoMaps(c) \/ LoadPrograms(c) \/ LoadBytes(c) \/ ServiceResolves(c)
    \/ ServiceLoads(c) \/ ServiceFails(c) \/ NativeModule(c) \/ NativePrograms(c)
    \/ TakeProgram(c) \/ TakeMap(c) \/ NativeFails(c)

ObjectSteps(c) ==
    \/ ObjectUnload(c) \/ ObjectClose(c) \/ PinPrograms(c) \/ PinProgram(c) \/ UnpinProgram(c)
    \/ /\ MayCall(c)
       /\ \/ \E native \in BOOLEAN : ObjectOpen(c, native)
          \/ \E p \in P : SetAutoload(c, p)
          \/ \E m \in M, p \in Paths : PinMap(c, m, p) \/ UnpinMap(c, m, p)
          \/ \E m \in M, p \in Paths \cup {NoPath} : SetPinPath(c, m, p)

LinkSteps(c) ==
    \/ LinkDisconnect(c) \/ LinkDestroy(c) \/ LinkDetach(c) \/ LinkClose(c) \/ LinkUnpin(c)
    \/ XdpReplace(c) \/ ReplaceClose(c)
    \/ \E hook \in Hooks : ReplaceNext(c, hook) \/ ReplaceCheck(c, hook)
    \/ /\ MayCall(c)
       /\ \/ \E hp \in Handles, hook \in Hooks, keep \in BOOLEAN : Attach(c, hp, hook, keep)
          \/ \E p \in Paths : LinkPin(c, p)
          \/ \E hp \in Handles \cup {None}, hook \in Hooks : DetachByData(c, hp, hook)

(* The ids that were never given out are alike: the first stands for all. *)
AskedIds == {i \in Ids : object[i].type # "none"} \cup Fresh

FdSteps(c) ==
    /\ MayCall(c)
    /\ \/ \E def \in Defs, inner \in Handles \cup {None} : MapCreate(c, def, inner)
       \/ \E p \in Paths : ObjectGet(c, p) \/ UnpinPath(c, p)
       \/ \E i \in AskedIds, type \in {"map", "program", "link"} : FdById(c, i, type)
       \/ \E h \in Handles : CloseFd(c, h) \/ \E p \in Paths : PinFd(c, h, p)
       \/ \E hp, hm \in Handles : ProgramBindMap(c, hp, hm)

Next ==
    \E c \in Clients : LoadSteps(c) \/ ObjectSteps(c) \/ LinkSteps(c) \/ FdSteps(c) \/ Exit(c)

Spec == Init /\ [][Next]_vars

-----------------------------------------------------------------------------
(* The handles a process owns, one entry for each place that owns one. *)
Owned(r) ==
    {<<"map", m>> : m \in {j \in DOMAIN r.maps : r.maps[j].fd}}
    \cup {<<"program", p>> : p \in {j \in DOMAIN r.programs : r.programs[j].fd}}
    \cup {<<"module", 0>> : x \in {r.module} \ {None}}
    \cup {<<"local", 0>> : x \in {r.h} \ {None}}
    \cup {<<"native map", m>> : m \in {j \in DOMAIN r.mh : r.mh[j] # None}}
    \cup {<<"native program", p>> : p \in {j \in DOMAIN r.ph : r.ph[j] # None}}
    \cup {<<"link", 0>> : x \in {y \in {r.link} : y.fd}}
    \cup {<<"fd", h>> : h \in r.fds}

OwnedHandles(r) ==
    HandlesOf(r.maps) \cup HandlesOf(r.programs) \cup HandlesIn(r.mh) \cup HandlesIn(r.ph)
    \cup ({r.module, r.h} \ {None}) \cup HandlesOf(<<r.link>>) \cup r.fds

(* Every handle a process has open is owned by exactly one place of the    *)
(* library's state (a map, a program, the module, the link, a local of the *)
(* call in progress, a descriptor given to the caller), or it is one of    *)
(* the lost ones: no other path of any call leaks a handle, none closes    *)
(* one twice, and none closes a value that meanwhile names another object. *)
(* A handle is lost in these places only: its descriptor was refused to a  *)
(* map or program of an object (_ebpf_object_create_maps,                  *)
(* _ebpf_object_load_programs), to a new link (_link_ebpf_program) or to   *)
(* an object opened by its id (_get_fd_by_id); the request to detach a     *)
(* link failed while an XDP program was replaced                           *)
(* (__bpf_set_link_xdp_fd_replace); or a native object was loaded again    *)
(* after a failure that had emptied it.                                    *)
HandlesAccounted ==
    /\ TypeOK
    /\ \A c \in Clients :
        LET owned == OwnedHandles(api[c])
        IN  /\ {h \in Handles : handle[c][h] # None} = owned \cup api[c].lost
            /\ owned \cap api[c].lost = {}
            /\ Cardinality(Owned(api[c])) = Cardinality(owned)

(* What the library believes about a map is true of the kernel's object:   *)
(* an entry of _ebpf_maps, from which element sizes are taken without      *)
(* asking the kernel, has the definition of the map behind that handle,    *)
(* also after handle values were reused; and a map reused from a pin path  *)
(* has the definition of the file, its inner map included.                 *)
DefinitionsCurrent ==
    \A c \in Clients :
        /\ \A h \in Handles :
            api[c].cache[h] # None =>
                /\ handle[c][h] # None
                /\ object[handle[c][h]].def = api[c].cache[h]
        /\ \A m \in DOMAIN api[c].maps :
            LET map == api[c].maps[m]
            IN map.reused /\ map.h # None =>
                /\ object[handle[c][map.h]].type = "map"
                /\ object[handle[c][map.h]].def = MapDefs[m]
                /\ Inner[m] # 0 => object[object[handle[c][map.h]].inner].def = MapDefs[Inner[m]]
=============================================================================
