----------------------------- MODULE EbpfNative -----------------------------
(* Native modules (ebpf_native.c): a driver that holds compiled programs and  *)
(* their maps is loaded on request, attaches itself to the core as a client,  *)
(* has its maps and programs created one after the other, and is unloaded by  *)
(* a work item when the last program and the last handle are gone.  Requests  *)
(* may fail at every step, users close handles, pin and unpin maps, and may   *)
(* stop the driver at any time.                                               *)
EXTENDS Integers, Sequences, FiniteSets, SequencesExt

CONSTANTS
  Requesters,         \* threads that handle a request to load a module or its programs
  MapList,            \* the maps of the module: [pin |-> BOOLEAN, inner |-> index or 0]
  ProgramList,        \* the programs of the module: the indices of the maps of each
  Versions,           \* versions of a driver
  MinimumVersion,     \* _ebpf_minimum_version
  MaxRequests,        \* bound: requests to load the driver, and to load its programs
  MaxPins,            \* bound: maps that others pin, and pins that others remove
  None

MapIndices == DOMAIN MapList
ProgramIndices == DOMAIN ProgramList

VARIABLES
  driver,             \* the service: is it stopped, running or unloading
  core,               \* is the core running, or terminating
  module,             \* what the client table holds for the module, None without an entry
  incarnation,        \* the number of modules that were attached
  maps,               \* module->maps
  programs,           \* module->programs, and the program objects
  map_objects,        \* the maps that were created: the handles and programs that hold each
  pins,               \* the pinning table: the object at the pin path of a map
  unload_items,       \* work items that wait to unload the driver
  call,               \* what a thread is doing
  requests,           \* requests so far
  foreign             \* what others pinned and unpinned so far

resources == <<maps, programs, map_objects, pins>>
vars == <<driver, core, module, incarnation, resources, unload_items, call, requests, foreign>>

Idle == [pc |-> "idle", incarnation |-> 0, index |-> 0, astray |-> FALSE]
NoMap == [object |-> 0, pinned |-> FALSE, reused |-> FALSE]
\* The object of a program, who has its handle, and is the change of addresses
\* reported to a context that is allocated.
NoProgram == [object |-> "none", handle |-> None, reference |-> FALSE,
              callback |-> FALSE, context |-> FALSE]

Init ==
  /\ driver = "stopped" /\ core = "running"
  /\ module = None /\ incarnation = 0
  /\ maps = [i \in MapIndices |-> NoMap]
  /\ programs = [i \in ProgramIndices |-> NoProgram]
  /\ map_objects = <<>>
  /\ pins = [i \in MapIndices |-> 0]
  /\ unload_items = 0
  /\ call = [t \in Requesters |-> Idle]
  /\ requests = 0 /\ foreign = 0

Goto(t, pc) == call' = [call EXCEPT ![t].pc = pc]
Return(t) == call' = [call EXCEPT ![t] = Idle]
Request(t) == call[t].pc = "idle" /\ requests < MaxRequests /\ requests' = requests + 1
-----------------------------------------------------------------------------
(* References, ebpf_native_acquire_reference and ebpf_native_release_reference. *)

Acquired(m) == [m EXCEPT !.references = @ + 1]

\* _ebpf_native_unload, with the work item that was allocated before.
Unloads(m) == m.references = 2 /\ ~m.detaching /\ m.state # "UNLOADING"

Released(m) ==
  IF m.references = 1 THEN None
  ELSE LET less == [m EXCEPT !.references = @ - 1]
       IN IF Unloads(m)
          THEN [less EXCEPT !.state = "UNLOADING", !.item = IF @ = "ready" THEN None ELSE "missing"]
          ELSE less

\* With the last reference the detach completes: a driver that is unloading is gone.
Release ==
  /\ module' = Released(module)
  /\ unload_items' = IF Unloads(module) THEN unload_items + 1 ELSE unload_items
  /\ driver' = IF Released(module) = None /\ driver = "unloading" THEN "stopped" ELSE driver
-----------------------------------------------------------------------------
(* The driver, its client, and the core as the provider.                      *)

\* _ebpf_compare_versions; a version is a sequence of major, minor and revision.
CompareVersions(lhs, rhs) ==
  CASE lhs[1] < rhs[1] -> -1
    [] lhs[1] > rhs[1] -> 1
    [] lhs[2] < rhs[1] -> -1
    [] lhs[2] > rhs[1] -> 1
    [] lhs[3] < rhs[3] -> -1
    [] lhs[3] > rhs[3] -> 1
    [] OTHER -> 0

\* _ebpf_native_provider_attach_client_callback
Attached(version) ==
  IF core = "running" /\ CompareVersions(version, MinimumVersion) >= 0
  THEN {None, [version |-> version, references |-> 1, attach |-> TRUE, state |-> "UNINITIALIZED", detaching |-> FALSE, item |-> None]}
  ELSE {None}

\* ebpf_native_load: the service name and the work item are allocated, and the
\* driver is started, whose client attaches.  A driver that runs is not started.
LoadDriver(t) ==
  /\ Request(t)
  /\ Goto(t, "find")
  /\ IF driver = "stopped"
     THEN /\ \E version \in Versions : module' \in Attached(version)
          /\ driver' = "running"
          /\ incarnation' = incarnation + 1
     ELSE UNCHANGED <<driver, module, incarnation>>
  /\ UNCHANGED <<core, resources, unload_items, foreign>>

\* ebpf_native_unload_driver, by the work item or by a user.
StopDriver ==
  driver' = IF driver # "running" THEN driver ELSE IF module = None THEN "stopped" ELSE "unloading"

UnloadWorkItem_Lost ==
  /\ unload_items > 0
  /\ unload_items' = unload_items - 1
  /\ UNCHANGED <<driver, core, module, incarnation, resources, call, requests, foreign>>

UnloadWorkItem ==
  /\ unload_items > 0
  /\ unload_items' = unload_items - 1
  /\ StopDriver
  /\ UNCHANGED <<core, module, incarnation, resources, call, requests, foreign>>

UserStopsDriver ==
  /\ driver = "running" /\ foreign < MaxPins
  /\ foreign' = foreign + 1
  /\ StopDriver
  /\ UNCHANGED <<core, module, incarnation, resources, unload_items, call, requests>>

\* _ebpf_native_provider_detach_client_callback, until it unlocks the module.
DetachClient ==
  /\ module # None /\ (driver = "unloading" \/ core = "terminating")
  /\ ~module.detaching
  /\ module' = [module EXCEPT !.detaching = TRUE]
  /\ UNCHANGED <<driver, core, incarnation, resources, unload_items, call, requests, foreign>>

\* It releases the reference that the attach callback took.  A module that is
\* gone takes what is left of its maps and programs with it.
ReleaseAttach ==
  /\ module # None /\ module.detaching /\ module.attach
  /\ LET m == [module EXCEPT !.attach = FALSE]
     IN /\ module' = Released(m)
        /\ driver' = IF Released(m) = None /\ driver = "unloading" THEN "stopped" ELSE driver
  /\ UNCHANGED <<core, incarnation, resources, unload_items, call, requests, foreign>>

\* ebpf_native_terminate
Terminate ==
  /\ core = "running"
  /\ core' = "terminating"
  /\ UNCHANGED <<driver, module, incarnation, resources, unload_items, call, requests, foreign>>

Terminated ==
  /\ core = "terminating" /\ module = None
  /\ core' = "terminated"
  /\ UNCHANGED <<driver, module, incarnation, resources, unload_items, call, requests, foreign>>
-----------------------------------------------------------------------------
(* The rest of ebpf_native_load.                                              *)

FindModule(t) ==
  /\ call[t].pc = "find"
  /\ IF module = None THEN Return(t)
     ELSE call' = [call EXCEPT ![t] = [@ EXCEPT !.pc = "check", !.incarnation = incarnation]]
  /\ UNCHANGED <<driver, core, module, incarnation, resources, unload_items, requests, foreign>>

\* Nothing keeps the module that was found, and it may be gone.  Whatever is in
\* its memory is then taken for a module, and a thread that is taken in by it is
\* astray: what it writes is written to memory that is no module's.
Gone(t) == call[t].astray \/ module = None \/ incarnation # call[t].incarnation
GoAstray(t, pc) == call' = [call EXCEPT ![t].pc = pc, ![t].astray = TRUE] /\ UNCHANGED module

CheckModule(t) ==
  /\ call[t].pc = "check"
  /\ IF Gone(t) THEN (Return(t) /\ UNCHANGED module) \/ GoAstray(t, "create_handle")
     ELSE IF module.state = "UNINITIALIZED" /\ ~module.detaching
     THEN module' = [module EXCEPT !.state = "INITIALIZING"] /\ Goto(t, "create_handle")
     ELSE Return(t) /\ UNCHANGED module
  /\ UNCHANGED <<driver, core, incarnation, resources, unload_items, requests, foreign>>

\* When no handle can be had the module stays as it is.
CreateHandle(t) ==
  /\ call[t].pc = "create_handle"
  /\ \/ Return(t) /\ UNCHANGED module
     \/ IF Gone(t) THEN GoAstray(t, "initialized")
        ELSE module' = Acquired(module) /\ Goto(t, "initialized")
  /\ UNCHANGED <<driver, core, incarnation, resources, unload_items, requests, foreign>>

Initialized(t) ==
  /\ call[t].pc = "initialized"
  /\ module' = IF Gone(t) THEN module ELSE [module EXCEPT !.state = "INITIALIZED", !.item = "ready"]
  /\ Goto(t, "has_handle")
  /\ UNCHANGED <<driver, core, incarnation, resources, unload_items, requests, foreign>>

CloseModuleHandle(t) ==
  /\ call[t].pc = "has_handle"
  /\ IF Gone(t) THEN UNCHANGED <<driver, module, unload_items>> ELSE Release
  /\ Return(t)
  /\ UNCHANGED <<core, incarnation, resources, requests, foreign>>
-----------------------------------------------------------------------------
(* ebpf_native_load_programs                                                  *)

\* _ebpf_core_protocol_load_native_programs: the counts are asked of the module first.
LoadProgramsRequested(t) == Request(t) /\ module # None

StartLoading(t) ==
  /\ LoadProgramsRequested(t)
  /\ module.state = "INITIALIZED" /\ ~module.detaching
  /\ module' = Acquired([module EXCEPT !.state = "LOADING"])
  /\ Goto(t, "maps")
  /\ UNCHANGED <<driver, core, incarnation, resources, unload_items, foreign>>

\* _ebpf_native_get_next_map_to_create: an inner map comes before its outer map.
Creatable(i) ==
  /\ maps[i].object = 0
  /\ MapList[i].inner # 0 => maps[MapList[i].inner].object # 0
NextMapToCreate == SelectInSeq([i \in MapIndices |-> Creatable(i)], LAMBDA creatable : creatable)

NewMap == [handles |-> {"module"}, programs |-> {}, definition |-> "own", origin |-> "loading"]
WithHandle(objects, o, holder) == [objects EXCEPT ![o].handles = @ \cup {holder}]

\* _ebpf_native_create_maps, for one map: it is reused when one with the same
\* definition is pinned, and otherwise created and then pinned.
ReuseMap(t) ==
  LET i == NextMapToCreate
  IN /\ call[t].pc = "maps" /\ i # 0
     /\ MapList[i].pin /\ pins[i] # 0
     /\ map_objects[pins[i]].definition = "own"
     /\ maps' = [maps EXCEPT ![i] = [object |-> pins[i], pinned |-> TRUE, reused |-> TRUE]]
     /\ map_objects' = WithHandle(map_objects, pins[i], "module")
     /\ UNCHANGED <<driver, core, module, incarnation, programs, pins, unload_items, call, requests, foreign>>

CreateMap(t) ==
  LET i == NextMapToCreate
  IN /\ call[t].pc = "maps" /\ i # 0
     /\ MapList[i].pin => pins[i] = 0
     /\ map_objects' = Append(map_objects, NewMap)
     /\ maps' = [maps EXCEPT ![i] = [NoMap EXCEPT !.object = Len(map_objects) + 1]]
     /\ IF MapList[i].pin THEN call' = [call EXCEPT ![t] = [@ EXCEPT !.pc = "pin", !.index = i]]
        ELSE UNCHANGED call
     /\ UNCHANGED <<driver, core, module, incarnation, programs, pins, unload_items, requests, foreign>>

PinMap(t) ==
  LET i == call[t].index
  IN /\ call[t].pc = "pin"
     /\ pins[i] = 0
     /\ pins' = [pins EXCEPT ![i] = maps[i].object]
     /\ maps' = [maps EXCEPT ![i].pinned = TRUE]
     /\ Goto(t, "maps")
     /\ UNCHANGED <<driver, core, module, incarnation, programs, map_objects, unload_items, requests, foreign>>

MapsCreated(t) ==
  /\ call[t].pc = "maps" /\ \A i \in MapIndices : maps[i].object # 0
  /\ call' = [call EXCEPT ![t] = [@ EXCEPT !.pc = "create", !.index = 1]]
  /\ UNCHANGED <<driver, core, module, incarnation, resources, unload_items, requests, foreign>>

\* _ebpf_native_load_programs, for one program.
CreateProgram(t) ==
  LET i == call[t].index
  IN /\ call[t].pc = "create" /\ i \in ProgramIndices
     /\ programs[i].object = "none"
     /\ programs' = [programs EXCEPT ![i] = [NoProgram EXCEPT !.object = "live", !.handle = "module"]]
     /\ Goto(t, "code")
     /\ UNCHANGED <<driver, core, module, incarnation, maps, map_objects, pins, unload_items, requests, foreign>>

LoadCode_NoReference(t) ==
  /\ call[t].pc = "code"
  /\ programs' = [programs EXCEPT ![call[t].index].reference = TRUE]
  /\ Goto(t, "resolve")
  /\ UNCHANGED <<driver, core, module, incarnation, maps, map_objects, pins, unload_items, requests, foreign>>

\* The code holds a reference on the module until the program is freed.
LoadCode(t) ==
  LET i == call[t].index
  IN /\ call[t].pc = "code"
     /\ module' = Acquired(module)
     /\ programs' = [programs EXCEPT ![i].reference = TRUE]
     /\ Goto(t, "resolve")
     /\ UNCHANGED <<driver, core, incarnation, maps, map_objects, pins, unload_items, requests, foreign>>

\* _ebpf_native_resolve_maps_for_program, and then the program is told whom to
\* report new helper addresses to.
Resolve(t) ==
  LET i == call[t].index
      used == {maps[m].object : m \in ProgramList[i]}
  IN /\ call[t].pc = "resolve"
     /\ map_objects' = [o \in DOMAIN map_objects |->
           IF o \in used THEN [map_objects[o] EXCEPT !.programs = @ \cup {i}] ELSE map_objects[o]]
     /\ programs' = [programs EXCEPT ![i].callback = TRUE, ![i].context = TRUE]
     /\ Goto(t, "helpers")
     /\ UNCHANGED <<driver, core, module, incarnation, maps, pins, unload_items, requests, foreign>>

\* _ebpf_native_resolve_helpers_for_program
ResolveHelpers(t) ==
  /\ call[t].pc = "helpers"
  /\ call' = [call EXCEPT ![t].index = @ + 1,
        ![t].pc = IF call[t].index + 1 \in ProgramIndices THEN "create" ELSE "values"]
  /\ UNCHANGED <<driver, core, module, incarnation, resources, unload_items, requests, foreign>>

\* _ebpf_native_set_initial_map_values, and the handles are given to the caller.
Loaded(t) ==
  /\ call[t].pc = "values"
  /\ module' = [module EXCEPT !.state = "LOADED"]
  /\ maps' = [i \in MapIndices |-> NoMap]
  /\ map_objects' = [o \in DOMAIN map_objects |->
        IF "module" \in map_objects[o].handles
        THEN [map_objects[o] EXCEPT !.handles = (@ \ {"module"}) \cup {"user"}, !.origin = "loaded"]
        ELSE map_objects[o]]
  /\ programs' = [i \in ProgramIndices |-> [programs[i] EXCEPT !.handle = "user"]]
  /\ Goto(t, "release")
  /\ UNCHANGED <<driver, core, incarnation, pins, unload_items, requests, foreign>>

LoadPCs == {"maps", "pin", "create", "code", "resolve", "helpers", "values"}

UnpinnedOnFailure_Reused(i) == maps[i].pinned /\ maps[i].reused
\* _ebpf_native_clean_up_maps: what this module pinned is unpinned, by its path.
UnpinnedOnFailure(i) == maps[i].pinned /\ ~maps[i].reused

\* _ebpf_native_clean_up_programs
CleanedUp(p) ==
  IF p.handle = "module"
  THEN [p EXCEPT !.object = "zero", !.handle = None, !.callback = FALSE, !.context = FALSE]
  ELSE p

\* Any step may fail: the programs and the maps are cleaned up.
LoadFails(t) ==
  /\ call[t].pc \in LoadPCs
  /\ programs' = [i \in ProgramIndices |-> CleanedUp(programs[i])]
  /\ pins' = [i \in MapIndices |-> IF UnpinnedOnFailure(i) THEN 0 ELSE pins[i]]
  /\ map_objects' = [o \in DOMAIN map_objects |->
        [map_objects[o] EXCEPT !.handles = @ \ {"module"},
                               !.origin = IF @ = "loading" THEN "failed" ELSE @]]
  /\ maps' = [i \in MapIndices |-> NoMap]
  /\ Goto(t, "release")
  /\ UNCHANGED <<driver, core, module, incarnation, unload_items, requests, foreign>>

ReleaseModule(t) ==
  /\ call[t].pc = "release"
  /\ Release /\ Return(t)
  /\ UNCHANGED <<core, incarnation, resources, requests, foreign>>
-----------------------------------------------------------------------------
(* What becomes of the objects.                                               *)

CloseProgramHandle(i) ==
  /\ programs[i].handle = "user"
  /\ programs' = [programs EXCEPT ![i].handle = None, ![i].object = "zero"]
  /\ UNCHANGED <<driver, core, module, incarnation, maps, map_objects, pins, unload_items, call, requests, foreign>>

CloseMapHandle(o) ==
  /\ "user" \in map_objects[o].handles
  /\ map_objects' = [map_objects EXCEPT ![o].handles = @ \ {"user"}]
  /\ UNCHANGED <<driver, core, module, incarnation, maps, programs, pins, unload_items, call, requests, foreign>>

\* _ebpf_program_free: the maps and the module are released.
FreeProgram(i) ==
  /\ programs[i].object = "zero"
  /\ programs' = [programs EXCEPT ![i] = NoProgram]
  /\ map_objects' = [o \in DOMAIN map_objects |-> [map_objects[o] EXCEPT !.programs = @ \ {i}]]
  /\ IF programs[i].reference THEN Release ELSE UNCHANGED <<module, unload_items, driver>>
  /\ UNCHANGED <<core, incarnation, maps, pins, call, requests, foreign>>

\* Others pin a map of theirs at a path that the module uses, or remove a pin.
ForeignPin(i, definition) ==
  /\ MapList[i].pin /\ foreign < MaxPins
  /\ pins[i] = 0
  /\ map_objects' = Append(map_objects,
        [handles |-> {}, programs |-> {}, definition |-> definition, origin |-> "foreign"])
  /\ pins' = [pins EXCEPT ![i] = Len(map_objects) + 1]
  /\ foreign' = foreign + 1
  /\ UNCHANGED <<driver, core, module, incarnation, maps, programs, unload_items, call, requests>>

ForeignUnpin(i) ==
  /\ pins[i] # 0 /\ foreign < MaxPins
  /\ pins' = [pins EXCEPT ![i] = 0]
  /\ foreign' = foreign + 1
  /\ UNCHANGED <<driver, core, module, incarnation, maps, programs, map_objects, unload_items, call, requests>>
-----------------------------------------------------------------------------
ModuleNext(t) ==
  \/ FindModule(t) \/ CheckModule(t) \/ CreateHandle(t) \/ Initialized(t)
  \/ ReuseMap(t) \/ CreateMap(t) \/ PinMap(t) \/ MapsCreated(t)
  \/ CreateProgram(t) \/ LoadCode(t) \/ Resolve(t) \/ ResolveHelpers(t) \/ Loaded(t)
  \/ LoadFails(t) \/ ReleaseModule(t)

Next ==
  \/ UnloadWorkItem \/ UserStopsDriver \/ DetachClient \/ ReleaseAttach \/ Terminate \/ Terminated
  \/ \E t \in Requesters :
       LoadDriver(t) \/ StartLoading(t) \/ CloseModuleHandle(t) \/ ModuleNext(t)
  \/ \E i \in ProgramIndices : CloseProgramHandle(i) \/ FreeProgram(i)
  \/ \E o \in DOMAIN map_objects : CloseMapHandle(o)
  \/ \E i \in MapIndices :
       ForeignUnpin(i) \/ \E definition \in {"own", "other"} : ForeignPin(i, definition)

Spec == Init /\ [][Next]_vars

Fairness ==
  /\ WF_vars(UnloadWorkItem) /\ WF_vars(DetachClient) /\ WF_vars(ReleaseAttach)
  /\ \A t \in Requesters : WF_vars(ModuleNext(t))
  /\ \A i \in ProgramIndices : WF_vars(FreeProgram(i))

FairSpec == Spec /\ Fairness

-----------------------------------------------------------------------------
(* Properties.                                                                *)

Loading(t) == call[t].pc \in LoadPCs
\* Threads and programs that hold a reference on the module.  A thread that is
\* astray took its reference on memory that was freed, and holds none.
Holders ==
  {t \in Requesters :
     ~call[t].astray /\ (Loading(t) \/ call[t].pc \in {"release", "initialized", "has_handle"})}
HoldingPrograms == {i \in ProgramIndices : programs[i].reference}

\* The references of a module are the one of the binding, until it is detached,
\* those of handles and of a load that is going on, and one for each program
\* with code.  A module that is gone has none, but for the handles of requests
\* that ebpf_native_load let go astray: it uses the module that it found after it
\* unlocked the table, without a reference.  The work item that unloads the
\* driver is there when it is needed.
ReferencesHeld ==
  IF module = None THEN Holders = {} /\ HoldingPrograms = {}
  ELSE /\ module.references = Cardinality(Holders) + Cardinality(HoldingPrograms)
                              + IF module.attach THEN 1 ELSE 0
       /\ module.item # "missing"

\* A load that failed leaves nothing behind: no handle of a map or a program is
\* left in the module unless it is loading, no map that it created is pinned, and
\* the programs that have a callback have a context for it.
FailedLoadLeavesNothing ==
  /\ (\A t \in Requesters : ~Loading(t)) =>
       /\ \A o \in DOMAIN map_objects : "module" \notin map_objects[o].handles
       /\ \A i \in ProgramIndices : programs[i].handle # "module"
  /\ \A i \in MapIndices : pins[i] # 0 => map_objects[pins[i]].origin # "failed"
  /\ \A i \in ProgramIndices : programs[i].callback => programs[i].context

\* The references on a module that is there are exact, and a failed load leaves
\* nothing behind.
NativeInv == ReferencesHeld /\ FailedLoadLeavesNothing

\* A driver whose programs and handles are all gone is unloaded.
Unloading == module # None /\ module.state = "UNLOADING"
UnusedIsUnloaded == Unloading ~> driver = "stopped"
=============================================================================
