---------------------------- MODULE EbpfProgram ----------------------------
(* A program (ebpf_program.c) and what the core does with one: it is created, *)
(* its helper functions and maps are resolved, its code is loaded, it is      *)
(* invoked and test run, and it is freed, while the extension that provides   *)
(* its program information comes and goes.  A step is what a thread does      *)
(* under the lock of a program, or between two looks at a field that it reads *)
(* without the lock.                                                          *)
EXTENDS Integers, FiniteSets, Sequences

CONSTANTS
  Programs, Threads, Maps,
  VersionsOf(_),      \* what the extension may provide when it is loaded for the nth time
  Prototype(_, _),    \* of a helper in a version, None when it has no such helper
  Helpers,
  HelperSets,         \* sets of helpers that a program may refer to
  CompiledAgainst,    \* helpers and version that native code was compiled against
  MapLists,           \* sequences of maps that a program may refer to
  CodeTypes,
  MAX_TAIL_CALL_CNT,
  MaxRegistrations,   \* bound: times that the extension is loaded
  MaxRequests,        \* bound: requests and invocations
  Requested,          \* bound: programs that more is asked for than to be created and called
  None

VARIABLES
  provider,           \* the extension: state, registration number, version
  object,             \* the object of a program
  program,            \* the fields of a program
  client,             \* its registration with the NMR for type specific information
  map_references,     \* references of programs on maps
  call,               \* what a thread is doing
  requests

vars == <<provider, object, program, client, map_references, call, requests>>

NoObject == [state |-> "none", handle |-> FALSE, references |-> 0, wait |-> {}]
NoProgram ==
  [code |-> "NONE", general |-> FALSE, extension |-> None, up |-> FALSE, users |-> 0,
   ids |-> None, ids_set |-> FALSE, hash |-> None, callback |-> None,
   addresses |-> None, trampolines |-> None, maps |-> <<>>]
NoClient == [pc |-> "idle", tried |-> 0, ids |-> None, ids_set |-> FALSE, wait |-> {}]
Idle ==
  [pc |-> "idle", program |-> None, ids |-> None, extension |-> None, addresses |-> None,
   current |-> None, next |-> None, count |-> 0, test |-> FALSE]

Init ==
  /\ provider = [state |-> "absent", number |-> 0, version |-> None]
  /\ object = [p \in Programs |-> NoObject]
  /\ program = [p \in Programs |-> NoProgram]
  /\ client = [p \in Programs |-> NoClient]
  /\ map_references = [m \in Maps |-> 0]
  /\ call = [t \in Threads |-> Idle]
  /\ requests = 0
-----------------------------------------------------------------------------
(* Epochs and references, as EbpfEpoch and EbpfObject have them: what is done *)
(* at the end of an epoch waits for the threads that were in one.             *)

InEpoch == {t \in Threads : call[t].pc \notin {"idle", "queued", "repeat", "complete", "dereference"}}

\* t leaves its epoch; nobody waits for it any longer.
LeaveObjects(t) == [p \in Programs |-> [object[p] EXCEPT !.wait = @ \ {t}]]
LeaveClients(t) == [p \in Programs |-> [client[p] EXCEPT !.wait = @ \ {t}]]

\* A reference on p is released: with the last one the maps are released, and
\* p is freed when the threads that are in an epoch have left it.
DropReference(objects, p, waiters) ==
  LET last == object[p].references = 1
      Uses(m) == Cardinality({i \in DOMAIN program[p].maps : program[p].maps[i] = m})
  IN /\ object' = [objects EXCEPT
           ![p].references = @ - 1,
           ![p].state = IF last THEN "zero" ELSE @,
           ![p].wait = IF last THEN waiters ELSE @]
     /\ map_references' = IF last THEN [m \in Maps |-> map_references[m] - Uses(m)]
                          ELSE map_references

\* t releases a reference on p, and is in no epoch afterwards.
Release(t, p) == DropReference(LeaveObjects(t), p, InEpoch \ {t}) /\ client' = LeaveClients(t)

Request(t) == call[t].pc = "idle" /\ requests < MaxRequests /\ requests' = requests + 1
Reference_NotTaken(p) == object[p].handle /\ UNCHANGED object
\* EBPF_OBJECT_REFERENCE_BY_HANDLE
Reference(p) == object[p].handle /\ object' = [object EXCEPT ![p].references = @ + 1]
\* The attach callback holds the lock of the program while it updates the helpers.
Unlocked(p) == client[p].pc # "update"
-----------------------------------------------------------------------------
(* What a provider says, and what a program takes from it.                    *)

Known(version) == {h \in Helpers : Prototype(version, h) # None}

\* The hash is over the type's description and the prototypes of the helpers
\* that the program refers to.
ProgramInfoHash(ids, version) ==
  [description |-> Prototype(version, "description"),
   prototypes |-> [h \in ids |-> Prototype(version, h)]]

Ids(p) == IF program[p].ids = None THEN {} ELSE program[p].ids

\* ebpf_program_reference_providers
ProvidersReferable(pr) == pr.extension # None /\ pr.up

\* _ebpf_program_get_helper_function_address: in the trampolines, and then in
\* what the extension and the core provide.
Found(pr) ==
  Known(pr.extension.version) \cup (IF pr.code = "JIT" THEN pr.trampolines ELSE {})

HelperAddressesFound(pr) ==
  LET ids == IF pr.ids = None THEN {} ELSE pr.ids
  IN ids # {} => /\ ProvidersReferable(pr) /\ pr.general
                 /\ pr.code = "JIT" => pr.trampolines # None
                 /\ ids \subseteq Found(pr)

Publish(pr) == [pr EXCEPT !.addresses = pr.extension.number]

\* ebpf_update_trampoline_table: a table of another size, or for other helpers
\* from the first of them on, is left as it is.  This is not reported: the result
\* is that of the protection of its memory.
UpdateTrampolines(pr) ==
  LET known == Known(pr.extension.version)
  IN IF pr.trampolines \in {None, known} THEN {[Publish(pr) EXCEPT !.trampolines = known]}
     ELSE IF Cardinality(pr.trampolines) # Cardinality(known) THEN {pr}
     ELSE {pr, Publish(pr)}

UpdateJitHelpers(pr) == IF ProvidersReferable(pr) THEN UpdateTrampolines(pr) ELSE {}
UpdateInterpretHelpers(pr) ==
  IF ~HelperAddressesFound(pr) THEN {} ELSE {IF pr.extension = None THEN pr ELSE Publish(pr)}

\* The results of _ebpf_program_update_helpers, without an error.
UpdateHelpers(pr) ==
  CASE pr.code = "NATIVE" /\ ~HelperAddressesFound(pr) -> {}
    [] pr.callback = "native" -> {IF pr.ids \in {None, {}} THEN pr ELSE Publish(pr)}
    [] pr.callback = "jit" -> UpdateJitHelpers(pr)
    [] pr.callback = "interpret" -> UpdateInterpretHelpers(pr)
    [] OTHER -> {pr}

\* It may run out of memory where it allocates some.
UpdateMayFail(pr) == pr.callback = "jit" \/ pr.ids \notin {None, {}}
-----------------------------------------------------------------------------
(* The extension, and the NMR that binds it to the programs.                  *)

LoadExtension(v) ==
  /\ provider.state = "absent"
  /\ provider.number < MaxRegistrations
  /\ provider' = [state |-> "loaded", number |-> provider.number + 1, version |-> v]
  /\ UNCHANGED <<object, program, client, map_references, call, requests>>

UnloadExtension ==
  /\ provider.state = "loaded"
  /\ provider' = [provider EXCEPT !.state = "leaving"]
  /\ UNCHANGED <<object, program, client, map_references, call, requests>>

\* The deregistration completes when no program is bound, and the code is gone.
ExtensionUnloaded ==
  /\ provider.state = "leaving"
  /\ \A p \in Programs : client[p].pc = "idle"
  /\ provider' = [provider EXCEPT !.state = "absent"]
  /\ UNCHANGED <<object, program, client, map_references, call, requests>>

Registered(p) == object[p].state \in {"creating", "live", "zero"}

Refused(p) == client' = [client EXCEPT ![p] = [NoClient EXCEPT !.tried = provider.number]]

\* _ebpf_program_type_specific_program_information_attach_provider, until it
\* releases the lock to compute the hash.
AttachProvider(p) ==
  /\ Registered(p) /\ provider.state = "loaded"
  /\ client[p].pc = "idle" /\ client[p].tried # provider.number
  /\ \/ ~program[p].general /\ Refused(p)
     \/ /\ program[p].general
        /\ client' = [client EXCEPT ![p] =
              [pc |-> "hash", tried |-> provider.number, wait |-> {},
               ids |-> program[p].ids, ids_set |-> program[p].ids_set]]
  /\ UNCHANGED <<provider, object, program, map_references, call, requests>>

HashMatches_Skipped(p) == client[p].ids_set => client[p].ids \subseteq Known(provider.version)
\* The ids are read outside the lock; once they were freed anything may be read.
HashMatches(p) ==
  LET c == client[p]
  IN c.ids_set /\ program[p].ids = c.ids =>
       c.ids \subseteq Known(provider.version) /\ program[p].hash = ProgramInfoHash(c.ids, provider.version)

AttachProviderPublish(p) ==
  /\ client[p].pc = "hash"
  /\ \/ /\ Refused(p)
        /\ UNCHANGED program
     \/ /\ program[p].extension = None
        /\ HashMatches(p)
        /\ program' = [program EXCEPT
              ![p].extension = [number |-> provider.number, version |-> provider.version],
              ![p].up = TRUE, ![p].users = 0]
        /\ client' = [client EXCEPT ![p] = [NoClient EXCEPT !.pc = "update", !.tried = @]]
  /\ UNCHANGED <<provider, object, map_references, call, requests>>

\* Calls see the program information before the helpers are updated, and keep
\* seeing it when the update fails.
AttachProviderUpdate(p) ==
  /\ client[p].pc = "update"
  /\ \/ \E pr \in UpdateHelpers(program[p]) :
          /\ program' = [program EXCEPT ![p] = pr]
          /\ client' = [client EXCEPT ![p].pc = "attach", ![p].tried = provider.number]
     \/ /\ UpdateHelpers(program[p]) = {} \/ UpdateMayFail(program[p])
        /\ Refused(p)
        /\ UNCHANGED program
  /\ UNCHANGED <<provider, object, map_references, call, requests>>

\* NmrClientAttachProvider; when it fails the references are run down.
AttachProviderBind(p) ==
  /\ client[p].pc = "attach"
  /\ \/ /\ provider.state = "loaded"
        /\ client' = [client EXCEPT ![p].pc = "bound"]
        /\ UNCHANGED program
     \/ /\ client' = [client EXCEPT ![p].pc = "unwind"]
        /\ program' = [program EXCEPT ![p].up = FALSE]
  /\ UNCHANGED <<provider, object, map_references, call, requests>>

\* The pointer that is cleared is that of the general helper functions.
AttachProviderUnwind(p) ==
  /\ client[p].pc = "unwind" /\ program[p].users = 0
  /\ program' = [program EXCEPT ![p].general = FALSE]
  /\ Refused(p)
  /\ UNCHANGED <<provider, object, map_references, call, requests>>

\* _ebpf_program_type_specific_program_information_detach_provider
DetachProvider(p) ==
  /\ client[p].pc = "bound"
  /\ provider.state = "leaving" \/ object[p].state = "freeing"
  /\ client' = [client EXCEPT ![p].pc = "rundown"]
  /\ program' = [program EXCEPT ![p].up = FALSE]
  /\ UNCHANGED <<provider, object, map_references, call, requests>>

DetachWaitsFor_None(p) == {}
DetachWaitsFor_Always(p) == InEpoch
\* Without an id the program can not have been invoked, and nobody is waited for.
DetachWaitsFor(p) == IF object[p].state = "creating" THEN {} ELSE InEpoch

DetachProviderClear(p) ==
  /\ client[p].pc = "rundown" /\ program[p].users = 0
  /\ program' = [program EXCEPT ![p].extension = None]
  /\ client' = [client EXCEPT ![p].pc = "synchronize", ![p].wait = DetachWaitsFor(p)]
  /\ UNCHANGED <<provider, object, map_references, call, requests>>

DetachProviderReturn(p) ==
  /\ client[p].pc = "synchronize" /\ client[p].wait = {}
  /\ client' = [client EXCEPT ![p].pc = "idle"]
  /\ UNCHANGED <<provider, object, program, map_references, call, requests>>
-----------------------------------------------------------------------------
(* Creation and deletion.                                                     *)

\* _ebpf_program_general_program_information_attach_provider: the provider of the
\* general helpers is the core itself, and is always there.
GeneralAttached == BOOLEAN

\* ebpf_program_create, until the clients are registered.  A hash is given with
\* native code.
CreateProgram(t, p, hash) ==
  /\ Request(t)
  /\ object[p].state = "none"
  /\ object' = [object EXCEPT ![p].state = "creating"]
  /\ \E general \in GeneralAttached :
       program' = [program EXCEPT ![p] = [NoProgram EXCEPT !.general = general, !.hash = hash]]
  /\ call' = [call EXCEPT ![t] = [Idle EXCEPT !.pc = "create", !.program = p]]
  /\ UNCHANGED <<provider, client, map_references>>

\* The callbacks of a registration are made before it returns.
CallbacksMade(p) ==
  client[p].pc \in {"idle", "bound"} /\ (provider.state = "loaded" => client[p].tried = provider.number)

\* Without information the program is freed when this epoch has ended.
CreateProgramReturn(t) ==
  LET p == call[t].program
      left == LeaveObjects(t)
      informed == program[p].general /\ program[p].extension # None
  IN /\ call[t].pc = "create" /\ CallbacksMade(p)
     /\ \/ /\ informed
           /\ object' = [left EXCEPT ![p].state = "live", ![p].handle = TRUE, ![p].references = 1]
        \/ object' = [left EXCEPT ![p].state = "zero", ![p].wait = InEpoch \ {t}]
     /\ client' = LeaveClients(t)
     /\ call' = [call EXCEPT ![t] = Idle]
     /\ UNCHANGED <<provider, program, map_references, requests>>

CloseHandle(p) ==
  /\ object[p].handle
  /\ DropReference([object EXCEPT ![p].handle = FALSE], p, InEpoch)
  /\ UNCHANGED <<provider, program, client, call, requests>>

FreeProgram_Early(p) ==
  /\ object[p].state = "zero" /\ client[p].pc \in {"idle", "bound"}
  /\ object' = [object EXCEPT ![p].state = "freeing"]
  /\ UNCHANGED <<provider, program, client, map_references, call, requests>>

\* _ebpf_program_free, in a work item: the clients are deregistered first.
FreeProgram(p) ==
  /\ object[p].state = "zero" /\ object[p].wait = {}
  /\ client[p].pc \in {"idle", "bound"}
  /\ object' = [object EXCEPT ![p].state = "freeing"]
  /\ UNCHANGED <<provider, program, client, map_references, call, requests>>

FreeProgramReturn(p) ==
  /\ object[p].state = "freeing" /\ client[p].pc = "idle"
  /\ object' = [object EXCEPT ![p].state = "freed"]
  /\ program' = [program EXCEPT ![p] = [NoProgram EXCEPT !.extension = program[p].extension]]
  /\ client' = [client EXCEPT ![p] = NoClient]
  /\ UNCHANGED <<provider, map_references, call, requests>>
-----------------------------------------------------------------------------
(* Resolution of helper functions, ebpf_core_resolve_helper.                  *)

\* ebpf_program_set_helper_function_ids
IdsSettable(p, ids) == ids = {} \/ program[p].ids = None

ResolveHelper(t, p, ids) ==
  /\ Request(t) /\ Reference(p) /\ Unlocked(p)
  /\ \/ /\ IdsSettable(p, ids)
        /\ program' = IF ids = {} THEN program
                      ELSE [program EXCEPT ![p].ids = ids, ![p].ids_set = TRUE]
        /\ call' = [call EXCEPT ![t] = [Idle EXCEPT !.pc = "addresses", !.program = p, !.ids = ids]]
     \/ /\ ids # {}
        /\ call' = [call EXCEPT ![t] = [Idle EXCEPT !.pc = "clear", !.program = p]]
        /\ UNCHANGED program
  /\ UNCHANGED <<provider, client, map_references>>

\* ebpf_program_get_helper_function_addresses: the reply must have room for all.
ResolveHelperAddresses(t) ==
  LET p == call[t].program
      fits == Cardinality(Ids(p)) <= Cardinality(call[t].ids)
  IN /\ call[t].pc = "addresses" /\ Unlocked(p)
     /\ call' = [call EXCEPT ![t] =
           IF fits /\ HelperAddressesFound(program[p])
           THEN [@ EXCEPT !.pc = "hash",
                    !.addresses = IF Ids(p) = {} THEN None ELSE program[p].extension.number]
           ELSE [Idle EXCEPT !.pc = "clear", !.program = p]]
     /\ UNCHANGED <<provider, object, program, client, map_references, requests>>

\* ebpf_program_set_program_info_hash, until it releases the lock.
SetProgramInfoHash(t) ==
  LET p == call[t].program
  IN /\ call[t].pc = "hash" /\ Unlocked(p)
     /\ \/ /\ ProvidersReferable(program[p])
           /\ program' = [program EXCEPT ![p].users = @ + 1]
           /\ call' = [call EXCEPT ![t].pc = "hashing", ![t].ids = Ids(p),
                                   ![t].extension = program[p].extension]
        \/ /\ call' = [call EXCEPT ![t] = [Idle EXCEPT !.pc = "clear", !.program = p]]
           /\ UNCHANGED program
     /\ UNCHANGED <<provider, object, client, map_references, requests>>

\* A hash that is there is compared, otherwise it is stored.
SetProgramInfoHashReturn(t) ==
  LET p == call[t].program
      version == call[t].extension.version
      hash == ProgramInfoHash(call[t].ids, version)
      computed == call[t].ids \subseteq Known(version)
      done == [program EXCEPT ![p].users = @ - 1]
  IN /\ call[t].pc = "hashing" /\ Unlocked(p)
     /\ \/ /\ computed /\ program[p].hash \in {None, hash}
           /\ program' = [done EXCEPT ![p].hash = hash]
           /\ call' = [call EXCEPT ![t] = [Idle EXCEPT !.pc = "resolved", !.program = p,
                                                       !.addresses = call[t].addresses]]
        \/ /\ program' = done
           /\ call' = [call EXCEPT ![t] = [Idle EXCEPT !.pc = "clear", !.program = p]]
     /\ UNCHANGED <<provider, object, client, map_references, requests>>

\* Any error clears the ids of the program, whoever set them.
ClearHelperIds(t) ==
  LET p == call[t].program
  IN /\ call[t].pc = "clear" /\ Unlocked(p)
     /\ program' = [program EXCEPT ![p].ids = None, ![p].ids_set = FALSE]
     /\ call' = [call EXCEPT ![t].pc = "return"]
     /\ UNCHANGED <<provider, object, client, map_references, requests>>

\* The loader of a native module stores the addresses after that.
StoreHelperAddresses(t) ==
  LET p == call[t].program
  IN /\ call[t].pc = "resolved"
     /\ program' = IF program[p].callback = "native" /\ call[t].addresses # None
                   THEN [program EXCEPT ![p].addresses = call[t].addresses] ELSE program
     /\ call' = [call EXCEPT ![t] = [Idle EXCEPT !.pc = "return", !.program = p]]
     /\ UNCHANGED <<provider, object, client, map_references, requests>>

RequestReturn(t) ==
  /\ call[t].pc = "return"
  /\ Release(t, call[t].program)
  /\ call' = [call EXCEPT ![t] = Idle]
  /\ UNCHANGED <<provider, program, requests>>
-----------------------------------------------------------------------------
(* Code, maps and information.                                                *)

\* ebpf_program_load_code; the loader of a native module registers for changes
\* of the addresses.
CodeLoaded(pr, type) ==
  LET typed == [pr EXCEPT !.code = type,
                  !.callback = CASE type = "JIT" -> "jit" [] type = "EBPF" -> "interpret" [] OTHER -> "native"]
  IN IF type = "NATIVE" THEN {typed}
     ELSE UpdateHelpers(typed) \cup
          (IF UpdateHelpers(typed) = {} \/ UpdateMayFail(typed) THEN {typed} ELSE {})

LoadCode(t, p, type) ==
  /\ Request(t) /\ Unlocked(p)
  /\ object[p].handle
  /\ type = "NATIVE" => program[p].code = "NONE"
  /\ \E pr \in CodeLoaded(program[p], type) : program' = [program EXCEPT ![p] = pr]
  /\ UNCHANGED <<provider, object, client, map_references, call>>

\* ebpf_core_resolve_maps and ebpf_program_associate_maps; the maps that the
\* program had are neither kept nor released.
ResolveMaps(t, p, maps) ==
  /\ Request(t) /\ Unlocked(p)
  /\ object[p].handle
  /\ program' = [program EXCEPT ![p].maps = maps]
  /\ map_references' = [m \in Maps |-> map_references[m] +
                            Cardinality({i \in DOMAIN maps : maps[i] = m})]
  /\ UNCHANGED <<provider, object, client, call>>

\* ebpf_program_associate_additional_map
BindMap(t, p, m) ==
  /\ Request(t) /\ Unlocked(p)
  /\ object[p].handle
  /\ program' = [program EXCEPT ![p].maps = Append(@, m)]
  /\ map_references' = [map_references EXCEPT ![m] = @ + 1]
  /\ UNCHANGED <<provider, object, client, call>>

\* ebpf_program_get_program_info
GetProgramInfo(t, p) ==
  /\ Request(t) /\ Reference(p)
  /\ ProvidersReferable(program[p])
  /\ program' = [program EXCEPT ![p].users = @ + 1]
  /\ call' = [call EXCEPT ![t] = [Idle EXCEPT !.pc = "information", !.program = p,
                                              !.extension = program[p].extension]]
  /\ UNCHANGED <<provider, client, map_references>>

GetProgramInfoReturn(t) ==
  /\ call[t].pc = "information"
  /\ program' = [program EXCEPT ![call[t].program].users = @ - 1]
  /\ call' = [call EXCEPT ![t] = [Idle EXCEPT !.pc = "return", !.program = call[t].program]]
  /\ UNCHANGED <<provider, object, client, map_references, requests>>
-----------------------------------------------------------------------------
(* Invocation, tail calls and test runs.                                      *)

\* The look at the extension that ebpf_program_invoke begins with.
Invocable(p) == program[p].extension # None

Running(p, test) ==
  [Idle EXCEPT !.pc = "run", !.program = p, !.current = p, !.test = test,
               !.extension = program[p].extension]

Invoke(t, p) ==
  /\ Request(t)
  /\ object[p].state = "live" /\ Invocable(p)
  /\ call' = [call EXCEPT ![t] = Running(p, FALSE)]
  /\ UNCHANGED <<provider, object, program, client, map_references>>

\* ebpf_program_set_tail_call
TailCallRefused(count) == count = MAX_TAIL_CALL_CNT

SetTailCall(t, p) ==
  /\ call[t].pc = "run" /\ call[t].next = None
  /\ object[p].state = "live"
  /\ ~TailCallRefused(call[t].count)
  /\ call' = [call EXCEPT ![t].next = p]
  /\ UNCHANGED <<provider, object, program, client, map_references, requests>>

\* The program that runs now returns; the next one is not asked for its extension.
RunNext(t) ==
  /\ call[t].pc = "run"
  /\ call[t].next # None /\ call[t].count < MAX_TAIL_CALL_CNT + 1
  /\ call' = [call EXCEPT ![t].next = None, ![t].current = call[t].next, ![t].count = @ + 1]
  /\ UNCHANGED <<provider, object, program, client, map_references, requests>>

\* A test run goes on in an epoch of its own, or is complete.
InvokeReturn(t) ==
  /\ call[t].pc = "run" /\ call[t].next = None
  /\ \/ /\ ~call[t].test
        /\ call' = [call EXCEPT ![t] = Idle]
        /\ UNCHANGED requests
     \/ /\ call[t].test
        /\ call' = [call EXCEPT ![t].pc = "complete", ![t].current = None, ![t].count = 0]
        /\ UNCHANGED requests
     \/ /\ call[t].test /\ requests < MaxRequests
        /\ call' = [call EXCEPT ![t].pc = "repeat", ![t].current = None, ![t].count = 0]
        /\ requests' = requests + 1
  /\ object' = LeaveObjects(t)
  /\ client' = LeaveClients(t)
  /\ UNCHANGED <<provider, program, map_references>>

\* ebpf_program_execute_test_run: the work item owns the references.
ExecuteTestRun(t, p) ==
  /\ ProvidersReferable(program[p])
  /\ program' = [program EXCEPT ![p].users = @ + 1]
  /\ call' = [call EXCEPT ![t] = [Idle EXCEPT !.pc = "queued", !.program = p, !.test = TRUE,
                                              !.extension = program[p].extension]]

TestRun(t, p) ==
  /\ Request(t) /\ Reference(p)
  /\ ExecuteTestRun(t, p)
  /\ UNCHANGED <<provider, client, map_references>>

\* _ebpf_program_test_run_work_item
TestRunInvoke(t) ==
  LET p == call[t].program
  IN /\ call[t].pc \in {"queued", "repeat"}
     /\ call' = [call EXCEPT ![t] =
           IF Invocable(p) THEN Running(p, TRUE) ELSE [@ EXCEPT !.pc = "complete"]]
     /\ UNCHANGED <<provider, object, program, client, map_references, requests>>

\* The affinity or the context can not be had.
TestRunFails(t) ==
  /\ call[t].pc = "queued"
  /\ call' = [call EXCEPT ![t].pc = "complete"]
  /\ UNCHANGED <<provider, object, program, client, map_references, requests>>

\* The completion releases the program, and only then the providers.
TestRunComplete(t) ==
  /\ call[t].pc = "complete"
  /\ Release(t, call[t].program)
  /\ call' = [call EXCEPT ![t].pc = "dereference"]
  /\ UNCHANGED <<provider, program, requests>>

TestRunDereference(t) ==
  /\ call[t].pc = "dereference"
  /\ program' = [program EXCEPT ![call[t].program].users = @ - 1]
  /\ call' = [call EXCEPT ![t] = Idle]
  /\ UNCHANGED <<provider, object, client, map_references, requests>>
-----------------------------------------------------------------------------
\* Native code comes with the hash of what it was compiled against.
GivenHashes == {None} \cup {ProgramInfoHash(c.ids, c.version) : c \in CompiledAgainst}

ProviderNext ==
  \/ \E v \in VersionsOf(provider.number + 1) : LoadExtension(v)
  \/ UnloadExtension \/ ExtensionUnloaded
  \/ \E p \in Programs :
       \/ AttachProvider(p) \/ AttachProviderPublish(p) \/ AttachProviderUpdate(p)
       \/ AttachProviderBind(p) \/ AttachProviderUnwind(p)
       \/ DetachProvider(p) \/ DetachProviderClear(p) \/ DetachProviderReturn(p)
       \/ FreeProgram(p) \/ FreeProgramReturn(p)

RequestNext ==
  \E t \in Threads, p \in Programs :
    \/ \E hash \in GivenHashes : CreateProgram(t, p, hash)
    \/ SetTailCall(t, p)
    \/ /\ p \in Requested
       /\ \/ \E ids \in HelperSets : ResolveHelper(t, p, ids)
          \/ \E type \in CodeTypes : LoadCode(t, p, type)
          \/ \E maps \in MapLists : ResolveMaps(t, p, maps)
          \/ \E m \in Maps : BindMap(t, p, m)
          \/ GetProgramInfo(t, p) \/ Invoke(t, p) \/ TestRun(t, p)

ThreadNext(t) ==
  \/ CreateProgramReturn(t)
  \/ ResolveHelperAddresses(t) \/ SetProgramInfoHash(t) \/ SetProgramInfoHashReturn(t)
  \/ ClearHelperIds(t) \/ StoreHelperAddresses(t) \/ RequestReturn(t)
  \/ GetProgramInfoReturn(t) \/ RunNext(t) \/ InvokeReturn(t)
  \/ TestRunInvoke(t) \/ TestRunFails(t) \/ TestRunComplete(t) \/ TestRunDereference(t)

Next ==
  \/ ProviderNext \/ RequestNext
  \/ \E p \in Programs : CloseHandle(p)
  \/ \E t \in Threads : ThreadNext(t)

Spec == Init /\ [][Next]_vars

\* The NMR, the work items and the threads that are in a call go on.
Fairness ==
  /\ WF_vars(ExtensionUnloaded)
  /\ \A p \in Programs :
       /\ WF_vars(AttachProvider(p)) /\ WF_vars(AttachProviderPublish(p))
       /\ WF_vars(AttachProviderUpdate(p)) /\ WF_vars(AttachProviderBind(p))
       /\ WF_vars(AttachProviderUnwind(p))
       /\ WF_vars(DetachProvider(p)) /\ WF_vars(DetachProviderClear(p)) /\ WF_vars(DetachProviderReturn(p))
       /\ WF_vars(FreeProgram(p)) /\ WF_vars(FreeProgramReturn(p))
  /\ \A t \in Threads : WF_vars(ThreadNext(t))

FairSpec == Spec /\ Fairness

-----------------------------------------------------------------------------
(* Properties.                                                                *)

\* A program whose attach callback failed after it had published the extension
\* is not bound to it.
Orphaned(p) == program[p].extension # None /\ client[p].pc = "idle"

Users(p) == {t \in Threads : call[t].program = p /\ call[t].extension # None /\
                               (call[t].pc \in {"hashing", "information"} \/ call[t].test)}
Holders(p) == {t \in Threads : call[t].program = p /\
                 (call[t].pc \in {"addresses", "hash", "hashing", "clear", "resolved", "return", "information"}
                  \/ (call[t].test /\ call[t].pc # "dereference"))}

\* The counts are those of the references that are held: of a program, by its
\* handle, the requests and the test runs; of its provider data, which a detach
\* waits for; of a map, at least one for each use by a program.  At most
\* MAX_TAIL_CALL_CNT programs run after the first.
CountsExact ==
 /\ \A t \in Threads : call[t].count <= MAX_TAIL_CALL_CNT
 /\ \A p \in Programs :
    /\ object[p].references = Cardinality(Holders(p)) + IF object[p].handle THEN 1 ELSE 0
    /\ object[p].state # "freed" => program[p].users = Cardinality(Users(p))
    /\ object[p].state \in {"creating", "live"} =>
         \A m \in Maps : map_references[m] >= Cardinality({i \in DOMAIN program[p].maps : program[p].maps[i] = m})

\* Program code that runs, in an invocation, a tail call or a test run, and the
\* program that a work item still has to dereference, are not freed.
InvokedIsAllocated ==
  \A t \in Threads :
    /\ call[t].current # None => object[call[t].current].state # "freed"
    /\ call[t].test => object[call[t].program].state # "freed" \/ Orphaned(call[t].program)

\* A thread that found the extension loaded, by the pointer or by a reference,
\* returns before the extension is unloaded, unless the attach callback failed
\* and the program was never bound.
ExtensionOutlivesCalls ==
  \A t \in Threads :
    call[t].extension # None =>
      \/ provider.state # "absent" /\ provider.number = call[t].extension.number
      \/ Orphaned(call[t].program)

\* "If the pointer is not null, then the extension is loaded and will remain
\* loaded until at least after the current epoch ends": what ebpf_program_invoke
\* says of the look that it begins with.
LoadedUntilEpochEnds ==
  \A t \in Threads : call[t].pc = "run" =>
    provider.state # "absent" /\ provider.number = call[t].extension.number

Resolving(p) == \E t \in Threads : call[t].program = p /\
  call[t].pc \in {"addresses", "hash", "hashing", "clear", "resolved"}

\* The program information that a program runs with is what it was resolved and
\* verified with, as long as its helper ids are set.
VerifiedWhileSet ==
  \A p \in Programs :
    program[p].ids_set /\ program[p].extension # None /\ ~Resolving(p) =>
      program[p].hash = ProgramInfoHash(program[p].ids, program[p].extension.version)

\* Counts are exact, code that runs is allocated and has been verified, and the
\* extension outlives the calls that use it.
ProgramInv ==
  CountsExact /\ InvokedIsAllocated /\ VerifiedWhileSet /\ ExtensionOutlivesCalls

\* An extension that is unloaded goes away: no program, test run or request
\* keeps it for ever.
Leaving == provider.state = "leaving"
UnloadCompletes == Leaving ~> provider.state = "absent"
=============================================================================
