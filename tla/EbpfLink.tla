------------------------------ MODULE EbpfLink ------------------------------
(* Links between one program and a hook provider: ebpf_link.c, the link list  *)
(* of ebpf_program.c, and the link and unlink requests of ebpf_core.c.  The   *)
(* network module registrar is used through the life of a binding it promises *)
(* (NmrSpec); the hook invokes the link's program while a binding is up.      *)
EXTENDS Naturals, Sequences, FiniteSets

CONSTANTS
  NLinks,            \* the links, by object id: 1..NLinks
  Matching,          \* links that have the attach data of an unlink request
  NUnlinkers,        \* the number of threads that handle unlink requests
  Invokers,          \* hook threads that invoke programs
  ProviderLoads,     \* how often the provider registers
  DuplicateBindings, \* the registrar may bind one pair twice (see Nmr)
  ByProgram          \* unlink requests name the program's handle

ASSUME LinkAssumption ==
  /\ NLinks \in Nat /\ NUnlinkers \in Nat /\ ProviderLoads \in Nat
  /\ Matching \subseteq 1..NLinks
  /\ DuplicateBindings \in BOOLEAN /\ ByProgram \in BOOLEAN

Links == 1..NLinks
NoLink == 0
Unlinkers == NLinks + 1 .. NLinks + NUnlinkers
Teardown == 0                           \* the thread in zero_ref_count
Threads == Links \cup Unlinkers \cup {Teardown}
Bindings == Links \X {"client", "provider"}   \* who initiated the binding
NoBinding == <<>>
BindingsOf(l) == {b \in Bindings : b[1] = l}

VARIABLES
  \* ebpf_link_t
  state, program_set, client_data, provider_attached, refs, nmr, link_handle,
  \* ebpf_program_t
  links, program_refs, program_phase, program_handle, epoch_blockers,
  \* registrar and provider
  phase, provider, loads,
  \* threads: link handlers, detach_program calls, unlink handlers, invokers
  lpc, dstep, dlink, upc, uhold, invoking, uses

link == <<state, program_set, client_data, provider_attached, refs, nmr,
          link_handle>>
program == <<links, program_refs, program_phase, program_handle, epoch_blockers>>
registrar == <<phase, provider, loads>>
threads == <<lpc, dstep, dlink, upc, uhold>>
invocations == <<invoking, uses>>
vars == <<link, program, registrar, threads, invocations>>

States == {"initial", "attaching", "attached", "detaching", "detached"}
BindingPhases == {"none", "checking", "calling", "inserted", "bound",
                  "client_detached", "rundown"}
LinkPCs == {"idle", "create", "attach", "register", "bind", "registering",
            "cleanup", "cleanup_wait", "handle", "failed", "detach",
            "release_program", "teardown", "release_link", "abort", "done"}

TypeOK ==
  /\ state \in [Links -> States]
  /\ program_set \in [Links -> BOOLEAN]
  /\ client_data \in [Links -> BOOLEAN]
  /\ provider_attached \in [Links -> BOOLEAN]
  /\ refs \in [Links -> Nat]
  /\ nmr \in [Links -> {"none", "registered", "deregistering"}]
  /\ link_handle \in [Links -> BOOLEAN]
  /\ links \in Seq(Links)
  /\ program_refs \in Nat
  /\ program_phase \in {"live", "zero_ref", "retired", "freed"}
  /\ program_handle \in BOOLEAN
  /\ epoch_blockers \subseteq Invokers
  /\ phase \in [Bindings -> BindingPhases]
  /\ provider \in {"down", "up", "deregistering"}
  /\ loads \in 0..ProviderLoads
  /\ lpc \in [Links -> LinkPCs]
  /\ dstep \in [Threads -> {"none", "enter", "deregister", "wait"}]
  /\ dlink \in [Threads -> Links \cup {NoLink}]
  /\ upc \in [Unlinkers -> {"idle", "by_handle", "find", "match", "detach", "done"}]
  /\ uhold \in [Unlinkers -> Links \cup {NoLink}]
  /\ invoking \in [Invokers -> Bindings \cup {NoBinding}]
  /\ uses \in [Invokers -> {"nothing", "null", "program"}]

Init ==
  /\ state = [l \in Links |-> "initial"]
  /\ program_set = [l \in Links |-> FALSE]
  /\ client_data = [l \in Links |-> FALSE]
  /\ provider_attached = [l \in Links |-> FALSE]
  /\ refs = [l \in Links |-> 0]
  /\ nmr = [l \in Links |-> "none"]
  /\ link_handle = [l \in Links |-> FALSE]
  /\ links = <<>>
  /\ program_refs = 1 /\ program_phase = "live" /\ program_handle = TRUE
  /\ epoch_blockers = {}
  /\ phase = [b \in Bindings |-> "none"]
  /\ provider = "down" /\ loads = 0
  /\ lpc = [l \in Links |-> "idle"]
  /\ dstep = [t \in Threads |-> "none"]
  /\ dlink = [t \in Threads |-> NoLink]
  /\ upc = [u \in Unlinkers |-> "idle"]
  /\ uhold = [u \in Unlinkers |-> NoLink]
  /\ invoking = [v \in Invokers |-> NoBinding]
  /\ uses = [v \in Invokers |-> "nothing"]

-----------------------------------------------------------------------------
(* References.  Releasing the last reference of a link runs _ebpf_link_free; *)
(* releasing the last one of the program runs _ebpf_program_zero_ref_count.  *)

\* The change of link l's reference count by n; freeing drops client_data.
Acquire(l) == refs' = [refs EXCEPT ![l] = @ + 1] /\ UNCHANGED client_data
Release(l, n) ==
  /\ refs' = [refs EXCEPT ![l] = @ - n]
  /\ client_data' = [client_data EXCEPT ![l] = @ /\ refs[l] > n]

ReleaseProgram ==
  /\ program_refs' = program_refs - 1
  /\ program_phase' = IF program_refs = 1 THEN "zero_ref" ELSE program_phase

Without(s, l) == SelectSeq(s, LAMBDA m : m # l)
Goto(l, from, to) == lpc[l] = from /\ lpc' = [lpc EXCEPT ![l] = to]
Set(f, x, v) == [f EXCEPT ![x] = v]
NoBindings(l) == \A b \in BindingsOf(l) : phase[b] = "none"

-----------------------------------------------------------------------------
(* _ebpf_core_protocol_link_program.                                        *)

\* The program is referenced through its handle.
LinkProgram(l) ==
  /\ program_handle
  /\ Goto(l, "idle", "create")
  /\ program_refs' = program_refs + 1
  /\ UNCHANGED <<link, links, program_phase, program_handle, epoch_blockers,
                 registrar, dstep, dlink, upc, uhold, invocations>>

\* ebpf_link_create, which may fail for lack of memory.
LinkCreate(l) ==
  /\ \/ /\ Goto(l, "create", "attach")
        /\ refs' = Set(refs, l, 1)
        /\ client_data' = Set(client_data, l, TRUE)
     \/ /\ Goto(l, "create", "abort")
        /\ UNCHANGED <<refs, client_data>>
  /\ UNCHANGED <<state, program_set, provider_attached, nmr, link_handle,
                 program, registrar, dstep, dlink, upc, uhold, invocations>>

\* ebpf_link_attach_program up to the first unlock, ebpf_program_attach_link
\* included: the program's list holds an "attach" reference on the link.
AttachProgram(l) ==
  /\ Goto(l, "attach", "register")
  /\ state[l] = "initial"
  /\ state' = Set(state, l, "attaching")
  /\ program_set' = Set(program_set, l, TRUE)
  /\ links' = Append(links, l)
  /\ Acquire(l)
  /\ UNCHANGED <<provider_attached, nmr, link_handle, program_refs,
                 program_phase, program_handle, epoch_blockers, registrar,
                 dstep, dlink, upc, uhold, invocations>>

\* ebpf_program_detach_link and link->program = NULL.
DetachLink(l) ==
  /\ links' = Without(links, l)
  /\ program_set' = Set(program_set, l, FALSE)

\* NmrRegisterClient enters the link in the registrar, or fails; then the link
\* has no nmr_client_handle and stays in the attaching state.
RegisterClient_KeepsList(l) ==
  /\ \/ /\ Goto(l, "register", "bind")
        /\ nmr' = Set(nmr, l, "registered")
     \/ /\ Goto(l, "register", "failed")
        /\ UNCHANGED nmr
  /\ UNCHANGED <<links, program_set, refs, client_data, state,
                 provider_attached, link_handle, program_refs,
                 program_phase, program_handle, epoch_blockers, registrar,
                 dstep, dlink, upc, uhold, invocations>>

RegisterClient(l) ==
  /\ \/ /\ Goto(l, "register", "bind")
        /\ nmr' = Set(nmr, l, "registered")
        /\ UNCHANGED <<links, program_set, refs, client_data>>
     \/ /\ Goto(l, "register", "failed")
        /\ DetachLink(l)
        /\ Release(l, 1)
        /\ UNCHANGED nmr
  /\ UNCHANGED <<state, provider_attached, link_handle, program_refs,
                 program_phase, program_handle, epoch_blockers, registrar,
                 dstep, dlink, upc, uhold, invocations>>

\* The registrar binds the link with a provider that is up.
NewBinding(b) ==
  /\ phase[b] = "none"
  /\ DuplicateBindings \/ NoBindings(b[1])

PerformBind(l) ==
  /\ Goto(l, "bind", "registering")
  /\ phase' = IF provider = "up" /\ NewBinding(<<l, "client">>)
              THEN Set(phase, <<l, "client">>, "checking") ELSE phase
  /\ UNCHANGED <<link, program, provider, loads, dstep, dlink, upc, uhold,
                 invocations>>

\* NmrRegisterClient returned: attached only if a provider is, or else the
\* cleanup of attach_program deregisters the client again.
AttachReturned(l) ==
  /\ phase[<<l, "client">>] \notin {"checking", "calling", "inserted"}
  /\ \/ /\ provider_attached[l]
        /\ Goto(l, "registering", "handle")
        /\ state' = Set(state, l, "attached")
     \/ /\ ~provider_attached[l]
        /\ Goto(l, "registering", "cleanup")
        /\ state' = Set(state, l, "detaching")
  /\ UNCHANGED <<program_set, client_data, provider_attached, refs, nmr,
                 link_handle, program, registrar, dstep, dlink, upc, uhold,
                 invocations>>

CleanupDeregister(l) ==
  /\ Goto(l, "cleanup", "cleanup_wait")
  /\ nmr' = Set(nmr, l, "deregistering")
  /\ UNCHANGED <<state, program_set, client_data, provider_attached, refs,
                 link_handle, program, registrar, dstep, dlink, upc, uhold,
                 invocations>>

CleanupComplete_NoWait(l) == TRUE

\* NmrWaitForClientDeregisterComplete returns when no binding is left.
CleanupComplete(l) == NoBindings(l)

CleanupDetach(l) ==
  /\ CleanupComplete(l)
  /\ Goto(l, "cleanup_wait", "failed")
  /\ state' = Set(state, l, "detached")
  /\ nmr' = Set(nmr, l, "none")
  /\ DetachLink(l)
  /\ Release(l, 1)
  /\ UNCHANGED <<provider_attached, link_handle, program_refs, program_phase,
                 program_handle, epoch_blockers, registrar, dstep, dlink, upc,
                 uhold, invocations>>

\* ebpf_handle_create, which may fail.
HandleCreate(l) ==
  /\ \/ /\ Goto(l, "handle", "release_program")
        /\ link_handle' = Set(link_handle, l, TRUE)
        /\ Acquire(l)
     \/ /\ Goto(l, "handle", "failed")
        /\ UNCHANGED <<link_handle, refs, client_data>>
  /\ UNCHANGED <<state, program_set, provider_attached, nmr, program,
                 registrar, dstep, dlink, upc, uhold, invocations>>

\* A failed request detaches the link, which does nothing unless it is attached.
FailedDetach(l) ==
  /\ Goto(l, "failed", "detach")
  /\ dstep' = Set(dstep, l, "enter")
  /\ dlink' = Set(dlink, l, l)
  /\ UNCHANGED <<link, program, registrar, upc, uhold, invocations>>

FailedDetached(l) ==
  /\ Goto(l, "detach", "release_program")
  /\ dstep[l] = "none"
  /\ dlink' = Set(dlink, l, NoLink)
  /\ UNCHANGED <<link, program, registrar, dstep, upc, uhold, invocations>>

\* The handler releases the program, tearing it down if that was the last
\* reference, and then the link.
LinkReleaseProgram(l) ==
  /\ Goto(l, "release_program",
          IF program_refs = 1 THEN "teardown" ELSE "release_link")
  /\ ReleaseProgram
  /\ UNCHANGED <<link, links, program_handle, epoch_blockers, registrar, dstep,
                 dlink, upc, uhold, invocations>>

LinkTornDown(l) ==
  /\ program_phase # "zero_ref"
  /\ Goto(l, "teardown", "release_link")
  /\ UNCHANGED <<link, program, registrar, dstep, dlink, upc, uhold,
                 invocations>>

LinkReleaseLink(l) ==
  /\ Goto(l, "release_link", "done")
  /\ Release(l, 1)
  /\ UNCHANGED <<state, program_set, provider_attached, nmr, link_handle,
                 program, registrar, dstep, dlink, upc, uhold, invocations>>

\* Without a link there is only the program to release.
LinkAbort(l) ==
  /\ Goto(l, "abort", "done")
  /\ ReleaseProgram
  /\ UNCHANGED <<link, links, program_handle, epoch_blockers, registrar, dstep,
                 dlink, upc, uhold, invocations>>

-----------------------------------------------------------------------------
(* ebpf_link_detach_program, called by thread t for link dlink[t].          *)

\* The link must be attached; then the call holds a reference of its own.
DetachEnter(t) ==
  LET l == dlink[t] IN
  /\ dstep[t] = "enter"
  /\ \/ /\ state[l] # "attached"
        /\ dstep' = Set(dstep, t, "none")
        /\ UNCHANGED <<state, refs, client_data>>
     \/ /\ state[l] = "attached"
        /\ dstep' = Set(dstep, t, "deregister")
        /\ state' = Set(state, l, "detaching")
        /\ Acquire(l)
  /\ UNCHANGED <<program_set, provider_attached, nmr, link_handle, program,
                 registrar, lpc, dlink, upc, uhold, invocations>>

\* NmrDeregisterClient, then NmrWaitForClientDeregisterComplete.
DetachDeregister_FreesData(t) ==
  LET l == dlink[t] IN
  /\ dstep[t] = "deregister"
  /\ dstep' = Set(dstep, t, "wait")
  /\ nmr' = Set(nmr, l, "deregistering")
  /\ client_data' = Set(client_data, l, FALSE)
  /\ UNCHANGED <<state, program_set, provider_attached, refs,
                 link_handle, program, registrar, lpc, dlink, upc, uhold,
                 invocations>>

DetachDeregister(t) ==
  LET l == dlink[t] IN
  /\ dstep[t] = "deregister"
  /\ dstep' = Set(dstep, t, "wait")
  /\ nmr' = Set(nmr, l, "deregistering")
  /\ UNCHANGED <<state, program_set, client_data, provider_attached, refs,
                 link_handle, program, registrar, lpc, dlink, upc, uhold,
                 invocations>>

DetachComplete_NoWait(l) == TRUE
DetachComplete(l) == NoBindings(l)

DetachFinish(t) ==
  LET l == dlink[t] IN
  /\ dstep[t] = "wait"
  /\ DetachComplete(l)
  /\ dstep' = Set(dstep, t, "none")
  /\ nmr' = Set(nmr, l, "none")
  /\ state' = Set(state, l, "detached")
  /\ DetachLink(l)
  /\ client_data' = Set(client_data, l, FALSE)
  /\ refs' = Set(refs, l, refs[l] - 2)     \* the attach and the own reference
  /\ UNCHANGED <<provider_attached, link_handle, program_refs, program_phase,
                 program_handle, epoch_blockers, registrar, lpc, dlink, upc,
                 uhold, invocations>>

-----------------------------------------------------------------------------
(* _ebpf_core_protocol_unlink_program.                                      *)

Call(t, l) == dstep' = Set(dstep, t, "enter") /\ dlink' = Set(dlink, t, l)
UnlinkGoto(u, from, to) == upc[u] = from /\ upc' = Set(upc, u, to)
LinkFieldsUnchanged ==
  UNCHANGED <<state, program_set, provider_attached, nmr, link_handle>>

\* By link handle: reference the link and detach it.
UnlinkByHandle(u, l) ==
  /\ link_handle[l]
  /\ UnlinkGoto(u, "idle", "by_handle")
  /\ uhold' = Set(uhold, u, l)
  /\ Acquire(l)
  /\ Call(u, l)
  /\ LinkFieldsUnchanged
  /\ UNCHANGED <<program, registrar, lpc, invocations>>

UnlinkByHandleReturn(u) ==
  /\ dstep[u] = "none"
  /\ UnlinkGoto(u, "by_handle", "done")
  /\ Release(uhold[u], 1)
  /\ uhold' = Set(uhold, u, NoLink)
  /\ dlink' = Set(dlink, u, NoLink)
  /\ LinkFieldsUnchanged
  /\ UNCHANGED <<program, registrar, lpc, dstep, invocations>>

\* By attach data: enumerate the links, detach every one that matches.
UnlinkByData(u) ==
  /\ UnlinkGoto(u, "idle", "find")
  /\ UNCHANGED <<link, program, registrar, lpc, dstep, dlink, uhold, invocations>>

\* _ebpf_core_find_matching_link: reference the next link object in id order,
\* then release the previous one.
Later(prev) == {m \in Links : m > prev /\ refs[m] > 0}

FindRefs_Leak(l, prev, next) == refs[l] + (IF l = next THEN 1 ELSE 0)

FindRefs(l, prev, next) ==
  refs[l] + (IF l = next THEN 1 ELSE 0) - (IF l = prev THEN 1 ELSE 0)

FindNext(u) ==
  LET prev == uhold[u]
      next == IF Later(prev) = {} THEN NoLink
              ELSE CHOOSE m \in Later(prev) : \A k \in Later(prev) : m <= k
  IN
  /\ UnlinkGoto(u, "find", IF next = NoLink THEN "done" ELSE "match")
  /\ uhold' = Set(uhold, u, next)
  /\ refs' = [l \in Links |-> FindRefs(l, prev, next)]
  /\ client_data' = [l \in Links |->
                       client_data[l] /\ FindRefs(l, prev, next) > 0]
  /\ LinkFieldsUnchanged
  /\ UNCHANGED <<program, registrar, lpc, dstep, dlink, invocations>>

\* ebpf_link_get_info and the comparisons; the program's handle is resolved
\* again for every link, and the search ends with an error if it was closed.
Selected(l) == l \in Matching /\ (ByProgram => program_handle /\ program_set[l])
HandleGone(l) == l \in Matching /\ ByProgram /\ ~program_handle

UnlinkMatch(u) ==
  LET l == uhold[u] IN
  /\ \/ /\ Selected(l)
        /\ UnlinkGoto(u, "match", "detach")
        /\ Call(u, l)
        /\ UNCHANGED uhold
     \/ /\ HandleGone(l)
        /\ UnlinkGoto(u, "match", "done")
        /\ uhold' = Set(uhold, u, NoLink)
        /\ UNCHANGED <<dstep, dlink>>
     \/ /\ ~Selected(l) /\ ~HandleGone(l)
        /\ UnlinkGoto(u, "match", "find")
        /\ UNCHANGED <<dstep, dlink, uhold>>
  /\ UNCHANGED <<link, program, registrar, lpc, invocations>>

UnlinkDetached(u) ==
  /\ dstep[u] = "none"
  /\ UnlinkGoto(u, "detach", "find")
  /\ dlink' = Set(dlink, u, NoLink)
  /\ UNCHANGED <<link, program, registrar, lpc, dstep, uhold, invocations>>

-----------------------------------------------------------------------------
(* Handles and the end of the program.                                      *)

CloseLinkHandle(l) ==
  /\ link_handle[l]
  /\ link_handle' = Set(link_handle, l, FALSE)
  /\ Release(l, 1)
  /\ UNCHANGED <<state, program_set, provider_attached, nmr, program, registrar,
                 threads, invocations>>

CloseProgramHandle ==
  /\ program_handle
  /\ program_handle' = FALSE
  /\ ReleaseProgram
  /\ UNCHANGED <<link, links, epoch_blockers, registrar, threads, invocations>>

\* _ebpf_program_detach_links: while the list is not empty, reference its first
\* link, drop the lock and detach it.
TeardownNext ==
  /\ program_phase = "zero_ref"
  /\ dlink[Teardown] = NoLink /\ links # <<>>
  /\ Acquire(Head(links))
  /\ Call(Teardown, Head(links))
  /\ LinkFieldsUnchanged
  /\ UNCHANGED <<program, registrar, lpc, upc, uhold, invocations>>

TeardownRelease ==
  /\ dlink[Teardown] # NoLink /\ dstep[Teardown] = "none"
  /\ Release(dlink[Teardown], 1)
  /\ dlink' = Set(dlink, Teardown, NoLink)
  /\ LinkFieldsUnchanged
  /\ UNCHANGED <<program, registrar, lpc, dstep, upc, uhold, invocations>>

\* The list is empty: _ebpf_program_free is queued for the end of the epoch.
TeardownDone ==
  /\ program_phase = "zero_ref"
  /\ dlink[Teardown] = NoLink /\ links = <<>>
  /\ program_phase' = "retired"
  /\ epoch_blockers' = {v \in Invokers : invoking[v] # NoBinding}
  /\ UNCHANGED <<link, links, program_refs, program_handle, registrar, threads,
                 invocations>>

ProgramFree ==
  /\ program_phase = "retired" /\ epoch_blockers = {}
  /\ program_phase' = "freed"
  /\ UNCHANGED <<link, links, program_refs, program_handle, epoch_blockers,
                 registrar, threads, invocations>>

-----------------------------------------------------------------------------
(* The registrar and the hook provider.  Every binding runs the link's       *)
(* callbacks; between "inserted" and the end of "rundown" the hook may       *)
(* invoke the link.                                                          *)

Move(b, from, to) == phase[b] = from /\ phase' = Set(phase, b, to)
RegistrarUnchanged == UNCHANGED <<program, provider, loads, threads, invocations>>

\* _ebpf_link_client_attach_provider up to the unlock: the provider's data must
\* fit and no provider may be attached.
AttachProviderCheck(b) ==
  /\ \/ ~provider_attached[b[1]] /\ Move(b, "checking", "calling")
     \/ Move(b, "checking", "none")
  /\ UNCHANGED link /\ RegistrarUnchanged

\* NmrClientAttachProvider: the provider reads the link's client data and adds
\* the link to its client list, or refuses.
ProviderAttachClient(b) ==
  /\ Move(b, "calling", "inserted") \/ Move(b, "calling", "none")
  /\ UNCHANGED link /\ RegistrarUnchanged

SetProviderAttached(b, value) ==
  /\ provider_attached' = Set(provider_attached, b[1], value)
  /\ UNCHANGED <<state, program_set, client_data, refs, nmr, link_handle>>
  /\ RegistrarUnchanged

AttachProviderDone(b) ==
  Move(b, "inserted", "bound") /\ SetProviderAttached(b, TRUE)

\* Either side deregisters: the link's detach callback, the hook's rundown.
ClientDetachProvider(b) ==
  /\ nmr[b[1]] = "deregistering" \/ provider = "deregistering"
  /\ Move(b, "bound", "client_detached")
  /\ SetProviderAttached(b, FALSE)

ProviderDetachClient(b) ==
  /\ Move(b, "client_detached", "rundown")
  /\ UNCHANGED link /\ RegistrarUnchanged

RundownComplete(b) ==
  /\ \A v \in Invokers : invoking[v] # b
  /\ Move(b, "rundown", "none")
  /\ UNCHANGED link /\ RegistrarUnchanged

\* The provider loads, is bound with every registered link, and unloads.
ProviderRegister ==
  /\ provider = "down" /\ loads < ProviderLoads
  /\ provider' = "up" /\ loads' = loads + 1
  /\ phase' = [b \in Bindings |->
       IF b[2] = "provider" /\ nmr[b[1]] = "registered" /\ NewBinding(b)
       THEN "checking" ELSE phase[b]]
  /\ UNCHANGED <<link, program, threads, invocations>>

ProviderDeregister ==
  /\ provider = "up"
  /\ provider' = "deregistering"
  /\ UNCHANGED <<link, program, phase, loads, threads, invocations>>

ProviderGone ==
  /\ provider = "deregistering"
  /\ \A b \in Bindings : phase[b] = "none"
  /\ provider' = "down"
  /\ UNCHANGED <<link, program, phase, loads, threads, invocations>>

-----------------------------------------------------------------------------
(* Invocation.                                                              *)

\* The hook takes rundown protection and the link enters the epoch.
InvokeBegin(v, b) ==
  /\ invoking[v] = NoBinding
  /\ phase[b] \in {"inserted", "bound", "client_detached"}
  /\ invoking' = Set(invoking, v, b)
  /\ UNCHANGED <<link, program, registrar, threads, uses>>

\* _ebpf_link_instance_invoke_batch reads link->program without the lock.
InvokeProgram(v) ==
  /\ invoking[v] # NoBinding /\ uses[v] = "nothing"
  /\ uses' = Set(uses, v,
                 IF program_set[invoking[v][1]] THEN "program" ELSE "null")
  /\ UNCHANGED <<link, program, registrar, threads, invoking>>

\* The program ran; the thread leaves the epoch and the hook's rundown.
InvokeEnd(v) ==
  /\ uses[v] # "nothing"
  /\ invoking' = Set(invoking, v, NoBinding)
  /\ uses' = Set(uses, v, "nothing")
  /\ epoch_blockers' = epoch_blockers \ {v}
  /\ UNCHANGED <<link, links, program_refs, program_phase, program_handle,
                 registrar, threads>>

-----------------------------------------------------------------------------
LinkStep(l) ==
  \/ LinkCreate(l) \/ AttachProgram(l) \/ RegisterClient(l) \/ PerformBind(l)
  \/ AttachReturned(l) \/ CleanupDeregister(l) \/ CleanupDetach(l)
  \/ HandleCreate(l) \/ FailedDetach(l) \/ FailedDetached(l)
  \/ LinkReleaseProgram(l) \/ LinkTornDown(l) \/ LinkReleaseLink(l)
  \/ LinkAbort(l)

DetachStep(t) == DetachEnter(t) \/ DetachDeregister(t) \/ DetachFinish(t)

UnlinkStep(u) == \/ UnlinkByHandleReturn(u) \/ FindNext(u) \/ UnlinkMatch(u)
                 \/ UnlinkDetached(u)

TeardownStep == TeardownNext \/ TeardownRelease \/ TeardownDone \/ ProgramFree

BindingStep(b) ==
  \/ AttachProviderCheck(b) \/ ProviderAttachClient(b) \/ AttachProviderDone(b)
  \/ ClientDetachProvider(b) \/ ProviderDetachClient(b) \/ RundownComplete(b)

InvokeStep(v) == InvokeProgram(v) \/ InvokeEnd(v)

Next ==
  \/ \E l \in Links : LinkProgram(l) \/ LinkStep(l) \/ CloseLinkHandle(l)
  \/ \E t \in Threads : DetachStep(t)
  \/ \E u \in Unlinkers :
       UnlinkStep(u) \/ UnlinkByData(u) \/ \E l \in Links : UnlinkByHandle(u, l)
  \/ CloseProgramHandle \/ TeardownStep
  \/ ProviderRegister \/ ProviderDeregister \/ ProviderGone
  \/ \E b \in Bindings :
       BindingStep(b) \/ \E v \in Invokers : InvokeBegin(v, b)
  \/ \E v \in Invokers : InvokeStep(v)

Spec == Init /\ [][Next]_vars

\* Started calls keep running and invocations end; nobody has to start a
\* request, load a provider or close a handle.
Fairness ==
  /\ \A l \in Links : WF_vars(LinkStep(l))
  /\ \A t \in Threads : WF_vars(DetachStep(t))
  /\ \A u \in Unlinkers : WF_vars(UnlinkStep(u))
  /\ \A b \in Bindings : WF_vars(BindingStep(b))
  /\ \A v \in Invokers : WF_vars(InvokeStep(v))
  /\ WF_vars(TeardownStep)

FairSpec == Spec /\ Fairness

-----------------------------------------------------------------------------
(* Properties.                                                              *)

\* invoke_batch reads link->program without a lock and holds no reference: an
\* invocation still finds a live link, its program and memory not yet freed,
\* whatever unlink, handle close or provider unload runs beside it.
InvocationSafe ==
  \A v \in Invokers : invoking[v] # NoBinding =>
    /\ refs[invoking[v][1]] > 0
    /\ uses[v] # "null"
    /\ uses[v] = "program" => program_phase # "freed"

\* "The link is now detached from the attach provider. Program can no longer be
\* invoked.": a detached link has no binding, no invocation and no program.
DetachedIsQuiet ==
  \A l \in Links : state[l] = "detached" =>
    /\ NoBindings(l) /\ nmr[l] = "none"
    /\ ~program_set[l]
    /\ \A v \in Invokers : invoking[v] = NoBinding \/ invoking[v][1] # l

\* The program's list holds exactly the links that point to the program, once
\* each, so a program that left zero_ref_count is reachable from no link.
ListMatchesLinks ==
  /\ \A l \in Links :
       Cardinality({i \in DOMAIN links : links[i] = l}) =
         IF program_set[l] THEN 1 ELSE 0
  /\ program_phase \in {"retired", "freed"} => links = <<>>

\* The holders of a reference on link l: its request, its handle, the program's
\* list, detach calls past their check, unlink requests and the teardown loop.
RequestHolds(l) == lpc[l] \notin {"idle", "create", "abort", "done"}
Holders(l) ==
  (IF RequestHolds(l) THEN 1 ELSE 0)
  + (IF link_handle[l] THEN 1 ELSE 0)
  + (IF program_set[l] THEN 1 ELSE 0)
  + Cardinality({t \in Threads : dlink[t] = l /\ dstep[t] \in {"deregister", "wait"}})
  + Cardinality({u \in Unlinkers : uhold[u] = l})
  + (IF dlink[Teardown] = l THEN 1 ELSE 0)

\* The reference count of a link is the number of its holders, so a link is
\* freed when, and only when, its last user lets go.
RefCountExact == \A l \in Links : refs[l] = Holders(l)

\* The provider reads the attach parameters through the link's client data,
\* which detach_program and _ebpf_link_free release: never while a binding of
\* the link exists.
ClientDataLive ==
  \A b \in Bindings : phase[b] # "none" => client_data[b[1]]

\* The program's list, the references and the client data of the links agree with
\* what threads and bindings hold, and a detached link is quiet.
LinkInv == TypeOK /\ ListMatchesLinks /\ RefCountExact /\ ClientDataLive /\ DetachedIsQuiet

\* Releasing the last reference of a program ends: detach_links leaves its loop
\* although other threads may be detaching the same links, and the program is
\* freed.  An unlink request returns.
CallsReturn ==
  /\ program_refs = 0 ~> program_phase = "freed"
  /\ \A u \in Unlinkers : upc[u] # "idle" ~> upc[u] = "done"
==============================================================================
