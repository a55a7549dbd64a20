---------------------------- MODULE NetEbpfExtLoad ----------------------------
(***************************************************************************)
(* Loading and unloading the netebpfext driver.  DriverEntry acquires its  *)
(* resources one after another, each of which may fail; a failed load and  *)
(* an unload give them back.  Hook and program information clients attach  *)
(* as soon as a provider is registered, while the rest of the driver is    *)
(* still being set up or already being taken down.                         *)
(***************************************************************************)
EXTENDS Integers, Sequences, FiniteSets, SequencesExt

CONSTANT HookCount   \* hook providers of each type, [Types -> Nat]

Types == {"xdp", "bind", "sock_addr", "sock_ops"}
TypeOrder == <<"xdp", "bind", "sock_addr", "sock_ops">>

LoadConstants == HookCount \in [Types -> Nat \ {0}]

VARIABLES
  pc,          \* the next step of the load, or "loaded", "undo", "gone"
  todo,        \* the steps of the unload or of the undo that remain
  resources,   \* what was acquired and not given back
  registered,  \* types whose _net_ebpf_*_providers_registered flag is set
  clients,     \* hook clients attached, with their filters: pairs <<type, i>>
  info,        \* types whose program information provider has a client
  failed,      \* the load failed
  stuck        \* WFP objects whose release was asked for and refused

vars == <<pc, todo, resources, registered, clients, info, failed, stuck>>

Hook(t, i) == <<"hook", t, i>>
Info(t) == <<"info", t, 0>>
Callout(t) == <<"callout", t, 0>>
One(r) == <<r, "driver", 0>>
Simple == {"trace", "device_init", "device", "ndis", "nbl_pool", "engine", "injection",
           "security", "blocked"}
AllHooks == UNION {{<<t, i>> : i \in 1..HookCount[t]} : t \in Types}
AllResources ==
  {One(r) : r \in Simple} \cup {Info(t) : t \in Types} \cup {Callout(t) : t \in Types}
    \cup {Hook(h[1], h[2]) : h \in AllHooks}

Has(r) == r \in resources

TypeOK ==
  /\ resources \subseteq AllResources /\ registered \subseteq Types
  /\ clients \subseteq AllHooks /\ info \subseteq Types /\ failed \in BOOLEAN
  /\ stuck \subseteq AllResources \ resources

Init ==
  /\ pc = <<"trace", 0>> /\ todo = <<>>
  /\ resources = {} /\ registered = {} /\ clients = {} /\ info = {} /\ failed = FALSE
  /\ stuck = {}

-----------------------------------------------------------------------------
(* What is undone, as the sequence of steps in the order of the code. *)

\* net_ebpf_ext_*_unregister_providers: the hook providers, then the program
\* information provider, then what the callbacks of sock_addr used.
UnregisterSteps(t) ==
  [i \in 1..HookCount[t] |-> Hook(t, i)] \o <<Info(t)>>
    \o (IF t = "sock_addr" THEN <<One("blocked"), One("security")>> ELSE <<>>)

\* net_ebpf_ext_unregister_providers for the types whose flag is set.
UnregisterProviders(flags) ==
  FlattenSeq([i \in 1..Len(TypeOrder) |->
    IF TypeOrder[i] \in flags THEN UnregisterSteps(TypeOrder[i]) ELSE <<>>])

\* net_ebpf_extension_uninitialize_wfp_components: closing the engine deletes
\* the filters of its session; the callouts are unregistered after that.
UninitializeWfp ==
  <<One("engine")>> \o [i \in 1..Len(TypeOrder) |-> Callout(TypeOrder[i])]
    \o <<One("injection")>>

\* net_ebpf_ext_uninitialize_ndis_handles
UninitializeNdis == <<One("nbl_pool"), One("ndis")>>

UninitializeObjects_WfpFirst(flags) ==
  UninitializeWfp \o UnregisterProviders(flags) \o UninitializeNdis
    \o <<One("trace"), One("device")>>

\* _net_ebpf_ext_driver_uninitialize_objects
UninitializeObjects(flags) ==
  UnregisterProviders(flags) \o UninitializeWfp \o UninitializeNdis
    \o <<One("trace"), One("device")>>

-----------------------------------------------------------------------------
(* DriverEntry and _net_ebpf_ext_driver_initialize_objects *)

\* A step of the load fails: what it undoes itself, then what DriverEntry undoes.
Fail(local) ==
  /\ pc' = <<"undo", 0>> /\ failed' = TRUE
  /\ todo' = local \o UninitializeObjects(registered)
  /\ UNCHANGED <<registered, clients, info, stuck>>

Proceed(next, acquired) ==
  /\ pc' = next /\ resources' = resources \cup acquired
  /\ UNCHANGED <<todo, clients, info, failed>>

\* The WFP objects: closing the engine, unregistering a callout and destroying
\* the injection handle report failures that are only logged.
MayBeRefused == {One("engine"), One("injection")} \cup {Callout(t) : t \in Types}

InitiateTrace ==
  /\ pc = <<"trace", 0>>
  /\ \/ Proceed(<<"device", 0>>, {One("trace")}) /\ UNCHANGED <<registered, stuck>>
     \/ Fail(<<>>) /\ UNCHANGED resources

\* WdfDriverCreate to WdfDeviceCreate.  When no name can be assigned the
\* WDFDEVICE_INIT is not freed.
CreateDevice ==
  /\ pc = <<"device", 0>>
  /\ \/ Proceed(<<"ndis", 0>>, {One("device")}) /\ UNCHANGED <<registered, stuck>>
     \/ Fail(<<>>) /\ UNCHANGED resources
     \/ Fail(<<>>) /\ resources' = resources \cup {One("device_init")}

\* net_ebpf_ext_initialize_ndis_handles frees the first handle when the pool
\* cannot be allocated.
InitializeNdis ==
  /\ pc = <<"ndis", 0>>
  /\ \/ Proceed(<<"wfp", 0>>, {One("ndis"), One("nbl_pool")})
        /\ UNCHANGED <<registered, stuck>>
     \/ Fail(<<>>) /\ UNCHANGED resources

\* net_ebpf_extension_initialize_wfp_components.  The status is ignored; a
\* failure undoes everything, the injection handle being the last that can fail,
\* and leaves what WFP refuses to release.  A callout that cannot be added is unregistered
\* again, and the status of that is what _net_ebpf_ext_register_wfp_callout
\* returns: missing are the callouts lost that way.
InitializeWfp ==
  /\ pc = <<"wfp", 0>>
  /\ \/ \E missing \in SUBSET Types :
          Proceed(<<"xdp", 0>>, {One("engine"), One("injection")}
                                  \cup {Callout(t) : t \in Types \ missing})
            /\ UNCHANGED stuck
     \/ /\ Proceed(<<"xdp", 0>>, {})
        /\ stuck' \in SUBSET (MayBeRefused \ {One("injection")})
  /\ UNCHANGED registered

Registering(t, i) == pc = <<t, i>>

\* The registration of type t that follows, or the end of DriverEntry.
After(t) ==
  LET k == CHOOSE n \in 1..Len(TypeOrder) : TypeOrder[n] = t
  IN  IF k = Len(TypeOrder) THEN <<"loaded", 0>> ELSE <<TypeOrder[k + 1], 0>>

\* The start of net_ebpf_ext_sock_addr_register_providers: the security
\* descriptor and the pre-allocated contexts of blocked connections.
PrepareSockAddr ==
  LET t == "sock_addr" IN
  /\ Registering(t, 0) /\ ~Has(One("blocked"))
  /\ \/ Proceed(pc, {One("security"), One("blocked")}) /\ UNCHANGED <<registered, stuck>>
     \/ \E got \in {{}, {One("security")}} :
          Fail(<<One("security")>>) /\ resources' = resources \cup got

\* net_ebpf_extension_program_info_provider_register for type t
RegisterInfo(t) ==
  /\ Registering(t, 0) /\ (t = "sock_addr" => Has(One("blocked")))
  /\ \/ Proceed(<<t, 1>>, {Info(t)}) /\ UNCHANGED <<registered, stuck>>
     \/ Fail(UnregisterSteps(t)) /\ UNCHANGED resources

\* net_ebpf_extension_hook_provider_register for hook i of type t.  The loop of
\* sock_addr goes on after a failure and returns the status of its last step.
RegisterHook(t, i) ==
  LET last == i = HookCount[t]
      next == IF last THEN After(t) ELSE <<t, i + 1>>
      done == IF last THEN registered \cup {t} ELSE registered
  IN  /\ Registering(t, i)
      /\ \/ Proceed(next, {Hook(t, i)}) /\ registered' = done /\ UNCHANGED stuck
         \/ /\ ~last /\ t = "sock_addr"
            /\ Proceed(next, {}) /\ registered' = done /\ UNCHANGED stuck
         \/ last /\ Fail(UnregisterSteps(t)) /\ UNCHANGED resources

-----------------------------------------------------------------------------
(* Clients and unload. *)

AddFilters_Unchecked(t) == TRUE

\* net_ebpf_extension_add_wfp_filters: begins a transaction of the engine and
\* adds filters for the callouts of the hook.
AddFilters(t) == Has(One("engine")) /\ Has(Callout(t))

\* The provider's attach callback: a work item is allocated from the device
\* object, then the filters are added.  A refused attach leaves nothing.
AttachHook(t, i) ==
  /\ Has(Hook(t, i)) /\ <<t, i>> \notin clients
  /\ ~(todo # <<>> /\ Head(todo) = Hook(t, i))
  /\ AddFilters(t)
  /\ clients' = clients \cup {<<t, i>>}
  /\ UNCHANGED <<pc, todo, resources, registered, info, failed, stuck>>

\* The client leaves of its own accord or because the provider deregisters.
DetachHook(t, i) ==
  /\ <<t, i>> \in clients /\ clients' = clients \ {<<t, i>>}
  /\ UNCHANGED <<pc, todo, resources, registered, info, failed, stuck>>

\* _net_ebpf_extension_program_info_provider_attach_client and its detach and
\* cleanup callbacks.
AttachInfo(t) ==
  /\ Has(Info(t)) /\ t \notin info /\ ~(todo # <<>> /\ Head(todo) = Info(t))
  /\ info' = info \cup {t}
  /\ UNCHANGED <<pc, todo, resources, registered, clients, failed, stuck>>

DetachInfo(t) ==
  /\ t \in info /\ info' = info \ {t}
  /\ UNCHANGED <<pc, todo, resources, registered, clients, failed, stuck>>

\* _net_ebpf_ext_driver_unload
Unload ==
  /\ pc = <<"loaded", 0>> /\ pc' = <<"undo", 0>>
  /\ todo' = UninitializeObjects(registered)
  /\ UNCHANGED <<resources, registered, clients, info, failed, stuck>>

Waits_Not(step) == FALSE

\* NmrDeregisterProvider returns pending while clients are attached.
Waits(step) ==
  \/ step[1] = "hook" /\ <<step[2], step[3]>> \in clients
  \/ step[1] = "info" /\ step[2] \in info

\* The next step of the teardown; a resource never acquired is skipped, and one
\* that WFP refuses to release is forgotten.
Undo ==
  /\ todo # <<>> /\ ~Waits(Head(todo))
  /\ stuck' \in {stuck, stuck \cup ({Head(todo)} \cap resources \cap MayBeRefused)}
  /\ resources' = resources \ {Head(todo)}
  /\ todo' = Tail(todo)
  /\ pc' = IF todo' = <<>> THEN <<"gone", 0>> ELSE pc
  /\ registered' = IF Head(todo)[1] = "info" THEN registered \ {Head(todo)[2]} ELSE registered
  /\ UNCHANGED <<clients, info, failed>>

Next ==
  \/ InitiateTrace \/ CreateDevice \/ InitializeNdis \/ InitializeWfp \/ PrepareSockAddr
  \/ \E t \in Types : RegisterInfo(t) \/ AttachInfo(t) \/ DetachInfo(t)
  \/ \E h \in AllHooks : \/ RegisterHook(h[1], h[2])
                         \/ AttachHook(h[1], h[2]) \/ DetachHook(h[1], h[2])
  \/ Unload \/ Undo

Spec == Init /\ [][Next]_vars

-----------------------------------------------------------------------------
\* What a client's callbacks use is there as long as the client is attached,
\* at every point of a load, of an undone load and of an unload: its provider,
\* the device object of the detach work item, the engine and the callout its
\* filters belong to, and the tables and handles of its classify callback.
ClientsAreServed ==
  /\ TypeOK
  /\ \A c \in clients :
       /\ Has(Hook(c[1], c[2])) /\ Has(One("device")) /\ Has(One("engine"))
       /\ Has(Callout(c[1]))
       /\ c[1] = "xdp" => Has(One("nbl_pool")) /\ Has(One("injection"))
       /\ c[1] = "sock_addr" => Has(One("blocked")) /\ Has(One("security"))
  /\ \A t \in info : Has(Info(t))

\* Once a failed load or an unload is over nothing is left: no provider, no
\* callout, no client, no handle.  (Exceptions are the WDFDEVICE_INIT that is not
\* freed when the device cannot be named, and the WFP objects in stuck: they
\* were asked to go and did not, and the driver unloads under them.)
NothingLeftBehind ==
  pc = <<"gone", 0>> =>
    /\ resources \subseteq {One("device_init")} /\ registered = {}
    /\ clients = {} /\ info = {}
=============================================================================
