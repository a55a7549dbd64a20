---------------------------- MODULE MCFrontEnds ----------------------------
(***************************************************************************)
(* One run for what programs and maps are reached through: the user        *)
(* library with the requests of the execution context, its calls on the    *)
(* elements of a map, and the hooks and the load of the network extension. *)
(* Each behaviour is one of one component, which `component` names; the    *)
(* variables of the others keep their initial values.                      *)
(***************************************************************************)
EXTENDS EbpfApi, TLC

CONSTANTS
  \* EbpfMapClient
  Keys, MaxEntriesPerBatch, MaxCount, MapMaxCalls, MaxElements, NoKey,
  \* NetEbpfExtSockAddr
  Endpoints, SockAddrClients, AttachType, V4Ips, V6Ips, EXPIRY_TIME,
  LOW_MEMORY_CONNECTION_CONTEXT_COUNT, StartTimes, TimeModulus, MaxTime, MaxConnects,
  \* NetEbpfExtXdp
  Packets, Interfaces, XdpPaths, MaxNbls, Deltas, MaxLength,
  \* NetEbpfExtLoad
  HookCount

VARIABLES
  component,   \* the component this behaviour is one of
  \* EbpfMapClient
  bucket, map_call, map_calls, elements,
  \* NetEbpfExtSockAddr
  loaded, sock_addr_client, handles, blocked_context_table, blocked_context_lru_list,
  blocked_context_count, low_memory_free, low_memory_blocked_context_list,
  low_memory_blocked_context_count, now, conn, connects,
  \* NetEbpfExtXdp
  xdp_client, xdp_call, nbl,
  \* NetEbpfExtLoad
  pc, todo, resources, registered, clients, info, failed, stuck

map_vars == <<bucket, map_call, map_calls, elements>>
sock_addr_vars == <<loaded, sock_addr_client, handles, blocked_context_table,
  blocked_context_lru_list, blocked_context_count, low_memory_free,
  low_memory_blocked_context_list, low_memory_blocked_context_count, now, conn, connects>>
xdp_vars == <<xdp_client, xdp_call, nbl>>
load_vars == <<pc, todo, resources, registered, clients, info, failed, stuck>>

Client == INSTANCE EbpfMapClient WITH
  MaxCalls <- MapMaxCalls, call <- map_call, calls <- map_calls
SockAddr == INSTANCE NetEbpfExtSockAddr WITH
  Clients <- SockAddrClients, client <- sock_addr_client
Xdp == INSTANCE NetEbpfExtXdp WITH
  Paths <- XdpPaths, client <- xdp_client, call <- xdp_call
Load == INSTANCE NetEbpfExtLoad

CONSTANTS path_a, path_b, no_path

ASSUME ConstantsFit ==
  /\ CoreConstants /\ ApiConstants /\ SockAddr!SockAddrConstants
  /\ Xdp!XdpConstants /\ Load!LoadConstants

\* A file with one program and a map of maps that is pinned by name, and the
\* inner map of that.
NestedMapDefs == <<2, 1>>
NestedInner == <<2, 0>>
NestedPinPath == <<path_a, no_path>>
OneProgramPath == <<path_b>>

MCAttachType == [k \in SockAddrClients |-> k]

MCPaths == {<<"sep">>, <<"x">>, <<"x", "sep">>, <<"sep", "x", "sep", "x">>}
MCDeltas == {-1, 1}

MCHookCount == [xdp |-> 1, bind |-> 1, sock_addr |-> 2, sock_ops |-> 1]

\* Processes, keys and connections are told apart only by identity; the cfg
\* writes them with the same model values, so that one permutation does for all.
Symmetry == Permutations(Clients)

MCInit ==
  /\ component \in {"api", "map_client", "sock_addr", "xdp", "load"}
  /\ Init /\ Client!Init /\ SockAddr!Init /\ Xdp!Init /\ Load!Init
  /\ component # "sock_addr" => now = 0

MCNext ==
  \/ /\ component = "api"
     /\ UNCHANGED <<component, map_vars, sock_addr_vars, xdp_vars, load_vars>>
     /\ Next
  \/ /\ component = "map_client"
     /\ UNCHANGED <<component, vars, sock_addr_vars, xdp_vars, load_vars>>
     /\ Client!Next
  \/ /\ component = "sock_addr"
     /\ UNCHANGED <<component, vars, map_vars, xdp_vars, load_vars>>
     /\ SockAddr!Next
  \/ /\ component = "xdp"
     /\ UNCHANGED <<component, vars, map_vars, sock_addr_vars, load_vars>>
     /\ Xdp!Next
  \/ /\ component = "load"
     /\ UNCHANGED <<component, vars, map_vars, sock_addr_vars, xdp_vars>>
     /\ Load!Next

MCSpec ==
  MCInit /\ [][MCNext]_<<component, vars, map_vars, sock_addr_vars, xdp_vars, load_vars>>

-----------------------------------------------------------------------------
\* A batch call changes the entries of its array once each and in order, and a
\* batch lookup returns every key that was in the map all the time (ebpf_api.cpp).
BatchExact == component = "map_client" => Client!BatchExact

\* The table of blocked connections, its LRU list and the low-memory pool agree
\* (net_ebpf_ext_sock_addr.c).
SockAddrInv == component = "sock_addr" => SockAddr!SockAddrInv

\* The action taken at the AUTH layers is the last verdict of the program
\* (net_ebpf_extension_sock_addr_authorize_connection_classify).
VerdictEnforced == component = "sock_addr" => SockAddr!VerdictEnforced

\* Every NBL is freed once by the routine that belongs to it, and a packet goes on
\* exactly once (net_ebpf_ext_xdp.c).
PacketsOwned == component = "xdp" => Xdp!NblOwned /\ Xdp!DeliveredOnce

\* While a program runs, its data pointers delimit the packet its verdict will be
\* applied to; a bind program is given the base name of the application
\* (net_ebpf_ext_xdp.c, net_ebpf_ext_bind.c).
ProgramSeesItsPacket == component = "xdp" => Xdp!ProgramSeesItsPacket

\* What a client's callbacks use is there as long as it is attached, and a failed
\* load or an unload leaves nothing behind (net_ebpf_ext.c, net_ebpf_ext_drv.c).
ClientsAreServed == component = "load" => Load!ClientsAreServed /\ Load!NothingLeftBehind
=============================================================================
