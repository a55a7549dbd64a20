------------------------- MODULE NetEbpfExtSockAddr -------------------------
(***************************************************************************)
(* The CGROUP_SOCK_ADDR hook of the network extension                      *)
(* (src/netebpfext/net_ebpf_ext_sock_addr.c).  A connection passes two     *)
(* callouts of the Windows Filtering Platform.  At CONNECT_REDIRECT the    *)
(* program runs and may change the destination; a REJECT verdict is only   *)
(* remembered there, as a "blocked connection context" in a shared table.  *)
(* At AUTH_CONNECT a second callout looks the connection up and blocks it  *)
(* when a context is found.  The table is filled under memory pressure     *)
(* from a pre-allocated pool, and purged of old entries on every insert.   *)
(*                                                                         *)
(* An address stands for IP address and port together.  A V4Ips address    *)
(* with family "v6" is an IPv4-mapped IPv6 address.  All clients are       *)
(* attached for the compartment of the connections.                        *)
(***************************************************************************)
EXTENDS Integers, Sequences, FiniteSets, FiniteSetsExt, SequencesExt

CONSTANTS
  Endpoints,      \* transport endpoints; each makes one connection at a time
  Clients,        \* hook clients (attached programs), at most one per provider
  AttachType,     \* [Clients -> {"connect4", "connect6", "accept4", "accept6"}]
  V4Ips, V6Ips,   \* addresses
  EXPIRY_TIME, LOW_MEMORY_CONNECTION_CONTEXT_COUNT,
  StartTimes,     \* interrupt times at which the driver may be loaded
  TimeModulus,    \* 2^64 in the code: timestamps are unsigned
  MaxTime,        \* bound on the clock
  MaxConnects     \* bound on the number of classified connections

SockAddrConstants ==
  /\ EXPIRY_TIME \in Nat \ {0} /\ MaxTime + EXPIRY_TIME < TimeModulus
  /\ LOW_MEMORY_CONNECTION_CONTEXT_COUNT \in Nat
  /\ StartTimes \subseteq 0..MaxTime

VARIABLES
  loaded,     \* the providers are registered
  client,     \* [Clients -> state of the hook client and its filter context]
  handles,    \* clients whose redirect handle exists
  blocked_context_table, blocked_context_lru_list, blocked_context_count,
  low_memory_free, \* length of low_memory_free_context_list
  low_memory_blocked_context_list, low_memory_blocked_context_count,
  now,        \* KeQueryInterruptTime
  conn,       \* [Endpoints -> the classify call or connection in progress]
  connects    \* connections classified so far

table == <<blocked_context_table, blocked_context_lru_list, blocked_context_count,
           low_memory_free, low_memory_blocked_context_list,
           low_memory_blocked_context_count>>
vars == <<loaded, client, handles, table, now, conn, connects>>

NoDest == [family |-> "none", ip |-> "none"]
Dests == [family : {"v4"}, ip : V4Ips] \cup [family : {"v6"}, ip : V4Ips \cup V6Ips]

\* The part of net_ebpf_extension_connection_context_t before its timestamp.
ContextKeys == [endpoint : Endpoints, dest : Dests \cup {NoDest}]
Contexts == [key : ContextKeys, timestamp : 0..MaxTime]

Verdicts == {"reject", "proceed", "other"}

\* decided is the program's last verdict; exempt and lapsed note the cases in
\* which VerdictEnforced does not ask for it (see there).
IdleConn ==
  [pc |-> "idle", dest |-> NoDest, remote |-> NoDest, pending |-> {},
   client |-> {}, entered |-> FALSE, ctx |-> NoDest, verdict |-> "reject", buffers |-> 0,
   redirect_context |-> FALSE, timestamp |-> 0,
   decided |-> "none", exempt |-> FALSE, lapsed |-> FALSE, action |-> "none"]

ConnStates == {"idle", "redirect", "invoke", "program", "finish", "insert",
               "connected", "accept"}

TypeOK ==
  /\ loaded \in BOOLEAN
  /\ client \in [Clients -> [state : {"none", "attached", "detached", "rundown"},
                             calls : Nat]]
  /\ handles \subseteq Clients
  /\ blocked_context_table \subseteq ContextKeys
  /\ Range(blocked_context_lru_list) \subseteq Contexts
  /\ Range(low_memory_blocked_context_list) \subseteq Contexts
  /\ blocked_context_count \in Int /\ low_memory_blocked_context_count \in Int
  /\ low_memory_free \in 0..LOW_MEMORY_CONNECTION_CONTEXT_COUNT
  /\ now \in 0..MaxTime /\ connects \in 0..MaxConnects
  /\ conn \in [Endpoints ->
       [pc : ConnStates, dest : Dests \cup {NoDest}, remote : Dests \cup {NoDest},
        pending : SUBSET Clients, client : SUBSET Clients, entered : BOOLEAN,
        ctx : Dests \cup {NoDest}, verdict : Verdicts, buffers : Int,
        redirect_context : BOOLEAN, timestamp : 0..MaxTime,
        decided : Verdicts \cup {"none"},
        exempt : BOOLEAN, lapsed : BOOLEAN, action : {"none", "PERMIT", "BLOCK"}]]

Init ==
  /\ loaded = FALSE
  /\ client = [k \in Clients |-> [state |-> "none", calls |-> 0]]
  /\ handles = {}
  /\ blocked_context_table = {} /\ blocked_context_lru_list = <<>>
  /\ blocked_context_count = 0
  /\ low_memory_free = 0 /\ low_memory_blocked_context_list = <<>>
  /\ low_memory_blocked_context_count = 0
  /\ now \in StartTimes
  /\ conn = [e \in Endpoints |-> IdleConn] /\ connects = 0

Tick == now < MaxTime /\ now' = now + 1 /\ UNCHANGED <<loaded, client, handles, table, conn, connects>>

-----------------------------------------------------------------------------
(* The blocked connection contexts, under their lock. *)

Blocked == [table |-> blocked_context_table, lru |-> blocked_context_lru_list,
            count |-> blocked_context_count, free |-> low_memory_free,
            low |-> low_memory_blocked_context_list,
            lowcount |-> low_memory_blocked_context_count]

SetBlocked(b) ==
  /\ blocked_context_table' = b.table /\ blocked_context_lru_list' = b.lru
  /\ blocked_context_count' = b.count /\ low_memory_free' = b.free
  /\ low_memory_blocked_context_list' = b.low
  /\ low_memory_blocked_context_count' = b.lowcount

KeysOf(list) == {list[i].key : i \in DOMAIN list}
Without(list, key) == SelectSeq(list, LAMBDA x : x.key # key)

HasContext(b, key) == key \in b.table \/ key \in KeysOf(b.low)

FindAndRemove_KeepsTable(b, key) ==
  IF key \in b.table
    THEN [b EXCEPT !.lru = Without(@, key), !.count = @ - 1]
    ELSE b

\* _net_ebpf_ext_find_and_remove_connection_context_locked
FindAndRemove(b, key) ==
  IF key \in b.table
    THEN [b EXCEPT !.table = @ \ {key}, !.lru = Without(@, key), !.count = @ - 1]
  ELSE IF key \in KeysOf(b.low)
    THEN [b EXCEPT !.low = Without(@, key), !.free = @ + 1, !.lowcount = @ - 1]
    ELSE b

Expired_Younger(x) == x.timestamp >= (now - EXPIRY_TIME) % TimeModulus

\* The clock counts from boot; the subtraction is unsigned.
Expired(x) == x.timestamp <= (now - EXPIRY_TIME) % TimeModulus

\* Entries leave from the tail of a list up to the first one that is fresh.
Purged(list) ==
  LET fresh == {i \in DOMAIN list : ~Expired(list[i])}
  IN  IF fresh = {} THEN <<>> ELSE SubSeq(list, 1, Max(fresh))

\* _net_ebpf_ext_purge_blocked_connect_contexts(false)
PurgeStale(b) ==
  LET lru == Purged(b.lru)
      low == Purged(b.low)
  IN  [table |-> b.table \ (KeysOf(b.lru) \ KeysOf(lru)), lru |-> lru,
       count |-> b.count - (Len(b.lru) - Len(lru)),
       low |-> low, lowcount |-> b.lowcount - (Len(b.low) - Len(low)),
       free |-> b.free + (Len(b.low) - Len(low))]

\* _net_ebpf_ext_purge_blocked_connect_contexts(true): low-memory entries are freed.
PurgeAll(b) ==
  [table |-> b.table \ KeysOf(b.lru), lru |-> <<>>, count |-> b.count - Len(b.lru),
   low |-> <<>>, lowcount |-> b.lowcount - Len(b.low), free |-> b.free]

\* _net_ebpf_ext_insert_connection_context_to_low_memory_list, which reads the
\* clock again, under the lock; no room: unchanged.
InsertLowMemory(b, x) ==
  IF b.free = 0 THEN b
  ELSE [b EXCEPT !.free = @ - 1, !.low = <<[x EXCEPT !.timestamp = now]>> \o @,
                 !.lowcount = @ + 1]

\* _net_ebpf_ext_insert_connection_context_to_list without the purge;
\* allocated: the table could allocate an element.
InsertContext(b, x, allocated) ==
  LET c == FindAndRemove(b, x.key)
  IN  IF allocated
        THEN [c EXCEPT !.table = @ \cup {x.key}, !.lru = <<x>> \o @, !.count = @ + 1]
        ELSE InsertLowMemory(c, x)

-----------------------------------------------------------------------------
(* Registration of the providers, and hook clients. *)

\* net_ebpf_ext_sock_addr_register_providers.  When an allocation or a
\* registration fails everything is undone and nothing is left.
RegisterProviders ==
  /\ ~loaded /\ loaded' = TRUE
  /\ low_memory_free' = LOW_MEMORY_CONNECTION_CONTEXT_COUNT
  /\ UNCHANGED <<client, handles, blocked_context_table, blocked_context_lru_list,
                 blocked_context_count, low_memory_blocked_context_list,
                 low_memory_blocked_context_count, now, conn, connects>>

\* _net_ebpf_ext_uninitialize_blocked_connection_contexts
Uninitialized(b) == [PurgeAll(b) EXCEPT !.free = 0]

\* net_ebpf_ext_sock_addr_unregister_providers: deregistration waits for the
\* clients.
UnregisterProviders ==
  /\ loaded /\ \A k \in Clients : client[k].state = "none"
  /\ loaded' = FALSE
  /\ SetBlocked(Uninitialized(Blocked))
  /\ conn' = [e \in Endpoints |-> [conn[e] EXCEPT !.lapsed = TRUE]]
  /\ UNCHANGED <<client, handles, now, connects>>

IsConnect(k) == AttachType[k] \in {"connect4", "connect6"}

\* _net_ebpf_extension_sock_addr_on_client_attach; only clients of the
\* INET*_CONNECT types get a redirect handle.  A failed attach destroys it.
OnClientAttach(k) ==
  /\ loaded /\ client[k].state = "none"
  /\ client' = [client EXCEPT ![k].state = "attached"]
  /\ handles' = IF IsConnect(k) THEN handles \cup {k} ELSE handles
  /\ UNCHANGED <<loaded, table, now, conn, connects>>

\* _net_ebpf_extension_sock_addr_on_client_detach: filters deleted, redirect
\* handle destroyed, client_detached set.  Nothing waits for a classify call
\* that already passed its check; see RedirectInvoke.
OnClientDetach(k) ==
  /\ client[k].state = "attached"
  /\ client' = [client EXCEPT ![k].state = "detached"]
  /\ handles' = handles \ {k}
  /\ UNCHANGED <<loaded, table, now, conn, connects>>

\* The detach work item starts the rundown, and completes when all calls left.
StartRundown(k) ==
  /\ client[k].state = "detached"
  /\ client' = [client EXCEPT ![k].state = "rundown"]
  /\ UNCHANGED <<loaded, handles, table, now, conn, connects>>

\* WFP gives up a deleted filter only when no classify call uses it.
DetachComplete(k) ==
  /\ client[k].state = "rundown" /\ client[k].calls = 0
  /\ \A e \in Endpoints : k \notin conn[e].pending \cup conn[e].client
  /\ client' = [client EXCEPT ![k].state = "none"]
  /\ UNCHANGED <<loaded, handles, table, now, conn, connects>>

HasFilter(k) == client[k].state = "attached"

-----------------------------------------------------------------------------
(* net_ebpf_extension_sock_addr_redirect_connection_classify *)

SetConn(e, c) == conn' = [conn EXCEPT ![e] = c]

V4Mapped(d) == d.family = "v6" /\ d.ip \in V4Ips

\* INET4_CONNECT has filters at both redirect layers, INET6_CONNECT at V6 only.
RedirectFilters(d) ==
  {k \in Clients : HasFilter(k) /\ \/ AttachType[k] = "connect4"
                                   \/ AttachType[k] = "connect6" /\ d.family = "v6"}

\* A new connect, or the send of a connected UDP socket, which is classified at
\* the redirect layer a second time before it reaches AUTH_CONNECT.  The
\* callouts run one after another; sublayers of one weight have no fixed order.
StartRedirect(e, d) ==
  LET c == conn[e]
  IN  /\ \/ c.pc = "idle"
         \/ c.pc = "connected" /\ d = c.dest /\ c.remote = c.dest
      /\ connects < MaxConnects /\ connects' = connects + 1
      /\ RedirectFilters(d) # {}
      /\ SetConn(e, [IdleConn EXCEPT
           !.pc = "redirect", !.dest = d, !.remote = d,
           !.pending = RedirectFilters(d),
           !.exempt = V4Mapped(d) \/ Cardinality(RedirectFilters(d)) > 1])
      /\ UNCHANGED <<loaded, client, handles, table, now>>

\* _net_ebpf_extension_sock_addr_should_invoke_ebpf_program
ShouldInvoke(k, d) ==
  \/ d.family = "v4"
  \/ AttachType[k] = IF V4Mapped(d) THEN "connect4" ELSE "connect6"

\* An exit before the fields are copied leaves the context zeroed.
RedirectBegin(e, k) ==
  LET c == conn[e]
      call == [c EXCEPT !.client = {k}, !.pending = @ \ {k}]
      to(pc, verdict, ctx) ==
        SetConn(e, [call EXCEPT !.pc = pc, !.verdict = verdict, !.ctx = ctx])
  IN  /\ c.pc = "redirect" /\ k \in c.pending
      /\ \/ \* Another callout took FWPS_RIGHT_ACTION_WRITE away.
            to("finish", "proceed", NoDest) /\ UNCHANGED client
         \/ /\ client[k].state # "attached"
            /\ to("finish", "proceed", NoDest) /\ UNCHANGED client
         \/ \* Checked before the detach, but the rundown has started.
            /\ client[k].state = "rundown"
            /\ to("finish", "reject", c.dest) /\ UNCHANGED client
         \/ \* Before the detach, or checked before it and entered after it.
            /\ client[k].state \in {"attached", "detached"}
            /\ SetConn(e, [call EXCEPT !.pc = "invoke", !.entered = TRUE, !.ctx = c.dest])
            /\ client' = [client EXCEPT ![k].calls = @ + 1]
      /\ UNCHANGED <<loaded, handles, table, now, connects>>

\* The program sees a v4-mapped destination as an IPv4 one.
ProgramView(d) == IF V4Mapped(d) THEN [d EXCEPT !.family = "v4"] ELSE d

\* A client that was detached since has destroyed the redirect handle the call
\* asks WFP about: the answer may then be either one.
RedirectInvoke(e) ==
  LET c == conn[e]
      k == CHOOSE j \in c.client : TRUE
  IN  /\ c.pc = "invoke"
      /\ \/ \* Redirected by this filter before, or an address of another type.
            SetConn(e, [c EXCEPT !.pc = "finish", !.verdict = "proceed"])
         \/ \* FwpsAcquireClassifyHandle failed.
            /\ ShouldInvoke(k, c.dest)
            /\ SetConn(e, [c EXCEPT !.pc = "finish"])
         \/ /\ ShouldInvoke(k, c.dest)
            /\ SetConn(e, [c EXCEPT !.pc = "program", !.ctx = ProgramView(@)])
      /\ UNCHANGED <<loaded, client, handles, table, now, connects>>

\* _ebpf_sock_addr_set_redirect_context replaces an earlier buffer.
SetRedirectContext(e) ==
  LET c == conn[e]
  IN  /\ c.pc = "program" /\ c.buffers <= 1
      /\ SetConn(e, [c EXCEPT !.redirect_context = TRUE,
                              !.buffers = IF c.redirect_context THEN @ ELSE @ + 1])
      /\ UNCHANGED <<loaded, client, handles, table, now, connects>>

FreeContext(c) == [c EXCEPT !.redirect_context = FALSE,
                            !.buffers = IF c.redirect_context THEN @ - 1 ELSE @]

\* Ownership of the redirect context moves to WFP with the connect request.
TransferContext(c) == FreeContext(c)

\* _net_ebpf_ext_process_redirect_verdict.  acquired: the layer data could be
\* made writable and no other callout redirected the connection locally.
ProcessRedirectVerdict(c, acquired) ==
  IF c.ctx # c.dest /\ acquired
    THEN TransferContext([c EXCEPT !.remote = c.ctx])
    ELSE c

\* The program returns; ip is the destination it leaves in its context.
\* A failed invocation leaves the verdict REJECT.
ProgramReturn(e, v, ip, acquired) ==
  LET c == conn[e]
      back == [c EXCEPT !.pc = "finish", !.verdict = v, !.decided = v,
                        !.exempt = @ \/ (ip # c.dest.ip /\ ~(v = "proceed" /\ acquired))]
  IN  /\ c.pc = "program"
      /\ ip \in IF c.ctx.family = "v4" THEN V4Ips ELSE V6Ips
      /\ SetConn(e, IF v = "proceed"
                      THEN ProcessRedirectVerdict(
                             [back EXCEPT !.ctx = [family |-> c.dest.family, ip |-> ip]],
                             acquired)
                      ELSE [back EXCEPT !.ctx.ip = ip])
      /\ UNCHANGED <<loaded, client, handles, table, now, connects>>

KeyOf(e, d) == [endpoint |-> e, dest |-> d]

\* The Exit path: the rundown is left and the redirect context freed.
LeaveClassify(e, c) ==
  /\ SetConn(e, [FreeContext(c) EXCEPT
       !.pc = IF c.pending = {} THEN "connected" ELSE "redirect",
       !.client = {}, !.entered = FALSE, !.ctx = NoDest, !.verdict = "reject"])
  /\ client' = [k \in Clients |-> [client[k] EXCEPT
                  !.calls = IF c.entered /\ k \in c.client THEN @ - 1 ELSE @]]

\* Not rejected: a stale context of the connection is removed.  Mutant: it stays.
RedirectPermit_LeavesContext(e) ==
  LET c == conn[e]
  IN  /\ c.pc = "finish" /\ c.verdict # "reject"
      /\ UNCHANGED table
      /\ LeaveClassify(e, c)
      /\ UNCHANGED <<loaded, handles, now, connects>>

RedirectPermit(e) ==
  LET c == conn[e]
  IN  /\ c.pc = "finish" /\ c.verdict # "reject"
      /\ SetBlocked(FindAndRemove(Blocked, KeyOf(e, c.ctx)))
      /\ LeaveClassify(e, c)
      /\ UNCHANGED <<loaded, handles, now, connects>>

\* Rejected: the timestamp is read before the lock is taken.
RedirectStamp(e) ==
  LET c == conn[e]
  IN  /\ c.pc = "finish" /\ c.verdict = "reject"
      /\ SetConn(e, [c EXCEPT !.pc = "insert", !.timestamp = now])
      /\ UNCHANGED <<loaded, client, handles, table, now, connects>>

RedirectInsert(e, allocated) ==
  LET c == conn[e]
      x == [key |-> KeyOf(e, c.ctx), timestamp |-> c.timestamp]
      b == InsertContext(Blocked, x, allocated)
  IN  /\ c.pc = "insert"
      /\ SetBlocked(PurgeStale(b))
      /\ LeaveClassify(e, [c EXCEPT !.lapsed = \/ ~HasContext(b, x.key)
                                                \/ now < EXPIRY_TIME])
      /\ UNCHANGED <<loaded, handles, now, connects>>

-----------------------------------------------------------------------------
(* net_ebpf_extension_sock_addr_authorize_connection_classify *)

\* The layer a connection to d is authorized at, and the filters there.
AuthFilters(d) ==
  {k \in Clients : HasFilter(k) /\
     AttachType[k] = IF d.ip \in V4Ips THEN "connect4" ELSE "connect6"}

\* A re-authorization of a connection (FWP_CONDITION_FLAG_IS_REAUTHORIZE) is
\* permitted without a look at the table and changes nothing.
AuthorizeConnection(e) ==
  LET c == conn[e]
      key == KeyOf(e, ProgramView(c.remote))
      over(action) == SetConn(e, [IdleConn EXCEPT
        !.decided = c.decided, !.action = action,
        !.exempt = c.exempt, !.lapsed = c.lapsed \/ now - c.timestamp >= EXPIRY_TIME])
  IN  /\ c.pc = "connected"
      /\ \/ \* The filters are gone, and no callout runs.
            /\ AuthFilters(c.remote) = {}
            /\ SetConn(e, IdleConn)
            /\ UNCHANGED table
         \/ /\ AuthFilters(c.remote) # {}
            /\ over(IF HasContext(Blocked, key) THEN "BLOCK" ELSE "PERMIT")
            /\ SetBlocked(FindAndRemove(Blocked, key))
      /\ UNCHANGED <<loaded, client, handles, now, connects>>

(* net_ebpf_extension_sock_addr_authorize_recv_accept_classify *)

\* The exits before the program (client detached, rundown started, another
\* compartment, a re-authorization) change nothing and take no action.
AcceptBegin(e, k) ==
  LET c == conn[e]
  IN  /\ c.pc = "idle" /\ ~IsConnect(k) /\ HasFilter(k)
      /\ connects < MaxConnects /\ connects' = connects + 1
      /\ SetConn(e, [IdleConn EXCEPT !.pc = "accept", !.client = {k},
                                         !.entered = TRUE])
      /\ client' = [client EXCEPT ![k].calls = @ + 1]
      /\ UNCHANGED <<loaded, handles, table, now>>

\* Only PROCEED permits; "reject" also stands for a failed invocation.
AcceptAction(v) == IF v = "proceed" THEN "PERMIT" ELSE "BLOCK"

AcceptEnd(e, v) ==
  LET c == conn[e]
  IN  /\ c.pc = "accept"
      /\ SetConn(e, [IdleConn EXCEPT !.decided = v,
                        !.action = AcceptAction(v), !.exempt = v = "other"])
      /\ client' = [k \in Clients |-> [client[k] EXCEPT
                      !.calls = IF k \in c.client THEN @ - 1 ELSE @]]
      /\ UNCHANGED <<loaded, handles, table, now, connects>>

-----------------------------------------------------------------------------
Next ==
  \/ Tick \/ RegisterProviders \/ UnregisterProviders
  \/ \E k \in Clients : \/ OnClientAttach(k) \/ OnClientDetach(k)
                         \/ StartRundown(k) \/ DetachComplete(k)
  \/ \E e \in Endpoints :
       \/ \E d \in Dests : StartRedirect(e, d)
       \/ \E k \in Clients : RedirectBegin(e, k)
       \/ RedirectInvoke(e) \/ SetRedirectContext(e)
       \/ \E v \in Verdicts, ip \in V4Ips \cup V6Ips, acquired \in BOOLEAN :
            ProgramReturn(e, v, ip, acquired)
       \/ RedirectPermit(e) \/ RedirectStamp(e)
       \/ \E allocated \in BOOLEAN : RedirectInsert(e, allocated)
       \/ AuthorizeConnection(e)
       \/ \E k \in Clients : AcceptBegin(e, k)
       \/ \E v \in Verdicts : AcceptEnd(e, v)

Spec == Init /\ [][Next]_vars

-----------------------------------------------------------------------------
Distinct(list) == Cardinality(KeysOf(list)) = Len(list)

\* The table, the LRU list that keeps its entries from leaking, and the
\* low-memory pool agree: a context is in the table exactly when it is in the
\* LRU list, no connection is recorded twice, the counters are the lengths, no
\* pre-allocated context is lost, nothing survives the unload, a redirect handle
\* exists exactly while its client is attached, and a classify call owns exactly
\* the redirect buffer its context points to.
SockAddrInv ==
  /\ TypeOK
  /\ blocked_context_table = KeysOf(blocked_context_lru_list)
  /\ Distinct(blocked_context_lru_list) /\ Distinct(low_memory_blocked_context_list)
  /\ KeysOf(low_memory_blocked_context_list) \cap blocked_context_table = {}
  /\ blocked_context_count = Len(blocked_context_lru_list)
  /\ low_memory_blocked_context_count = Len(low_memory_blocked_context_list)
  /\ low_memory_free + Len(low_memory_blocked_context_list) =
       IF loaded THEN LOW_MEMORY_CONNECTION_CONTEXT_COUNT ELSE 0
  /\ ~loaded => blocked_context_table = {}
  /\ handles = {k \in Clients : HasFilter(k) /\ IsConnect(k)}
  /\ \A e \in Endpoints :
       conn[e].buffers = IF conn[e].redirect_context THEN 1 ELSE 0

\* The action taken at the AUTH layers is the last verdict of the program: a
\* rejected connection is blocked and a connection that may proceed is not
\* blocked by a stale context of an earlier attempt, however old.  Exempt from
\* both are cases the code does not handle: the program rejected a destination
\* it had changed or its change could not be applied, the destination is a
\* v4-mapped address, or a second redirect callout saw the connection.  A
\* rejection may also lapse: no memory was left, it is older than EXPIRY_TIME,
\* the clock had not reached EXPIRY_TIME when it was recorded (the purge then
\* removes every context), or the driver was unloaded since.
VerdictEnforced ==
  \A e \in Endpoints :
    LET c == conn[e]
    IN  c.action # "none" /\ ~c.exempt =>
          /\ c.decided = "proceed" => c.action = "PERMIT"
          /\ c.decided = "reject" /\ ~c.lapsed => c.action = "BLOCK"
=============================================================================
