# TLA+ models of eBPF for Windows

This directory models eBPF for Windows in TLA+: the concurrent core of the
execution context, the maps, the user library that drives it and the network
extension. TLC checks the models on small instances, and TLAPS proves the main
invariants of four of them for every instance. `PROJECT.json` lists the
components, the runs, the map from definitions to source lines, the findings,
the hazards and the theorems.

## The system

`ebpfcore.sys` keeps programs, maps and links as reference-counted *objects*,
answers the requests of the user-mode API, and runs programs when a *hook* of an
extension (for example `netebpfext.sys`) fires. A program runs at
DISPATCH_LEVEL on any CPU and reads maps without locks, so memory it may still
use is reclaimed by *epochs*. Links, programs and native modules are clients of
the network module registrar (NMR), extensions are its providers; the registrar
binds and unbinds them while programs run.

    user-mode API  --ioctl-->  ebpf_core  -->  objects, ids, handles, pins
                                  |                 |
                                  v                 v
      extension <--- NMR --->  links --> programs --> maps
          |                                 |          |
       WFP filters, flows                 epochs <-- free lists, work queues

### Inventory

| part | sources (under `src/`) | modelled in |
|---|---|---|
| epoch memory manager | `libs/runtime/ebpf_epoch.c` | `EbpfEpoch` |
| timed work queue | `libs/runtime/ebpf_work_queue.c` | `EbpfWorkQueue`, promise in `WorkQueueSpec` |
| objects, ids, handles, pinning table | `ebpf_object.c`, `ebpf_handle_kernel.c`, `ebpf_pinning_table.c` | `EbpfObject` (steps of threads), `EbpfCore` (whole requests) |
| hash table | `ebpf_hash_table.c` | `EbpfHashTable` |
| maps | `ebpf_maps.c`, `ebpf_bitmap.c` | `EbpfLruMap`, `EbpfMaps`, promise of queues and stacks in `CircularMapSpec` |
| ring buffer, asynchronous requests, subscription | `ebpf_ring_buffer.c`, `ebpf_async.c`, parts of `ebpf_maps.c`, `ebpf_drv.c`, `ebpf_api.cpp`, `device_helper.cpp` | `EbpfRingBuffer`, `EbpfRingBufferMap`, `RingBufferSubscription` |
| user-mode NMR | `libs/runtime/user/nmr_impl.cpp` | `Nmr`, promise in `NmrSpec` |
| links, link requests | `ebpf_link.c`, parts of `ebpf_core.c`, `ebpf_program.c` | `EbpfLink` |
| programs, trampolines | `ebpf_program.c`, `ebpf_trampoline.c` | `EbpfProgram` |
| native modules | `ebpf_native.c` | `EbpfNative` |
| requests of the execution context | `ebpf_core.c` | `EbpfCore` |
| start and stop of the execution context | `ebpf_core.c`, `ebpfcore/ebpf_drv.c` | `EbpfCoreLoad` |
| user library | `libs/api/*.cpp` | `EbpfApi` (objects), `EbpfMapClient` (elements) |
| hook clients, filter contexts, flows | `netebpfext/net_ebpf_ext*.c` | `NetEbpfExtHook` |
| redirected connections | `net_ebpf_ext_sock_addr.c` | `NetEbpfExtSockAddr` |
| packets, bind | `net_ebpf_ext_xdp.c`, `net_ebpf_ext_bind.c` | `NetEbpfExtXdp` |
| load and unload of the extension | `net_ebpf_ext_drv.c`, `net_ebpf_ext.c`, providers | `NetEbpfExtLoad` |
| verifier front end, service, store, netsh, bpf2c, tracing | see `PROJECT.json` | no: sequential glue, registry I/O, code generation, logging |

## The modules

### EbpfEpoch

Every CPU has a clock (`current_epoch`), a list of the sessions that entered on
it (`epoch_state_list`), a free list of entries stamped with the clock at the
time of the free, and a queue of messages. The timer sends a PROPOSE message
through all CPUs that collects the minimum of the sessions' epochs, a COMMIT
message carries the result back, and each CPU releases what is older.

| state | code |
|---|---|
| `current_epoch`, `released_epoch`, `timer_armed`, `rundown_in_progress`, `epoch_state_list`, `free_list` | `ebpf_epoch_cpu_entry_t` |
| `epoch_computation_in_progress`, `timer` | the fields of CPU 0 and the static timer |
| `work_queue`, `flush` | the CPU's work queue and the flush calls active on it, nested ones included |
| `pc` | where sessions, synchronizing threads, work items and the terminating thread are |

Actions: `EpochEnter`, `EpochExit` and `EpochExitMoved` (the thread has changed
CPU and sends EXIT_EPOCH), `EpochFree`, `ScheduleWorkItem`, `CancelWorkItem`,
`SynchronizeInsert/Send/Return`, `TimerWorker`, the message handlers `Propose`,
`Commit` with `CommitRelease`, `Complete`, `ExitEpoch`, `Rundown`, and the steps
of `ebpf_epoch_terminate`. State of a CPU is touched only by code running there
at DISPATCH_LEVEL, so an action is a handler's run on one CPU. A handler that
sends a message to its own CPU's queue flushes that queue from inside, which is
why `Commit` and `CommitRelease` are separate steps.

### EbpfWorkQueue and WorkQueueSpec

The list, the armed timer and the DPC of a work queue; each critical section of
its lock is an action. `WorkQueueSpec` is what a user may rely on: items are
handed out once, in order, and none waits for ever while the queue is open.
`EbpfEpoch` uses the queue through that promise.

### EbpfObject

Reference counts, the id table with entries that have counts of their own,
handles, pinned paths, and maps whose slots hold an *id* reference. Reading an
id from a slot and turning it into a pointer are separate steps, as are the
decrement to zero, the removal from the table, and the deferred free, which
waits for the threads that were inside an epoch (the promise of `EbpfEpoch`; that
the code does not keep it when clocks differ is what `epoch_skew` shows).
`GetObject` reads the slot and searches its id in the table in one step, and
`PointerById` reads the object from the entry in another. Not covered is a slot
that is overwritten between the read and the search: the id is then not found,
or, if the counter has wrapped meanwhile, is that of another object, which is
where the code stops the machine if the type differs (`ebpf_object.c:512`).

### Nmr and NmrSpec

Each registration is a thread that registers, binds, deregisters and waits.
Callbacks run without the registrar's lock; detach callbacks may return
STATUS_PENDING and complete from another thread. `NmrSpec` is the life of one
binding; `Nmr` implements it (property `RegistrarSpec`).

### EbpfLink

The link's state machine, its registration as an NMR client, the provider's
attach and detach callbacks, the program's list of links, the link and unlink
requests with the search by id, and the release of the program's last
reference. The registrar is used as `NmrSpec` describes it. An invocation
(`InvokeStep`) may be running while any of this happens.

### NetEbpfExtHook

Attach, the WFP filters with a reference each on the filter context, classify
callbacks of the bind and the sock_ops hook, flow contexts and the detach that
drains the flows and waits for the rundown. WFP is external: it deletes a filter
only when no classify call uses it and does not end a flow in the middle of its
own classify. List operations under the filter context's lock are atomic. Those
of the detach on its local list are not under the lock: `RemoveHeadList` is two
steps, and a flow that ends between them leaves any part of the list
(`LocalListWithout`). The detach may take a flow context that was freed, and then
asks WFP to remove whatever flow the memory names (`FlowsNamedBy`). The
properties hold all the same for filter contexts and hook clients.
`CountModulus` stands for the 2^32 at which the flow counter wraps.

### EbpfRingBuffer, EbpfRingBufferMap and RingBufferSubscription

Three layers, each extending the one below. `EbpfRingBuffer` is the ring: cells
that hold a header or data, offsets that only grow, output and return as
critical sections of its lock. `EbpfRingBufferMap` adds the map in the kernel:
programs that output a record and then, in a second step, complete the queued
query; the request that returns what was consumed and queues the next query; the
cancel routine, whose look at the tracker, removal from the list and completion
are separate steps; and the deletion of the map after the epoch.
`RingBufferSubscription` adds the process: subscribe, the completion callback
that reads records and posts the next request under the subscription's lock,
unsubscribe, and the end of the process. A failure may be reported by the call
itself or through the event; both occur. The thread pool may start the next
callback while the previous one is still releasing the lock; what the previous
one has left to do touches nothing, so the model lets it finish first.
A cancel routine that acts on a query completed meanwhile sets `misfired`: what
follows is undefined in the code, and the properties speak about runs in which
it has not happened (`ring_cancel` shows that it can).

### EbpfHashTable, EbpfLruMap

`EbpfHashTable` is one table used by several threads. A bucket is immutable
once published: `header` is the current one, a thread's `bucket` the one it has
read, and values are blocks of memory (`block`) that are freed when every thread
that was in the epoch has left it. `EbpfLruMap` extends it with the maps that are
kept in a table. For an LRU map the table's notifications for allocation, use and
free are steps of the map: per partition a hot and a cold list, the generation of
each block, the merge when the hot list is full, and the reap that walks the
partitions for the oldest block when the table is full and tries the update
again. Each critical section of a bucket's or a partition's lock is an action.

### EbpfMaps and CircularMapSpec

One map of any type from its creation to its deletion, a request or a helper
call per action: arrays, hash maps, maps of programs and of maps with the checks
of program type and inner map template and the id references they hold, LPM
tries with the bitmap of prefix lengths, queues and stacks with their `begin`
and `end`, next key, and the batches of `ebpf_core.c`. An update of an LPM trie
is two steps, the entry and then the bit of its length (`SetBit`), with lookups
in between. `unreleased` counts the id references that a lookup with the delete
flag takes out of a map of maps and nothing releases. The bitmap search and the
key order are translated; `LongestPrefix` and `WalkComplete` compare them with
direct definitions. `CircularMapSpec` is a bounded sequence; the model implements
it by reading the ring from `begin` to `end`.

### EbpfMapClient

The batch calls of the library over a map that others change between any two
entries. The map is one bucket in insertion order, so that a walk that resumes
from a deleted key behaves as in the kernel.

### EbpfProgram

The object of a program, its fields, the NMR client of each program and one
extension that loads and unloads. Attach (publish, update of the helpers, bind,
unwind) and detach (clear, wait for the providers' users, return) are separate
steps, as are the phases of helper resolution: ids, addresses, hash, and the
clearing of the ids after an error. An invocation reads the published extension
without a lock and may tail call; a test run holds references to the providers.
A helper's address is the number of the registration it was taken from.

### EbpfNative

The service, the module's entry in the client table, the arrays of maps and
programs that a load fills one by one, pins and handles that others hold, and
the work item that unloads the driver. Every creation may fail; the clean-up is
the code's. `CompareVersions` is the comparison as the code has it. A load looks
the module up, unlocks the table and then uses the module without a reference. If
the module has gone by then the thread reads freed memory: it fails, or it goes
on `astray`, and what it does no longer concerns this module. `NativeInv` counts
the references of the threads that are not astray.

### EbpfCore and EbpfApi

`EbpfCore` is the kernel as a client sees it: objects with reference counts,
the handles of each process and the pins; a protocol handler is one action that
makes the handler's reference changes and fails where the code can. `EbpfApi`
extends it with the library: `bpf_object` open, load, unload and close, pins,
links, the cache of map definitions, and handles that were given to the caller.
A call is a sequence of requests (`pc` in `api`), other processes act between
them, and a process may exit at any point. A file descriptor may be refused
wherever the library asks for one; the handles that no variable of the library
names afterwards are in `lost`, and the comment of `HandlesAccounted` lists the
calls that lose them. Where the library runs into undefined behaviour (a
native object is loaded again after a failure that emptied its vectors, a map
that is pinned by name has had its path set to NULL) the process ends or goes on with the
values it has.

### EbpfCoreLoad

The order in which DriverEntry and `ebpf_core_initiate` start the parts and
`ebpf_core_terminate` ends them, with a failure at each step, and programs that
are still pinned, attached, running or waiting for their epoch at that time.
The result of `ebpf_object_tracking_initiate` is ignored (`ebpf_core.c:237`):
`TrackingFails` goes on without a table of ids, and no object is created then.

### NetEbpfExtSockAddr

A connection classified at the redirect layers by one client after the other
and later at the AUTH layer; hook clients that attach and detach; the table of
blocked connections with its LRU list, expiry by an unsigned clock
(`TimeModulus`), and the pool used when an allocation fails. `VerdictEnforced`
says that a connection the program rejected is blocked and one it accepted is
permitted at the AUTH layer. Two cases are excepted by name: `exempt`, where the
AUTH layer asks about another key than the one the verdict was kept under, and,
for rejected connections only, `lapsed`, where the context was
purged for its age, could not be kept, or went with the providers. The detach
callback destroys the redirect handle (`:678`) before the rundown, while a classify
call in flight may still pass it to WFP (`:1817`): `OnClientDetach` and
`RedirectInvoke` have that order, and no property excludes it.

### NetEbpfExtXdp

A packet, bind request or test run per member of `Packets`, with the NBLs that were
allocated for it. Clone, adjust_head, the verdicts, injection and its completion are
steps that may fail. A program that called adjust_head when a clone failed late is
`flawed`: its data pointers lead to the freed buffer (`net_ebpf_ext_xdp.c:480` does
not look at the status). The base name search of the bind hook is translated and
compared with a definition.

### NetEbpfExtLoad

The steps of the extension's load in order, each of which may fail, the undo and
the unload, and the clients that attach as soon as a provider is registered.
WFP may refuse to close the engine, to unregister a callout or to destroy the
injection handle; the code logs that and goes on, and `stuck` has what is left.

## Runs

| run | instance | shows |
|---|---|---|
| `epoch_safety` | 2 CPUs, a session, a block, a synchronizing thread, timer, shutdown | inductive invariant, soundness of the release clock, complete free lists, one owner of the timer's message |
| `epoch_liveness` | 2 CPUs, a session, an object's work item that synchronizes | everything freed is released, blocking calls and shutdown return |
| `epoch_skew` | 2 CPUs, a session, two blocks | a disagreement with the documentation, see below |
| `lifecycle` | a map and another object, a path, 2 threads, ids 1..3 that wrap; a ring of 4 units, 3 records, 2 programs, a subscriber; start and stop with 2 programs | exact counts, no pointer to freed memory, no resurrection, no lost wakeup of a reader, parts outlive their users, and what was begun ends |
| `execution` | 3 items, 2 flushing threads and the DPC; a program, an extension that loads twice in 3 versions, 2 threads; a native module with a pinned map, a map of maps and 2 programs | no lost wakeup, the queue implements `WorkQueueSpec`, running code is allocated, verified and outlived by its extension, exact references of modules, unloading completes |
| `orphan` | the same | a disagreement with a comment, see below |
| `link` | a link, an unlink request, an invoker, a provider that registers twice | invocations are safe, detached links are quiet, requests and teardown end |
| `link_leak` | the same, unlink by program handle | a disagreement with the code's own bookkeeping |
| `bindings` | a client and a provider of the registrar that may be bound twice; 2 clients of the bind hook; a client of the sock_ops hook with 2 flows; a filter each, 2 classify threads | the registrar implements `NmrSpec`, exact binding counts and references, contexts outlive calls, detach leaves nothing, and what has begun to leave is gone in the end unless a stranded binding or a flow holds it up |
| `maps` | 2 threads, 3 keys, 2 buckets, 2 partitions, room for 2; one map of each type with 3 entries and 2-bit keys; a ring with 2 subscribers | readers see published values, memory and lists agree, a full LRU map with no fewer entries than partitions can be reaped, object maps hold what they store, longest prefixes, complete walks, queues and stacks are bounded sequences |
| `ring_cancel` | a record, a program, a subscriber | an assertion of the code fails |
| `front_ends` | 2 processes, a file with a pinned map of maps and a program, 4 calls; batches of 3 over requests of 2 with 3 concurrent changes; 2 connections, 2 attach types; a packet with 3 NBLs; load and unload | references, handles and cached definitions are exact, batches are exact, verdicts are enforced, packets are owned and freed once, clients are served and loads leave nothing |

`lifecycle`, `bindings`, `execution`, `maps` and `front_ends` hold several
components that do not share state. The variable `component` is chosen in the
initial state and never changes; a behaviour is one of that component, with the
variables of the others at their initial values. Such a run has the states of its
components side by side, not their product. The fairness of a component whose
variables do not move is met, because no action assumed fair is enabled in its
initial state.

The bounds are the smallest at which the interesting orders exist: two CPUs for
clocks that differ and messages that overtake a session, `MaxEpoch = 2` for a
second computation that starts before the first is finished, ids that wrap,
two threads for every race on a count, a provider that comes back,
a flow that is created or ends while another is drained, records of different lengths
that wrap around the end of the ring, two subscribers for a query that finds
another one queued. In `maps`, two keys of three share a bucket and the map has
room for two entries, so that an update has to reap. The first `serial` tasks of
an LRU map are updates that run one after the other and fill the map; the tasks
after them interleave freely. An extension that returns in another version is the
smallest case in which helpers have to be verified again. In `front_ends` a
request holds two entries, so that a batch of three needs a second, and two
processes suffice for one to change what the other has looked up. `MaxObjects = 8`
is what two loads of a native file create, and a process outlives one refused
descriptor (`MaxLost`). Packets do not
share state but for the count of running programs, so one packet is run, with
room for several clones. More of the
same kind repeat these orders; the theorems remove the bound for epochs and work
queues.

Deadlock is checked in `epoch_safety` and `epoch_skew`. The other
instances have a legal end (everything detached, freed or shut down, or the
bounded number of calls made), and a call that is stuck violates the liveness
property of those runs that have one.

### Fairness

Weak fairness of each thread's steps: a thread that can run does. A CPU processes
its queue, an expired timer fires, a DPC that is queued runs: the kernel guarantees
that. Strong fairness is assumed for taking a map's lock in `EbpfObject` and for a
user's callback that takes a record it is offered again and again (`TakeRecord`).
Nothing makes a program invocation start, a handle be closed or a provider arrive;
an invocation that has started ends, because the verifier admits only programs that
terminate. In `Nmr` nobody has to deregister and in `NetEbpfExtHook` no connection
has to end; `LeavingEnds` says that a detach or a deregistration that never
completes is held up for ever by a binding that the other side has not left
(`Stranded`) or by a flow that was added or lost while the detach was under way
(`HeldByFlow`), and by nothing else. `EbpfProgram` and `EbpfNative` assume that a
request or work item under way goes on and that the registrar delivers callbacks;
`EbpfCoreLoad` that users close handles and invocations end once the stop has begun
to wait for them. The timer of `EbpfEpoch` waits for open sessions at `MaxEpoch`; up
to there it is as free as in the code.

## Findings

* `epoch_skew`: an entry is stamped with the clock of the CPU that frees it,
  which may lag behind the clock of the CPU where a session has entered. Memory
  is then released under a session that was open when it was freed.
* `link_leak`: when the search for a matching link stops with an error it keeps
  the reference on the link it looked at, which nobody releases.
* `ring_cancel`: a record that arrives while a query is being cancelled completes
  the query that the cancel routine has already looked up; the routine then uses
  the freed context and completes the request again, which the code asserts
  never happens.
* `orphan`: an attach callback of a program publishes the extension before the
  steps that may fail. After such a failure the pointer stays, the program is
  bound to nothing, and the extension unloads while the program runs.

Other places where a comment, an assertion or a name promises more than the code
does, met while modelling and noted here without a run:

* `ebpf_program.c:585` relies on `ebpf_epoch_synchronize` to outlast running
  programs; a session on a CPU whose clock is ahead is not waited for (the same
  cause as `epoch_skew`).
* `ebpf_epoch.c:798-803` describes release before the message is sent on; the
  code sends first (`:828-830`).
* `ebpf_object.h:280`: the next id is that of an object; `ebpf_object.c:376`
  also returns ids whose object is gone.
* `ebpf_maps.c:890-892`: the lookup holds a reference; `:912` has none.
* `nmr_impl.cpp:226-227` returns early for a binding that another thread is
  still binding; `:86` and `:261` assume one asynchronous side.
* `ebpf_link.c:170-171`: one provider per link; with the user-mode registrar a
  pair can be bound twice.
* `net_ebpf_ext_hook_provider.c:234`: one wildcard client; the check and the
  insert at `:370` are separate critical sections.
* `net_ebpf_ext_sock_ops.c:34` and `:545`: the flow counter and the list can
  disagree.
* `net_ebpf_ext_sock_ops.c:244` asserts that detach finds the flow it removes; a
  connection may end after detach has taken its flow context from the list, and
  the flow context is freed then.
* `ebpf_api.cpp:4441-4444`: the final callback always frees the subscription; it
  does not when the request fails after the user has unsubscribed, or when
  querying the map or registering the wait fails.
* `ebpf_native.c:22`: the minimum version blocks older drivers; `:137` and `:140`
  compare the minor number with the *major* one, so that some older drivers pass
  and the minimum itself may be refused.
* `ebpf_native.c:195-198`: only maps pinned by this load are unpinned; the pin is
  removed by path, whoever holds the path by then, and the assertion fails when
  somebody else has removed it.
* `ebpf_native.c:1430-1463`: the module that was found is used after the table is
  unlocked, without a reference.
* `ebpf_core.c:237`: the result of starting the table of ids is not looked at.
* `ebpf_program.c:541` clears the pointer to the general helpers when binding
  the type-specific provider fails.
* `ebpf_program.c:2079-2082`: reattached information is compared with the hash; a
  request to resolve helpers that fails clears the ids of the program, and
  what is hashed afterwards are no helpers.
* `ebpf_program.c:989`: a second request to associate maps overwrites the first
  without releasing its references.
* `ebpf_trampoline.c:131` overwrites the error of an update with the result of
  restoring the page protection.
* `ebpf_core.c:1586-1588`: an unlink request that is too short reports success.
* `ebpf_maps.c:182-183`: a key goes from cold to hot or is deleted; `:1430` sets it
  back to uninitialized.
* `ebpf_maps.c:1489`: find-and-delete is atomic; the value found and the entry
  deleted may be different ones.
* `ebpf_maps.c:1488`: the same call on a map of maps drops the entry but not the
  reference on the id it holds (`_delete_map_hash_map_entry` at `:1673` releases it).
* `ebpf_maps.c:803` indexes a map of objects by the first byte of the key.
* `ebpf_maps.c:1551-1570`: an LRU map with fewer entries than partitions may have
  all of them in hot lists, and the reap finds none.
* `ebpf_maps.c:1791`, `:1859`: an LPM key longer by one bit than the key is accepted.
* `ebpf_maps.c:2862`: a batch that deletes what it reads deletes the key before
  the one it has read.
* `ebpf_api.cpp:763`: an entry larger than a message makes an update batch of zero
  entries that never ends; deletion checks for it (`:1100`).
* `ebpf_api.cpp:3935`: a handle whose file descriptor can not be had stays open; so
  it does at `:3101`, `:3273` and in `_link_ebpf_program` (`:1546`).
* `libbpf_program.cpp:622-624` returns when a link can not be detached, with the
  file descriptor of the link open.
* `net_ebpf_ext_sock_addr.c:1722` and `:1930`: a REJECT verdict is enforced by the
  AUTH callout; it is kept under the destination the program has written, which
  that callout may not look up.
* `net_ebpf_ext_sock_addr.c:461`: the parameters for INET6_RECV_ACCEPT name
  INET4_RECV_ACCEPT.
* `net_ebpf_ext_sock_addr.c:976`: the expiry time is negative, as an unsigned
  number, in the first minute after boot: every context is then old.
* `net_ebpf_ext_xdp.c:532`: a clone whose injection fails is not freed; `:480`
  ignores that a clone could not be had.
* `net_ebpf_ext_sock_addr.c:678` destroys the redirect handle before the rundown of
  the classify calls that use it (`:1817`).
* `net_ebpf_ext.c:732-746`: a callout or handle that WFP does not release is logged,
  and the driver unloads.
* `net_ebpf_ext.c:548`: a callout that can not be added is reported as added when
  it is unregistered without error.

## Proofs

`EbpfEpochSteps` and `EbpfEpochProofs` prove `EpochInvariant`,
`ReleasedEpochIsQuiet` and `ClocksAreOrdered` for any number of CPUs, sessions,
blocks, work items and synchronizing threads, from `EpochAssumption` alone. That
no session is in a released epoch is not inductive: the epoch that will be
released travels in a message. `EpochInv` therefore says what every message on
its way guarantees. A PROPOSE at CPU *c* carries a value that is not above the
epoch of any session on the CPUs it has passed, nor above the clock a session
entering there would take (`ProposalsSound`); a COMMIT carries one that is below
every session and clock (`CommitsSound`); clocks never increase from one CPU to
the next (`ClocksOrdered`), because messages between two CPUs keep their order.
`EbpfEpochSteps` holds the lemmas about the steps that leave messages alone or
only append one, `EbpfEpochProofs` has one lemma per action.

`EbpfWorkQueueProofs` proves `WorkQueueInv` (types, a truthful `timer_armed`, an
item waiting only while a flush, a DPC or a timer is on its way, every item in
one place) for any items and callers, and from it `WorkQueueSafe`, that items are
handed out once, and that the queue implements the safety part of
`WorkQueueSpec`.

`EbpfObjectSteps`, `EbpfObjectLife` and `EbpfObjectProofs` prove `ObjectInvariant`,
`ObjectsAreAccounted` (`ObjectInv`) and `CountsStayZero` (`NoResurrection`) for any
number of objects, maps, paths, threads and handles and for any width of the id
counter. `ObjectConstants` asks that the maps are among the objects, that paths,
threads and maps are finite in number, that null is neither an object nor a
thread, and that the id counter has a value beside its two reserved ones.
`ObjectInv` is not inductive: a count is exact only if it is known which thread
has which pointer at which point of its code. `ObjectIInv` adds

* `PointersPlaced`: where a thread is in its code decides whether its object, its
  map and the map's lock are set;
* `PhasesFit`: an object is live while its count is positive, the count has
  reached zero while exactly one thread takes the object apart, and the id table
  points to the object until that thread has removed it;
* `SlotsFit`: a slot holds the id of the object stored last, and none in a freed
  map;
* `BorrowedReachable`: a pointer that was read from the id table without a
  reference leads to an object that is not yet scheduled to be freed, or one whose
  free waits for this very thread. This is where the promise of the epochs enters.

A step changes the counts of an object by what it changes in the *share* of the
thread that takes it (`Share`), so the sums over all threads need one lemma,
`ShareStep`; it rests on two facts about cardinalities, `Counting`, which
`EbpfObjectProofs` proves from the library. `LocalStep` and `ThreadInv` reduce the
invariant to the conjuncts that a step of one thread can disturb, and each action
has a lemma that shows those. `EbpfObjectSteps` has the steps on references,
handles and the pinning table, `EbpfObjectLife` the ones on slots and the last
release, `EbpfObjectProofs` creation, free and the theorems.

`NmrSteps` and `NmrProofs` prove `NmrInvariant`, `RegistrarIsExact` (`NmrInv`) and
`RegistrarRefines`: `Nmr` implements `NmrSpec` (`RegistrarSpec`), for any finite
sets of clients and providers. The registrar drops its lock around every
callback, so `NmrInv` says too little about the bindings that are then in some
thread's hands. `NmrIInv` adds that a binding is held by one thread at a time
(`WorkFits`), that the bindings a thread has yet to attach were made by it
(`StartsOwned`, `CreatedFits`), what the two statuses of a binding and the
detach-complete calls still owed say about each other (`StatusPaired`,
`OwedFits`, `HeldStages`), that the thread which records the second completion
is alone with the binding (`CompletingFits`), and what a deregistering thread has
left to do (`DeregistrationFits`). `NmrConstants` asks that at most one side of a
binding answers its detach callback with STATUS_PENDING: of the callbacks of this
repository only the one of the hook providers does
(`net_ebpf_ext_hook_provider.c:407`). The refinement maps a binding to its
statuses and the callbacks that have returned; a step that only moves a thread
between callbacks stutters.

The proofs of `NmrProofs` take five minutes, those of each other module one to
four.

Model-checked only:

* liveness and fairness (`FreedIsReleased`, `CallsReturn`, `BegunEnds`,
  `LeavingEnds`, `UnloadCompletes`, and the fair part of `Implements`), which the
  prover does not handle;
* `ReleasedEntryQuiet`, `NothingStranded` and `TimerMessageNotReused`: the free
  lists and message queues are sequences filtered and concatenated element by
  element; the proofs need the positions of entries through every handler and
  several times the length of the present ones;
* `LongestPrefix`, `WalkComplete` and `ObjectMapInv` of `EbpfMaps`, whose searches
  and batches are RECURSIVE operators, as the loops they stand for;
* the invariants of the other components, for which no inductive strengthening has
  been worked out: `ProgramInv`, `NativeInv`, `LinkInv`, `InvocationSafe`,
  `HookInv`, `HashMapInv`, `ReapMakesRoom`, `BatchExact`, `RingInv`, `RingShared`,
  `CircularIsSequence`, `ReferencesExact`, `HandlesAccounted`,
  `DefinitionsCurrent`, `SockAddrInv`, `VerdictEnforced`, `PacketsOwned`,
  `ProgramSeesItsPacket`, `ClientsAreServed` and `PartsOutliveUsers`.

## Plan

1. Proofs: the free-list properties of `EbpfEpoch`; `PartsOutliveUsers`,
   `SockAddrInv`, `PacketsOwned`, `LinkInv`.
2. A composition of `EbpfProgram` with `EbpfLink`, which now meet only through the
   registrar's promise, and of `EbpfLruMap` with `EbpfEpoch`.
3. Concurrent calls of one process in `EbpfApi`.

## Not modelled

Values that no property tells apart: addresses, attach data beyond equality,
program contexts, packet contents, log messages, strings. Checks of the length
of buffers are one rejection. Memory ordering weaker than sequential
consistency. Allocation failure is a nondeterministic choice where the code
handles it; tables with notifications are run without it.

Left out altogether, with the reason in `PROJECT.json`: the verifier front end
and the reading of ELF files, the service and its RPC, the program store in the
registry, netsh commands, the code generator bpf2c, tracing, serialization,
fault injection, the sample extension, and the platform layer, which wraps
kernel calls. They are sequential code over strings, files or the registry in
which no two actors meet; a model would repeat the code.
