------------------------------ MODULE EbpfEpoch ------------------------------
(***************************************************************************)
(* The epoch engine of libs/runtime/ebpf_epoch.c: memory, work items and   *)
(* synchronization events are put on the free list of the current CPU,     *)
(* stamped with that CPU's clock, and released once a message that travels *)
(* from CPU to CPU has found that no older epoch is still in use.          *)
(*                                                                         *)
(* All state of a CPU is touched only by code running on that CPU at       *)
(* DISPATCH_LEVEL, so an action of a CPU is atomic.  The per-CPU work      *)
(* queue is the FIFO that EbpfWorkQueue implements; flush[c] is the stack  *)
(* of ebpf_timed_work_queued_flush calls active on CPU c, and nothing else *)
(* runs on c while it is not empty.                                        *)
(***************************************************************************)
EXTENDS Integers, Sequences, FiniteSets

CONSTANTS
    CpuCount,         \* _ebpf_epoch_cpu_count
    Threads,          \* epoch sessions: one ebpf_epoch_enter and its exit
    Memory,           \* blocks from ebpf_epoch_allocate
    WorkItems,        \* work items from ebpf_epoch_allocate_work_item
    ObjectWorkItems,  \* those that free an ebpf_core_object_t
    Syncers,          \* callers of ebpf_epoch_synchronize
    Terminator,       \* the thread in ebpf_core_terminate
    Timer,            \* owner of _ebpf_epoch_compute_release_epoch_message
    Dpc,              \* flush frame of the work queue's own DPC
    Release,          \* frame of a commit that has yet to release its list
    MaxEpoch          \* bound: the timer waits for open sessions from here on

Cpus == 0 .. CpuCount - 1

Last0 == CpuCount - 1

\* The callers that can block in ebpf_epoch_synchronize.
SyncClients == Syncers \cup ObjectWorkItems \cup {Terminator}

Clients == Threads \cup WorkItems \cup SyncClients

\* ebpf_epoch_allocation_header_t, by entry_type and owner.
Entries == [type : {"MEMORY"}, of : Memory]
      \cup [type : {"WORK_ITEM"}, of : WorkItems]
      \cup [type : {"SYNCHRONIZATION"}, of : SyncClients]

MemoryEntry(m) == [type |-> "MEMORY", of |-> m]
WorkItemEntry(w) == [type |-> "WORK_ITEM", of |-> w]
SyncEntry(p) == [type |-> "SYNCHRONIZATION", of |-> p]

MessageTypes ==
    {"PROPOSE", "COMMIT", "COMPLETE", "EXIT_EPOCH", "RUNDOWN"}

\* epoch is proposed_release_epoch of a PROPOSE, released_epoch of a COMMIT.
Message(type, current, epoch, owner) ==
    [type |-> type, current |-> current, epoch |-> epoch, owner |-> owner]

ASSUME EpochAssumption ==
    /\ CpuCount \in Nat \ {0}
    /\ MaxEpoch \in Nat
    /\ ObjectWorkItems \subseteq WorkItems
    /\ Timer \notin Clients
    /\ Dpc \notin Clients
    /\ Release \notin Clients \cup {Dpc}

VARIABLES
    current_epoch,      \* clock of each CPU
    released_epoch,     \* newest epoch each CPU was told to be unused
    timer_armed,        \* per CPU
    rundown_in_progress,\* per CPU
    epoch_computation_in_progress, \* of CPU 0; the timer's message is busy
    timer,              \* _ebpf_epoch_compute_release_epoch_timer is set
    epoch_state_list,   \* per CPU, the sessions that entered there
    epoch,              \* of each session
    free_list,          \* per CPU, a sequence of Entries
    freed_epoch,        \* of each entry
    entry_state,        \* "owned", "freed" (on a free list) or "released"
    work_queue,         \* per CPU, a sequence of messages
    flush,              \* per CPU, active flush frames, innermost last
    destroyed,          \* number of work queues destroyed so far
    pc,                 \* control state of each client
    readers             \* history: the sessions open when an entry was freed

clocks == <<current_epoch, released_epoch>>
sessions == <<epoch_state_list, epoch>>
timers == <<timer_armed, timer>>
lists == <<free_list, freed_epoch, entry_state, readers>>
control == <<rundown_in_progress, epoch_computation_in_progress, destroyed>>
vars == <<clocks, sessions, timers, lists, control, work_queue, flush, pc>>

-----------------------------------------------------------------------------
(* Helpers.                                                                *)

\* SequencesExt is not extended: its definitions make every proof obligation of
\* EbpfEpochProofs several times slower.
Innermost(frames) == frames[Len(frames)]
Outer(frames) == SubSeq(frames, 1, Len(frames) - 1)
Elements(s) == {s[i] : i \in DOMAIN s}

\* No flush is running on c: code at any IRQL may run there.
CpuFree(c) == flush[c] = <<>>

OpenSessions == {t \in Threads : pc[t] = "epoch"}

Linked == UNION {epoch_state_list[c] : c \in Cpus}

\* _ebpf_epoch_arm_timer_if_needed on c, when c's flag is armed, its free list
\* is list and its rundown flag is rundown.
ArmTimerIfNeeded(c, armed, list) ==
    LET arm == ~rundown_in_progress[c] /\ ~armed /\ list # <<>> IN
    /\ timer_armed' = [timer_armed EXCEPT ![c] = armed \/ arm]
    /\ timer' = (timer \/ arm)

\* Mutant of InsertInFreeList: insert at the head of the list.
InsertInFreeList_Head(c, e) ==
    /\ readers' = [readers EXCEPT ![e] = OpenSessions]
    /\ entry_state' = [entry_state EXCEPT ![e] = "freed"]
    /\ freed_epoch' = [freed_epoch EXCEPT ![e] = current_epoch[c]]
    /\ free_list' = [free_list EXCEPT ![c] = <<e>> \o @]
    /\ ArmTimerIfNeeded(c, timer_armed[c], free_list'[c])

\* _ebpf_epoch_insert_in_free_list on c.  In rundown the entry is freed,
\* queued or signalled at once.
InsertInFreeList(c, e) ==
    /\ readers' = [readers EXCEPT ![e] = OpenSessions]
    /\ IF rundown_in_progress[c]
       THEN /\ entry_state' = [entry_state EXCEPT ![e] = "released"]
            /\ UNCHANGED <<freed_epoch, free_list, timers>>
       ELSE /\ entry_state' = [entry_state EXCEPT ![e] = "freed"]
            /\ freed_epoch' = [freed_epoch EXCEPT ![e] = current_epoch[c]]
            /\ free_list' = [free_list EXCEPT ![c] = Append(@, e)]
            /\ ArmTimerIfNeeded(c, timer_armed[c], free_list'[c])

\* _ebpf_epoch_release_free_list on c: drain the list up to the first entry
\* that is newer than limit, then arm the timer for the rest.
ReleaseFreeList(c, limit) ==
    \E n \in 0 .. Len(free_list[c]) :
        LET gone == {free_list[c][i] : i \in 1 .. n} IN
        /\ \A i \in 1 .. n : freed_epoch[free_list[c][i]] =< limit
        /\ n < Len(free_list[c]) => limit < freed_epoch[free_list[c][n + 1]]
        /\ free_list' = [free_list EXCEPT ![c] = SubSeq(@, n + 1, Len(@))]
        /\ entry_state' = [e \in Entries |->
               IF e \in gone THEN "released" ELSE entry_state[e]]
        /\ ArmTimerIfNeeded(c, timer_armed[c], free_list'[c])
        /\ UNCHANGED <<freed_epoch, readers>>

-----------------------------------------------------------------------------
(* Sessions.                                                               *)

\* ebpf_epoch_enter on CPU c.  No caller is left once the core terminates.
EpochEnter(t, c) ==
    /\ pc[t] = "idle" /\ pc[Terminator] = "idle" /\ CpuFree(c)
    /\ pc' = [pc EXCEPT ![t] = "epoch"]
    /\ epoch' = [epoch EXCEPT ![t] = current_epoch[c]]
    /\ epoch_state_list' = [epoch_state_list EXCEPT ![c] = @ \cup {t}]
    /\ UNCHANGED <<clocks, timers, lists, control, work_queue, flush>>

\* ebpf_epoch_exit on the CPU the session entered on, called by the thread
\* itself or by the EXIT_EPOCH handler: unlink, arm the timer, and flush the
\* work queue if queue, its content at that point, is not empty.
ExitOnCpu(t, c, queue) ==
    /\ epoch_state_list' = [epoch_state_list EXCEPT ![c] = @ \ {t}]
    /\ ArmTimerIfNeeded(c, timer_armed[c], free_list[c])
    /\ IF queue = <<>>
       THEN pc' = [pc EXCEPT ![t] = "done"] /\ UNCHANGED flush
       ELSE /\ pc' = [pc EXCEPT ![t] = "exiting"]
            /\ flush' = [flush EXCEPT ![c] = Append(@, t)]

EpochExit(t, c) ==
    /\ pc[t] = "epoch" /\ t \in epoch_state_list[c] /\ CpuFree(c)
    /\ ExitOnCpu(t, c, work_queue[c])
    /\ UNCHANGED <<clocks, epoch, lists, control, work_queue>>

\* ebpf_epoch_exit on another CPU d: the thread was moved since it entered.
EpochExitMoved(t, d) ==
    /\ pc[t] = "epoch" /\ t \notin epoch_state_list[d] /\ CpuFree(d)
    /\ pc' = [pc EXCEPT ![t] = "exiting"]
    /\ \E c \in Cpus :
          /\ t \in epoch_state_list[c]
          /\ work_queue' = [work_queue EXCEPT
                 ![c] = Append(@, Message("EXIT_EPOCH", 0, 0, t))]
    /\ UNCHANGED <<clocks, sessions, timers, lists, control, flush>>

-----------------------------------------------------------------------------
(* Memory, work items and ebpf_epoch_synchronize.                          *)

\* ebpf_epoch_free; a second free of a block is a fail fast.
EpochFree(m, c) ==
    /\ entry_state[MemoryEntry(m)] = "owned" /\ CpuFree(c)
    /\ pc[Terminator] # "down"
    /\ InsertInFreeList(c, MemoryEntry(m))
    /\ UNCHANGED <<clocks, sessions, control, work_queue, flush, pc>>

\* ebpf_epoch_schedule_work_item.
ScheduleWorkItem(w, c) ==
    /\ pc[w] = "allocated" /\ CpuFree(c)
    /\ pc' = [pc EXCEPT ![w] = "scheduled"]
    /\ InsertInFreeList(c, WorkItemEntry(w))
    /\ UNCHANGED <<clocks, sessions, control, work_queue, flush>>

\* ebpf_epoch_cancel_work_item.
CancelWorkItem(w) ==
    /\ pc[w] = "allocated"
    /\ pc' = [pc EXCEPT ![w] = "done"]
    /\ UNCHANGED <<clocks, sessions, timers, lists, control, work_queue, flush>>

\* _ebpf_epoch_work_item_callback on a system worker thread: run the callback
\* and give the rundown reference back.
WorkItemCallback(w) ==
    /\ \/ pc[w] = "scheduled" /\ entry_state[WorkItemEntry(w)] = "released"
       \/ pc[w] = "sync_done"
    /\ pc' = [pc EXCEPT ![w] = "done"]
    /\ UNCHANGED <<clocks, sessions, timers, lists, control, work_queue, flush>>

\* Who may call ebpf_epoch_synchronize: any thread, the callback of an object's
\* work item (it deregisters an NMR client, whose detach callback
\* synchronizes), and ebpf_core_terminate once objectsGone.
MaySynchronizeIf(p, objectsGone) ==
    \/ p \in Syncers /\ pc[p] = "idle" /\ pc[Terminator] = "idle"
    \/ /\ p \in ObjectWorkItems /\ pc[p] = "scheduled"
       /\ entry_state[WorkItemEntry(p)] = "released"
    \/ /\ p = Terminator /\ pc[p] = "idle" /\ objectsGone
       /\ \A t \in Threads \cup Syncers :
             pc[t] \in {"idle", "done", "sync_done"}
       /\ \A w \in WorkItems : pc[w] # "allocated"

\* Mutant of MaySynchronize: terminate without waiting for the objects.
MaySynchronize_NoObjectRundown(p) == MaySynchronizeIf(p, TRUE)

\* ebpf_object_tracking_terminate waits for the rundown reference that every
\* object holds until its work item is done.
MaySynchronize(p) ==
    MaySynchronizeIf(p, \A w \in ObjectWorkItems : pc[w] = "done")

SynchronizeInsert(p, c) ==
    /\ MaySynchronize(p) /\ CpuFree(c)
    /\ pc' = [pc EXCEPT ![p] = "sync_send"]
    /\ InsertInFreeList(c, SyncEntry(p))
    /\ UNCHANGED <<clocks, sessions, control, work_queue, flush>>

\* A message put on a destroyed queue reaches nobody.
SynchronizeSend(p) ==
    /\ pc[p] = "sync_send"
    /\ pc' = [pc EXCEPT ![p] = "sync_complete"]
    /\ work_queue' = IF destroyed > 0 THEN work_queue
                     ELSE [work_queue EXCEPT
                              ![0] = Append(@, Message("PROPOSE", 0, 0, p))]
    /\ UNCHANGED <<clocks, sessions, timers, lists, control, flush>>

SynchronizeReturn(p) ==
    /\ pc[p] = "sync_event" /\ entry_state[SyncEntry(p)] = "released"
    /\ pc' = [pc EXCEPT ![p] = "sync_done"]
    /\ UNCHANGED <<clocks, sessions, timers, lists, control, work_queue, flush>>

-----------------------------------------------------------------------------
(* The timer and the messages.                                             *)

\* _ebpf_epoch_timer_worker, a DPC of CPU 0.  Past MaxEpoch it waits for the
\* open sessions, so that the clock stays bounded.
TimerWorker ==
    /\ timer /\ CpuFree(0)
    /\ current_epoch[0] < MaxEpoch \/ Linked = {}
    /\ IF rundown_in_progress[0]
       THEN /\ timer' = FALSE
            /\ UNCHANGED <<epoch_computation_in_progress, work_queue>>
       ELSE IF epoch_computation_in_progress
       THEN UNCHANGED <<timer, epoch_computation_in_progress, work_queue>>
       ELSE /\ timer' = FALSE
            /\ epoch_computation_in_progress' = TRUE
            /\ work_queue' = [work_queue EXCEPT
                   ![0] = Append(@, Message("PROPOSE", 0, 0, Timer))]
    /\ UNCHANGED <<clocks, sessions, timer_armed, lists, rundown_in_progress,
                   destroyed, flush, pc>>

\* The work queue's DPC starts a flush.
FlushStart(c) ==
    /\ CpuFree(c) /\ work_queue[c] # <<>>
    /\ flush' = [flush EXCEPT ![c] = <<Dpc>>]
    /\ UNCHANGED <<clocks, sessions, timers, lists, control, work_queue, pc>>

\* A flush returns once the queue is empty.  The innermost one was called by
\* ebpf_epoch_exit for a session whose exit now returns, or by the DPC.
FlushReturn(c) ==
    /\ ~CpuFree(c) /\ Innermost(flush[c]) # Release /\ work_queue[c] = <<>>
    /\ flush' = [flush EXCEPT ![c] = Outer(@)]
    /\ pc' = IF Innermost(flush[c]) \in Threads
             THEN [pc EXCEPT ![Innermost(flush[c])] = "done"] ELSE pc
    /\ UNCHANGED <<clocks, sessions, timers, lists, control, work_queue>>

\* Take the first message of c off its queue and put m on the queue of d.
Forward(c, d, m) ==
    LET rest == [work_queue EXCEPT ![c] = Tail(@)] IN
    work_queue' = [rest EXCEPT ![d] = Append(@, m)]

Consume(c) ==
    work_queue' = [work_queue EXCEPT ![c] = Tail(@)]

\* epoch is the least element of S.
IsMinimum(e, S) == e \in S /\ \A x \in S : e =< x

\* The proposal handler with the clock it sets and the epochs it takes the
\* minimum of.
ProposeAs(c, m, now, seen) ==
    /\ current_epoch' = [current_epoch EXCEPT ![c] = now]
    /\ \E minimum \in seen :
          /\ IsMinimum(minimum, seen)
          /\ IF c = Last0
             THEN Forward(c, 0, Message("COMMIT", now, minimum, m.owner))
             ELSE Forward(c, c + 1, Message("PROPOSE", now, minimum, m.owner))
    /\ UNCHANGED <<released_epoch, sessions, timers, lists, control, flush, pc>>

\* CPU 0 advances the clock and proposes it, the others adopt it.
Now(c, m) == IF c = 0 THEN current_epoch[0] + 1 ELSE m.current
Proposed(c, m) == IF c = 0 THEN Now(c, m) ELSE m.epoch
SessionEpochs(c) == {epoch[t] : t \in epoch_state_list[c]}

\* Mutants of Propose: sessions looked at on CPU 0 only; a CPU that advances
\* its own clock instead of adopting the message's.
Propose_SkipSessions(c, m) ==
    ProposeAs(c, m, Now(c, m),
        {Proposed(c, m)} \cup IF c = 0 THEN SessionEpochs(c) ELSE {})
Propose_OwnClock(c, m) ==
    ProposeAs(c, m, IF c = 0 THEN m.current + 1 ELSE current_epoch[c] + 1,
        {Proposed(c, m)} \cup SessionEpochs(c))

\* _ebpf_epoch_messenger_propose_release_epoch.
Propose(c, m) ==
    ProposeAs(c, m, Now(c, m), {Proposed(c, m)} \cup SessionEpochs(c))

\* The commit handler with the armed flag and the released epoch it leaves, up
\* to the point where the message is sent on; the frame Release stands for the
\* rest of the handler.
CommitAs(c, m, armed, released) ==
    /\ timer_armed' = [timer_armed EXCEPT ![c] = armed]
    /\ released_epoch' = [released_epoch EXCEPT ![c] = released]
    /\ IF c = Last0
       THEN Forward(c, 0, Message("COMPLETE", m.current, m.epoch, m.owner))
       ELSE Forward(c, c + 1, m)
    /\ flush' = [flush EXCEPT ![c] = Append(@, Release)]
    /\ UNCHANGED <<current_epoch, sessions, timer, lists, control, pc>>

\* Mutants of Commit: release the proposed epoch itself; leave the
\* armed flag set.
Commit_NoMinusOne(c, m) == CommitAs(c, m, FALSE, m.epoch)
Commit_KeepsArmed(c, m) == CommitAs(c, m, timer_armed[c], m.epoch - 1)

\* _ebpf_epoch_messenger_commit_release_epoch.
Commit(c, m) == CommitAs(c, m, FALSE, m.epoch - 1)

\* The end of the commit handler: release and arm the timer.
CommitRelease(c) ==
    /\ ~CpuFree(c) /\ Innermost(flush[c]) = Release
    /\ ReleaseFreeList(c, released_epoch[c])
    /\ flush' = [flush EXCEPT ![c] = Outer(@)]
    /\ UNCHANGED <<clocks, sessions, control, work_queue, pc>>

\* Mutant of Complete: a synchronize clears the timer's flag, and no event.
Complete_AnyOwner(c, m) ==
    /\ Consume(c)
    /\ epoch_computation_in_progress' = FALSE
    /\ UNCHANGED <<clocks, sessions, timers, lists, rundown_in_progress,
                   destroyed, flush, pc>>

\* _ebpf_epoch_messenger_compute_epoch_complete.
Complete(c, m) ==
    /\ Consume(c)
    /\ IF m.owner = Timer
       THEN epoch_computation_in_progress' = FALSE /\ UNCHANGED pc
       ELSE /\ pc' = [pc EXCEPT ![m.owner] = "sync_event"]
            /\ UNCHANGED epoch_computation_in_progress
    /\ UNCHANGED <<clocks, sessions, timers, lists, rundown_in_progress,
                   destroyed, flush>>

\* _ebpf_epoch_messenger_exit_epoch: ebpf_epoch_exit on this CPU, nested flush
\* included, then the completion event.
ExitEpoch(c, m) ==
    /\ Consume(c)
    /\ ExitOnCpu(m.owner, c, Tail(work_queue[c]))
    /\ UNCHANGED <<clocks, epoch, lists, control>>

\* _ebpf_epoch_messenger_rundown_in_progress.
Rundown(c, m) ==
    /\ rundown_in_progress' = [rundown_in_progress EXCEPT ![c] = TRUE]
    /\ IF c = Last0
       THEN Consume(c) /\ pc' = [pc EXCEPT ![m.owner] = "rundown_done"]
       ELSE Forward(c, c + 1, m) /\ UNCHANGED pc
    /\ UNCHANGED <<clocks, sessions, timers, lists, destroyed,
                   epoch_computation_in_progress, flush>>

\* _ebpf_epoch_messenger_worker: a CPU in rundown ignores its messages.
MessengerWorker(c) ==
    /\ ~CpuFree(c) /\ Innermost(flush[c]) # Release /\ work_queue[c] # <<>>
    /\ LET m == Head(work_queue[c]) IN
       \/ /\ rundown_in_progress[c]
          /\ Consume(c)
          /\ UNCHANGED <<clocks, sessions, timers, lists, control, flush, pc>>
       \/ /\ ~rundown_in_progress[c]
          /\ \/ m.type = "PROPOSE" /\ Propose(c, m)
             \/ m.type = "COMMIT" /\ Commit(c, m)
             \/ m.type = "COMPLETE" /\ Complete(c, m)
             \/ m.type = "EXIT_EPOCH" /\ ExitEpoch(c, m)
             \/ m.type = "RUNDOWN" /\ Rundown(c, m)

-----------------------------------------------------------------------------
(* ebpf_epoch_terminate.                                                   *)

TerminateRundown ==
    /\ pc[Terminator] = "sync_done"
    /\ pc' = [pc EXCEPT ![Terminator] = "rundown_wait"]
    /\ work_queue' = [work_queue EXCEPT
           ![0] = Append(@, Message("RUNDOWN", 0, 0, Terminator))]
    /\ UNCHANGED <<clocks, sessions, timers, lists, control, flush>>

\* KeCancelTimer and KeFlushQueuedDpcs.
TerminateCancelTimer ==
    /\ pc[Terminator] = "rundown_done" /\ \A c \in Cpus : CpuFree(c)
    /\ pc' = [pc EXCEPT ![Terminator] = "release"]
    /\ timer' = FALSE
    /\ UNCHANGED <<clocks, sessions, timer_armed, lists, control, work_queue,
                   flush>>

\* One round of the loop over the CPUs: everything left on the free list is
\* released (MAXINT64 is above every stamp), the work queue is destroyed.
TerminateCpu(c) ==
    /\ pc[Terminator] = "release" /\ destroyed = c /\ CpuFree(c)
    /\ entry_state' = [e \in Entries |->
           IF e \in Elements(free_list[c]) THEN "released" ELSE entry_state[e]]
    /\ free_list' = [free_list EXCEPT ![c] = <<>>]
    /\ work_queue' = [work_queue EXCEPT ![c] = <<>>]
    /\ destroyed' = destroyed + 1
    /\ UNCHANGED <<clocks, sessions, timers, freed_epoch, readers, flush, pc,
                   rundown_in_progress, epoch_computation_in_progress>>

\* The wait for the work items' rundown reference, and the return.
TerminateReturn ==
    /\ pc[Terminator] = "release" /\ destroyed = CpuCount
    /\ \A w \in WorkItems : pc[w] = "done"
    /\ pc' = [pc EXCEPT ![Terminator] = "down"]
    /\ UNCHANGED <<clocks, sessions, timers, lists, control, work_queue, flush>>

\* The driver is unloaded.
Down == pc[Terminator] = "down" /\ UNCHANGED vars

-----------------------------------------------------------------------------
Init ==
    /\ current_epoch = [c \in Cpus |-> 1]
    /\ released_epoch = [c \in Cpus |-> 0]
    /\ timer_armed = [c \in Cpus |-> FALSE]
    /\ rundown_in_progress = [c \in Cpus |-> FALSE]
    /\ epoch_computation_in_progress = FALSE
    /\ timer = FALSE
    /\ epoch_state_list = [c \in Cpus |-> {}]
    /\ epoch = [t \in Threads |-> 0]
    /\ free_list = [c \in Cpus |-> <<>>]
    /\ freed_epoch = [e \in Entries |-> 0]
    /\ entry_state = [e \in Entries |-> "owned"]
    /\ work_queue = [c \in Cpus |-> <<>>]
    /\ flush = [c \in Cpus |-> <<>>]
    /\ destroyed = 0
    /\ pc = [p \in Clients |-> IF p \in WorkItems THEN "allocated" ELSE "idle"]
    /\ readers = [e \in Entries |-> {}]

ThreadNext(t) ==
    \E c \in Cpus : EpochEnter(t, c) \/ EpochExit(t, c) \/ EpochExitMoved(t, c)

WorkItemNext(w) ==
    \/ CancelWorkItem(w) \/ WorkItemCallback(w)
    \/ \E c \in Cpus : ScheduleWorkItem(w, c)

SynchronizeNext(p) ==
    \/ SynchronizeSend(p) \/ SynchronizeReturn(p)
    \/ \E c \in Cpus : SynchronizeInsert(p, c)

CpuNext(c) ==
    \/ FlushStart(c) \/ FlushReturn(c) \/ MessengerWorker(c) \/ CommitRelease(c)

TerminateNext ==
    \/ TerminateRundown \/ TerminateCancelTimer \/ TerminateReturn \/ Down
    \/ \E c \in Cpus : TerminateCpu(c)

Next ==
    \/ \E t \in Threads : ThreadNext(t)
    \/ \E m \in Memory, c \in Cpus : EpochFree(m, c)
    \/ \E w \in WorkItems : WorkItemNext(w)
    \/ \E p \in SyncClients : SynchronizeNext(p)
    \/ \E c \in Cpus : CpuNext(c)
    \/ TimerWorker
    \/ TerminateNext

Spec == Init /\ [][Next]_vars

\* Code inside an epoch runs to its end, CPUs run their DPCs, timers expire,
\* worker threads run their items, and a thread in a blocking call proceeds
\* when it can.  Entering, freeing and cancelling are up to the callers.
Fairness ==
    /\ \A t \in Threads : WF_vars(\E c \in Cpus : EpochExit(t, c))
    /\ \A w \in WorkItems : WF_vars(WorkItemCallback(w))
    /\ \A p \in SyncClients :
          WF_vars(SynchronizeSend(p)) /\ WF_vars(SynchronizeReturn(p))
    /\ \A c \in Cpus : WF_vars(CpuNext(c))
    /\ WF_vars(TimerWorker)
    /\ WF_vars(TerminateNext)

FairSpec == Spec /\ Fairness

-----------------------------------------------------------------------------
(* Properties.                                                             *)

Messages ==
    {m \in [type : MessageTypes, current : Nat, epoch : Nat,
            owner : Clients \cup {Timer}] :
        /\ m.type = "EXIT_EPOCH" => m.owner \in Threads
        /\ m.type = "RUNDOWN" => m.owner = Terminator}

PcValues == {"idle", "epoch", "exiting", "allocated", "scheduled", "sync_send",
             "sync_complete", "sync_event", "sync_done", "rundown_wait",
             "rundown_done", "release", "done", "down"}

\* Type invariant of the engine's per-CPU entries, free lists and queues.
TypeOK ==
    /\ current_epoch \in [Cpus -> Nat]
    /\ released_epoch \in [Cpus -> Nat]
    /\ timer_armed \in [Cpus -> BOOLEAN]
    /\ rundown_in_progress \in [Cpus -> BOOLEAN]
    /\ epoch_computation_in_progress \in BOOLEAN
    /\ timer \in BOOLEAN
    /\ epoch_state_list \in [Cpus -> SUBSET Threads]
    /\ epoch \in [Threads -> Nat]
    /\ free_list \in [Cpus -> Seq(Entries)]
    /\ freed_epoch \in [Entries -> Nat]
    /\ entry_state \in [Entries -> {"owned", "freed", "released"}]
    /\ work_queue \in [Cpus -> Seq(Messages)]
    /\ flush \in [Cpus -> Seq(Threads \cup {Dpc, Release})]
    /\ destroyed \in 0 .. CpuCount
    /\ pc \in [Clients -> PcValues]
    /\ readers \in [Entries -> SUBSET Threads]

\* The clock of a CPU never runs ahead of a lower CPU's: a proposal visits the
\* CPUs in order and proposals do not overtake one another.
ClocksOrdered ==
    \A c, d \in Cpus : c =< d => current_epoch[d] =< current_epoch[c]

\* A released epoch has no code executing in it and nobody can still enter it:
\* on every CPU, sessions and clocks are newer than every released_epoch.
ReleasedEpochQuiet ==
    \A c, d \in Cpus :
        /\ released_epoch[c] < current_epoch[d]
        /\ \A t \in epoch_state_list[d] : released_epoch[c] < epoch[t]

\* Facts about the proposals under way, for the proof of ReleasedEpochQuiet.
\* Proposals waiting at a CPU are newer than its clock, in order, and known to
\* the CPU before it; they have seen the sessions of the CPUs before it.
ProposalsSound ==
    \A c \in Cpus \ {0} : \A i \in 1 .. Len(work_queue[c]) :
        LET m == work_queue[c][i] IN
        m.type = "PROPOSE" =>
            /\ m.epoch \in 1 .. m.current
            /\ current_epoch[c] < m.current
            /\ m.current =< current_epoch[c - 1]
            /\ \A d \in 0 .. c - 1 : \A t \in epoch_state_list[d] :
                  m.epoch =< epoch[t]
            /\ \A j \in 1 .. i - 1 :
                  work_queue[c][j].type = "PROPOSE" =>
                      work_queue[c][j].current < m.current

\* A commit under way carries an epoch no session or clock is older than.
CommitsSound ==
    \A c \in Cpus : \A i \in 1 .. Len(work_queue[c]) :
        LET m == work_queue[c][i] IN
        m.type = "COMMIT" =>
            /\ m.epoch >= 1
            /\ \A d \in Cpus :
                  /\ m.epoch =< current_epoch[d]
                  /\ \A t \in epoch_state_list[d] : m.epoch =< epoch[t]

\* A session on some CPU's list has entered.
LinkedHaveEntered ==
    \A c \in Cpus : \A t \in epoch_state_list[c] : pc[t] # "idle"

\* The inductive invariant behind ReleasedEpochQuiet.
EpochInv ==
    /\ TypeOK
    /\ LinkedHaveEntered
    /\ ClocksOrdered
    /\ ReleasedEpochQuiet
    /\ ProposalsSound
    /\ CommitsSound

\* An entry is returned to its owner only when every session still open
\* entered in a later epoch than the one the entry was stamped with.
ReleasedEntryQuiet ==
    \A e \in Entries : entry_state[e] = "released" =>
        \A t \in Linked : freed_epoch[e] < epoch[t]

\* The static message of the timer is never reset while it is on a queue.
TimerMessageNotReused ==
    epoch_computation_in_progress \/
        \A c \in Cpus : \A m \in Elements(work_queue[c]) : m.owner # Timer

\* A commit that CPU c has yet to see, or a proposal that will become one.
CommitAhead(c) ==
    \E d \in Cpus : \E m \in Elements(work_queue[d]) :
        m.type = "PROPOSE" \/ (m.type = "COMMIT" /\ d =< c)

\* Entries on a free list are never forgotten.  Draining a list up to the first
\* newer entry misses nothing: between commits, every entry left on a CPU is newer
\* than its released epoch.  And unless rundown has begun, the timer is set, a
\* computation is still to pass this CPU, or the commit handler that will arm the
\* timer again is running.
NothingStranded ==
    \A c \in Cpus :
        /\ Release \notin Elements(flush[c]) =>
              \A e \in Elements(free_list[c]) : released_epoch[c] < freed_epoch[e]
        /\ free_list[c] # <<>> /\ ~rundown_in_progress[0] =>
              \/ Release \in Elements(flush[c])
              \/ timer_armed[c] /\ (timer \/ CommitAhead(c))

\* Memory is not returned while a session is open that was open when it was
\* freed (EpochBasedMemoryManagement.md: "can only be returned to the OS once
\* no active execution context could be using that memory").
FreedMemoryUnused ==
    \A m \in Memory : entry_state[MemoryEntry(m)] = "released" =>
        readers[MemoryEntry(m)] \cap OpenSessions = {}

\* Every freed block, scheduled work item and waiting synchronization is
\* eventually released.
FreedIsReleased ==
    \A e \in Entries : entry_state[e] = "freed" ~> entry_state[e] = "released"

\* Blocking calls return: ebpf_epoch_exit of a thread that has moved,
\* ebpf_epoch_synchronize, and the shutdown through ebpf_epoch_terminate, although
\* a CPU in rundown ignores messages.
CallsReturn ==
    /\ \A t \in Threads : pc[t] = "exiting" ~> pc[t] = "done"
    /\ \A p \in SyncClients :
          pc[p] = "sync_send" ~> pc[p] \in {"sync_done", "done", "down"}
    /\ pc[Terminator] = "sync_send" ~> pc[Terminator] = "down"
=============================================================================
