-------------------------- MODULE EbpfEpochProofs --------------------------
(***************************************************************************)
(* EpochInv is an invariant of EbpfEpoch for any number of CPUs, sessions, *)
(* memory blocks and work items.                                           *)
(***************************************************************************)
EXTENDS EbpfEpochSteps

\* ebpf_epoch_initiate establishes the invariant: every clock is 1, nothing is
\* released, no message is under way.
THEOREM InitEstablishesInv == Init => EpochInv
  <1> SUFFICES ASSUME Init PROVE EpochInv
    OBVIOUS
  <1> USE EpochAssumption DEF Init
  <1>1. TypeOK
    BY DEF TypeOK, Cpus, PcValues, Clients, SyncClients
  <1>2. ClocksOrdered
    BY DEF ClocksOrdered
  <1>3. ReleasedEpochQuiet
    BY DEF ReleasedEpochQuiet
  <1>4. ProposalsSound
    BY DEF ProposalsSound
  <1>5. CommitsSound
    BY DEF CommitsSound
  <1>6. LinkedHaveEntered
    BY DEF LinkedHaveEntered
  <1> QED
    BY <1>1, <1>2, <1>3, <1>4, <1>5, <1>6 DEF EpochInv

-----------------------------------------------------------------------------
(* One lemma per action or group of actions.                               *)

LEMMA EpochEnterInv ==
  ASSUME EpochInv, NEW t \in Threads, NEW c \in Cpus, EpochEnter(t, c)
  PROVE  EpochInv'
  <1> USE DEF EpochEnter
  <1>1. TypeOK'
    BY Zenon DEF EpochInv, TypeOK, clocks, timers, lists, control, PcValues
  <1>2. SessionsAreOldOrFresh
    <2> SUFFICES ASSUME NEW d \in Cpus, NEW u \in epoch_state_list'[d]
                 PROVE  \/ u \in epoch_state_list[d] /\ epoch'[u] = epoch[u]
                        \/ epoch'[u] = current_epoch[d]
      BY DEF SessionsAreOldOrFresh
    <2>1. CASE u = t
      <3>1. t \notin epoch_state_list[d]
        BY DEF EpochInv, LinkedHaveEntered
      <3>2. d = c
        BY <2>1, <3>1 DEF EpochInv, TypeOK
      <3> QED
        BY <2>1, <3>2 DEF EpochInv, TypeOK
    <2>2. CASE u # t
      BY <2>2 DEF EpochInv, TypeOK
    <2> QED
      BY <2>1, <2>2
  <1>3. LinkedHaveEntered'
    <2> SUFFICES ASSUME NEW d \in Cpus, NEW u \in epoch_state_list'[d]
                 PROVE  pc'[u] # "idle"
      BY DEF LinkedHaveEntered
    <2> QED
      BY DEF EpochInv, LinkedHaveEntered, TypeOK, Clients
  <1>4. ClocksOrdered' /\ ClocksGrow /\ current_epoch' = current_epoch
        /\ released_epoch' = released_epoch /\ work_queue' = work_queue
    <2>1. current_epoch \in [Cpus -> Nat] /\ ClocksOrdered
      BY DEF EpochInv, TypeOK
    <2>2. UNCHANGED <<clocks, work_queue>>
      OBVIOUS
    <2> HIDE DEF EpochEnter
    <2> QED
      BY <2>1, <2>2 DEF ClocksOrdered, ClocksGrow, clocks
  <1> QED
    BY <1>1, <1>2, <1>3, <1>4, SameQueueStep

\* What ebpf_epoch_exit on the session's own CPU does.
LEMMA ExitOnCpuEffect ==
  ASSUME EpochInv, NEW t \in Threads, NEW c \in Cpus, NEW queue,
         ExitOnCpu(t, c, queue), epoch' = epoch
  PROVE  /\ timer_armed' \in [Cpus -> BOOLEAN] /\ timer' \in BOOLEAN
         /\ epoch_state_list' \in [Cpus -> SUBSET Threads]
         /\ flush' \in [Cpus -> Seq(Threads \cup {Dpc, Release})]
         /\ pc' \in [Clients -> PcValues]
         /\ SessionsAreOldOrFresh
         /\ LinkedHaveEntered'
  <1>0. TypeOK
    BY DEF EpochInv
  <1>1. timer_armed' \in [Cpus -> BOOLEAN] /\ timer' \in BOOLEAN
    <2>1. ArmTimerIfNeeded(c, timer_armed[c], free_list[c])
      BY DEF ExitOnCpu
    <2> QED
      BY <1>0, <2>1, ArmTimerType DEF TypeOK
  <1>2. /\ epoch_state_list' \in [Cpus -> SUBSET Threads]
        /\ \A d \in Cpus : epoch_state_list'[d] \subseteq epoch_state_list[d]
    BY <1>0 DEF ExitOnCpu, TypeOK
  <1>3. t \in Clients
    BY DEF Clients
  <1>4. /\ pc' \in [Clients -> PcValues]
        /\ \A p \in Clients : pc'[p] = "idle" => pc[p] = "idle"
        /\ flush' \in [Cpus -> Seq(Threads \cup {Dpc, Release})]
    <2>1. CASE queue = <<>>
      BY Zenon, <1>0, <1>3, <2>1 DEF ExitOnCpu, TypeOK, PcValues
    <2>2. CASE queue # <<>>
      <3>1. Append(flush[c], t) \in Seq(Threads \cup {Dpc, Release})
        BY <1>0, AppendProperties DEF TypeOK
      <3>2. /\ pc' = [pc EXCEPT ![t] = "exiting"]
            /\ flush' = [flush EXCEPT ![c] = Append(@, t)]
        BY <2>2 DEF ExitOnCpu
      <3> QED
        BY <1>0, <1>3, <3>1, <3>2 DEF TypeOK, PcValues
    <2> QED
      BY <2>1, <2>2
  <1>5. SessionsAreOldOrFresh
    BY <1>2 DEF SessionsAreOldOrFresh
  <1>6. LinkedHaveEntered'
    BY <1>2, <1>4, SameEntered
  <1> QED
    BY <1>1, <1>2, <1>4, <1>5, <1>6

LEMMA EpochExitInv ==
  ASSUME EpochInv, NEW t \in Threads, NEW c \in Cpus, EpochExit(t, c)
  PROVE  EpochInv'
  <1>1. /\ ExitOnCpu(t, c, work_queue[c]) /\ epoch' = epoch
        /\ UNCHANGED <<clocks, lists, control, work_queue>>
    BY DEF EpochExit
  <1>2. /\ timer_armed' \in [Cpus -> BOOLEAN] /\ timer' \in BOOLEAN
        /\ epoch_state_list' \in [Cpus -> SUBSET Threads]
        /\ flush' \in [Cpus -> Seq(Threads \cup {Dpc, Release})]
        /\ pc' \in [Clients -> PcValues]
        /\ SessionsAreOldOrFresh
        /\ LinkedHaveEntered'
    BY <1>1, ExitOnCpuEffect
  <1>3. TypeOK'
    BY <1>1, <1>2 DEF EpochInv, TypeOK, clocks, lists, control
  <1> QED
    BY <1>1, <1>2, <1>3, SameQueueStep

LEMMA EpochExitMovedInv ==
  ASSUME EpochInv, NEW t \in Threads, NEW d \in Cpus, EpochExitMoved(t, d)
  PROVE  EpochInv'
  <1> DEFINE m == Message("EXIT_EPOCH", 0, 0, t)
  <1>1. m \in Messages /\ m.type = "EXIT_EPOCH"
    BY MessageType DEF MessageTypes, Clients
  <1>2. PICK c \in Cpus : work_queue' = [work_queue EXCEPT ![c] = Append(@, m)]
    BY Zenon DEF EpochExitMoved
  <1> HIDE DEF m
  <1>3. work_queue' \in [Cpus -> Seq(Messages)]
    BY Zenon, <1>1, <1>2, SendShape DEF EpochInv
  <1>4. /\ pc' = [pc EXCEPT ![t] = "exiting"]
        /\ UNCHANGED <<clocks, sessions, timers, lists, control, flush>>
    BY DEF EpochExitMoved
  <1>5. t \in Clients
    BY DEF Clients
  <1>6. TypeOK'
    BY Zenon, <1>3, <1>4, <1>5
    DEF EpochInv, TypeOK, clocks, sessions, timers, lists, control, PcValues
  <1>7. SessionsAreOldOrFresh
    BY <1>4, SameSessions
  <1>8. LinkedHaveEntered'
    BY Zenon, <1>4, <1>5, SameEntered DEF sessions, EpochInv, TypeOK
  <1> QED
    BY Zenon, <1>1, <1>2, <1>4, <1>6, <1>7, <1>8, SendStep

LEMMA EntryTypes ==
  /\ \A m \in Memory : MemoryEntry(m) \in Entries
  /\ \A w \in WorkItems : WorkItemEntry(w) \in Entries
  /\ \A p \in SyncClients : SyncEntry(p) \in Entries
  BY DEF Entries, MemoryEntry, WorkItemEntry, SyncEntry

\* A call that only puts an entry on a free list and moves its caller on.
LEMMA InsertStep ==
  ASSUME EpochInv, NEW c \in Cpus, NEW e \in Entries, InsertInFreeList(c, e),
         UNCHANGED <<clocks, sessions, control, work_queue, flush>>,
         pc' \in [Clients -> PcValues],
         \A p \in Clients : pc'[p] = "idle" => pc[p] = "idle"
  PROVE  EpochInv'
  <1>1. /\ timer_armed' \in [Cpus -> BOOLEAN] /\ timer' \in BOOLEAN
        /\ free_list' \in [Cpus -> Seq(Entries)]
        /\ freed_epoch' \in [Entries -> Nat]
        /\ entry_state' \in [Entries -> {"owned", "freed", "released"}]
        /\ readers' \in [Entries -> SUBSET Threads]
    BY InsertType DEF EpochInv
  <1>2. TypeOK'
    BY Zenon, <1>1 DEF EpochInv, TypeOK, clocks, sessions, control
  <1> QED
    BY <1>2, LocalStep

LEMMA EpochFreeInv ==
  ASSUME EpochInv, NEW m \in Memory, NEW c \in Cpus, EpochFree(m, c)
  PROVE  EpochInv'
  BY Zenon, EntryTypes, InsertStep DEF EpochFree, EpochInv, TypeOK

LEMMA ScheduleWorkItemInv ==
  ASSUME EpochInv, NEW w \in WorkItems, NEW c \in Cpus, ScheduleWorkItem(w, c)
  PROVE  EpochInv'
  <1>1. /\ pc' \in [Clients -> PcValues]
        /\ \A p \in Clients : pc'[p] = "idle" => pc[p] = "idle"
    BY DEF ScheduleWorkItem, EpochInv, TypeOK, PcValues, Clients
  <1> QED
    BY <1>1, EntryTypes, InsertStep DEF ScheduleWorkItem

LEMMA SynchronizeInsertInv ==
  ASSUME EpochInv, NEW p \in SyncClients, NEW c \in Cpus,
         SynchronizeInsert(p, c)
  PROVE  EpochInv'
  <1>1. /\ pc' \in [Clients -> PcValues]
        /\ \A q \in Clients : pc'[q] = "idle" => pc[q] = "idle"
    BY DEF SynchronizeInsert, EpochInv, TypeOK, PcValues, Clients
  <1> QED
    BY <1>1, EntryTypes, InsertStep DEF SynchronizeInsert

\* Steps that only move one client on.
LEMMA PcStep ==
  ASSUME EpochInv, NEW p \in Clients, NEW v \in PcValues \ {"idle"},
         pc' = [pc EXCEPT ![p] = v],
         UNCHANGED <<clocks, sessions, timers, lists, control, work_queue, flush>>
  PROVE  EpochInv'
  <1>1. TypeOK'
    BY DEF EpochInv, TypeOK, clocks, sessions, timers, lists, control
  <1>2. \A q \in Clients : pc'[q] = "idle" => pc[q] = "idle"
    BY DEF EpochInv, TypeOK
  <1> QED
    BY <1>1, <1>2, LocalStep

LEMMA ClientStepsInv ==
  ASSUME EpochInv,
         \/ \E w \in WorkItems : CancelWorkItem(w) \/ WorkItemCallback(w)
         \/ \E p \in SyncClients : SynchronizeReturn(p)
         \/ TerminateReturn
  PROVE  EpochInv'
  <1>1. ASSUME NEW w \in WorkItems, CancelWorkItem(w) \/ WorkItemCallback(w)
        PROVE  EpochInv'
    BY <1>1, PcStep DEF CancelWorkItem, WorkItemCallback, Clients, PcValues
  <1>2. ASSUME NEW p \in SyncClients, SynchronizeReturn(p)
        PROVE  EpochInv'
    BY Zenon, <1>2, PcStep DEF SynchronizeReturn, Clients, PcValues
  <1>3. ASSUME TerminateReturn
        PROVE  EpochInv'
    BY Zenon, <1>3, PcStep DEF TerminateReturn, Clients, SyncClients, PcValues
  <1> QED
    BY <1>1, <1>2, <1>3

\* Steps that put a message on CPU 0's queue.
LEMMA SendToZero ==
  ASSUME EpochInv, NEW type \in {"PROPOSE", "RUNDOWN"},
         NEW owner \in Clients \cup {Timer},
         type = "RUNDOWN" => owner = Terminator,
         work_queue' = [work_queue EXCEPT
             ![0] = Append(@, Message(type, 0, 0, owner))],
         pc' \in [Clients -> PcValues],
         \A p \in Clients : pc'[p] = "idle" => pc[p] = "idle",
         timer' \in BOOLEAN, epoch_computation_in_progress' \in BOOLEAN,
         UNCHANGED <<clocks, sessions, timer_armed, lists, flush,
                     rundown_in_progress, destroyed>>
  PROVE  EpochInv'
  <1> DEFINE m == Message(type, 0, 0, owner)
  <1>1. m \in Messages /\ m.type = type
    <2>1. CASE type = "PROPOSE"
      BY <2>1, RingMessageType
    <2>2. CASE type = "RUNDOWN"
      BY <2>2, RundownMessage
    <2> QED
      BY <2>1, <2>2
  <1>2. work_queue' = [work_queue EXCEPT ![0] = Append(@, m)]
    OBVIOUS
  <1> HIDE DEF m
  <1>3. work_queue' \in [Cpus -> Seq(Messages)]
    BY Zenon, <1>1, <1>2, SendShape, ZeroIsCpu DEF EpochInv
  <1>4. TypeOK'
    BY <1>3 DEF EpochInv, TypeOK, clocks, sessions, lists
  <1>5. SessionsAreOldOrFresh
    BY SameSessions
  <1>6. LinkedHaveEntered'
    BY SameEntered DEF sessions, EpochInv, TypeOK
  <1> QED
    BY Zenon, <1>1, <1>2, <1>4, <1>5, <1>6, SendStep, ZeroIsCpu

LEMMA SynchronizeSendInv ==
  ASSUME EpochInv, NEW p \in SyncClients, SynchronizeSend(p)
  PROVE  EpochInv'
  <1>1. /\ pc' = [pc EXCEPT ![p] = "sync_complete"] /\ p \in Clients
        /\ UNCHANGED <<clocks, sessions, timers, lists, control, flush>>
    BY DEF SynchronizeSend, Clients
  <1>2. CASE destroyed > 0
    BY Zenon, <1>1, <1>2, PcStep DEF SynchronizeSend, PcValues
  <1>3. CASE ~(destroyed > 0)
    <2>1. work_queue' = [work_queue EXCEPT
              ![0] = Append(@, Message("PROPOSE", 0, 0, p))]
      BY <1>3 DEF SynchronizeSend
    <2>2. /\ pc' \in [Clients -> PcValues]
          /\ \A q \in Clients : pc'[q] = "idle" => pc[q] = "idle"
      BY <1>1 DEF EpochInv, TypeOK, PcValues
    <2>3. /\ timer' \in BOOLEAN /\ epoch_computation_in_progress' \in BOOLEAN
          /\ UNCHANGED <<clocks, sessions, timer_armed, lists, flush,
                         rundown_in_progress, destroyed>>
      BY <1>1 DEF EpochInv, TypeOK, timers, control
    <2> QED
      BY Zenon, <1>1, <2>1, <2>2, <2>3, SendToZero
  <1> QED
    BY <1>2, <1>3

LEMMA TerminateRundownInv ==
  ASSUME EpochInv, TerminateRundown
  PROVE  EpochInv'
  <1>1. Terminator \in Clients
    BY DEF Clients, SyncClients
  <1>2. /\ pc' \in [Clients -> PcValues]
        /\ \A q \in Clients : pc'[q] = "idle" => pc[q] = "idle"
    BY <1>1 DEF EpochInv, TypeOK, PcValues, TerminateRundown
  <1>3. /\ timer' \in BOOLEAN /\ epoch_computation_in_progress' \in BOOLEAN
        /\ UNCHANGED <<clocks, sessions, timer_armed, lists, flush,
                       rundown_in_progress, destroyed>>
    BY DEF EpochInv, TypeOK, timers, control, TerminateRundown
  <1> QED
    BY Zenon, <1>1, <1>2, <1>3, SendToZero DEF TerminateRundown

LEMMA TimerWorkerInv ==
  ASSUME EpochInv, TimerWorker
  PROVE  EpochInv'
  <1>1. /\ UNCHANGED <<clocks, sessions, timer_armed, lists,
                       rundown_in_progress, destroyed, flush>>
        /\ pc' = pc
    BY DEF TimerWorker
  <1>2. CASE UNCHANGED <<epoch_computation_in_progress, work_queue>>
    <2>1. TypeOK'
      BY Zenon, <1>1, <1>2 DEF TimerWorker, EpochInv, TypeOK, clocks, sessions, lists
    <2> QED
      BY <1>1, <1>2, <2>1, LocalStep
  <1>3. CASE /\ timer' = FALSE /\ epoch_computation_in_progress' = TRUE
             /\ work_queue' = [work_queue EXCEPT
                    ![0] = Append(@, Message("PROPOSE", 0, 0, Timer))]
    BY Zenon, <1>1, <1>3, SendToZero DEF EpochInv, TypeOK
  <1> QED
    BY Zenon, <1>2, <1>3 DEF TimerWorker

Frames == Threads \cup {Dpc, Release}

\* Returning from the innermost frame of a CPU.
LEMMA PopType ==
  ASSUME TypeOK, NEW c \in Cpus, flush[c] # <<>>
  PROVE  /\ Outer(flush[c]) \in Seq(Frames)
         /\ [flush EXCEPT ![c] = Outer(@)] \in [Cpus -> Seq(Frames)]
  <1>1. flush \in [Cpus -> Seq(Frames)]
    BY DEF TypeOK, Frames
  <1>2. Len(flush[c]) \in Nat \ {0}
    BY <1>1, LenProperties, EmptySeq
  <1>3. SubSeq(flush[c], 1, Len(flush[c]) - 1) \in Seq(Frames)
    BY <1>1, <1>2, SubSeqProperties
  <1> QED
    BY <1>1, <1>3 DEF Outer

LEMMA FlushStartInv ==
  ASSUME EpochInv, NEW c \in Cpus, FlushStart(c)
  PROVE  EpochInv'
  <1>1. <<Dpc>> \in Seq(Threads \cup {Dpc, Release})
    OBVIOUS
  <1>2. TypeOK'
    BY <1>1 DEF FlushStart, EpochInv, TypeOK, clocks, sessions, timers, lists,
                control
  <1> QED
    BY <1>2, LocalStep DEF FlushStart

LEMMA FlushReturnInv ==
  ASSUME EpochInv, NEW c \in Cpus, FlushReturn(c)
  PROVE  EpochInv'
  <1>1. flush' \in [Cpus -> Seq(Threads \cup {Dpc, Release})]
    BY Zenon, PopType DEF FlushReturn, CpuFree, EpochInv, Frames
  <1>2. /\ pc' \in [Clients -> PcValues]
        /\ \A q \in Clients : pc'[q] = "idle" => pc[q] = "idle"
    BY DEF FlushReturn, EpochInv, TypeOK, PcValues, Clients
  <1>3. TypeOK'
    BY <1>1, <1>2 DEF FlushReturn, EpochInv, TypeOK, clocks, sessions, timers,
                      lists, control
  <1> QED
    BY Zenon, <1>2, <1>3, LocalStep DEF FlushReturn

LEMMA CommitReleaseInv ==
  ASSUME EpochInv, NEW c \in Cpus, CommitRelease(c)
  PROVE  EpochInv'
  <1>1. flush' \in [Cpus -> Seq(Threads \cup {Dpc, Release})]
    BY PopType DEF CommitRelease, CpuFree, EpochInv, Frames
  <1>2. /\ timer_armed' \in [Cpus -> BOOLEAN] /\ timer' \in BOOLEAN
        /\ free_list' \in [Cpus -> Seq(Entries)]
        /\ entry_state' \in [Entries -> {"owned", "freed", "released"}]
        /\ UNCHANGED <<freed_epoch, readers>>
    BY ReleaseType DEF CommitRelease, EpochInv
  <1>3. UNCHANGED <<clocks, sessions, control, work_queue, pc>>
    BY DEF CommitRelease
  <1>4. TypeOK'
    BY Zenon, <1>1, <1>2, <1>3 DEF EpochInv, TypeOK, clocks, sessions, control
  <1> QED
    BY <1>3, <1>4, LocalStep

LEMMA TerminateCancelTimerInv ==
  ASSUME EpochInv, TerminateCancelTimer
  PROVE  EpochInv'
  <1>1. Terminator \in Clients
    BY DEF Clients, SyncClients
  <1>2. /\ pc' \in [Clients -> PcValues]
        /\ \A q \in Clients : pc'[q] = "idle" => pc[q] = "idle"
    BY <1>1 DEF TerminateCancelTimer, EpochInv, TypeOK, PcValues
  <1>3. TypeOK'
    BY Zenon, <1>2 DEF TerminateCancelTimer, EpochInv, TypeOK, clocks, sessions,
                lists, control
  <1> QED
    BY <1>2, <1>3, LocalStep DEF TerminateCancelTimer

LEMMA TerminateCpuInv ==
  ASSUME EpochInv, NEW c \in Cpus, TerminateCpu(c)
  PROVE  EpochInv'
  <1>1. /\ UNCHANGED <<clocks, sessions, timers, freed_epoch, readers, flush,
                       pc, rundown_in_progress, epoch_computation_in_progress>>
        /\ destroyed = c /\ destroyed' = destroyed + 1
        /\ free_list' = [free_list EXCEPT ![c] = <<>>]
        /\ work_queue' = [work_queue EXCEPT ![c] = <<>>]
        /\ entry_state' = [e \in Entries |->
              IF e \in Elements(free_list[c]) THEN "released" ELSE entry_state[e]]
    BY DEF TerminateCpu
  <1>2. destroyed' \in 0 .. CpuCount
    BY <1>1, EpochAssumption DEF Cpus
  <1>3. /\ free_list' \in [Cpus -> Seq(Entries)]
        /\ work_queue' \in [Cpus -> Seq(Messages)]
        /\ entry_state' \in [Entries -> {"owned", "freed", "released"}]
    <2>1. /\ free_list \in [Cpus -> Seq(Entries)]
          /\ work_queue \in [Cpus -> Seq(Messages)]
          /\ entry_state \in [Entries -> {"owned", "freed", "released"}]
      BY DEF EpochInv, TypeOK
    <2> QED
      BY <1>1, <2>1
  <1>4. TypeOK'
    BY Zenon, <1>1, <1>2, <1>3 DEF EpochInv, TypeOK, clocks, sessions, timers
  <1>5. SessionsAreOldOrFresh /\ LinkedHaveEntered'
    BY Zenon, <1>1, SameSessions, SameEntered DEF sessions, EpochInv, TypeOK
  <1> DEFINE m == Message("RUNDOWN", 0, 0, Terminator)
  <1>6. m \in Messages /\ m.type = "RUNDOWN"
    BY RundownMessage
  <1>7. Moved(NoShift, 0, m)
    <2> SUFFICES ASSUME NEW d \in Cpus, NEW i \in 1 .. Len(work_queue'[d])
                 PROVE  /\ i + NoShift[d] \in 1 .. Len(work_queue[d])
                        /\ work_queue'[d][i] = work_queue[d][i + NoShift[d]]
      BY DEF Moved
    <2>1. d # c
      BY <1>1 DEF EpochInv, TypeOK
    <2>2. work_queue'[d] = work_queue[d]
      BY <1>1, <2>1 DEF EpochInv, TypeOK
    <2> QED
      BY <2>2 DEF NoShift
  <1> HIDE DEF m
  <1> QED
    BY <1>1, <1>4, <1>5, <1>6, <1>7, HarmlessStep, ZeroIsCpu, ShiftTypes

-----------------------------------------------------------------------------
(* The message handlers.                                                   *)

LEMMA HeadMessage ==
  ASSUME TypeOK, NEW c \in Cpus, work_queue[c] # <<>>
  PROVE  /\ Head(work_queue[c]) \in Messages
         /\ Head(work_queue[c]) = work_queue[c][1]
         /\ Len(work_queue[c]) \in Nat \ {0}
  <1>1. work_queue[c] \in Seq(Messages)
    BY DEF TypeOK
  <1>2. Len(work_queue[c]) \in Nat \ {0}
    BY <1>1, LenProperties, EmptySeq
  <1> QED
    BY <1>1, <1>2, HeadTailProperties, ElementOfSeq

LEMMA DropInv ==
  ASSUME EpochInv, NEW c \in Cpus, work_queue[c] # <<>>, Consume(c),
         UNCHANGED <<clocks, sessions, timers, lists, control, flush, pc>>
  PROVE  EpochInv'
  <1>1. work_queue' \in [Cpus -> Seq(Messages)]
    BY ConsumeShape DEF EpochInv
  <1>2. TypeOK'
    BY <1>1 DEF EpochInv, TypeOK, clocks, sessions, timers, lists, control
  <1>3. SessionsAreOldOrFresh /\ LinkedHaveEntered'
    BY Zenon, SameSessions, SameEntered DEF sessions, EpochInv, TypeOK
  <1> QED
    BY <1>2, <1>3, ConsumeStep

LEMMA CompleteInv ==
  ASSUME EpochInv, NEW c \in Cpus, work_queue[c] # <<>>, NEW m \in Messages,
         Complete(c, m)
  PROVE  EpochInv'
  <1>1. /\ Consume(c)
        /\ UNCHANGED <<clocks, sessions, timers, lists, rundown_in_progress,
                       destroyed, flush>>
    BY DEF Complete
  <1>2. work_queue' \in [Cpus -> Seq(Messages)]
    BY <1>1, ConsumeShape DEF EpochInv
  <1>3. /\ pc' \in [Clients -> PcValues]
        /\ \A q \in Clients : pc'[q] = "idle" => pc[q] = "idle"
        /\ epoch_computation_in_progress' \in BOOLEAN
    <2>1. CASE m.owner = Timer
      BY Zenon, <2>1 DEF Complete, EpochInv, TypeOK
    <2>2. CASE m.owner # Timer
      <3>1. m.owner \in Clients
        BY <2>2 DEF Messages
      <3> QED
        BY Zenon, <2>2, <3>1 DEF Complete, EpochInv, TypeOK, PcValues
    <2> QED
      BY <2>1, <2>2
  <1>4. TypeOK'
    BY <1>1, <1>2, <1>3 DEF EpochInv, TypeOK, clocks, sessions, timers, lists
  <1>5. SessionsAreOldOrFresh /\ LinkedHaveEntered'
    BY Zenon, <1>1, <1>3, SameSessions, SameEntered DEF sessions, EpochInv, TypeOK
  <1> QED
    BY Zenon, <1>1, <1>4, <1>5, ConsumeStep

LEMMA RundownInv ==
  ASSUME EpochInv, NEW c \in Cpus, work_queue[c] # <<>>, NEW m \in Messages,
         m.type = "RUNDOWN", Rundown(c, m)
  PROVE  EpochInv'
  <1>0. m.owner \in Clients
    BY DEF Messages, Clients, SyncClients
  <1>1. /\ UNCHANGED <<clocks, sessions, timers, lists, destroyed,
                       epoch_computation_in_progress, flush>>
        /\ rundown_in_progress' = [rundown_in_progress EXCEPT ![c] = TRUE]
    BY Zenon DEF Rundown
  <1>2. rundown_in_progress' \in [Cpus -> BOOLEAN]
    BY <1>1 DEF EpochInv, TypeOK
  <1>3. CASE c = Last0
    <2>1. Consume(c) /\ pc' = [pc EXCEPT ![m.owner] = "rundown_done"]
      BY <1>3 DEF Rundown
    <2>2. work_queue' \in [Cpus -> Seq(Messages)]
      BY Zenon, <2>1, ConsumeShape DEF EpochInv
    <2>3. /\ pc' \in [Clients -> PcValues]
          /\ \A q \in Clients : pc'[q] = "idle" => pc[q] = "idle"
      BY <1>0, <2>1 DEF EpochInv, TypeOK, PcValues
    <2>4. TypeOK'
      BY <1>1, <1>2, <2>2, <2>3 DEF EpochInv, TypeOK, clocks, sessions, timers,
                                    lists
    <2>5. SessionsAreOldOrFresh /\ LinkedHaveEntered'
      BY Zenon, <1>1, <2>3, SameSessions, SameEntered DEF sessions, EpochInv, TypeOK
    <2> QED
      BY <1>1, <2>1, <2>4, <2>5, ConsumeStep
  <1>4. CASE c # Last0
    <2>1. Forward(c, c + 1, m) /\ pc' = pc
      BY <1>4 DEF Rundown
    <2>2. c + 1 \in Cpus
      BY <1>4, EpochAssumption DEF Cpus, Last0
    <2>3. work_queue' \in [Cpus -> Seq(Messages)] /\ Moved(ShiftOf(c), c + 1, m)
      BY <2>1, <2>2, ForwardShape DEF EpochInv
    <2>4. TypeOK'
      BY Zenon, <1>1, <1>2, <2>1, <2>3 DEF EpochInv, TypeOK, clocks, sessions, timers,
                                    lists
    <2>5. SessionsAreOldOrFresh /\ LinkedHaveEntered'
      BY Zenon, <1>1, <2>1, SameSessions, SameEntered DEF sessions, EpochInv, TypeOK
    <2> QED
      BY Zenon, <1>1, <2>2, <2>3, <2>4, <2>5, HarmlessStep, ShiftTypes
  <1> QED
    BY <1>3, <1>4

LEMMA ExitEpochInv ==
  ASSUME EpochInv, NEW c \in Cpus, work_queue[c] # <<>>, NEW m \in Messages,
         m.type = "EXIT_EPOCH", ExitEpoch(c, m)
  PROVE  EpochInv'
  <1>1. /\ Consume(c) /\ ExitOnCpu(m.owner, c, Tail(work_queue[c]))
        /\ UNCHANGED <<clocks, epoch, lists, control>>
    BY Zenon DEF ExitEpoch
  <1>2. m.owner \in Threads
    BY DEF Messages
  <1>3. /\ timer_armed' \in [Cpus -> BOOLEAN] /\ timer' \in BOOLEAN
        /\ epoch_state_list' \in [Cpus -> SUBSET Threads]
        /\ flush' \in [Cpus -> Seq(Threads \cup {Dpc, Release})]
        /\ pc' \in [Clients -> PcValues]
        /\ SessionsAreOldOrFresh
        /\ LinkedHaveEntered'
    BY Zenon, <1>1, <1>2, ExitOnCpuEffect
  <1>4. work_queue' \in [Cpus -> Seq(Messages)]
    BY Zenon, <1>1, ConsumeShape DEF EpochInv
  <1>5. TypeOK'
    BY <1>1, <1>3, <1>4 DEF EpochInv, TypeOK, clocks, lists, control
  <1> QED
    BY Zenon, <1>1, <1>3, <1>5, ConsumeStep

\* A commit tells CPU c that every epoch before m.epoch is unused: CommitsSound
\* is what makes the new released epoch quiet.
LEMMA CommitInv ==
  ASSUME EpochInv, NEW c \in Cpus, work_queue[c] # <<>>,
         NEW m \in Messages, m = Head(work_queue[c]), m.type = "COMMIT",
         Commit(c, m)
  PROVE  EpochInv'
  <1>1. /\ timer_armed' = [timer_armed EXCEPT ![c] = FALSE]
        /\ released_epoch' = [released_epoch EXCEPT ![c] = m.epoch - 1]
        /\ flush' = [flush EXCEPT ![c] = Append(@, Release)]
        /\ current_epoch' = current_epoch
        /\ UNCHANGED <<sessions, timer, lists, control, pc>>
    BY Zenon DEF Commit, CommitAs
  <1>2. m.epoch \in Nat /\ m.current \in Nat /\ m.owner \in Clients \cup {Timer}
    BY DEF Messages
  <1>3. /\ m.epoch >= 1
        /\ \A d \in Cpus :
              /\ m.epoch =< current_epoch[d]
              /\ \A t \in epoch_state_list[d] : m.epoch =< epoch[t]
    BY HeadMessage DEF EpochInv, CommitsSound
  <1>4. PICK dst \in Cpus, n \in Messages :
          /\ Forward(c, dst, n)
          /\ n.type # "PROPOSE"
          /\ n.type = "COMMIT" => n = m
    <2>1. CASE c = Last0
      <3> DEFINE n == Message("COMPLETE", m.current, m.epoch, m.owner)
      <3>1. n \in Messages /\ n.type = "COMPLETE"
        BY <1>2, MessageType DEF MessageTypes
      <3>2. Forward(c, 0, n)
        BY <2>1 DEF Commit, CommitAs
      <3> HIDE DEF n
      <3> QED
        BY <3>1, <3>2, ZeroIsCpu
    <2>2. CASE c # Last0
      <3>1. c + 1 \in Cpus
        BY <2>2, EpochAssumption DEF Cpus, Last0
      <3>2. Forward(c, c + 1, m)
        BY <2>2 DEF Commit, CommitAs
      <3> QED
        BY Zenon, <3>1, <3>2
    <2> QED
      BY <2>1, <2>2
  <1>5. work_queue' \in [Cpus -> Seq(Messages)] /\ Moved(ShiftOf(c), dst, n)
    BY <1>4, ForwardShape DEF EpochInv
  <1>6. released_epoch' \in [Cpus -> Nat]
    <2>1. released_epoch \in [Cpus -> Nat]
      BY DEF EpochInv, TypeOK
    <2>2. m.epoch - 1 \in Nat
      BY <1>2, <1>3
    <2> QED
      BY <1>1, <2>1, <2>2
  <1>7. flush' \in [Cpus -> Seq(Threads \cup {Dpc, Release})]
    <2>1. Append(flush[c], Release) \in Seq(Threads \cup {Dpc, Release})
      BY AppendProperties DEF EpochInv, TypeOK
    <2> QED
      BY <1>1, <2>1 DEF EpochInv, TypeOK
  <1>8. timer_armed' \in [Cpus -> BOOLEAN]
    BY <1>1 DEF EpochInv, TypeOK
  <1>9. TypeOK'
    BY Zenon, <1>1, <1>5, <1>6, <1>7, <1>8
    DEF EpochInv, TypeOK, sessions, lists, control
  <1>10. SessionsAreOldOrFresh /\ LinkedHaveEntered'
    BY Zenon, <1>1, SameSessions, SameEntered DEF sessions, EpochInv, TypeOK
  <1>11. ClocksGrow /\ ClocksOrdered'
    <2>1. current_epoch \in [Cpus -> Nat] /\ ClocksOrdered
      BY DEF EpochInv, TypeOK
    <2> QED
      BY <1>1, <2>1 DEF ClocksGrow, ClocksOrdered
  <1>12. OldProposalsNew(ShiftOf(c))
    BY <1>1 DEF OldProposalsNew, EpochInv, ProposalsSound
  <1>13. NewProposalSound(dst, n)
    BY <1>4 DEF NewProposalSound
  <1>14. NewCommitSound(n)
    BY Zenon, <1>1, <1>3, <1>4 DEF NewCommitSound, sessions
  <1>15. ProposalsSound' /\ CommitsSound'
    BY Zenon, <1>5, <1>9, <1>10, <1>11, <1>12, <1>13, <1>14, ProposalsStep,
       CommitsStep, ShiftTypes
  <1>16. ReleasedEpochQuiet'
    <2> SUFFICES ASSUME NEW a \in Cpus, NEW d \in Cpus
                 PROVE  /\ released_epoch'[a] < current_epoch[d]
                        /\ \A t \in epoch_state_list[d] :
                              released_epoch'[a] < epoch[t]
      BY Zenon, <1>1 DEF ReleasedEpochQuiet, sessions
    <2>1. CASE a = c
      <3>1. released_epoch'[a] = m.epoch - 1
        BY <1>1, <2>1 DEF EpochInv, TypeOK
      <3>2. \A t \in epoch_state_list[d] : epoch[t] \in Nat
        BY DEF EpochInv, TypeOK
      <3>3. current_epoch[d] \in Nat
        BY DEF EpochInv, TypeOK
      <3> QED
        BY <1>2, <1>3, <3>1, <3>2, <3>3
    <2>2. CASE a # c
      <3>1. released_epoch'[a] = released_epoch[a]
        BY <1>1, <2>2 DEF EpochInv, TypeOK
      <3> QED
        BY <3>1 DEF EpochInv, ReleasedEpochQuiet
    <2> QED
      BY Zenon, <2>1, <2>2
  <1> QED
    BY <1>9, <1>10, <1>11, <1>15, <1>16 DEF EpochInv

\* A proposal raises the clock of CPU c, but not above the CPUs it has visited,
\* and leaves with the least epoch of the sessions on those CPUs and on c.
LEMMA ProposeInv ==
  ASSUME EpochInv, NEW c \in Cpus, work_queue[c] # <<>>,
         NEW m \in Messages, m = Head(work_queue[c]), m.type = "PROPOSE",
         Propose(c, m)
  PROVE  EpochInv'
  <1> DEFINE now == Now(c, m)
             proposed == Proposed(c, m)
             seen == {proposed} \cup SessionEpochs(c)
  <1>0. TypeOK
    BY DEF EpochInv
  <1>1. /\ current_epoch' = [current_epoch EXCEPT ![c] = now]
        /\ UNCHANGED <<released_epoch, sessions, timers, lists, control, flush,
                       pc>>
    BY Zenon DEF Propose, ProposeAs
  <1>2. PICK minimum \in seen :
          /\ \A x \in seen : minimum =< x
          /\ IF c = Last0
             THEN Forward(c, 0, Message("COMMIT", now, minimum, m.owner))
             ELSE Forward(c, c + 1, Message("PROPOSE", now, minimum, m.owner))
    BY Zenon DEF Propose, ProposeAs, IsMinimum
  <1>3. c # 0 =>
          /\ m.epoch \in 1 .. m.current
          /\ current_epoch[c] < m.current
          /\ m.current =< current_epoch[c - 1]
          /\ \A d \in 0 .. c - 1 : \A t \in epoch_state_list[d] :
                m.epoch =< epoch[t]
    <2>1. m = work_queue[c][1] /\ 1 \in 1 .. Len(work_queue[c])
      BY <1>0, HeadMessage
    <2> QED
      BY <2>1 DEF EpochInv, ProposalsSound
  <1>4. m.current \in Nat /\ m.epoch \in Nat /\ m.owner \in Clients \cup {Timer}
    BY Zenon DEF Messages
  <1>5. \A d \in Cpus : current_epoch[d] \in Nat /\ released_epoch[d] \in Nat
    BY <1>0 DEF TypeOK
  <1>6. /\ now \in Nat /\ current_epoch[c] < now
        /\ proposed \in Nat /\ 1 =< proposed /\ proposed =< now
    <2>1. CASE c = 0
      BY <1>5, <2>1 DEF Now, Proposed
    <2>2. CASE c # 0
      <3>1. now = m.current /\ proposed = m.epoch
        BY <2>2 DEF Now, Proposed
      <3> QED
        BY <1>3, <1>4, <2>2, <3>1
    <2> QED
      BY Zenon, <2>1, <2>2
  <1>7. \A d \in Cpus : d < c => now =< current_epoch[d]
    <2> SUFFICES ASSUME NEW d \in Cpus, d < c
                 PROVE  now =< current_epoch[d]
      OBVIOUS
    <2>1. c # 0 /\ c - 1 \in Cpus /\ d =< c - 1
      BY EpochAssumption DEF Cpus
    <2>2. current_epoch[c - 1] =< current_epoch[d]
      BY <2>1 DEF EpochInv, ClocksOrdered
    <2> QED
      <3>1. now = m.current
        BY <2>1 DEF Now
      <3>2. m.current =< current_epoch[c - 1]
        BY <1>3, <2>1
      <3> QED
        BY <1>4, <1>5, <2>1, <2>2, <3>1, <3>2
  <1>8. \A d \in Cpus : \A t \in epoch_state_list[d] :
           epoch[t] \in Nat /\ 1 =< epoch[t]
    <2> SUFFICES ASSUME NEW d \in Cpus, NEW t \in epoch_state_list[d]
                 PROVE  epoch[t] \in Nat /\ 1 =< epoch[t]
      OBVIOUS
    <2>1. epoch[t] \in Nat
      BY <1>0 DEF TypeOK
    <2>2. released_epoch[d] < epoch[t]
      BY Zenon DEF EpochInv, ReleasedEpochQuiet
    <2> QED
      BY <1>5, <2>1, <2>2
  <1>9. /\ minimum \in Nat /\ 1 =< minimum /\ minimum =< proposed
        /\ \A t \in epoch_state_list[c] : minimum =< epoch[t]
    BY Zenon, <1>2, <1>6, <1>8 DEF SessionEpochs
  <1>10. \A d \in 0 .. c : \A t \in epoch_state_list[d] : minimum =< epoch[t]
    <2> SUFFICES ASSUME NEW d \in 0 .. c, NEW t \in epoch_state_list[d]
                 PROVE  minimum =< epoch[t]
      OBVIOUS
    <2>1. CASE d = c
      BY <1>9, <2>1
    <2>2. CASE d # c
      <3>1. c # 0 /\ d \in 0 .. c - 1 /\ d \in Cpus
        BY <2>2, EpochAssumption DEF Cpus
      <3>2. m.epoch =< epoch[t] /\ minimum =< m.epoch
        BY <1>3, <1>9, <3>1 DEF Proposed
      <3> QED
        BY <1>4, <1>8, <1>9, <3>1, <3>2
    <2> QED
      BY Zenon, <2>1, <2>2
  <1> HIDE DEF now, proposed, seen
  <1>11. /\ \A d \in Cpus : d # c => current_epoch'[d] = current_epoch[d]
         /\ current_epoch'[c] = now
         /\ epoch_state_list' = epoch_state_list /\ epoch' = epoch
         /\ released_epoch' = released_epoch
    BY <1>0, <1>1 DEF TypeOK, sessions
  <1>12. ClocksGrow
    <2> SUFFICES ASSUME NEW d \in Cpus
                 PROVE  current_epoch[d] =< current_epoch'[d]
      BY DEF ClocksGrow
    <2>1. CASE d = c
      BY <1>5, <1>6, <1>11, <2>1
    <2>2. CASE d # c
      BY <1>5, <1>11, <2>2
    <2> QED
      BY <2>1, <2>2
  <1>13. ClocksOrdered'
    <2> SUFFICES ASSUME NEW a \in Cpus, NEW d \in Cpus, a =< d
                 PROVE  current_epoch'[d] =< current_epoch'[a]
      BY Zenon DEF ClocksOrdered
    <2>1. current_epoch[d] =< current_epoch[a]
      BY DEF EpochInv, ClocksOrdered
    <2>2. CASE a = c
      BY <1>5, <1>6, <1>11, <2>1, <2>2
    <2>3. CASE a # c /\ d = c
      <3>1. a < c
        BY <2>3 DEF Cpus
      <3> QED
        BY <1>7, <1>11, <2>3, <3>1
    <2>4. CASE a # c /\ d # c
      BY <1>11, <2>1, <2>4
    <2> QED
      BY <2>2, <2>3, <2>4
  <1>14. OldProposalsNew(ShiftOf(c))
    <2> SUFFICES ASSUME NEW d \in Cpus \ {0},
                        NEW i \in 1 .. Len(work_queue[d]),
                        ShiftOf(c)[d] < i, work_queue[d][i].type = "PROPOSE"
                 PROVE  current_epoch'[d] < work_queue[d][i].current
      BY DEF OldProposalsNew
    <2>1. CASE d = c
      <3>1. 1 \in 1 .. i - 1
        BY <2>1 DEF ShiftOf
      <3>2. work_queue[c][1] = m
        BY <1>0, HeadMessage
      <3>3. m.current < work_queue[c][i].current
        BY Zenon, <2>1, <3>1, <3>2 DEF EpochInv, ProposalsSound
      <3>4. now = m.current
        BY <2>1 DEF now, Now
      <3> QED
        BY Zenon, <1>11, <2>1, <3>3, <3>4
    <2>2. CASE d # c
      BY Zenon, <1>11, <2>2 DEF EpochInv, ProposalsSound
    <2> QED
      BY <2>1, <2>2
  <1>15. SessionsAreOldOrFresh /\ LinkedHaveEntered'
    BY Zenon, <1>1, SameSessions, SameEntered DEF sessions, EpochInv, TypeOK
  <1>17. PICK dst \in Cpus, n \in Messages :
           Forward(c, dst, n) /\ NewProposalSound(dst, n) /\ NewCommitSound(n)
    <2>1. CASE c = Last0
      <3> DEFINE n == Message("COMMIT", now, minimum, m.owner)
      <3>1. n \in Messages /\ n.type = "COMMIT" /\ n.epoch = minimum
        BY <1>4, <1>6, <1>9, RingMessageType
      <3>2. Forward(c, 0, n)
        BY Zenon, <1>2, <2>1
      <3> HIDE DEF n
      <3>3. \A d \in Cpus : minimum =< current_epoch'[d]
        <4> SUFFICES ASSUME NEW d \in Cpus PROVE minimum =< current_epoch'[d]
          OBVIOUS
        <4>1. minimum =< now
          BY <1>6, <1>9
        <4>2. CASE d = c
          BY <1>11, <4>1, <4>2
        <4>3. CASE d # c
          <5>1. d < c
            BY <2>1, <4>3, EpochAssumption DEF Cpus, Last0
          <5> QED
            BY <1>5, <1>6, <1>7, <1>9, <1>11, <4>1, <4>3, <5>1
        <4> QED
          BY <4>2, <4>3
      <3>4. \A d \in Cpus : \A t \in epoch_state_list'[d] : minimum =< epoch'[t]
        <4>1. Cpus = 0 .. c
          BY <2>1 DEF Cpus, Last0
        <4> QED
          BY <1>10, <1>11, <4>1
      <3>5. NewCommitSound(n)
        BY <1>9, <3>1, <3>3, <3>4 DEF NewCommitSound
      <3>6. NewProposalSound(0, n)
        BY DEF NewProposalSound
      <3> QED
        BY <3>1, <3>2, <3>5, <3>6, ZeroIsCpu
    <2>2. CASE c # Last0
      <3> DEFINE n == Message("PROPOSE", now, minimum, m.owner)
                 dst == c + 1
      <3>1. /\ n \in Messages /\ n.type = "PROPOSE" /\ n.epoch = minimum
            /\ n.current = now
        BY <1>4, <1>6, <1>9, RingMessageType
      <3>2. Forward(c, dst, n)
        BY <1>2, <2>2
      <3>3. /\ dst \in Cpus \ {0} /\ dst # c /\ dst - 1 = c
            /\ 0 .. dst - 1 = 0 .. c /\ c < dst
        BY <2>2, EpochAssumption DEF Cpus, Last0
      <3> HIDE DEF n, dst
      <3>4. minimum \in 1 .. now
        BY <1>6, <1>9
      <3>5. current_epoch'[dst] < now
        <4>1. current_epoch[dst] =< current_epoch[c]
          BY <3>3 DEF EpochInv, ClocksOrdered, Cpus
        <4> QED
          BY <1>5, <1>6, <1>11, <3>3, <4>1
      <3>6. now =< current_epoch'[dst - 1]
        BY <1>6, <1>11, <3>3
      <3>7. \A d \in 0 .. dst - 1 : \A t \in epoch_state_list'[d] :
               minimum =< epoch'[t]
        BY <1>10, <1>11, <3>3
      <3>8. \A j \in 1 .. Len(work_queue[dst]) :
               work_queue[dst][j].type = "PROPOSE" =>
                   work_queue[dst][j].current < now
        <4> SUFFICES ASSUME NEW j \in 1 .. Len(work_queue[dst]),
                            work_queue[dst][j].type = "PROPOSE"
                     PROVE  work_queue[dst][j].current < now
          OBVIOUS
        <4>1. work_queue[dst][j].current =< current_epoch[c]
          BY <3>3 DEF EpochInv, ProposalsSound
        <4>2. work_queue[dst][j] \in Messages
          BY <1>0, <3>3, ElementOfSeq DEF TypeOK
        <4>3. work_queue[dst][j].current \in Nat
          BY <4>2 DEF Messages
        <4> QED
          BY <1>5, <1>6, <4>1, <4>3
      <3>9. NewProposalSound(dst, n)
        BY <3>1, <3>4, <3>5, <3>6, <3>7, <3>8 DEF NewProposalSound
      <3>10. NewCommitSound(n)
        BY <3>1 DEF NewCommitSound
      <3> QED
        BY <3>1, <3>2, <3>3, <3>9, <3>10
    <2> QED
      BY Zenon, <2>1, <2>2
  <1>18. work_queue' \in [Cpus -> Seq(Messages)] /\ Moved(ShiftOf(c), dst, n)
    BY Zenon, <1>0, <1>17, ForwardShape
  <1>19. current_epoch' \in [Cpus -> Nat]
    BY <1>0, <1>1, <1>6 DEF TypeOK
  <1>20. TypeOK'
    BY Zenon, <1>0, <1>1, <1>18, <1>19
    DEF TypeOK, sessions, timers, lists, control
  <1>21. ProposalsSound' /\ CommitsSound'
    BY Zenon, <1>12, <1>14, <1>15, <1>17, <1>18, <1>20, ProposalsStep, CommitsStep,
       ShiftTypes
  <1>22. ReleasedEpochQuiet'
    BY Zenon, <1>11, <1>12, <1>15, <1>20, QuietStep
  <1> QED
    BY Zenon, <1>13, <1>15, <1>20, <1>21, <1>22 DEF EpochInv

LEMMA MessengerWorkerInv ==
  ASSUME EpochInv, NEW c \in Cpus, MessengerWorker(c)
  PROVE  EpochInv'
  <1> DEFINE m == Head(work_queue[c])
  <1>1. work_queue[c] # <<>>
    BY Zenon DEF MessengerWorker
  <1>2. m \in Messages
    BY <1>1, HeadMessage DEF EpochInv
  <1>3. CASE /\ Consume(c)
             /\ UNCHANGED <<clocks, sessions, timers, lists, control, flush,
                            pc>>
    BY <1>1, <1>3, DropInv
  <1>4. CASE m.type = "PROPOSE" /\ Propose(c, m)
    BY <1>1, <1>2, <1>4, ProposeInv
  <1>5. CASE m.type = "COMMIT" /\ Commit(c, m)
    BY <1>1, <1>2, <1>5, CommitInv
  <1>6. CASE m.type = "COMPLETE" /\ Complete(c, m)
    BY <1>1, <1>2, <1>6, CompleteInv
  <1>7. CASE m.type = "EXIT_EPOCH" /\ ExitEpoch(c, m)
    BY <1>1, <1>2, <1>7, ExitEpochInv
  <1>8. CASE m.type = "RUNDOWN" /\ Rundown(c, m)
    BY <1>1, <1>2, <1>8, RundownInv
  <1> QED
    BY Zenon, <1>3, <1>4, <1>5, <1>6, <1>7, <1>8 DEF MessengerWorker

LEMMA StutterInv ==
  ASSUME EpochInv, UNCHANGED vars
  PROVE  EpochInv'
  <1>1. TypeOK'
    BY DEF EpochInv, TypeOK, vars, clocks, sessions, timers, lists, control
  <1> QED
    BY <1>1, LocalStep DEF vars

LEMMA NextKeepsInv ==
  ASSUME EpochInv, [Next]_vars
  PROVE  EpochInv'
  <1>1. ASSUME NEW t \in Threads, ThreadNext(t)
        PROVE  EpochInv'
    BY <1>1, EpochEnterInv, EpochExitInv, EpochExitMovedInv DEF ThreadNext
  <1>2. ASSUME NEW m \in Memory, NEW c \in Cpus, EpochFree(m, c)
        PROVE  EpochInv'
    BY <1>2, EpochFreeInv
  <1>3. ASSUME NEW w \in WorkItems, WorkItemNext(w)
        PROVE  EpochInv'
    BY <1>3, ClientStepsInv, ScheduleWorkItemInv DEF WorkItemNext
  <1>4. ASSUME NEW p \in SyncClients, SynchronizeNext(p)
        PROVE  EpochInv'
    BY <1>4, ClientStepsInv, SynchronizeInsertInv, SynchronizeSendInv
    DEF SynchronizeNext
  <1>5. ASSUME NEW c \in Cpus, CpuNext(c)
        PROVE  EpochInv'
    BY <1>5, FlushStartInv, FlushReturnInv, MessengerWorkerInv,
       CommitReleaseInv DEF CpuNext
  <1>6. ASSUME TerminateNext
        PROVE  EpochInv'
    BY <1>6, TerminateRundownInv, TerminateCancelTimerInv, ClientStepsInv,
       TerminateCpuInv, StutterInv DEF TerminateNext, Down
  <1> QED
    BY <1>1, <1>2, <1>3, <1>4, <1>5, <1>6, TimerWorkerInv, StutterInv DEF Next

\* EpochInv, and with it the type invariant, holds in every state of the epoch
\* engine, whatever the number of CPUs, sessions and entries.
THEOREM EpochInvariant == Spec => []EpochInv
  <1>1. Init => EpochInv
    BY InitEstablishesInv
  <1>2. EpochInv /\ [Next]_vars => EpochInv'
    BY NextKeepsInv
  <1> QED
    BY <1>1, <1>2, PTL DEF Spec

\* The release clock of ebpf_epoch.c is sound: at no time is code executing in,
\* or able to enter, an epoch that some CPU has recorded as released.
THEOREM ReleasedEpochIsQuiet == Spec => []ReleasedEpochQuiet
  <1>1. EpochInv => ReleasedEpochQuiet
    BY DEF EpochInv
  <1> QED
    BY <1>1, EpochInvariant, PTL

\* The clocks of the CPUs never overtake those of the CPUs before them.
THEOREM ClocksAreOrdered == Spec => []ClocksOrdered
  <1>1. EpochInv => ClocksOrdered
    BY DEF EpochInv
  <1> QED
    BY <1>1, EpochInvariant, PTL
=============================================================================
