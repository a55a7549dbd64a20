--------------------------- MODULE EbpfEpochSteps ---------------------------
(***************************************************************************)
(* Lemmas about EbpfEpoch: what the helpers of the free lists and queues   *)
(* return, and sufficient conditions for a step to preserve EpochInv.      *)
(***************************************************************************)
EXTENDS EbpfEpoch, SequenceTheorems, TLAPS

LEMMA ArmTimerType ==
  ASSUME TypeOK, NEW c \in Cpus, NEW armed \in BOOLEAN, NEW list,
         ArmTimerIfNeeded(c, armed, list)
  PROVE  timer_armed' \in [Cpus -> BOOLEAN] /\ timer' \in BOOLEAN
  <1>1. (~rundown_in_progress[c] /\ ~armed /\ list # <<>>) \in BOOLEAN
    OBVIOUS
  <1> QED
    BY <1>1 DEF TypeOK, ArmTimerIfNeeded

LEMMA InsertType ==
  ASSUME TypeOK, NEW c \in Cpus, NEW e \in Entries, InsertInFreeList(c, e)
  PROVE  /\ timer_armed' \in [Cpus -> BOOLEAN] /\ timer' \in BOOLEAN
         /\ free_list' \in [Cpus -> Seq(Entries)]
         /\ freed_epoch' \in [Entries -> Nat]
         /\ entry_state' \in [Entries -> {"owned", "freed", "released"}]
         /\ readers' \in [Entries -> SUBSET Threads]
  <1>1. readers' \in [Entries -> SUBSET Threads]
    BY DEF InsertInFreeList, OpenSessions, TypeOK
  <1>2. CASE rundown_in_progress[c]
    BY Zenon, <1>1, <1>2 DEF InsertInFreeList, TypeOK, timers
  <1>3. CASE ~rundown_in_progress[c]
    <2>1. ArmTimerIfNeeded(c, timer_armed[c], free_list'[c])
      BY <1>3 DEF InsertInFreeList
    <2>2. timer_armed' \in [Cpus -> BOOLEAN] /\ timer' \in BOOLEAN
      BY Zenon, <2>1, ArmTimerType DEF TypeOK
    <2>3. free_list' \in [Cpus -> Seq(Entries)]
      <3>1. free_list' = [free_list EXCEPT ![c] = Append(@, e)]
        BY <1>3 DEF InsertInFreeList
      <3>2. Append(free_list[c], e) \in Seq(Entries)
        BY AppendProperties DEF TypeOK
      <3> QED
        BY <3>1, <3>2 DEF TypeOK
    <2>4. freed_epoch' \in [Entries -> Nat]
      <3>1. freed_epoch' = [freed_epoch EXCEPT ![e] = current_epoch[c]]
        BY <1>3 DEF InsertInFreeList
      <3> QED
        BY <3>1 DEF TypeOK
    <2>5. entry_state' \in [Entries -> {"owned", "freed", "released"}]
      BY Zenon, <1>3 DEF InsertInFreeList, TypeOK
    <2> QED
      BY <1>1, <2>2, <2>3, <2>4, <2>5
  <1> QED
    BY <1>2, <1>3

LEMMA ReleaseType ==
  ASSUME TypeOK, NEW c \in Cpus, NEW limit, ReleaseFreeList(c, limit)
  PROVE  /\ timer_armed' \in [Cpus -> BOOLEAN] /\ timer' \in BOOLEAN
         /\ free_list' \in [Cpus -> Seq(Entries)]
         /\ entry_state' \in [Entries -> {"owned", "freed", "released"}]
         /\ UNCHANGED <<freed_epoch, readers>>
  <1>1. PICK n \in 0 .. Len(free_list[c]) :
          /\ free_list' =
               [free_list EXCEPT ![c] = SubSeq(@, n + 1, Len(@))]
          /\ entry_state' = [e \in Entries |->
               IF e \in {free_list[c][i] : i \in 1 .. n}
               THEN "released" ELSE entry_state[e]]
          /\ ArmTimerIfNeeded(c, timer_armed[c], free_list'[c])
          /\ UNCHANGED <<freed_epoch, readers>>
    BY Zenon DEF ReleaseFreeList
  <1>2. timer_armed' \in [Cpus -> BOOLEAN] /\ timer' \in BOOLEAN
    BY Zenon, <1>1, ArmTimerType DEF TypeOK
  <1>3. SubSeq(free_list[c], n + 1, Len(free_list[c])) \in Seq(Entries)
    BY SubSeqProperties DEF TypeOK
  <1>4. free_list' \in [Cpus -> Seq(Entries)]
    BY <1>1, <1>3 DEF TypeOK
  <1>5. entry_state' \in [Entries -> {"owned", "freed", "released"}]
    BY <1>1 DEF TypeOK
  <1> QED
    BY <1>1, <1>2, <1>4, <1>5

-----------------------------------------------------------------------------
(* How a step may change the queues.  Moved says that the message at place *)
(* i of queue d was at place i + s[d] before the step, or is m, put at the *)
(* end of the queue of dst.                                                *)

Moved(s, dst, m) ==
    \A d \in Cpus : \A i \in 1 .. Len(work_queue'[d]) :
        \/ /\ i + s[d] \in 1 .. Len(work_queue[d])
           /\ work_queue'[d][i] = work_queue[d][i + s[d]]
        \/ /\ d = dst /\ i = Len(work_queue'[d])
           /\ work_queue'[d][i] = m

NoShift == [d \in Cpus |-> 0]

ShiftOf(c) == [d \in Cpus |-> IF d = c THEN 1 ELSE 0]

LEMMA SendShape ==
  ASSUME TypeOK, NEW c \in Cpus, NEW m \in Messages,
         work_queue' = [work_queue EXCEPT ![c] = Append(@, m)]
  PROVE  /\ work_queue' \in [Cpus -> Seq(Messages)]
         /\ Moved(NoShift, c, m)
  <1>1. /\ Append(work_queue[c], m) \in Seq(Messages)
        /\ Len(Append(work_queue[c], m)) = Len(work_queue[c]) + 1
        /\ \A i \in 1 .. Len(work_queue[c]) :
              Append(work_queue[c], m)[i] = work_queue[c][i]
        /\ Append(work_queue[c], m)[Len(work_queue[c]) + 1] = m
    BY AppendProperties DEF TypeOK
  <1>2. work_queue' \in [Cpus -> Seq(Messages)]
    BY <1>1 DEF TypeOK
  <1>3. ASSUME NEW d \in Cpus, NEW i \in 1 .. Len(work_queue'[d])
        PROVE  \/ /\ i + NoShift[d] \in 1 .. Len(work_queue[d])
                  /\ work_queue'[d][i] = work_queue[d][i + NoShift[d]]
               \/ /\ d = c /\ i = Len(work_queue'[d])
                  /\ work_queue'[d][i] = m
    <2>1. NoShift[d] = 0
      BY DEF NoShift
    <2>2. Len(work_queue[c]) \in Nat /\ Len(work_queue[d]) \in Nat
      BY LenProperties DEF TypeOK
    <2>3. CASE d = c
      <3>1. work_queue'[d] = Append(work_queue[c], m)
        BY <2>3 DEF TypeOK
      <3> QED
        BY <1>1, <2>1, <2>2, <2>3, <3>1
    <2>4. CASE d # c
      <3>1. work_queue'[d] = work_queue[d]
        BY <2>4 DEF TypeOK
      <3> QED
        BY <2>1, <2>2, <3>1
    <2> QED
      BY <2>3, <2>4
  <1> QED
    BY <1>2, <1>3 DEF Moved

LEMMA ConsumeShape ==
  ASSUME TypeOK, NEW c \in Cpus, work_queue[c] # <<>>, Consume(c)
  PROVE  /\ work_queue' \in [Cpus -> Seq(Messages)]
         /\ \A dst \in Cpus, m \in Messages : Moved(ShiftOf(c), dst, m)
  <1>1. /\ Tail(work_queue[c]) \in Seq(Messages)
        /\ Len(Tail(work_queue[c])) = Len(work_queue[c]) - 1
        /\ \A i \in 1 .. Len(Tail(work_queue[c])) :
              Tail(work_queue[c])[i] = work_queue[c][i + 1]
        /\ Len(work_queue[c]) \in Nat
    BY HeadTailProperties, LenProperties DEF TypeOK
  <1>2. work_queue' \in [Cpus -> Seq(Messages)]
    BY <1>1 DEF TypeOK, Consume
  <1>3. ASSUME NEW d \in Cpus, NEW i \in 1 .. Len(work_queue'[d])
        PROVE  /\ i + ShiftOf(c)[d] \in 1 .. Len(work_queue[d])
               /\ work_queue'[d][i] = work_queue[d][i + ShiftOf(c)[d]]
    <2>1. CASE d = c
      <3>1. work_queue'[d] = Tail(work_queue[c])
        BY <2>1 DEF TypeOK, Consume
      <3> QED
        BY <1>1, <2>1, <3>1 DEF ShiftOf
    <2>2. CASE d # c
      <3>1. work_queue'[d] = work_queue[d]
        BY <2>2 DEF TypeOK, Consume
      <3>2. Len(work_queue[d]) \in Nat
        BY LenProperties DEF TypeOK
      <3> QED
        BY <2>2, <3>1, <3>2 DEF ShiftOf
    <2> QED
      BY <2>1, <2>2
  <1> QED
    BY <1>2, <1>3 DEF Moved

LEMMA ForwardShape ==
  ASSUME TypeOK, NEW c \in Cpus, NEW dst \in Cpus, NEW m \in Messages,
         work_queue[c] # <<>>, Forward(c, dst, m)
  PROVE  /\ work_queue' \in [Cpus -> Seq(Messages)]
         /\ Moved(ShiftOf(c), dst, m)
  <1> DEFINE rest == [work_queue EXCEPT ![c] = Tail(@)]
  <1>1. /\ Tail(work_queue[c]) \in Seq(Messages)
        /\ Len(Tail(work_queue[c])) = Len(work_queue[c]) - 1
        /\ \A i \in 1 .. Len(Tail(work_queue[c])) :
              Tail(work_queue[c])[i] = work_queue[c][i + 1]
    BY HeadTailProperties DEF TypeOK
  <1>2. rest \in [Cpus -> Seq(Messages)]
    BY <1>1 DEF TypeOK
  <1>3. \A d \in Cpus : Len(rest[d]) \in Nat /\ Len(work_queue[d]) \in Nat
    BY <1>2, LenProperties DEF TypeOK
  <1>4. \A d \in Cpus : \A i \in 1 .. Len(rest[d]) :
            /\ i + ShiftOf(c)[d] \in 1 .. Len(work_queue[d])
            /\ rest[d][i] = work_queue[d][i + ShiftOf(c)[d]]
    <2> SUFFICES ASSUME NEW d \in Cpus, NEW i \in 1 .. Len(rest[d])
                 PROVE  /\ i + ShiftOf(c)[d] \in 1 .. Len(work_queue[d])
                        /\ rest[d][i] = work_queue[d][i + ShiftOf(c)[d]]
      OBVIOUS
    <2>1. CASE d = c
      <3>1. rest[d] = Tail(work_queue[c])
        BY <2>1 DEF TypeOK
      <3>2. ShiftOf(c)[d] = 1
        BY <2>1 DEF ShiftOf
      <3> HIDE DEF rest
      <3>3. i \in 1 .. Len(work_queue[c]) - 1
        BY <1>1, <3>1
      <3> QED
        BY <1>1, <1>3, <2>1, <3>1, <3>2, <3>3
    <2>2. CASE d # c
      <3>1. rest[d] = work_queue[d]
        BY <2>2 DEF TypeOK
      <3> QED
        BY <1>3, <2>2, <3>1 DEF ShiftOf
    <2> QED
      BY <2>1, <2>2
  <1>5. work_queue' = [rest EXCEPT ![dst] = Append(@, m)]
    BY DEF Forward
  <1> HIDE DEF rest
  <1>6. /\ Append(rest[dst], m) \in Seq(Messages)
        /\ Len(Append(rest[dst], m)) = Len(rest[dst]) + 1
        /\ \A i \in 1 .. Len(rest[dst]) : Append(rest[dst], m)[i] = rest[dst][i]
        /\ Append(rest[dst], m)[Len(rest[dst]) + 1] = m
    BY <1>2, AppendProperties
  <1>7. work_queue' \in [Cpus -> Seq(Messages)]
    BY <1>2, <1>5, <1>6
  <1>8. ASSUME NEW d \in Cpus, NEW i \in 1 .. Len(work_queue'[d])
        PROVE  \/ /\ i + ShiftOf(c)[d] \in 1 .. Len(work_queue[d])
                  /\ work_queue'[d][i] = work_queue[d][i + ShiftOf(c)[d]]
               \/ /\ d = dst /\ i = Len(work_queue'[d])
                  /\ work_queue'[d][i] = m
    <2>1. CASE d = dst
      <3>1. work_queue'[d] = Append(rest[dst], m)
        BY <1>2, <1>5, <2>1
      <3>2. CASE i \in 1 .. Len(rest[dst])
        BY <1>4, <1>6, <2>1, <3>1, <3>2
      <3>3. CASE i \notin 1 .. Len(rest[dst])
        <4>1. Len(work_queue'[d]) = Len(rest[dst]) + 1
          BY <1>6, <3>1
        <4>2. i = Len(rest[dst]) + 1
          BY <1>3, <3>3, <4>1
        <4> QED
          BY <1>6, <2>1, <3>1, <4>1, <4>2
      <3> QED
        BY <3>2, <3>3
    <2>2. CASE d # dst
      <3>1. work_queue'[d] = rest[d]
        BY <1>2, <1>5, <2>2
      <3> QED
        BY <1>4, <3>1
    <2> QED
      BY <2>1, <2>2
  <1> QED
    BY <1>7, <1>8 DEF Moved

-----------------------------------------------------------------------------
(* What a step may do to the clocks and the sessions.                      *)

ClocksGrow == \A d \in Cpus : current_epoch[d] =< current_epoch'[d]

SessionsAreOldOrFresh ==
    \A d \in Cpus : \A t \in epoch_state_list'[d] :
        \/ t \in epoch_state_list[d] /\ epoch'[t] = epoch[t]
        \/ epoch'[t] = current_epoch[d]

LEMMA QuietStep ==
  ASSUME EpochInv, TypeOK', ClocksGrow, SessionsAreOldOrFresh,
         released_epoch' = released_epoch
  PROVE  ReleasedEpochQuiet'
  <1> SUFFICES ASSUME NEW c \in Cpus, NEW d \in Cpus
               PROVE  /\ released_epoch'[c] < current_epoch'[d]
                      /\ \A t \in epoch_state_list'[d] :
                            released_epoch'[c] < epoch'[t]
    BY DEF ReleasedEpochQuiet
  <1>1. /\ released_epoch[c] \in Nat /\ current_epoch[d] \in Nat
        /\ current_epoch'[d] \in Nat
    BY DEF EpochInv, TypeOK
  <1>2. /\ released_epoch[c] < current_epoch[d]
        /\ \A t \in epoch_state_list[d] : released_epoch[c] < epoch[t]
    BY DEF EpochInv, ReleasedEpochQuiet
  <1>3. current_epoch[d] =< current_epoch'[d]
    BY DEF ClocksGrow
  <1>4. ASSUME NEW t \in epoch_state_list'[d]
        PROVE  released_epoch[c] < epoch'[t]
    BY <1>2 DEF SessionsAreOldOrFresh
  <1> QED
    BY <1>1, <1>2, <1>3, <1>4

\* Proposals that stay on a queue remain newer than the clock of its CPU.
OldProposalsNew(s) ==
    \A d \in Cpus \ {0} : \A i \in 1 .. Len(work_queue[d]) :
        s[d] < i /\ work_queue[d][i].type = "PROPOSE" =>
            current_epoch'[d] < work_queue[d][i].current

\* What a message that joins the queue of dst must satisfy.
NewProposalSound(dst, m) ==
    dst # 0 /\ m.type = "PROPOSE" =>
        /\ m.epoch \in 1 .. m.current
        /\ current_epoch'[dst] < m.current
        /\ m.current =< current_epoch'[dst - 1]
        /\ \A d \in 0 .. dst - 1 : \A t \in epoch_state_list'[d] :
              m.epoch =< epoch'[t]
        /\ \A j \in 1 .. Len(work_queue[dst]) :
              work_queue[dst][j].type = "PROPOSE" =>
                  work_queue[dst][j].current < m.current

NewCommitSound(m) ==
    m.type = "COMMIT" =>
        /\ m.epoch >= 1
        /\ \A d \in Cpus :
              /\ m.epoch =< current_epoch'[d]
              /\ \A t \in epoch_state_list'[d] : m.epoch =< epoch'[t]

LEMMA CommitsStep ==
  ASSUME EpochInv, TypeOK', ClocksGrow, SessionsAreOldOrFresh,
         NEW s \in [Cpus -> {0, 1}], NEW dst \in Cpus, NEW m \in Messages,
         Moved(s, dst, m), NewCommitSound(m)
  PROVE  CommitsSound'
  <1> SUFFICES ASSUME NEW c \in Cpus, NEW i \in 1 .. Len(work_queue'[c]),
                      work_queue'[c][i].type = "COMMIT"
               PROVE  /\ work_queue'[c][i].epoch >= 1
                      /\ \A d \in Cpus :
                            /\ work_queue'[c][i].epoch =< current_epoch'[d]
                            /\ \A t \in epoch_state_list'[d] :
                                  work_queue'[c][i].epoch =< epoch'[t]
    BY DEF CommitsSound
  <1>1. CASE work_queue'[c][i] = m
    BY <1>1 DEF NewCommitSound
  <1>2. CASE work_queue'[c][i] # m
    <2>1. /\ i + s[c] \in 1 .. Len(work_queue[c])
          /\ work_queue'[c][i] = work_queue[c][i + s[c]]
      BY <1>2 DEF Moved
    <2> DEFINE w == work_queue[c][i + s[c]]
    <2>2. w \in Messages
      BY Zenon, <2>1, ElementOfSeq DEF EpochInv, TypeOK
    <2>3. /\ w.epoch >= 1
          /\ \A d \in Cpus :
                /\ w.epoch =< current_epoch[d]
                /\ \A t \in epoch_state_list[d] : w.epoch =< epoch[t]
      BY <2>1 DEF EpochInv, CommitsSound
    <2> HIDE DEF w
    <2>4. ASSUME NEW d \in Cpus
          PROVE  /\ w.epoch =< current_epoch'[d]
                 /\ \A t \in epoch_state_list'[d] : w.epoch =< epoch'[t]
      <3>1. /\ w.epoch \in Nat /\ current_epoch[d] \in Nat
            /\ current_epoch'[d] \in Nat
        BY <2>2 DEF EpochInv, TypeOK, Messages
      <3>2. w.epoch =< current_epoch'[d]
        BY <2>3, <3>1 DEF ClocksGrow
      <3> QED
        BY <2>3, <3>2 DEF SessionsAreOldOrFresh
    <2> QED
      BY <2>1, <2>3, <2>4 DEF w
  <1> QED
    BY <1>1, <1>2

LEMMA ProposalsStep ==
  ASSUME EpochInv, TypeOK', ClocksGrow, SessionsAreOldOrFresh,
         NEW s \in [Cpus -> {0, 1}], NEW dst \in Cpus, NEW m \in Messages,
         Moved(s, dst, m), OldProposalsNew(s), NewProposalSound(dst, m)
  PROVE  ProposalsSound'
  <1> USE EpochAssumption
  <1> SUFFICES ASSUME NEW c \in Cpus \ {0},
                      NEW i \in 1 .. Len(work_queue'[c]),
                      work_queue'[c][i].type = "PROPOSE"
               PROVE  /\ work_queue'[c][i].epoch
                            \in 1 .. work_queue'[c][i].current
                      /\ current_epoch'[c] < work_queue'[c][i].current
                      /\ work_queue'[c][i].current =< current_epoch'[c - 1]
                      /\ \A d \in 0 .. c - 1 :
                            \A t \in epoch_state_list'[d] :
                                work_queue'[c][i].epoch =< epoch'[t]
                      /\ \A j \in 1 .. i - 1 :
                            work_queue'[c][j].type = "PROPOSE" =>
                                work_queue'[c][j].current
                                    < work_queue'[c][i].current
    BY DEF ProposalsSound
  <1>0. /\ c - 1 \in Cpus /\ 0 .. c - 1 \subseteq Cpus
        /\ Len(work_queue'[c]) \in Nat /\ s[c] \in {0, 1}
    <2>1. c - 1 \in Cpus /\ 0 .. c - 1 \subseteq Cpus
      BY DEF Cpus
    <2>2. work_queue'[c] \in Seq(Messages)
      BY DEF TypeOK
    <2>3. Len(work_queue'[c]) \in Nat
      BY <2>2, LenProperties
    <2> QED
      BY <2>1, <2>3
  <1>a. \A j \in 1 .. i - 1 :
           /\ j + s[c] \in 1 .. Len(work_queue[c])
           /\ work_queue'[c][j] = work_queue[c][j + s[c]]
    <2> SUFFICES ASSUME NEW j \in 1 .. i - 1
                 PROVE  /\ j + s[c] \in 1 .. Len(work_queue[c])
                        /\ work_queue'[c][j] = work_queue[c][j + s[c]]
      OBVIOUS
    <2>1. j \in 1 .. Len(work_queue'[c]) /\ j # Len(work_queue'[c])
      BY <1>0
    <2> QED
      BY <2>1 DEF Moved
  <1>1. CASE c = dst /\ i = Len(work_queue'[c]) /\ work_queue'[c][i] = m
    <2>1. /\ m.epoch \in 1 .. m.current
          /\ current_epoch'[c] < m.current
          /\ m.current =< current_epoch'[c - 1]
          /\ \A d \in 0 .. c - 1 : \A t \in epoch_state_list'[d] :
                m.epoch =< epoch'[t]
          /\ \A j \in 1 .. Len(work_queue[c]) :
                work_queue[c][j].type = "PROPOSE" =>
                    work_queue[c][j].current < m.current
      BY <1>1 DEF NewProposalSound
    <2>2. \A j \in 1 .. i - 1 : work_queue'[c][j].type = "PROPOSE" =>
             work_queue'[c][j].current < m.current
      BY Zenon, <1>a, <2>1
    <2> QED
      BY <1>1, <2>1, <2>2
  <1>2. CASE ~(c = dst /\ i = Len(work_queue'[c]) /\ work_queue'[c][i] = m)
    <2>1. /\ i + s[c] \in 1 .. Len(work_queue[c])
          /\ work_queue'[c][i] = work_queue[c][i + s[c]]
      BY <1>2 DEF Moved
    <2> DEFINE w == work_queue[c][i + s[c]]
    <2>2. w \in Messages
      BY Zenon, <2>1, ElementOfSeq DEF EpochInv, TypeOK
    <2>3. /\ w.epoch \in 1 .. w.current
          /\ w.current =< current_epoch[c - 1]
          /\ \A d \in 0 .. c - 1 : \A t \in epoch_state_list[d] :
                w.epoch =< epoch[t]
          /\ \A j \in 1 .. i + s[c] - 1 :
                work_queue[c][j].type = "PROPOSE" =>
                    work_queue[c][j].current < w.current
      BY <2>1 DEF EpochInv, ProposalsSound
    <2>4. current_epoch'[c] < w.current
      BY <1>0, <2>1 DEF OldProposalsNew
    <2> HIDE DEF w
    <2>5. w.epoch \in Nat /\ w.current \in Nat
      BY <2>2 DEF Messages
    <2>6. w.current =< current_epoch'[c - 1]
      <3>1. /\ current_epoch[c - 1] \in Nat /\ current_epoch'[c - 1] \in Nat
            /\ current_epoch[c - 1] =< current_epoch'[c - 1]
        BY <1>0 DEF ClocksGrow, EpochInv, TypeOK
      <3> QED
        BY <2>3, <2>5, <3>1
    <2>7. ASSUME NEW d \in 0 .. c - 1, NEW t \in epoch_state_list'[d]
          PROVE  w.epoch =< epoch'[t]
      <3>1. CASE t \in epoch_state_list[d] /\ epoch'[t] = epoch[t]
        BY <2>3, <3>1
      <3>2. CASE epoch'[t] = current_epoch[d]
        <4>1. current_epoch[c - 1] =< current_epoch[d]
          BY <1>0 DEF EpochInv, ClocksOrdered, Cpus
        <4>2. current_epoch[c - 1] \in Nat /\ current_epoch[d] \in Nat
          BY Zenon, <1>0 DEF EpochInv, TypeOK
        <4> QED
          BY <2>3, <2>5, <3>2, <4>1, <4>2
      <3> QED
        BY <1>0, <3>1, <3>2 DEF SessionsAreOldOrFresh
    <2>8. ASSUME NEW j \in 1 .. i - 1, work_queue'[c][j].type = "PROPOSE"
          PROVE  work_queue'[c][j].current < w.current
      <3>1. j + s[c] \in 1 .. i + s[c] - 1
        BY <1>0
      <3> QED
        BY <1>a, <2>3, <2>8, <3>1
    <2> QED
      BY <2>1, <2>3, <2>4, <2>6, <2>7, <2>8 DEF w
  <1> QED
    BY <1>1, <1>2

\* A step that leaves the clocks alone.
LEMMA SimpleStep ==
  ASSUME EpochInv, TypeOK', UNCHANGED clocks, SessionsAreOldOrFresh,
         LinkedHaveEntered',
         NEW s \in [Cpus -> {0, 1}], NEW dst \in Cpus, NEW m \in Messages,
         Moved(s, dst, m), NewProposalSound(dst, m), NewCommitSound(m)
  PROVE  EpochInv'
  <1>1. current_epoch' = current_epoch /\ released_epoch' = released_epoch
    BY DEF clocks
  <1>2. ClocksGrow
    BY <1>1 DEF ClocksGrow, EpochInv, TypeOK
  <1>3. ClocksOrdered'
    BY <1>1 DEF ClocksOrdered, EpochInv
  <1>4. OldProposalsNew(s)
    BY <1>1 DEF OldProposalsNew, EpochInv, ProposalsSound
  <1>5. ReleasedEpochQuiet'
    BY <1>1, <1>2, QuietStep
  <1>6. ProposalsSound'
    BY <1>2, <1>4, ProposalsStep
  <1>7. CommitsSound'
    BY <1>2, CommitsStep
  <1> QED
    BY <1>3, <1>5, <1>6, <1>7 DEF EpochInv

\* A step that leaves the clocks, the sessions and the queues alone.
LEMMA LocalStep ==
  ASSUME EpochInv, TypeOK', UNCHANGED <<clocks, sessions, work_queue>>,
         \A p \in Clients : pc'[p] = "idle" => pc[p] = "idle"
  PROVE  EpochInv'
  <1>1. /\ current_epoch' = current_epoch /\ released_epoch' = released_epoch
        /\ epoch_state_list' = epoch_state_list /\ epoch' = epoch
        /\ work_queue' = work_queue
    BY DEF clocks, sessions
  <1>2. ClocksOrdered' /\ ReleasedEpochQuiet'
    BY <1>1 DEF EpochInv, ClocksOrdered, ReleasedEpochQuiet
  <1>3. ProposalsSound'
    BY <1>1 DEF EpochInv, ProposalsSound
  <1>4. CommitsSound'
    BY <1>1 DEF EpochInv, CommitsSound
  <1>5. LinkedHaveEntered'
    BY <1>1 DEF EpochInv, LinkedHaveEntered, TypeOK, Clients
  <1> QED
    BY <1>2, <1>3, <1>4, <1>5 DEF EpochInv

LEMMA ZeroIsCpu == 0 \in Cpus /\ Last0 \in Cpus
  BY EpochAssumption DEF Cpus, Last0

LEMMA MessageType ==
  ASSUME NEW type \in MessageTypes, NEW cur \in Nat, NEW ep \in Nat,
         NEW owner \in Clients \cup {Timer},
         type = "EXIT_EPOCH" => owner \in Threads,
         type = "RUNDOWN" => owner = Terminator
  PROVE  /\ Message(type, cur, ep, owner) \in Messages
         /\ Message(type, cur, ep, owner).type = type
         /\ Message(type, cur, ep, owner).current = cur
         /\ Message(type, cur, ep, owner).epoch = ep
         /\ Message(type, cur, ep, owner).owner = owner
  BY DEF Message, Messages

\* The messages that travel from CPU to CPU may belong to anyone.
LEMMA RingMessageType ==
  ASSUME NEW type \in {"PROPOSE", "COMMIT", "COMPLETE"}, NEW cur \in Nat,
         NEW ep \in Nat, NEW owner \in Clients \cup {Timer}
  PROVE  /\ Message(type, cur, ep, owner) \in Messages
         /\ Message(type, cur, ep, owner).type = type
         /\ Message(type, cur, ep, owner).current = cur
         /\ Message(type, cur, ep, owner).epoch = ep
         /\ Message(type, cur, ep, owner).owner = owner
  BY MessageType DEF MessageTypes

LEMMA HarmlessStep ==
  ASSUME EpochInv, TypeOK', UNCHANGED clocks, SessionsAreOldOrFresh,
         LinkedHaveEntered',
         NEW s \in [Cpus -> {0, 1}], NEW dst \in Cpus, NEW m \in Messages,
         Moved(s, dst, m), m.type # "COMMIT", dst = 0 \/ m.type # "PROPOSE"
  PROVE  EpochInv'
  <1>1. NewProposalSound(dst, m) /\ NewCommitSound(m)
    BY DEF NewProposalSound, NewCommitSound
  <1> QED
    BY <1>1, SimpleStep

LEMMA ShiftTypes ==
  /\ NoShift \in [Cpus -> {0, 1}]
  /\ \A c \in Cpus : ShiftOf(c) \in [Cpus -> {0, 1}]
  BY DEF NoShift, ShiftOf

LEMMA RundownMessage ==
  /\ Message("RUNDOWN", 0, 0, Terminator) \in Messages
  /\ Message("RUNDOWN", 0, 0, Terminator).type = "RUNDOWN"
  <1>1. Terminator \in Clients
    BY DEF Clients, SyncClients
  <1> QED
    BY <1>1 DEF Message, Messages, MessageTypes

\* A step that leaves the clocks and the queues alone.
LEMMA SameQueueStep ==
  ASSUME EpochInv, TypeOK', UNCHANGED clocks, SessionsAreOldOrFresh,
         LinkedHaveEntered', work_queue' = work_queue
  PROVE  EpochInv'
  <1> DEFINE m == Message("RUNDOWN", 0, 0, Terminator)
  <1>1. m \in Messages /\ m.type = "RUNDOWN"
    BY RundownMessage
  <1>2. Moved(NoShift, 0, m)
    <2> SUFFICES ASSUME NEW d \in Cpus, NEW i \in 1 .. Len(work_queue[d])
                 PROVE  /\ i + NoShift[d] \in 1 .. Len(work_queue[d])
                        /\ work_queue[d][i] = work_queue[d][i + NoShift[d]]
      BY DEF Moved, NoShift
    <2> QED
      BY DEF NoShift
  <1> HIDE DEF m
  <1> QED
    BY <1>1, <1>2, HarmlessStep, ZeroIsCpu, ShiftTypes

\* A step that takes a message off the queue of c and adds none.
LEMMA ConsumeStep ==
  ASSUME EpochInv, TypeOK', UNCHANGED clocks, SessionsAreOldOrFresh,
         LinkedHaveEntered', NEW c \in Cpus, work_queue[c] # <<>>, Consume(c)
  PROVE  EpochInv'
  <1> DEFINE m == Message("RUNDOWN", 0, 0, Terminator)
  <1>1. m \in Messages /\ m.type = "RUNDOWN"
    BY RundownMessage
  <1>2. Moved(ShiftOf(c), 0, m)
    BY <1>1, ConsumeShape, ZeroIsCpu DEF EpochInv
  <1> HIDE DEF m
  <1> QED
    BY <1>1, <1>2, HarmlessStep, ZeroIsCpu, ShiftTypes

\* A step that puts a message other than a commit, or a proposal for CPU 0, on
\* the queue of c.
LEMMA SendStep ==
  ASSUME EpochInv, TypeOK', UNCHANGED clocks, SessionsAreOldOrFresh,
         LinkedHaveEntered', NEW c \in Cpus, NEW m \in Messages,
         m.type # "COMMIT", c = 0 \/ m.type # "PROPOSE",
         work_queue' = [work_queue EXCEPT ![c] = Append(@, m)]
  PROVE  EpochInv'
  <1>1. Moved(NoShift, c, m)
    BY Zenon, SendShape DEF EpochInv
  <1> QED
    BY <1>1, HarmlessStep, ShiftTypes

LEMMA SameSessions ==
  ASSUME EpochInv, UNCHANGED sessions
  PROVE  SessionsAreOldOrFresh
  BY DEF SessionsAreOldOrFresh, sessions

LEMMA SameEntered ==
  ASSUME EpochInv, \A d \in Cpus : epoch_state_list'[d] \subseteq epoch_state_list[d],
         \A p \in Clients : pc'[p] = "idle" => pc[p] = "idle"
  PROVE  LinkedHaveEntered'
  BY DEF EpochInv, TypeOK, LinkedHaveEntered, Clients
=============================================================================
