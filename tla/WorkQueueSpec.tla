---------------------------- MODULE WorkQueueSpec ----------------------------
(***************************************************************************)
(* What a timed work queue promises its users (libs/runtime/               *)
(* ebpf_work_queue.h): work items are handed to the callback once each, in *)
(* the order in which they were inserted, and while the queue is not being *)
(* destroyed no item waits forever.                                        *)
(***************************************************************************)
EXTENDS Sequences

CONSTANT Items

VARIABLES
    pending,    \* the items inserted and not yet handed out, oldest first
    running,    \* the items handed to the callback
    open        \* ebpf_timed_work_queue_destroy has not been called

vars == <<pending, running, open>>

Init == pending = <<>> /\ running = {} /\ open = TRUE

Put(i) ==
    /\ open
    /\ i \notin running \cup {pending[k] : k \in DOMAIN pending}
    /\ pending' = Append(pending, i)
    /\ UNCHANGED <<running, open>>

Take ==
    /\ pending # <<>>
    /\ pending' = Tail(pending)
    /\ running' = running \cup {Head(pending)}
    /\ UNCHANGED open

Done(i) ==
    /\ i \in running
    /\ running' = running \ {i}
    /\ UNCHANGED <<pending, open>>

Close == open /\ open' = FALSE /\ UNCHANGED <<pending, running>>

Next == Take \/ Close \/ \E i \in Items : Put(i) \/ Done(i)

Spec == Init /\ [][Next]_vars /\ WF_vars(open /\ Take)
==============================================================================
