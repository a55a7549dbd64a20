------------------------------- MODULE NmrSpec -------------------------------
(* What the network module registrar promises to the modules it binds: the   *)
(* life of one binding between a client and a provider registration.  A      *)
(* binding is attached at most once, each side is told to detach once and    *)
(* only after the attach succeeded, and the binding contexts are cleaned up  *)
(* once, after both sides have finished detaching.                           *)
CONSTANT Bindings

VARIABLES phase,      \* phase[b]: where binding b is in its life
          finished    \* finished[b]: the sides of b that finished detaching
vars == <<phase, finished>>

Phases == {"none", "attaching", "bound", "detaching", "closed"}
Sides == {"client", "provider"}

Init == /\ phase = [b \in Bindings |-> "none"]
        /\ finished = [b \in Bindings |-> {}]

Move(b, from, to) == /\ phase[b] = from
                     /\ phase' = [phase EXCEPT ![b] = to]

Attach(b) == Move(b, "attaching", "bound") /\ UNCHANGED finished
Refuse(b) == Move(b, "attaching", "closed") /\ UNCHANGED finished
Detach(b) == Move(b, "bound", "detaching") /\ UNCHANGED finished

SideFinished(b, s) == /\ phase[b] = "detaching"
                      /\ s \notin finished[b]
                      /\ finished' = [finished EXCEPT ![b] = @ \cup {s}]
                      /\ UNCHANGED phase

Cleanup(b) == /\ finished[b] = Sides
              /\ Move(b, "detaching", "closed")
              /\ UNCHANGED finished

\* A registration that walks the registrar's table handles all of its bindings
\* under one lock, so several bindings may be offered in one step.
OfferAll(S) == /\ S # {}
               /\ \A b \in S : phase[b] = "none"
               /\ phase' = [b \in Bindings |->
                              IF b \in S THEN "attaching" ELSE phase[b]]
               /\ UNCHANGED finished

\* The unbinding thread records the outcome of both detach calls under one
\* lock, so both sides may finish in one step.
BothFinished(b) == /\ phase[b] = "detaching"
                   /\ finished[b] # Sides
                   /\ finished' = [finished EXCEPT ![b] = Sides]
                   /\ UNCHANGED phase

Next == \/ \E S \in SUBSET Bindings : OfferAll(S)
        \/ \E b \in Bindings :
             \/ Attach(b) \/ Refuse(b) \/ Detach(b) \/ Cleanup(b)
             \/ BothFinished(b)
             \/ \E s \in Sides : SideFinished(b, s)

Spec == Init /\ [][Next]_vars
==============================================================================
