---------------------------- MODULE NetEbpfExtXdp ----------------------------
(***************************************************************************)
(* The packet and bind hooks of netebpfext: the layer 2 classify callback  *)
(* with the net buffer lists (NBLs) it clones, hands to the stack and      *)
(* frees, the adjust_head helper, the bind and unbind classify callbacks,  *)
(* and the contexts the program information providers build for test runs. *)
(* A packet is its length; an NBL is the place it was allocated and who    *)
(* owns it.  NDIS and WFP are external: an allocation, a retreat or an     *)
(* injection may succeed or fail.                                          *)
(***************************************************************************)
EXTENDS Integers, Sequences, FiniteSets, SequencesExt

CONSTANTS
  Packets,      \* packets, bind requests and test runs, each handled once
  Interfaces,   \* interface indexes; 0 is the wildcard
  Paths,        \* application identifiers: sequences over {"sep", other}
  MaxNbls,      \* bound on the NBLs allocated for a packet
  Deltas,       \* arguments of adjust_head
  MaxLength     \* bound on the length of a packet

XdpConstants ==
  /\ Interfaces \subseteq Nat \ {0} /\ MaxNbls \in Nat /\ MaxLength \in Nat \ {0}
  /\ Deltas \subseteq Int /\ \A path \in Paths : path # <<>>

VARIABLES
  client,   \* [{"xdp", "bind"} -> the hook client]
  call,     \* [Packets -> the classify call or test run]
  nbl       \* [Packets -> sequence of the NBLs allocated for it]

vars == <<client, call, nbl>>

HookTypes == {"xdp", "bind"}
TestTypes == {"xdp", "bind", "sock_ops", "sock_addr"}

\* original: the packet came with (classify) or the test run built (test) one.
\* data: 0 for the original's buffer, n for the buffer of NBL n.  flawed: a clone
\* failed after the data pointers were set.  refused: the receive injection of
\* the clone was refused.
NoCall == [pc |-> "none", kind |-> "none", entered |-> FALSE, clone |-> 0, data |-> 0,
           window |-> 0, length |-> 0, context |-> FALSE, app |-> <<>>, path |-> <<>>,
           result |-> "none", action |-> "none", flawed |-> FALSE, refused |-> FALSE]

Kinds == {"own", "wfp", "test"}
NblStates == [kind : Kinds, owner : {"context", "stack", "none", "corrupt"}]

TypeOK ==
  /\ client \in [HookTypes -> [state : {"none", "attached", "detached", "rundown"},
                               calls : 0..Cardinality(Packets),
                               if_index : Interfaces \cup {0}]]
  /\ DOMAIN call = Packets
  /\ \A p \in Packets :
       /\ call[p].pc \in {"none", "program", "done"}
       /\ call[p].clone \in 0..Len(nbl[p]) /\ call[p].data \in 0..Len(nbl[p])
       /\ call[p].action \in {"none", "PERMIT", "BLOCK"}
  /\ nbl \in [Packets -> Seq(NblStates)]

Init ==
  /\ client = [h \in HookTypes |-> [state |-> "none", calls |-> 0, if_index |-> 0]]
  /\ call = [p \in Packets |-> NoCall]
  /\ nbl = [p \in Packets |-> <<>>]

-----------------------------------------------------------------------------
(* Hook clients. *)

\* net_ebpf_extension_xdp_on_client_attach and
\* _net_ebpf_extension_bind_on_client_attach.  A refused attach leaves nothing.
OnClientAttach(h, i) ==
  /\ client[h].state = "none"
  /\ h = "bind" => i = 0
  /\ client' = [client EXCEPT ![h].state = "attached", ![h].if_index = i]
  /\ UNCHANGED <<call, nbl>>

\* The detach callback deletes the filters and sets client_detached, a work
\* item starts the rundown, and the client goes when all calls left.
OnClientDetach(h) ==
  /\ client[h].state = "attached"
  /\ client' = [client EXCEPT ![h].state = "detached"]
  /\ UNCHANGED <<call, nbl>>

StartRundown(h) ==
  /\ client[h].state = "detached"
  /\ client' = [client EXCEPT ![h].state = "rundown"]
  /\ UNCHANGED <<call, nbl>>

DetachComplete(h) ==
  /\ client[h].state = "rundown" /\ client[h].calls = 0
  /\ client' = [client EXCEPT ![h].state = "none", ![h].if_index = 0]
  /\ UNCHANGED <<call, nbl>>

\* The client was there when the filter matched; client_detached is read first
\* and the rundown reference taken second.
MayEnter(h) == client[h].state \in {"attached", "detached"}
MayMiss(h) == client[h].state \in {"detached", "rundown"}

-----------------------------------------------------------------------------
(* NBLs. *)

\* The routine that frees an NBL: _net_ebpf_ext_free_nbl with its data ("own"),
\* without it ("test"), or FwpsFreeCloneNetBufferList ("wfp").
Free(list, n, routine) ==
  [list EXCEPT ![n].owner =
     IF @ \in {"none", "corrupt"} \/ list[n].kind # routine THEN "corrupt" ELSE "none"]

FreePrevious_Kept(c, list) == list

\* A previous clone is disposed when a new one takes its place.
FreePrevious(c, list) == IF c.clone = 0 THEN list ELSE Free(list, c.clone, "own")

New(list, kind, owner) == Append(list, [kind |-> kind, owner |-> owner])

AllocateClonedNbl_KeepsPointers(c, list, h) ==
  {[status |-> "failed", c |-> c, list |-> list],
   [status |-> "ok", c |-> [c EXCEPT !.clone = Len(list) + 1, !.length = c.length + h],
    list |-> FreePrevious(c, New(list, "own", "context"))]}

\* _net_ebpf_ext_allocate_cloned_nbl with unused_header_length h, from the call
\* c and the list of NBLs: what it leaves, for every step it can stop at.  When
\* it stops after the data pointers were set they point to the freed buffer.
AllocateClonedNbl(c, list, h) ==
  LET n == Len(list) + 1
      moved == [c EXCEPT !.data = n, !.window = c.length + h]
  IN  {[status |-> "failed", c |-> c, list |-> list],
       [status |-> "failed", c |-> moved, list |-> New(list, "own", "none")],
       [status |-> "ok", c |-> [moved EXCEPT !.clone = n, !.length = c.length + h],
        list |-> FreePrevious(c, New(list, "own", "context"))]}

-----------------------------------------------------------------------------
(* net_ebpf_ext_layer_2_classify *)

Enter(h) == client' = [client EXCEPT ![h].calls = @ + 1]

\* An exit before the program runs: the frame is permitted.
Layer2Exit(p, len) ==
  /\ call[p].pc = "none" /\ client["xdp"].state # "none"
  /\ \/ MayMiss("xdp")
     \/ MayEnter("xdp")   \* no NBL, or another interface: left again at once
  /\ call' = [call EXCEPT ![p] = [NoCall EXCEPT !.pc = "done", !.kind = "xdp",
                                    !.length = len, !.action = "PERMIT"]]
  /\ UNCHANGED <<client, nbl>>

Layer2Classify(p, i, len, contiguous) ==
  LET begin == [NoCall EXCEPT !.pc = "program", !.kind = "xdp", !.entered = TRUE,
                              !.length = len, !.window = len]
      gone(c) == [c EXCEPT !.pc = "done", !.entered = FALSE, !.action = "PERMIT"]
  IN  /\ call[p].pc = "none" /\ MayEnter("xdp")
      /\ client["xdp"].if_index \in {0, i}
      /\ \/ /\ contiguous
            /\ call' = [call EXCEPT ![p] = begin] /\ Enter("xdp")
            /\ UNCHANGED nbl
         \/ /\ ~contiguous
            /\ \E r \in AllocateClonedNbl(begin, <<>>, 0) :
                 /\ nbl' = [nbl EXCEPT ![p] = r.list]
                 /\ \/ /\ r.status = "ok" /\ Enter("xdp")
                       /\ call' = [call EXCEPT ![p] = r.c]
                    \/ /\ r.status = "failed" /\ UNCHANGED client
                       /\ call' = [call EXCEPT ![p] = gone(r.c)]

\* _net_ebpf_xdp_adjust_head.  The status of the clone is not looked at.
AdjustHead(p, delta) ==
  LET c == call[p]
      set(d, list, flawed) ==
        /\ call' = [call EXCEPT ![p] = [d EXCEPT !.flawed = c.flawed \/ flawed]]
        /\ nbl' = [nbl EXCEPT ![p] = list]
      \* The data start moves in the buffer of the current NBL.
      here == [c EXCEPT !.data = c.clone, !.length = @ - delta, !.window = @ - delta]
  IN  /\ c.pc = "program" /\ c.kind = "xdp" /\ Len(nbl[p]) < MaxNbls
      /\ delta # 0 /\ c.length - delta \in 1..MaxLength
      /\ \/ /\ delta < 0
            /\ \/ set(here, nbl[p], FALSE)
               \/ \* The retreated data is not contiguous: restored, then cloned.
                  \E r \in AllocateClonedNbl(c, nbl[p], -delta) :
                    set(r.c, r.list, r.status = "failed" /\ r.c # c)
         \/ delta > 0 /\ set(here, nbl[p], FALSE)
      /\ UNCHANGED client

Leave(p, h, c) ==
  /\ call' = [call EXCEPT ![p] = [c EXCEPT !.pc = "done", !.entered = FALSE]]
  /\ client' = [client EXCEPT ![h].calls = @ - 1]

InProgram(p, kind) == call[p].pc = "program" /\ call[p].kind = kind /\ call[p].entered

BlockOriginal_Only(c) == c

\* The clone goes on in place of the original.
BlockOriginal(c) == [c EXCEPT !.action = "BLOCK"]

\* XDP_PASS.  A refused receive injection leaves the clone allocated.
XdpPass(p, injected) ==
  LET c == [call[p] EXCEPT !.result = "pass", !.action = "PERMIT"]
  IN  /\ InProgram(p, "xdp")
      /\ \/ /\ c.clone = 0 /\ injected
            /\ Leave(p, "xdp", c) /\ UNCHANGED nbl
         \/ /\ c.clone # 0
            /\ Leave(p, "xdp", [BlockOriginal(c) EXCEPT !.refused = ~injected])
            /\ nbl' = [nbl EXCEPT ![p] =
                 IF injected THEN [@ EXCEPT ![c.clone].owner = "stack"] ELSE @]

SendComplete_Swapped(list, n, cloned_packet) ==
  Free(list, n, IF cloned_packet THEN "own" ELSE "wfp")

\* _net_ebpf_ext_l2_inject_send_complete with its context argument.
SendComplete(list, n, cloned_packet) ==
  Free(list, n, IF cloned_packet THEN "wfp" ELSE "own")

\* XDP_TX and _net_ebpf_ext_handle_xdp_tx.  The original is absorbed even when
\* nothing could be sent.
XdpTx(p) ==
  LET c == [call[p] EXCEPT !.result = "tx", !.action = "BLOCK"]
      n == IF c.clone # 0 THEN c.clone ELSE Len(nbl[p]) + 1
      list == IF c.clone # 0 THEN nbl[p] ELSE New(nbl[p], "wfp", "context")
  IN  /\ InProgram(p, "xdp") /\ Leave(p, "xdp", c)
      /\ \/ nbl' = [nbl EXCEPT ![p] = [list EXCEPT ![n].owner = "stack"]]
         \/ nbl' = [nbl EXCEPT ![p] = SendComplete(list, n, c.clone = 0)]
         \/ c.clone = 0 /\ UNCHANGED nbl

\* XDP_DROP, any other result, or a failed invocation.
XdpDrop(p) ==
  LET c == [call[p] EXCEPT !.result = "drop", !.action = "BLOCK"]
  IN  /\ InProgram(p, "xdp") /\ Leave(p, "xdp", c)
      /\ nbl' = [nbl EXCEPT ![p] = FreePrevious(c, @)]

\* The stack completes an injected NBL: the receive completion frees a clone of
\* _net_ebpf_ext_allocate_cloned_nbl; the send completion looks at its context.
InjectComplete(p, n) ==
  /\ n <= Len(nbl[p]) /\ nbl[p][n].owner = "stack"
  /\ nbl' = [nbl EXCEPT ![p] = IF call[p].result = "pass"
                                  THEN Free(@, n, "own")
                                  ELSE SendComplete(@, n, call[p].clone = 0)]
  /\ UNCHANGED <<client, call>>

-----------------------------------------------------------------------------
(* The bind hook. *)

TruncateAppid_KeepsSeparator(path) ==
  LET last[i \in 0..Len(path)] ==
        IF i = 0 THEN 1 ELSE IF path[i] = "sep" THEN i ELSE last[i - 1]
  IN  SubSeq(path, last[Len(path)], Len(path))

\* _net_ebpf_ext_resource_truncate_appid
TruncateAppid(path) ==
  LET last[i \in 0..Len(path)] ==
        IF i = 0 THEN 1 ELSE IF path[i] = "sep" THEN i ELSE last[i - 1]
      start == last[Len(path)]
  IN  SubSeq(path, IF path[start] = "sep" THEN start + 1 ELSE start, Len(path))

\* net_ebpf_ext_resource_allocation_classify and
\* net_ebpf_ext_resource_release_classify up to the program.
ResourceClassify(p, path, op) ==
  LET c == [NoCall EXCEPT !.kind = op, !.path = path]
  IN  /\ call[p].pc = "none" /\ client["bind"].state # "none"
      /\ \/ /\ MayMiss("bind") /\ UNCHANGED client
            /\ call' = [call EXCEPT ![p] = [c EXCEPT !.pc = "done", !.action = "PERMIT"]]
         \/ /\ MayEnter("bind") /\ Enter("bind")
            /\ call' = [call EXCEPT ![p] = [c EXCEPT !.pc = "program", !.entered = TRUE,
                                              !.app = TruncateAppid(path)]]
      /\ UNCHANGED nbl

\* The verdict of the bind program; a failed invocation permits.
ResourceVerdict(op, result) ==
  IF op = "bind" /\ result \in {"deny", "other"} THEN "BLOCK" ELSE "PERMIT"

ResourceReturn(p, op, result) ==
  /\ InProgram(p, op)
  /\ Leave(p, "bind", [call[p] EXCEPT !.result = result,
                                      !.action = ResourceVerdict(op, result)])
  /\ UNCHANGED nbl

-----------------------------------------------------------------------------
(* Contexts of test runs. *)

\* The arguments a provider refuses: xdp needs data, the others a context, and
\* the socket providers take no data.
ArgumentsRefused(type, data, context) ==
  \/ type = "xdp" /\ ~data
  \/ type # "xdp" /\ ~context
  \/ type \in {"sock_ops", "sock_addr"} /\ data

\* _ebpf_xdp_context_create, _ebpf_bind_context_create,
\* _ebpf_sock_ops_context_create, _ebpf_sock_addr_context_create.  A failed
\* allocation undoes the earlier ones.
ContextCreate(p, type, len, data, context, allocated) ==
  LET ok == allocated /\ ~ArgumentsRefused(type, data, context)
  IN  /\ call[p].pc = "none"
      /\ call' = [call EXCEPT ![p] = [NoCall EXCEPT
           !.pc = IF ok THEN "program" ELSE "done", !.kind = type, !.context = ok,
           !.length = len, !.window = len]]
      /\ nbl' = [nbl EXCEPT ![p] =
           IF ok /\ type = "xdp" THEN New(<<>>, "test", "context") ELSE <<>>]
      /\ UNCHANGED client

\* _ebpf_xdp_context_delete and the other destroy callbacks.
ContextDestroy(p) ==
  LET c == call[p]
  IN  /\ c.pc = "program" /\ c.context
      /\ call' = [call EXCEPT ![p] = [c EXCEPT !.pc = "done", !.context = FALSE]]
      /\ nbl' = [nbl EXCEPT ![p] = IF c.kind = "xdp"
                                     THEN FreePrevious(c, Free(@, 1, "test")) ELSE @]
      /\ UNCHANGED client

Next ==
  \/ \E h \in HookTypes :
       \/ \E i \in Interfaces \cup {0} : OnClientAttach(h, i)
       \/ OnClientDetach(h) \/ StartRundown(h) \/ DetachComplete(h)
  \/ \E p \in Packets :
       \/ \E len \in 1..MaxLength : Layer2Exit(p, len)
       \/ \E i \in Interfaces, len \in 1..MaxLength, contiguous \in BOOLEAN :
            Layer2Classify(p, i, len, contiguous)
       \/ \E delta \in Deltas : AdjustHead(p, delta)
       \/ \E injected \in BOOLEAN : XdpPass(p, injected)
       \/ XdpTx(p) \/ XdpDrop(p)
       \/ \E n \in 1..(MaxNbls + 1) : InjectComplete(p, n)
       \/ \E path \in Paths, op \in {"bind", "unbind"} : ResourceClassify(p, path, op)
       \/ \E op \in {"bind", "unbind"},
             result \in {"permit", "redirect", "deny", "other", "failed"} :
            ResourceReturn(p, op, result)
       \/ \E type \in TestTypes, len \in 1..MaxLength,
             data, context, allocated \in BOOLEAN :
            ContextCreate(p, type, len, data, context, allocated)
       \/ ContextDestroy(p)

Spec == Init /\ [][Next]_vars

-----------------------------------------------------------------------------
\* Every NBL is freed once, by the routine that belongs to the allocation it
\* came from, and one that is not freed is the clone of a call in progress or is
\* with the stack; a rundown reference is held exactly by the calls that run a
\* program.  The only NBL that is left over is the clone of a passed packet
\* whose receive injection was refused.
NblOwned ==
  /\ TypeOK
  /\ \A p \in Packets, n \in 1..(MaxNbls + 1) : n <= Len(nbl[p]) =>
       LET x == nbl[p][n] IN
         /\ x.owner # "corrupt"
         /\ x.owner = "context" =>
              \/ call[p].pc = "program" /\ (x.kind = "test" \/ call[p].clone = n)
              \/ call[p].result = "pass" /\ call[p].refused
         /\ x.owner = "stack" => call[p].pc = "done"
  /\ \A h \in HookTypes :
       client[h].calls = Cardinality({p \in Packets : call[p].entered /\
                           (call[p].kind = "xdp") = (h = "xdp")})

\* What the base name of a path is: what follows its last separator.
BaseName(path) ==
  LET after == {i \in 1..(Len(path) + 1) :
                  /\ i > 1 => path[i - 1] = "sep"
                  /\ \A j \in i..Len(path) : path[j] # "sep"}
  IN  SubSeq(path, CHOOSE i \in after : TRUE, Len(path))

\* While a program runs its data pointers delimit the packet held by the NBL the
\* verdict will be applied to, in memory that is not freed, whatever adjust_head
\* did before (the exception, flawed, is a program that called adjust_head when
\* the clone failed after the pointers were set: the buffer is freed, the status
\* is not looked at, and the program is told that the head was moved); a bind program is given the base name of the application.
ProgramSeesItsPacket ==
  \A p \in Packets :
    LET c == call[p] IN
      c.pc = "program" =>
        /\ c.kind = "xdp" /\ ~c.flawed =>
             /\ c.data = c.clone /\ c.window = c.length
             /\ c.data # 0 => nbl[p][c.data].owner = "context"
        /\ c.kind \in {"bind", "unbind"} /\ c.entered => c.app = BaseName(c.path)

\* A packet goes on exactly once: a passed packet is either permitted as it came
\* or replaced by the clone that was injected, never both (a clone whose
\* injection was refused is lost, and the original stays blocked); a dropped or
\* transmitted packet does not go up the stack.
DeliveredOnce ==
  \A p \in Packets :
    LET c == call[p]
        injected == c.clone # 0 /\ nbl[p][c.clone].owner # "context"
    IN  c.pc = "done" /\ c.kind = "xdp" =>
          /\ c.result = "pass" /\ ~c.refused => (c.action = "PERMIT") # injected
          /\ c.result \in {"tx", "drop"} => c.action = "BLOCK"
=============================================================================
