----------------------------- MODULE VirtioBlock -----------------------------
(***************************************************************************)
(* The virtio block driver (mizu/dev/virtio/src/block.rs): ChunkOp futures *)
(* that put requests into the virt queue, the interrupt handler that takes *)
(* the finished ones out and sends the buffers back through one-shot       *)
(* channels, and the device in between.                                    *)
(*                                                                         *)
(* A request occupies OP_COUNT descriptors and is known by its token, the  *)
(* number of the first.  The Request in token[t] owns the buffer, so that  *)
(* the future can be dropped while the device still works on it.  The      *)
(* device, its queue and its interrupt line are external; they are used    *)
(* through read_block_nb, peek_used, complete_* and ack_interrupt.         *)
(***************************************************************************)
EXTENDS Event

CONSTANTS Ops,        \* the ChunkOps that may be alive at once
          QueueSize,  \* virt_queue_size()
          OP_COUNT,   \* descriptors of one request
          NoOp        \* an empty token slot

Tokens == 0 .. QueueSize - 1

VARIABLES vqueue,     \* VirtioBlock::virt_queue
          token,      \* the Request in each slot: the ChunkOp it belongs to
          descs,      \* token -> descriptors of the requests the queue holds
          used,       \* tokens the device is done with, oldest first
          irq,        \* the device asserts its interrupt
          blk,        \* who holds the device mutex
          bpc,        \* where each ChunkOp is
          answered    \* ChunkOps whose one-shot channel holds their buffer

vbvars == <<vqueue, token, descs, used, irq, blk, bpc, answered>>

Init ==
    /\ vqueue = NewEvent
    /\ token = [t \in Tokens |-> NoOp] /\ descs = [t \in Tokens |-> {}]
    /\ used = <<>> /\ irq = FALSE /\ blk = "free"
    /\ bpc = [o \in Ops |-> "none"] /\ answered = {}

Busy == UNION {descs[t] : t \in Tokens}
FreeDescs == Tokens \ Busy
Goto(o, l) == bpc' = [bpc EXCEPT ![o] = l]
Owned == {token[t] : t \in Tokens} \ {NoOp}

\* read_chunk(), write_chunk(): a future in the state Submitting, without listener.
Chunk(o) ==
    /\ bpc[o] = "none" /\ o \notin Owned \cup answered
    /\ Goto(o, "new")
    /\ UNCHANGED <<vqueue, token, descs, used, irq, blk, answered>>

\* poll() while Submitting, under the device mutex: read_block_nb() or
\* write_block_nb() and the Request pushed into its slot, or the queue is full, or
\* the driver refuses the request (at the first attempt: the request stays the same).
\* Which of the free descriptors are taken makes no difference.
Submit(o) ==
    /\ bpc[o] \in {"new", "submit"} /\ blk = "free"
    /\ \/ /\ Cardinality(FreeDescs) >= OP_COUNT
          /\ LET D == CHOOSE S \in SUBSET FreeDescs : Cardinality(S) = OP_COUNT
                 t == CHOOSE d \in D : TRUE
             IN  /\ descs' = [descs EXCEPT ![t] = D]
                 /\ token' = [token EXCEPT ![t] = o]
          /\ Goto(o, "submitted")
       \/ /\ Cardinality(FreeDescs) < OP_COUNT
          /\ Goto(o, "full") /\ UNCHANGED <<token, descs>>
       \/ bpc[o] = "new" /\ Goto(o, "over") /\ UNCHANGED <<token, descs>>
    /\ UNCHANGED <<vqueue, used, irq, blk, answered>>

DropListenerOf(o) ==
    vqueue' = IF o \in Listeners(vqueue) THEN DropListener(vqueue, o) ELSE vqueue

\* The state becomes Waiting; the listener of the old state is dropped.
Submitted(o) ==
    /\ bpc[o] = "submitted" /\ DropListenerOf(o) /\ Goto(o, "wait")
    /\ UNCHANGED <<token, descs, used, irq, blk, answered>>

\* QueueFull without a listener: listen and try again.
FullListen(o) ==
    /\ bpc[o] = "full" /\ o \notin Listeners(vqueue)
    /\ vqueue' = Listen(vqueue, o) /\ Goto(o, "submit")
    /\ UNCHANGED <<token, descs, used, irq, blk, answered>>

\* QueueFull with a listener: poll it.
FullPoll(o) ==
    /\ bpc[o] = "full" /\ o \in Listeners(vqueue)
    /\ IF IsNotified(vqueue, o)
       THEN vqueue' = Consume(vqueue, o) /\ Goto(o, "submit")
       ELSE UNCHANGED vqueue /\ Goto(o, "parked")
    /\ UNCHANGED <<token, descs, used, irq, blk, answered>>

\* The next poll() of a future that returned Pending while Submitting.
Repoll(o) ==
    /\ bpc[o] = "parked" /\ IsNotified(vqueue, o) /\ Goto(o, "submit")
    /\ UNCHANGED <<vqueue, token, descs, used, irq, blk, answered>>

\* poll() while Waiting: the one-shot channel has an answer.
Receive(o) ==
    /\ bpc[o] = "wait" /\ o \in answered
    /\ answered' = answered \ {o} /\ Goto(o, "over")
    /\ UNCHANGED <<vqueue, token, descs, used, irq, blk>>

CancelTake(o) ==    \* mutant: the Request goes away with the future
    /\ bpc[o] \in {"parked", "wait"} /\ DropListenerOf(o) /\ Goto(o, "none")
    /\ answered' = answered \ {o}
    /\ token' = [t \in Tokens |-> IF token[t] = o THEN NoOp ELSE token[t]]
    /\ UNCHANGED <<descs, used, irq, blk>>

\* The future is dropped between two polls (try_for_each_concurrent stops at the first
\* error, a signal ends the system call).  The Request stays in its slot.
Cancel(o) ==
    /\ bpc[o] \in {"parked", "wait"} /\ DropListenerOf(o) /\ Goto(o, "none")
    /\ answered' = answered \ {o}
    /\ UNCHANGED <<token, descs, used, irq, blk>>

\* The future has returned Ready and is dropped, its listener included.
Over(o) ==
    /\ bpc[o] = "over" /\ DropListenerOf(o) /\ Goto(o, "none")
    /\ UNCHANGED <<token, descs, used, irq, blk, answered>>

\* The device finishes a request and raises its interrupt (external).
Device(t) ==
    /\ descs[t] # {} /\ t \notin Range(used)
    /\ used' = Append(used, t) /\ irq' = TRUE
    /\ UNCHANGED <<vqueue, token, descs, blk, bpc, answered>>

\* Token::ack_interrupt: lock the device and acknowledge.
Ack ==
    /\ irq /\ blk = "free" /\ blk' = "intr" /\ irq' = FALSE
    /\ UNCHANGED <<vqueue, token, descs, used, bpc, answered>>

\* One round of the loop and Token::complete: the Request leaves its slot, its
\* descriptors are free again, one waiting future is woken and the buffer is sent
\* (in vain when the receiver is gone).
Complete ==
    /\ blk = "intr" /\ used # <<>> /\ token[Head(used)] # NoOp
    /\ LET t == Head(used)
           o == token[t]
       IN  /\ token' = [token EXCEPT ![t] = NoOp] /\ descs' = [descs EXCEPT ![t] = {}]
           /\ answered' = IF bpc[o] = "none" THEN answered ELSE answered \cup {o}
    /\ vqueue' = NotifyAdditional(vqueue, 1)
    /\ used' = Tail(used) /\ UNCHANGED <<irq, blk, bpc>>


\* peek_used() finds nothing: the mutex is released.
AckEnd ==
    /\ blk = "intr" /\ used = <<>> /\ blk' = "free"
    /\ UNCHANGED <<vqueue, token, descs, used, irq, bpc, answered>>

Run(o) ==
    \/ Submit(o) \/ Submitted(o) \/ FullListen(o) \/ FullPoll(o) \/ Repoll(o)
    \/ Receive(o) \/ Over(o)

Handler == Ack \/ Complete \/ AckEnd

Next ==
    \/ \E o \in Ops : Chunk(o) \/ Run(o) \/ Cancel(o)
    \/ \E t \in Tokens : Device(t)
    \/ Handler

\* Every future that was woken is polled, the handler of a raised interrupt runs and
\* comes to its end, and the device finishes what it was given.
Spec ==
    /\ Init /\ [][Next]_vbvars
    /\ \A o \in Ops : WF_vbvars(Run(o))
    /\ \A t \in Tokens : WF_vbvars(Device(t))
    /\ WF_vbvars(Handler)
-----------------------------------------------------------------------------
\* The memory the device works on is always owned by a Request, whatever happens to the
\* future; and a slot is empty as soon as its token can be given out again, so that the
\* push().unwrap() of the next request finds room.
SlotsMatch == \A t \in Tokens : (token[t] # NoOp) <=> (descs[t] # {})

\* A future sleeps on the full queue only while the queue is full or while somebody who
\* was woken instead of it has not run yet: no completion is lost between the attempt
\* that found the queue full and the listener.
NoLostSlot ==
    \A o \in Ops :
        (/\ bpc[o] = "parked" /\ ~IsNotified(vqueue, o)
         /\ Cardinality(FreeDescs) >= OP_COUNT) =>
            \E q \in Ops : IsNotified(vqueue, q) \/ bpc[q] \in {"submit", "submitted", "full"}

\* A submitted request is answered, or its future is dropped: no finished request is left
\* in the queue without an interrupt.
RequestEnds == \A o \in Ops : []<>(bpc[o] # "wait")
=============================================================================
