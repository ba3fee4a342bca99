----------------------------- MODULE MCDevices ------------------------------
(***************************************************************************)
(* The devices for TLC: the virtio block device, the virtio network        *)
(* device, the SD controller with its descriptor table, and above the      *)
(* network device the network stack and the listening TCP sockets.  They   *)
(* share no state, so one run checks them one after the other: `part`      *)
(* names the component that takes the steps of a behaviour.                *)
(***************************************************************************)
EXTENDS Naturals, Sequences

CONSTANTS NoOp, NoTask

VARIABLES part,
          vqueue, token, descs, used, irq, blk, bpc, answered,
          free_head, next, indices, txdev, txused, rxdev, rxused, rxfree, peeked, npc,
          working_cmd, resp_slot, data_slot, waker, present, inhibit_cmd, inhibit_data,
          intr, dma, kind, tpc, ready,
          sock, slot, accept_event, accepts, chan, tx, apc, conn, woken, cpc, got, upc,
          work, poller, timer, queued, link, link_up, dhcp, iface, servers, resolver

\* Three futures for two requests' worth of descriptors.
Block == INSTANCE VirtioBlock WITH Ops <- {"o1", "o2", "o3"}, QueueSize <- 4, OP_COUNT <- 2
Net == INSTANCE VirtioNet WITH LEN <- 2
\* Two tasks and errors of the data line; one task that also moves several blocks;
\* two tasks and every fault; three tasks that may be cancelled.
Card == INSTANCE Sdmmc WITH
    Tasks <- {"t1", "t2"}, Kinds <- {"single"}, Faults <- {"data"},
    MAX_SEGMENTS <- 6, ADDR_ALIGN <- 4, DescLen <- 8, Bounce <- 99999
CardStop == INSTANCE Sdmmc WITH
    Tasks <- {"t1"}, Kinds <- {"single", "multi"}, Faults <- {"data"},
    MAX_SEGMENTS <- 6, ADDR_ALIGN <- 4, DescLen <- 8, Bounce <- 99999
CardFaults == INSTANCE Sdmmc WITH
    Tasks <- {"t1", "t2"}, Kinds <- {"single"},
    Faults <- {"data", "cmd", "cancel", "removal"},
    MAX_SEGMENTS <- 6, ADDR_ALIGN <- 4, DescLen <- 8, Bounce <- 99999
CardThree == INSTANCE Sdmmc WITH
    Tasks <- {"t1", "t2", "t3"}, Kinds <- {"single"}, Faults <- {"cancel"},
    MAX_SEGMENTS <- 6, ADDR_ALIGN <- 4, DescLen <- 8, Bounce <- 99999

\* Two callers of accept(); then one, with resets and with a drop of the open socket.
Tcp == INSTANCE TcpListen WITH
    Handles <- {"h1", "h2", "h3", "h4"}, Callers <- {"c1", "c2"}, Backlog <- 1, Faults <- {}
TcpFaults == INSTANCE TcpListen WITH
    Handles <- {"h1", "h2", "h3", "h4"}, Callers <- {"c1"}, Backlog <- 1,
    Faults <- {"reset", "drop"}
Stack == INSTANCE NetStack WITH Leases <- {"a", "b"}, waker <- poller

block == <<vqueue, token, descs, used, irq, blk, bpc, answered>>
net == <<free_head, next, indices, txdev, txused, rxdev, rxused, rxfree, peeked, npc>>
card == <<working_cmd, resp_slot, data_slot, waker, present, inhibit_cmd, inhibit_data,
          intr, dma, kind, tpc, ready>>
tcp == <<sock, slot, accept_event, accepts, chan, tx, apc, conn, woken, cpc, got, upc>>
stack == <<work, poller, timer, queued, link, link_up, dhcp, iface, servers, resolver>>
vars == <<part, block, net, card, tcp, stack>>

Init ==
    /\ part \in {"block", "net", "card", "card_stop", "card_faults", "card_three",
                 "tcp", "tcp_faults", "stack"}
    /\ Block!Init /\ Net!Init
    /\ Stack!Init /\ (part # "stack" => link)
    /\ IF part = "tcp_faults" THEN TcpFaults!Init ELSE Tcp!Init
    /\ CASE part = "card_stop" -> CardStop!Init
         [] part = "card_faults" -> CardFaults!Init
         [] part = "card_three" -> CardThree!Init
         [] OTHER -> Card!Init

Next ==
    \/ /\ UNCHANGED part
       /\ IF part = "block" THEN Block!Next ELSE UNCHANGED block
       /\ IF part = "net" THEN Net!Next ELSE UNCHANGED net
       /\ CASE part = "card" -> Card!Next
            [] part = "card_stop" -> CardStop!Next
            [] part = "card_faults" -> CardFaults!Next
            [] part = "card_three" -> CardThree!Next
            [] OTHER -> UNCHANGED card
       /\ CASE part = "tcp" -> Tcp!Next
            [] part = "tcp_faults" -> TcpFaults!Next
            [] OTHER -> UNCHANGED tcp
       /\ IF part = "stack" THEN Stack!Next ELSE UNCHANGED stack
    \* A network device with nothing to move, a removed card and a closed socket may stop.
    \/ part \in {"net", "card_faults", "tcp", "tcp_faults"} /\ UNCHANGED vars

\* The fairness of VirtioBlock (its requests of two descriptors have the tokens 0 and 2),
\* Sdmmc, TcpListen and NetStack.
Spec ==
    /\ Init /\ [][Next]_vars
    /\ \A o \in {"o1", "o2", "o3"} : WF_block(part = "block" /\ Block!Run(o))
    /\ \A t \in {0, 2} : WF_block(part = "block" /\ Block!Device(t))
    /\ WF_block(part = "block" /\ Block!Handler)
    /\ \A t \in {"t1", "t2"} : WF_card(part = "card" /\ Card!Poll(t))
    /\ WF_card(part = "card" /\ Card!Controller) /\ WF_card(part = "card" /\ Card!AckInterrupt)
    /\ WF_tcp(part = "tcp" /\ Tcp!AcceptTask)
    /\ \A c \in {"c1", "c2"} : WF_tcp(part = "tcp" /\ Tcp!Caller(c))
    /\ WF_stack(part = "stack" /\ (Stack!PollEarly \/ Stack!Poll))
    /\ WF_stack(part = "stack" /\ Stack!TimerFires)
-----------------------------------------------------------------------------
\* A Request owns the memory the device works on and its slot is empty when its token can
\* be given out again; no future sleeps on a queue that has room unless one that was woken
\* runs (VirtioBlock).  The free list of the transmit ring holds exactly the buffers the
\* device does not have, and the receive token is the buffer receive() asserts (VirtioNet).
QueuesSound ==
    /\ part = "block" => Block!SlotsMatch /\ Block!NoLostSlot
    /\ part = "net" => Net!TxSound /\ Net!RxSound



\* Block!RequestEnds in behaviours of Block, Card!SleeperWoken in behaviours of Card.
RequestEnds == \A o \in {"o1", "o2", "o3"} : []<>(part = "block" => bpc[o] # "wait")
SleeperWoken == \A t \in {"t1", "t2"} : []<>(part = "card" => t \in ready)

\* A connection and a caller that waits for one meet (Tcp!Meet, in behaviours of Tcp).
Meet ==
    \A c \in {"c1", "c2"} :
        []<>(part = "tcp" => cpc[c] # "recv" \/ sock[slot] # "established")

\* What was changed in a socket is polled in the end (Stack!Served, in behaviours of Stack).
Served == []<>(part = "stack" => ~work)

=============================================================================
