------------------------------- MODULE Oneshot -------------------------------
(***************************************************************************)
(* The one-use channel of ksync (mizu/lib/ksync/src/channel/oneshot.rs):   *)
(* one atomic state, a waker (external: futures' AtomicWaker) and a data   *)
(* slot that both sides access without a lock.  One sender, which sends at *)
(* most once, and one receiver; a step is one access to shared memory.     *)
(***************************************************************************)
EXTENDS Naturals, FiniteSets

VARIABLES state,   \* "EMPTY", "DATA" or "DISCONNECTED"
          waker,   \* the receiver's waker is registered
          woken,   \* the receiver's task was woken
          data,    \* the slot holds the item
          spc,     \* the sender
          rpc,     \* the receiver
          place    \* where the item went: the owners that have had it handed to them

osvars == <<state, waker, woken, data, spc, rpc, place>>

Init ==
    /\ state = "EMPTY" /\ waker = FALSE /\ woken = FALSE /\ data = FALSE
    /\ spc = "idle" /\ rpc = "idle" /\ place = {}

-----------------------------------------------------------------------------

\* Packet::send: the item goes to the slot, then the state is swapped.
SendWrite ==
    /\ spc = "idle" /\ data' = TRUE
    /\ spc' = IF data THEN "panic" ELSE "swap"
    /\ UNCHANGED <<state, waker, woken, rpc, place>>

SendSwap ==
    /\ spc = "swap" /\ state' = "DATA"
    /\ spc' = CASE state = "EMPTY" -> "wake" [] state = "DISCONNECTED" -> "undo" [] OTHER -> "panic"
    /\ UNCHANGED <<waker, woken, data, rpc, place>>

SendWake ==
    /\ spc = "wake" /\ spc' = "sent"
    /\ woken' = (woken \/ waker) /\ waker' = FALSE
    /\ UNCHANGED <<state, data, rpc, place>>

SendUndo ==
    /\ spc = "undo" /\ spc' = "takeback" /\ state' = "DISCONNECTED"
    /\ UNCHANGED <<waker, woken, data, rpc, place>>

SendTakeBack ==
    /\ spc = "takeback" /\ data' = FALSE
    /\ spc' = IF data THEN "sent" ELSE "panic"
    /\ place' = place \cup {"returned"}
    /\ UNCHANGED <<state, waker, woken, rpc>>

\* Sender::drop: none of the states reaches the arm that wakes.
DropChan ==
    /\ spc \in {"idle", "sent"} /\ spc' = "gone" /\ state' = "DISCONNECTED"
    /\ UNCHANGED <<waker, woken, data, rpc, place>>
-----------------------------------------------------------------------------
\* Receiver::poll: look, register the waker, look again.
PollLoad ==
    /\ rpc \in {"idle", "recheck"} \/ (rpc = "wait" /\ woken)
    /\ rpc' = CASE state # "EMPTY" -> "load" [] rpc = "recheck" -> "wait" [] OTHER -> "register"
    /\ woken' = (woken /\ rpc # "wait")
    /\ UNCHANGED <<state, waker, data, spc, place>>

PollRegister ==
    /\ rpc = "register" /\ rpc' = "recheck" /\ waker' = TRUE
    /\ UNCHANGED <<state, woken, data, spc, place>>

\* Packet::try_recv, called by itself or by poll().
TryRecv ==
    /\ rpc \in {"idle", "load"}
    /\ rpc' = CASE state = "EMPTY" -> "idle" [] state = "DATA" -> "cas" [] OTHER -> "take_closed"
    /\ UNCHANGED <<state, waker, woken, data, spc, place>>

TryRecvCas ==
    /\ rpc = "cas" /\ rpc' = "take"
    /\ state' = IF state = "DATA" THEN "EMPTY" ELSE state
    /\ UNCHANGED <<waker, woken, data, spc, place>>

TryRecvCopy ==    \* mutant: the item is read and not taken
    /\ rpc \in {"take", "take_closed"}
    /\ rpc' = IF rpc = "take" /\ ~data THEN "panic" ELSE "idle"
    /\ place' = IF data THEN place \cup {"received"} ELSE place
    /\ UNCHANGED <<state, waker, woken, data, spc>>

TryRecvTake ==
    /\ rpc \in {"take", "take_closed"} /\ data' = FALSE
    /\ rpc' = IF rpc = "take" /\ ~data THEN "panic" ELSE "idle"
    /\ place' = IF data THEN place \cup {"received"} ELSE place
    /\ UNCHANGED <<state, waker, woken, spc>>

\* Receiver::drop, also of one that waits.
DropPort ==
    /\ rpc \in {"idle", "wait"} /\ state' = "DISCONNECTED"
    /\ rpc' = IF state = "DATA" THEN "destroy" ELSE "gone"
    /\ UNCHANGED <<waker, woken, data, spc, place>>

DropPortTake ==
    /\ rpc = "destroy" /\ data' = FALSE
    /\ rpc' = IF data THEN "gone" ELSE "panic"
    /\ place' = place \cup {"destroyed"}
    /\ UNCHANGED <<state, waker, woken, spc>>

\* Packet::drop, with the last of the two handles; an item still in the slot is
\* destroyed with it.
PacketDrop ==
    /\ spc = "gone" /\ rpc = "gone"
    /\ spc' = "freed" /\ rpc' = IF state = "DISCONNECTED" THEN "freed" ELSE "panic"
    /\ data' = FALSE /\ place' = IF data THEN place \cup {"destroyed"} ELSE place
    /\ UNCHANGED <<state, waker, woken>>

SenderStep == SendSwap \/ SendWake \/ SendUndo \/ SendTakeBack
ReceiverStep == PollLoad \/ PollRegister \/ (rpc = "load" /\ TryRecv) \/ TryRecvCas
                \/ TryRecvTake \/ DropPortTake

Next == SendWrite \/ SenderStep \/ DropChan \/ ReceiverStep \/ TryRecv \/ DropPort \/ PacketDrop

Spec == Init /\ [][Next]_osvars /\ WF_osvars(SenderStep) /\ WF_osvars(ReceiverStep)
-----------------------------------------------------------------------------
\* No assertion, unwrap() or unreachable!() of the channel can fail, and Packet is
\* dropped in the state its destructor asserts.
NoPanic == spc # "panic" /\ rpc # "panic"

\* The slot, which no lock protects, is never accessed by both sides at once: from
\* before it writes the item until it has published it or taken it back the sender
\* has the slot to itself.
SlotExclusive ==
    ~(spc \in {"idle", "swap", "undo", "takeback"} /\ rpc \in {"take", "take_closed", "destroy"})

\* The item ends with one owner, whichever side goes first: it is received, returned
\* to the sender or destroyed, never two of these, and never left in the packet.
ItemOnce ==
    /\ Cardinality(place) <= 1 /\ (data => place = {})
    /\ spc = "freed" => ~data

\* A receiver that waits is woken by the item: it does not sleep beside it for ever.
SentWakes == []<>~(rpc = "wait" /\ data /\ spc \in {"sent", "gone"})
=============================================================================
