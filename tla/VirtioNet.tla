------------------------------ MODULE VirtioNet ------------------------------
(***************************************************************************)
(* The rings of the virtio network driver (mizu/dev/virtio/src/net.rs) and *)
(* the tokens through which the IP stack uses them                         *)
(* (mizu/lib/devices/src/net/driver.rs).  The free transmit buffers form a *)
(* list threaded through the buffers themselves; a buffer given to the     *)
(* device is found again through indices[token].  A receive buffer always  *)
(* has the number of its token.  The virt queues are external: transmit    *)
(* tokens are any number that is not in use, receive tokens are recycled   *)
(* last in, first out.                                                     *)
(***************************************************************************)
EXTENDS Naturals, Sequences, FiniteSets

CONSTANT LEN          \* buffers of each ring

Ring == 0 .. LEN - 1

VARIABLES free_head, next,      \* TxRing: the free list; LEN ends it
          indices,              \* TxRing: token -> buffer
          txdev, txused,        \* transmit tokens the device holds, has finished
          rxdev, rxused,        \* receive tokens the device fills, has filled
          rxfree,               \* free receive tokens, the next one first
          peeked,               \* the tokens the stack holds: [tx, rx]
          npc                   \* "idle", "peeked", "panic"

vnvars == <<free_head, next, indices, txdev, txused, rxdev, rxused, rxfree, peeked, npc>>

None == LEN + 1
NoTokens == [tx |-> None, rx |-> None]

\* VirtioNet::new() and startup().
Init ==
    /\ free_head = 0 /\ next = [i \in Ring |-> i + 1] /\ indices = [i \in Ring |-> 0]
    /\ txdev = {} /\ txused = <<>>
    /\ rxdev = Ring /\ rxused = <<>> /\ rxfree = <<>>
    /\ peeked = NoTokens /\ npc = "idle"

InFlight == txdev \cup {txused[i] : i \in 1 .. Len(txused)}

\* The device sends or receives a frame (external).
DeviceTx(t) ==
    /\ t \in txdev /\ txdev' = txdev \ {t} /\ txused' = Append(txused, t)
    /\ UNCHANGED <<free_head, next, indices, rxdev, rxused, rxfree, peeked, npc>>

DeviceRx(t) ==
    /\ t \in rxdev /\ rxdev' = rxdev \ {t} /\ rxused' = Append(rxused, t)
    /\ UNCHANGED <<free_head, next, indices, txdev, txused, rxfree, peeked, npc>>

\* The loop of tx_peek(): the first k finished buffers, each in front of the list.
Reclaimed(k) ==
    IF k = 0 THEN [head |-> free_head, next |-> next]
    ELSE [head |-> indices[txused[k]],
          next |-> [i \in Ring |->
                      IF \E j \in 1 .. k : indices[txused[j]] = i
                      THEN LET j == CHOOSE n \in 1 .. k : indices[txused[n]] = i
                           IN  IF j = 1 THEN free_head ELSE indices[txused[j - 1]]
                      ELSE next[i]]]

\* tx_peek(): the finished buffers come back; the head of the list is never FREE_END,
\* so that there always is a token, LEN when the list is empty.
TxPeek ==
    LET r == Reclaimed(Len(txused))
    IN  free_head' = r.head /\ next' = r.next /\ txused' = <<>>

\* rx_peek(): the oldest filled buffer, if any.
RxPeek ==
    IF rxused = <<>> THEN UNCHANGED <<rxused, rxfree>>
    ELSE rxused' = Tail(rxused) /\ rxfree' = <<Head(rxused)>> \o rxfree

\* WithCx::receive(): both tokens or none.
Receive ==
    /\ npc = "idle" /\ TxPeek /\ RxPeek
    /\ IF rxused = <<>> THEN UNCHANGED <<peeked, npc>>
       ELSE peeked' = [tx |-> free_head', rx |-> Head(rxused)] /\ npc' = "peeked"
    /\ UNCHANGED <<indices, txdev, rxdev>>

\* WithCx::transmit().
Transmit ==
    /\ npc = "idle" /\ TxPeek
    /\ peeked' = [NoTokens EXCEPT !.tx = free_head'] /\ npc' = "peeked"
    /\ UNCHANGED <<indices, txdev, rxdev, rxused, rxfree>>

\* TxToken::consume(): tx_buffer() unlinks the buffer, transmit() gives it to the device.
TxConsume(t) ==
    /\ npc = "peeked" /\ peeked.tx \in Ring /\ t \in Ring \ InFlight
    /\ free_head' = (IF free_head = peeked.tx THEN next[free_head] ELSE free_head)
    /\ indices' = [indices EXCEPT ![t] = peeked.tx] /\ txdev' = txdev \cup {t}
    /\ peeked' = [peeked EXCEPT !.tx = None]
    /\ UNCHANGED <<next, txused, rxdev, rxused, rxfree, npc>>

\* With an empty list tx_buffer() indexes one past the ring.
TxPanic ==
    /\ npc = "peeked" /\ peeked.tx = LEN /\ npc' = "panic"
    /\ UNCHANGED <<free_head, next, indices, txdev, txused, rxdev, rxused, rxfree, peeked>>

\* RxToken::consume(): receive() gives the buffer back and asserts that it has its token.
RxConsume ==
    /\ npc = "peeked" /\ peeked.rx # None
    /\ rxdev' = rxdev \cup {Head(rxfree)} /\ rxfree' = Tail(rxfree)
    /\ peeked' = [peeked EXCEPT !.rx = None]
    /\ npc' = IF Head(rxfree) = peeked.rx THEN npc ELSE "panic"
    /\ UNCHANGED <<free_head, next, indices, txdev, txused, rxused>>

\* A transmit token is dropped unused; a receive token is always consumed.
Dropped ==
    /\ npc = "peeked" /\ peeked.rx = None
    /\ peeked' = NoTokens /\ npc' = "idle"
    /\ UNCHANGED <<free_head, next, indices, txdev, txused, rxdev, rxused, rxfree>>

Next ==
    \/ \E t \in Ring : DeviceTx(t) \/ DeviceRx(t) \/ TxConsume(t)
    \/ Receive \/ Transmit \/ TxPanic \/ RxConsume \/ Dropped

Spec == Init /\ [][Next]_vnvars
-----------------------------------------------------------------------------
OnDevice == {indices[t] : t \in InFlight}

\* The list a walk from free_head sees within LEN steps: place k of it, LEN at its end.
Walk[k \in 0 .. LEN] ==
    IF k = 0 THEN free_head ELSE IF Walk[k - 1] = LEN THEN LEN ELSE next[Walk[k - 1]]

\* The free list reaches every buffer the device does not have and none that it has:
\* no frame is written into a buffer that is being sent, and no buffer is lost.
TxSound ==
    /\ {Walk[k] : k \in 0 .. LEN} \ {LEN} = Ring \ OnDevice
    /\ Walk[LEN] = LEN

\* The assertion of receive() holds, and every receive buffer is with the device, filled,
\* or in the hands of the stack.
RxSound ==
    /\ peeked.rx # None => rxfree # <<>> /\ Head(rxfree) = peeked.rx
    /\ Len(rxfree) = (IF peeked.rx = None THEN 0 ELSE 1)
=============================================================================
