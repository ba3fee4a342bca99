-------------------------------- MODULE Sdmmc --------------------------------
(***************************************************************************)
(* The SD card driver (mizu/dev/sdmmc/src/lib.rs, imp.rs, adma.rs): tasks  *)
(* that send a command with a data transfer, wait for the response and     *)
(* then for the data, and the interrupt handler.  All of Inner is behind   *)
(* one spin lock, so that a poll and a round of the handler are steps.     *)
(*                                                                         *)
(* There is one slot for the response, one for the data and one waker for  *)
(* each of four events.  The controller is external: it works on the       *)
(* command and, through the descriptor table, on the buffer of one         *)
(* transfer, and raises interrupt bits.  What the descriptor table holds   *)
(* is a function of the address and the length of the buffer.              *)
(***************************************************************************)
EXTENDS Naturals, Sequences, FiniteSetsExt

CONSTANTS Tasks,    \* tasks that read or write blocks
          Kinds,    \* transfers they make, of {"single", "multi"}
          Faults,   \* what may go wrong, of {"data", "cmd", "cancel", "removal"}
          NoTask,
          MAX_SEGMENTS, ADDR_ALIGN,
          DescLen,  \* Descriptor::MAX_LEN
          Bounce    \* the address of the bounce buffer

Events == {"cmd_idle", "data_idle", "cmd_finished", "data_finished"}

VARIABLES working_cmd,    \* Inner: whose command is worked on, [of, data, busy]
          resp_slot,      \* Inner: [of, ok]
          data_slot,      \* Inner: [of, res], res of {"none", "ok", "err"}
          waker,          \* the AtomicWakers: the task registered for each event
          present, inhibit_cmd, inhibit_data, intr,    \* the controller's registers
          dma,            \* the task whose buffer the controller may touch
          kind, tpc,      \* the transfer of each task and where it is
          ready           \* the tasks that were woken

sdvars == <<working_cmd, resp_slot, data_slot, waker, present, inhibit_cmd, inhibit_data,
            intr, dma, kind, tpc, ready>>

NoCmd == [of |-> NoTask, data |-> FALSE, busy |-> FALSE]
NoResp == [of |-> NoTask, ok |-> FALSE]
NoData == [of |-> NoTask, res |-> "none"]

\* Inner::new() after init().
Init ==
    /\ working_cmd = NoCmd /\ resp_slot = NoResp /\ data_slot = NoData
    /\ waker = [e \in Events |-> NoTask]
    /\ present = TRUE /\ inhibit_cmd = FALSE /\ inhibit_data = FALSE /\ intr = {}
    /\ dma = NoTask
    /\ kind = [t \in Tasks |-> "single"] /\ tpc = [t \in Tasks |-> "idle"]
    /\ ready = Tasks

Goto(t, l) == tpc' = [tpc EXCEPT ![t] = l]
Registered(t, E) == waker' = [e \in Events |-> IF e \in E THEN t ELSE waker[e]]
\* AtomicWaker::wake() of the events in E.
Woken(E) ==
    /\ waker' = [e \in Events |-> IF e \in E THEN NoTask ELSE waker[e]]
    /\ ready' = ready \cup ({waker[e] : e \in E} \ {NoTask})

-----------------------------------------------------------------------------
(* THE DESCRIPTOR TABLE: a descriptor whose length field is 0 moves DescLen bytes. *)

\* DescTable::MAX_LEN
MAX_LEN == (MAX_SEGMENTS - 2) * DescLen

Desc(addr, len) == [addr |-> addr, len |-> len % DescLen]

\* The bytes before the first aligned address; they go through the bounce buffer.
AlignOffset(b) == (ADDR_ALIGN - (b % ADDR_ALIGN)) % ADDR_ALIGN

\* fill(): the unaligned head, the full descriptors, the rest.
Fill(b, n) ==
    LET head == Min({AlignOffset(b), n})
        full == (n - head) \div DescLen
        rest == (n - head) % DescLen
    IN  (IF AlignOffset(b) > 0 THEN <<Desc(Bounce, head)>> ELSE <<>>)
        \o [i \in 1 .. full |-> Desc(b + head + (i - 1) * DescLen, 0)]
        \o (IF rest > 0 THEN <<Desc(b + head + full * DescLen, rest)>> ELSE <<>>)

\* send_data() cuts the buffer to MAX_LEN before it fills the table with it.
SentLen(n) == Min({n, MAX_LEN})
-----------------------------------------------------------------------------
\* Block::read(), Block::write(): a transfer of one or of several blocks.
Start(t, k) ==
    /\ tpc[t] = "idle" /\ kind' = [kind EXCEPT ![t] = k] /\ Goto(t, "send")
    /\ UNCHANGED <<working_cmd, resp_slot, data_slot, waker, present, inhibit_cmd,
                   inhibit_data, intr, dma, ready>>

Sends(t) == tpc[t] \in {"send", "stop"}

\* poll_inhibit(): the events to wait for before the next command.  Every command
\* here occupies the data line.
Inhibit ==
    (IF inhibit_cmd THEN {"cmd_idle"} ELSE {})
    \cup (IF inhibit_data \/ data_slot # NoData THEN {"data_idle"} ELSE {})

\* send_cmd() returns Pending.
SendWait(t) ==
    /\ present /\ t \in ready /\ Sends(t) /\ Inhibit # {}
    /\ Registered(t, Inhibit) /\ ready' = ready \ {t}
    /\ UNCHANGED <<working_cmd, resp_slot, data_slot, present, inhibit_cmd, inhibit_data,
                   intr, dma, kind, tpc>>

\* send_cmd() with set_transfer() and send_data(): the descriptor table and the data slot
\* get the buffer, the registers the command.
SendCmd(t) ==
    /\ present /\ t \in ready /\ Sends(t) /\ Inhibit = {}
    /\ LET data == tpc[t] = "send"
       IN  /\ working_cmd' = [of |-> t, data |-> data, busy |-> ~data]
           /\ data_slot' = IF data THEN [of |-> t, res |-> "none"] ELSE data_slot
           /\ dma' = IF data THEN t ELSE dma
           /\ Goto(t, IF data THEN "resp" ELSE "stopped")
    /\ inhibit_cmd' = TRUE /\ inhibit_data' = TRUE
    /\ UNCHANGED <<resp_slot, waker, present, intr, kind, ready>>

\* get_resp() finds a response.  An error ends the call: get_data() is not reached.
GetResp(t) ==
    /\ present /\ t \in ready /\ tpc[t] \in {"resp", "stopped"} /\ resp_slot # NoResp
    /\ resp_slot' = NoResp
    /\ Woken({"cmd_idle"})
    /\ Goto(t, IF tpc[t] = "resp" /\ resp_slot.ok THEN "data" ELSE "idle")
    /\ UNCHANGED <<working_cmd, data_slot, present, inhibit_cmd, inhibit_data, intr, dma, kind>>

GetRespWait(t) ==
    /\ present /\ t \in ready /\ tpc[t] \in {"resp", "stopped"} /\ resp_slot = NoResp
    /\ Registered(t, {"cmd_finished"}) /\ ready' = ready \ {t}
    /\ UNCHANGED <<working_cmd, resp_slot, data_slot, present, inhibit_cmd, inhibit_data,
                   intr, dma, kind, tpc>>

\* get_data() finds a result; a transfer of several blocks that failed is stopped.
GetData(t) ==
    /\ present /\ t \in ready /\ tpc[t] = "data" /\ data_slot.res # "none"
    /\ data_slot' = NoData /\ Woken({"data_idle"})
    /\ Goto(t, IF kind[t] = "multi" /\ data_slot.res = "err" THEN "stop" ELSE "idle")
    /\ UNCHANGED <<working_cmd, resp_slot, present, inhibit_cmd, inhibit_data, intr, dma, kind>>

GetDataWait(t) ==
    /\ present /\ t \in ready /\ tpc[t] = "data" /\ data_slot # NoData /\ data_slot.res = "none"
    /\ Registered(t, {"data_finished"}) /\ ready' = ready \ {t}
    /\ UNCHANGED <<working_cmd, resp_slot, data_slot, present, inhibit_cmd, inhibit_data,
                   intr, dma, kind, tpc>>

\* Without a card every poll returns ENODEV; get_data() empties the data slot.
Gone(t) ==
    /\ ~present /\ t \in ready /\ tpc[t] # "idle"
    /\ data_slot' = IF tpc[t] = "data" THEN NoData ELSE data_slot
    /\ Goto(t, "idle")
    /\ UNCHANGED <<working_cmd, resp_slot, waker, present, inhibit_cmd, inhibit_data, intr,
                   dma, kind, ready>>

\* The future of a task that waits is dropped.  A waker that stays registered is stale.
Cancel(t) ==
    /\ "cancel" \in Faults /\ t \notin ready /\ tpc[t] # "idle"
    /\ Goto(t, "idle") /\ ready' = ready \cup {t}
    /\ UNCHANGED <<working_cmd, resp_slot, data_slot, waker, present, inhibit_cmd,
                   inhibit_data, intr, dma, kind>>

\* The controller ends a command (external); the busy time of a stop command is over
\* when its response is there.  A command that failed has no data phase.
CommandEnds(e) ==
    /\ inhibit_cmd /\ e \in (IF "cmd" \in Faults THEN {"complete", "timeout", "crc"} ELSE {"complete"})
    /\ inhibit_cmd' = FALSE
    /\ intr' = intr \cup (IF working_cmd.busy THEN {e, "transfer"} ELSE {e})
    /\ inhibit_data' = (working_cmd.data /\ e = "complete")
    /\ dma' = IF e = "complete" THEN dma ELSE NoTask
    /\ UNCHANGED <<working_cmd, resp_slot, data_slot, waker, present, kind, tpc, ready>>

\* The controller has moved the data, or met an error and waits for a reset (external).
TransferEnds(e) ==
    /\ dma # NoTask /\ ~inhibit_cmd
    /\ \/ e = "transfer" /\ dma' = NoTask /\ inhibit_data' = FALSE
       \/ e = "data_err" /\ "data" \in Faults /\ UNCHANGED <<dma, inhibit_data>>
    /\ intr \cap {"transfer", "data_err"} = {} /\ intr' = intr \cup {e}
    /\ UNCHANGED <<working_cmd, resp_slot, data_slot, waker, present, inhibit_cmd, kind, tpc, ready>>

Remove ==
    /\ "removal" \in Faults /\ present /\ present' = FALSE
    /\ UNCHANGED <<working_cmd, resp_slot, data_slot, waker, inhibit_cmd, inhibit_data, intr,
                   dma, kind, tpc, ready>>

\* ack_cmd_intr(): what the response slot becomes.  An error of the checksum of a command
\* with data is left to the data part, and there is no response.
CmdAcked(bits) ==
    IF working_cmd = NoCmd \/ bits \cap {"complete", "timeout", "crc"} = {} THEN resp_slot
    ELSE IF "timeout" \in bits THEN [of |-> working_cmd.of, ok |-> FALSE]
    ELSE IF "crc" \in bits
         THEN IF working_cmd.data THEN resp_slot ELSE [of |-> working_cmd.of, ok |-> FALSE]
    ELSE [of |-> working_cmd.of, ok |-> TRUE]


\* ack_data_intr(): the result of the transfer; after an error the data line is reset.
DataAcked(failed, done) ==
    LET unexpected == data_slot = NoData
        reset == ~unexpected /\ (failed \/ data_slot.res = "err")
    IN  /\ data_slot' = IF unexpected THEN data_slot
                        ELSE IF reset THEN [data_slot EXCEPT !.res = "err"]
                        ELSE IF done THEN [data_slot EXCEPT !.res = "ok"] ELSE data_slot
        /\ dma' = IF reset THEN NoTask ELSE dma
        /\ inhibit_data' = (inhibit_data /\ ~reset)

\* A round of ack_interrupt(): the bits are cleared, then the command and the data bits
\* are handled.
AckInterrupt ==
    /\ intr # {} /\ intr' = {}
    /\ LET cmdbits == intr \cap {"complete", "timeout", "crc"} # {}
           crc == "crc" \in intr /\ "timeout" \notin intr /\ working_cmd.data
           failed == "data_err" \in intr \/ crc
           done == "transfer" \in intr
       IN  /\ resp_slot' = CmdAcked(intr)
           /\ working_cmd' = IF cmdbits THEN NoCmd ELSE working_cmd
           /\ IF failed \/ done THEN DataAcked(failed, done)
              ELSE UNCHANGED <<data_slot, dma, inhibit_data>>
           /\ Woken((IF resp_slot' # resp_slot THEN {"cmd_finished"} ELSE {})
                    \cup (IF data_slot' # data_slot THEN {"data_finished"} ELSE {}))
    /\ UNCHANGED <<present, inhibit_cmd, kind, tpc>>

Poll(t) ==
    \/ SendWait(t) \/ SendCmd(t) \/ GetResp(t) \/ GetRespWait(t) \/ GetData(t) \/ GetDataWait(t)
    \/ Gone(t)

Controller ==
    \/ \E e \in {"complete", "timeout", "crc"} : CommandEnds(e)
    \/ \E e \in {"transfer", "data_err"} : TransferEnds(e)

Next ==
    \/ \E t \in Tasks : (\E k \in Kinds : Start(t, k)) \/ Poll(t) \/ Cancel(t)
    \/ Controller \/ Remove \/ AckInterrupt

Spec ==
    /\ Init /\ [][Next]_sdvars
    /\ \A t \in Tasks : WF_sdvars(Poll(t))
    /\ WF_sdvars(Controller) /\ WF_sdvars(AckInterrupt)
-----------------------------------------------------------------------------
\* The buffer the controller works on stays in the data slot until the transfer is over
\* or the data line was reset, whatever becomes of the task ("`buf` must be alive until
\* the transfer is complete", adma.rs), and the buffer that extract() gets is the one
\* that was filled.
DmaAlive == present /\ dma # NoTask => data_slot.of = dma

\* Nobody takes the answer to another task's command: a task that waits for a response or
\* for data finds its own in the slot.
AnswersOwn ==
    \A t \in Tasks :
        /\ tpc[t] \in {"resp", "stopped"} /\ resp_slot # NoResp => resp_slot.of = t
        /\ tpc[t] = "data" => data_slot.of = t

Moves(d) == IF d.len = 0 THEN DescLen ELSE d.len

\* The descriptors and the END one fit into the table (the iter.next().unwrap() of fill()),
\* they cover the buffer without a gap, and what does not start at an aligned address is
\* the head that extract() copies from the bounce buffer: for every transfer of at least
\* one byte (a read of less than a block has an empty buffer, at the dangling address 1,
\* and its head descriptor gets the length 0).
TableCovers ==
    \A b \in 0 .. ADDR_ALIGN - 1, n \in 1 .. MAX_LEN + DescLen :
        LET table == Fill(b, SentLen(n))
            Before[i \in 0 .. Len(table)] ==
                IF i = 0 THEN 0 ELSE Before[i - 1] + Moves(table[i])
        IN  /\ Len(table) + 1 <= MAX_SEGMENTS
            /\ Before[Len(table)] = SentLen(n)
            /\ \A i \in 1 .. Len(table) :
                  IF table[i].addr = Bounce
                  THEN i = 1 /\ Moves(table[i]) = Min({AlignOffset(b), SentLen(n)})
                  ELSE table[i].addr = b + Before[i - 1] /\ table[i].addr % ADDR_ALIGN = 0

\* A task that waits is woken: no event is signalled to somebody else or before the
\* task listened.  (Whether it then gets its turn depends on who is polled first.)
SleeperWoken == \A t \in Tasks : []<>(t \in ready)
=============================================================================
