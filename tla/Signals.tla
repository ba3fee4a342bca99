------------------------------- MODULE Signals -------------------------------
(***************************************************************************)
(* The signals of a task: the queues of mizu/lib/sygnal/src/queue.rs, the  *)
(* delivery and the system calls of mizu/kernel/src/task/signal.rs and     *)
(* task/signal/syscall.rs, and the system calls that wait beside them      *)
(* (user_loop() and handle_syscall() in task/future.rs). Senders are other *)
(* tasks (kill, tkill, an exiting child); a signal is its number.          *)
(***************************************************************************)
EXTENDS Naturals, Sequences, FiniteSets, FiniteSetsExt

CONSTANTS Sigs,      \* the signals that occur
          Sets,      \* the sets user code passes to the system calls
          Caught,    \* the signals user code changes the action of
          Senders,
          Cap,       \* CAP_PER_SIG
          MaxNest    \* bound: saved frames that are remembered

SIGKILL == 9
SIGSEGV == 11
SIGCHLD == 17
SIGCONT == 18
SIGSTOP == 19
SIGURG == 23
None == 0

is_legacy(s) == s <= 32
NeverCapture == {SIGKILL, SIGSTOP}
Room(s) == IF is_legacy(s) THEN 1 ELSE Cap

\* ActionType::default()
DefaultAction(s) ==
    CASE s \in {SIGCHLD, SIGURG} -> "Ignore"
      [] s = SIGSTOP -> "Suspend"
      [] s = SIGCONT -> "Resume"
      [] OTHER -> "Kill"

VARIABLES set, queue,          \* Signals: the bits, the entries queued of each signal
          listening, notified, \* SigPending::event: the signals the task listens to; those notified
          pushing,             \* what each sender has marked and not yet queued
          sig_mask, actions,   \* TaskState
          frames,              \* the masks saved on the user's stack
          opc,                 \* where the task is
          popped,              \* the signal it has popped
          wanted,              \* the signals that end the wait it is in
          taking,              \* those of them that the wait takes from the queue
          saved,               \* masks handle_syscall() and sigsuspend() put back, innermost last
          umask                \* ghost: the mask the user has set

sgvars == <<set, queue, listening, notified, pushing, sig_mask, actions, frames, opc,
            popped, wanted, taking, saved, umask>>

qvars == <<set, queue, listening, notified, pushing>>
tvars == <<sig_mask, actions, frames, umask>>

\* Action::default_sig_mask()
Init ==
    /\ set = {} /\ queue = [s \in Sigs |-> 0]
    /\ listening = {} /\ notified = {} /\ pushing = [p \in Senders |-> None]
    /\ sig_mask = {s \in Sigs : DefaultAction(s) = "Ignore"} /\ umask = sig_mask
    /\ actions = [s \in Sigs |-> DefaultAction(s)]
    /\ frames = <<>> /\ opc = "handle" /\ popped = None /\ wanted = {} /\ taking = {} /\ saved = <<>>
-----------------------------------------------------------------------------
\* Signals::push(), first half: the bit is set, and a legacy signal whose bit was set is
\* dropped.
PushMark(p, s) ==
    /\ pushing[p] = None /\ opc # "dead"
    /\ set' = set \cup {s}
    /\ pushing' = [pushing EXCEPT ![p] = IF is_legacy(s) /\ s \in set THEN None ELSE s]
    /\ UNCHANGED <<queue, listening, notified, opc, popped, wanted, taking, saved>> /\ UNCHANGED tvars

\* The entry and the notification of a push of s; a full queue drops both.
Entry(s) ==
    /\ queue' = [queue EXCEPT ![s] = IF @ < Room(s) THEN @ + 1 ELSE @]
    /\ notified' = IF queue[s] < Room(s) THEN notified \cup ({s} \cap listening) ELSE notified

PushQueue(p) ==
    /\ pushing[p] # None /\ Entry(pushing[p])
    /\ pushing' = [pushing EXCEPT ![p] = None]
    /\ UNCHANGED <<set, listening, opc, popped, wanted, taking, saved>> /\ UNCHANGED tvars

\* A push by the task itself, which nobody's step can separate from what follows.
PushSelf(s) ==
    /\ set' = set \cup {s}
    /\ IF is_legacy(s) /\ s \in set THEN UNCHANGED <<queue, notified>> ELSE Entry(s)
    /\ UNCHANGED <<listening, pushing>>

CandidatesAfter ==    \* mutant: the search begins behind the first signal
    {s \in Sigs \ (sig_mask \ NeverCapture) : queue[s] > 0 /\ s > Min(Sigs)}

\* Signals::pop(): the first signal that is not masked and has an entry.
Candidates == {s \in Sigs \ (sig_mask \ NeverCapture) : queue[s] > 0}

PopNone ==
    /\ opc = "handle" /\ (set = {} \/ Candidates = {})
    /\ opc' = "user"
    /\ UNCHANGED <<popped, wanted, taking, saved>> /\ UNCHANGED tvars /\ UNCHANGED qvars

PopTake ==
    /\ opc = "handle" /\ set # {} /\ Candidates # {}
    /\ popped' = Min(Candidates)
    /\ queue' = [queue EXCEPT ![Min(Candidates)] = @ - 1]
    /\ opc' = IF queue[Min(Candidates)] = 1 THEN "clear" ELSE "act"
    /\ UNCHANGED <<set, listening, notified, pushing, wanted, taking, saved>> /\ UNCHANGED tvars

PopClear ==
    /\ opc = "clear" /\ set' = set \ {popped} /\ opc' = "act"
    /\ UNCHANGED <<queue, listening, notified, pushing, popped, wanted, taking, saved>>
    /\ UNCHANGED tvars
-----------------------------------------------------------------------------
\* handle_signals() on the signal that was popped: Ignore and Resume only report.
ActIgnore ==
    /\ opc = "act" /\ actions[popped] \in {"Ignore", "Resume"}
    /\ opc' = "user" /\ popped' = None
    /\ UNCHANGED <<wanted, taking, saved>> /\ UNCHANGED tvars /\ UNCHANGED qvars

ActKill ==
    /\ opc = "act" /\ actions[popped] = "Kill"
    /\ opc' = "dead" /\ popped' = None
    /\ UNCHANGED <<wanted, taking, saved>> /\ UNCHANGED tvars /\ UNCHANGED qvars

\* A suspended task waits for SIGCONT only.
ActSuspend ==
    /\ opc = "act" /\ actions[popped] = "Suspend"
    /\ opc' = "stopped" /\ popped' = None /\ wanted' = {SIGCONT} \cap Sigs
    /\ taking' = wanted' /\ UNCHANGED saved /\ UNCHANGED tvars /\ UNCHANGED qvars

\* yield_to_signal(): the frame goes to the user's stack. Handlers that are left without
\* a return leave theirs behind.
ActUser ==
    /\ opc = "act" /\ actions[popped] = "User"
    /\ frames' = Append(IF Len(frames) < MaxNest THEN frames ELSE Tail(frames), sig_mask)
    /\ sig_mask' = sig_mask \cup {popped} /\ umask' = sig_mask'
    /\ opc' = "user" /\ popped' = None
    /\ UNCHANGED <<actions, wanted, taking, saved>> /\ UNCHANGED qvars

\* The stack cannot be written: SIGSEGV, or the end when it was the signal.
ActUserFault ==
    /\ opc = "act" /\ actions[popped] = "User" /\ SIGSEGV \in Sigs
    /\ IF popped = SIGSEGV
       THEN opc' = "dead" /\ UNCHANGED qvars
       ELSE opc' = "user" /\ PushSelf(SIGSEGV)
    /\ popped' = None
    /\ UNCHANGED <<wanted, taking, saved>> /\ UNCHANGED tvars
-----------------------------------------------------------------------------
\* resume_from_signal(): the frame may be anywhere the user has put it; the last one here.
SigReturn ==
    /\ opc = "user" /\ frames # <<>>
    /\ sig_mask' = frames[Len(frames)] /\ umask' = sig_mask'
    /\ frames' = SubSeq(frames, 1, Len(frames) - 1) /\ opc' = "handle"
    /\ UNCHANGED <<actions, popped, wanted, taking, saved>> /\ UNCHANGED qvars

\* sigaction()
SigAction(s, ty) ==
    /\ opc = "user" /\ opc' = "handle"
    /\ actions' = [actions EXCEPT ![s] = IF s \in NeverCapture THEN DefaultAction(s) ELSE ty]
    /\ LET shown == IF actions[s] = "Ignore" THEN sig_mask \ {s} ELSE sig_mask
       IN  sig_mask' = IF ty = "Ignore" THEN shown \cup {s} ELSE shown
    /\ umask' = sig_mask'
    /\ UNCHANGED <<frames, popped, wanted, taking, saved>> /\ UNCHANGED qvars

\* sigprocmask(): block, unblock, set.
SigProcMask(S) ==
    /\ opc = "user" /\ opc' = "handle"
    /\ sig_mask' \in {sig_mask \cup S, sig_mask \ S, S} /\ umask' = sig_mask'
    /\ UNCHANGED <<actions, frames, popped, wanted, taking, saved>> /\ UNCHANGED qvars

\* A page fault that cannot be resolved, an expired interval timer (user_loop()), or
\* kill(), tkill(), tgkill() of the task itself, around which handle_syscall() masks
\* every signal for as long as nothing can be seen of it.
Raise(s) ==
    /\ opc = "user" /\ opc' = "handle" /\ PushSelf(s)
    /\ UNCHANGED <<popped, wanted, taking, saved>> /\ UNCHANGED tvars

Other ==
    /\ opc = "user" /\ opc' = "handle"
    /\ UNCHANGED <<popped, wanted, taking, saved>> /\ UNCHANGED tvars /\ UNCHANGED qvars
-----------------------------------------------------------------------------
\* handle_syscall() of a system call that blocks: it waits beside for the signals that
\* are not masked.
Block ==
    /\ opc = "user" /\ opc' = "blocked" /\ wanted' = Sigs \ sig_mask
    /\ UNCHANGED <<popped, taking, saved>> /\ UNCHANGED tvars /\ UNCHANGED qvars

\* sigtimedwait(): the signals of S are taken from the queues, the others interrupt it.
SigTimedWait(S) ==
    /\ opc = "user" /\ S # {} /\ opc' = "sigwait"
    /\ taking' = S /\ wanted' = S \cup (Sigs \ sig_mask)
    /\ UNCHANGED <<popped, saved>> /\ UNCHANGED tvars /\ UNCHANGED qvars

\* sigsuspend(): handle_syscall() has put a full mask in place, sigsuspend() its own.
SigSuspend(S) ==
    /\ opc = "user" /\ opc' = "suspend" /\ wanted' = Sigs \ S
    /\ saved' = <<sig_mask, Sigs>> /\ sig_mask' = S
    /\ UNCHANGED <<actions, frames, umask, popped, taking>> /\ UNCHANGED qvars

Waits == {"blocked", "sigwait", "suspend", "stopped"}
Ready == {s \in wanted : queue[s] > 0}

\* A poll of the wait for a signal: no entry, no listener: it listens ...
Listen(s) ==
    /\ opc \in Waits /\ s \in wanted \ listening /\ queue[s] = 0
    /\ listening' = listening \cup {s}
    /\ UNCHANGED <<set, queue, notified, pushing, opc, popped, wanted, taking, saved>> /\ UNCHANGED tvars

\* ... and looks again; woken, it looks again.
Wake(s) ==
    /\ opc \in Waits /\ s \in notified /\ queue[s] = 0
    /\ listening' = listening \ {s} /\ notified' = notified \ {s}
    /\ UNCHANGED <<set, queue, pushing, opc, popped, wanted, taking, saved>> /\ UNCHANGED tvars

\* What makes the task look: it has not yet listened to a signal, or was notified of one.
Looks == notified # {} \/ ~(wanted \subseteq listening)

\* The futures of the wait are dropped, their listeners with them.
WaitOver == wanted' = {} /\ taking' = {} /\ listening' = {} /\ notified' = {}

\* The masks are put back: sigsuspend() its one when it ends by itself, then
\* handle_syscall() the first.
Restore ==
    /\ sig_mask' = IF saved = <<>> THEN sig_mask ELSE saved[1]
    /\ saved' = <<>>

\* A call is interrupted by an entry the wait beside it, or sigsuspend(), looks at: EINTR.
Interrupted ==
    /\ opc \in {"blocked", "sigwait", "suspend"} /\ Looks /\ Ready \ sig_mask # {}
    /\ opc' = "handle" /\ WaitOver /\ Restore
    /\ UNCHANGED <<set, queue, pushing, actions, frames, umask, popped>>

\* sigtimedwait() and a suspended task take the entry they look at.
Taken ==
    /\ opc \in {"sigwait", "stopped"} /\ Looks
    /\ \E s \in Ready \cap taking :
          /\ queue' = [queue EXCEPT ![s] = @ - 1]
          /\ popped' = s
          /\ opc' = IF queue[s] = 1 THEN "waitclear" ELSE "waitend"
    /\ WaitOver
    /\ UNCHANGED <<set, pushing, saved>> /\ UNCHANGED tvars

TakenClear ==
    /\ opc = "waitclear" /\ set' = set \ {popped} /\ opc' = "waitend"
    /\ UNCHANGED <<queue, listening, notified, pushing, popped, wanted, taking, saved>> /\ UNCHANGED tvars

TakenEnd ==
    /\ opc = "waitend" /\ opc' = "handle" /\ popped' = None
    /\ UNCHANGED <<wanted, taking, saved>> /\ UNCHANGED tvars /\ UNCHANGED qvars

\* The blocked call completes, sigtimedwait() times out, or the next deadline of an
\* interval timer cancels the call: its future is dropped.
Complete ==
    /\ opc \in {"blocked", "sigwait", "suspend"}
    /\ opc' = "handle" /\ WaitOver /\ Restore
    /\ UNCHANGED <<set, queue, pushing, actions, frames, umask, popped>>

Task ==
    \/ PopNone \/ PopTake \/ PopClear \/ ActIgnore \/ ActKill \/ ActSuspend \/ ActUser
    \/ ActUserFault \/ SigReturn \/ Other \/ Block \/ Interrupted \/ Taken \/ TakenClear \/ TakenEnd
    \/ \E s \in Sigs : Raise(s) \/ Listen(s) \/ Wake(s)
    \/ \E s \in Caught : \E ty \in {"Ignore", "User", DefaultAction(s)} : SigAction(s, ty)
    \/ \E S \in Sets : SigProcMask(S) \/ SigTimedWait(S) \/ SigSuspend(S)

Sender(p) == PushQueue(p) \/ \E s \in Sigs : PushMark(p, s)

Next == Task \/ Complete \/ \E p \in Senders : Sender(p)

\* The executor polls a task that was woken; a sender finishes its push. A blocked call
\* need not complete.
Spec == Init /\ [][Next]_sgvars /\ WF_sgvars(Task) /\ \A p \in Senders : WF_sgvars(PushQueue(p))
-----------------------------------------------------------------------------
\* The bit of a legacy signal is set exactly while an entry is queued, a push is between
\* its two halves, or a pop is: a queued signal can be neither overlooked by pop(),
\* which looks at the bits first, nor can a stale bit swallow the next push for good.
BitSound ==
    \A s \in {t \in Sigs : is_legacy(t)} :
        /\ queue[s] > 0 => s \in set
        /\ s \in set => \/ queue[s] > 0
                        \/ \E p \in Senders : pushing[p] = s
                        \/ opc \in {"clear", "waitclear"} /\ popped = s

\* Outside the system calls the mask is the one user code has set: what kill() and
\* sigsuspend() put in its place is taken back, interrupted or not.
MaskRestored == opc \in {"handle", "user", "dead"} => sig_mask = umask /\ saved = <<>>

\* A task is never parked beside a signal it waits for: as long as an entry it wants is
\* queued, something makes it look.
NoMissedSignal == opc \in Waits /\ Ready # {} => Looks

\* SIGKILL ends the task, unless the task is suspended or masks SIGKILL itself (the
\* mask of a blocked call is not cleared of it).
KillEnds ==
    SIGKILL \in Sigs =>
        []<>(queue[SIGKILL] > 0 \/ popped = SIGKILL =>
                opc \in {"dead", "stopped"} \/ SIGKILL \in sig_mask)
=============================================================================
