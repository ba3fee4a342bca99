------------------------------- MODULE MCTasks ------------------------------
(***************************************************************************)
(* The read-write lock, the executor, and what the tasks of the kernel     *)
(* wait for, for TLC: timers, signals, children, ppoll()/pselect6() and    *)
(* the flush tasks of the file systems.                                    *)
(* They share no state here, so one run checks them one after the other:   *)
(* `part` names the component that takes the steps of a behaviour.  The    *)
(* lock keeps the names of its module.                                     *)
(***************************************************************************)
EXTENDS RwLock

CONSTANTS Nothing, NoTask

VARIABLES part,
          injector, shutdown, preempt_slot, rq, tick, xpc, scan, cur, life,
          now, deadline, period, done, handle, tpc, heap, pending, waking,
          set, queue, listening, notified, pushing, sig_mask, actions, frames, opc,
          popped, wanted, taking, saved, umask,
          status, parent, tgroup, members, virt, mapped, children, inbox, fatal, maker, wait,
          input, input_ready, slpc, timeout, rd, wr, fut, revents, count,
          FS, flushq, cloned, ftask, dirty, owed

\* Every operation but the one whose missing notification the run on
\* downgrade_to_upgradable is about; then every operation.
WakingOps == AllOps \ {"downgrade_to_upgradable"}
RwAll == INSTANCE RwLock WITH Ops <- AllOps
Exec == INSTANCE Executor WITH
    None <- NoTask, pc <- xpc, NumWorkers <- 2, Tasks <- {"m", "a"}, Main <- "m", N <- 2, Interval <- 2
\* One task with one-shot and periodic timers.
Time == INSTANCE Timers WITH
    Tasks <- {"t1"}, PENDING_CAP <- 2, MaxTime <- 3, NIds <- 3, Durations <- {1, 2}, Periods <- {1}
\* SIGKILL, SIGSEGV (which user code catches and masks), SIGCONT and SIGSTOP.
Sig == INSTANCE Signals WITH
    Sigs <- {9, 11, 18, 19}, Sets <- {{11}}, Caught <- {11}, Senders <- {"p1"}, Cap <- 2, MaxNest <- 1
Life == INSTANCE TaskLife WITH Tasks <- {"r", "a", "b"}, Root <- "r", NGroups <- 3, MaxEvents <- 1
\* Descriptor 3 is in the second word of an fd_set of two words of two bits.
Polled == INSTANCE Poll WITH
    Fds <- {0, 3}, Len64 <- 2, FD_SET_BITS <- 2, MaxInput <- 1, Timeouts <- {"none", "some"}
Mounts == INSTANCE Vfs WITH
    Paths <- {<<>>, <<1>>, <<1, 2>>, <<2>>}, Systems <- {"s1", "s2"}, Callers <- {"c1"}

exec == <<injector, shutdown, preempt_slot, rq, tick, xpc, scan, cur, life>>
time == <<now, deadline, period, done, handle, tpc, heap, pending, waking>>
sig == <<set, queue, listening, notified, pushing, sig_mask, actions, frames, opc,
         popped, wanted, taking, saved, umask>>
tasks == <<status, parent, tgroup, members, virt, mapped, children, inbox, fatal, maker, wait>>
polled == <<input, input_ready, slpc, timeout, rd, wr, fut, revents, count>>
mounts == <<FS, flushq, cloned, ftask, dirty, owed>>
allVars == <<part, vars, exec, time, sig, tasks, polled, mounts>>

TasksInit ==
    /\ part \in {"rw", "rw_all", "exec", "time", "sig", "life", "poll", "vfs"}
    /\ Init /\ Exec!Init /\ Time!Init /\ Sig!Init /\ Life!Init /\ Polled!Init /\ Mounts!Init

TasksNext ==
    \/ /\ UNCHANGED part
       /\ CASE part = "rw" -> Next
            [] part = "rw_all" -> RwAll!Next
            [] OTHER -> UNCHANGED vars
       /\ IF part = "exec" THEN Exec!Next ELSE UNCHANGED exec
       /\ IF part = "time" THEN Time!Next ELSE UNCHANGED time
       /\ IF part = "sig" THEN Sig!Next ELSE UNCHANGED sig
       /\ IF part = "life" THEN Life!Next ELSE UNCHANGED tasks
       /\ IF part = "poll" THEN Polled!Next ELSE UNCHANGED polled
       /\ IF part = "vfs" THEN Mounts!Next ELSE UNCHANGED mounts
    \* A lock may hang after downgrade_to_upgradable(); workers that exited, a dead task, a
    \* group that is gone and unmounted file systems stop.
    \/ part \in {"rw_all", "exec", "sig", "life", "vfs"} /\ UNCHANGED allVars

\* The fairness of each component.
TasksSpec ==
    /\ TasksInit /\ [][TasksNext]_allVars
    /\ \A p \in Procs : WF_vars(part \in {"rw", "rw_all"} /\ Progress(p))
    /\ \A v \in {0, 1} : WF_exec(part = "exec" /\ Exec!Step(v))
    /\ WF_time(part = "time" /\ Time!Clock) /\ WF_time(part = "time" /\ Time!Tick)
    /\ WF_time(part = "time" /\ \E e \in waking : Time!TickWake(e))
    /\ WF_time(part = "time" /\ Time!Polls("t1"))
    /\ WF_sig(part = "sig" /\ Sig!Task) /\ WF_sig(part = "sig" /\ Sig!PushQueue("p1"))
    /\ \A t \in {"r", "a", "b"} : WF_tasks(part = "life" /\ Life!Step(t))
    /\ WF_polled(part = "poll" /\ Polled!Step)
    /\ WF_mounts(part = "vfs" /\ Mounts!SyncEnd("c1"))
    /\ \A s \in {"s1", "s2"} : WF_mounts(part = "vfs" /\ (Mounts!TryRecv(s) \/ Mounts!Flush(s)))
-----------------------------------------------------------------------------
\* Nobody sleeps beside what would let it go on: a waiter of the lock has somebody to wake
\* it, as long as nobody calls downgrade_to_upgradable() (RwLock); a parked timer is in the
\* heap, the queue of changes or the wakers to be called (Timers); a task is not parked
\* beside a signal it waits for (Signals), or in ppoll() beside input (Poll).
NoMissedWakeup ==
    /\ part # "rw_all" => NoLostWakeup
    /\ part = "time" => Time!Registered
    /\ part = "sig" => Sig!NoMissedSignal
    /\ part = "poll" => Polled!NoMissedInput


\* The answer names exactly the files that are ready, in the bits they were asked in (Poll).
AnswerExact == Polled!AnswerExact

\* An injected task does not wait for ever behind the tasks that a worker finds at home
\* (Exec!InjectedServed, in behaviours of Exec).
InjectedServed ==
    \A t \in {"m", "a"}, v \in {0, 1} :
        []<>(xpc[v] = "loop") => []<>(part = "exec" => Exec!Times(t, injector) = 0)

\* What must happen happens: a writer gets the lock (RwLock); an injected task runs, the
\* queue of a worker whose task never returns is emptied by the other, and after shutdown()
\* every worker whose task returns leaves its loop (Executor); a task that waits for its
\* timer is woken (Timers); SIGKILL ends the task (Signals); exit_group() ends every thread
\* and a parent that waits for a child that has exited gets its answer (TaskLife);
\* a call does not wait for ever on a port that has input (Poll); the flush task of a file
\* system that is no longer mounted ends (Vfs).
WaitsEnd ==
    /\ WriterServed
    /\ InjectedServed /\ Exec!StuckQueueStolen /\ Exec!ShutdownEnds
    /\ Time!SleepEnds /\ Sig!KillEnds /\ Life!GroupDies /\ Life!WaitAnswered
    /\ Polled!InputSeen /\ Mounts!UnmountEnds
=============================================================================
