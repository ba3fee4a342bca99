------------------------------ MODULE TaskLife ------------------------------
(***************************************************************************)
(* The life of tasks: clone() and execve() (mizu/kernel/src/task/          *)
(* syscall.rs), the first task (task/cmd.rs), the loop of a task           *)
(* (task/future.rs), exit and cleanup(), wait() (task.rs), the fatal       *)
(* signals of a thread group (task/signal.rs) and the events a parent      *)
(* subscribes to (ksync/src/channel/broadcast.rs over an unbounded queue). *)
(***************************************************************************)
EXTENDS Naturals, Sequences, FiniteSets

CONSTANTS Tasks, Root,    \* the tasks that can exist; the one main() spawns
          NGroups,        \* bound: thread groups that are made
          MaxEvents       \* bound: events a parent has not yet taken

None == "none"
Groups == 1..NGroups

VARIABLES status,     \* "free", "cloning" (not yet spawned), "lost" (never will be),
                      \* "run", "stopped", "leave", "flush", "gone"
          parent,     \* Task::parent
          tgroup,     \* TaskState::tgroup: the group of each task
          members,    \* the vector of each group
          virt,       \* TaskState::virt: named after the task it was made for
          mapped,     \* the address spaces that hold a program
          children,   \* Task::children
          inbox,      \* the queue of a Child: what the parent has not yet received
          fatal,      \* the tasks with a fatal signal pending
          maker,      \* the task that clones a task
          wait        \* who each task waits for: None, "any" or a task

tlvars == <<status, parent, tgroup, members, virt, mapped, children, inbox, fatal, maker, wait>>

\* InitTask::spawn()
Init ==
    /\ status = [t \in Tasks |-> IF t = Root THEN "run" ELSE "free"]
    /\ parent = [t \in Tasks |-> None] /\ maker = [t \in Tasks |-> None]
    /\ tgroup = [t \in Tasks |-> 1]
    /\ members = [g \in Groups |-> IF g = 1 THEN {Root} ELSE {}]
    /\ virt = [t \in Tasks |-> Root] /\ mapped = {Root}
    /\ children = [t \in Tasks |-> {}] /\ inbox = [t \in Tasks |-> <<>>]
    /\ fatal = {} /\ wait = [t \in Tasks |-> None]

Busy(t) == \E c \in Tasks : status[c] = "cloning" /\ maker[c] = t
Runs(t) == status[t] = "run" /\ wait[t] = None /\ ~Busy(t)
FreeGroups == {g \in Groups : members[g] = {} /\ \A t \in Tasks : status[t] # "free" => tgroup[t] # g}
NewGroup == CHOOSE g \in FreeGroups : \A h \in FreeGroups : g <= h
\* The next task that does not exist yet.
NewTasks == {c \in Tasks : status[c] = "free" /\ c = CHOOSE x \in Tasks : status[x] = "free"}
Become(t, st) == status' = [status EXCEPT ![t] = st]
-----------------------------------------------------------------------------
\* clone_task() without CLONE_VM and CLONE_THREAD, until the parent has its Child.
Fork(t, c) ==
    /\ Runs(t) /\ t \notin fatal /\ status[c] = "free" /\ FreeGroups # {}
    /\ Become(c, "cloning") /\ maker' = [maker EXCEPT ![c] = t]
    /\ parent' = [parent EXCEPT ![c] = t]
    /\ tgroup' = [tgroup EXCEPT ![c] = NewGroup]
    /\ members' = [members EXCEPT ![NewGroup] = {c}]
    /\ virt' = [virt EXCEPT ![c] = c] /\ mapped' = mapped \cup {c}
    /\ children' = [children EXCEPT ![t] = @ \cup {c}]
    /\ UNCHANGED <<inbox, fatal, wait>>

\* clone_task() with CLONE_VM, CLONE_SIGHAND and CLONE_THREAD: no child of anybody.
Thread(t, c) ==
    /\ Runs(t) /\ t \notin fatal /\ status[c] = "free"
    /\ Become(c, "cloning") /\ maker' = [maker EXCEPT ![c] = t]
    /\ parent' = [parent EXCEPT ![c] = parent[t]]
    /\ tgroup' = [tgroup EXCEPT ![c] = tgroup[t]]
    /\ members' = [members EXCEPT ![tgroup[t]] = @ \cup {c}]
    /\ virt' = [virt EXCEPT ![c] = virt[t]]
    /\ UNCHANGED <<mapped, children, inbox, fatal, wait>>

\* After its yield_now() clone_task() spawns the task.
Spawn(c) ==
    /\ status[c] = "cloning" /\ maker[c] \notin fatal /\ Become(c, "run")
    /\ maker' = [maker EXCEPT ![c] = None]
    /\ UNCHANGED <<parent, tgroup, members, virt, mapped, children, inbox, fatal, wait>>

\* A signal that comes during the yield cancels the system call: the task is in its group
\* and among the children, and is never spawned.
SpawnLost(c) ==
    /\ status[c] = "cloning" /\ maker[c] \in fatal /\ Become(c, "lost")
    /\ maker' = [maker EXCEPT ![c] = None]
    /\ UNCHANGED <<parent, tgroup, members, virt, mapped, children, inbox, fatal, wait>>
-----------------------------------------------------------------------------
\* sig_fatal(): the others of the group.
SigFatal(t) == fatal' = fatal \cup (members[tgroup[t]] \ {t})

\* exit(), or the action Kill of a signal, which tells the group; exit_group().
Exit(t) ==
    /\ Runs(t) /\ t \notin fatal /\ Become(t, "leave")
    /\ UNCHANGED <<parent, tgroup, members, virt, mapped, children, inbox, fatal, maker, wait>>

ExitGroup(t) ==
    /\ Runs(t) /\ SigFatal(t) /\ Become(t, "leave")
    /\ UNCHANGED <<parent, tgroup, members, virt, mapped, children, inbox, maker, wait>>

\* handle_signals() takes the fatal signal; a blocked wait() was interrupted before.
Killed(t) ==
    /\ status[t] = "run" /\ ~Busy(t) /\ t \in fatal
    /\ SigFatal(t) /\ Become(t, "leave") /\ wait' = [wait EXCEPT ![t] = None]
    /\ UNCHANGED <<parent, tgroup, members, virt, mapped, children, inbox, maker>>

\* execve(): a group of its own, the others are told, the address space is emptied and
\* loaded again.
Exec(t) ==
    /\ Runs(t) /\ t \notin fatal /\ FreeGroups # {} /\ SigFatal(t)
    /\ tgroup' = [tgroup EXCEPT ![t] = NewGroup]
    /\ members' = [members EXCEPT ![NewGroup] = {t}]
    /\ UNCHANGED <<status, parent, virt, mapped, children, inbox, maker, wait>>

\* Broadcast::send() of an event to the receiver of the parent's Child, if there is one.
Subscribed(t) == \E p \in Tasks : t \in children[p] /\ status[p] # "gone"
Send(t, e) == inbox' = [inbox EXCEPT ![t] = IF Subscribed(t) THEN Append(@, e) ELSE @]

\* handle_signals(): Suspend and Resume.
Suspend(t) ==
    /\ Runs(t) /\ t \notin fatal /\ Len(inbox[t]) < MaxEvents
    /\ Send(t, "Suspended") /\ Become(t, "stopped")
    /\ UNCHANGED <<parent, tgroup, members, virt, mapped, children, fatal, maker, wait>>

Continue(t) ==
    /\ status[t] = "stopped" /\ Become(t, "run")
    /\ UNCHANGED <<parent, tgroup, members, virt, mapped, children, inbox, fatal, maker, wait>>

Resume(t) ==
    /\ Runs(t) /\ t \notin fatal /\ Len(inbox[t]) < MaxEvents /\ Send(t, "Continued")
    /\ UNCHANGED <<status, parent, tgroup, members, virt, mapped, children, fatal, maker, wait>>
-----------------------------------------------------------------------------

\* cleanup(): the task leaves its group; the last one empties the address space (and
\* signals the parent, which Signals has).
Leave(t) ==
    /\ status[t] = "leave" /\ Become(t, "flush")
    /\ members' = [members EXCEPT ![tgroup[t]] = @ \ {t}]
    /\ mapped' = IF members[tgroup[t]] = {t} THEN mapped \ {virt[t]} ELSE mapped
    /\ UNCHANGED <<parent, tgroup, virt, children, inbox, fatal, maker, wait>>

\* The files are flushed, then the event is sent: to the parent.
Flush(t) ==
    /\ status[t] = "flush" /\ Become(t, "gone") /\ fatal' = fatal \ {t}
    /\ Send(t, "Exited")
    /\ UNCHANGED <<parent, tgroup, members, virt, mapped, children, maker, wait>>
-----------------------------------------------------------------------------
\* waitpid(): the children are looked up when it is called.
WaitCall(t, w) ==
    /\ Runs(t) /\ t \notin fatal /\ children[t] # {}
    /\ w = "any" \/ w \in children[t]
    /\ wait' = [wait EXCEPT ![t] = w]
    /\ UNCHANGED <<status, parent, tgroup, members, virt, mapped, children, inbox, fatal, maker>>

\* The first event of a child that is waited for; an exited child is one no longer.
WaitTake(t, c) ==
    /\ status[t] = "run" /\ wait[t] \in {"any", c} /\ c \in children[t] /\ inbox[c] # <<>>
    /\ inbox' = [inbox EXCEPT ![c] = Tail(@)] /\ wait' = [wait EXCEPT ![t] = None]
    /\ children' = IF Head(inbox[c]) = "Exited" THEN [children EXCEPT ![t] = @ \ {c}] ELSE children
    /\ UNCHANGED <<status, parent, tgroup, members, virt, mapped, fatal, maker>>

\* WNOHANG, or a signal that is not fatal.
WaitGiveUp(t) ==
    /\ status[t] = "run" /\ wait[t] # None /\ wait' = [wait EXCEPT ![t] = None]
    /\ UNCHANGED <<status, parent, tgroup, members, virt, mapped, children, inbox, fatal, maker>>

Step(t) == Killed(t) \/ Leave(t) \/ Flush(t) \/ Spawn(t) \/ SpawnLost(t)
           \/ \E c \in Tasks : WaitTake(t, c)

Next ==
    \/ \E t \in Tasks : Step(t) \/ Exit(t) \/ ExitGroup(t) \/ Exec(t) \/ Suspend(t) \/ Continue(t)
                        \/ Resume(t) \/ WaitGiveUp(t) \/ WaitCall(t, "any")
    \/ \E t \in Tasks, c \in NewTasks : Fork(t, c) \/ Thread(t, c)
    \/ \E t, c \in Tasks : WaitCall(t, c)

\* The executor polls a task that can go on. Nothing makes user code exit or continue a
\* task that is stopped.
Spec == Init /\ [][Next]_tlvars /\ \A t \in Tasks : WF_tlvars(Step(t))
-----------------------------------------------------------------------------

\* What a parent can know of its children is in their queues: a child that is gone has
\* left its Exited event, as the last one and once, until the parent takes it and forgets
\* the child.
ExitKnown ==
    \A p, c \in Tasks : c \in children[p] /\ status[p] # "gone" =>
        /\ Cardinality({i \in DOMAIN inbox[c] : inbox[c][i] = "Exited"}) <= 1
        /\ status[c] = "gone" <=> inbox[c] # <<>> /\ inbox[c][Len(inbox[c])] = "Exited"

\* The groups hold exactly the tasks that have not left them: cleanup() finds itself in
\* its group, and a group can become empty.
GroupSound ==
    \A t \in Tasks : status[t] \in {"cloning", "run", "stopped", "leave"} => t \in members[tgroup[t]]

\* exit_group() ends every thread that is not stopped, however they fork, exec and wait.
GroupDies == \A t \in Tasks : []<>(t \in fatal => status[t] \in {"gone", "stopped", "lost"})

\* A parent that waits for a child that has exited gets its answer or is interrupted.
WaitAnswered ==
    \A p \in Tasks :
        []<>~(\E c \in children[p] : wait[p] \in {"any", c} /\ status[c] = "gone")
=============================================================================
