------------------------------ MODULE NetStack ------------------------------
(***************************************************************************)
(* The background task of the network stack and what it does to the        *)
(* address of an interface (mizu/lib/devices/src/net/stack.rs).  The task  *)
(* polls smoltcp under the lock of the sockets, sleeps until the deadline  *)
(* that smoltcp names, and is woken by whoever changed a socket meanwhile. *)
(* One interface is configured by DHCP, as config() of fs/socket.rs says.  *)
(***************************************************************************)
EXTENDS Naturals

CONSTANT Leases      \* configurations a DHCP server hands out

VARIABLES work,      \* a socket or the device has something that a poll will handle
          waker,     \* SocketStack.waker holds the task's waker
          timer,     \* StackBackground.timer: "none", "armed" or "due"
          queued,    \* the task is in a run queue
          link,      \* Net::is_link_up()
          link_up,   \* State.link_up
          dhcp,      \* the dhcpv4 socket: its state, its lease, an event to poll
          iface,     \* what the interface has: address, default route
          servers,   \* State.dns_servers_ipv4
          resolver   \* the servers the dns socket uses

nsvars == <<work, waker, timer, queued, link, link_up, dhcp, iface, servers, resolver>>

NoLease == "no_lease"
Unset == [addr |-> NoLease, route |-> NoLease]

\* Stack::new() and run(): the task is spawned.
Init ==
    /\ work = TRUE /\ waker = FALSE /\ timer = "none" /\ queued = TRUE
    /\ link \in BOOLEAN /\ link_up = FALSE
    /\ dhcp = [lease |-> NoLease, changed |-> TRUE]
    /\ iface = Unset /\ servers = NoLease /\ resolver = NoLease
-----------------------------------------------------------------------------
\* with_socket_mut(), with_mut(): the change and the wake-up are under the lock.
WithMut ==
    /\ work' = TRUE /\ waker' = FALSE /\ queued' = (queued \/ waker)
    /\ UNCHANGED <<timer, link, link_up, dhcp, iface, servers, resolver>>

\* The cable.
LinkChanges ==
    /\ link' = ~link
    /\ UNCHANGED <<work, waker, timer, queued, link_up, dhcp, iface, servers, resolver>>

\* The timer wakes the task.
TimerFires ==
    /\ timer = "armed" /\ timer' = "due" /\ queued' = TRUE
    /\ UNCHANGED <<work, waker, link, link_up, dhcp, iface, servers, resolver>>

\* The dhcpv4 socket: what Interface::poll may do to it, socket.poll() and reset().
DhcpPolled(d) ==
    {d} \cup {[lease |-> l, changed |-> TRUE] : l \in Leases}
        \cup {[lease |-> NoLease, changed |-> d.changed \/ d.lease # NoLease]}
DhcpTaken(d) == [d EXCEPT !.changed = FALSE]
DhcpReset(d) == [lease |-> NoLease, changed |-> d.changed \/ d.lease # NoLease]

\* apply_ipv4_config() and unapply_dhcpv4_config(); only the former tells the resolver.
Apply(l) ==
    iface' = [addr |-> l, route |-> l] /\ servers' = l /\ resolver' = l
Unapply ==
    iface' = Unset /\ servers' = NoLease /\ UNCHANGED resolver

\* The link went down.
LinkLost(d) == Unapply /\ dhcp' = DhcpReset(d)

\* The part of SocketStack::poll() that follows the link and the lease.
Configure(d) ==
    /\ link_up' = link
    /\ CASE link /\ d.changed /\ d.lease # NoLease -> Apply(d.lease) /\ dhcp' = DhcpTaken(d)
         [] link /\ d.changed /\ d.lease = NoLease -> Unapply /\ dhcp' = DhcpTaken(d)
         [] ~link /\ link_up -> LinkLost(d)
         [] OTHER -> dhcp' = d /\ UNCHANGED <<iface, servers, resolver>>

\* StackBackground::poll().  A timer that is not due ends the poll before the sockets
\* are looked at, and before the waker is registered again.
PollEarly ==
    /\ queued /\ timer = "armed" /\ queued' = FALSE
    /\ UNCHANGED <<work, waker, timer, link, link_up, dhcp, iface, servers, resolver>>
Poll ==
    /\ queued /\ timer # "armed"
    /\ work' = FALSE /\ waker' = TRUE /\ \E d \in DhcpPolled(dhcp) : Configure(d)
    /\ \E ddl \in {"none", "zero", "later"} :
          /\ queued' = (ddl = "zero")
          /\ timer' = IF ddl = "later" THEN "armed" ELSE "none"
    /\ UNCHANGED link
-----------------------------------------------------------------------------
Next == WithMut \/ LinkChanges \/ TimerFires \/ PollEarly \/ Poll

\* The executor runs a queued task, and the clock reaches every deadline.
Spec == /\ Init /\ [][Next]_nsvars
        /\ WF_nsvars(PollEarly \/ Poll) /\ WF_nsvars(TimerFires)
-----------------------------------------------------------------------------
(* PROPERTIES *)

\* What a caller changed in a socket is polled in the end: its wake-up may be spent on a
\* poll that stops at the timer, but then the timer brings the task back.
Served == []<>~work

\* While the link is seen up, the interface has the lease that the dhcpv4 socket holds
\* and no other, unless the socket has an event that was not polled; a lease ends with
\* the link, so that coming back up always configures the interface anew.
LeaseApplied ==
    /\ dhcp.changed \/ (iface.addr = dhcp.lease /\ servers = dhcp.lease)
    /\ ~link_up => iface = Unset
=============================================================================
