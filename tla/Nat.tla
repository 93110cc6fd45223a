--------------------------------- MODULE Nat ---------------------------------
(***************************************************************************)
(* The thread of the user-space NAT (Runner in hw/net/unat.rs): it waits   *)
(* for events of the host's sockets, handles them, takes the guest's       *)
(* packets, opens host sockets for new connections, runs the TCP/IP stack  *)
(* (smoltcp, external) and moves bytes between the two sides.              *)
(*                                                                         *)
(* The host reports an edge: an event comes when a socket becomes readable *)
(* or writable, not while it is.  Bytes are counted; a buffer holds Cap.   *)
(***************************************************************************)
EXTENDS Integers, Sequences, FiniteSets, FiniteSetsExt

CONSTANTS
    Keys,        \* slots of the slab
    Conns,       \* TCP connections of the guest, all to one remote endpoint
    UdpRemotes,  \* remote endpoints of UDP packets
    Locals,      \* UDP endpoints of the guest
    Cap,         \* bound: bytes in a buffer
    MaxPackets   \* bound: packets of the guest that are not handled

VARIABLES
    slab,      \* backing_sockets: a Tcp or Udp backing socket with the state of its sockets
    tcpMap,    \* tcp_mapping
    udpMap,    \* udp_mapping
    nat        \* the thread: where it is, its events, the channel, packets for smoltcp

natVars == <<slab, tcpMap, udpMap, nat>>

Vacant == [kind |-> "vacant"]
NoKey == 0
NoConn == "none"

NatAssumption ==
    /\ NoKey \notin Keys /\ NoConn \notin Conns /\ "tcp" \notin Locals
    /\ Cap \in Nat \ {0} /\ MaxPackets \in Nat

\* The sockets of an entry that are registered for events.
Tcp(k) == slab[k].kind = "tcp"
Udp(k) == slab[k].kind = "udp"

\* A connection that was made and did not fail; "closed" is the remote's end only.
Open(e) == e.state \in {"connected", "closed"}

At(pc) == nat.pc = pc
Goto(pc) == nat' = [nat EXCEPT !.pc = pc]

-----------------------------------------------------------------------------
(* The host's sockets and the guest (external).                            *)

Host(k, e) == slab' = [slab EXCEPT ![k] = e] /\ UNCHANGED <<tcpMap, udpMap, nat>>

\* A connection attempt ends, or an established connection breaks.
HostConnects(k) == Tcp(k) /\ slab[k].state = "connecting"
                   /\ Host(k, [slab[k] EXCEPT !.state = "connected", !.edge = @ \cup {"w"}])
\* An event without a result, as the host may send for a new socket.
HostWakes(k)    == Tcp(k) /\ slab[k].state = "connecting" /\ Host(k, [slab[k] EXCEPT !.edge = {"w"}])
\* The remote closes its end: what arrived before can be read, then a read returns 0.
HostCloses(k)   == Tcp(k) /\ slab[k].state = "connected"
                   /\ Host(k, [slab[k] EXCEPT !.state = "closed", !.edge = @ \cup {"r"}])
HostFails(k)    == Tcp(k) /\ slab[k].state # "failed"
                   /\ Host(k, [slab[k] EXCEPT !.state = "failed", !.edge = {"r", "w"}])
\* A byte arrives, or a byte that was written is on its way.
HostReceives(k) == Tcp(k) /\ slab[k].state = "connected" /\ slab[k].in < Cap
                   /\ Host(k, [slab[k] EXCEPT !.in = @ + 1, !.edge = @ \cup {"r"}])
HostSends(k)    == Tcp(k) /\ Open(slab[k]) /\ slab[k].out > 0
                   /\ Host(k, [slab[k] EXCEPT !.out = @ - 1,
                                              !.edge = IF slab[k].out = Cap THEN @ \cup {"w"} ELSE @])
\* A datagram arrives for the socket of endpoint l, or an error.
HostUdp(k, l, err) == Udp(k) /\ l \in slab[k].locals
                      /\ Host(k, [slab[k] EXCEPT !.edge = @ \cup {l}, !.err = @ \/ err])

\* UserspaceNat::send_packet
GuestSends(p) ==
    /\ Len(nat.chan) + Len(nat.incoming) < MaxPackets
    /\ nat' = [nat EXCEPT !.chan = Append(@, p)]
    /\ UNCHANGED <<slab, tcpMap, udpMap>>

-----------------------------------------------------------------------------
(* Moving bytes (TcpBackingSocket::perform_writes and perform_reads).      *)

CanWrite(e) == e.ready /\ e.rx > 0
CanRead(e)  == e.ready /\ e.bound # NoConn /\ e.tx < Cap

\* Whether an operation returns false: the host's socket reports an error.
WritesFail(e) == CanWrite(e) /\ e.state = "failed"
ReadsFail(e)  == CanRead(e) /\ e.state = "failed"

PerformWrites(e) ==
    LET n == Min({e.rx, Cap - e.out})
    IN IF CanWrite(e) /\ Open(e) THEN [e EXCEPT !.rx = @ - n, !.out = @ + n] ELSE e

PerformReads(e) ==
    LET n == Min({e.in, Cap - e.tx})
    IN IF CanRead(e) /\ Open(e) THEN [e EXCEPT !.in = @ - n, !.tx = @ + n] ELSE e

-----------------------------------------------------------------------------
(* Events.                                                                 *)

\* poll.poll: an event per socket that has an edge; the edges are consumed.
Wait ==
    /\ At("wait")
    /\ nat' = [nat EXCEPT !.pc = "events",
                 !.events = {[key |-> k, fd |-> "tcp", set |-> slab[k].edge] : k \in {k \in Keys : Tcp(k) /\ slab[k].edge # {}}}
                            \cup UNION {{[key |-> k, fd |-> l, set |-> {"r"}] : l \in slab[k].edge} : k \in {k \in Keys : Udp(k)}}]
    /\ slab' = [k \in Keys |-> IF slab[k] = Vacant THEN Vacant ELSE [slab[k] EXCEPT !.edge = {}]]
    /\ UNCHANGED <<tcpMap, udpMap>>

Handled(ev) == nat' = [nat EXCEPT !.events = @ \ {ev}]

\* handle_event removes the entry and its mapping.
RemoveTcp(k) ==
    /\ slab' = [slab EXCEPT ![k] = Vacant]
    /\ tcpMap' = [tcpMap EXCEPT ![slab[k].conn] = NoKey]
    /\ UNCHANGED udpMap

\* handle_tcp_client_event on a socket without error: the first event after the connection
\* is established makes the remote ready and is a chance to write, whatever it reports.
TcpProgress(e, set) ==
    LET ready   == [e EXCEPT !.ready = TRUE]
        written == IF ~e.ready \/ "w" \in set THEN PerformWrites(ready) ELSE ready
    IN IF "r" \in set THEN PerformReads(written) ELSE written

\* handle_event
HandleTcp(ev) ==
    /\ At("events") /\ ev \in nat.events /\ Tcp(ev.key)
    /\ \/ slab[ev.key].state = "failed" /\ RemoveTcp(ev.key)
       \/ slab[ev.key].state = "connecting" /\ UNCHANGED <<slab, tcpMap, udpMap>>
       \/ /\ Open(slab[ev.key])
          /\ slab' = [slab EXCEPT ![ev.key] = TcpProgress(@, ev.set)]
          /\ UNCHANGED <<tcpMap, udpMap>>
    /\ Handled(ev)

HandleUdp(ev) ==
    /\ At("events") /\ ev \in nat.events /\ Udp(ev.key)
    /\ \/ /\ slab[ev.key].err
          /\ slab' = [slab EXCEPT ![ev.key] = Vacant]
          /\ udpMap' = [udpMap EXCEPT ![slab[ev.key].remote] = NoKey]
       \/ ~slab[ev.key].err /\ UNCHANGED <<slab, udpMap>>
    /\ Handled(ev) /\ UNCHANGED tcpMap

\* An error that comes after take_error found none: recv_from returns it, and perform_reads
\* panics.
HandleUdpLate(ev) ==
    /\ At("events") /\ ev \in nat.events /\ Udp(ev.key) /\ ~slab[ev.key].err
    /\ slab' = [slab EXCEPT ![ev.key].err = TRUE]
    /\ Goto("panicked")
    /\ UNCHANGED <<tcpMap, udpMap>>

\* An event for an entry that was removed: indexing the slab panics, and the thread is gone.
HandleStale(ev) ==
    /\ At("events") /\ ev \in nat.events /\ slab[ev.key] = Vacant
    /\ Goto("panicked")
    /\ UNCHANGED <<slab, tcpMap, udpMap>>

EventsDone == At("events") /\ nat.events = {} /\ Goto("packets") /\ UNCHANGED <<slab, tcpMap, udpMap>>

-----------------------------------------------------------------------------
(* The guest's packets.                                                    *)

FreeKeys == {k \in Keys : slab[k] = Vacant}

\* ensure_tcp_socket_for: a host socket and a socket that listens for the guest.
EnsureTcp(c, k) ==
    IF tcpMap[c] # NoKey THEN UNCHANGED <<slab, tcpMap>>
    ELSE /\ slab' = [slab EXCEPT ![k] = [kind |-> "tcp", conn |-> c, ready |-> FALSE, state |-> "connecting",
                                         in |-> 0, out |-> 0, rx |-> 0, tx |-> 0, bound |-> NoConn, edge |-> {}]]
         /\ tcpMap' = [tcpMap EXCEPT ![c] = k]

\* Fault: a second endpoint of the guest finds the entry and gets no socket of its own.
EnsureUdpOnce(r, l, k) ==
    IF udpMap[r] # NoKey THEN UNCHANGED <<slab, udpMap>>
    ELSE /\ slab' = [slab EXCEPT ![k] = [kind |-> "udp", remote |-> r, locals |-> {l}, rx |-> {}, err |-> FALSE, edge |-> {}]]
         /\ udpMap' = [udpMap EXCEPT ![r] = k]

\* ensure_udp_socket_for: an entry per remote endpoint, in it a host socket per endpoint of
\* the guest.
EnsureUdp(r, l, k) ==
    IF udpMap[r] # NoKey THEN slab' = [slab EXCEPT ![udpMap[r]].locals = @ \cup {l}] /\ UNCHANGED udpMap
    ELSE /\ slab' = [slab EXCEPT ![k] = [kind |-> "udp", remote |-> r, locals |-> {l}, rx |-> {}, err |-> FALSE, edge |-> {}]]
         /\ udpMap' = [udpMap EXCEPT ![r] = k]

Taken == [nat EXCEPT !.chan = Tail(@), !.incoming = Append(@, Head(nat.chan))]

\* run, inspect_packet_for_nat: a SYN or a datagram may need a socket.
TakePacket(k) ==
    /\ At("packets") /\ nat.chan # <<>> /\ k \in FreeKeys
    /\ LET p == Head(nat.chan)
       IN \/ p.kind = "syn" /\ EnsureTcp(p.conn, k) /\ UNCHANGED udpMap
          \/ p.kind = "udp" /\ EnsureUdp(p.remote, p.from, k) /\ UNCHANGED tcpMap
    /\ nat' = Taken

\* Packets that need no new entry.
PassPacket ==
    /\ At("packets") /\ nat.chan # <<>>
    /\ LET p == Head(nat.chan)
       IN \/ p.kind \in {"data", "ack"} /\ UNCHANGED <<slab, udpMap>>
          \/ p.kind = "syn" /\ tcpMap[p.conn] # NoKey /\ UNCHANGED <<slab, udpMap>>
          \/ p.kind = "udp" /\ udpMap[p.remote] # NoKey /\ EnsureUdp(p.remote, p.from, udpMap[p.remote])
    /\ nat' = Taken
    /\ UNCHANGED tcpMap

PacketsDone == At("packets") /\ nat.chan = <<>> /\ Goto("iface") /\ UNCHANGED <<slab, tcpMap, udpMap>>

-----------------------------------------------------------------------------
(* smoltcp (external), then update_backing_sockets.                        *)

\* The socket that handles a packet of connection c: the one bound to it, for a SYN also
\* any that listens.
Accepts(k, p) == Tcp(k) /\ \/ slab[k].bound = p.conn
                           \/ p.kind = "syn" /\ slab[k].bound = NoConn

SmolTcp(e, p) ==
    CASE p.kind = "syn"  -> [e EXCEPT !.bound = p.conn]
      [] p.kind = "data" -> [e EXCEPT !.rx = Min({Cap, @ + 1})]
      [] p.kind = "ack"  -> [e EXCEPT !.tx = 0]

\* iface.poll handles a packet that changes a socket.
Iface(k) ==
    /\ At("iface") /\ nat.incoming # <<>>
    /\ LET p == Head(nat.incoming)
       IN \/ p.kind # "udp" /\ Accepts(k, p) /\ slab' = [slab EXCEPT ![k] = SmolTcp(@, p)]
          \/ p.kind = "udp" /\ Udp(k) /\ slab[k].remote = p.remote /\ slab' = [slab EXCEPT ![k].rx = @ \cup {p.from}]
    /\ nat' = [nat EXCEPT !.incoming = Tail(@), !.changed = TRUE]
    /\ UNCHANGED <<tcpMap, udpMap>>

\* A packet that no socket handles, a SYN among them when every socket is bound.
IfaceIgnores ==
    /\ At("iface") /\ nat.incoming # <<>>
    /\ LET p == Head(nat.incoming)
       IN IF p.kind = "udp" THEN ~\E k \in Keys : Udp(k) /\ slab[k].remote = p.remote
                            ELSE ~\E k \in Keys : Accepts(k, p)
    /\ nat' = [nat EXCEPT !.incoming = Tail(@)]
    /\ UNCHANGED <<slab, tcpMap, udpMap>>

Updated(e) ==
    CASE e.kind = "tcp" -> IF ReadsFail(e) \/ WritesFail(e) THEN Vacant ELSE PerformWrites(PerformReads(e))
      [] e.kind = "udp" -> [e EXCEPT !.rx = {}]
      [] OTHER -> e

\* A UDP socket has an error that nobody asked for.
ErrorPending == \E k \in Keys : Udp(k) /\ slab[k].err

\* Fault: the bytes that wait on the host's side are left for the next event.
UpdateWritesOnly ==
    /\ At("iface") /\ nat.incoming = <<>>
    /\ nat' = [nat EXCEPT !.pc = "wait", !.changed = FALSE]
    /\ slab' = IF nat.changed THEN [k \in Keys |-> IF Tcp(k) THEN PerformWrites(slab[k]) ELSE slab[k]] ELSE slab
    /\ UNCHANGED <<tcpMap, udpMap>>

\* update_backing_sockets asks no UDP socket for its error before it reads: perform_reads
\* panics.  It reads only if the guest's side has room for a datagram, which is left open.
UpdatePanics ==
    /\ At("iface") /\ nat.incoming = <<>> /\ nat.changed /\ ErrorPending
    /\ Goto("panicked")
    /\ UNCHANGED <<slab, tcpMap, udpMap>>

\* update_backing_sockets, when iface.poll reports SocketStateChanged.
Update ==
    /\ At("iface") /\ nat.incoming = <<>>
    /\ nat' = [nat EXCEPT !.pc = "wait", !.changed = FALSE]
    /\ slab' = IF nat.changed THEN [k \in Keys |-> Updated(slab[k])] ELSE slab
    /\ tcpMap' = [c \in Conns |-> IF tcpMap[c] # NoKey /\ slab'[tcpMap[c]] = Vacant THEN NoKey ELSE tcpMap[c]]
    /\ UNCHANGED udpMap

-----------------------------------------------------------------------------
GuestPackets == [kind : {"syn", "data", "ack"}, conn : Conns] \cup [kind : {"udp"}, remote : UdpRemotes, from : Locals]

Init ==
    /\ slab = [k \in Keys |-> Vacant]
    /\ tcpMap = [c \in Conns |-> NoKey] /\ udpMap = [r \in UdpRemotes |-> NoKey]
    /\ nat = [pc |-> "wait", events |-> {}, chan |-> <<>>, incoming |-> <<>>, changed |-> FALSE]

Next ==
    \/ \E k \in Keys : HostConnects(k) \/ HostWakes(k) \/ HostCloses(k) \/ HostFails(k) \/ HostReceives(k) \/ HostSends(k)
    \/ \E k \in Keys, l \in Locals, err \in BOOLEAN : HostUdp(k, l, err)
    \/ \E p \in GuestPackets : GuestSends(p)
    \/ Wait
    \/ \E ev \in nat.events : HandleTcp(ev) \/ HandleUdp(ev) \/ HandleUdpLate(ev) \/ HandleStale(ev)
    \/ EventsDone
    \/ \E k \in Keys : TakePacket(k)
    \/ PassPacket
    \/ PacketsDone
    \/ \E k \in Keys : Iface(k)
    \/ IfaceIgnores
    \/ Update \/ UpdatePanics

Spec == Init /\ [][Next]_natVars

-----------------------------------------------------------------------------
\* No byte waits for an event that will not come: when the thread waits, a connection with
\* bytes of the guest has a full host buffer, and one with bytes of the host has a full
\* guest buffer, unless an event is pending (perform_writes, perform_reads and
\* update_backing_sockets in net/unat.rs, with edge-triggered events).
NoStall ==
    At("wait") => \A k \in Keys : Tcp(k) /\ Open(slab[k]) /\ slab[k].ready =>
        /\ slab[k].rx > 0 => slab[k].out = Cap \/ "w" \in slab[k].edge
        /\ slab[k].in > 0 /\ slab[k].bound # NoConn => slab[k].tx = Cap \/ "r" \in slab[k].edge

\* The tables agree: each mapping leads to the entry of its connection, each entry has its
\* mapping, a queued datagram's endpoint has a host socket (perform_writes indexes with it),
\* and the thread only panics over UDP: at an event for a removed entry, which comes from a
\* second socket with the same token, or when it reads a socket that has an error
\* (ensure_tcp_socket_for, ensure_udp_socket_for, handle_event and perform_reads in
\* net/unat.rs).
TablesAgree ==
    /\ \A c \in Conns : tcpMap[c] # NoKey => Tcp(tcpMap[c]) /\ slab[tcpMap[c]].conn = c
    /\ \A r \in UdpRemotes : udpMap[r] # NoKey => Udp(udpMap[r]) /\ slab[udpMap[r]].remote = r
    /\ \A k \in Keys : /\ Tcp(k) => tcpMap[slab[k].conn] = k
                       /\ Udp(k) => udpMap[slab[k].remote] = k /\ slab[k].rx \subseteq slab[k].locals
    /\ nat.pc = "panicked" => \/ \E ev \in nat.events : slab[ev.key] = Vacant /\ ev.fd # "tcp"
                              \/ ErrorPending

NatConsistent == TablesAgree /\ NoStall
=============================================================================
