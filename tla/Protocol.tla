------------------------------ MODULE Protocol ------------------------------
(***************************************************************************)
(* The raw protocol adapters of oal/protocol: UDP and TCP endpoints over   *)
(* the socket operations an integrator registers, and the registry that    *)
(* may replace either adapter.  One endpoint storage, two sets of socket   *)
(* operations; every socket call may fail, and a slot may be NULL.         *)
(***************************************************************************)
EXTENDS Naturals, FiniteSets

CONSTANTS
  SOCKET_OPS,    \* registered tables of socket operations
  SOCKET_LACKS,  \* <<table, slot>>: slots for traffic that are NULL
  HOSTS,         \* peers a datagram can come from; the configured one is PEER
  PEER,
  NOBODY         \* no peer, no table, no adapter

ASSUME ProtocolAssumption ==
  PEER \in HOSTS /\ NOBODY \notin HOSTS \cup SOCKET_OPS

VARIABLES
  ops,      \* s_socket_ops
  custom,   \* protocol types whose adapter the integrator replaced
  end,      \* the endpoint: rte_protocol_udp_state_t or rte_protocol_tcp_state_t
  sockets,  \* the sockets open below: the table that opened each
  heard,    \* the sender of the last datagram since the endpoint was opened
  target    \* where the last send went

protocolVars == <<ops, custom, end, sockets, heard, target>>

ProtocolTypes == {"UDP", "TCP", "DDS"}
ProtocolRoles == {"LISTEN", "CONNECT", "PEER"}
NoSocket == [sock |-> FALSE, os_sockets |-> NOBODY, type |-> "UDP", role |-> "LISTEN",
             is_connected |-> FALSE, peer_known |-> FALSE, peer |-> NOBODY]

ProtocolInit ==
  /\ ops = NOBODY /\ custom = {} /\ end = NoSocket /\ sockets = {}
  /\ heard = NOBODY /\ target = NOBODY

rte_osadapter_register_socket_ops(t) ==
  /\ ops' = t
  /\ UNCHANGED <<custom, end, sockets, heard, target>>

rte_protocol_adapter_register(type) ==
  /\ custom' = custom \cup {type}
  /\ UNCHANGED <<ops, end, sockets, heard, target>>

\* The adapter of a type: the registered one, else the built-in one; DDS has none.
rte_protocol_adapter_get(type) ==
  IF type \in custom THEN "registered" ELSE IF type = "DDS" THEN "none" ELSE "built-in"

-----------------------------------------------------------------------------
(* open *)

\* A step after ops->open() fails: the socket just opened is closed again.
after_failed_step(s) == (sockets \cup {s}) \ {s}

\* udp_adapter_open() and tcp_adapter_open() in a storage without an open
\* socket.  The socket is opened, made non-blocking, and bound by a listener;
\* any of these may fail, and so may a TCP connect without its slot.  A connect()
\* that fails does not fail open(), and a PEER endpoint knows its peer only if
\* a port is configured.
adapter_open(type, role) ==
  /\ rte_protocol_adapter_get(type) = "built-in"
  /\ ops # NOBODY /\ ~end.sock
  /\ heard' = NOBODY
  /\ \/ /\ end' = [NoSocket EXCEPT !.os_sockets = ops, !.type = type, !.role = role]
        /\ sockets' \in {sockets, after_failed_step(ops)}
     \/ /\ sockets' = sockets \cup {ops}
        /\ \E connected \in {FALSE, role = "CONNECT"}, port_given \in BOOLEAN :
             end' = [sock |-> TRUE, os_sockets |-> ops, type |-> type, role |-> role,
                     is_connected |-> connected,
                     peer_known |-> /\ type = "UDP"
                                    /\ role = "CONNECT" \/ (role = "PEER" /\ port_given),
                     peer |-> IF type = "UDP" /\ role # "LISTEN" THEN PEER ELSE NOBODY]
  /\ UNCHANGED <<ops, custom, target>>

-----------------------------------------------------------------------------
(* Traffic.  A failed poll() or a failed call changes nothing. *)

has(slot) == <<end.os_sockets, slot>> \notin SOCKET_LACKS

\* Whether send() and recv() are called: always by TCP, by UDP on a connected
\* socket whose table has the slot.  UDP takes sendto() and recvfrom() else.
through(slot) == end.type = "TCP" \/ (end.is_connected /\ has(slot))

\* Where the data goes: the far end of the connection if there is one, or the
\* stored peer.
destination ==
  IF ~through("send") THEN end.peer ELSE IF end.is_connected THEN PEER ELSE NOBODY

\* A UDP endpoint that knows no peer refuses to send.
adapter_send ==
  /\ end.sock
  /\ IF through("send") THEN has("send") ELSE end.peer_known /\ has("sendto")
  /\ target' = destination
  /\ UNCHANGED <<ops, custom, end, sockets, heard>>

\* Mutant: a peer that is configured is not replaced by the sender.
peer_after_keeps_configured(from) ==
  [end EXCEPT !.peer = IF end.peer_known THEN @ ELSE from, !.peer_known = TRUE]
\* recvfrom() writes the sender over the stored peer.
peer_after(from) == [end EXCEPT !.peer = from, !.peer_known = TRUE]

\* A connection brings data of its far end only, whichever call reads it.
adapter_receive(from) ==
  /\ end.sock
  /\ end.is_connected \/ end.type = "TCP" => from = PEER
  /\ heard' = from
  /\ IF through("recv")
     THEN has("recv") /\ UNCHANGED end
     ELSE has("recvfrom") /\ end' = peer_after(from)
  /\ UNCHANGED <<ops, custom, sockets, target>>

\* The table the socket was opened with, whatever is registered since.
closing_table == end.os_sockets

\* A second close does nothing.
adapter_close ==
  /\ end.sock
  /\ sockets' = sockets \ {closing_table}
  /\ end' = [end EXCEPT !.sock = FALSE, !.is_connected = FALSE]
  /\ UNCHANGED <<ops, custom, heard, target>>

ProtocolNext ==
  \/ \E t \in SOCKET_OPS : rte_osadapter_register_socket_ops(t)
  \/ \E type \in ProtocolTypes : rte_protocol_adapter_register(type)
  \/ \E type \in ProtocolTypes, role \in ProtocolRoles : adapter_open(type, role)
  \/ adapter_send \/ adapter_close
  \/ \E from \in HOSTS : adapter_receive(from)

ProtocolSpec == ProtocolInit /\ [][ProtocolNext]_protocolVars

-----------------------------------------------------------------------------
(* Properties.                                                             *)

\* No socket outlives its endpoint: whatever step of open() fails, and though
\* the socket operations may be registered anew while it is open, the sockets
\* below are exactly the endpoint's.
SocketsAreHeld == sockets = IF end.sock THEN {end.os_sockets} ELSE {}

\* A connected endpoint keeps its configured peer whichever of send() and
\* sendto() its socket operations have, and however it reads; any other UDP
\* endpoint answers the last sender, the configured peer only as
\* long as nobody else was heard: after a connect() that failed, a stray
\* datagram moves the destination of a CONNECT endpoint.
AnswersGoToPeer ==
  [][target' # target /\ end.sock =>
       target' = IF end.is_connected \/ heard = NOBODY \/ end.type = "TCP"
                 THEN (IF end.type = "TCP" /\ ~end.is_connected THEN NOBODY ELSE PEER)
                 ELSE heard]_protocolVars

=============================================================================
