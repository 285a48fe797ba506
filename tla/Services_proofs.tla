--------------------------- MODULE Services_proofs ---------------------------
(***************************************************************************)
(* Proofs about the services of MCServices: the protocol adapters, the     *)
(* safe channel, the OS adapters, the configuration and the channel        *)
(* service.                                                                *)
(***************************************************************************)
EXTENDS MCServices, WellFoundedInduction, NaturalsInduction, TLAPS

-----------------------------------------------------------------------------
(* The protocol adapters.  SocketsAreHeld is inductive once the endpoint   *)
(* is a record; that answers go to the peer needs the stored peer to be    *)
(* the last sender, which on a connected socket is the configured peer.    *)

\* rte_protocol_udp_state_t and rte_protocol_tcp_state_t.
Endpoint == [sock: BOOLEAN, os_sockets: SOCKET_OPS \cup {NOBODY}, type: ProtocolTypes,
             role: ProtocolRoles, is_connected: BOOLEAN, peer_known: BOOLEAN,
             peer: HOSTS \cup {NOBODY}]

\* The stored peer of a UDP endpoint: the last sender, the configured peer
\* before the first and as long as the socket is connected.
PeerIsLastHeard ==
  end.sock /\ end.type = "UDP" /\ end.peer_known =>
    end.peer = IF heard = NOBODY \/ end.is_connected THEN PEER ELSE heard

\* The inductive invariant of the protocol adapters.
ProtocolInv ==
  /\ end \in Endpoint /\ ops \in SOCKET_OPS \cup {NOBODY}
  /\ end.sock => end.type # "DDS"
  /\ SocketsAreHeld /\ PeerIsLastHeard

\* An endpoint starts without a socket.
LEMMA ProtocolInitInv == ProtocolInit => ProtocolInv
  BY DEF ProtocolInit, ProtocolInv, SocketsAreHeld, PeerIsLastHeard, NoSocket, Endpoint,
     ProtocolTypes, ProtocolRoles

\* Every operation of the adapters preserves the invariant.
LEMMA ProtocolStepInv == ProtocolInv /\ [ProtocolNext]_protocolVars => ProtocolInv'
<1> SUFFICES ASSUME ProtocolInv, [ProtocolNext]_protocolVars PROVE ProtocolInv'
  OBVIOUS
<1> USE DEF ProtocolInv, SocketsAreHeld, PeerIsLastHeard
<1>1. ASSUME NEW t \in SOCKET_OPS, rte_osadapter_register_socket_ops(t) PROVE ProtocolInv'
  BY <1>1 DEF rte_osadapter_register_socket_ops
<1>2. ASSUME NEW type \in ProtocolTypes, rte_protocol_adapter_register(type) PROVE ProtocolInv'
  BY <1>2 DEF rte_protocol_adapter_register
<1>3. ASSUME NEW type \in ProtocolTypes, NEW role \in ProtocolRoles, adapter_open(type, role)
      PROVE  ProtocolInv'
  <2>1. sockets = {} /\ ops \in SOCKET_OPS /\ type # "DDS" /\ ops' = ops /\ heard' = NOBODY
    BY <1>3 DEF adapter_open, rte_protocol_adapter_get
  <2>2. CASE /\ end' = [NoSocket EXCEPT !.os_sockets = ops, !.type = type, !.role = role]
             /\ sockets' \in {sockets, after_failed_step(ops)}
    <3>1. end' \in Endpoint /\ end'.sock = FALSE
      BY <2>1, <2>2 DEF NoSocket, Endpoint, ProtocolTypes, ProtocolRoles
    <3>2. sockets' = {}
      BY <2>1, <2>2 DEF after_failed_step
    <3> QED
      BY <2>1, <3>1, <3>2
  <2>3. ASSUME NEW connected \in {FALSE, role = "CONNECT"}, NEW port_given \in BOOLEAN,
               sockets' = sockets \cup {ops},
               end' = [sock |-> TRUE, os_sockets |-> ops, type |-> type, role |-> role,
                       is_connected |-> connected,
                       peer_known |-> /\ type = "UDP"
                                      /\ role = "CONNECT" \/ (role = "PEER" /\ port_given),
                       peer |-> IF type = "UDP" /\ role # "LISTEN" THEN PEER ELSE NOBODY]
        PROVE  ProtocolInv'
    <3>1. connected \in BOOLEAN
      BY <2>3
    <3>2. end' \in Endpoint
      BY <2>1, <2>3, <3>1, ProtocolAssumption DEF Endpoint
    <3>3. /\ end'.sock = TRUE /\ end'.os_sockets = ops /\ end'.type = type
          /\ end'.peer_known => end'.peer = PEER
      BY <2>3
    <3> QED
      BY <2>1, <2>3, <3>2, <3>3
  <2> QED
    BY <1>3, <2>2, <2>3 DEF adapter_open
<1>4. ASSUME adapter_send PROVE ProtocolInv'
  BY <1>4 DEF adapter_send
<1>5. ASSUME NEW from \in HOSTS, adapter_receive(from) PROVE ProtocolInv'
  <2>1. from # NOBODY /\ heard' = from /\ UNCHANGED <<ops, sockets>>
    BY <1>5, ProtocolAssumption DEF adapter_receive
  <2>2. CASE through("recv")
    BY <1>5, <2>1, <2>2 DEF adapter_receive, through
  <2>3. CASE ~through("recv")
    <3>1. end' = [end EXCEPT !.peer = from, !.peer_known = TRUE]
      BY <1>5, <2>3 DEF adapter_receive, peer_after
    <3>2. end.is_connected => from = PEER
      BY <1>5 DEF adapter_receive
    <3> QED
      BY <2>1, <3>1, <3>2 DEF Endpoint
  <2> QED
    BY <2>2, <2>3
<1>6. ASSUME adapter_close PROVE ProtocolInv'
  BY <1>6 DEF adapter_close, closing_table, Endpoint
<1>7. ASSUME UNCHANGED protocolVars PROVE ProtocolInv'
  BY <1>7 DEF protocolVars
<1> QED
  BY <1>1, <1>2, <1>3, <1>4, <1>5, <1>6, <1>7 DEF ProtocolNext

\* A send goes where AnswersGoToPeer says.
LEMMA SendGoesToPeer ==
  ASSUME ProtocolInv, [ProtocolNext]_protocolVars, target' # target, end.sock
  PROVE  target' = IF end.is_connected \/ heard = NOBODY \/ end.type = "TCP"
                   THEN (IF end.type = "TCP" /\ ~end.is_connected THEN NOBODY ELSE PEER)
                   ELSE heard
<1>1. adapter_send
  BY DEF ProtocolNext, protocolVars, rte_osadapter_register_socket_ops,
     rte_protocol_adapter_register, adapter_open, adapter_receive, adapter_close
<1>2. end.type \in {"UDP", "TCP"}
  BY DEF ProtocolInv, Endpoint, ProtocolTypes
<1> QED
  BY <1>1, <1>2 DEF adapter_send, destination, through, ProtocolInv, PeerIsLastHeard, Endpoint

-----------------------------------------------------------------------------
(* The safe channel.  LinksAreAccounted speaks of the moments between two  *)
(* calls; inside open() the links counted so far are the ones open below,  *)
(* and the engine never holds a link that is not among them.               *)

SafeChannelRecord ==
  [type: ChannelTypes, is_open: BOOLEAN, link_count: Nat, link_handles: SUBSET Nat]

\* The handles, the count and the links open below always agree.
CountedLinks ==
  channel.link_handles = 1..channel.link_count /\ net = 1..channel.link_count

\* How far open() is.
OpenProgress ==
  /\ pc = "links" => channel.link_count < want /\ engine = {}
  /\ pc = "engine" => channel.link_count = want /\ engine = {}
  /\ pc = "register" => channel.link_count = want /\ engine \subseteq 1..want /\ engine # 1..want
  /\ pc # "idle" => ~channel.is_open /\ want >= 1
  /\ pc = "idle" /\ ~channel.is_open => channel.link_count = 0
  /\ channel.is_open => engine = 1..want /\ channel.link_count = want /\ want >= 1

\* The inductive invariant of the safe channel.
SafeChannelInv ==
  /\ channel \in SafeChannelRecord /\ want \in Nat
  /\ pc \in {"idle", "links", "engine", "register"}
  /\ CountedLinks /\ OpenProgress

\* A process starts with the channel closed.
LEMMA SafeChannelInitInv == SafeChannelInit => SafeChannelInv
  BY DEF SafeChannelInit, SafeChannelInv, CountedLinks, OpenProgress, SafeChannelRecord,
     ChannelTypes, Closed

\* safechannel_close_links() with the stored count closes every link.
LEMMA ClosesEveryLink ==
  ASSUME SafeChannelInv, safechannel_close_links(channel.link_count)
  PROVE  /\ net' = {} /\ channel' \in SafeChannelRecord
         /\ channel'.link_handles = {} /\ channel'.link_count = 0 /\ ~channel'.is_open
<1>1. channel.link_count \in Nat /\ channel.link_handles = 1..channel.link_count
      /\ net = 1..channel.link_count
  BY DEF SafeChannelInv, SafeChannelRecord, CountedLinks
<1>2. net' = {}
  BY <1>1 DEF safechannel_close_links
<1>3. {i \in channel.link_handles : i > channel.link_count} = {}
  BY <1>1
<1> QED
  BY <1>2, <1>3 DEF safechannel_close_links, SafeChannelInv, SafeChannelRecord

\* A step that undoes what open() did ends in the invariant.
LEMMA UndoInv ==
  ASSUME SafeChannelInv, safechannel_close_links(channel.link_count), pc' = "idle", want' = want
  PROVE  SafeChannelInv'
<1>1. /\ net' = {} /\ channel' \in SafeChannelRecord
      /\ channel'.link_handles = {} /\ channel'.link_count = 0 /\ ~channel'.is_open
  BY ClosesEveryLink
<1> QED
  BY <1>1 DEF SafeChannelInv, CountedLinks, OpenProgress

\* Every step of open(), of the open channel and of the lock preserves it.
LEMMA SafeChannelStepInv ==
  SafeChannelInv /\ [SafeChannelNext]_safeChannelVars => SafeChannelInv'
<1> SUFFICES ASSUME SafeChannelInv, [SafeChannelNext]_safeChannelVars PROVE SafeChannelInv'
  OBVIOUS
<1> USE DEF SafeChannelInv, CountedLinks, OpenProgress
<1>0. /\ channel.link_count \in Nat /\ channel.is_open \in BOOLEAN
      /\ channel.type \in ChannelTypes
  BY DEF SafeChannelRecord
<1>1. ASSUME NEW type \in ChannelTypes, NEW n \in 0..(MAX_LINKS + 1), NEW good \in BOOLEAN,
             rte_safechannel_open(type, n, good)
      PROVE  SafeChannelInv'
  <2>1. /\ channel' \in SafeChannelRecord /\ channel'.link_count = 0 /\ ~channel'.is_open
        /\ channel'.link_handles = {} /\ net' = {} /\ engine' = {} /\ want' = n
        /\ pc' \in {"idle", "links"} /\ n \in Nat
    BY <1>1, SafeChannelAssumption DEF rte_safechannel_open, Closed, SafeChannelRecord
  <2>2. pc' = "links" => n >= 1
    BY <1>1, SafeChannelAssumption DEF rte_safechannel_open, Links
  <2> QED
    BY <2>1, <2>2
<1>2. ASSUME safechannel_open_one_endpoint PROVE SafeChannelInv'
  <2> DEFINE i == channel.link_count + 1
  <2>1. pc = "links" /\ i <= want /\ UNCHANGED <<engine, up, want, locked>>
    BY <1>2 DEF safechannel_open_one_endpoint
  <2>2. CASE /\ channel' = [channel EXCEPT !.link_handles = @ \cup {i}, !.link_count = i]
             /\ net' = net \cup {i}
             /\ pc' = IF i = want THEN "engine" ELSE "links"
    <3>1. 1..i = 1..channel.link_count \cup {i} /\ i \in Nat
      BY <1>0
    <3>2. /\ channel' \in SafeChannelRecord /\ channel'.link_handles = 1..i
          /\ channel'.link_count = i /\ channel'.is_open = channel.is_open /\ net' = 1..i
      <4>1. channel.link_handles = 1..channel.link_count /\ net = 1..channel.link_count
        OBVIOUS
      <4> HIDE DEF SafeChannelInv
      <4>2. channel \in SafeChannelRecord
        BY DEF SafeChannelInv
      <4> QED
        BY <2>2, <3>1, <4>1, <4>2 DEF SafeChannelRecord
    <3> HIDE DEF i
    <3> QED
      BY <2>1, <2>2, <3>1, <3>2
  <2>3. CASE open_failed /\ pc' = "idle"
    BY <2>1, <2>3, UndoInv DEF open_failed
  <2> QED
    BY <1>2, <2>2, <2>3 DEF safechannel_open_one_endpoint
<1>3. ASSUME open_dual_engine PROVE SafeChannelInv'
  BY <1>0, <1>3 DEF open_dual_engine, SafeChannelRecord
<1>4. ASSUME open_vital_engine PROVE SafeChannelInv'
  <2>1. CASE pc' = "register" /\ UNCHANGED <<channel, net>>
    <3>1. 1 \in 1..want
      BY <1>4 DEF open_vital_engine
    <3> QED
      BY <1>4, <2>1, <3>1 DEF open_vital_engine
  <2>2. CASE Undo /\ pc' = "idle"
    BY <1>4, <2>2, UndoInv DEF open_vital_engine, Undo
  <2> QED
    BY <1>4, <2>1, <2>2 DEF open_vital_engine
<1>5. ASSUME open_vital_register PROVE SafeChannelInv'
  <2>0. pc = "register" /\ UNCHANGED <<want, locked>>
    BY <1>5 DEF open_vital_register
  <2>1. CASE Undo /\ pc' = "idle"
    BY <2>0, <2>1, UndoInv DEF Undo
  <2>2. ASSUME NEW i \in channel.link_handles,
               engine' = engine \cup {i}, UNCHANGED net,
               IF engine' = channel.link_handles
               THEN channel' = [channel EXCEPT !.is_open = TRUE] /\ pc' = "idle"
               ELSE UNCHANGED <<channel, pc>>
        PROVE  SafeChannelInv'
    <3>1. channel.link_handles = 1..want /\ engine' \subseteq 1..want
      BY <2>0, <2>2
    <3>2. CASE engine' = channel.link_handles
      <4>1. /\ channel' \in SafeChannelRecord /\ channel'.is_open = TRUE
            /\ channel'.link_count = channel.link_count
            /\ channel'.link_handles = channel.link_handles /\ pc' = "idle"
        BY <2>2, <3>2 DEF SafeChannelRecord
      <4> QED
        BY <2>0, <2>2, <3>1, <3>2, <4>1
    <3>3. CASE engine' # channel.link_handles
      BY <2>0, <2>2, <3>1, <3>3
    <3> QED
      BY <3>2, <3>3
  <2> QED
    BY <1>5, <2>1, <2>2 DEF open_vital_register
<1>6. ASSUME Traffic PROVE SafeChannelInv'
  BY <1>6 DEF Traffic
<1>7. ASSUME rte_safechannel_close PROVE SafeChannelInv'
  BY <1>7, UndoInv DEF rte_safechannel_close
<1>8. ASSUME safechannel_locked \/ UNCHANGED safeChannelVars PROVE SafeChannelInv'
  BY <1>8 DEF safechannel_locked, safeChannelVars
<1>9. Links \subseteq 0..(MAX_LINKS + 1)
  BY SafeChannelAssumption DEF Links
<1> QED
  BY <1>1, <1>2, <1>3, <1>4, <1>5, <1>6, <1>7, <1>8, <1>9 DEF SafeChannelNext

\* The invariant answers both questions of LinksAreAccounted.
LEMMA SafeChannelAccounts == SafeChannelInv => LinksAreAccounted
<1> SUFFICES ASSUME SafeChannelInv PROVE LinksAreAccounted
  OBVIOUS
<1>1. NoLinkLeftBehind
  BY DEF NoLinkLeftBehind, SafeChannelInv, CountedLinks, OpenProgress
<1>2. FullMeansEveryLink
  <2>1. channel.is_open => engine = 1..want /\ engine \subseteq net
    BY DEF SafeChannelInv, CountedLinks, OpenProgress
  <2>2. channel.is_open => 1..channel.link_count = 1..want /\ 1 \in 1..want
    BY DEF SafeChannelInv, OpenProgress
  <2> QED
    BY <2>1, <2>2 DEF FullMeansEveryLink, rte_safechannel_get_status
<1> QED
  BY <1>1, <1>2 DEF LinksAreAccounted

-----------------------------------------------------------------------------
(* The OS adapters.  That the bundle is whole needs the members it has      *)
(* passed to hold its adapter while it is still running, and the seams     *)
(* outside it to hold none; what is frozen by the lock depends on the      *)
(* tables of the seams.                                                    *)

\* What a handle names, and the progress of a bundle's registration.
Objects == [maker: ADAPTERS \cup {NONE}, alive: BOOLEAN, started: BOOLEAN]
Bundles == [of: ADAPTERS \cup {NONE}, members: SUBSET Registered, next: 1..Len(BundleOrder),
            status: {"none", "running", "OK", "INVALID_STATE"}]

\* The members the bundle has passed, except the one that is registered by itself.
BundlePassed ==
  bundle.status = "running" =>
    \A i \in 1..(bundle.next - 1) :
      BundleOrder[i] # focus /\ BundleOrder[i] \in bundle.members =>
        adapter[BundleOrder[i]] = bundle.of

\* The seams outside the bundle, with the same exception.
NullMembersSkipped ==
  \A s \in Registered \ {focus} : s \notin bundle.members => adapter[s] = NONE

\* The inductive invariant of the OS adapters.
OalInv ==
  /\ OalTypeOK
  /\ focus \in DOMAIN Backed \cup DOMAIN Stubs
  /\ handle \in BOOLEAN /\ asked \in BOOLEAN
  /\ object \in Objects /\ bundle \in Bundles
  /\ BundlePassed /\ NullMembersSkipped /\ BundleIsWhole /\ NoDanglingHandle

\* The names of the seams.
LEMMA SeamNames ==
  /\ DOMAIN Backed = {"memory", "clocksync", "timer", "mutex", "task", "log", "nvm", "platform",
                      "reboot", "ipc", "netlink", "flow", "random", "fsou"}
  /\ DOMAIN Stubs = {"rr_server", "rr_client", "topic", "subscriber"}
  BY DEF Backed, Stubs

\* rte_osadapter_register_all() goes through every seam.
LEMMA BundleOrderFacts ==
  /\ Len(BundleOrder) = 15
  /\ \A i \in 1..15 : BundleOrder[i] \in Registered
  /\ \A s \in Registered : \E i \in 1..15 : BundleOrder[i] = s
<1>1. Len(BundleOrder) = 15
  BY DEF BundleOrder
<1>2. \A i \in 1..15 : BundleOrder[i] \in Registered
  BY SeamNames DEF BundleOrder, Registered
<1>3. \A s \in Registered : \E i \in 1..15 : BundleOrder[i] = s
  <2>1. /\ BundleOrder[1] = "memory" /\ BundleOrder[2] = "clocksync" /\ BundleOrder[3] = "timer"
        /\ BundleOrder[4] = "mutex" /\ BundleOrder[5] = "task" /\ BundleOrder[6] = "log"
        /\ BundleOrder[7] = "nvm" /\ BundleOrder[8] = "platform" /\ BundleOrder[9] = "reboot"
        /\ BundleOrder[10] = "ipc" /\ BundleOrder[11] = "netlink" /\ BundleOrder[12] = "flow"
        /\ BundleOrder[13] = "sockets" /\ BundleOrder[14] = "random" /\ BundleOrder[15] = "fsou"
    BY DEF BundleOrder
  <2> HIDE DEF BundleOrder
  <2> QED
    BY <2>1, SeamNames DEF Registered
<1> QED
  BY <1>1, <1>2, <1>3

\* Every operation that starts something is for setup only, and so is every
\* one that makes an object, except for the links of netlink and flow.
LEMMA SetupOnlySeams ==
  /\ \A s \in DOMAIN Backed : Backed[s].starts \subseteq Backed[s].setup_only
  /\ \A s \in DOMAIN Backed \ {"netlink", "flow"} :
       Backed[s].makes # "" => Backed[s].makes \in Backed[s].setup_only
  /\ \A s \in DOMAIN Stubs : Stubs[s].starts = {}
<1>1. /\ \A s \in DOMAIN Backed : Backed[s].starts \subseteq Backed[s].setup_only
      /\ \A s \in DOMAIN Backed \ {"netlink", "flow"} :
           Backed[s].makes # "" => Backed[s].makes \in Backed[s].setup_only
  <2>1. /\ Backed["timer"] = timer /\ Backed["task"] = task /\ Backed["mutex"] = mutex
        /\ Backed["nvm"] = nvm /\ Backed["memory"] = memory /\ Backed["ipc"] = ipc
        /\ Backed["netlink"] = netlink /\ Backed["flow"] = flow /\ Backed["fsou"] = fsou
        /\ Backed["clocksync"] = clocksync /\ Backed["random"] = random /\ Backed["reboot"] = reboot
        /\ Backed["platform"] = platform /\ Backed["log"] = log
    BY DEF Backed
  <2> DEFINE Starts(seam) == seam.starts \subseteq seam.setup_only
             Makes(seam) == seam.makes # "" => seam.makes \in seam.setup_only
  <2>2. /\ Makes(timer) /\ Makes(task) /\ Makes(mutex) /\ Makes(nvm)
        /\ Makes(memory) /\ Makes(ipc) /\ Makes(fsou) /\ Makes(clocksync)
        /\ Makes(random) /\ Makes(reboot) /\ Makes(platform) /\ Makes(log)
    BY DEF Seam, timer, task, mutex, nvm, memory, ipc, fsou, clocksync, random, reboot, platform, log
  <2>3. /\ Starts(timer) /\ Starts(task) /\ Starts(mutex) /\ Starts(nvm) /\ Starts(memory)
        /\ Starts(ipc) /\ Starts(netlink) /\ Starts(flow) /\ Starts(fsou) /\ Starts(clocksync)
        /\ Starts(random) /\ Starts(reboot) /\ Starts(platform) /\ Starts(log)
    BY DEF Seam, timer, task, mutex, nvm, memory, ipc, netlink, flow, fsou,
       clocksync, random, reboot, platform, log
  <2>4. \A s \in DOMAIN Backed \ {"netlink", "flow"} : Makes(Backed[s])
    <3> HIDE DEF Makes
    <3> QED
      BY <2>1, <2>2, SeamNames
  <2>5. \A s \in DOMAIN Backed : Starts(Backed[s])
    <3> HIDE DEF Starts
    <3> QED
      BY <2>1, <2>3, SeamNames
  <2> QED
    BY <2>4, <2>5
<1>2. \A s \in DOMAIN Stubs : Stubs[s].starts = {}
  BY SeamNames DEF Stubs, Seam, rr_server, rr_client, topic, subscriber
<1> QED
  BY <1>1, <1>2

\* No adapter is registered and nothing was asked for yet.
LEMMA OalInitInv == OalInit => OalInv
<1> SUFFICES ASSUME OalInit PROVE OalInv
  OBVIOUS
<1>1. 1 \in 1..Len(BundleOrder)
  BY BundleOrderFacts
<1>2. /\ object \in Objects /\ bundle \in Bundles /\ bundle.status = "none" /\ bundle.next = 1
  BY <1>1 DEF OalInit, Objects, Bundles, NoObject, NoBundle
<1>3. OalTypeOK
  BY <1>1, <1>2 DEF OalInit, OalTypeOK, LogLevels
<1>4. handle = FALSE /\ asked = FALSE /\ focus \in DOMAIN Backed \cup DOMAIN Stubs
  BY DEF OalInit
<1> QED
  BY <1>2, <1>3, <1>4 DEF OalInit, OalInv, BundlePassed, NullMembersSkipped, BundleIsWhole,
     NoDanglingHandle

\* What the other variables do is no matter.
LEMMA OalFrame ==
  ASSUME OalInv, UNCHANGED <<focus, adapter, handle, object, asked, bundle>>,
         min_level' \in LogLevels
  PROVE  OalInv'
  BY DEF OalInv, OalTypeOK, BundlePassed, NullMembersSkipped, BundleIsWhole,
     NoDanglingHandle

\* The two ways of registering an adapter.
LEMMA RegistrationInv ==
  ASSUME OalInv,
         \/ \E s \in {focus} \cap Registered, a \in ADAPTERS : register(s, a)
         \/ \E b \in BUNDLES : rte_osadapter_register_all(b)
  PROVE  OalInv'
<1> USE DEF OalInv, OalTypeOK, BundlePassed, NullMembersSkipped, BundleIsWhole,
     NoDanglingHandle
<1>0. /\ Len(BundleOrder) = 15 /\ \A i \in 1..15 : BundleOrder[i] \in Registered
      /\ \A s \in Registered : \E i \in 1..15 : BundleOrder[i] = s
  BY BundleOrderFacts
<1>1. ASSUME NEW s \in {focus} \cap Registered, NEW a \in ADAPTERS, register(s, a) PROVE OalInv'
  <2>1. adapter' = [adapter EXCEPT ![focus] = a] /\ focus \in Registered
    BY <1>1 DEF register
  <2>2. adapter' \in [Registered -> ADAPTERS \cup {NONE}]
    BY <2>1
  <2>3. \A r \in Registered \ {focus} : adapter'[r] = adapter[r]
    BY <2>1
  <2>4. UNCHANGED <<focus, handle, object, asked, bundle, min_level>>
    BY <1>1 DEF register
  <2>5. BundlePassed'
    BY <1>0, <2>3, <2>4 DEF Bundles
  <2> QED
    BY <2>2, <2>3, <2>4, <2>5
<1>2. ASSUME NEW b \in BUNDLES, rte_osadapter_register_all(b) PROVE OalInv'
  <2>0. /\ UNCHANGED <<focus, handle, object, asked, min_level>>
        /\ b.of \in ADAPTERS /\ b.members \in SUBSET Registered
    BY <1>2, BundleAssumption DEF rte_osadapter_register_all
  <2>1. CASE /\ bundle = NoBundle
             /\ bundle' = [of |-> b.of, members |-> b.members, next |-> 1, status |-> "running"]
             /\ UNCHANGED adapter
    <3>1. 1 \in 1..Len(BundleOrder)
      BY <1>0
    <3>2. /\ bundle' \in Bundles /\ bundle'.status = "running" /\ bundle'.next = 1
          /\ bundle.members = {}
      BY <2>0, <2>1, <3>1 DEF NoBundle, Bundles
    <3>3. NullMembersSkipped'
      BY <2>0, <2>1, <3>2
    <3> QED
      BY <2>0, <2>1, <3>1, <3>2, <3>3
  <2>2. CASE bundle.status = "running" /\ register_all_step
    <3> DEFINE s == BundleOrder[bundle.next]
    <3>0. /\ bundle.next \in 1..15 /\ s \in Registered /\ bundle.of \in ADAPTERS \cup {NONE}
          /\ bundle.members \in SUBSET Registered
      BY <1>0 DEF Bundles
    <3>1. ASSUME bundle' = past_seam, adapter' \in [Registered -> ADAPTERS \cup {NONE}],
                 \A r \in Registered : r # s => adapter'[r] = adapter[r],
                 IF s \in bundle.members THEN adapter'[s] = bundle.of ELSE adapter'[s] = adapter[s]
          PROVE  OalInv'
      <4>1. /\ bundle' \in Bundles /\ bundle'.of = bundle.of /\ bundle'.members = bundle.members
            /\ bundle.next < 15 => bundle'.next = bundle.next + 1 /\ bundle'.status = "running"
            /\ ~(bundle.next < 15) => bundle'.next = bundle.next /\ bundle'.status = "OK"
        <5>1. CASE bundle.next < 15
          <6>1. bundle' = [bundle EXCEPT !.next = bundle.next + 1]
            BY <1>0, <3>1, <5>1 DEF past_seam
          <6>2. bundle.next + 1 \in 1..15
            <7> HIDE DEF s, OalInv
            <7> QED
              BY <3>0, <5>1
          <6> QED
            BY <1>0, <2>2, <5>1, <6>1, <6>2 DEF Bundles
        <5>2. CASE ~(bundle.next < 15)
          <6>1. bundle' = [bundle EXCEPT !.status = "OK"]
            BY <1>0, <3>1, <5>2 DEF past_seam
          <6> QED
            BY <5>2, <6>1 DEF Bundles
        <5> QED
          BY <5>1, <5>2
      <4>2. NullMembersSkipped'
        BY <2>0, <3>0, <3>1, <4>1
      <4>3. \A i \in 1..bundle.next :
              BundleOrder[i] # focus /\ BundleOrder[i] \in bundle.members =>
                adapter'[BundleOrder[i]] = bundle.of
        <5> TAKE i \in 1..bundle.next
        <5>1. BundleOrder[i] \in Registered
          BY <1>0, <3>0
        <5>2. CASE BundleOrder[i] = s
          BY <3>1, <5>2
        <5>3. CASE BundleOrder[i] # s
          <6>1. i \in 1..(bundle.next - 1)
            BY <3>0, <5>3
          <6> QED
            BY <2>2, <3>1, <5>1, <5>3, <6>1
        <5> QED
          BY <5>2, <5>3
      <4>4. CASE bundle.next < 15
        <5>1. 1..(bundle'.next - 1) = 1..bundle.next
          BY <3>0, <4>1, <4>4
        <5>2. BundlePassed'
          BY <2>0, <4>1, <4>3, <4>4, <5>1
        <5> QED
          BY <2>0, <3>1, <4>1, <4>2, <4>4, <5>2 DEF Bundles
      <4>5. CASE ~(bundle.next < 15)
        <5>1. bundle.next = 15
          BY <3>0, <4>5
        <5>2. BundleIsWhole'
          BY <1>0, <2>0, <4>1, <4>2, <4>3, <5>1
        <5> QED
          BY <2>0, <3>1, <4>1, <4>2, <4>5, <5>2 DEF Bundles
      <4> QED
        BY <4>4, <4>5
    <3>2. CASE s \notin bundle.members
      BY <2>2, <3>1, <3>2 DEF register_all_step
    <3>3. CASE s \in bundle.members /\ may_register(s)
      <4>1. bundle' = past_seam /\ adapter' = [adapter EXCEPT ![s] = bundle.of]
        BY <2>2, <3>3 DEF register_all_step
      <4>2. /\ adapter' \in [Registered -> ADAPTERS \cup {NONE}] /\ adapter'[s] = bundle.of
            /\ \A r \in Registered : r # s => adapter'[r] = adapter[r]
        BY <3>0, <4>1
      <4> QED
        BY <3>1, <3>3, <4>1, <4>2
    <3>4. CASE s \in bundle.members /\ ~may_register(s)
      <4>1. bundle' = [bundle EXCEPT !.status = "INVALID_STATE"] /\ UNCHANGED adapter
        BY <2>2, <3>4 DEF register_all_step
      <4>2. /\ bundle' \in Bundles /\ bundle'.status = "INVALID_STATE"
            /\ bundle'.next = bundle.next /\ bundle'.members = bundle.members
        BY <4>1 DEF Bundles
      <4> QED
        BY <2>0, <4>1, <4>2
    <3> QED
      BY <3>2, <3>3, <3>4
  <2> QED
    BY <1>2, <2>1, <2>2 DEF rte_osadapter_register_all
<1> QED
  BY <1>1, <1>2

\* The wrappers of the operations.
LEMMA OperationInv ==
  ASSUME OalInv, make \/ give_back \/ (\E op \in Ops.uses : use(op)) \/ (\E op \in Ops.free : call(op))
  PROVE  OalInv'
<1> USE DEF OalInv, OalTypeOK, BundlePassed, NullMembersSkipped, BundleIsWhole,
     NoDanglingHandle
<1>0. DOMAIN Backed \subseteq Registered /\ DOMAIN Backed \cap DOMAIN Stubs = {}
  BY SeamNames DEF Registered
<1>1. ASSUME make PROVE OalInv'
  <2>0. UNCHANGED <<focus, adapter, bundle, min_level>>
    BY <1>1 DEF make, Unrelated
  <2>1. CASE UNCHANGED <<handle, object, asked>>
    BY <2>0, <2>1
  <2>2. CASE /\ handle' = handle_after(result') /\ asked' = TRUE
             /\ object' = IF result' = "OK" /\ focus \notin DOMAIN Stubs
                          THEN [maker |-> adapter[focus], alive |-> TRUE, started |-> FALSE]
                          ELSE object
    <3>1. handle' \in BOOLEAN
      BY <2>2 DEF handle_after
    <3>2. object' \in Objects
      BY <1>0, <2>2 DEF Objects
    <3>3. focus \in DOMAIN Backed /\ handle' => object'.alive
      BY <1>0, <2>2 DEF handle_after
    <3> QED
      BY <2>0, <2>2, <3>1, <3>2, <3>3
  <2> QED
    BY <1>1, <2>1, <2>2 DEF make
<1>2. ASSUME give_back PROVE OalInv'
  <2>1. UNCHANGED <<focus, adapter, bundle, min_level, handle>> /\ asked' = FALSE
    BY <1>2 DEF give_back, Unrelated
  <2>2. object' \in Objects
    BY <1>2 DEF give_back, Objects
  <2> QED
    BY <2>1, <2>2
<1>3. ASSUME NEW op \in Ops.uses, use(op) PROVE OalInv'
  <2>1. UNCHANGED <<focus, adapter, bundle, min_level, handle, asked>>
    BY <1>3 DEF use, Unrelated
  <2>2. object' \in Objects /\ object'.alive = object.alive
    BY <1>3 DEF use, Objects
  <2> QED
    BY <2>1, <2>2
<1>4. ASSUME NEW op \in Ops.free, call(op) PROVE OalInv'
  BY <1>4, OalFrame DEF call, Unrelated
<1> QED
  BY <1>1, <1>2, <1>3, <1>4

\* Every step of the caller, of the bundle and of the lock preserves it.
LEMMA OalStepInv == OalInv /\ [OalNext]_oalVars => OalInv'
<1> SUFFICES ASSUME OalInv, [OalNext]_oalVars PROVE OalInv'
  OBVIOUS
<1>1. min_level \in LogLevels
  BY DEF OalInv, OalTypeOK
<1>2. ASSUME NEW level \in 0..4, rte_log_set_level(level) PROVE OalInv'
  BY <1>1, <1>2, OalFrame DEF rte_log_set_level
<1>3. ASSUME NEW level \in LogLevels, rte_log_write(level) PROVE OalInv'
  BY <1>1, <1>3, OalFrame DEF rte_log_write, Unrelated
<1>4. ASSUME rte_fsou_report_presence PROVE OalInv'
  BY <1>1, <1>4, OalFrame DEF rte_fsou_report_presence
<1>5. ASSUME NEW level, rte_safestate_register_handler(level) \/ rte_safestate_enter(level)
      PROVE  OalInv'
  BY <1>1, <1>5, OalFrame DEF rte_safestate_register_handler, rte_safestate_enter
<1>6. ASSUME rte_lifecycle_lock_or_unlock \/ UNCHANGED oalVars PROVE OalInv'
  BY <1>1, <1>6, OalFrame DEF rte_lifecycle_lock_or_unlock, oalVars
<1> QED
  BY <1>2, <1>3, <1>4, <1>5, <1>6, RegistrationInv, OperationInv DEF OalNext

\* A setup-only operation on a locked system has one answer.
LEMMA RefusedWhileLocked ==
  ASSUME locked, NEW op, op \in Ops.setup_only
  PROVE  answers(op) = {"INVALID_STATE"}
  BY DEF answers, gated, rte_lifecycle_check_setup_allowed

\* One step under the lock moves nothing that was settled before.
LEMMA FrozenStep ==
  ASSUME OalInv, [OalNext]_oalVars, locked, locked'
  PROVE  /\ \A s \in Registered \ {"sockets"} : adapter'[s] = adapter[s]
         /\ handlers' = handlers
         /\ focus \notin {"netlink", "flow"} =>
              (object'.alive => object.alive) /\ (object'.started => object.started)
<1> DEFINE Frozen ==
      /\ \A s \in Registered \ {"sockets"} : adapter'[s] = adapter[s]
      /\ handlers' = handlers
      /\ focus \notin {"netlink", "flow"} =>
           (object'.alive => object.alive) /\ (object'.started => object.started)
<1> SUFFICES Frozen
  OBVIOUS
<1>0. /\ adapter \in [Registered -> ADAPTERS \cup {NONE}]
      /\ focus \in DOMAIN Backed \cup DOMAIN Stubs /\ object \in Objects
      /\ DOMAIN Backed \cap DOMAIN Stubs = {}
  BY SeamNames DEF OalInv, OalTypeOK
<1>1. ASSUME UNCHANGED <<adapter, handlers, object>> PROVE Frozen
  BY <1>1
<1>2. ASSUME NEW s \in {focus} \cap Registered, NEW a \in ADAPTERS, register(s, a) PROVE Frozen
  <2>1. s = "sockets" /\ adapter' = [adapter EXCEPT ![s] = a] /\ UNCHANGED <<handlers, object>>
    BY <1>2 DEF register, may_register, rte_lifecycle_check_setup_allowed
  <2> QED
    BY <1>0, <2>1
<1>3. ASSUME NEW b \in BUNDLES, rte_osadapter_register_all(b) PROVE Frozen
  <2> DEFINE s == BundleOrder[bundle.next]
  <2>1. UNCHANGED <<handlers, object>>
    BY <1>3 DEF rte_osadapter_register_all
  <2>2. adapter' = adapter \/ (s = "sockets" /\ adapter' = [adapter EXCEPT ![s] = bundle.of])
    BY <1>3 DEF rte_osadapter_register_all, register_all_step, may_register,
       rte_lifecycle_check_setup_allowed
  <2> QED
    BY <1>0, <2>1, <2>2
<1>4. ASSUME make PROVE Frozen
  <2>1. UNCHANGED <<adapter, handlers>>
    BY <1>4 DEF make, Unrelated
  <2>2. ASSUME focus \notin {"netlink", "flow"} PROVE object' = object
    <3>1. CASE focus \in DOMAIN Stubs
      BY <1>4, <3>1 DEF make
    <3>2. CASE focus \notin DOMAIN Stubs
      <4>1. Ops = Backed[focus] /\ focus \in DOMAIN Backed /\ Ops.makes # ""
        BY <1>0, <1>4, <3>2 DEF make, Ops
      <4>2. Ops.makes \in Ops.setup_only
        BY <2>2, <4>1, SetupOnlySeams
      <4>3. answers(Ops.makes) = {"INVALID_STATE"}
        BY <4>2, RefusedWhileLocked
      <4> QED
        BY <1>4, <4>3 DEF make
    <3> QED
      BY <3>1, <3>2
  <2> QED
    BY <2>1, <2>2
<1>5. ASSUME give_back PROVE Frozen
  BY <1>0, <1>5 DEF give_back, Unrelated, Objects
<1>6. ASSUME NEW op \in Ops.uses, use(op) PROVE Frozen
  <2>1. UNCHANGED <<adapter, handlers>>
    BY <1>6 DEF use, Unrelated
  <2>2. ~(op \in Ops.starts /\ result' = "OK")
    <3>1. SUFFICES ASSUME op \in Ops.starts, result' = "OK" PROVE FALSE
      OBVIOUS
    <3>2. op \in Ops.setup_only
      BY <1>0, <3>1, SetupOnlySeams DEF Ops
    <3>3. answers(op) = {"INVALID_STATE"}
      BY <3>2, RefusedWhileLocked
    <3> QED
      BY <1>6, <3>1, <3>3 DEF use
  <2>3. object'.alive = object.alive /\ object'.started = object.started
    BY <1>0, <1>6, <2>2 DEF use, Objects
  <2> QED
    BY <2>1, <2>3
<1>7. ASSUME NEW op \in Ops.free, call(op) PROVE Frozen
  BY <1>1, <1>7 DEF call, Unrelated
<1>8. ASSUME NEW level, \/ rte_log_set_level(level) \/ rte_log_write(level)
                        \/ rte_safestate_enter(level) \/ rte_safestate_register_handler(level)
      PROVE  Frozen
  BY <1>1, <1>8 DEF rte_log_set_level, rte_log_write, rte_safestate_enter, Unrelated,
     rte_safestate_register_handler, rte_lifecycle_check_setup_allowed
<1>9. ASSUME rte_fsou_report_presence \/ rte_lifecycle_lock_or_unlock \/ UNCHANGED oalVars
      PROVE  Frozen
  BY <1>1, <1>9 DEF rte_fsou_report_presence, rte_lifecycle_lock_or_unlock, oalVars
<1> HIDE DEF Frozen
<1> QED
  BY <1>2, <1>3, <1>4, <1>5, <1>6, <1>7, <1>8, <1>9 DEF OalNext

-----------------------------------------------------------------------------
(* Loops *)

\* A nonempty set of naturals has a least element.
LEMMA LeastElement ==
  ASSUME NEW S \in SUBSET Nat, S # {}
  PROVE  \E x \in S : \A y \in S : x <= y
<1> DEFINE R == OpToRel(<, Nat)
<1>1. IsWellFoundedOn(R, Nat)
  BY NatLessThanWellFounded
<1> HIDE DEF R
<1>2. PICK x \in S : \A y \in S : ~ (<<y, x>> \in R)
  BY <1>1, WFMin
<1>3. ASSUME NEW y \in S, y < x PROVE <<y, x>> \in R
  BY <1>3 DEF R, OpToRel
<1>4. \A y \in S : ~(y < x)
  BY <1>2, <1>3
<1> QED
  BY <1>4

\* A set of indices that has 0, and every index whose predecessor it has, has
\* all of them.
LEMMA EveryIndex ==
  ASSUME NEW n \in Nat, NEW P \in SUBSET (0..n), 0 \in P,
         \A i \in 1..n : i - 1 \in P => i \in P
  PROVE  P = 0..n
<1> DEFINE missing == (0..n) \ P
<1> SUFFICES ASSUME missing # {} PROVE FALSE
  OBVIOUS
<1>1. missing \in SUBSET Nat
  OBVIOUS
<1>2. PICK x \in missing : \A y \in missing : x <= y
  BY <1>1, LeastElement
<1>3. x \in 1..n /\ x - 1 \in 0..n /\ ~(x <= x - 1)
  BY <1>2
<1> QED
  BY <1>2, <1>3

\* S has a function from V to V for each of the n passes of a loop; f is what
\* the loop has after each pass, if it starts with v0.
Passes(S, n, V) == S \in [1..n -> [V -> V]]
Results(f, S, n, V, v0) ==
  f \in [0..n -> V] /\ f[0] = v0 /\ \A i \in 1..n : f[i] = S[i][f[i - 1]]

\* Every loop has results.
LEMMA LoopResult ==
  ASSUME NEW n \in Nat, NEW V, NEW S, Passes(S, n, V), NEW v0 \in V
  PROVE  \E f : Results(f, S, n, V, v0)
<1> USE DEF Passes
<1> DEFINE Upto(m, f) == f \in [0..m -> V] /\ f[0] = v0 /\ \A i \in 1..m : f[i] = S[i][f[i - 1]]
           P == {m \in 0..n : \E f : Upto(m, f)}
<1>1. 0 \in P
  <2>1. Upto(0, [i \in 0..0 |-> v0])
    OBVIOUS
  <2> HIDE DEF Upto
  <2> QED
    BY <2>1
<1>2. ASSUME NEW m \in 1..n, m - 1 \in P PROVE m \in P
  <2>1. PICK f : Upto(m - 1, f)
    BY <1>2
  <2> DEFINE g == [i \in 0..m |-> IF i = m THEN S[m][f[m - 1]] ELSE f[i]]
  <2>2. m - 1 \in 0..(m - 1) /\ S[m][f[m - 1]] \in V
    BY <2>1
  <2>3. g \in [0..m -> V] /\ g[0] = v0
    BY <2>1, <2>2
  <2>4. ASSUME NEW i \in 1..m PROVE g[i] = S[i][g[i - 1]]
    <3>1. CASE i = m
      BY <3>1
    <3>2. CASE i # m
      <4>1. i \in 1..(m - 1) /\ i \in 0..m /\ i - 1 \in 0..m /\ i - 1 # m
        BY <3>2
      <4>2. g[i] = f[i] /\ g[i - 1] = f[i - 1]
        BY <3>2, <4>1
      <4> QED
        BY <2>1, <4>1, <4>2
    <3> QED
      BY <3>1, <3>2
  <2>5. Upto(m, g)
    <3> HIDE DEF g
    <3> QED
      BY <2>3, <2>4
  <2> HIDE DEF Upto, g
  <2> QED
    BY <2>5
<1>3. P = 0..n
  <2>1. P \in SUBSET (0..n)
    OBVIOUS
  <2> HIDE DEF P
  <2> QED
    BY <1>1, <1>2, <2>1, EveryIndex
<1>4. PICK f : Upto(n, f)
  BY <1>3
<1>5. Results(f, S, n, V, v0)
  BY <1>4 DEF Results
<1> QED
  BY <1>5


-----------------------------------------------------------------------------
(* The configuration *)

\* rte_channel_config_def_t.
ChannelDef ==
  [id: Nat, name: STRING, transport: {"FLOW", "POSIX_NETLINK", "DDS"}, role: {"LISTEN", "CONNECT"},
   host: STRING, port: Nat, message_size: Nat, connect_timeout_ms: Nat,
   rcvbuf_bytes: Nat, sndbuf_bytes: Nat]

\* The smallest of a set of places.
LEMMA MinFacts ==
  ASSUME NEW S \in SUBSET Nat, S # {}
  PROVE  Min(S) \in S /\ \A y \in S : Min(S) <= y
  BY LeastElement DEF Min

\* What an optional value is.
LEMMA OrElseFacts ==
  ASSUME NEW found, NEW default, NEW S, found \subseteq S, default \in S
  PROVE  OrElse(found, default) \in S
  BY DEF OrElse

\* What a token holds.
LEMMA TokenFacts ==
  ASSUME NEW t \in Token
  PROVE  (t[1] = "number" => t[2] \in Nat) /\ (t[1] = "word" => t[2] \in STRING)
  BY DEF Token

\* The place of a value is in the text, unless it is past the end.
LEMMA PlaceFacts ==
  ASSUME NEW text \in Seq(Token), NEW from \in Nat \ {0}, NEW to \in Nat, to <= Len(text),
         NEW key, Has(text, from, to, key)
  PROVE  LET at == find_key_value_pos(text, from, to, key)
         IN  at \in Nat \ {0} /\ (at <= to => text[at] \in Token)
<1> DEFINE found == {i \in from..(to - 1) : text[i] = Word(key) /\ text[i + 1] = Colon}
<1>1. found # {} /\ find_key_value_pos(text, from, to, key) = Min(found) + 2
  BY DEF Has, find_key_value_pos
<1>2. found \in SUBSET Nat
  OBVIOUS
<1> HIDE DEF found
<1>3. Min(found) \in Nat
  BY <1>1, <1>2, MinFacts
<1> QED
  BY <1>1, <1>3

\* What the scanner reads is a number or a word.
LEMMA ScannedValue ==
  ASSUME NEW text \in Seq(Token), NEW from \in Nat \ {0}, NEW to \in Nat, to <= Len(text),
         NEW key
  PROVE  /\ Value(text, from, to, key, parse_uint_value) \subseteq Nat
         /\ Value(text, from, to, key, parse_uint32_checked) \subseteq Nat
         /\ Value(text, from, to, key, parse_string_value) \subseteq STRING
<1>1. CASE ~Has(text, from, to, key)
  BY <1>1 DEF Value
<1>2. CASE Has(text, from, to, key)
  <2> DEFINE at == find_key_value_pos(text, from, to, key)
  <2>1. at \in Nat \ {0} /\ (at <= to => text[at] \in Token)
    BY <1>2, PlaceFacts
  <2>2. /\ Value(text, from, to, key, parse_uint_value) = parse_uint_value(text, to, at)
        /\ Value(text, from, to, key, parse_uint32_checked) = parse_uint32_checked(text, to, at)
        /\ Value(text, from, to, key, parse_string_value) = parse_string_value(text, to, at)
    BY <1>2 DEF Value
  <2> HIDE DEF at
  <2>3. parse_uint_value(text, to, at) \subseteq Nat
    BY <2>1, TokenFacts, ConfigAssumption DEF parse_uint_value
  <2>4. parse_uint32_checked(text, to, at) \subseteq Nat
    BY <2>1, TokenFacts DEF parse_uint32_checked
  <2>5. parse_string_value(text, to, at) \subseteq STRING
    BY <2>1, TokenFacts DEF parse_string_value
  <2> QED
    BY <2>2, <2>3, <2>4, <2>5
<1> QED
  BY <1>1, <1>2

\* What parse_channel_object() returns is a channel definition.
LEMMA ScannedChannel ==
  ASSUME NEW text \in Seq(Token), NEW from \in Nat \ {0}, NEW to \in Nat, to <= Len(text)
  PROVE  parse_channel_object(text, from, to) \subseteq ChannelDef
<1> DEFINE num(key) == OrElse(Value(text, from, to, key, parse_uint_value), 0)
           size(key) == parse_optional_channel_u32(text, from, to, key)
           word(key) == OrElse(Value(text, from, to, key, parse_string_value), "")
<1>1. \A key : num(key) \in Nat
  BY ScannedValue, OrElseFacts
<1>2. \A key : size(key) \in Nat
  BY ScannedValue, OrElseFacts DEF parse_optional_channel_u32
<1>3. \A key : word(key) \in STRING
  <2>1. "" \in STRING
    BY NameAssumption
  <2> QED
    BY <2>1, ScannedValue, OrElseFacts
<1>4. Named(text, from, to, "transport", rte_channel_config_transport_from_string, "FLOW")
        \in {"FLOW", "POSIX_NETLINK", "DDS"}
  <2> DEFINE known == UNION {rte_channel_config_transport_from_string(w) :
                              w \in Value(text, from, to, "transport", parse_string_value)}
  <2>1. \A w : rte_channel_config_transport_from_string(w) \subseteq {"FLOW", "POSIX_NETLINK", "DDS"}
    BY DEF rte_channel_config_transport_from_string
  <2>2. known \subseteq {"FLOW", "POSIX_NETLINK", "DDS"}
    BY <2>1
  <2>3. Named(text, from, to, "transport", rte_channel_config_transport_from_string, "FLOW")
          = OrElse(known, "FLOW")
    BY DEF Named
  <2> HIDE DEF known
  <2> QED
    BY <2>2, <2>3 DEF OrElse
<1>5. Named(text, from, to, "role", rte_channel_config_role_from_string, "CONNECT")
        \in {"LISTEN", "CONNECT"}
  <2> DEFINE known == UNION {rte_channel_config_role_from_string(w) :
                              w \in Value(text, from, to, "role", parse_string_value)}
  <2>1. \A w : rte_channel_config_role_from_string(w) \subseteq {"LISTEN", "CONNECT"}
    BY DEF rte_channel_config_role_from_string
  <2>2. known \subseteq {"LISTEN", "CONNECT"}
    BY <2>1
  <2>3. Named(text, from, to, "role", rte_channel_config_role_from_string, "CONNECT")
          = OrElse(known, "CONNECT")
    BY DEF Named
  <2> HIDE DEF known
  <2> QED
    BY <2>2, <2>3 DEF OrElse
<1>6. num("port") % PORT_LIMIT \in Nat
  BY <1>1, ConfigAssumption
<1> HIDE DEF num, size, word
<1>7. \A d \in parse_channel_object(text, from, to) :
        d = [id |-> num("id"), name |-> word("name"),
             transport |-> Named(text, from, to, "transport",
                                 rte_channel_config_transport_from_string, "FLOW"),
             role |-> Named(text, from, to, "role", rte_channel_config_role_from_string, "CONNECT"),
             host |-> word("host"), port |-> num("port") % PORT_LIMIT,
             message_size |-> num("message_size"), connect_timeout_ms |-> num("connect_timeout_ms"),
             rcvbuf_bytes |-> size("rcvbuf_bytes"), sndbuf_bytes |-> size("sndbuf_bytes")]
  BY DEF parse_channel_object, num, size, word
<1> QED
  BY <1>1, <1>2, <1>3, <1>4, <1>5, <1>6, <1>7 DEF ChannelDef

\* One pass of the loop over the channels: the rest of the array with room
\* for one more, from the rests with less room.
Pass(text, to, room, rests) ==
  [p \in 1..(to + 1) |->
     LET braces == {i \in p..to : text[i] = CloseBrace}
         close == Min(braces)
         next == IF close < to /\ text[close + 1] = Comma THEN close + 2 ELSE close + 1 IN
     IF p > to THEN {}
     ELSE IF text[p] = CloseBracket THEN {<<>>}
     ELSE IF room = 0 \/ text[p] # OpenBrace \/ braces = {} THEN {}
     ELSE UNION {{<<c>> \o rest : c \in parse_channel_object(text, p, close - 1)} :
                   rest \in rests[next]}]

\* A pass yields lists of channels, one longer than those it is given.
LEMMA PassFacts ==
  ASSUME NEW text \in Seq(Token), NEW to \in Nat, to <= Len(text), NEW room \in Nat, NEW rests,
         room # 0 => rests \in [1..(to + 1) -> SUBSET Seq(ChannelDef)]
  PROVE  /\ Pass(text, to, room, rests) \in [1..(to + 1) -> SUBSET Seq(ChannelDef)]
         /\ \A k \in Nat :
              (room # 0 => \A p \in 1..(to + 1) : \A s \in rests[p] : Len(s) <= k) =>
                \A p \in 1..(to + 1) : \A s \in Pass(text, to, room, rests)[p] :
                  Len(s) <= IF room = 0 THEN 0 ELSE k + 1
<1> DEFINE braces(p) == {i \in p..to : text[i] = CloseBrace}
           close(p) == Min(braces(p))
           next(p) == IF close(p) < to /\ text[close(p) + 1] = Comma THEN close(p) + 2 ELSE close(p) + 1
           more(p) == UNION {{<<c>> \o rest : c \in parse_channel_object(text, p, close(p) - 1)} :
                               rest \in rests[next(p)]}
<1>1. ASSUME NEW p \in 1..(to + 1)
      PROVE  \/ Pass(text, to, room, rests)[p] \in {{}, {<<>>}}
             \/ /\ room # 0 /\ braces(p) # {}
                /\ Pass(text, to, room, rests)[p] = more(p)
  <2>1. Pass(text, to, room, rests)[p] =
          IF p > to THEN {}
          ELSE IF text[p] = CloseBracket THEN {<<>>}
          ELSE IF room = 0 \/ text[p] # OpenBrace \/ braces(p) = {} THEN {}
          ELSE more(p)
    BY DEF Pass
  <2> HIDE DEF braces, more
  <2> QED
    BY <2>1
<1>2. ASSUME NEW p \in 1..(to + 1), room # 0, braces(p) # {}
      PROVE  \A s \in more(p) :
               \E c \in ChannelDef, rest \in Seq(ChannelDef) :
                 /\ rest \in rests[next(p)] /\ s = <<c>> \o rest
                 /\ next(p) \in 1..(to + 1)
  <2>1. braces(p) \in SUBSET Nat
    OBVIOUS
  <2>2. \A i \in braces(p) : i \in p..to
    OBVIOUS
  <2> HIDE DEF braces
  <2>3. close(p) \in p..to
    BY <1>2, <2>1, <2>2, MinFacts
  <2> HIDE DEF close
  <2>4. next(p) \in 1..(to + 1)
    BY <2>3
  <2>5. parse_channel_object(text, p, close(p) - 1) \subseteq ChannelDef
    <3>1. p \in Nat \ {0} /\ close(p) - 1 \in Nat /\ close(p) - 1 <= Len(text)
      BY <2>3
    <3> QED
      BY <3>1, ScannedChannel
  <2> HIDE DEF next
  <2>6. rests[next(p)] \subseteq Seq(ChannelDef)
    BY <1>2, <2>4
  <2> DEFINE C == parse_channel_object(text, p, close(p) - 1)
             R == rests[next(p)]
  <2>7. more(p) = UNION {{<<c>> \o rest : c \in C} : rest \in R}
    OBVIOUS
  <2> HIDE DEF C, R, more
  <2>8. C \subseteq ChannelDef /\ R \subseteq Seq(ChannelDef)
    BY <2>5, <2>6 DEF C, R
  <2>9. \A s \in more(p) : \E c \in ChannelDef, rest \in Seq(ChannelDef) :
                             rest \in R /\ s = <<c>> \o rest
    <3> SUFFICES ASSUME NEW s \in more(p)
                 PROVE  \E c \in ChannelDef, rest \in Seq(ChannelDef) :
                          rest \in R /\ s = <<c>> \o rest
      OBVIOUS
    <3>1. PICK c \in C, rest \in R : s = <<c>> \o rest
      BY <2>7
    <3> QED
      BY <2>8, <3>1
  <2> QED
    BY <2>4, <2>9 DEF R
<1> HIDE DEF braces, close, next, more
<1>3. ASSUME NEW p \in 1..(to + 1) PROVE Pass(text, to, room, rests)[p] \in SUBSET Seq(ChannelDef)
  <2>1. CASE Pass(text, to, room, rests)[p] \in {{}, {<<>>}}
    <3>1. <<>> \in Seq(ChannelDef)
      OBVIOUS
    <3> QED
      BY <2>1, <3>1
  <2>2. CASE room # 0 /\ braces(p) # {} /\ Pass(text, to, room, rests)[p] = more(p)
    <3>1. ASSUME NEW s \in more(p) PROVE s \in Seq(ChannelDef)
      <4>1. PICK c \in ChannelDef, rest \in Seq(ChannelDef) :
                   /\ rest \in rests[next(p)] /\ s = <<c>> \o rest
                   /\ next(p) \in 1..(to + 1)
        BY <1>2, <2>2
      <4>2. <<c>> \in Seq(ChannelDef)
        OBVIOUS
      <4> QED
        BY <4>1, <4>2
    <3> QED
      BY <2>2, <3>1
  <2> QED
    BY <1>1, <2>1, <2>2
<1>4. ASSUME NEW k \in Nat,
             room # 0 => \A p \in 1..(to + 1) : \A s \in rests[p] : Len(s) <= k,
             NEW p \in 1..(to + 1), NEW s \in Pass(text, to, room, rests)[p]
      PROVE  Len(s) <= IF room = 0 THEN 0 ELSE k + 1
  <2>1. CASE Pass(text, to, room, rests)[p] \in {{}, {<<>>}}
    BY <2>1
  <2>2. CASE room # 0 /\ braces(p) # {} /\ Pass(text, to, room, rests)[p] = more(p)
    <3>1. PICK c \in ChannelDef, rest \in Seq(ChannelDef) :
                 /\ rest \in rests[next(p)] /\ s = <<c>> \o rest
                 /\ next(p) \in 1..(to + 1)
      BY <1>2, <2>2
    <3>2. Len(rest) <= k
      BY <1>4, <2>2, <3>1
    <3>3. Len(s) = Len(rest) + 1
      BY <3>1
    <3> QED
      BY <2>2, <3>2, <3>3
  <2> QED
    BY <1>1, <2>1, <2>2
<1>5. Pass(text, to, room, rests) \in [1..(to + 1) -> SUBSET Seq(ChannelDef)]
  <2>1. Pass(text, to, room, rests) = [p \in 1..(to + 1) |-> Pass(text, to, room, rests)[p]]
    BY DEF Pass
  <2> QED
    BY <1>3, <2>1
<1> QED
  BY <1>4, <1>5

\* With no room left nothing is passed on.
LEMMA LastPass ==
  ASSUME NEW text, NEW to, NEW r, NEW q
  PROVE  Pass(text, to, 0, r) = Pass(text, to, 0, q)
  BY DEF Pass

\* The lists of channels that parse_channels_array() returns fit the table.
LEMMA ScannedChannels ==
  ASSUME NEW text \in Seq(Token), NEW to \in Nat, to <= Len(text), NEW at \in Nat \ {0}
  PROVE  \A s \in parse_channels_array(text, to, at) :
           s \in Seq(ChannelDef) /\ Len(s) <= MAX_CHANNELS
<1> DEFINE n == MAX_CHANNELS
           V == [1..(to + 1) -> SUBSET Seq(ChannelDef)]
           S == [k \in 1..n |-> [r \in V |-> Pass(text, to, k, r)]]
           v0 == Pass(text, to, 0, 0)
           objects == CHOOSE f : f = [k \in 0..n |-> Pass(text, to, k, f[k - 1])]
<1>1. n \in Nat
  BY ConfigAssumption
<1> HIDE DEF n
<1>2. objects = [k \in 0..n |-> Pass(text, to, k, objects[k - 1])]
  <2>1. v0 \in V
    <3>1. 0 \in Nat /\ ~(0 # 0)
      OBVIOUS
    <3> QED
      BY <3>1, PassFacts
  <2>2. ASSUME NEW k \in 1..n, NEW r \in V PROVE Pass(text, to, k, r) \in V
    <3>1. k \in Nat /\ k # 0
      OBVIOUS
    <3> QED
      BY <3>1, PassFacts
  <2> HIDE DEF V, v0
  <2>3. Passes(S, n, V)
    BY <2>2 DEF Passes
  <2>4. PICK f : Results(f, S, n, V, v0)
    <3> HIDE DEF S
    <3> QED
      BY <1>1, <2>1, <2>3, LoopResult
  <2>5. ASSUME NEW k \in 0..n PROVE f[k] = Pass(text, to, k, f[k - 1])
    <3>1. CASE k = 0
      BY <2>4, <3>1, LastPass DEF v0, Results
    <3>2. CASE k # 0
      <4>1. k \in 1..n /\ f[k - 1] \in V
        BY <1>1, <2>4, <3>2 DEF Results
      <4> QED
        BY <2>4, <4>1 DEF Results
    <3> QED
      BY <3>1, <3>2
  <2>6. f = [k \in 0..n |-> Pass(text, to, k, f[k - 1])]
    BY <2>4, <2>5 DEF Results
  <2> QED
    BY <2>6
<1> HIDE DEF objects
<1> DEFINE Fits(k) == /\ objects[k] \in V
                      /\ \A p \in 1..(to + 1) : \A s \in objects[k][p] : Len(s) <= k
           P == {k \in 0..n : Fits(k)}
<1>3. 0 \in P
  <2>1. objects[0] = Pass(text, to, 0, objects[0 - 1])
    BY <1>1, <1>2
  <2>2. Fits(0)
    <3> DEFINE none == 0
    <3>1. none \in Nat /\ none = 0
      OBVIOUS
    <3> HIDE DEF none
    <3>2. objects[none] = Pass(text, to, none, objects[none - 1])
      BY <2>1, <3>1
    <3>3. objects[none] \in V
      BY <3>1, <3>2, PassFacts
    <3>4. \A p \in 1..(to + 1) : \A s \in objects[none][p] : Len(s) <= 0
      BY <3>1, <3>2, PassFacts
    <3> QED
      BY <3>1, <3>3, <3>4
  <2> QED
    BY <1>1, <2>2
<1>4. ASSUME NEW k \in 1..n, k - 1 \in P PROVE k \in P
  <2>1. objects[k] = Pass(text, to, k, objects[k - 1])
    BY <1>1, <1>2
  <2>2. k \in Nat /\ k # 0 /\ k - 1 \in Nat /\ (k - 1) + 1 = k /\ k \in 0..n
    BY <1>1
  <2>3. Fits(k - 1)
    BY <1>4
  <2>4. objects[k] \in V
    <3>1. Pass(text, to, k, objects[k - 1]) \in V
      BY <2>2, <2>3, PassFacts
    <3> QED
      BY <2>1, <3>1
  <2>5. \A p \in 1..(to + 1) : \A s \in objects[k][p] : Len(s) <= (k - 1) + 1
    <3>1. (k # 0 => \A p \in 1..(to + 1) : \A s \in objects[k - 1][p] : Len(s) <= k - 1) =>
            \A p \in 1..(to + 1) : \A s \in Pass(text, to, k, objects[k - 1])[p] :
              Len(s) <= IF k = 0 THEN 0 ELSE (k - 1) + 1
      BY <2>2, <2>3, PassFacts
    <3> QED
      BY <2>1, <2>2, <2>3, <3>1
  <2>6. Fits(k)
    BY <2>2, <2>4, <2>5
  <2> QED
    BY <2>2, <2>6
<1>5. n \in P
  <2>1. P \in SUBSET (0..n)
    OBVIOUS
  <2> HIDE DEF P
  <2>2. P = 0..n
    BY <1>1, <1>3, <1>4, <2>1, EveryIndex
  <2> QED
    BY <1>1, <2>2
<1>6. parse_channels_array(text, to, at)
        = IF at <= to /\ text[at] = OpenBracket THEN objects[n][at + 1] ELSE {}
  BY Zenon DEF parse_channels_array, Pass, objects, n
<1>7. objects[n] \in V /\ \A p \in 1..(to + 1) : \A s \in objects[n][p] : Len(s) <= n
  BY <1>5
<1>8. ASSUME NEW s \in parse_channels_array(text, to, at)
      PROVE  s \in Seq(ChannelDef) /\ Len(s) <= n
  <2>1. at + 1 \in 1..(to + 1) /\ s \in objects[n][at + 1]
    BY <1>6, <1>8
  <2>2. objects[n][at + 1] \in SUBSET Seq(ChannelDef)
    BY <1>7, <2>1
  <2> QED
    BY <1>7, <2>1, <2>2
<1> QED
  BY <1>8 DEF n

\* A list of roles is as long as the words that were counted.
LEMMA ScannedRoles ==
  ASSUME NEW text, NEW to, NEW at, NEW s \in parse_string_array(text, to, at)
  PROVE  Len(s) <= MAX_REPLICAS
<1> DEFINE ends == {i \in at..to : text[i] = CloseBracket}
           words == SelectSeq(SubSeq(text, at + 1, Min(ends) - 1), LAMBDA t : t # Comma)
<1>1. s = [i \in 1..Len(words) |-> words[i][2]] /\ Len(words) <= MAX_REPLICAS
  BY DEF parse_string_array
<1> HIDE DEF words
<1>2. Len(words) \in Nat
  OBVIOUS
<1> QED
  BY <1>1, <1>2

\* What a consumer of a configuration relies on.
Sound(c) ==
  /\ c.replica_count \in 1..MAX_REPLICAS
  /\ c.quorum_size \in 1..c.replica_count
  /\ Len(c.roles) <= MAX_REPLICAS
  /\ c.channels \in Seq(ChannelDef) /\ Len(c.channels) <= MAX_CHANNELS

\* Whatever the text, what the parser accepts is sound.
LEMMA ParsedIsSound ==
  ASSUME NEW text \in Seq(Token), NEW c \in parse(text)
  PROVE  Sound(c)
<1> DEFINE to == Len(text)
           Top(key, Parse(_, _, _)) == Value(text, 1, to, key, Parse)
           topology == UNION {topology_from_string(w) : w \in Top("topology", parse_string_value)}
           replicas == {n \in Top("replicas", parse_uint_value) : n \in 1..MAX_REPLICAS}
           quorum == IF Has(text, 1, to, "quorum") THEN Top("quorum", parse_uint_value)
                     ELSE UNION {UNION {default_quorum(t, n) : t \in topology} : n \in replicas}
           roles == IF Has(text, 1, to, "roles") THEN Top("roles", parse_string_array) ELSE {<<>>}
           channels == IF Has(text, 1, to, "channels") THEN Top("channels", parse_channels_array)
                       ELSE {<<>>}
<1>1. /\ c.replica_count \in replicas /\ c.quorum_size \in quorum
      /\ c.roles \in roles /\ c.channels \in channels
      /\ quorum_in_range(c.quorum_size, c.replica_count)
  BY DEF parse
<1>2. to \in Nat /\ to <= Len(text) /\ 1 \in Nat \ {0} /\ MAX_REPLICAS \in Nat
      /\ MAX_CHANNELS \in Nat
  BY ConfigAssumption
<1>3. quorum \subseteq Nat
  <2>1. Top("quorum", parse_uint_value) \subseteq Nat
    BY <1>2, ScannedValue
  <2>2. \A t, n : default_quorum(t, n) \subseteq Nat
    BY DEF default_quorum
  <2> QED
    BY <2>1, <2>2
<1>4. c.replica_count \in 1..MAX_REPLICAS
  BY <1>1
<1>5. c.quorum_size \in 1..c.replica_count
  <2> HIDE DEF quorum, replicas, roles, channels, to
  <2>1. c.quorum_size \in Nat /\ c.replica_count \in Nat
    <3>1. c.quorum_size \in quorum
      BY <1>1
    <3>2. c.replica_count \in 1..MAX_REPLICAS
      BY <1>4
    <3>3. c.quorum_size \in Nat
      BY <1>3, <3>1, Zenon
    <3>4. c.replica_count \in Nat
      BY <1>2, <3>2
    <3> QED
      BY <3>3, <3>4
  <2>2. c.quorum_size >= 1 /\ c.quorum_size <= c.replica_count
    BY <1>1 DEF quorum_in_range
  <2> QED
    BY <2>1, <2>2
<1>6. Len(c.roles) <= MAX_REPLICAS
  <2>1. CASE Has(text, 1, to, "roles")
    BY <1>1, <2>1, ScannedRoles DEF Value
  <2>2. CASE ~Has(text, 1, to, "roles")
    <3>1. c.roles = <<>>
      BY <1>1, <2>2
    <3> QED
      BY <1>2, <3>1
  <2> QED
    BY <2>1, <2>2
<1>7. c.channels \in Seq(ChannelDef) /\ Len(c.channels) <= MAX_CHANNELS
  <2>1. CASE Has(text, 1, to, "channels")
    <3> DEFINE at == find_key_value_pos(text, 1, to, "channels")
    <3>1. at \in Nat \ {0}
      BY <1>2, <2>1, PlaceFacts
    <3>2. c.channels \in parse_channels_array(text, to, at)
      BY <1>1, <2>1 DEF Value
    <3> HIDE DEF at
    <3> QED
      BY <1>2, <3>1, <3>2, ScannedChannels
  <2>2. CASE ~Has(text, 1, to, "channels")
    <3>1. c.channels = <<>>
      BY <1>1, <2>2
    <3> QED
      BY <1>2, <3>1
  <2> QED
    BY <2>1, <2>2
<1> QED
  BY <1>4, <1>5, <1>6, <1>7 DEF Sound

\* The inductive invariant of the configuration.
ConfigInv ==
  /\ \A c \in active \cup out : Sound(c)
  /\ \A c, d \in active : c = d
  /\ \A c, d \in out : c = d

\* Nothing is loaded at first.
LEMMA ConfigInitInv == ConfigInit => ConfigInv
  BY DEF ConfigInit, ConfigInv

\* Loading, setting and clearing keep a configuration that was accepted.
LEMMA ConfigStepInv == ConfigInv /\ [ConfigNext]_config => ConfigInv'
<1> SUFFICES ASSUME ConfigInv, [ConfigNext]_config PROVE ConfigInv'
  OBVIOUS
<1>1. ASSUME NEW doc \in DOCUMENTS, rte_redundancy_config_load(doc) PROVE ConfigInv'
  <2>1. PICK c \in Parsed[doc] : active' = {c} /\ out' = {c}
    BY <1>1 DEF rte_redundancy_config_load
  <2>2. c \in parse(Written(doc)) /\ Written(doc) \in Seq(Token)
    BY <2>1, ConfigAssumption DEF Parsed
  <2>3. Sound(c)
    BY <2>2, ParsedIsSound
  <2> QED
    BY <2>1, <2>3 DEF ConfigInv
<1>2. ASSUME NEW c \in {{}, out}, rte_redundancy_config_set_active(c) PROVE ConfigInv'
  BY <1>2 DEF rte_redundancy_config_set_active, ConfigInv
<1>3. ASSUME NEW fn \in BOOLEAN, rte_redundancy_config_register_capability(fn) PROVE ConfigInv'
  BY <1>3 DEF rte_redundancy_config_register_capability, ConfigInv
<1>4. CASE UNCHANGED config
  BY <1>4 DEF config, ConfigInv
<1> QED
  BY <1>1, <1>2, <1>3, <1>4 DEF ConfigNext
-----------------------------------------------------------------------------
(* The channel service.  An open flow that is not lost is the storage's;   *)
(* for that the storage's handle must name a flow while it is opened.      *)

\* The fields of a flow and of the channel's storage.
FlowFields == {"open", "lost", "name", "role"}
StorageFields == {"resolved", "opened", "name", "role"}

\* The names and roles come out of the configuration: only the fields matter.
ServiceRecords ==
  /\ DOMAIN flows = Flows /\ \A i \in Flows : DOMAIN flows[i] = FlowFields
  /\ DOMAIN storage = StorageFields

\* The inductive invariant of the channel service.
ServiceInv ==
  /\ ServiceRecords /\ FlowsAreHeld
  /\ storage.opened \in BOOLEAN
  /\ storage.opened => flow_handle \in Flows

\* No storage is set up and no flow is open.
LEMMA ServiceInitInv == ServiceInit => ServiceInv
<1> SUFFICES ASSUME ServiceInit PROVE ServiceInv
  OBVIOUS
<1>1. /\ NoFlow.open = FALSE /\ DOMAIN NoFlow = FlowFields
      /\ Unset.opened = FALSE /\ DOMAIN Unset = StorageFields
  BY DEF NoFlow, Unset, FlowFields, StorageFields
<1>2. storage = Unset /\ flows = [i \in Flows |-> NoFlow]
  BY DEF ServiceInit
<1> QED
  BY <1>1, <1>2 DEF ServiceInv, ServiceRecords, FlowsAreHeld

\* Giving up the storage's flow, closed or lost, leaves no flow held.
LEMMA FlowGivenUp ==
  ASSUME ServiceInv, storage.opened,
         \/ flows' = [flows EXCEPT ![flow_handle] = NoFlow]
         \/ flows' = [flows EXCEPT ![flow_handle].lost = TRUE]
  PROVE  /\ DOMAIN flows' = Flows /\ \A i \in Flows : DOMAIN flows'[i] = FlowFields
         /\ \A i \in Flows : ~(flows'[i].open /\ ~flows'[i].lost)
<1>1. flow_handle \in Flows /\ ServiceRecords
  BY DEF ServiceInv
<1>2. \A i \in Flows \ {flow_handle} : flows'[i] = flows[i] /\ ~(flows[i].open /\ ~flows[i].lost)
  BY <1>1 DEF ServiceInv, ServiceRecords, FlowsAreHeld
<1>3. /\ DOMAIN flows' = Flows
      /\ DOMAIN flows'[flow_handle] = FlowFields
      /\ flows'[flow_handle] = NoFlow \/ flows'[flow_handle].lost = TRUE
  BY <1>1 DEF ServiceRecords, NoFlow, FlowFields
<1>4. ~(flows'[flow_handle].open /\ ~flows'[flow_handle].lost)
  <2>1. CASE flows'[flow_handle] = NoFlow
    <3>1. NoFlow.open = FALSE
      BY DEF NoFlow
    <3> QED
      BY <2>1, <3>1
  <2>2. CASE flows'[flow_handle].lost = TRUE
    BY <2>2
  <2> QED
    BY <1>3, <2>1, <2>2
<1> QED
  BY <1>1, <1>2, <1>3, <1>4 DEF ServiceRecords

\* Without an opened storage no flow is held.
LEMMA NothingHeld ==
  ASSUME ServiceInv, ~storage.opened
  PROVE  \A i \in Flows : ~(flows[i].open /\ ~flows[i].lost)
  BY DEF ServiceInv, FlowsAreHeld

\* osadapter_setup() leaves a storage that holds nothing.
LEMMA SetupInv ==
  ASSUME ServiceInv, NEW name, osadapter_setup(name)
  PROVE  ServiceInv'
<1>1. DOMAIN storage' = StorageFields /\ storage'.opened = FALSE
  <2>1. CASE resolve(name) = {}
    BY <2>1 DEF osadapter_setup, Unset, StorageFields
  <2>2. CASE resolve(name) # {}
    <3>1. storage' = [resolved |-> TRUE, opened |-> FALSE, name |-> name,
                      role |-> OrElse(resolve(name), "CONNECT")]
      BY <2>2 DEF osadapter_setup
    <3> QED
      BY <3>1 DEF StorageFields
  <2> QED
    BY <2>1, <2>2
<1>2. /\ DOMAIN flows' = Flows /\ \A i \in Flows : DOMAIN flows'[i] = FlowFields
      /\ \A i \in Flows : ~(flows'[i].open /\ ~flows'[i].lost)
  <2>1. CASE storage.opened
    BY <2>1, FlowGivenUp DEF osadapter_setup
  <2>2. CASE ~storage.opened
    BY <2>2, NothingHeld DEF osadapter_setup, ServiceInv, ServiceRecords
  <2> QED
    BY <2>1, <2>2
<1> QED
  BY <1>1, <1>2 DEF ServiceInv, ServiceRecords, FlowsAreHeld

\* Every operation of the service, with whatever configuration, preserves it.
LEMMA ServiceStepInv == ServiceInv /\ [ServiceNext]_service => ServiceInv'
<1> SUFFICES ASSUME ServiceInv, [ServiceNext]_service PROVE ServiceInv'
  OBVIOUS
<1>0. ASSUME UNCHANGED <<storage, flows, flow_handle>> PROVE ServiceInv'
  BY <1>0 DEF ServiceInv, ServiceRecords, FlowsAreHeld
<1>1. ASSUME \/ rte_osadapter_channel_service_register \/ flow_osadapter_register_resolver
             \/ service_locked \/ UNCHANGED service
      PROVE  ServiceInv'
  BY <1>0, <1>1 DEF rte_osadapter_channel_service_register, flow_osadapter_register_resolver,
     service_locked, service
<1>2. ASSUME NEW name, rte_channel_service_setup(name) PROVE ServiceInv'
  BY <1>2, SetupInv DEF rte_channel_service_setup
<1>3. ASSUME NEW id \in IDS, rte_channel_service_setup_by_id(id) PROVE ServiceInv'
  BY <1>3, SetupInv DEF rte_channel_service_setup_by_id
<1>4. ASSUME ReadOrSend PROVE ServiceInv'
  <2>1. CASE UNCHANGED <<storage, flows, flow_handle>>
    BY <1>0, <2>1
  <2>2. ASSUME ~storage.opened, NEW i \in Flows,
               flows' = [flows EXCEPT ![i] = [open |-> TRUE, lost |-> FALSE,
                                             name |-> storage.name, role |-> storage.role]],
               flow_handle' = i, storage' = [storage EXCEPT !.opened = TRUE]
        PROVE  ServiceInv'
    <3>1. DOMAIN storage' = StorageFields /\ storage'.opened = TRUE
      BY <2>2 DEF ServiceInv, ServiceRecords, StorageFields
    <3>2. DOMAIN flows' = Flows /\ \A j \in Flows : DOMAIN flows'[j] = FlowFields
      BY <2>2 DEF ServiceInv, ServiceRecords, FlowFields
    <3>3. \A j \in Flows \ {i} : flows'[j] = flows[j] /\ ~(flows[j].open /\ ~flows[j].lost)
      BY <2>2, NothingHeld DEF ServiceInv, ServiceRecords
    <3> QED
      BY <2>2, <3>1, <3>2, <3>3 DEF ServiceInv, ServiceRecords, FlowsAreHeld
  <2> QED
    BY <1>4, <2>1, <2>2 DEF ReadOrSend, ensure_open
<1>5. ASSUME rte_channel_service_close PROVE ServiceInv'
  <2>1. DOMAIN storage' = StorageFields /\ storage'.opened = FALSE
    BY <1>5 DEF rte_channel_service_close, osadapter_close, ServiceInv, ServiceRecords,
       StorageFields
  <2>2. /\ DOMAIN flows' = Flows /\ \A i \in Flows : DOMAIN flows'[i] = FlowFields
        /\ \A i \in Flows : ~(flows'[i].open /\ ~flows'[i].lost)
    <3>1. CASE storage.opened
      BY <1>5, <3>1, FlowGivenUp DEF rte_channel_service_close, osadapter_close
    <3>2. CASE ~storage.opened
      BY <1>5, <3>2, NothingHeld DEF rte_channel_service_close, osadapter_close, ServiceInv,
         ServiceRecords
    <3> QED
      BY <3>1, <3>2
  <2> QED
    BY <2>1, <2>2 DEF ServiceInv, ServiceRecords, FlowsAreHeld
<1> QED
  BY <1>1, <1>2, <1>3, <1>4, <1>5 DEF ServiceNext

-----------------------------------------------------------------------------
(* The channel a storage stands for.  Between its setup and the open of    *)
(* its flow only the name and the role in the storage remain of the        *)
(* configuration, which may be replaced meanwhile.                         *)

\* The inductive invariant: the types, the flow has what the storage has, and
\* the storage has what was asked for.
ReachInv ==
  /\ ChannelsTypeOK
  /\ storage.opened =>
       flows[flow_handle].name = storage.name /\ flows[flow_handle].role = storage.role
  /\ storage.resolved /\ asked_for # {} =>
       \E d \in asked_for : storage.name = d.name /\ storage.role = d.role

\* The searches return a channel of the configuration that passes the test, if
\* there is one.
LEMMA FoundChannel ==
  ASSUME NEW c, Sound(c), NEW x
  PROVE  /\ \A d \in find_channel_by_name(c, x) :
              \E i \in 1..Len(c.channels) : d = c.channels[i] /\ d.name = x /\ d \in ChannelDef
         /\ \A i \in 1..Len(c.channels) :
              c.channels[i].name = x => find_channel_by_name(c, x) # {}
         /\ \A d \in find_channel_by_id(c, x) :
              \E i \in 1..Len(c.channels) : d = c.channels[i] /\ d.id = x /\ d \in ChannelDef
<1> DEFINE named == {i \in 1..Len(c.channels) : c.channels[i].name = x}
           ids == {i \in 1..Len(c.channels) : c.channels[i].id = x}
<1>1. c.channels \in Seq(ChannelDef)
  BY DEF Sound
<1>2. find_channel_by_name(c, x) = IF named = {} THEN {} ELSE {c.channels[Min(named)]}
  BY DEF find_channel_by_name, First
<1>3. find_channel_by_id(c, x) = IF ids = {} THEN {} ELSE {c.channels[Min(ids)]}
  BY DEF find_channel_by_id, First
<1>4. named \in SUBSET Nat /\ ids \in SUBSET Nat
  OBVIOUS
<1>5. /\ \A i \in named : i \in 1..Len(c.channels) /\ c.channels[i].name = x
      /\ \A i \in ids : i \in 1..Len(c.channels) /\ c.channels[i].id = x
      /\ \A i \in 1..Len(c.channels) : c.channels[i].name = x => i \in named
  OBVIOUS
<1> HIDE DEF named, ids
<1>6. (named # {} => Min(named) \in named) /\ (ids # {} => Min(ids) \in ids)
  BY <1>4, MinFacts
<1>7. \A i \in 1..Len(c.channels) : c.channels[i] \in ChannelDef
  BY <1>1
<1> QED
  BY <1>2, <1>3, <1>5, <1>6, <1>7

\* The role a name resolves to is one of the two.
LEMMA ResolvedRole ==
  ASSUME ConfigInv, NEW name
  PROVE  resolve(name) \subseteq {"LISTEN", "CONNECT"}
<1>1. CASE resolver
  BY <1>1, ServiceAssumption DEF resolve
<1>2. CASE ~resolver
  <2>1. ASSUME NEW c \in active, NEW d \in find_channel_by_name(c, name)
        PROVE  d.role \in {"LISTEN", "CONNECT"}
    <3>1. d \in ChannelDef
      BY <2>1, FoundChannel DEF ConfigInv
    <3> QED
      BY <3>1 DEF ChannelDef
  <2>2. resolve(name) = UNION {{d.role : d \in find_channel_by_name(c, name)} : c \in active}
    BY <1>2 DEF resolve
  <2> QED
    BY <2>1, <2>2
<1> QED
  BY <1>1, <1>2

\* A storage that is set up has the name it was given and the role found.
LEMMA SetupStorage ==
  ASSUME ConfigInv, NEW name \in STRING, osadapter_setup(name)
  PROVE  /\ storage' \in [resolved: BOOLEAN, opened: BOOLEAN, name: STRING,
                           role: {"LISTEN", "CONNECT"}]
         /\ storage'.opened = FALSE /\ flow_handle' = 0
         /\ storage'.resolved =>
              /\ storage'.name = name /\ storage'.role \in resolve(name)
<1>1. flow_handle' = 0
  BY DEF osadapter_setup
<1>2. CASE resolve(name) = {}
  <2>1. storage' = Unset
    BY <1>2 DEF osadapter_setup
  <2>2. /\ Unset \in [resolved: BOOLEAN, opened: BOOLEAN, name: STRING,
                       role: {"LISTEN", "CONNECT"}]
        /\ Unset.opened = FALSE /\ Unset.resolved = FALSE
    BY NameAssumption DEF Unset
  <2> QED
    BY <1>1, <2>1, <2>2
<1>3. CASE resolve(name) # {}
  <2> DEFINE role == OrElse(resolve(name), "CONNECT")
  <2>1. storage' = [resolved |-> TRUE, opened |-> FALSE, name |-> name, role |-> role]
    BY <1>3 DEF osadapter_setup
  <2>2. role \in resolve(name)
    BY <1>3 DEF OrElse
  <2>3. role \in {"LISTEN", "CONNECT"}
    BY <2>2, ResolvedRole
  <2> HIDE DEF role
  <2> QED
    BY <1>1, <2>1, <2>2, <2>3
<1> QED
  BY <1>2, <1>3

\* Set up by id, a storage has the name and the role of a channel asked for.
LEMMA SetupById ==
  ASSUME ConfigInv, NEW id, rte_channel_service_setup_by_id(id)
  PROVE  /\ \E name \in STRING : osadapter_setup(name)
         /\ storage'.resolved /\ asked_for' # {} =>
              \E d \in asked_for' : storage'.name = d.name /\ storage'.role = d.role
<1>1. PICK c \in active : \E d \in find_channel_by_id(c, id) :
        /\ osadapter_setup(d.name)
        /\ asked_for' = IF resolver THEN {}
                        ELSE {e \in ToSet(c.channels) : UniqueNames(c) /\ e.id = id}
  BY DEF rte_channel_service_setup_by_id
<1>2. PICK d \in find_channel_by_id(c, id) :
        /\ osadapter_setup(d.name)
        /\ asked_for' = IF resolver THEN {}
                        ELSE {e \in ToSet(c.channels) : UniqueNames(c) /\ e.id = id}
  BY <1>1
<1>3. Sound(c) /\ c.channels \in Seq(ChannelDef) /\ \A e \in active : e = c
  BY DEF ConfigInv, Sound
<1>4. PICK i \in 1..Len(c.channels) : d = c.channels[i] /\ d.id = id /\ d \in ChannelDef
  BY <1>3, FoundChannel
<1>5. d.name \in STRING
  BY <1>4 DEF ChannelDef
<1>6. ASSUME storage'.resolved, asked_for' # {}
      PROVE  \E e \in asked_for' : storage'.name = e.name /\ storage'.role = e.role
  <2>1. ~resolver /\ UniqueNames(c)
    BY <1>2, <1>6
  <2>2. d \in asked_for'
    <3>1. d \in ToSet(c.channels)
      BY <1>3, <1>4 DEF ToSet
    <3> QED
      BY <1>2, <1>4, <2>1, <3>1
  <2>3. storage'.name = d.name /\ storage'.role \in resolve(d.name)
    BY <1>2, <1>5, <1>6, SetupStorage
  <2>4. PICK e \in find_channel_by_name(c, d.name) : storage'.role = e.role
    <3>1. resolve(d.name) = UNION {{e.role : e \in find_channel_by_name(b, d.name)} : b \in active}
      BY <2>1 DEF resolve
    <3> QED
      BY <1>3, <2>3, <3>1
  <2>5. PICK j \in 1..Len(c.channels) : e = c.channels[j] /\ e.name = d.name
    BY <1>3, FoundChannel
  <2>6. e = d
    BY <1>4, <2>1, <2>5 DEF UniqueNames
  <2> QED
    BY <2>2, <2>3, <2>4, <2>6
<1> QED
  BY <1>2, <1>5, <1>6

\* Nothing is asked for at first.
LEMMA ReachInitInv == ServiceInit => ReachInv
<1> SUFFICES ASSUME ServiceInit PROVE ReachInv
  OBVIOUS
<1>1. storage = Unset /\ flow_handle = 0
  BY DEF ServiceInit
<1>2. /\ Unset \in [resolved: BOOLEAN, opened: BOOLEAN, name: STRING, role: {"LISTEN", "CONNECT"}]
      /\ Unset.opened = FALSE /\ Unset.resolved = FALSE
  BY NameAssumption DEF Unset
<1> QED
  BY <1>1, <1>2 DEF ReachInv, ChannelsTypeOK

\* Every operation of the service preserves it.
LEMMA ReachStepInv ==
  ServiceInv /\ ConfigInv /\ ReachInv /\ [ServiceNext]_service => ReachInv'
<1> SUFFICES ASSUME ServiceInv, ConfigInv, ReachInv, [ServiceNext]_service PROVE ReachInv'
  OBVIOUS
<1> DEFINE Storages == [resolved: BOOLEAN, opened: BOOLEAN, name: STRING, role: {"LISTEN", "CONNECT"}]
<1>0. ASSUME UNCHANGED <<storage, flows, flow_handle, asked_for>> PROVE ReachInv'
  BY <1>0 DEF ReachInv, ChannelsTypeOK
<1>1. ASSUME \/ rte_osadapter_channel_service_register \/ flow_osadapter_register_resolver
             \/ service_locked \/ UNCHANGED service
      PROVE  ReachInv'
  BY <1>0, <1>1 DEF rte_osadapter_channel_service_register, flow_osadapter_register_resolver,
     service_locked, service
<1>2. ASSUME NEW name \in {d.name : d \in UNION {ToSet(c.channels) : c \in active}},
             rte_channel_service_setup(name)
      PROVE  ReachInv'
  <2>1. name \in STRING
    <3>1. PICK c \in active : \E d \in ToSet(c.channels) : name = d.name
      BY <1>2
    <3>2. PICK d \in ToSet(c.channels) : name = d.name
      BY <3>1
    <3>3. c.channels \in Seq(ChannelDef)
      BY DEF ConfigInv, Sound
    <3>4. d \in ChannelDef
      BY <3>3 DEF ToSet
    <3> QED
      BY <3>2, <3>4 DEF ChannelDef
  <2>2. storage' \in Storages /\ storage'.opened = FALSE /\ flow_handle' = 0 /\ asked_for' = {}
    BY <1>2, <2>1, SetupStorage DEF rte_channel_service_setup
  <2> QED
    BY <2>2 DEF ReachInv, ChannelsTypeOK
<1>3. ASSUME NEW id \in IDS, rte_channel_service_setup_by_id(id) PROVE ReachInv'
  <2>1. PICK name \in STRING : osadapter_setup(name)
    BY <1>3, SetupById
  <2>2. storage' \in Storages /\ storage'.opened = FALSE /\ flow_handle' = 0
    BY <2>1, SetupStorage
  <2>3. storage'.resolved /\ asked_for' # {} =>
          \E d \in asked_for' : storage'.name = d.name /\ storage'.role = d.role
    BY <1>3, SetupById
  <2> QED
    BY <2>2, <2>3 DEF ReachInv, ChannelsTypeOK
<1>4. ASSUME ReadOrSend PROVE ReachInv'
  <2>1. CASE UNCHANGED <<storage, flows, flow_handle>>
    BY <1>0, <1>4, <2>1 DEF ReadOrSend
  <2>2. ASSUME NEW i \in Flows,
               flows' = [flows EXCEPT ![i] = [open |-> TRUE, lost |-> FALSE,
                                             name |-> storage.name, role |-> storage.role]],
               flow_handle' = i, storage' = [storage EXCEPT !.opened = TRUE]
        PROVE  ReachInv'
    <3>1. storage.resolved /\ asked_for' = asked_for
      BY <1>4 DEF ReadOrSend
    <3>2. /\ storage' \in Storages /\ storage'.opened = TRUE /\ storage'.resolved = storage.resolved
          /\ storage'.name = storage.name /\ storage'.role = storage.role
      BY <2>2 DEF ReachInv, ChannelsTypeOK
    <3>3. flows'[flow_handle'].name = storage.name /\ flows'[flow_handle'].role = storage.role
      BY <2>2 DEF ServiceInv, ServiceRecords
    <3> QED
      BY <2>2, <3>1, <3>2, <3>3 DEF ReachInv, ChannelsTypeOK
  <2> QED
    BY <1>4, <2>1, <2>2 DEF ReadOrSend, ensure_open
<1>5. ASSUME rte_channel_service_close PROVE ReachInv'
  <2>1. /\ storage' \in Storages /\ storage'.opened = FALSE /\ storage'.resolved = FALSE
        /\ flow_handle' = 0
    BY <1>5 DEF rte_channel_service_close, osadapter_close, ReachInv, ChannelsTypeOK
  <2> QED
    BY <2>1 DEF ReachInv, ChannelsTypeOK
<1> QED
  BY <1>1, <1>2, <1>3, <1>4, <1>5 DEF ServiceNext

-----------------------------------------------------------------------------
(* The four parts together.  A step of one part leaves the variables of    *)
(* the others alone, except for the setup-phase lock, which none of the    *)
(* invariants speaks of.                                                   *)

ServicesInv ==
  /\ ConfigInv /\ ServiceInv /\ ReachInv
  /\ SafeChannelInv /\ OalInv /\ ProtocolInv

\* Each invariant depends on the variables of its own part only.
LEMMA PartsApart ==
  /\ ConfigInv /\ UNCHANGED config => ConfigInv'
  /\ ServiceInv /\ UNCHANGED serviceOnly => ServiceInv'
  /\ ReachInv /\ UNCHANGED serviceOnly => ReachInv'
  /\ SafeChannelInv /\ UNCHANGED safeChannelOnly => SafeChannelInv'
  /\ OalInv /\ UNCHANGED oalOnly => OalInv'
  /\ ProtocolInv /\ UNCHANGED protocolVars => ProtocolInv'
<1>1. ServiceInv /\ UNCHANGED serviceOnly => ServiceInv'
  BY DEF serviceOnly, ServiceInv, ServiceRecords, FlowsAreHeld
<1>2. SafeChannelInv /\ UNCHANGED safeChannelOnly => SafeChannelInv'
  BY DEF safeChannelOnly, SafeChannelInv, CountedLinks, OpenProgress
<1>3. OalInv /\ UNCHANGED oalOnly => OalInv'
  BY OalFrame DEF oalOnly, OalInv, OalTypeOK
<1>4. ProtocolInv /\ UNCHANGED protocolVars => ProtocolInv'
  BY ProtocolStepInv
<1>5. ConfigInv /\ UNCHANGED config => ConfigInv'
  BY ConfigStepInv
<1>6. ReachInv /\ UNCHANGED serviceOnly => ReachInv'
  BY DEF serviceOnly, ReachInv, ChannelsTypeOK
<1> QED
  BY <1>1, <1>2, <1>3, <1>4, <1>5, <1>6

\* The invariant of the whole.
LEMMA ServicesInvariance == Spec => []ServicesInv
<1>1. Init => ServicesInv
  BY ConfigInitInv, ServiceInitInv, ReachInitInv, SafeChannelInitInv, OalInitInv, ProtocolInitInv
     DEF Init, ChannelsInit, ServicesInv
<1>2. ServicesInv /\ [Next]_vars => ServicesInv'
  <2> SUFFICES ASSUME ServicesInv, [Next]_vars PROVE ServicesInv'
    OBVIOUS
  <2> USE DEF ServicesInv
  <2>1. CASE ChannelsNext /\ UNCHANGED <<safeChannelOnly, oalOnly, protocolVars>>
    <3>1. [ServiceNext]_service /\ [ConfigNext]_config
      BY <2>1 DEF ChannelsNext
    <3> QED
      BY <2>1, <3>1, ConfigStepInv, ServiceStepInv, ReachStepInv, PartsApart
  <2>2. CASE SafeChannelNext /\ UNCHANGED <<config, serviceOnly, oalOnly, protocolVars>>
    BY <2>2, SafeChannelStepInv, PartsApart
  <2>3. CASE OalNext /\ UNCHANGED <<config, serviceOnly, safeChannelOnly, protocolVars>>
    BY <2>3, OalStepInv, PartsApart
  <2>4. CASE ProtocolNext /\ UNCHANGED <<config, service, safeChannelOnly, oalOnly>>
    <3>1. UNCHANGED serviceOnly
      BY <2>4 DEF service, serviceOnly
    <3> QED
      BY <2>4, <3>1, ProtocolStepInv, PartsApart
  <2>5. CASE UNCHANGED vars
    <3>1. UNCHANGED <<config, serviceOnly, safeChannelOnly, oalOnly, protocolVars>>
      BY <2>5 DEF vars, service, serviceOnly
    <3> QED
      BY <3>1, PartsApart
  <2> QED
    BY <2>1, <2>2, <2>3, <2>4, <2>5 DEF Next
<1> QED
  BY <1>1, <1>2, PTL DEF Spec

-----------------------------------------------------------------------------
(* Theorems *)

\* The services keep their types: a name and a role in the storage are those of
\* a configured channel, for any document that is loaded.
THEOREM TypeCorrect == Spec => []TypeOK
<1>1. ServicesInv => TypeOK
  BY DEF ServicesInv, ReachInv, OalInv, TypeOK
<1> QED
  BY <1>1, ServicesInvariance, PTL

\* A configuration that is active has a quorum its replicas can reach and fits
\* the fixed tables, whatever text was loaded, refused, cleared or set again
\* (rte_redundancy_config_load(), _set_active()).
THEOREM ActiveConfigSound == Spec => []ActiveIsSound
<1>1. ServicesInv => ActiveIsSound
  BY DEF ServicesInv, ConfigInv, Sound, ActiveIsSound
<1> QED
  BY <1>1, ServicesInvariance, PTL

\* A storage set up by id opens the channel the configuration had under that id
\* when it was set up, if the names are unique, whatever is loaded before the
\* flow is opened (rte_channel_service_setup_by_id(), ensure_open()).
THEOREM SetupReachesChannel == Spec => []SetupByIdReachesChannel
<1>1. ServicesInv => SetupByIdReachesChannel
  BY DEF ServicesInv, ReachInv, ChannelsTypeOK, SetupByIdReachesChannel
<1> QED
  BY <1>1, ServicesInvariance, PTL

\* No resource of the layer below outlives what it was opened for, whichever
\* step of an open fails and whenever the setup phase ends, for any number of
\* links, socket tables, channels and documents.
THEOREM NothingStaysOpen == Spec => []NothingLeftOpen
<1>1. ServicesInv => NothingLeftOpen
  BY SafeChannelAccounts DEF ServicesInv, ServiceInv, ProtocolInv, NothingLeftOpen
<1> QED
  BY <1>1, ServicesInvariance, PTL

\* rte_osadapter_register_all() says OK only when every member it was given is
\* registered and no other seam was touched, for any bundle and although the
\* lock may come in the middle of it.
THEOREM BundleRegistersAll == Spec => []BundleIsWhole
<1>1. ServicesInv => BundleIsWhole
  BY DEF ServicesInv, OalInv
<1> QED
  BY <1>1, ServicesInvariance, PTL

\* A caller that ignores the status of create or open reaches no object that
\* was given back, whatever the adapters answer and lack.
THEOREM HandlesDoNotDangle == Spec => []NoDanglingHandle
<1>1. ServicesInv => NoDanglingHandle
  BY DEF ServicesInv, OalInv
<1> QED
  BY <1>1, ServicesInvariance, PTL

\* Under the lock no adapter, safe-state handler, running timer or task, or
\* object of a setup-only seam appears or changes.
THEOREM LockFreezes == Spec => FrozenWhileLocked
<1>1. ASSUME ServicesInv, [Next]_vars, locked, locked'
      PROVE  /\ \A s \in Registered \ {"sockets"} : adapter'[s] = adapter[s]
             /\ handlers' = handlers
             /\ focus \notin {"netlink", "flow"} =>
                  (object'.alive => object.alive) /\ (object'.started => object.started)
  <2>1. CASE OalNext
    BY <1>1, <2>1, FrozenStep DEF ServicesInv
  <2>2. CASE UNCHANGED oalOnly
    BY <2>2 DEF oalOnly
  <2> QED
    BY <1>1, <2>1, <2>2 DEF Next, vars
<1>2. ServicesInv /\ [Next]_vars =>
        [locked /\ locked' =>
           /\ \A s \in Registered \ {"sockets"} : adapter'[s] = adapter[s]
           /\ handlers' = handlers
           /\ focus \notin {"netlink", "flow"} =>
                (object'.alive => object.alive) /\ (object'.started => object.started)]_oalVars
  BY <1>1
<1> QED
  BY <1>2, ServicesInvariance, PTL DEF Spec, FrozenWhileLocked

\* A connected endpoint keeps its peer, with or without the calls for a
\* connected socket; any other UDP endpoint answers the last sender
\* (udp_adapter_send, tcp_adapter_send).
THEOREM AnswersReachPeer == Spec => AnswersGoToPeer
<1> DEFINE Answer ==
      target' # target /\ end.sock =>
        target' = IF end.is_connected \/ heard = NOBODY \/ end.type = "TCP"
                  THEN (IF end.type = "TCP" /\ ~end.is_connected THEN NOBODY ELSE PEER)
                  ELSE heard
<1>1. ASSUME ServicesInv, [Next]_vars PROVE Answer
  <2>1. CASE ProtocolNext
    BY <1>1, <2>1, SendGoesToPeer DEF ServicesInv
  <2>2. CASE UNCHANGED protocolVars
    BY <2>2 DEF protocolVars
  <2> QED
    BY <1>1, <2>1, <2>2 DEF Next, vars
<1>2. ServicesInv /\ [Next]_vars => [Answer]_protocolVars
  BY <1>1
<1> QED
  BY <1>2, ServicesInvariance, PTL DEF Spec, AnswersGoToPeer
=============================================================================
