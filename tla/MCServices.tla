----------------------------- MODULE MCServices -----------------------------
(***************************************************************************)
(* Four parts of the library in one run: the configuration with the        *)
(* channel service, the safe channel, the OS adapters and the protocol     *)
(* adapters, under one setup-phase lock.  Every behaviour takes up one of  *)
(* them; the others keep their initial state, one of them where there are  *)
(* several.                                                                *)
(***************************************************************************)
EXTENDS ChannelService, SafeChannel, Oal, Protocol

VARIABLE part

-----------------------------------------------------------------------------
(* Constants that are not plain values.                                    *)

\* Adapter "b" leaves these slots NULL.
MCLacks == {<<"b", "destroy">>, <<"b", "close">>, <<"b", "start">>, <<"b", "read">>, <<"b", "grant">>}

\* A complete bundle, one without the optional output unit, and one of a few
\* members that begins and ends with NULL ones and holds the seam without a lock.
MCBundles == { [of |-> "a", members |-> Registered],
               [of |-> "b", members |-> Registered \ {"fsou"}],
               [of |-> "b", members |-> {"timer", "task", "flow", "sockets"}] }

\* Table "t2" has no calls for a connected socket.
MCSocketLacks == {<<"t2", "send">>, <<"t2", "recv">>}

AllButNmr(topology, replicas) == topology # "nmr"

Chan(keys, id, name, role, port, buffer_size) ==
  [keys |-> keys, id |-> <<Number(id)>>, name |-> <<Word(name)>>, role |-> <<Word(role)>>,
   transport |-> <<Word("dds")>>, host |-> <<Word("id")>>, port |-> <<Number(port)>>,
   rcvbuf_bytes |-> buffer_size]

\* Keys in different orders and missing ones, a host called like a key, a port
\* and a buffer size out of range, a unit after a number, too many channels.
MCChannels ==
  { <<>>,
    <<Chan(<<"name", "role", "host">>, 0, "a", "listen", 0, <<>>),
      Chan(<<"port", "transport", "role", "name", "id">>, 1, "b", "publisher", 9, <<>>)>>,
    <<Chan(<<"id", "name", "host", "role", "rcvbuf_bytes">>, 2, "b", "SUBSCRIBER", 1, <<Number(7)>>),
      Chan(<<"id", "name", "rcvbuf_bytes">>, 1, "a", "listen", 1, <<Number(3)>>)>>,
    <<Chan(<<"id", "name", "rcvbuf_bytes">>, 1, "a", "listen", 1, <<Number(8)>>)>>,
    <<Chan(<<"name", "rcvbuf_bytes", "id">>, 1, "a", "listen", 1, <<Number(3), Word("KB")>>)>>,
    <<Chan(<<"id", "role">>, 1, "a", "listen", 1, <<>>)>>,
    <<Chan(<<"id", "name">>, 1, "a", "x", 1, <<>>), Chan(<<"id", "name">>, 2, "b", "x", 1, <<>>),
      Chan(<<"id", "name">>, 3, "c", "x", 1, <<>>)>> }

Forwards == <<"topology", "replicas", "quorum", "roles", "channels">>
Backwards == <<"channels", "roles", "standby_mode", "replicas", "topology">>
Document(keys, t, n, q, roles, channels) ==
  [keys |-> keys, topology |-> <<Word(t)>>, replicas |-> <<Number(n)>>, quorum |-> <<Number(q)>>,
   standby_mode |-> <<Word("hot")>>, roles |-> roles, channels |-> channels]

\* Every shape of the channels; every topology with replicas and quorums in
\* and out of range and too many roles; the quorum left out.
MCDocuments ==
  {Document(Backwards, "2oo3", 3, 2, <<"A", "quorum">>, c) : c \in MCChannels} \cup
  {Document(Forwards, t, n, q, r, <<>>) : t \in {"2oo2", "nmr"}, n \in {0, 2, 9}, q \in {1, 3, 10},
                                          r \in {<<"A", "B">>, <<"D">>, <<"A", "B", "C", "A">>}} \cup
  {Document(Backwards, t, n, 1, <<>>, <<>>) : t \in {"2oo2", "2oo3", "nmr"}, n \in {1, 2, 3}}

-----------------------------------------------------------------------------

\* The lock is in every part's variables.
serviceOnly == <<registered, resolver, storage, flows, flow_handle, asked_for>>
safeChannelOnly == <<channel, net, engine, up, want, pc>>
oalOnly == <<focus, adapter, handle, object, asked, result, bundle, handlers, halted, min_level,
             presence>>

Init ==
  /\ part \in {"channels", "safechannel", "oal", "protocol"}
  /\ ChannelsInit /\ SafeChannelInit
  /\ OalInit /\ (part # "oal" => focus = "timer")
  /\ ProtocolInit

Next ==
  \/ part = "channels" /\ ChannelsNext
     /\ UNCHANGED <<part, safeChannelOnly, oalOnly, protocolVars>>
  \/ part = "safechannel" /\ SafeChannelNext
     /\ UNCHANGED <<part, config, serviceOnly, oalOnly, protocolVars>>
  \/ part = "oal" /\ OalNext
     /\ UNCHANGED <<part, config, serviceOnly, safeChannelOnly, protocolVars>>
  \/ part = "protocol" /\ ProtocolNext
     /\ UNCHANGED <<part, config, service, safeChannelOnly, oalOnly>>

vars == <<part, config, service, safeChannelOnly, oalOnly, protocolVars>>

Spec == Init /\ [][Next]_vars

\* Every part keeps its types.
TypeOK == ChannelsTypeOK /\ OalTypeOK

\* No resource of the layer below outlives what it was opened for, whichever
\* step of an open fails: the flows of the channel service, the links of the
\* safe channel and the sockets of the protocol adapters.
NothingLeftOpen == FlowsAreHeld /\ LinksAreAccounted /\ SocketsAreHeld
=============================================================================
