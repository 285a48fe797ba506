--------------------------- MODULE ChannelService ---------------------------
(***************************************************************************)
(* The channel service (rte_channel_service.c) over its flow adapter       *)
(* (rte_channel_service_flow_osadapter.c), next to the configuration it    *)
(* takes its channels from: a storage is set up by name or by id while the *)
(* setup phase lasts, opens its flow at the first read or send, and is     *)
(* closed and set up again, while the configuration is loaded anew.        *)
(* rte_flow_open() and rte_flow_close() may fail.                          *)
(***************************************************************************)
EXTENDS RedundancyConfig, Lifecycle

CONSTANTS
  IDS,              \* channel ids a caller asks for
  RESOLVED_ROLE     \* the role a registered resolver gives to every name

\* A resolver gives a value of rte_netlink_role_t.
ASSUME ServiceAssumption == RESOLVED_ROLE \in {"LISTEN", "CONNECT"}

VARIABLES
  registered,  \* s_osadapter of the service is the flow adapter
  resolver,    \* s_resolver is registered
  storage,     \* flow_channel_state_t: resolved, opened, name, role
  flows,       \* the flows of the layer below, as they were opened, and
               \* whether the storage gave one up without closing it
  flow_handle, \* the flow storage.flow_handle stands for, 0 for none
  asked_for    \* what the last setup_by_id() asked for: the definitions with that
               \* id, {} if a resolver or a name used twice decides instead

service == <<registered, resolver, locked, storage, flows, flow_handle, asked_for>>
channelsVars == <<config, service>>

Unset == [resolved |-> FALSE, opened |-> FALSE, name |-> "", role |-> "CONNECT"]
Flows == 1..2   \* open flows beyond one are lost: one of these is enough
NoFlow == [open |-> FALSE, lost |-> FALSE, name |-> "", role |-> "CONNECT"]

ServiceInit ==
  /\ registered = FALSE /\ resolver = FALSE /\ LifecycleInit
  /\ storage = Unset /\ flows = [i \in Flows |-> NoFlow] /\ flow_handle = 0 /\ asked_for = {}

rte_osadapter_channel_service_register ==
  /\ registered' = TRUE
  /\ UNCHANGED <<resolver, locked, storage, flows, flow_handle, asked_for>>

\* Registers the resolver and makes the flow adapter the service's adapter.
flow_osadapter_register_resolver ==
  /\ resolver' = TRUE /\ registered' = TRUE
  /\ UNCHANGED <<locked, storage, flows, flow_handle, asked_for>>

\* rte_lifecycle_lock() by the application manager.
service_locked ==
  /\ rte_lifecycle_lock
  /\ UNCHANGED <<registered, resolver, storage, flows, flow_handle, asked_for>>

\* The role the adapter finds for a name, {} if it is unknown.
resolve(name) ==
  IF resolver THEN {RESOLVED_ROLE}
  ELSE UNION {{d.role : d \in find_channel_by_name(c, name)} : c \in active}

\* The state is cleared first, whatever it held and whether or not the name
\* is found afterwards.
osadapter_setup(name) ==
  /\ storage' = IF resolve(name) = {} THEN Unset
                ELSE [resolved |-> TRUE, opened |-> FALSE, name |-> name,
                      role |-> OrElse(resolve(name), "CONNECT")]
  /\ flows' = IF storage.opened THEN [flows EXCEPT ![flow_handle].lost = TRUE] ELSE flows
  /\ flow_handle' = 0

UniqueNames(c) == \A i, j \in 1..Len(c.channels) :
  c.channels[i].name = c.channels[j].name => i = j

MaySetup == registered /\ rte_lifecycle_check_setup_allowed

rte_channel_service_setup(name) ==
  /\ MaySetup /\ osadapter_setup(name)
  /\ asked_for' = {}
  /\ UNCHANGED <<registered, resolver, locked>>

\* By id, through the name of the first channel with that id.
rte_channel_service_setup_by_id(id) ==
  /\ MaySetup
  /\ \E c \in active : \E d \in find_channel_by_id(c, id) :
       /\ osadapter_setup(d.name)
       /\ asked_for' = IF resolver THEN {} ELSE {e \in ToSet(c.channels) : UniqueNames(c) /\ e.id = id}
  /\ UNCHANGED <<registered, resolver, locked>>

\* One attempt to open; the flow keeps the name and the role it was opened with.
ensure_open ==
  IF storage.opened THEN UNCHANGED <<storage, flows, flow_handle>>
  ELSE \/ \E i \in Flows :
            /\ ~flows[i].open
            /\ flows' = [flows EXCEPT ![i] = [open |-> TRUE, lost |-> FALSE,
                                             name |-> storage.name, role |-> storage.role]]
            /\ flow_handle' = i
            /\ storage' = [storage EXCEPT !.opened = TRUE]
       \/ UNCHANGED <<storage, flows, flow_handle>>

\* rte_channel_service_read(), _read_ex() (which falls back to read) and
\* _send(): each opens the flow if it must, then transfers.
ReadOrSend ==
  /\ registered /\ storage.resolved
  /\ ensure_open
  /\ UNCHANGED <<registered, resolver, locked, asked_for>>

\* The flags are cleared even if rte_flow_close() fails, in which case the
\* layer below still holds the flow.
osadapter_close ==
  /\ storage' = [storage EXCEPT !.opened = FALSE, !.resolved = FALSE]
  /\ IF storage.opened
     THEN \/ flows' = [flows EXCEPT ![flow_handle] = NoFlow]
          \/ flows' = [flows EXCEPT ![flow_handle].lost = TRUE]
     ELSE UNCHANGED flows

rte_channel_service_close ==
  /\ registered
  /\ osadapter_close
  /\ flow_handle' = 0
  /\ UNCHANGED <<registered, resolver, locked, asked_for>>

ServiceNext ==
  \/ rte_osadapter_channel_service_register
  \/ flow_osadapter_register_resolver
  \/ service_locked
  \/ \E name \in {d.name : d \in UNION {ToSet(c.channels) : c \in active}} :
       rte_channel_service_setup(name)
  \/ \E id \in IDS : rte_channel_service_setup_by_id(id)
  \/ ReadOrSend
  \/ rte_channel_service_close

ChannelsInit == ConfigInit /\ ServiceInit
ChannelsNext == (ConfigNext /\ UNCHANGED service) \/ (ServiceNext /\ UNCHANGED config)
ChannelsSpec == ChannelsInit /\ [][ChannelsNext]_channelsVars

-----------------------------------------------------------------------------
(* Properties.                                                             *)

ChannelsTypeOK ==
  /\ storage \in [resolved: BOOLEAN, opened: BOOLEAN, name: STRING, role: {"LISTEN", "CONNECT"}]
  /\ flow_handle \in Flows \cup {0}
  /\ storage.opened => storage.resolved

\* A storage set up by id reads and writes the channel the configuration had
\* under that id then, although the service passes on only its name and the
\* configuration may have been replaced before the flow is opened.  Two
\* channels of one name would be mixed up.
SetupByIdReachesChannel ==
  storage.opened /\ asked_for # {} =>
    \E d \in asked_for : flows[flow_handle].name = d.name /\ flows[flow_handle].role = d.role

\* No flow stays open behind the caller's back: an open one is the storage's
\* own, whatever was set up, refused, opened and closed in between, except a
\* flow that would not close and the one under a storage that is set up again
\* without a close.
FlowsAreHeld ==
  \A i \in Flows : flows[i].open /\ ~flows[i].lost => storage.opened /\ flow_handle = i

\* What a load, a refusal or a replacement leaves in the active configuration
\* of rte_redundancy_config.c: ActiveIsSound and LoadedAsWritten.
LoadedIsSound == ActiveIsSound /\ LoadedAsWritten
=============================================================================
