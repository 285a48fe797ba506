-------------------------- MODULE RedundancyConfig --------------------------
(***************************************************************************)
(* The redundancy and channel configuration of redundancy/config/          *)
(* rte_redundancy_config.c: a scanner for one fixed JSON shape, the checks *)
(* on what it read, and the active configuration.                          *)
(*                                                                         *)
(* A file is a sequence of tokens; white space is gone, and a quoted word  *)
(* holds no quote, brace or bracket.  The scanner knows no nesting: a key  *)
(* of the top level is the first quoted word with a colon after it anywhere*)
(* in the file, a key of a channel the first one before the next brace.    *)
(***************************************************************************)
EXTENDS Integers, FiniteSetsExt, SequencesExt

CONSTANTS
  DOCUMENTS,      \* what an integrator writes into the file
  LONG_WORDS,     \* words too long for the field they are meant for
  LIMIT,          \* 2^32, scaled down
  PORT_LIMIT,     \* 2^16, scaled down
  MAX_REPLICAS,   \* RTE_REDUNDANCY_CONFIG_MAX_REPLICAS
  MAX_CHANNELS,   \* RTE_CHANNEL_CONFIG_MAX_CHANNELS
  Capable(_, _)   \* the application's capability callback

VARIABLES
  active,     \* s_active_config, {} while s_has_active_config is false
  out,        \* the caller's out_config, {} before the first load
  document,   \* the document out was loaded from
  capability  \* a capability callback is registered

config == <<active, out, document, capability>>

-----------------------------------------------------------------------------
(* Scanning.  A parser returns the value as a singleton, {} for a failure. *)

Word(w)   == <<"word", w>>
Number(n) == <<"number", n>>
Colon == <<"mark", ":">>
Comma == <<"mark", ",">>
OpenBrace == <<"mark", "{">>
CloseBrace == <<"mark", "}">>
OpenBracket == <<"mark", "[">>
CloseBracket == <<"mark", "]">>
Token == ({"word"} \X STRING) \cup ({"number"} \X Nat) \cup ({"mark"} \X STRING)

\* Mutant: the search starts at the beginning of the file.
find_key_from_start(text, from, to, key) ==
  LET found == {i \in 1..(to - 1) : text[i] = Word(key) /\ text[i + 1] = Colon} IN
  IF found = {} THEN 0 ELSE Min(found) + 2

\* Where the value of key starts between from and to, 0 if it is not there.
find_key_value_pos(text, from, to, key) ==
  LET found == {i \in from..(to - 1) : text[i] = Word(key) /\ text[i + 1] = Colon} IN
  IF found = {} THEN 0 ELSE Min(found) + 2

parse_string_value(text, to, at) ==
  IF at <= to /\ text[at][1] = "word" /\ text[at][2] \notin LONG_WORDS
  THEN {text[at][2]} ELSE {}

\* The older keys: wraps, and does not look at what follows the digits.
parse_uint_value(text, to, at) ==
  IF at <= to /\ text[at][1] = "number" THEN {text[at][2] % LIMIT} ELSE {}

\* The socket buffer sizes: in range, and a comma or the end must follow.
parse_uint32_checked(text, to, at) ==
  IF /\ at <= to /\ text[at][1] = "number" /\ text[at][2] < LIMIT
     /\ at < to => text[at + 1] = Comma
  THEN {text[at][2]} ELSE {}

Has(text, from, to, key) == find_key_value_pos(text, from, to, key) # 0

Value(text, from, to, key, Parse(_, _, _)) ==
  IF Has(text, from, to, key)
  THEN Parse(text, to, find_key_value_pos(text, from, to, key)) ELSE {}

\* An optional key that may be there only in good form.
Good(text, from, to, key, Parse(_, _, _)) ==
  Has(text, from, to, key) => Value(text, from, to, key, Parse) # {}

OrElse(found, default) == IF found = {} THEN default ELSE CHOOSE v \in found : TRUE

parse_optional_channel_u32(text, from, to, key) ==
  OrElse(Value(text, from, to, key, parse_uint32_checked), 0)

\* ["a", "b"]: words, each with at most one comma behind it.
parse_string_array(text, to, at) ==
  LET ends == {i \in at..to : text[i] = CloseBracket}
      items == SubSeq(text, at + 1, Min(ends) - 1)
      words == SelectSeq(items, LAMBDA t : t # Comma) IN
  IF /\ at <= to /\ text[at] = OpenBracket /\ ends # {}
     /\ \A i \in 1..Len(items) : items[i] = Comma => i > 1 /\ items[i - 1] # Comma
     /\ \A i \in 1..Len(words) : words[i][1] = "word" /\ words[i][2] \notin LONG_WORDS
     /\ Len(words) <= MAX_REPLICAS
  THEN {[i \in 1..Len(words) |-> words[i][2]]} ELSE {}

-----------------------------------------------------------------------------
(* Names *)

rte_channel_config_transport_from_string(name) ==
  CASE name \in {"flow", "FLOW"} -> {"FLOW"}
    [] name \in {"netlink", "posix", "POSIX"} -> {"POSIX_NETLINK"}
    [] name \in {"dds", "DDS"} -> {"DDS"}
    [] OTHER -> {}

rte_channel_config_role_from_string(name) ==
  CASE name \in {"listen", "LISTEN", "subscriber", "SUBSCRIBER"} -> {"LISTEN"}
    [] name \in {"connect", "CONNECT", "publisher", "PUBLISHER"} -> {"CONNECT"}
    [] OTHER -> {}

topology_from_string(name) == {name} \cap {"2oo2", "2oo2_redundant", "2oo3", "nmr"}
standby_mode_from_string(name) == {name} \cap {"hot", "warm", "cold"}

-----------------------------------------------------------------------------
(* Channels *)

\* A name it does not know leaves the default in place.
Named(text, from, to, key, FromString(_), default) ==
  OrElse(UNION {FromString(w) : w \in Value(text, from, to, key, parse_string_value)}, default)

\* from is the place of the object's brace, to the one before the closing one.
parse_channel_object(text, from, to) ==
  IF /\ Good(text, from, to, "id", parse_uint_value)
     /\ Value(text, from, to, "name", parse_string_value) # {}
     /\ Good(text, from, to, "rcvbuf_bytes", parse_uint32_checked)
     /\ Good(text, from, to, "sndbuf_bytes", parse_uint32_checked)
  THEN {[id |-> OrElse(Value(text, from, to, "id", parse_uint_value), 0),
         name |-> OrElse(Value(text, from, to, "name", parse_string_value), ""),
         transport |-> Named(text, from, to, "transport",
                             rte_channel_config_transport_from_string, "FLOW"),
         role |-> Named(text, from, to, "role",
                        rte_channel_config_role_from_string, "CONNECT"),
         host |-> OrElse(Value(text, from, to, "host", parse_string_value), ""),
         port |-> OrElse(Value(text, from, to, "port", parse_uint_value), 0) % PORT_LIMIT,
         message_size |-> OrElse(Value(text, from, to, "message_size", parse_uint_value), 0),
         connect_timeout_ms |->
           OrElse(Value(text, from, to, "connect_timeout_ms", parse_uint_value), 0),
         rcvbuf_bytes |-> parse_optional_channel_u32(text, from, to, "rcvbuf_bytes"),
         sndbuf_bytes |-> parse_optional_channel_u32(text, from, to, "sndbuf_bytes")]}
  ELSE {}

\* [{...}, {...}]: object by object up to the closing bracket; a failure is {}.
\* objects[room][p] is the rest of the array from p on, with room for so many.
parse_channels_array(text, to, at) ==
  LET objects[room \in 0..MAX_CHANNELS] ==
        [p \in 1..(to + 1) |->
           LET braces == {i \in p..to : text[i] = CloseBrace}
               end == Min(braces)
               next == IF end < to /\ text[end + 1] = Comma THEN end + 2 ELSE end + 1 IN
           IF p > to THEN {}
           ELSE IF text[p] = CloseBracket THEN {<<>>}
           ELSE IF room = 0 \/ text[p] # OpenBrace \/ braces = {} THEN {}
           ELSE UNION {{<<c>> \o rest : c \in parse_channel_object(text, p, end - 1)} :
                         rest \in objects[room - 1][next]}] IN
  IF at <= to /\ text[at] = OpenBracket THEN objects[MAX_CHANNELS][at + 1] ELSE {}

-----------------------------------------------------------------------------
(* The configuration *)

\* The default of a topology that says nothing of its quorum.
default_quorum(topology, replicas) ==
  CASE topology \in {"2oo2", "2oo2_redundant"} -> IF replicas >= 2 THEN {2} ELSE {}
    [] topology = "2oo3" -> IF replicas = 3 THEN {2} ELSE {}
    [] OTHER -> {}

quorum_in_range(quorum, replicas) == quorum >= 1 /\ quorum <= replicas

\* The configuration in text, {} if it is refused.
parse(text) ==
  LET to == Len(text)
      Top(key, Parse(_, _, _)) == Value(text, 1, to, key, Parse)
      topology == UNION {topology_from_string(w) : w \in Top("topology", parse_string_value)}
      replicas == {n \in Top("replicas", parse_uint_value) : n \in 1..MAX_REPLICAS}
      quorum == IF Has(text, 1, to, "quorum") THEN Top("quorum", parse_uint_value)
                ELSE UNION {UNION {default_quorum(t, n) : t \in topology} : n \in replicas}
      standby == IF Has(text, 1, to, "standby_mode")
                 THEN UNION {standby_mode_from_string(w) :
                               w \in Top("standby_mode", parse_string_value)}
                 ELSE {"cold"}
      roles == IF Has(text, 1, to, "roles") THEN Top("roles", parse_string_array) ELSE {<<>>}
      channels == IF Has(text, 1, to, "channels") THEN Top("channels", parse_channels_array)
                  ELSE {<<>>} IN
  {c \in [topology: topology, replica_count: replicas, quorum_size: quorum,
           standby_mode: standby, roles: roles, channels: channels] :
     quorum_in_range(c.quorum_size, c.replica_count)}

-----------------------------------------------------------------------------
(* What stands in the file.  keys is the order in which a document's       *)
(* entries are written; an entry that is not among them is left out.       *)

Joined(items) == FoldLeft(LAMBDA s, t : IF s = <<>> THEN t ELSE s \o <<Comma>> \o t,
                          <<>>, items)
Entry(key, value) == <<Word(key), Colon>> \o value
Object(keys, ValueOf(_)) ==
  <<OpenBrace>> \o Joined([i \in 1..Len(keys) |-> Entry(keys[i], ValueOf(keys[i]))])
                \o <<CloseBrace>>
Array(items) == <<OpenBracket>> \o Joined(items) \o <<CloseBracket>>

Written(doc) ==
  LET ChannelText(c) == Object(c.keys, LAMBDA k : c[k])
      Text(key) ==
        CASE key = "roles" -> Array([i \in 1..Len(doc.roles) |-> <<Word(doc.roles[i])>>])
          [] key = "channels" ->
               Array([i \in 1..Len(doc.channels) |-> ChannelText(doc.channels[i])])
          [] OTHER -> doc[key] IN
  Object(doc.keys, Text)

\* The limits are sizes of the program, and what is written is a text.
ASSUME ConfigAssumption ==
  /\ LIMIT \in Nat \ {0} /\ PORT_LIMIT \in Nat \ {0}
  /\ MAX_REPLICAS \in Nat /\ MAX_CHANNELS \in Nat
  /\ \A doc \in DOCUMENTS : Written(doc) \in Seq(Token)

\* The empty name is a string: the provers have no rule that says so.
ASSUME NameAssumption == "" \in STRING

-----------------------------------------------------------------------------
(* Operations *)

ConfigInit == active = {} /\ out = {} /\ document = {} /\ capability = FALSE

\* What the parser makes of each document's file.
Parsed == [doc \in DOCUMENTS |-> parse(Written(doc))]

\* A file that cannot be read, is refused or not supported changes nothing.
rte_redundancy_config_load(doc) ==
  \E c \in Parsed[doc] :
    /\ capability => Capable(c.topology, c.replica_count)
    /\ active' = {c} /\ out' = {c} /\ document' = {doc}
    /\ UNCHANGED capability

rte_redundancy_config_set_active(c) ==
  /\ active' = c
  /\ UNCHANGED <<out, document, capability>>

rte_redundancy_config_register_capability(fn) ==
  /\ capability' = fn
  /\ UNCHANGED <<active, out, document>>

\* The first channel of that name or id, {} if there is none.
First(c, Test(_)) ==
  LET found == {i \in 1..Len(c.channels) : Test(c.channels[i])} IN
  IF found = {} THEN {} ELSE {c.channels[Min(found)]}
find_channel_by_name(c, name) == First(c, LAMBDA d : d.name = name)

\* Mutant: the id is compared with the place in the array.
find_channel_by_place(c, id) == IF id \in 1..Len(c.channels) THEN {c.channels[id]} ELSE {}
find_channel_by_id(c, id) == First(c, LAMBDA d : d.id = id)

ConfigNext ==
  \/ \E doc \in DOCUMENTS : rte_redundancy_config_load(doc)
  \/ \E c \in {{}, out} : rte_redundancy_config_set_active(c)
  \/ \E fn \in BOOLEAN : rte_redundancy_config_register_capability(fn)

-----------------------------------------------------------------------------
(* Properties.                                                             *)

\* What every consumer of the configuration rte_redundancy_config_load() and
\* set_active() leave relies on, whatever was loaded, refused, cleared or set
\* again: a quorum the replicas can reach, within the fixed tables.
ActiveIsSound ==
  \A c \in active :
    /\ c.replica_count \in 1..MAX_REPLICAS
    /\ c.quorum_size \in 1..c.replica_count
    /\ Len(c.roles) <= MAX_REPLICAS /\ Len(c.channels) <= MAX_CHANNELS

Given(record, key) == key \in ToSet(record.keys)
WordOf(record, key, default) == IF Given(record, key) THEN record[key][1][2] ELSE default
NumberOf(record, key) == IF Given(record, key) THEN record[key][1][2] ELSE 0

\* The scanner finds what the document says although it does not follow the
\* nesting: with numbers in range, every entry of the loaded configuration is
\* the document's, or the default where it has none, in whatever order the
\* keys stand, and also when a role or a host is called like a key or when a
\* channel leaves out a key that the next channel has.
LoadedAsWritten ==
  \A c \in out, doc \in document :
    LET quorum == NumberOf(doc, "quorum") IN
    NumberOf(doc, "replicas") < LIMIT /\ quorum < LIMIT =>
      /\ c.topology = doc.topology[1][2]
      /\ c.replica_count = NumberOf(doc, "replicas")
      /\ c.quorum_size = IF Given(doc, "quorum") THEN quorum ELSE 2
      /\ c.standby_mode = WordOf(doc, "standby_mode", "cold")
      /\ c.roles = IF Given(doc, "roles") THEN doc.roles ELSE <<>>
      /\ Given(doc, "channels") =>
           /\ Len(c.channels) = Len(doc.channels)
           /\ \A i \in 1..Len(doc.channels) :
                LET d == doc.channels[i] IN
                /\ c.channels[i].id = NumberOf(d, "id")
                /\ c.channels[i].name = d.name[1][2]
                /\ c.channels[i].host = WordOf(d, "host", "")
                /\ {c.channels[i].role} =
                     rte_channel_config_role_from_string(WordOf(d, "role", "connect"))
                /\ {c.channels[i].transport} =
                     rte_channel_config_transport_from_string(WordOf(d, "transport", "flow"))
                /\ c.channels[i].port = NumberOf(d, "port") % PORT_LIMIT
                /\ c.channels[i].rcvbuf_bytes = NumberOf(d, "rcvbuf_bytes")

=============================================================================
