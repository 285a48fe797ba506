--------------------------- MODULE StateTransfer ---------------------------
(***************************************************************************)
(* The state transfer registry of redundancy/state_transfer/               *)
(* rte_state_transfer.c between the ONLINE side, which encodes its fields, *)
(* and the standby, which decodes them, each with a registry of its own.   *)
(*                                                                         *)
(* A field is a name with a fixed size; its value is a version repeated    *)
(* over its bytes.  The fields with a codec of their own may fail.         *)
(***************************************************************************)
EXTENDS Integers, SequencesExt

CONSTANTS FIELDS,        \* the fields of the application
          SIZE,          \* the encoded size of every field
          CUSTOM,        \* the fields with encode_fn and decode_fn
          MAX_FIELDS,    \* RTE_STATE_TRANSFER_MAX_FIELDS
          VERSIONS       \* the values a field can have

\* register_field_ex() refuses a field without a size.
ASSUME TransferAssumption ==
  SIZE \in [FIELDS -> Nat \ {0}] /\ MAX_FIELDS \in Nat

VARIABLES registry,      \* per side: the fields in registration order
          memory,        \* per side: the live data
          buffer,        \* the encoded bytes under way
          encoded,       \* the sender's memory when they were encoded
          accepted       \* what the standby holds: the transfer it took last,
                         \* <<>> before the first and once one broke off

transferVars == <<registry, memory, buffer, encoded, accepted>>

Sides == {"online", "standby"}
Bytes(f, version) == [i \in 1..SIZE[f] |-> <<f, version>>]

\* Where every field of a registry ends in the encoded form.
ends(fields) ==
  LET end[i \in 0..Len(fields)] == IF i = 0 THEN 0 ELSE end[i - 1] + SIZE[fields[i]] IN end

encoded_size(fields) == ends(fields)[Len(fields)]
offset(fields, i) == ends(fields)[i - 1]

\* The version field i of fields reads at its place: the bytes there may be
\* those of another field.
Read(fields, i, in) == in[offset(fields, i) + 1][2]

TransferInit ==
  /\ registry = [s \in Sides |-> <<>>]
  /\ memory = [s \in Sides |-> [f \in FIELDS |-> 0]]
  /\ buffer = <<>>
  /\ encoded = <<>>
  /\ accepted = <<>>

\* rte_state_transfer_register_field_ex()
Register(s, f) ==
  /\ Len(registry[s]) < MAX_FIELDS
  /\ registry' = [registry EXCEPT ![s] = Append(@, f)]
  /\ UNCHANGED <<memory, buffer, encoded, accepted>>

\* The ONLINE side works on.
Work(f) ==
  /\ \E v \in VERSIONS : memory' = [memory EXCEPT !["online"][f] = v]
  /\ UNCHANGED <<registry, buffer, encoded, accepted>>

\* The fields of mem one after the other.
encoded_form(fields, mem) ==
  LET form[i \in 0..Len(fields)] ==
        IF i = 0 THEN <<>> ELSE form[i - 1] \o Bytes(fields[i], mem[fields[i]])
  IN  form[Len(fields)]

\* rte_state_transfer_encode(); an encode_fn that fails ends it with an
\* error, and the caller sends nothing.
Encode ==
  LET fields == registry["online"] IN
  /\ buffer' = encoded_form(fields, memory["online"])
  /\ encoded' = [fields |-> fields, memory |-> memory["online"]]
  /\ UNCHANGED <<registry, memory, accepted>>

\* The transport loses the end of the buffer.
Truncate ==
  /\ buffer # <<>>
  /\ buffer' = SubSeq(buffer, 1, Len(buffer) - 1)
  /\ UNCHANGED <<registry, memory, encoded, accepted>>

\* Mutant: the loop ends one field early.
decoded_one_short(fields, n, in, before) ==
  FoldLeft(LAMBDA m, i : [m EXCEPT ![fields[i]] = Read(fields, i, in)],
           before, [i \in 1..(n - 1) |-> i])

\* The memory once the first n registered fields are decoded.
decoded(fields, n, in, before) ==
  LET data[i \in 0..n] ==
        IF i = 0 THEN before ELSE [data[i - 1] EXCEPT ![fields[i]] = Read(fields, i, in)]
  IN  data[n]

\* The test before the first store.
Enough(fields, in) == Len(in) >= encoded_size(fields)

\* rte_state_transfer_decode(): nothing is stored when the input is too
\* short; a decode_fn that fails leaves the fields before it stored.
Decode ==
  LET fields == registry["standby"] IN
  /\ encoded # <<>>
  /\ IF ~Enough(fields, buffer)
     THEN UNCHANGED <<memory, accepted>>
     ELSE \/ /\ memory' = [memory EXCEPT !["standby"] =
                             decoded(fields, Len(fields), buffer, @)]
             /\ accepted' = [by |-> encoded.fields, into |-> fields,
                             memory |-> encoded.memory]
          \/ \E i \in {j \in 1..Len(fields) : fields[j] \in CUSTOM} :
               /\ memory' = [memory EXCEPT !["standby"] = decoded(fields, i - 1, buffer, @)]
               /\ accepted' = <<>>
  /\ UNCHANGED <<registry, buffer, encoded>>

TransferNext ==
  \/ \E s \in Sides, f \in FIELDS : Register(s, f)
  \/ \E f \in FIELDS : Work(f)
  \/ Encode \/ Truncate \/ Decode

TransferSpec == TransferInit /\ [][TransferNext]_transferVars

-----------------------------------------------------------------------------
(* Properties.                                                             *)

TransferTypeOK ==
  /\ \A s \in Sides : Len(registry[s]) <= MAX_FIELDS
  /\ memory \in [Sides -> [FIELDS -> VERSIONS \cup {0}]]

\* Between two sides that registered the same fields in the same order the
\* standby holds one moment of the sender: since the last transfer it took,
\* every registered field has the value it had when that state was encoded,
\* whatever was registered, changed, encoded, cut short or refused since.
\* Only a decode_fn that fails in the middle leaves a mixture of two moments.
\* The wire names no field, so the agreement of the two registries is all
\* that keeps a field from being read as another.
StandbyHoldsOneMoment ==
  accepted # <<>> /\ accepted.by = accepted.into =>
    \A i \in 1..Len(accepted.into) :
      LET f == accepted.into[i] IN memory["standby"][f] = accepted.memory[f]

=============================================================================
