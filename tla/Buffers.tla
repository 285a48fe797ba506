------------------------------ MODULE Buffers ------------------------------
(***************************************************************************)
(* The bounded buffers of utils/buffer/rte_buffer.c as operators from a    *)
(* buffer to the status and the buffer a call leaves behind.               *)
(*                                                                         *)
(* A buffer is its storage, a sequence of cells, and its length; the       *)
(* capacity is the size of the storage, and a buffer that was never given  *)
(* storage has none.  A cell holds one of the codes of the module that     *)
(* uses this one.  A word of n bytes is the sequence of its bytes, most    *)
(* significant first, so that taking (value >> 8 * i) & 0xFF is indexing.  *)
(***************************************************************************)
EXTENDS Integers, SequencesExt

\* The struct as the caller declares it, before rte_buffer_init().
NoStorage == [data |-> <<>>, length |-> 0]

capacity(b) == Len(b.data)
HasStorage(b) == capacity(b) > 0
content(b) == SubSeq(b.data, 1, b.length)

\* b with s stored from position at onwards, and length set to n.
Stored(b, at, s, n) ==
  [data |-> [i \in 1..capacity(b) |->
               IF i \in (at + 1)..(at + Len(s)) THEN s[i - at] ELSE b.data[i]],
   length |-> n]

Result(status, b) == [status |-> status, buf |-> b]
Refused(status, b) == Result(status, b)

buffer_is_valid(b) == HasStorage(b) /\ b.length <= capacity(b)

buffer_init(b, storage) ==
  IF Len(storage) = 0 THEN Refused("INVALID_PARAM", b)
  ELSE Result("OK", [data |-> storage, length |-> 0])

buffer_clear(b) ==
  IF ~buffer_is_valid(b) THEN Refused("INVALID_PARAM", b)
  ELSE Result("OK", [b EXCEPT !.length = 0])

buffer_set_length(b, n) ==
  IF ~HasStorage(b) THEN Refused("INVALID_PARAM", b)
  ELSE IF n > capacity(b) THEN Refused("RESOURCE_EXHAUSTED", b)
  ELSE Result("OK", [b EXCEPT !.length = n])

buffer_copy_in(b, s) ==
  IF ~HasStorage(b) THEN Refused("INVALID_PARAM", b)
  ELSE IF Len(s) > capacity(b) THEN Refused("RESOURCE_EXHAUSTED", b)
  ELSE Result("OK", Stored(b, 0, s, Len(s)))

\* What the call writes to dest and to *out_copied; the buffer stays as it is.
buffer_copy_out(b, dest_capacity) ==
  IF ~HasStorage(b) THEN [status |-> "INVALID_PARAM", out |-> <<>>]
  ELSE IF b.length > dest_capacity THEN [status |-> "RESOURCE_EXHAUSTED", out |-> <<>>]
  ELSE [status |-> "OK", out |-> content(b)]

buffer_as_const(b) ==
  IF ~HasStorage(b) THEN [status |-> "INVALID_PARAM", out |-> <<>>]
  ELSE IF b.length > capacity(b) THEN [status |-> "INTERNAL_ERROR", out |-> <<>>]
  ELSE [status |-> "OK", out |-> content(b)]

buffer_append_bytes(b, bytes) ==
  IF ~buffer_is_valid(b) THEN Refused("INVALID_PARAM", b)
  ELSE IF capacity(b) - b.length < Len(bytes) THEN Refused("RESOURCE_EXHAUSTED", b)
  ELSE Result("OK", Stored(b, b.length, bytes, b.length + Len(bytes)))

buffer_peek_bytes(b, offset, n) ==
  IF ~HasStorage(b) THEN [status |-> "INVALID_PARAM", out |-> <<>>]
  ELSE IF offset > b.length \/ b.length - offset < n THEN
         [status |-> "RESOURCE_EXHAUSTED", out |-> <<>>]
  ELSE [status |-> "OK", out |-> SubSeq(b.data, offset + 1, offset + n)]

-----------------------------------------------------------------------------
(* Words in the two byte orders: little endian puts the least significant  *)
(* byte first, big endian the most significant.                            *)

buffer_write_le(b, word) == buffer_append_bytes(b, Reverse(word))
buffer_write_be(b, word) == buffer_append_bytes(b, word)

buffer_read_le(b, offset, n) ==
  LET r == buffer_peek_bytes(b, offset, n) IN
  IF r.status # "OK" THEN r ELSE [r EXCEPT !.out = Reverse(r.out)]
buffer_read_be(b, offset, n) == buffer_peek_bytes(b, offset, n)

=============================================================================
