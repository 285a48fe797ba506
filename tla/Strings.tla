------------------------------ MODULE Strings ------------------------------
(***************************************************************************)
(* The bounded strings of utils/string/rte_string.c: a string is a buffer  *)
(* whose cells are characters.  The digit d is the code d; NUL, the        *)
(* delimiter and the sign have codes below the digits, in the order of the *)
(* characters, and a C string is the sequence of its characters up to, and *)
(* without, its NUL.                                                       *)
(***************************************************************************)
EXTENDS Buffers, Casts

CONSTANTS NIBBLE,       \* the base of append_hex (16 in the code)
          HEX_DIGITS    \* the most digits it writes (8 in the code)

ASSUME HexAssumption == NIBBLE \in Nat \ {0, 1} /\ HEX_DIGITS \in Nat \ {0}

NUL == -3
DELIM == -2
MINUS == -1
IsDigit(c) == c \in 0..9

string_init(b, storage) == buffer_init(b, storage)
string_clear(b) == buffer_clear(b)

string_c_str(b) ==
  IF ~buffer_is_valid(b) THEN Refused("INVALID_PARAM", b)
  ELSE IF b.length >= capacity(b) THEN Refused("RESOURCE_EXHAUSTED", b)
  ELSE Result("OK", Stored(b, b.length, <<NUL>>, b.length))

string_copy_n(b, s) == buffer_copy_in(b, s)

\* The scan for the NUL reads positions 0..limit and no further.
NulWithin(s, limit) == Len(s) <= limit

string_copy(b, s) ==
  IF ~buffer_is_valid(b) THEN Refused("INVALID_PARAM", b)
  ELSE IF ~NulWithin(s, capacity(b)) THEN Refused("RESOURCE_EXHAUSTED", b)
  ELSE string_copy_n(b, s)

\* Mutant: the scan is bounded by the capacity, not by what is left of it.
concat_whole_capacity(b, s) ==
  IF ~buffer_is_valid(b) THEN Refused("INVALID_PARAM", b)
  ELSE IF ~NulWithin(s, capacity(b)) THEN Refused("RESOURCE_EXHAUSTED", b)
  ELSE Result("OK", Stored(b, b.length, s, b.length + Len(s)))
string_concat(b, s) ==
  IF ~buffer_is_valid(b) THEN Refused("INVALID_PARAM", b)
  ELSE IF ~NulWithin(s, capacity(b) - b.length) THEN Refused("RESOURCE_EXHAUSTED", b)
  ELSE Result("OK", Stored(b, b.length, s, b.length + Len(s)))

\* -1, 0 or 1 from the first position where the two differ, else the lengths.
string_compare(a, b) ==
  LET shared == 1..(IF a.length < b.length THEN a.length ELSE b.length)
      differ == {i \in shared : a.data[i] # b.data[i]}
      sign(x, y) == IF x < y THEN -1 ELSE IF x > y THEN 1 ELSE 0
  IN  IF differ = {} THEN sign(a.length, b.length)
      ELSE LET i == CHOOSE i \in differ : \A j \in differ : i <= j
           IN  sign(a.data[i], b.data[i])

\* The smallest index of a set of candidate positions, counted from 0.
FirstOf(places) ==
  [found |-> places # {},
   index |-> IF places = {} THEN 0
             ELSE CHOOSE i \in places : \A j \in places : i <= j]

string_find_char(b, c) == FirstOf({i \in 0..(b.length - 1) : b.data[i + 1] = c})

string_find_substr(hay, needle) ==
  IF needle.length = 0 THEN [found |-> TRUE, index |-> 0]
  ELSE IF needle.length > hay.length THEN [found |-> FALSE, index |-> 0]
  ELSE
         FirstOf({i \in 0..(hay.length - needle.length) :
                    SubSeq(hay.data, i + 1, i + needle.length) = content(needle)})

\* Mutant: the cursor is left on the delimiter.
split_next_keeps_delimiter(b, delimiter, cursor) ==
  LET stops == {i \in cursor..(b.length - 1) : b.data[i + 1] = delimiter}
      i == IF stops = {} THEN b.length
           ELSE CHOOSE p \in stops : \A q \in stops : p <= q
  IN  [status |-> "OK", has |-> cursor < b.length, token |-> SubSeq(b.data, cursor + 1, i),
       cursor |-> i]
\* One call of split_next: the token from cursor up to the delimiter, and the
\* cursor past that delimiter.  At the end of the string there is no token.
string_split_next(b, delimiter, cursor) ==
  LET stops == {i \in cursor..(b.length - 1) : b.data[i + 1] = delimiter}
      i == IF stops = {} THEN b.length
           ELSE CHOOSE p \in stops : \A q \in stops : p <= q
  IN  IF ~buffer_is_valid(b) \/ cursor > b.length THEN
             [status |-> "INVALID_PARAM", has |-> FALSE, token |-> <<>>, cursor |-> cursor]
      ELSE IF cursor = b.length THEN
             [status |-> "OK", has |-> FALSE, token |-> <<>>, cursor |-> cursor]
      ELSE
             [status |-> "OK", has |-> TRUE, token |-> SubSeq(b.data, cursor + 1, i),
              cursor |-> IF i < b.length THEN i + 1 ELSE i]

-----------------------------------------------------------------------------
(* Numbers to text.                                                        *)

\* The digits of v, most significant first: the remainders of the division
\* loop, reversed.
format_u64_digits[v \in Nat] ==
  IF v < 10 THEN <<v>> ELSE Append(format_u64_digits[v \div 10], v % 10)

\* The magnitude is built as -(value + 1) + 1 so that the smallest value of
\* the signed type does not overflow.
magnitude(v) == IF v < 0 THEN CCast(CCast(-(v + 1), "i64") + 1, "u64") ELSE v
format_i64(v) ==
  (IF v < 0 THEN <<MINUS>> ELSE <<>>) \o format_u64_digits[magnitude(v)]

string_from_u64(b, v) == string_copy_n(b, format_u64_digits[v])
string_from_i64(b, v) == string_copy_n(b, format_i64(v))
string_from_u32(b, v) == string_from_u64(b, cast("u32", "u64", v).out)
string_from_i32(b, v) == string_from_i64(b, cast("i32", "i64", v).out)

string_append_bytes(b, s) ==
  IF ~buffer_is_valid(b) THEN Refused("INVALID_PARAM", b)
  ELSE IF Len(s) > capacity(b) - b.length THEN Refused("RESOURCE_EXHAUSTED", b)
  ELSE Result("OK", Stored(b, b.length, s, b.length + Len(s)))

string_append_u64(b, v) == string_append_bytes(b, format_u64_digits[v])
string_append_i64(b, v) == string_append_bytes(b, format_i64(v))
string_append_u32(b, v) == string_append_u64(b, cast("u32", "u64", v).out)
string_append_i32(b, v) == string_append_i64(b, cast("i32", "i64", v).out)

hex_digits[v \in Nat] ==
  IF v < NIBBLE THEN <<v>> ELSE Append(hex_digits[v \div NIBBLE], v % NIBBLE)

\* At least min_digits digits, clamped to 1..HEX_DIGITS, padded with zeros.
string_append_hex_u32(b, v, min_digits) ==
  LET digits == hex_digits[v]
      width  == CASE min_digits < 1 -> 1
                  [] min_digits > HEX_DIGITS -> HEX_DIGITS
                  [] OTHER -> min_digits
      pad    == IF width > Len(digits) THEN width - Len(digits) ELSE 0
  IN  string_append_bytes(b, [i \in 1..pad |-> 0] \o digits)

-----------------------------------------------------------------------------
(* Text to numbers.                                                        *)

Fail(status) == [status |-> status, out |-> 0]

\* Mutant: the overflow test forgets the digit that is about to be added.
accumulate_limit_without_digit(s) ==
  FoldLeft(LAMBDA acc, c :
             IF acc.status # "OK" THEN acc
             ELSE IF ~IsDigit(c) THEN Fail("INVALID_PARAM")
             ELSE IF acc.out > MaxOf("u64") \div 10 THEN Fail("OUT_OF_RANGE")
             ELSE [acc EXCEPT !.out = (acc.out * 10) + c],
           [status |-> "OK", out |-> 0], s)
\* The accumulation loop over the digits s: it stops at the first character
\* that is not a digit, or that would push the sum past UINT64_MAX.
Accumulate(s) ==
  LET sum[i \in 0..Len(s)] ==    \* after i characters
        IF i = 0 THEN [status |-> "OK", out |-> 0]
        ELSE LET acc == sum[i - 1] IN
             IF acc.status # "OK" THEN acc
             ELSE IF ~IsDigit(s[i]) THEN Fail("INVALID_PARAM")
             ELSE IF acc.out > (MaxOf("u64") - s[i]) \div 10 THEN Fail("OUT_OF_RANGE")
             ELSE [acc EXCEPT !.out = (acc.out * 10) + s[i]]
  IN  sum[Len(s)]

string_to_u64(b) ==
  IF ~buffer_is_valid(b) \/ b.length = 0 THEN Fail("INVALID_PARAM")
  ELSE Accumulate(content(b))

string_to_i64(b) ==
  LET s        == content(b)
      negative == s # <<>> /\ s[1] = MINUS
      acc      == Accumulate(IF negative THEN Tail(s) ELSE s)
      limit    == IF negative THEN MaxOf("i64") + 1 ELSE MaxOf("i64")
  IN  IF ~buffer_is_valid(b) \/ b.length = 0 THEN Fail("INVALID_PARAM")
      ELSE IF negative /\ b.length = 1 THEN Fail("INVALID_PARAM")
      ELSE IF acc.status # "OK" THEN acc
      ELSE IF acc.out > limit THEN Fail("OUT_OF_RANGE")
      ELSE [acc EXCEPT !.out = IF negative THEN -acc.out ELSE acc.out]

Narrowed(r, from, to) ==
  LET c == cast(from, to, r.out) IN
  IF r.status # "OK" THEN r
  ELSE IF ~c.ok THEN Fail("OUT_OF_RANGE")
  ELSE [r EXCEPT !.out = c.out]
string_to_u32(b) == Narrowed(string_to_u64(b), "u64", "u32")
string_to_i32(b) == Narrowed(string_to_i64(b), "i64", "i32")

=============================================================================
