----------------------------- MODULE Utilities -----------------------------
(***************************************************************************)
(* A caller of the utility libraries: a number that is converted, computed *)
(* with, printed and parsed; a text that is edited and split; a message    *)
(* that is built word by word.  The libraries keep no state between calls, *)
(* so what the caller works on (subject) is chosen once.                   *)
(***************************************************************************)
EXTENDS Strings

CONSTANTS CAPACITY,   \* the size of the caller's storage
          CODES,      \* the characters the caller writes
          BYTES,      \* the values of a byte in a word
          B16, B32, B64   \* the sizes of the words in bytes

ASSUME BufferAssumption ==
  /\ CAPACITY \in Nat \ {0} /\ {B16, B32, B64} \subseteq Nat \ {0}
  /\ CODES \subseteq Int \ {NUL} /\ BYTES \subseteq Int

VARIABLES subject,    \* what the caller works on
          buf,        \* its buffer
          num,        \* its number: a type and a value
          call,       \* the last conversion: wanted value, type, accepted or not
          words,      \* the words in the buffer: [at, order, word]
          split       \* the cursor and the tokens so far

utilitiesVars == <<subject, buf, num, call, words, split>>

Short == BoundedSeq(CODES, 2)
PrintedTypes == {"u32", "i32", "u64", "i64"}
NoCall == [want |-> 0, into |-> "u64", ok |-> TRUE]
NoSplit == [cursor |-> 0, tokens |-> <<>>]

UtilitiesInit ==
  /\ subject \in {"number", "text", "message"}
  /\ buf = NoStorage
  /\ num \in IF subject = "number"
             THEN UNION {[type : {t}, value : Values(t)] : t \in Types}
             ELSE [type : {"u8"}, value : {0}]
  /\ call = NoCall
  /\ words = {}
  /\ split = NoSplit

\* A buffer with this r of an edit; a split starts again.
Leave(r) == buf' = r.buf /\ split' = NoSplit

SetUp ==
  /\ buf = NoStorage
  /\ Leave(string_init(buf, [i \in 1..CAPACITY |-> NUL]))
  /\ UNCHANGED <<subject, num, call, words>>

-----------------------------------------------------------------------------
(* The number.                                                             *)

\* The caller asked for want as a value of type into, and got r.
Take(r, want, into) ==
  /\ call' = [want |-> want, into |-> into, ok |-> r.ok]
  /\ num' = IF r.ok THEN [type |-> into, value |-> r.out] ELSE num

Convert ==
  /\ subject = "number"
  /\ \E to \in Types \ {num.type} :
       Take(cast(num.type, to, num.value), num.value, to)
  /\ UNCHANGED <<subject, buf, words, split>>

Compute ==
  /\ subject = "number"
  /\ num.type \in {"u32", "size"}
  /\ \E b \in Values(num.type) :
       LET a == num.value IN
       IF num.type = "u32"
       THEN \/ Take(checked_add_u32(a, b), a + b, "u32")
            \/ Take(checked_sub_u32(a, b), a - b, "u32")
            \/ Take(checked_mul_u32(a, b), a * b, "u32")
       ELSE \/ Take(checked_add_size(a, b), a + b, "size")
            \/ Take(checked_sub_size(a, b), a - b, "size")
            \/ Take(checked_mul_size(a, b), a * b, "size")
  /\ UNCHANGED <<subject, buf, words, split>>

string_from(t, b, v) ==
  CASE t = "u32" -> string_from_u32(b, v)
    [] t = "i32" -> string_from_i32(b, v)
    [] t = "u64" -> string_from_u64(b, v)
    [] t = "i64" -> string_from_i64(b, v)
string_append(t, b, v) ==
  CASE t = "u32" -> string_append_u32(b, v)
    [] t = "i32" -> string_append_i32(b, v)
    [] t = "u64" -> string_append_u64(b, v)
    [] t = "i64" -> string_append_i64(b, v)
string_to(t, b) ==
  CASE t = "u32" -> string_to_u32(b)
    [] t = "i32" -> string_to_i32(b)
    [] t = "u64" -> string_to_u64(b)
    [] t = "i64" -> string_to_i64(b)

\* The number is printed into the buffer and read back as a type that may
\* be another one.
PrintAndParse ==
  /\ subject = "number"
  /\ num.type \in PrintedTypes
  /\ \E t \in PrintedTypes :
       LET p == string_from(num.type, buf, num.value)
           r == string_to(t, p.buf)
       IN  /\ p.status = "OK"
           /\ Leave(p)
           /\ Take([ok |-> r.status = "OK", out |-> r.out], num.value, t)
  /\ UNCHANGED <<subject, words>>

-----------------------------------------------------------------------------
(* The text.                                                               *)

\* Numbers worth appending: the ends of the type and the change of sign and
\* of length.  PrintAndParse prints all of them.
Edges(t) == {v \in Values(t) : v - 1 \notin Values(t) \/ v + 1 \notin Values(t) \/ v \in {-1, 0, 10}}

Edit ==
  /\ subject = "text"
  /\ \/ \E s \in Short : Leave(string_copy(buf, s)) \/ Leave(string_concat(buf, s))
     \/ \E n \in 0..(CAPACITY + 1) : Leave(buffer_set_length(buf, n))
     \/ Leave(string_clear(buf))
     \/ Leave(string_c_str(buf))
     \/ \E t \in PrintedTypes : \E v \in Edges(t) : Leave(string_append(t, buf, v))
     \/ \E v \in Edges("u32"), d \in 0..(HEX_DIGITS + 1) :
          Leave(string_append_hex_u32(buf, v, d))
  /\ UNCHANGED <<subject, num, call, words>>

SplitNext ==
  /\ subject = "text"
  /\ LET r == string_split_next(buf, DELIM, split.cursor) IN
     /\ r.status = "OK" /\ r.has
     /\ split' = [cursor |-> r.cursor, tokens |-> Append(split.tokens, r.token)]
  /\ UNCHANGED <<subject, buf, num, call, words>>

-----------------------------------------------------------------------------
(* The message.                                                            *)

WriteWord ==
  /\ subject = "message"
  /\ \E n \in {B16, B32, B64}, order \in {"le", "be"} :
     \E w \in [1..n -> BYTES] :
       LET r == IF order = "le" THEN buffer_write_le(buf, w)
                ELSE buffer_write_be(buf, w)
       IN  /\ Leave(r)
           /\ words' = IF r.status # "OK" THEN words
                       ELSE words \cup {[at |-> buf.length, order |-> order, word |-> w]}
  /\ UNCHANGED <<subject, num, call>>

\* The caller gives bytes back at the end, and the words in them with them.
Shorten ==
  /\ subject = "message"
  /\ \E n \in 0..buf.length :
       LET r == buffer_set_length(buf, n) IN
       /\ Leave(r)
       /\ words' = {w \in words : r.status # "OK" \/ w.at + Len(w.word) <= n}
  /\ UNCHANGED <<subject, num, call>>

UtilitiesNext ==
  \/ SetUp
  \/ Convert \/ Compute \/ PrintAndParse
  \/ Edit \/ SplitNext
  \/ WriteWord \/ Shorten

UtilitiesSpec == UtilitiesInit /\ [][UtilitiesNext]_utilitiesVars

-----------------------------------------------------------------------------
(* Properties.                                                             *)

Cells == CODES \cup BYTES \cup 0..9 \cup 0..(NIBBLE - 1) \cup {NUL, MINUS}

\* A buffer with storage keeps it and never claims more than its capacity;
\* a cursor stays inside the text.
UtilitiesTypeOK ==
  /\ subject \in {"number", "text", "message"}
  /\ buf = NoStorage \/ (capacity(buf) = CAPACITY /\ buf.length \in 0..CAPACITY)
  /\ \A i \in 1..capacity(buf) : buf.data[i] \in Cells
  /\ num.type \in Types /\ num.value \in Values(num.type)
  /\ split.cursor \in 0..buf.length

\* Through any chain of conversions, checked arithmetic, printing and
\* parsing a number is exact (rte_cast.c, rte_string.c): a call is accepted
\* exactly when the value it stands for fits the type asked for, and then
\* that value is what the caller holds.
NumbersStayExact ==
  /\ call.ok <=> call.want \in Values(call.into)
  /\ call.ok /\ call # NoCall => num = [type |-> call.into, value |-> call.want]

\* What decimal text denotes.
Denoted(s) ==
  LET value[i \in 0..Len(s)] == IF i = 0 THEN 0 ELSE 10 * value[i - 1] + s[i]
  IN  value[Len(s)]
IsDecimal(s) == s # <<>> /\ \A i \in 1..Len(s) : IsDigit(s[i])
Reading(t, s) ==
  CASE IsDecimal(s) -> {Denoted(s)}
    [] t \in Signed /\ s # <<>> /\ s[1] = MINUS /\ IsDecimal(Tail(s)) -> {-Denoted(Tail(s))}
    [] OTHER -> {}

\* Whatever the text, rte_string_to_u32/i32/u64/i64() accept it exactly when
\* it denotes a number of that type, and return that number: the running
\* overflow test of the accumulation loop neither wraps nor refuses early.
ParseIsExact ==
  HasStorage(buf) =>
    \A t \in PrintedTypes :
      LET r == string_to(t, buf)
          in == Reading(t, content(buf)) \cap Values(t)
      IN  (r.status = "OK" <=> in # {}) /\ (r.status = "OK" => r.out \in in)

\* The tokens of rte_string_split_next() put together again, each with the
\* delimiter that ended it.
Rejoined(tokens) ==
  LET text[i \in 0..Len(tokens)] ==
        IF i = 0 THEN <<>> ELSE text[i - 1] \o tokens[i] \o <<DELIM>>
  IN  text[Len(tokens)]

\* A split that has come to the end has seen the whole text once: the tokens
\* have no delimiter in them and rejoin to the text, where only a delimiter
\* at the very end makes no further, empty token.
SplitCoversText ==
  /\ \A i \in 1..Len(split.tokens) : ~Contains(split.tokens[i], DELIM)
  /\ Rejoined(split.tokens) \in
       {SubSeq(buf.data, 1, split.cursor), SubSeq(buf.data, 1, split.cursor) \o <<DELIM>>}

\* The search functions agree with each other and with the comparison: the
\* needle is reported exactly where the text first compares equal to it, a
\* needle of one character is found by rte_string_find_char() at the same
\* place, and one that would run past the end of the text is never found.
SearchAgrees ==
  subject = "text" /\ HasStorage(buf) =>
    \A s \in {text \in Short : Len(text) <= CAPACITY} :
      LET needle == string_copy(buf, s).buf
          here(i) == Stored(buf, 0, SubSeq(buffer_as_const(buf).out, i + 1, i + Len(s)), Len(s))
          hits == {i \in 0..CAPACITY : /\ i = 0 \/ bounds_check(i, buf.length)
                                       /\ i + Len(s) <= buf.length
                                       /\ string_compare(here(i), needle) = 0}
          found == string_find_substr(buf, needle)
      IN  /\ found = FirstOf(hits)
          /\ Len(s) = 1 => string_find_char(buf, s[1]) = found

\* Every word written by rte_buffer_write_*_le/be() and not given back reads
\* as itself at its offset in its own byte order, and reads reversed in the
\* other, whatever was written before and after it.
WordsReadBack ==
  \A w \in words :
    LET le == buffer_read_le(buf, w.at, Len(w.word))
        be == buffer_read_be(buf, w.at, Len(w.word))
    IN  /\ le.status = "OK" /\ be.status = "OK"
        /\ (IF w.order = "le" THEN le ELSE be).out = w.word
        /\ (IF w.order = "le" THEN be ELSE le).out = Reverse(w.word)

\* Conversions, checked arithmetic, printing and parsing, of rte_cast.c and
\* rte_string.c, lose nothing: NumbersStayExact and ParseIsExact.
NumbersAreExact == NumbersStayExact /\ ParseIsExact

\* Splitting, searching and byte order, of rte_string.c and rte_buffer.c, see
\* every byte at its place: SplitCoversText, SearchAgrees and WordsReadBack.
LayoutIsKept == SplitCoversText /\ SearchAgrees /\ WordsReadBack
=============================================================================
