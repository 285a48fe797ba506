------------------------------ MODULE Checksum ------------------------------
(***************************************************************************)
(* The CRC-64 and the vital message of redundancy/checksum/rte_checksum.c, *)
(* with the polynomials and the tables of the code and a network that      *)
(* damages what it carries.                                                *)
(*                                                                         *)
(* A byte and a checksum are the sets of their one bits, so that exclusive *)
(* or is the symmetric difference and the checksum is the real 64-bit one; *)
(* only the message is short: a sequence number, a size and a payload of   *)
(* PAYLOAD bytes.  The counters of rte_checksum_get_stats() are left out.  *)
(***************************************************************************)
EXTENDS Integers, SequencesExt

CONSTANTS PAYLOAD,      \* sizeof(payload): 248 in the code
          SEQUENCES,    \* the sequence numbers in use, in 0..255
          PAYLOADS      \* the payloads in use, as sequences of bytes

ASSUME ChecksumAssumption == PAYLOAD \in Nat /\ PAYLOADS \subseteq Seq(SUBSET (0..7))

VARIABLES polynomial,   \* g_checksum_manager: the selected polynomial, or "none"
          msg,          \* the message: its bytes and its checksum
          sent,         \* what the sender put in, or <<>>
          out           \* what the receiver accepted last, or <<>>

checksumVars == <<polynomial, msg, sent, out>>

Xor(a, b) == (a \ b) \cup (b \ a)
ShiftRight(a, n) == {i - n : i \in {j \in a : j >= n}}

\* The bits of 0x1D4F63B86E40E541, 0x000000000000001B and 0x142F0E1EBA9EA3C3.
ERTMS == {0, 6, 8, 10, 13, 14, 15, 22, 25, 26, 27, 29, 30, 35, 36, 37, 39, 40,
          41, 45, 46, 48, 49, 50, 51, 54, 56, 58, 59, 60}
ISO   == {0, 1, 3, 4}
XZ    == {0, 1, 6, 7, 8, 9, 13, 15, 17, 18, 19, 20, 23, 25, 27, 28, 29, 31, 33,
          34, 35, 36, 41, 42, 43, 48, 49, 50, 51, 53, 58, 60}

\* One step of the division by poly, and the table entry of a byte: eight.
Divide(poly, c) == IF 0 \in c THEN Xor(ShiftRight(c, 1), poly) ELSE ShiftRight(c, 1)
Entry(poly, byte) ==
  LET crc[i \in 0..8] == IF i = 0 THEN byte ELSE Divide(poly, crc[i - 1]) IN crc[8]

g_crc64_ertms_table == [byte \in SUBSET (0..7) |-> Entry(ERTMS, byte)]
g_crc64_iso_table == [byte \in SUBSET (0..7) |-> Entry(ISO, byte)]
g_crc64_xz_table == [byte \in SUBSET (0..7) |-> Entry(XZ, byte)]

Table(name) ==
  CASE name = "ERTMS" -> g_crc64_ertms_table
    [] name = "ISO"   -> g_crc64_iso_table
    [] name = "XZ"    -> g_crc64_xz_table

AllOnes == 0..63

\* Mutant: the register is not combined with the data byte.
crc64_ignores_register(data) ==
  LET crc[i \in 0..Len(data)] ==
        IF i = 0 THEN AllOnes
        ELSE LET c == crc[i - 1] IN Xor(ShiftRight(c, 8), Table(polynomial)[c \cap 0..7])
  IN  IF polynomial = "none" THEN {} ELSE Xor(AllOnes, crc[Len(data)])

\* rte_checksum_crc64(): 0, which is no checksum, before the initialisation.
crc64(data) ==
  LET crc[i \in 0..Len(data)] ==    \* after i bytes
        IF i = 0 THEN AllOnes
        ELSE LET c == crc[i - 1]
             IN  Xor(ShiftRight(c, 8), Table(polynomial)[Xor(c, data[i]) \cap 0..7])
  IN  IF polynomial = "none" THEN {} ELSE Xor(AllOnes, crc[Len(data)])

\* rte_checksum_crc64_verify()
crc64_verify(data, expected) ==
  IF polynomial = "none" THEN "NOT_INITIALIZED"
  ELSE IF crc64(data) = expected THEN "OK"
  ELSE "DATA_CORRUPTION"

-----------------------------------------------------------------------------
(* The vital message.                                                      *)

Byte(n) == {i \in 0..7 : (n \div 2^i) % 2 = 1}
Number(byte) == FoldLeft(LAMBDA n, i : 2 * n + (IF 8 - i \in byte THEN 1 ELSE 0),
                         0, [i \in 1..8 |-> i])

\* The struct: sequence_number, payload_size, the zero-filled payload.
Layout(sequence, payload) ==
  <<Byte(sequence), Byte(Len(payload))>>
    \o [i \in 1..PAYLOAD |-> IF i <= Len(payload) THEN payload[i] ELSE {}]
Zeroed == [bytes |-> Layout(0, <<>>), crc |-> {}]

SequenceOf(m) == Number(m.bytes[1])
PayloadOf(m) == SubSeq(m.bytes, 3, 2 + Number(m.bytes[2]))

ChecksumInit ==
  /\ polynomial = "none"
  /\ msg = Zeroed
  /\ sent = <<>>
  /\ out = <<>>

\* rte_checksum_crc64_init(): once; an unknown value selects nothing.
Crc64Init ==
  /\ polynomial = "none"
  /\ polynomial' \in {"ERTMS", "ISO", "XZ"}
  /\ UNCHANGED <<msg, sent, out>>

\* rte_checksum_vital_message_create(): refused for a payload that is too
\* long and before the initialisation.
Create ==
  /\ \E sequence \in SEQUENCES, payload \in PAYLOADS :
       /\ Len(payload) <= PAYLOAD
       /\ polynomial # "none"
       /\ msg' = [bytes |-> Layout(sequence, payload),
                  crc   |-> crc64(Layout(sequence, payload))]
       /\ sent' = [sequence |-> sequence, payload |-> payload]
  /\ out' = <<>>
  /\ UNCHANGED polynomial

\* The network changes one byte in any way, or any two bits, of a message
\* that it has not changed yet.
ByteOfCrc(k, pattern) == {8 * k + i : i \in pattern}
Bit(p) == IF p < 8 * Len(msg.bytes)
          THEN [bytes |-> [i \in 1..Len(msg.bytes) |-> IF i = p \div 8 + 1 THEN {p % 8} ELSE {}],
                crc |-> {}]
          ELSE [bytes |-> [i \in 1..Len(msg.bytes) |-> {}], crc |-> {p - 8 * Len(msg.bytes)}]
Damaged(m, change) ==
  [bytes |-> [i \in 1..Len(m.bytes) |-> Xor(m.bytes[i], change.bytes[i])],
   crc   |-> Xor(m.crc, change.crc)]
Intact == sent # <<>> /\ msg.bytes = Layout(sent.sequence, sent.payload)
                      /\ msg.crc = crc64(msg.bytes)

Damage ==
  /\ Intact
  /\ \/ \E k \in 1..Len(msg.bytes), pattern \in SUBSET (0..7) \ {{}} :
          msg' = [msg EXCEPT !.bytes[k] = Xor(@, pattern)]
     \/ \E k \in 0..7, pattern \in SUBSET (0..7) \ {{}} :
          msg' = [msg EXCEPT !.crc = Xor(@, ByteOfCrc(k, pattern))]
     \/ \E p, q \in 0..(8 * Len(msg.bytes) + 63) :
          /\ p < q
          /\ msg' = Damaged(Damaged(msg, Bit(p)), Bit(q))
  /\ out' = <<>>
  /\ UNCHANGED <<polynomial, sent>>

\* rte_checksum_vital_message_verify(): the checksum first, then the sequence
\* number, then the size against the caller's buffer.
vital_message_verify(m, expected, payload_max_size) ==
  LET checked == crc64_verify(m.bytes, m.crc) IN
  IF checked # "OK" THEN checked
  ELSE IF SequenceOf(m) # expected THEN "DATA_CORRUPTION"
  ELSE IF Number(m.bytes[2]) > payload_max_size THEN "INVALID_PARAM"
  ELSE "OK"

Verify ==
  /\ \E expected \in SEQUENCES \cup {0}, limit \in {0, PAYLOAD} :
       out' = IF vital_message_verify(msg, expected, limit) = "OK"
              THEN [sequence |-> expected, payload |-> PayloadOf(msg)]
              ELSE <<>>
  /\ UNCHANGED <<polynomial, msg, sent>>

ChecksumNext == Crc64Init \/ Create \/ Damage \/ Verify

ChecksumSpec == ChecksumInit /\ [][ChecksumNext]_checksumVars

-----------------------------------------------------------------------------
(* Properties.                                                             *)

ChecksumTypeOK ==
  /\ polynomial \in {"none", "ERTMS", "ISO", "XZ"}
  /\ Len(msg.bytes) = PAYLOAD + 2 /\ msg.crc \subseteq 0..63

\* What rte_checksum_vital_message_verify() hands over is what create() was
\* given, with the sequence number the receiver expects: under the ERTMS and
\* the XZ table every change of one byte or of two bits, in the fields, in
\* the payload or in the checksum itself, is detected, and so is a zeroed
\* message that nobody created, before and after the initialisation.
AcceptedIsAsSent ==
  polynomial # "ISO" /\ out # <<>> => out = sent

=============================================================================
