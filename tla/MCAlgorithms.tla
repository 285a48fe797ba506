---------------------------- MODULE MCAlgorithms ----------------------------
(***************************************************************************)
(* Four parts of the library that share no state, in one run: the          *)
(* utilities, the checksum, the election and the state transfer.           *)
(* Every behaviour takes up one of them; the others keep their initial     *)
(* state, one of them where there are several.                             *)
(***************************************************************************)
EXTENDS Utilities, Checksum, Election, StateTransfer

VARIABLE part

-----------------------------------------------------------------------------
(* Constants that are not plain values.                                    *)

\* Digits on both sides of every limit of the scaled types, the sign, the
\* delimiter: the texts 31, 32, 63, 64, -32, -33 and their like all occur.
MCCodes == {1, 2, 3, 4, 6, MINUS, DELIM}

\* No payload, one byte, and one byte more than the message holds.
MCPayloads == {<<>>, <<{0, 3}>>, <<{1}, {2}>>}

MCSize == [f \in FIELDS |-> IF f = "x" THEN 1 ELSE 2]

-----------------------------------------------------------------------------

Init ==
  /\ part \in {"utilities", "checksum", "election", "transfer"}
  /\ UtilitiesInit /\ (part # "utilities" => subject = "text")
  /\ ChecksumInit
  /\ ElectionInit /\ (part # "election" => \A n \in NODES : started[n] = 0)
  /\ TransferInit

Next ==
  \/ part = "utilities" /\ UtilitiesNext
     /\ UNCHANGED <<part, checksumVars, electionVars, transferVars>>
  \/ part = "checksum" /\ ChecksumNext
     /\ UNCHANGED <<part, utilitiesVars, electionVars, transferVars>>
  \/ part = "election" /\ ElectionNext
     /\ UNCHANGED <<part, utilitiesVars, checksumVars, transferVars>>
  \/ part = "transfer" /\ TransferNext
     /\ UNCHANGED <<part, utilitiesVars, checksumVars, electionVars>>

vars == <<part, utilitiesVars, checksumVars, electionVars, transferVars>>

Spec == Init /\ [][Next]_vars

\* Every part keeps its types.
TypeOK == UtilitiesTypeOK /\ ChecksumTypeOK /\ ElectionTypeOK /\ TransferTypeOK
=============================================================================
