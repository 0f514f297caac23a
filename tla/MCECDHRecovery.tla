--------------------------- MODULE MCECDHRecovery ---------------------------
(***************************************************************************)
(* ECDHRecovery for TLC: a one-byte key (Iterations = 7, so clamping       *)
(* leaves bits 3 .. 5 free and the last observed position is 5), key       *)
(* bytes with every value of the free bits and with the clamped bits set   *)
(* or not, every log of up to two marker lines, and one unrelated block    *)
(* with any change sequence.                                               *)
(***************************************************************************)
EXTENDS ECDHRecovery

CONSTANTS o1, o2

MCOffsets == {o1, o2}
MCNoise == [0 .. Iterations - 2 -> {0, 1}]

\* Bits 3 .. 5 take every value; 7 and 199 set clamped bits, 255 all.
MCKeyBytes == {0, 8, 16, 24, 32, 40, 48, 56, 7, 199, 255}

\* The reference meaning of a well-formed log: at least one marker, none
\* with a wrong token count, and the last one holds the whole key.
LogHoldsKey ==
  /\ secretLog # <<>>
  /\ \A i \in DOMAIN secretLog : secretLog[i] # "badtokens"
  /\ secretLog[Len(secretLog)] = "key"

\* Spec 4.7 and 8.4, end to end: from a complete trace and a ground truth
\* of the right length, main reports, and reports the scalar found: the
\* stack block is a candidate, and undoing the ladder from its swaps with
\* the right guess for bit 254 gives the clamped key, whatever the noise.
KeyFoundWhenTraceComplete ==
  Ended /\ complete /\ LogHoldsKey => phase = "reported" /\ found

=============================================================================
