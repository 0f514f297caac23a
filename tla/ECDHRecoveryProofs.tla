------------------------- MODULE ECDHRecoveryProofs -------------------------
(***************************************************************************)
(* Proofs about the ECDH key recovery (ECDHRecovery), for every number of  *)
(* ladder iterations, set of blocks, noise and marker log that             *)
(* ECDHAssumption allows.                                                  *)
(***************************************************************************)
EXTENDS ECDHRecovery, TLAPS

USE ECDHAssumption

\* The shifts of one byte's bits are positive.
LEMMA ByteShiftPositive ==
  ASSUME NEW e \in 0 .. 7
  PROVE  2^e \in Nat \ {0}
<1>1. CASE e = 0 BY <1>1
<1>2. CASE e = 1 BY <1>2
<1>3. CASE e = 2 BY <1>3
<1>4. CASE e = 3 BY <1>4
<1>5. CASE e = 4 BY <1>5
<1>6. CASE e = 5 BY <1>6
<1>7. CASE e = 6 BY <1>7
<1>8. CASE e = 7 BY <1>8
<1>9. QED
  BY <1>1, <1>2, <1>3, <1>4, <1>5, <1>6, <1>7, <1>8

\* A bit of a byte, shifted down, is 0 or 1.
LEMMA BitValue ==
  ASSUME NEW b \in 0 .. 255, NEW s \in Nat \ {0}
  PROVE  (b \div s) % 2 \in {0, 1}
OBVIOUS

\* The key has a whole number of bytes, eight bits each.
LEMMA KeyLength ==
  NKeyBytes \in Nat \ {0} /\ 8 * NKeyBytes = Iterations + 1
BY DEF NKeyBytes

\* Bit i of a byte sequence, as secretAsBits numbers it, is bit i % 8 of
\* byte i \div 8 + 1.
LEMMA SecretBitAt ==
  ASSUME NEW bytes \in Seq(0 .. 255), NEW i \in Nat, i + 1 \in 1 .. 8 * Len(bytes)
  PROVE  SecretBits(bytes)[i + 1] =
           IF (bytes[i \div 8 + 1] \div 2^(i % 8)) % 2 # 0 THEN 1 ELSE 0
<1>1. (i + 1) - 1 = i
  OBVIOUS
<1>2. SecretBits(bytes)[i + 1] =
        IF (bytes[((i + 1) - 1) \div 8 + 1] \div 2^(((i + 1) - 1) % 8)) % 2 # 0
          THEN 1 ELSE 0
  BY Zenon DEF SecretBits
<1>3. QED
  BY <1>1, <1>2, Zenon

(***************************************************************************)
(* A ground truth that parsed and has 256 bits is the victim's key, read   *)
(* least significant bit first as X25519 does: whatever the log's earlier  *)
(* markers, a truncated last marker is one byte short, and secretAsBits    *)
(* numbers the bits of each byte from bit 0.                               *)
(***************************************************************************)
LEMMA ParsedScalarIsKey ==
  ASSUME key \in [1 .. NKeyBytes -> KeyBytes], CorrectSecret.ok, SecretLenOk
  PROVE  CorrectScalar = KeyToScalar(KeyBits(key))
<1> DEFINE st == MarkerScan(secretLog)
<1>1. key \in Seq(0 .. 255) /\ Len(key) = NKeyBytes
  <2>1. key \in [1 .. NKeyBytes -> 0 .. 255]
    OBVIOUS
  <2>2. QED
    BY <2>1, KeyLength
<1>2. CorrectSecret.bits = SecretBits(MarkerBytes(key, st.value))
  BY DEF CorrectSecret, ParseSecret
<1>3. st.value = "key"
  <2>1. SUFFICES ASSUME st.value # "key" PROVE FALSE
    OBVIOUS
  <2>2. MarkerBytes(key, st.value) = SubSeq(key, 1, NKeyBytes - 1)
    BY <1>1, <2>1 DEF MarkerBytes
  <2>3. Len(SubSeq(key, 1, NKeyBytes - 1)) = NKeyBytes - 1
    BY <1>1, KeyLength
  <2>4. Len(CorrectSecret.bits) = 8 * (NKeyBytes - 1)
    BY <1>2, <2>2, <2>3, KeyLength DEF SecretBits
  <2>5. QED
    BY <2>4, KeyLength DEF SecretLenOk
<1>4. CorrectSecret.bits = SecretBits(key)
  BY <1>2, <1>3 DEF MarkerBytes
<1>5. ASSUME NEW i \in Bits
      PROVE  CorrectSecret.bits[i + 1] = KeyBits(key)[i]
  <2>1. i \div 8 + 1 \in 1 .. NKeyBytes /\ i % 8 \in 0 .. 7
    BY KeyLength DEF Bits
  <2> DEFINE byte == key[i \div 8 + 1]
             shift == 2^(i % 8)
             bit == (byte \div shift) % 2
  <2>2. shift \in Nat \ {0}
    BY <2>1, ByteShiftPositive DEF shift
  <2>3. byte \in 0 .. 255
    BY <1>1, <2>1 DEF byte
  <2>4. bit \in {0, 1}
    BY <2>2, <2>3, BitValue, Zenon DEF bit
  <2>5. KeyBits(key)[i] = bit
    BY Zenon DEF KeyBits, bit, byte, shift
  <2>6. SecretBits(key)[i + 1] = IF bit # 0 THEN 1 ELSE 0
    <3>1. i + 1 \in 1 .. 8 * Len(key)
      BY <1>1, KeyLength DEF Bits
    <3>2. i \in Nat
      BY DEF Bits
    <3>3. QED
      BY <1>1, <3>1, <3>2, SecretBitAt, Zenon DEF bit, byte, shift
  <2>7. QED
    BY <1>4, <2>4, <2>5, <2>6
<1>6. [i \in Bits |-> CorrectSecret.bits[i + 1]] = KeyBits(key)
  BY <1>5 DEF KeyBits
<1>7. QED
  BY <1>6 DEF CorrectScalar


\* The key and the log are fixed, and so is the ground truth parsed from
\* them.
LEMMA GroundTruthFixed ==
  ASSUME key' = key, secretLog' = secretLog
  PROVE  /\ CorrectSecret' = CorrectSecret
         /\ SecretLenOk' = SecretLenOk
         /\ KeyToScalar(KeyBits(key))' = KeyToScalar(KeyBits(key))
BY DEF CorrectSecret, SecretLenOk

\* The recovery starts in the scan with nothing recovered or judged.
LEMMA InitRecoveryInv ==
  Init => RecoveryInv
<1> SUFFICES ASSUME Init PROVE RecoveryInv
  OBVIOUS
<1>1. DOMAIN recovered = {}
  BY DEF Init
<1>2. QED
  BY <1>1 DEF Init, RecoveryInv, TypeOK, CorrectOnlyTrueKey

(***************************************************************************)
(* Every step of main keeps RecoveryInv. The steps that only move phase to *)
(* an end state change nothing the invariant reads but phase; Scan and     *)
(* RecoverSwaps run while nothing is judged; ParseOk starts the compare    *)
(* loop on the candidates once all are recovered and the log has parsed;   *)
(* Compare judges a pair against the parsed ground truth, which is the     *)
(* victim's key by ParsedScalarIsKey.                                      *)
(***************************************************************************)
LEMMA RecoveryInvStep ==
  RecoveryInv /\ [Next]_vars => RecoveryInv'
<1> SUFFICES ASSUME RecoveryInv, [Next]_vars PROVE RecoveryInv'
  OBVIOUS
<1>0. /\ key' = key /\ secretLog' = secretLog
      /\ CorrectSecret' = CorrectSecret /\ SecretLenOk' = SecretLenOk
      /\ KeyToScalar(KeyBits(key))' = KeyToScalar(KeyBits(key))
  <2>1. key' = key /\ secretLog' = secretLog
    BY DEF Next, vars, ScanFatal, Scan, ParseFails, ParseOk, Report,
           RecoverSwaps, CompareCrashes, Compare
  <2>2. QED
    BY <2>1, GroundTruthFixed
\* A step to an end state that changes nothing else.
<1>1. ASSUME phase' \in {"reported", "returned", "crashed"},
             UNCHANGED <<key, secretLog, complete, obs, candidates, recovered,
                         todo, correct>>
      PROVE  RecoveryInv'
  BY <1>0, <1>1 DEF RecoveryInv, TypeOK, CorrectOnlyTrueKey
<1>2. CASE ScanFatal
  BY <1>1, <1>2 DEF ScanFatal
<1>3. CASE ParseFails
  BY <1>1, <1>3 DEF ParseFails
<1>4. CASE Report
  BY <1>1, <1>4 DEF Report
<1>5. ASSUME NEW o \in Offsets, NEW g \in {0, 1}, CompareCrashes(o, g)
      PROVE  RecoveryInv'
  BY <1>1, <1>5 DEF CompareCrashes
<1>6. CASE Scan
  <2>1. correct = {} /\ DOMAIN recovered = {} /\ todo = {}
    BY <1>6 DEF Scan, RecoveryInv
  <2>2. TypeOK'
    BY <1>6, <2>1 DEF Scan, RecoveryInv, TypeOK
  <2>3. QED
    BY <1>6, <2>1, <2>2 DEF Scan, RecoveryInv, CorrectOnlyTrueKey
<1>7. CASE ParseOk
  <2>1. correct = {}
    BY <1>7 DEF ParseOk, RecoveryInv
  <2>2. TypeOK'
    BY <1>0, <1>7 DEF ParseOk, RecoveryInv, TypeOK
  <2>3. QED
    BY <1>0, <1>7, <2>1, <2>2 DEF ParseOk, RecoveryInv, CorrectOnlyTrueKey
<1>8. ASSUME NEW o \in Offsets, RecoverSwaps(o)
      PROVE  RecoveryInv'
  <2>1. correct = {} /\ o \in candidates
    BY <1>8 DEF RecoverSwaps, RecoveryInv
  <2>2. DOMAIN recovered' = DOMAIN recovered \cup {o}
    BY <1>8 DEF RecoverSwaps
  <2>3. TypeOK'
    BY <1>0, <1>8, <2>1, <2>2 DEF RecoverSwaps, RecoveryInv, TypeOK
  <2>4. QED
    BY <1>8, <2>1, <2>3 DEF RecoverSwaps, RecoveryInv, CorrectOnlyTrueKey
<1>9. ASSUME NEW o \in Offsets, NEW g \in {0, 1}, Compare(o, g)
      PROVE  RecoveryInv'
  <2>1. /\ phase = "compare" /\ <<o, g>> \in todo /\ SecretLenOk
        /\ DOMAIN recovered = candidates /\ CorrectSecret.ok
        /\ key \in [1 .. NKeyBytes -> KeyBytes]
    BY <1>9 DEF Compare, RecoveryInv, TypeOK
  <2>2. CorrectScalar = KeyToScalar(KeyBits(key))
    BY <2>1, ParsedScalarIsKey
  <2>3. correct' \subseteq correct \cup {<<o, g>>}
    BY <1>9 DEF Compare
  <2>4. TypeOK'
    BY <1>0, <1>9, <2>1, <2>3 DEF Compare, RecoveryInv, TypeOK
  <2>5. ASSUME NEW p \in correct'
        PROVE  ~HadError(RecoverScalar(WithGuess(recovered[p[1]], p[2])),
                         KeyToScalar(KeyBits(key)))
    <3>1. CASE p \in correct
      BY <3>1 DEF RecoveryInv, CorrectOnlyTrueKey
    <3>2. CASE p \notin correct
      <4>1. p = <<o, g>>
        BY <2>3, <3>2
      <4>2. ~HadError(RecoverScalar(WithGuess(recovered[o], g)), CorrectScalar)
        BY <1>9, <3>2, <4>1 DEF Compare
      <4>3. QED
        BY <2>2, <4>1, <4>2
    <3>3. QED
      BY <3>1, <3>2
  <2>6. CorrectOnlyTrueKey'
    BY <1>0, <1>9, <2>5 DEF Compare, CorrectOnlyTrueKey
  <2>7. QED
    BY <1>0, <1>9, <2>1, <2>4, <2>6 DEF Compare, RecoveryInv
<1>10. CASE UNCHANGED vars
  BY <1>0, <1>10 DEF vars, RecoveryInv, TypeOK, CorrectOnlyTrueKey
<1>11. QED
  BY <1>2, <1>3, <1>4, <1>5, <1>6, <1>7, <1>8, <1>9, <1>10 DEF Next

\* RecoveryInv holds in every state of the recovery.
THEOREM RecoveryInvariant ==
  Spec => []RecoveryInv
BY InitRecoveryInv, RecoveryInvStep, PTL DEF Spec

\* Whatever the log and the noise, every block and guess main prints with
\* "correct? = true" (line 268) gives the victim's real scalar.
THEOREM CorrectOnlyTrueKeyInvariant ==
  Spec => []CorrectOnlyTrueKey
BY RecoveryInvariant, PTL DEF RecoveryInv

\* The recovery's variables keep their types; in particular the compare
\* loop only visits candidate blocks (line 241).
THEOREM TypeCorrect ==
  Spec => []TypeOK
BY RecoveryInvariant, PTL DEF RecoveryInv

=============================================================================
