----------------------------- MODULE ECDHRecovery -----------------------------
(***************************************************************************)
(* The offline swap-bit recovery of cmd/pfOSSLRecoverECDHKey/main.go       *)
(* (lines 120-283, parseSecretFromOpensslLog2, recoverScalarFromX25519Swaps,*)
(* x25519KeyToScalar).                                                     *)
(*                                                                         *)
(* Iterations stands for mainLoopIterations = 255: the scalar has bits     *)
(* 0 .. Iterations, the victim's Montgomery ladder swaps at positions      *)
(* Iterations-1 down to 0, and the snapshots show the swaps of positions   *)
(* Iterations-2 .. 0 (unknownHighBits = 1). For every 16-byte block o of   *)
(* the stack page, obs[o][i] is 1 iff the block differs between the base-  *)
(* and fe64-page snapshots of position i (bytes.Equal at line 200); both   *)
(* scanning loops compare the same snapshot pairs, so a block is in        *)
(* offsetsWithChange iff some obs[o][i] is 1.                              *)
(*                                                                         *)
(* OpenSSL is not in this repository: the victim side (the ladder's        *)
(* swap = bit(pos) XOR bit(pos+1), starting from swap = 0) is modelled     *)
(* from spec 4.7.                                                          *)
(*                                                                         *)
(* The ground truth is the last "secretFromOpenSSL" line of the log. A     *)
(* marker line is abstracted to what parseSecretFromOpensslLog2 tells      *)
(* apart: "key" (the victim's key in hex), "short" (the key without its    *)
(* last byte, a truncated line), "empty" (nothing after the space),        *)
(* "badhex" (a second token that does not decode) and "badtokens" (not two *)
(* space-separated tokens).                                                *)
(***************************************************************************)
EXTENDS Integers, Sequences

CONSTANTS
  Iterations,   \* mainLoopIterations (255)
  Offsets,      \* the 16-aligned blocks of the stack page
  TrueOffset,   \* the block holding the ladder's swapped field elements
  NoiseSeqs,    \* the change sequences an unrelated block may show
  KeyBytes,     \* the byte values of the victim's key
  MaxMarkers    \* the most "secretFromOpenSSL" lines in a log

ASSUME ECDHAssumption ==
  /\ Iterations \in Nat /\ Iterations >= 4 /\ (Iterations + 1) % 8 = 0
  /\ TrueOffset \in Offsets
  /\ NoiseSeqs \subseteq [0 .. Iterations - 2 -> {0, 1}]
  /\ KeyBytes \subseteq 0 .. 255
  /\ MaxMarkers \in Nat

VARIABLES
  key,         \* the victim's 32-byte X25519 private key (fixed)
  secretLog,   \* the marker lines of the log, in order (fixed)
  complete,    \* the trace has events for every indexed snapshot (fixed)
  obs,         \* obs[o][i]: the block o changed at swap position i
  candidates,  \* offsetsWithChange
  recovered,   \* recoveredSwapSequences
  todo,        \* <<offset, bit254Guess>> pairs the compare loop has left
  correct,     \* the <<offset, guess>> pairs printed with "correct? = true"
  phase        \* "scan", "recover", "compare", "reported", "returned", "crashed"

vars == <<key, secretLog, complete, obs, candidates, recovered, todo, correct,
          phase>>

Bits == 0 .. Iterations               \* the 256 scalar bits
NKeyBytes == (Iterations + 1) \div 8

MarkerKinds == {"key", "short", "empty", "badhex", "badtokens"}
MarkerLogs == UNION {[1 .. n -> MarkerKinds] : n \in 0 .. MaxMarkers}

\* The victim's key as scalar bits: X25519 reads the key little-endian
\* (RFC 7748 decodeScalar25519).
KeyBits(k) == [i \in Bits |-> (k[i \div 8 + 1] \div 2^(i % 8)) % 2]
Observed == 0 .. Iterations - 2       \* swapSequenceBitIDX 253 .. 0

Xor(x, y) == (x + y) % 2

\* x25519KeyToScalar: the clamping of OpenSSL's curve25519.c.
KeyToScalar(bits) ==
  [i \in Bits |-> CASE i \in 0 .. 2        -> 0
                    [] i = Iterations      -> 0
                    [] i = Iterations - 1  -> 1
                    [] OTHER               -> bits[i]]

\* The victim's ladder (spec 4.7): the swap at position p is the XOR of
\* scalar bits p and p+1; bit Iterations is 0 after clamping, as the
\* initial swap.
Swaps(k) == [p \in 0 .. Iterations - 1 |-> Xor(k[p], k[p + 1])]

\* Mutant: recoveredSecret[254] is left at 0 instead of the swap there.
RecoverScalarTopUnset(seq) ==
  LET r[i \in Bits] ==
        CASE i = Iterations     -> 0
          [] i = Iterations - 1 -> 0
          [] OTHER              -> Xor(r[i + 1], seq[i])
  IN  r

\* recoverScalarFromX25519Swaps: bit Iterations is 0, bit Iterations-1 is
\* the swap there, and below it each bit is the XOR of the bit above and the
\* swap (lines 424-434).
RecoverScalar(seq) ==
  LET r[i \in Bits] ==
        CASE i = Iterations     -> 0
          [] i = Iterations - 1 -> seq[Iterations - 1]
          [] OTHER              -> Xor(r[i + 1], seq[i])
  IN  r

\* The swap sequence of line 170 with swapSequence[254] set to the guess.
WithGuess(seq, g) == [p \in 0 .. Iterations - 1 |->
                        IF p = Iterations - 1 THEN g ELSE seq[p]]

\* hadError: a mismatch among bits 0 .. Iterations-2 (lines 252-265).
HadError(rec, want) == \E i \in 0 .. Iterations - 2 : rec[i] # want[i]

-----------------------------------------------------------------------------
(***************************************************************************)
(* parseSecretFromOpensslLog2 (lines 364-409).                             *)
(***************************************************************************)
\* One marker line of the scanner loop (lines 368-380): a line with the
\* wrong token count returns an error at once; otherwise its second token
\* replaces openSSLSecretString ("empty" stands for "").
MarkerStep(st, m) ==
  IF st.err THEN st
  ELSE IF m = "badtokens" THEN [st EXCEPT !.err = TRUE]
  ELSE [st EXCEPT !.value = m]

\* The scanner loop (lines 367-380) over the marker lines, in order.
MarkerScan(log) ==
  LET st[i \in 0 .. Len(log)] ==
        IF i = 0 THEN [err |-> FALSE, value |-> "empty"]
                 ELSE MarkerStep(st[i - 1], log[i])
  IN  st[Len(log)]

\* The bytes hex.DecodeString returns for a decodable marker (line 391).
MarkerBytes(k, m) == IF m = "key" THEN k ELSE SubSeq(k, 1, Len(k) - 1)

\* Mutant: the bits of a byte are appended most significant first.
SecretBitsMSBFirst(bytes) ==
  [i \in 1 .. 8 * Len(bytes) |->
     IF (bytes[(i - 1) \div 8 + 1] \div 2^(7 - ((i - 1) % 8))) % 2 # 0 THEN 1 ELSE 0]

\* secretAsBits (lines 396-406): for each byte, bitIDX 0 .. 7 in turn, 1 iff
\* byteValue & (1 << bitIDX) is not 0. Entry i is Go's secretAsBits[i-1].
SecretBits(bytes) ==
  [i \in 1 .. 8 * Len(bytes) |->
     IF (bytes[(i - 1) \div 8 + 1] \div 2^((i - 1) % 8)) % 2 # 0 THEN 1 ELSE 0]

\* The result: ok = FALSE for an error (a bad token count, no marker or an
\* empty one, undecodable hex), else the bits of the last marker.
ParseSecret(k, log) ==
  LET st == MarkerScan(log)
  IN  IF st.err \/ st.value \in {"empty", "badhex"}
        THEN [ok |-> FALSE, bits |-> <<>>]
        ELSE [ok |-> TRUE, bits |-> SecretBits(MarkerBytes(k, st.value))]

\* correctSecret, as main sees it after line 224.
CorrectSecret == ParseSecret(key, secretLog)

\* x25519KeyToScalar succeeds only on 256 bits (lines 442-445).
SecretLenOk == Len(CorrectSecret.bits) = Iterations + 1

\* correctScalar, once the length is right (Go index i is entry i + 1).
CorrectScalar == KeyToScalar([i \in Bits |-> CorrectSecret.bits[i + 1]])

Init ==
  /\ key \in [1 .. NKeyBytes -> KeyBytes]
  /\ secretLog \in MarkerLogs
  /\ complete \in BOOLEAN
  /\ \E noise \in [Offsets \ {TrueOffset} -> NoiseSeqs] :
       obs = [o \in Offsets |->
                IF o = TrueOffset
                THEN [i \in Observed |-> Swaps(KeyToScalar(KeyBits(key)))[i]]
                ELSE noise[o]]
  /\ candidates = {}
  /\ recovered = [o \in {} |-> <<>>]
  /\ todo = {}
  /\ correct = {}
  /\ phase = "scan"

\* Lines 120-149: log.Fatalf when a snapshot index runs past the trace.
ScanFatal ==
  /\ phase = "scan" /\ ~complete
  /\ phase' = "crashed"
  /\ UNCHANGED <<key, secretLog, complete, obs, candidates, recovered,
                 todo, correct>>

\* Lines 120-149, 159: the blocks that change at some observed position.
Scan ==
  /\ phase = "scan" /\ complete
  /\ candidates' = {o \in Offsets : \E i \in Observed : obs[o][i] = 1}
  /\ phase' = "recover"
  /\ UNCHANGED <<key, secretLog, complete, obs, recovered, todo, correct>>

\* Lines 165-213, one offset: a zero-initialised sequence of 255 entries
\* gets bit i = obs[o][i] for the observed positions.
RecoverSwaps(o) ==
  /\ phase = "recover" /\ o \in candidates \ DOMAIN recovered
  /\ recovered' = [x \in DOMAIN recovered \cup {o} |->
                     IF x = o THEN [p \in 0 .. Iterations - 1 |->
                                      IF p \in Observed THEN obs[o][p] ELSE 0]
                              ELSE recovered[x]]
  /\ UNCHANGED <<key, secretLog, complete, obs, candidates, todo, correct,
                 phase>>

\* Lines 215-228: the ground truth is parsed from the log; on an error
\* main returns.
ParseFails ==
  /\ phase = "recover" /\ DOMAIN recovered = candidates
  /\ ~CorrectSecret.ok
  /\ phase' = "returned"
  /\ UNCHANGED <<key, secretLog, complete, obs, candidates, recovered,
                 todo, correct>>

\* Mutant: the compare loop ranges over every block, changed or not.
ParseOkAllOffsets ==
  /\ phase = "recover" /\ DOMAIN recovered = candidates
  /\ CorrectSecret.ok
  /\ todo' = Offsets \X {0, 1}
  /\ phase' = "compare"
  /\ UNCHANGED <<key, secretLog, complete, obs, candidates, recovered,
                 correct>>

\* Lines 224-241: parsed; the compare loop visits every offset and guess.
ParseOk ==
  /\ phase = "recover" /\ DOMAIN recovered = candidates
  /\ CorrectSecret.ok
  /\ todo' = candidates \X {0, 1}
  /\ phase' = "compare"
  /\ UNCHANGED <<key, secretLog, complete, obs, candidates, recovered,
                 correct>>

\* Lines 229-236 only log a wrong length: x25519KeyToScalar returns nil
\* and line 255 indexes it.
CompareCrashes(o, g) ==
  /\ phase = "compare" /\ <<o, g>> \in todo
  /\ ~SecretLenOk
  /\ phase' = "crashed"
  /\ UNCHANGED <<key, secretLog, complete, obs, candidates, recovered,
                 todo, correct>>

\* Lines 242-276: one guess for bit 254 of one offset's sequence.
Compare(o, g) ==
  /\ phase = "compare" /\ <<o, g>> \in todo
  /\ SecretLenOk
  /\ correct' = IF HadError(RecoverScalar(WithGuess(recovered[o], g)), CorrectScalar)
                 THEN correct ELSE correct \cup {<<o, g>>}
  /\ todo' = todo \ {<<o, g>>}
  /\ UNCHANGED <<key, secretLog, complete, obs, candidates, recovered,
                 phase>>

\* Line 278: "Found Correct Scalar?".
Report ==
  /\ phase = "compare" /\ todo = {}
  /\ phase' = "reported"
  /\ UNCHANGED <<key, secretLog, complete, obs, candidates, recovered,
                 todo, correct>>

Next ==
  \/ ScanFatal \/ Scan \/ ParseFails \/ ParseOk \/ Report
  \/ \E o \in Offsets :
       \/ RecoverSwaps(o)
       \/ \E g \in {0, 1} : CompareCrashes(o, g) \/ Compare(o, g)

Spec == Init /\ [][Next]_vars

\* foundSecret (lines 273-275).
found == correct # {}

\* main has returned (or died).
Ended == phase \in {"reported", "returned", "crashed"}

-----------------------------------------------------------------------------
\* The recovery's variables keep their types: the compare loop only ever
\* sees candidate blocks, with both guesses for bit 254.
TypeOK ==
  /\ key \in [1 .. NKeyBytes -> KeyBytes]
  /\ secretLog \in MarkerLogs
  /\ candidates \subseteq Offsets
  /\ DOMAIN recovered \subseteq candidates
  /\ todo \subseteq candidates \X {0, 1}
  /\ correct \subseteq candidates \X {0, 1}
  /\ phase \in {"scan", "recover", "compare", "reported", "returned", "crashed"}

\* The compare loop judges candidates against the log, not the victim: a
\* block and guess printed "correct? = true" (line 268) must still give the
\* scalar of the victim's real key, whatever the log's markers and however
\* the noise looks. A misread log (the bit order of secretAsBits, a last
\* marker one byte short) would let a noisy block pass for the key. Every
\* marker holds the victim's key, whole or truncated: a log of another key
\* is not modelled.
CorrectOnlyTrueKey ==
  \A p \in correct :
    ~HadError(RecoverScalar(WithGuess(recovered[p[1]], p[2])),
              KeyToScalar(KeyBits(key)))

(***************************************************************************)
(* What makes CorrectOnlyTrueKey and TypeOK inductive: nothing is          *)
(* recovered before the scan has chosen the candidates, nothing is judged  *)
(* before the compare loop, which starts only once every candidate's       *)
(* sequence is recovered and the log has parsed, and a judged pair was     *)
(* compared with a ground truth of the right length.                       *)
(***************************************************************************)
RecoveryInv ==
  /\ TypeOK
  /\ phase = "scan" => DOMAIN recovered = {} /\ todo = {}
  /\ phase \in {"scan", "recover"} => correct = {}
  /\ phase = "compare" => DOMAIN recovered = candidates /\ CorrectSecret.ok
  /\ correct # {} =>
       DOMAIN recovered = candidates /\ CorrectSecret.ok /\ SecretLenOk
  /\ CorrectOnlyTrueKey

=============================================================================
