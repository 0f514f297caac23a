------------------------- MODULE MCRecoveryOperators -------------------------
(***************************************************************************)
(* The pure operators of the offline key-recovery tools for TLC:           *)
(*  - the digit conversions of keyRecovery.go (ScalarCodec) on every       *)
(*    reduced message digest of a small instance;                          *)
(*  - the candidate-offset scanners (OffsetScan) on every sequence of      *)
(*    snapshots of a small page.                                           *)
(* The input is chosen once in Init and never changes: the operators are   *)
(* pure, so the "behaviours" are just the inputs. A run checks either      *)
(* operator family (input = "codec" or "scan"); the other input is held at *)
(* a fixed value and its properties are not about it.                      *)
(***************************************************************************)
EXTENDS ScalarCodec, OffsetScan

VARIABLES
  input,   \* "codec" or "scan": which operators this behaviour checks
  md,      \* the reduced message digest given to sc25519Window3
  events   \* the MonitorGPA snapshots, events[k].Content

vars == <<input, md, events>>

-----------------------------------------------------------------------------
(***************************************************************************)
(* Digests. NGroups = 1 runs the loop body of sc25519Window3 and of        *)
(* unsignedBToMessageDigestReduced once and their tails once, as 10 and 1  *)
(* do in the code. Byte values with every bit pattern the shifts tell      *)
(* apart in a sample, including 0 (no negative digit), 255 (carries        *)
(* through) and the bytes whose 3-bit fields straddle byte boundaries.     *)
(***************************************************************************)
LowBytes == {0, 4, 7, 36, 73, 128, 146, 200, 255}

\* A reduced scalar is below L < 2^253, so the top byte of the 32 is below 32;
\* here the top byte is below 32 likewise (only bit 4 reaches the last digit).
TopBytes == {0, 1, 16, 17, 31}

Digests ==
  {d \in [0 .. NBytes - 1 -> LowBytes \cup TopBytes] :
     /\ \A j \in 0 .. NBytes - 2 : d[j] \in LowBytes
     /\ d[NBytes - 1] \in TopBytes}

(***************************************************************************)
(* Snapshots. 16-byte alignment and 256-byte blocks become 2 and 4 on a    *)
(* 6-byte page (block larger than alignment, as in the code), the AES      *)
(* block 16 becomes 2. Two cycles of two snapshots give one compared pair  *)
(* per cycle and one pair, (1, 2), that spans the cycles and is not        *)
(* compared. Each snapshot differs from the zero page in one of a few byte *)
(* sets, chosen to put changes in every block, in the last block only, and *)
(* in the gap between aligned blocks.                                      *)
(***************************************************************************)
NEvents == MainLoopCycles * MemAccessesPerCycle

ChangeSets == {{}, {0}, {1}, {3}, {4}, {5}, {0, 5}, {2, 3}}

Snapshots == {[j \in Bytes |-> IF j \in S THEN 1 ELSE 0] : S \in ChangeSets}

Init ==
  \/ /\ input = "codec"
     /\ md \in Digests
     /\ events = [k \in 0 .. NEvents - 1 |-> [j \in Bytes |-> 0]]
  \/ /\ input = "scan"
     /\ md = [j \in 0 .. NBytes - 1 |-> 0]
     /\ events \in [0 .. NEvents - 1 -> Snapshots]

Next == UNCHANGED vars

Spec == Init /\ [][Next]_vars

-----------------------------------------------------------------------------
(***************************************************************************)
(* The signed digits of sc25519Window3 (split, then "making it signed")    *)
(* are the windowed-NAF of the digest: every digit but the last lies in    *)
(* -4 .. 3, and together they have the value of the digest's radix-8      *)
(* digits, whatever carries the int8 arithmetic propagates.                *)
(***************************************************************************)
SignedDigitsOfDigest ==
  input = "codec" =>
    LET s == Sign(Split(md))
    IN  /\ \A k \in 0 .. NDigits - 2 : s[k] \in -4 .. 3
        /\ SameValue(s, Radix8(md))

\* Spec 8.3: signedBToUnsigned then unsignedBToMessageDigestReduced give back
\* the digest bit for bit, for every signed digit string signedBToUnsigned
\* accepts (it panics on one with no negative digit).
RoundTrip ==
  input = "codec" =>
    LET s == Sign(Split(md))
    IN  ~UnsignPanics(s) => Pack(Unsign(s)) = md

-----------------------------------------------------------------------------
\* The pairs getStackBufCandidates compares.
ComparedPairs ==
  {<<c * MemAccessesPerCycle + r, c * MemAccessesPerCycle + r + 1>> :
     c \in 0 .. MainLoopCycles - 1, r \in 0 .. MemAccessesPerCycle - 2}

\* The blocks spec 4.4 says the EdDSA scan reports over those pairs.
ChangedStackBlocks ==
  UNION {BlocksThatDiffer(events[p[1]], events[p[2]],
                          StackBufAlignment, StackBufBytes) : p \in ComparedPairs}

\* The ECDH scanner reports exactly the 16-byte blocks that differ, for any
\* two snapshots it is given (spec 4.4 and 8.5).
AesScanExact ==
  input = "scan" =>
    \A k, l \in DOMAIN events :
      AesBlockOffsetsWithChange(events[k], events[l])
        = BlocksThatDiffer(events[k], events[l], AesBlock, AesBlock)

\* Every offset getStackBufCandidates reports is an aligned stack-buffer
\* window that changed between two snapshots of one cycle: no false
\* candidate from a block overrun or a pair spanning two cycles.
StackBufCandidatesSound ==
  input = "scan" => StackBufCandidates(events) \subseteq ChangedStackBlocks

\* Spec 4.4: every aligned window that changes in a compared pair is a
\* candidate ("false negatives would lose the key").
StackBufCandidatesComplete ==
  input = "scan" => ChangedStackBlocks \subseteq StackBufCandidates(events)

=============================================================================
