--------------------------- MODULE OffsetScanProofs ---------------------------
(***************************************************************************)
(* Proofs about the candidate-offset scanners (OffsetScan), for every page *)
(* size, alignment and block size that ScanAssumption allows and any two   *)
(* snapshots: what the run recovery_operators checks on a 6-byte page.     *)
(***************************************************************************)
EXTENDS OffsetScan, TLAPS

USE ScanAssumption

\* An aligned offset inside a page whose size is a multiple of the
\* alignment leaves room for a whole block.
LEMMA AlignedBlockFits ==
  ASSUME NEW n \in Nat \ {0}, NEW P \in Nat, NEW i \in 0 .. P - 1,
         P % n = 0, i % n = 0
  PROVE  i + n <= P
<1>1. PICK q \in Nat : i = n * q
  <2>1. i = n * (i \div n)
    OBVIOUS
  <2>2. i \div n \in Nat
    OBVIOUS
  <2>3. QED
    BY <2>1, <2>2
<1>2. PICK r \in Nat : P = n * r
  <2>1. P = n * (P \div n)
    OBVIOUS
  <2>2. P \div n \in Nat
    OBVIOUS
  <2>3. QED
    BY <2>1, <2>2
<1>3. q < r
  BY <1>1, <1>2
<1>4. n * q + n <= n * r
  <2>1. q + 1 <= r
    BY <1>3
  <2>2. n * (q + 1) <= n * r
    BY <2>1
  <2>3. QED
    BY <2>2
<1>5. QED
  BY <1>1, <1>2, <1>4

(***************************************************************************)
(* aesBLockAlignedOffsetsWithChange reports exactly the 16-byte blocks     *)
(* that differ between the two snapshots (spec 4.4 and 8.5): looping i up  *)
(* to len(a) loses no block and reads no byte outside the page, because   *)
(* the page size is a multiple of the block.                               *)
(***************************************************************************)
THEOREM AesScanIsExact ==
  ASSUME NEW a, NEW b
  PROVE  AesBlockOffsetsWithChange(a, b) = BlocksThatDiffer(a, b, AesBlock, AesBlock)
<1>1. ASSUME NEW i \in Bytes, i % AesBlock = 0
      PROVE  i + AesBlock <= PageBytes
  BY <1>1, AlignedBlockFits DEF Bytes
<1>2. QED
  BY <1>1 DEF AesBlockOffsetsWithChange, BlocksThatDiffer, BlockChanged

(***************************************************************************)
(* Every offset getUpdatedOffsets reports is an aligned stack-buffer       *)
(* window, inside the page, that differs between the two snapshots: the   *)
(* loop bound len(a) - maxJump keeps the compared block in the page.       *)
(***************************************************************************)
THEOREM UpdatedOffsetsSound ==
  ASSUME NEW a, NEW b
  PROVE  UpdatedOffsets(a, b)
           \subseteq BlocksThatDiffer(a, b, StackBufAlignment, StackBufBytes)
BY DEF UpdatedOffsets, BlocksThatDiffer, BlockChanged, Bytes

(***************************************************************************)
(* getStackBufCandidates reports only such windows, each of a pair of      *)
(* consecutive snapshots of one main-loop cycle.                           *)
(***************************************************************************)
THEOREM StackBufCandidatesInCycle ==
  ASSUME NEW events
  PROVE  StackBufCandidates(events) \subseteq
           UNION {BlocksThatDiffer(events[c * MemAccessesPerCycle + r],
                                   events[c * MemAccessesPerCycle + r + 1],
                                   StackBufAlignment, StackBufBytes) :
                    c \in 0 .. MainLoopCycles - 1,
                    r \in 0 .. MemAccessesPerCycle - 2}
<1>1. ASSUME NEW c \in 0 .. MainLoopCycles - 1, NEW r \in 0 .. MemAccessesPerCycle - 2
      PROVE  UpdatedOffsets(events[c * MemAccessesPerCycle + r],
                            events[c * MemAccessesPerCycle + r + 1])
               \subseteq BlocksThatDiffer(events[c * MemAccessesPerCycle + r],
                                          events[c * MemAccessesPerCycle + r + 1],
                                          StackBufAlignment, StackBufBytes)
  BY UpdatedOffsetsSound
<1>2. SUFFICES ASSUME NEW x \in StackBufCandidates(events)
               PROVE  \E c \in 0 .. MainLoopCycles - 1, r \in 0 .. MemAccessesPerCycle - 2 :
                        x \in BlocksThatDiffer(events[c * MemAccessesPerCycle + r],
                                               events[c * MemAccessesPerCycle + r + 1],
                                               StackBufAlignment, StackBufBytes)
  OBVIOUS
<1>3. PICK c \in 0 .. MainLoopCycles - 1, r \in 0 .. MemAccessesPerCycle - 2 :
        x \in UpdatedOffsets(events[c * MemAccessesPerCycle + r],
                             events[c * MemAccessesPerCycle + r + 1])
  BY DEF StackBufCandidates
<1>4. QED
  BY <1>1, <1>3

=============================================================================
