------------------------------ MODULE OffsetScan ------------------------------
(***************************************************************************)
(* The candidate-offset scanners of the offline tools:                     *)
(*  - getUpdatedOffsets (pfOSSHRecoverEdDSAKey/scAnalysis.go 31-60) and    *)
(*    its accumulation over the snapshot pairs of every main-loop cycle,   *)
(*    getStackBufCandidates (lines 13-29);                                 *)
(*  - aesBLockAlignedOffsetsWithChange (pfOSSLRecoverECDHKey/main.go       *)
(*    285-306), the fixed 16-byte variant.                                 *)
(* A snapshot is a function from 0 .. PageBytes-1 to byte values; the XOR  *)
(* of two bytes is non-zero exactly when they differ, which is all the     *)
(* scanners test, so bytes are compared with #.                            *)
(***************************************************************************)
EXTENDS Integers

CONSTANTS
  PageBytes,           \* len(a): 4096 in the code
  StackBufAlignment,   \* byteAlignment: 16
  StackBufBytes,       \* blockSizeBytes: 256
  AesBlock,            \* the literal 16 of the ECDH scanner
  MainLoopCycles,      \* attackConfig.MainLoopCycles: 85
  MemAccessesPerCycle  \* attackConfig.MemAccessesPerCycle: 10

ASSUME ScanAssumption ==
  /\ PageBytes \in Nat \ {0}
  /\ {StackBufAlignment, StackBufBytes, AesBlock} \subseteq Nat \ {0}
  /\ PageBytes % AesBlock = 0
  /\ MainLoopCycles \in Nat /\ MemAccessesPerCycle \in Nat \ {0}

Bytes == 0 .. PageBytes - 1

\* The block at i of size n has a byte that differs in a and b: the inner
\* j loop with its early break.
BlockChanged(a, b, i, n) == \E j \in i .. i + n - 1 : a[j] # b[j]

\* Mutant: the compared block reaches one byte past blockSizeBytes.
UpdatedOffsetsWideBlock(a, b) ==
  LET maxJump == IF StackBufAlignment > StackBufBytes THEN StackBufAlignment
                                                       ELSE StackBufBytes
  IN  {i \in Bytes : /\ i % StackBufAlignment = 0
                     /\ i < PageBytes - maxJump
                     /\ BlockChanged(a, b, i, StackBufBytes + 1)}

\* getUpdatedOffsets: i runs over multiples of byteAlignment while
\* i < len(a) - maxJump, maxJump the larger of alignment and block size.
UpdatedOffsets(a, b) ==
  LET maxJump == IF StackBufAlignment > StackBufBytes THEN StackBufAlignment
                                                       ELSE StackBufBytes
  IN  {i \in Bytes : /\ i % StackBufAlignment = 0
                     /\ i < PageBytes - maxJump
                     /\ BlockChanged(a, b, i, StackBufBytes)}

\* getStackBufCandidates: the pairs (r, r+1) inside every cycle's
\* MemAccessesPerCycle snapshots; a pair never spans two cycles.
StackBufCandidates(events) ==
  UNION {UpdatedOffsets(events[c * MemAccessesPerCycle + r],
                        events[c * MemAccessesPerCycle + r + 1]) :
           c \in 0 .. MainLoopCycles - 1, r \in 0 .. MemAccessesPerCycle - 2}

\* Mutant: the loop bound of getUpdatedOffsets, i < len(a) - 16.
AesBlockOffsetsShortLoop(a, b) ==
  {i \in Bytes : /\ i % AesBlock = 0 /\ i < PageBytes - AesBlock
                 /\ BlockChanged(a, b, i, AesBlock)}

\* aesBLockAlignedOffsetsWithChange: every 16-aligned i < len(a).
AesBlockOffsetsWithChange(a, b) ==
  {i \in Bytes : i % AesBlock = 0 /\ BlockChanged(a, b, i, AesBlock)}

-----------------------------------------------------------------------------
\* Reference (spec 4.4): the blocks of size n at every multiple of the
\* alignment that lie in the page and differ.
BlocksThatDiffer(a, b, align, n) ==
  {i \in Bytes : /\ i % align = 0
                 /\ i + n <= PageBytes
                 /\ \E j \in i .. i + n - 1 : a[j] # b[j]}

=============================================================================
