---------------------------- MODULE StackLocator ----------------------------
(***************************************************************************)
(* extractStackPage (pfOSSHAttackEdDSA/attack.go) as pure operators.       *)
(*                                                                         *)
(* The locator gets the burst of faults collected while all pages were     *)
(* access tracked and looks, among the last ElemsFromBack of them, for     *)
(* three write faults followed by one non-write fault, all with zero       *)
(* retired instructions. The trailing non-write fault is the stack buffer. *)
(*                                                                         *)
(* A fault is a record [page, write, rz]: write is "ArePfErrorsSet(        *)
(* ErrorCode, PfErrorWrite)", rz is "RetiredInstructions == 0". Positions  *)
(* are 1-based here: the Go index p is position p + 1.                     *)
(*                                                                         *)
(* Both loops are recursive functions (not RECURSIVE operators) so that    *)
(* modules extending this one can be reasoned about with TLAPS.            *)
(***************************************************************************)
EXTENDS Naturals, Integers, Sequences

CONSTANT ElemsFromBack   \* const elemsFromBack = 10 in the code

ASSUME ElemsFromBackAssumption == ElemsFromBack \in Nat \ {0}

\* A fault that counts as one of the three leading writes.
IsZeroWrite(v) == v.write /\ v.rz

\* The trailing fault of the pattern: not a write, zero retired instructions.
IsZeroNonWrite(v) == ~v.write /\ v.rz

(***************************************************************************)
(* One iteration of the inner loop's switch on state: states 0..2 count    *)
(* zero-retired writes, state 3 waits for the non-write. A scan result is  *)
(* [st |-> state, hit |-> position of stackBufEvent, 0 while nil].         *)
(***************************************************************************)
LocatorStep(res, v, pos) ==
  IF res.st < 3
    THEN IF IsZeroWrite(v) THEN [st |-> res.st + 1, hit |-> 0]
                           ELSE [st |-> 0, hit |-> 0]
    ELSE IF IsZeroNonWrite(v) THEN [st |-> 3, hit |-> pos]
                              ELSE [st |-> 0, hit |-> 0]

(***************************************************************************)
(* The inner loop started at Go index i (state reset to 0): it runs while  *)
(* j < elemsFromBack, i + j < len(events) and nothing was found.           *)
(***************************************************************************)
InnerScan(events, i) ==
  LET run[j \in 0 .. ElemsFromBack] ==
        IF j = 0 THEN [st |-> 0, hit |-> 0]
        ELSE IF run[j - 1].hit # 0 \/ i + (j - 1) >= Len(events)
               THEN run[j - 1]
               ELSE LocatorStep(run[j - 1], events[i + (j - 1) + 1], i + (j - 1) + 1)
  IN  run[ElemsFromBack].hit

\* offset := len(events) - elemsFromBack
ScanOffset(events) == Len(events) - ElemsFromBack

(***************************************************************************)
(* The code indexes events[offset] on the first iteration whenever the     *)
(* outer loop runs, and offset is negative when fewer than elemsFromBack   *)
(* faults were collected: the Go runtime panics (index out of range).      *)
(***************************************************************************)
LocatorPanics(events) == ScanOffset(events) < 0

(***************************************************************************)
(* The outer loop over start positions offset, offset+1, ... < len, which  *)
(* stops at the first start whose inner scan found an event. Result:       *)
(* position of the returned event, 0 for (nil, false). Meaningful only     *)
(* when the locator does not panic.                                        *)
(***************************************************************************)
ExtractStackPage(events) ==
  LET off == ScanOffset(events)
      outer[k \in 0 .. ElemsFromBack] ==
        IF k = 0 THEN 0
        ELSE IF outer[k - 1] # 0 \/ off + (k - 1) >= Len(events)
               THEN outer[k - 1]
               ELSE InnerScan(events, off + (k - 1))
  IN  outer[ElemsFromBack]

=============================================================================
