----------------------------- MODULE ScalarCodec -----------------------------
(***************************************************************************)
(* The digit conversions of pfOSSHRecoverEdDSAKey/keyRecovery.go:          *)
(*  - Split: the "3 bit split" of sc25519Window3, 32 bytes to 85 digits    *)
(*    0..7 (NGroups = 10 groups of 3 bytes / 8 digits, then 2 bytes / 5    *)
(*    digits);                                                             *)
(*  - Sign: its "making it signed" loop, digits -4..3 with a carry;        *)
(*  - Unsign: signedBToUnsigned, meant to undo Sign;                       *)
(*  - Pack: unsignedBToMessageDigestReduced, meant to undo Split.          *)
(* Arrays are functions on 0 .. n-1 as in Go. int8 and byte arithmetic is  *)
(* kept: x & 7 is x % 8 and x >> s is x \div 2^s (both floor, also for     *)
(* negative int8), a shift into a byte is taken % 256, and | is Or8.       *)
(***************************************************************************)
EXTENDS Integers, Sequences, FiniteSetsExt

CONSTANT NGroups   \* the 10 of "for ; i < 10; i++"

ASSUME NGroupsAssumption == NGroups \in Nat

NDigits == 8 * NGroups + 5     \* make([]int8, 85)
NBytes == 3 * NGroups + 2      \* the bytes the digits are taken from

And7(x) == x % 8
Shr(x, s) == x \div (2 ^ s)
Shl8(x, s) == (x * 2 ^ s) % 256
Bit(x, k) == Shr(x, k) % 2

\* a ^ b and a | b on the low 3 resp. 8 bits.
Xor3(a, b) == MapThenSumSet(LAMBDA k : 2 ^ k * ((Bit(a, k) + Bit(b, k)) % 2), 0 .. 2)
Or8(a, b) == MapThenSumSet(LAMBDA k : 2 ^ k * (IF Bit(a, k) + Bit(b, k) > 0 THEN 1 ELSE 0), 0 .. 7)
OrAll(s) == LET acc[i \in 0 .. Len(s)] == IF i = 0 THEN 0 ELSE Or8(acc[i - 1], s[i])
            IN  acc[Len(s)]

(***************************************************************************)
(* Digit 8i + j of sc25519Window3 (lines 82-99): the loop body for         *)
(* i < NGroups, the tail (j <= 4) for i = NGroups; both use the same       *)
(* shifts of the same bytes.                                               *)
(***************************************************************************)
SplitDigit(md, i, j) ==
  CASE j = 0 -> And7(md[3 * i])
    [] j = 1 -> And7(Shr(md[3 * i], 3))
    [] j = 2 -> Xor3(And7(Shr(md[3 * i], 6)), And7(Shl8(md[3 * i + 1], 2)))
    [] j = 3 -> And7(Shr(md[3 * i + 1], 1))
    [] j = 4 -> And7(Shr(md[3 * i + 1], 4))
    [] j = 5 -> Xor3(And7(Shr(md[3 * i + 1], 7)), And7(Shl8(md[3 * i + 2], 1)))
    [] j = 6 -> And7(Shr(md[3 * i + 2], 2))
    [] j = 7 -> And7(Shr(md[3 * i + 2], 5))

Split(md) == [k \in 0 .. NDigits - 1 |-> SplitDigit(md, k \div 8, k % 8)]

(***************************************************************************)
(* "Making it signed" (lines 101-110): iteration i adds the carry to r[i], *)
(* moves r[i] >> 3 into r[i+1], keeps r[i] & 7 and, when that is 4 or     *)
(* more, subtracts 8 and carries 1. The last digit only takes the carry.   *)
(***************************************************************************)
\* Mutant: the carry of the previous digit is not added in.
SignStepNoCarry(st, i) ==
  LET t == st.r[i]
      up == [st.r EXCEPT ![i + 1] = @ + Shr(t, 3)]
      c == Shr(And7(t), 2)
  IN  [r |-> [up EXCEPT ![i] = And7(t) - c * 8], c |-> c]

SignStep(st, i) ==
  LET t == st.r[i] + st.c
      up == [st.r EXCEPT ![i + 1] = @ + Shr(t, 3)]
      c == Shr(And7(t), 2)
  IN  [r |-> [up EXCEPT ![i] = And7(t) - c * 8], c |-> c]

Sign(r) ==
  LET n == NDigits
      run[i \in 0 .. n - 1] ==
        IF i = 0 THEN [r |-> r, c |-> 0] ELSE SignStep(run[i - 1], i - 1)
  IN  [run[n - 1].r EXCEPT ![n - 1] = @ + run[n - 1].c]

(***************************************************************************)
(* signedBToUnsigned (lines 125-161). The first loop copies digits up to   *)
(* the first negative one, which becomes s + 8; from there a borrow        *)
(* (carry) and the overflow of the previous result (add2Next = res >> 3)   *)
(* are subtracted, and each result is masked with 7.                       *)
(***************************************************************************)
FirstNeg(s) ==
  IF \E k \in DOMAIN s : s[k] < 0 THEN Min({k \in DOMAIN s : s[k] < 0})
                                  ELSE NDigits

\* With no negative digit, res[i] = signed[i] + 8 indexes past the end.
UnsignPanics(s) == FirstNeg(s) = NDigits

UnsignStep(st, x) ==
  LET v == CASE x = 0 -> IF st.add + st.c = 0 THEN 0 ELSE 7
             [] x > 0 -> x - st.add - st.c
             [] x < 0 -> x - st.add - st.c + 8
      c == CASE x = 0 -> IF st.add + st.c = 0 THEN 0 ELSE 1
             [] x > 0 -> 0
             [] x < 0 -> 1
  IN  [v |-> And7(v), add |-> Shr(v, 3), c |-> c]

\* Mutant: the first negative digit is made non-negative without a borrow.
UnsignNoBorrow(s) ==
  LET f == FirstNeg(s)
      run[i \in f .. NDigits - 1] ==
        IF i = f THEN [v |-> s[f] + 8, add |-> 0, c |-> 0]
                 ELSE UnsignStep(run[i - 1], s[i])
  IN  [k \in 0 .. NDigits - 1 |-> IF k < f THEN s[k] ELSE run[k].v]

Unsign(s) ==
  LET f == FirstNeg(s)
      run[i \in f .. NDigits - 1] ==
        IF i = f THEN [v |-> s[f] + 8, add |-> 0, c |-> 1]
                 ELSE UnsignStep(run[i - 1], s[i])
  IN  [k \in 0 .. NDigits - 1 |-> IF k < f THEN s[k] ELSE run[k].v]

(***************************************************************************)
(* unsignedBToMessageDigestReduced (lines 165-205): byte 3i + m is the OR  *)
(* of the digit fields the statements put there; the tail (i = NGroups)    *)
(* has no digit 8i + 5 and so no third byte and no bit 7 of the second.    *)
(***************************************************************************)
PackParts(u, i, m) ==
  CASE m = 0 -> << And7(u[8 * i]), Shl8(And7(u[8 * i + 1]), 3),
                   Shl8(And7(u[8 * i + 2]), 6) >>
    [] m = 1 /\ i < NGroups ->
                << And7(Shr(u[8 * i + 2], 2)), Shl8(And7(u[8 * i + 3]), 1),
                   Shl8(And7(u[8 * i + 4]), 4), Shl8(And7(u[8 * i + 5]), 7) >>
    [] m = 1 -> << And7(Shr(u[8 * i + 2], 2)), Shl8(And7(u[8 * i + 3]), 1),
                   Shl8(And7(u[8 * i + 4]), 4) >>
    [] m = 2 -> << Shr(u[8 * i + 5], 1) % 4, Shl8(u[8 * i + 6], 2),
                   Shl8(u[8 * i + 7], 5) >>

Pack(u) == [j \in 0 .. NBytes - 1 |-> OrAll(PackParts(u, j \div 3, j % 3))]

-----------------------------------------------------------------------------
(***************************************************************************)
(* Reference meanings, free of big integers: the radix-8 digits of the     *)
(* little-endian byte string md (bit b of md is bit b % 8 of md[b \div 8]), *)
(* and equality of the values sum d[k] * 8^k of two digit strings, decided *)
(* by the borrow chain: d and e have the same value iff every partial      *)
(* difference is divisible by 8 and nothing is left over at the top.       *)
(***************************************************************************)
Radix8(md) ==
  [k \in 0 .. NDigits - 1 |->
     MapThenSumSet(LAMBDA t : 2 ^ t * Bit(md[(3 * k + t) \div 8], (3 * k + t) % 8),
                   {t \in 0 .. 2 : (3 * k + t) \div 8 \in DOMAIN md})]

SameValue(d, e) ==
  LET n == NDigits
      borrow[i \in 0 .. n] ==
        IF i = 0 THEN 0 ELSE (borrow[i - 1] + d[i - 1] - e[i - 1]) \div 8
  IN  /\ \A i \in 0 .. n - 1 : (borrow[i] + d[i] - e[i]) % 8 = 0
      /\ borrow[n] = 0

=============================================================================
