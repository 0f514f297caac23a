--------------------------- MODULE MCEdDSARecovery ---------------------------
(***************************************************************************)
(* EdDSARecovery for TLC with NGroups = 0: five digits, so four observed   *)
(* cycles, and a two-byte digest. Two candidate offsets: the stack buffer  *)
(* and one unrelated block whose noise can read as a digit string,        *)
(* including the victim's own, or be ambiguous.                            *)
(***************************************************************************)
EXTENDS EdDSARecovery

CONSTANTS o1, o2

MCOffsets == {o1, o2}

\* Noise: no change (digit 0), pair 1 (digit 1), pairs 2 and 5 (digit -2)
\* and pairs 1 and 2 (ambiguous).
MCNoise == {{}, {1}, {2, 5}, {1, 2}}

(***************************************************************************)
(* Digests whose first signed digit is 0 (byte 0 = 0, 8, 200), is         *)
(* positive or negative, whose digits are all non-negative (0, 8: the      *)
(* panic of signedBToUnsigned) or carry into the top digit (255, 31).      *)
(***************************************************************************)
MCDigests ==
  {(0 :> lo) @@ (1 :> hi) : lo \in {0, 1, 6, 8, 200, 255}, hi \in {0, 5, 31}}

\* The victim's digits have a negative one, so signedBToUnsigned does not
\* panic on them, and their first digit is one line 209 tries.
Observable ==
  /\ \E k \in 0 .. NDigits - 1 : trueB[k] < 0
  /\ trueB[0] \in FirstDigitCandidates

TypeOK ==
  /\ trueMd \in Digests
  /\ trueB \in [0 .. NDigits - 1 -> Int]
  /\ todo \subseteq Offsets
  /\ DOMAIN accepted \subseteq Offsets
  /\ forgeTodo \subseteq DOMAIN accepted
  /\ phase \in {"recover", "forge", "done", "crashed"}
  /\ found \in BOOLEAN /\ badForge \in BOOLEAN

\* The log line 263 says "B was valid but signature not, this should not
\* happen": every b that gives the signature's R repacks, through
\* signedBToUnsigned and unsignedBToMessageDigestReduced, into the digest
\* whose secret forges a valid signature.
NoInvalidForgery == ~badForge

\* When main returns after observing digits that are observable, it has
\* found the secret, whatever the noise and the order the maps are visited
\* in: the stack buffer is accepted, and no other offset is accepted first
\* whose digits repack to another digest or make signedBToUnsigned panic.
KeyRecoveredWhenObservable == Ended /\ Observable => found

\* Spec 4.5: the lowest digit is brute-forced over all its values, so when
\* main returns the secret is found whenever signedBToUnsigned can convert
\* the victim's digits.
KeyRecoveredWhenConvertible ==
  Ended /\ (\E k \in 0 .. NDigits - 1 : trueB[k] < 0) => found

=============================================================================
