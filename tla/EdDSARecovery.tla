---------------------------- MODULE EdDSARecovery ----------------------------
(***************************************************************************)
(* The offline key recovery of cmd/pfOSSHRecoverEdDSAKey (main.go lines    *)
(* 171-265 with recoverSignedBFromSC of scAnalysis.go), composed with the  *)
(* digit conversions of ScalarCodec.                                       *)
(*                                                                         *)
(* The victim signed once with the nonce digest trueMd; its signed digits  *)
(* TrueB = Sign(Split(trueMd)) drove one choose_t call per main-loop cycle *)
(* (MainLoopCycles = NDigits, as 85 = len(b) in the code). For every       *)
(* candidate offset, obs[o][c] is the set of snapshot pairs 1..5 of cycle  *)
(* c whose 256-byte window at o differs: pairs (0,1), (2,3), (4,5), (6,7)  *)
(* and (8,9) of the cycle's MemAccessesPerCycle = 10 snapshots. At the     *)
(* stack buffer the pattern is what choose_t's conditional moves write;    *)
(* at any other changing offset it is arbitrary noise.                     *)
(*                                                                         *)
(* Cryptography is abstracted by what it decides: the encoding of [b]B     *)
(* computed by RecoverBigRFromB equals the signature's R iff b has the     *)
(* value of TrueB, and the forged signature verifies iff the repacked      *)
(* digest is trueMd (recoverSecretFromSig then yields the true secret).    *)
(***************************************************************************)
EXTENDS ScalarCodec, FiniteSets, TLC

CONSTANTS
  Offsets,        \* the keys of offsetsWithChange that are true
  TrueOffset,     \* the offset of the victim's stack buffer
  NoisePatterns,  \* per-cycle change patterns an unrelated block may show
  Digests         \* the nonce digests the victim may have used

ASSUME RecoveryAssumption ==
  /\ TrueOffset \in Offsets
  /\ NoisePatterns \subseteq SUBSET (1 .. 5)
  /\ Digests \subseteq [0 .. NBytes - 1 -> 0 .. 255]

VARIABLES
  trueMd,     \* the victim's messageDigestReduced (fixed)
  trueB,      \* its signed digits Sign(Split(trueMd)), the victim's b (fixed)
  obs,        \* obs[o][c]: the snapshot pairs of cycle c that differ at o
  todo,       \* offsets the recovery loop (177-226) has not visited
  accepted,   \* offsetToRecoveredB
  forgeTodo,  \* accepted offsets the forging loop (234-265) has not visited
  phase,      \* "recover", "forge", "done" or "crashed"
  found,      \* a forged signature verified
  badForge    \* "B was valid but signature not" was logged

vars == <<trueMd, trueB, obs, todo, accepted, forgeTodo, phase, found, badForge>>

Cycles == 1 .. NDigits - 1          \* cycleIDX := 1 .. MainLoopCycles-1

\* The pairs choose_t's conditional moves change for digit b (spec 4.5): the
\* move of table entry |b| for |b| = 1, 2, 3, of entry 4 for b = -4, and the
\* conditional negation for b < 0.
ChangedPairs(b) ==
  {k \in 1 .. 3 : b = k \/ b = -k} \cup {k \in {4} : b = -4}
    \cup {k \in {5} : b < 0}

\* obs[o][c] at the stack buffer.
Observation(b) == [c \in Cycles |-> ChangedPairs(b[c])]

(***************************************************************************)
(* recoverSignedBFromSC: one cycle's digit from its pattern p. More than   *)
(* one of pairs 1..4 changed is "multiple matches" (nil, false). Pair 4    *)
(* gives -4; else pair 5 negates the magnitude of pairs 1..3.              *)
(***************************************************************************)
Ambiguous(p) == Cardinality(p \cap 1 .. 4) > 1

Magnitude(p) ==
  CASE 1 \in p -> 1 [] 2 \in p -> 2 [] 3 \in p -> 3 [] 4 \in p -> -4
    [] OTHER -> 0

\* Mutant: the negation pair is read even when pair 4 gave -4.
RecoveredDigitAlwaysNegate(p) ==
  IF 5 \in p THEN -Magnitude(p) ELSE Magnitude(p)

RecoveredDigit(p) ==
  IF 4 \notin p /\ 5 \in p THEN -Magnitude(p) ELSE Magnitude(p)

Readable(o) == \A c \in Cycles : ~Ambiguous(obs[o][c])

\* recoveredB of a readable offset; digit 0 is never observed and stays 0.
RecoveredB(o) ==
  [k \in 0 .. NDigits - 1 |-> IF k = 0 THEN 0 ELSE RecoveredDigit(obs[o][k])]

\* candidatesUnknownFirstByte of line 209.
FirstDigitCandidates == {1, -1, 2, -2, 3, -3, -4}

\* recoveredB with b[0] = v gives the signature's R.
MatchesR(b, v) == SameValue([b EXCEPT ![0] = v], trueB)

Init ==
  /\ trueMd \in Digests
  /\ trueB = Sign(Split(trueMd))
  /\ \E noise \in [Offsets \ {TrueOffset} -> [Cycles -> NoisePatterns]] :
       obs = [o \in Offsets |->
                IF o = TrueOffset THEN Observation(trueB) ELSE noise[o]]
  /\ todo = Offsets
  /\ accepted = <<>>
  /\ forgeTodo = {}
  /\ phase = "recover"
  /\ found = FALSE
  /\ badForge = FALSE

\* Lines 181-184: recoverSignedBFromSC returns (nil, false).
DiscardAmbiguous(o) ==
  /\ phase = "recover" /\ o \in todo
  /\ ~Readable(o)
  /\ todo' = todo \ {o}
  /\ UNCHANGED <<trueMd, trueB, obs, accepted, forgeTodo, phase, found, badForge>>

\* Lines 206-225: a first digit gives R; recoveredB keeps it.
AcceptOffset(o) ==
  /\ phase = "recover" /\ o \in todo
  /\ Readable(o)
  /\ \E v \in FirstDigitCandidates :
       /\ MatchesR(RecoveredB(o), v)
       /\ accepted' = accepted @@ (o :> [RecoveredB(o) EXCEPT ![0] = v])
  /\ todo' = todo \ {o}
  /\ UNCHANGED <<trueMd, trueB, obs, forgeTodo, phase, found, badForge>>

\* Lines 221-223: no first digit gives R.
DiscardMismatch(o) ==
  /\ phase = "recover" /\ o \in todo
  /\ Readable(o)
  /\ \A v \in FirstDigitCandidates : ~MatchesR(RecoveredB(o), v)
  /\ todo' = todo \ {o}
  /\ UNCHANGED <<trueMd, trueB, obs, accepted, forgeTodo, phase, found, badForge>>

\* Mutant: the forging loop ranges over offsetsWithChange.
EndRecoveryAllOffsets ==
  /\ phase = "recover" /\ todo = {}
  /\ phase' = "forge"
  /\ forgeTodo' = Offsets
  /\ UNCHANGED <<trueMd, trueB, obs, todo, accepted, found, badForge>>

EndRecovery ==
  /\ phase = "recover" /\ todo = {}
  /\ phase' = "forge"
  /\ forgeTodo' = DOMAIN accepted
  /\ UNCHANGED <<trueMd, trueB, obs, todo, accepted, found, badForge>>

\* Line 240: signedBToUnsigned panics on a b with no negative digit.
ForgePanics(o) ==
  /\ phase = "forge" /\ o \in forgeTodo
  /\ UnsignPanics(accepted[o])
  /\ phase' = "crashed"
  /\ UNCHANGED <<trueMd, trueB, obs, todo, accepted, forgeTodo, found, badForge>>

\* The digest repacked at line 241; the secret and the forgery are right
\* iff it is trueMd.
Repacked(o) == Pack(Unsign(accepted[o]))

(***************************************************************************)
(* Lines 240-264: the forged signature verifies and the loop breaks, or it *)
(* does not, "B was valid but signature not" is logged and the loop goes   *)
(* on. (The second branch is a single log line; with R compared by value   *)
(* it is unreachable, which NoInvalidForgery checks.)                      *)
(***************************************************************************)
Forge(o) ==
  /\ phase = "forge" /\ o \in forgeTodo
  /\ ~UnsignPanics(accepted[o])
  /\ LET valid == Repacked(o) = trueMd
     IN  /\ found' = valid
         /\ badForge' = (badForge \/ ~valid)
         /\ phase' = IF valid THEN "done" ELSE phase
  /\ forgeTodo' = forgeTodo \ {o}
  /\ UNCHANGED <<trueMd, trueB, obs, todo, accepted>>

EndForge ==
  /\ phase = "forge" /\ forgeTodo = {}
  /\ phase' = "done"
  /\ UNCHANGED <<trueMd, trueB, obs, todo, accepted, forgeTodo, found, badForge>>

\* Go ranges over both maps in random order: any remaining offset is next.
Next ==
  \/ \E o \in Offsets :
       \/ DiscardAmbiguous(o) \/ AcceptOffset(o) \/ DiscardMismatch(o)
       \/ ForgePanics(o) \/ Forge(o)
  \/ EndRecovery
  \/ EndForge

\* main returns when phase is "done", or panics ("crashed"). Every step
\* removes an offset from todo or forgeTodo or moves phase on, so every
\* behaviour reaches one of the two.
Ended == phase \in {"done", "crashed"}

Spec == Init /\ [][Next]_vars

=============================================================================
