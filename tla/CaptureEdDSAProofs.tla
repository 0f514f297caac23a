------------------------- MODULE CaptureEdDSAProofs -------------------------
(***************************************************************************)
(* Proofs about the capture automaton of recordAttackTrace, for every      *)
(* number of victim iterations and every set of data pages.                *)
(***************************************************************************)
EXTENDS CaptureEdDSA, TLAPS

\* The two expected-fault sequences are CT/FE sequences of lengths 4 and 22.
LEMMA SeqFacts ==
  /\ IgnoreSeq \in Seq({CT, FE}) /\ Len(IgnoreSeq) = 4
  /\ AttackSeq \in Seq({CT, FE}) /\ Len(AttackSeq) = 22
  /\ FaultSeq \in Seq({CT, FE}) /\ Len(FaultSeq) \in {4, 22}
  /\ TotalToggles \in Nat
<1>1. IgnoreSeq \in Seq({CT, FE}) /\ Len(IgnoreSeq) = 4
  BY DEF IgnoreSeq
<1>2. AttackSeq \in Seq({CT, FE}) /\ Len(AttackSeq) = 22
  BY DEF AttackSeq
<1>3. TotalToggles \in Nat
  BY <1>1, <1>2, CyclesAssumption DEF TotalToggles
<1>4. QED
  BY <1>1, <1>2, <1>3 DEF FaultSeq

\* Every toggle of the victim is on CT or FE.
LEMMA ToggleType ==
  \A n \in Nat \ {0} : Toggle(n) \in {CT, FE}
<1> SUFFICES ASSUME NEW n \in Nat \ {0} PROVE Toggle(n) \in {CT, FE}
  OBVIOUS
<1>1. CASE n <= 4
  BY <1>1, SeqFacts DEF Toggle, IgnoreSeq
<1>2. CASE n > 4
  <2>1. ((n - 4 - 1) % 22) + 1 \in 1 .. 22
    BY <1>2
  <2>2. QED
    BY <1>2, <2>1, SeqFacts DEF Toggle, AttackSeq
<1>3. QED
  BY <1>1, <1>2

\* The print/save step keeps attackEvents a sequence of trace entries.
LEMMA RecordedType ==
  ASSUME TypeOK, NEW ev \in Fault
  PROVE  Recorded(ev) \in Seq(TraceEntry)
<1>1. TakesSnapshot(ev) \in BOOLEAN
  BY Zenon DEF TakesSnapshot
<1>2. IsToggle(ev) => [page |-> ev.page, snap |-> TakesSnapshot(ev), tog |-> vt] \in TraceEntry
  BY <1>1 DEF IsToggle, TraceEntry, TypeOK
<1>3. QED
  BY <1>2 DEF Recorded, TypeOK

\* ... and accessTrackEvents a sequence of faults.
LEMMA CollectedType ==
  ASSUME TypeOK, NEW ev \in Fault
  PROVE  Collected(ev) \in Seq(Fault)
BY DEF Collected, TypeOK

\* Attaching the snapshot to the last recorded event keeps the type.
LEMMA SnapAttachType ==
  ASSUME NEW t \in Seq(TraceEntry), NEW i \in 1 .. Len(t)
  PROVE  [t EXCEPT ![i].snap = TRUE] \in Seq(TraceEntry)
<1>0. t[i] \in TraceEntry
  OBVIOUS
<1>1. [t[i] EXCEPT !.snap = TRUE] \in TraceEntry
  BY <1>0 DEF TraceEntry
<1>2. [t EXCEPT ![i] = [t[i] EXCEPT !.snap = TRUE]] \in Seq(TraceEntry)
  BY <1>1, SMTT(30)
<1>3. QED
  BY <1>2

\* Advancing sequenceIDX and re-arming the next element stay in range.
LEMMA AdvanceType ==
  ASSUME TypeOK, Advance
  PROVE  /\ seqIdx' \in 0 .. Len(AttackSeq) - 1
         /\ cycle' \in Nat
         /\ finishedIgnore' \in BOOLEAN
         /\ ArmNext \subseteq Pages
<1>1. NextIdx \in 0 .. Len(FaultSeq) - 1 /\ NextIdx \in 0 .. 21
  <2>1. CASE finishedIgnore
    <3>1. Len(FaultSeq) = 22
      BY <2>1, SeqFacts DEF FaultSeq
    <3>2. QED
      BY <3>1 DEF NextIdx, TypeOK
  <2>2. CASE ~finishedIgnore
    <3>1. Len(FaultSeq) = 4
      BY <2>2, SeqFacts DEF FaultSeq
    <3>2. QED
      BY <3>1 DEF NextIdx, TypeOK
  <2>3. QED
    BY <2>1, <2>2
<1>2. FaultSeq[NextIdx + 1] \in {CT, FE}
  BY <1>1, SeqFacts
<1>3. seqIdx' \in 0 .. Len(AttackSeq) - 1 /\ cycle' \in Nat
  BY <1>1, SeqFacts DEF Advance, TypeOK
<1>4. finishedIgnore' \in BOOLEAN
  BY Zenon DEF Advance
<1>5. ArmNext \subseteq Pages
  BY <1>2 DEF ArmNext, TypeOK, Pages
<1>6. QED
  BY <1>3, <1>4, <1>5

-----------------------------------------------------------------------------
\* Type correctness of the initial state and of every step.
LEMMA TypeInit == Init => TypeOK
<1> SUFFICES ASSUME Init PROVE TypeOK
  OBVIOUS
<1>1. seqIdx \in 0 .. Len(AttackSeq) - 1 /\ vt \in 0 .. TotalToggles
  BY SeqFacts DEF Init
<1>2. burst \in Seq(Fault) /\ trace \in Seq(TraceEntry)
  BY DEF Init
<1>3. stackBuf \in Pages \cup {NoPage} /\ pending \in Fault \cup {NoEvent}
  BY DEF Init
<1>4. QED
  BY <1>1, <1>2, <1>3 DEF Init, TypeOK

LEMMA TypeStep == TypeOK /\ [Next]_vars => TypeOK'
<1> SUFFICES ASSUME TypeOK, [Next]_vars PROVE TypeOK'
  OBVIOUS
<1>. USE SeqFacts, PagesAssumption, CyclesAssumption
<1>1. CASE Start
  <2>1. execArmed' \subseteq Pages
    BY <1>1 DEF Start, Pages
  <2>2. QED
    BY <1>1, <2>1, Zenon DEF Start, TypeOK
<1>2. CASE HandleSpurious
  <2>1. pending \in Fault
    BY <1>2 DEF HandleSpurious, Polled, TypeOK
  <2>2. trace' \in Seq(TraceEntry) /\ burst' \in Seq(Fault)
    BY <1>2, <2>1, RecordedType, CollectedType DEF HandleSpurious
  <2>3. QED
    BY <1>2, <2>2, Zenon DEF HandleSpurious, Ack, TypeOK
<1>3. CASE HandleInSequence
  <2>1. pending \in Fault
    BY <1>3 DEF HandleInSequence, Polled, TypeOK
  <2>2. trace' \in Seq(TraceEntry) /\ burst' \in Seq(Fault)
    BY <1>3, <2>1, RecordedType, CollectedType DEF HandleInSequence
  <2>3. /\ seqIdx' \in 0 .. Len(AttackSeq) - 1 /\ cycle' \in Nat
        /\ finishedIgnore' \in BOOLEAN /\ ArmNext \subseteq Pages
    BY <1>3, AdvanceType DEF HandleInSequence
  <2>4. writeTrack' \in BOOLEAN
    BY <1>3, Zenon DEF HandleInSequence, TypeOK
  <2>5. execArmed' \subseteq Pages /\ accessArmed' \subseteq Pages
    BY <1>3, <2>3 DEF HandleInSequence, TypeOK
  <2>6. QED
    BY <1>3, <2>2, <2>3, <2>4, <2>5, Zenon DEF HandleInSequence, Ack, TypeOK
<1>4. CASE StopPanics
  BY <1>4, Zenon DEF StopPanics, TypeOK
<1>5. CASE StopNotFound
  BY <1>5, Zenon DEF StopNotFound, TypeOK
<1>6. CASE StopLocates
  <2>1. pending \in Fault
    BY <1>6 DEF StopLocates, StopGuard, Polled, TypeOK
  <2>0. pending.page = CT
    <3>1. finishedIgnore /\ seqIdx = 2 /\ InSequence(pending)
      BY <1>6 DEF StopLocates, StopGuard, StopsWindow, IdxStopWriteTrack,
                  IdxStartWriteTrack
    <3>2. QED
      BY <3>1 DEF InSequence, FaultSeq, AttackSeq
  <2>2. Recorded(pending) \in Seq(TraceEntry) /\ Len(Recorded(pending)) >= 1
    BY <2>0, <2>1, RecordedType DEF Recorded, IsToggle
  <2>3. trace' \in Seq(TraceEntry)
    BY <1>6, <2>2, SnapAttachType DEF StopLocates
  <2>4. stackBuf' \in Pages \cup {NoPage}
    <3>1. PICK k \in 1 .. Len(burst) : stackBuf' = burst[k].page
      BY <1>6 DEF StopLocates
    <3>2. burst[k] \in Fault
      BY <3>1 DEF TypeOK
    <3>3. QED
      BY <3>1, <3>2 DEF Fault
  <2>5. /\ seqIdx' \in 0 .. Len(AttackSeq) - 1 /\ cycle' \in Nat
        /\ finishedIgnore' \in BOOLEAN /\ ArmNext \subseteq Pages
    BY <1>6, AdvanceType DEF StopLocates
  <2>6. writeTrack' \in BOOLEAN
    BY <1>6, Zenon DEF StopLocates
  <2>7. execArmed' \subseteq Pages
    BY <1>6, <2>5 DEF StopLocates
  <2>8. QED
    BY <1>6, <2>3, <2>4, <2>5, <2>6, <2>7, Zenon DEF StopLocates, Ack, TypeOK
<1>7. CASE ReturnOnCancel
  <2>1. status' \in {"init", "running", "returned", "failed", "panicked"}
    BY <1>7 DEF ReturnOnCancel
  <2>2. QED
    BY <1>7, <2>1, Zenon DEF ReturnOnCancel, TypeOK, envVars
<1>8. CASE PollsEmpty
  BY <1>8, Zenon DEF PollsEmpty, TypeOK, vars, autVars, envVars
<1>9. CASE StartFails \/ IoctlFails \/ PollFails
  BY <1>9, Zenon DEF StartFails, IoctlFails, PollFails, TypeOK, envVars
<1>10. CASE ToggleFaults
  <2>1. Toggle(vt + 1) \in {CT, FE}
    BY <1>10, ToggleType DEF ToggleFaults, TypeOK
  <2>2. pending' \in Fault \cup {NoEvent}
    BY <1>10, <2>1 DEF ToggleFaults, Fault, Pages
  <2>3. execArmed' \subseteq Pages /\ accessArmed' \subseteq Pages
    BY <1>10 DEF ToggleFaults, TypeOK
  <2>4. QED
    BY <1>10, <2>2, <2>3, Zenon DEF ToggleFaults, TypeOK, autVars
<1>11. CASE ToggleCompletes
  <2>1. vt' \in 0 .. TotalToggles
    BY <1>11 DEF ToggleCompletes, VictimRuns, TypeOK
  <2>2. QED
    BY <1>11, <2>1, Zenon DEF ToggleCompletes, TypeOK, autVars
<1>12. CASE DataAccess
  <2>1. pending' \in Fault \cup {NoEvent} /\ accessArmed' \subseteq Pages
    BY <1>12 DEF DataAccess, TypeOK, Fault, Pages
  <2>2. QED
    BY <1>12, <2>1, Zenon DEF DataAccess, TypeOK, autVars
<1>13. CASE TriggerDone \/ TriggerFails
  BY <1>13, Zenon DEF TriggerDone, TriggerFails, TypeOK, autVars
<1>14. CASE Terminated \/ UNCHANGED vars
  BY <1>14, Zenon DEF Terminated, vars, autVars, envVars, TypeOK
<1>15. QED
  BY <1>1, <1>2, <1>3, <1>4, <1>5, <1>6, <1>7, <1>8, <1>9, <1>10, <1>11,
     <1>12, <1>13, <1>14 DEF Next, Automaton, Failures, Victim

(***************************************************************************)
(* Type correctness: every step of recordAttackTrace, the victim and the   *)
(* trigger keeps all variables in their types; in particular sequenceIDX   *)
(* stays a valid index of the (possibly just swapped) fault sequence.      *)
(***************************************************************************)
THEOREM TypeCorrect == Spec => []TypeOK
BY TypeInit, TypeStep, PTL DEF Spec

-----------------------------------------------------------------------------
(***************************************************************************)
(* The victim's toggles alternate CT, FE, CT, ... from its first toggle    *)
(* on: both sequences start with CT and have even length. Par(n) is the    *)
(* page of toggle n.                                                       *)
(***************************************************************************)
Par(n) == IF n % 2 = 1 THEN CT ELSE FE

LEMMA ToggleParity ==
  ASSUME NEW n \in Nat \ {0}
  PROVE  Toggle(n) = Par(n)
<1>1. CASE n <= 4
  BY <1>1 DEF Toggle, IgnoreSeq, Par
<1>2. CASE n > 4
  <2>1. ((n - 4 - 1) % 22) + 1 \in 1 .. 22
    BY <1>2
  <2>2. (((n - 4 - 1) % 22) + 1) % 2 = n % 2
    BY <1>2
  <2>3. Toggle(n) = AttackSeq[((n - 4 - 1) % 22) + 1]
    BY <1>2, SeqFacts DEF Toggle
  <2>4. AttackSeq[((n - 4 - 1) % 22) + 1]
          = IF (((n - 4 - 1) % 22) + 1) % 2 = 1 THEN CT ELSE FE
    BY <2>1 DEF AttackSeq
  <2>5. QED
    BY <2>2, <2>3, <2>4 DEF Par
<1>3. QED
  BY <1>1, <1>2

(***************************************************************************)
(* The element a sequence index points at is the toggle the automaton      *)
(* expects, counted from the victim's start. Stated for any values so that *)
(* it applies to a state and to its successor.                             *)
(***************************************************************************)
LEMMA ExpectedParity ==
  ASSUME NEW s \in 0 .. 21, NEW c \in Nat, NEW f \in BOOLEAN, ~f => s < 4
  PROVE  (IF f THEN AttackSeq ELSE IgnoreSeq)[s + 1]
           = Par((IF f THEN 4 + c * 22 + s ELSE s) + 1)
<1>1. CASE f
  <2>1. (4 + c * 22 + s + 1) % 2 = (s + 1) % 2
    OBVIOUS
  <2>2. QED
    BY <1>1, <2>1 DEF AttackSeq, Par
<1>2. CASE ~f
  BY <1>2 DEF IgnoreSeq, Par
<1>3. QED
  BY <1>1, <1>2

\* The same for the variables: Expected is toggle AutPos + 1, Other toggle AutPos.
LEMMA ExpectedIsNextToggle ==
  ASSUME TypeOK, IgnoreBounds
  PROVE  /\ AutPos \in Nat
         /\ Expected = Par(AutPos + 1)
         /\ Other = Par(AutPos)
         /\ Expected \in {CT, FE} /\ Other \in {CT, FE} /\ Expected # Other
<1>1. seqIdx \in 0 .. 21 /\ cycle \in Nat /\ finishedIgnore \in BOOLEAN
      /\ (~finishedIgnore => seqIdx < 4)
  BY SeqFacts DEF TypeOK, IgnoreBounds
<1>2. AutPos \in Nat
  BY <1>1 DEF AutPos, IgnoreSeq, AttackSeq
<1>3. Expected = Par(AutPos + 1)
  BY <1>1, ExpectedParity DEF Expected, FaultSeq, AutPos, IgnoreSeq, AttackSeq
<1>4. Par(AutPos) = IF Par(AutPos + 1) = CT THEN FE ELSE CT
  BY <1>2, PagesAssumption DEF Par
<1>5. QED
  BY <1>2, <1>3, <1>4, PagesAssumption DEF Other, Par

(***************************************************************************)
(* One call of Advance moves the automaton on by exactly one toggle, also  *)
(* across both wraparounds, and the page it re-arms (taken from the        *)
(* sequence before the swap) is the element the new index points at.      *)
(***************************************************************************)
LEMMA AdvanceStep ==
  ASSUME TypeOK, IgnoreBounds, Advance
  PROVE  /\ IgnoreBounds'
         /\ AutPos' = AutPos + 1
         /\ FaultSeq[NextIdx + 1] = Expected'
<1>1. seqIdx \in 0 .. 21 /\ cycle \in Nat /\ finishedIgnore \in BOOLEAN
      /\ (~finishedIgnore => seqIdx < 4 /\ cycle = 0)
  BY SeqFacts DEF TypeOK, IgnoreBounds
<1>0. IgnoreSeq[1] = AttackSeq[1]
  BY DEF IgnoreSeq, AttackSeq
<1>2. CASE finishedIgnore /\ seqIdx < 21
  <2>1. FaultSeq = AttackSeq /\ Len(FaultSeq) = 22
    BY <1>2, SeqFacts DEF FaultSeq
  <2>2. NextIdx = seqIdx + 1
    BY <1>1, <1>2, <2>1 DEF NextIdx
  <2>3. seqIdx' = seqIdx + 1 /\ finishedIgnore' /\ cycle' = cycle
    <3>1. seqIdx' = seqIdx + 1 /\ cycle' = cycle /\ NextIdx # 0
      BY <1>1, <1>2, <2>2 DEF Advance
    <3>2. finishedIgnore'
      BY <1>2, <3>1, Zenon DEF Advance
    <3>3. QED
      BY <3>1, <3>2
  <2>4. IgnoreBounds'
    BY <1>1, <1>2, <2>3 DEF IgnoreBounds, IgnoreSeq
  <2>5. AutPos' = AutPos + 1
    BY <1>1, <1>2, <2>3 DEF AutPos, IgnoreSeq, AttackSeq
  <2>6. FaultSeq' = AttackSeq
    BY <2>3 DEF FaultSeq
  <2>7. FaultSeq[NextIdx + 1] = Expected'
    BY <2>1, <2>2, <2>3, <2>6 DEF Expected
  <2>8. QED
    BY <2>4, <2>5, <2>7
<1>3. CASE finishedIgnore /\ seqIdx = 21
  <2>1. FaultSeq = AttackSeq /\ Len(FaultSeq) = 22
    BY <1>3, SeqFacts DEF FaultSeq
  <2>2. NextIdx = 0
    BY <1>1, <1>3, <2>1 DEF NextIdx
  <2>3. seqIdx' = 0 /\ finishedIgnore' /\ cycle' = cycle + 1
    <3>1. seqIdx' = 0 /\ cycle' = cycle + 1 /\ NextIdx = 0
      BY <1>1, <1>3, <2>2 DEF Advance
    <3>2. finishedIgnore'
      BY <1>3, <3>1, Zenon DEF Advance
    <3>3. QED
      BY <3>1, <3>2
  <2>4. IgnoreBounds'
    BY <1>1, <1>3, <2>3 DEF IgnoreBounds, IgnoreSeq
  <2>5. AutPos' = AutPos + 1
    BY <1>1, <1>3, <2>3 DEF AutPos, IgnoreSeq, AttackSeq
  <2>6. FaultSeq' = AttackSeq
    BY <2>3 DEF FaultSeq
  <2>7. FaultSeq[NextIdx + 1] = Expected'
    BY <2>1, <2>2, <2>3, <2>6 DEF Expected
  <2>8. QED
    BY <2>4, <2>5, <2>7
<1>4. CASE ~finishedIgnore /\ seqIdx < 3
  <2>1. FaultSeq = IgnoreSeq /\ Len(FaultSeq) = 4
    BY <1>4, SeqFacts DEF FaultSeq
  <2>2. NextIdx = seqIdx + 1
    BY <1>1, <1>4, <2>1 DEF NextIdx
  <2>3. seqIdx' = seqIdx + 1 /\ ~finishedIgnore' /\ cycle' = cycle
    <3>1. seqIdx' = seqIdx + 1 /\ cycle' = cycle /\ NextIdx # 0
      BY <1>1, <1>4, <2>2 DEF Advance
    <3>2. ~finishedIgnore'
      BY <1>4, <3>1, Zenon DEF Advance
    <3>3. QED
      BY <3>1, <3>2
  <2>4. IgnoreBounds'
    BY <1>1, <1>4, <2>3 DEF IgnoreBounds, IgnoreSeq
  <2>5. AutPos' = AutPos + 1
    BY <1>1, <1>4, <2>3 DEF AutPos, IgnoreSeq, AttackSeq
  <2>6. FaultSeq' = IgnoreSeq
    BY <2>3 DEF FaultSeq
  <2>7. FaultSeq[NextIdx + 1] = Expected'
    BY <2>1, <2>2, <2>3, <2>6 DEF Expected
  <2>8. QED
    BY <2>4, <2>5, <2>7
<1>5. CASE ~finishedIgnore /\ seqIdx = 3
  <2>1. FaultSeq = IgnoreSeq /\ Len(FaultSeq) = 4
    BY <1>5, SeqFacts DEF FaultSeq
  <2>2. NextIdx = 0
    BY <1>1, <1>5, <2>1 DEF NextIdx
  <2>3. seqIdx' = 0 /\ finishedIgnore' /\ cycle' = cycle
    <3>1. seqIdx' = 0 /\ cycle' = cycle /\ NextIdx = 0
      BY <1>1, <1>5, <2>2 DEF Advance
    <3>2. finishedIgnore'
      BY <1>5, <3>1, Zenon DEF Advance
    <3>3. QED
      BY <3>1, <3>2
  <2>4. IgnoreBounds'
    BY <1>1, <1>5, <2>3 DEF IgnoreBounds, IgnoreSeq
  <2>5. AutPos' = AutPos + 1
    BY <1>1, <1>5, <2>3 DEF AutPos, IgnoreSeq, AttackSeq
  <2>6. FaultSeq' = AttackSeq
    BY <2>3 DEF FaultSeq
  <2>7. FaultSeq[NextIdx + 1] = Expected'
    BY <2>1, <2>2, <2>3, <2>6, <1>0 DEF Expected
  <2>8. QED
    BY <2>4, <2>5, <2>7
<1>6. QED
  BY <1>1, <1>2, <1>3, <1>4, <1>5

\* StepInv without its type part.
Rest == IgnoreBounds /\ NotStarted /\ Situations

LEMMA StepInit == Init => StepInv
<1> SUFFICES ASSUME Init PROVE StepInv
  OBVIOUS
<1>1. TypeOK
  BY TypeInit
<1>2. IgnoreBounds /\ NotStarted /\ Situations
  BY SeqFacts DEF Init, IgnoreBounds, NotStarted, Situations
<1>3. QED
  BY <1>1, <1>2 DEF StepInv

\* A step that leaves the automaton's position and the armed pages alone.
LEMMA QuietStep ==
  ASSUME StepInv,
         UNCHANGED <<seqIdx, cycle, finishedIgnore, execArmed, accessArmed,
                     pending, vt, vretry>>,
         status' = status \/ status' \notin {"init", "running"}
  PROVE  Rest'
<1>1. AutPos' = AutPos /\ Expected' = Expected /\ Other' = Other /\ Armed' = Armed
  BY DEF AutPos, Expected, Other, FaultSeq, Armed
<1>2. QED
  BY <1>1 DEF StepInv, Rest, IgnoreBounds, NotStarted, Situations,
              AboutToToggle, BlockedOnToggle, Retrying

\* A step that ends recordAttackTrace without moving the automaton.
LEMMA EndStep ==
  ASSUME StepInv, UNCHANGED <<seqIdx, cycle, finishedIgnore>>,
         status' \notin {"init", "running"}
  PROVE  Rest'
BY DEF StepInv, Rest, IgnoreBounds, NotStarted, Situations

\* Start: the first toggle (CT) is armed, nothing else.
LEMMA StartStep ==
  ASSUME StepInv, Start
  PROVE  Rest'
<1>1. /\ execArmed = {} /\ accessArmed = {} /\ pending = NoEvent
      /\ vt = 0 /\ ~vretry /\ seqIdx = 0 /\ ~finishedIgnore
  BY DEF StepInv, NotStarted, Start
<1>2. /\ status' = "running" /\ execArmed' = {CT} /\ accessArmed' = {}
      /\ pending' = NoEvent /\ vt' = 0 /\ ~vretry' /\ seqIdx' = 0
      /\ ~finishedIgnore' /\ cycle' = cycle
  BY <1>1 DEF Start
<1>3. AutPos' = 0 /\ Expected' = CT /\ Other' = FE /\ Armed' = {CT}
  BY <1>2, PagesAssumption DEF AutPos, Expected, Other, FaultSeq, IgnoreSeq, Armed
<1>4. AboutToToggle'
  BY <1>2, <1>3, PagesAssumption DEF AboutToToggle
<1>5. IgnoreBounds'
  BY <1>1, <1>2, SeqFacts DEF IgnoreBounds, StepInv
<1>6. QED
  BY <1>2, <1>3, <1>4, <1>5, SeqFacts DEF Rest, NotStarted, Situations

(***************************************************************************)
(* A fault out of sequence (a data page, or the refault of the page just   *)
(* handled) is only acked: the position and the armed pages stay.          *)
(***************************************************************************)
LEMMA SpuriousStep ==
  ASSUME StepInv, HandleSpurious
  PROVE  Rest'
<1>1. /\ status = "running" /\ pending # NoEvent /\ pending.page # Expected
      /\ status' = status /\ pending' = NoEvent
      /\ UNCHANGED <<seqIdx, cycle, finishedIgnore, execArmed, accessArmed, vt, vretry>>
  BY DEF HandleSpurious, Polled, InSequence, Expected, Ack
<1>2. AutPos' = AutPos /\ Expected' = Expected /\ Other' = Other /\ Armed' = Armed
  BY <1>1 DEF AutPos, Expected, Other, FaultSeq, Armed
<1>3. ~BlockedOnToggle
  BY <1>1 DEF BlockedOnToggle
<1>4. AboutToToggle => AboutToToggle'
  BY <1>1, <1>2 DEF AboutToToggle
<1>5. Retrying => Retrying'
  BY <1>1, <1>2 DEF Retrying
<1>6. QED
  BY <1>1, <1>2, <1>3, <1>4, <1>5
     DEF StepInv, Rest, IgnoreBounds, NotStarted, Situations

\* The expected fault can only be the fault of the toggle the victim is
\* blocked on: a data fault or the refault of a re-executed toggle is not it.
LEMMA ExpectedFaultIsBlocked ==
  ASSUME StepInv, Polled, InSequence(pending)
  PROVE  BlockedOnToggle
<1>1. status = "running" /\ pending # NoEvent /\ pending.page = Expected
  BY DEF Polled, InSequence, Expected
<1>2. /\ Expected \in {CT, FE} /\ Other \in {CT, FE} /\ Expected # Other
  BY ExpectedIsNextToggle DEF StepInv
<1>3. ~AboutToToggle
  BY <1>1, <1>2, PagesAssumption DEF AboutToToggle
<1>4. ~Retrying
  BY <1>1, <1>2 DEF Retrying
<1>5. QED
  BY <1>1, <1>3, <1>4 DEF StepInv, Situations

(***************************************************************************)
(* The expected fault: after the automaton advances, the toggle the victim *)
(* was blocked on is one behind and the victim re-executes it, with the    *)
(* next element armed.                                                     *)
(***************************************************************************)
LEMMA AdvancingStep ==
  ASSUME StepInv, Polled, InSequence(pending), Advance,
         ArmNext \subseteq execArmed', pending' = NoEvent,
         status' = status, UNCHANGED <<vt, vretry>>
  PROVE  Rest'
<1>1. status = "running" /\ pending # NoEvent /\ pending.page = Expected
  BY DEF Polled, InSequence, Expected
<1>3. BlockedOnToggle
  BY ExpectedFaultIsBlocked
<1>4. IgnoreBounds' /\ AutPos' = AutPos + 1 /\ FaultSeq[NextIdx + 1] = Expected'
  BY AdvanceStep DEF StepInv
<1>5. Expected' \in Armed'
  BY <1>4 DEF ArmNext, Armed
<1>6. Retrying' /\ AutPos' <= TotalToggles
  <2>1. AutPos \in Nat /\ TotalToggles \in Nat
    BY SeqFacts, ExpectedIsNextToggle DEF StepInv
  <2>2. AutPos' = vt' + 1 /\ vt' < TotalToggles /\ vretry'
    BY <1>3, <1>4, <2>1 DEF BlockedOnToggle
  <2>3. AutPos' <= TotalToggles
    BY <2>1, <2>2 DEF StepInv, TypeOK
  <2>4. Retrying'
    BY <1>5, <2>2, Zenon DEF Retrying
  <2>5. QED
    BY <2>3, <2>4
<1>7. QED
  BY <1>1, <1>4, <1>6 DEF Rest, NotStarted, Situations


(***************************************************************************)
(* The facts every victim step starts from: the automaton runs, nothing is *)
(* pending, Expected and Other are toggles AutPos + 1 and AutPos.          *)
(***************************************************************************)
LEMMA VictimFacts ==
  ASSUME StepInv, VictimRuns
  PROVE  /\ status = "running" /\ pending = NoEvent /\ vt \in Nat
         /\ vt < TotalToggles /\ AutPos \in Nat /\ AutPos <= TotalToggles
         /\ Expected = Par(AutPos + 1) /\ Other = Par(AutPos)
         /\ Expected \in {CT, FE} /\ Other \in {CT, FE} /\ Expected # Other
         /\ AboutToToggle \/ Retrying
<1>1. AutPos \in Nat /\ Expected = Par(AutPos + 1) /\ Other = Par(AutPos)
      /\ Expected \in {CT, FE} /\ Other \in {CT, FE} /\ Expected # Other
  BY ExpectedIsNextToggle DEF StepInv
<1>2. ~BlockedOnToggle
  BY DEF VictimRuns, BlockedOnToggle
<1>3. QED
  BY <1>1, <1>2 DEF StepInv, Situations, VictimRuns, TypeOK

\* The toggle the victim runs next is Expected before a fault, Other on a retry.
LEMMA NextToggle ==
  ASSUME StepInv, VictimRuns
  PROVE  /\ AboutToToggle => Toggle(vt + 1) = Expected
         /\ Retrying => Toggle(vt + 1) = Other
<1>1. vt \in Nat /\ AutPos \in Nat
      /\ Expected = Par(AutPos + 1) /\ Other = Par(AutPos)
  BY VictimFacts
<1>2. Toggle(vt + 1) = Par(vt + 1)
  BY <1>1, ToggleParity
<1>3. QED
  BY <1>1, <1>2 DEF AboutToToggle, Retrying

(***************************************************************************)
(* A toggle that faults: before a fault it is the expected page, and the   *)
(* victim is now blocked on it; on a retry it is the page handled last,    *)
(* which refaults and leaves the retry as it was.                          *)
(***************************************************************************)
LEMMA ToggleFaultsStep ==
  ASSUME StepInv, ToggleFaults
  PROVE  Rest'
<1> DEFINE p == Toggle(vt + 1)
<1>1. /\ status = "running" /\ pending = NoEvent /\ vt \in Nat
      /\ vt < TotalToggles /\ AutPos \in Nat /\ AutPos <= TotalToggles
      /\ Expected \in {CT, FE} /\ Other \in {CT, FE} /\ Expected # Other
      /\ AboutToToggle \/ Retrying
  BY VictimFacts DEF ToggleFaults
<1>2. /\ p \in Armed /\ pending' = [page |-> p, write |-> FALSE, rz |-> FALSE]
      /\ Armed' = Armed \ {p} /\ vretry' = TRUE
      /\ UNCHANGED <<status, seqIdx, cycle, finishedIgnore, vt>>
  BY DEF ToggleFaults, Armed, autVars
<1>3. AutPos' = AutPos /\ Expected' = Expected /\ Other' = Other
  BY <1>2 DEF AutPos, Expected, Other, FaultSeq
<1>4. p \in {CT, FE} /\ pending' # NoEvent
  <2>1. p \in {CT, FE}
    BY <1>1, ToggleType
  <2>2. pending' \in Fault
    BY <1>2, <2>1 DEF Fault, Pages
  <2>3. QED
    BY <2>1, <2>2, NoEventAssumption
<1>5. ASSUME AboutToToggle PROVE Situations'
  <2>1. p = Expected
    BY <1>5, NextToggle DEF ToggleFaults
  <2>2. BlockedOnToggle'
    BY <1>1, <1>2, <1>3, <1>4, <1>5, <2>1 DEF AboutToToggle, BlockedOnToggle
  <2>3. QED
    BY <1>1, <1>2, <1>3, <2>2 DEF Situations
<1>6. ASSUME Retrying PROVE Situations'
  <2>1. p = Other
    BY <1>6, NextToggle DEF ToggleFaults
  <2>2. Retrying'
    BY <1>1, <1>2, <1>3, <1>6, <2>1 DEF Retrying
  <2>3. QED
    BY <1>1, <1>2, <1>3, <2>2 DEF Situations
<1>7. IgnoreBounds'
  BY <1>2 DEF StepInv, IgnoreBounds
<1>8. NotStarted'
  BY <1>1, <1>2 DEF NotStarted
<1>9. QED
  BY <1>1, <1>5, <1>6, <1>7, <1>8 DEF Rest


(***************************************************************************)
(* A toggle that completes without a fault can only be the retry of the    *)
(* page handled last (the expected page is always armed): the victim       *)
(* catches up with the automaton, and only Expected is armed.              *)
(***************************************************************************)
LEMMA ToggleCompletesStep ==
  ASSUME StepInv, ToggleCompletes
  PROVE  Rest'
<1> DEFINE p == Toggle(vt + 1)
<1>1. /\ status = "running" /\ pending = NoEvent /\ vt \in Nat
      /\ vt < TotalToggles /\ AutPos \in Nat /\ AutPos <= TotalToggles
      /\ AboutToToggle \/ Retrying
  BY VictimFacts DEF ToggleCompletes
<1>2. /\ p \notin Armed /\ vt' = vt + 1 /\ vretry' = FALSE
      /\ UNCHANGED <<status, seqIdx, cycle, finishedIgnore, pending,
                     execArmed, accessArmed>>
  BY DEF ToggleCompletes, Armed, autVars
<1>3. AutPos' = AutPos /\ Expected' = Expected /\ Other' = Other /\ Armed' = Armed
  BY <1>2 DEF AutPos, Expected, Other, FaultSeq, Armed
<1>4. ~AboutToToggle
  BY <1>2, NextToggle DEF ToggleCompletes, AboutToToggle
<1>5. Retrying /\ p = Other
  BY <1>1, <1>4, NextToggle DEF ToggleCompletes
<1>6. AutPos' = vt' /\ ~vretry'
  BY <1>1, <1>2, <1>3, <1>5 DEF Retrying
<1>7. AboutToToggle'
  BY <1>1, <1>2, <1>3, <1>5, <1>6 DEF Retrying, AboutToToggle
<1>8. Situations'
  BY <1>1, <1>2, <1>3, <1>7 DEF Situations
<1>9. IgnoreBounds' /\ NotStarted'
  BY <1>1, <1>2 DEF StepInv, IgnoreBounds, NotStarted
<1>10. QED
  BY <1>8, <1>9 DEF Rest

(***************************************************************************)
(* A data access happens only between toggles, when the victim is not on a *)
(* retry: the expected page stays armed, the access is pending.            *)
(***************************************************************************)
LEMMA DataAccessStep ==
  ASSUME StepInv, DataAccess
  PROVE  Rest'
<1>1. /\ status = "running" /\ pending = NoEvent /\ AutPos <= TotalToggles
      /\ Expected \in {CT, FE}
      /\ AboutToToggle \/ Retrying
  BY VictimFacts DEF DataAccess
<1>2. AboutToToggle
  BY <1>1 DEF DataAccess, Retrying
<1>3. PICK d \in DataPages \cap accessArmed, w \in BOOLEAN, z \in BOOLEAN :
        /\ pending' = [page |-> d, write |-> w, rz |-> z]
        /\ accessArmed' = accessArmed \ {d}
  BY DEF DataAccess
<1>4. UNCHANGED <<status, seqIdx, cycle, finishedIgnore, execArmed, vt, vretry>>
  BY DEF DataAccess, autVars
<1>5. AutPos' = AutPos /\ Expected' = Expected /\ Other' = Other
  BY <1>4 DEF AutPos, Expected, Other, FaultSeq
<1>6. Expected \in Armed' /\ Other \notin Armed'
  <2>1. Expected # d
    BY <1>1, <1>3, PagesAssumption
  <2>2. Armed' \subseteq Armed /\ (Expected \in Armed => Expected \in Armed')
    BY <1>3, <1>4, <2>1 DEF Armed
  <2>3. QED
    BY <1>2, <2>1, <2>2 DEF AboutToToggle
<1>7. AboutToToggle'
  BY <1>2, <1>3, <1>4, <1>5, <1>6 DEF AboutToToggle
<1>8. QED
  BY <1>1, <1>4, <1>5, <1>7 DEF StepInv, Rest, IgnoreBounds, NotStarted, Situations


\* StepInv is inductive: one case per action of Next.
LEMMA StepStep == StepInv /\ [Next]_vars => StepInv'
<1> SUFFICES ASSUME StepInv, [Next]_vars PROVE StepInv'
  OBVIOUS
<1>1. TypeOK'
  BY TypeStep DEF StepInv
<1>2. Rest'
  <2>1. CASE Start
    BY <2>1, StartStep
  <2>2. CASE HandleSpurious
    BY <2>2, SpuriousStep
  <2>3. CASE HandleInSequence
    BY <2>3, AdvancingStep DEF HandleInSequence, Ack
  <2>4. CASE StopLocates
    BY <2>4, AdvancingStep DEF StopLocates, StopGuard, Ack
  <2>5. CASE StopPanics \/ StopNotFound
    BY <2>5, EndStep DEF StopPanics, StopNotFound
  <2>6. CASE ReturnOnCancel \/ IoctlFails \/ PollFails \/ StartFails
    BY <2>6, EndStep DEF ReturnOnCancel, IoctlFails, PollFails, StartFails
  <2>7. CASE PollsEmpty \/ Terminated \/ UNCHANGED vars
    BY <2>7, QuietStep DEF PollsEmpty, Terminated, vars, autVars, envVars
  <2>8. CASE TriggerDone \/ TriggerFails
    BY <2>8, QuietStep DEF TriggerDone, TriggerFails, autVars
  <2>9. CASE ToggleFaults
    BY <2>9, ToggleFaultsStep
  <2>10. CASE ToggleCompletes
    BY <2>10, ToggleCompletesStep
  <2>11. CASE DataAccess
    BY <2>11, DataAccessStep
  <2>12. QED
    BY <2>1, <2>2, <2>3, <2>4, <2>5, <2>6, <2>7, <2>8, <2>9, <2>10, <2>11
       DEF Next, Automaton, Failures, Victim
<1>3. QED
  BY <1>1, <1>2 DEF StepInv, Rest

(***************************************************************************)
(* Whatever the number of iterations and the data pages, the automaton of  *)
(* recordAttackTrace is in step with the victim: while it runs, its place  *)
(* in the fault sequences is the toggle the victim is at, or one ahead     *)
(* while the victim re-executes the toggle it was stopped on.              *)
(***************************************************************************)
THEOREM StepInvariant == Spec => []StepInv
BY StepInit, StepStep, PTL DEF Spec

(***************************************************************************)
(* Hence InStep: the fault the capture loop waits for is never more than   *)
(* one toggle ahead of the victim, and never behind it.                    *)
(***************************************************************************)
THEOREM InStepHolds == Spec => []InStep
<1>1. StepInv => InStep
  BY DEF StepInv, Situations, AboutToToggle, BlockedOnToggle, Retrying, InStep
<1>2. QED
  BY StepInvariant, <1>1, PTL

(***************************************************************************)
(* In every step the automaton's position stays, or moves from the toggle  *)
(* the victim is blocked on to the next one: only HandleInSequence and     *)
(* StopLocates move it, on the expected fault.                             *)
(***************************************************************************)
LEMMA AdvanceWithVictimStep ==
  ASSUME StepInv, [Next]_vars
  PROVE  [AutPos' # AutPos => AutPos = vt /\ AutPos' = vt + 1]_vars
<1>1. ASSUME Polled, InSequence(pending), Advance
      PROVE  AutPos = vt /\ AutPos' = vt + 1
  <2>1. AutPos = vt
    BY <1>1, ExpectedFaultIsBlocked DEF BlockedOnToggle
  <2>2. AutPos' = AutPos + 1
    BY <1>1, AdvanceStep DEF StepInv
  <2>3. QED
    BY <2>1, <2>2
<1>2. ASSUME UNCHANGED <<seqIdx, cycle, finishedIgnore>>
      PROVE  AutPos' = AutPos
  BY <1>2 DEF AutPos
<1>3. CASE HandleInSequence
  BY <1>1, <1>3 DEF HandleInSequence
<1>4. CASE StopLocates
  BY <1>1, <1>4 DEF StopLocates, StopGuard
<1>5. CASE ~HandleInSequence /\ ~StopLocates
  <2>1. UNCHANGED <<seqIdx, cycle, finishedIgnore>>
    BY <1>5 DEF Next, Automaton, Failures, Victim, Start, StartFails,
                HandleSpurious, StopPanics, StopNotFound, IoctlFails, PollFails,
                ReturnOnCancel, PollsEmpty, ToggleFaults, ToggleCompletes,
                DataAccess, TriggerDone, TriggerFails, Terminated, vars, autVars
  <2>2. QED
    BY <1>2, <2>1
<1>6. QED
  BY <1>3, <1>4, <1>5

\* Whatever the number of iterations and the data pages, recordAttackTrace
\* moves along its fault sequences only on the fault of the toggle the
\* victim is blocked on, one toggle at a time (lines 129, 176-190).
THEOREM AdvancesWithVictimHolds == Spec => AdvancesWithVictim
<1>1. StepInv /\ [Next]_vars
        => [AutPos' # AutPos => AutPos = vt /\ AutPos' = vt + 1]_vars
  BY AdvanceWithVictimStep
<1>2. QED
  BY StepInvariant, <1>1, PTL DEF Spec, AdvancesWithVictim

=============================================================================
