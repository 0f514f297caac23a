------------------------- MODULE CaptureECDHProofs -------------------------
(***************************************************************************)
(* Proofs about the ECDH capture loop (CaptureECDH), for every number of   *)
(* ignored cycles, every number of victim iterations and every set of data *)
(* pages, under RetrackedPageRefaults = FALSE (the hypervisor reading under *)
(* which the tool works; with TRUE the window closes empty, see           *)
(* MCCaptureECDH).                                                         *)
(***************************************************************************)
EXTENDS CaptureECDH, TLAPS

USE ECDHCaptureAssumption

\* The victim's toggles alternate: toggle k+1 is gpa1 iff k is even.
LEMMA ToggleParity ==
  ASSUME NEW k \in Nat
  PROVE  /\ Toggle(k + 1) \in {Gpa1, Gpa2}
         /\ Toggle(k + 1) = Gpa1 <=> k % 2 = 0
         /\ Toggle(k + 2) = IF Toggle(k + 1) = Gpa1 THEN Gpa2 ELSE Gpa1
BY DEF Toggle

\* The state when main is handling a fault on a toggle page.
LEMMA ToggleFaultPending ==
  ASSUME TypeOK, VictimInv, status = "running", pending \in {Gpa1, Gpa2}
  PROVE  /\ vretry
         /\ pending = Toggle(vt + 1)
         /\ pending \notin execArmed \cup accessArmed
         /\ ~Handled
         /\ Len(trace) = vt
<1>1. pending \notin DataPages /\ pending # NoEvent
  BY DEF TypeOK
<1>2. vretry
  BY <1>1 DEF VictimInv, TypeOK
<1>3. QED
  BY <1>1, <1>2 DEF VictimInv, Handled

\* The state when main is handling a fault on a data page.
LEMMA DataFaultPending ==
  ASSUME TypeOK, VictimInv, status = "running", pending \in DataPages
  PROVE  /\ ~vretry
         /\ ~Handled
         /\ Len(trace) = vt
<1>1. pending \notin {Gpa1, Gpa2} /\ pending # NoEvent
  BY DEF TypeOK
<1>2. ~vretry
  BY <1>1 DEF VictimInv, Toggle
<1>3. QED
  BY <1>1, <1>2 DEF VictimInv, Handled

\* The print step appends one event, of the faulting page, after the others.
LEMMA RecordedAppends ==
  ASSUME TypeOK, NEW p \in {Gpa1, Gpa2}
  PROVE  /\ Recorded(p) \in Seq([page : {Gpa1, Gpa2}, snap : DataPages \cup {NoPage}])
         /\ Len(Recorded(p)) = Len(trace) + 1
         /\ Recorded(p)[Len(trace) + 1] =
              [page |-> p, snap |-> IF haveWriteGPA THEN writeGPA ELSE NoPage]
         /\ \A k \in 1 .. Len(trace) : Recorded(p)[k] = trace[k]
<1>1. [page |-> p, snap |-> IF haveWriteGPA THEN writeGPA ELSE NoPage]
        \in [page : {Gpa1, Gpa2}, snap : DataPages \cup {NoPage}]
  BY DEF TypeOK
<1>2. QED
  BY <1>1 DEF Recorded, TypeOK

\* The steps that only end main's loop keep the invariant.
LEMMA StatusOnlyStep ==
  ASSUME ECDHInv,
         status \in {"init", "running"},
         status' \in {"ok", "failed"},
         UNCHANGED <<gpa1Count, inCycle, cycleLog, haveWriteGPA, writeGPA, trace,
                     envVars>>
  PROVE  ECDHInv'
BY DEF ECDHInv, TypeOK, VictimInv, LoopInv, TraceLayout, WriteGPAIsWindowAccess,
       Handled, envVars

\* The trigger goroutine's steps keep the invariant.
LEMMA TriggerStep ==
  ASSUME ECDHInv, TriggerDone \/ TriggerFails
  PROVE  ECDHInv'
<1>1. /\ trig' \in {"idle", "running", "done", "failed"}
      /\ UNCHANGED <<capVars, execArmed, accessArmed, pending, vt, vretry, winLast>>
  BY DEF TriggerDone, TriggerFails
<1>2. UNCHANGED <<status, gpa1Count, inCycle, cycleLog, haveWriteGPA, writeGPA, trace>>
  BY <1>1 DEF capVars
<1>3. QED
  BY <1>1, <1>2 DEF ECDHInv, TypeOK, VictimInv, LoopInv, TraceLayout,
                    WriteGPAIsWindowAccess, Handled


\* Start (main tracks gpa1 and starts the trigger) keeps the invariant.
LEMMA StartStep ==
  ASSUME ECDHInv, Start
  PROVE  ECDHInv'
<1>1. vt = 0 /\ ~vretry /\ pending = NoEvent /\ trace = <<>>
  BY DEF Start, ECDHInv, VictimInv
<1>2. Toggle(vt' + 1) = Gpa1
  BY <1>1 DEF Start, Toggle
<1>3. QED
  BY <1>1, <1>2 DEF Start, ECDHInv, TypeOK, VictimInv, LoopInv, TraceLayout,
                    WriteGPAIsWindowAccess, Handled, Pages

\* The panic on an empty window keeps the invariant: the trace gets the
\* closing base-page event, without a snapshot, and is then frozen.
LEMMA WindowEndPanicsStep ==
  ASSUME ECDHInv, WindowEndPanics
  PROVE  ECDHInv'
<1> USE DEF ECDHInv
<1>1. /\ vretry /\ pending = Toggle(vt + 1) /\ Len(trace) = vt
      /\ pending \notin execArmed \cup accessArmed
  BY ToggleFaultPending DEF WindowEndPanics, Polled
<1>2. vt % 2 = 0
  BY <1>1, ToggleParity DEF WindowEndPanics, TypeOK
<1>3. vt = 2 * IgnoreCycles + 2 /\ ~haveWriteGPA
  BY <1>1, <1>2 DEF WindowEndPanics, ClosesWindow, LoopInv, TypeOK, Polled
<1>4. TraceLayout'
  BY <1>1, <1>3 DEF WindowEndPanics, Recorded, TraceLayout, TypeOK
<1>5. TypeOK'
  BY DEF WindowEndPanics, Recorded, TypeOK, envVars
<1>6. VictimInv' /\ LoopInv' /\ WriteGPAIsWindowAccess'
  BY <1>1 DEF WindowEndPanics, VictimInv, LoopInv, WriteGPAIsWindowAccess,
              Handled, envVars
<1>7. QED
  BY <1>4, <1>5, <1>6

\* The victim faulting on its next toggle keeps the invariant.
LEMMA ToggleFaultsStep ==
  ASSUME ECDHInv, ToggleFaults
  PROVE  ECDHInv'
<1> USE DEF ECDHInv
<1>1. ~vretry /\ Len(trace) = vt /\ Toggle(vt + 1) \in {Gpa1, Gpa2}
  BY ToggleParity DEF ToggleFaults, VictimRuns, VictimInv, Handled, TypeOK
<1>2. UNCHANGED <<status, gpa1Count, inCycle, cycleLog, haveWriteGPA, writeGPA, trace>>
  BY DEF ToggleFaults, capVars
<1>3. QED
  BY <1>1, <1>2 DEF ToggleFaults, VictimRuns, TypeOK, VictimInv, LoopInv,
                    TraceLayout, WriteGPAIsWindowAccess, Handled, Pages

\* The victim re-executing or executing its next toggle keeps the invariant.
LEMMA ToggleCompletesStep ==
  ASSUME ECDHInv, ToggleCompletes
  PROVE  ECDHInv'
<1> USE DEF ECDHInv
<1>1. vretry /\ Len(trace) = vt + 1 /\ Toggle(vt + 2) \in execArmed
  BY DEF ToggleCompletes, VictimRuns, VictimInv, Handled, TypeOK
<1>2. Toggle(vt' + 1) = Toggle(vt + 2)
  BY DEF ToggleCompletes, TypeOK
<1>3. UNCHANGED <<status, gpa1Count, inCycle, cycleLog, haveWriteGPA, writeGPA, trace>>
  BY DEF ToggleCompletes, capVars
<1>4. TypeOK'
  <2>1. vt' \in Nat
    BY DEF ToggleCompletes, TypeOK
  <2>2. QED
    BY <1>3, <2>1, Zenon DEF ToggleCompletes, TypeOK
<1>5. VictimInv'
  BY <1>1, <1>2, <1>3 DEF ToggleCompletes, VictimRuns, VictimInv, Handled
<1>6. LoopInv' /\ TraceLayout' /\ WriteGPAIsWindowAccess'
  BY <1>3 DEF ToggleCompletes, LoopInv, TraceLayout, WriteGPAIsWindowAccess
<1>7. QED
  BY <1>4, <1>5, <1>6

\* A data access of the victim keeps the invariant: inside the window cycle
\* it is the new last window access, and after it writeGPA is already fixed.
LEMMA DataAccessStep ==
  ASSUME ECDHInv, DataAccess
  PROVE  ECDHInv'
<1> USE DEF ECDHInv
<1>1. PICK d \in DataPages \cap accessArmed :
        /\ pending' = d
        /\ accessArmed' = accessArmed \ {d}
        /\ winLast' = IF InWindowCycle THEN d ELSE winLast
  BY DEF DataAccess
<1>2. Len(trace) = vt /\ gpa1Count = (vt + 1) \div 2
  BY DEF DataAccess, VictimRuns, VictimInv, LoopInv, Handled
<1>3. inCycle => winLast' = d
  BY <1>1, <1>2 DEF DataAccess, VictimRuns, LoopInv, InWindowCycle, TypeOK
<1>4. haveWriteGPA => winLast' = winLast
  BY <1>1, <1>2 DEF DataAccess, VictimRuns, LoopInv, InWindowCycle, TypeOK
<1>5. UNCHANGED <<status, gpa1Count, inCycle, cycleLog, haveWriteGPA, writeGPA, trace>>
  BY DEF DataAccess, capVars
<1>6. QED
  BY <1>1, <1>2, <1>3, <1>4, <1>5
     DEF DataAccess, VictimRuns, TypeOK, VictimInv, LoopInv, TraceLayout,
         WriteGPAIsWindowAccess, Handled


\* A data fault is logged, in the window, as its last access.
LEMMA HandleDataStep ==
  ASSUME ECDHInv, HandleData
  PROVE  ECDHInv'
<1> USE DEF ECDHInv
<1>1. ~vretry /\ ~Handled /\ Len(trace) = vt
  BY DataFaultPending DEF HandleData, Polled
<1>2. inCycle => gpa1Count = IgnoreCycles + 1 /\ winLast = pending
  BY DEF HandleData, Polled, LoopInv
<1>3. TypeOK'
  BY DEF HandleData, Ack, TypeOK, Pages
<1>4. VictimInv'
  BY <1>1 DEF HandleData, Polled, Ack, VictimInv, Handled
<1>5. LoopInv'
  BY <1>2 DEF HandleData, Polled, Ack, LoopInv, TypeOK
<1>6. TraceLayout' /\ WriteGPAIsWindowAccess'
  BY DEF HandleData, TraceLayout, WriteGPAIsWindowAccess
<1>7. QED
  BY <1>3, <1>4, <1>5, <1>6

\* A gpa2 fault is printed as the victim's next (fe64) toggle and gpa1 is
\* armed for the toggle after it.
LEMMA HandleGpa2Step ==
  ASSUME ECDHInv, HandleGpa2, ~RetrackedPageRefaults
  PROVE  ECDHInv'
<1> USE DEF ECDHInv
<1>1. /\ vretry /\ pending = Toggle(vt + 1) /\ Len(trace) = vt
      /\ pending \notin execArmed \cup accessArmed
  BY ToggleFaultPending DEF HandleGpa2, Polled
<1>2. vt % 2 = 1 /\ Toggle(vt + 2) = Gpa1
  BY <1>1, ToggleParity DEF HandleGpa2, TypeOK
<1>3. execArmed' = (execArmed \cup {Gpa1}) \ {Gpa2}
  BY DEF HandleGpa2, Arm
<1>4. /\ trace' \in Seq([page : {Gpa1, Gpa2}, snap : DataPages \cup {NoPage}])
      /\ Len(trace') = vt + 1
      /\ trace'[vt + 1] = [page |-> Gpa2, snap |-> IF haveWriteGPA THEN writeGPA ELSE NoPage]
      /\ \A k \in 1 .. vt : trace'[k] = trace[k]
  BY <1>1, RecordedAppends DEF HandleGpa2
<1>5. TypeOK'
  BY <1>3, <1>4 DEF HandleGpa2, Ack, TypeOK, Pages
<1>5a. /\ status' = "running" /\ pending' = NoEvent /\ vt' = vt
       /\ vretry' /\ Handled' /\ accessArmed' = accessArmed /\ pending = Gpa2
  BY <1>1, Zenon DEF HandleGpa2, Polled, Ack, Handled
<1>6. VictimInv'
  <2>1. Toggle(vt + 1) = Gpa2 /\ Gpa2 \notin accessArmed
    BY <1>1 DEF HandleGpa2
  <2>2. QED
    BY <1>2, <1>3, <1>4, <1>5a, <2>1 DEF VictimInv
<1>7. LoopInv'
  <2>1. /\ gpa1Count' = gpa1Count /\ inCycle' = inCycle /\ cycleLog' = cycleLog
        /\ haveWriteGPA' = haveWriteGPA /\ winLast' = winLast
    BY DEF HandleGpa2
  <2>2. /\ gpa1Count = (vt + 1) \div 2
        /\ haveWriteGPA <=> vt >= 2 * IgnoreCycles + 3
        /\ inCycle <=> gpa1Count = IgnoreCycles + 1
    BY <1>1 DEF HandleGpa2, Polled, LoopInv
  <2>3. (vt + 2) \div 2 = (vt + 1) \div 2 /\ (vt >= 2 * IgnoreCycles + 3 <=> vt + 1 >= 2 * IgnoreCycles + 3)
    BY <1>2 DEF TypeOK
  <2>4. QED
    BY <1>1, <1>4, <1>5a, <2>1, <2>2, <2>3 DEF LoopInv, TypeOK
<1>8. TraceLayout'
  <2>1. haveWriteGPA <=> vt + 1 > 2 * IgnoreCycles + 3
    BY <1>1, <1>2 DEF HandleGpa2, Polled, LoopInv, TypeOK
  <2>2. writeGPA' = writeGPA /\ Toggle(vt + 1) = Gpa2
    BY <1>1 DEF HandleGpa2
  <2>3. QED
    BY <1>1, <1>4, <2>1, <2>2 DEF TraceLayout, TypeOK
<1>9. WriteGPAIsWindowAccess'
  BY DEF HandleGpa2, WriteGPAIsWindowAccess
<1>10. QED
  BY <1>5, <1>6, <1>7, <1>8, <1>9


(***************************************************************************)
(* A gpa1 fault is printed as the victim's next (base) toggle, gpa2 is     *)
(* armed for the toggle after it, and the window opens at gpa1 fault       *)
(* IgnoreCycles, which is toggle 2 * IgnoreCycles + 1, and closes at the   *)
(* next one, toggle 2 * IgnoreCycles + 3, taking the window's last data    *)
(* access as writeGPA.                                                     *)
(***************************************************************************)
LEMMA HandleGpa1Step ==
  ASSUME ECDHInv, HandleGpa1, ~RetrackedPageRefaults
  PROVE  ECDHInv'
<1> USE DEF ECDHInv
<1>1. /\ vretry /\ pending = Toggle(vt + 1) /\ Len(trace) = vt
      /\ pending \notin execArmed \cup accessArmed
  BY ToggleFaultPending DEF HandleGpa1, Polled
<1>2. vt % 2 = 0 /\ Toggle(vt + 2) = Gpa2
  BY <1>1, ToggleParity DEF HandleGpa1, TypeOK
<1>3. /\ gpa1Count = vt \div 2
      /\ haveWriteGPA <=> vt >= 2 * IgnoreCycles + 3
      /\ inCycle <=> gpa1Count = IgnoreCycles + 1
  BY <1>1, <1>2 DEF HandleGpa1, Polled, LoopInv, TypeOK
<1>4. /\ trace' \in Seq([page : {Gpa1, Gpa2}, snap : DataPages \cup {NoPage}])
      /\ gpa1Count' \in Nat
      /\ Len(trace') = vt + 1
      /\ trace'[vt + 1] = [page |-> Gpa1, snap |-> IF haveWriteGPA THEN writeGPA ELSE NoPage]
      /\ \A k \in 1 .. vt : trace'[k] = trace[k]
  BY <1>1, RecordedAppends DEF HandleGpa1, TypeOK
<1>5. /\ status' = "running" /\ pending' = NoEvent /\ vt' = vt
      /\ vretry' = TRUE /\ Handled' /\ pending = Gpa1
      /\ cycleLog' = cycleLog /\ winLast' = winLast
      /\ gpa1Count' = gpa1Count + 1 /\ trig' = trig
      /\ execArmed' = (execArmed \cup {Gpa2}) \ {Gpa1}
      /\ accessArmed' = IF OpensWindow THEN Pages \ {Gpa1} ELSE accessArmed
  BY <1>1, Zenon DEF HandleGpa1, Polled, Ack, Handled, Arm, TrackedAfterGpa1
<1>6. CASE ClosesWindow
  <2>1. vt = 2 * IgnoreCycles + 2 /\ inCycle /\ ~haveWriteGPA /\ ~OpensWindow
    BY <1>2, <1>3, <1>6 DEF ClosesWindow, OpensWindow, TypeOK
  <2>2. cycleLog # <<>> /\ cycleLog[Len(cycleLog)] = winLast
    BY <1>5, <1>6, <2>1 DEF HandleGpa1, LoopInv
  <2>3. inCycle' = FALSE /\ haveWriteGPA' = TRUE /\ writeGPA' = cycleLog[Len(cycleLog)]
    BY <1>6, Zenon DEF HandleGpa1
  <2>4. TypeOK'
    <3>1. writeGPA' \in DataPages
      BY <2>2, <2>3 DEF TypeOK
    <3>2. accessArmed' \subseteq Pages /\ execArmed' \subseteq Pages
      BY <1>5, <2>1 DEF TypeOK, Pages
    <3>3. QED
      BY <1>4, <1>5, <2>3, <3>1, <3>2, Zenon DEF TypeOK
  <2>5. VictimInv'
    BY <1>1, <1>2, <1>4, <1>5, <2>1 DEF VictimInv
  <2>6. LoopInv'
    BY <1>3, <1>4, <1>5, <2>1, <2>3 DEF LoopInv, TypeOK
  <2>7. TraceLayout'
    BY <1>1, <1>4, <1>5, <2>1, <2>3 DEF TraceLayout, TypeOK
  <2>8. WriteGPAIsWindowAccess'
    BY <1>5, <2>2, <2>3 DEF WriteGPAIsWindowAccess
  <2>9. QED
    BY <2>4, <2>5, <2>6, <2>7, <2>8
<1>7. CASE ~ClosesWindow
  <2>1. vt # 2 * IgnoreCycles + 2 /\ ~inCycle
    BY <1>3, <1>7 DEF ClosesWindow, TypeOK
  <2>2. /\ inCycle' = OpensWindow
        /\ haveWriteGPA' = haveWriteGPA /\ writeGPA' = writeGPA
    <3>1. /\ inCycle' = (inCycle \/ OpensWindow)
          /\ haveWriteGPA' = haveWriteGPA /\ writeGPA' = writeGPA
      BY <1>7, Zenon DEF HandleGpa1
    <3>2. inCycle = FALSE
      BY <2>1 DEF TypeOK
    <3>3. QED
      BY <3>1, <3>2 DEF OpensWindow
  <2>3. OpensWindow => cycleLog = <<>>
    BY DEF OpensWindow, LoopInv, TypeOK
  <2>4. TypeOK'
    <3>1. accessArmed' \subseteq Pages /\ execArmed' \subseteq Pages
      BY <1>5 DEF TypeOK, Pages
    <3>2. inCycle' \in BOOLEAN
      BY <2>2 DEF OpensWindow
    <3>3. QED
      BY <1>4, <1>5, <2>2, <3>1, <3>2, Zenon DEF TypeOK
  <2>5. VictimInv'
    BY <1>1, <1>2, <1>4, <1>5 DEF VictimInv
  <2>6. LoopInv'
    <3>1. /\ gpa1Count' = (Len(trace') + 1) \div 2
          /\ haveWriteGPA' <=> Len(trace') >= 2 * IgnoreCycles + 3
          /\ inCycle' <=> gpa1Count' = IgnoreCycles + 1
      <4>1. PICK m \in Nat : vt = 2 * m
        BY <1>2 DEF TypeOK
      <4>2. gpa1Count = m /\ gpa1Count' = m + 1 /\ (Len(trace') + 1) \div 2 = m + 1
        BY <1>3, <1>4, <1>5, <4>1
      <4>3. haveWriteGPA' <=> Len(trace') >= 2 * IgnoreCycles + 3
        BY <1>3, <1>4, <2>1, <2>2 DEF TypeOK
      <4>4. inCycle' <=> gpa1Count' = IgnoreCycles + 1
        <5>1. inCycle' <=> gpa1Count = IgnoreCycles
          BY <2>2, Zenon DEF OpensWindow
        <5>2. gpa1Count = IgnoreCycles <=> gpa1Count' = IgnoreCycles + 1
          BY <4>2
        <5>3. QED
          BY <5>1, <5>2, Zenon
      <4>5. QED
        BY <4>2, <4>3, <4>4
    <3>2. gpa1Count' <= IgnoreCycles => cycleLog' = <<>>
      BY <1>5 DEF LoopInv, TypeOK
    <3>3. inCycle' /\ cycleLog' # <<>> /\ pending' \notin DataPages =>
            cycleLog'[Len(cycleLog')] = winLast'
      BY <1>5, <2>2, <2>3
    <3>4. QED
      BY <1>5, <3>1, <3>2, <3>3 DEF LoopInv
  <2>7. TraceLayout'
    <3>1. haveWriteGPA <=> vt + 1 > 2 * IgnoreCycles + 3
      BY <1>3, <2>1 DEF TypeOK
    <3>2. trace'[vt + 1].page = Toggle(vt + 1)
      BY <1>1, <1>4, <1>5
    <3>3. QED
      BY <1>1, <1>4, <2>2, <3>1, <3>2 DEF TraceLayout, TypeOK
  <2>8. WriteGPAIsWindowAccess'
    BY <1>5, <2>2 DEF WriteGPAIsWindowAccess
  <2>9. QED
    BY <2>4, <2>5, <2>6, <2>7, <2>8
<1>8. QED
  BY <1>6, <1>7


\* The initial state satisfies the inductive invariant.
LEMMA InitECDHInv ==
  ASSUME Init
  PROVE  ECDHInv
<1>1. TypeOK
  <2>1. /\ <<>> \in Seq([page : {Gpa1, Gpa2}, snap : DataPages \cup {NoPage}])
        /\ <<>> \in Seq(DataPages)
    OBVIOUS
  <2>2. QED
    BY <2>1 DEF Init, TypeOK
<1>2. VictimInv /\ LoopInv
  BY DEF Init, VictimInv, LoopInv, Handled
<1>3. TraceLayout /\ WriteGPAIsWindowAccess
  BY DEF Init, TraceLayout, WriteGPAIsWindowAccess
<1>4. QED
  BY <1>1, <1>2, <1>3 DEF ECDHInv

\* Every step of the capture, the victim and the trigger keeps the
\* inductive invariant when the pending page's tracking is dropped on resume.
THEOREM ECDHInvStep ==
  ASSUME ECDHInv, [Next]_vars, ~RetrackedPageRefaults
  PROVE  ECDHInv'
<1>1. CASE Start
  BY <1>1, StartStep
<1>2. CASE StartFails
  BY <1>2, StatusOnlyStep DEF StartFails, ECDHInv, VictimInv
<1>3. CASE HandleGpa1
  BY <1>3, HandleGpa1Step
<1>4. CASE HandleGpa2
  BY <1>4, HandleGpa2Step
<1>5. CASE HandleData
  BY <1>5, HandleDataStep
<1>6. CASE WindowEndPanics
  BY <1>6, WindowEndPanicsStep
<1>7. CASE IoctlFails \/ PollFails \/ ReturnOnCancel
  <2>1. status = "running" /\ status' \in {"ok", "failed"}
    BY <1>7 DEF IoctlFails, PollFails, ReturnOnCancel, Polled
  <2>2. UNCHANGED <<gpa1Count, inCycle, cycleLog, haveWriteGPA, writeGPA, trace,
                    envVars>>
    BY <1>7 DEF IoctlFails, PollFails, ReturnOnCancel
  <2>3. QED
    BY <2>1, <2>2, StatusOnlyStep
<1>8. CASE ToggleFaults
  BY <1>8, ToggleFaultsStep
<1>9. CASE ToggleCompletes
  BY <1>9, ToggleCompletesStep
<1>10. CASE DataAccess
  BY <1>10, DataAccessStep
<1>11. CASE TriggerDone \/ TriggerFails
  BY <1>11, TriggerStep
<1>12. CASE PollsEmpty \/ Terminated \/ UNCHANGED vars
  BY <1>12 DEF PollsEmpty, Terminated, vars, capVars, envVars, ECDHInv, TypeOK,
               VictimInv, LoopInv, TraceLayout, WriteGPAIsWindowAccess, Handled
<1>13. QED
  BY <1>1, <1>2, <1>3, <1>4, <1>5, <1>6, <1>7, <1>8, <1>9, <1>10, <1>11, <1>12
     DEF Next, Loop, Victim

(***************************************************************************)
(* The inductive invariant holds in every reachable state of the capture   *)
(* when the hypervisor drops the tracking of the page whose fault is       *)
(* pending on resume.                                                      *)
(***************************************************************************)
THEOREM ECDHInvariant ==
  ASSUME ~RetrackedPageRefaults
  PROVE  Spec => []ECDHInv
<1>1. Init => ECDHInv
  BY InitECDHInv
<1>2. ECDHInv /\ [Next]_vars => ECDHInv'
  BY ECDHInvStep
<1>3. QED
  BY <1>1, <1>2, PTL DEF Spec

(***************************************************************************)
(* The trace pfOSSLRecoverECDHKey reads has one event per victim toggle,   *)
(* in order, with the writeGPA snapshot on exactly the events after the   *)
(* window closes (processEvent and the print step of                       *)
(* enterFaultHandlingLoop).                                                *)
(***************************************************************************)
THEOREM TraceLayoutInvariant ==
  ASSUME ~RetrackedPageRefaults
  PROVE  Spec => []TraceLayout
<1>1. ECDHInv => TraceLayout
  BY DEF ECDHInv
<1>2. QED
  BY <1>1, ECDHInvariant, PTL

(***************************************************************************)
(* The writeGPA enterFaultHandlingLoop fixes is the victim's last data     *)
(* access in its window cycle.                                             *)
(***************************************************************************)
THEOREM WriteGPAInvariant ==
  ASSUME ~RetrackedPageRefaults
  PROVE  Spec => []WriteGPAIsWindowAccess
<1>1. ECDHInv => WriteGPAIsWindowAccess
  BY DEF ECDHInv
<1>2. QED
  BY <1>1, ECDHInvariant, PTL

-----------------------------------------------------------------------------
(***************************************************************************)
(* Refinement of ToggleRecorder. Besides ECDHInv the mapping needs that a  *)
(* toggle the victim retries is one of its TotalToggles toggles.          *)
(***************************************************************************)
RetryBound == vretry => vt < TotalToggles

\* Only the victim's toggle steps touch vt and vretry.
LEMMA RetryBoundStep ==
  ASSUME RetryBound, [Next]_vars
  PROVE  RetryBound'
<1>1. CASE ToggleFaults
  BY <1>1 DEF ToggleFaults, VictimRuns, RetryBound
<1>2. CASE ToggleCompletes
  BY <1>2 DEF ToggleCompletes, RetryBound
<1>3. CASE ~ToggleFaults /\ ~ToggleCompletes
  <2>1. vt' = vt /\ vretry' = vretry
    BY <1>3 DEF Next, Loop, Victim, Start, StartFails, HandleGpa1, HandleGpa2,
                HandleData, WindowEndPanics, IoctlFails, PollFails, ReturnOnCancel,
                PollsEmpty, DataAccess, TriggerDone, TriggerFails, Terminated,
                vars, envVars
  <2>2. QED
    BY <2>1 DEF RetryBound
<1>4. QED
  BY <1>1, <1>2, <1>3

\* The print step extends the trace's pages by the faulting page.
LEMMA RecordedPages ==
  ASSUME TypeOK, NEW p \in {Gpa1, Gpa2}
  PROVE  [k \in 1 .. Len(Recorded(p)) |-> Recorded(p)[k].page]
           = Append([k \in 1 .. Len(trace) |-> trace[k].page], p)
<1>1. /\ Len(Recorded(p)) = Len(trace) + 1
      /\ Recorded(p)[Len(trace) + 1].page = p
      /\ \A k \in 1 .. Len(trace) : Recorded(p)[k] = trace[k]
  BY RecordedAppends
<1>2. Len(trace) \in Nat
  BY DEF TypeOK
<1>3. QED
  BY <1>1, <1>2

\* A print step of a toggle fault is the recorder observing that toggle.
LEMMA PrintIsObserve ==
  ASSUME ECDHInv, RetryBound, status = "running", pending \in {Gpa1, Gpa2},
         trace' = Recorded(pending), vt' = vt
  PROVE  /\ Len([k \in 1 .. Len(trace) |-> trace[k].page]) = vt
         /\ vt < TotalToggles
         /\ [k \in 1 .. Len(trace') |-> trace'[k].page]
              = Append([k \in 1 .. Len(trace) |-> trace[k].page], Toggle(vt + 1))
<1> USE DEF ECDHInv
<1>1. vretry /\ pending = Toggle(vt + 1) /\ Len(trace) = vt
  BY ToggleFaultPending
<1>2. vt < TotalToggles
  BY <1>1 DEF RetryBound
<1>3. [k \in 1 .. Len(Recorded(pending)) |-> Recorded(pending)[k].page]
        = Append([k \in 1 .. Len(trace) |-> trace[k].page], pending)
  BY RecordedPages
<1>4. Len([k \in 1 .. Len(trace) |-> trace[k].page]) = vt
  <2>1. Len(trace) \in Nat
    BY DEF TypeOK
  <2>2. QED
    BY <1>1, <2>1
<1>5. [k \in 1 .. Len(trace') |-> trace'[k].page]
        = [k \in 1 .. Len(Recorded(pending)) |-> Recorded(pending)[k].page]
  OBVIOUS
<1>6. QED
  BY <1>1, <1>2, <1>3, <1>4, <1>5

\* Every step of the capture is a recorder step or leaves its image alone.
LEMMA RecorderStep ==
  ASSUME ECDHInv, RetryBound, [Next]_vars
  PROVE  [Recorder!Next]_Recorder!recVars
<1> DEFINE log == [k \in 1 .. Len(trace) |-> trace[k].page]
<1>1. CASE HandleGpa1 \/ HandleGpa2
  <2>1. /\ status = "running" /\ status' = "running"
        /\ pending \in {Gpa1, Gpa2} /\ trace' = Recorded(pending) /\ vt' = vt
    BY <1>1 DEF HandleGpa1, HandleGpa2, Polled
  <2>2. /\ Len(log) = vt /\ vt < TotalToggles
        /\ log' = Append(log, Toggle(vt + 1))
    BY <2>1, PrintIsObserve
  <2>3. Recorder!Observe
    BY <2>1, <2>2 DEF Recorder!Observe, Recorder!Logged, Recorder!Toggle,
                      Recorder!TotalToggles, Toggle, TotalToggles
  <2>4. QED
    BY <2>3 DEF Recorder!Next
<1>2. CASE WindowEndPanics
  <2>1. /\ status = "running" /\ status' = "panicked"
        /\ pending \in {Gpa1, Gpa2} /\ trace' = Recorded(pending) /\ vt' = vt
    BY <1>2 DEF WindowEndPanics, Polled, envVars
  <2>2. /\ Len(log) = vt /\ vt < TotalToggles
        /\ log' = Append(log, Toggle(vt + 1))
    BY <2>1, PrintIsObserve
  <2>3. log' = Recorder!Logged /\ Len(log) = vt /\ vt < Recorder!TotalToggles
    BY <2>2 DEF Recorder!Logged, Recorder!Toggle, Recorder!TotalToggles,
                Toggle, TotalToggles
  <2>4. (status \in {"init", "running"})' = FALSE
    BY <2>1
  <2>5. Recorder!Stop
    BY <2>1, <2>3, <2>4, Zenon DEF Recorder!Stop
  <2>6. QED
    BY <2>5 DEF Recorder!Next
<1>3. CASE StartFails \/ IoctlFails \/ PollFails \/ ReturnOnCancel
  <2>1. /\ status \in {"init", "running"} /\ status' \in {"ok", "failed"}
        /\ trace' = trace /\ vt' = vt
    BY <1>3 DEF StartFails, IoctlFails, PollFails, ReturnOnCancel, Polled, envVars
  <2>2. Recorder!Stop
    BY <2>1 DEF Recorder!Stop
  <2>3. QED
    BY <2>2 DEF Recorder!Next
<1>4. CASE ToggleCompletes
  <2>1. /\ status = "running" /\ pending = NoEvent
        /\ Toggle(vt + 1) \notin execArmed \cup accessArmed
        /\ vt' = vt + 1 /\ trace' = trace /\ status' = status
    BY <1>4 DEF ToggleCompletes, VictimRuns, capVars
  <2>2. vretry
    BY <2>1 DEF ECDHInv, VictimInv
  <2>3. Len(log) = vt + 1
    BY <2>1, <2>2 DEF ECDHInv, VictimInv, Handled, TypeOK
  <2>4. Recorder!Execute
    BY <2>1, <2>3 DEF Recorder!Execute
  <2>5. QED
    BY <2>4 DEF Recorder!Next
<1>5. CASE Start \/ HandleData \/ PollsEmpty \/ Terminated \/ ToggleFaults
           \/ DataAccess \/ TriggerDone \/ TriggerFails \/ UNCHANGED vars
  <2>1. /\ trace' = trace /\ vt' = vt
        /\ (status' \in {"init", "running"}) = (status \in {"init", "running"})
    BY <1>5 DEF Start, HandleData, PollsEmpty, Terminated, ToggleFaults,
                DataAccess, TriggerDone, TriggerFails, vars, capVars, envVars
  <2>2. QED
    BY <2>1 DEF Recorder!recVars
<1>6. QED
  BY <1>1, <1>2, <1>3, <1>4, <1>5 DEF Next, Loop, Victim

(***************************************************************************)
(* The ECDH capture implements ToggleRecorder under the mapping Recorder:  *)
(* the trace gains the victim's next toggle before the victim executes it  *)
(* (the print step, then the re-track of lines 104 and 116 before the     *)
(* ack), so the trace never lags the victim and stops growing when main   *)
(* returns or panics.                                                      *)
(***************************************************************************)
THEOREM CaptureImplementsRecorder ==
  ASSUME ~RetrackedPageRefaults
  PROVE  Spec => RecorderRefinement
<1>1. Init => RetryBound
  BY DEF Init, RetryBound
<1>2. RetryBound /\ [Next]_vars => RetryBound'
  BY RetryBoundStep
<1>3. Spec => [](ECDHInv /\ RetryBound)
  BY <1>1, <1>2, ECDHInvariant, PTL DEF Spec
<1>4. Init => Recorder!Init
  BY DEF Init, Recorder!Init
<1>5. ECDHInv /\ RetryBound /\ [Next]_vars => [Recorder!Next]_Recorder!recVars
  BY RecorderStep
<1>6. QED
  BY <1>3, <1>4, <1>5, PTL DEF Spec, RecorderRefinement, Recorder!Spec

=============================================================================
