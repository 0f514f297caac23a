--------------------------- MODULE PfToggleProofs ---------------------------
(***************************************************************************)
(* Proofs about pfToggle (PfToggle), for every number of ignored cycles,   *)
(* every number of victim iterations and every set of data pages, with     *)
(* -writeTrackInbetween on or off, under RetrackedPageRefaults = FALSE.    *)
(* The constants' assumptions are ToggleConstants, a hypothesis of every   *)
(* result.                                                                 *)
(***************************************************************************)
EXTENDS PfToggle, TLAPS

\* The victim's toggles alternate: toggle k+1 is gpa1 iff k is even.
LEMMA ToggleParity ==
  ASSUME ToggleConstants, NEW k \in Nat
  PROVE  /\ Toggle(k + 1) \in {Gpa1, Gpa2}
         /\ Toggle(k + 1) = Gpa1 <=> k % 2 = 0
         /\ Toggle(k + 2) = IF Toggle(k + 1) = Gpa1 THEN Gpa2 ELSE Gpa1
BY DEF Toggle, ToggleConstants

\* The state when main is handling a fault on a toggle page.
LEMMA ToggleFaultPending ==
  ASSUME ToggleConstants, TypeOK, VictimInv, pending \in {Gpa1, Gpa2}
  PROVE  /\ vretry
         /\ pending = Toggle(vt + 1)
         /\ pending \notin execArmed \cup accessArmed
         /\ Faulted = vt
<1>1. pending \notin DataPages /\ pending # NoEvent
  BY DEF TypeOK, ToggleConstants
<1>2. vretry
  BY <1>1 DEF VictimInv, TypeOK
<1>3. QED
  BY <1>1, <1>2 DEF VictimInv, Handled, Faulted

\* The state when main is handling a fault on a data page.
LEMMA DataFaultPending ==
  ASSUME ToggleConstants, TypeOK, VictimInv, pending \in DataPages
  PROVE  ~vretry /\ Faulted = vt
<1>1. pending \notin {Gpa1, Gpa2} /\ pending # NoEvent
  BY DEF TypeOK, ToggleConstants
<1>2. ~vretry
  BY <1>1 DEF VictimInv, Toggle
<1>3. QED
  BY <1>1, <1>2 DEF Handled, Faulted

\* The steps that only end main (before or in the loop) keep the invariant.
LEMMA StatusOnlyStep ==
  ASSUME ToggleInv,
         status \in {"init", "running"},
         status' \in {"returned", "died", "panicked"},
         UNCHANGED <<wti, gpa1CycleCount, inCycle, cycleLog, writeLog, envVars>>
  PROVE  ToggleInv'
BY DEF ToggleInv, TypeOK, VictimInv, LoopInv, ToggleWriteGPAIsWindowAccess,
       Handled, Faulted, envVars

\* Start (main tracks gpa1) keeps the invariant.
LEMMA StartStep ==
  ASSUME ToggleConstants, ToggleInv, Start
  PROVE  ToggleInv'
<1>1. vt = 0 /\ ~vretry /\ pending = NoEvent
  BY DEF Start, ToggleInv, VictimInv
<1>2. Toggle(vt' + 1) = Gpa1
  BY <1>1 DEF Start, Toggle
<1>3. QED
  BY <1>1, <1>2 DEF Start, ToggleInv, TypeOK, VictimInv, LoopInv,
                    ToggleWriteGPAIsWindowAccess, Handled, Faulted, Pages,
                    ToggleConstants


\* The victim faulting on its next toggle keeps the invariant.
LEMMA ToggleFaultsStep ==
  ASSUME ToggleConstants, ToggleInv, ToggleFaults
  PROVE  ToggleInv'
<1> USE DEF ToggleInv
<1>1. ~vretry /\ Toggle(vt + 1) \in {Gpa1, Gpa2}
  BY ToggleParity DEF ToggleFaults, VictimRuns, VictimInv, Handled, TypeOK
<1>2. UNCHANGED <<status, wti, gpa1CycleCount, inCycle, cycleLog, writeLog>>
  BY DEF ToggleFaults, loopVars
<1>3. /\ pending' = Toggle(vt + 1) /\ vretry' = TRUE /\ vt' = vt /\ winLast' = winLast
      /\ execArmed' = execArmed \ {Toggle(vt + 1)}
      /\ accessArmed' = accessArmed \ {Toggle(vt + 1)}
  BY DEF ToggleFaults
<1>4. Faulted' = Faulted /\ pending' \notin DataPages /\ pending' # NoEvent
  BY <1>1, <1>3 DEF Faulted, Handled, ToggleConstants, TypeOK
<1>5. TypeOK'
  BY <1>1, <1>2, <1>3 DEF TypeOK, Pages
<1>6. VictimInv'
  BY <1>2, <1>3, <1>4 DEF VictimInv, ToggleFaults, VictimRuns, Handled
<1>7. LoopInv' /\ ToggleWriteGPAIsWindowAccess'
  BY <1>2, <1>3, <1>4 DEF LoopInv, ToggleWriteGPAIsWindowAccess, ToggleFaults,
                          VictimRuns, ToggleConstants
<1>8. QED
  BY <1>5, <1>6, <1>7

\* The victim re-executing or executing its next toggle keeps the invariant.
LEMMA ToggleCompletesStep ==
  ASSUME ToggleConstants, ToggleInv, ToggleCompletes
  PROVE  ToggleInv'
<1> USE DEF ToggleInv
<1>1. vretry /\ Toggle(vt + 2) \in execArmed /\ Faulted = vt + 1
  BY DEF ToggleCompletes, VictimRuns, VictimInv, Handled, Faulted, TypeOK
<1>2. Toggle(vt' + 1) = Toggle(vt + 2)
  BY DEF ToggleCompletes, TypeOK
<1>3. UNCHANGED <<status, wti, gpa1CycleCount, inCycle, cycleLog, writeLog>>
  BY DEF ToggleCompletes, loopVars
<1>4. /\ vt' = vt + 1 /\ vretry' = FALSE /\ pending' = NoEvent
      /\ UNCHANGED <<execArmed, accessArmed, winLast>>
  BY DEF ToggleCompletes, VictimRuns
<1>5. Faulted' = Faulted
  BY <1>1, <1>4 DEF Faulted, Handled
<1>6. TypeOK'
  <2>1. vt' \in Nat /\ pending' \in Pages \cup {NoEvent}
    BY <1>4 DEF TypeOK
  <2>2. QED
    BY <1>3, <1>4, <2>1, Zenon DEF TypeOK
<1>7. VictimInv'
  BY <1>1, <1>2, <1>3, <1>4 DEF VictimInv, Handled
<1>8. LoopInv' /\ ToggleWriteGPAIsWindowAccess'
  BY <1>3, <1>4, <1>5 DEF LoopInv, ToggleWriteGPAIsWindowAccess, ToggleCompletes,
                          VictimRuns, ToggleConstants
<1>9. QED
  BY <1>6, <1>7, <1>8

\* A data access of the victim keeps the invariant: inside the window cycle
\* it is the new last window access, and once the write GPA is logged the
\* victim is past that cycle.
LEMMA DataAccessStep ==
  ASSUME ToggleConstants, ToggleInv, DataAccess
  PROVE  ToggleInv'
<1> USE DEF ToggleInv
<1>1. PICK d \in DataPages \cap accessArmed :
        /\ pending' = d
        /\ accessArmed' = accessArmed \ {d}
        /\ winLast' = IF InWindowCycle THEN d ELSE winLast
  BY DEF DataAccess
<1>2. /\ Faulted = vt /\ gpa1CycleCount = (vt + 1) \div 2
      /\ vretry = FALSE /\ pending = NoEvent
  BY DEF DataAccess, VictimRuns, LoopInv, Handled, Faulted, TypeOK
<1>3. UNCHANGED <<status, wti, gpa1CycleCount, inCycle, cycleLog, writeLog,
                  execArmed, vt, vretry>>
  BY DEF DataAccess, loopVars
<1>4. Faulted' = Faulted
  BY <1>1, <1>2, <1>3 DEF Faulted, Handled, ToggleConstants
<1>5. inCycle => winLast' = d
  BY <1>1, <1>2 DEF LoopInv, InWindowCycle, TypeOK, ToggleConstants
<1>6. writeLog # <<>> => winLast' = winLast
  BY <1>1, <1>2 DEF LoopInv, InWindowCycle, TypeOK, ToggleConstants
<1>7. TypeOK'
  BY <1>1, <1>3 DEF TypeOK, Pages
<1>8. VictimInv'
  BY <1>1, <1>2, <1>3 DEF VictimInv, DataAccess, VictimRuns, Handled
<1>9. LoopInv'
  BY <1>1, <1>3, <1>4, <1>5 DEF LoopInv
<1>10. ToggleWriteGPAIsWindowAccess'
  BY <1>3, <1>6 DEF ToggleWriteGPAIsWindowAccess
<1>11. QED
  BY <1>7, <1>8, <1>9, <1>10

\* A data fault is logged, in the window, as its last access.
LEMMA HandleDataStep ==
  ASSUME ToggleConstants, ToggleInv, HandleData
  PROVE  ToggleInv'
<1> USE DEF ToggleInv
<1>1. ~vretry /\ Faulted = vt
  BY DataFaultPending DEF HandleData
<1>2. inCycle => gpa1CycleCount = IgnoreCycles + 1 /\ winLast = pending
  BY DEF HandleData, LoopInv
<1>3. /\ status' = status /\ pending' = NoEvent /\ vretry' = vretry /\ vt' = vt
      /\ UNCHANGED <<wti, gpa1CycleCount, inCycle, writeLog, execArmed,
                     accessArmed, winLast>>
  BY DEF HandleData, Ack
<1>4. cycleLog' = IF inCycle THEN Append(cycleLog, pending) ELSE cycleLog
  BY DEF HandleData, LoopInv, TypeOK
<1>5. Faulted' = Faulted
  BY <1>1, <1>3 DEF Faulted, Handled
<1>6. TypeOK'
  BY <1>3, <1>4 DEF HandleData, TypeOK, Pages
<1>7. VictimInv'
  BY <1>1, <1>3 DEF HandleData, VictimInv, Handled
<1>8. LoopInv'
  BY <1>2, <1>3, <1>4, <1>5 DEF LoopInv, TypeOK, ToggleConstants
<1>9. ToggleWriteGPAIsWindowAccess'
  BY <1>3 DEF ToggleWriteGPAIsWindowAccess
<1>10. QED
  BY <1>6, <1>7, <1>8, <1>9


\* A gpa2 fault arms gpa1 for the victim's toggle after it.
LEMMA HandleGpa2Step ==
  ASSUME ToggleConstants, ToggleInv, HandleGpa2, ~RetrackedPageRefaults
  PROVE  ToggleInv'
<1> USE DEF ToggleInv
<1>1. /\ vretry /\ pending = Toggle(vt + 1) /\ Faulted = vt
      /\ pending \notin execArmed \cup accessArmed
  BY ToggleFaultPending DEF HandleGpa2
<1>2. vt % 2 = 1 /\ Toggle(vt + 2) = Gpa1
  BY <1>1, ToggleParity DEF HandleGpa2, TypeOK
<1>3. /\ status' = status /\ pending' = NoEvent /\ vretry' = TRUE /\ vt' = vt
      /\ pending = Gpa2
      /\ execArmed' = (execArmed \cup {Gpa1}) \ {Gpa2}
      /\ UNCHANGED <<wti, gpa1CycleCount, inCycle, cycleLog, writeLog,
                     accessArmed, winLast>>
  BY <1>1 DEF HandleGpa2, Ack, Arm
<1>4. Faulted' = vt + 1 /\ (vt + 2) \div 2 = (vt + 1) \div 2
  BY <1>2, <1>3 DEF Faulted, Handled, TypeOK
<1>5. TypeOK'
  BY <1>3 DEF TypeOK, Pages
<1>6. VictimInv'
  BY <1>1, <1>2, <1>3 DEF VictimInv, Handled, ToggleConstants
<1>7. LoopInv'
  BY <1>1, <1>3, <1>4 DEF LoopInv, ToggleConstants, TypeOK
<1>8. ToggleWriteGPAIsWindowAccess'
  BY <1>3 DEF ToggleWriteGPAIsWindowAccess
<1>9. QED
  BY <1>5, <1>6, <1>7, <1>8

(***************************************************************************)
(* A gpa1 fault arms gpa2 for the victim's toggle after it; with           *)
(* -writeTrackInbetween the window opens at gpa1 fault IgnoreCycles and    *)
(* closes at the next one, logging the window's last data access.          *)
(***************************************************************************)
LEMMA HandleGpa1Step ==
  ASSUME ToggleConstants, ToggleInv, HandleGpa1, ~RetrackedPageRefaults
  PROVE  ToggleInv'
<1> USE DEF ToggleInv
<1>1. /\ vretry /\ pending = Toggle(vt + 1) /\ Faulted = vt
      /\ pending \notin execArmed \cup accessArmed
  BY ToggleFaultPending DEF HandleGpa1
<1>2. PICK m \in Nat : vt = 2 * m /\ gpa1CycleCount = m
  <2>1. vt % 2 = 0
    BY <1>1, ToggleParity DEF HandleGpa1, TypeOK
  <2>2. QED
    BY <1>1, <2>1 DEF LoopInv, TypeOK
<1>3. Toggle(vt + 2) = Gpa2
  BY <1>1, <1>2, ToggleParity DEF HandleGpa1, TypeOK
<1>4. /\ status' = status /\ pending' = NoEvent /\ vretry' = TRUE /\ vt' = vt
      /\ pending = Gpa1 /\ winLast' = winLast /\ wti' = wti
      /\ gpa1CycleCount' = m + 1
      /\ execArmed' = (execArmed \cup {Gpa2}) \ {Gpa1}
      /\ accessArmed' = IF OpensWindow THEN Pages \ {Gpa1} ELSE accessArmed
  BY <1>1, <1>2 DEF HandleGpa1, Ack, Arm, TrackedAfterGpa1
<1>5. Faulted' = vt + 1 /\ gpa1CycleCount' = (Faulted' + 1) \div 2
  BY <1>2, <1>4 DEF Faulted, Handled
<1>6. VictimInv'
  BY <1>1, <1>3, <1>4 DEF VictimInv, Handled, ToggleConstants
<1>7. CASE ClosesWindow
  <2>1. inCycle /\ writeLog = <<>> /\ cycleLog # <<>>
    BY <1>2, <1>7 DEF ClosesWindow, LoopInv, HandleGpa1, TypeOK, ToggleConstants
  <2>2. cycleLog[Len(cycleLog)] = winLast
    BY <1>4, <2>1 DEF LoopInv, ToggleConstants
  <2>3. /\ writeLog' = <<cycleLog[Len(cycleLog)]>>
        /\ cycleLog' = <<>> /\ inCycle' = FALSE
    BY <1>7, <2>1 DEF HandleGpa1
  <2>4. TypeOK'
    <3>1. /\ writeLog' \in Seq(DataPages) /\ cycleLog' \in Seq(DataPages)
          /\ gpa1CycleCount' \in Nat
      BY <1>4, <2>1, <2>3 DEF TypeOK
    <3>2. execArmed' \subseteq Pages /\ accessArmed' \subseteq Pages
      BY <1>4 DEF TypeOK, Pages
    <3>3. QED
      BY <1>4, <2>3, <3>1, <3>2, Zenon DEF TypeOK
  <2>5. LoopInv'
    BY <1>2, <1>4, <1>5, <1>7, <2>3 DEF LoopInv, ClosesWindow, ToggleConstants
  <2>6. ToggleWriteGPAIsWindowAccess'
    BY <1>4, <2>2, <2>3 DEF ToggleWriteGPAIsWindowAccess
  <2>7. QED
    BY <1>6, <2>4, <2>5, <2>6
<1>8. CASE ~ClosesWindow
  <2>1. ~inCycle
    BY <1>8 DEF ClosesWindow, LoopInv
  <2>2. /\ inCycle' = OpensWindow
        /\ UNCHANGED <<writeLog, cycleLog>>
    <3>1. /\ inCycle' = (inCycle \/ OpensWindow)
          /\ UNCHANGED <<writeLog, cycleLog>>
      BY <1>8, Zenon DEF HandleGpa1
    <3>2. inCycle = FALSE
      BY <2>1 DEF TypeOK
    <3>3. QED
      BY <3>1, <3>2 DEF OpensWindow
  <2>3. OpensWindow => cycleLog = <<>>
    BY <1>2 DEF OpensWindow, LoopInv, TypeOK, ToggleConstants
  <2>4. TypeOK'
    <3>1. inCycle' \in BOOLEAN /\ gpa1CycleCount' \in Nat
      BY <1>4, <2>2 DEF OpensWindow
    <3>2. QED
      BY <1>4, <2>2, <3>1 DEF TypeOK, Pages
  <2>5. LoopInv'
    <3>1. inCycle' <=> wti' /\ gpa1CycleCount' = IgnoreCycles + 1
      <4>1. inCycle' <=> wti /\ gpa1CycleCount = IgnoreCycles
        BY <2>2, Zenon DEF OpensWindow
      <4>2. gpa1CycleCount = IgnoreCycles <=> gpa1CycleCount' = IgnoreCycles + 1
        BY <1>2, <1>4 DEF ToggleConstants
      <4>3. QED
        BY <1>4, <4>1, <4>2, Zenon
    <3>2. gpa1CycleCount' <= IgnoreCycles => cycleLog' = <<>>
      BY <1>2, <1>4, <2>2 DEF LoopInv, ToggleConstants
    <3>3. inCycle' /\ cycleLog' # <<>> /\ pending' \notin DataPages =>
            cycleLog'[Len(cycleLog')] = winLast'
      BY <2>2, <2>3
    <3>4. writeLog' # <<>> => gpa1CycleCount' >= IgnoreCycles + 2
      BY <1>2, <1>4, <2>2 DEF LoopInv, ToggleConstants
    <3>5. QED
      BY <1>4, <1>5, <3>1, <3>2, <3>3, <3>4 DEF LoopInv, ToggleConstants
  <2>6. ToggleWriteGPAIsWindowAccess'
    BY <1>4, <2>2 DEF ToggleWriteGPAIsWindowAccess
  <2>7. QED
    BY <1>6, <2>4, <2>5, <2>6
<1>9. QED
  BY <1>7, <1>8


\* The initial states satisfy the inductive invariant.
LEMMA InitToggleInv ==
  ASSUME ToggleConstants, Init
  PROVE  ToggleInv
<1>1. TypeOK
  <2>1. <<>> \in Seq(DataPages)
    OBVIOUS
  <2>2. QED
    BY <2>1 DEF Init, TypeOK
<1>2. VictimInv /\ LoopInv /\ ToggleWriteGPAIsWindowAccess
  BY DEF Init, VictimInv, LoopInv, ToggleWriteGPAIsWindowAccess, Handled, Faulted,
         ToggleConstants
<1>3. QED
  BY <1>1, <1>2 DEF ToggleInv

\* Every step of pfToggle and of the victim keeps the inductive invariant
\* when the pending page's tracking is dropped on resume.
THEOREM ToggleInvStep ==
  ASSUME ToggleConstants, ToggleInv, [Next]_vars, ~RetrackedPageRefaults
  PROVE  ToggleInv'
<1>1. CASE StartReturns \/ StartDies \/ IoctlFails \/ WaitFails \/ WindowEndPanics
  <2>1. status \in {"init", "running"} /\ status' \in {"returned", "died", "panicked"}
    BY <1>1 DEF StartReturns, StartDies, IoctlFails, WaitFails, WindowEndPanics,
                Polled
  <2>2. UNCHANGED <<wti, gpa1CycleCount, inCycle, cycleLog, writeLog, envVars>>
    BY <1>1 DEF StartReturns, StartDies, IoctlFails, WaitFails, WindowEndPanics
  <2>3. QED
    BY <2>1, <2>2, StatusOnlyStep
<1>2. CASE Start
  BY <1>2, StartStep
<1>3. CASE HandleGpa1
  BY <1>3, HandleGpa1Step
<1>4. CASE HandleGpa2
  BY <1>4, HandleGpa2Step
<1>5. CASE HandleData
  BY <1>5, HandleDataStep
<1>6. CASE ToggleFaults
  BY <1>6, ToggleFaultsStep
<1>7. CASE ToggleCompletes
  BY <1>7, ToggleCompletesStep
<1>8. CASE DataAccess
  BY <1>8, DataAccessStep
<1>9. CASE Terminated \/ UNCHANGED vars
  BY <1>9 DEF Terminated, vars, loopVars, envVars, ToggleInv, TypeOK, VictimInv,
              LoopInv, ToggleWriteGPAIsWindowAccess, Handled, Faulted
<1>10. QED
  BY <1>1, <1>2, <1>3, <1>4, <1>5, <1>6, <1>7, <1>8, <1>9 DEF Next, Loop

(***************************************************************************)
(* The "Write GPA" pfToggle logs with -writeTrackInbetween is the last    *)
(* data page the victim faulted on in its window cycle, in every reachable *)
(* state, when the hypervisor drops the tracking of the page whose fault   *)
(* is pending on resume.                                                   *)
(***************************************************************************)
THEOREM ToggleWriteGPAInvariant ==
  ASSUME ToggleConstants, ~RetrackedPageRefaults
  PROVE  Spec => []ToggleWriteGPAIsWindowAccess
<1>1. Init => ToggleInv
  BY InitToggleInv
<1>2. ToggleInv /\ [Next]_vars => ToggleInv'
  BY ToggleInvStep
<1>3. ToggleInv => ToggleWriteGPAIsWindowAccess
  BY DEF ToggleInv
<1>4. QED
  BY <1>1, <1>2, <1>3, PTL DEF Spec

=============================================================================
